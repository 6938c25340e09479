------------------------ MODULE AgentManager_proofs ------------------------
(***************************************************************************)
(* The directory of an agent is what the answers say, for any processes,   *)
(* callers, contents and number of faults.                                 *)
(***************************************************************************)
EXTENDS AgentManager, SequenceTheorems, TLAPS

Updates == {"retool", "tools", "reskill", "bind", "unbind"}
Reads == {"get", "list"}

Writings ==
  [file : {"config"}, content : Config] \cup [file : {"registry"}, content : Tools]
    \cup [file : {"core"}, content : Texts]

\* What TypeOK leaves open.
Types ==
  /\ TypeOK
  /\ disk = [f \in Files |-> disk[f]]
  /\ victims = [c \in Callers |-> victims[c]]
  /\ profile = [c \in Callers |-> profile[c]]
  /\ todo \in [Callers -> Seq(Writings)]
  /\ \A c \in Callers :
       /\ pc[c] # "idle" => op[c] \in Ops
       /\ pc[c] = "mkdir" => op[c].kind = "create"
       /\ pc[c] = "load" => op[c].kind \in Updates \cup Reads \cup {"create"}
       /\ pc[c] \in {"scan", "unlink", "rmparent"} => op[c].kind = "delete"
       /\ pc[c] \in {"write", "replace"} => op[c].kind \in Updates \cup {"create", "core"}

-------------------------------------------------------------------------------
(* Data. *)

LEMMA OpKinds ==
  ASSUME NEW o \in Ops
  PROVE  /\ o.kind \in Updates \cup Reads \cup {"create", "core", "delete"}
         /\ o.kind = "create" => o.tools \in Tools /\ o.skills \in SUBSET Skills /\ o.text \in Texts
         /\ o.kind = "retool" => o.tools \in Tools /\ o.valid \in BOOLEAN
         /\ o.kind = "tools" => o.tools \in Tools
         /\ o.kind = "reskill" => o.skills \in SUBSET Skills
         /\ o.kind \in {"bind", "unbind"} => o.skill \in Skills
         /\ o.kind = "core" => o.text \in Texts
         /\ o.kind = "get" => o.file \in Files
BY DEF Ops, Updates, Reads

LEMMA Constants ==
  /\ ProcessOf \in [Callers -> Processes] /\ MaxFaults \in Nat
  /\ None \notin Callers /\ None \notin Tools /\ None \notin Texts /\ None # Unknown
  /\ None \notin Config /\ None \notin Agent /\ Unknown \notin Agent
  /\ Callers \cap (Files \cup {"gone", "litter"}) = {}
BY AgentAssumption

\* An update of a config is a config, of an agent an agent, and agrees on both.
LEMMA PatchedConfig ==
  ASSUME NEW o \in Ops, o.kind \in Updates, NEW p \in Config
  PROVE  Patched(o, p) \in Config
BY OpKinds DEF Patched, Config, Updates

LEMMA PatchedAgent ==
  ASSUME NEW o \in Ops, o.kind \in Updates, NEW a \in Agent
  PROVE  Patched(o, a) \in Agent
BY OpKinds DEF Patched, Agent, Updates

LEMMA WritingTyped ==
  /\ \A p \in Config : WriteConfig(p) \in Writings /\ WriteRegistry(p) \in Writings
  /\ \A o \in Ops : o.kind = "create" => WriteConfig(o) \in Writings /\ WriteRegistry(o) \in Writings
  /\ \A x \in Texts : Write("core", x) \in Writings
<1>1. ASSUME NEW p \in Config PROVE WriteConfig(p) \in Writings /\ WriteRegistry(p) \in Writings
  BY DEF WriteConfig, WriteRegistry, Write, Writings, Config
<1>2. ASSUME NEW o \in Ops, o.kind = "create" PROVE WriteConfig(o) \in Writings /\ WriteRegistry(o) \in Writings
  BY <1>2, OpKinds DEF WriteConfig, WriteRegistry, Write, Writings, Config
<1>3. ASSUME NEW x \in Texts PROVE Write("core", x) \in Writings
  BY DEF Write, Writings
<1> QED
  BY <1>1, <1>2, <1>3

LEMMA WritesTyped ==
  ASSUME NEW o \in Ops, o.kind \in Updates, NEW p \in Config
  PROVE  Writes(o, p) \in Seq(Writings)
<1>1. WriteConfig(Patched(o, p)) \in Writings /\ WriteRegistry(Patched(o, p)) \in Writings
  BY PatchedConfig, WritingTyped
<1> DEFINE wc == WriteConfig(Patched(o, p))
           wr == WriteRegistry(Patched(o, p))
<1>2. <<wr, wc>> \in Seq(Writings) /\ <<wc, wr>> \in Seq(Writings) /\ <<wc>> \in Seq(Writings)
      /\ <<wr>> \in Seq(Writings) /\ <<>> \in Seq(Writings)
  BY <1>1
<1>3. Writes(o, p) \in {<<wr, wc>>, <<wc, wr>>, <<wc>>, <<wr>>, <<>>}
  BY DEF Writes, Updates
<1> QED
  BY <1>2, <1>3

LEMMA CreateWritesTyped ==
  ASSUME NEW o \in Ops, o.kind = "create"
  PROVE  <<WriteConfig(o), WriteRegistry(o), Write("core", o.text)>> \in Seq(Writings)
BY WritingTyped, OpKinds

LEMMA HeadTail ==
  ASSUME NEW s \in Seq(Writings), s # <<>>
  PROVE  /\ Head(s) \in Writings /\ Tail(s) \in Seq(Writings) /\ Len(s) \in Nat /\ Len(s) > 0
         /\ Head(s) = s[1] /\ Len(Tail(s)) = Len(s) - 1
         /\ \A i \in 1..Len(Tail(s)) : Tail(s)[i] = s[i + 1]
BY HeadTailProperties

LEMMA EffectTyped ==
  ASSUME NEW o \in Ops, NEW a \in Agent \cup {None, Unknown}
  PROVE  Effect(o, a) \in Agent \cup {None, Unknown}
<1>1. CASE o.kind = "create"
  BY <1>1, OpKinds DEF Effect, Agent
<1>2. CASE o.kind \in Updates /\ a \in Agent
  BY <1>2, PatchedAgent, Constants DEF Effect, Updates
<1>3. CASE o.kind = "core" /\ a \in Agent
  <2>1. [a EXCEPT !.text = o.text] \in Agent
    BY <1>3, OpKinds DEF Agent
  <2> QED
    BY <1>3, <2>1, Constants DEF Effect
<1>4. CASE o.kind = "delete" \/ o.kind \in Reads \/ (o.kind \in Updates \cup {"core"} /\ a \in {None, Unknown})
  BY <1>4 DEF Effect, Updates, Reads
<1> QED
  BY <1>1, <1>2, <1>3, <1>4, OpKinds
-------------------------------------------------------------------------------
(* Types. *)

LEMMA TypesInit == Init => Types
<1> SUFFICES ASSUME Init PROVE Types
  OBVIOUS
<1>1. <<>> \in Seq(Writings)
  OBVIOUS
<1>2. todo \in [Callers -> Seq(Writings)]
  BY <1>1 DEF Init
<1>3. disk = [f \in Files |-> disk[f]] /\ \A f \in Files : disk[f] = None
  BY DEF Init, Empty
<1>4. /\ dir \in BOOLEAN /\ parent \in BOOLEAN /\ (dir => parent) /\ litter \in BOOLEAN
  BY Zenon DEF Init
<1>8. /\ temps \subseteq Callers /\ writing \subseteq Callers /\ alone \subseteq Callers
      /\ told \in Agent \cup {None, Unknown} /\ faults \in 0..MaxFaults
  BY Constants DEF Init
<1>5. /\ lock \in [Processes -> Callers \cup {None}] /\ pc \in [Callers -> Labels]
      /\ op \in [Callers -> Ops \cup {None}]
  BY DEF Init, Labels
<1>6. disk["config"] = None /\ disk["registry"] = None /\ disk["core"] = None
  BY <1>3 DEF Files
<1>7. TypeOK
  BY <1>4, <1>5, <1>6, <1>8 DEF Init, TypeOK
<1> QED
  BY <1>2, <1>3, <1>7 DEF Init, Types

\* Steps that change the label, the files still to be written and the profile of
\* one call, and nothing on the disk.
LEMMA MovedTypes ==
  ASSUME Types, NEW c \in Callers, NEW label \in Labels, Goto(c, label), op[c] \in Ops,
         UNCHANGED <<disk, temps, litter, lock, op, victims, faults>>,
         dir' \in BOOLEAN, parent' \in BOOLEAN, dir' => parent',
         NEW s \in Seq(Writings), todo' = [todo EXCEPT ![c] = s],
         NEW p \in Config \cup {None}, profile' = [profile EXCEPT ![c] = p],
         label \in {"write", "replace"} => s # <<>> /\ op[c].kind \in Updates \cup {"create", "core"},
         label = "mkdir" => op[c].kind = "create",
         label = "load" => op[c].kind \in Updates \cup Reads \cup {"create"},
         label \in {"scan", "unlink", "rmparent"} => op[c].kind = "delete",
         told' \in Agent \cup {None, Unknown}, writing' \subseteq Callers, alone' \subseteq Callers
  PROVE  Types'
<1>1. pc' \in [Callers -> Labels] /\ pc'[c] = label /\ \A d \in Callers \ {c} : pc'[d] = pc[d]
  BY DEF Types, TypeOK, Goto
<1>2. todo' \in [Callers -> Seq(Writings)] /\ todo'[c] = s /\ \A d \in Callers \ {c} : todo'[d] = todo[d]
  BY DEF Types
<1>3. /\ profile' = [d \in Callers |-> profile'[d]]
      /\ \A d \in Callers : profile'[d] \in Config \cup {None}
  BY DEF Types, TypeOK
<1>4. TypeOK'
  BY <1>1, <1>2, <1>3 DEF Types, TypeOK
<1>5. ASSUME NEW d \in Callers
      PROVE  /\ pc'[d] # "idle" => op'[d] \in Ops
             /\ pc'[d] = "mkdir" => op'[d].kind = "create"
             /\ pc'[d] = "load" => op'[d].kind \in Updates \cup Reads \cup {"create"}
             /\ pc'[d] \in {"scan", "unlink", "rmparent"} => op'[d].kind = "delete"
             /\ pc'[d] \in {"write", "replace"} => op'[d].kind \in Updates \cup {"create", "core"}
  BY <1>1 DEF Types
<1> QED
  BY <1>2, <1>3, <1>4, <1>5 DEF Types

LEMMA EngageTypes ==
  ASSUME Types, NEW c \in Callers, Engage(c)
  PROVE  told' \in Agent \cup {None, Unknown} /\ writing' \subseteq Callers /\ alone' \subseteq Callers
BY DEF Types, TypeOK, Engage

LEMMA SameTypes ==
  ASSUME Types, NEW c \in Callers
  PROVE  /\ UNCHANGED todo => todo[c] \in Seq(Writings) /\ todo' = [todo EXCEPT ![c] = todo[c]]
         /\ UNCHANGED profile => profile[c] \in Config \cup {None} /\ profile' = [profile EXCEPT ![c] = profile[c]]
         /\ UNCHANGED history => /\ told' \in Agent \cup {None, Unknown}
                                 /\ writing' \subseteq Callers /\ alone' \subseteq Callers
         /\ dir \in BOOLEAN /\ parent \in BOOLEAN /\ (dir => parent)
BY DEF Types, TypeOK, history

LEMMA EnterTypes ==
  ASSUME Types, NEW c \in Callers, NEW o \in Ops, Enter(c, o)
  PROVE  Types'
<1>1. /\ pc' \in [Callers -> Labels] /\ pc'[c] = "resolve" /\ \A d \in Callers \ {c} : pc'[d] = pc[d]
      /\ op' \in [Callers -> Ops \cup {None}] /\ op'[c] = o /\ \A d \in Callers \ {c} : op'[d] = op[d]
  BY DEF Types, TypeOK, Enter, Goto, Labels
<1>2. lock' \in [Processes -> Callers \cup {None}]
  BY Constants DEF Types, TypeOK, Enter
<1>3. UNCHANGED <<diskVars, profile, todo, victims, faults, told, writing>> /\ alone' \subseteq Callers
  BY DEF Types, TypeOK, Enter
<1>4. TypeOK'
  BY <1>1, <1>2, <1>3 DEF Types, TypeOK, diskVars
<1> QED
  BY <1>1, <1>3, <1>4 DEF Types, diskVars

LEMMA LeaveTypes ==
  ASSUME Types, NEW c \in Callers, Leave(c)
  PROVE  Types'
<1>1. /\ pc' \in [Callers -> Labels] /\ pc'[c] = "idle" /\ \A d \in Callers \ {c} : pc'[d] = pc[d]
      /\ op' \in [Callers -> Ops \cup {None}] /\ \A d \in Callers \ {c} : op'[d] = op[d]
  BY DEF Types, TypeOK, Leave, Goto, Labels
<1>2. lock' \in [Processes -> Callers \cup {None}]
  BY Constants DEF Types, TypeOK, Leave
<1>0. <<>> \in Seq(Writings)
  OBVIOUS
<1>8. todo' \in [Callers -> Seq(Writings)] /\ \A d \in Callers \ {c} : todo'[d] = todo[d]
  BY <1>0 DEF Types, Leave
<1>3. /\ profile' = [d \in Callers |-> profile'[d]] /\ \A d \in Callers : profile'[d] \in Config \cup {None}
      /\ victims' = [d \in Callers |-> victims'[d]]
      /\ \A d \in Callers : victims'[d] \subseteq Callers \cup Files \cup {"gone", "litter"}
  BY DEF Types, TypeOK, Leave
<1>4. op[c] \in Ops /\ told \in Agent \cup {None, Unknown}
  BY DEF Types, TypeOK, Leave
<1>5. told' \in Agent \cup {None, Unknown}
  BY <1>4, EffectTyped DEF Leave
<1>6. UNCHANGED <<diskVars, faults>> /\ writing' \subseteq Callers /\ alone' \subseteq Callers
  BY DEF Types, TypeOK, Leave
<1>7. TypeOK'
  BY <1>1, <1>2, <1>3, <1>8, <1>5, <1>6 DEF Types, TypeOK, diskVars
<1> QED
  BY <1>1, <1>3, <1>8, <1>6, <1>7 DEF Types, diskVars

LEMMA ResolveTypes ==
  ASSUME Types, NEW c \in Callers, Resolve(c)
  PROVE  Types'
<1> DEFINE label ==
      CASE op[c].kind = "create" -> IF dir THEN "failed" ELSE "mkdir"
        [] op[c].kind = "list"   -> IF disk["config"] = None THEN "done" ELSE "load"
        [] ~dir /\ op[c].kind \notin {"create", "list"} -> "failed"
        [] dir /\ op[c].kind = "core"   -> "write"
        [] dir /\ op[c].kind = "delete" -> "scan"
        [] dir /\ op[c].kind \notin {"create", "list", "core", "delete"} -> "load"
<1>1. op[c] \in Ops /\ op[c].kind \in Updates \cup Reads \cup {"create", "core", "delete"} /\ dir \in BOOLEAN
  BY OpKinds DEF Types, TypeOK, Resolve
<1>2. Goto(c, label) /\ UNCHANGED <<diskVars, lock, op, profile, victims, faults>>
  BY DEF Resolve
<1>3. /\ label \in {"failed", "mkdir", "done", "load", "write", "scan"}
      /\ label = "mkdir" => op[c].kind = "create"
      /\ label = "load" => op[c].kind \in Updates \cup Reads
      /\ label = "scan" => op[c].kind = "delete"
      /\ label = "write" => op[c].kind = "core" /\ dir
  BY <1>1 DEF Updates, Reads
<1>4. told' \in Agent \cup {None, Unknown} /\ writing' \subseteq Callers /\ alone' \subseteq Callers
  BY EngageTypes, SameTypes DEF Resolve
<1>5. CASE dir /\ op[c].kind = "core"
  <2>1. <<Write("core", op[c].text)>> \in Seq(Writings) /\ <<Write("core", op[c].text)>> # <<>>
    BY <1>1, <1>5, OpKinds, WritingTyped
  <2>2. todo' = [todo EXCEPT ![c] = <<Write("core", op[c].text)>>]
    BY <1>5 DEF Resolve
  <2> DEFINE s == <<Write("core", op[c].text)>>
  <2>3. /\ UNCHANGED <<disk, temps, litter, lock, op, victims, faults>> /\ UNCHANGED profile
        /\ dir' \in BOOLEAN /\ parent' \in BOOLEAN /\ (dir' => parent')
    BY <1>2, SameTypes DEF diskVars
  <2>4. profile[c] \in Config \cup {None} /\ profile' = [profile EXCEPT ![c] = profile[c]]
    BY <2>3, SameTypes
  <2>5. label = "write" /\ label \in Labels
    BY <1>1, <1>5 DEF Labels
  <2>6. s \in Seq(Writings) /\ s # <<>> /\ todo' = [todo EXCEPT ![c] = s]
    BY <2>1, <2>2
  <2> HIDE DEF label, s
  <2> QED
    BY <1>1, <1>2, <1>3, <1>4, <1>5, <2>3, <2>4, <2>5, <2>6, MovedTypes
<1>6. CASE ~(dir /\ op[c].kind = "core")
  <2>1. todo' = todo
    BY <1>6 DEF Resolve
  <2>2. /\ UNCHANGED <<disk, temps, litter, lock, op, victims, faults>> /\ UNCHANGED profile
        /\ dir' \in BOOLEAN /\ parent' \in BOOLEAN /\ (dir' => parent')
    BY <1>2, SameTypes DEF diskVars
  <2>3. profile[c] \in Config \cup {None} /\ profile' = [profile EXCEPT ![c] = profile[c]]
    BY <2>2, SameTypes
  <2>4. todo[c] \in Seq(Writings) /\ todo' = [todo EXCEPT ![c] = todo[c]]
    BY <2>1, SameTypes
  <2>5. label \in Labels /\ label \notin {"write", "replace", "unlink", "rmparent"}
    BY <1>3, <1>6 DEF Labels
  <2> HIDE DEF label
  <2> QED
    BY <1>1, <1>2, <1>3, <1>4, <2>2, <2>3, <2>4, <2>5, MovedTypes
<1> QED
  BY <1>5, <1>6

LEMMA MakeDirTypes ==
  ASSUME Types, NEW c \in Callers, MakeDir(c)
  PROVE  Types'
<1>1. op[c] \in Ops /\ op[c].kind = "create" /\ profile' = profile
  BY DEF Types, TypeOK, MakeDir
<1>2. CASE dir
  BY <1>1, <1>2, SameTypes, MovedTypes DEF MakeDir, Labels
<1>3. CASE ~dir
  <2>1. <<WriteConfig(op[c]), WriteRegistry(op[c]), Write("core", op[c].text)>> \in Seq(Writings)
    BY <1>1, CreateWritesTyped
  <2>2. told' \in Agent \cup {None, Unknown} /\ writing' \subseteq Callers /\ alone' \subseteq Callers
    BY <1>3, EngageTypes DEF MakeDir
  <2>3. dir' = TRUE /\ parent' = TRUE /\ Goto(c, "write")
        /\ todo' = [todo EXCEPT ![c] = <<WriteConfig(op[c]), WriteRegistry(op[c]), Write("core", op[c].text)>>]
        /\ UNCHANGED <<disk, temps, litter, lock, op, victims, faults>>
    BY <1>3 DEF MakeDir
  <2> QED
    <3> DEFINE label == "write"
               s == <<WriteConfig(op[c]), WriteRegistry(op[c]), Write("core", op[c].text)>>
    <3>1. s # <<>> /\ s \in Seq(Writings) /\ todo' = [todo EXCEPT ![c] = s]
      BY <2>1, <2>3
    <3>3. Goto(c, label) /\ label \in Labels /\ label \notin {"mkdir", "load", "scan", "unlink", "rmparent"}
      BY <2>3 DEF Labels
    <3>4. dir' \in BOOLEAN /\ parent' \in BOOLEAN /\ (dir' => parent')
      BY <2>3
    <3>2. profile[c] \in Config \cup {None} /\ profile' = [profile EXCEPT ![c] = profile[c]]
      BY <1>1, SameTypes
    <3> HIDE DEF label, s
    <3> QED
      BY <1>1, <2>2, <2>3, <3>1, <3>2, <3>3, <3>4, MovedTypes
<1> QED
  BY <1>2, <1>3

LEMMA LoadTypes ==
  ASSUME Types, NEW c \in Callers, Load(c)
  PROVE  Types'
<1> DEFINE content == disk[IF op[c].kind = "get" THEN op[c].file ELSE "config"]
<1>1. op[c] \in Ops /\ op[c].kind \in Updates \cup Reads \cup {"create"}
      /\ UNCHANGED <<diskVars, lock, op, victims, faults, history>>
  BY DEF Types, TypeOK, Load
<1>2. CASE content = None \/ op[c].kind \in {"get", "list", "create"}
  <2>1. UNCHANGED <<profile, todo>> /\ (Goto(c, "failed") \/ Goto(c, "done"))
    BY <1>2 DEF Load
  <2> QED
    BY <1>1, <2>1, SameTypes, MovedTypes DEF Labels, diskVars
<1>3. CASE content # None /\ op[c].kind \in Updates
  <2>1. content = disk["config"] /\ content \in Config
    BY <1>3 DEF Types, TypeOK, Updates
  <2>2. Writes(op[c], content) \in Seq(Writings)
    BY <1>1, <1>3, <2>1, WritesTyped
  <2>3. /\ profile' = [profile EXCEPT ![c] = content]
        /\ todo' = [todo EXCEPT ![c] = Writes(op[c], content)]
        /\ Goto(c, IF Writes(op[c], content) = <<>> THEN "done" ELSE "write")
    BY <1>3 DEF Load, Updates
  <2> HIDE DEF content
  <2> QED
    BY <1>1, <1>3, <2>1, <2>2, <2>3, SameTypes, MovedTypes DEF Labels, diskVars
<1> QED
  BY <1>1, <1>2, <1>3 DEF Reads

\* Steps that change the disk, the label of one call and what it has yet to do.
DiskTypes ==
  /\ dir \in BOOLEAN /\ parent \in BOOLEAN /\ (dir => parent) /\ litter \in BOOLEAN
  /\ disk = [f \in Files |-> disk[f]]
  /\ disk["config"] \in Config \cup {None}
  /\ disk["registry"] \in Tools \cup {None}
  /\ disk["core"] \in Texts \cup {None}
  /\ temps \subseteq Callers /\ faults \in 0..MaxFaults
  /\ victims = [d \in Callers |-> victims[d]]
  /\ \A d \in Callers : victims[d] \subseteq Callers \cup Files \cup {"gone", "litter"}
  /\ told \in Agent \cup {None, Unknown}

LEMMA TypesOfDisk == Types => DiskTypes
BY DEF Types, TypeOK, DiskTypes

LEMMA StepTypes ==
  ASSUME Types, DiskTypes', NEW c \in Callers, NEW label \in Labels, Goto(c, label), op[c] \in Ops,
         UNCHANGED <<lock, op, profile, writing, alone>>,
         NEW s \in Seq(Writings), todo' = [todo EXCEPT ![c] = s],
         label \in {"write", "replace"} => s # <<>> /\ op[c].kind \in Updates \cup {"create", "core"},
         label = "mkdir" => op[c].kind = "create",
         label = "load" => op[c].kind \in Updates \cup Reads \cup {"create"},
         label \in {"scan", "unlink", "rmparent"} => op[c].kind = "delete"
  PROVE  Types'
<1>1. pc' \in [Callers -> Labels] /\ pc'[c] = label /\ \A d \in Callers \ {c} : pc'[d] = pc[d]
  BY DEF Types, TypeOK, Goto
<1>2. todo' \in [Callers -> Seq(Writings)] /\ todo'[c] = s /\ \A d \in Callers \ {c} : todo'[d] = todo[d]
  BY DEF Types
<1>3. TypeOK'
  BY <1>1, <1>2 DEF Types, TypeOK, DiskTypes
<1>4. ASSUME NEW d \in Callers
      PROVE  /\ pc'[d] # "idle" => op'[d] \in Ops
             /\ pc'[d] = "mkdir" => op'[d].kind = "create"
             /\ pc'[d] = "load" => op'[d].kind \in Updates \cup Reads \cup {"create"}
             /\ pc'[d] \in {"scan", "unlink", "rmparent"} => op'[d].kind = "delete"
             /\ pc'[d] \in {"write", "replace"} => op'[d].kind \in Updates \cup {"create", "core"}
  BY <1>1 DEF Types
<1> QED
  BY <1>2, <1>3, <1>4 DEF Types, DiskTypes

LEMMA MakeTempTypes ==
  ASSUME Types, NEW c \in Callers, MakeTemp(c)
  PROVE  Types'
<1>1. op[c] \in Ops /\ op[c].kind \in Updates \cup {"create", "core"} /\ todo[c] # <<>>
  BY DEF Types, TypeOK, MakeTemp
<1>2. todo[c] \in Seq(Writings) /\ todo' = [todo EXCEPT ![c] = todo[c]]
  BY SameTypes DEF MakeTemp
<1>3. UNCHANGED <<lock, op, profile, writing, alone>>
  BY DEF MakeTemp, history
<1>4. PICK label \in {"replace", "failed"} : Goto(c, label)
  BY DEF MakeTemp
<1>5. DiskTypes'
  <2>1. (dir' = TRUE /\ parent' = TRUE) \/ (dir' = dir /\ parent' = parent)
    BY DEF MakeTemp
  <2>2. dir \in BOOLEAN /\ parent \in BOOLEAN /\ (dir => parent)
    BY Zenon, TypesOfDisk DEF DiskTypes
  <2>3. dir' \in BOOLEAN /\ parent' \in BOOLEAN /\ (dir' => parent')
    <3>1. CASE dir' = TRUE /\ parent' = TRUE
      BY <3>1
    <3>2. CASE dir' = dir /\ parent' = parent
      BY <2>2, <3>2
    <3> QED
      BY <2>1, <3>1, <3>2
  <2>4. temps' \subseteq Callers
    BY TypesOfDisk DEF MakeTemp, DiskTypes
  <2> QED
    BY <2>3, <2>4, TypesOfDisk DEF MakeTemp, DiskTypes, history
<1>6. label \in Labels /\ label \notin {"mkdir", "load", "scan", "unlink", "rmparent"}
  BY DEF Labels
<1> QED
  BY <1>1, <1>2, <1>3, <1>4, <1>5, <1>6, StepTypes

LEMMA ForgetTypes ==
  ASSUME Types, NEW c \in Callers, Forget(c, "gone")
  PROVE  /\ victims' = [d \in Callers |-> victims'[d]]
         /\ \A d \in Callers : victims'[d] \subseteq Callers \cup Files \cup {"gone", "litter"}
<1>1. \A d \in Callers : victims[d] \subseteq Callers \cup Files \cup {"gone", "litter"}
  BY DEF Types, TypeOK
<1> QED
  BY <1>1 DEF Forget

LEMMA ReplaceTypes ==
  ASSUME Types, NEW c \in Callers, Replace(c)
  PROVE  Types'
<1>1. /\ op[c] \in Ops /\ op[c].kind \in Updates \cup {"create", "core"}
      /\ todo[c] # <<>> /\ todo[c] \in Seq(Writings)
      /\ UNCHANGED <<lock, op, profile, writing, alone>>
  BY DEF Types, TypeOK, Replace
<1>2. CASE c \in temps
  <2> DEFINE w == Head(todo[c])
             label == IF Tail(todo[c]) # <<>> THEN "write" ELSE Afterwards(op[c])
             s == Tail(todo[c])
  <2>1. w \in Writings /\ s \in Seq(Writings)
    BY <1>1, HeadTail
  <2>2. /\ disk' = [disk EXCEPT ![w.file] = w.content] /\ temps' = temps \ {c} /\ Forget(c, "gone")
        /\ todo' = [todo EXCEPT ![c] = s] /\ Goto(c, label)
        /\ told' = IF pc'[c] = "failed" THEN Unknown ELSE told
        /\ UNCHANGED <<dir, parent, litter, faults>>
    BY <1>2 DEF Replace
  <2>3. label \in {"write", "load", "failed", "done"} /\ (label = "write" => s # <<>>)
        /\ (label = "load" => op[c].kind = "create")
    BY DEF Afterwards
  <2> HIDE DEF label, s, w
  <2>4. /\ disk' = [f \in Files |-> disk'[f]]
        /\ disk'["config"] \in Config \cup {None}
        /\ disk'["registry"] \in Tools \cup {None}
        /\ disk'["core"] \in Texts \cup {None}
    BY <2>1, <2>2 DEF Types, TypeOK, Writings, Files
  <2>5. DiskTypes'
    BY <2>2, <2>4, ForgetTypes, TypesOfDisk DEF DiskTypes
  <2> QED
    BY <1>1, <2>1, <2>2, <2>3, <2>5, StepTypes DEF Labels
<1>3. CASE c \notin temps
  <2>1. Goto(c, "failed") /\ UNCHANGED <<disk, temps, victims, todo, told, dir, parent, litter, faults>>
    BY <1>3 DEF Replace
  <2>2. DiskTypes'
    BY <2>1, TypesOfDisk DEF DiskTypes
  <2>3. todo[c] \in Seq(Writings) /\ todo' = [todo EXCEPT ![c] = todo[c]]
    BY <2>1, SameTypes
  <2> QED
    BY <1>1, <2>1, <2>2, <2>3, StepTypes DEF Labels
<1> QED
  BY <1>2, <1>3

LEMMA WriteFailsTypes ==
  ASSUME Types, NEW c \in Callers, WriteFails(c)
  PROVE  Types'
<1>1. /\ op[c] \in Ops /\ UNCHANGED <<lock, op, profile, writing, alone>>
      /\ Goto(c, "failed") /\ told' = Unknown /\ Forget(c, "gone")
      /\ temps' = temps \ {c} /\ UNCHANGED <<dir, parent, disk, litter, todo>>
  BY DEF Types, TypeOK, WriteFails
<1>2. faults' \in 0..MaxFaults
  BY Constants DEF Types, TypeOK, WriteFails
<1>3. DiskTypes'
  BY <1>1, <1>2, ForgetTypes, TypesOfDisk DEF DiskTypes
<1>4. todo[c] \in Seq(Writings) /\ todo' = [todo EXCEPT ![c] = todo[c]]
  BY <1>1, SameTypes
<1> QED
  BY <1>1, <1>3, <1>4, StepTypes DEF Labels

\* The steps of rmtree.
LEMMA RmtreeTypes ==
  ASSUME Types, NEW c \in Callers, Scan(c) \/ Unlink(c) \/ RemoveDir(c) \/ RemoveParent(c)
  PROVE  Types'
<1>1. /\ op[c] \in Ops /\ op[c].kind = "delete" /\ UNCHANGED <<lock, op, profile, writing, alone, todo, faults, told>>
      /\ \E label \in {"scan", "unlink", "rmparent", "done", "failed"} : Goto(c, label)
  <2>1. op[c] \in Ops /\ op[c].kind = "delete"
    BY DEF Types, TypeOK, Scan, Unlink, RemoveDir, RemoveParent
  <2>2. UNCHANGED <<lock, op, profile, writing, alone, todo, faults, told>>
    BY DEF Scan, Unlink, RemoveDir, RemoveParent, history
  <2>3. pc' = pc => Goto(c, pc[c])
    BY DEF Types, TypeOK, Goto
  <2>4. \E label \in {"scan", "unlink", "rmparent", "done", "failed"} : Goto(c, label)
    BY <2>3 DEF Scan, Unlink, RemoveDir, RemoveParent
  <2> QED
    BY <2>1, <2>2, <2>4
<1>2. PICK label \in {"scan", "unlink", "rmparent", "done", "failed"} : Goto(c, label)
  BY <1>1
<1>3. DiskTypes'
  <2>1. CASE Scan(c)
    <3>1. UNCHANGED <<dir, parent, disk, temps, litter>>
          /\ victims' = [victims EXCEPT ![c] = FilesThere \cup temps \cup Litter]
      BY <2>1 DEF Scan, diskVars
    <3>2. FilesThere \cup temps \cup Litter \subseteq Callers \cup Files \cup {"gone", "litter"}
      BY TypesOfDisk DEF DiskTypes, FilesThere, Litter
    <3> QED
      BY <1>1, <3>1, <3>2, TypesOfDisk DEF DiskTypes
  <2>2. CASE Unlink(c)
    <3>1. PICK v \in victims[c] :
            /\ victims' = [victims EXCEPT ![c] = @ \ {v}]
            /\ IF v \in FilesThere \cup temps \cup Litter
               THEN /\ disk' = [f \in Files |-> IF f = v THEN None ELSE disk[f]]
                    /\ temps' = temps \ {v}
                    /\ litter' = (litter /\ v # "litter")
               ELSE UNCHANGED <<disk, temps, litter>>
      BY <2>2 DEF Unlink
    <3>2. UNCHANGED <<dir, parent>>
      BY <2>2 DEF Unlink
    <3>3. litter' \in BOOLEAN
      BY Zenon, <3>1, TypesOfDisk DEF DiskTypes
    <3>4. /\ disk' = [f \in Files |-> disk'[f]]
          /\ disk'["config"] \in Config \cup {None}
          /\ disk'["registry"] \in Tools \cup {None}
          /\ disk'["core"] \in Texts \cup {None}
          /\ temps' \subseteq Callers
      BY <3>1, TypesOfDisk DEF DiskTypes, Files
    <3>5. /\ victims' = [d \in Callers |-> victims'[d]]
          /\ \A d \in Callers : victims'[d] \subseteq Callers \cup Files \cup {"gone", "litter"}
      BY <3>1, TypesOfDisk DEF DiskTypes
    <3> QED
      BY <1>1, <3>2, <3>3, <3>4, <3>5, TypesOfDisk DEF DiskTypes
  <2>3. CASE RemoveDir(c)
    <3>1. UNCHANGED <<parent, disk, temps, litter, victims>> /\ (dir' = dir \/ dir' = FALSE)
      BY <2>3 DEF RemoveDir
    <3>2. dir' \in BOOLEAN /\ parent' \in BOOLEAN /\ (dir' => parent')
      <4>1. CASE dir' = dir
        BY <3>1, <4>1, TypesOfDisk DEF DiskTypes
      <4>2. CASE dir' = FALSE
        BY <3>1, <4>2, TypesOfDisk DEF DiskTypes
      <4> QED
        BY <3>1, <4>1, <4>2
    <3> QED
      BY <1>1, <3>1, <3>2, TypesOfDisk DEF DiskTypes
  <2>4. CASE RemoveParent(c)
    <3>1. UNCHANGED <<dir, disk, temps, litter, victims>> /\ (parent' = parent \/ (parent' = FALSE /\ ~dir))
      BY <2>4 DEF RemoveParent
    <3>2. dir' \in BOOLEAN /\ parent' \in BOOLEAN /\ (dir' => parent')
      <4>1. CASE parent' = parent
        BY <3>1, <4>1, TypesOfDisk DEF DiskTypes
      <4>2. CASE parent' = FALSE /\ ~dir
        BY <3>1, <4>2, TypesOfDisk DEF DiskTypes
      <4> QED
        BY <3>1, <4>1, <4>2
    <3> QED
      BY <1>1, <3>1, <3>2, TypesOfDisk DEF DiskTypes
  <2> QED
    BY <2>1, <2>2, <2>3, <2>4
<1>4. todo[c] \in Seq(Writings) /\ todo' = [todo EXCEPT ![c] = todo[c]]
  BY <1>1, SameTypes
<1>5. label \in Labels /\ label \notin {"mkdir", "load", "write", "replace"}
  BY DEF Labels
<1>6. UNCHANGED <<lock, op, profile, writing, alone>> /\ Goto(c, label)
  BY <1>1, <1>2
<1> QED
  BY <1>1, <1>3, <1>4, <1>5, <1>6, StepTypes

LEMMA CrashTypes ==
  ASSUME Types, NEW p \in Processes, Crash(p)
  PROVE  Types'
<1> DEFINE dead == {c \in Callers : ProcessOf[c] = p}
<1>1. /\ pc' = [c \in Callers |-> IF c \in dead THEN "idle" ELSE pc[c]]
      /\ op' = [c \in Callers |-> IF c \in dead THEN None ELSE op[c]]
      /\ profile' = [c \in Callers |-> IF c \in dead THEN None ELSE profile[c]]
      /\ todo' = [c \in Callers |-> IF c \in dead THEN <<>> ELSE todo[c]]
  BY DEF Crash
<1>2. pc' \in [Callers -> Labels] /\ op' \in [Callers -> Ops \cup {None}]
  BY <1>1 DEF Types, TypeOK, Labels
<1>0. <<>> \in Seq(Writings)
  OBVIOUS
<1>3. todo' \in [Callers -> Seq(Writings)]
  BY <1>0, <1>1 DEF Types
<1>4. /\ profile' = [c \in Callers |-> profile'[c]] /\ \A c \in Callers : profile'[c] \in Config \cup {None}
  BY <1>1 DEF Types, TypeOK
<1>5. lock' \in [Processes -> Callers \cup {None}]
  BY DEF Types, TypeOK, Crash
<1>6. DiskTypes'
  <2>1. litter' \in BOOLEAN
    BY Zenon DEF Crash
  <2>2. faults' \in 0..MaxFaults
    BY Constants DEF Types, TypeOK, Crash
  <2>3. /\ victims' = [d \in Callers |-> victims'[d]]
        /\ \A d \in Callers : victims'[d] \subseteq Callers \cup Files \cup {"gone", "litter"}
    BY TypesOfDisk DEF Crash, DiskTypes
  <2>4. temps' \subseteq Callers /\ told' \in Agent \cup {None, Unknown} /\ UNCHANGED <<dir, parent, disk>>
    BY TypesOfDisk DEF Crash, DiskTypes
  <2> QED
    BY <2>1, <2>2, <2>3, <2>4, TypesOfDisk DEF DiskTypes
<1>7. writing' \subseteq Callers /\ alone' \subseteq Callers
  BY DEF Crash, Types, TypeOK
<1>8. ASSUME NEW d \in Callers
      PROVE  /\ pc'[d] # "idle" => op'[d] \in Ops
             /\ pc'[d] = "mkdir" => op'[d].kind = "create"
             /\ pc'[d] = "load" => op'[d].kind \in Updates \cup Reads \cup {"create"}
             /\ pc'[d] \in {"scan", "unlink", "rmparent"} => op'[d].kind = "delete"
             /\ pc'[d] \in {"write", "replace"} => op'[d].kind \in Updates \cup {"create", "core"} /\ todo'[d] # <<>>
  BY <1>1 DEF Types, TypeOK
<1>9. TypeOK'
  BY <1>2, <1>4, <1>5, <1>6, <1>7, <1>8 DEF TypeOK, DiskTypes
<1> QED
  BY <1>3, <1>4, <1>6, <1>8, <1>9 DEF Types, DiskTypes

LEMMA TypesNext == Types /\ [Next]_vars => Types'
<1> SUFFICES ASSUME Types, [Next]_vars PROVE Types'
  OBVIOUS
<1>1. ASSUME NEW c \in Callers, Step(c) PROVE Types'
  BY <1>1, ResolveTypes, MakeDirTypes, LoadTypes, MakeTempTypes, ReplaceTypes, WriteFailsTypes,
     RmtreeTypes, LeaveTypes DEF Step
<1>2. ASSUME UNCHANGED vars PROVE Types'
  BY <1>2 DEF Types, TypeOK, vars, diskVars, callVars, history
<1> QED
  BY <1>1, <1>2, EnterTypes, CrashTypes DEF Next

\* Every variable keeps its type: whatever a call has read, it has written nothing
\* that is not a config, a registry or a core file.
THEOREM AgentTyped == Spec => []TypeOK
<1>1. Types => TypeOK
  BY DEF Types
<1> QED
  BY TypesInit, TypesNext, <1>1, PTL DEF Spec
-------------------------------------------------------------------------------
(* Who is inside, who writes, and whom no writer of another process overlaps. *)

Busy == {"write", "replace", "scan", "unlink", "rmparent"}

Locked == \A c \in Callers : pc[c] # "idle" => lock[ProcessOf[c]] = c

Physical == ~dir => FilesThere = {} /\ temps = {} /\ ~litter

WriterAt(c) ==
  /\ c \in writing => pc[c] \notin {"idle", "resolve", "mkdir"} /\ op[c].kind \notin Reads
  /\ pc[c] \in Busy => c \in writing
  /\ pc[c] \in {"load", "done"} /\ op[c].kind \notin Reads => c \in writing
  /\ c \in temps => pc[c] = "replace"
Writers == \A c \in Callers : WriterAt(c)

Alone == \A c \in alone : pc[c] # "idle" /\ writing \cap Elsewhere(c) = {}

Frame == Locked /\ Physical /\ Writers /\ Alone

\* A call that writes and that no writer of another process overlaps is the only
\* one of either kind.
LEMMA LoneWriter ==
  ASSUME Types, Locked, Writers, Alone, NEW c \in alone \cap writing
  PROVE  alone = {c} /\ writing = {c} /\ temps \subseteq {c}
<1>1. c \in Callers /\ writing \subseteq Callers /\ alone \subseteq Callers /\ temps \subseteq Callers
  BY DEF Types, TypeOK
<1>2. ASSUME NEW d \in Callers, pc[d] # "idle", d \notin Elsewhere(c) PROVE d = c
  BY <1>1, <1>2 DEF Locked, Alone, Elsewhere
<1>3. ASSUME NEW d \in writing PROVE d = c
  BY <1>1, <1>2, <1>3 DEF Writers, WriterAt, Alone
<1>4. ASSUME NEW d \in alone PROVE d = c
  BY <1>1, <1>2, <1>4 DEF Alone, Elsewhere
<1>5. ASSUME NEW d \in temps PROVE d = c
  BY <1>1, <1>3, <1>5 DEF Writers, WriterAt, Busy
<1> QED
  BY <1>3, <1>4, <1>5

LEMMA FrameInit == Init => Frame
BY DEF Init, Frame, Locked, Physical, Writers, WriterAt, Alone, FilesThere, Empty, Busy

\* A step of one call leaves the others where they are.
LEMMA OthersSame ==
  ASSUME Types, NEW c \in Callers, Step(c), NEW d \in Callers \ {c}
  PROVE  /\ pc'[d] = pc[d] /\ op'[d] = op[d] /\ todo'[d] = todo[d]
         /\ d \in writing' <=> d \in writing
         /\ d \in temps' => d \in temps
         /\ d \in alone' => d \in alone
<1>1. CASE Resolve(c) \/ MakeDir(c) \/ Load(c)
  BY <1>1 DEF Resolve, MakeDir, Load, Goto, Engage, Types, TypeOK, diskVars, history
<1>2. CASE MakeTemp(c) \/ Replace(c) \/ WriteFails(c)
  BY <1>2 DEF MakeTemp, Replace, WriteFails, Goto, Types, TypeOK, diskVars, history
<1>3. CASE Scan(c) \/ Unlink(c) \/ RemoveDir(c) \/ RemoveParent(c)
  BY <1>3 DEF Scan, Unlink, RemoveDir, RemoveParent, Goto, Types, TypeOK, diskVars, history
<1>4. CASE Leave(c)
  BY <1>4 DEF Leave, Goto, Types, TypeOK, diskVars
<1> QED
  BY <1>1, <1>2, <1>3, <1>4 DEF Step

LEMMA LockedStep ==
  ASSUME Types, Locked, NEW c \in Callers, Step(c)
  PROVE  Locked'
<1>1. CASE Leave(c)
  <2>1. lock' = [lock EXCEPT ![ProcessOf[c]] = None] /\ pc[c] # "idle" /\ pc'[c] = "idle"
    BY <1>1 DEF Leave, Goto, Types, TypeOK
  <2> QED
    BY <2>1, OthersSame, Constants DEF Locked, Types, TypeOK
<1>2. CASE ~Leave(c)
  <2>1. lock' = lock /\ pc[c] # "idle"
    BY <1>2 DEF Step, Resolve, MakeDir, Load, MakeTemp, Replace, WriteFails, Scan, Unlink,
                RemoveDir, RemoveParent
  <2> QED
    BY <2>1, OthersSame DEF Locked
<1> QED
  BY <1>1, <1>2

LEMMA PhysicalStep ==
  ASSUME Types, Physical, Writers, NEW c \in Callers, Step(c)
  PROVE  Physical'
<1>1. CASE UNCHANGED <<dir, disk, temps, litter>>
  BY <1>1 DEF Physical, FilesThere
<1>2. CASE dir' = TRUE
  BY <1>2 DEF Physical
<1>3. CASE Replace(c) /\ c \in temps
  <2>1. dir /\ dir' = dir
    BY <1>3 DEF Physical, Replace
  <2> QED
    BY <2>1 DEF Physical
<1>4. CASE WriteFails(c)
  <2>1. dir' = dir /\ disk' = disk /\ litter' = litter /\ temps' \subseteq temps
    BY <1>4 DEF WriteFails
  <2> QED
    BY <2>1 DEF Physical, FilesThere
<1>5. CASE Unlink(c)
  <2>1. dir' = dir /\ temps' \subseteq temps /\ (litter' => litter)
    BY <1>5 DEF Unlink
  <2>2. FilesThere' \subseteq FilesThere
    BY <1>5 DEF Unlink, FilesThere
  <2> QED
    BY <2>1, <2>2 DEF Physical
<1>6. CASE RemoveDir(c) /\ dir /\ FilesThere \cup temps \cup Litter = {}
  <2>1. ~litter /\ FilesThere = {} /\ temps = {} /\ UNCHANGED <<disk, temps, litter>>
    BY <1>6 DEF Litter, RemoveDir
  <2> QED
    BY <2>1 DEF Physical, FilesThere
<1>7. UNCHANGED <<dir, disk, temps, litter>> \/ dir' = TRUE \/ (Replace(c) /\ c \in temps) \/ WriteFails(c) \/ Unlink(c)
      \/ (RemoveDir(c) /\ dir /\ FilesThere \cup temps \cup Litter = {})
  BY DEF Step, Resolve, MakeDir, Load, MakeTemp, Replace, Scan, RemoveDir, RemoveParent, Leave, diskVars
<1> QED
  BY <1>1, <1>2, <1>3, <1>4, <1>5, <1>6, <1>7

LEMMA WritersStep ==
  ASSUME Types, Writers, NEW c \in Callers, Step(c)
  PROVE  Writers'
<1>1. ASSUME NEW d \in Callers \ {c} PROVE WriterAt(d)'
  BY <1>1, OthersSame DEF Writers, WriterAt
<1> SUFFICES WriterAt(c)'
  BY <1>1 DEF Writers
<1>0. /\ WriterAt(c) /\ pc \in [Callers -> Labels] /\ op[c] \in Ops
      /\ writing \subseteq Callers /\ temps \subseteq Callers
      /\ pc[c] = "mkdir" => op[c].kind = "create"
      /\ pc[c] \in {"scan", "unlink", "rmparent"} => op[c].kind = "delete"
  BY DEF Writers, Types, TypeOK, Step, Resolve, MakeDir, Load, MakeTemp, Replace, WriteFails,
         Scan, Unlink, RemoveDir, RemoveParent, Leave
<1>2. op[c].kind \in Updates \cup Reads \cup {"create", "core", "delete"}
  BY <1>0, OpKinds
<1>3. CASE Resolve(c)
  BY <1>0, <1>2, <1>3 DEF Resolve, Goto, Engage, WriterAt, Busy, Reads, Updates, diskVars, history
<1>4. CASE MakeDir(c)
  BY <1>0, <1>2, <1>4 DEF MakeDir, Goto, Engage, WriterAt, Busy, Reads, history
<1>5. CASE Load(c)
  BY <1>0, <1>2, <1>5 DEF Load, Goto, WriterAt, Busy, Reads, diskVars, history
<1>6. CASE MakeTemp(c) \/ Replace(c) \/ WriteFails(c)
  <2>1. c \in writing /\ c \in writing' /\ op' = op
    BY <1>0, <1>6 DEF MakeTemp, Replace, WriteFails, WriterAt, Busy, history
  <2>2. pc'[c] \in {"write", "replace", "load", "done", "failed"}
    BY <1>0, <1>6 DEF MakeTemp, Replace, WriteFails, Goto, Afterwards
  <2>3. c \in temps' => pc'[c] = "replace"
    BY <1>0, <1>6 DEF MakeTemp, Replace, WriteFails, Goto, WriterAt
  <2> QED
    BY <1>0, <2>1, <2>2, <2>3 DEF WriterAt
<1>7. CASE Scan(c) \/ Unlink(c) \/ RemoveDir(c) \/ RemoveParent(c)
  <2>1. c \in writing /\ c \in writing' /\ op' = op /\ c \notin temps
    BY <1>0, <1>7 DEF Scan, Unlink, RemoveDir, RemoveParent, WriterAt, Busy, history
  <2>2. pc'[c] \in {"scan", "unlink", "rmparent", "done", "failed"} /\ temps' \subseteq temps
    BY <1>0, <1>7 DEF Scan, Unlink, RemoveDir, RemoveParent, Goto, diskVars
  <2> QED
    BY <1>0, <2>1, <2>2 DEF WriterAt
<1>8. CASE Leave(c)
  BY <1>0, <1>8 DEF Leave, Goto, WriterAt, Busy, diskVars
<1> QED
  BY <1>3, <1>4, <1>5, <1>6, <1>7, <1>8 DEF Step

LEMMA AloneStep ==
  ASSUME Types, Locked, Alone, NEW c \in Callers, Step(c)
  PROVE  Alone'
<1>0. /\ writing \subseteq Callers /\ alone \subseteq Callers /\ pc \in [Callers -> Labels] /\ pc[c] # "idle"
  BY DEF Types, TypeOK, Step, Resolve, MakeDir, Load, MakeTemp, Replace, WriteFails,
         Scan, Unlink, RemoveDir, RemoveParent, Leave
<1>1. CASE Engage(c) /\ pc'[c] # "idle"
  <2>1. ASSUME NEW d \in alone' PROVE pc'[d] # "idle" /\ writing' \cap Elsewhere(d) = {}
    <3>1. d \in Callers /\ d \notin Elsewhere(c) /\ c \notin Elsewhere(d) /\ writing' = writing \cup {c}
      BY <1>0, <1>1, <2>1 DEF Engage, Elsewhere
    <3>2. CASE d = c
      BY <1>1, <2>1, <3>1, <3>2 DEF Engage
    <3>3. CASE d # c
      <4>1. d \in alone /\ pc'[d] = pc[d]
        BY <3>1, <3>3, OthersSame, <2>1
      <4> QED
        BY <3>1, <4>1 DEF Alone
    <3> QED
      BY <3>2, <3>3
  <2> QED
    BY <2>1 DEF Alone, Elsewhere
<1>2. CASE writing' \subseteq writing /\ alone' \subseteq alone /\ (pc'[c] = "idle" => c \notin alone')
  <2>1. ASSUME NEW d \in alone' PROVE pc'[d] # "idle" /\ writing' \cap Elsewhere(d) = {}
    BY <1>0, <1>2, <2>1, OthersSame DEF Alone
  <2> QED
    BY <2>1 DEF Alone, Elsewhere
<1>3. (Engage(c) /\ pc'[c] # "idle") \/ (writing' \subseteq writing /\ alone' \subseteq alone /\ (pc'[c] = "idle" => c \notin alone'))
  <2>1. CASE Resolve(c)
    <3>1. Engage(c) \/ UNCHANGED history
      BY <2>1 DEF Resolve
    <3>2. pc'[c] # "idle"
      <4>1. op[c] \in Ops /\ op[c].kind \in Updates \cup Reads \cup {"create", "core", "delete"} /\ dir \in BOOLEAN
        BY <2>1, OpKinds DEF Types, TypeOK, Resolve
      <4> QED
        BY <1>0, <2>1, <4>1 DEF Resolve, Goto, Updates, Reads
    <3> QED
      BY <3>1, <3>2 DEF history
  <2>2. CASE MakeDir(c)
    BY <1>0, <2>2 DEF MakeDir, Goto, history
  <2>3. CASE Load(c) \/ MakeTemp(c)
    BY <1>0, <2>3 DEF Load, MakeTemp, Goto, history
  <2>4. CASE Replace(c) \/ WriteFails(c)
    BY <1>0, <2>4 DEF Replace, WriteFails, Goto, Afterwards
  <2>5. CASE Scan(c) \/ Unlink(c) \/ RemoveDir(c) \/ RemoveParent(c)
    BY <1>0, <2>5 DEF Scan, Unlink, RemoveDir, RemoveParent, Goto, history
  <2>6. CASE Leave(c)
    BY <2>6 DEF Leave
  <2> QED
    BY <2>1, <2>2, <2>3, <2>4, <2>5, <2>6 DEF Step
<1> QED
  BY <1>1, <1>2, <1>3

LEMMA FrameEnter ==
  ASSUME Types, Frame, NEW c \in Callers, NEW o \in Ops, Enter(c, o)
  PROVE  Frame'
<1>1. /\ pc[c] = "idle" /\ pc'[c] = "resolve" /\ \A d \in Callers \ {c} : pc'[d] = pc[d] /\ op'[d] = op[d]
      /\ lock[ProcessOf[c]] = None /\ lock' = [lock EXCEPT ![ProcessOf[c]] = c]
      /\ UNCHANGED <<diskVars, writing>>
      /\ alone' = IF writing \cap Elsewhere(c) = {} THEN alone \cup {c} ELSE alone \ {c}
  BY DEF Enter, Goto, Types, TypeOK
<1>2. Locked'
  BY <1>1, Constants DEF Frame, Locked, Types, TypeOK
<1>3. Physical'
  BY <1>1 DEF Frame, Physical, FilesThere, diskVars
<1>4. Writers'
  BY <1>1 DEF Frame, Writers, WriterAt, Busy, diskVars
<1>5. Alone'
  <2>1. ASSUME NEW d \in alone' PROVE pc'[d] # "idle" /\ writing' \cap Elsewhere(d) = {}
    BY <1>1, <2>1 DEF Frame, Alone, Types, TypeOK
  <2> QED
    BY <2>1 DEF Alone, Elsewhere
<1> QED
  BY <1>2, <1>3, <1>4, <1>5 DEF Frame

LEMMA FrameCrash ==
  ASSUME Types, Frame, NEW p \in Processes, Crash(p)
  PROVE  Frame'
<1> DEFINE dead == {c \in Callers : ProcessOf[c] = p}
<1>1. \A c \in Callers : pc'[c] = (IF c \in dead THEN "idle" ELSE pc[c]) /\ op'[c] = (IF c \in dead THEN None ELSE op[c])
  BY DEF Crash
<1>2. /\ writing' = writing \ dead /\ alone' = alone \ dead /\ temps' = temps \ dead
      /\ UNCHANGED <<dir, parent, disk>> /\ lock' = [lock EXCEPT ![p] = None]
      /\ (litter' => litter \/ temps # {})
  BY DEF Crash
<1> HIDE DEF dead
<1>3. Locked'
  BY <1>1, <1>2, Constants DEF Frame, Locked, Types, TypeOK, dead
<1>4. Physical'
  BY <1>2 DEF Frame, Physical, FilesThere
<1>5. Writers'
  BY <1>1, <1>2 DEF Frame, Writers, WriterAt, Busy, Types, TypeOK
<1>6. Alone'
  <2>1. ASSUME NEW d \in alone' PROVE pc'[d] # "idle" /\ writing' \cap Elsewhere(d) = {}
    BY <1>1, <1>2, <2>1 DEF Frame, Alone, Types, TypeOK
  <2> QED
    BY <2>1 DEF Alone, Elsewhere
<1> QED
  BY <1>3, <1>4, <1>5, <1>6 DEF Frame

LEMMA FrameStep ==
  ASSUME Types, Frame, NEW c \in Callers, Step(c)
  PROVE  Frame'
BY LockedStep, PhysicalStep, WritersStep, AloneStep DEF Frame

LoneWriters == \A c \in alone \cap writing : alone = {c} /\ writing = {c} /\ temps \subseteq {c}

LEMMA LoneWritersNow == Types /\ Frame => LoneWriters
BY LoneWriter DEF Frame, LoneWriters

LEMMA LoneWritersNext == Types' /\ Frame' => LoneWriters'
BY LoneWritersNow, PTL

-------------------------------------------------------------------------------
(* The files of an agent, and of what is to be written. *)

FileOf(a, f) == CASE f = "config" -> [tools |-> a.tools, skills |-> a.skills]
                  [] f = "registry" -> a.tools
                  [] f = "core" -> a.text

Refused(o) == o.kind = "retool" /\ ~o.valid

\* The writings in s turn the files d into those of the agent a.
Leads(d, s, a) ==
  /\ \A i \in DOMAIN s : s[i].content = FileOf(a, s[i].file)
  /\ \A f \in Files : d[f] = FileOf(a, f) \/ \E i \in DOMAIN s : s[i].file = f

LEMMA HoldsFiles ==
  ASSUME NEW a, a # None
  PROVE  Holds(a) <=> dir /\ \A f \in Files : disk[f] = FileOf(a, f)
BY DEF Holds, FileOf, Files

LEMMA EffectUpdate ==
  ASSUME NEW o \in Ops, NEW a \in Agent, o.kind \in Updates \cup {"core"}
  PROVE  /\ Effect(o, a) \in Agent
         /\ o.kind = "core" => Effect(o, a) = [a EXCEPT !.text = o.text]
         /\ o.kind \in Updates => Effect(o, a) = Patched(o, a)
<1>1. CASE o.kind \in Updates
  BY <1>1, PatchedAgent, Constants DEF Effect, Updates
<1>2. CASE o.kind = "core"
  <2>1. [a EXCEPT !.text = o.text] \in Agent
    BY <1>2, OpKinds DEF Agent
  <2> QED
    BY <1>2, <2>1, Constants DEF Effect, Updates
<1> QED
  BY <1>1, <1>2

LEMMA EffectCreate ==
  ASSUME NEW o \in Ops, NEW a, o.kind = "create"
  PROVE  /\ Effect(o, a) = [tools |-> o.tools, skills |-> o.skills, text |-> o.text]
         /\ Effect(o, a) \in Agent
BY OpKinds DEF Effect, Agent

\* Replacing the first file brings the directory nearer to the agent.
LEMMA ReplaceLeads ==
  ASSUME NEW d, d = [f \in Files |-> d[f]], NEW a, NEW s \in Seq(Writings), s # <<>>, Leads(d, s, a)
  PROVE  Leads([d EXCEPT ![Head(s).file] = Head(s).content], Tail(s), a)
<1> DEFINE e == [d EXCEPT ![Head(s).file] = Head(s).content]
<1>1. /\ Head(s) = s[1] /\ Len(s) \in Nat /\ Len(s) > 0 /\ DOMAIN s = 1..Len(s)
      /\ Tail(s) \in Seq(Writings) /\ DOMAIN Tail(s) = 1..Len(Tail(s)) /\ Len(Tail(s)) = Len(s) - 1
      /\ \A i \in 1..Len(Tail(s)) : Tail(s)[i] = s[i + 1]
  BY HeadTail
<1>2. \A i \in DOMAIN Tail(s) : Tail(s)[i].content = FileOf(a, Tail(s)[i].file)
  <2>1. ASSUME NEW i \in DOMAIN Tail(s) PROVE Tail(s)[i] = s[i + 1] /\ i + 1 \in DOMAIN s
    BY <1>1
  <2> QED
    BY <2>1 DEF Leads
<1>3. ASSUME NEW f \in Files PROVE e[f] = FileOf(a, f) \/ \E i \in DOMAIN Tail(s) : Tail(s)[i].file = f
  <2>1. CASE f = Head(s).file
    <3>1. e[f] = Head(s).content
      BY <2>1
    <3>2. s[1].content = FileOf(a, s[1].file)
      BY <1>1 DEF Leads
    <3> QED
      BY <1>1, <2>1, <3>1, <3>2
  <2>2. CASE f # Head(s).file
    <3>1. e[f] = d[f]
      BY <2>2
    <3>2. CASE d[f] = FileOf(a, f)
      BY <3>1, <3>2
    <3>3. CASE d[f] # FileOf(a, f)
      <4>1. PICK i \in DOMAIN s : s[i].file = f
        BY <3>3 DEF Leads
      <4>2. i # 1 /\ i \in 1..Len(s)
        BY <1>1, <2>2, <4>1
      <4>3. i - 1 \in DOMAIN Tail(s) /\ Tail(s)[i - 1] = s[i]
        <5>1. i - 1 \in 1..Len(Tail(s)) /\ (i - 1) + 1 = i
          BY <1>1, <4>2
        <5> QED
          BY <1>1, <5>1
      <4> QED
        BY <4>1, <4>3
    <3> QED
      BY <3>2, <3>3
  <2> QED
    BY <2>1, <2>2
<1> QED
  BY <1>2, <1>3 DEF Leads

LEMMA CreateLeads ==
  ASSUME NEW d, NEW o \in Ops, o.kind = "create", NEW a,
         a = [tools |-> o.tools, skills |-> o.skills, text |-> o.text]
  PROVE  Leads(d, <<WriteConfig(o), WriteRegistry(o), Write("core", o.text)>>, a)
<1> DEFINE s == <<WriteConfig(o), WriteRegistry(o), Write("core", o.text)>>
<1>1. /\ s[1] = [file |-> "config", content |-> [tools |-> o.tools, skills |-> o.skills]]
      /\ s[2] = [file |-> "registry", content |-> o.tools]
      /\ s[3] = [file |-> "core", content |-> o.text]
      /\ DOMAIN s = {1, 2, 3}
  BY DEF WriteConfig, WriteRegistry, Write
<1> HIDE DEF s
<1>2. \A i \in DOMAIN s : s[i].content = FileOf(a, s[i].file)
  BY <1>1 DEF FileOf
<1>3. \A f \in Files : \E i \in DOMAIN s : s[i].file = f
  BY <1>1 DEF Files
<1>4. Leads(d, s, a)
  BY <1>2, <1>3 DEF Leads
<1> QED
  BY <1>4 DEF s

LEMMA CoreLeads ==
  ASSUME NEW d, NEW a \in Agent, NEW x \in Texts, \A f \in Files : d[f] = FileOf(a, f)
  PROVE  Leads(d, <<Write("core", x)>>, [a EXCEPT !.text = x])
<1> DEFINE s == <<Write("core", x)>>
           b == [a EXCEPT !.text = x]
<1>1. s[1] = [file |-> "core", content |-> x] /\ DOMAIN s = {1}
  BY DEF Write
<1>2. b.tools = a.tools /\ b.skills = a.skills /\ b.text = x
  BY DEF Agent
<1> HIDE DEF s, b
<1>3. \A i \in DOMAIN s : s[i].content = FileOf(b, s[i].file)
  BY <1>1, <1>2 DEF FileOf
<1>4. \A f \in Files : d[f] = FileOf(b, f) \/ \E i \in DOMAIN s : s[i].file = f
  BY <1>1, <1>2 DEF FileOf, Files
<1>5. Leads(d, s, b)
  BY <1>3, <1>4 DEF Leads
<1> QED
  BY <1>5 DEF s, b

\* What an update writes, from the config it has read, is what it answers.
LEMMA UpdateLeads ==
  ASSUME NEW d, NEW a \in Agent, NEW o \in Ops, o.kind \in Updates,
         \A f \in Files : d[f] = FileOf(a, f)
  PROVE  /\ ~Refused(o) => Leads(d, Writes(o, d["config"]), Patched(o, a))
         /\ Refused(o) => Writes(o, d["config"]) # <<>> /\ Len(Writes(o, d["config"])) <= 1
<1> DEFINE p == d["config"]
           q == Patched(o, p)
           b == Patched(o, a)
           wc == WriteConfig(q)
           wr == WriteRegistry(q)
           s == Writes(o, p)
<1>1. p = [tools |-> a.tools, skills |-> a.skills] /\ p \in Config
      /\ d["registry"] = a.tools /\ d["core"] = a.text
  BY DEF FileOf, Files, Agent, Config
<1>2. q.tools = b.tools /\ q.skills = b.skills /\ b.text = a.text
  BY <1>1, OpKinds DEF Patched, Updates, Config, Agent
<1>3. wc = [file |-> "config", content |-> FileOf(b, "config")]
      /\ wr = [file |-> "registry", content |-> FileOf(b, "registry")]
  BY <1>2 DEF WriteConfig, WriteRegistry, Write, FileOf
<1>4. d["core"] = FileOf(b, "core")
  BY <1>1, <1>2 DEF FileOf
<1>5. /\ Refused(o) => s = <<wr>>
      /\ ~Refused(o) /\ o.kind \in {"retool", "tools"} => s = <<wr, wc>> \/ s = <<wc, wr>>
      /\ o.kind = "reskill" => s = <<wc>>
      /\ o.kind \in {"bind", "unbind"} => (q = p /\ s = <<>>) \/ s = <<wc>>
  BY DEF Writes, Refused
<1>6. o.kind \in {"reskill", "bind", "unbind"} => d["registry"] = FileOf(b, "registry")
  BY <1>1 DEF Patched, FileOf, Agent
<1>7. q = p => d["config"] = FileOf(b, "config")
  BY <1>1, <1>2 DEF FileOf
<1> HIDE DEF s, wc, wr, q, p, b
<1>8. ASSUME ~Refused(o) PROVE Leads(d, s, b)
  <2>1. CASE s = <<wr, wc>> \/ s = <<wc, wr>>
    <3>1. s[1] \in {wr, wc} /\ s[2] \in {wr, wc} /\ DOMAIN s = {1, 2}
          /\ (s[1] = wr \/ s[2] = wr) /\ (s[1] = wc \/ s[2] = wc)
      BY <2>1
    <3> QED
      BY <3>1, <1>3, <1>4 DEF Leads, Files
  <2>2. CASE s = <<wc>> /\ o.kind \in {"reskill", "bind", "unbind"}
    <3>1. s[1] = wc /\ DOMAIN s = {1}
      BY <2>2
    <3> QED
      BY <3>1, <1>3, <1>4, <1>6, <2>2 DEF Leads, Files
  <2>3. CASE s = <<>> /\ q = p /\ o.kind \in {"bind", "unbind"}
    <3>1. DOMAIN s = {}
      BY <2>3
    <3> QED
      BY <3>1, <1>4, <1>6, <1>7, <2>3 DEF Leads, Files
  <2> QED
    BY <1>5, <1>8, <2>1, <2>2, <2>3 DEF Updates
<1>9. ASSUME Refused(o) PROVE s # <<>> /\ Len(s) <= 1
  <2>1. <<wr>> # <<>> /\ Len(<<wr>>) = 1
    OBVIOUS
  <2>2. s = <<wr>>
    BY Zenon, <1>5, <1>9
  <2>3. Len(s) = 1 /\ s # <<>>
    BY Zenon, <2>1, <2>2
  <2> QED
    BY <2>3
<1> QED
  BY <1>8, <1>9 DEF s, b, p
-------------------------------------------------------------------------------
(* How far a writer has come that no writer of another process overlaps, and *)
(* what a reader has seen.                                                    *)

After(c) == Effect(op[c], told)

Deleting(c) ==
  /\ pc[c] \in {"scan", "unlink", "rmparent", "done"}
  /\ pc[c] = "scan" => dir
  /\ pc[c] = "unlink" => dir /\ victims[c] = FilesThere \cup Litter
  /\ pc[c] = "rmparent" => parent /\ ~dir
  /\ pc[c] = "done" => ~dir

InWork(c) ==
  /\ dir /\ (pc[c] = "replace" => c \in temps)
  /\ ~Refused(op[c]) => Leads(disk, todo[c], After(c))

Progress(c) ==
  /\ told # Unknown => pc[c] # "failed" /\ (op[c].kind = "create" <=> told = None)
  /\ pc[c] \in {"write", "replace"} => InWork(c)
  /\ pc[c] = "load" => Holds(IF op[c].kind = "create" THEN After(c) ELSE told)
  /\ pc[c] = "done" => Holds(After(c))
  /\ Refused(op[c]) => /\ pc[c] # "done"
                       /\ pc[c] \in {"write", "replace"} => Len(todo[c]) <= 1

WorkAt(c) ==
  /\ op[c].kind = "delete" => Deleting(c)
  /\ op[c].kind = "create" \/ told # Unknown => Progress(c)
Work == \A c \in alone \cap writing : WorkAt(c)

Right(c) ==
  pc[c] = "done" <=> CASE op[c].kind = "create" -> told = None
                       [] op[c].kind = "list" -> TRUE
                       [] OTHER -> told # None

ReaderAt(c) ==
  /\ pc[c] = "load" => told # None
  /\ pc[c] \in {"done", "failed"} => Right(c)

Known ==
  told # Unknown =>
    /\ writing \subseteq alone
    /\ writing = {} => Holds(told)
    /\ \A c \in alone \ writing : ReaderAt(c)

\* The inductive invariant.
IInv == Types /\ Frame /\ Work /\ Known

LEMMA IInvInit == Init => IInv
<1>1. Init => Work /\ Known
  BY DEF Init, Work, Known, Holds
<1> QED
  BY <1>1, TypesInit, FrameInit DEF IInv

\* A call that writes neither before nor after its step leaves the disk and the
\* history alone.
LEMMA Passive ==
  ASSUME Types, Frame, NEW d \in Callers, Step(d), d \notin writing, d \notin writing'
  PROVE  /\ UNCHANGED <<diskVars, told, writing>>
         /\ \A c \in Callers \ {d} : victims'[c] = victims[c]
         /\ alone' \in {alone, alone \ {d}}
<1>0. /\ pc[d] \notin Busy /\ WriterAt(d) /\ op[d] \in Ops
  BY DEF Frame, Writers, WriterAt, Types, TypeOK, Step, Resolve, MakeDir, Load, MakeTemp, Replace, WriteFails,
         Scan, Unlink, RemoveDir, RemoveParent, Leave
<1>1. Resolve(d) \/ MakeDir(d) \/ Load(d) \/ Leave(d)
  BY <1>0 DEF Step, Busy, MakeTemp, Replace, WriteFails, Scan, Unlink, RemoveDir, RemoveParent
<1>2. ~Engage(d)
  BY DEF Engage
<1>3. CASE Resolve(d)
  BY <1>2, <1>3 DEF Resolve, history
<1>4. CASE MakeDir(d)
  BY <1>2, <1>4 DEF MakeDir, history, diskVars
<1>5. CASE Load(d)
  BY <1>5 DEF Load, history
<1>6. CASE Leave(d)
  <2>1. pc[d] = "done" => op[d].kind \in Reads
    BY <1>0 DEF WriterAt
  <2>2. op[d].kind \in Reads => Effect(op[d], told) = told
    BY DEF Effect, Reads
  <2>3. told' = told
    BY <1>6, <2>1, <2>2 DEF Leave
  <2>4. writing' = writing /\ alone' = alone \ {d} /\ UNCHANGED diskVars /\ \A c \in Callers \ {d} : victims'[c] = victims[c]
    BY <1>6 DEF Leave, Types
  <2> QED
    BY <2>3, <2>4
<1> QED
  BY <1>1, <1>3, <1>4, <1>5, <1>6

\* What is true of a call stays true while nothing it looks at changes.
LEMMA Undisturbed ==
  ASSUME NEW c, UNCHANGED <<diskVars, told>>, pc'[c] = pc[c], op'[c] = op[c], todo'[c] = todo[c]
  PROVE  /\ WorkAt(c) /\ victims'[c] = victims[c] => WorkAt(c)'
         /\ ReaderAt(c) => ReaderAt(c)'
<1>1. After(c)' = After(c)
  BY DEF After, Effect
<1>2. InWork(c) => InWork(c)'
  BY <1>1 DEF InWork, diskVars
<1>3. Holds(After(c)) => Holds(After(c))'
  BY <1>1 DEF Holds, diskVars
<1>4. Holds(told) => Holds(told)'
  BY DEF Holds, diskVars
<1>5. Holds(IF op[c].kind = "create" THEN After(c) ELSE told) => Holds(IF op[c].kind = "create" THEN After(c) ELSE told)'
  BY <1>3, <1>4
<1>6. Progress(c) => Progress(c)'
  BY <1>2, <1>3, <1>5 DEF Progress
<1>7. Deleting(c) /\ victims'[c] = victims[c] => Deleting(c)'
  BY DEF Deleting, diskVars, FilesThere, Litter
<1>8. ReaderAt(c) => ReaderAt(c)'
  BY DEF ReaderAt, Right
<1> QED
  BY <1>6, <1>7, <1>8 DEF WorkAt

-------------------------------------------------------------------------------
(* The steps of a writer that no writer of another process overlaps. *)

LEMMA Engaged ==
  ASSUME IInv, NEW c \in Callers, pc[c] \in {"resolve", "mkdir"}, Engage(c), c \in alone'
  PROVE  told' = told /\ (told # Unknown => Holds(told))
<1>1. writing \cap Elsewhere(c) = {} /\ told' = told
  BY DEF Engage
<1>2. writing \subseteq Callers
  BY DEF IInv, Types, TypeOK
<1>3. ASSUME NEW w \in writing PROVE FALSE
  <2>1. ProcessOf[w] = ProcessOf[c] /\ w \in Callers
    BY <1>1, <1>2 DEF Elsewhere
  <2>2. pc[w] \notin {"idle", "resolve", "mkdir"}
    BY <2>1 DEF IInv, Frame, Writers, WriterAt
  <2>3. w = c
    BY <2>1, <2>2 DEF IInv, Frame, Locked
  <2> QED
    BY <2>2, <2>3
<1> QED
  BY <1>1, <1>3 DEF IInv, Known

\* A known agent is there, or there is nothing.
LEMMA ThereIsAnAgent ==
  ASSUME Types, told # Unknown, Holds(told)
  PROVE  /\ told \in Agent \/ told = None
         /\ told = None <=> ~dir
BY Constants DEF Holds, Types, TypeOK

LEMMA WorkResolve ==
  ASSUME IInv, NEW c \in Callers, Resolve(c), c \in alone' \cap writing'
  PROVE  WorkAt(c)'
<1>1. /\ pc[c] = "resolve" /\ c \notin writing /\ op[c] \in Ops
      /\ op' = op /\ UNCHANGED diskVars /\ pc \in [Callers -> Labels] /\ todo \in [Callers -> Seq(Writings)]
  BY DEF IInv, Frame, Writers, WriterAt, Types, TypeOK, Resolve
<1>2. Engage(c) /\ dir /\ op[c].kind \notin {"create", "get", "list"}
  BY <1>1 DEF Resolve, history
<1>3. told' = told /\ (told # Unknown => Holds(told))
  BY <1>1, <1>2, Engaged
<1>4. /\ op[c].kind = "delete" => pc'[c] = "scan"
      /\ op[c].kind = "core" => pc'[c] = "write" /\ todo'[c] = <<Write("core", op[c].text)>>
      /\ op[c].kind \in Updates => pc'[c] = "load" /\ todo'[c] = todo[c]
  BY <1>1, <1>2 DEF Resolve, Goto, Updates
<1>5. op[c].kind \in Updates \cup {"core", "delete"}
  BY <1>1, <1>2, OpKinds DEF Reads
<1>6. dir' /\ disk' = disk
  BY <1>1, <1>2 DEF diskVars
<1>7. op[c].kind = "delete" => Deleting(c)'
  BY <1>1, <1>4, <1>6 DEF Deleting
<1>8. ASSUME told # Unknown PROVE Progress(c)'
  <2>1. told \in Agent /\ told # None /\ told' # Unknown /\ \A f \in Files : disk[f] = FileOf(told, f)
    BY <1>2, <1>3, <1>8, ThereIsAnAgent, HoldsFiles DEF IInv
  <2>2. CASE op[c].kind = "core"
    <3>1. Leads(disk, <<Write("core", op[c].text)>>, After(c)) /\ ~Refused(op[c])
      <4>1. op[c].text \in Texts
        BY <1>1, <2>2, OpKinds
      <4>2. After(c) = [told EXCEPT !.text = op[c].text]
        BY <1>1, <2>1, <2>2, EffectUpdate DEF After
      <4>3. Leads(disk, <<Write("core", op[c].text)>>, [told EXCEPT !.text = op[c].text])
        BY <2>1, <4>1, CoreLeads
      <4> QED
        BY <2>2, <4>2, <4>3 DEF Refused
    <3>2. After(c)' = After(c)
      BY <1>1, <1>3 DEF After, Effect
    <3>3. InWork(c)'
      BY <1>1, <1>4, <1>6, <2>2, <3>1, <3>2 DEF InWork
    <3> QED
      BY <1>1, <1>3, <1>4, <2>1, <2>2, <3>1, <3>3 DEF Progress
  <2>3. CASE op[c].kind = "delete"
    BY <1>1, <1>3, <1>4, <2>1, <2>3 DEF Progress, Refused
  <2>4. CASE op[c].kind \in Updates
    <3>1. Holds(told)'
      BY <1>1, <1>3, <1>8 DEF Holds, diskVars
    <3> QED
      BY <1>1, <1>3, <1>4, <2>1, <2>4, <3>1 DEF Progress, Updates
  <2> QED
    BY <1>5, <2>2, <2>3, <2>4
<1> QED
  BY <1>1, <1>2, <1>3, <1>7, <1>8 DEF WorkAt

LEMMA WorkMakeDir ==
  ASSUME IInv, NEW c \in Callers, MakeDir(c), c \in alone' \cap writing'
  PROVE  WorkAt(c)'
<1>1. /\ pc[c] = "mkdir" /\ c \notin writing /\ op[c] \in Ops /\ op[c].kind = "create"
      /\ op' = op /\ UNCHANGED disk /\ pc \in [Callers -> Labels] /\ todo \in [Callers -> Seq(Writings)]
  BY DEF IInv, Frame, Writers, WriterAt, Types, TypeOK, MakeDir
<1>2. Engage(c) /\ ~dir /\ dir' = TRUE /\ pc'[c] = "write"
      /\ todo'[c] = <<WriteConfig(op[c]), WriteRegistry(op[c]), Write("core", op[c].text)>>
  BY <1>1 DEF MakeDir, Goto, history
<1>3. told' = told /\ (told # Unknown => told = None)
  BY <1>1, <1>2, Engaged, ThereIsAnAgent DEF IInv
<1>4. After(c)' = Effect(op[c], told)
  BY <1>1, <1>3 DEF After, Effect
<1>5. Leads(disk, todo'[c], After(c)')
  BY <1>1, <1>2, <1>4, EffectCreate, CreateLeads
<1>6. InWork(c)'
  BY <1>1, <1>2, <1>5 DEF InWork
<1> QED
  BY <1>1, <1>2, <1>3, <1>6 DEF WorkAt, Progress, Refused

LEMMA WorkLoad ==
  ASSUME IInv, NEW c \in Callers, Load(c), c \in alone' \cap writing'
  PROVE  WorkAt(c)'
<1>1. /\ pc[c] = "load" /\ c \in writing /\ c \in alone /\ op[c] \in Ops
      /\ op[c].kind \in Updates \cup {"create"}
      /\ UNCHANGED <<op, told, dir, disk, temps>> /\ pc \in [Callers -> Labels] /\ todo \in [Callers -> Seq(Writings)]
  BY DEF IInv, Frame, Writers, WriterAt, Types, TypeOK, Load, history, diskVars
<1>2. After(c)' = After(c)
  BY <1>1 DEF After, Effect
<1>3. WorkAt(c)
  BY <1>1 DEF IInv, Work
<1>4. CASE op[c].kind = "create"
  <2>1. Holds(After(c)) /\ After(c) \in Agent /\ After(c) # None
    BY <1>1, <1>3, <1>4, EffectCreate, Constants DEF WorkAt, Progress, After
  <2>2. disk["config"] # None
    <3>1. disk["config"] = [tools |-> After(c).tools, skills |-> After(c).skills]
      BY <2>1 DEF Holds
    <3>2. [tools |-> After(c).tools, skills |-> After(c).skills] \in Config
      BY <2>1 DEF Agent, Config
    <3> QED
      BY <3>1, <3>2, Constants
  <2>3. pc'[c] = "done"
    BY <1>1, <1>4, <2>2 DEF Load, Goto
  <2>4. Holds(After(c))'
    BY <1>1, <1>2, <2>1 DEF Holds
  <2> QED
    BY <1>1, <1>3, <1>4, <2>3, <2>4 DEF WorkAt, Progress, Refused
<1>5. CASE op[c].kind \in Updates
  <2> SUFFICES ASSUME told # Unknown PROVE Progress(c)'
    BY <1>1, <1>5 DEF WorkAt, Updates
  <2>1. Holds(told) /\ told # None /\ told \in Agent
    BY <1>1, <1>3, <1>5, ThereIsAnAgent DEF IInv, WorkAt, Progress, Updates
  <2>2. dir /\ \A f \in Files : disk[f] = FileOf(told, f)
    BY <2>1, HoldsFiles
  <2>3. disk["config"] # None
    <3>1. disk["config"] = [tools |-> told.tools, skills |-> told.skills]
      BY <2>1 DEF Holds
    <3>2. [tools |-> told.tools, skills |-> told.skills] \in Config
      BY <2>1 DEF Agent, Config
    <3> QED
      BY <3>1, <3>2, Constants
  <2> DEFINE s == Writes(op[c], disk["config"])
  <2>4. todo'[c] = s /\ pc'[c] = IF s = <<>> THEN "done" ELSE "write"
    BY <1>1, <1>5, <2>3 DEF Load, Goto, Updates
  <2>5. After(c) = Patched(op[c], told) /\ After(c) \in Agent
    BY <1>1, <1>5, <2>1, EffectUpdate DEF After
  <2>6. /\ ~Refused(op[c]) => Leads(disk, s, After(c))
        /\ Refused(op[c]) => s # <<>> /\ Len(s) <= 1
    BY <1>1, <1>5, <2>1, <2>2, <2>5, UpdateLeads
  <2> HIDE DEF s
  <2>7. op[c].kind # "create" /\ told' = told /\ op' = op
    BY <1>1, <1>5 DEF Updates
  <2>8. CASE s = <<>>
    <3>1. \A f \in Files : disk[f] = FileOf(After(c), f)
      BY <2>6, <2>8 DEF Leads
    <3>2. After(c) # None
      BY <2>5, Constants
    <3>3. Holds(After(c))'
      BY <1>1, <1>2, <2>2, <3>1, <3>2, HoldsFiles DEF Holds, FileOf, Files
    <3> QED
      BY <2>1, <2>4, <2>6, <2>7, <2>8, <3>3 DEF Progress
  <2>9. CASE s # <<>>
    <3>1. InWork(c)'
      BY <1>1, <1>2, <2>2, <2>4, <2>6, <2>9 DEF InWork
    <3> QED
      BY <2>1, <2>4, <2>6, <2>7, <2>9, <3>1 DEF Progress
  <2> QED
    BY <2>8, <2>9
<1> QED
  BY <1>1, <1>4, <1>5

LEMMA WorkMakeTemp ==
  ASSUME IInv, NEW c \in Callers, MakeTemp(c), c \in alone' \cap writing'
  PROVE  WorkAt(c)'
<1>1. /\ pc[c] = "write" /\ c \in writing /\ c \in alone /\ op[c] \in Ops
      /\ op[c].kind # "delete"
      /\ UNCHANGED <<op, told, disk, todo>> /\ pc \in [Callers -> Labels]
  BY DEF IInv, Types, TypeOK, MakeTemp, history, Updates
<1>2. After(c)' = After(c) /\ WorkAt(c)
  BY <1>1 DEF After, Effect, IInv, Work
<1> SUFFICES ASSUME op[c].kind = "create" \/ told # Unknown PROVE Progress(c)'
  BY <1>1 DEF WorkAt
<1>3. Progress(c) /\ InWork(c) /\ dir
  BY <1>1, <1>2 DEF WorkAt, Progress, InWork
<1>4. dir' = TRUE /\ c \in temps' /\ pc'[c] = "replace"
  BY <1>1, <1>3 DEF MakeTemp, Goto
<1>5. InWork(c)'
  BY <1>1, <1>2, <1>3, <1>4 DEF InWork
<1> QED
  BY <1>1, <1>3, <1>4, <1>5 DEF Progress

LEMMA WorkReplace ==
  ASSUME IInv, NEW c \in Callers, Replace(c), c \in alone' \cap writing'
  PROVE  WorkAt(c)'
<1>1. /\ pc[c] = "replace" /\ c \in writing /\ c \in alone /\ op[c] \in Ops
      /\ op[c].kind \in Updates \cup {"create", "core"} /\ todo[c] # <<>>
      /\ UNCHANGED <<op, dir>> /\ pc \in [Callers -> Labels] /\ todo \in [Callers -> Seq(Writings)]
      /\ told' \in {told, Unknown} /\ disk = [f \in Files |-> disk[f]]
  BY DEF IInv, Types, TypeOK, Replace
<1> SUFFICES ASSUME op[c].kind = "create" \/ told' # Unknown PROVE Progress(c)'
  BY <1>1 DEF WorkAt, Updates
<1>2. /\ WorkAt(c) /\ (op[c].kind = "create" \/ (told # Unknown /\ told' = told))
      /\ Progress(c) /\ InWork(c) /\ c \in temps /\ dir
  BY <1>1 DEF IInv, Work, WorkAt, Progress, InWork
<1>3. Tail(todo[c]) \in Seq(Writings) /\ Len(todo[c]) \in Nat /\ Len(Tail(todo[c])) = Len(todo[c]) - 1
  BY <1>1, HeadTail
<1> DEFINE label == IF Tail(todo[c]) # <<>> THEN "write" ELSE Afterwards(op[c])
<1>4. /\ disk' = [disk EXCEPT ![Head(todo[c]).file] = Head(todo[c]).content]
      /\ todo'[c] = Tail(todo[c]) /\ pc'[c] = label
      /\ told' = IF label = "failed" THEN Unknown ELSE told
  BY <1>1, <1>2 DEF Replace, Goto
<1>5. After(c)' = After(c) /\ After(c) \in Agent /\ After(c) # None
  <2>1. CASE op[c].kind = "create"
    BY <1>1, <2>1, EffectCreate, Constants DEF After, Effect
  <2>2. CASE op[c].kind # "create"
    <3>1. told \in Agent /\ told' = told /\ op[c].kind \in Updates \cup {"core"}
      BY <1>1, <1>2, <2>2 DEF Progress, IInv, Types, TypeOK
    <3>2. After(c)' = After(c)
      BY <1>1, <3>1 DEF After, Effect
    <3> QED
      BY <1>1, <3>1, <3>2, EffectUpdate, Constants DEF After
  <2> QED
    BY <2>1, <2>2
<1>6. ~Refused(op[c])
  <2>1. SUFFICES ASSUME Refused(op[c]) PROVE FALSE
    OBVIOUS
  <2>2. Len(Tail(todo[c])) <= 0 /\ Len(Tail(todo[c])) \in Nat
    BY <1>1, <1>2, <1>3, <2>1 DEF Progress
  <2>3. Tail(todo[c]) = <<>>
    BY <1>3, <2>2
  <2>4. op[c].kind = "retool" /\ label = "failed"
    BY <2>1, <2>3 DEF Refused, Afterwards
  <2> QED
    BY <1>2, <1>4, <2>4
<1>7. Leads(disk', todo'[c], After(c)')
  BY <1>1, <1>2, <1>4, <1>5, <1>6, ReplaceLeads DEF InWork
<1>8. CASE Tail(todo[c]) # <<>>
  <2>1. pc'[c] = "write" /\ dir'
    BY <1>1, <1>2, <1>4, <1>8
  <2>2. InWork(c)'
    BY <1>7, <2>1 DEF InWork
  <2> QED
    BY <1>1, <1>2, <1>4, <1>6, <2>1, <2>2, <1>8 DEF Progress
<1>9. CASE Tail(todo[c]) = <<>>
  <2>1. \A f \in Files : disk'[f] = FileOf(After(c)', f)
    BY <1>4, <1>7, <1>9 DEF Leads
  <2>2. Holds(After(c))'
    BY <1>1, <1>2, <1>5, <2>1 DEF Holds, FileOf, Files
  <2>3. pc'[c] = IF op[c].kind = "create" THEN "load" ELSE "done"
    BY <1>4, <1>6, <1>9 DEF Afterwards, Refused
  <2>4. told' = told
    BY <1>4, <1>9, <2>3
  <2> QED
    BY <1>1, <1>2, <1>6, <2>2, <2>3, <2>4 DEF Progress
<1> QED
  BY <1>8, <1>9

LEMMA WorkWriteFails ==
  ASSUME IInv, NEW c \in Callers, WriteFails(c)
  PROVE  WorkAt(c)'
<1>1. /\ op' = op /\ told' = Unknown /\ pc'[c] = "failed"
      /\ op[c].kind \in Updates \cup {"create", "core"}
  BY DEF IInv, Types, TypeOK, WriteFails, Goto
<1> QED
  BY <1>1 DEF WorkAt, Progress, Refused, Updates

LEMMA WorkRmtree ==
  ASSUME IInv, NEW c \in Callers, Scan(c) \/ Unlink(c) \/ RemoveDir(c) \/ RemoveParent(c),
         c \in alone' \cap writing'
  PROVE  WorkAt(c)'
<1>1. /\ c \in writing /\ c \in alone /\ op[c].kind = "delete"
      /\ UNCHANGED <<op, told, todo>> /\ pc \in [Callers -> Labels]
      /\ pc[c] \in {"scan", "unlink", "rmparent"}
      /\ \A d \in Callers : victims[d] \subseteq Callers \cup Files \cup {"gone", "litter"}
      /\ victims = [d \in Callers |-> victims[d]]
  BY DEF IInv, Types, TypeOK, Scan, Unlink, RemoveDir, RemoveParent, history
<1>2. WorkAt(c) /\ Deleting(c)
  BY <1>1 DEF IInv, Work, WorkAt
<1>3. temps = {}
  BY <1>1, LoneWritersNow DEF IInv, LoneWriters, Frame, Writers, WriterAt
<1>4. Deleting(c)'
  <2>1. CASE Scan(c)
    <3>1. dir /\ UNCHANGED diskVars /\ pc'[c] = "unlink" /\ victims'[c] = FilesThere \cup Litter
      BY <1>1, <1>2, <1>3, <2>1 DEF Scan, Goto, Deleting
    <3> QED
      BY <3>1 DEF Deleting, FilesThere, Litter, diskVars
  <2>2. CASE Unlink(c)
    <3>1. dir /\ victims[c] = FilesThere \cup Litter /\ dir' = dir /\ pc[c] = "unlink"
      BY <1>2, <2>2 DEF Unlink, Deleting
    <3>2. PICK v \in victims[c] :
            /\ victims' = [victims EXCEPT ![c] = @ \ {v}]
            /\ disk' = [f \in Files |-> IF f = v THEN None ELSE disk[f]]
            /\ temps' = temps \ {v}
            /\ litter' = (litter /\ v # "litter")
            /\ pc' = pc
      BY <2>2, <3>1 DEF Unlink
    <3>3. victims'[c] = (FilesThere \cup Litter) \ {v}
      BY <1>1, <3>1, <3>2
    <3>4. FilesThere' = FilesThere \ {v}
      BY <3>2 DEF FilesThere
    <3>5. Litter' = Litter \ {v}
      BY <3>2 DEF Litter
    <3>6. victims'[c] = FilesThere' \cup Litter'
      BY <3>3, <3>4, <3>5
    <3> QED
      BY <3>1, <3>2, <3>6 DEF Deleting
  <2>3. CASE RemoveDir(c)
    <3>1. dir /\ FilesThere \cup temps \cup Litter = {} /\ parent
      BY <1>2, <1>3, <2>3 DEF RemoveDir, Deleting, IInv, Types, TypeOK
    <3>2. dir' = FALSE /\ parent' = parent /\ pc'[c] = "rmparent"
      BY <1>1, <2>3, <3>1 DEF RemoveDir, Goto
    <3> QED
      BY <3>1, <3>2 DEF Deleting
  <2>4. CASE RemoveParent(c)
    <3>1. parent /\ ~dir
      BY <1>2, <2>4 DEF RemoveParent, Deleting
    <3>2. dir' = dir /\ pc'[c] = "done"
      BY <1>1, <2>4, <3>1 DEF RemoveParent, Goto
    <3> QED
      BY <3>1, <3>2 DEF Deleting
  <2> QED
    BY <2>1, <2>2, <2>3, <2>4
<1>5. ASSUME told # Unknown PROVE Progress(c)'
  <2>1. told # None
    BY <1>1, <1>2, <1>5 DEF WorkAt, Progress
  <2>2. After(c)' = None
    BY <1>1 DEF After, Effect
  <2>3. pc'[c] = "done" => Holds(After(c))'
    BY <1>4, <2>2 DEF Deleting, Holds
  <2>4. pc'[c] \in {"scan", "unlink", "rmparent", "done"}
    BY <1>4 DEF Deleting
  <2> QED
    BY <1>1, <2>1, <2>3, <2>4 DEF Progress, Refused
<1> QED
  BY <1>1, <1>4, <1>5 DEF WorkAt

LEMMA WorkStep ==
  ASSUME IInv, Types', Frame', NEW d \in Callers, Step(d)
  PROVE  Work'
<1>1. ASSUME NEW c \in alone' \cap writing' PROVE WorkAt(c)'
  <2>0. c \in Callers
    BY <1>1 DEF Types, TypeOK
  <2>1. CASE c = d
    <3>1. ~Leave(d)
      BY <1>1, <2>1 DEF Leave
    <3> QED
      BY <1>1, <2>1, <3>1, WorkResolve, WorkMakeDir, WorkLoad, WorkMakeTemp, WorkReplace,
         WorkWriteFails, WorkRmtree DEF Step
  <2>2. CASE c # d
    <3>1. writing' = {c}
      BY <1>1, LoneWritersNext DEF LoneWriters
    <3>2. /\ pc'[c] = pc[c] /\ op'[c] = op[c] /\ todo'[c] = todo[c]
          /\ c \in writing /\ c \in alone
          /\ (d \in writing => d \notin alone)
      <4>1. /\ pc'[c] = pc[c] /\ op'[c] = op[c] /\ todo'[c] = todo[c]
            /\ c \in writing /\ c \in alone
        BY <1>1, <2>0, <2>2, OthersSame DEF IInv
      <4> QED
        BY <2>2, <4>1, LoneWritersNow DEF IInv, LoneWriters
    <3>3. d \notin writing /\ d \notin writing'
      BY <2>2, <3>1, <3>2, LoneWritersNow DEF IInv, LoneWriters
    <3>4. UNCHANGED <<diskVars, told>> /\ victims'[c] = victims[c]
      BY <2>0, <2>2, <3>3, Passive DEF IInv
    <3>5. WorkAt(c)
      BY <3>2 DEF IInv, Work
    <3> QED
      BY <3>2, <3>4, <3>5, Undisturbed
  <2> QED
    BY <2>1, <2>2
<1> QED
  BY <1>1 DEF Work, WorkAt, Deleting, Progress, InWork, After

-------------------------------------------------------------------------------
(* What is known of the agent. *)

\* Whoever is inside together with a reader does not disturb it: a known agent is
\* on the disk then.
LEMMA NoWriterBesides ==
  ASSUME IInv, told # Unknown, NEW c \in alone \ writing
  PROVE  writing = {} /\ Holds(told)
BY LoneWritersNow DEF IInv, Known, LoneWriters

\* Only the end of a writer that nobody overlaps makes an unknown agent known, and
\* such a writer has made the disk what it answers.
LEMMA KnownLeave ==
  ASSUME IInv, NEW d \in Callers, Leave(d), d \in writing, told' # Unknown,
         told # Unknown \/ (pc[d] = "done" /\ d \in alone)
  PROVE  writing' = {} /\ alone' = {} /\ Holds(told)'
<1>1. /\ op[d] \in Ops /\ told \in Agent \cup {None, Unknown} /\ d \in alone
      /\ UNCHANGED diskVars /\ op[d].kind \notin Reads
  BY DEF IInv, Types, TypeOK, Frame, Writers, WriterAt, Known, Leave
<1>2. writing' = {} /\ alone' = {}
  BY <1>1, LoneWritersNow DEF IInv, LoneWriters, Leave
<1>3. WorkAt(d)
  BY <1>1 DEF IInv, Work
<1>4. pc[d] = "done" /\ told' = After(d)
  <2>1. pc[d] = "done"
    BY <1>3 DEF WorkAt, Progress, Leave
  <2> QED
    BY <1>1, <2>1 DEF Leave, After
<1> SUFFICES Holds(told)'
  BY <1>2
<1>5. op[d].kind = "create" \/ told # Unknown \/ op[d].kind = "delete"
  BY <1>1, <1>4, OpKinds DEF After, Effect, Updates, Reads
<1>6. CASE op[d].kind = "delete"
  <2>1. ~dir /\ After(d) = None
    BY <1>3, <1>4, <1>6 DEF WorkAt, Deleting, After, Effect
  <2> QED
    BY <1>1, <1>4, <2>1 DEF Holds, diskVars
<1>7. CASE op[d].kind = "create" \/ told # Unknown
  <2>1. Holds(After(d))
    BY <1>3, <1>4, <1>7 DEF WorkAt, Progress
  <2> QED
    BY <1>1, <1>4, <2>1 DEF Holds, diskVars
<1> QED
  BY <1>2, <1>5, <1>6, <1>7

\* The steps of a call that writes nothing.
LEMMA ReaderStep ==
  ASSUME IInv, told # Unknown, NEW c \in Callers, Step(c), c \in alone' \ writing', c \notin writing
  PROVE  ReaderAt(c)'
<1>1. UNCHANGED <<diskVars, told, writing>> /\ c \in alone
  BY Passive DEF IInv
<1>2. writing = {} /\ Holds(told)
  BY <1>1, NoWriterBesides
<1>3. (told \in Agent \/ told = None) /\ (told = None <=> ~dir) /\ pc \in [Callers -> Labels]
      /\ told' = told
  BY <1>1, <1>2, ThereIsAnAgent DEF IInv, Types, TypeOK
<1>4. told # None => \A f \in Files : disk[f] # None
  <2>1. SUFFICES ASSUME told # None PROVE \A f \in Files : disk[f] # None
    OBVIOUS
  <2>2. \A f \in Files : disk[f] = FileOf(told, f)
    BY <1>2, <2>1, HoldsFiles
  <2>3. told \in Agent
    BY <1>3, <2>1
  <2>4. told.tools \in Tools /\ told.text \in Texts /\ [tools |-> told.tools, skills |-> told.skills] \in Config
    BY <2>3 DEF Agent, Config
  <2> QED
    BY <2>2, <2>4, Constants DEF FileOf, Files
<1>5. CASE Resolve(c)
  <2>1. op[c] \in Ops /\ op[c].kind \in Updates \cup Reads \cup {"create", "core", "delete"} /\ op' = op /\ pc[c] = "resolve"
    BY <1>5, OpKinds DEF IInv, Types, TypeOK, Resolve
  <2>2. ~Engage(c)
    BY <1>1, <1>2, <1>5 DEF Engage
  <2>3. dir => op[c].kind \in {"create", "get", "list"}
    BY <1>5, <2>2 DEF Resolve
  <2>4. disk["config"] # None => dir
    BY DEF IInv, Frame, Physical, FilesThere, Files
  <2>5. CASE op[c].kind = "create"
    BY <1>3, <1>5, <2>1, <2>5 DEF Resolve, Goto, ReaderAt, Right
  <2>6. CASE op[c].kind = "list"
    BY <1>3, <1>4, <1>5, <2>1, <2>4, <2>6 DEF Resolve, Goto, ReaderAt, Right, Files
  <2>7. CASE op[c].kind \notin {"create", "list"} /\ ~dir
    BY <1>3, <1>5, <2>1, <2>7 DEF Resolve, Goto, ReaderAt, Right
  <2>8. CASE op[c].kind = "get" /\ dir
    BY <1>3, <1>5, <2>1, <2>8 DEF Resolve, Goto, ReaderAt, Right
  <2> QED
    BY <2>3, <2>5, <2>6, <2>7, <2>8
<1>6. CASE MakeDir(c)
  <2>1. ~Engage(c)
    BY <1>1, <1>2, <1>6 DEF Engage
  <2>2. dir /\ pc'[c] = "failed" /\ op'[c].kind = "create"
    BY <1>3, <1>6, <2>1 DEF MakeDir, Goto, IInv, Types
  <2> QED
    BY <1>3, <2>2 DEF ReaderAt, Right
<1>7. CASE Load(c)
  <2>1. op[c] \in Ops /\ op[c].kind \in Reads /\ op' = op /\ pc[c] = "load"
    BY <1>1, <1>7 DEF IInv, Types, TypeOK, Frame, Writers, WriterAt, Load
  <2>2. told # None
    BY <1>1, <1>2, <2>1 DEF IInv, Known, ReaderAt
  <2>3. (IF op[c].kind = "get" THEN op[c].file ELSE "config") \in Files
    BY <2>1, OpKinds DEF Files
  <2>4. pc'[c] = "done"
    BY <1>3, <1>4, <1>7, <2>1, <2>2, <2>3 DEF Load, Goto, Reads
  <2> QED
    BY <1>3, <2>1, <2>2, <2>4 DEF ReaderAt, Right, Reads
<1>8. CASE Leave(c)
  BY <1>8 DEF Leave
<1>9. Resolve(c) \/ MakeDir(c) \/ Load(c) \/ Leave(c)
  BY <1>2 DEF Step, IInv, Frame, Writers, WriterAt, Busy, MakeTemp, Replace, WriteFails, Scan, Unlink, RemoveDir, RemoveParent
<1> QED
  BY <1>5, <1>6, <1>7, <1>8, <1>9

LEMMA KnownStep ==
  ASSUME IInv, Types', Frame', NEW d \in Callers, Step(d)
  PROVE  Known'
<1> SUFFICES ASSUME told' # Unknown
             PROVE  /\ writing' \subseteq alone'
                    /\ writing' = {} => Holds(told)'
                    /\ \A c \in alone' \ writing' : ReaderAt(c)'
  BY DEF Known, Holds, ReaderAt, Right
<1>0. writing \subseteq Callers /\ writing' \subseteq Callers /\ alone' \subseteq Callers
  BY DEF IInv, Types, TypeOK
<1>1. CASE d \notin writing /\ d \notin writing'
  <2>1. UNCHANGED <<diskVars, told, writing>> /\ alone' \in {alone, alone \ {d}} /\ told # Unknown
    BY <1>1, Passive DEF IInv
  <2>2. writing' \subseteq alone'
    BY <1>1, <2>1 DEF IInv, Known
  <2>3. writing' = {} => Holds(told)'
    BY <2>1 DEF IInv, Known, Holds, diskVars
  <2>4. ASSUME NEW c \in alone' \ writing' PROVE ReaderAt(c)'
    <3>1. CASE c = d
      BY <1>0, <1>1, <2>1, <2>4, <3>1, ReaderStep
    <3>2. CASE c # d
      <4>1. c \in alone \ writing /\ c \in Callers
        BY <1>0, <2>1, <2>4
      <4>2. ReaderAt(c)
        BY <2>1, <4>1 DEF IInv, Known
      <4>3. pc'[c] = pc[c] /\ op'[c] = op[c] /\ todo'[c] = todo[c]
        BY <3>2, <4>1, OthersSame DEF IInv
      <4> QED
        BY <2>1, <4>2, <4>3, Undisturbed
    <3> QED
      BY <3>1, <3>2
  <2> QED
    BY <2>2, <2>3, <2>4
<1>2. CASE d \in writing /\ d \notin writing'
  <2>1. Leave(d)
    BY <1>2 DEF Step, Resolve, MakeDir, Load, MakeTemp, Replace, WriteFails, Scan, Unlink,
                RemoveDir, RemoveParent, Engage, history
  <2>2. told # Unknown \/ (pc[d] = "done" /\ d \in alone)
    BY <2>1 DEF Leave
  <2>3. writing' = {} /\ alone' = {} /\ Holds(told)'
    BY <1>2, <2>1, <2>2, KnownLeave
  <2> QED
    BY <2>3
<1>3. CASE d \in writing'
  <2>1. told # Unknown /\ ~Leave(d)
    BY <1>3 DEF Step, Resolve, MakeDir, Load, MakeTemp, Replace, WriteFails, Scan, Unlink,
                RemoveDir, RemoveParent, Leave, Engage, history
  <2>2. d \in alone'
    <3>1. CASE d \in writing
      <4>1. d \in alone
        BY <2>1, <3>1 DEF IInv, Known
      <4>2. ~Resolve(d) /\ ~MakeDir(d)
        BY <3>1 DEF IInv, Frame, Writers, WriterAt, Resolve, MakeDir
      <4>3. alone' = alone
        BY <2>1, <4>2 DEF Step, Load, MakeTemp, Replace, WriteFails, Scan, Unlink,
                RemoveDir, RemoveParent, history
      <4> QED
        BY <4>1, <4>3
    <3>2. CASE d \notin writing
      <4>1. Engage(d)
        BY <1>3, <2>1, <3>2 DEF Step, Resolve, MakeDir, Load, MakeTemp, Replace, WriteFails, Scan, Unlink,
                RemoveDir, RemoveParent, history
      <4> QED
        BY <4>1 DEF Engage
    <3> QED
      BY <3>1, <3>2
  <2>3. writing' = {d} /\ alone' = {d}
    BY <1>3, <2>2, LoneWritersNext DEF LoneWriters
  <2> QED
    BY <2>3
<1> QED
  BY <1>1, <1>2, <1>3

LEMMA IInvEnter ==
  ASSUME IInv, NEW d \in Callers, NEW o \in Ops, Enter(d, o)
  PROVE  Work' /\ Known'
<1>1. /\ UNCHANGED <<diskVars, told, writing, todo, victims>> /\ d \notin writing
      /\ pc'[d] = "resolve" /\ \A c \in Callers \ {d} : pc'[c] = pc[c] /\ op'[c] = op[c]
      /\ \A c \in alone' \ {d} : c \in alone
      /\ alone \ {d} \subseteq alone' /\ alone' \subseteq Callers
  BY DEF IInv, Types, TypeOK, Frame, Writers, WriterAt, Enter, Goto
<1>2. ASSUME NEW c \in alone' \cap writing' PROVE WorkAt(c)'
  <2>1. c \in alone \cap writing /\ c # d /\ c \in Callers
    BY <1>1, <1>2
  <2> QED
    BY <1>1, <2>1, Undisturbed DEF IInv, Work
<1>3. Work'
  BY <1>2 DEF Work, WorkAt, Deleting, Progress, InWork, After
<1>4. ASSUME told' # Unknown
      PROVE  /\ writing' \subseteq alone'
             /\ writing' = {} => Holds(told)'
             /\ \A c \in alone' \ writing' : ReaderAt(c)'
  <2>1. writing' \subseteq alone'
    BY <1>1, <1>4 DEF IInv, Known
  <2>2. writing' = {} => Holds(told)'
    BY <1>1, <1>4 DEF IInv, Known, Holds, diskVars
  <2>3. ASSUME NEW c \in alone' \ writing' PROVE ReaderAt(c)'
    <3>1. CASE c = d
      BY <1>1, <3>1 DEF ReaderAt
    <3>2. CASE c # d
      BY <1>1, <1>4, <2>3, <3>2, Undisturbed DEF IInv, Known
    <3> QED
      BY <3>1, <3>2
  <2> QED
    BY <2>1, <2>2, <2>3
<1>5. Known'
  BY <1>4 DEF Known, Holds, ReaderAt, Right
<1> QED
  BY <1>3, <1>5

LEMMA IInvCrash ==
  ASSUME IInv, NEW p \in Processes, Crash(p)
  PROVE  Work' /\ Known'
<1> DEFINE dead == {c \in Callers : ProcessOf[c] = p}
<1>1. /\ writing' = writing \ dead /\ alone' = alone \ dead /\ temps' = temps \ dead
      /\ UNCHANGED <<dir, parent, disk>> /\ litter' = (litter \/ temps \cap dead # {})
      /\ told' = IF writing \cap dead = {} THEN told ELSE Unknown
      /\ \A c \in Callers \ dead : /\ pc'[c] = pc[c] /\ op'[c] = op[c] /\ todo'[c] = todo[c]
                                   /\ victims[c] \cap dead = {} => victims'[c] = victims[c]
      /\ alone \subseteq Callers /\ dead \subseteq Callers /\ temps \subseteq writing
  BY DEF Crash, IInv, Types, TypeOK, Frame, Writers, WriterAt, Busy
<1> HIDE DEF dead
<1>2. ASSUME writing \cap dead = {} PROVE UNCHANGED <<diskVars, told, writing>>
  <2>1. temps \cap dead = {}
    BY <1>1, <1>2
  <2>2. litter' = litter
    BY <1>1, <2>1 DEF IInv, Types, TypeOK
  <2>3. temps' = temps /\ writing' = writing
    BY <1>1, <1>2, <2>1
  <2> QED
    BY <1>1, <1>2, <2>2, <2>3 DEF diskVars
<1>3. ASSUME NEW c \in alone' \cap writing' PROVE WorkAt(c)'
  <2>1. c \in alone \cap writing /\ c \in Callers \ dead
    BY <1>1, <1>3
  <2>2. writing \cap dead = {}
    BY <2>1, LoneWritersNow DEF IInv, LoneWriters
  <2>3. UNCHANGED <<diskVars, told>>
    BY <1>2, <2>2
  <2>4. WorkAt(c)
    BY <2>1 DEF IInv, Work
  <2>5. CASE pc[c] = "unlink"
    <3>1. victims[c] = FilesThere \cup Litter
      BY <2>1, <2>4, <2>5 DEF WorkAt, Deleting, IInv, Types
    <3>2. victims[c] \cap dead = {}
      BY <1>1, <3>1, Constants DEF FilesThere, Litter
    <3> QED
      BY <1>1, <2>1, <2>3, <2>4, <3>2, Undisturbed
  <2>6. CASE pc[c] # "unlink"
    <3>1. pc'[c] = pc[c] /\ op'[c] = op[c] /\ todo'[c] = todo[c]
      BY <1>1, <2>1
    <3>2. Progress(c) => Progress(c)'
      BY <2>3, <3>1, <2>6 DEF Progress, InWork, After, Effect, Holds, diskVars
    <3>3. Deleting(c) => Deleting(c)'
      BY <2>3, <2>6, <3>1 DEF Deleting, diskVars
    <3> QED
      BY <2>3, <2>4, <3>1, <3>2, <3>3 DEF WorkAt
  <2> QED
    BY <2>5, <2>6
<1>4. Work'
  BY <1>3 DEF Work, WorkAt, Deleting, Progress, InWork, After
<1>5. ASSUME told' # Unknown
      PROVE  /\ writing' \subseteq alone'
             /\ writing' = {} => Holds(told)'
             /\ \A c \in alone' \ writing' : ReaderAt(c)'
  <2>1. UNCHANGED <<diskVars, told, writing>> /\ told # Unknown
    BY <1>1, <1>2, <1>5
  <2>2. writing' \subseteq alone'
    BY <1>1, <2>1 DEF IInv, Known
  <2>3. writing' = {} => Holds(told)'
    BY <2>1 DEF IInv, Known, Holds, diskVars
  <2>4. ASSUME NEW c \in alone' \ writing' PROVE ReaderAt(c)'
    <3>1. c \in alone \ writing /\ c \in Callers \ dead
      BY <1>1, <2>1, <2>4
    <3> QED
      BY <1>1, <2>1, <3>1, Undisturbed DEF IInv, Known
  <2> QED
    BY <2>2, <2>3, <2>4
<1>6. Known'
  BY <1>5 DEF Known, Holds, ReaderAt, Right
<1> QED
  BY <1>4, <1>6

LEMMA IInvNext == IInv /\ [Next]_vars => IInv'
<1> SUFFICES ASSUME IInv, [Next]_vars PROVE IInv'
  OBVIOUS
<1>1. Types'
  BY TypesNext DEF IInv
<1>2. CASE \E c \in Callers, o \in Ops : Enter(c, o)
  BY <1>1, <1>2, FrameEnter, IInvEnter DEF IInv
<1>3. CASE \E c \in Callers : Step(c)
  BY <1>1, <1>3, FrameStep, WorkStep, KnownStep DEF IInv
<1>4. CASE \E p \in Processes : Crash(p)
  BY <1>1, <1>4, FrameCrash, IInvCrash DEF IInv
<1>5. CASE UNCHANGED vars
  <2>1. UNCHANGED <<diskVars, lock, pc, op, todo, victims, told, writing, alone>>
    BY <1>5 DEF vars, callVars, history
  <2>2. Frame'
    BY <2>1 DEF IInv, Frame, Locked, Physical, Writers, WriterAt, Alone, FilesThere, diskVars
  <2>3. \A c \in Callers : (WorkAt(c) => WorkAt(c)') /\ (ReaderAt(c) => ReaderAt(c)')
    BY <2>1, Undisturbed
  <2>4. Work'
    BY <2>1, <2>3 DEF IInv, Work, Types, TypeOK
  <2>5. Known'
    BY <2>1, <2>3 DEF IInv, Known, Types, TypeOK, Holds, diskVars
  <2> QED
    BY <1>1, <2>2, <2>4, <2>5 DEF IInv
<1> QED
  BY <1>2, <1>3, <1>4, <1>5 DEF Next

LEMMA AgentInvariant == Spec => []IInv
BY IInvInit, IInvNext, PTL DEF Spec

\* When nobody is writing, the directory holds what the answers add up to, as long
\* as no crash, no failed write, no late refusal and no writers of two processes at
\* once came between (agent_manager.py:267-401): no update of one process is lost.
THEOREM AgentConfirmed == Spec => []QuietIsConfirmed
<1>1. IInv => QuietIsConfirmed
  BY DEF IInv, Known, QuietIsConfirmed
<1> QED
  BY AgentInvariant, <1>1, PTL

\* A call that no writer of another process overlaps succeeds exactly when it
\* should (agent_manager.py:272-273, 454-455).
THEOREM AgentAnswers == Spec => []AnswersMatch
<1>1. IInv => AnswersMatch
  <2> SUFFICES ASSUME IInv, NEW c \in Callers, c \in alone, told # Unknown, pc[c] \in {"done", "failed"}
               PROVE  Right(c)
    BY DEF AnswersMatch, Right
  <2>1. CASE c \notin writing
    BY <2>1 DEF IInv, Known, ReaderAt
  <2>2. CASE c \in writing
    <3>1. Progress(c) /\ op[c].kind \notin Reads
      BY <2>2 DEF IInv, Work, WorkAt, Frame, Writers, WriterAt
    <3> QED
      BY <3>1 DEF Progress, Right, Reads
  <2> QED
    BY <2>1, <2>2
<1> QED
  BY AgentInvariant, <1>1, PTL

\* A delete that no other process disturbs clears whatever lies there
\* (agent_manager.py:333-337).
THEOREM AgentDeletable == Spec => []LoneDeleteWorks
<1>1. IInv => LoneDeleteWorks
  BY DEF IInv, Work, WorkAt, Deleting, LoneDeleteWorks
<1> QED
  BY AgentInvariant, <1>1, PTL
===============================================================================
