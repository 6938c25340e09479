----------------------------- MODULE AgentManager -----------------------------
(***************************************************************************)
(* AgentManager (agent_manager.py): an agent is a directory with a config, *)
(* a tool registry and core files.  Every method runs under the RLock of   *)
(* its process; several processes (nodes) may share the home directory,    *)
(* and between them nothing but the file system arbitrates.                *)
(*                                                                         *)
(* One agent id.  Each file operation is a step: exists, mkdir, mkstemp,   *)
(* os.replace, and of rmtree the scan, every unlink and the two rmdirs.    *)
(* The five core files are one file "core".  A temporary file is told by   *)
(* its writer, or is litter once its writer's process has crashed.         *)
(***************************************************************************)
EXTENDS Naturals, Sequences, FiniteSets

CONSTANTS Processes,
          Callers,          \* threads that call the manager
          ProcessOf,        \* Callers -> Processes
          Tools,            \* values of the `tools` dictionary, normalized
          Skills,
          Texts,            \* contents of a core file
          MaxFaults,        \* bound: crashes and failed writes
          None, Unknown

Files == {"config", "registry", "core"}
Config == [tools : Tools, skills : SUBSET Skills]
Agent == [tools : Tools, skills : SUBSET Skills, text : Texts]

ASSUME AgentAssumption ==
  /\ ProcessOf \in [Callers -> Processes]
  /\ None \notin Callers \cup Tools \cup Texts
  /\ None # Unknown /\ \A x \in Config \cup Agent : x \notin {None, Unknown}
  /\ Callers \cap (Files \cup {"gone", "litter"}) = {}
  /\ MaxFaults \in Nat

\* What may be asked, with its arguments.  A patch of update_agent carries tools,
\* with or without skills that are refused ("retool"), or other fields ("reskill");
\* "tools" is update_tool_registry.
Ops ==
  [kind : {"create"}, tools : Tools, skills : SUBSET Skills, text : Texts]
  \cup [kind : {"retool"}, tools : Tools, valid : BOOLEAN]
  \cup [kind : {"tools"}, tools : Tools]
  \cup [kind : {"reskill"}, skills : SUBSET Skills]
  \cup [kind : {"bind", "unbind"}, skill : Skills]
  \cup [kind : {"core"}, text : Texts]
  \cup [kind : {"get"}, file : Files]
  \cup [kind : {"delete", "list"}]

VARIABLES dir,              \* the agent-core directory exists
          parent,           \* so does the agent's directory above it
          disk,             \* Files -> content or None
          temps,            \* callers whose temporary file is in the directory
          litter,           \* a crash has left temporary files there
          lock,             \* Processes -> caller inside `with self._lock` or None
          pc, op, profile, todo, victims,   \* the calls under way
          faults,
          told,             \* history: the agent the answers so far add up to;
                            \* Unknown after a crash, a failed write, an update
                            \* refused too late, or writers of two processes
                            \* at once
          writing,          \* history: calls past their first check of the disk
          alone             \* history: calls no writer of another process overlaps

diskVars == <<dir, parent, disk, temps, litter>>
callVars == <<pc, op, profile, todo, victims>>
history == <<told, writing, alone>>
vars == <<diskVars, lock, callVars, faults, history>>

Empty == [f \in Files |-> None]

Init ==
  /\ dir = FALSE /\ parent = FALSE /\ disk = Empty /\ temps = {} /\ litter = FALSE
  /\ lock = [p \in Processes |-> None]
  /\ pc = [c \in Callers |-> "idle"]
  /\ op = [c \in Callers |-> None]
  /\ profile = [c \in Callers |-> None]
  /\ todo = [c \in Callers |-> <<>>]
  /\ victims = [c \in Callers |-> {}]
  /\ faults = 0
  /\ told = None /\ writing = {} /\ alone = {}

Goto(c, label) == pc' = [pc EXCEPT ![c] = label]
Elsewhere(c) == {d \in Callers : ProcessOf[d] # ProcessOf[c]}

\* The call begins to depend on what the disk holds.
Engage(c) ==
  LET rivals == writing \cap Elsewhere(c) IN
  /\ writing' = writing \cup {c}
  /\ alone' = IF rivals = {} THEN (alone \ Elsewhere(c)) \cup {c}
                             ELSE alone \ (Elsewhere(c) \cup {c})
  /\ told' = IF rivals = {} THEN told ELSE Unknown

-------------------------------------------------------------------------------
(* What a call does to a profile, and the files it writes for it. *)

Patched(o, p) ==
  CASE o.kind \in {"retool", "tools"} -> [p EXCEPT !.tools = o.tools]
    [] o.kind = "reskill" -> [p EXCEPT !.skills = o.skills]
    [] o.kind = "bind"   -> [p EXCEPT !.skills = @ \cup {o.skill}]
    [] o.kind = "unbind" -> [p EXCEPT !.skills = @ \ {o.skill}]

Write(f, content) == [file |-> f, content |-> content]
WriteConfig(p) == Write("config", [tools |-> p.tools, skills |-> p.skills])
WriteRegistryWhole(p) == Write("registry", [tools |-> p.tools, skills |-> p.skills])

WriteRegistry(p) == Write("registry", p.tools)

WritesOfConfigOnly(o, p) ==
  LET q == Patched(o, p) IN
  CASE o.kind = "retool" -> IF o.valid THEN <<WriteRegistry(q), WriteConfig(q)>>
                                         ELSE <<WriteRegistry(q)>>
    [] o.kind \in {"tools", "reskill"} -> <<WriteConfig(q)>>
    [] o.kind \in {"bind", "unbind"} -> IF q = p THEN <<>> ELSE <<WriteConfig(q)>>

\* update_agent writes the registry before it looks at the skills, and then the
\* config; update_tool_registry writes it last.  A skill that is bound already, or
\* not bound, writes nothing.
Writes(o, p) ==
  LET q == Patched(o, p) IN
  CASE o.kind = "retool" -> IF o.valid THEN <<WriteRegistry(q), WriteConfig(q)>>
                                         ELSE <<WriteRegistry(q)>>
    [] o.kind = "tools"  -> <<WriteConfig(q), WriteRegistry(q)>>
    [] o.kind = "reskill" -> <<WriteConfig(q)>>
    [] o.kind \in {"bind", "unbind"} -> IF q = p THEN <<>> ELSE <<WriteConfig(q)>>

\* The agent after an answer "done" to o.
Effect(o, a) ==
  CASE o.kind = "create" -> [tools |-> o.tools, skills |-> o.skills, text |-> o.text]
    [] o.kind = "delete" -> None
    [] o.kind \in {"get", "list"} -> a
    [] OTHER -> IF a \in {None, Unknown} THEN a
                ELSE IF o.kind = "core" THEN [a EXCEPT !.text = o.text]
                ELSE Patched(o, a)

-------------------------------------------------------------------------------
(* Entering and leaving `with self._lock:` *)

Enter(c, o) ==
  /\ pc[c] = "idle" /\ lock[ProcessOf[c]] = None
  /\ lock' = [lock EXCEPT ![ProcessOf[c]] = c]
  /\ op' = [op EXCEPT ![c] = o]
  /\ Goto(c, "resolve")
  /\ alone' = IF writing \cap Elsewhere(c) = {} THEN alone \cup {c} ELSE alone \ {c}
  /\ UNCHANGED <<diskVars, profile, todo, victims, faults, told, writing>>

\* The end of the block, by return ("done") or by exception ("failed").
Leave(c) ==
  /\ pc[c] \in {"done", "failed"}
  /\ told' = IF pc[c] = "done" /\ c \in alone THEN Effect(op[c], told) ELSE told
  /\ lock' = [lock EXCEPT ![ProcessOf[c]] = None]
  /\ Goto(c, "idle")
  /\ op' = [op EXCEPT ![c] = None]
  /\ profile' = [profile EXCEPT ![c] = None]
  /\ todo' = [todo EXCEPT ![c] = <<>>]
  /\ victims' = [victims EXCEPT ![c] = {}]
  /\ writing' = writing \ {c} /\ alone' = alone \ {c}
  /\ UNCHANGED <<diskVars, faults>>

-------------------------------------------------------------------------------
(* The first check of the directory *)

\* core_dir.exists() in create_agent; _resolve_agent_core_dir in the others;
\* agents_dir.exists() and the glob in list_agents.
Resolve(c) ==
  LET kind == op[c].kind IN
  /\ pc[c] = "resolve"
  /\ Goto(c, CASE kind = "create" -> IF dir THEN "failed" ELSE "mkdir"
               [] kind = "list"   -> IF disk["config"] = None THEN "done" ELSE "load"
               [] ~dir /\ kind \notin {"create", "list"} -> "failed"
               [] dir /\ kind = "core"   -> "write"
               [] dir /\ kind = "delete" -> "scan"
               [] dir /\ kind \notin {"create", "list", "core", "delete"} -> "load")
  /\ IF dir /\ kind \notin {"create", "get", "list"}
     THEN Engage(c) ELSE UNCHANGED history
  /\ todo' = IF dir /\ kind = "core"
             THEN [todo EXCEPT ![c] = <<Write("core", op[c].text)>>] ELSE todo
  /\ UNCHANGED <<diskVars, lock, op, profile, victims, faults>>

MakeDirExistOk(c) ==
  /\ pc[c] = "mkdir"
  /\ dir' = TRUE /\ parent' = TRUE
  /\ todo' = [todo EXCEPT ![c] = <<WriteConfig(op[c]), WriteRegistry(op[c]),
                                   Write("core", op[c].text)>>]
  /\ Goto(c, "write") /\ Engage(c)
  /\ UNCHANGED <<disk, temps, litter, lock, op, profile, victims, faults>>

\* core_dir.mkdir(parents=True, exist_ok=False): the loser of two creates is
\* told here.
MakeDir(c) ==
  /\ pc[c] = "mkdir"
  /\ IF dir THEN Goto(c, "failed") /\ UNCHANGED <<dir, parent, todo, history>>
     ELSE /\ dir' = TRUE /\ parent' = TRUE
          /\ todo' = [todo EXCEPT ![c] = <<WriteConfig(op[c]), WriteRegistry(op[c]),
                                           Write("core", op[c].text)>>]
          /\ Goto(c, "write") /\ Engage(c)
  /\ UNCHANGED <<disk, temps, litter, lock, op, profile, victims, faults>>

\* _load_profile, get_tool_registry, read_core_file: a file that is not there
\* raises.  create_agent ends with a load, the updates begin with one.
Load(c) ==
  LET o == op[c]
      content == disk[IF o.kind = "get" THEN o.file ELSE "config"]
  IN
  /\ pc[c] = "load"
  /\ IF content = None THEN Goto(c, "failed") /\ UNCHANGED <<profile, todo>>
     ELSE IF o.kind \in {"get", "list", "create"}
     THEN Goto(c, "done") /\ UNCHANGED <<profile, todo>>
     ELSE /\ profile' = [profile EXCEPT ![c] = content]
          /\ todo' = [todo EXCEPT ![c] = Writes(o, content)]
          /\ Goto(c, IF Writes(o, content) = <<>> THEN "done" ELSE "write")
  /\ UNCHANGED <<diskVars, lock, op, victims, faults, history>>

-------------------------------------------------------------------------------
(* _write_text *)

\* c's temporary file is renamed or removed: a scan that lists it is out of date.
Forget(c, now) ==
  victims' = [d \in Callers |-> IF c \in victims[d]
                                THEN (victims[d] \ {c}) \cup {now} ELSE victims[d]]

\* mkdir(parents=True, exist_ok=True) and mkstemp, or the directory vanishes
\* between the two.
MakeTemp(c) ==
  /\ pc[c] = "write"
  /\ \/ /\ dir' = TRUE /\ parent' = TRUE /\ temps' = temps \cup {c}
        /\ Goto(c, "replace")
     \/ /\ ~dir /\ Goto(c, "failed")
        /\ UNCHANGED <<dir, parent, temps>>
  /\ UNCHANGED <<disk, litter, lock, op, profile, todo, victims, faults, history>>

\* What follows the last write.
Afterwards(o) ==
  IF o.kind = "create" THEN "load"
  ELSE IF o.kind = "retool" /\ ~o.valid THEN "failed" ELSE "done"

\* os.replace, or FileNotFoundError: another process has removed the directory.
Replace(c) ==
  /\ pc[c] = "replace"
  /\ IF c \in temps
     THEN /\ disk' = [disk EXCEPT ![Head(todo[c]).file] = Head(todo[c]).content]
          /\ temps' = temps \ {c} /\ Forget(c, "gone")
          /\ todo' = [todo EXCEPT ![c] = Tail(@)]
          /\ Goto(c, IF Tail(todo[c]) # <<>> THEN "write" ELSE Afterwards(op[c]))
          /\ told' = IF pc'[c] = "failed" THEN Unknown ELSE told
     ELSE Goto(c, "failed") /\ UNCHANGED <<disk, temps, victims, todo, told>>
  /\ UNCHANGED <<dir, parent, litter, lock, op, profile, faults, writing, alone>>

\* write, flush or fsync raises: the temporary file is unlinked.
WriteFails(c) ==
  /\ pc[c] = "replace" /\ faults < MaxFaults
  /\ faults' = faults + 1
  /\ temps' = temps \ {c} /\ Forget(c, "gone")
  /\ Goto(c, "failed") /\ told' = Unknown
  /\ UNCHANGED <<dir, parent, disk, litter, lock, op, profile, todo, writing, alone>>

-------------------------------------------------------------------------------
(* shutil.rmtree(agent_dir) *)

FilesThere == {f \in Files : disk[f] # None}
Litter == IF litter THEN {"litter"} ELSE {}

ScanOwnFiles(c) ==
  /\ pc[c] = "scan"
  /\ victims' = [victims EXCEPT ![c] = FilesThere]
  /\ Goto(c, IF dir THEN "unlink" ELSE "failed")
  /\ UNCHANGED <<diskVars, lock, op, profile, todo, faults, history>>

Scan(c) ==
  /\ pc[c] = "scan"
  /\ victims' = [victims EXCEPT ![c] = FilesThere \cup temps \cup Litter]
  /\ Goto(c, IF dir THEN "unlink" ELSE "failed")
  /\ UNCHANGED <<diskVars, lock, op, profile, todo, faults, history>>

\* In the order of the directory.  An entry that is gone raises.
Unlink(c) ==
  /\ pc[c] = "unlink"
  /\ \E v \in victims[c] :
       /\ victims' = [victims EXCEPT ![c] = @ \ {v}]
       /\ IF v \in FilesThere \cup temps \cup Litter
          THEN /\ disk' = [f \in Files |-> IF f = v THEN None ELSE disk[f]]
               /\ temps' = temps \ {v}
               /\ litter' = (litter /\ v # "litter")
               /\ UNCHANGED pc
          ELSE Goto(c, "failed") /\ UNCHANGED <<disk, temps, litter>>
  /\ UNCHANGED <<dir, parent, lock, op, profile, todo, faults, history>>

\* rmdir of the agent-core directory: not when anything is in it.
RemoveDir(c) ==
  /\ pc[c] = "unlink" /\ victims[c] = {}
  /\ IF dir /\ FilesThere \cup temps \cup Litter = {}
     THEN dir' = FALSE /\ Goto(c, "rmparent")
     ELSE Goto(c, "failed") /\ UNCHANGED dir
  /\ UNCHANGED <<parent, disk, temps, litter, lock, op, profile, todo, victims, faults, history>>

\* rmdir of the agent's directory: not when it has an agent-core again.
RemoveParent(c) ==
  /\ pc[c] = "rmparent"
  /\ IF parent /\ ~dir THEN parent' = FALSE /\ Goto(c, "done")
                       ELSE Goto(c, "failed") /\ UNCHANGED parent
  /\ UNCHANGED <<dir, disk, temps, litter, lock, op, profile, todo, victims, faults, history>>

-------------------------------------------------------------------------------
(* A process dies in the middle of its calls. *)

Crash(p) ==
  LET dead == {c \in Callers : ProcessOf[c] = p} IN
  /\ faults < MaxFaults /\ faults' = faults + 1
  /\ told' = IF writing \cap dead = {} THEN told ELSE Unknown
  /\ litter' = (litter \/ temps \cap dead # {})
  /\ temps' = temps \ dead
  /\ lock' = [lock EXCEPT ![p] = None]
  /\ pc' = [c \in Callers |-> IF c \in dead THEN "idle" ELSE pc[c]]
  /\ op' = [c \in Callers |-> IF c \in dead THEN None ELSE op[c]]
  /\ profile' = [c \in Callers |-> IF c \in dead THEN None ELSE profile[c]]
  /\ todo' = [c \in Callers |-> IF c \in dead THEN <<>> ELSE todo[c]]
  /\ victims' = [c \in Callers |->
                   IF c \in dead THEN {}
                   ELSE IF victims[c] \cap dead = {} THEN victims[c]
                   ELSE (victims[c] \ dead) \cup {"litter"}]
  /\ writing' = writing \ dead /\ alone' = alone \ dead
  /\ UNCHANGED <<dir, parent, disk>>

Step(c) ==
  \/ Resolve(c) \/ MakeDir(c) \/ Load(c) \/ MakeTemp(c) \/ Replace(c) \/ WriteFails(c)
  \/ Scan(c) \/ Unlink(c) \/ RemoveDir(c) \/ RemoveParent(c) \/ Leave(c)

Next ==
  \/ \E c \in Callers, o \in Ops : Enter(c, o)
  \/ \E c \in Callers : Step(c)
  \/ \E p \in Processes : Crash(p)

Spec == Init /\ [][Next]_vars

-------------------------------------------------------------------------------
(* Properties. *)

Labels == {"idle", "resolve", "mkdir", "load", "write", "replace", "scan",
           "unlink", "rmparent", "done", "failed"}

TypeOK ==
  /\ dir \in BOOLEAN /\ parent \in BOOLEAN /\ (dir => parent)
  /\ disk["config"] \in Config \cup {None}
  /\ disk["registry"] \in Tools \cup {None}
  /\ disk["core"] \in Texts \cup {None}
  /\ temps \subseteq Callers /\ litter \in BOOLEAN
  /\ lock \in [Processes -> Callers \cup {None}]
  /\ pc \in [Callers -> Labels]
  /\ op \in [Callers -> Ops \cup {None}]
  /\ \A c \in Callers : /\ victims[c] \subseteq Callers \cup Files \cup {"gone", "litter"}
                        /\ profile[c] \in Config \cup {None}
                        /\ pc[c] \in {"write", "replace"} => todo[c] # <<>>
  /\ faults \in 0..MaxFaults
  /\ told \in Agent \cup {None, Unknown}
  /\ writing \subseteq Callers /\ alone \subseteq Callers

\* The directory holds exactly the agent a.
Holds(a) ==
  IF a = None THEN ~dir
  ELSE /\ dir
       /\ disk["config"] = [tools |-> a.tools, skills |-> a.skills]
       /\ disk["registry"] = a.tools
       /\ disk["core"] = a.text

\* When nobody is writing, the disk holds what the answers of all processes add
\* up to: no file missing, registry and config in agreement, no update lost, one
\* winner of two creates.  Only a crash, a failed write, an update refused after
\* it has written the registry (agent_manager.py:325-327) or writers of two
\* processes at once make the agent unknown, and a lone delete makes it known
\* again.
QuietIsConfirmed == writing = {} /\ told # Unknown => Holds(told)

\* A call that no writer of another process overlaps answers what the agent is:
\* create succeeds only on an absent agent, list always, the others only on one
\* that is there (agent_manager.py:272-273, 454-455).
AnswersMatch ==
  \A c \in Callers :
    c \in alone /\ told # Unknown /\ pc[c] \in {"done", "failed"} =>
      (pc[c] = "done" <=> CASE op[c].kind = "create" -> told = None
                            [] op[c].kind = "list" -> TRUE
                            [] OTHER -> told # None)

\* Whatever a crash, a full disk or racing processes have left in the directory,
\* a delete that no other process disturbs removes it: a half-made agent blocks
\* create_agent, and can only be cleared this way.
LoneDeleteWorks ==
  \A c \in alone \cap writing : ~(op[c].kind = "delete" /\ pc[c] = "failed")
===============================================================================
