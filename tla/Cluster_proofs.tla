--------------------------- MODULE Cluster_proofs ---------------------------
(***************************************************************************)
(* The two machines of src/cluster.  Cluster: a node that is on time is    *)
(* never declared DEAD, and an orderly failover takes no task from a node  *)
(* that is at work, for any number of nodes and tasks and any timing.      *)
(* AlertAggregator: no alert is told twice, none vanishes, and the oldest  *)
(* of its key speaks for it, for any processes, channels and page size.    *)
(***************************************************************************)
EXTENDS Cluster, AlertAggregator, WellFoundedInduction, TLAPS

\* What TypeOK leaves open: the domain of snapshot.
Types == TypeOK /\ snapshot = [n \in Nodes |-> snapshot[n]]

\* While no sender was late, nothing outlasts its turn.
OnTime ==
  prompt => \A n \in Senders :
    /\ thread[n] = "wait" => timer[n] <= Interval
    /\ thread[n] \in {"send", "set"} => timer[n] <= Slack
    /\ thread[n] = "set" => stamp[n] <= timer[n]

\* A key is as old as the heartbeats lost since it was written allow, and the
\* part of the current round that is over.
AgeBound ==
  prompt => \A n \in Senders : Beating(n) /\ key[n] # None =>
    IF thread[n] = "wait" THEN key[n].age + Interval + Slack <= Oldest(missed[n]) + timer[n]
                          ELSE key[n].age + Slack <= Oldest(missed[n]) + timer[n]

TimeInv == Types /\ OnTime /\ AgeBound

-------------------------------------------------------------------------------
(* Numbers. *)

LEMMA Constants ==
  /\ Interval \in Nat /\ Interval > 0 /\ Slack \in Nat /\ DeadAfter \in Nat
  /\ KeyTTL \in Nat /\ KeyTTL > 0 /\ MaxMissed \in Nat /\ MaxErrors \in Nat
  /\ Senders \subseteq Nodes /\ None \notin Nodes
BY ClusterAssumption

\* One more lost heartbeat makes a key one round older.
LEMMA OldestGrows ==
  /\ \A k \in Nat : Oldest(k) \in Nat /\ Oldest(k + 1) = Oldest(k) + Interval + Slack
  /\ Oldest(0) = Interval + Slack + Slack
BY Constants DEF Oldest

LEMMA GrownBy ==
  ASSUME NEW limit \in Nat, NEW k \in 0..(limit + 1)
  PROVE  Grown(k, limit) \in 0..(limit + 1) /\ Grown(k, limit) <= k + 1
BY DEF Grown

LEMMA GrownByOne ==
  \A limit, k \in Nat : Grown(k, limit) \in Nat /\ Grown(k, limit) <= k + 1
BY DEF Grown

-------------------------------------------------------------------------------
(* Types. *)

LEMMA TypesInit == Init => Types
BY Constants DEF Init, Types, TypeOK

LEMMA BeatTypes ==
  ASSUME Types, NEW n \in Senders, BeatStep(n)
  PROVE  Types'
<1> USE Constants
<1>0. n \in Nodes /\ snapshot' = snapshot /\ target' = target
  BY DEF BeatStep, Start, Stop, Join, Stamp, Set, SetLost, Wake, failVars
<1>1. CASE Start(n)
  BY <1>1 DEF Types, TypeOK, Start, taskVars, failVars
<1>2. CASE Stop(n)
  BY <1>2 DEF Types, TypeOK, Stop, taskVars, failVars
<1>3. CASE Join(n)
  BY <1>3 DEF Types, TypeOK, Join, taskVars, failVars
<1>4. CASE Stamp(n)
  BY <1>4 DEF Types, TypeOK, Stamp, taskVars, failVars
<1>5. CASE Set(n)
  <2>1. Payload(n) \in [age : 0..(DeadAfter + 1), ttl : 1..KeyTTL]
    BY DEF Types, TypeOK, Payload
  <2>2. key' \in [Senders -> [age : 0..(DeadAfter + 1), ttl : 1..KeyTTL] \cup {None}]
    BY <1>5, <2>1 DEF Types, TypeOK, Set
  <2> QED
    BY <1>0, <1>5, <2>2 DEF Types, TypeOK, Set, Wait, taskVars, failVars
<1>6. CASE SetLost(n)
  BY <1>6 DEF Types, TypeOK, SetLost, Wait, taskVars, failVars
<1>7. CASE Wake(n)
  BY <1>7 DEF Types, TypeOK, Wake, taskVars, failVars
<1> QED
  BY <1>1, <1>2, <1>3, <1>4, <1>5, <1>6, <1>7 DEF BeatStep

LEMMA TickTypes ==
  ASSUME Types, Tick
  PROVE  Types'
<1> USE Constants
<1>1. timer' \in [Senders -> 0..(Interval + Slack + 1)]
  BY GrownBy DEF Types, TypeOK, Tick
<1>2. stamp' \in [Senders -> 0..(DeadAfter + 1)]
  BY GrownBy DEF Types, TypeOK, Tick
<1>3. ASSUME NEW n \in Senders, key[n] # None, key[n].ttl # 1
      PROVE  [age |-> Grown(key[n].age, DeadAfter), ttl |-> key[n].ttl - 1]
               \in [age : 0..(DeadAfter + 1), ttl : 1..KeyTTL]
  <2>1. key[n].age \in 0..(DeadAfter + 1) /\ key[n].ttl \in 1..KeyTTL
    BY <1>3 DEF Types, TypeOK
  <2>2. Grown(key[n].age, DeadAfter) \in 0..(DeadAfter + 1)
    BY <2>1, GrownBy
  <2>3. key[n].ttl - 1 \in 1..KeyTTL
    BY <1>3, <2>1
  <2> QED
    BY <2>2, <2>3
<1>4. key' \in [Senders -> [age : 0..(DeadAfter + 1), ttl : 1..KeyTTL] \cup {None}]
  BY <1>3 DEF Types, TypeOK, Tick
<1> QED
  BY <1>1, <1>2, <1>4 DEF Types, TypeOK, Tick, taskVars, failVars

LEMMA ReleaseTypes ==
  ASSUME Types, NEW f \in Nodes, NEW t \in Tasks, Release(f, t)
  PROVE  /\ registry' \in [Tasks -> Nodes \cup {None}]
         /\ taskLock' \in [Tasks -> Nodes \cup {None}]
         /\ offered' \subseteq Tasks
         /\ running' \in [Nodes -> SUBSET Tasks]
BY DEF Types, TypeOK, Release

LEMMA ReturnTypes ==
  ASSUME Types, NEW f \in Nodes, Return(f)
  PROVE  /\ target' \in [Nodes -> Nodes \cup {None}]
         /\ snapshot' = [n \in Nodes |-> snapshot'[n]]
         /\ \A n \in Nodes : snapshot'[n] # None => snapshot'[n] \subseteq Tasks /\ snapshot'[n] # {}
BY DEF Types, TypeOK, Return

LEMMA FailoverTypes ==
  ASSUME Types, NEW f \in Nodes, FailoverStep(f)
  PROVE  Types'
<1> USE Constants
<1>1. ASSUME NEW d \in Nodes, CallFailover(f, d)
      PROVE  Types'
  BY <1>1 DEF Types, TypeOK, CallFailover, beatVars, taskVars
<1>2. CASE Scan(f)
  <2>1. CASE Return(f)
    BY <1>2, <2>1, ReturnTypes DEF Types, TypeOK, Scan, beatVars, taskVars
  <2>2. CASE ~Return(f)
    <3>1. /\ OwnedBy(target[f]) # {} /\ OwnedBy(target[f]) \subseteq Tasks
          /\ snapshot' = [snapshot EXCEPT ![f] = OwnedBy(target[f])] /\ target' = target
      BY <1>2, <2>2 DEF Scan, OwnedBy
    <3> QED
      BY <1>2, <3>1 DEF Types, TypeOK, Scan, beatVars, taskVars
  <2> QED
    BY <2>1, <2>2
<1>3. CASE Reclaim(f)
  <2> PICK t \in snapshot[f] :
        /\ Release(f, t)
        /\ IF snapshot[f] = {t} THEN Return(f)
           ELSE snapshot' = [snapshot EXCEPT ![f] = @ \ {t}] /\ UNCHANGED target
    BY <1>3 DEF Reclaim
  <2>1. snapshot[f] \subseteq Tasks /\ t \in Tasks
    BY <1>3 DEF Types, TypeOK, Reclaim
  <2>2. CASE snapshot[f] = {t}
    BY <1>3, <2>1, <2>2, ReturnTypes, ReleaseTypes DEF Types, TypeOK, Reclaim, beatVars
  <2>3. CASE snapshot[f] # {t}
    <3>1. snapshot[f] \ {t} # {} /\ snapshot[f] \ {t} \subseteq Tasks
      BY <2>1, <2>3
    <3>2. /\ snapshot' = [n \in Nodes |-> snapshot'[n]]
          /\ \A n \in Nodes : snapshot'[n] # None => snapshot'[n] \subseteq Tasks /\ snapshot'[n] # {}
      BY <2>3, <3>1 DEF Types, TypeOK
    <3> QED
      BY <1>3, <2>1, <2>3, <3>2, ReleaseTypes DEF Types, TypeOK, Reclaim, beatVars
  <2> QED
    BY <2>2, <2>3
<1>4. CASE FailoverFails(f)
  <2>1. /\ registry' \in [Tasks -> Nodes \cup {None}] /\ taskLock' \in [Tasks -> Nodes \cup {None}]
        /\ offered' \subseteq Tasks /\ running' \in [Nodes -> SUBSET Tasks]
    <3>1. CASE UNCHANGED taskVars
      BY <3>1 DEF Types, TypeOK, taskVars
    <3>2. CASE snapshot[f] # None /\ \E t \in snapshot[f] : Release(f, t)
      <4> PICK t \in snapshot[f] : Release(f, t)
        BY <3>2
      <4>1. t \in Tasks
        BY <3>2 DEF Types, TypeOK
      <4> QED
        BY <4>1, ReleaseTypes
    <3> QED
      BY <1>4, <3>1, <3>2 DEF FailoverFails
  <2> QED
    BY <1>4, <2>1, ReturnTypes DEF Types, TypeOK, FailoverFails, beatVars
<1> QED
  BY <1>1, <1>2, <1>3, <1>4 DEF FailoverStep

LEMMA OutsideTypes ==
  ASSUME Types,
         NEW n \in Nodes, (\E t \in Tasks : Take(n, t)) \/ Crash(n) \/ Restart(n)
  PROVE  Types'
<1>1. CASE \E t \in Tasks : Take(n, t)
  BY <1>1 DEF Types, TypeOK, Take, beatVars, failVars
<1>2. CASE Crash(n)
  BY <1>2, ReturnTypes, Constants DEF Types, TypeOK, Crash
<1>3. CASE Restart(n)
  BY <1>3 DEF Types, TypeOK, Restart, beatVars, taskVars, failVars
<1> QED
  BY <1>1, <1>2, <1>3

LEMMA TypesNext == Types /\ [Next]_vars => Types'
<1> SUFFICES ASSUME Types, [Next]_vars PROVE Types'
  OBVIOUS
<1>1. CASE Next
  BY <1>1, BeatTypes, TickTypes, FailoverTypes, OutsideTypes DEF Next
<1>2. CASE UNCHANGED vars
  BY <1>2 DEF Types, TypeOK, vars, beatVars, taskVars, failVars
<1> QED
  BY <1>1, <1>2

-------------------------------------------------------------------------------
(* Ages. *)

LEMMA TimeInit == Init => TimeInv
BY TypesInit, Constants DEF Init, TimeInv, OnTime, AgeBound, Types, TypeOK

\* What Types says of the numbers of a sender.
LEMMA Sizes ==
  ASSUME Types, NEW n \in Senders
  PROVE  /\ n \in Nodes /\ timer[n] \in Nat /\ stamp[n] \in Nat /\ missed[n] \in Nat
         /\ timer[n] \in 0..(Interval + Slack + 1) /\ stamp[n] \in 0..(DeadAfter + 1)
         /\ key[n] # None =>
              key[n].age \in Nat /\ key[n].age \in 0..(DeadAfter + 1)
BY Constants DEF Types, TypeOK

LEMMA BeatTime ==
  ASSUME TimeInv, NEW n \in Senders, BeatStep(n)
  PROVE  OnTime' /\ AgeBound'
<1> USE Constants, OldestGrows
<1> DEFINE Timely(m) ==
      /\ thread[m] = "wait" => timer[m] <= Interval
      /\ thread[m] \in {"send", "set"} => timer[m] <= Slack
      /\ thread[m] = "set" => stamp[m] <= timer[m]
    Young(m) ==
      Beating(m) /\ key[m] # None =>
        IF thread[m] = "wait" THEN key[m].age + Interval + Slack <= Oldest(missed[m]) + timer[m]
                              ELSE key[m].age + Slack <= Oldest(missed[m]) + timer[m]
<1>1. prompt' = prompt
  BY DEF BeatStep, Start, Stop, Join, Stamp, Set, SetLost, Wake
<1>2. SUFFICES ASSUME prompt PROVE \A m \in Senders : Timely(m)' /\ Young(m)'
  BY <1>1 DEF OnTime, AgeBound
<1>3. \A m \in Senders : Timely(m) /\ Young(m)
  BY <1>2 DEF TimeInv, OnTime, AgeBound
<1>4. ASSUME NEW m \in Senders \ {n} PROVE Timely(m)' /\ Young(m)'
  <2>1. /\ thread'[m] = thread[m] /\ timer'[m] = timer[m] /\ stamp'[m] = stamp[m]
        /\ key'[m] = key[m] /\ missed'[m] = missed[m] /\ stopped'[m] = stopped[m]
        /\ m \in reported' <=> m \in reported
    BY DEF TimeInv, Types, TypeOK, BeatStep, Start, Stop, Join, Stamp, Set, SetLost, Wake, Wait
  <2> QED
    BY <1>3, <2>1 DEF Beating
<1>5. Timely(n)' /\ Young(n)'
  <2>0. Timely(n) /\ Young(n)
    BY <1>3
  <2> USE Sizes DEF TimeInv
  <2>1. CASE Start(n)
    BY <2>0, <2>1 DEF Types, TypeOK, Start, Beating
  <2>2. CASE Stop(n)
    BY <2>0, <2>2 DEF Types, TypeOK, Stop, Beating
  <2>3. CASE Join(n)
    BY <2>0, <2>3 DEF Types, TypeOK, Join, Beating
  <2>4. CASE Stamp(n)
    BY <2>0, <2>4 DEF Types, TypeOK, Stamp, Beating
  <2>5. CASE Set(n)
    <3>1. key'[n].age = stamp[n] /\ missed'[n] = 0 /\ timer'[n] = 0 /\ thread'[n] \in {"none", "wait"}
      BY <2>5 DEF Types, TypeOK, Set, Wait, Payload
    <3>2. thread'[n] = "none" => ~Beating(n)'
      BY DEF Beating
    <3>3. stamp[n] <= Slack
      BY <2>0, <2>5 DEF Set
    <3> QED
      BY <3>1, <3>2, <3>3
  <2>6. CASE SetLost(n)
    <3>1. /\ key' = key /\ missed'[n] = missed[n] + 1 /\ timer'[n] = 0
          /\ thread'[n] = IF stopped[n] THEN "none" ELSE "wait"
      BY <2>6 DEF Types, TypeOK, SetLost, Wait
    <3>2. Beating(n)' => Beating(n) /\ thread'[n] = "wait"
      BY <2>6, <3>1 DEF SetLost, Wait, Beating
    <3>3. thread[n] = "set" /\ timer[n] <= Slack
      BY <2>0, <2>6 DEF SetLost
    <3> QED
      BY <2>0, <3>1, <3>2, <3>3
  <2>7. CASE Wake(n)
    <3>1. /\ key' = key /\ missed' = missed /\ timer'[n] = 0 /\ thread'[n] = "send"
          /\ Beating(n)' => Beating(n)
      BY <2>7 DEF Types, TypeOK, Wake, Beating
    <3>2. thread[n] = "wait" /\ timer[n] <= Interval
      BY <2>0, <2>7 DEF Wake
    <3> QED
      BY <2>0, <3>1, <3>2
  <2> QED
    BY <2>1, <2>2, <2>3, <2>4, <2>5, <2>6, <2>7 DEF BeatStep
<1> QED
  BY <1>4, <1>5

LEMMA TickTime ==
  ASSUME TimeInv, Tick
  PROVE  OnTime' /\ AgeBound'
<1> USE Constants, OldestGrows
<1> SUFFICES ASSUME prompt' PROVE OnTime' /\ AgeBound'
  BY DEF OnTime, AgeBound
<1>1. prompt /\ \A n \in Senders : ~Late(n)
  BY DEF Tick
<1>2. ASSUME NEW n \in Senders, thread[n] # "none"
      PROVE  /\ thread'[n] = thread[n]
             /\ thread[n] = "wait" => timer[n] < Interval
             /\ thread[n] # "wait" => timer[n] < Slack
             /\ timer'[n] = timer[n] + 1
             /\ thread[n] = "set" => stamp'[n] <= stamp[n] + 1 /\ stamp'[n] \in Nat
  <2>1. /\ thread[n] = "wait" => timer[n] < Interval
        /\ thread[n] # "wait" => timer[n] < Slack
    BY <1>1, <1>2, Sizes DEF Late, TimeInv, Types, TypeOK
  <2>2. timer'[n] = timer[n] + 1
    BY <1>2, <2>1, Sizes DEF Tick, Grown, TimeInv
  <2>3. thread[n] = "set" => stamp'[n] <= stamp[n] + 1 /\ stamp'[n] \in Nat
    <3>1. stamp[n] \in 0..(DeadAfter + 1) /\ stamp[n] \in Nat
      BY Sizes DEF TimeInv
    <3>2. Grown(stamp[n], DeadAfter) \in Nat /\ Grown(stamp[n], DeadAfter) <= stamp[n] + 1
      BY <3>1, GrownByOne
    <3> QED
      BY <3>2 DEF Tick
  <2> QED
    BY <2>1, <2>2, <2>3 DEF Tick
<1>3. OnTime'
  BY <1>1, <1>2, Sizes DEF TimeInv, OnTime, Tick
<1>4. ASSUME NEW n \in Senders, Beating(n)', key'[n] # None
      PROVE  /\ Beating(n) /\ key[n] # None /\ thread[n] # "none" /\ missed'[n] = missed[n]
             /\ key'[n].age <= key[n].age + 1 /\ key'[n].age \in Nat
  <2>1. Beating(n) /\ key[n] # None /\ thread[n] # "none" /\ missed'[n] = missed[n]
    BY <1>4 DEF Tick, Beating
  <2>2. key'[n].age = Grown(key[n].age, DeadAfter)
    BY <1>4, <2>1 DEF Tick
  <2>3. key[n].age \in 0..(DeadAfter + 1) /\ key[n].age \in Nat
    BY <2>1, Sizes DEF TimeInv
  <2>4. Grown(key[n].age, DeadAfter) \in Nat /\ Grown(key[n].age, DeadAfter) <= key[n].age + 1
    BY <2>3, GrownByOne
  <2> QED
    BY <2>1, <2>2, <2>4
<1>5. AgeBound'
  <2> SUFFICES ASSUME NEW n \in Senders, Beating(n)', key'[n] # None
      PROVE  IF thread[n] = "wait"
             THEN key'[n].age + Interval + Slack <= Oldest(missed[n]) + timer'[n]
             ELSE key'[n].age + Slack <= Oldest(missed[n]) + timer'[n]
    BY <1>4 DEF AgeBound, Tick
  <2>1. IF thread[n] = "wait" THEN key[n].age + Interval + Slack <= Oldest(missed[n]) + timer[n]
                              ELSE key[n].age + Slack <= Oldest(missed[n]) + timer[n]
    BY <1>1, <1>4 DEF TimeInv, AgeBound
  <2>2. Oldest(missed[n]) \in Nat
    BY Sizes DEF TimeInv
  <2> QED
    BY <1>2, <1>4, <2>1, <2>2, Sizes DEF TimeInv
<1> QED
  BY <1>3, <1>5

LEMMA TimeNext == TimeInv /\ [Next]_vars => TimeInv'
<1> SUFFICES ASSUME TimeInv, [Next]_vars PROVE OnTime' /\ AgeBound'
  BY TypesNext DEF TimeInv
<1>1. CASE \E n \in Nodes : FailoverStep(n) \/ (\E t \in Tasks : Take(n, t)) \/ Restart(n)
  <2>1. UNCHANGED beatVars
    BY <1>1 DEF FailoverStep, CallFailover, Scan, Reclaim, FailoverFails, Take, Restart
  <2> QED
    BY <2>1 DEF TimeInv, OnTime, AgeBound, Beating, beatVars
<1>2. ASSUME NEW n \in Nodes, Crash(n)
      PROVE  OnTime' /\ AgeBound'
  <2>1. thread'[n] = "none" /\ UNCHANGED <<timer, key, missed, prompt>>
    BY <1>2 DEF TimeInv, Types, TypeOK, Crash
  <2>2. ASSUME NEW m \in Senders, m # n
        PROVE  /\ thread'[m] = thread[m] /\ stamp'[m] = stamp[m]
               /\ Beating(m)' => Beating(m)
    BY <1>2, <2>2 DEF TimeInv, Types, TypeOK, Crash, Beating
  <2>3. OnTime'
    BY <2>1, <2>2 DEF TimeInv, OnTime
  <2>4. ASSUME NEW m \in Senders, Beating(m)'
        PROVE  m # n /\ Beating(m)
    BY <2>1, <2>2, <2>4 DEF Beating
  <2>5. AgeBound'
    BY <2>1, <2>2, <2>4 DEF TimeInv, AgeBound
  <2> QED
    BY <2>3, <2>5
<1>3. CASE UNCHANGED vars
  BY <1>3 DEF TimeInv, OnTime, AgeBound, Beating, vars, beatVars
<1> QED
  BY <1>1, <1>2, <1>3, BeatTime, TickTime DEF Next

\* In time, and with a key: not DEAD before enough was lost.
LEMMA TimelyIsAlive == TimeInv => NoFalseDeath
<1> SUFFICES ASSUME TimeInv, NEW n \in Senders, prompt, Beating(n), Status(n) = "DEAD"
    PROVE  Oldest(missed[n]) > DeadAfter
  BY DEF NoFalseDeath
<1>1. key[n] # None /\ key[n].age > DeadAfter
  BY DEF Status
<1>2. key[n].age <= Oldest(missed[n])
  BY <1>1, OldestGrows, Sizes, Constants DEF TimeInv, OnTime, AgeBound, Beating, Types, TypeOK
<1> QED
  BY <1>1, <1>2, OldestGrows, Sizes, Constants DEF TimeInv

-------------------------------------------------------------------------------
(* Tasks. *)

\* Lock, registry and offer of a task change together.
Listed ==
  \A t \in Tasks : taskLock[t] = registry[t] /\ (t \in offered <=> registry[t] = None)

\* A snapshot belongs to a failover.
Snapshots == \A n \in Nodes : target[n] = None => snapshot[n] = None

Known == Nodes \ Senders \subseteq reported

\* No node that is at work was stopped, and no sender lost so many heartbeats that
\* it would be taken for DEAD.
Careful ==
  orderly => /\ \A n \in Senders : Oldest(missed[n]) <= DeadAfter
             /\ \A n \in Nodes : ~Beating(n) => running[n] = {}

\* The nodes at work are those the registry names; a failover is about one node
\* that does not beat, and its snapshot holds tasks that are still this node's.
Settled(n) ==
  target[n] # None =>
    /\ ~Beating(target[n])
    /\ \A m \in Nodes : target[m] = target[n] => m = n
    /\ snapshot[n] # None => \A t \in snapshot[n] : registry[t] = target[n]

Owners ==
  prompt /\ orderly =>
    \A n \in Nodes : Settled(n) /\ \A t \in running[n] : registry[t] = n

TaskInv == TimeInv /\ Listed /\ Snapshots /\ Known /\ Careful /\ Owners

LEMMA TaskInit == Init => TaskInv
<1> SUFFICES ASSUME Init PROVE TaskInv
  OBVIOUS
<1>1. \A n \in Senders : Oldest(missed[n]) <= DeadAfter
  BY OldestGrows, TimingAssumption DEF Init
<1> QED
  BY <1>1, TimeInit DEF Init, TaskInv, Listed, Snapshots, Known, Careful, Owners, Settled

\* A step of a sender: whoever did not beat before, and is the target of a failover,
\* does not beat afterwards.
LEMMA BeatTasks ==
  ASSUME TaskInv, NEW n \in Senders, BeatStep(n)
  PROVE  Listed' /\ Known' /\ Careful' /\ Owners'
<1> USE Constants DEF TaskInv, TimeInv
<1>1. UNCHANGED <<taskVars, failVars, prompt>> /\ (orderly' => orderly)
  <2>1. UNCHANGED <<taskVars, failVars, prompt>>
    BY DEF BeatStep, Start, Stop, Join, Stamp, Set, SetLost, Wake
  <2>2. CASE Stop(n) \/ Set(n) \/ SetLost(n)
    BY <2>1, <2>2, Zenon DEF Stop, Set, SetLost
  <2>3. CASE Start(n) \/ Join(n) \/ Stamp(n) \/ Wake(n)
    BY <2>1, <2>3 DEF Start, Join, Stamp, Wake
  <2> QED
    BY <2>2, <2>3 DEF BeatStep
<1>2. Listed'
  BY <1>1 DEF Listed, taskVars
<1>3. Known'
  BY DEF Known, BeatStep, Start, Stop, Join, Stamp, Set, SetLost, Wake
<1>4. ASSUME NEW m \in Nodes, m # n
      PROVE  Beating(m)' <=> Beating(m)
  BY <1>4 DEF Types, TypeOK, Beating, BeatStep, Start, Stop, Join, Stamp, Set, SetLost, Wake, Wait
<1>5. ASSUME orderly'
      PROVE  \A m \in Senders : Oldest(missed'[m]) <= DeadAfter
  <2>1. ASSUME NEW m \in Senders, m # n
        PROVE  missed'[m] = missed[m]
    BY <2>1 DEF Types, TypeOK, BeatStep, Start, Stop, Join, Stamp, Set, SetLost, Wake
  <2>2. Oldest(missed'[n]) <= DeadAfter
    <3>1. CASE SetLost(n)
      BY <1>5, <3>1 DEF SetLost
    <3>2. CASE ~SetLost(n)
      <4>1. missed'[n] \in {0, missed[n]}
        BY <3>2 DEF Types, TypeOK, BeatStep, Start, Stop, Join, Stamp, Set, Wake
      <4> QED
        BY <1>1, <1>5, <4>1, OldestGrows, TimingAssumption DEF Careful
    <3> QED
      BY <3>1, <3>2
  <2> QED
    BY <1>1, <1>5, <2>1, <2>2 DEF Careful
<1>6. ASSUME orderly', ~Beating(n)'
      PROVE  running[n] = {}
  <2>1. CASE Stop(n)
    BY <1>6, <2>1 DEF Stop
  <2>2. CASE ~Stop(n)
    <3>1. ~Beating(n)
      BY <1>6, <2>2 DEF Types, TypeOK, Beating, BeatStep, Start, Join, Stamp, Set, SetLost, Wake, Wait
    <3> QED
      BY <1>1, <1>6, <3>1 DEF Careful
  <2> QED
    BY <2>1, <2>2
<1>7. Careful'
  BY <1>1, <1>4, <1>5, <1>6 DEF Careful, taskVars
<1>8. ASSUME orderly', ~Beating(n), NEW f \in Nodes, target[f] = n
      PROVE  ~Beating(n)'
  <2>1. CASE Set(n)
    BY <1>8, <2>1 DEF Types, TypeOK, Beating, Set, Wait
  <2>2. CASE ~Set(n)
    BY <1>8, <2>2 DEF Types, TypeOK, Beating, BeatStep, Start, Stop, Join, Stamp, SetLost, Wake, Wait
  <2> QED
    BY <2>1, <2>2
<1>9. Owners'
  <2> SUFFICES ASSUME prompt', orderly' PROVE Owners'
    BY DEF Owners
  <2>0. orderly' /\ prompt /\ orderly
    BY <1>1
  <2>1. ASSUME NEW f \in Nodes, target[f] # None
        PROVE  ~Beating(target[f])'
    <3>1. ~Beating(target[f]) /\ target[f] \in Nodes /\ target' = target
      BY <1>1, <2>1 DEF Owners, Settled, Types, TypeOK, failVars
    <3>2. CASE target[f] = n
      BY <1>8, <2>0, <3>1, <3>2
    <3>3. CASE target[f] # n
      BY <1>4, <3>1, <3>3
    <3> QED
      BY <3>2, <3>3
  <2> QED
    BY <1>1, <2>1 DEF Owners, Settled, taskVars, failVars
<1> QED
  BY <1>2, <1>3, <1>7, <1>9

\* What is seen DEAD does not beat, and so is idle.
LEMMA DeadIsSilent ==
  ASSUME TaskInv, prompt, orderly, NEW d \in Nodes, Status(d) = "DEAD"
  PROVE  ~Beating(d)
<1>1. d \in Senders
  BY DEF Status
<1>2. Oldest(missed[d]) <= DeadAfter /\ Oldest(missed[d]) \in Nat
  BY <1>1, OldestGrows, Sizes DEF TaskInv, TimeInv, Careful
<1> QED
  BY <1>1, <1>2, TimelyIsAlive, Constants DEF TaskInv, NoFalseDeath

\* A task that a failover releases is executed by nobody, and in no other snapshot.
LEMMA ReleaseTasks ==
  ASSUME TaskInv, NEW f \in Nodes, target[f] # None, snapshot[f] # None,
         NEW t \in snapshot[f], Release(f, t), UNCHANGED <<beatVars, orderly>>
  PROVE  /\ Listed' /\ Careful'
         /\ prompt /\ orderly =>
              /\ \A n \in Nodes : \A s \in running[n] : registry'[s] = n
              /\ \A g \in Nodes \ {f} : target[g] # None /\ snapshot[g] # None =>
                    \A s \in snapshot[g] : registry'[s] = target[g]
              /\ \A s \in snapshot[f] \ {t} : registry'[s] = target[f]
<1> USE DEF TaskInv, TimeInv
<1>1. t \in Tasks /\ \A g \in Nodes : snapshot[g] # None => snapshot[g] \subseteq Tasks
  BY DEF Types, TypeOK
<1>2. /\ registry'[t] = None /\ taskLock'[t] = None /\ t \in offered' /\ running' = running
      /\ \A s \in Tasks \ {t} : /\ registry'[s] = registry[s] /\ taskLock'[s] = taskLock[s]
                                /\ s \in offered' <=> s \in offered
  BY <1>1 DEF Release, Types, TypeOK
<1>3. Listed'
  <2>1. ASSUME NEW s \in Tasks
        PROVE  taskLock'[s] = registry'[s] /\ (s \in offered' <=> registry'[s] = None)
    BY <1>2 DEF Listed
  <2> QED
    BY <2>1 DEF Listed
<1>4. Careful'
  BY <1>2 DEF Careful, Beating, beatVars
<1>5. ASSUME prompt, orderly
      PROVE  /\ \A n \in Nodes : \A s \in running[n] : registry'[s] = n
             /\ \A g \in Nodes \ {f} : target[g] # None /\ snapshot[g] # None =>
                   \A s \in snapshot[g] : registry'[s] = target[g]
             /\ \A s \in snapshot[f] \ {t} : registry'[s] = target[f]
  <2>1. registry[t] = target[f] /\ running[target[f]] = {} /\ target[f] \in Nodes
    BY <1>5 DEF Owners, Settled, Careful, Types, TypeOK
  <2>2. ASSUME NEW n \in Nodes, NEW s \in running[n]
        PROVE  registry'[s] = n
    <3>1. registry[s] = n /\ s \in Tasks
      BY <1>5 DEF Owners, Types, TypeOK
    <3> QED
      BY <1>2, <2>1, <3>1
  <2>3. ASSUME NEW g \in Nodes \ {f}, target[g] # None, snapshot[g] # None, NEW s \in snapshot[g]
        PROVE  registry'[s] = target[g]
    <3>1. registry[s] = target[g] /\ target[g] # target[f]
      BY <1>5, <2>3 DEF Owners, Settled
    <3> QED
      BY <1>1, <1>2, <2>1, <2>3, <3>1
  <2>4. ASSUME NEW s \in snapshot[f] \ {t}
        PROVE  registry'[s] = target[f]
    BY <1>1, <1>2, <1>5 DEF Owners, Settled
  <2> QED
    BY <2>2, <2>3, <2>4
<1> QED
  BY <1>3, <1>4, <1>5

LEMMA FailoverTasks ==
  ASSUME TaskInv, NEW f \in Nodes, FailoverStep(f)
  PROVE  Listed' /\ Known' /\ Careful' /\ Owners'
<1> USE DEF TaskInv, TimeInv
<1>1. UNCHANGED <<beatVars, running>> /\ (orderly' => orderly)
  <2>1. CASE \E d \in Nodes : CallFailover(f, d)
    <3>1. orderly' => orderly
      BY <2>1, Zenon DEF CallFailover
    <3> QED
      BY <2>1, <3>1 DEF CallFailover, taskVars
  <2>2. CASE Scan(f) \/ Reclaim(f) \/ FailoverFails(f)
    BY <2>2 DEF Scan, Reclaim, FailoverFails, Release, taskVars
  <2> QED
    BY <2>1, <2>2 DEF FailoverStep
<1>2. Known' /\ \A n \in Nodes : Beating(n)' <=> Beating(n)
  BY <1>1 DEF Known, Beating, beatVars
<1>3. ASSUME NEW d \in Nodes, CallFailover(f, d)
      PROVE  Listed' /\ Careful' /\ Owners'
  <2>1. UNCHANGED <<taskVars, snapshot>> /\ target' = [target EXCEPT ![f] = d]
    BY <1>3 DEF CallFailover
  <2>2. Listed' /\ Careful'
    BY <1>1, <1>2, <2>1 DEF Listed, Careful, beatVars, taskVars
  <2>3. ASSUME prompt', orderly'
        PROVE  Owners'
    <3>1. ~Beating(d) /\ snapshot[f] = None /\ \A g \in Nodes : target[g] # d
      <4>1. prompt /\ orderly /\ Status(d) = "DEAD" /\ \A g \in Nodes : target[g] # d
        <5>1. prompt /\ orderly
          BY <1>1, <2>3 DEF beatVars
        <5>2. orderly' = (orderly /\ \A g \in Nodes : target[g] # d) /\ Status(d) = "DEAD"
          BY <1>3 DEF CallFailover
        <5> QED
          BY <2>3, <5>1, <5>2, Zenon
      <4>2. snapshot[f] = None
        BY <1>3 DEF CallFailover, Snapshots
      <4> QED
        BY <4>1, <4>2, DeadIsSilent
    <3> QED
      BY <1>1, <1>2, <2>1, <2>3, <3>1 DEF Owners, Settled, Types, TypeOK, beatVars, taskVars
  <2> QED
    BY <2>2, <2>3 DEF Owners
<1>4. ASSUME Scan(f)
      PROVE  Listed' /\ Careful' /\ Owners'
  <2>1. UNCHANGED taskVars /\ orderly' = orderly /\ target[f] # None
    BY <1>4 DEF Scan
  <2>2. Listed' /\ Careful'
    BY <1>1, <1>2, <2>1 DEF Listed, Careful, beatVars, taskVars
  <2>3. CASE Return(f)
    <3>1. target'[f] = None /\ \A g \in Nodes \ {f} : target'[g] = target[g] /\ snapshot'[g] = snapshot[g]
      BY <2>3 DEF Return, Types, TypeOK
    <3>2. Owners'
      BY <1>1, <1>2, <2>1, <3>1 DEF Owners, Settled, Types, TypeOK, beatVars, taskVars
    <3> QED
      BY <2>2, <3>2
  <2>4. CASE ~Return(f)
    <3>1. /\ target' = target /\ \A g \in Nodes \ {f} : snapshot'[g] = snapshot[g]
          /\ snapshot'[f] = OwnedBy(target[f])
      BY <1>4, <2>4 DEF Scan, Types, TypeOK
    <3>2. \A t \in snapshot'[f] : registry[t] = target[f]
      BY <3>1 DEF OwnedBy
    <3>3. Owners'
      BY <1>1, <1>2, <2>1, <3>1, <3>2 DEF Owners, Settled, Types, TypeOK, beatVars, taskVars
    <3> QED
      BY <2>2, <3>3
  <2> QED
    BY <2>3, <2>4
<1>5. ASSUME target[f] # None, snapshot[f] # None, NEW t \in snapshot[f], Release(f, t),
             orderly' = orderly,
             \/ Return(f)
             \/ snapshot' = [snapshot EXCEPT ![f] = @ \ {t}] /\ UNCHANGED target
      PROVE  Listed' /\ Careful' /\ Owners'
  <2>1. /\ Listed' /\ Careful'
        /\ prompt /\ orderly =>
             /\ \A n \in Nodes : \A s \in running[n] : registry'[s] = n
             /\ \A g \in Nodes \ {f} : target[g] # None /\ snapshot[g] # None =>
                   \A s \in snapshot[g] : registry'[s] = target[g]
             /\ \A s \in snapshot[f] \ {t} : registry'[s] = target[f]
    BY <1>1, <1>5, ReleaseTasks
  <2>2. ASSUME prompt', orderly'
        PROVE  Owners'
    <3>1. prompt /\ orderly
      BY <1>1, <2>2 DEF beatVars
    <3>2. \A g \in Nodes \ {f} : target'[g] = target[g] /\ snapshot'[g] = snapshot[g]
      BY <1>5 DEF Return, Types, TypeOK
    <3>3. \/ target'[f] = None
          \/ target'[f] = target[f] /\ snapshot'[f] = snapshot[f] \ {t}
      BY <1>5 DEF Return, Types, TypeOK
    <3>4. ASSUME NEW g \in Nodes
          PROVE  Settled(g)'
      <4>1. Settled(g) /\ (target[g] \in Nodes \/ target[g] = None)
        BY <3>1 DEF Owners, Types, TypeOK
      <4>2. target'[g] # None => /\ target'[g] = target[g] /\ ~Beating(target[g])'
                                 /\ \A m \in Nodes : target'[m] = target[g] => m = g
        BY <1>2, <3>2, <3>3, <4>1 DEF Settled
      <4>3. target'[g] # None /\ snapshot'[g] # None => \A s \in snapshot'[g] : registry'[s] = target[g]
        BY <2>1, <3>1, <3>2, <3>3
      <4> QED
        BY <4>2, <4>3 DEF Settled
    <3> QED
      BY <1>1, <2>1, <3>1, <3>4 DEF Owners
  <2> QED
    BY <2>1, <2>2 DEF Owners
<1>6. ASSUME Reclaim(f)
      PROVE  Listed' /\ Careful' /\ Owners'
  BY <1>5, <1>6 DEF Reclaim
<1>7. ASSUME FailoverFails(f)
      PROVE  Listed' /\ Careful' /\ Owners'
  <2>1. target[f] # None /\ orderly' = orderly /\ Return(f)
    BY <1>7 DEF FailoverFails
  <2>2. CASE UNCHANGED taskVars
    <3>1. target'[f] = None /\ \A g \in Nodes \ {f} : target'[g] = target[g] /\ snapshot'[g] = snapshot[g]
      BY <2>1 DEF Return, Types, TypeOK
    <3>2. Listed' /\ Careful'
      BY <1>1, <1>2, <2>1, <2>2 DEF Listed, Careful, beatVars, taskVars
    <3>3. Owners'
      BY <1>1, <1>2, <2>1, <2>2, <3>1 DEF Owners, Settled, Types, TypeOK, beatVars, taskVars
    <3> QED
      BY <3>2, <3>3
  <2>3. CASE snapshot[f] # None /\ \E t \in snapshot[f] : Release(f, t)
    BY <1>5, <2>1, <2>3
  <2> QED
    BY <1>7, <2>2, <2>3 DEF FailoverFails
<1> QED
  BY <1>2, <1>3, <1>4, <1>6, <1>7 DEF FailoverStep

LEMMA TakeTasks ==
  ASSUME TaskInv, NEW n \in Nodes, NEW t \in Tasks, Take(n, t)
  PROVE  Listed' /\ Known' /\ Careful' /\ Owners'
<1> USE Constants DEF TaskInv, TimeInv
<1>1. UNCHANGED <<beatVars, failVars, orderly>> /\ Beating(n) /\ t \in offered
  BY DEF Take
<1>2. registry[t] = None
  BY <1>1 DEF Listed
<1>3. /\ registry'[t] = n /\ taskLock'[t] = n /\ t \notin offered'
      /\ \A s \in Tasks \ {t} : /\ registry'[s] = registry[s] /\ taskLock'[s] = taskLock[s]
                                /\ s \in offered' <=> s \in offered
      /\ running'[n] = running[n] \cup {t} /\ \A m \in Nodes \ {n} : running'[m] = running[m]
  BY DEF Take, Types, TypeOK
<1>4. Known' /\ \A m \in Nodes : Beating(m)' <=> Beating(m)
  BY <1>1 DEF Known, Beating, beatVars
<1>5. ASSUME NEW s \in Tasks
      PROVE  taskLock'[s] = registry'[s] /\ (s \in offered' <=> registry'[s] = None)
  <2>1. CASE s = t
    BY <1>3, <2>1
  <2>2. CASE s # t
    BY <1>3, <2>2 DEF Listed
  <2> QED
    BY <2>1, <2>2
<1>6. Listed'
  BY <1>5 DEF Listed
<1>7. Careful'
  BY <1>1, <1>3, <1>4 DEF Careful, beatVars
<1>8. ASSUME prompt', orderly'
      PROVE  Owners'
  <2>1. prompt /\ orderly /\ target' = target /\ snapshot' = snapshot
    BY <1>1, <1>8 DEF beatVars, failVars
  <2>2. ASSUME NEW m \in Nodes, NEW s \in running'[m]
        PROVE  registry'[s] = m
    <3>1. s \in running[m] => s \in Tasks /\ registry[s] = m
      BY <2>1 DEF Owners, Types, TypeOK
    <3>2. CASE s = t
      BY <1>2, <1>3, <2>2, <3>1, <3>2
    <3>3. CASE s # t
      <4>1. s \in running[m]
        BY <1>3, <2>2, <3>3
      <4> QED
        BY <1>3, <3>1, <3>3, <4>1
    <3> QED
      BY <3>2, <3>3
  <2>3. ASSUME NEW g \in Nodes, target[g] # None, snapshot[g] # None, NEW s \in snapshot[g]
        PROVE  registry'[s] = target[g]
    <3>1. s \in Tasks /\ registry[s] = target[g]
      BY <2>1, <2>3 DEF Owners, Settled, Types, TypeOK
    <3>2. target[g] \in Nodes
      BY <2>3 DEF Types, TypeOK
    <3>3. s # t
      BY <1>2, <3>1, <3>2
    <3> QED
      BY <1>3, <3>1, <3>3
  <2>4. ASSUME NEW g \in Nodes, target[g] # None
        PROVE  ~Beating(target[g])' /\ \A m \in Nodes : target[m] = target[g] => m = g
    BY <1>4, <2>1, <2>4 DEF Owners, Settled, Types, TypeOK
  <2> QED
    BY <2>1, <2>2, <2>3, <2>4 DEF Owners, Settled
<1> QED
  BY <1>4, <1>6, <1>7, <1>8 DEF Owners

LEMMA CrashTasks ==
  ASSUME TaskInv, NEW n \in Nodes, Crash(n)
  PROVE  Listed' /\ Known' /\ Careful' /\ Owners'
<1> USE Constants DEF TaskInv, TimeInv
<1>1. /\ n \in Senders /\ UNCHANGED <<missed, prompt, registry, taskLock, offered, orderly>>
      /\ target'[n] = None
      /\ \A g \in Nodes \ {n} : target'[g] = target[g] /\ snapshot'[g] = snapshot[g]
      /\ running'[n] = {} /\ \A m \in Nodes \ {n} : running'[m] = running[m]
  BY DEF Crash, Return, Types, TypeOK
<1>2. /\ Known' /\ ~Beating(n)'
      /\ \A m \in Nodes \ {n} : Beating(m)' <=> Beating(m)
  BY DEF Crash, Known, Beating, Types, TypeOK
<1>3. Listed'
  BY <1>1 DEF Listed
<1>4. Careful'
  BY <1>1, <1>2 DEF Careful
<1>5. ASSUME prompt, orderly, NEW g \in Nodes
      PROVE  Settled(g)' /\ \A t \in running'[g] : registry'[t] = g
  <2>1. Settled(g) /\ (target[g] \in Nodes \/ target[g] = None) /\ \A t \in running[g] : registry[t] = g
    BY <1>5 DEF Owners, Types, TypeOK
  <2>2. Settled(g)'
    BY <1>1, <1>2, <2>1 DEF Settled
  <2> QED
    BY <1>1, <2>1, <2>2
<1>6. Owners'
  BY <1>1, <1>5 DEF Owners
<1> QED
  BY <1>2, <1>3, <1>4, <1>6

LEMMA TaskNext == TaskInv /\ [Next]_vars => TaskInv'
<1> SUFFICES ASSUME TaskInv, [Next]_vars PROVE Listed' /\ Snapshots' /\ Known' /\ Careful' /\ Owners'
  BY TimeNext DEF TaskInv
<1>0. Snapshots'
  <2>1. CASE UNCHANGED failVars
    BY <2>1 DEF TaskInv, Snapshots, failVars
  <2>2. ASSUME NEW n \in Nodes, FailoverStep(n) \/ Crash(n)
        PROVE  Snapshots'
    BY <2>2 DEF TaskInv, TimeInv, Types, TypeOK, Snapshots, FailoverStep, CallFailover, Scan,
                Reclaim, FailoverFails, Crash, Return
  <2> QED
    BY <2>1, <2>2 DEF Next, BeatStep, Start, Stop, Join, Stamp, Set, SetLost, Wake, Tick,
                      Take, Restart, vars
<1>1. CASE Tick \/ UNCHANGED vars \/ \E n \in Nodes : Restart(n)
  <2>1. /\ UNCHANGED <<thread, stopped, missed, reported, taskVars, failVars, orderly>>
        /\ prompt' => prompt
    <3>1. CASE Tick
      <4>1. prompt' => prompt
        BY <3>1, Zenon DEF Tick
      <4> QED
        BY <3>1, <4>1 DEF Tick
    <3>2. CASE UNCHANGED vars \/ \E n \in Nodes : Restart(n)
      BY <3>2 DEF Restart, vars, beatVars
    <3> QED
      BY <1>1, <3>1, <3>2
  <2>2. \A n \in Nodes : Beating(n)' <=> Beating(n)
    BY <2>1 DEF Beating
  <2>3. Listed' /\ Known' /\ Careful'
    BY <2>1, <2>2 DEF TaskInv, Listed, Known, Careful, taskVars
  <2>4. Owners'
    BY <2>1, <2>2 DEF TaskInv, TimeInv, Types, TypeOK, Owners, Settled, taskVars, failVars
  <2> QED
    BY <1>0, <2>3, <2>4
<1> QED
  BY <1>0, <1>1, BeatTasks, FailoverTasks, TakeTasks, CrashTasks DEF Next

\* Types of senders, tasks and failovers, for any number of nodes and tasks.
THEOREM ClusterTyped == Spec => []TypeOK
<1>1. TimeInv => TypeOK
  BY DEF TimeInv, Types
<1> QED
  BY <1>1, TimeInit, TimeNext, PTL DEF Spec

\* A node on time is never declared DEAD before enough heartbeats in a row were
\* lost, whatever the interval, the limits and the order of starts and stops.
THEOREM TimelyNodesLive == Spec => []NoFalseDeath
BY TimeInit, TimeNext, TimelyIsAlive, PTL DEF Spec

\* No task has two nodes that execute it when senders are on time, heartbeats are not
\* lost in numbers, no node is stopped at work, and each dead node is failed over by
\* one other node before it returns: for any number of nodes, tasks and failovers.
THEOREM OneNodePerTask == Spec => []OrderlyOneRunner
<1>1. TaskInv => OrderlyOneRunner
  <2> SUFFICES ASSUME TaskInv, prompt, orderly, NEW m \in Nodes, NEW n \in Nodes, m # n,
                      NEW t \in running[m], t \in running[n]
      PROVE  FALSE
    BY DEF OrderlyOneRunner, OneRunner
  <2> QED
    BY DEF TaskInv, Owners
<1> QED
  BY <1>1, TaskInit, TaskNext, PTL DEF Spec

-------------------------------------------------------------------------------
(* Alerts: where each one is, and in which order. *)

Summaries == [kept : SUBSET Alerts, from : SUBSET Alerts]

\* Between two batches nothing is in progress; a standalone process has nothing in
\* progress while it fetches, either.
AlertTypes ==
  /\ buffer \in [Places -> Seq(Alerts)]
  /\ raw \in [Procs -> Seq(Alerts)]
  /\ pc \in [Procs -> {"down", "sleep", "fetch", "send", "stopped"}]
  /\ next \in [Procs -> 1..Len(Channels)]
  /\ received \in [ToSet(Channels) -> Seq(Summaries)]
  /\ emitted \in Seq(Alerts)
  /\ stopping \subseteq Procs
  /\ faults \in 0..MaxFaults
  /\ gone \subseteq Alerts \X {"reply", "send", "exit", "crash"}
  /\ \A p \in Procs : pc[p] # "send" => next[p] = 1
  /\ \A p \in Procs : pc[p] \in {"sleep", "stopped", "down"} => raw[p] = <<>>
  /\ \A p \in Procs : p \notin Shared /\ pc[p] = "fetch" => raw[p] = <<>>

\* An alert is in one buffer or one batch at most, all of them emitted; and what a
\* channel got is in no buffer, nor in a batch the channel is still to get.
Told == [c \in ToSet(Channels) |-> UNION {m.from : m \in ToSet(received[c])}]

Apart ==
  /\ \A x \in Places : ToSet(buffer[x]) \subseteq ToSet(emitted)
  /\ \A p \in Procs : ToSet(raw[p]) \subseteq ToSet(emitted)
  /\ \A c \in ToSet(Channels) : Told[c] \subseteq ToSet(emitted)
  /\ \A x, y \in Places : x # y => ToSet(buffer[x]) \cap ToSet(buffer[y]) = {}
  /\ \A p, q \in Procs : p # q => ToSet(raw[p]) \cap ToSet(raw[q]) = {}
  /\ \A x \in Places, p \in Procs : ToSet(buffer[x]) \cap ToSet(raw[p]) = {}
  /\ \A x \in Places, c \in ToSet(Channels) : ToSet(buffer[x]) \cap Told[c] = {}
  /\ \A p \in Procs, i \in 1..Len(Channels) :
       i >= next[p] => ToSet(raw[p]) \cap Told[Channels[i]] = {}
  /\ ToldOnce

\* Buffers and batches are in the order of emission, and what was taken from a buffer
\* was emitted before what is left.
Before == {ab \in Alerts \X Alerts : EmittedBefore(ab[1], ab[2])}

Ordered(s, R) == \A m, n \in 1..Len(s) : m < n => s[m] # s[n] /\ <<s[m], s[n]>> \in R

InOrder ==
  /\ \A x \in Places : Ordered(buffer[x], Before)
  /\ \A p \in Procs : Ordered(raw[p], Before)
  /\ \A p \in Procs : \A a \in ToSet(raw[p]), b \in ToSet(buffer[Place(p)]) : <<a, b>> \in Before

\* What _aggregate does, where its comment (alert_engine.py:145) promises the latest: of
\* the alerts of a batch with one key, the one that was emitted first is kept.
OldestSpeaks ==
  \A c \in ToSet(Channels) : \A m \in ToSet(received[c]) : \A b \in m.from :
    \E a \in m.kept : Key[a] = Key[b] /\ EmittedBefore(a, b)

\* OldestSpeaks and NoneVanishes in these terms.
Speaks ==
  \A c \in ToSet(Channels) : \A m \in ToSet(received[c]) : \A b \in m.from :
    \E a \in m.kept : Key[a] = Key[b] /\ <<a, b>> \in Before

InBuffers == UNION {ToSet(buffer[x]) : x \in Places}
InBatches == UNION {ToSet(raw[p]) : p \in Procs}
InReports == UNION {Told[c] : c \in ToSet(Channels)}
MadeAway == {g[1] : g \in gone}

Accounted == ToSet(emitted) \subseteq InBuffers \cup InBatches \cup InReports \cup MadeAway

AlertInv == AlertTypes /\ Apart /\ InOrder /\ Speaks /\ Accounted

-------------------------------------------------------------------------------
(* Sequences as the sets of what is in them. *)

LEMMA AlertConstants ==
  /\ PageSize \in Nat /\ PageSize > 0 /\ MaxFaults \in Nat
  /\ Len(Channels) \in Nat /\ Len(Channels) > 0 /\ Channels \in Seq(ToSet(Channels))
  /\ \A i \in 1..Len(Channels) : Channels[i] \in ToSet(Channels)
  /\ \A i, j \in 1..Len(Channels) : Channels[i] = Channels[j] => i = j
  /\ \A p \in Procs : Place(p) \in Places
  /\ \A p \in Procs : p \in Shared => Place(p) = "redis"
  /\ \A p \in Procs : p \notin Shared => Place(p) = p
<1>1. Channels \in Seq(ToSet(Channels)) /\ Channels # <<>> /\ IsInjective(Channels)
  BY AlertAssumption
<1>2. Len(Channels) \in Nat /\ Len(Channels) > 0 /\ DOMAIN Channels = 1..Len(Channels)
  BY <1>1
<1>3. \A i, j \in 1..Len(Channels) : Channels[i] = Channels[j] => i = j
  BY <1>1, <1>2 DEF IsInjective
<1> QED
  BY <1>1, <1>2, <1>3, AlertAssumption DEF Place, Places, ToSet

LEMMA SeqElements ==
  ASSUME NEW S, NEW s \in Seq(S)
  PROVE  /\ ToSet(s) = {s[i] : i \in 1..Len(s)} /\ ToSet(s) \subseteq S
         /\ Len(s) \in Nat /\ (s = <<>> <=> Len(s) = 0)
BY DEF ToSet

LEMMA NothingIn == ToSet(<<>>) = {}
BY DEF ToSet

LEMMA AppendElements ==
  ASSUME NEW S, NEW s \in Seq(S), NEW e \in S
  PROVE  ToSet(Append(s, e)) = ToSet(s) \cup {e} /\ Append(s, e) \in Seq(S)
<1>1. Append(s, e) \in Seq(S) /\ Len(Append(s, e)) = Len(s) + 1 /\ Append(s, e)[Len(s) + 1] = e
      /\ \A i \in 1..Len(s) : Append(s, e)[i] = s[i]
  OBVIOUS
<1>2. ToSet(Append(s, e)) = {Append(s, e)[i] : i \in 1..(Len(s) + 1)}
  BY <1>1, SeqElements
<1> QED
  BY <1>1, <1>2, SeqElements

LEMMA ConcatElements ==
  ASSUME NEW S, NEW s \in Seq(S), NEW t \in Seq(S)
  PROVE  ToSet(s \o t) = ToSet(s) \cup ToSet(t) /\ s \o t \in Seq(S)
<1>1. /\ s \o t \in Seq(S) /\ Len(s \o t) = Len(s) + Len(t)
      /\ \A i \in 1..Len(s) : (s \o t)[i] = s[i]
      /\ \A i \in 1..Len(t) : (s \o t)[Len(s) + i] = t[i]
  OBVIOUS
<1>2. ToSet(s \o t) = {(s \o t)[i] : i \in 1..(Len(s) + Len(t))}
  BY <1>1, SeqElements
<1>3. ASSUME NEW i \in 1..(Len(s) + Len(t))
      PROVE  (s \o t)[i] \in ToSet(s) \cup ToSet(t)
  <2>1. CASE i <= Len(s)
    BY <2>1, <1>1, SeqElements
  <2>2. CASE i > Len(s)
    <3>1. i - Len(s) \in 1..Len(t) /\ i = Len(s) + (i - Len(s))
      BY <2>2, SeqElements
    <3> QED
      BY <3>1, <1>1, SeqElements
  <2> QED
    BY <2>1, <2>2, SeqElements
<1>4. \A i \in 1..Len(s) : s[i] \in ToSet(s \o t)
  BY <1>1, <1>2, SeqElements
<1>5. \A i \in 1..Len(t) : t[i] \in ToSet(s \o t)
  BY <1>1, <1>2, SeqElements
<1>6. ToSet(s \o t) \subseteq ToSet(s) \cup ToSet(t)
  BY <1>2, <1>3
<1>7. ToSet(s) = {s[i] : i \in 1..Len(s)} /\ ToSet(t) = {t[i] : i \in 1..Len(t)}
  BY SeqElements
<1>8. ToSet(s) \cup ToSet(t) \subseteq ToSet(s \o t)
  BY <1>4, <1>5, <1>7
<1> QED
  BY <1>1, <1>6, <1>8

\* A page and what it leaves are the whole; the page is the front.
LEMMA Pages ==
  ASSUME NEW s \in Seq(Alerts)
  PROVE  /\ FirstPage(s) \in Seq(Alerts) /\ LaterPages(s) \in Seq(Alerts)
         /\ Len(FirstPage(s)) <= Len(s) /\ Len(LaterPages(s)) = Len(s) - Len(FirstPage(s))
         /\ \A i \in 1..Len(FirstPage(s)) : FirstPage(s)[i] = s[i]
         /\ \A i \in 1..Len(LaterPages(s)) : LaterPages(s)[i] = s[Len(FirstPage(s)) + i]
         /\ ToSet(s) = ToSet(FirstPage(s)) \cup ToSet(LaterPages(s))
         /\ FirstPage(s) = <<>> => s = <<>>
<1> DEFINE k == IF Len(s) < PageSize THEN Len(s) ELSE PageSize
<1>1. k \in 0..Len(s) /\ (k = 0 => Len(s) = 0) /\ Len(s) \in Nat
  BY AlertConstants
<1> HIDE DEF k
<1>2. FirstPage(s) = SubSeq(s, 1, k)
  BY DEF FirstPage, k
<1>3. /\ FirstPage(s) \in Seq(Alerts) /\ Len(FirstPage(s)) = k
      /\ \A i \in 1..k : FirstPage(s)[i] = s[i]
  BY <1>1, <1>2
<1>4. LaterPages(s) = SubSeq(s, k + 1, Len(s))
  BY <1>3 DEF LaterPages
<1>5. /\ LaterPages(s) \in Seq(Alerts) /\ Len(LaterPages(s)) = Len(s) - k
      /\ \A i \in 1..(Len(s) - k) : LaterPages(s)[i] = s[k + i]
  BY <1>1, <1>4
<1>6. /\ ToSet(s) = {s[i] : i \in 1..Len(s)}
      /\ ToSet(FirstPage(s)) = {FirstPage(s)[i] : i \in 1..k}
      /\ ToSet(LaterPages(s)) = {LaterPages(s)[i] : i \in 1..(Len(s) - k)}
  BY <1>3, <1>5, SeqElements
<1>7. ASSUME NEW i \in 1..Len(s) PROVE s[i] \in ToSet(FirstPage(s)) \cup ToSet(LaterPages(s))
  <2>1. CASE i <= k
    BY <2>1, <1>1, <1>3, <1>6
  <2>2. CASE i > k
    <3>1. i - k \in 1..(Len(s) - k) /\ i = k + (i - k)
      BY <2>2, <1>1
    <3> QED
      BY <3>1, <1>5, <1>6
  <2> QED
    BY <2>1, <2>2, <1>1
<1>8. \A i \in 1..k : FirstPage(s)[i] \in ToSet(s)
  BY <1>1, <1>3, <1>6
<1>9. \A i \in 1..(Len(s) - k) : LaterPages(s)[i] \in ToSet(s)
  BY <1>1, <1>5, <1>6
<1>10. ToSet(s) = ToSet(FirstPage(s)) \cup ToSet(LaterPages(s))
  BY <1>6, <1>7, <1>8, <1>9
<1>11. FirstPage(s) = <<>> => s = <<>>
  BY <1>1, <1>3
<1> QED
  BY <1>1, <1>3, <1>5, <1>10, <1>11

-------------------------------------------------------------------------------
(* Types. *)

LEMMA AlertTypesInit == AlertInit => AlertTypes
BY AlertConstants DEF AlertInit, AlertTypes

LEMMA SummaryTyped ==
  ASSUME NEW s \in Seq(Alerts)
  PROVE  Summary(s) \in Summaries /\ Summary(s).from = ToSet(s) /\ Summary(s).kept = Aggregate(s)
<1>1. ToSet(s) \subseteq Alerts /\ Aggregate(s) \subseteq ToSet(s)
  BY SeqElements DEF Aggregate
<1> QED
  BY <1>1 DEF Summary, Summaries

LEMMA DropTyped ==
  ASSUME NEW S, S \subseteq Alerts, NEW why \in {"reply", "send", "exit", "crash"},
         gone \subseteq Alerts \X {"reply", "send", "exit", "crash"}, Drop(S, why)
  PROVE  gone' \subseteq Alerts \X {"reply", "send", "exit", "crash"}
BY DEF Drop

\* The steps, one disjunct each; the moves of AlertNext that change nothing but the
\* labels and the stop events.
Quiet(p) == StartAggregator(p) \/ StopAggregator(p) \/ NextWindow(p)

LEMMA AlertSteps ==
  ASSUME [AlertNext]_alertVars
  PROVE  \/ UNCHANGED alertVars
         \/ \E p \in Procs :
              \/ Quiet(p) \/ (\E a \in Alerts : Emit(p, a))
              \/ FetchRedis(p) \/ TakeBuffer(p) \/ Send(p)
              \/ FetchFails(p) \/ Exit(p) \/ CrashProcess(p)
BY Zenon DEF AlertNext, Task, Quiet

LEMMA LoopEndTyped ==
  ASSUME AlertTypes, NEW p \in Procs
  PROVE  /\ LoopEnd(p) \in [Procs -> {"down", "sleep", "fetch", "send", "stopped"}]
         /\ LoopEnd(p)[p] \in {"sleep", "stopped"}
         /\ \A q \in Procs : q # p => LoopEnd(p)[q] = pc[q]
BY DEF LoopEnd, AlertTypes

\* A batch that is empty ends the turn, another one is on its way.
LEMMA FetchedTyped ==
  ASSUME AlertTypes, NEW p \in Procs, NEW batch \in Seq(Alerts), Fetched(p, batch)
  PROVE  /\ raw' \in [Procs -> Seq(Alerts)] /\ raw'[p] = batch
         /\ \A q \in Procs : q # p => raw'[q] = raw[q] /\ pc'[q] = pc[q]
         /\ pc' \in [Procs -> {"down", "sleep", "fetch", "send", "stopped"}]
         /\ (batch = <<>> /\ pc'[p] \in {"sleep", "stopped"}) \/ pc'[p] = "send"
BY LoopEndTyped DEF AlertTypes, Fetched

LEMMA AlertTypesNext == AlertTypes /\ [AlertNext]_alertVars => AlertTypes'
<1> SUFFICES ASSUME AlertTypes, [AlertNext]_alertVars PROVE AlertTypes'
  OBVIOUS
<1>1. ASSUME NEW p \in Procs, Quiet(p) PROVE AlertTypes'
  BY <1>1 DEF AlertTypes, Quiet, StartAggregator, StopAggregator, NextWindow
<1>2. ASSUME NEW p \in Procs, NEW a \in Alerts, Emit(p, a) PROVE AlertTypes'
  <2>1. \A x \in Places : Append(buffer[x], a) \in Seq(Alerts)
    BY DEF AlertTypes
  <2>2. Append(emitted, a) \in Seq(Alerts)
    BY DEF AlertTypes
  <2> QED
    BY <1>2, <2>1, <2>2, AlertConstants DEF AlertTypes, Emit
<1>3. ASSUME NEW p \in Procs, FetchRedis(p) PROVE AlertTypes'
  <2> DEFINE page == FirstPage(buffer["redis"])
             rest == LaterPages(buffer["redis"])
  <2>1. "redis" \in Places /\ page \in Seq(Alerts) /\ rest \in Seq(Alerts) /\ raw[p] \in Seq(Alerts)
    BY <1>3, AlertConstants, Pages DEF AlertTypes, FetchRedis
  <2>2. p \in Shared /\ pc[p] = "fetch" /\ buffer' = [buffer EXCEPT !["redis"] = rest]
        /\ UNCHANGED <<next, stopping, received, faults, emitted, gone>>
    BY <1>3 DEF FetchRedis
  <2> HIDE DEF page, rest
  <2>3. buffer' \in [Places -> Seq(Alerts)]
    BY <2>1, <2>2 DEF AlertTypes
  <2>4. CASE Fetched(p, raw[p])
    BY <2>1, <2>2, <2>3, <2>4, FetchedTyped DEF AlertTypes
  <2>5. CASE raw' = [raw EXCEPT ![p] = @ \o page] /\ UNCHANGED pc
    <3>1. raw[p] \o page \in Seq(Alerts)
      BY <2>1, ConcatElements
    <3> QED
      BY <2>2, <2>3, <2>5, <3>1 DEF AlertTypes
  <2> QED
    BY <1>3, <2>4, <2>5 DEF FetchRedis, page
<1>4. ASSUME NEW p \in Procs, TakeBuffer(p) PROVE AlertTypes'
  <2>1. p \in Places /\ buffer[p] \in Seq(Alerts) /\ p \notin Shared
    BY <1>4, AlertConstants DEF AlertTypes, TakeBuffer
  <2>2. Fetched(p, buffer[p]) /\ pc[p] = "fetch" /\ buffer' = [buffer EXCEPT ![p] = <<>>]
        /\ UNCHANGED <<next, stopping, received, faults, emitted, gone>>
    BY <1>4 DEF TakeBuffer
  <2>3. buffer' \in [Places -> Seq(Alerts)]
    BY <2>1, <2>2 DEF AlertTypes
  <2> QED
    BY <2>1, <2>2, <2>3, FetchedTyped DEF AlertTypes
<1>5. ASSUME NEW p \in Procs, Send(p) PROVE AlertTypes'
  <2> DEFINE c == Channels[next[p]]
             last == next[p] = Len(Channels)
  <2>1. raw[p] \in Seq(Alerts) /\ next[p] \in 1..Len(Channels) /\ c \in ToSet(Channels)
        /\ ToSet(raw[p]) \subseteq Alerts
    BY AlertConstants, SeqElements DEF AlertTypes
  <2>2. /\ pc[p] = "send"
        /\ next' = [next EXCEPT ![p] = IF last THEN 1 ELSE @ + 1]
        /\ raw' = IF last THEN [raw EXCEPT ![p] = <<>>] ELSE raw
        /\ pc' = IF last THEN LoopEnd(p) ELSE pc
        /\ UNCHANGED <<buffer, stopping, emitted>>
    BY <1>5 DEF Send
  <2>3. \/ received' = [received EXCEPT ![c] = Append(@, Summary(raw[p]))]
           /\ UNCHANGED <<faults, gone>>
        \/ Fault /\ UNCHANGED received /\ (Drop(ToSet(raw[p]), "send") \/ UNCHANGED gone)
    BY <1>5 DEF Send
  <2> HIDE DEF c
  <2>4. received' \in [ToSet(Channels) -> Seq(Summaries)]
    <3>1. received[c] \in Seq(Summaries) /\ Summary(raw[p]) \in Summaries
      BY <2>1, SummaryTyped DEF AlertTypes
    <3>2. Append(received[c], Summary(raw[p])) \in Seq(Summaries)
      BY <3>1
    <3> QED
      BY <2>1, <2>3, <3>2 DEF AlertTypes
  <2>5. faults' \in 0..MaxFaults
    BY <2>3, AlertConstants DEF AlertTypes, Fault
  <2>6. gone' \subseteq Alerts \X {"reply", "send", "exit", "crash"}
    BY <2>1, <2>3, DropTyped DEF AlertTypes
  <2>7. next' \in [Procs -> 1..Len(Channels)]
    BY <2>1, <2>2, AlertConstants DEF AlertTypes
  <2>8. pc' \in [Procs -> {"down", "sleep", "fetch", "send", "stopped"}]
        /\ raw' \in [Procs -> Seq(Alerts)]
    BY <2>2, LoopEndTyped DEF AlertTypes
  <2>9. \A q \in Procs : q # p => pc'[q] = pc[q] /\ raw'[q] = raw[q] /\ next'[q] = next[q]
    BY <2>2, LoopEndTyped DEF AlertTypes
  <2>10. \/ last /\ pc'[p] \in {"sleep", "stopped"} /\ raw'[p] = <<>> /\ next'[p] = 1
         \/ pc'[p] = "send"
    BY <2>2, LoopEndTyped DEF AlertTypes
  <2> QED
    BY <2>2, <2>4, <2>5, <2>6, <2>7, <2>8, <2>9, <2>10 DEF AlertTypes
<1>6. ASSUME NEW p \in Procs, FetchFails(p) PROVE AlertTypes'
  <2> DEFINE page == FirstPage(buffer["redis"])
             rest == LaterPages(buffer["redis"])
  <2>1. "redis" \in Places /\ page \in Seq(Alerts) /\ rest \in Seq(Alerts) /\ raw[p] \in Seq(Alerts)
    BY <1>6, AlertConstants, Pages DEF AlertTypes, FetchFails
  <2>2. p \in Shared /\ pc[p] = "fetch" /\ Fetched(p, raw[p]) /\ Fault
        /\ UNCHANGED <<next, stopping, received, emitted>>
    BY <1>6 DEF FetchFails
  <2>3. \/ UNCHANGED <<buffer, gone>>
        \/ buffer' = [buffer EXCEPT !["redis"] = rest] /\ Drop(ToSet(page), "reply")
    BY <1>6 DEF FetchFails
  <2> HIDE DEF page, rest
  <2>4. buffer' \in [Places -> Seq(Alerts)]
    BY <2>1, <2>3 DEF AlertTypes
  <2>5. gone' \subseteq Alerts \X {"reply", "send", "exit", "crash"}
    BY <2>1, <2>3, SeqElements, DropTyped DEF AlertTypes
  <2>6. faults' \in 0..MaxFaults
    BY <2>2, AlertConstants DEF AlertTypes, Fault
  <2> QED
    BY <2>1, <2>2, <2>4, <2>5, <2>6, FetchedTyped DEF AlertTypes
<1>7. ASSUME NEW p \in Procs, Exit(p) PROVE AlertTypes'
  <2>1. CASE p \in Shared
    BY <1>7, <2>1 DEF AlertTypes, Exit
  <2>2. CASE p \notin Shared
    <3>1. p \in Places /\ ToSet(buffer[p]) \subseteq Alerts
      BY <2>2, AlertConstants, SeqElements DEF AlertTypes
    <3>2. gone' \subseteq Alerts \X {"reply", "send", "exit", "crash"}
      BY <1>7, <2>2, <3>1, DropTyped DEF AlertTypes, Exit
    <3> QED
      BY <1>7, <2>2, <3>1, <3>2 DEF AlertTypes, Exit
  <2> QED
    BY <2>1, <2>2
<1>8. ASSUME NEW p \in Procs, CrashProcess(p) PROVE AlertTypes'
  <2> DEFINE lost == ToSet(raw[p]) \cup (IF p \in Shared THEN {} ELSE ToSet(buffer[p]))
  <2>1. lost \subseteq Alerts
    BY AlertConstants, SeqElements DEF AlertTypes
  <2>2. Drop(lost, "crash")
    BY <1>8 DEF CrashProcess
  <2> HIDE DEF lost
  <2>3. gone' \subseteq Alerts \X {"reply", "send", "exit", "crash"}
    BY <2>1, <2>2, DropTyped DEF AlertTypes
  <2>4. buffer' \in [Places -> Seq(Alerts)]
    BY <1>8, AlertConstants DEF AlertTypes, CrashProcess
  <2>5. faults' \in 0..MaxFaults
    BY <1>8, AlertConstants DEF AlertTypes, CrashProcess, Fault
  <2> QED
    BY <1>8, <2>3, <2>4, <2>5, AlertConstants DEF AlertTypes, CrashProcess
<1>9. CASE UNCHANGED alertVars
  BY <1>9 DEF alertVars, AlertTypes
<1> QED
  BY <1>1, <1>2, <1>3, <1>4, <1>5, <1>6, <1>7, <1>8, <1>9, AlertSteps, Zenon

-------------------------------------------------------------------------------
(* No alert is in two places. *)

LEMMA ApartInit == AlertInit => Apart
<1> SUFFICES ASSUME AlertInit PROVE Apart
  OBVIOUS
<1>1. /\ \A x \in Places : ToSet(buffer[x]) = {}
      /\ \A p \in Procs : ToSet(raw[p]) = {}
      /\ \A c \in ToSet(Channels) : ToSet(received[c]) = {} /\ Len(received[c]) = 0
  BY NothingIn DEF AlertInit
<1>2. \A c \in ToSet(Channels) : Told[c] = {}
  BY <1>1 DEF Told
<1>3. ToldOnce
  BY <1>1 DEF ToldOnce
<1> QED
  BY <1>1, <1>2, <1>3, Zenon DEF Apart

LEMMA ToldGrows ==
  ASSUME AlertTypes, NEW c \in ToSet(Channels), NEW s \in Seq(Alerts),
         received' = [received EXCEPT ![c] = Append(@, Summary(s))]
  PROVE  /\ Told'[c] = Told[c] \cup ToSet(s)
         /\ \A d \in ToSet(Channels) : d # c => received'[d] = received[d] /\ Told'[d] = Told[d]
         /\ received'[c] = Append(received[c], Summary(s))
         /\ \A n \in 1..Len(received[c]) : received[c][n].from \subseteq Told[c]
<1>1. received[c] \in Seq(Summaries) /\ Summary(s) \in Summaries /\ Summary(s).from = ToSet(s)
  BY SummaryTyped DEF AlertTypes
<1>2. received'[c] = Append(received[c], Summary(s))
      /\ \A d \in ToSet(Channels) : d # c => received'[d] = received[d]
  BY DEF AlertTypes
<1>3. ToSet(received'[c]) = ToSet(received[c]) \cup {Summary(s)}
  BY <1>1, <1>2, AppendElements
<1>4. Told'[c] = Told[c] \cup ToSet(s)
  BY <1>1, <1>3 DEF Told
<1>5. \A d \in ToSet(Channels) : d # c => Told'[d] = Told[d]
  BY <1>2 DEF Told
<1>6. \A n \in 1..Len(received[c]) : received[c][n].from \subseteq Told[c]
  BY <1>1, SeqElements DEF Told
<1> QED
  BY <1>2, <1>4, <1>5, <1>6

\* Whatever leaves buffers and batches leaves the rest apart.
LEMMA ApartShrinks ==
  ASSUME AlertTypes, AlertTypes', Apart, UNCHANGED <<received, emitted>>,
         \A x \in Places : ToSet(buffer'[x]) \subseteq ToSet(buffer[x]),
         \A p \in Procs : ToSet(raw'[p]) \subseteq ToSet(raw[p]),
         \A p \in Procs : next'[p] >= next[p] \/ ToSet(raw'[p]) = {}
  PROVE  Apart'
<1>1. \A c \in ToSet(Channels) : Told'[c] = Told[c]
  BY DEF Told
<1>2. ASSUME NEW p \in Procs, NEW i \in 1..Len(Channels), i >= next'[p]
      PROVE  ToSet(raw'[p]) \cap Told[Channels[i]] = {}
  <2>1. i >= next[p] \/ ToSet(raw'[p]) = {}
    BY <1>2 DEF AlertTypes
  <2> QED
    BY <2>1 DEF Apart
<1>3. ToldOnce'
  BY DEF Apart, ToldOnce
<1> QED
  BY <1>1, <1>2, <1>3, AlertConstants DEF Apart

\* What moves from a buffer to a batch stays apart from the rest.
LEMMA ApartMoves ==
  ASSUME AlertTypes, AlertTypes', Apart, UNCHANGED <<received, emitted, next>>,
         NEW z \in Places, NEW r \in Procs, NEW S,
         ToSet(buffer[z]) = ToSet(buffer'[z]) \cup S, S \cap ToSet(buffer'[z]) = {},
         ToSet(raw'[r]) = ToSet(raw[r]) \cup S,
         \A x \in Places : x # z => buffer'[x] = buffer[x],
         \A p \in Procs : p # r => raw'[p] = raw[p]
  PROVE  Apart'
<1>0. S \subseteq ToSet(buffer[z]) /\ \A x \in Places : ToSet(buffer'[x]) \subseteq ToSet(buffer[x])
  OBVIOUS
<1>1. \A c \in ToSet(Channels) : Told'[c] = Told[c]
  BY DEF Told
<1>2. ASSUME NEW p \in Procs, NEW i \in 1..Len(Channels), i >= next'[p]
      PROVE  ToSet(raw'[p]) \cap Told'[Channels[i]] = {}
  BY <1>1, <1>2, AlertConstants DEF Apart
<1>3. ToldOnce'
  BY DEF Apart, ToldOnce
<1>4. \A x, y \in Places : x # y => ToSet(buffer'[x]) \cap ToSet(buffer'[y]) = {}
  BY <1>0 DEF Apart
<1>5. ASSUME NEW p \in Procs, NEW q \in Procs, p # q
      PROVE  ToSet(raw'[p]) \cap ToSet(raw'[q]) = {}
  <2>1. /\ ToSet(raw[p]) \cap ToSet(raw[q]) = {}
        /\ ToSet(raw[p]) \cap S = {} /\ ToSet(raw[q]) \cap S = {}
    BY <1>0, <1>5 DEF Apart
  <2>2. \/ p = r /\ raw'[q] = raw[q]
        \/ q = r /\ raw'[p] = raw[p]
        \/ raw'[p] = raw[p] /\ raw'[q] = raw[q]
    BY <1>5
  <2> QED
    BY <2>1, <2>2
<1>6. \A x \in Places, p \in Procs : ToSet(buffer'[x]) \cap ToSet(raw'[p]) = {}
  BY DEF Apart
<1>7. \A x \in Places, c \in ToSet(Channels) : ToSet(buffer'[x]) \cap Told'[c] = {}
  BY <1>0, <1>1 DEF Apart
<1>8. /\ \A x \in Places : ToSet(buffer'[x]) \subseteq ToSet(emitted')
      /\ \A p \in Procs : ToSet(raw'[p]) \subseteq ToSet(emitted')
      /\ \A c \in ToSet(Channels) : Told'[c] \subseteq ToSet(emitted')
  BY <1>0, <1>1 DEF Apart
<1> QED
  BY <1>2, <1>3, <1>4, <1>5, <1>6, <1>7, <1>8, Zenon DEF Apart

\* A summary that a channel got is of a batch it had not got, and will not again.
LEMMA ApartTells ==
  ASSUME AlertTypes, AlertTypes', Apart, UNCHANGED <<buffer, emitted>>,
         NEW r \in Procs,
         received' = [received EXCEPT ![Channels[next[r]]] = Append(@, Summary(raw[r]))],
         \A p \in Procs : p # r => raw'[p] = raw[p] /\ next'[p] = next[p],
         ToSet(raw'[r]) \subseteq ToSet(raw[r]),
         next'[r] = next[r] + 1 \/ ToSet(raw'[r]) = {}
  PROVE  Apart'
<1> DEFINE c == Channels[next[r]]
<1>1. next[r] \in 1..Len(Channels) /\ raw[r] \in Seq(Alerts) /\ c \in ToSet(Channels)
  BY AlertConstants DEF AlertTypes
<1>2. \A i \in 1..Len(Channels) : Channels[i] = c => i = next[r]
  BY <1>1, AlertConstants
<1>3. ToSet(raw[r]) \cap Told[c] = {}
  <2>1. \A i \in 1..Len(Channels) : i >= next[r] => ToSet(raw[r]) \cap Told[Channels[i]] = {}
    BY Zenon DEF Apart
  <2>2. next[r] >= next[r]
    BY <1>1
  <2> QED
    BY <1>1, <2>1, <2>2
<1>4. received' = [received EXCEPT ![c] = Append(@, Summary(raw[r]))]
  OBVIOUS
<1> HIDE DEF c
<1>5. /\ Told'[c] = Told[c] \cup ToSet(raw[r])
      /\ \A d \in ToSet(Channels) : d # c => received'[d] = received[d] /\ Told'[d] = Told[d]
      /\ received'[c] = Append(received[c], Summary(raw[r]))
      /\ \A n \in 1..Len(received[c]) : received[c][n].from \subseteq Told[c]
  BY <1>1, <1>4, ToldGrows
<1>6. ASSUME NEW d \in ToSet(Channels), NEW m \in 1..Len(received'[d]),
             NEW n \in 1..Len(received'[d]), m # n
      PROVE  received'[d][m].from \cap received'[d][n].from = {}
  <2>1. CASE d # c
    BY <1>5, <1>6, <2>1 DEF Apart, ToldOnce
  <2>2. CASE d = c
    <3>1. received[c] \in Seq(Summaries) /\ Summary(raw[r]).from = ToSet(raw[r])
      BY <1>1, SummaryTyped DEF AlertTypes
    <3>2. /\ Len(received'[c]) = Len(received[c]) + 1 /\ Len(received[c]) \in Nat
          /\ received'[c][Len(received[c]) + 1].from = ToSet(raw[r])
          /\ \A k \in 1..Len(received[c]) : received'[c][k] = received[c][k]
      BY <1>5, <3>1
    <3>3. CASE m \in 1..Len(received[c]) /\ n \in 1..Len(received[c])
      BY <1>1, <1>6, <2>2, <3>2, <3>3 DEF Apart, ToldOnce
    <3>4. CASE m = Len(received[c]) + 1
      BY <1>3, <1>5, <1>6, <2>2, <3>2, <3>4
    <3>5. CASE n = Len(received[c]) + 1
      BY <1>3, <1>5, <1>6, <2>2, <3>2, <3>5
    <3>6. m \in 1..(Len(received[c]) + 1) /\ n \in 1..(Len(received[c]) + 1)
      BY <2>2, <3>2
    <3>7. \/ m \in 1..Len(received[c]) /\ n \in 1..Len(received[c])
          \/ m = Len(received[c]) + 1 \/ n = Len(received[c]) + 1
      BY <3>2, <3>6
    <3> QED
      BY <3>3, <3>4, <3>5, <3>7
  <2> QED
    BY <2>1, <2>2
<1>7. ToldOnce'
  BY <1>6 DEF ToldOnce
<1>8. ASSUME NEW p \in Procs, NEW i \in 1..Len(Channels), i >= next'[p]
      PROVE  ToSet(raw'[p]) \cap Told'[Channels[i]] = {}
  <2>1. Channels[i] \in ToSet(Channels)
    BY AlertConstants
  <2>2. CASE p = r
    <3>1. ToSet(raw'[r]) = {} \/ (i >= next[r] /\ i # next[r])
      BY <1>1, <1>8, <2>2 DEF AlertTypes
    <3>2. CASE i >= next[r] /\ i # next[r]
      <4>1. ToSet(raw[r]) \cap Told[Channels[i]] = {}
        BY <3>2 DEF Apart
      <4>2. Channels[i] # c
        BY <1>2, <3>2
      <4>3. Told'[Channels[i]] = Told[Channels[i]]
        BY <1>5, <2>1, <4>2
      <4> QED
        BY <2>2, <4>1, <4>3
    <3> QED
      BY <2>2, <3>1, <3>2
  <2>3. CASE p # r
    <3>1. ToSet(raw[p]) \cap Told[Channels[i]] = {}
      BY <1>8, <2>3 DEF Apart
    <3>2. ToSet(raw[p]) \cap ToSet(raw[r]) = {}
      BY <2>3 DEF Apart
    <3> QED
      BY <1>5, <2>1, <2>3, <3>1, <3>2
  <2> QED
    BY <2>2, <2>3
<1>9. \A d \in ToSet(Channels) : Told'[d] \subseteq Told[d] \cup ToSet(raw[r])
  BY <1>5
<1>10. \A d \in ToSet(Channels) : Told'[d] \subseteq ToSet(emitted)
  BY <1>9 DEF Apart
<1>11. \A x \in Places, d \in ToSet(Channels) : ToSet(buffer[x]) \cap Told'[d] = {}
  BY <1>9 DEF Apart
<1>12. \A p \in Procs : ToSet(raw'[p]) \subseteq ToSet(raw[p])
  OBVIOUS
<1> QED
  BY <1>7, <1>8, <1>10, <1>11, <1>12 DEF Apart

\* What a page takes is not in what it leaves.
LEMMA PagesApart ==
  ASSUME NEW s \in Seq(Alerts), NEW R, Ordered(s, R)
  PROVE  /\ ToSet(FirstPage(s)) \cap ToSet(LaterPages(s)) = {}
         /\ \A a \in ToSet(FirstPage(s)), b \in ToSet(LaterPages(s)) : <<a, b>> \in R
         /\ Ordered(FirstPage(s), R) /\ Ordered(LaterPages(s), R)
<1> DEFINE f == FirstPage(s)
           g == LaterPages(s)
<1>1. /\ f \in Seq(Alerts) /\ g \in Seq(Alerts)
      /\ Len(f) <= Len(s) /\ Len(g) = Len(s) - Len(f) /\ Len(f) \in Nat /\ Len(s) \in Nat
      /\ \A i \in 1..Len(f) : f[i] = s[i]
      /\ \A i \in 1..Len(g) : g[i] = s[Len(f) + i]
  BY Pages
<1>2. ToSet(f) = {f[i] : i \in 1..Len(f)} /\ ToSet(g) = {g[i] : i \in 1..Len(g)}
  BY <1>1, SeqElements
<1> HIDE DEF f, g
<1>3. \A i \in 1..Len(f), j \in 1..Len(g) :
        i \in 1..Len(s) /\ Len(f) + j \in 1..Len(s) /\ i < Len(f) + j
  BY <1>1
<1>4. \A i \in 1..Len(f), j \in 1..Len(g) : f[i] # g[j] /\ <<f[i], g[j]>> \in R
  BY <1>1, <1>3 DEF Ordered
<1>5. Ordered(f, R)
  BY <1>1 DEF Ordered
<1>6. ASSUME NEW m \in 1..Len(g), NEW n \in 1..Len(g), m < n
      PROVE  g[m] # g[n] /\ <<g[m], g[n]>> \in R
  <2>1. Len(f) + m \in 1..Len(s) /\ Len(f) + n \in 1..Len(s) /\ Len(f) + m < Len(f) + n
    BY <1>1, <1>6
  <2> QED
    BY <1>1, <2>1 DEF Ordered
<1>7. Ordered(g, R)
  BY <1>6 DEF Ordered
<1> QED
  BY <1>2, <1>4, <1>5, <1>7 DEF f, g

\* A new alert is nowhere yet.
LEMMA ApartEmits ==
  ASSUME AlertTypes, Apart, NEW r \in Procs, NEW a \in Alerts, Emit(r, a)
  PROVE  Apart'
<1> DEFINE z == Place(r)
<1>1. z \in Places /\ a \notin ToSet(emitted) /\ buffer[z] \in Seq(Alerts)
  BY AlertConstants DEF Emit, AlertTypes
<1>2. /\ buffer' = [buffer EXCEPT ![z] = Append(@, a)] /\ emitted' = Append(emitted, a)
      /\ UNCHANGED <<raw, next, received>>
  BY DEF Emit
<1> HIDE DEF z
<1>3. /\ ToSet(buffer'[z]) = ToSet(buffer[z]) \cup {a}
      /\ \A x \in Places : x # z => buffer'[x] = buffer[x]
      /\ ToSet(emitted') = ToSet(emitted) \cup {a}
  <2>1. buffer'[z] = Append(buffer[z], a)
    BY <1>1, <1>2 DEF AlertTypes
  <2>2. emitted \in Seq(Alerts) /\ DOMAIN buffer = Places
    BY DEF AlertTypes
  <2> QED
    BY <1>1, <1>2, <2>1, <2>2, AppendElements
<1>4. Told' = Told
  BY <1>2 DEF Told
<1>5. ToldOnce'
  BY <1>2 DEF Apart, ToldOnce
<1>6. \A x \in Places : ToSet(buffer'[x]) \subseteq ToSet(buffer[x]) \cup {a}
  BY <1>3
<1>6a. \A x \in Places : a \notin ToSet(buffer[x])
  BY <1>1 DEF Apart
<1>7. ASSUME NEW x \in Places, NEW y \in Places, x # y
      PROVE  ToSet(buffer'[x]) \cap ToSet(buffer'[y]) = {}
  <2>1. ToSet(buffer[x]) \cap ToSet(buffer[y]) = {}
    BY <1>7 DEF Apart
  <2>2. \/ buffer'[x] = buffer[x] /\ ToSet(buffer'[y]) \subseteq ToSet(buffer[y]) \cup {a}
        \/ buffer'[y] = buffer[y] /\ ToSet(buffer'[x]) \subseteq ToSet(buffer[x]) \cup {a}
    BY <1>3, <1>6, <1>7
  <2> QED
    BY <1>6a, <2>1, <2>2
<1>8. \A x \in Places, p \in Procs : ToSet(buffer'[x]) \cap ToSet(raw'[p]) = {}
  <2>1. \A p \in Procs : a \notin ToSet(raw[p]) /\ raw'[p] = raw[p]
    BY <1>1, <1>2 DEF Apart
  <2>2. \A x \in Places, p \in Procs : ToSet(buffer[x]) \cap ToSet(raw[p]) = {}
    BY Zenon DEF Apart
  <2> QED
    BY <1>6, <2>1, <2>2
<1>9. \A x \in Places, c \in ToSet(Channels) : ToSet(buffer'[x]) \cap Told'[c] = {}
  BY <1>1, <1>4, <1>6 DEF Apart
<1>10. /\ \A x \in Places : ToSet(buffer'[x]) \subseteq ToSet(emitted')
       /\ \A p \in Procs : ToSet(raw'[p]) \subseteq ToSet(emitted')
       /\ \A c \in ToSet(Channels) : Told'[c] \subseteq ToSet(emitted')
  BY <1>2, <1>3, <1>4, <1>6 DEF Apart
<1>11. /\ \A p, q \in Procs : p # q => ToSet(raw'[p]) \cap ToSet(raw'[q]) = {}
       /\ \A p \in Procs, i \in 1..Len(Channels) :
            i >= next'[p] => ToSet(raw'[p]) \cap Told'[Channels[i]] = {}
  BY <1>2, <1>4 DEF Apart
<1> QED
  BY <1>5, <1>7, <1>8, <1>9, <1>10, <1>11, Zenon DEF Apart

LEMMA ApartNext == AlertTypes /\ Apart /\ InOrder /\ [AlertNext]_alertVars => Apart'
<1> SUFFICES ASSUME AlertTypes, Apart, InOrder, [AlertNext]_alertVars PROVE Apart'
  OBVIOUS
<1>0. AlertTypes'
  BY AlertTypesNext
<1>1. ASSUME NEW p \in Procs, Quiet(p) PROVE Apart'
  <2>1. UNCHANGED <<buffer, raw, next, received, emitted>>
    BY <1>1 DEF Quiet, StartAggregator, StopAggregator, NextWindow
  <2> QED
    BY <1>0, <2>1, ApartShrinks DEF AlertTypes
<1>2. ASSUME NEW p \in Procs, NEW a \in Alerts, Emit(p, a) PROVE Apart'
  BY <1>2, ApartEmits
<1>3. ASSUME NEW p \in Procs, FetchRedis(p) PROVE Apart'
  <2> DEFINE page == FirstPage(buffer["redis"])
             rest == LaterPages(buffer["redis"])
  <2>1. /\ "redis" \in Places /\ buffer["redis"] \in Seq(Alerts) /\ raw[p] \in Seq(Alerts)
        /\ page \in Seq(Alerts)
    BY <1>3, AlertConstants, Pages DEF AlertTypes, FetchRedis
  <2>2. /\ buffer'["redis"] = rest /\ \A x \in Places : x # "redis" => buffer'[x] = buffer[x]
        /\ UNCHANGED <<received, emitted, next>>
    BY <1>3, <2>1 DEF FetchRedis, AlertTypes
  <2>3. ToSet(buffer["redis"]) = ToSet(page) \cup ToSet(rest)
    BY <2>1, Pages
  <2>4. ToSet(page) \cap ToSet(rest) = {}
    BY <2>1, PagesApart DEF InOrder
  <2>5. CASE page = <<>> /\ Fetched(p, raw[p])
    <3>1. \A q \in Procs : raw'[q] = raw[q]
      BY <2>1, <2>5, FetchedTyped
    <3>2. \A x \in Places : ToSet(buffer'[x]) \subseteq ToSet(buffer[x])
      BY <2>2, <2>3
    <3>3. \A q \in Procs : next'[q] >= next[q]
      BY <2>2 DEF AlertTypes
    <3> QED
      BY <1>0, <2>2, <3>1, <3>2, <3>3, ApartShrinks
  <2>6. CASE raw' = [raw EXCEPT ![p] = @ \o page]
    <3>1. \A q \in Procs : q # p => raw'[q] = raw[q]
      BY <2>6 DEF AlertTypes
    <3>2. raw'[p] = raw[p] \o page
      BY <2>6 DEF AlertTypes
    <3>3. ToSet(raw'[p]) = ToSet(raw[p]) \cup ToSet(page)
      BY <2>1, <3>2, ConcatElements
    <3> HIDE DEF page, rest
    <3> QED
      BY <1>0, <2>1, <2>2, <2>3, <2>4, <3>1, <3>3, ApartMoves
  <2> QED
    BY <1>3, <2>5, <2>6 DEF FetchRedis
<1>4. ASSUME NEW p \in Procs, TakeBuffer(p) PROVE Apart'
  <2>1. /\ p \in Places /\ buffer[p] \in Seq(Alerts) /\ raw[p] = <<>>
        /\ Fetched(p, buffer[p]) /\ UNCHANGED <<received, emitted, next>>
    BY <1>4, AlertConstants DEF AlertTypes, TakeBuffer
  <2>2. buffer'[p] = <<>> /\ \A x \in Places : x # p => buffer'[x] = buffer[x]
    BY <1>4, <2>1 DEF AlertTypes, TakeBuffer
  <2>3. raw'[p] = buffer[p] /\ \A q \in Procs : q # p => raw'[q] = raw[q]
    BY <2>1, FetchedTyped
  <2>4. /\ ToSet(buffer[p]) = ToSet(buffer'[p]) \cup ToSet(buffer[p])
        /\ ToSet(buffer[p]) \cap ToSet(buffer'[p]) = {}
        /\ ToSet(raw'[p]) = ToSet(raw[p]) \cup ToSet(buffer[p])
    BY <2>1, <2>2, <2>3, NothingIn
  <2> QED
    BY <1>0, <2>1, <2>2, <2>3, <2>4, ApartMoves
<1>5. ASSUME NEW p \in Procs, Send(p) PROVE Apart'
  <2> DEFINE last == next[p] = Len(Channels)
  <2>1. /\ next' = [next EXCEPT ![p] = IF last THEN 1 ELSE @ + 1]
        /\ raw' = IF last THEN [raw EXCEPT ![p] = <<>>] ELSE raw
        /\ UNCHANGED <<buffer, emitted>>
    BY <1>5 DEF Send
  <2>2. \A q \in Procs : q # p => raw'[q] = raw[q] /\ next'[q] = next[q]
    BY <2>1 DEF AlertTypes
  <2>3. ToSet(raw'[p]) \subseteq ToSet(raw[p]) /\ (next'[p] = next[p] + 1 \/ ToSet(raw'[p]) = {})
    BY <2>1, NothingIn DEF AlertTypes
  <2>4. CASE received' = [received EXCEPT ![Channels[next[p]]] = Append(@, Summary(raw[p]))]
    BY <1>0, <2>1, <2>2, <2>3, <2>4, ApartTells
  <2>5. CASE UNCHANGED received
    <3>1. ASSUME NEW q \in Procs PROVE next'[q] >= next[q] \/ ToSet(raw'[q]) = {}
      <4>1. next[q] \in Nat
        BY AlertConstants DEF AlertTypes
      <4> QED
        BY <2>2, <2>3, <4>1
    <3>2. \A q \in Procs : ToSet(raw'[q]) \subseteq ToSet(raw[q])
      BY <2>2, <2>3
    <3> QED
      BY <1>0, <2>1, <2>5, <3>1, <3>2, ApartShrinks
  <2> QED
    BY <1>5, <2>4, <2>5 DEF Send
<1>6. ASSUME NEW p \in Procs, FetchFails(p) PROVE Apart'
  <2>1. /\ raw[p] \in Seq(Alerts) /\ "redis" \in Places /\ buffer["redis"] \in Seq(Alerts)
        /\ Fetched(p, raw[p]) /\ UNCHANGED <<received, emitted, next>>
    BY <1>6, AlertConstants DEF AlertTypes, FetchFails
  <2>2. \A q \in Procs : raw'[q] = raw[q]
    BY <2>1, FetchedTyped
  <2>3. ToSet(LaterPages(buffer["redis"])) \subseteq ToSet(buffer["redis"])
    BY <2>1, Pages
  <2>4. \A x \in Places : ToSet(buffer'[x]) \subseteq ToSet(buffer[x])
    BY <1>6, <2>1, <2>3 DEF FetchFails, AlertTypes
  <2>5. \A q \in Procs : next'[q] >= next[q]
    BY <2>1 DEF AlertTypes
  <2> QED
    BY <1>0, <2>1, <2>2, <2>4, <2>5, ApartShrinks
<1>7. ASSUME NEW p \in Procs, Exit(p) PROVE Apart'
  <2>1. UNCHANGED <<raw, next, received, emitted>>
    BY <1>7 DEF Exit
  <2>2. \A x \in Places : ToSet(buffer'[x]) \subseteq ToSet(buffer[x])
    BY <1>7, NothingIn, AlertConstants DEF Exit, AlertTypes
  <2>3. \A q \in Procs : next'[q] >= next[q]
    BY <2>1 DEF AlertTypes
  <2> QED
    BY <1>0, <2>1, <2>2, <2>3, ApartShrinks
<1>8. ASSUME NEW p \in Procs, CrashProcess(p) PROVE Apart'
  <2>1. UNCHANGED <<received, emitted>>
    BY <1>8 DEF CrashProcess
  <2>2. \A x \in Places : ToSet(buffer'[x]) \subseteq ToSet(buffer[x])
    BY <1>8, NothingIn, AlertConstants DEF CrashProcess, AlertTypes
  <2>3. \A q \in Procs : /\ ToSet(raw'[q]) \subseteq ToSet(raw[q])
                         /\ next'[q] >= next[q] \/ ToSet(raw'[q]) = {}
    BY <1>8, NothingIn DEF CrashProcess, AlertTypes
  <2> QED
    BY <1>0, <2>1, <2>2, <2>3, ApartShrinks
<1>9. CASE UNCHANGED alertVars
  <2>1. UNCHANGED <<buffer, raw, next, received, emitted>>
    BY <1>9 DEF alertVars
  <2> QED
    BY <1>0, <2>1, ApartShrinks DEF AlertTypes
<1> QED
  BY <1>1, <1>2, <1>3, <1>4, <1>5, <1>6, <1>7, <1>8, <1>9, AlertSteps, Zenon

-------------------------------------------------------------------------------
(* The order of emission. *)

LEMMA BeforeGrows ==
  ASSUME AlertTypes, NEW a \in Alerts, emitted' = Append(emitted, a)
  PROVE  Before \subseteq Before' /\ \A b \in ToSet(emitted) : <<b, a>> \in Before'
<1>1. /\ emitted \in Seq(Alerts) /\ Len(emitted) \in Nat
      /\ Len(emitted') = Len(emitted) + 1 /\ emitted'[Len(emitted) + 1] = a
      /\ \A i \in 1..Len(emitted) : emitted'[i] = emitted[i]
  BY DEF AlertTypes
<1>2. ASSUME NEW b \in Alerts, NEW c \in Alerts, EmittedBefore(b, c)
      PROVE  EmittedBefore(b, c)'
  BY <1>1, <1>2 DEF EmittedBefore
<1>3. Before \subseteq Before'
  BY <1>2 DEF Before
<1>4. ASSUME NEW b \in ToSet(emitted) PROVE <<b, a>> \in Before'
  <2>1. PICK i \in 1..Len(emitted) : b = emitted[i]
    BY <1>1, SeqElements
  <2>2. EmittedBefore(b, a)'
    BY <1>1, <2>1 DEF EmittedBefore
  <2>3. b \in Alerts
    BY <1>1, <2>1
  <2> QED
    BY <2>2, <2>3 DEF Before
<1> QED
  BY <1>3, <1>4

LEMMA BeforeItself ==
  ASSUME AlertTypes
  PROVE  \A b \in ToSet(emitted) : <<b, b>> \in Before
<1> SUFFICES ASSUME NEW b \in ToSet(emitted) PROVE <<b, b>> \in Before
  OBVIOUS
<1>1. PICK i \in 1..Len(emitted) : b = emitted[i]
  BY SeqElements DEF AlertTypes
<1>2. EmittedBefore(b, b) /\ b \in Alerts
  BY <1>1 DEF EmittedBefore, AlertTypes
<1> QED
  BY <1>2 DEF Before

LEMMA OrderedAppend ==
  ASSUME NEW s \in Seq(Alerts), NEW R, NEW Q, Ordered(s, R), R \subseteq Q,
         NEW e \in Alerts, e \notin ToSet(s), \A b \in ToSet(s) : <<b, e>> \in Q
  PROVE  Ordered(Append(s, e), Q)
<1> DEFINE t == Append(s, e)
<1>1. /\ Len(t) = Len(s) + 1 /\ Len(s) \in Nat /\ t[Len(s) + 1] = e
      /\ \A i \in 1..Len(s) : t[i] = s[i] /\ s[i] \in ToSet(s)
  BY SeqElements
<1> HIDE DEF t
<1>2. ASSUME NEW m \in 1..Len(t), NEW n \in 1..Len(t), m < n
      PROVE  t[m] # t[n] /\ <<t[m], t[n]>> \in Q
  <2>1. m \in 1..Len(s)
    BY <1>1, <1>2
  <2>2. CASE n \in 1..Len(s)
    BY <1>1, <1>2, <2>1, <2>2 DEF Ordered
  <2>3. CASE n = Len(s) + 1
    BY <1>1, <2>1, <2>3
  <2> QED
    BY <1>1, <2>2, <2>3
<1> QED
  BY <1>2 DEF Ordered, t

LEMMA OrderedConcat ==
  ASSUME NEW s \in Seq(Alerts), NEW t \in Seq(Alerts), NEW R, Ordered(s, R), Ordered(t, R),
         ToSet(s) \cap ToSet(t) = {}, \A a \in ToSet(s), b \in ToSet(t) : <<a, b>> \in R
  PROVE  Ordered(s \o t, R)
<1> DEFINE u == s \o t
<1>1. /\ Len(u) = Len(s) + Len(t) /\ Len(s) \in Nat /\ Len(t) \in Nat
      /\ \A i \in 1..Len(s) : u[i] = s[i]
      /\ \A i \in 1..Len(t) : u[Len(s) + i] = t[i]
  OBVIOUS
<1>2. (\A i \in 1..Len(s) : s[i] \in ToSet(s)) /\ (\A i \in 1..Len(t) : t[i] \in ToSet(t))
  BY SeqElements
<1> HIDE DEF u
<1>3. ASSUME NEW m \in 1..Len(u), NEW n \in 1..Len(u), m < n
      PROVE  u[m] # u[n] /\ <<u[m], u[n]>> \in R
  <2>1. CASE n <= Len(s)
    <3>1. m \in 1..Len(s) /\ n \in 1..Len(s)
      BY <1>1, <1>3, <2>1
    <3> QED
      BY <1>1, <1>3, <3>1 DEF Ordered
  <2>2. CASE n > Len(s)
    <3>1. n - Len(s) \in 1..Len(t) /\ n = Len(s) + (n - Len(s))
      BY <1>1, <2>2
    <3>2. u[n] = t[n - Len(s)]
      BY <1>1, <3>1
    <3>3. CASE m <= Len(s)
      <4>1. m \in 1..Len(s)
        BY <1>1, <3>3
      <4> QED
        BY <1>1, <1>2, <3>1, <3>2, <4>1
    <3>4. CASE m > Len(s)
      <4>1. m - Len(s) \in 1..Len(t) /\ m = Len(s) + (m - Len(s)) /\ m - Len(s) < n - Len(s)
        BY <1>1, <1>3, <3>1, <3>4
      <4>2. u[m] = t[m - Len(s)]
        BY <1>1, <4>1
      <4> QED
        BY <3>1, <3>2, <4>1, <4>2 DEF Ordered
    <3> QED
      BY <1>1, <3>3, <3>4
  <2> QED
    BY <1>1, <2>1, <2>2
<1> QED
  BY <1>3 DEF Ordered, u

LEMMA NothingOrdered == \A R : Ordered(<<>>, R)
BY DEF Ordered

LEMMA InOrderInit == AlertInit => InOrder
<1> SUFFICES ASSUME AlertInit PROVE InOrder
  OBVIOUS
<1>1. (\A x \in Places : buffer[x] = <<>>) /\ (\A p \in Procs : raw[p] = <<>>)
  BY DEF AlertInit
<1> QED
  BY <1>1, NothingIn, NothingOrdered DEF InOrder

\* Where buffers and batches lose alerts from either end, they stay in order.
LEMMA InOrderShrinks ==
  ASSUME InOrder, UNCHANGED emitted,
         \A x \in Places : Ordered(buffer'[x], Before) /\ ToSet(buffer'[x]) \subseteq ToSet(buffer[x]),
         \A p \in Procs : raw'[p] = raw[p] \/ raw'[p] = <<>>
  PROVE  InOrder'
<1>1. Before' = Before
  BY DEF Before, EmittedBefore
<1>2. \A p \in Procs : Ordered(raw'[p], Before) /\ ToSet(raw'[p]) \subseteq ToSet(raw[p])
  BY NothingOrdered, NothingIn DEF InOrder
<1>3. \A p \in Procs : Place(p) \in Places
  BY AlertConstants
<1>4. \A p \in Procs : \A a \in ToSet(raw'[p]), b \in ToSet(buffer'[Place(p)]) : <<a, b>> \in Before
  BY <1>2, <1>3 DEF InOrder
<1> QED
  BY <1>1, <1>2, <1>4 DEF InOrder

\* A new alert is the last of all.
LEMMA InOrderEmits ==
  ASSUME AlertTypes, Apart, InOrder, NEW r \in Procs, NEW a \in Alerts, Emit(r, a)
  PROVE  InOrder'
<1> DEFINE z == Place(r)
<1>1. z \in Places /\ a \notin ToSet(emitted) /\ buffer[z] \in Seq(Alerts)
  BY AlertConstants DEF Emit, AlertTypes
<1>2. /\ buffer' = [buffer EXCEPT ![z] = Append(@, a)] /\ emitted' = Append(emitted, a)
      /\ UNCHANGED <<raw, next, received>>
  BY DEF Emit
<1> HIDE DEF z
<1>3. Before \subseteq Before' /\ \A b \in ToSet(emitted) : <<b, a>> \in Before'
  BY <1>2, BeforeGrows
<1>4. buffer'[z] = Append(buffer[z], a) /\ \A x \in Places : x # z => buffer'[x] = buffer[x]
  BY <1>1, <1>2 DEF AlertTypes
<1>5. \A s \in Seq(Alerts) : Ordered(s, Before) => Ordered(s, Before')
  BY <1>3 DEF Ordered
<1>6. ToSet(buffer[z]) \subseteq ToSet(emitted) /\ Ordered(buffer[z], Before)
  BY <1>1 DEF Apart, InOrder
<1>7. Ordered(buffer'[z], Before')
  BY <1>1, <1>3, <1>4, <1>6, OrderedAppend
<1>8. \A x \in Places : Ordered(buffer'[x], Before')
  BY <1>4, <1>5, <1>7 DEF AlertTypes, InOrder
<1>9. \A p \in Procs : Ordered(raw'[p], Before')
  BY <1>2, <1>5 DEF AlertTypes, InOrder
<1>10. \A x \in Places : ToSet(buffer'[x]) \subseteq ToSet(buffer[x]) \cup {a}
  <2>1. ToSet(buffer'[z]) = ToSet(buffer[z]) \cup {a}
    BY <1>1, <1>4, AppendElements
  <2> QED
    BY <1>4, <2>1
<1>11. ASSUME NEW p \in Procs, NEW c \in ToSet(raw'[p]), NEW b \in ToSet(buffer'[Place(p)])
       PROVE  <<c, b>> \in Before'
  <2>1. c \in ToSet(raw[p]) /\ c \in ToSet(emitted) /\ Place(p) \in Places
    BY <1>2, AlertConstants DEF Apart
  <2>2. b \in ToSet(buffer[Place(p)]) \/ b = a
    BY <1>10, <2>1
  <2>3. CASE b \in ToSet(buffer[Place(p)])
    BY <1>3, <2>1, <2>3 DEF InOrder
  <2> QED
    BY <1>3, <2>1, <2>2, <2>3
<1> QED
  BY <1>8, <1>9, <1>11 DEF InOrder

\* What a process takes from its buffer joins its batch behind what it took before.
LEMMA InOrderTakes ==
  ASSUME AlertTypes, AlertTypes', Apart, InOrder, UNCHANGED emitted, NEW r \in Procs,
         NEW page \in Seq(Alerts),
         raw'[r] = raw[r] \o page, \A p \in Procs : p # r => raw'[p] = raw[p],
         Ordered(page, Before), Ordered(buffer'[Place(r)], Before),
         ToSet(buffer[Place(r)]) = ToSet(page) \cup ToSet(buffer'[Place(r)]),
         \A a \in ToSet(page), b \in ToSet(buffer'[Place(r)]) : <<a, b>> \in Before,
         \A x \in Places : x # Place(r) => buffer'[x] = buffer[x]
  PROVE  InOrder'
<1>1. Before' = Before
  BY DEF Before, EmittedBefore
<1>2. Place(r) \in Places /\ raw[r] \in Seq(Alerts)
  BY AlertConstants DEF AlertTypes
<1>3. ToSet(page) \subseteq ToSet(buffer[Place(r)]) /\ ToSet(buffer'[Place(r)]) \subseteq ToSet(buffer[Place(r)])
  OBVIOUS
<1>4. /\ \A a \in ToSet(raw[r]), b \in ToSet(buffer[Place(r)]) : <<a, b>> \in Before
      /\ ToSet(buffer[Place(r)]) \cap ToSet(raw[r]) = {} /\ Ordered(raw[r], Before)
  BY <1>2 DEF InOrder, Apart
<1>5. Ordered(raw'[r], Before)
  <2>1. ToSet(raw[r]) \cap ToSet(page) = {} /\ \A a \in ToSet(raw[r]), b \in ToSet(page) : <<a, b>> \in Before
    BY <1>3, <1>4
  <2> QED
    BY <1>2, <1>4, <2>1, OrderedConcat
<1>6. ToSet(raw'[r]) = ToSet(raw[r]) \cup ToSet(page)
  BY <1>2, ConcatElements
<1>7. \A x \in Places : Ordered(buffer'[x], Before) /\ ToSet(buffer'[x]) \subseteq ToSet(buffer[x])
  BY <1>3 DEF InOrder
<1>8. \A p \in Procs : Ordered(raw'[p], Before)
  BY <1>5 DEF InOrder
<1>9. ASSUME NEW p \in Procs, NEW a \in ToSet(raw'[p]), NEW b \in ToSet(buffer'[Place(p)])
      PROVE  <<a, b>> \in Before
  <2>1. Place(p) \in Places /\ b \in ToSet(buffer[Place(p)])
    BY <1>7, AlertConstants
  <2>2. CASE p # r
    BY <2>1, <2>2 DEF InOrder
  <2>3. CASE p = r
    BY <1>4, <1>6, <2>1, <2>3
  <2> QED
    BY <2>2, <2>3
<1> QED
  BY <1>1, <1>7, <1>8, <1>9 DEF InOrder

LEMMA InOrderNext == AlertTypes /\ Apart /\ InOrder /\ [AlertNext]_alertVars => InOrder'
<1> SUFFICES ASSUME AlertTypes, Apart, InOrder, [AlertNext]_alertVars PROVE InOrder'
  OBVIOUS
<1>0. AlertTypes'
  BY AlertTypesNext
<1>00. \A x \in Places : Ordered(buffer[x], Before)
  BY DEF InOrder
<1>1. ASSUME NEW p \in Procs, Quiet(p) PROVE InOrder'
  <2>1. UNCHANGED <<buffer, raw, emitted>>
    BY <1>1 DEF Quiet, StartAggregator, StopAggregator, NextWindow
  <2> QED
    BY <1>00, <2>1, InOrderShrinks
<1>2. ASSUME NEW p \in Procs, NEW a \in Alerts, Emit(p, a) PROVE InOrder'
  BY <1>2, InOrderEmits
<1>3. ASSUME NEW p \in Procs, FetchRedis(p) PROVE InOrder'
  <2> DEFINE s == buffer["redis"]
             page == FirstPage(s)
             rest == LaterPages(s)
  <2>1. /\ Place(p) = "redis" /\ Place(p) \in Places /\ s \in Seq(Alerts)
        /\ raw[p] \in Seq(Alerts) /\ page \in Seq(Alerts) /\ rest \in Seq(Alerts)
    BY <1>3, AlertConstants, Pages DEF AlertTypes, FetchRedis
  <2>2. /\ buffer'["redis"] = rest /\ \A x \in Places : x # "redis" => buffer'[x] = buffer[x]
        /\ UNCHANGED emitted
    BY <1>3, <2>1 DEF FetchRedis, AlertTypes
  <2>3. /\ ToSet(s) = ToSet(page) \cup ToSet(rest)
        /\ Ordered(page, Before) /\ Ordered(rest, Before)
        /\ \A a \in ToSet(page), b \in ToSet(rest) : <<a, b>> \in Before
    BY <1>00, <2>1, Pages, PagesApart
  <2>4. CASE Fetched(p, raw[p])
    <3>1. \A q \in Procs : raw'[q] = raw[q]
      BY <2>1, <2>4, FetchedTyped
    <3>2. \A x \in Places : Ordered(buffer'[x], Before) /\ ToSet(buffer'[x]) \subseteq ToSet(buffer[x])
      BY <1>00, <2>2, <2>3
    <3> QED
      BY <2>2, <3>1, <3>2, InOrderShrinks
  <2>5. CASE raw' = [raw EXCEPT ![p] = @ \o page]
    <3>1. raw'[p] = raw[p] \o page /\ \A q \in Procs : q # p => raw'[q] = raw[q]
      BY <2>5 DEF AlertTypes
    <3> HIDE DEF page, rest
    <3> QED
      BY <1>0, <2>1, <2>2, <2>3, <3>1, InOrderTakes
  <2> QED
    BY <1>3, <2>4, <2>5 DEF FetchRedis
<1>4. ASSUME NEW p \in Procs, TakeBuffer(p) PROVE InOrder'
  <2>1. /\ Place(p) = p /\ p \in Places /\ buffer[p] \in Seq(Alerts) /\ raw[p] = <<>>
        /\ Fetched(p, buffer[p]) /\ UNCHANGED emitted
    BY <1>4, AlertConstants DEF AlertTypes, TakeBuffer
  <2>2. buffer'[p] = <<>> /\ \A x \in Places : x # p => buffer'[x] = buffer[x]
    BY <1>4, <2>1 DEF AlertTypes, TakeBuffer
  <2>3. raw'[p] = buffer[p] /\ \A q \in Procs : q # p => raw'[q] = raw[q]
    BY <2>1, FetchedTyped
  <2>4. raw[p] \o buffer[p] = buffer[p]
    BY <2>1
  <2>5. Ordered(buffer[p], Before) /\ Ordered(buffer'[p], Before) /\ ToSet(buffer'[p]) = {}
    BY <1>00, <2>1, <2>2, NothingIn, NothingOrdered
  <2> QED
    BY <1>0, <2>1, <2>2, <2>3, <2>4, <2>5, InOrderTakes
<1>5. ASSUME NEW p \in Procs, Send(p) PROVE InOrder'
  <2>1. UNCHANGED <<buffer, emitted>> /\ \A q \in Procs : raw'[q] = raw[q] \/ raw'[q] = <<>>
    BY <1>5 DEF Send, AlertTypes
  <2> QED
    BY <1>00, <2>1, InOrderShrinks
<1>6. ASSUME NEW p \in Procs, FetchFails(p) PROVE InOrder'
  <2>1. /\ raw[p] \in Seq(Alerts) /\ "redis" \in Places /\ buffer["redis"] \in Seq(Alerts)
        /\ Fetched(p, raw[p]) /\ UNCHANGED emitted
    BY <1>6, AlertConstants DEF AlertTypes, FetchFails
  <2>2. \A q \in Procs : raw'[q] = raw[q]
    BY <2>1, FetchedTyped
  <2>3. /\ ToSet(LaterPages(buffer["redis"])) \subseteq ToSet(buffer["redis"])
        /\ Ordered(LaterPages(buffer["redis"]), Before)
    BY <1>00, <2>1, Pages, PagesApart
  <2>4. \A x \in Places : \/ buffer'[x] = buffer[x]
                          \/ x = "redis" /\ buffer'[x] = LaterPages(buffer["redis"])
    <3>1. CASE UNCHANGED buffer
      BY <3>1
    <3>2. CASE buffer' = [buffer EXCEPT !["redis"] = LaterPages(@)]
      BY <2>1, <3>2 DEF AlertTypes
    <3> QED
      BY <1>6, <3>1, <3>2 DEF FetchFails
  <2> QED
    BY <1>00, <2>1, <2>2, <2>3, <2>4, InOrderShrinks
<1>7. ASSUME NEW p \in Procs, Exit(p) PROVE InOrder'
  <2>1. UNCHANGED <<raw, emitted>> /\ \A x \in Places : buffer'[x] = buffer[x] \/ buffer'[x] = <<>>
    BY <1>7, AlertConstants DEF Exit, AlertTypes
  <2> QED
    BY <1>00, <2>1, NothingIn, NothingOrdered, InOrderShrinks
<1>8. ASSUME NEW p \in Procs, CrashProcess(p) PROVE InOrder'
  <2>1. /\ UNCHANGED emitted /\ \A x \in Places : buffer'[x] = buffer[x] \/ buffer'[x] = <<>>
        /\ \A q \in Procs : raw'[q] = raw[q] \/ raw'[q] = <<>>
    BY <1>8, AlertConstants DEF CrashProcess, AlertTypes
  <2> QED
    BY <1>00, <2>1, NothingIn, NothingOrdered, InOrderShrinks
<1>9. CASE UNCHANGED alertVars
  BY <1>00, <1>9, InOrderShrinks DEF alertVars
<1> QED
  BY <1>1, <1>2, <1>3, <1>4, <1>5, <1>6, <1>7, <1>8, <1>9, AlertSteps, Zenon

-------------------------------------------------------------------------------
(* What a summary keeps. *)

LEMMA LeastNumber ==
  ASSUME NEW S, S \subseteq Nat, S # {}
  PROVE  \E k \in S : \A j \in S : k <= j
<1> DEFINE R == OpToRel(<, Nat)
<1>1. IsWellFoundedOn(R, Nat)
  BY NatLessThanWellFounded
<1>2. IsWellFoundedOn(R, S)
  BY <1>1, IsWellFoundedOnSubset
<1>3. PICK k \in S : \A j \in S : ~(<<j, k>> \in R)
  BY <1>2, WFMin
<1>4. \A j \in S : ~(j < k)
  BY <1>3 DEF OpToRel
<1> QED
  BY <1>4

\* For every alert of a batch in order one is kept that has its key and is no later.
LEMMA FirstSpeaks ==
  ASSUME AlertTypes, NEW s \in Seq(Alerts), Ordered(s, Before), ToSet(s) \subseteq ToSet(emitted)
  PROVE  \A b \in ToSet(s) : \E a \in Aggregate(s) : Key[a] = Key[b] /\ <<a, b>> \in Before
<1> SUFFICES ASSUME NEW b \in ToSet(s)
             PROVE  \E a \in Aggregate(s) : Key[a] = Key[b] /\ <<a, b>> \in Before
  OBVIOUS
<1>1. PICK n \in 1..Len(s) : b = s[n]
  BY SeqElements
<1> DEFINE S == {k \in 1..Len(s) : Key[s[k]] = Key[b]}
<1>2. S \subseteq Nat /\ n \in S
  BY <1>1
<1>3. PICK k \in S : \A j \in S : k <= j
  BY <1>2, LeastNumber
<1>4. k \in 1..Len(s) /\ Key[s[k]] = Key[b] /\ k <= n
  BY <1>2, <1>3
<1>5. ASSUME NEW m \in 1..(k - 1) PROVE Key[s[m]] # Key[s[k]]
  <2>1. m \in 1..Len(s) /\ ~(k <= m)
    BY <1>4
  <2> QED
    BY <1>3, <1>4, <2>1
<1>6. s[k] \in Aggregate(s)
  BY <1>4, <1>5 DEF Aggregate
<1>7. <<s[k], b>> \in Before
  <2>1. CASE k = n
    BY <1>1, <2>1, BeforeItself
  <2>2. CASE k # n
    <3>1. k < n
      BY <1>4, <2>2
    <3> QED
      BY <1>1, <1>4, <3>1 DEF Ordered
  <2> QED
    BY <2>1, <2>2
<1> QED
  BY <1>4, <1>6, <1>7

LEMMA SpeaksInit == AlertInit => Speaks
BY NothingIn DEF AlertInit, Speaks

\* Reports that are sent stay, and the order of emission only grows.
LEMMA SpeaksStays ==
  ASSUME Speaks, UNCHANGED received, Before \subseteq Before'
  PROVE  Speaks'
BY DEF Speaks

LEMMA SpeaksNext == AlertTypes /\ Apart /\ InOrder /\ Speaks /\ [AlertNext]_alertVars => Speaks'
<1> SUFFICES ASSUME AlertTypes, Apart, InOrder, Speaks, [AlertNext]_alertVars PROVE Speaks'
  OBVIOUS
<1>0. UNCHANGED emitted => Before \subseteq Before'
  BY DEF Before, EmittedBefore
<1>1. ASSUME NEW p \in Procs, Quiet(p) PROVE Speaks'
  BY <1>0, <1>1, SpeaksStays DEF Quiet, StartAggregator, StopAggregator, NextWindow
<1>2. ASSUME NEW p \in Procs, NEW a \in Alerts, Emit(p, a) PROVE Speaks'
  <2>1. UNCHANGED received /\ Before \subseteq Before'
    BY <1>2, BeforeGrows DEF Emit
  <2> QED
    BY <2>1, SpeaksStays
<1>3. ASSUME NEW p \in Procs, FetchRedis(p) PROVE Speaks'
  BY <1>0, <1>3, SpeaksStays DEF FetchRedis
<1>4. ASSUME NEW p \in Procs, TakeBuffer(p) PROVE Speaks'
  BY <1>0, <1>4, SpeaksStays DEF TakeBuffer
<1>5. ASSUME NEW p \in Procs, Send(p) PROVE Speaks'
  <2> DEFINE c == Channels[next[p]]
             m == Summary(raw[p])
  <2>1. /\ raw[p] \in Seq(Alerts) /\ c \in ToSet(Channels)
        /\ ToSet(raw[p]) \subseteq ToSet(emitted) /\ Ordered(raw[p], Before)
    BY AlertConstants DEF AlertTypes, Apart, InOrder
  <2>2. UNCHANGED emitted
    BY <1>5 DEF Send
  <2>3. Before' = Before
    BY <2>2 DEF Before, EmittedBefore
  <2>4. CASE received' = [received EXCEPT ![c] = Append(@, m)]
    <3>1. \A b \in m.from : \E a \in m.kept : Key[a] = Key[b] /\ <<a, b>> \in Before
      BY <2>1, FirstSpeaks, SummaryTyped
    <3>2. m \in Summaries /\ received[c] \in Seq(Summaries) /\ received \in [ToSet(Channels) -> Seq(Summaries)]
      BY <2>1, SummaryTyped DEF AlertTypes
    <3> HIDE DEF m, c
    <3>3. received'[c] = Append(received[c], m) /\ \A d \in ToSet(Channels) : d # c => received'[d] = received[d]
      BY <2>1, <2>4, <3>2
    <3>4. ToSet(received'[c]) = ToSet(received[c]) \cup {m}
      BY <3>2, <3>3, AppendElements
    <3>5. ASSUME NEW d \in ToSet(Channels), NEW l \in ToSet(received'[d])
          PROVE  \A b \in l.from : \E a \in l.kept : Key[a] = Key[b] /\ <<a, b>> \in Before
      <4>1. l \in ToSet(received[d]) \/ l = m
        BY <3>3, <3>4
      <4>2. CASE l \in ToSet(received[d])
        BY <4>2 DEF Speaks
      <4> QED
        BY <3>1, <4>1, <4>2
    <3> QED
      BY <2>3, <3>5 DEF Speaks
  <2>5. CASE UNCHANGED received
    BY <2>3, <2>5, SpeaksStays
  <2> QED
    BY <1>5, <2>4, <2>5 DEF Send
<1>6. ASSUME NEW p \in Procs, FetchFails(p) PROVE Speaks'
  BY <1>0, <1>6, SpeaksStays DEF FetchFails
<1>7. ASSUME NEW p \in Procs, Exit(p) PROVE Speaks'
  BY <1>0, <1>7, SpeaksStays DEF Exit
<1>8. ASSUME NEW p \in Procs, CrashProcess(p) PROVE Speaks'
  BY <1>0, <1>8, SpeaksStays DEF CrashProcess
<1>9. CASE UNCHANGED alertVars
  BY <1>0, <1>9, SpeaksStays DEF alertVars
<1> QED
  BY <1>1, <1>2, <1>3, <1>4, <1>5, <1>6, <1>7, <1>8, <1>9, AlertSteps, Zenon

-------------------------------------------------------------------------------
(* Every alert is accounted for. *)

LEMMA AccountedInit == AlertInit => Accounted
BY NothingIn DEF AlertInit, Accounted

\* What is dropped was reported or is written down with the reason.
LEMMA DropAccounts ==
  ASSUME NEW S, NEW why, Drop(S, why)
  PROVE  MadeAway \subseteq MadeAway' /\ S \subseteq InReports \cup MadeAway'
<1>1. gone \subseteq gone'
  BY DEF Drop
<1>2. ASSUME NEW a \in S, ~Reported(a) PROVE a \in MadeAway'
  <2>1. <<a, why>> \in gone'
    BY <1>2 DEF Drop
  <2>2. <<a, why>>[1] = a
    OBVIOUS
  <2> QED
    BY <2>1, <2>2 DEF MadeAway
<1>3. ASSUME NEW a \in S, Reported(a) PROVE a \in InReports
  BY <1>3 DEF Reported, InReports, Told
<1>4. MadeAway \subseteq MadeAway'
  BY <1>1 DEF MadeAway
<1> QED
  BY <1>2, <1>3, <1>4

\* A step that only moves alerts between buffers, batches, reports and the list of what
\* was made away with.
LEMMA AccountedMoves ==
  ASSUME Accounted, UNCHANGED emitted,
         \A x \in Places : ToSet(buffer[x]) \subseteq
                             InBuffers' \cup InBatches' \cup InReports' \cup MadeAway',
         \A p \in Procs : ToSet(raw[p]) \subseteq
                             InBuffers' \cup InBatches' \cup InReports' \cup MadeAway',
         InReports \subseteq InReports', MadeAway \subseteq MadeAway'
  PROVE  Accounted'
<1> DEFINE all == InBuffers' \cup InBatches' \cup InReports' \cup MadeAway'
<1>1. InBuffers \subseteq all
  BY DEF InBuffers
<1>2. InBatches \subseteq all
  BY DEF InBatches
<1>3. ToSet(emitted) \subseteq InBuffers \cup InBatches \cup InReports \cup MadeAway
  BY Zenon DEF Accounted
<1>4. ToSet(emitted) \subseteq all
  BY <1>1, <1>2, <1>3
<1>5. ToSet(emitted') \subseteq all
  BY <1>4
<1> QED
  BY <1>5, Zenon DEF Accounted

LEMMA PartsHold ==
  /\ \A x \in Places : ToSet(buffer[x]) \subseteq InBuffers
  /\ \A p \in Procs : ToSet(raw[p]) \subseteq InBatches
  /\ \A c \in ToSet(Channels) : Told[c] \subseteq InReports
BY DEF InBuffers, InBatches, InReports

LEMMA PartsHoldNext ==
  /\ \A x \in Places : ToSet(buffer'[x]) \subseteq InBuffers'
  /\ \A p \in Procs : ToSet(raw'[p]) \subseteq InBatches'
  /\ \A c \in ToSet(Channels) : Told'[c] \subseteq InReports'
BY DEF InBuffers, InBatches, InReports

LEMMA ReportsStay ==
  ASSUME UNCHANGED received
  PROVE  InReports' = InReports
BY DEF InReports, Told

LEMMA AccountedNext == AlertTypes /\ Accounted /\ [AlertNext]_alertVars => Accounted'
<1> SUFFICES ASSUME AlertTypes, Accounted, [AlertNext]_alertVars PROVE Accounted'
  OBVIOUS
<1> DEFINE all == InBuffers' \cup InBatches' \cup InReports' \cup MadeAway'
<1>0. UNCHANGED gone => MadeAway' = MadeAway
  BY DEF MadeAway
<1>1. ASSUME NEW p \in Procs, Quiet(p) PROVE Accounted'
  <2>1. UNCHANGED <<buffer, raw, received, emitted, gone>>
    BY <1>1 DEF Quiet, StartAggregator, StopAggregator, NextWindow
  <2> QED
    BY <1>0, <2>1, ReportsStay, PartsHoldNext, AccountedMoves
<1>2. ASSUME NEW p \in Procs, NEW a \in Alerts, Emit(p, a) PROVE Accounted'
  <2> DEFINE z == Place(p)
  <2>1. /\ z \in Places /\ buffer[z] \in Seq(Alerts) /\ emitted \in Seq(Alerts)
        /\ emitted' = Append(emitted, a) /\ UNCHANGED <<raw, received, gone>>
    BY <1>2, AlertConstants DEF Emit, AlertTypes
  <2>2. buffer' = [buffer EXCEPT ![z] = Append(@, a)]
    BY <1>2 DEF Emit
  <2> HIDE DEF z
  <2>3. buffer'[z] = Append(buffer[z], a) /\ \A x \in Places : x # z => buffer'[x] = buffer[x]
    BY <2>1, <2>2 DEF AlertTypes
  <2>4. ToSet(buffer'[z]) = ToSet(buffer[z]) \cup {a} /\ ToSet(emitted') = ToSet(emitted) \cup {a}
    BY <2>1, <2>3, AppendElements
  <2>5. \A x \in Places : ToSet(buffer[x]) \subseteq ToSet(buffer'[x])
    BY <2>3, <2>4
  <2>6. InBuffers \subseteq InBuffers' /\ a \in InBuffers'
    BY <2>1, <2>4, <2>5 DEF InBuffers
  <2>7. InBatches' = InBatches /\ InReports' = InReports /\ MadeAway' = MadeAway
    BY <1>0, <2>1, ReportsStay DEF InBatches
  <2>8. ToSet(emitted) \subseteq InBuffers \cup InBatches \cup InReports \cup MadeAway
    BY Zenon DEF Accounted
  <2>9. ToSet(emitted') \subseteq InBuffers' \cup InBatches' \cup InReports' \cup MadeAway'
    BY <2>4, <2>6, <2>7, <2>8
  <2> QED
    BY <2>9, Zenon DEF Accounted
<1>3. ASSUME NEW p \in Procs, FetchRedis(p) PROVE Accounted'
  <2> DEFINE page == FirstPage(buffer["redis"])
             rest == LaterPages(buffer["redis"])
  <2>1. /\ "redis" \in Places /\ buffer["redis"] \in Seq(Alerts) /\ raw[p] \in Seq(Alerts)
        /\ page \in Seq(Alerts)
    BY <1>3, AlertConstants, Pages DEF AlertTypes, FetchRedis
  <2>2. /\ buffer'["redis"] = rest /\ \A x \in Places : x # "redis" => buffer'[x] = buffer[x]
        /\ UNCHANGED <<received, emitted, gone>>
    BY <1>3, <2>1 DEF FetchRedis, AlertTypes
  <2>3. ToSet(buffer["redis"]) = ToSet(page) \cup ToSet(rest)
    BY <2>1, Pages
  <2>4. ToSet(page) \subseteq ToSet(raw'[p]) /\ \A q \in Procs : ToSet(raw[q]) \subseteq ToSet(raw'[q])
    <3>1. CASE page = <<>> /\ Fetched(p, raw[p])
      BY <2>1, <3>1, FetchedTyped, NothingIn
    <3>2. CASE raw' = [raw EXCEPT ![p] = @ \o page]
      <4>1. raw'[p] = raw[p] \o page /\ \A q \in Procs : q # p => raw'[q] = raw[q]
        BY <3>2 DEF AlertTypes
      <4>2. ToSet(raw'[p]) = ToSet(raw[p]) \cup ToSet(page)
        BY <2>1, <4>1, ConcatElements
      <4> HIDE DEF page
      <4> QED
        BY <4>1, <4>2
    <3> QED
      BY <1>3, <3>1, <3>2 DEF FetchRedis
  <2> HIDE DEF page, rest
  <2>5. \A x \in Places : ToSet(buffer[x]) \subseteq InBuffers' \cup InBatches'
    BY <2>2, <2>3, <2>4, PartsHoldNext
  <2>6. \A q \in Procs : ToSet(raw[q]) \subseteq InBatches'
    BY <2>4, PartsHoldNext
  <2> QED
    BY <1>0, <2>2, <2>5, <2>6, ReportsStay, AccountedMoves
<1>4. ASSUME NEW p \in Procs, TakeBuffer(p) PROVE Accounted'
  <2>1. /\ p \in Places /\ buffer[p] \in Seq(Alerts) /\ raw[p] = <<>>
        /\ Fetched(p, buffer[p]) /\ UNCHANGED <<received, emitted, gone>>
    BY <1>4, AlertConstants DEF AlertTypes, TakeBuffer
  <2>2. \A x \in Places : x # p => buffer'[x] = buffer[x]
    BY <1>4, <2>1 DEF AlertTypes, TakeBuffer
  <2>3. raw'[p] = buffer[p] /\ \A q \in Procs : q # p => raw'[q] = raw[q]
    BY <2>1, FetchedTyped
  <2>4. \A x \in Places : ToSet(buffer[x]) \subseteq InBuffers' \cup InBatches'
    BY <2>2, <2>3, PartsHoldNext
  <2>5. \A q \in Procs : ToSet(raw[q]) \subseteq InBatches'
    BY <2>1, <2>3, NothingIn, PartsHoldNext
  <2> QED
    BY <1>0, <2>1, <2>4, <2>5, ReportsStay, AccountedMoves
<1>5. ASSUME NEW p \in Procs, Send(p) PROVE Accounted'
  <2> DEFINE c == Channels[next[p]]
  <2>1. raw[p] \in Seq(Alerts) /\ c \in ToSet(Channels)
    BY AlertConstants DEF AlertTypes
  <2>2. UNCHANGED <<buffer, emitted>> /\ \A q \in Procs : raw'[q] = raw[q] \/ q = p
    BY <1>5 DEF Send, AlertTypes
  <2>3. \/ /\ received' = [received EXCEPT ![c] = Append(@, Summary(raw[p]))]
           /\ UNCHANGED gone
        \/ UNCHANGED received /\ Drop(ToSet(raw[p]), "send")
        \/ UNCHANGED <<raw, received, gone>>
    BY <1>5 DEF Send
  <2> HIDE DEF c
  <2>4. /\ ToSet(raw[p]) \subseteq InBatches' \cup InReports' \cup MadeAway'
        /\ InReports \subseteq InReports' /\ MadeAway \subseteq MadeAway'
    <3>1. CASE received' = [received EXCEPT ![c] = Append(@, Summary(raw[p]))] /\ UNCHANGED gone
      <4>1. /\ Told'[c] = Told[c] \cup ToSet(raw[p])
            /\ \A d \in ToSet(Channels) : d # c => Told'[d] = Told[d]
        BY <2>1, <3>1, ToldGrows
      <4>2. \A d \in ToSet(Channels) : Told[d] \subseteq Told'[d]
        BY <4>1
      <4>3. InReports \subseteq InReports' /\ Told'[c] \subseteq InReports'
        BY <2>1, <4>2 DEF InReports
      <4> QED
        BY <1>0, <3>1, <4>1, <4>3
    <3>2. CASE UNCHANGED received /\ Drop(ToSet(raw[p]), "send")
      <4>1. MadeAway \subseteq MadeAway' /\ ToSet(raw[p]) \subseteq InReports \cup MadeAway'
        BY <3>2, DropAccounts
      <4> QED
        BY <3>2, <4>1, ReportsStay
    <3>3. CASE UNCHANGED <<raw, received, gone>>
      BY <1>0, <3>3, ReportsStay, PartsHoldNext
    <3> QED
      BY <2>3, <3>1, <3>2, <3>3
  <2>5. \A q \in Procs : ToSet(raw[q]) \subseteq all
    BY <2>2, <2>4, PartsHoldNext
  <2>6. \A x \in Places : ToSet(buffer[x]) \subseteq all
    BY <2>2, PartsHoldNext
  <2> QED
    BY <2>2, <2>4, <2>5, <2>6, AccountedMoves
<1>6. ASSUME NEW p \in Procs, FetchFails(p) PROVE Accounted'
  <2> DEFINE page == FirstPage(buffer["redis"])
             rest == LaterPages(buffer["redis"])
  <2>1. /\ "redis" \in Places /\ buffer["redis"] \in Seq(Alerts) /\ raw[p] \in Seq(Alerts)
        /\ Fetched(p, raw[p]) /\ UNCHANGED <<received, emitted>>
    BY <1>6, AlertConstants DEF AlertTypes, FetchFails
  <2>2. \A q \in Procs : raw'[q] = raw[q]
    BY <2>1, FetchedTyped
  <2>3. ToSet(buffer["redis"]) = ToSet(page) \cup ToSet(rest)
    BY <2>1, Pages
  <2>4. \/ UNCHANGED <<buffer, gone>>
        \/ buffer' = [buffer EXCEPT !["redis"] = rest] /\ Drop(ToSet(page), "reply")
    BY <1>6 DEF FetchFails
  <2> HIDE DEF page, rest
  <2>5. /\ \A x \in Places : ToSet(buffer[x]) \subseteq all
        /\ MadeAway \subseteq MadeAway'
    <3>1. CASE UNCHANGED <<buffer, gone>>
      BY <1>0, <3>1, PartsHoldNext
    <3>2. CASE buffer' = [buffer EXCEPT !["redis"] = rest] /\ Drop(ToSet(page), "reply")
      <4>1. buffer'["redis"] = rest /\ \A x \in Places : x # "redis" => buffer'[x] = buffer[x]
        BY <2>1, <3>2 DEF AlertTypes
      <4>2. MadeAway \subseteq MadeAway' /\ ToSet(page) \subseteq InReports \cup MadeAway'
        BY <3>2, DropAccounts
      <4>3. InReports' = InReports
        BY <2>1, ReportsStay
      <4> QED
        BY <2>1, <2>3, <4>1, <4>2, <4>3, PartsHoldNext
    <3> QED
      BY <2>4, <3>1, <3>2
  <2>6. \A q \in Procs : ToSet(raw[q]) \subseteq all
    BY <2>2, PartsHoldNext
  <2> QED
    BY <2>1, <2>5, <2>6, ReportsStay, AccountedMoves
<1>7. ASSUME NEW p \in Procs, Exit(p) PROVE Accounted'
  <2>1. UNCHANGED <<raw, received, emitted>>
    BY <1>7 DEF Exit
  <2>2. InReports' = InReports
    BY <2>1, ReportsStay
  <2>3. \/ UNCHANGED <<buffer, gone>>
        \/ p \in Places /\ buffer' = [buffer EXCEPT ![p] = <<>>] /\ Drop(ToSet(buffer[p]), "exit")
    BY <1>7, AlertConstants DEF Exit
  <2>4. /\ \A x \in Places : ToSet(buffer[x]) \subseteq all
        /\ MadeAway \subseteq MadeAway'
    <3>1. CASE UNCHANGED <<buffer, gone>>
      BY <1>0, <3>1, PartsHoldNext
    <3>2. CASE p \in Places /\ buffer' = [buffer EXCEPT ![p] = <<>>] /\ Drop(ToSet(buffer[p]), "exit")
      <4>1. \A x \in Places : x # p => buffer'[x] = buffer[x]
        BY <3>2 DEF AlertTypes
      <4>2. MadeAway \subseteq MadeAway' /\ ToSet(buffer[p]) \subseteq InReports \cup MadeAway'
        BY <3>2, DropAccounts
      <4> QED
        BY <2>2, <4>1, <4>2, PartsHoldNext
    <3> QED
      BY <2>3, <3>1, <3>2
  <2>5. \A q \in Procs : ToSet(raw[q]) \subseteq all
    BY <2>1, PartsHoldNext
  <2> QED
    BY <2>1, <2>2, <2>4, <2>5, AccountedMoves
<1>8. ASSUME NEW p \in Procs, CrashProcess(p) PROVE Accounted'
  <2> DEFINE own == IF p \in Shared THEN {} ELSE ToSet(buffer[p])
  <2>1. UNCHANGED <<received, emitted>> /\ \A q \in Procs : q # p => raw'[q] = raw[q]
    BY <1>8 DEF CrashProcess, AlertTypes
  <2>2. Drop(ToSet(raw[p]) \cup own, "crash")
    BY <1>8 DEF CrashProcess
  <2>3. \A x \in Places : buffer'[x] = buffer[x] \/ ToSet(buffer[x]) \subseteq own
    BY <1>8, AlertConstants DEF CrashProcess, AlertTypes
  <2> HIDE DEF own
  <2>4. MadeAway \subseteq MadeAway' /\ ToSet(raw[p]) \cup own \subseteq InReports \cup MadeAway'
    BY <2>2, DropAccounts
  <2>5. InReports' = InReports
    BY <2>1, ReportsStay
  <2>6. \A q \in Procs : ToSet(raw[q]) \subseteq all
    BY <2>1, <2>4, <2>5, PartsHoldNext
  <2>7. \A x \in Places : ToSet(buffer[x]) \subseteq all
    BY <2>3, <2>4, <2>5, PartsHoldNext
  <2> QED
    BY <2>1, <2>4, <2>5, <2>6, <2>7, AccountedMoves
<1>9. CASE UNCHANGED alertVars
  <2>1. UNCHANGED <<buffer, raw, received, emitted, gone>>
    BY <1>9 DEF alertVars
  <2> QED
    BY <1>0, <2>1, ReportsStay, PartsHoldNext, AccountedMoves
<1> QED
  BY <1>1, <1>2, <1>3, <1>4, <1>5, <1>6, <1>7, <1>8, <1>9, AlertSteps, Zenon

-------------------------------------------------------------------------------
(* The theorems of the alert engine. *)

LEMMA AlertInvHolds == AlertSpec => []AlertInv
<1>1. AlertInit => AlertInv
  BY AlertTypesInit, ApartInit, InOrderInit, SpeaksInit, AccountedInit, Zenon DEF AlertInv
<1>2. AlertInv /\ [AlertNext]_alertVars => AlertInv'
  BY AlertTypesNext, ApartNext, InOrderNext, SpeaksNext, AccountedNext, Zenon DEF AlertInv
<1> QED
  BY <1>1, <1>2, PTL DEF AlertSpec

\* The state keeps its types; between two batches a process holds no events.
THEOREM AlertsTyped == AlertSpec => []AlertTypeOK
<1>1. AlertInv => AlertTypeOK
  BY DEF AlertInv, AlertTypes, AlertTypeOK
<1> QED
  BY <1>1, AlertInvHolds, PTL

\* However many processes drain the list, are stopped, restarted and fail, no alert is
\* in two summaries of one channel.
THEOREM AlertsToldOnce == AlertSpec => []ToldOnce
<1>1. AlertInv => ToldOnce
  BY Zenon DEF AlertInv, Apart
<1> QED
  BY <1>1, AlertInvHolds, PTL

\* An alert that was emitted is waiting, in a batch, reported, or made away with by a
\* fault or an exit that is written down.
THEOREM AlertsNeverVanish == AlertSpec => []NoneVanishes
<1>1. AlertInv => NoneVanishes
  <2> SUFFICES ASSUME Accounted, NEW a \in ToSet(emitted)
               PROVE  \/ \E x \in Places : a \in ToSet(buffer[x])
                      \/ \E p \in Procs : a \in ToSet(raw[p])
                      \/ Reported(a)
                      \/ \E g \in gone : g[1] = a
    BY DEF AlertInv, NoneVanishes
  <2>1. a \in InBuffers \/ a \in InBatches \/ a \in InReports \/ a \in MadeAway
    BY DEF Accounted
  <2>2. a \in InBuffers => \E x \in Places : a \in ToSet(buffer[x])
    BY DEF InBuffers
  <2>3. a \in InBatches => \E p \in Procs : a \in ToSet(raw[p])
    BY DEF InBatches
  <2>4. a \in InReports => Reported(a)
    BY DEF InReports, Told, Reported
  <2>5. a \in MadeAway => \E g \in gone : g[1] = a
    BY DEF MadeAway
  <2> QED
    BY <2>1, <2>2, <2>3, <2>4, <2>5
<1> QED
  BY <1>1, AlertInvHolds, PTL

\* Deduplication by _aggregate never silences a key, also when a batch was taken page by
\* page: every alert of a summary is spoken for by one with its key that was emitted no
\* later.  The comment at alert_engine.py:145 promises the opposite, LatestSpeaks.
THEOREM AlertsOldestSpeaks == AlertSpec => []OldestSpeaks
<1>1. AlertInv => OldestSpeaks
  <2>1. \A a, b : <<a, b>> \in Before => EmittedBefore(a, b)
    BY DEF Before
  <2> QED
    BY <2>1 DEF AlertInv, Speaks, OldestSpeaks
<1> QED
  BY <1>1, AlertInvHolds, PTL
===============================================================================
