----------------------------- MODULE ConfigShield -----------------------------
(***************************************************************************)
(* The part of ConfigShield (config_shield.py) that does not depend on     *)
(* where the lock lives: the threads of every node, the RLock `_state_lock`*)
(* they share, the acquire loop with its backoff, and the dictionary of    *)
(* heartbeat threads, for one resource.                                    *)
(*                                                                         *)
(* ConfigShieldRedis and ConfigShieldFile extend it with the steps that    *)
(* read and write the lock: those of acquire start at label "try" and end  *)
(* at "start" or "backoff", those of release run from "rread" to "idle",   *)
(* those of heartbeat from "hread" to "wait" or "dead".                    *)
(***************************************************************************)
EXTENDS Naturals, FiniteSets

CONSTANTS Nodes,
          Clients,          \* threads that acquire, work and release
          Beats,            \* bound: threads available for heartbeats
          NodeOf,           \* Clients \cup Beats -> Nodes
          None

Threads == Clients \cup Beats

ASSUME ThreadAssumption ==
  /\ Clients \cap Beats = {}
  /\ NodeOf \in [Threads -> Nodes]
  /\ None \notin Threads \cup Nodes

VARIABLES stateLock,        \* Nodes -> thread inside `with self._state_lock`
          pc,
          entry,            \* _heartbeat_threads: Nodes -> thread or None
          stopped           \* heartbeat threads whose stop event is set

nodeVars == <<stateLock, pc, entry, stopped>>

Goto(a, label) == pc' = [pc EXCEPT ![a] = label]
Unlock(a) == stateLock' = [stateLock EXCEPT ![NodeOf[a]] = None]

\* A step inside the `with` block: the lock is kept.
Continue(a, label) == Goto(a, label) /\ UNCHANGED <<stateLock, entry, stopped>>

\* The last step of the `with` block, by return or by exception.
Exit(a, label) == Goto(a, label) /\ Unlock(a) /\ UNCHANGED <<entry, stopped>>

NodeInit ==
  /\ stateLock = [n \in Nodes |-> None]
  /\ pc = [a \in Threads |-> IF a \in Clients THEN "idle" ELSE "dead"]
  /\ entry = [n \in Nodes |-> None]
  /\ stopped = {}

-------------------------------------------------------------------------------
(* acquire and release, around the steps on the lock itself *)

Begin(t) == pc[t] = "idle" /\ Continue(t, "want")

\* Bound: an attempt begins only if it will find a thread for its heartbeat.
BeatAvailable(n) ==
  entry[n] # None \/ \E h \in Beats : NodeOf[h] = n /\ pc[h] = "dead"

\* `with self._state_lock:` in acquire, release and heartbeat.
EnterLock(a) ==
  /\ pc[a] \in {"want", "leave", "due"}
  /\ pc[a] = "want" => BeatAvailable(NodeOf[a])
  /\ stateLock[NodeOf[a]] = None
  /\ stateLock' = [stateLock EXCEPT ![NodeOf[a]] = a]
  /\ Goto(a, CASE pc[a] = "want"  -> "try"
               [] pc[a] = "leave" -> "stop"
               [] pc[a] = "due"   -> "hread")
  /\ UNCHANGED <<entry, stopped>>

\* Before the deadline: sleep and try again.  At the deadline: raise.
Backoff(t) ==
  /\ pc[t] = "backoff"
  /\ Continue(t, "want") \/ Continue(t, "idle")

StartHeartbeatAlways(t) ==
  /\ pc[t] = "start"
  /\ \E h \in Beats :
       /\ NodeOf[h] = NodeOf[t] /\ pc[h] = "dead"
       /\ entry' = [entry EXCEPT ![NodeOf[t]] = h]
       /\ stopped' = stopped \ {h}
       /\ pc' = [pc EXCEPT ![t] = "held", ![h] = "wait"]
  /\ Unlock(t)

\* _start_heartbeat: an entry that is already there is trusted, alive or not.
\* acquire returns to its caller.
StartHeartbeat(t) ==
  /\ pc[t] = "start"
  /\ IF entry[NodeOf[t]] # None
     THEN Goto(t, "held") /\ UNCHANGED <<entry, stopped>>
     ELSE \E h \in Beats :
            /\ NodeOf[h] = NodeOf[t] /\ pc[h] = "dead"
            /\ entry' = [entry EXCEPT ![NodeOf[t]] = h]
            /\ stopped' = stopped \ {h}
            /\ pc' = [pc EXCEPT ![t] = "held", ![h] = "wait"]
  /\ Unlock(t)

\* The work under the lock is done, release is called.
Leave(t) == pc[t] = "held" /\ Continue(t, "leave")

StopHeartbeatKeepsEntry(t) ==
  LET h == entry[NodeOf[t]] IN
  /\ pc[t] = "stop"
  /\ stopped' = IF h = None THEN stopped ELSE stopped \cup {h}
  /\ pc' = [a \in Threads |->
              IF a = t THEN "rread"
              ELSE IF a = h /\ pc[a] = "wait" THEN "dead" ELSE pc[a]]
  /\ UNCHANGED <<stateLock, entry>>

StopHeartbeatPopsOnly(t) ==
  /\ pc[t] = "stop" /\ Goto(t, "rread")
  /\ entry' = [entry EXCEPT ![NodeOf[t]] = None]
  /\ UNCHANGED <<stateLock, stopped>>

\* Pop the entry, set the stop event, join for a second.  A thread waiting for
\* its interval ends; one waiting for _state_lock outlives the join.
StopHeartbeat(t) ==
  LET h == entry[NodeOf[t]] IN
  /\ pc[t] = "stop"
  /\ entry' = [entry EXCEPT ![NodeOf[t]] = None]
  /\ stopped' = IF h = None THEN stopped ELSE stopped \cup {h}
  /\ pc' = [a \in Threads |->
              IF a = t THEN "rread"
              ELSE IF a = h /\ pc[a] = "wait" THEN "dead" ELSE pc[a]]
  /\ UNCHANGED stateLock

-------------------------------------------------------------------------------
(* _heartbeat_loop *)

Due(h) == pc[h] = "wait" /\ Continue(h, "due")

\* heartbeat returned: the loop waits again, or sees its stop event.
BeatAgain(h) == Exit(h, IF h \in stopped THEN "dead" ELSE "wait")

\* heartbeat raised: the thread ends, its entry stays in the dictionary.
BeatDies(h) == Exit(h, "dead")

Live(h) == pc[h] # "dead" /\ h \notin stopped

-------------------------------------------------------------------------------
(* A node's process dies and comes back with nothing in memory. *)

NodeCrash(n) ==
  /\ pc' = [a \in Threads |-> IF NodeOf[a] # n THEN pc[a]
                              ELSE IF a \in Clients THEN "idle" ELSE "dead"]
  /\ stateLock' = [stateLock EXCEPT ![n] = None]
  /\ entry' = [entry EXCEPT ![n] = None]
  /\ stopped' = {h \in stopped : NodeOf[h] # n}

-------------------------------------------------------------------------------
(* What both modes promise. *)

\* The labels of a thread outside the `with` block.
Outside == {"idle", "want", "backoff", "held", "leave", "dead", "wait", "due"}

NodeTypeOK ==
  /\ stateLock \in [Nodes -> Threads \cup {None}]
  /\ entry \in [Nodes -> Beats \cup {None}]
  /\ stopped \subseteq Beats

Working(t) == pc[t] \in {"held", "leave"}

\* Two callers never work under the same resource lock, on any nodes.
MutualExclusion ==
  \A t, u \in Clients : Working(t) /\ Working(u) => t = u

\* A heartbeat that has not been told to stop belongs to a node where someone is
\* still inside the lock, and is the only one of that node, however acquisitions,
\* releases and lost leases interleave: nothing keeps a lease alive that nobody
\* uses, and no second heartbeat outlives the release.
HeartbeatsMatchHolders ==
  \A h \in Beats : Live(h) =>
    /\ \E t \in Clients : NodeOf[t] = NodeOf[h] /\ pc[t] \in {"held", "leave", "stop"}
    /\ \A g \in Beats : Live(g) /\ NodeOf[g] = NodeOf[h] => g = h
===============================================================================
