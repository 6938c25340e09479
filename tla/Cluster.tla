-------------------------------- MODULE Cluster --------------------------------
(***************************************************************************)
(* Heartbeats and failover.  A HeartbeatSender per node                    *)
(* (cluster/heartbeat.py) writes a key with a timestamp and a TTL; the     *)
(* status route (routers/cluster.py) derives ACTIVE, SUSPECT or DEAD from  *)
(* its age; perform_failover (agent_manager.py) takes the tasks of a node  *)
(* that was declared DEAD from the task registry in Redis.                 *)
(*                                                                         *)
(* Time is counted in ages and timers, not by a clock.  The workers that   *)
(* take and register tasks, and whoever calls perform_failover, are not in *)
(* src: they are modelled by what tests and documents do.                  *)
(***************************************************************************)
EXTENDS Naturals, FiniteSets

CONSTANTS Nodes, Tasks, None,
          Senders,          \* bound: nodes whose heartbeat is followed; the
                            \* others are up, seen ACTIVE and never crash
          Interval,         \* DEFAULT_HB_INTERVAL, 10 s
          Slack,            \* the longest a prompt send takes
          SuspectAfter, DeadAfter,      \* 15 s and 30 s
          KeyTTL,           \* px = 45000
          MaxMissed,        \* bound: heartbeats lost in a row
          MaxErrors         \* bound: errors of Redis in failovers

ASSUME ClusterAssumption ==
  /\ Senders \subseteq Nodes /\ None \notin Nodes
  /\ Interval \in Nat \ {0} /\ Slack \in Nat
  /\ SuspectAfter \in Nat /\ DeadAfter \in Nat /\ KeyTTL \in Nat \ {0}
  /\ MaxMissed \in Nat /\ MaxErrors \in Nat

\* Without a loss, a sender that is on time is never taken for DEAD.
ASSUME TimingAssumption == Interval + Slack + Slack <= DeadAfter

VARIABLES up,               \* Nodes -> the process runs
          thread,           \* _thread: "none", or what it does: "send", "set", "wait"
          stopped,          \* Senders -> _stop_event
          joining,          \* Senders -> stop() waits in join
          timer,            \* Senders -> time since the thread began what it does
          stamp,            \* Senders -> age of the payload's ts
          key,              \* sentry:node:hb: [age, ttl] or None
          registry, taskLock,           \* Tasks -> node or None
          offered,          \* tasks broadcast as REBALANCE and not taken yet
          running,          \* Nodes -> tasks the node executes
          target,           \* Nodes -> the node its perform_failover is about
          snapshot,         \* Nodes -> tasks_to_reclaim, None before HGETALL
          errors,
          missed,           \* history: heartbeats lost in a row since start()
          reported,         \* history: nodes with a heartbeat since start()
          prompt,           \* history: no sender was late so far
          orderly           \* history: no failover overlapped another of its node
                            \* or the return of its node, not too many heartbeats
                            \* were lost, no working node was stopped

beatVars == <<thread, stopped, joining, timer, stamp, key, missed, reported, prompt>>
taskVars == <<registry, taskLock, offered, running>>
failVars == <<target, snapshot, errors>>
vars == <<up, beatVars, taskVars, failVars, orderly>>

\* The oldest a key can be while k heartbeats in a row were lost.
Oldest(k) == (k + 1) * (Interval + Slack) + Slack

Init ==
  /\ up = [n \in Nodes |-> TRUE]
  /\ thread = [n \in Senders |-> "none"]
  /\ stopped = [n \in Senders |-> FALSE]
  /\ joining = [n \in Senders |-> FALSE]
  /\ timer = [n \in Senders |-> 0]
  /\ stamp = [n \in Senders |-> 0]
  /\ key = [n \in Senders |-> None]
  /\ registry = [t \in Tasks |-> None]
  /\ taskLock = [t \in Tasks |-> None]
  /\ offered = Tasks
  /\ running = [n \in Nodes |-> {}]
  /\ target = [n \in Nodes |-> None]
  /\ snapshot = [n \in Nodes |-> None]
  /\ errors = 0
  /\ missed = [n \in Senders |-> 0]
  /\ reported = Nodes \ Senders
  /\ prompt = TRUE /\ orderly = TRUE

-------------------------------------------------------------------------------
(* HeartbeatSender *)

\* start(): a thread that is alive is left alone, its stop event too.
Start(n) ==
  /\ up[n] /\ ~joining[n]
  /\ thread[n] = "none"
  /\ stopped' = [stopped EXCEPT ![n] = FALSE]
  /\ thread' = [thread EXCEPT ![n] = "send"]
  /\ timer' = [timer EXCEPT ![n] = 0]
  /\ missed' = [missed EXCEPT ![n] = 0]
  /\ reported' = reported \ {n}
  /\ UNCHANGED <<up, joining, stamp, key, prompt, taskVars, failVars, orderly>>

\* stop(): the event ends a wait at once, a send only when it is over.
Stop(n) ==
  /\ up[n] /\ thread[n] # "none" /\ ~joining[n] /\ ~stopped[n]
  /\ stopped' = [stopped EXCEPT ![n] = TRUE]
  /\ joining' = [joining EXCEPT ![n] = TRUE]
  /\ thread' = [thread EXCEPT ![n] = IF @ = "wait" THEN "none" ELSE @]
  /\ orderly' = (orderly /\ running[n] = {})
  /\ reported' = reported \ {n}
  /\ UNCHANGED <<up, timer, stamp, key, missed, prompt, taskVars, failVars>>

\* join(timeout): a thread that is not late has ended by then.
Join(n) ==
  /\ joining[n] /\ (thread[n] = "none" \/ ~prompt)
  /\ joining' = [joining EXCEPT ![n] = FALSE]
  /\ UNCHANGED <<up, thread, stopped, timer, stamp, key, missed, reported, prompt,
                 taskVars, failVars, orderly>>

\* The head of _run_loop, and the timestamp of _send_heartbeat.
Stamp(n) ==
  /\ thread[n] = "send"
  /\ thread' = [thread EXCEPT ![n] = IF stopped[n] THEN "none" ELSE "set"]
  /\ stamp' = [stamp EXCEPT ![n] = 0]
  /\ UNCHANGED <<up, stopped, joining, timer, key, missed, reported, prompt,
                 taskVars, failVars, orderly>>

\* The wait(interval) after a send, which a set event ends at once.
Wait(n) ==
  /\ stamp' = [stamp EXCEPT ![n] = 0]
  /\ thread' = [thread EXCEPT ![n] = IF stopped[n] THEN "none" ELSE "wait"]
  /\ timer' = [timer EXCEPT ![n] = 0]

PayloadWithoutPX(n) == [age |-> stamp[n], ttl |-> 0]

\* What the key holds after SET key payload px=45000.
Payload(n) == [age |-> stamp[n], ttl |-> KeyTTL]

Set(n) ==
  /\ thread[n] = "set" /\ Wait(n)
  /\ key' = [key EXCEPT ![n] = Payload(n)]
  /\ missed' = [missed EXCEPT ![n] = 0]
  /\ reported' = reported \cup {n}
  /\ orderly' = (orderly /\ (n \in reported \/ \A f \in Nodes : target[f] # n))
  /\ UNCHANGED <<up, stopped, joining, prompt, taskVars, failVars>>

\* The metrics or Redis raise: logged, and the loop goes on.
SetLost(n) ==
  /\ thread[n] = "set" /\ missed[n] < MaxMissed /\ Wait(n)
  /\ missed' = [missed EXCEPT ![n] = @ + 1]
  /\ orderly' = (orderly /\ Oldest(missed'[n]) <= DeadAfter)
  /\ UNCHANGED <<up, stopped, joining, key, reported, prompt, taskVars, failVars>>

Wake(n) ==
  /\ thread[n] = "wait" /\ timer[n] >= Interval
  /\ thread' = [thread EXCEPT ![n] = "send"]
  /\ timer' = [timer EXCEPT ![n] = 0]
  /\ UNCHANGED <<up, stopped, joining, stamp, key, missed, reported, prompt,
                 taskVars, failVars, orderly>>

-------------------------------------------------------------------------------
(* Time *)

\* Bound: an age or a timer beyond its limit stops growing.
Grown(k, limit) == IF k <= limit THEN k + 1 ELSE k

\* The thread has to act before time passes.
Late(n) == \/ thread[n] = "wait" /\ timer[n] >= Interval
           \/ thread[n] \in {"send", "set"} /\ timer[n] >= Slack

Tick ==
  /\ timer' = [n \in Senders |-> IF thread[n] = "none" THEN 0
                                ELSE Grown(timer[n], Interval + Slack)]
  /\ stamp' = [n \in Senders |-> IF thread[n] = "set" THEN Grown(stamp[n], DeadAfter) ELSE 0]
  /\ key' = [n \in Senders |->
               IF key[n] = None \/ key[n].ttl = 1 THEN None
               ELSE [age |-> Grown(key[n].age, DeadAfter), ttl |-> key[n].ttl - 1]]
  /\ prompt' = (prompt /\ \A n \in Senders : ~Late(n))
  /\ UNCHANGED <<up, thread, stopped, joining, missed, reported, taskVars, failVars, orderly>>

-------------------------------------------------------------------------------
(* GET /cluster/status *)

StatusBySuspicion(n) ==
  IF n \notin Senders THEN "ACTIVE"
  ELSE IF key[n] = None THEN "GONE"
  ELSE IF key[n].age > SuspectAfter THEN "DEAD" ELSE "ACTIVE"

\* A node whose key has expired is not listed at all.
Status(n) ==
  IF n \notin Senders THEN "ACTIVE"
  ELSE IF key[n] = None THEN "GONE"
  ELSE IF key[n].age > DeadAfter THEN "DEAD"
  ELSE IF key[n].age > SuspectAfter THEN "SUSPECT" ELSE "ACTIVE"

-------------------------------------------------------------------------------
(* perform_failover *)

\* Someone on node f has seen d DEAD.
CallFailover(f, d) ==
  /\ up[f] /\ f # d /\ target[f] = None /\ Status(d) = "DEAD"
  /\ target' = [target EXCEPT ![f] = d]
  /\ orderly' = (orderly /\ \A g \in Nodes : target[g] # d)
  /\ UNCHANGED <<up, beatVars, taskVars, snapshot, errors>>

Return(f) ==
  /\ target' = [target EXCEPT ![f] = None]
  /\ snapshot' = [snapshot EXCEPT ![f] = None]

OwnedByAnyone(n) == {t \in Tasks : registry[t] # None}

OwnedBy(n) == {t \in Tasks : registry[t] = n}

\* HGETALL of the registry; without a task of the node there is nothing to do.
Scan(f) ==
  LET tasks == OwnedBy(target[f]) IN
  /\ target[f] # None /\ snapshot[f] = None
  /\ IF tasks = {} THEN Return(f)
                   ELSE snapshot' = [snapshot EXCEPT ![f] = tasks] /\ UNCHANGED target
  /\ UNCHANGED <<up, beatVars, taskVars, errors, orderly>>

\* The pipeline of one task, a MULTI: DEL lock, HDEL registry, PUBLISH REBALANCE.
\* Whatever the registry says by now.
Release(f, t) ==
  /\ taskLock' = [taskLock EXCEPT ![t] = None]
  /\ registry' = [registry EXCEPT ![t] = None]
  /\ offered' = offered \cup {t}
  /\ UNCHANGED running

\* After the last task the alert is emitted (AlertAggregator) and the count returned.
Reclaim(f) ==
  /\ target[f] # None /\ snapshot[f] # None
  /\ \E t \in snapshot[f] :
       /\ Release(f, t)
       /\ IF snapshot[f] = {t} THEN Return(f)
          ELSE snapshot' = [snapshot EXCEPT ![f] = @ \ {t}] /\ UNCHANGED target
  /\ UNCHANGED <<up, beatVars, errors, orderly>>

\* Redis raises, before or after the command took effect: 0 is returned.
FailoverFails(f) ==
  /\ target[f] # None /\ errors < MaxErrors
  /\ errors' = errors + 1
  /\ Return(f)
  /\ \/ UNCHANGED taskVars
     \/ snapshot[f] # None /\ \E t \in snapshot[f] : Release(f, t)
  /\ UNCHANGED <<up, beatVars, orderly>>

-------------------------------------------------------------------------------
(* External: workers, crashes and restarts *)

\* The sender of n is started and has reported.
Beating(n) ==
  n \in reported /\ (n \in Senders => thread[n] # "none" /\ ~stopped[n])

\* A node known by its heartbeat takes an offered task: SET lock NX, then HSET.
Take(n, t) ==
  /\ Beating(n) /\ t \in offered
  /\ offered' = offered \ {t}
  /\ taskLock[t] = None
  /\ taskLock' = [taskLock EXCEPT ![t] = n]
  /\ registry' = [registry EXCEPT ![t] = n]
  /\ running' = [running EXCEPT ![n] = @ \cup {t}]
  /\ UNCHANGED <<up, beatVars, failVars, orderly>>

Crash(n) ==
  /\ n \in Senders /\ up[n]
  /\ up' = [up EXCEPT ![n] = FALSE]
  /\ thread' = [thread EXCEPT ![n] = "none"]
  /\ stopped' = [stopped EXCEPT ![n] = FALSE]
  /\ joining' = [joining EXCEPT ![n] = FALSE]
  /\ reported' = reported \ {n}
  /\ stamp' = [stamp EXCEPT ![n] = 0]
  /\ running' = [running EXCEPT ![n] = {}]
  /\ Return(n)
  /\ UNCHANGED <<timer, key, missed, prompt, registry, taskLock, offered, errors, orderly>>

Restart(n) ==
  /\ ~up[n]
  /\ up' = [up EXCEPT ![n] = TRUE]
  /\ UNCHANGED <<beatVars, taskVars, failVars, orderly>>

BeatStep(n) ==
  \/ Start(n) \/ Stop(n) \/ Join(n) \/ Stamp(n) \/ Set(n) \/ SetLost(n) \/ Wake(n)

FailoverStep(f) ==
  \/ \E d \in Nodes : CallFailover(f, d)
  \/ Scan(f) \/ Reclaim(f) \/ FailoverFails(f)

Next ==
  \/ \E n \in Senders : BeatStep(n)
  \/ Tick
  \/ \E f \in Nodes : FailoverStep(f)
  \/ \E n \in Nodes, t \in Tasks : Take(n, t)
  \/ \E n \in Nodes : Crash(n) \/ Restart(n)

Spec == Init /\ [][Next]_vars

-------------------------------------------------------------------------------
(* Properties. *)

TypeOK ==
  /\ up \in [Nodes -> BOOLEAN]
  /\ thread \in [Senders -> {"none", "send", "set", "wait"}]
  /\ stopped \in [Senders -> BOOLEAN] /\ joining \in [Senders -> BOOLEAN]
  /\ timer \in [Senders -> 0..(Interval + Slack + 1)]
  /\ stamp \in [Senders -> 0..(DeadAfter + 1)]
  /\ key \in [Senders -> [age : 0..(DeadAfter + 1), ttl : 1..KeyTTL] \cup {None}]
  /\ registry \in [Tasks -> Nodes \cup {None}]
  /\ taskLock \in [Tasks -> Nodes \cup {None}]
  /\ offered \subseteq Tasks
  /\ running \in [Nodes -> SUBSET Tasks]
  /\ target \in [Nodes -> Nodes \cup {None}]
  /\ \A n \in Nodes : snapshot[n] # None => snapshot[n] \subseteq Tasks /\ snapshot[n] # {}
  /\ errors \in 0..MaxErrors /\ missed \in [Senders -> 0..MaxMissed]
  /\ reported \subseteq Nodes
  /\ prompt \in BOOLEAN /\ orderly \in BOOLEAN

\* A node whose sender is on time is never declared DEAD before enough heartbeats
\* in a row were lost, whatever stop, start, crash and restart went before; with
\* the real numbers one lost heartbeat is survived (heartbeat.py:86).
NoFalseDeath ==
  \A n \in Senders : prompt /\ Beating(n) /\ Status(n) = "DEAD" => Oldest(missed[n]) > DeadAfter

\* When senders are on time and one node at a time fails another over, no task is
\* ever executed by two nodes: what is taken from the registry belonged to a node
\* that has died (docs/Phase7_Redis_Schema_Sequence_Spec.md:12).
OneRunner == \A m, n \in Nodes : m # n => running[m] \cap running[n] = {}

OrderlyOneRunner == prompt /\ orderly => OneRunner
===============================================================================
