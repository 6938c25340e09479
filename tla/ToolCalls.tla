----------------------------- MODULE ToolCalls -----------------------------
(***************************************************************************)
(* Tool calls of agents and cron jobs: the policy levels and the audit     *)
(* entry of tool_registry.py, the bounded pool of sandbox.py and the       *)
(* command itself under the runner of the deployment: DirectRunner, which  *)
(* kills it at its timeout, NsJailRunner or BubblewrapRunner.              *)
(*                                                                         *)
(* What happens between two awaits is one step.  The ledger is the one of  *)
(* LedgerService: a call of it may raise without effect, or after it.  The *)
(* pool's semaphore is the one CronEngine models in detail; here a waiting *)
(* call takes any slot that is free, and a new one waits behind the others.*)
(* A command is its shell (the process that is waited for) and at most one *)
(* background process of the shell's group, which either holds the output  *)
(* pipes ("attached") or has redirected them ("detached").  Under nsjail   *)
(* and bubblewrap both live in one pid namespace, which ends with the      *)
(* shell; a runner whose program is not installed fails to start.          *)
(***************************************************************************)
EXTENDS Naturals, FiniteSets

CONSTANTS Calls,
          Runners,          \* that create_sandbox_provider may choose
          MaxConcurrency,   \* SANDBOX_MAX_CONCURRENCY
          MaxFaults         \* bound: ledger errors, failed starts and reads

ASSUME ToolAssumption ==
  /\ IsFiniteSet(Calls)
  /\ Runners \subseteq {"direct", "nsjail", "bwrap"}
  /\ MaxConcurrency \in Nat \ {0} /\ MaxFaults \in Nat

VARIABLES runner,           \* never changes
          at,               \* Calls -> where dispatch is
          entry,            \* Calls -> the ledger's entry of the call
          shell,            \* Calls -> "none", "alive" or "dead"
          background,       \* Calls -> "none", "attached", "detached", "ended"
          faults
processes == <<shell, background>>
vars == <<runner, at, entry, processes, faults>>

Holding == {"starting", "running", "terminating", "aborting", "draining"}
InProgress == Holding \cup {"waiting"}
Ended == {"returned", "raised", "cut", "abandoned"}

Slots == {c \in Calls : at[c] \in Holding}

Faults(n) == faults + n <= MaxFaults /\ faults' = faults + n

Goes(c, to) == at' = [at EXCEPT ![c] = to]
Entry(c, status) == entry' = [entry EXCEPT ![c] = status]

Init ==
  /\ runner \in Runners
  /\ at = [c \in Calls |-> "new"] /\ entry = [c \in Calls |-> "none"]
  /\ shell = [c \in Calls |-> "none"] /\ background = [c \in Calls |-> "none"]
  /\ faults = 0

-------------------------------------------------------------------------------
(* dispatch *)

\* The tool is not registered, or its group is disabled: an exception.
Refuse(c) ==
  /\ at[c] = "new" /\ Goes(c, "raised")
  /\ UNCHANGED <<entry, processes, faults>>

\* L1 and L3: the command is recorded, not run.  Nothing moves the entry on.
Block(c) ==
  /\ at[c] = "new"
  /\ \/ Goes(c, "returned") /\ Entry(c, "pending") /\ UNCHANGED faults
     \/ Goes(c, "raised") /\ Faults(1)
        /\ \E s \in {"none", "pending"} : Entry(c, s)
  /\ UNCHANGED processes

\* Semaphore.locked()
Locked ==
  \/ Cardinality(Slots) >= MaxConcurrency
  \/ \E c \in Calls : at[c] = "waiting"

ExecuteBarging(c) ==
  /\ at[c] = "new" /\ Goes(c, "starting") /\ Entry(c, "running")
  /\ UNCHANGED <<processes, faults>>

ExecuteUnrecorded(c) ==
  /\ at[c] = "new" /\ Goes(c, IF Locked THEN "waiting" ELSE "starting")
  /\ Entry(c, "pending") /\ UNCHANGED <<processes, faults>>

\* _dispatch_sandbox up to its first await: the entry is created and running,
\* outside the try, so that an exception leaves it as it is.
Execute(c) ==
  /\ at[c] = "new"
  /\ \/ /\ Goes(c, IF Locked THEN "waiting" ELSE "starting")
        /\ Entry(c, "running") /\ UNCHANGED faults
     \/ /\ Goes(c, "raised") /\ Faults(1)
        /\ \E s \in {"none", "pending", "running"} : Entry(c, s)
  /\ UNCHANGED processes

Acquire(c) ==
  /\ at[c] = "waiting" /\ Cardinality(Slots) < MaxConcurrency
  /\ Goes(c, "starting")
  /\ UNCHANGED <<entry, processes, faults>>

\* The sandbox raised: mark_failed, which may raise itself.
Failed(c, n) ==
  \/ Goes(c, "returned") /\ Entry(c, "failed") /\ Faults(n)
  \/ Goes(c, "raised") /\ (\E s \in {"running", "failed"} : Entry(c, s)) /\ Faults(n + 1)

\* The sandbox returned: mark_completed.  If that raises after it took effect,
\* mark_failed finds the entry completed and raises.
Settle(c) ==
  \/ Goes(c, "returned") /\ Entry(c, "completed") /\ Faults(0)
  \/ Goes(c, "raised") /\ Entry(c, "completed") /\ Faults(1)
  \/ Failed(c, 1)

-------------------------------------------------------------------------------
(* execute of the runners *)

Start(c) ==
  /\ at[c] = "starting"
  /\ \/ /\ Goes(c, "running") /\ shell' = [shell EXCEPT ![c] = "alive"]
        /\ UNCHANGED <<entry, faults>>
     \/ Failed(c, 1) /\ UNCHANGED shell
  /\ UNCHANGED background

\* communicate() returns when the pipes are closed and the shell has ended.
OutputEnded(c) == shell[c] = "dead" /\ background[c] # "attached"

Finish(c) ==
  /\ at[c] = "running" /\ OutputEnded(c)
  /\ Settle(c) /\ UNCHANGED processes

\* DirectRunner's timeout.  A shell that has ended is not killed, nor is its group;
\* else SIGTERM goes to the group, whose processes may end or not.
Timeout(c) ==
  /\ at[c] = "running" /\ runner = "direct"
  /\ Goes(c, IF shell[c] = "dead" THEN "draining" ELSE "terminating")
  /\ UNCHANGED <<entry, processes, faults>>

\* SIGKILL to the group, or the end of a pid namespace: nothing is left.
KillGroup(c) ==
  /\ shell' = [shell EXCEPT ![c] = "dead"]
  /\ background' = [background EXCEPT ![c] = IF @ = "none" THEN @ ELSE "ended"]

\* BubblewrapRunner's timeout: process.kill(), and the namespace goes with it.
KillNamespace(c) ==
  /\ at[c] = "running" /\ runner = "bwrap"
  /\ Goes(c, "draining") /\ KillGroup(c)
  /\ UNCHANGED <<entry, faults>>

\* NsJailRunner has no timeout of its own; nsjail ends the command at --time_limit.
TimeLimit(c) ==
  /\ runner = "nsjail" /\ shell[c] = "alive" /\ KillGroup(c)
  /\ UNCHANGED <<at, entry, faults>>

\* communicate() raises something else.
ReadFails(c) ==
  /\ at[c] = "running" /\ runner = "direct" /\ Faults(1) /\ Goes(c, "aborting")
  /\ UNCHANGED <<entry, processes>>

\* The other runners do not catch that: the call fails, the command goes on.
Abandon(c) ==
  /\ at[c] = "running" /\ runner # "direct"
  /\ Goes(c, "abandoned")
  /\ \/ Entry(c, "failed") /\ Faults(1)
     \/ (\E s \in {"running", "failed"} : Entry(c, s)) /\ Faults(2)
  /\ UNCHANGED processes

TerminateOnly(c) ==
  /\ at[c] \in {"terminating", "aborting"} /\ shell[c] = "dead"
  /\ UNCHANGED processes
  /\ IF at[c] = "terminating" THEN Goes(c, "draining") /\ UNCHANGED <<entry, faults>>
                              ELSE Settle(c)

AbandonShell(c) ==
  /\ at[c] \in {"terminating", "aborting"}
  /\ UNCHANGED processes
  /\ IF at[c] = "terminating" THEN Goes(c, "draining") /\ UNCHANGED <<entry, faults>>
                              ELSE Settle(c)

\* _kill_process goes on when the shell has ended: after SIGTERM, or, two seconds
\* later, by SIGKILL.  After a timeout the rest of the output is awaited.
Kill(c) ==
  /\ at[c] \in {"terminating", "aborting"}
  /\ \/ shell[c] = "dead" /\ UNCHANGED processes
     \/ shell[c] = "alive" /\ KillGroup(c)
  /\ IF at[c] = "terminating" THEN Goes(c, "draining") /\ UNCHANGED <<entry, faults>>
                              ELSE Settle(c)

\* The second communicate(), which has no timeout.
Drain(c) ==
  /\ at[c] = "draining" /\ OutputEnded(c)
  /\ Settle(c) /\ UNCHANGED processes

-------------------------------------------------------------------------------
(* The command, and the end of the server *)

Fork(c) ==
  /\ shell[c] = "alive" /\ background[c] = "none"
  /\ \E b \in {"attached", "detached"} : background' = [background EXCEPT ![c] = b]
  /\ UNCHANGED <<at, entry, shell, faults>>

ShellEnds(c) ==
  /\ shell[c] = "alive"
  /\ IF runner = "direct"
     THEN shell' = [shell EXCEPT ![c] = "dead"] /\ UNCHANGED background
     ELSE KillGroup(c)
  /\ UNCHANGED <<at, entry, faults>>

BackgroundEnds(c) ==
  /\ background[c] \in {"attached", "detached"}
  /\ background' = [background EXCEPT ![c] = "ended"]
  /\ UNCHANGED <<at, entry, shell, faults>>

\* The server stops or dies.  Cancelled or killed, calls leave their entries as they
\* are, and their processes too, but for those under bwrap --die-with-parent.
ServerEnds ==
  /\ \E c \in Calls : at[c] \in InProgress
  /\ at' = [c \in Calls |-> IF at[c] \in InProgress THEN "cut" ELSE at[c]]
  /\ IF runner = "bwrap"
     THEN /\ shell' = [c \in Calls |-> IF shell[c] = "none" THEN "none" ELSE "dead"]
          /\ background' = [c \in Calls |-> IF background[c] = "none" THEN "none" ELSE "ended"]
     ELSE UNCHANGED processes
  /\ UNCHANGED <<entry, faults>>

\* What the event loop does for a call.
Server(c) ==
  \/ Acquire(c) \/ Start(c) \/ Finish(c)
  \/ Timeout(c) \/ KillNamespace(c) \/ Kill(c) \/ Drain(c)

Command(c) == Fork(c) \/ ShellEnds(c) \/ BackgroundEnds(c) \/ TimeLimit(c)

Next ==
  /\ UNCHANGED runner
  /\ \/ \E c \in Calls :
          \/ Refuse(c) \/ Block(c) \/ Execute(c) \/ Server(c)
          \/ ReadFails(c) \/ Abandon(c) \/ Command(c)
     \/ ServerEnds

Spec == Init /\ [][Next]_vars

\* The event loop goes on and timers fire, nsjail's among them.  Nothing makes a
\* command end by itself, its shell or what it leaves in the background.
ToolFairness ==
  \A c \in Calls : /\ WF_vars(UNCHANGED runner /\ Server(c))
                   /\ WF_vars(UNCHANGED runner /\ TimeLimit(c))

FairSpec == Spec /\ ToolFairness

-------------------------------------------------------------------------------
(* Properties. *)

TypeOK ==
  /\ runner \in Runners
  /\ at \in [Calls -> {"new"} \cup InProgress \cup Ended]
  /\ entry \in [Calls -> {"none", "pending", "running", "completed", "failed"}]
  /\ shell \in [Calls -> {"none", "alive", "dead"}]
  /\ background \in [Calls -> {"none", "attached", "detached", "ended"}]
  /\ faults \in 0..MaxFaults
  /\ \A c \in Calls : at[c] \in InProgress => entry[c] = "running"

\* Whatever fails, a command that is being executed is "running" in the ledger:
\* it was recorded before it started and is not closed before it has ended, by
\* itself, by a signal, or after the server's death.  Only a command whose output
\* NsJailRunner or BubblewrapRunner could not read (sandbox.py:264, 339) runs on
\* with its entry failed.
ExecutedIsRecorded ==
  \A c \in Calls : shell[c] = "alive" /\ at[c] # "abandoned" => entry[c] = "running"

\* The pool limits the commands that one server executes at a time, but for those
\* it has abandoned.
PoolBound ==
  Cardinality({c \in Calls : shell[c] = "alive" /\ at[c] \notin {"cut", "abandoned"}})
    <= MaxConcurrency

\* Its output is awaited without a timeout (sandbox.py:121), after a shell that had
\* ended, or that SIGTERM ended, and a background process keeps the pipes open.
Held(c) == at[c] = "draining" /\ background[c] = "attached"

\* Every call ends, also when its shell ignores SIGTERM or runs on for ever, and
\* those that wait get their turn: unless the call is held by a background process,
\* or waits while every slot is.
EveryCallEnds ==
  \A c \in Calls : at[c] \in InProgress ~>
    \/ at[c] \in Ended \/ Held(c)
    \/ at[c] = "waiting" /\ Cardinality({d \in Calls : Held(d)}) = MaxConcurrency
===============================================================================
