--------------------------- MODULE ConfigShieldFile ---------------------------
(***************************************************************************)
(* ConfigShield without Redis (config_shield.py): the lock is a file in a  *)
(* directory the nodes share.  It is created empty with O_CREAT|O_EXCL and *)
(* written afterwards; a record whose heartbeat_at is older than the TTL   *)
(* is stale and may be renamed away; a heartbeat replaces the file.        *)
(*                                                                         *)
(* Every file operation is one step.  A write goes to the file that was    *)
(* opened: if that file has left the lock path meanwhile, the write is     *)
(* lost.  The .stale and .tmp files carry no state and are left out.       *)
(***************************************************************************)
EXTENDS ConfigShield, Integers

CONSTANTS TTL,
          MaxClock,         \* bound: last value of _utc_ms()
          MaxFaults         \* bound: crashes and failed writes

ASSUME FileAssumption ==
  /\ TTL \in Nat /\ MaxClock \in Nat /\ MaxFaults \in Nat
  /\ None \notin [maker : Clients \cup {None}, node : Nodes \cup {None},
                  hb : 0..MaxClock]

VARIABLES clock,
          file,             \* the lock path: [maker, node, hb] or None; node is
                            \* None as long as the file is empty
          now,              \* Clients -> the clock when the attempt began
          faults,
          calm              \* history: so far no write failed, no time passed
                            \* between the file operations of a call, no
                            \* heartbeat was late, no two reclaims overlapped

storeVars == <<clock, file, now, faults, calm>>
vars == <<nodeVars, storeVars>>

Empty(t) == [maker |-> t, node |-> None, hb |-> 0]
Written(t, n, at) == [maker |-> t, node |-> n, hb |-> at]

\* _is_stale: now - record.heartbeat_at > record.ttl_ms.
IsStale(f, at) == at - f.hb > TTL

Init ==
  /\ NodeInit
  /\ clock = 0 /\ file = None /\ faults = 0 /\ calm = TRUE
  /\ now = [t \in Clients |-> 0]

Fault == faults < MaxFaults /\ faults' = faults + 1

WriteError == Fault /\ calm' = FALSE

-------------------------------------------------------------------------------
(* _acquire_once *)

OpenTruncating(t) ==
  /\ pc[t] = "try"
  /\ now' = [now EXCEPT ![t] = clock]
  /\ file' = Empty(t) /\ Continue(t, "write")
  /\ UNCHANGED <<clock, faults, calm>>

OpenStampingExpiry(t) ==
  /\ pc[t] = "try"
  /\ now' = [now EXCEPT ![t] = clock + TTL]
  /\ IF file = None THEN file' = Empty(t) /\ Continue(t, "write")
                    ELSE Continue(t, "read") /\ UNCHANGED file
  /\ UNCHANGED <<clock, faults, calm>>

\* os.open(O_CREAT | O_EXCL), after the clock was read.
Open(t) ==
  /\ pc[t] = "try"
  /\ now' = [now EXCEPT ![t] = clock]
  /\ IF file = None THEN file' = Empty(t) /\ Continue(t, "write")
                    ELSE Continue(t, "read") /\ UNCHANGED file
  /\ UNCHANGED <<clock, faults, calm>>

Reclaiming == \E u \in Clients : pc[u] \in {"rename", "reopen", "rewrite", "verify"}

\* An empty file does not parse: JSONDecodeError is not one of the exceptions
\* acquire handles.  A fresh record is contention.  A file that is gone is gone
\* before exists(), or between exists() and read_text(), which raises.
ReadHolder(t) ==
  /\ pc[t] = "read"
  /\ \/ file = None /\ (Continue(t, "try") \/ Exit(t, "idle"))
     \/ file # None /\ file.node = None /\ Exit(t, "idle")
     \/ /\ file # None /\ file.node # None
        /\ IF IsStale(file, now[t]) THEN Continue(t, "rename") ELSE Exit(t, "backoff")
  /\ calm' = (calm /\ ~(pc'[t] = "rename" /\ Reclaiming))
  /\ UNCHANGED <<clock, file, now, faults>>

\* os.rename moves whatever file is at the path by now.
RenameStale(t) ==
  /\ pc[t] = "rename"
  /\ Continue(t, IF file = None THEN "try" ELSE "reopen")
  /\ file' = None
  /\ UNCHANGED <<clock, now, faults, calm>>

\* The second O_EXCL.  "lost lock race on stale reclaim", unless the winner's
\* file cannot be read: still empty, or deleted while it is being read.
Reopen(t) ==
  /\ pc[t] = "reopen"
  /\ \/ file = None /\ file' = Empty(t) /\ Continue(t, "rewrite")
     \/ file # None /\ UNCHANGED file /\ (Exit(t, "backoff") \/ Exit(t, "idle"))
  /\ UNCHANGED <<clock, now, faults, calm>>

WriteRecordOnceOnly(t) ==
  /\ pc[t] \in {"write", "rewrite"}
  /\ file' = IF pc[t] = "write" /\ file = Empty(t)
             THEN Written(t, NodeOf[t], now[t]) ELSE file
  /\ Continue(t, IF pc[t] = "write" THEN "start" ELSE "verify")
  /\ UNCHANGED <<clock, now, faults, calm>>

\* The first branch returns its record as it is, the reclaim verifies it.
WriteRecord(t) ==
  /\ pc[t] \in {"write", "rewrite"}
  /\ file' = IF file = Empty(t) THEN Written(t, NodeOf[t], now[t]) ELSE file
  /\ Continue(t, IF pc[t] = "write" THEN "start" ELSE "verify")
  /\ UNCHANGED <<clock, now, faults, calm>>

\* The write raises (disk full).  The reclaim unlinks what is at the lock path;
\* the first branch leaves the empty file behind.
WriteFails(t) ==
  /\ pc[t] \in {"write", "rewrite"} /\ WriteError
  /\ file' = IF pc[t] = "rewrite" THEN None ELSE file
  /\ Exit(t, "idle")
  /\ UNCHANGED <<clock, now>>

Verify(t) ==
  /\ pc[t] = "verify"
  /\ \/ file = None /\ (Exit(t, "backoff") \/ Exit(t, "idle"))
     \/ file # None /\ file.node = None /\ Exit(t, "idle")
     \/ /\ file # None /\ file.node # None
        /\ IF file.node = NodeOf[t] THEN Continue(t, "start") ELSE Exit(t, "backoff")
  /\ UNCHANGED storeVars

-------------------------------------------------------------------------------
(* release *)

ReleaseRead(t) ==
  /\ pc[t] = "rread"
  /\ IF /\ file # None /\ file.node # None
        /\ file.node = NodeOf[t] \/ IsStale(file, clock)
     THEN Continue(t, "unlink") ELSE Exit(t, "idle")
  /\ UNCHANGED storeVars

ReleaseUnlink(t) ==
  /\ pc[t] = "unlink"
  /\ file' = None /\ Exit(t, "idle")
  /\ UNCHANGED <<clock, now, faults, calm>>

-------------------------------------------------------------------------------
(* heartbeat *)

\* A stale record of another node is refreshed too.  An unreadable file or a
\* fresh record of another node ends the thread.
HeartbeatRead(h) ==
  /\ pc[h] = "hread"
  /\ IF /\ file # None /\ file.node # None
        /\ file.node = NodeOf[h] \/ IsStale(file, clock)
     THEN Continue(h, "hwrite") ELSE BeatDies(h)
  /\ UNCHANGED storeVars

\* _write_record: os.replace, whatever is at the path by now.
HeartbeatWrite(h) ==
  /\ pc[h] = "hwrite"
  /\ file' = Written(None, NodeOf[h], clock)
  /\ BeatAgain(h)
  /\ UNCHANGED <<clock, now, faults, calm>>

\* An OSError of _write_record is not caught in the loop: the thread dies.
HeartbeatFails(h) ==
  /\ pc[h] = "hwrite" /\ WriteError /\ BeatDies(h)
  /\ UNCHANGED <<clock, file, now>>

-------------------------------------------------------------------------------
(* Time and crashes *)

InCall == {"try", "read", "rename", "reopen", "write", "rewrite", "verify",
           "start", "stop", "rread", "unlink", "hread", "hwrite"}

Busy == InCall \cup {"due"}

\* Every call finishes before time passes, and a live heartbeat of the owner
\* comes before its record gets stale.
Prompt ==
  /\ \A a \in Threads : pc[a] \notin Busy
  /\ file # None /\ IsStale(file, clock + 1) =>
       \A h \in Beats : ~(NodeOf[h] = file.node /\ Live(h))

Tick ==
  /\ clock < MaxClock
  /\ clock' = clock + 1
  /\ calm' = (calm /\ Prompt)
  /\ UNCHANGED <<nodeVars, file, now, faults>>

Crash(n) ==
  /\ NodeCrash(n) /\ Fault
  /\ UNCHANGED <<clock, file, now, calm>>

ClientStep(t) ==
  \/ Open(t) \/ ReadHolder(t) \/ RenameStale(t) \/ Reopen(t) \/ WriteRecord(t)
  \/ Verify(t) \/ ReleaseRead(t) \/ ReleaseUnlink(t)

Enter(a) == EnterLock(a) /\ UNCHANGED storeVars

\* The steps of ConfigShield that touch neither the file nor the clock.
NodeStep ==
  /\ \/ \E t \in Clients : \/ Begin(t) \/ Backoff(t) \/ StartHeartbeat(t)
                           \/ Leave(t) \/ StopHeartbeat(t)
     \/ \E h \in Beats : Due(h)
  /\ UNCHANGED storeVars

Next ==
  \/ NodeStep
  \/ \E a \in Threads : Enter(a)
  \/ \E t \in Clients : ClientStep(t) \/ WriteFails(t)
  \/ \E h \in Beats : HeartbeatRead(h) \/ HeartbeatWrite(h) \/ HeartbeatFails(h)
  \/ \E n \in Nodes : Crash(n)
  \/ Tick

Spec == Init /\ [][Next]_vars

-------------------------------------------------------------------------------
(* Properties. *)

TypeOK ==
  /\ NodeTypeOK
  /\ pc \in [Threads -> Outside \cup InCall]
  /\ \A n \in Nodes : stateLock[n] # None =>
       NodeOf[stateLock[n]] = n /\ pc[stateLock[n]] \in InCall
  /\ clock \in 0..MaxClock
  /\ file \in [maker : Clients \cup {None}, node : Nodes \cup {None},
               hb : 0..MaxClock] \cup {None}
  /\ now \in [Clients -> 0..MaxClock]
  /\ faults \in 0..MaxFaults
  /\ calm \in BOOLEAN

\* As long as no write fails, no call is suspended in the middle and one node at
\* a time reclaims what a crashed node left, two callers never work under the
\* same resource lock, on any nodes; and who works under it finds its own node's
\* record at the lock path, although others try to reclaim it at any moment.
CalmLock ==
  calm => /\ MutualExclusion
          /\ \A t \in Clients : Working(t) => file # None /\ file.node = NodeOf[t]

\* An empty lock file is about to be written by the thread that created it.
\* One that nobody will write blocks the resource for ever: it never becomes
\* stale (docs/Distributed_Consistency_Reinforcement.md:72 promises that a
\* crashed node's lock can be reclaimed).
EmptyOnlyWhileWritten ==
  file # None /\ file.node = None => pc[file.maker] \in {"write", "rewrite"}

\* Without crashes and failed writes it is, however slow the threads are.
FaultlessEmptyWritten == faults = 0 => EmptyOnlyWhileWritten
===============================================================================
