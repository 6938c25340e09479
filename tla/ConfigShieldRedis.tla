-------------------------- MODULE ConfigShieldRedis --------------------------
(***************************************************************************)
(* ConfigShield with a Redis client (config_shield.py): a lease taken with *)
(* SET NX PX, kept alive by a heartbeat thread with GET and SET XX PX,     *)
(* given back with GET and DEL.                                            *)
(*                                                                         *)
(* Every Redis command is one step.  `_state_lock` is held from the first  *)
(* command of acquire, heartbeat or release to the last, so the commands   *)
(* of one node never interleave; those of two nodes do.  A record in Redis *)
(* names the node, and its acquired_at identifies the acquisition: here    *)
(* both are the acquiring thread, `by`.                                    *)
(***************************************************************************)
EXTENDS ConfigShield

CONSTANTS TTL,              \* ticks a lease lasts without a heartbeat
          MaxErrors         \* bound: Redis errors

ASSUME LeaseAssumption ==
  /\ TTL \in Nat \ {0} /\ MaxErrors \in Nat
  /\ None \notin [by : Clients, ttl : 1..TTL]

VARIABLES key,              \* the Redis key: [by, ttl] or None
          seen,             \* Beats -> `by` of the record its GET returned
          errors,
          calm              \* history: no Redis error so far, and no thread so
                            \* slow that a lease lost time or ran out for it

storeVars == <<key, seen, errors, calm>>
vars == <<nodeVars, storeVars>>

NoExpiry == 0

LeaseWithoutPX(t) == [by |-> t, ttl |-> NoExpiry]

Lease(t) == [by |-> t, ttl |-> TTL]

Owner == NodeOf[key.by]

Init ==
  /\ NodeInit
  /\ key = None
  /\ seen = [h \in Beats |-> None]
  /\ errors = 0 /\ calm = TRUE

RedisError == errors < MaxErrors /\ errors' = errors + 1 /\ calm' = FALSE

-------------------------------------------------------------------------------
(* _acquire_once_redis *)

SetNx(t) ==
  /\ pc[t] = "try"
  /\ IF key = None
     THEN key' = Lease(t) /\ Continue(t, "start")
     ELSE Continue(t, "get") /\ UNCHANGED key
  /\ UNCHANGED <<seen, errors, calm>>

\* The key was set but the reply is lost: redis-py raises, the caller retries
\* against its own lease.
SetNxReplyLost(t) ==
  /\ pc[t] = "try" /\ key = None /\ RedisError
  /\ key' = Lease(t) /\ Exit(t, "backoff")
  /\ UNCHANGED seen

GetHolderReentrant(t) ==
  /\ pc[t] = "get"
  /\ IF key = None THEN Continue(t, "try")
     ELSE IF Owner = NodeOf[t] THEN Continue(t, "start") ELSE Exit(t, "backoff")
  /\ UNCHANGED storeVars

\* The key vanished between SET and GET: try again at once.  Otherwise
\* LockAcquisitionError, whoever the owner is.
GetHolder(t) ==
  /\ pc[t] = "get"
  /\ IF key = None THEN Continue(t, "try") ELSE Exit(t, "backoff")
  /\ UNCHANGED storeVars

AcquireError(t) ==
  /\ pc[t] \in {"try", "get"} /\ RedisError /\ Exit(t, "backoff")
  /\ UNCHANGED <<key, seen>>

-------------------------------------------------------------------------------
(* release *)

\* Nothing to delete, or "cannot release lock owned by" another node.
ReleaseGet(t) ==
  /\ pc[t] = "rread"
  /\ IF key # None /\ Owner = NodeOf[t] THEN Continue(t, "del") ELSE Exit(t, "idle")
  /\ UNCHANGED storeVars

ReleaseDel(t) ==
  /\ pc[t] = "del"
  /\ key' = None /\ Exit(t, "idle")
  /\ UNCHANGED <<seen, errors, calm>>

ReleaseError(t) ==
  /\ pc[t] \in {"rread", "del"} /\ RedisError /\ Exit(t, "idle")
  /\ UNCHANGED <<key, seen>>

-------------------------------------------------------------------------------
(* heartbeat *)

HeartbeatGet(h) ==
  /\ pc[h] = "hread"
  /\ IF key # None /\ Owner = NodeOf[h]
     THEN seen' = [seen EXCEPT ![h] = key.by] /\ Continue(h, "hset")
     ELSE BeatDies(h) /\ UNCHANGED seen
  /\ UNCHANGED <<key, errors, calm>>

\* SET XX PX replaces whatever record is there by the refreshed one.
HeartbeatSet(h) ==
  /\ pc[h] = "hset"
  /\ key' = IF key = None THEN None ELSE Lease(seen[h])
  /\ seen' = [seen EXCEPT ![h] = None]
  /\ BeatAgain(h)
  /\ UNCHANGED <<errors, calm>>

\* A RedisError is not caught in the loop: the thread dies.
HeartbeatError(h) ==
  /\ pc[h] \in {"hread", "hset"} /\ RedisError /\ BeatDies(h)
  /\ seen' = [seen EXCEPT ![h] = None]
  /\ UNCHANGED key

-------------------------------------------------------------------------------
(* Time and crashes *)

InCommand == {"try", "get", "start", "stop", "rread", "del", "hread", "hset"}

\* Every thread inside a command finishes before time passes, and a live
\* heartbeat of the owner comes before its lease runs out.
Prompt ==
  /\ \A a \in Threads : pc[a] \notin InCommand
  /\ key.ttl = 1 => \A h \in Beats : ~(NodeOf[h] = Owner /\ Live(h))

\* Redis counts the lease down and drops the key when it reaches zero.
Tick ==
  /\ key # None /\ key.ttl # NoExpiry
  /\ key' = IF key.ttl = 1 THEN None ELSE [key EXCEPT !.ttl = @ - 1]
  /\ calm' = (calm /\ Prompt)
  /\ UNCHANGED <<nodeVars, seen, errors>>

Crash(n) ==
  /\ NodeCrash(n)
  /\ seen' = [h \in Beats |-> IF NodeOf[h] = n THEN None ELSE seen[h]]
  /\ UNCHANGED <<key, errors, calm>>

ClientStep(t) ==
  \/ /\ Backoff(t) \/ StartHeartbeat(t) \/ Leave(t) \/ StopHeartbeat(t)
     /\ UNCHANGED storeVars
  \/ SetNx(t) \/ GetHolder(t) \/ ReleaseGet(t) \/ ReleaseDel(t)

BeatStep(h) ==
  \/ Due(h) /\ UNCHANGED storeVars
  \/ HeartbeatGet(h) \/ HeartbeatSet(h)

Enter(a) == EnterLock(a) /\ UNCHANGED storeVars

Next ==
  \/ \E t \in Clients :
       \/ Begin(t) /\ UNCHANGED storeVars
       \/ Enter(t) \/ ClientStep(t)
       \/ SetNxReplyLost(t) \/ AcquireError(t) \/ ReleaseError(t)
  \/ \E h \in Beats : Enter(h) \/ BeatStep(h) \/ HeartbeatError(h)
  \/ \E n \in Nodes : Crash(n)
  \/ Tick

Spec == Init /\ [][Next]_vars

-------------------------------------------------------------------------------
(* Properties. *)

TypeOK ==
  /\ NodeTypeOK
  /\ pc \in [Threads -> Outside \cup InCommand]
  /\ \A n \in Nodes : stateLock[n] # None =>
       NodeOf[stateLock[n]] = n /\ pc[stateLock[n]] \in InCommand
  /\ key \in [by : Clients, ttl : 1..TTL] \cup {None}
  /\ seen \in [Beats -> Clients \cup {None}]
  /\ errors \in 0..MaxErrors
  /\ calm \in BOOLEAN

\* Who works under the lock has a live lease of its own in Redis: the heartbeat
\* protects long operations (docs/Distributed_Consistency_Reinforcement.md:77).
HolderHasLease ==
  \A t \in Clients : Working(t) => key # None /\ key.by = t

\* As long as Redis answers and nobody is slower than the lease, two callers
\* never work under the same resource lock, on any nodes, crashes included: every
\* way out of acquire that returns a record leaves a heartbeat that will renew
\* this very lease, and only release takes it away.
CalmLock == calm => MutualExclusion /\ HolderHasLease

\* A live record is never replaced by another acquisition's: a heartbeat that
\* comes after another node took the lock over is refused
\* (docs/Audit_Report_Final.md:41).
NeverSeized ==
  [][key # None /\ key' # None => key'.by = key.by]_vars
===============================================================================
