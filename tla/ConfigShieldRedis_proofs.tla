---------------------- MODULE ConfigShieldRedis_proofs ----------------------
(***************************************************************************)
(* As long as Redis answers and nobody is slower than the lease, the lock  *)
(* excludes, and its heartbeats always match its holders, for any nodes,   *)
(* threads, lease and number of crashes.                                   *)
(***************************************************************************)
EXTENDS ConfigShieldRedis, TLAPS

\* Where a thread can be.
ClientLabels == {"idle", "want", "backoff", "held", "leave",
                 "try", "get", "start", "stop", "rread", "del"}
BeatLabels == {"dead", "wait", "due", "hread", "hset"}

\* Between acquire's success and release's end.
Owning(t) == pc[t] \in {"start", "held", "leave", "stop", "rread", "del"}

\* TypeOK has each state lock held by a thread inside a command of that node;
\* conversely, a thread inside a command holds the lock of its node.  A
\* heartbeat between its GET and its SET has read a record of its own node.
Types ==
  /\ TypeOK
  /\ \A t \in Clients : pc[t] \in ClientLabels
  /\ \A h \in Beats : pc[h] \in BeatLabels
  /\ \A a \in Threads : pc[a] \in InCommand => stateLock[NodeOf[a]] = a
  /\ \A h \in Beats : pc[h] = "hset" =>
       seen[h] \in Clients /\ NodeOf[seen[h]] = NodeOf[h]

\* The dictionary names the one heartbeat of its node that was not told to stop,
\* dead or alive; and one that is alive has someone to work for.
Entries ==
  /\ \A n \in Nodes : entry[n] # None => NodeOf[entry[n]] = n /\ entry[n] \notin stopped
  /\ \A h \in Beats : Live(h) =>
       /\ entry[NodeOf[h]] = h
       /\ \E t \in Clients : NodeOf[t] = NodeOf[h] /\ pc[t] \in {"held", "leave", "stop"}

\* In calm times the record in Redis is the owner's, from SET NX to DEL; the
\* owner has a heartbeat that is alive, and what the heartbeat is about to write
\* back is what it read.
Leases ==
  calm =>
    /\ \A t \in Clients : Owning(t) => key # None /\ key.by = t
    /\ \A t \in Clients : pc[t] \in {"held", "leave", "stop"} => entry[NodeOf[t]] # None
    /\ \A n \in Nodes : entry[n] # None => pc[entry[n]] # "dead"
    /\ \A h \in Beats : pc[h] = "hset" => key # None /\ key.by = seen[h]

LockInv == Types /\ Entries /\ Leases

-------------------------------------------------------------------------------
(* Constants and types. *)

LEMMA Constants ==
  /\ Clients \cap Beats = {} /\ Clients \subseteq Threads /\ Beats \subseteq Threads
  /\ \A a \in Threads : NodeOf[a] \in Nodes /\ a # None
  /\ None \notin Nodes
  /\ TTL \in 1..TTL /\ MaxErrors \in Nat
  /\ \A t \in Clients : Lease(t) \in [by : Clients, ttl : 1..TTL] /\ Lease(t) # None
  /\ \A t \in Clients : Lease(t).by = t
BY ThreadAssumption, LeaseAssumption DEF Threads, Lease

\* An error uses up one of the bounded errors and ends the calm.
LEMMA ErrorCounted ==
  TypeOK /\ RedisError => errors' \in 0..MaxErrors /\ calm' \in BOOLEAN /\ ~calm'
<1>1. TypeOK /\ RedisError => errors' \in 0..MaxErrors
  BY Constants DEF TypeOK, RedisError
<1>2. RedisError => calm' \in BOOLEAN /\ ~calm'
  BY Zenon DEF RedisError
<1> QED
  BY <1>1, <1>2

LEMMA TypesInit == Init => Types
BY Constants DEF Init, NodeInit, Types, TypeOK, NodeTypeOK, Outside,
       ClientLabels, BeatLabels, InCommand

LEMMA TypesNext == Types /\ [Next]_vars => Types'
<1> SUFFICES ASSUME Types, [Next]_vars PROVE Types'
  OBVIOUS
<1> USE DEF Types, TypeOK, NodeTypeOK, Outside, ClientLabels, BeatLabels,
       InCommand, storeVars
<1>1. ASSUME NEW t \in Clients, Begin(t) /\ UNCHANGED storeVars PROVE Types'
  BY <1>1, Constants DEF Begin, Continue, Goto
<1>2. ASSUME NEW a \in Threads, Enter(a) PROVE Types'
  BY <1>2, Constants DEF Enter, EnterLock, Goto, Threads
<1>3. ASSUME NEW t \in Clients, Backoff(t) /\ UNCHANGED storeVars PROVE Types'
  BY <1>3, Constants DEF Backoff, Continue, Goto
<1>4. ASSUME NEW t \in Clients, StartHeartbeat(t) /\ UNCHANGED storeVars PROVE Types'
  BY <1>4, Constants DEF StartHeartbeat, Goto, Unlock, Threads
<1>5. ASSUME NEW t \in Clients, Leave(t) /\ UNCHANGED storeVars PROVE Types'
  BY <1>5, Constants DEF Leave, Continue, Goto
<1>6. ASSUME NEW t \in Clients, StopHeartbeat(t) /\ UNCHANGED storeVars PROVE Types'
  BY <1>6, Constants DEF StopHeartbeat, Threads
<1>7. ASSUME NEW t \in Clients, SetNx(t) PROVE Types'
  BY <1>7, Constants DEF SetNx, Continue, Goto
<1>8. ASSUME NEW t \in Clients, GetHolder(t) PROVE Types'
  BY <1>8, Constants DEF GetHolder, Continue, Exit, Unlock, Goto
<1>9. ASSUME NEW t \in Clients, ReleaseGet(t) PROVE Types'
  BY <1>9, Constants DEF ReleaseGet, Continue, Exit, Unlock, Goto
<1>10. ASSUME NEW t \in Clients, ReleaseDel(t) PROVE Types'
  BY <1>10, Constants DEF ReleaseDel, Exit, Unlock, Goto
<1>11. ASSUME NEW t \in Clients, SetNxReplyLost(t) PROVE Types'
  BY <1>11, Constants, ErrorCounted DEF SetNxReplyLost, Exit, Unlock, Goto
<1>12. ASSUME NEW t \in Clients, AcquireError(t) PROVE Types'
  BY <1>12, Constants, ErrorCounted DEF AcquireError, Exit, Unlock, Goto
<1>13. ASSUME NEW t \in Clients, ReleaseError(t) PROVE Types'
  BY <1>13, Constants, ErrorCounted DEF ReleaseError, Exit, Unlock, Goto
<1>14. ASSUME NEW h \in Beats, Due(h) /\ UNCHANGED storeVars PROVE Types'
  BY <1>14, Constants DEF Due, Continue, Goto
<1>15. ASSUME NEW h \in Beats, HeartbeatGet(h) PROVE Types'
  BY <1>15, Constants DEF HeartbeatGet, Owner, Continue, BeatDies, Exit,
         Unlock, Goto
<1>16. ASSUME NEW h \in Beats, HeartbeatSet(h) PROVE Types'
  BY <1>16, Constants DEF HeartbeatSet, BeatAgain, Exit, Unlock, Goto
<1>17. ASSUME NEW h \in Beats, HeartbeatError(h) PROVE Types'
  BY <1>17, Constants, ErrorCounted DEF HeartbeatError, BeatDies, Exit, Unlock,
         Goto
<1>18. ASSUME NEW n \in Nodes, Crash(n) PROVE Types'
  BY <1>18, Constants DEF Crash, NodeCrash, Threads
<1>19. CASE Tick
  BY <1>19, Constants DEF Tick, NoExpiry, nodeVars
<1>20. CASE UNCHANGED vars
  BY <1>20 DEF vars, nodeVars
<1> HIDE DEF Types, TypeOK, NodeTypeOK, Outside, ClientLabels, BeatLabels,
       InCommand, storeVars
<1> QED
  BY Constants, <1>1, <1>2, <1>3, <1>4, <1>5, <1>6, <1>7, <1>8, <1>9, <1>10,
         <1>11, <1>12, <1>13, <1>14, <1>15, <1>16, <1>17, <1>18, <1>19, <1>20,
         Zenon DEF Next, ClientStep, BeatStep

-------------------------------------------------------------------------------
(* The heartbeats and their dictionary. *)

LEMMA EntriesInit == Init => Entries
BY Constants DEF Init, NodeInit, Entries, Live

LEMMA EntriesNext == Types /\ Entries /\ [Next]_vars => Entries'
<1> SUFFICES ASSUME Types, Entries, [Next]_vars PROVE Entries'
  OBVIOUS
<1> USE DEF Types, TypeOK, NodeTypeOK, Outside, ClientLabels, BeatLabels,
       Entries, Live, storeVars
<1>1. ASSUME NEW t \in Clients, Begin(t) /\ UNCHANGED storeVars PROVE Entries'
  BY <1>1, Constants DEF Begin, Continue, Goto
<1>2. ASSUME NEW a \in Threads, Enter(a) PROVE Entries'
  BY <1>2, Constants DEF Enter, EnterLock, Goto, Threads
<1>3. ASSUME NEW t \in Clients, Backoff(t) /\ UNCHANGED storeVars PROVE Entries'
  BY <1>3, Constants DEF Backoff, Continue, Goto
<1>4. ASSUME NEW t \in Clients, StartHeartbeat(t) /\ UNCHANGED storeVars PROVE Entries'
  <2>1. pc[t] = "start" /\ NodeOf[t] \in Nodes
    BY <1>4, Constants DEF StartHeartbeat
  <2>2. CASE Goto(t, "held") /\ UNCHANGED <<entry, stopped>>
    BY <2>1, <2>2, Constants DEF Goto, Threads
  <2>3. ASSUME NEW h \in Beats, entry[NodeOf[t]] = None, NodeOf[h] = NodeOf[t], pc[h] = "dead",
               entry' = [entry EXCEPT ![NodeOf[t]] = h], stopped' = stopped \ {h},
               pc' = [pc EXCEPT ![t] = "held", ![h] = "wait"]
        PROVE  Entries'
    <3>1. /\ pc'[t] = "held" /\ pc'[h] = "wait"
          /\ \A a \in Threads : a # t /\ a # h => pc'[a] = pc[a]
      BY <2>1, <2>3, Constants DEF Threads
    <3>2. \A n \in Nodes : n # NodeOf[t] => entry'[n] = entry[n] /\ entry'[n] # h
      BY <2>3, Constants
    <3>3. \A n \in Nodes : entry'[n] # None =>
            NodeOf[entry'[n]] = n /\ entry'[n] \notin stopped'
      BY <2>1, <2>3, <3>2
    <3>4. ASSUME NEW g \in Beats, pc'[g] # "dead", g \notin stopped'
          PROVE  /\ entry'[NodeOf[g]] = g
                 /\ \E u \in Clients : NodeOf[u] = NodeOf[g] /\ pc'[u] \in {"held", "leave", "stop"}
      <4>1. CASE g = h
        <5>1. entry'[NodeOf[g]] = g
          BY <2>1, <2>3, <4>1
        <5>2. NodeOf[t] = NodeOf[g] /\ pc'[t] \in {"held", "leave", "stop"}
          BY <2>3, <3>1, <4>1
        <5> QED
          BY <5>1, <5>2
      <4>2. CASE g # h
        <5>1. Live(g) /\ entry[NodeOf[g]] = g /\ NodeOf[g] # NodeOf[t]
          BY <2>3, <3>1, <3>4, <4>2, Constants
        <5>2. PICK u \in Clients : NodeOf[u] = NodeOf[g] /\ pc[u] \in {"held", "leave", "stop"}
          BY <5>1
        <5>3. pc'[u] = pc[u] /\ entry'[NodeOf[g]] = g
          BY <2>1, <3>1, <3>2, <5>1, <5>2, Constants
        <5> QED
          BY <5>2, <5>3
      <4> QED
        BY <4>1, <4>2
    <3> QED
      BY <3>3, <3>4
  <2> QED
    BY <1>4, <2>2, <2>3 DEF StartHeartbeat
<1>5. ASSUME NEW t \in Clients, Leave(t) /\ UNCHANGED storeVars PROVE Entries'
  BY <1>5, Constants DEF Leave, Continue, Goto
<1>6. ASSUME NEW t \in Clients, StopHeartbeat(t) /\ UNCHANGED storeVars PROVE Entries'
  BY <1>6, Constants DEF StopHeartbeat, Threads
<1>7. ASSUME NEW t \in Clients, SetNx(t) PROVE Entries'
  BY <1>7, Constants DEF SetNx, Continue, Goto
<1>8. ASSUME NEW t \in Clients, GetHolder(t) PROVE Entries'
  BY <1>8, Constants DEF GetHolder, Continue, Exit, Unlock, Goto
<1>9. ASSUME NEW t \in Clients, ReleaseGet(t) PROVE Entries'
  BY <1>9, Constants DEF ReleaseGet, Continue, Exit, Unlock, Goto
<1>10. ASSUME NEW t \in Clients, ReleaseDel(t) PROVE Entries'
  BY <1>10, Constants DEF ReleaseDel, Exit, Unlock, Goto
<1>11. ASSUME NEW t \in Clients, SetNxReplyLost(t) PROVE Entries'
  BY <1>11, Constants, ErrorCounted DEF SetNxReplyLost, Exit, Unlock, Goto
<1>12. ASSUME NEW t \in Clients, AcquireError(t) PROVE Entries'
  BY <1>12, Constants, ErrorCounted DEF AcquireError, Exit, Unlock, Goto
<1>13. ASSUME NEW t \in Clients, ReleaseError(t) PROVE Entries'
  BY <1>13, Constants, ErrorCounted DEF ReleaseError, Exit, Unlock, Goto
<1>14. ASSUME NEW h \in Beats, Due(h) /\ UNCHANGED storeVars PROVE Entries'
  BY <1>14, Constants DEF Due, Continue, Goto
<1>15. ASSUME NEW h \in Beats, HeartbeatGet(h) PROVE Entries'
  BY <1>15, Constants DEF HeartbeatGet, Owner, Continue, BeatDies, Exit,
         Unlock, Goto
<1>16. ASSUME NEW h \in Beats, HeartbeatSet(h) PROVE Entries'
  BY <1>16, Constants DEF HeartbeatSet, BeatAgain, Exit, Unlock, Goto
<1>17. ASSUME NEW h \in Beats, HeartbeatError(h) PROVE Entries'
  BY <1>17, Constants, ErrorCounted DEF HeartbeatError, BeatDies, Exit, Unlock,
         Goto
<1>18. ASSUME NEW n \in Nodes, Crash(n) PROVE Entries'
  BY <1>18, Constants DEF Crash, NodeCrash, Threads
<1>19. CASE Tick
  BY <1>19, Constants DEF Tick, NoExpiry, nodeVars
<1>20. CASE UNCHANGED vars
  BY <1>20 DEF vars, nodeVars
<1> HIDE DEF Types, TypeOK, NodeTypeOK, Outside, ClientLabels, BeatLabels,
       Entries, Live, storeVars
<1> QED
  BY Constants, <1>1, <1>2, <1>3, <1>4, <1>5, <1>6, <1>7, <1>8, <1>9, <1>10,
         <1>11, <1>12, <1>13, <1>14, <1>15, <1>16, <1>17, <1>18, <1>19, <1>20,
         Zenon DEF Next, ClientStep, BeatStep

-------------------------------------------------------------------------------
(* Calm times. *)

LEMMA LeasesInit == Init => Leases
BY Constants DEF Init, NodeInit, Leases, Owning

\* Time takes nothing from an owner: it is at work, so its heartbeat is alive,
\* and would have come before the lease ran out.
LEMMA TickLeases ==
  ASSUME Types, Entries, Leases, Tick
  PROVE  Leases'
<1> SUFFICES ASSUME calm' PROVE Leases'
  BY Zenon DEF Leases
<1>1. calm /\ Prompt
  BY Zenon DEF Tick
<1>2. /\ UNCHANGED <<stateLock, pc, entry, stopped, seen>>
      /\ \A h \in Beats : pc[h] # "hset"
  BY <1>1, Constants DEF Tick, nodeVars, Prompt, InCommand
<1>3. ASSUME NEW t \in Clients, Owning(t)
      PROVE  key' # None /\ key'.by = t
  <2>1. pc[t] \in {"held", "leave"}
    BY <1>1, <1>3, Constants DEF Prompt, InCommand, Owning
  <2>2. key # None /\ key.by = t /\ entry[NodeOf[t]] # None
    BY <2>1, <1>1, Zenon DEF Leases, Owning
  <2>3. PICK h \in Beats : h = entry[NodeOf[t]]
    BY <2>2, Constants DEF Types, TypeOK, NodeTypeOK
  <2>4. NodeOf[h] = Owner /\ Live(h)
    BY <2>2, <2>3, <1>1, Constants DEF Leases, Entries, Live, Owner
  <2>5. key.ttl # 1
    BY <2>4, <1>1 DEF Prompt
  <2>6. key \in [by : Clients, ttl : 1..TTL] /\ key' = [key EXCEPT !.ttl = @ - 1]
    BY <2>2, <2>5 DEF Tick, Types, TypeOK
  <2>7. key' \in [by : Clients, ttl : 1..TTL] /\ key'.by = key.by
    BY <2>5, <2>6, Constants
  <2> QED
    BY <2>2, <2>7, LeaseAssumption
<1> QED
  BY <1>1, <1>2, <1>3, Constants DEF Leases, Owning

LEMMA LeasesNext == Types /\ Entries /\ Leases /\ [Next]_vars => Leases'
<1> SUFFICES ASSUME Types, Entries, Leases, [Next]_vars PROVE Leases'
  OBVIOUS
<1> USE DEF Types, TypeOK, NodeTypeOK, Outside, ClientLabels, BeatLabels,
       InCommand, Entries, Leases, Live, Owning, storeVars
<1>1. ASSUME NEW t \in Clients, Begin(t) /\ UNCHANGED storeVars PROVE Leases'
  BY <1>1, Constants DEF Begin, Continue, Goto
<1>2. ASSUME NEW a \in Threads, Enter(a) PROVE Leases'
  BY <1>2, Constants DEF Enter, EnterLock, Goto, Threads
<1>3. ASSUME NEW t \in Clients, Backoff(t) /\ UNCHANGED storeVars PROVE Leases'
  BY <1>3, Constants DEF Backoff, Continue, Goto
<1>4. ASSUME NEW t \in Clients, StartHeartbeat(t) /\ UNCHANGED storeVars PROVE Leases'
  BY <1>4, Constants DEF StartHeartbeat, Goto, Unlock, Threads
<1>5. ASSUME NEW t \in Clients, Leave(t) /\ UNCHANGED storeVars PROVE Leases'
  BY <1>5, Constants DEF Leave, Continue, Goto
<1>6. ASSUME NEW t \in Clients, StopHeartbeat(t) /\ UNCHANGED storeVars PROVE Leases'
  BY <1>6, Constants DEF StopHeartbeat, Threads
<1>7. ASSUME NEW t \in Clients, SetNx(t) PROVE Leases'
  BY <1>7, Constants DEF SetNx, Continue, Goto
<1>8. ASSUME NEW t \in Clients, GetHolder(t) PROVE Leases'
  BY <1>8, Constants DEF GetHolder, Continue, Exit, Unlock, Goto
<1>9. ASSUME NEW t \in Clients, ReleaseGet(t) PROVE Leases'
  BY <1>9, Constants DEF ReleaseGet, Continue, Exit, Unlock, Goto
<1>10. ASSUME NEW t \in Clients, ReleaseDel(t) PROVE Leases'
  BY <1>10, Constants DEF ReleaseDel, Exit, Unlock, Goto
<1>11. ASSUME NEW t \in Clients, SetNxReplyLost(t) PROVE Leases'
  BY <1>11, Constants, ErrorCounted DEF SetNxReplyLost, Exit, Unlock, Goto
<1>12. ASSUME NEW t \in Clients, AcquireError(t) PROVE Leases'
  BY <1>12, Constants, ErrorCounted DEF AcquireError, Exit, Unlock, Goto
<1>13. ASSUME NEW t \in Clients, ReleaseError(t) PROVE Leases'
  BY <1>13, Constants, ErrorCounted DEF ReleaseError, Exit, Unlock, Goto
<1>14. ASSUME NEW h \in Beats, Due(h) /\ UNCHANGED storeVars PROVE Leases'
  BY <1>14, Constants DEF Due, Continue, Goto
<1>15. ASSUME NEW h \in Beats, HeartbeatGet(h) PROVE Leases'
  BY <1>15, Constants DEF HeartbeatGet, Owner, Continue, BeatDies, Exit,
         Unlock, Goto
<1>16. ASSUME NEW h \in Beats, HeartbeatSet(h) PROVE Leases'
  BY <1>16, Constants DEF HeartbeatSet, BeatAgain, Exit, Unlock, Goto
<1>17. ASSUME NEW h \in Beats, HeartbeatError(h) PROVE Leases'
  BY <1>17, Constants, ErrorCounted DEF HeartbeatError, BeatDies, Exit, Unlock,
         Goto
<1>18. ASSUME NEW n \in Nodes, Crash(n) PROVE Leases'
  BY <1>18, Constants DEF Crash, NodeCrash, Threads
<1>19. CASE Tick
  BY <1>19, TickLeases, Zenon
<1>20. CASE UNCHANGED vars
  BY <1>20 DEF vars, nodeVars
<1> HIDE DEF Types, TypeOK, NodeTypeOK, Outside, ClientLabels, BeatLabels,
       InCommand, Entries, Leases, Live, Owning, storeVars
<1> QED
  BY Constants, <1>1, <1>2, <1>3, <1>4, <1>5, <1>6, <1>7, <1>8, <1>9, <1>10,
         <1>11, <1>12, <1>13, <1>14, <1>15, <1>16, <1>17, <1>18, <1>19, <1>20,
         Zenon DEF Next, ClientStep, BeatStep

-------------------------------------------------------------------------------
(* The theorems. *)

LEMMA LockInvHolds == Spec => []LockInv
<1>1. Init => LockInv
  BY TypesInit, EntriesInit, LeasesInit DEF LockInv
<1>2. LockInv /\ [Next]_vars => LockInv'
  BY TypesNext, EntriesNext, LeasesNext, Zenon DEF LockInv
<1> QED
  BY <1>1, <1>2, PTL DEF Spec

\* Every variable stays in its type; in particular a node's state lock is held by
\* a thread of that node inside a command, and a heartbeat only ever writes back a
\* record it has read (the `with self._state_lock` of config_shield.py).
THEOREM RedisTypes == Spec => []TypeOK
<1>1. LockInv => TypeOK
  BY DEF LockInv, Types
<1> QED
  BY <1>1, LockInvHolds, PTL

\* A heartbeat that was not told to stop has someone to work for, and its node has
\* no other, whatever is lost, late or crashes (_start_heartbeat and release).
THEOREM RedisHeartbeats == Spec => []HeartbeatsMatchHolders
<1>1. LockInv => HeartbeatsMatchHolders
  BY DEF LockInv, Entries, HeartbeatsMatchHolders
<1> QED
  BY <1>1, LockInvHolds, PTL

\* As long as Redis answers and nobody is slower than the lease, two callers never
\* work under the lock, and who works has a lease of its own (acquire, release and
\* heartbeat together).
THEOREM RedisCalmLock == Spec => []CalmLock
<1>1. LockInv => CalmLock
  BY DEF LockInv, Leases, CalmLock, MutualExclusion, HolderHasLease, Working, Owning
<1> QED
  BY <1>1, LockInvHolds, PTL

\* NeverSeized is refuted for a heartbeat suspended between its GET and its SET
\* XX; in calm times it holds: no record that is still there is replaced by
\* another acquisition's (heartbeat, config_shield.py:291).
THEOREM RedisCalmNeverSeized ==
  Spec => [][calm /\ key # None /\ key' # None => key'.by = key.by]_vars
<1> DEFINE Kept == calm /\ key # None /\ key' # None => key'.by = key.by
<1>1. ASSUME LockInv, [Next]_vars PROVE Kept
  <2> USE <1>1 DEF LockInv
  <2>1. ASSUME NEW h \in Beats, HeartbeatSet(h) PROVE Kept
    BY <2>1, Constants DEF HeartbeatSet, Leases, Types
  <2>2. CASE Tick
    BY <2>2 DEF Tick, Types, TypeOK
  <2>3. ASSUME NEW t \in Clients, SetNx(t) \/ SetNxReplyLost(t) \/ ReleaseDel(t)
        PROVE  Kept
    BY <2>3 DEF SetNx, SetNxReplyLost, ReleaseDel
  <2>4. CASE UNCHANGED key
    BY <2>4
  <2>5. \/ UNCHANGED key
        \/ Tick
        \/ \E h \in Beats : HeartbeatSet(h)
        \/ \E t \in Clients : SetNx(t) \/ SetNxReplyLost(t) \/ ReleaseDel(t)
    BY <1>1, Zenon
       DEF Next, ClientStep, BeatStep, Enter, GetHolder, ReleaseGet, AcquireError,
           ReleaseError, HeartbeatGet, HeartbeatError, Crash, vars, storeVars
  <2> QED
    BY <2>1, <2>2, <2>3, <2>4, <2>5, Zenon
<1> QED
  BY <1>1, LockInvHolds, PTL DEF Spec
===============================================================================
