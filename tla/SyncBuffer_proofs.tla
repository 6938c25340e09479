-------------------------- MODULE SyncBuffer_proofs --------------------------
(***************************************************************************)
(* Under the lock file, in calm times, the shared buffer is the log of the *)
(* appends that returned; and the lock itself: exclusion, its heartbeats,  *)
(* and who writes an empty lock file.  For any nodes, threads, clock and   *)
(* number of faults.                                                       *)
(***************************************************************************)
EXTENDS SyncBuffer, FiniteSetTheorems, TLAPS

-------------------------------------------------------------------------------
(* The invariant of the lock. *)

\* Where a thread can be.
ClientLabels == {"idle", "want", "backoff", "held", "leave", "try", "read", "rename",
                 "reopen", "write", "rewrite", "verify", "start", "stop", "rread",
                 "unlink"}
BeatLabels == {"dead", "wait", "due", "hread", "hwrite"}

\* A thread inside a call holds the state lock of its node; an empty lock file is
\* as its maker created it.
Types ==
  /\ TypeOK
  /\ \A t \in Clients : pc[t] \in ClientLabels
  /\ \A h \in Beats : pc[h] \in BeatLabels
  /\ \A a \in Threads : pc[a] \in InCall => stateLock[NodeOf[a]] = a
  /\ file # None /\ file.node = None => \E t \in Clients : file = Empty(t)

\* The dictionary names the one heartbeat of its node that was not told to stop,
\* dead or alive; one that is alive has someone to work for, and one that was told
\* to stop does not wait again.
Entries ==
  /\ \A n \in Nodes : entry[n] # None => NodeOf[entry[n]] = n /\ entry[n] \notin stopped
  /\ \A h \in Beats : Live(h) =>
       /\ entry[NodeOf[h]] = h
       /\ \E t \in Clients : NodeOf[t] = NodeOf[h] /\ pc[t] \in {"held", "leave", "stop"}
  /\ \A h \in Beats : pc[h] = "wait" => h \notin stopped

\* From creating the file to unlinking it.
Writing(t) == pc[t] \in {"write", "rewrite"}
Recorded(t) == pc[t] \in {"verify", "start", "held", "leave", "stop", "rread", "unlink"}
Owning(t) == Writing(t) \/ Recorded(t)

Attempting(t) == pc[t] \in {"read", "rename", "reopen", "write", "rewrite", "verify"}
Reclaimer(t) == pc[t] \in {"rename", "reopen", "rewrite", "verify"}

Fresh == ~IsStale(file, clock)

\* In calm times there is one owner at most, whose empty file or fresh record is at
\* the lock path and whose heartbeat is alive.
OneOwner ==
  calm =>
    /\ \A t, u \in Clients : Owning(t) /\ Owning(u) => t = u
    /\ \A t \in Clients : Writing(t) => file = Empty(t)
    /\ \A t \in Clients : Recorded(t) => file # None /\ file.node = NodeOf[t] /\ Fresh
    /\ \A t \in Clients : pc[t] \in {"held", "leave", "stop"} => entry[NodeOf[t]] # None
    /\ \A n \in Nodes : entry[n] # None => pc[entry[n]] # "dead"

\* In calm times the clock stands still during an attempt; the record that is about
\* to be renamed is still the stale one, by one reclaimer at most; and a heartbeat
\* on its way sees no stale record, and refreshes one of its own node.
NothingStale ==
  calm =>
    /\ \A t \in Clients : Attempting(t) => now[t] = clock
    /\ \A t, u \in Clients : Reclaimer(t) /\ Reclaimer(u) => t = u
    /\ \A t \in Clients : pc[t] = "rename" => file # None /\ file.node # None /\ ~Fresh
    /\ \A h \in Beats : pc[h] \in {"due", "hread", "hwrite"} =>
         file = None \/ file.node = None \/ Fresh
    /\ \A h \in Beats : pc[h] = "hwrite" => file # None /\ file.node = NodeOf[h]

LockInv == Types /\ Entries /\ OneOwner /\ NothingStale /\ FaultlessEmptyWritten

-------------------------------------------------------------------------------
(* The invariant of the buffer. *)

Halves == {t \in Clients : work[t] = "half"}

BufferTypes ==
  /\ work \in [Clients -> {"none", "half", "lost", "done"}]
  /\ lines \in Nat /\ acked \in Nat /\ lines <= acked
  /\ acked + Cardinality(Halves) <= MaxLines
  /\ garbled \in BOOLEAN
  /\ tail \subseteq Clients \cup {None}
  /\ \A t \in Clients : t \in tail => work[t] = "half"
  /\ \A t \in Clients : work[t] # "none" => pc[t] = "held"

\* In calm times the unfinished line starts with the chunk of whoever is in the
\* middle of an append, and each fault has cost one append at most: one that
\* returned, or the one that is going to be glued to an orphan.
Whole ==
  calm =>
    /\ \A t \in Clients : work[t] = "half" => t \in tail
    /\ faults = 0 => ~garbled /\ None \notin tail
    /\ acked <= lines + faults
    /\ None \in tail => acked + 1 <= lines + faults

BufferInv == LockInv /\ BufferTypes /\ Whole

-------------------------------------------------------------------------------
(* Constants and types. *)

Files == [maker : Clients \cup {None}, node : Nodes \cup {None}, hb : 0..MaxClock]

LEMMA Constants ==
  /\ Clients \cap Beats = {} /\ Clients \subseteq Threads /\ Beats \subseteq Threads
  /\ \A a \in Threads : NodeOf[a] \in Nodes /\ a # None
  /\ None \notin Nodes
  /\ TTL \in Nat /\ MaxClock \in Nat /\ MaxFaults \in Nat
  /\ None \notin Files
BY ThreadAssumption, FileAssumption DEF Threads, Files

LEMMA Records ==
  /\ \A t \in Clients : Empty(t) \in Files /\ Empty(t) # None
  /\ \A t \in Clients : Empty(t).node = None /\ Empty(t).maker = t
  /\ \A t \in Clients \cup {None}, n \in Nodes, at \in 0..MaxClock :
       /\ Written(t, n, at) \in Files /\ Written(t, n, at) # None
       /\ Written(t, n, at).node = n /\ Written(t, n, at).hb = at
BY Constants DEF Files, Empty, Written

\* A fault uses up one of the bounded faults; a failed write ends the calm; the
\* calm only ever ends.
LEMMA FaultCounted ==
  /\ TypeOK /\ Fault => faults' \in 0..MaxFaults /\ faults' > 0
  /\ WriteError => Fault /\ calm' \in BOOLEAN /\ ~calm'
  /\ \A t \in Clients : ReadHolder(t) => /\ calm' \in BOOLEAN
                                         /\ calm' => calm /\ ~(pc'[t] = "rename" /\ Reclaiming)
  /\ Tick => calm' \in BOOLEAN /\ (calm' => calm /\ Prompt)
<1>1. TypeOK /\ Fault => faults' \in 0..MaxFaults /\ faults' > 0
  BY Constants DEF TypeOK, Fault
<1>2. WriteError => Fault /\ calm' \in BOOLEAN /\ ~calm'
  BY Zenon DEF WriteError
<1>3. ASSUME NEW t \in Clients, ReadHolder(t)
      PROVE  calm' \in BOOLEAN /\ (calm' => calm /\ ~(pc'[t] = "rename" /\ Reclaiming))
  BY <1>3, Zenon DEF ReadHolder
<1>4. Tick => calm' \in BOOLEAN /\ (calm' => calm /\ Prompt)
  BY Zenon DEF Tick
<1> QED
  BY <1>1, <1>2, <1>3, <1>4, Zenon

\* A heartbeat leaves a fresh record of its node.
Refreshed(h) ==
  /\ file' \in Files /\ file' # None /\ file'.hb = clock
  /\ file'.node = NodeOf[h] /\ file'.node # None
  /\ UNCHANGED <<clock, now, faults, calm>>

LEMMA HeartbeatRefreshes ==
  ASSUME TypeOK, NEW h \in Beats, HeartbeatWrite(h)
  PROVE  Refreshed(h)
<1>1. clock \in 0..MaxClock /\ NodeOf[h] \in Nodes /\ NodeOf[h] # None
  BY Constants DEF TypeOK
<1>2. file' = Written(None, NodeOf[h], clock) /\ UNCHANGED <<clock, now, faults, calm>>
  BY Zenon DEF HeartbeatWrite
<1>3. /\ Written(None, NodeOf[h], clock) \in Files /\ Written(None, NodeOf[h], clock) # None
      /\ Written(None, NodeOf[h], clock).node = NodeOf[h]
      /\ Written(None, NodeOf[h], clock).hb = clock
  BY <1>1, Records
<1> QED
  BY <1>1, <1>2, <1>3, Zenon DEF Refreshed

LEMMA TypesInit == Init => Types
BY Constants DEF Init, NodeInit, Types, TypeOK, NodeTypeOK, Outside,
       ClientLabels, BeatLabels, InCall

LEMMA TypesNext == Types /\ [Next]_vars => Types'
<1> SUFFICES ASSUME Types, [Next]_vars PROVE Types'
  OBVIOUS
<1> USE DEF Types, TypeOK, NodeTypeOK, Outside, ClientLabels, BeatLabels,
       InCall, storeVars, Files
<1>1. ASSUME NEW t \in Clients, Begin(t) /\ UNCHANGED storeVars PROVE Types'
  BY <1>1, Constants DEF Begin, Continue, Goto
<1>2. ASSUME NEW a \in Threads, Enter(a) PROVE Types'
  BY <1>2, Constants DEF Enter, EnterLock, Goto, Threads
<1>3. ASSUME NEW t \in Clients, Backoff(t) /\ UNCHANGED storeVars PROVE Types'
  BY <1>3, Constants DEF Backoff, Continue, Goto
<1>4. ASSUME NEW t \in Clients, StartHeartbeat(t) /\ UNCHANGED storeVars PROVE Types'
  BY <1>4, Constants DEF StartHeartbeat, Goto, Unlock, Threads
<1>5. ASSUME NEW t \in Clients, Leave(t) /\ UNCHANGED storeVars PROVE Types'
  BY <1>5, Constants DEF Leave, Continue, Goto
<1>6. ASSUME NEW t \in Clients, StopHeartbeat(t) /\ UNCHANGED storeVars PROVE Types'
  BY <1>6, Constants DEF StopHeartbeat, Threads
<1>7. ASSUME NEW t \in Clients, Open(t) PROVE Types'
  <2>1. Empty(t) \in Files /\ Empty(t) # None /\ Empty(t).node = None
    BY Records
  <2>2. now' \in [Clients -> 0..MaxClock] /\ UNCHANGED <<stateLock, entry, stopped, clock, faults, calm>>
    BY <1>7, Zenon DEF Open, Continue
  <2>3. file' \in Files \cup {None} /\ (file' # None /\ file'.node = None => \E u \in Clients : file' = Empty(u))
    BY <1>7, <2>1 DEF Open
  <2>4. PICK label \in {"write", "read"} : pc[t] = "try" /\ Goto(t, label)
    BY <1>7, Zenon DEF Open, Continue
  <2> QED
    BY <2>2, <2>3, <2>4, Constants DEF Goto
<1>8. ASSUME NEW t \in Clients, ReadHolder(t) PROVE Types'
  BY <1>8, Constants, FaultCounted DEF ReadHolder, Continue, Exit, Unlock, Goto
<1>9. ASSUME NEW t \in Clients, RenameStale(t) PROVE Types'
  BY <1>9, Constants DEF RenameStale, Continue, Goto
<1>10. ASSUME NEW t \in Clients, Reopen(t) PROVE Types'
  <2>1. Empty(t) \in Files /\ Empty(t) # None /\ Empty(t).node = None
    BY Records
  <2>2. UNCHANGED <<entry, stopped, clock, now, faults, calm>> /\ pc[t] = "reopen"
    BY <1>10, Zenon DEF Reopen, Continue, Exit
  <2>3. file' \in Files \cup {None} /\ (file' # None /\ file'.node = None => \E u \in Clients : file' = Empty(u))
    BY <1>10, <2>1 DEF Reopen
  <2>4. \/ Goto(t, "rewrite") /\ UNCHANGED stateLock
        \/ Goto(t, "backoff") /\ Unlock(t)
        \/ Goto(t, "idle") /\ Unlock(t)
    BY <1>10, Zenon DEF Reopen, Continue, Exit
  <2> QED
    BY <2>2, <2>3, <2>4, Constants DEF Goto, Unlock
<1>11. ASSUME NEW t \in Clients, WriteRecord(t) PROVE Types'
  BY <1>11, Constants, Records DEF WriteRecord, Continue, Goto
<1>12. ASSUME NEW t \in Clients, WriteFails(t) PROVE Types'
  BY <1>12, Constants, FaultCounted DEF WriteFails, Exit, Unlock, Goto
<1>13. ASSUME NEW t \in Clients, Verify(t) PROVE Types'
  BY <1>13, Constants DEF Verify, Continue, Exit, Unlock, Goto
<1>14. ASSUME NEW t \in Clients, ReleaseRead(t) PROVE Types'
  BY <1>14, Constants DEF ReleaseRead, Continue, Exit, Unlock, Goto
<1>15. ASSUME NEW t \in Clients, ReleaseUnlink(t) PROVE Types'
  BY <1>15, Constants DEF ReleaseUnlink, Exit, Unlock, Goto
<1>16. ASSUME NEW h \in Beats, Due(h) /\ UNCHANGED storeVars PROVE Types'
  BY <1>16, Constants DEF Due, Continue, Goto
<1>17. ASSUME NEW h \in Beats, HeartbeatRead(h) PROVE Types'
  BY <1>17, Constants DEF HeartbeatRead, Continue, BeatDies, Exit, Unlock, Goto
<1>18. ASSUME NEW h \in Beats, HeartbeatWrite(h) PROVE Types'
  <2>1. Refreshed(h)
    BY <1>18, HeartbeatRefreshes, Zenon
  <2>2. pc[h] = "hwrite" /\ BeatAgain(h)
    BY <1>18, Zenon DEF HeartbeatWrite
  <2> QED
    BY <2>1, <2>2, Records, Constants DEF Refreshed, BeatAgain, Exit, Unlock, Goto
<1>19. ASSUME NEW h \in Beats, HeartbeatFails(h) PROVE Types'
  BY <1>19, Constants, FaultCounted DEF HeartbeatFails, BeatDies, Exit, Unlock,
         Goto
<1>20. ASSUME NEW n \in Nodes, Crash(n) PROVE Types'
  BY <1>20, Constants, FaultCounted DEF Crash, NodeCrash, Threads
<1>21. CASE Tick
  BY <1>21, Constants, FaultCounted DEF Tick, nodeVars
<1>22. CASE UNCHANGED vars
  BY <1>22 DEF vars, nodeVars
<1> HIDE DEF Types, TypeOK, NodeTypeOK, Outside, ClientLabels, BeatLabels,
       InCall, storeVars, Files
<1> QED
  BY Constants, <1>1, <1>2, <1>3, <1>4, <1>5, <1>6, <1>7, <1>8, <1>9, <1>10,
         <1>11, <1>12, <1>13, <1>14, <1>15, <1>16, <1>17, <1>18, <1>19, <1>20,
         <1>21, <1>22, Zenon DEF Next, NodeStep, ClientStep

-------------------------------------------------------------------------------
(* The heartbeats and their dictionary. *)

LEMMA EntriesInit == Init => Entries
BY Constants DEF Init, NodeInit, Entries, Live

LEMMA EntriesNext == Types /\ Entries /\ [Next]_vars => Entries'
<1> SUFFICES ASSUME Types, Entries, [Next]_vars PROVE Entries'
  OBVIOUS
<1> USE DEF Types, TypeOK, NodeTypeOK, Outside, ClientLabels, BeatLabels,
       Entries, Live, storeVars
<1>1. ASSUME NEW t \in Clients, Begin(t) /\ UNCHANGED storeVars PROVE Entries'
  BY <1>1, Constants DEF Begin, Continue, Goto
<1>2. ASSUME NEW a \in Threads, Enter(a) PROVE Entries'
  BY <1>2, Constants DEF Enter, EnterLock, Goto, Threads
<1>3. ASSUME NEW t \in Clients, Backoff(t) /\ UNCHANGED storeVars PROVE Entries'
  BY <1>3, Constants DEF Backoff, Continue, Goto
<1>4. ASSUME NEW t \in Clients, StartHeartbeat(t) /\ UNCHANGED storeVars PROVE Entries'
  BY <1>4, Constants DEF StartHeartbeat, Goto, Unlock, Threads
<1>5. ASSUME NEW t \in Clients, Leave(t) /\ UNCHANGED storeVars PROVE Entries'
  BY <1>5, Constants DEF Leave, Continue, Goto
<1>6. ASSUME NEW t \in Clients, StopHeartbeat(t) /\ UNCHANGED storeVars PROVE Entries'
  BY <1>6, Constants DEF StopHeartbeat, Threads
<1>7. ASSUME NEW t \in Clients, Open(t) PROVE Entries'
  BY <1>7, Constants DEF Open, Continue, Goto
<1>8. ASSUME NEW t \in Clients, ReadHolder(t) PROVE Entries'
  BY <1>8, Constants, FaultCounted DEF ReadHolder, Continue, Exit, Unlock, Goto
<1>9. ASSUME NEW t \in Clients, RenameStale(t) PROVE Entries'
  BY <1>9, Constants DEF RenameStale, Continue, Goto
<1>10. ASSUME NEW t \in Clients, Reopen(t) PROVE Entries'
  BY <1>10, Constants DEF Reopen, Continue, Exit, Unlock, Goto
<1>11. ASSUME NEW t \in Clients, WriteRecord(t) PROVE Entries'
  BY <1>11, Constants DEF WriteRecord, Continue, Goto
<1>12. ASSUME NEW t \in Clients, WriteFails(t) PROVE Entries'
  BY <1>12, Constants, FaultCounted DEF WriteFails, Exit, Unlock, Goto
<1>13. ASSUME NEW t \in Clients, Verify(t) PROVE Entries'
  BY <1>13, Constants DEF Verify, Continue, Exit, Unlock, Goto
<1>14. ASSUME NEW t \in Clients, ReleaseRead(t) PROVE Entries'
  BY <1>14, Constants DEF ReleaseRead, Continue, Exit, Unlock, Goto
<1>15. ASSUME NEW t \in Clients, ReleaseUnlink(t) PROVE Entries'
  BY <1>15, Constants DEF ReleaseUnlink, Exit, Unlock, Goto
<1>16. ASSUME NEW h \in Beats, Due(h) /\ UNCHANGED storeVars PROVE Entries'
  BY <1>16, Constants DEF Due, Continue, Goto
<1>17. ASSUME NEW h \in Beats, HeartbeatRead(h) PROVE Entries'
  BY <1>17, Constants DEF HeartbeatRead, Continue, BeatDies, Exit, Unlock, Goto
<1>18. ASSUME NEW h \in Beats, HeartbeatWrite(h) PROVE Entries'
  BY <1>18, Constants DEF HeartbeatWrite, BeatAgain, Exit, Unlock, Goto
<1>19. ASSUME NEW h \in Beats, HeartbeatFails(h) PROVE Entries'
  BY <1>19, Constants, FaultCounted DEF HeartbeatFails, BeatDies, Exit, Unlock,
         Goto
<1>20. ASSUME NEW n \in Nodes, Crash(n) PROVE Entries'
  BY <1>20, Constants, FaultCounted DEF Crash, NodeCrash, Threads
<1>21. CASE Tick
  BY <1>21, Constants, FaultCounted DEF Tick, nodeVars
<1>22. CASE UNCHANGED vars
  BY <1>22 DEF vars, nodeVars
<1> HIDE DEF Types, TypeOK, NodeTypeOK, Outside, ClientLabels, BeatLabels,
       Entries, Live, storeVars
<1> QED
  BY Constants, <1>1, <1>2, <1>3, <1>4, <1>5, <1>6, <1>7, <1>8, <1>9, <1>10,
         <1>11, <1>12, <1>13, <1>14, <1>15, <1>16, <1>17, <1>18, <1>19, <1>20,
         <1>21, <1>22, Zenon DEF Next, NodeStep, ClientStep

-------------------------------------------------------------------------------
(* Calm times. *)

LEMMA OneOwnerInit == Init => OneOwner /\ NothingStale
BY Constants DEF Init, NodeInit, OneOwner, NothingStale, Owning, Writing, Recorded, Attempting, Reclaimer

LEMMA OneOwnerNext == Types /\ Entries /\ OneOwner /\ NothingStale /\ [Next]_vars => OneOwner'
<1> SUFFICES ASSUME Types, Entries, OneOwner, NothingStale, [Next]_vars PROVE OneOwner'
  OBVIOUS
<1> USE DEF Types, TypeOK, NodeTypeOK, Outside, ClientLabels, BeatLabels,
       InCall, Entries, OneOwner, NothingStale, Live, Owning, Writing,
       Recorded, Attempting, Reclaimer, Fresh, IsStale, storeVars, Files
<1>1. ASSUME NEW t \in Clients, Begin(t) /\ UNCHANGED storeVars PROVE OneOwner'
  BY <1>1, Constants DEF Begin, Continue, Goto
<1>2. ASSUME NEW a \in Threads, Enter(a) PROVE OneOwner'
  BY <1>2, Constants DEF Enter, EnterLock, Goto, Threads
<1>3. ASSUME NEW t \in Clients, Backoff(t) /\ UNCHANGED storeVars PROVE OneOwner'
  BY <1>3, Constants DEF Backoff, Continue, Goto
<1>4. ASSUME NEW t \in Clients, StartHeartbeat(t) /\ UNCHANGED storeVars PROVE OneOwner'
  BY <1>4, Constants DEF StartHeartbeat, Goto, Unlock, Threads
<1>5. ASSUME NEW t \in Clients, Leave(t) /\ UNCHANGED storeVars PROVE OneOwner'
  BY <1>5, Constants DEF Leave, Continue, Goto
<1>6. ASSUME NEW t \in Clients, StopHeartbeat(t) /\ UNCHANGED storeVars PROVE OneOwner'
  BY <1>6, Constants DEF StopHeartbeat, Threads
<1>7. ASSUME NEW t \in Clients, Open(t) PROVE OneOwner'
  BY <1>7, Constants, Records DEF Open, Continue, Goto
<1>8. ASSUME NEW t \in Clients, ReadHolder(t) PROVE OneOwner'
  BY <1>8, Constants, FaultCounted DEF ReadHolder, Continue, Exit, Unlock, Goto
<1>9. ASSUME NEW t \in Clients, RenameStale(t) PROVE OneOwner'
  <2>1. ASSUME calm, NEW u \in Clients PROVE ~Owning(u)
    <3>1. file.node # None /\ ~Fresh
      BY <1>9, <2>1, Zenon DEF RenameStale
    <3>2. Writing(u) => file.node = None
      BY <2>1, Records
    <3> QED
      BY <3>1, <3>2, <2>1
  <2>2. /\ pc' = [pc EXCEPT ![t] = "try"] \/ pc' = [pc EXCEPT ![t] = "reopen"]
        /\ UNCHANGED <<entry, stopped, clock, calm>>
    BY <1>9 DEF RenameStale, Continue, Goto
  <2> QED
    BY <2>1, <2>2, Constants
<1>10. ASSUME NEW t \in Clients, Reopen(t) PROVE OneOwner'
  <2>1. UNCHANGED <<entry, stopped, clock, now, faults, calm>> /\ pc[t] = "reopen"
    BY <1>10, Zenon DEF Reopen, Continue, Exit
  <2>2. CASE file = None /\ file' = Empty(t) /\ Goto(t, "rewrite")
    BY <2>1, <2>2, Records, Constants DEF Goto
  <2>3. CASE UNCHANGED file /\ (Goto(t, "backoff") \/ Goto(t, "idle"))
    BY <2>1, <2>3, Constants DEF Goto
  <2> QED
    BY <1>10, <2>2, <2>3, Zenon DEF Reopen, Continue, Exit
<1>11. ASSUME NEW t \in Clients, WriteRecord(t) PROVE OneOwner'
  BY <1>11, Constants, Records DEF WriteRecord, Continue, Goto
<1>12. ASSUME NEW t \in Clients, WriteFails(t) PROVE OneOwner'
  BY <1>12, Constants, FaultCounted DEF WriteFails, Exit, Unlock, Goto
<1>13. ASSUME NEW t \in Clients, Verify(t) PROVE OneOwner'
  BY <1>13, Constants DEF Verify, Continue, Exit, Unlock, Goto
<1>14. ASSUME NEW t \in Clients, ReleaseRead(t) PROVE OneOwner'
  BY <1>14, Constants DEF ReleaseRead, Continue, Exit, Unlock, Goto
<1>15. ASSUME NEW t \in Clients, ReleaseUnlink(t) PROVE OneOwner'
  BY <1>15, Constants DEF ReleaseUnlink, Exit, Unlock, Goto
<1>16. ASSUME NEW h \in Beats, Due(h) /\ UNCHANGED storeVars PROVE OneOwner'
  BY <1>16, Constants DEF Due, Continue, Goto
<1>17. ASSUME NEW h \in Beats, HeartbeatRead(h) PROVE OneOwner'
  BY <1>17, Constants DEF HeartbeatRead, Continue, BeatDies, Exit, Unlock, Goto
<1>18. ASSUME NEW h \in Beats, HeartbeatWrite(h) PROVE OneOwner'
  <2>1. Refreshed(h)
    BY <1>18, HeartbeatRefreshes, Zenon
  <2>2. pc[h] = "hwrite" /\ BeatAgain(h)
    BY <1>18, Zenon DEF HeartbeatWrite
  <2> QED
    BY <2>1, <2>2, Records, Constants DEF Refreshed, BeatAgain, Exit, Unlock, Goto
<1>19. ASSUME NEW h \in Beats, HeartbeatFails(h) PROVE OneOwner'
  BY <1>19, Constants, FaultCounted DEF HeartbeatFails, BeatDies, Exit, Unlock,
         Goto
<1>20. ASSUME NEW n \in Nodes, Crash(n) PROVE OneOwner'
  BY <1>20, Constants, FaultCounted DEF Crash, NodeCrash, Threads
<1>21. CASE Tick
  <2> SUFFICES ASSUME calm' PROVE OneOwner'
    BY Zenon
  <2>1. calm /\ Prompt /\ clock' = clock + 1
        /\ UNCHANGED <<stateLock, pc, entry, stopped, file, now>>
    BY <1>21, FaultCounted DEF Tick, nodeVars
  <2>2. \A t \in Clients : /\ ~Attempting(t) /\ ~Reclaimer(t) /\ ~Writing(t)
                           /\ Recorded(t) => pc[t] \in {"held", "leave"}
    BY <2>1, Constants DEF Prompt, Busy
  <2>3. \A h \in Beats : pc[h] \notin {"due", "hread", "hwrite"}
    BY <2>1, Constants DEF Prompt, Busy
  <2>4. ASSUME NEW t \in Clients, Recorded(t) PROVE ~IsStale(file, clock + 1)
    <3>1. PICK h \in Beats : h = entry[NodeOf[t]]
      BY <2>1, <2>2, <2>4, Constants
    <3>2. NodeOf[h] = file.node /\ Live(h) /\ file # None
      BY <2>1, <2>2, <2>4, <3>1, Constants
    <3> QED
      BY <2>1, <3>2 DEF Prompt
  <2> QED
    BY <2>1, <2>2, <2>3, <2>4, Constants
<1>22. CASE UNCHANGED vars
  BY <1>22 DEF vars, nodeVars
<1> HIDE DEF Types, TypeOK, NodeTypeOK, Outside, ClientLabels, BeatLabels,
       InCall, Entries, OneOwner, NothingStale, Live, Owning, Writing,
       Recorded, Attempting, Reclaimer, Fresh, IsStale, storeVars, Files
<1> QED
  BY Constants, <1>1, <1>2, <1>3, <1>4, <1>5, <1>6, <1>7, <1>8, <1>9, <1>10,
         <1>11, <1>12, <1>13, <1>14, <1>15, <1>16, <1>17, <1>18, <1>19, <1>20,
         <1>21, <1>22, Zenon DEF Next, NodeStep, ClientStep

LEMMA NothingStaleNext == Types /\ Entries /\ OneOwner /\ NothingStale /\ [Next]_vars => NothingStale'
<1> SUFFICES ASSUME Types, Entries, OneOwner, NothingStale, [Next]_vars PROVE NothingStale'
  OBVIOUS
<1> USE DEF Types, TypeOK, NodeTypeOK, Outside, ClientLabels, BeatLabels,
       InCall, Entries, OneOwner, NothingStale, Live, Owning, Writing,
       Recorded, Attempting, Reclaimer, Fresh, IsStale, storeVars, Files
<1>1. ASSUME NEW t \in Clients, Begin(t) /\ UNCHANGED storeVars PROVE NothingStale'
  BY <1>1, Constants DEF Begin, Continue, Goto
<1>2. ASSUME NEW a \in Threads, Enter(a) PROVE NothingStale'
  BY <1>2, Constants DEF Enter, EnterLock, Goto, Threads
<1>3. ASSUME NEW t \in Clients, Backoff(t) /\ UNCHANGED storeVars PROVE NothingStale'
  BY <1>3, Constants DEF Backoff, Continue, Goto
<1>4. ASSUME NEW t \in Clients, StartHeartbeat(t) /\ UNCHANGED storeVars PROVE NothingStale'
  BY <1>4, Constants DEF StartHeartbeat, Goto, Unlock, Threads
<1>5. ASSUME NEW t \in Clients, Leave(t) /\ UNCHANGED storeVars PROVE NothingStale'
  BY <1>5, Constants DEF Leave, Continue, Goto
<1>6. ASSUME NEW t \in Clients, StopHeartbeat(t) /\ UNCHANGED storeVars PROVE NothingStale'
  BY <1>6, Constants DEF StopHeartbeat, Threads
<1>7. ASSUME NEW t \in Clients, Open(t) PROVE NothingStale'
  BY <1>7, Constants, Records DEF Open, Continue, Goto
<1>8. ASSUME NEW t \in Clients, ReadHolder(t) PROVE NothingStale'
  <2> SUFFICES ASSUME calm' PROVE NothingStale'
    BY Zenon
  <2>1. /\ calm /\ ~(pc'[t] = "rename" /\ Reclaiming)
        /\ pc[t] = "read" /\ UNCHANGED <<clock, file, now, faults>>
    BY <1>8, FaultCounted, Zenon DEF ReadHolder
  <2>2. CASE pc' = [pc EXCEPT ![t] = "rename"]
    <3>1. file # None /\ file.node # None /\ IsStale(file, now[t])
      BY <1>8, <2>2, Constants DEF ReadHolder, Continue, Exit, Goto
    <3>2. \A u \in Clients : ~Reclaimer(u)
      BY <2>1, <2>2, Constants DEF Reclaiming
    <3> QED
      BY <2>1, <2>2, <3>1, <3>2, Constants
  <2>3. CASE \E label \in {"try", "idle", "backoff"} : pc' = [pc EXCEPT ![t] = label]
    BY <2>1, <2>3, Constants
  <2> QED
    BY <1>8, <2>2, <2>3 DEF ReadHolder, Continue, Exit, Goto
<1>9. ASSUME NEW t \in Clients, RenameStale(t) PROVE NothingStale'
  BY <1>9, Constants DEF RenameStale, Continue, Goto
<1>10. ASSUME NEW t \in Clients, Reopen(t) PROVE NothingStale'
  BY <1>10, Constants, Records DEF Reopen, Continue, Exit, Unlock, Goto
<1>11. ASSUME NEW t \in Clients, WriteRecord(t) PROVE NothingStale'
  BY <1>11, Constants, Records DEF WriteRecord, Continue, Goto
<1>12. ASSUME NEW t \in Clients, WriteFails(t) PROVE NothingStale'
  BY <1>12, Constants, FaultCounted DEF WriteFails, Exit, Unlock, Goto
<1>13. ASSUME NEW t \in Clients, Verify(t) PROVE NothingStale'
  BY <1>13, Constants DEF Verify, Continue, Exit, Unlock, Goto
<1>14. ASSUME NEW t \in Clients, ReleaseRead(t) PROVE NothingStale'
  BY <1>14, Constants DEF ReleaseRead, Continue, Exit, Unlock, Goto
<1>15. ASSUME NEW t \in Clients, ReleaseUnlink(t) PROVE NothingStale'
  BY <1>15, Constants DEF ReleaseUnlink, Exit, Unlock, Goto
<1>16. ASSUME NEW h \in Beats, Due(h) /\ UNCHANGED storeVars PROVE NothingStale'
  BY <1>16, Constants DEF Due, Continue, Goto
<1>17. ASSUME NEW h \in Beats, HeartbeatRead(h) PROVE NothingStale'
  BY <1>17, Constants DEF HeartbeatRead, Continue, BeatDies, Exit, Unlock, Goto
<1>18. ASSUME NEW h \in Beats, HeartbeatWrite(h) PROVE NothingStale'
  <2>1. Refreshed(h)
    BY <1>18, HeartbeatRefreshes, Zenon
  <2>2. pc[h] = "hwrite" /\ BeatAgain(h)
    BY <1>18, Zenon DEF HeartbeatWrite
  <2> QED
    BY <2>1, <2>2, Records, Constants DEF Refreshed, BeatAgain, Exit, Unlock, Goto
<1>19. ASSUME NEW h \in Beats, HeartbeatFails(h) PROVE NothingStale'
  BY <1>19, Constants, FaultCounted DEF HeartbeatFails, BeatDies, Exit, Unlock,
         Goto
<1>20. ASSUME NEW n \in Nodes, Crash(n) PROVE NothingStale'
  BY <1>20, Constants, FaultCounted DEF Crash, NodeCrash, Threads
<1>21. CASE Tick
  <2> SUFFICES ASSUME calm' PROVE NothingStale'
    BY Zenon
  <2>1. calm /\ Prompt /\ clock' = clock + 1
        /\ UNCHANGED <<stateLock, pc, entry, stopped, file, now>>
    BY <1>21, FaultCounted DEF Tick, nodeVars
  <2>2. \A t \in Clients : /\ ~Attempting(t) /\ ~Reclaimer(t) /\ ~Writing(t)
                           /\ Recorded(t) => pc[t] \in {"held", "leave"}
    BY <2>1, Constants DEF Prompt, Busy
  <2>3. \A h \in Beats : pc[h] \notin {"due", "hread", "hwrite"}
    BY <2>1, Constants DEF Prompt, Busy
  <2> QED
    BY <2>1, <2>2, <2>3, Constants
<1>22. CASE UNCHANGED vars
  BY <1>22 DEF vars, nodeVars
<1> HIDE DEF Types, TypeOK, NodeTypeOK, Outside, ClientLabels, BeatLabels,
       InCall, Entries, OneOwner, NothingStale, Live, Owning, Writing,
       Recorded, Attempting, Reclaimer, Fresh, IsStale, storeVars, Files
<1> QED
  BY Constants, <1>1, <1>2, <1>3, <1>4, <1>5, <1>6, <1>7, <1>8, <1>9, <1>10,
         <1>11, <1>12, <1>13, <1>14, <1>15, <1>16, <1>17, <1>18, <1>19, <1>20,
         <1>21, <1>22, Zenon DEF Next, NodeStep, ClientStep

-------------------------------------------------------------------------------
(* The empty file. *)

LEMMA FaultlessEmptyWrittenNext == Types /\ FaultlessEmptyWritten /\ [Next]_vars => FaultlessEmptyWritten'
<1> SUFFICES ASSUME Types, FaultlessEmptyWritten, [Next]_vars PROVE FaultlessEmptyWritten'
  OBVIOUS
<1> USE DEF Types, TypeOK, NodeTypeOK, FaultlessEmptyWritten,
       EmptyOnlyWhileWritten, storeVars, Files
<1>1. ASSUME NEW t \in Clients, Begin(t) /\ UNCHANGED storeVars PROVE FaultlessEmptyWritten'
  BY <1>1, Constants, Records DEF Begin, Continue, Goto
<1>2. ASSUME NEW a \in Threads, Enter(a) PROVE FaultlessEmptyWritten'
  BY <1>2, Constants, Records DEF Enter, EnterLock, Goto, Threads
<1>3. ASSUME NEW t \in Clients, Backoff(t) /\ UNCHANGED storeVars PROVE FaultlessEmptyWritten'
  BY <1>3, Constants, Records DEF Backoff, Continue, Goto
<1>4. ASSUME NEW t \in Clients, StartHeartbeat(t) /\ UNCHANGED storeVars PROVE FaultlessEmptyWritten'
  BY <1>4, Constants, Records DEF StartHeartbeat, Goto, Unlock, Threads
<1>5. ASSUME NEW t \in Clients, Leave(t) /\ UNCHANGED storeVars PROVE FaultlessEmptyWritten'
  BY <1>5, Constants, Records DEF Leave, Continue, Goto
<1>6. ASSUME NEW t \in Clients, StopHeartbeat(t) /\ UNCHANGED storeVars PROVE FaultlessEmptyWritten'
  BY <1>6, Constants, Records DEF StopHeartbeat, Threads
<1>7. ASSUME NEW t \in Clients, Open(t) PROVE FaultlessEmptyWritten'
  BY <1>7, Constants, Records DEF Open, Continue, Goto
<1>8. ASSUME NEW t \in Clients, ReadHolder(t) PROVE FaultlessEmptyWritten'
  BY <1>8, Constants, FaultCounted, Records DEF ReadHolder, Continue, Exit,
         Unlock, Goto
<1>9. ASSUME NEW t \in Clients, RenameStale(t) PROVE FaultlessEmptyWritten'
  BY <1>9, Constants, Records DEF RenameStale, Continue, Goto
<1>10. ASSUME NEW t \in Clients, Reopen(t) PROVE FaultlessEmptyWritten'
  BY <1>10, Constants, Records DEF Reopen, Continue, Exit, Unlock, Goto
<1>11. ASSUME NEW t \in Clients, WriteRecord(t) PROVE FaultlessEmptyWritten'
  BY <1>11, Constants, Records DEF WriteRecord, Continue, Goto
<1>12. ASSUME NEW t \in Clients, WriteFails(t) PROVE FaultlessEmptyWritten'
  BY <1>12, Constants, FaultCounted, Records DEF WriteFails, Exit, Unlock, Goto
<1>13. ASSUME NEW t \in Clients, Verify(t) PROVE FaultlessEmptyWritten'
  BY <1>13, Constants, Records DEF Verify, Continue, Exit, Unlock, Goto
<1>14. ASSUME NEW t \in Clients, ReleaseRead(t) PROVE FaultlessEmptyWritten'
  BY <1>14, Constants, Records DEF ReleaseRead, Continue, Exit, Unlock, Goto
<1>15. ASSUME NEW t \in Clients, ReleaseUnlink(t) PROVE FaultlessEmptyWritten'
  BY <1>15, Constants, Records DEF ReleaseUnlink, Exit, Unlock, Goto
<1>16. ASSUME NEW h \in Beats, Due(h) /\ UNCHANGED storeVars PROVE FaultlessEmptyWritten'
  BY <1>16, Constants, Records DEF Due, Continue, Goto
<1>17. ASSUME NEW h \in Beats, HeartbeatRead(h) PROVE FaultlessEmptyWritten'
  BY <1>17, Constants, Records DEF HeartbeatRead, Continue, BeatDies, Exit,
         Unlock, Goto
<1>18. ASSUME NEW h \in Beats, HeartbeatWrite(h) PROVE FaultlessEmptyWritten'
  <2>1. Refreshed(h)
    BY <1>18, HeartbeatRefreshes, Zenon
  <2>2. pc[h] = "hwrite" /\ BeatAgain(h)
    BY <1>18, Zenon DEF HeartbeatWrite
  <2> QED
    BY <2>1, <2>2, Records, Constants DEF Refreshed, BeatAgain, Exit, Unlock, Goto
<1>19. ASSUME NEW h \in Beats, HeartbeatFails(h) PROVE FaultlessEmptyWritten'
  BY <1>19, Constants, FaultCounted, Records DEF HeartbeatFails, BeatDies,
         Exit, Unlock, Goto
<1>20. ASSUME NEW n \in Nodes, Crash(n) PROVE FaultlessEmptyWritten'
  BY <1>20, Constants, FaultCounted, Records DEF Crash, NodeCrash, Threads
<1>21. CASE Tick
  BY <1>21, Constants, FaultCounted, Records DEF Tick, nodeVars
<1>22. CASE UNCHANGED vars
  BY <1>22 DEF vars, nodeVars
<1> HIDE DEF Types, TypeOK, NodeTypeOK, FaultlessEmptyWritten,
       EmptyOnlyWhileWritten, storeVars, Files
<1> QED
  BY Constants, <1>1, <1>2, <1>3, <1>4, <1>5, <1>6, <1>7, <1>8, <1>9, <1>10,
         <1>11, <1>12, <1>13, <1>14, <1>15, <1>16, <1>17, <1>18, <1>19, <1>20,
         <1>21, <1>22, Zenon DEF Next, NodeStep, ClientStep

-------------------------------------------------------------------------------
(* The lock, with whatever its callers do under it. *)

LEMMA LockInvInit == Init => LockInv
BY TypesInit, EntriesInit, OneOwnerInit, Constants
   DEF LockInv, Init, FaultlessEmptyWritten, EmptyOnlyWhileWritten

LEMMA LockInvNext == LockInv /\ [Next]_vars => LockInv'
BY TypesNext, EntriesNext, OneOwnerNext, NothingStaleNext, FaultlessEmptyWrittenNext,
   Zenon DEF LockInv

\* A failed append is a fault and leaves the lock as it is.
LEMMA LockInvAppendFails ==
  ASSUME LockInv, NEW t \in Clients, AppendFails(t)
  PROVE  LockInv'
<1>1. faults' \in 0..MaxFaults /\ faults' > 0
  BY FaultCounted, Zenon DEF LockInv, Types, AppendFails
<1>2. UNCHANGED <<stateLock, pc, entry, stopped, clock, file, now, calm>>
  BY DEF AppendFails, nodeVars
<1>3. Types' /\ Entries'
  BY <1>1, <1>2 DEF LockInv, Types, TypeOK, NodeTypeOK, Entries, Live
<1>4. OneOwner' /\ NothingStale'
  BY <1>2 DEF LockInv, OneOwner, NothingStale, Owning, Writing, Recorded, Attempting,
              Reclaimer, Fresh
<1>5. FaultlessEmptyWritten'
  BY <1>1 DEF FaultlessEmptyWritten
<1> QED
  BY <1>3, <1>4, <1>5 DEF LockInv

\* A step of the buffer is a step of the lock, a failed append, or leaves the lock.
LEMMA BufferSteps ==
  ASSUME [BufferNext]_allVars
  PROVE  \/ LockStep
         \/ \E t \in Clients : AppendFails(t)
         \/ \E t \in Clients : AppendFirst(t) \/ AppendRest(t) \/ AppendToUnlinked(t)
                               \/ ReadAll(t) \/ Clear(t)
         \/ UNCHANGED allVars
BY Zenon DEF BufferNext

LEMMA LockInvBuffer == LockInv /\ [BufferNext]_allVars => LockInv'
<1> SUFFICES ASSUME LockInv, [BufferNext]_allVars PROVE LockInv'
  OBVIOUS
<1>1. CASE LockStep
  BY <1>1, LockInvNext, Zenon DEF LockStep
<1>2. ASSUME NEW t \in Clients, AppendFails(t) PROVE LockInv'
  BY <1>2, LockInvAppendFails
<1>3. CASE UNCHANGED vars
  BY <1>3, LockInvNext, Zenon
<1>4. ASSUME NEW t \in Clients,
             AppendFirst(t) \/ AppendRest(t) \/ AppendToUnlinked(t) \/ ReadAll(t) \/ Clear(t)
      PROVE  UNCHANGED vars
  BY <1>4, Zenon DEF AppendFirst, AppendRest, AppendToUnlinked, ReadAll, Clear
<1>5. UNCHANGED allVars => UNCHANGED vars
  BY DEF allVars
<1> QED
  BY <1>1, <1>2, <1>3, <1>4, <1>5, BufferSteps, Zenon

-------------------------------------------------------------------------------
(* What the buffer needs to know of the lock. *)

\* Whoever gives up its place under the lock has left, or its node crashed.
LEMMA HeldUntil ==
  ASSUME Types, Next, NEW t \in Clients, pc[t] = "held", pc'[t] # "held"
  PROVE  pc'[t] = "leave" \/ faults' = faults + 1
<1> USE DEF Types, TypeOK, NodeTypeOK
<1>1. ASSUME NEW u \in Clients, Begin(u) \/ Backoff(u) PROVE FALSE
  BY <1>1, Constants DEF Begin, Backoff, Continue, Goto
<1>2. ASSUME NEW a \in Threads, Enter(a) PROVE FALSE
  BY <1>2, Constants DEF Enter, EnterLock, Goto
<1>3. ASSUME NEW u \in Clients, StartHeartbeat(u) \/ StopHeartbeat(u) PROVE FALSE
  BY <1>3, Constants DEF StartHeartbeat, StopHeartbeat, Goto, Threads
<1>4. ASSUME NEW u \in Clients, Leave(u) PROVE pc'[t] = "leave"
  BY <1>4, Constants DEF Leave, Continue, Goto
<1>5. ASSUME NEW h \in Beats, Due(h) \/ HeartbeatRead(h) \/ HeartbeatWrite(h) \/ HeartbeatFails(h)
      PROVE  FALSE
  BY <1>5, Constants
     DEF Due, HeartbeatRead, HeartbeatWrite, HeartbeatFails, BeatDies, BeatAgain, Exit,
         Continue, Goto
<1>6. ASSUME NEW u \in Clients, ClientStep(u) \/ WriteFails(u) PROVE FALSE
  BY <1>6, Constants
     DEF ClientStep, Open, ReadHolder, RenameStale, Reopen, WriteRecord, Verify,
         ReleaseRead, ReleaseUnlink, WriteFails, Exit, Continue, Goto
<1>7. ASSUME NEW n \in Nodes, Crash(n) PROVE faults' = faults + 1
  BY <1>7 DEF Crash, Fault
<1>8. ~Tick
  BY DEF Tick, nodeVars
<1> HIDE DEF Types, TypeOK, NodeTypeOK
<1> QED
  BY <1>1, <1>2, <1>3, <1>4, <1>5, <1>6, <1>7, <1>8, Zenon DEF Next, NodeStep

\* Faults are counted and the calm does not come back.
LEMMA FaultsGrow ==
  ASSUME Types, Next
  PROVE  /\ faults' \in {faults, faults + 1}
         /\ calm' => calm
<1>1. \A t \in Clients : WriteFails(t) => faults' = faults + 1 /\ ~calm'
  BY FaultCounted, Zenon DEF WriteFails, Fault
<1>2. \A h \in Beats : HeartbeatFails(h) => faults' = faults + 1 /\ ~calm'
  BY FaultCounted, Zenon DEF HeartbeatFails, Fault
<1>3. \A n \in Nodes : Crash(n) => faults' = faults + 1 /\ UNCHANGED calm
  BY Zenon DEF Crash, Fault
<1>4. Tick => UNCHANGED faults /\ (calm' => calm)
  BY FaultCounted, Zenon DEF Tick
<1>5. \A t \in Clients : ReadHolder(t) => UNCHANGED faults /\ (calm' => calm)
  BY FaultCounted, Zenon DEF ReadHolder
<1>6. NodeStep \/ (\E a \in Threads : Enter(a)) => UNCHANGED faults /\ UNCHANGED calm
  BY Zenon DEF NodeStep, Enter, storeVars
<1>7. \A t \in Clients : ClientStep(t) => ReadHolder(t) \/ (UNCHANGED faults /\ UNCHANGED calm)
  BY DEF ClientStep, Open, RenameStale, Reopen, WriteRecord, Verify, ReleaseRead,
         ReleaseUnlink, storeVars
<1>8. \A h \in Beats : HeartbeatRead(h) \/ HeartbeatWrite(h) => UNCHANGED faults /\ UNCHANGED calm
  BY Zenon DEF HeartbeatRead, HeartbeatWrite, storeVars
<1>9. faults' = faults \/ faults' = faults + 1
  BY <1>1, <1>2, <1>3, <1>4, <1>5, <1>6, <1>7, <1>8, Zenon DEF Next
<1>10. calm' => calm
  BY <1>1, <1>2, <1>3, <1>4, <1>5, <1>6, <1>7, <1>8, Zenon DEF Next
<1> QED
  BY <1>9, <1>10

-------------------------------------------------------------------------------
(* Types of the buffer. *)

LEMMA HalvesCounted ==
  /\ IsFiniteSet(Halves) /\ Cardinality(Halves) \in Nat
  /\ \A S : S \subseteq Halves => IsFiniteSet(S) /\ Cardinality(S) \in Nat
                                  /\ Cardinality(S) <= Cardinality(Halves)
  /\ \A t : t \in Halves => Cardinality(Halves \ {t}) = Cardinality(Halves) - 1
  /\ \A t : t \notin Halves => Cardinality(Halves \cup {t}) = Cardinality(Halves) + 1
<1>1. IsFiniteSet(Halves)
  BY BufferAssumption, FS_Subset DEF Halves
<1> QED
  BY <1>1, FS_Subset, FS_CardinalityType, FS_RemoveElement, FS_AddElement

LEMMA BufferTypesInit == BufferInit => BufferTypes
<1> SUFFICES ASSUME BufferInit PROVE BufferTypes
  OBVIOUS
<1>1. Halves = {}
  BY DEF BufferInit, Halves
<1>2. acked + Cardinality(Halves) <= MaxLines
  BY <1>1, FS_EmptySet, BufferAssumption DEF BufferInit
<1>3. garbled \in BOOLEAN
  BY Zenon DEF BufferInit
<1> QED
  BY <1>2, <1>3 DEF BufferInit, BufferTypes

LEMMA LockStepBufferTypes ==
  ASSUME Types, BufferTypes, LockStep
  PROVE  BufferTypes'
<1> DEFINE Gone == {t \in Clients : pc'[t] # "held"}
<1>1. /\ work' = [t \in Clients |-> IF pc'[t] = "held" THEN work[t] ELSE "none"]
      /\ tail' = IF tail \cap Gone = {} THEN tail ELSE (tail \ Gone) \cup {None}
      /\ UNCHANGED <<lines, garbled, acked>>
  BY DEF LockStep, Orphans
<1>2. Halves' \subseteq Halves
  BY <1>1 DEF Halves
<1>3. Cardinality(Halves') \in Nat /\ Cardinality(Halves') <= Cardinality(Halves)
  BY <1>2, HalvesCounted
<1>4. acked' + Cardinality(Halves') <= MaxLines
  BY <1>1, <1>3, HalvesCounted, BufferAssumption DEF BufferTypes
<1>5. /\ work' \in [Clients -> {"none", "half", "lost", "done"}]
      /\ \A t \in Clients : work'[t] # "none" => pc'[t] = "held"
  BY <1>1 DEF BufferTypes
<1>6. tail' \subseteq Clients \cup {None} /\ \A t \in Clients : t \in tail' => work'[t] = "half"
  BY <1>1, Constants DEF BufferTypes
<1> QED
  BY <1>1, <1>4, <1>5, <1>6 DEF BufferTypes

LEMMA BufferTypesNext ==
  ASSUME Types, BufferTypes, [BufferNext]_allVars
  PROVE  BufferTypes'
<1> USE DEF BufferTypes
<1>1. CASE LockStep
  BY <1>1, LockStepBufferTypes
<1>2. ASSUME NEW t \in Clients, AppendFails(t) PROVE BufferTypes'
  <2>1. Halves' = Halves \ {t} /\ t \in Halves
    BY <1>2 DEF AppendFails, Does, Halves
  <2>2. Cardinality(Halves') \in Nat /\ Cardinality(Halves') <= Cardinality(Halves)
    BY <2>1, HalvesCounted
  <2>3. acked' + Cardinality(Halves') <= MaxLines
    BY <1>2, <2>2, HalvesCounted, BufferAssumption DEF AppendFails
  <2> QED
    BY <1>2, <2>3, Constants DEF AppendFails, Does, Orphans, nodeVars
<1>3. ASSUME NEW t \in Clients, AppendFirst(t) PROVE BufferTypes'
  <2>1. Halves' = Halves \cup {t} /\ t \notin Halves
    BY <1>3 DEF AppendFirst, Does, Halves
  <2>2. Cardinality(Halves') = Cardinality(Halves) + 1
    BY <2>1, HalvesCounted
  <2>3. acked' + Cardinality(Halves') <= MaxLines
    BY <1>3, <2>2, HalvesCounted, BufferAssumption DEF AppendFirst, Halves
  <2> QED
    BY <1>3, <2>3, Constants DEF AppendFirst, Does, vars, nodeVars
<1>4. ASSUME NEW t \in Clients, AppendRest(t) PROVE BufferTypes'
  <2>1. Halves' = Halves \ {t} /\ t \in Halves
    BY <1>4 DEF AppendRest, Does, Halves
  <2>2. Cardinality(Halves') = Cardinality(Halves) - 1
    BY <2>1, HalvesCounted
  <2>3. acked' + Cardinality(Halves') <= MaxLines
    BY <1>4, <2>2, HalvesCounted, BufferAssumption DEF AppendRest
  <2>4. garbled' \in BOOLEAN
    BY <1>4, Zenon DEF AppendRest
  <2> QED
    BY <1>4, <2>3, <2>4, Constants DEF AppendRest, Does, vars, nodeVars
<1>5. ASSUME NEW t \in Clients, AppendToUnlinked(t) \/ ReadAll(t) PROVE BufferTypes'
  <2>1. Halves' = Halves
    BY <1>5 DEF AppendToUnlinked, ReadAll, Does, Halves
  <2> QED
    BY <1>5, <2>1 DEF AppendToUnlinked, ReadAll, Does, vars, nodeVars
<1>6. ASSUME NEW t \in Clients, Clear(t) PROVE BufferTypes'
  <2>1. Halves' = {}
    BY <1>6 DEF Clear, Halves
  <2>2. acked' + Cardinality(Halves') <= MaxLines
    BY <1>6, <2>1, FS_EmptySet, BufferAssumption DEF Clear
  <2>3. garbled' \in BOOLEAN
    BY <1>6, Zenon DEF Clear
  <2>4. /\ work' = [u \in Clients |-> IF u = t THEN "done"
                                      ELSE IF work[u] = "half" THEN "lost" ELSE work[u]]
        /\ pc[t] = "held" /\ UNCHANGED pc
        /\ lines' = 0 /\ acked' = 0 /\ tail' = {}
    BY <1>6 DEF Clear, vars, nodeVars
  <2>5. work' \in [Clients -> {"none", "half", "lost", "done"}]
    BY <2>4
  <2>6. \A u \in Clients : work'[u] # "none" => pc'[u] = "held"
    BY <2>4
  <2> QED
    BY <2>2, <2>3, <2>4, <2>5, <2>6
<1>7. CASE UNCHANGED allVars
  BY <1>7 DEF allVars, vars, nodeVars, bufferVars, Halves
<1> HIDE DEF BufferTypes
<1> QED
  BY <1>1, <1>2, <1>3, <1>4, <1>5, <1>6, <1>7, BufferSteps, Zenon

-------------------------------------------------------------------------------
(* Calm times, and the log. *)

LEMMA WholeInit == BufferInit => Whole
BY DEF BufferInit, Init, Whole

\* A crash in the middle of an append is the only way that leaves an orphan.
LEMMA LockStepWhole ==
  ASSUME Types, BufferTypes, Whole, LockStep
  PROVE  Whole'
<1> DEFINE Gone == {t \in Clients : pc'[t] # "held"}
<1> SUFFICES ASSUME calm' PROVE Whole'
  BY Zenon DEF Whole
<1>1. /\ work' = [t \in Clients |-> IF pc'[t] = "held" THEN work[t] ELSE "none"]
      /\ tail' = IF tail \cap Gone = {} THEN tail ELSE (tail \ Gone) \cup {None}
      /\ UNCHANGED <<lines, garbled, acked>>
  BY DEF LockStep, Orphans
<1>2. calm /\ faults' \in {faults, faults + 1} /\ faults \in Nat
  BY FaultsGrow, Constants DEF LockStep, Types, TypeOK
<1>3. \A t \in Clients : work'[t] = "half" => t \in tail /\ t \notin Gone
  BY <1>1, <1>2 DEF Whole
<1>4. CASE tail \cap Gone = {}
  <2>1. tail' = tail
    BY <1>1, <1>4
  <2>2. acked <= lines + faults' /\ (None \in tail => acked + 1 <= lines + faults')
    BY <1>2 DEF Whole, BufferTypes
  <2>3. faults' = 0 => ~garbled' /\ None \notin tail
    <3>1. faults' = 0 => faults = 0
      BY <1>2
    <3>2. garbled' = garbled
      BY <1>1
    <3> QED
      BY <1>2, <3>1, <3>2, Zenon DEF Whole
  <2> QED
    BY <1>1, <1>3, <2>1, <2>2, <2>3 DEF Whole
<1>5. CASE tail \cap Gone # {}
  <2>1. PICK u \in Clients : u \in tail /\ pc'[u] # "held"
    BY <1>5
  <2>2. pc[u] = "held" /\ work[u] = "half"
    BY <2>1 DEF BufferTypes
  <2>3. faults' = faults + 1
    BY <2>1, <2>2, HeldUntil DEF LockStep
  <2> QED
    BY <1>1, <1>2, <1>3, <1>5, <2>3 DEF Whole, BufferTypes
<1> QED
  BY <1>4, <1>5

\* Who is in the middle of an append in calm times is the only one, and its line has
\* at most an orphan in it.
LEMMA Alone ==
  ASSUME LockInv, BufferTypes, Whole, calm, NEW t \in Clients, pc[t] = "held"
  PROVE  /\ \A u \in Clients : pc[u] = "held" => u = t
         /\ tail \subseteq {t, None}
         /\ work[t] # "half" => tail \subseteq {None}
<1>1. \A u \in Clients : pc[u] = "held" => u = t
  BY DEF LockInv, OneOwner, Owning, Recorded
<1> QED
  BY <1>1 DEF BufferTypes

LEMMA WholeNext ==
  ASSUME LockInv, BufferTypes, Whole, [BufferNext]_allVars
  PROVE  Whole'
<1> USE DEF BufferTypes, Whole
<1>0. faults \in Nat
  BY Constants DEF LockInv, Types, TypeOK
<1>1. CASE LockStep
  BY <1>1, LockStepWhole DEF LockInv
<1>2. ASSUME NEW t \in Clients, AppendFails(t) PROVE Whole'
  BY <1>0, <1>2, Constants DEF AppendFails, Does, Orphans, Fault
<1>3. ASSUME NEW t \in Clients, AppendFirst(t) PROVE Whole'
  BY <1>3, Constants DEF AppendFirst, Does, vars, storeVars
<1>4. ASSUME NEW t \in Clients, AppendRest(t) PROVE Whole'
  <2> SUFFICES ASSUME calm PROVE Whole'
    BY <1>4 DEF AppendRest, vars, storeVars
  <2>1. pc[t] = "held" /\ work[t] = "half" /\ t \in tail
        /\ UNCHANGED <<pc, calm, faults>>
    BY <1>4 DEF AppendRest, Does, vars, storeVars, nodeVars
  <2>2. tail = {t} \/ None \in tail
    BY <2>1, Alone
  <2>3. \A u \in Clients : work'[u] # "half"
    BY <1>4, <2>1, Alone DEF AppendRest, Does
  <2>4. garbled' = (garbled \/ tail # {t})
    BY <1>4 DEF AppendRest
  <2>5. faults = 0 => ~garbled'
    <3> SUFFICES ASSUME faults = 0 PROVE ~garbled'
      OBVIOUS
    <3>1. ~garbled /\ tail = {t}
      BY <2>2
    <3> QED
      BY <2>4, <3>1, Zenon
  <2>6. acked' <= lines' + faults /\ tail' = {}
    BY <1>0, <1>4, <2>2 DEF AppendRest
  <2> QED
    BY <2>1, <2>3, <2>5, <2>6
<1>5. ASSUME NEW t \in Clients, AppendToUnlinked(t) \/ ReadAll(t) PROVE Whole'
  BY <1>5 DEF AppendToUnlinked, ReadAll, Does, vars, storeVars
<1>6. ASSUME NEW t \in Clients, Clear(t) PROVE Whole'
  <2>1. ~garbled'
    BY <1>6, Zenon DEF Clear
  <2> QED
    BY <1>0, <1>6, <2>1 DEF Clear, vars, storeVars
<1>7. CASE UNCHANGED allVars
  BY <1>7 DEF allVars, vars, storeVars, bufferVars
<1> HIDE DEF BufferTypes, Whole
<1> QED
  BY <1>1, <1>2, <1>3, <1>4, <1>5, <1>6, <1>7, BufferSteps, Zenon

-------------------------------------------------------------------------------
(* The theorems. *)

LEMMA BufferInvHolds == BufferSpec => []BufferInv
<1>1. BufferInit => BufferInv
  BY LockInvInit, BufferTypesInit, WholeInit, Zenon DEF BufferInit, BufferInv
<1>2. BufferInv /\ [BufferNext]_allVars => BufferInv'
  BY LockInvBuffer, BufferTypesNext, WholeNext, Zenon DEF BufferInv, LockInv
<1> QED
  BY <1>1, <1>2, PTL DEF BufferSpec

\* Every variable stays in its type; a state lock is held by a thread of its node
\* inside a call, and only who is in the middle of an append has a chunk in the
\* unfinished line (config_shield.py, global_sync.py).
THEOREM BufferTyped == BufferSpec => []BufferTypeOK
<1>1. BufferInv => BufferTypeOK
  <2> SUFFICES ASSUME BufferInv PROVE BufferTypeOK
    OBVIOUS
  <2>1. lines \in 0..MaxLines /\ acked \in 0..MaxLines
    BY HalvesCounted, BufferAssumption DEF BufferInv, BufferTypes
  <2> QED
    BY <2>1 DEF BufferInv, LockInv, Types, BufferTypes, BufferTypeOK
<1> QED
  BY <1>1, BufferInvHolds, PTL

\* In calm times two callers never work under the lock file, and who works finds its
\* own node's record there, although stale records of crashed nodes are renamed away
\* by others (acquire, release and heartbeat of config_shield.py together).
THEOREM FileCalmLock == BufferSpec => []CalmLock
<1>1. BufferInv => CalmLock
  BY DEF BufferInv, LockInv, OneOwner, Owning, Recorded, CalmLock, MutualExclusion, Working
<1> QED
  BY <1>1, BufferInvHolds, PTL

\* The heartbeat threads of a node match its holders with the lock file too, however
\* late, lost or failed its operations are (_start_heartbeat and release).
THEOREM FileHeartbeats == BufferSpec => []HeartbeatsMatchHolders
<1>1. BufferInv => HeartbeatsMatchHolders
  BY DEF BufferInv, LockInv, Entries, HeartbeatsMatchHolders
<1> QED
  BY <1>1, BufferInvHolds, PTL

\* Without crashes and failed writes an empty lock file is always about to be written
\* by the thread that created it (_acquire_once, config_shield.py:168).
THEOREM EmptyFileWritten == BufferSpec => []FaultlessEmptyWritten
<1>1. BufferInv => FaultlessEmptyWritten
  BY DEF BufferInv, LockInv
<1> QED
  BY <1>1, BufferInvHolds, PTL

\* In calm times the buffer is the log of the appends that returned; each crash or
\* failed write costs at most one of them (global_sync.py:45-56).
THEOREM BufferIsLog == BufferSpec => []CalmBufferIsLog
<1>1. BufferInv => CalmBufferIsLog
  <2> SUFFICES ASSUME BufferInv, calm, NEW t \in Clients, Working(t),
                      work[t] \in {"none", "done"}
               PROVE  /\ faults = 0 => tail = {} /\ ~garbled
                      /\ lines <= acked /\ acked <= lines + faults
    BY DEF CalmBufferIsLog
  <2>1. lines <= acked /\ acked <= lines + faults
    BY DEF BufferInv, BufferTypes, Whole
  <2>2. tail \subseteq {None}
    <3>1. \A u \in Clients : u \in tail => pc[u] = "held" /\ u # t
      BY DEF BufferInv, BufferTypes
    <3>2. \A u \in Clients : pc[u] = "held" => u = t
      BY DEF BufferInv, LockInv, OneOwner, Owning, Recorded, Working
    <3> QED
      BY <3>1, <3>2 DEF BufferInv, BufferTypes
  <2>3. faults = 0 => ~garbled /\ None \notin tail
    BY Zenon DEF BufferInv, Whole
  <2> QED
    BY <2>1, <2>2, <2>3
<1> QED
  BY <1>1, BufferInvHolds, PTL
===============================================================================
