----------------------------- MODULE AuditShipper -----------------------------
(***************************************************************************)
(* The audit shipper (cluster/shipper.py): a thread that tails one node's  *)
(* ledger table with the cursor (created_at, id) and appends what it finds *)
(* to the node's Redis stream.  The writers are the processes that create  *)
(* entries (ops_ledger.py): a row gets its created_at when the LedgerEntry *)
(* object is built and becomes visible when its INSERT commits, later.     *)
(*                                                                         *)
(* A batch is one MULTI/EXEC: the stream is a sequence of batches, each a  *)
(* set of ids.  Changes of an entry's status do not move it in the query's *)
(* order and are never shipped: the payload carries none here.  A stop()   *)
(* is a Crash between two batches.                                         *)
(***************************************************************************)
EXTENDS Integers, FiniteSets, Sequences

CONSTANTS Ids,              \* entry ids (uuids, handed out in any order); their
                            \* order is the order of strings
          Writers,          \* processes that create entries in this table
          BatchSize,
          MaxClock,         \* bound: last millisecond of the clock
          MaxFaults         \* bound: crashes and lost replies

ASSUME ShipperAssumption ==
  /\ Ids \subseteq Nat \ {0}
  /\ BatchSize \in Nat \ {0}
  /\ MaxClock \in Nat \ {0} /\ MaxFaults \in Nat

VARIABLES clock,            \* utc_ms()
          table,            \* Ids -> created_at, or NoRow
          draft,            \* Writers -> {<<ts, id>>} not yet inserted, or {}
          used,             \* ids ever handed out
          cursor,           \* (_last_ts, _last_id)
          disk,             \* the checkpoint file: a cursor, or Corrupt
          pc,               \* "wait", "send", "advance", "save"
          batch,            \* the page in memory: its ids and its last key
          stream,           \* batches in the node's Redis stream, oldest first
          faults,
          late              \* history: rows that became visible behind the
                            \* position the shipper had already read up to
vars == <<clock, table, draft, used, cursor, disk, pc, batch, stream, faults, late>>

NoRow == -1
NoBatch == [ids |-> {}, last |-> <<0, 0>>]
Start == <<0, 0>>           \* (0, "")
Corrupt == <<-1, 0>>        \* a checkpoint file that does not parse

-------------------------------------------------------------------------------
(* The cursor order and the incremental query. *)

LaterTs(k, c) == k[1] > c[1]

Later(k, c) == k[1] > c[1] \/ (k[1] = c[1] /\ k[2] > c[2])

Present(i) == table[i] # NoRow
Key(i) == <<table[i], i>>
RowsAfterByTs(c) == {i \in Ids : Present(i) /\ LaterTs(Key(i), c)}

RowsAfter(c) == {i \in Ids : Present(i) /\ Later(Key(i), c)}

IsUnorderedPage(B, c) ==
  /\ Cardinality(B) <= BatchSize
  /\ B = RowsAfter(c) \/ Cardinality(B) = BatchSize

\* B is what `ORDER BY created_at, id LIMIT BatchSize` returns of RowsAfter(c).
IsPage(B, c) ==
  /\ Cardinality(B) <= BatchSize
  /\ \A i \in B, j \in RowsAfter(c) \ B : Later(Key(j), Key(i))
  /\ B = RowsAfter(c) \/ Cardinality(B) = BatchSize

\* k is the key of the last row of page B.
IsLast(k, B) == \E i \in B : k = Key(i) /\ \A j \in B \ {i} : Later(k, Key(j))

Shipped == {i \in Ids : \E n \in 1..Len(stream) : i \in stream[n].ids}

-------------------------------------------------------------------------------
(* The writers. *)

Init ==
  /\ clock = 1
  /\ table = [i \in Ids |-> NoRow]
  /\ draft = [w \in Writers |-> {}]
  /\ used = {}
  /\ cursor = Start /\ disk = Start
  /\ pc = "wait" /\ batch = NoBatch /\ stream = <<>>
  /\ faults = 0 /\ late = {}

shipperVars == <<cursor, disk, pc, batch, stream>>

Tick ==
  /\ clock < MaxClock
  /\ clock' = clock + 1
  /\ UNCHANGED <<table, draft, used, shipperVars, faults, late>>

\* create_entry builds the LedgerEntry: created_at is read here.
Draft(w, i) ==
  /\ draft[w] = {}
  /\ i \notin used
  /\ draft' = [draft EXCEPT ![w] = {<<clock, i>>}]
  /\ used' = used \cup {i}
  /\ UNCHANGED <<clock, table, shipperVars, faults, late>>

\* How far the shipper has read: the end of the page in memory, or the cursor.
Frontier == IF pc = "wait" THEN cursor ELSE batch.last

Insert(w) ==
  \E k \in draft[w] :
    /\ table' = [table EXCEPT ![k[2]] = k[1]]
    /\ draft' = [draft EXCEPT ![w] = {}]
    /\ late' = IF Later(k, Frontier) THEN late ELSE late \cup {k[2]}
    /\ UNCHANGED <<clock, used, shipperVars, faults>>

DeleteEntry(i) ==
  /\ Present(i)
  /\ table' = [table EXCEPT ![i] = NoRow]
  /\ UNCHANGED <<clock, draft, used, shipperVars, faults, late>>

-------------------------------------------------------------------------------
(* The shipper thread: _run_loop around _ship_batch. *)

\* get_incremental finds nothing: the round is over, the loop waits again.
FetchNothing ==
  /\ pc = "wait" /\ RowsAfter(cursor) = {}
  /\ UNCHANGED vars

Fetch ==
  /\ pc = "wait"
  /\ \E B \in SUBSET RowsAfter(cursor) :
       \E k \in {Key(i) : i \in B} :
         /\ IsPage(B, cursor) /\ IsLast(k, B)
         /\ batch' = [ids |-> B, last |-> k]
  /\ pc' = "send"
  /\ UNCHANGED <<clock, table, draft, used, cursor, disk, stream, faults, late>>

\* The pipeline is executed and its reply arrives.
Execute ==
  /\ pc = "send"
  /\ stream' = Append(stream, batch)
  /\ pc' = "advance"
  /\ UNCHANGED <<clock, table, draft, used, cursor, disk, batch, faults, late>>

\* The batch is in the stream, but the connection breaks before the reply: the
\* exception sends the loop into its backoff with the cursor where it was.
ExecuteReplyLost ==
  /\ pc = "send" /\ faults < MaxFaults
  /\ stream' = Append(stream, batch)
  /\ pc' = "wait" /\ batch' = NoBatch
  /\ faults' = faults + 1
  /\ UNCHANGED <<clock, table, draft, used, cursor, disk, late>>

ExecuteFailsButSkips ==
  /\ pc = "send"
  /\ pc' = "advance"
  /\ UNCHANGED <<clock, table, draft, used, cursor, disk, batch, stream, faults, late>>

\* Redis is unreachable: nothing reached it, the loop backs off and retries.
ExecuteFails ==
  /\ pc = "send"
  /\ pc' = "wait" /\ batch' = NoBatch
  /\ UNCHANGED <<clock, table, draft, used, cursor, disk, stream, faults, late>>

LoadCheckpointUnchecked == disk

\* _load_checkpoint on the checkpoint file.
LoadCheckpoint == IF disk = Corrupt THEN Start ELSE disk

AdvanceSavingFirst ==
  /\ pc = "advance"
  /\ disk' = batch.last
  /\ pc' = "save"
  /\ UNCHANGED <<clock, table, draft, used, cursor, batch, stream, faults, late>>

\* _last_ts and _last_id move to the last row of the batch.
Advance ==
  /\ pc = "advance"
  /\ cursor' = batch.last
  /\ pc' = "save"
  /\ UNCHANGED <<clock, table, draft, used, disk, batch, stream, faults, late>>

\* _save_checkpoint replaces the file, or raises (disk full): the cursor in
\* memory has moved either way.
Save ==
  /\ pc = "save"
  /\ \/ disk' = cursor /\ UNCHANGED faults
     \/ disk' = disk /\ faults < MaxFaults /\ faults' = faults + 1
  /\ pc' = "wait" /\ batch' = NoBatch
  /\ UNCHANGED <<clock, table, draft, used, cursor, stream, late>>

\* The process dies and a new one reads the checkpoint.  The file is replaced
\* without an fsync: a power loss while it is saved may leave it unreadable.
Crash ==
  /\ faults < MaxFaults
  /\ faults' = faults + 1
  /\ \/ disk' = disk
     \/ pc = "save" /\ disk' = Corrupt
  /\ cursor' = LoadCheckpoint'
  /\ pc' = "wait" /\ batch' = NoBatch
  /\ \E W \in SUBSET Writers :     \* the writers that die with the shipper
       draft' = [w \in Writers |-> IF w \in W THEN {} ELSE draft[w]]
  /\ UNCHANGED <<clock, table, used, stream, late>>

Shipper == Fetch \/ Execute \/ Advance \/ Save

Next ==
  \/ Tick
  \/ \E w \in Writers : Insert(w) \/ \E i \in Ids : Draft(w, i)
  \/ \E i \in Ids : DeleteEntry(i)
  \/ FetchNothing \/ Shipper \/ ExecuteReplyLost \/ ExecuteFails \/ Crash

Spec == Init /\ [][Next]_vars

\* The thread keeps running, and Redis, tried again and again, does answer.
FairSpec == Spec /\ WF_vars(Fetch \/ Advance \/ Save) /\ SF_vars(Execute)

-------------------------------------------------------------------------------
(* Properties. *)

Cursors == (0..MaxClock) \X ({0} \cup Ids)

TypeOK ==
  /\ clock \in 1..MaxClock
  /\ table \in [Ids -> (1..MaxClock) \cup {NoRow}]
  /\ draft \in [Writers -> SUBSET ((1..MaxClock) \X Ids)]
  /\ used \subseteq Ids
  /\ cursor \in Cursors
  /\ disk \in Cursors \cup {Corrupt}
  /\ pc \in {"wait", "send", "advance", "save"}
  /\ batch \in [ids : SUBSET Ids, last : Cursors]
  /\ stream \in Seq([ids : SUBSET Ids, last : Cursors])
  /\ faults \in 0..MaxFaults
  /\ late \subseteq Ids

\* Whatever crashes, lost replies and failed saves happen, neither the cursor in
\* memory nor the one a restart would load has passed a row that is not in the
\* stream, except rows that became visible behind the reading position.
SentBeforePassed ==
  \A c \in {cursor, LoadCheckpoint}, i \in Ids :
    Present(i) /\ ~Later(Key(i), c) => i \in Shipped \cup late

\* The checkpoint file never runs ahead of the cursor of the running process.
CheckpointBehindCursor ==
  disk = Corrupt \/ ~Later(disk, cursor)

\* "0 lost" (docs/OpsSentry_Operations_Runbook.md:12): the cursor has passed no
\* visible row that is not in the stream.
NoRecordLost ==
  \A i \in Ids : Present(i) /\ ~Later(Key(i), cursor) => i \in Shipped

\* Every visible row reaches the stream sooner or later, through any number of
\* failed attempts, unless it is deleted first or appeared behind the cursor.
EventuallyShipped ==
  \A i \in Ids : Present(i) ~> (i \in Shipped \cup late \/ ~Present(i))
===============================================================================
