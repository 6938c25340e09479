------------------------- MODULE AuditShipper_proofs -------------------------
(***************************************************************************)
(* The audit shipper skips nothing but what became visible too late, and a *)
(* restart resumes behind the running process: proved for any ids, any     *)
(* number of writers, any page size and any number of faults.              *)
(***************************************************************************)
EXTENDS AuditShipper, SequenceTheorems, TLAPS

\* The rows a position has passed are in the stream, or came late.
Covered(c) ==
  \A i \in Ids : Present(i) /\ ~Later(Key(i), c) => i \in Shipped \cup late

\* A page in memory continues the cursor without a gap.
PageInv ==
  pc # "wait" =>
    /\ ~Later(cursor, batch.last)
    /\ \A i \in Ids : Present(i) /\ ~Later(Key(i), batch.last) =>
         i \in Shipped \cup late \cup batch.ids
    /\ pc \in {"advance", "save"} => batch.ids \subseteq Shipped
    /\ pc = "save" => cursor = batch.last

IInv ==
  /\ TypeOK
  /\ Covered(cursor) /\ Covered(LoadCheckpoint)
  /\ CheckpointBehindCursor
  /\ PageInv

-------------------------------------------------------------------------------
(* Cursors and the stream. *)

Pairs == Int \X Int

\* The order of the query is a strict total order on pairs of integers.
LEMMA Order ==
  /\ \A a, b, c \in Pairs : Later(a, b) /\ ~Later(c, b) => Later(a, c)
  /\ \A a, b, c \in Pairs : ~Later(a, b) /\ ~Later(b, c) => ~Later(a, c)
  /\ \A a, b \in Pairs : Later(a, b) => ~Later(b, a)
  /\ \A a \in Pairs : ~Later(a, a)
BY SMT DEF Later, Pairs

\* Every position of the system is such a pair, and every row is after Start.
LEMMA Positions ==
  ASSUME TypeOK
  PROVE  /\ cursor \in Pairs /\ batch.last \in Pairs /\ disk \in Pairs
         /\ LoadCheckpoint \in Cursors /\ LoadCheckpoint \in Pairs
         /\ Cursors \subseteq Pairs
         /\ \A i \in Ids : Present(i) =>
              Key(i) \in Pairs /\ Key(i) \in Cursors /\ Later(Key(i), Start)
<1>0. 0..MaxClock \subseteq Int /\ {0} \cup Ids \subseteq Int /\ 0 \in 0..MaxClock
  BY ShipperAssumption
<1>1. Cursors \subseteq Pairs
  BY <1>0 DEF Cursors, Pairs
<1>2. Start \in Cursors /\ Corrupt \in Pairs
  BY <1>0 DEF Cursors, Start, Corrupt, Pairs
<1>3. cursor \in Cursors /\ batch.last \in Cursors /\ disk \in Cursors \cup {Corrupt}
  BY DEF TypeOK
<1>4. LoadCheckpoint \in Cursors
  BY <1>2, <1>3 DEF LoadCheckpoint
<1>5. ASSUME NEW i \in Ids, Present(i)
      PROVE  Key(i) \in Pairs /\ Key(i) \in Cursors /\ Later(Key(i), Start)
  <2>1. table[i] \in 1..MaxClock
    BY <1>5 DEF TypeOK, Present
  <2>2. Key(i) = <<table[i], i>>
    BY DEF Key
  <2>3. table[i] \in 0..MaxClock /\ table[i] > 0
    BY <2>1, ShipperAssumption
  <2>4. Key(i) \in Cursors
    BY <2>2, <2>3 DEF Cursors
  <2> QED
    BY <2>2, <2>3, <2>4, <1>1 DEF Later, Start
<1> QED
  BY <1>1, <1>2, <1>3, <1>4, <1>5

\* A batch that reaches the stream ships its ids and nothing else.
LEMMA Sent ==
  ASSUME TypeOK, stream' = Append(stream, batch)
  PROVE  /\ stream' \in Seq([ids : SUBSET Ids, last : Cursors])
         /\ Shipped' = Shipped \cup batch.ids
<1>1. /\ stream \in Seq([ids : SUBSET Ids, last : Cursors])
      /\ batch \in [ids : SUBSET Ids, last : Cursors]
  BY DEF TypeOK
<1> DEFINE Batches == [ids : SUBSET Ids, last : Cursors]
<1>2. /\ Len(stream') = Len(stream) + 1 /\ Len(stream) \in Nat
      /\ \A n \in 1..Len(stream) : stream'[n] = stream[n]
      /\ stream'[Len(stream) + 1] = batch
      /\ stream' \in Seq(Batches)
  <2>1. stream \in Seq(Batches) /\ batch \in Batches
    BY <1>1
  <2> HIDE DEF Batches
  <2> QED
    BY <2>1
<1>4. batch.ids \subseteq Ids
  BY <1>1
<1>3. \A i \in Ids : i \in Shipped' <=> i \in Shipped \/ i \in batch.ids
  <2> SUFFICES ASSUME NEW i \in Ids
               PROVE  i \in Shipped' <=> i \in Shipped \/ i \in batch.ids
    OBVIOUS
  <2>1. i \in Shipped' <=> \E n \in 1..Len(stream') : i \in stream'[n].ids
    BY DEF Shipped
  <2>2. i \in Shipped <=> \E n \in 1..Len(stream) : i \in stream[n].ids
    BY DEF Shipped
  <2>3. 1..Len(stream') = 1..Len(stream) \cup {Len(stream) + 1}
    BY <1>2
  <2> QED
    BY <1>2, <2>1, <2>2, <2>3
<1>5. Shipped' \subseteq Ids /\ Shipped \subseteq Ids
  BY DEF Shipped
<1> QED
  BY <1>2, <1>3, <1>4, <1>5

-------------------------------------------------------------------------------
(* The invariant. *)

LEMMA InitIInv == Init => IInv
<1> SUFFICES ASSUME Init PROVE IInv
  OBVIOUS
<1>1. Start \in Cursors /\ NoBatch \in [ids : SUBSET Ids, last : Cursors]
  <2>1. 0 \in 0..MaxClock
    BY ShipperAssumption
  <2> QED
    BY <2>1 DEF Cursors, Start, NoBatch
<1>2. TypeOK
  <2>1. clock \in 1..MaxClock /\ faults \in 0..MaxFaults
    BY ShipperAssumption DEF Init
  <2>2. stream \in Seq([ids : SUBSET Ids, last : Cursors])
    BY DEF Init
  <2> QED
    BY <1>1, <2>1, <2>2 DEF Init, TypeOK
<1>3. \A i \in Ids : ~Present(i)
  BY DEF Init, Present
<1>4. CheckpointBehindCursor
  BY <1>2, Positions, Order DEF Init, CheckpointBehindCursor
<1> QED
  BY <1>2, <1>3, <1>4 DEF IInv, Covered, PageInv, Init

LEMMA StepType == TypeOK /\ [Next]_vars => TypeOK'
<1> SUFFICES ASSUME TypeOK, [Next]_vars PROVE TypeOK'
  OBVIOUS
<1> USE ShipperAssumption
<1>1. CASE Tick
  BY <1>1 DEF TypeOK, Tick, shipperVars
<1>2. ASSUME NEW w \in Writers, Insert(w) PROVE TypeOK'
  <2>1. PICK k \in draft[w] : Insert(w)!(k)
    BY <1>2 DEF Insert
  <2>2. k \in (1..MaxClock) \X Ids
    BY DEF TypeOK
  <2>3. k[1] \in 1..MaxClock /\ k[2] \in Ids
    BY <2>2
  <2> QED
    BY <2>1, <2>3 DEF TypeOK, shipperVars
<1>3. ASSUME NEW w \in Writers, NEW i \in Ids, Draft(w, i) PROVE TypeOK'
  BY <1>3 DEF TypeOK, Draft, shipperVars
<1>4. ASSUME NEW i \in Ids, DeleteEntry(i) PROVE TypeOK'
  BY <1>4 DEF TypeOK, DeleteEntry, shipperVars
<1>5. CASE FetchNothing
  BY <1>5 DEF TypeOK, FetchNothing, vars
<1>6. CASE Fetch
  <2>1. PICK B \in SUBSET RowsAfter(cursor) :
          \E k \in {Key(i) : i \in B} : batch' = [ids |-> B, last |-> k]
    BY <1>6 DEF Fetch
  <2>0. PICK k \in {Key(i) : i \in B} : batch' = [ids |-> B, last |-> k]
    BY <2>1
  <2>2. B \subseteq Ids /\ \A i \in B : Present(i)
    BY DEF RowsAfter
  <2>3. k \in Cursors
    BY <2>2, Positions
  <2> QED
    BY <1>6, <2>0, <2>2, <2>3 DEF TypeOK, Fetch
<1>7. ASSUME Execute \/ ExecuteReplyLost PROVE TypeOK'
  <2>1. stream' \in Seq([ids : SUBSET Ids, last : Cursors])
    BY <1>7, Sent DEF Execute, ExecuteReplyLost
  <2>2. NoBatch \in [ids : SUBSET Ids, last : Cursors]
    BY DEF NoBatch, Cursors
  <2>3. batch' \in [ids : SUBSET Ids, last : Cursors]
    BY <1>7, <2>2 DEF TypeOK, Execute, ExecuteReplyLost
  <2>4. faults' \in 0..MaxFaults
    BY <1>7 DEF TypeOK, Execute, ExecuteReplyLost
  <2> QED
    BY <1>7, <2>1, <2>3, <2>4 DEF TypeOK, Execute, ExecuteReplyLost
<1>8. CASE ExecuteFails
  BY <1>8 DEF TypeOK, ExecuteFails, NoBatch, Cursors
<1>9. CASE Advance
  BY <1>9 DEF TypeOK, Advance
<1>10. CASE Save
  <2>1. NoBatch \in [ids : SUBSET Ids, last : Cursors]
    BY DEF NoBatch, Cursors
  <2> QED
    BY <1>10, <2>1 DEF TypeOK, Save
<1>11. CASE Crash
  <2>1. NoBatch \in [ids : SUBSET Ids, last : Cursors] /\ Start \in Cursors
    BY DEF NoBatch, Cursors, Start
  <2>2. disk' \in Cursors \cup {Corrupt} /\ cursor' \in Cursors
    BY <1>11, <2>1 DEF TypeOK, Crash, LoadCheckpoint
  <2>3. draft' \in [Writers -> SUBSET ((1..MaxClock) \X Ids)]
    BY <1>11 DEF TypeOK, Crash
  <2> QED
    BY <1>11, <2>1, <2>2, <2>3 DEF TypeOK, Crash
<1>12. CASE UNCHANGED vars
  BY <1>12 DEF TypeOK, vars
<1> QED
  BY <1>1, <1>2, <1>3, <1>4, <1>5, <1>6, <1>7, <1>8, <1>9, <1>10, <1>11, <1>12
     DEF Next, Shipper

LEMMA StepIInv == IInv /\ [Next]_vars => IInv'
<1> SUFFICES ASSUME IInv, [Next]_vars PROVE IInv'
  OBVIOUS
<1>0. TypeOK /\ TypeOK'
  BY StepType DEF IInv
<1>1. /\ cursor \in Pairs /\ batch.last \in Pairs /\ disk \in Pairs
      /\ LoadCheckpoint \in Pairs
      /\ \A i \in Ids : Present(i) => Key(i) \in Pairs /\ Later(Key(i), Start)
  BY <1>0, Positions
<1>2. ~Later(LoadCheckpoint, cursor)
  <2>1. cursor \in Cursors
    BY <1>0 DEF TypeOK
  <2>2. cursor[1] >= 0 /\ cursor[2] >= 0
    <3>1. cursor[1] \in 0..MaxClock /\ cursor[2] \in {0} \cup Ids
      BY <2>1 DEF Cursors
    <3>2. (\A n \in 0..MaxClock : n >= 0) /\ (\A n \in Ids : n >= 0)
      BY ShipperAssumption
    <3>3. \A n \in {0} \cup Ids : n >= 0
      BY <3>2
    <3> QED
      BY <3>1, <3>2, <3>3
  <2>3. ~Later(Start, cursor)
    BY <2>2, <1>1 DEF Later, Start, Pairs
  <2> QED
    BY <2>3 DEF IInv, CheckpointBehindCursor, LoadCheckpoint
<1>3. /\ UNCHANGED stream => Shipped' = Shipped
      /\ UNCHANGED table =>
           \A i \in Ids : (Present(i)' <=> Present(i)) /\ Key(i)' = Key(i)
      /\ UNCHANGED disk => LoadCheckpoint' = LoadCheckpoint
  BY DEF Shipped, Present, Key, LoadCheckpoint
<1>4. ASSUME Tick \/ FetchNothing \/ UNCHANGED vars PROVE IInv'
  BY <1>0, <1>3, <1>4
     DEF IInv, Covered, PageInv, CheckpointBehindCursor, Later, Tick,
         FetchNothing, vars, shipperVars
<1>5. ASSUME NEW w \in Writers, NEW i \in Ids, Draft(w, i) PROVE IInv'
  BY <1>0, <1>3, <1>5
     DEF IInv, Covered, PageInv, CheckpointBehindCursor, Later, Draft, shipperVars
<1>6. ASSUME NEW w \in Writers, Insert(w) PROVE IInv'
  <2>1. PICK k \in draft[w] : Insert(w)!(k)
    BY <1>6 DEF Insert
  <2>2. k \in (1..MaxClock) \X Ids
    BY <1>0 DEF TypeOK
  <2>3. k \in Pairs /\ k[1] \in 1..MaxClock /\ k[2] \in Ids
    <3>1. 1..MaxClock \subseteq Int /\ Ids \subseteq Int
      BY ShipperAssumption
    <3> QED
      BY <2>2, <3>1 DEF Pairs
  <2>4. /\ Key(k[2])' = k
        /\ \A i \in Ids \ {k[2]} : (Present(i)' <=> Present(i)) /\ Key(i)' = Key(i)
    BY <2>1, <2>2, <2>3, <1>0 DEF TypeOK, Key, Present
  <2>5. Shipped' = Shipped /\ LoadCheckpoint' = LoadCheckpoint
    BY <1>3, <2>1 DEF shipperVars
  <2>6. late \subseteq late'
    BY <2>1
  <2>7. Later(k, Frontier) =>
          /\ Later(k, cursor) /\ Later(k, LoadCheckpoint)
          /\ pc # "wait" => Later(k, batch.last)
    BY <1>1, <1>2, <2>3, Order DEF IInv, PageInv, Frontier
  <2>8. k[2] \in late' \/ Later(k, Frontier)
    BY <2>1
  <2>9. /\ UNCHANGED <<cursor, disk, pc, batch>>
        /\ cursor' = cursor /\ batch' = batch
    BY <2>1 DEF shipperVars
  <2>10. \A i \in Ids : Present(i)' =>
           \/ Key(i)' = k /\ (i \in late' \/ Later(k, Frontier))
           \/ Present(i) /\ Key(i)' = Key(i)
    BY <2>4, <2>8
  <2>11. Covered(cursor)' /\ Covered(LoadCheckpoint)'
    <3>1. \A i \in Ids : Present(i)' /\ ~Later(Key(i)', cursor) => i \in Shipped \cup late'
      BY <2>6, <2>7, <2>10 DEF IInv, Covered
    <3>2. \A i \in Ids :
            Present(i)' /\ ~Later(Key(i)', LoadCheckpoint) => i \in Shipped \cup late'
      BY <2>6, <2>7, <2>10 DEF IInv, Covered
    <3> QED
      BY <2>5, <2>9, <3>1, <3>2 DEF Covered, Later
  <2>12. PageInv'
    <3> SUFFICES ASSUME pc # "wait" PROVE PageInv'
      BY <2>9 DEF PageInv
    <3>1. \A i \in Ids : Present(i)' /\ ~Later(Key(i)', batch.last) =>
            i \in (Shipped \cup batch.ids) \cup late'
      <4>1. \A i \in Ids : Present(i) /\ ~Later(Key(i), batch.last) =>
              i \in (Shipped \cup batch.ids) \cup late
        BY DEF IInv, PageInv
      <4> QED
        BY <2>6, <2>7, <2>10, <4>1
    <3> QED
      BY <2>5, <2>9, <3>1 DEF IInv, PageInv, Later
  <2> QED
    BY <1>0, <2>9, <2>11, <2>12 DEF IInv, CheckpointBehindCursor, Later
<1>7. ASSUME NEW d \in Ids, DeleteEntry(d) PROVE IInv'
  <2>1. \A i \in Ids : Present(i)' => Present(i) /\ Key(i)' = Key(i)
    BY <1>0, <1>7 DEF DeleteEntry, TypeOK, Present, Key
  <2> QED
    BY <1>0, <1>3, <1>7, <2>1
       DEF IInv, Covered, PageInv, CheckpointBehindCursor, Later, DeleteEntry,
           shipperVars
<1>8. ASSUME Fetch PROVE IInv'
  <2>1. PICK B \in SUBSET RowsAfter(cursor) :
          \E k \in {Key(i) : i \in B} :
            IsPage(B, cursor) /\ batch' = [ids |-> B, last |-> k]
    BY <1>8 DEF Fetch
  <2>2. PICK k \in {Key(i) : i \in B} :
          IsPage(B, cursor) /\ batch' = [ids |-> B, last |-> k]
    BY <2>1
  <2>3. PICK b \in B : k = Key(b)
    BY <2>2
  <2>4. b \in Ids /\ Present(b) /\ Later(k, cursor) /\ k \in Pairs
    BY <2>1, <2>3, <1>1 DEF RowsAfter
  <2>5. \A i \in Ids : Present(i) /\ ~Later(Key(i), k) =>
          i \in Shipped \cup late \cup B
    <3> SUFFICES ASSUME NEW i \in Ids, Present(i), ~Later(Key(i), k), i \notin B
                 PROVE  i \in Shipped \cup late
      OBVIOUS
    <3>1. i \notin RowsAfter(cursor)
      BY <2>2, <2>3 DEF IsPage
    <3> QED
      BY <3>1 DEF IInv, Covered, RowsAfter
  <2>6. ~Later(cursor, k)
    BY <2>4, <1>1, Order
  <2>7. /\ UNCHANGED <<table, cursor, disk, stream, late>> /\ pc' = "send"
        /\ batch'.ids = B /\ batch'.last = k
    BY <1>8, <2>2 DEF Fetch
  <2> QED
    BY <1>0, <1>3, <2>5, <2>6, <2>7
       DEF IInv, Covered, PageInv, CheckpointBehindCursor, Later
<1>9. ASSUME Execute \/ ExecuteReplyLost PROVE IInv'
  <2>1. Shipped' = Shipped \cup batch.ids
    BY <1>0, <1>9, Sent DEF Execute, ExecuteReplyLost
  <2> QED
    BY <1>0, <1>3, <1>9, <2>1
       DEF IInv, Covered, PageInv, CheckpointBehindCursor, Later, Execute,
           ExecuteReplyLost
<1>10. ASSUME ExecuteFails PROVE IInv'
  BY <1>0, <1>3, <1>10
     DEF IInv, Covered, PageInv, CheckpointBehindCursor, Later, ExecuteFails
<1>11. ASSUME Advance PROVE IInv'
  <2>1. disk = Corrupt \/ ~Later(disk, batch.last)
    BY <1>1, <1>11, Order DEF IInv, CheckpointBehindCursor, PageInv, Advance
  <2>2. ~Later(batch.last, batch.last)
    BY <1>1, Order
  <2>3. Covered(batch.last)
    BY <1>11 DEF IInv, PageInv, Covered, Advance
  <2> QED
    BY <1>0, <1>3, <1>11, <2>1, <2>2, <2>3
       DEF IInv, Covered, PageInv, CheckpointBehindCursor, Later, Advance
<1>12. ASSUME Save PROVE IInv'
  <2>1. UNCHANGED <<table, cursor, stream, late>> /\ pc' = "wait"
    BY <1>12 DEF Save
  <2>2. disk' \in {cursor, disk} /\ LoadCheckpoint' \in {cursor, LoadCheckpoint}
    <3>1. Corrupt \notin Cursors
      BY DEF Corrupt, Cursors
    <3> QED
      BY <1>0, <1>12, <3>1 DEF Save, LoadCheckpoint, TypeOK
  <2>3. ~Later(cursor, cursor)
    BY <1>1, Order
  <2>4. CheckpointBehindCursor'
    BY <2>1, <2>2, <2>3 DEF IInv, CheckpointBehindCursor, Later
  <2>5. Covered(cursor)' /\ Covered(LoadCheckpoint)'
    BY <1>3, <2>1, <2>2 DEF IInv, Covered, Later
  <2> QED
    BY <1>0, <2>1, <2>4, <2>5 DEF IInv, PageInv
<1>13. ASSUME Crash PROVE IInv'
  <2>1. /\ UNCHANGED <<table, stream, late>> /\ pc' = "wait"
        /\ cursor' = LoadCheckpoint'
    BY <1>13 DEF Crash
  <2>2. LoadCheckpoint' \in {LoadCheckpoint, Start}
    BY <1>13 DEF Crash, LoadCheckpoint
  <2>3. Covered(LoadCheckpoint) /\ Covered(Start)
    BY <1>1 DEF IInv, Covered
  <2>4. Covered(cursor)' /\ Covered(LoadCheckpoint)'
    BY <1>3, <2>1, <2>2, <2>3 DEF Covered, Later
  <2>5. CheckpointBehindCursor'
    <3>1. disk' \in Pairs
      BY <1>0, <1>1, <1>13 DEF Crash, Corrupt, Pairs
    <3>2. ~Later(disk', disk')
      BY <3>1, Order
    <3> QED
      BY <2>1, <3>2 DEF CheckpointBehindCursor, LoadCheckpoint, Later
  <2> QED
    BY <1>0, <2>1, <2>4, <2>5 DEF IInv, PageInv
<1> QED
  BY <1>4, <1>5, <1>6, <1>7, <1>8, <1>9, <1>10, <1>11, <1>12, <1>13
     DEF Next, Shipper

LEMMA Invariance == Spec => []IInv
BY InitIInv, StepIInv, PTL DEF Spec

-------------------------------------------------------------------------------
(* The theorems. *)

\* Cursor, checkpoint file, page and stream keep their types in every run of the
\* shipper and its writers.
THEOREM TypeCorrect == Spec => []TypeOK
<1>1. IInv => TypeOK
  BY DEF IInv
<1> QED
  BY <1>1, Invariance, PTL

\* _ship_batch and a restart pass over nothing but rows that became visible
\* behind the reading position.
THEOREM NothingSkipped == Spec => []SentBeforePassed
<1>1. IInv => SentBeforePassed
  BY DEF IInv, Covered, SentBeforePassed
<1> QED
  BY <1>1, Invariance, PTL

\* _save_checkpoint never puts the file ahead of the running process.
THEOREM CheckpointTrails == Spec => []CheckpointBehindCursor
<1>1. IInv => CheckpointBehindCursor
  BY DEF IInv
<1> QED
  BY <1>1, Invariance, PTL
===============================================================================
