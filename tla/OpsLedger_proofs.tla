--------------------------- MODULE OpsLedger_proofs ---------------------------
(***************************************************************************)
(* The ledger's properties for any number of processes, threads and ids.   *)
(***************************************************************************)
EXTENDS OpsLedger, TLAPS

UpdateOps == {"transition", "mark_failed", "checkpoint"}

\* Which call a thread is in is decided by the label it has reached, and a
\* thread about to alert has really moved its entry to "failed".
ControlOK ==
  \A t \in Threads :
    /\ pc[t] = "idle" <=> req[t] = None
    /\ pc[t] = "lookup" => req[t].op \in {"create", "delete"}
    /\ pc[t] = "insert" => req[t].op = "create"
    /\ pc[t] \in {"update", "explain"} => req[t].op \in UpdateOps
    /\ pc[t] \in {"delete", "deleted"} => req[t].op = "delete"
    /\ pc[t] = "reread" => req[t].op # "delete"
    /\ pc[t] = "emit" => req[t].op = "mark_failed"
    /\ pc[t] \in {"reread", "emit"} /\ req[t].op = "mark_failed" =>
         req[t].id \in everFailed

IInv == TypeOK /\ ControlOK /\ ErrorMeansFailed /\ NoFalseAlarm

-------------------------------------------------------------------------------
(* What the operators return. *)

\* create_entry builds a well-formed row, "pending" and without an error.
LEMMA NewRowFacts ==
  ASSUME NEW r \in Requests, r.op = "create"
  PROVE  /\ NewRow(r) \in Row
         /\ NewRow(r).status = "pending"
         /\ NewRow(r).last_error = None
BY DataAssumption DEF Requests, NewRow, Row, Statuses, MaybeCheckpoint

\* An accepted UPDATE keeps the row well formed, follows VALID_TRANSITIONS,
\* leaves no error text behind unless the entry is "failed", and is never
\* accepted on a completed entry.
LEMMA UpdatedFacts ==
  ASSUME NEW r \in Requests, r.op \in UpdateOps,
         NEW row \in Row \cup {Absent}, CanUpdate(row, r)
  PROVE  /\ row \in Row
         /\ Updated(row, r) \in Row
         /\ row.status # "completed"
         /\ \/ Updated(row, r).status = row.status
            \/ Updated(row, r).status \in ValidTransitions[row.status]
         /\ (row.last_error # None <=> row.status = "failed") =>
              (Updated(row, r).last_error # None <=>
                 Updated(row, r).status = "failed")
<1>1. row \in Row
  BY DEF CanUpdate
<1>2. CASE r.op = "checkpoint"
  <2>1. r.checkpoint \in Checkpoints /\ r.error = None
    BY <1>2 DEF Requests
  <2>2. row.status \in {"pending", "running"}
    BY <1>2 DEF CanUpdate, ExpectedStatuses
  <2> QED
    BY <1>1, <1>2, <2>1, <2>2, DataAssumption DEF Updated, Row, Statuses
<1>3. CASE r.op # "checkpoint"
  <2>1. /\ r.status \in Statuses
        /\ r.checkpoint \in Checkpoints \cup {None}
        /\ r.status = "failed" => r.error \in Errors
        /\ r.status # "failed" => r.error = None
    BY <1>3 DEF Requests, UpdateOps, MaybeCheckpoint, Statuses
  <2>2. row.status \in Statuses /\ r.status \in ValidTransitions[row.status]
    BY <1>3 DEF CanUpdate, ExpectedStatuses, AllowedOldStatuses
  <2>3. row.status # "completed"
    BY <2>2 DEF ValidTransitions
  <2>4. Updated(row, r).status = r.status
    BY <1>3 DEF Updated
  <2>5. Updated(row, r) \in Row
    BY <1>1, <1>3, <2>1, DataAssumption DEF Updated, Row
  <2>6. Updated(row, r).last_error # None <=> r.status = "failed"
    BY <1>3, <2>1, DataAssumption DEF Updated
  <2> QED
    BY <1>1, <2>2, <2>3, <2>4, <2>5, <2>6
<1> QED
  BY <1>2, <1>3

-------------------------------------------------------------------------------
(* The inductive invariant. *)

LEMMA InitIInv == Init => IInv
BY RequestAssumption
   DEF Init, IInv, TypeOK, ControlOK, ErrorMeansFailed, NoFalseAlarm, Labels, Replies

LEMMA StepIInv == IInv /\ [Next]_vars => IInv'
<1> SUFFICES ASSUME IInv, [Next]_vars
             PROVE  IInv'
  OBVIOUS
<1> USE ThreadAssumption
<1>1. ASSUME NEW t \in Threads, Invoke(t)
      PROVE  IInv'
  <2>1. PICK r \in Requests :
          /\ req' = [req EXCEPT ![t] = r]
          /\ Goto(t, IF r.op \in {"create", "delete"} THEN "lookup" ELSE "update")
    BY <1>1 DEF Invoke
  <2>2. r.op \in UpdateOps \cup {"create", "delete"}
    BY DEF Requests, UpdateOps
  <2>3. TypeOK'
    BY <1>1, <2>1 DEF IInv, TypeOK, Invoke, Goto, Labels, Replies
  <2>4. ControlOK'
    BY <1>1, <2>1, <2>2, RequestAssumption
    DEF IInv, TypeOK, ControlOK, Invoke, Goto, UpdateOps
  <2> QED
    BY <1>1, <2>3, <2>4 DEF IInv, ErrorMeansFailed, NoFalseAlarm, Invoke
<1>2. ASSUME NEW t \in Threads, Lookup(t)
      PROVE  IInv'
  <2>1. TypeOK'
    BY <1>2 DEF IInv, TypeOK, Lookup, Goto, Finish, Labels, Replies
  <2>2. ControlOK'
    BY <1>2 DEF IInv, TypeOK, ControlOK, Lookup, Goto, Finish
  <2> QED
    BY <1>2, <2>1, <2>2 DEF IInv, ErrorMeansFailed, NoFalseAlarm, Lookup
<1>3. ASSUME NEW t \in Threads, Insert(t)
      PROVE  IInv'
  <2>1. req[t] \in Requests /\ req[t].op = "create" /\ req[t].id \in Ids
    BY <1>3 DEF IInv, TypeOK, ControlOK, Insert, Requests
  <2>2. TypeOK'
    BY <1>3, <2>1, NewRowFacts DEF IInv, TypeOK, Insert, Goto, Finish, Labels, Replies
  <2>3. ControlOK'
    BY <1>3, <2>1 DEF IInv, TypeOK, ControlOK, Insert, Goto, Finish
  <2>4. ErrorMeansFailed'
    BY <1>3, <2>1, NewRowFacts DEF IInv, TypeOK, ErrorMeansFailed, Insert
  <2> QED
    BY <1>3, <2>2, <2>3, <2>4 DEF IInv, NoFalseAlarm, Insert
<1>4. ASSUME NEW t \in Threads, Update(t)
      PROVE  IInv'
  <2>1. /\ req[t] \in Requests
        /\ req[t].op \in UpdateOps
        /\ req[t].id \in Ids
        /\ req[t].op = "mark_failed" <=> req[t].status = "failed"
    BY <1>4, DataAssumption
    DEF IInv, TypeOK, ControlOK, Update, Requests, UpdateOps, Statuses
  <2>2. CASE CanUpdate(db[req[t].id], req[t])
    <3>1. /\ db' = [db EXCEPT ![req[t].id] = Updated(db[req[t].id], req[t])]
          /\ everFailed' = IF req[t].status = "failed"
                           THEN everFailed \cup {req[t].id} ELSE everFailed
          /\ Goto(t, "reread")
          /\ UNCHANGED <<lock, req, reply, alerts>>
      BY <1>4, <2>2 DEF Update
    <3>2. db[req[t].id] \in Row \cup {Absent}
      BY <2>1 DEF IInv, TypeOK
    <3>3. TypeOK'
      BY <2>1, <2>2, <3>1, <3>2, UpdatedFacts DEF IInv, TypeOK, Goto, Labels
    <3>4. ControlOK'
      BY <1>4, <2>1, <3>1 DEF IInv, TypeOK, ControlOK, Goto, UpdateOps, Update
    <3>5. ErrorMeansFailed'
      <4> SUFFICES ASSUME NEW i \in Ids, db'[i] # Absent
                   PROVE  db'[i].last_error # None <=> db'[i].status = "failed"
        BY DEF ErrorMeansFailed
      <4>1. CASE i = req[t].id
        BY <2>1, <2>2, <3>1, <3>2, <4>1, UpdatedFacts, RowAssumption
        DEF IInv, TypeOK, ErrorMeansFailed
      <4>2. CASE i # req[t].id
        BY <3>1, <4>2 DEF IInv, TypeOK, ErrorMeansFailed
      <4> QED
        BY <4>1, <4>2
    <3> QED
      BY <3>1, <3>3, <3>4, <3>5 DEF IInv, NoFalseAlarm
  <2>3. CASE ~CanUpdate(db[req[t].id], req[t])
    <3>1. /\ Goto(t, "explain")
          /\ UNCHANGED <<db, everFailed, lock, req, reply, alerts>>
      BY <1>4, <2>3 DEF Update
    <3> QED
      BY <2>1, <3>1, RequestAssumption
      DEF IInv, TypeOK, ControlOK, ErrorMeansFailed, NoFalseAlarm, Goto, Labels
  <2> QED
    BY <2>2, <2>3
<1>5. ASSUME NEW t \in Threads, Explain(t)
      PROVE  IInv'
  BY <1>5 DEF IInv, TypeOK, ControlOK, ErrorMeansFailed, NoFalseAlarm,
              Explain, Finish, Goto, Labels, Replies
<1>6. ASSUME NEW t \in Threads, Delete(t)
      PROVE  IInv'
  <2>1. req[t] \in Requests /\ req[t].id \in Ids
    BY <1>6 DEF IInv, TypeOK, ControlOK, Delete, Requests
  <2>2. TypeOK'
    BY <1>6, <2>1 DEF IInv, TypeOK, Delete, Goto, Labels
  <2>3. ControlOK'
    BY <1>6 DEF IInv, TypeOK, ControlOK, Delete, Goto
  <2>4. ErrorMeansFailed'
    BY <1>6, <2>1 DEF IInv, TypeOK, ErrorMeansFailed, Delete
  <2> QED
    BY <1>6, <2>2, <2>3, <2>4 DEF IInv, NoFalseAlarm, Delete
<1>7. ASSUME NEW t \in Threads, Deleted(t) \/ DatabaseLocked(t)
      PROVE  IInv'
  BY <1>7 DEF IInv, TypeOK, ControlOK, ErrorMeansFailed, NoFalseAlarm,
              Deleted, DatabaseLocked, Finish, Goto, Labels, Replies
<1>8. ASSUME NEW t \in Threads, Reread(t)
      PROVE  IInv'
  <2>1. TypeOK'
    BY <1>8 DEF IInv, TypeOK, Reread, Finish, Goto, Labels, Replies
  <2>2. ControlOK'
    BY <1>8 DEF IInv, TypeOK, ControlOK, Reread, Finish, Goto
  <2> QED
    BY <1>8, <2>1, <2>2 DEF IInv, ErrorMeansFailed, NoFalseAlarm, Reread
<1>9. ASSUME NEW t \in Threads, EmitAlert(t)
      PROVE  IInv'
  <2>1. req[t].id \in everFailed
    BY <1>9 DEF IInv, ControlOK, EmitAlert
  <2> QED
    BY <1>9, <2>1 DEF IInv, TypeOK, ControlOK, ErrorMeansFailed, NoFalseAlarm,
                      EmitAlert, Finish, Goto, Labels, Replies
<1>10. ASSUME NEW p \in Procs, Crash(p)
       PROVE  IInv'
  BY <1>10 DEF IInv, TypeOK, ControlOK, ErrorMeansFailed, NoFalseAlarm,
               Crash, Labels, Replies
<1>11. CASE UNCHANGED vars
  BY <1>11 DEF IInv, TypeOK, ControlOK, ErrorMeansFailed, NoFalseAlarm, vars
<1> QED
  BY <1>1, <1>2, <1>3, <1>4, <1>5, <1>6, <1>7, <1>8, <1>9, <1>10, <1>11 DEF Next

LEMMA Invariance == Spec => []IInv
BY InitIInv, StepIInv, PTL DEF Spec

-------------------------------------------------------------------------------
(* The safety theorems. *)

\* Every stored row stays well formed and every thread at a statement of its
\* own call, for any number of processes sharing the file.
THEOREM TypeCorrect == Spec => []TypeOK
BY Invariance, PTL DEF IInv

\* The error text and the "failed" status come and go together.
THEOREM ErrorsMatchStatus == Spec => []ErrorMeansFailed
BY Invariance, PTL DEF IInv

\* No alert without a recorded failure.
THEOREM AlertsAreTrue == Spec => []NoFalseAlarm
BY Invariance, PTL DEF IInv

\* A step changes at most one row, and only by an INSERT of a fresh row, an
\* accepted UPDATE, or a DELETE.
LEMMA RowChange ==
  ASSUME IInv, [Next]_vars, NEW i \in Ids, db'[i] # db[i]
  PROVE  \/ db[i] = Absent /\ db'[i] # Absent /\ db'[i].status = "pending"
         \/ db'[i] = Absent
         \/ \E r \in Requests :
              /\ r.op \in UpdateOps
              /\ CanUpdate(db[i], r)
              /\ db'[i] = Updated(db[i], r)
<1>1. PICK t \in Threads : Insert(t) \/ Update(t) \/ Delete(t)
  BY DEF Next, vars, Invoke, Lookup, Explain, Deleted, Reread, EmitAlert,
         DatabaseLocked, Crash
<1>2. req[t] \in Requests /\ req[t].id \in Ids
  BY <1>1 DEF IInv, TypeOK, ControlOK, Insert, Update, Delete, Requests
<1>3. CASE Insert(t)
  BY <1>2, <1>3, NewRowFacts, RowAssumption DEF IInv, TypeOK, ControlOK, Insert
<1>4. CASE Update(t)
  BY <1>2, <1>4 DEF IInv, TypeOK, ControlOK, Update
<1>5. CASE Delete(t)
  BY <1>2, <1>5 DEF IInv, TypeOK, Delete
<1> QED
  BY <1>1, <1>3, <1>4, <1>5

\* Every interleaving of every set of processes obeys VALID_TRANSITIONS, and a
\* completed entry is never altered, only deleted.
THEOREM LifeCycle == Spec => LifeCycleRespected
<1>1. ASSUME IInv, [Next]_vars, NEW i \in Ids
      PROVE  LegalRowStep(i) /\ FrozenRowStep(i)
  <2>1. db[i] \in Row \cup {Absent}
    BY <1>1 DEF IInv, TypeOK
  <2>2. LegalRowStep(i)
    <3>1. CASE db'[i] = db[i]
      BY <3>1 DEF LegalRowStep
    <3>2. CASE db'[i] # db[i]
      BY <1>1, <2>1, <3>2, RowChange, UpdatedFacts DEF LegalRowStep, CanUpdate
    <3> QED
      BY <3>1, <3>2
  <2>3. FrozenRowStep(i)
    BY <1>1, <2>1, RowChange, UpdatedFacts DEF FrozenRowStep
  <2> QED
    BY <2>2, <2>3
<1>2. IInv /\ [Next]_vars => [\A i \in Ids : LegalRowStep(i) /\ FrozenRowStep(i)]_vars
  BY <1>1
<1> QED
  BY <1>2, Invariance, PTL DEF Spec, LifeCycleRespected

-------------------------------------------------------------------------------
(* Refinement. *)

LEMMA InitRefines == Init => Service!Init
BY DEF Init, Service!Init, Phase

\* Every statement of the ledger is an abstract step or invisible.
LEMMA StepRefines == IInv /\ [Next]_vars => [Service!Next]_(Service!vars)
<1> SUFFICES ASSUME IInv, [Next]_vars
             PROVE  Service!Next \/ UNCHANGED Service!vars
  OBVIOUS
<1> USE ThreadAssumption
<1> DEFINE Stutter == UNCHANGED Service!vars
<1>0. /\ pc \in [Threads -> Labels]
      /\ reply \in [Threads -> Replies]
      /\ req \in [Threads -> Requests \cup {None}]
      /\ \A t \in Threads : pc[t] # "idle" => req[t] \in Requests /\ req[t].id \in Ids
  BY DEF IInv, TypeOK, ControlOK, Requests
<1>1. ASSUME NEW t \in Threads, Invoke(t)
      PROVE  Service!Call(t)
  BY <1>0, <1>1 DEF Invoke, Goto, Service!Call, Phase
<1>2. ASSUME NEW t \in Threads, NEW a \in Service!Refusals,
             Finish(t, a), UNCHANGED db, pc[t] # "idle", Phase(pc[t]) = "called"
      PROVE  Service!Refuse(t)
  BY <1>0, <1>2 DEF Finish, Goto, Service!Refuse, Service!Answer, Phase
<1>3. ASSUME NEW t \in Threads, NEW a \in {"ok"} \cup Service!LateErrors,
             Finish(t, a), UNCHANGED db, Phase(pc[t]) = "applied"
      PROVE  Service!Confirm(t)
  BY <1>0, <1>3 DEF Finish, Goto, Service!Confirm, Service!Answer, Phase
<1>4. ASSUME NEW t \in Threads, NEW l \in Labels, Goto(t, l),
             UNCHANGED <<db, req, reply>>, Phase(l) = Phase(pc[t])
      PROVE  Stutter
  BY <1>0, <1>4 DEF Goto, Service!vars
<1>5. ASSUME NEW t \in Threads, Lookup(t)
      PROVE  Stutter \/ Service!Refuse(t)
  BY <1>2, <1>4, <1>5 DEF Lookup, Phase, Labels, Service!Refusals
<1>6. ASSUME NEW t \in Threads, Insert(t)
      PROVE  Service!Apply(t) \/ Service!Refuse(t)
  <2>1. req[t] \in Requests /\ req[t].id \in Ids /\ req[t].op = "create"
    BY <1>0, <1>6 DEF Insert, IInv, ControlOK
  <2>2. CASE db[req[t].id] = Absent
    BY <1>0, <1>6, <2>1, <2>2
    DEF Insert, Goto, Service!Apply, Permits, Effect, Phase
  <2>3. CASE db[req[t].id] # Absent
    BY <1>2, <1>6, <2>3 DEF Insert, Phase, Service!Refusals
  <2> QED
    BY <2>2, <2>3
<1>7. ASSUME NEW t \in Threads, Update(t)
      PROVE  Service!Apply(t) \/ Stutter
  <2>1. req[t] \in Requests /\ req[t].id \in Ids /\ req[t].op \in UpdateOps
    BY <1>0, <1>7 DEF Update, IInv, ControlOK
  <2>2. CASE CanUpdate(db[req[t].id], req[t])
    BY <1>0, <1>7, <2>1, <2>2
    DEF Update, UpdateOps, Goto, Service!Apply, Permits, Effect, Phase
  <2>3. CASE ~CanUpdate(db[req[t].id], req[t])
    BY <1>4, <1>7, <2>3 DEF Update, Phase, Labels
  <2> QED
    BY <2>2, <2>3
<1>8. ASSUME NEW t \in Threads, Explain(t)
      PROVE  Service!Refuse(t)
  BY <1>2, <1>8 DEF Explain, Phase, Service!Refusals
<1>9. ASSUME NEW t \in Threads, Delete(t)
      PROVE  Service!Apply(t)
  <2>1. req[t] \in Requests /\ req[t].id \in Ids /\ req[t].op = "delete"
    BY <1>0, <1>9 DEF Delete, IInv, ControlOK
  <2> QED
    BY <1>0, <1>9, <2>1 DEF Delete, Goto, Service!Apply, Permits, Effect, Phase
<1>10. ASSUME NEW t \in Threads, Deleted(t) \/ EmitAlert(t)
       PROVE  Service!Confirm(t)
  BY <1>3, <1>10 DEF Deleted, EmitAlert, Phase
<1>11. ASSUME NEW t \in Threads, Reread(t)
       PROVE  Stutter \/ Service!Confirm(t)
  BY <1>3, <1>4, <1>11 DEF Reread, Phase, Labels, Service!LateErrors
<1>12. ASSUME NEW t \in Threads, DatabaseLocked(t)
       PROVE  Service!Refuse(t) \/ Service!Confirm(t)
  BY <1>2, <1>3, <1>12
  DEF DatabaseLocked, Phase, Service!Refusals, Service!LateErrors
<1>13. ASSUME NEW p \in Procs, Crash(p)
       PROVE  Service!Die({t \in Threads : ProcOf[t] = p})
  BY <1>0, <1>13 DEF Crash, Service!Die, Phase
<1>14. CASE UNCHANGED vars
  BY <1>14 DEF vars, Service!vars
<1> QED
  BY <1>1, <1>5, <1>6, <1>7, <1>8, <1>9, <1>10, <1>11, <1>12, <1>13, <1>14
  DEF Next, Service!Next

\* Every behaviour of the ledger is one the abstract service allows: a call
\* answered "ok" took effect exactly once, in one step, as Permits demands.
THEOREM LedgerImplementsService == Spec => ImplementsService
BY InitRefines, StepRefines, Invariance, PTL
DEF Spec, ImplementsService, Service!Spec
===============================================================================
