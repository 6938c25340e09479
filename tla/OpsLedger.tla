------------------------------ MODULE OpsLedger ------------------------------
(***************************************************************************)
(* The operations ledger (ops_ledger.py, ledger_entry.py) over its SQLite  *)
(* storage (sqlite_ledger_storage.py), used by the threads of several      *)
(* processes that open the same database file.                             *)
(*                                                                         *)
(* The RLock of an OpsLedger object serialises the threads of one process  *)
(* only; two processes interleave between any two SQL statements.  Every   *)
(* SQL statement is one step: it is committed before the method goes on.   *)
(***************************************************************************)
EXTENDS Naturals, FiniteSets

CONSTANTS Ids,              \* primary keys
          Procs, Threads,   \* processes, and the threads they run
          ProcOf,           \* Threads -> Procs
          Checkpoints,      \* checkpoint dictionaries
          EmptyCheckpoint,  \* {}
          Errors,           \* error texts
          None,             \* Python's None
          Absent            \* no row has this key

ASSUME ThreadAssumption == /\ ProcOf \in [Threads -> Procs]
                           /\ None \notin Threads

VARIABLES db,               \* the ledger table: Ids -> row or Absent
          lock,             \* Procs -> the thread inside `with self._lock`
          pc,               \* Threads -> the next statement of its call
          req,              \* Threads -> the call being executed
          reply,            \* Threads -> how its last call ended
          alerts,           \* ids for which a TASK_FAILED alert was emitted
          everFailed        \* ids some call moved to "failed" (history)

vars == <<db, lock, pc, req, reply, alerts, everFailed>>

-------------------------------------------------------------------------------
(* Entries and their life cycle. *)

Statuses == {"pending", "running", "completed", "failed"}

ASSUME DataAssumption ==
  /\ EmptyCheckpoint \in Checkpoints
  /\ None \notin Checkpoints \cup Errors \cup Statuses

ValidTransitions ==
  [pending   |-> {"running", "failed"},
   running   |-> {"completed", "failed", "pending"},
   completed |-> {},
   failed    |-> {"pending"}]

Row == [status : Statuses, checkpoint : Checkpoints,
        last_error : Errors \cup {None}]

ASSUME RowAssumption == Absent \notin Row

AllowedOldStatuses(s) == {o \in Statuses : s \in ValidTransitions[o]}

MaybeCheckpoint == Checkpoints \cup {None}

\* The calls the repository makes: mark_running, mark_completed and the retry
\* are transitions without an error; a move to "failed" goes through
\* mark_failed, which always carries one.
Requests ==
       [op : {"create"}, id : Ids, status : {"pending"},
        checkpoint : MaybeCheckpoint, error : {None}]
  \cup [op : {"transition"}, id : Ids, status : Statuses \ {"failed"},
        checkpoint : MaybeCheckpoint, error : {None}]
  \cup [op : {"mark_failed"}, id : Ids, status : {"failed"},
        checkpoint : MaybeCheckpoint, error : Errors]
  \cup [op : {"checkpoint"}, id : Ids, status : {None},
        checkpoint : Checkpoints, error : {None}]
  \cup [op : {"delete"}, id : Ids, status : {None},
        checkpoint : {None}, error : {None}]

ASSUME RequestAssumption == None \notin Requests

NewRowNoDefault(r) ==
  [status |-> "pending", checkpoint |-> r.checkpoint, last_error |-> None]

NewRow(r) ==
  [status     |-> "pending",
   checkpoint |-> IF r.checkpoint = None THEN EmptyCheckpoint ELSE r.checkpoint,
   last_error |-> None]

ExpectedStatusesNoCas(r) == Statuses \ {r.status}

ExpectedStatusesAnyButFailed(r) ==
  IF r.op = "checkpoint" THEN Statuses \ {"failed"}
                         ELSE AllowedOldStatuses(r.status)

ExpectedStatuses(r) ==
  IF r.op = "checkpoint" THEN {"pending", "running"}
                         ELSE AllowedOldStatuses(r.status)

UpdatedKeepError(row, r) ==
  [status     |-> IF r.op = "checkpoint" THEN row.status ELSE r.status,
   checkpoint |-> IF r.checkpoint = None THEN row.checkpoint ELSE r.checkpoint,
   last_error |-> IF r.error # None THEN r.error ELSE row.last_error]

\* The columns an UPDATE sets.  A transition without an error clears
\* last_error unless it moves to "failed".
Updated(row, r) ==
  [status     |-> IF r.op = "checkpoint" THEN row.status ELSE r.status,
   checkpoint |-> IF r.checkpoint = None THEN row.checkpoint ELSE r.checkpoint,
   last_error |-> IF r.error # None THEN r.error
                  ELSE IF r.op = "checkpoint" \/ r.status = "failed"
                       THEN row.last_error ELSE None]

-------------------------------------------------------------------------------
(* One step per statement. *)

Init ==
  /\ db = [i \in Ids |-> Absent]
  /\ lock = [p \in Procs |-> None]
  /\ pc = [t \in Threads |-> "idle"]
  /\ req = [t \in Threads |-> None]
  /\ reply = [t \in Threads |-> "none"]
  /\ alerts = {}
  /\ everFailed = {}

Goto(t, label) == pc' = [pc EXCEPT ![t] = label]

\* The call returns or raises: the `with` block is left, the caller sees a.
Finish(t, a) ==
  /\ Goto(t, "idle")
  /\ req' = [req EXCEPT ![t] = None]
  /\ reply' = [reply EXCEPT ![t] = a]
  /\ lock' = [p \in Procs |-> IF lock[p] = t THEN None ELSE lock[p]]

Invoke(t) ==
  /\ pc[t] = "idle"
  /\ lock[ProcOf[t]] = None
  /\ lock' = [lock EXCEPT ![ProcOf[t]] = t]
  /\ \E r \in Requests :
       /\ req' = [req EXCEPT ![t] = r]
       /\ Goto(t, IF r.op \in {"create", "delete"} THEN "lookup" ELSE "update")
  /\ reply' = [reply EXCEPT ![t] = "none"]
  /\ UNCHANGED <<db, alerts, everFailed>>

\* storage.get before an insert or a delete.
Lookup(t) ==
  /\ pc[t] = "lookup"
  /\ \/ /\ req[t].op = "create"
        /\ IF db[req[t].id] = Absent
           THEN Goto(t, "insert") /\ UNCHANGED <<lock, req, reply>>
           ELSE Finish(t, "StateError")
     \/ /\ req[t].op = "delete"
        /\ IF db[req[t].id] = Absent
           THEN Finish(t, "NotFound")
           ELSE Goto(t, "delete") /\ UNCHANGED <<lock, req, reply>>
  /\ UNCHANGED <<db, alerts, everFailed>>

InsertOrReplace(t) ==
  /\ pc[t] = "insert"
  /\ db' = [db EXCEPT ![req[t].id] = NewRow(req[t])]
  /\ Goto(t, "reread")
  /\ UNCHANGED <<lock, req, reply, alerts, everFailed>>

\* storage.append: the primary key refuses a second row with the same id.
Insert(t) ==
  /\ pc[t] = "insert"
  /\ IF db[req[t].id] = Absent
     THEN /\ db' = [db EXCEPT ![req[t].id] = NewRow(req[t])]
          /\ Goto(t, "reread")
          /\ UNCHANGED <<lock, req, reply>>
     ELSE /\ Finish(t, "IntegrityError")
          /\ UNCHANGED db
  /\ UNCHANGED <<alerts, everFailed>>

CanUpdate(row, r) == row # Absent /\ row.status \in ExpectedStatuses(r)

\* storage.update: one UPDATE ... WHERE id = ? AND status IN (...).
Update(t) ==
  LET r == req[t]
      row == db[r.id]
  IN  /\ pc[t] = "update"
      /\ IF CanUpdate(row, r)
         THEN /\ db' = [db EXCEPT ![r.id] = Updated(row, r)]
              /\ everFailed' = IF r.status = "failed" THEN everFailed \cup {r.id}
                                                      ELSE everFailed
              /\ Goto(t, "reread")
         ELSE /\ Goto(t, "explain")
              /\ UNCHANGED <<db, everFailed>>
      /\ UNCHANGED <<lock, req, reply, alerts>>

ExplainButAlert(t) ==
  /\ pc[t] = "explain"
  /\ IF req[t].op = "mark_failed"
     THEN /\ Goto(t, "emit")
          /\ lock' = [lock EXCEPT ![ProcOf[t]] = None]
          /\ UNCHANGED <<req, reply>>
     ELSE Finish(t, "StateError")
  /\ UNCHANGED <<db, alerts, everFailed>>

\* No row was updated: a second SELECT decides which error is raised.
Explain(t) ==
  /\ pc[t] = "explain"
  /\ Finish(t, IF db[req[t].id] = Absent THEN "NotFound" ELSE "StateError")
  /\ UNCHANGED <<db, alerts, everFailed>>

\* DELETE without a condition on what the lookup saw.
Delete(t) ==
  /\ pc[t] = "delete"
  /\ db' = [db EXCEPT ![req[t].id] = Absent]
  /\ Goto(t, "deleted")
  /\ UNCHANGED <<lock, req, reply, alerts, everFailed>>

Deleted(t) ==
  /\ pc[t] = "deleted"
  /\ Finish(t, "ok")
  /\ UNCHANGED <<db, alerts, everFailed>>

\* The final get_entry: another process may have deleted the row meanwhile.
\* mark_failed goes on, outside the lock, to emit its alert.
Reread(t) ==
  /\ pc[t] = "reread"
  /\ IF db[req[t].id] = Absent
     THEN Finish(t, "NotFound")
     ELSE IF req[t].op = "mark_failed"
          THEN /\ Goto(t, "emit")
               /\ lock' = [lock EXCEPT ![ProcOf[t]] = None]
               /\ UNCHANGED <<req, reply>>
          ELSE Finish(t, "ok")
  /\ UNCHANGED <<db, alerts, everFailed>>

\* An exception of the alert path is swallowed: the alert is lost.
EmitAlert(t) ==
  /\ pc[t] = "emit"
  /\ alerts' \in {alerts, alerts \cup {req[t].id}}
  /\ Finish(t, "ok")
  /\ UNCHANGED <<db, everFailed>>

\* "database is locked" outlasted the busy timeout and the five attempts of
\* with_retry: the statement has no effect and the exception leaves the call.
DatabaseLocked(t) ==
  /\ pc[t] \in {"lookup", "insert", "update", "explain", "delete", "reread"}
  /\ Finish(t, "OperationalError")
  /\ UNCHANGED <<db, alerts, everFailed>>

\* The process dies; a new one with the same threads opens the same file.
Crash(p) ==
  LET dead == {t \in Threads : ProcOf[t] = p} IN
  /\ pc' = [t \in Threads |-> IF t \in dead THEN "idle" ELSE pc[t]]
  /\ req' = [t \in Threads |-> IF t \in dead THEN None ELSE req[t]]
  /\ reply' = [t \in Threads |-> IF t \in dead THEN "none" ELSE reply[t]]
  /\ lock' = [lock EXCEPT ![p] = None]
  /\ UNCHANGED <<db, alerts, everFailed>>

Next ==
  \/ \E t \in Threads :
       \/ Invoke(t) \/ Lookup(t) \/ Insert(t) \/ Update(t) \/ Explain(t)
       \/ Delete(t) \/ Deleted(t) \/ Reread(t) \/ EmitAlert(t)
       \/ DatabaseLocked(t)
  \/ \E p \in Procs : Crash(p)

Spec == Init /\ [][Next]_vars

-------------------------------------------------------------------------------
(* Properties. *)

Labels == {"idle", "lookup", "insert", "update", "explain", "delete",
           "deleted", "reread", "emit"}

Replies == {"none", "ok", "StateError", "IntegrityError", "NotFound",
            "OperationalError"}

\* Every stored row is one LedgerEntry.__post_init__ accepts and that decodes:
\* in particular create_entry stores {} and never null as a checkpoint.
TypeOK ==
  /\ db \in [Ids -> Row \cup {Absent}]
  /\ lock \in [Procs -> Threads \cup {None}]
  /\ pc \in [Threads -> Labels]
  /\ req \in [Threads -> Requests \cup {None}]
  /\ reply \in [Threads -> Replies]
  /\ alerts \subseteq Ids
  /\ everFailed \subseteq Ids

\* A row carries an error text exactly while it is "failed", whatever the order
\* in which processes fail, retry and checkpoint it (ops_ledger.py sets and
\* clears last_error in the same UPDATE as the status).
ErrorMeansFailed ==
  \A i \in Ids : db[i] # Absent =>
    (db[i].last_error # None <=> db[i].status = "failed")

\* A row appears only as "pending", and a stored status changes only as
\* VALID_TRANSITIONS says.
LegalRowStep(i) ==
  /\ db[i] = Absent /\ db'[i] # Absent => db'[i].status = "pending"
  /\ db[i] # Absent /\ db'[i] # Absent =>
       \/ db'[i].status = db[i].status
       \/ db'[i].status \in ValidTransitions[db[i].status]

\* A completed entry is an audit record: until it is deleted nothing about it
\* changes, neither its status nor its checkpoint nor its error.
FrozenRowStep(i) ==
  db[i] # Absent => (db[i].status = "completed" => db'[i] \in {db[i], Absent})

\* The life cycle is respected by every change of a row, although the caller that
\* asks for it has read nothing under a lock the other processes respect: every
\* new status is a legal successor of the stored one (ledger_entry.py:9-14), and
\* a completed row is frozen.
LifeCycleRespected == [][\A i \in Ids : LegalRowStep(i) /\ FrozenRowStep(i)]_vars

\* A TASK_FAILED alert names an entry that this ledger did move to "failed":
\* a mark_failed that lost the race against another agent alerts nobody.
NoFalseAlarm == alerts \subseteq everFailed

\* The ledger implements its atomic abstraction: one effect per call, applied
\* by the UPDATE, the INSERT or the DELETE, and "ok" only after it.
Permits(row, r) ==
  \/ r.op = "create" /\ row = Absent
  \/ r.op \in {"transition", "mark_failed", "checkpoint"} /\ CanUpdate(row, r)
  \/ r.op = "delete"

Effect(row, r) ==
  IF r.op = "create" THEN NewRow(r)
  ELSE IF r.op = "delete" THEN Absent ELSE Updated(row, r)

Phase(label) ==
  IF label = "idle" THEN "idle"
  ELSE IF label \in {"reread", "deleted", "emit"} THEN "applied" ELSE "called"

Service == INSTANCE LedgerService WITH
  NoRequest <- None,
  entries <- db,
  phase   <- [t \in Threads |-> Phase(pc[t])],
  request <- req,
  answer  <- reply

ImplementsService == Service!Spec
===============================================================================
