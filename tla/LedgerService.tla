---------------------------- MODULE LedgerService ----------------------------
(***************************************************************************)
(* What OpsLedger promises its callers, without saying how: a call takes   *)
(* effect at most once, in one indivisible step, only if the life cycle of *)
(* an entry permits it, and it is answered "ok" only after it did.  A call *)
(* that took effect may still be answered with an error (the row it rereads*)
(* may be gone), but never with LedgerStateError or IntegrityError.        *)
(***************************************************************************)
CONSTANTS Ids, Threads, Requests, NoRequest, Absent,
          Permits(_, _),    \* may the request change this entry?
          Effect(_, _)      \* the entry after the request

VARIABLES entries,          \* Ids -> entry, or Absent
          phase,            \* Threads -> "idle", "called" or "applied"
          request,          \* Threads -> the request being served
          answer            \* Threads -> the answer to the last call

vars == <<entries, phase, request, answer>>

Refusals == {"StateError", "IntegrityError", "NotFound", "OperationalError"}
LateErrors == {"NotFound", "OperationalError"}

Init ==
  /\ entries = [i \in Ids |-> Absent]
  /\ phase = [t \in Threads |-> "idle"]
  /\ request = [t \in Threads |-> NoRequest]
  /\ answer = [t \in Threads |-> "none"]

Call(t) ==
  /\ phase[t] = "idle"
  /\ \E r \in Requests : request' = [request EXCEPT ![t] = r]
  /\ phase' = [phase EXCEPT ![t] = "called"]
  /\ answer' = [answer EXCEPT ![t] = "none"]
  /\ UNCHANGED entries

Apply(t) ==
  LET r == request[t] IN
  /\ phase[t] = "called"
  /\ Permits(entries[r.id], r)
  /\ entries' = [entries EXCEPT ![r.id] = Effect(entries[r.id], r)]
  /\ phase' = [phase EXCEPT ![t] = "applied"]
  /\ UNCHANGED <<request, answer>>

Answer(t, from, answers) ==
  /\ phase[t] = from
  /\ \E a \in answers : answer' = [answer EXCEPT ![t] = a]
  /\ phase' = [phase EXCEPT ![t] = "idle"]
  /\ request' = [request EXCEPT ![t] = NoRequest]
  /\ UNCHANGED entries

Refuse(t) == Answer(t, "called", Refusals)

Confirm(t) == Answer(t, "applied", {"ok"} \cup LateErrors)

\* The processes in T die: their calls end unanswered, what was applied stays.
Die(T) ==
  /\ phase' = [t \in Threads |-> IF t \in T THEN "idle" ELSE phase[t]]
  /\ request' = [t \in Threads |-> IF t \in T THEN NoRequest ELSE request[t]]
  /\ answer' = [t \in Threads |-> IF t \in T THEN "none" ELSE answer[t]]
  /\ UNCHANGED entries

Next ==
  \/ \E t \in Threads : Call(t) \/ Apply(t) \/ Refuse(t) \/ Confirm(t)
  \/ \E T \in SUBSET Threads : Die(T)

Spec == Init /\ [][Next]_vars
===============================================================================
