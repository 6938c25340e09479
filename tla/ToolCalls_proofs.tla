-------------------------- MODULE ToolCalls_proofs --------------------------
(***************************************************************************)
(* What agents do.  ToolCalls: the audit entries and the pool's limit, for *)
(* any number of calls, slots and faults.  Conversations: the lists of the *)
(* connection manager and the broadcasts that walk them while they change, *)
(* for any sockets, sessions and webhooks.                                 *)
(***************************************************************************)
EXTENDS ToolCalls, Conversations, FiniteSetTheorems, TLAPS

\* Where a shell may be alive, and what its entry is there.
Stages ==
  \A c \in Calls :
    /\ shell[c] = "alive" =>
         at[c] \in {"running", "terminating", "aborting", "cut", "abandoned"}
    /\ at[c] = "cut" => entry[c] = "running"

SlotBound == Cardinality(Slots) <= MaxConcurrency

IInv == TypeOK /\ Stages /\ SlotBound

-------------------------------------------------------------------------------
(* Sets of calls, and the ledger's answers. *)

LEMMA Finite ==
  ASSUME NEW S \in SUBSET Calls
  PROVE  IsFiniteSet(S) /\ Cardinality(S) \in Nat
<1>1. IsFiniteSet(S)
  BY ToolAssumption, FS_Subset
<1> QED
  BY <1>1, FS_CardinalityType

LEMMA Constants == MaxConcurrency \in Nat /\ MaxConcurrency > 0 /\ MaxFaults \in Nat
BY ToolAssumption

LEMMA FaultsCount ==
  ASSUME faults \in 0..MaxFaults, NEW n \in Nat, Faults(n)
  PROVE  faults' \in 0..MaxFaults
BY Constants DEF Faults

\* A call whose sandbox has come to an end closes its entry, or says so.
LEMMA Settled ==
  ASSUME TypeOK, NEW c \in Calls, NEW n \in {0, 1}, Settle(c) \/ Failed(c, n)
  PROVE  /\ \E to \in {"returned", "raised"} : Goes(c, to)
         /\ \E s \in {"running", "completed", "failed"} : Entry(c, s)
         /\ faults' \in 0..MaxFaults
<1>1. faults \in 0..MaxFaults
  BY DEF TypeOK
<1>2. \/ Faults(0) \/ Faults(1) \/ Faults(1 + 1) \/ Faults(n) \/ Faults(n + 1)
  BY DEF Settle, Failed
<1>3. faults' \in 0..MaxFaults
  BY <1>1, <1>2, FaultsCount
<1>4. /\ \E to \in {"returned", "raised"} : Goes(c, to)
      /\ \E s \in {"running", "completed", "failed"} : Entry(c, s)
  BY DEF Settle, Failed
<1> QED
  BY <1>3, <1>4

-------------------------------------------------------------------------------
(* The steps. *)

\* Steps that take no slot, with what they must say of the call they move.
LEMMA Moved ==
  ASSUME IInv, NEW c \in Calls,
         NEW a \in {"new"} \cup InProgress \cup Ended, Goes(c, a),
         a \in Holding => at[c] \in Holding,
         NEW s \in {"none", "pending", "running", "completed", "failed"}, Entry(c, s),
         a \in InProgress \cup {"cut"} => s = "running",
         shell' \in [Calls -> {"none", "alive", "dead"}],
         background' \in [Calls -> {"none", "attached", "detached", "ended"}],
         \A d \in Calls \ {c} : shell'[d] = shell[d],
         shell'[c] = "alive" => a \in {"running", "terminating", "aborting", "cut", "abandoned"},
         faults' \in 0..MaxFaults, UNCHANGED runner
  PROVE  IInv'
<1>1. /\ at' \in [Calls -> {"new"} \cup InProgress \cup Ended] /\ at'[c] = a
      /\ \A d \in Calls \ {c} : at'[d] = at[d]
  BY DEF IInv, TypeOK, Goes
<1>2. /\ entry' \in [Calls -> {"none", "pending", "running", "completed", "failed"}]
      /\ entry'[c] = s /\ \A d \in Calls \ {c} : entry'[d] = entry[d]
  BY DEF IInv, TypeOK, Entry
<1>3. TypeOK'
  BY <1>1, <1>2 DEF IInv, TypeOK
<1>4. Stages'
  BY <1>1, <1>2 DEF IInv, Stages
<1>5. Slots' \in SUBSET Slots /\ Slots \in SUBSET Calls
  BY <1>1 DEF Slots
<1>6. Cardinality(Slots') <= Cardinality(Slots) /\ Cardinality(Slots') \in Nat
  BY <1>5, Finite, FS_Subset
<1>7. SlotBound'
  BY <1>5, <1>6, Finite, Constants DEF IInv, SlotBound
<1> QED
  BY <1>3, <1>4, <1>7 DEF IInv

\* A call that gets a slot that was free.
LEMMA Started ==
  ASSUME IInv, NEW c \in Calls, at[c] \in {"new", "waiting"}, Goes(c, "starting"),
         Entry(c, "running"), Cardinality(Slots) < MaxConcurrency,
         UNCHANGED <<runner, processes, faults>>
  PROVE  IInv'
<1>1. /\ at' \in [Calls -> {"new"} \cup InProgress \cup Ended] /\ at'[c] = "starting"
      /\ \A d \in Calls \ {c} : at'[d] = at[d]
  BY DEF IInv, TypeOK, Goes, InProgress, Holding
<1>2. /\ entry' \in [Calls -> {"none", "pending", "running", "completed", "failed"}]
      /\ entry'[c] = "running" /\ \A d \in Calls \ {c} : entry'[d] = entry[d]
  BY DEF IInv, TypeOK, Entry
<1>3. TypeOK'
  BY <1>1, <1>2 DEF IInv, TypeOK, processes
<1>4. Stages'
  BY <1>1, <1>2 DEF IInv, Stages, processes
<1>5. Slots' = Slots \cup {c} /\ Slots \in SUBSET Calls
  BY <1>1 DEF Slots, Holding
<1>6. IsFiniteSet(Slots) /\ Cardinality(Slots) \in Nat
  BY <1>5, Finite
<1>7. Cardinality(Slots \cup {c}) <= Cardinality(Slots) + 1
  <2>1. Cardinality(Slots \cup {c}) =
          IF c \in Slots THEN Cardinality(Slots) ELSE Cardinality(Slots) + 1
    BY <1>6, FS_AddElement
  <2> QED
    BY <1>6, <2>1
<1>8. Cardinality(Slots \cup {c}) \in Nat
  BY <1>5, Finite
<1>9. SlotBound'
  BY <1>5, <1>6, <1>7, <1>8, Constants DEF SlotBound
<1> QED
  BY <1>3, <1>4, <1>9 DEF IInv

LEMMA InitIInv == Init => IInv
<1> SUFFICES ASSUME Init PROVE IInv
  OBVIOUS
<1>1. Slots = {}
  BY DEF Init, Slots, Holding
<1>2. SlotBound
  BY <1>1, FS_EmptySet, Constants DEF SlotBound
<1> QED
  BY <1>2, Constants DEF Init, IInv, TypeOK, Stages, InProgress, Holding

LEMMA StepIInv == IInv /\ [Next]_vars => IInv'
<1> SUFFICES ASSUME IInv, [Next]_vars PROVE IInv'
  OBVIOUS
<1>r. UNCHANGED runner
  BY DEF Next, vars
<1> USE DEF InProgress, Holding, Ended
<1>0. /\ shell \in [Calls -> {"none", "alive", "dead"}]
      /\ background \in [Calls -> {"none", "attached", "detached", "ended"}]
      /\ entry \in [Calls -> {"none", "pending", "running", "completed", "failed"}]
      /\ at \in [Calls -> {"new"} \cup InProgress \cup Ended]
      /\ faults \in 0..MaxFaults /\ TypeOK
  BY DEF IInv, TypeOK
\* A call that ends: its shell is not alive.
<1>1. ASSUME NEW c \in Calls, NEW n \in {0, 1}, Settle(c) \/ Failed(c, n),
             shell' \in [Calls -> {"none", "alive", "dead"}],
             background' \in [Calls -> {"none", "attached", "detached", "ended"}],
             \A d \in Calls \ {c} : shell'[d] = shell[d], shell'[c] # "alive"
      PROVE  IInv'
  <2>1. PICK to \in {"returned", "raised"} : Goes(c, to)
    BY <1>0, <1>1, Settled
  <2>2. PICK s \in {"running", "completed", "failed"} : Entry(c, s)
    BY <1>0, <1>1, Settled
  <2>3. faults' \in 0..MaxFaults
    BY <1>0, <1>1, Settled
  <2> QED
    BY <1>1, <2>1, <2>2, <2>3, <1>r, Moved
\* A call that keeps its entry.
<1>2. ASSUME NEW c \in Calls, UNCHANGED entry, at[c] \in InProgress PROVE Entry(c, "running")
  BY <1>0, <1>2 DEF IInv, TypeOK, Entry
<1>3. ASSUME NEW c \in Calls, Refuse(c) PROVE IInv'
  <2>1. Goes(c, "raised") /\ Entry(c, entry[c]) /\ at[c] = "new"
    BY <1>0, <1>3 DEF Refuse, Entry
  <2>2. shell[c] # "alive"
    BY <2>1 DEF IInv, Stages
  <2> QED
    BY <1>0, <1>3, <2>1, <2>2, <1>r, Moved DEF Refuse, processes
<1>4. ASSUME NEW c \in Calls, Block(c) PROVE IInv'
  <2>1. /\ at[c] = "new" /\ UNCHANGED processes
        /\ \E to \in {"returned", "raised"} : Goes(c, to)
        /\ \E s \in {"none", "pending"} : Entry(c, s)
        /\ Faults(1) \/ UNCHANGED faults
    BY <1>4 DEF Block
  <2>2. shell[c] # "alive"
    BY <2>1 DEF IInv, Stages
  <2>3. faults' \in 0..MaxFaults
    BY <1>0, <2>1, FaultsCount
  <2>4. PICK to \in {"returned", "raised"} : Goes(c, to)
    BY <2>1
  <2>5. PICK s \in {"none", "pending"} : Entry(c, s)
    BY <2>1
  <2> QED
    BY <1>0, <2>1, <2>2, <2>3, <2>4, <2>5, <1>r, Moved DEF processes
<1>5. ASSUME NEW c \in Calls, Execute(c) PROVE IInv'
  <2>1. at[c] = "new" /\ UNCHANGED processes /\ shell[c] # "alive"
    BY <1>5 DEF Execute, IInv, Stages
  <2>2. CASE /\ Goes(c, IF Locked THEN "waiting" ELSE "starting")
             /\ Entry(c, "running") /\ UNCHANGED faults
    <3>1. CASE Locked
      BY <1>0, <2>1, <2>2, <3>1, <1>r, Moved DEF processes
    <3>2. CASE ~Locked
      <4>1. Cardinality(Slots) < MaxConcurrency
        <5>1. Slots \in SUBSET Calls
          BY DEF Slots
        <5> QED
          BY <3>2, <5>1, Finite, Constants DEF Locked
      <4> QED
        BY <2>1, <2>2, <3>2, <4>1, <1>r, Started
    <3> QED
      BY <3>1, <3>2
  <2>3. CASE /\ Goes(c, "raised") /\ Faults(1)
             /\ \E s \in {"none", "pending", "running"} : Entry(c, s)
    <3>1. PICK s \in {"none", "pending", "running"} : Entry(c, s)
      BY <2>3
    <3>2. faults' \in 0..MaxFaults
      BY <1>0, <2>3, FaultsCount
    <3> QED
      BY <1>0, <2>1, <2>3, <3>1, <3>2, <1>r, Moved DEF processes
  <2> QED
    BY <1>5, <2>2, <2>3 DEF Execute
<1>6. ASSUME NEW c \in Calls, Acquire(c) PROVE IInv'
  BY <1>2, <1>6, <1>r, Started DEF Acquire
<1>7. ASSUME NEW c \in Calls, Start(c) PROVE IInv'
  <2>1. at[c] = "starting" /\ UNCHANGED background /\ shell[c] # "alive"
    BY <1>7 DEF Start, IInv, Stages
  <2>2. CASE /\ Goes(c, "running") /\ shell' = [shell EXCEPT ![c] = "alive"]
             /\ UNCHANGED <<entry, faults>>
    BY <1>0, <1>2, <2>1, <2>2, <1>r, Moved
  <2>3. CASE Failed(c, 1) /\ UNCHANGED shell
    BY <1>0, <1>1, <2>1, <2>3
  <2> QED
    BY <1>7, <2>2, <2>3 DEF Start
<1>8. ASSUME NEW c \in Calls, Finish(c) \/ Drain(c) PROVE IInv'
  <2>1. shell[c] # "alive" /\ Settle(c) /\ UNCHANGED processes
    BY <1>8 DEF Finish, Drain, OutputEnded
  <2> QED
    BY <1>0, <1>1, <2>1 DEF processes
<1>9. ASSUME NEW c \in Calls, Timeout(c) \/ KillNamespace(c) PROVE IInv'
  <2>1. at[c] = "running" /\ UNCHANGED <<entry, faults>>
    BY <1>9 DEF Timeout, KillNamespace
  <2>2. Entry(c, "running")
    BY <1>2, <2>1
  <2>3. CASE Timeout(c)
    <3>1. /\ UNCHANGED processes
          /\ Goes(c, IF shell[c] = "dead" THEN "draining" ELSE "terminating")
      BY <2>3 DEF Timeout
    <3> QED
      BY <1>0, <1>r, <2>1, <2>2, <3>1, Moved DEF processes
  <2>4. CASE KillNamespace(c)
    <3>1. /\ shell' \in [Calls -> {"none", "alive", "dead"}]
          /\ background' \in [Calls -> {"none", "attached", "detached", "ended"}]
          /\ \A d \in Calls \ {c} : shell'[d] = shell[d]
          /\ shell'[c] = "dead" /\ Goes(c, "draining")
      BY <1>0, <2>4 DEF KillNamespace, KillGroup
    <3> QED
      BY <1>0, <1>r, <2>1, <2>2, <3>1, Moved
  <2> QED
    BY <1>9, <2>3, <2>4
<1>10. ASSUME NEW c \in Calls, ReadFails(c) PROVE IInv'
  <2>1. /\ at[c] = "running" /\ UNCHANGED <<entry, processes>> /\ Goes(c, "aborting")
        /\ faults' \in 0..MaxFaults
    BY <1>0, <1>10, FaultsCount DEF ReadFails
  <2>2. Entry(c, "running")
    BY <1>2, <2>1
  <2> QED
    BY <1>0, <1>r, <2>1, <2>2, Moved DEF processes
<1>15. ASSUME NEW c \in Calls, Abandon(c) PROVE IInv'
  <2>1. /\ at[c] = "running" /\ UNCHANGED processes /\ Goes(c, "abandoned")
        /\ \E s \in {"running", "failed"} : Entry(c, s)
        /\ Faults(1) \/ Faults(2)
    BY <1>15 DEF Abandon
  <2>2. PICK s \in {"running", "failed"} : Entry(c, s)
    BY <2>1
  <2>3. faults' \in 0..MaxFaults
    BY <1>0, <2>1, FaultsCount
  <2> QED
    BY <1>0, <1>r, <2>1, <2>2, <2>3, Moved DEF processes
<1>11. ASSUME NEW c \in Calls, Kill(c) PROVE IInv'
  <2>1. /\ shell' \in [Calls -> {"none", "alive", "dead"}]
        /\ background' \in [Calls -> {"none", "attached", "detached", "ended"}]
        /\ \A d \in Calls \ {c} : shell'[d] = shell[d]
        /\ shell'[c] = "dead"
    BY <1>0, <1>11 DEF Kill, KillGroup, processes
  <2>2. CASE at[c] = "terminating"
    <3>1. Goes(c, "draining") /\ UNCHANGED <<entry, faults>>
      BY <1>11, <2>2 DEF Kill
    <3>2. Entry(c, "running")
      BY <1>2, <2>2, <3>1
    <3> QED
      BY <1>0, <2>1, <2>2, <1>r, <3>1, <3>2, Moved
  <2>3. CASE at[c] = "aborting"
    <3>1. Settle(c)
      BY <1>11, <2>3 DEF Kill
    <3> QED
      BY <1>1, <2>1, <3>1
  <2> QED
    BY <1>11, <2>2, <2>3 DEF Kill
<1>12. ASSUME NEW c \in Calls, Command(c) PROVE IInv'
  <2>1. /\ shell' \in [Calls -> {"none", "alive", "dead"}]
        /\ background' \in [Calls -> {"none", "attached", "detached", "ended"}]
        /\ \A d \in Calls : shell'[d] = "alive" => shell[d] = "alive"
        /\ UNCHANGED <<at, entry, faults>>
    BY <1>0, <1>12 DEF Command, Fork, ShellEnds, BackgroundEnds, TimeLimit, KillGroup
  <2>2. UNCHANGED Slots
    BY <2>1 DEF Slots
  <2> QED
    BY <1>r, <2>1, <2>2 DEF IInv, TypeOK, Stages, SlotBound
<1>13. ASSUME ServerEnds PROVE IInv'
  <2>1. /\ at' = [c \in Calls |-> IF at[c] \in InProgress THEN "cut" ELSE at[c]]
        /\ UNCHANGED <<entry, faults>>
        /\ shell' \in [Calls -> {"none", "alive", "dead"}]
        /\ background' \in [Calls -> {"none", "attached", "detached", "ended"}]
        /\ \A d \in Calls : shell'[d] = "alive" => shell[d] = "alive"
    BY <1>0, <1>13 DEF ServerEnds, processes
  <2>2. TypeOK' /\ Stages'
    BY <1>r, <2>1 DEF IInv, TypeOK, Stages
  <2>3. Slots' = {}
    BY <2>1 DEF Slots
  <2>4. SlotBound'
    BY <2>3, FS_EmptySet, Constants DEF SlotBound
  <2> QED
    BY <2>2, <2>4 DEF IInv
<1>14. ASSUME UNCHANGED vars PROVE IInv'
  BY <1>14 DEF IInv, TypeOK, Stages, SlotBound, Slots, vars, processes
<1> QED
  BY <1>3, <1>4, <1>5, <1>6, <1>7, <1>8, <1>9, <1>10, <1>11, <1>12, <1>13, <1>14,
     <1>15 DEF Next, Server

LEMMA Invariance == Spec => []IInv
BY InitIInv, StepIInv, PTL DEF Spec

-------------------------------------------------------------------------------
(* The theorems. *)

\* Calls, their ledger entries and their processes keep their types; a call that is
\* waiting or in the sandbox has an entry that is running.
THEOREM CallsTyped == Spec => []TypeOK
<1>1. IInv => TypeOK
  BY DEF IInv
<1> QED
  BY <1>1, Invariance, PTL

\* Every command that is being executed is "running" in the ledger, whatever
\* _dispatch_sandbox, the pool, the runner or the ledger go through.
THEOREM AuditIsTrue == Spec => []ExecutedIsRecorded
<1>1. IInv => ExecutedIsRecorded
  BY DEF IInv, TypeOK, Stages, ExecutedIsRecorded, InProgress, Holding
<1> QED
  BY <1>1, Invariance, PTL

\* BoundedSandboxProvider: one server never executes more commands at a time than
\* its pool has slots.
THEOREM PoolIsBounded == Spec => []PoolBound
<1>1. IInv => PoolBound
  <2> SUFFICES ASSUME IInv PROVE PoolBound
    OBVIOUS
  <2> DEFINE busy == {c \in Calls : shell[c] = "alive" /\ at[c] \notin {"cut", "abandoned"}}
  <2>1. busy \in SUBSET Slots /\ Slots \in SUBSET Calls
    BY DEF IInv, Stages, Slots, Holding
  <2> HIDE DEF busy
  <2>2. Cardinality(busy) <= Cardinality(Slots) /\ Cardinality(busy) \in Nat
    BY <2>1, Finite, FS_Subset
  <2>3. Cardinality(busy) <= MaxConcurrency
    BY <2>1, <2>2, Finite, Constants DEF IInv, SlotBound
  <2> QED
    BY <2>3 DEF PoolBound, busy
<1> QED
  BY <1>1, Invariance, PTL

-------------------------------------------------------------------------------
(* Conversations: what is invariant of the lists and of the broadcasts that walk them. *)

Casts == [on : {"none", "thinking", "list", "over", "broken", "died"},
          at : Sessions \cup {None}, next : Nat \ {0}, keys : Nat,
          seen : SUBSET Sessions, steady : BOOLEAN, owed : SUBSET Sockets]

\* The keys of the dictionary.
KeysOf(A) == {k \in Sessions : A[k] # <<>>}

\* A broadcast that is under way stands in a list that is there; while no key came or
\* went it knows how many there are; and whoever it owes the message is registered,
\* under a key it has not visited, or in its list where it is still to come.
Sound(r, A) ==
  /\ r.at # None => r.at \in r.seen /\ A[r.at] # <<>>
  /\ r.steady => r.keys = Cardinality(KeysOf(A))
  /\ ~r.steady => r.owed = {}
  /\ \A x \in r.owed :
       \E i \in 1..Len(A[SessionOf[x]]) :
         /\ A[SessionOf[x]][i] = x
         /\ SessionOf[x] \in r.seen => SessionOf[x] = r.at /\ i >= r.next

\* What a broadcast under way, or one that has ended, is known to have done.
Fine(r, A) ==
  /\ r.on = "list" => Sound(r, A)
  /\ r.on = "over" => r.owed = {}
  /\ r.on = "broken" => ~r.steady

Broadcasts == \A c \in Casters : Fine(cast[c], active)

ConversationInv == ConversationTypeOK /\ TablesMatch /\ Broadcasts

-------------------------------------------------------------------------------
(* The dictionary and its lists. *)

LEMMA ConversationConstants ==
  /\ \A s \in Sockets : SessionOf[s] \in Sessions
  /\ MaxLoops \in Nat /\ MaxLoops > 0 /\ MaxMentions \in Nat /\ MaxMentions > 0
  /\ None \notin Sessions
  /\ \A w \in Webhooks, i \in 0..MaxMentions : <<w, i>> \in Casters
  /\ \A c \in Casters : c = <<c[1], c[2]>> /\ c[1] \in Webhooks /\ c[2] \in 0..MaxMentions
BY ConversationAssumption DEF Casters

LEMMA ListElements ==
  ASSUME NEW l \in Seq(Sockets)
  PROVE  /\ ToSet(l) = {l[i] : i \in 1..Len(l)} /\ ToSet(l) \subseteq Sockets
         /\ Len(l) \in Nat /\ (l = <<>> <=> Len(l) = 0)
         /\ IsInjective(l) <=> \A i, j \in 1..Len(l) : l[i] = l[j] => i = j
BY DEF ToSet, IsInjective

\* Every key has a socket of its own, so that there are finitely many.
LEMMA KeysFinite ==
  ASSUME ConversationTypeOK, TablesMatch
  PROVE  KeysOf(active) = Keys /\ Cardinality(Keys) \in Nat
<1>1. KeysOf(active) = Keys
  BY DEF KeysOf, Keys
<1> DEFINE S == {s \in Sockets : SessionOf[s] \in Keys}
           f == [s \in S |-> SessionOf[s]]
<1>2. \A k \in Keys : \E s \in S : f[s] = k
  <2> SUFFICES ASSUME NEW k \in Keys PROVE \E s \in S : f[s] = k
    OBVIOUS
  <2>1. active[k] \in Seq(Sockets) /\ active[k] # <<>> /\ k \in Sessions
    BY DEF Keys, ConversationTypeOK
  <2>2. active[k][1] \in ToSet(active[k])
    BY <2>1, ListElements
  <2>3. active[k][1] \in Sockets /\ SessionOf[active[k][1]] = k
    BY <2>1, <2>2 DEF TablesMatch
  <2> QED
    BY <2>3
<1>3. IsFiniteSet(S)
  BY ConversationAssumption, FS_Subset
<1>4. f \in Surjection(S, Keys)
  BY <1>2 DEF Surjection
<1>5. IsFiniteSet(Keys)
  BY <1>3, <1>4, FS_Surjection
<1> QED
  BY <1>1, <1>5, FS_CardinalityType

LEMMA Appended ==
  ASSUME NEW l \in Seq(Sockets), NEW s \in Sockets
  PROVE  /\ Append(l, s) \in Seq(Sockets) /\ Append(l, s) # <<>>
         /\ Len(Append(l, s)) = Len(l) + 1 /\ Append(l, s)[Len(l) + 1] = s
         /\ \A i \in 1..Len(l) : Append(l, s)[i] = l[i]
         /\ ToSet(Append(l, s)) = ToSet(l) \cup {s}
         /\ IsInjective(l) /\ s \notin ToSet(l) => IsInjective(Append(l, s))
<1> DEFINE m == Append(l, s)
<1>1. /\ m \in Seq(Sockets) /\ Len(m) = Len(l) + 1 /\ m[Len(l) + 1] = s /\ Len(l) \in Nat
      /\ \A i \in 1..Len(l) : m[i] = l[i]
  OBVIOUS
<1> HIDE DEF m
<1>2. ToSet(m) = {m[i] : i \in 1..(Len(l) + 1)} /\ ToSet(l) = {l[i] : i \in 1..Len(l)}
  BY <1>1, ListElements
<1>3. ToSet(m) = ToSet(l) \cup {s}
  BY <1>1, <1>2
<1>4. ASSUME IsInjective(l), s \notin ToSet(l) PROVE IsInjective(m)
  <2>1. \A i, j \in 1..Len(l) : l[i] = l[j] => i = j
    BY <1>4, ListElements
  <2>2. \A i \in 1..Len(l) : l[i] # s
    BY <1>2, <1>4
  <2>3. \A i, j \in 1..Len(m) : m[i] = m[j] => i = j
    BY <1>1, <2>1, <2>2
  <2> QED
    BY <1>1, <2>3, ListElements
<1>5. m # <<>>
  BY <1>1
<1> QED
  BY <1>1, <1>3, <1>4, <1>5 DEF m

\* What stands behind the element that is removed moves up by one.
LEMMA Removed ==
  ASSUME NEW l \in Seq(Sockets), NEW p \in 1..Len(l), IsInjective(l)
  PROVE  /\ RemoveAt(l, p) \in Seq(Sockets) /\ Len(RemoveAt(l, p)) = Len(l) - 1
         /\ \A i \in 1..Len(l) : i < p => RemoveAt(l, p)[i] = l[i]
         /\ \A i \in 1..Len(l) : i > p => RemoveAt(l, p)[i - 1] = l[i]
         /\ ToSet(RemoveAt(l, p)) = ToSet(l) \ {l[p]}
         /\ IsInjective(RemoveAt(l, p))
<1> DEFINE a == SubSeq(l, 1, p - 1)
           b == SubSeq(l, p + 1, Len(l))
           m == RemoveAt(l, p)
<1>1. p \in Nat /\ Len(l) \in Nat /\ p <= Len(l) /\ p > 0
  OBVIOUS
<1>2. a \in Seq(Sockets) /\ Len(a) = p - 1 /\ \A i \in 1..(p - 1) : a[i] = l[i]
  BY <1>1
<1>3. b \in Seq(Sockets) /\ Len(b) = Len(l) - p /\ \A i \in 1..(Len(l) - p) : b[i] = l[p + i]
  BY <1>1
<1>4. m = a \o b
  BY DEF RemoveAt
<1> HIDE DEF a, b, m
<1>5. /\ m \in Seq(Sockets) /\ Len(m) = Len(l) - 1
      /\ \A i \in 1..(p - 1) : m[i] = a[i]
      /\ \A i \in 1..(Len(l) - p) : m[(p - 1) + i] = b[i]
  <2>0. a \in Seq(Sockets) /\ b \in Seq(Sockets)
    BY <1>2, <1>3
  <2>1. a \o b \in Seq(Sockets) /\ Len(a \o b) = Len(a) + Len(b)
    BY <2>0
  <2>2. \A i \in 1..Len(a) : (a \o b)[i] = a[i]
    BY <2>0
  <2>3. \A i \in 1..Len(b) : (a \o b)[Len(a) + i] = b[i]
    BY <2>0
  <2>4. Len(m) = Len(l) - 1
    BY <1>1, <1>2, <1>3, <1>4, <2>1
  <2> QED
    BY <1>2, <1>3, <1>4, <2>1, <2>2, <2>3, <2>4
<1>6. \A i \in 1..Len(l) : i < p => m[i] = l[i]
  BY <1>1, <1>2, <1>5
<1>7. ASSUME NEW i \in 1..Len(l), i > p PROVE m[i - 1] = l[i]
  <2>1. i - p \in 1..(Len(l) - p) /\ (p - 1) + (i - p) = i - 1 /\ p + (i - p) = i
    BY <1>1, <1>7
  <2> QED
    BY <1>3, <1>5, <2>1
<1>8. \A i, j \in 1..Len(l) : l[i] = l[j] => i = j
  BY ListElements
<1> DEFINE old(i) == IF i < p THEN i ELSE i + 1
<1>9. \A i \in 1..Len(m) : old(i) \in 1..Len(l) /\ old(i) # p /\ m[i] = l[old(i)]
  <2> SUFFICES ASSUME NEW i \in 1..Len(m)
               PROVE  old(i) \in 1..Len(l) /\ old(i) # p /\ m[i] = l[old(i)]
    OBVIOUS
  <2>1. CASE i < p
    BY <1>1, <1>5, <1>6, <2>1
  <2>2. CASE ~(i < p)
    <3>1. i + 1 \in 1..Len(l) /\ i + 1 > p /\ (i + 1) - 1 = i
      BY <1>1, <1>5, <2>2
    <3>2. m[(i + 1) - 1] = l[i + 1]
      BY <1>7, <3>1
    <3> QED
      BY <2>2, <3>1, <3>2
  <2> QED
    BY <2>1, <2>2
<1>10. ASSUME NEW i \in 1..Len(m), NEW j \in 1..Len(m), m[i] = m[j] PROVE i = j
  <2>1. old(i) = old(j)
    BY <1>8, <1>9, <1>10
  <2> QED
    BY <1>1, <1>5, <2>1
<1>11. IsInjective(m)
  BY <1>5, <1>10, ListElements
<1>12. ToSet(m) = {m[i] : i \in 1..Len(m)} /\ ToSet(l) = {l[i] : i \in 1..Len(l)}
  BY <1>5, ListElements
<1>13. \A i \in 1..Len(m) : m[i] \in ToSet(l) /\ m[i] # l[p]
  BY <1>8, <1>9, <1>12
<1>14. ASSUME NEW x \in ToSet(l), x # l[p] PROVE x \in ToSet(m)
  <2>1. PICK i \in 1..Len(l) : x = l[i]
    BY <1>12
  <2>2. CASE i < p
    BY <1>1, <1>5, <1>6, <1>12, <2>1, <2>2
  <2>3. CASE i > p
    <3>1. i - 1 \in 1..Len(m)
      BY <1>1, <1>5, <2>3
    <3> QED
      BY <1>7, <1>12, <2>1, <2>3, <3>1
  <2> QED
    BY <1>1, <1>14, <2>1, <2>2, <2>3
<1>15. ToSet(m) = ToSet(l) \ {l[p]}
  BY <1>12, <1>13, <1>14
<1> QED
  BY <1>5, <1>6, <1>7, <1>11, <1>15 DEF m

-------------------------------------------------------------------------------
(* One broadcast. *)

\* What a broadcast goes through stays a broadcast.
LEMMA Updated ==
  ASSUME NEW r \in Casts
  PROVE  /\ \A n \in Nat \ {0}, o \in SUBSET Sockets : [r EXCEPT !.next = n, !.owed = o] \in Casts
         /\ \A n \in Nat \ {0}, o \in SUBSET Sockets, k \in Sessions, t \in SUBSET Sessions :
              [r EXCEPT !.at = k, !.next = n, !.seen = t, !.owed = o] \in Casts
         /\ \A o \in SUBSET Sockets : /\ [r EXCEPT !.owed = o] \in Casts
                                     /\ [r EXCEPT !.steady = FALSE, !.owed = o] \in Casts
         /\ \A k \in Sessions \cup {None}, t \in SUBSET Sessions :
              [r EXCEPT !.at = k, !.seen = t] \in Casts
<1>1. \A n \in Nat \ {0}, o \in SUBSET Sockets : [r EXCEPT !.next = n, !.owed = o] \in Casts
  BY DEF Casts
<1>2. \A n \in Nat \ {0}, o \in SUBSET Sockets, k \in Sessions, t \in SUBSET Sessions :
        [r EXCEPT !.at = k, !.next = n, !.seen = t, !.owed = o] \in Casts
  BY DEF Casts
<1>3. \A o \in SUBSET Sockets : /\ [r EXCEPT !.owed = o] \in Casts
                               /\ [r EXCEPT !.steady = FALSE, !.owed = o] \in Casts
  BY DEF Casts
<1>4. \A k \in Sessions \cup {None}, t \in SUBSET Sessions :
        [r EXCEPT !.at = k, !.seen = t] \in Casts
  BY DEF Casts
<1> QED
  BY <1>1, <1>2, <1>3, <1>4

\* A broadcast that has not begun, or has ended.
LEMMA AtRest ==
  ASSUME NEW on \in {"none", "thinking", "over", "broken", "died"},
         NEW b \in BOOLEAN, NEW o \in SUBSET Sockets
  PROVE  /\ [Off EXCEPT !.on = on] \in Casts
         /\ [Off EXCEPT !.on = on, !.steady = b, !.owed = o] \in Casts
<1>1. Off \in Casts
  BY DEF Off, Casts
<1>2. \A r \in Casts : /\ [r EXCEPT !.on = on] \in Casts
                      /\ [r EXCEPT !.on = on, !.steady = b, !.owed = o] \in Casts
  BY DEF Casts
<1> QED
  BY <1>1, <1>2

LEMMA OffFine ==
  /\ Off \in Casts /\ Off.steady /\ Off.owed = {} /\ Off.on = "none"
  /\ [Off EXCEPT !.on = "thinking"] \in Casts
  /\ \A A : Fine(Off, A) /\ Fine([Off EXCEPT !.on = "thinking"], A)
<1>1. Off \in Casts /\ Off.steady /\ Off.owed = {} /\ Off.on = "none"
  BY DEF Off, Casts
<1>2. [Off EXCEPT !.on = "thinking"] \in Casts
  BY AtRest
<1>3. [Off EXCEPT !.on = "thinking"].on = "thinking"
  BY DEF Off
<1> QED
  BY <1>1, <1>2, <1>3 DEF Fine

LEMMA OutcomeFine ==
  ASSUME NEW r \in Casts, NEW on \in {"over", "broken", "died"},
         on = "over" => r.owed = {}, on = "broken" => ~r.steady
  PROVE  Outcome(r, on) \in Casts /\ Outcome(r, on).on = on /\ \A A : Fine(Outcome(r, on), A)
<1>1. /\ Outcome(r, on).on = on /\ Outcome(r, on).steady = r.steady
      /\ Outcome(r, on).owed = r.owed
  BY DEF Outcome, Off
<1>2. r.steady \in BOOLEAN /\ r.owed \in SUBSET Sockets
  BY DEF Casts
<1>3. Outcome(r, on) \in Casts
  BY <1>2, AtRest DEF Outcome
<1> QED
  BY <1>1, <1>3 DEF Fine

LEMMA FreshFine ==
  ASSUME ConversationTypeOK, TablesMatch
  PROVE  Fresh \in Casts /\ Fresh.on = "list" /\ Sound(Fresh, active)
<1>1. KeysOf(active) = Keys /\ Cardinality(Keys) \in Nat
  BY KeysFinite
<1>2. /\ Fresh.on = "list" /\ Fresh.at = None /\ Fresh.steady /\ Fresh.seen = {}
      /\ Fresh.keys = Cardinality(Keys) /\ Fresh.owed = Registered
  BY DEF Fresh, Off
<1>3. ASSUME NEW x \in Registered
      PROVE  /\ x \in Sockets
             /\ \E i \in 1..Len(active[SessionOf[x]]) : active[SessionOf[x]][i] = x
  <2>1. PICK k \in Sessions : x \in ToSet(active[k])
    BY DEF Registered
  <2>2. x \in Sockets /\ SessionOf[x] = k /\ active[k] \in Seq(Sockets)
    BY <2>1 DEF TablesMatch, ConversationTypeOK
  <2> QED
    BY <2>1, <2>2, ListElements
<1>4. Fresh \in Casts
  <2>1. \A n \in Nat, o \in SUBSET Sockets, r \in Casts :
          [r EXCEPT !.on = "list", !.keys = n, !.owed = o] \in Casts
    BY DEF Casts
  <2>2. Cardinality(Keys) \in Nat /\ Registered \in SUBSET Sockets
    BY <1>1, <1>3
  <2> QED
    BY <2>1, <2>2, OffFine DEF Fresh
<1> QED
  BY <1>1, <1>2, <1>3, <1>4 DEF Sound

\* The iterator of a list gives way to that of the dictionary when nobody is owed
\* anything further on in the list.
LEMMA NextKeyFine ==
  ASSUME ConversationTypeOK, TablesMatch, NEW r \in Casts, r.on = "list", Sound(r, active),
         r.at = None \/ r.next > Len(active[r.at]), NEW n \in NextKey(r)
  PROVE  n \in Casts /\ Fine(n, active) /\ n.on \in {"list", "over", "broken"}
<1>0. KeysOf(active) = Keys /\ Cardinality(Keys) \in Nat
  BY KeysFinite
<1>1. \A x \in r.owed : /\ x \in Sockets /\ SessionOf[x] \in Keys /\ SessionOf[x] \notin r.seen
                        /\ \E i \in 1..Len(active[SessionOf[x]]) : active[SessionOf[x]][i] = x
  <2> SUFFICES ASSUME NEW x \in r.owed
               PROVE  /\ x \in Sockets /\ SessionOf[x] \in Keys /\ SessionOf[x] \notin r.seen
                      /\ \E i \in 1..Len(active[SessionOf[x]]) : active[SessionOf[x]][i] = x
    OBVIOUS
  <2>1. x \in Sockets /\ SessionOf[x] \in Sessions /\ active[SessionOf[x]] \in Seq(Sockets)
    BY ConversationConstants DEF Casts, ConversationTypeOK
  <2>2. PICK i \in 1..Len(active[SessionOf[x]]) :
          /\ active[SessionOf[x]][i] = x
          /\ SessionOf[x] \in r.seen => SessionOf[x] = r.at /\ i >= r.next
    BY DEF Sound
  <2>3. SessionOf[x] \in Keys
    BY <2>1, <2>2 DEF Keys
  <2>4. /\ r.next \in Nat /\ i \in Nat /\ Len(active[SessionOf[x]]) \in Nat
        /\ i <= Len(active[SessionOf[x]])
    BY <2>1, <2>2 DEF Casts
  <2>5. ~(SessionOf[x] = r.at /\ i >= r.next)
    BY <2>1, <2>4, ConversationConstants
  <2> QED
    BY <2>1, <2>2, <2>3, <2>5
<1>2. CASE Cardinality(Keys) # r.keys
  <2>1. n = Outcome(r, "broken")
    BY <1>2 DEF NextKey
  <2>2. ~r.steady
    BY <1>0, <1>2 DEF Sound
  <2> QED
    BY <2>1, <2>2, OutcomeFine
<1>3. CASE Cardinality(Keys) = r.keys
  <2>1. CASE n = Outcome(r, "over") /\ (Keys \subseteq r.seen \/ ~r.steady)
    <3>1. r.owed = {}
      BY <1>1, <2>1 DEF Sound
    <3> QED
      BY <2>1, <3>1, OutcomeFine
  <2>2. ASSUME NEW k \in Keys \ r.seen,
               n = [r EXCEPT !.at = k, !.next = 2, !.seen = @ \cup {k}, !.owed = @ \ {active[k][1]}]
        PROVE  n \in Casts /\ Fine(n, active) /\ n.on \in {"list", "over", "broken"}
    <3>1. /\ n.on = "list" /\ n.at = k /\ n.next = 2 /\ n.seen = r.seen \cup {k}
          /\ n.owed = r.owed \ {active[k][1]} /\ n.steady = r.steady /\ n.keys = r.keys
      BY <2>2 DEF Casts
    <3>2. n \in Casts
      <4>1. /\ k \in Sessions /\ 2 \in Nat \ {0}
            /\ r.seen \cup {k} \in SUBSET Sessions /\ r.owed \ {active[k][1]} \in SUBSET Sockets
        BY DEF Casts, Keys
      <4> QED
        BY <2>2, <4>1, Updated
    <3>3. ASSUME NEW x \in n.owed
          PROVE  \E i \in 1..Len(active[SessionOf[x]]) :
                   /\ active[SessionOf[x]][i] = x
                   /\ SessionOf[x] \in n.seen => SessionOf[x] = n.at /\ i >= n.next
      <4>1. x \in r.owed /\ x # active[k][1]
        BY <3>1
      <4>2. PICK i \in 1..Len(active[SessionOf[x]]) : active[SessionOf[x]][i] = x
        BY <1>1, <4>1
      <4>3. SessionOf[x] \in n.seen => SessionOf[x] = k
        BY <1>1, <3>1, <4>1
      <4>4. SessionOf[x] = k => i # 1
        BY <4>1, <4>2
      <4>5. SessionOf[x] = k => i >= 2
        BY <4>4
      <4> QED
        BY <3>1, <4>2, <4>3, <4>5
    <3>4. active[k] # <<>>
      BY DEF Keys
    <3>5. (n.steady => n.keys = Cardinality(KeysOf(active))) /\ (~n.steady => n.owed = {})
      BY <3>1 DEF Sound
    <3> QED
      BY <3>1, <3>2, <3>3, <3>4, <3>5 DEF Fine, Sound
  <2> QED
    BY <1>3, <2>1, <2>2 DEF NextKey
<1> QED
  BY <1>2, <1>3

LEMMA WalkFine ==
  ASSUME ConversationTypeOK, TablesMatch, NEW r \in Casts, r.on = "list", Sound(r, active),
         NEW n \in Walk(r)
  PROVE  n \in Casts /\ Fine(n, active) /\ n.on \in {"list", "over", "broken"}
<1>1. CASE r.at # None /\ r.next <= Len(active[r.at])
  <2>1. n = [r EXCEPT !.next = @ + 1, !.owed = @ \ {active[r.at][r.next]}]
    BY <1>1 DEF Walk
  <2>2. /\ n.on = "list" /\ n.at = r.at /\ n.next = r.next + 1 /\ n.seen = r.seen
        /\ n.owed = r.owed \ {active[r.at][r.next]} /\ n.steady = r.steady /\ n.keys = r.keys
    BY <2>1 DEF Casts
  <2>3. n \in Casts /\ r.next \in Nat
    <3>1. /\ r.next + 1 \in Nat \ {0} /\ r.owed \ {active[r.at][r.next]} \in SUBSET Sockets
          /\ r.next \in Nat
      BY DEF Casts
    <3>2. \A m \in Nat \ {0}, o \in SUBSET Sockets : [r EXCEPT !.next = m, !.owed = o] \in Casts
      BY Updated
    <3> QED
      BY <2>1, <3>1, <3>2
  <2>4. ASSUME NEW x \in n.owed
        PROVE  \E i \in 1..Len(active[SessionOf[x]]) :
                 /\ active[SessionOf[x]][i] = x
                 /\ SessionOf[x] \in n.seen => SessionOf[x] = n.at /\ i >= n.next
    <3>1. x \in r.owed /\ x # active[r.at][r.next]
      BY <2>2
    <3>2. PICK i \in 1..Len(active[SessionOf[x]]) :
            /\ active[SessionOf[x]][i] = x
            /\ SessionOf[x] \in r.seen => SessionOf[x] = r.at /\ i >= r.next
      BY <3>1 DEF Sound
    <3>3. SessionOf[x] \in r.seen => i # r.next
      BY <3>1, <3>2
    <3>4. SessionOf[x] \in r.seen => i >= r.next + 1
      BY <2>3, <3>2, <3>3
    <3> QED
      BY <2>2, <3>2, <3>4
  <2>5. /\ n.at # None => n.at \in n.seen /\ active[n.at] # <<>>
        /\ (n.steady => n.keys = Cardinality(KeysOf(active))) /\ (~n.steady => n.owed = {})
    BY <2>2 DEF Sound
  <2> QED
    BY <2>2, <2>3, <2>4, <2>5 DEF Fine, Sound
<1>2. CASE ~(r.at # None /\ r.next <= Len(active[r.at]))
  <2>1. n \in NextKey(r)
    BY <1>2, Zenon DEF Walk
  <2>2. r.at # None => r.next \in Nat /\ Len(active[r.at]) \in Nat
    BY ListElements DEF Casts, ConversationTypeOK
  <2>3. r.at = None \/ r.next > Len(active[r.at])
    BY <1>2, <2>2
  <2> QED
    BY <2>1, <2>3, NextKeyFine
<1> QED
  BY <1>1, <1>2

\* A key has come or gone: nobody is owed the message any more.
LEMMA UnsteadyFine ==
  ASSUME NEW r \in Casts
  PROVE  LET u == Unsteady(r) IN
         /\ u \in Casts /\ ~u.steady /\ u.owed = {}
         /\ u.on = r.on /\ u.at = r.at /\ u.seen = r.seen
<1>1. Unsteady(r) \in Casts
  BY Updated DEF Unsteady
<1> QED
  BY <1>1 DEF Unsteady, Casts

\* A socket that joins a list stands behind every iterator's position.
LEMMA JoinFine ==
  ASSUME ConversationTypeOK, NEW r \in Casts, Fine(r, active), NEW s \in Sockets, NEW A,
         A = [active EXCEPT ![SessionOf[s]] = Append(@, s)], NEW n,
         n = IF Running(r) /\ active[SessionOf[s]] = <<>> THEN Unsteady(r) ELSE r
  PROVE  n \in Casts /\ Fine(n, A)
<1> DEFINE k == SessionOf[s]
<1>1. k \in Sessions /\ active[k] \in Seq(Sockets)
  BY ConversationConstants DEF ConversationTypeOK
<1> HIDE DEF k
<1>2. /\ A[k] = Append(active[k], s)
      /\ \A j \in Sessions : j # k => A[j] = active[j]
  BY <1>1 DEF k, ConversationTypeOK
<1>3. /\ A[k] # <<>> /\ Len(A[k]) = Len(active[k]) + 1 /\ Len(active[k]) \in Nat
      /\ \A i \in 1..Len(active[k]) : A[k][i] = active[k][i]
  BY <1>1, <1>2, Appended
<1>4. CASE ~Running(r)
  <2>1. n = r
    BY <1>4
  <2> QED
    BY <1>4, <2>1 DEF Fine, Running
<1>5. ASSUME Running(r) PROVE r.on = "list" /\ Sound(r, active) /\ r.at \in Sessions \cup {None}
  BY <1>5 DEF Running, Fine, Casts
<1>6. \A j \in Sessions : active[j] # <<>> => A[j] # <<>>
  BY <1>2, <1>3
<1>7. CASE Running(r) /\ active[k] = <<>>
  <2>1. n = Unsteady(r)
    BY <1>7 DEF k
  <2>2. n \in Casts /\ ~n.steady /\ n.owed = {} /\ n.on = "list" /\ n.at = r.at /\ n.seen = r.seen
    BY <1>5, <1>7, <2>1, UnsteadyFine
  <2>3. n.at # None => n.at \in n.seen /\ A[n.at] # <<>>
    BY <1>5, <1>6, <1>7, <2>2 DEF Sound
  <2> QED
    BY <2>2, <2>3 DEF Fine, Sound
<1>8. CASE Running(r) /\ active[k] # <<>>
  <2>1. n = r
    BY <1>8 DEF k
  <2>2. KeysOf(A) = KeysOf(active)
    BY <1>2, <1>3, <1>8 DEF KeysOf
  <2>3. ASSUME NEW x \in r.owed
        PROVE  \E i \in 1..Len(A[SessionOf[x]]) :
                 /\ A[SessionOf[x]][i] = x
                 /\ SessionOf[x] \in r.seen => SessionOf[x] = r.at /\ i >= r.next
    <3>1. PICK i \in 1..Len(active[SessionOf[x]]) :
            /\ active[SessionOf[x]][i] = x
            /\ SessionOf[x] \in r.seen => SessionOf[x] = r.at /\ i >= r.next
      BY <1>5, <1>8 DEF Sound
    <3>2. SessionOf[x] \in Sessions
      BY ConversationConstants DEF Casts
    <3>3. i \in 1..Len(A[SessionOf[x]]) /\ A[SessionOf[x]][i] = active[SessionOf[x]][i]
      BY <1>2, <1>3, <3>2
    <3> QED
      BY <3>1, <3>3
  <2>4. /\ r.at # None => r.at \in r.seen /\ A[r.at] # <<>>
        /\ r.steady => r.keys = Cardinality(KeysOf(A))
        /\ ~r.steady => r.owed = {}
    BY <1>5, <1>6, <1>8, <2>2 DEF Sound
  <2> QED
    BY <1>5, <1>8, <2>1, <2>3, <2>4 DEF Fine, Sound
<1> QED
  BY <1>4, <1>7, <1>8

\* A socket that is removed is owed nothing more; nor is the one that an iterator
\* skips because the list moved up under it.
LEMMA ForgetFine ==
  ASSUME ConversationTypeOK, NEW k \in Sessions, IsInjective(active[k]),
         NEW p \in 1..Len(active[k]), NEW A, A[k] = RemoveAt(active[k], p),
         \A j \in Sessions : j # k => A[j] = active[j], NEW r \in Casts, Fine(r, active), NEW n,
         n = IF Running(r) THEN Forget(r, k, p) ELSE r
  PROVE  n \in Casts /\ Fine(n, A)
<1> DEFINE l == active[k]
<1>1. l \in Seq(Sockets) /\ Len(l) \in Nat /\ p \in Nat /\ p >= 1 /\ p <= Len(l)
  BY DEF ConversationTypeOK
<1>2. A[k] = RemoveAt(l, p) /\ \A j \in Sessions : j # k => A[j] = active[j]
  OBVIOUS
<1>3. p \in 1..Len(l) /\ IsInjective(l)
  OBVIOUS
<1> HIDE DEF l
<1> DEFINE m == RemoveAt(l, p)
<1>9. /\ m \in Seq(Sockets) /\ Len(m) = Len(l) - 1
      /\ \A i \in 1..Len(l) : i < p => m[i] = l[i]
      /\ \A i \in 1..Len(l) : i > p => m[i - 1] = l[i]
  BY <1>1, <1>3, Removed
<1> HIDE DEF m
<1>4. /\ A[k] \in Seq(Sockets) /\ Len(A[k]) = Len(l) - 1
      /\ \A i \in 1..Len(l) : i < p => A[k][i] = l[i]
      /\ \A i \in 1..Len(l) : i > p => A[k][i - 1] = l[i]
  BY <1>2, <1>9 DEF m
<1>5. CASE ~Running(r)
  <2>1. n = r
    BY <1>5
  <2> QED
    BY <1>5, <2>1 DEF Fine, Running
<1>6. ASSUME Running(r) PROVE r.on = "list" /\ Sound(r, active) /\ r.at \in Sessions \cup {None}
  BY <1>6 DEF Running, Fine, Casts
<1>7. CASE Running(r) /\ Len(l) = 1
  <2> DEFINE u == Unsteady(r)
  <2>1. /\ u \in Casts /\ ~u.steady /\ u.owed = {}
        /\ u.on = "list" /\ u.at = r.at /\ u.seen = r.seen
    BY <1>6, <1>7, UnsteadyFine
  <2>2. n = [u EXCEPT !.at = IF @ = k THEN None ELSE @, !.seen = @ \ {k}]
    BY <1>7 DEF Forget, l
  <2> HIDE DEF u
  <2> DEFINE a == IF u.at = k THEN None ELSE u.at
             t == u.seen \ {k}
  <2>3. a \in Sessions \cup {None} /\ t \in SUBSET Sessions
    BY <1>6, <1>7, <2>1 DEF Casts
  <2>4. n = [u EXCEPT !.at = a, !.seen = t]
    BY <2>2
  <2>5. (a # None => a = r.at /\ a # k) /\ t = r.seen \ {k}
    BY <2>1
  <2> HIDE DEF a, t
  <2>6. n \in Casts
    <3>1. \A b \in Sessions \cup {None}, v \in SUBSET Sessions :
            [u EXCEPT !.at = b, !.seen = v] \in Casts
      BY <2>1, Updated
    <3>2. [u EXCEPT !.at = a, !.seen = t] \in Casts
      BY <2>3, <3>1
    <3> QED
      BY <2>4, <3>2
  <2>7. n.at = a /\ n.seen = t /\ ~n.steady /\ n.owed = {} /\ n.on = "list"
    BY <2>1, <2>4 DEF Casts
  <2>8. ASSUME n.at # None PROVE n.at \in n.seen /\ A[n.at] # <<>>
    <3>1. n.at = r.at /\ n.at # k /\ r.at # None /\ r.at \in Sessions
      BY <1>6, <1>7, <2>5, <2>7, <2>8
    <3>2. r.at \in r.seen /\ active[r.at] # <<>>
      BY <1>6, <1>7, <3>1 DEF Sound
    <3> QED
      BY <1>2, <2>5, <2>7, <3>1, <3>2
  <2> QED
    BY <2>6, <2>7, <2>8 DEF Fine, Sound
<1>8. CASE Running(r) /\ Len(l) # 1
  <2> DEFINE skipped == IF r.at = k /\ p < r.next /\ r.next <= Len(l) THEN {l[r.next]} ELSE {}
             o == r.owed \ ({l[p]} \cup skipped)
  <2>1. n = [r EXCEPT !.owed = o]
    BY <1>8 DEF Forget, l
  <2>2. o \in SUBSET Sockets /\ o \subseteq r.owed /\ \A x \in o : x # l[p] /\ x \notin skipped
    BY DEF Casts
  <2> HIDE DEF o
  <2>3. n \in Casts
    BY <2>1, <2>2, Updated
  <2>4. /\ n.owed = o /\ n.on = "list" /\ n.at = r.at /\ n.next = r.next /\ n.keys = r.keys
        /\ n.seen = r.seen /\ n.steady = r.steady /\ r.next \in Nat
    BY <1>6, <1>8, <2>1 DEF Casts
  <2>5. Len(A[k]) # 0 /\ Len(l) # 0
    BY <1>1, <1>4, <1>8
  <2>6. A[k] # <<>> /\ l # <<>>
    BY <1>1, <1>4, <2>5, ListElements
  <2>7. \A j \in Sessions : A[j] # <<>> <=> active[j] # <<>>
    BY <1>2, <2>6 DEF l
  <2>8. KeysOf(A) = KeysOf(active)
    BY <2>7 DEF KeysOf
  <2>9. ASSUME NEW x \in o
        PROVE  \E j \in 1..Len(A[SessionOf[x]]) :
                 /\ A[SessionOf[x]][j] = x
                 /\ SessionOf[x] \in r.seen => SessionOf[x] = r.at /\ j >= r.next
    <3>1. SessionOf[x] \in Sessions /\ x \in r.owed /\ x # l[p] /\ x \notin skipped
      BY <2>2, ConversationConstants
    <3>2. PICK i \in 1..Len(active[SessionOf[x]]) :
            /\ active[SessionOf[x]][i] = x
            /\ SessionOf[x] \in r.seen => SessionOf[x] = r.at /\ i >= r.next
      BY <1>6, <1>8, <3>1 DEF Sound
    <3>3. CASE SessionOf[x] # k
      BY <1>2, <3>1, <3>2, <3>3
    <3>4. CASE SessionOf[x] = k
      <4>1. i \in 1..Len(l) /\ l[i] = x /\ i \in Nat /\ i # p /\ i >= 1 /\ i <= Len(l)
        BY <1>1, <3>1, <3>2, <3>4 DEF l
      <4>2. CASE i < p
        <5>1. i \in 1..Len(A[k]) /\ A[k][i] = x
          BY <1>1, <1>4, <4>1, <4>2
        <5> QED
          BY <3>2, <3>4, <5>1
      <4>3. CASE i > p
        <5>1. i - 1 \in 1..Len(A[k]) /\ A[k][i - 1] = x
          BY <1>1, <1>4, <4>1, <4>3
        <5>2. ASSUME SessionOf[x] \in r.seen PROVE SessionOf[x] = r.at /\ i - 1 >= r.next
          <6>1. r.at = k /\ i >= r.next
            BY <3>2, <3>4, <5>2
          <6>2. i # r.next
            <7>1. ASSUME i = r.next PROVE FALSE
              <8>1. skipped = {l[r.next]}
                BY <4>1, <4>3, <6>1, <7>1
              <8> QED
                BY <3>1, <4>1, <7>1, <8>1
            <7> QED
              BY <7>1
          <6> QED
            BY <2>4, <3>4, <4>1, <6>1, <6>2
        <5> QED
          BY <3>4, <5>1, <5>2
      <4> QED
        BY <1>1, <4>1, <4>2, <4>3
    <3> QED
      BY <3>3, <3>4
  <2>10. /\ n.at # None => n.at \in n.seen /\ A[n.at] # <<>>
         /\ n.steady => n.keys = Cardinality(KeysOf(A))
         /\ ~n.steady => n.owed = {}
    <3>1. r.at # None => r.at \in r.seen /\ active[r.at] # <<>> /\ r.at \in Sessions
      BY <1>6, <1>8 DEF Sound
    <3>2. (r.steady => r.keys = Cardinality(KeysOf(active))) /\ (~r.steady => r.owed = {})
      BY <1>6, <1>8 DEF Sound
    <3> QED
      BY <2>2, <2>4, <2>7, <2>8, <3>1, <3>2
  <2> QED
    BY <2>3, <2>4, <2>9, <2>10 DEF Fine, Sound
<1> QED
  BY <1>5, <1>7, <1>8

-------------------------------------------------------------------------------
(* The steps of conversations. *)

LEMMA CastsTyped == ConversationTypeOK => cast \in [Casters -> Casts]
BY DEF ConversationTypeOK, Casts

\* What must be said of a step that may touch anything.
LEMMA Combined ==
  ASSUME online' \in [Sockets -> BOOLEAN],
         stage' \in [Sockets -> {"new", "greeting", "closed"} \cup Served],
         loops' \in [Sockets -> 0..(MaxLoops - 1)],
         active' \in [Sessions -> Seq(Sockets)],
         cast' \in [Casters -> Casts],
         TablesMatch', \A c \in Casters : Fine(cast'[c], active')
  PROVE  ConversationInv'
<1>1. ConversationTypeOK'
  BY DEF ConversationTypeOK, Casts
<1>2. Broadcasts'
  BY DEF Broadcasts
<1> QED
  BY <1>1, <1>2 DEF ConversationInv

\* A step of an endpoint that comes to no list.
LEMMA Elsewhere ==
  ASSUME ConversationInv, UNCHANGED <<active, cast>>,
         online' \in [Sockets -> BOOLEAN],
         stage' \in [Sockets -> {"new", "greeting", "closed"} \cup Served],
         loops' \in [Sockets -> 0..(MaxLoops - 1)],
         \A s \in Sockets : stage'[s] \in Served <=> stage[s] \in Served
  PROVE  ConversationInv'
<1>1. active' \in [Sessions -> Seq(Sockets)] /\ cast' \in [Casters -> Casts]
  BY CastsTyped DEF ConversationInv, ConversationTypeOK
<1>2. TablesMatch'
  BY DEF ConversationInv, TablesMatch
<1>3. \A c \in Casters : Fine(cast'[c], active')
  BY DEF ConversationInv, Broadcasts
<1> QED
  BY <1>1, <1>2, <1>3, Combined

\* A step of a broadcast.
LEMMA Broadcasted ==
  ASSUME ConversationInv, UNCHANGED <<endpoint, active>>, cast' \in [Casters -> Casts],
         \A c \in Casters : Fine(cast'[c], active)
  PROVE  ConversationInv'
<1>1. ConversationTypeOK /\ TablesMatch
  BY DEF ConversationInv
<1>2. /\ online' \in [Sockets -> BOOLEAN]
      /\ stage' \in [Sockets -> {"new", "greeting", "closed"} \cup Served]
      /\ loops' \in [Sockets -> 0..(MaxLoops - 1)]
      /\ active' \in [Sessions -> Seq(Sockets)] /\ active' = active
  BY <1>1 DEF ConversationTypeOK, endpoint
<1>3. TablesMatch'
  BY <1>1 DEF TablesMatch, endpoint
<1>4. \A c \in Casters : Fine(cast'[c], active')
  BY <1>2
<1> QED
  BY <1>2, <1>3, <1>4, Combined

LEMMA GreetKeeps ==
  ASSUME ConversationInv, NEW s \in Sockets, Greet(s)
  PROVE  ConversationInv'
<1> DEFINE k == SessionOf[s]
<1>1. ConversationTypeOK /\ TablesMatch /\ Broadcasts /\ k \in Sessions
  BY ConversationConstants DEF ConversationInv
<1>2. /\ stage[s] = "greeting" /\ stage' = [stage EXCEPT ![s] = "idle"]
      /\ active' = [active EXCEPT ![k] = Append(@, s)]
      /\ UNCHANGED <<online, loops>>
      /\ cast' = [c \in Casters |->
                    IF Running(cast[c]) /\ active[k] = <<>> THEN Unsteady(cast[c]) ELSE cast[c]]
  BY DEF Greet, Turns, Register
<1>3. ASSUME NEW c \in Casters PROVE cast'[c] \in Casts /\ Fine(cast'[c], active')
  <2> DEFINE r == cast[c]
             n == cast'[c]
             A == active'
  <2>1. r \in Casts /\ Fine(r, active)
    BY <1>1, CastsTyped DEF Broadcasts
  <2>2. n = IF Running(r) /\ active[SessionOf[s]] = <<>> THEN Unsteady(r) ELSE r
    BY <1>2
  <2>3. A = [active EXCEPT ![SessionOf[s]] = Append(@, s)]
    BY <1>2
  <2> HIDE DEF r, n, A
  <2>4. n \in Casts /\ Fine(n, A)
    BY <1>1, <2>1, <2>2, <2>3, JoinFine
  <2> QED
    BY <2>4 DEF n, A
<1>4. cast' \in [Casters -> Casts]
  BY <1>2, <1>3
<1>5. active[k] \in Seq(Sockets) /\ s \notin ToSet(active[k]) /\ IsInjective(active[k])
  BY <1>1, <1>2 DEF ConversationTypeOK, TablesMatch, Served
<1>6. /\ Append(active[k], s) \in Seq(Sockets)
      /\ ToSet(Append(active[k], s)) = ToSet(active[k]) \cup {s}
      /\ IsInjective(Append(active[k], s))
  BY <1>5, Appended
<1>7. /\ active'[k] = Append(active[k], s)
      /\ \A j \in Sessions : j # k => active'[j] = active[j]
      /\ active' \in [Sessions -> Seq(Sockets)]
  BY <1>1, <1>2, <1>6 DEF ConversationTypeOK
<1>8. /\ stage'[s] = "idle" /\ \A x \in Sockets : x # s => stage'[x] = stage[x]
      /\ stage' \in [Sockets -> {"new", "greeting", "closed"} \cup Served]
      /\ online' \in [Sockets -> BOOLEAN] /\ loops' \in [Sockets -> 0..(MaxLoops - 1)]
  BY <1>1, <1>2 DEF ConversationTypeOK, Served
<1>9. ASSUME NEW j \in Sessions
      PROVE  /\ ToSet(active'[j]) = {x \in Sockets : SessionOf[x] = j /\ stage'[x] \in Served}
             /\ IsInjective(active'[j])
  <2>1. /\ ToSet(active[j]) = {x \in Sockets : SessionOf[x] = j /\ stage[x] \in Served}
        /\ IsInjective(active[j])
    BY <1>1 DEF TablesMatch
  <2>2. stage'[s] \in Served
    BY <1>8 DEF Served
  <2>3. CASE j = k
    <3>1. ToSet(active'[j]) = ToSet(active[j]) \cup {s} /\ IsInjective(active'[j])
      BY <1>6, <1>7, <2>3
    <3> QED
      BY <1>8, <2>1, <2>2, <2>3, <3>1
  <2>4. CASE j # k
    <3>1. active'[j] = active[j]
      BY <1>7, <2>4
    <3> QED
      BY <1>8, <2>1, <2>4, <3>1
  <2> QED
    BY <2>3, <2>4
<1>10. TablesMatch'
  BY <1>9 DEF TablesMatch
<1> QED
  BY <1>3, <1>4, <1>7, <1>8, <1>10, Combined

LEMMA CloseKeeps ==
  ASSUME ConversationInv, NEW s \in Sockets, Close(s), UNCHANGED loops
  PROVE  ConversationInv'
<1> DEFINE k == SessionOf[s]
           l == active[k]
<1>1. ConversationTypeOK /\ TablesMatch /\ Broadcasts /\ k \in Sessions
  BY ConversationConstants DEF ConversationInv
<1>2. /\ stage' = [stage EXCEPT ![s] = "closed"] /\ online' = [online EXCEPT ![s] = FALSE]
      /\ UNCHANGED loops
  BY DEF Close, End, Turns
<1>3. PICK p \in 1..Len(l) :
        /\ l[p] = s /\ active' = [active EXCEPT ![k] = RemoveAt(@, p)]
        /\ cast' = [c \in Casters |-> IF Running(cast[c]) THEN Forget(cast[c], k, p) ELSE cast[c]]
  BY DEF Close, Unregister
<1>4. l \in Seq(Sockets) /\ IsInjective(l)
  BY <1>1 DEF ConversationTypeOK, TablesMatch
<1>5. /\ active'[k] = RemoveAt(l, p)
      /\ \A j \in Sessions : j # k => active'[j] = active[j]
  BY <1>1, <1>3 DEF ConversationTypeOK
<1>6. ASSUME NEW c \in Casters PROVE cast'[c] \in Casts /\ Fine(cast'[c], active')
  <2> DEFINE r == cast[c]
             n == cast'[c]
             A == active'
  <2>1. r \in Casts /\ Fine(r, active)
    BY <1>1, CastsTyped DEF Broadcasts
  <2>2. n = IF Running(r) THEN Forget(r, k, p) ELSE r
    BY <1>3
  <2>3. /\ p \in 1..Len(active[k]) /\ A[k] = RemoveAt(active[k], p) /\ IsInjective(active[k])
        /\ \A j \in Sessions : j # k => A[j] = active[j]
    BY <1>4, <1>5
  <2> HIDE DEF r, n, A, k
  <2>4. n \in Casts /\ Fine(n, A)
    BY <1>1, <2>1, <2>2, <2>3, ForgetFine
  <2> QED
    BY <2>4 DEF n, A
<1>7. cast' \in [Casters -> Casts]
  BY <1>3, <1>6
<1> HIDE DEF l
<1> DEFINE m == RemoveAt(l, p)
<1>8. m \in Seq(Sockets) /\ ToSet(m) = ToSet(l) \ {s} /\ IsInjective(m)
  BY <1>3, <1>4, Removed
<1> HIDE DEF m
<1>9. active' \in [Sessions -> Seq(Sockets)]
  <2>1. active' = [active EXCEPT ![k] = m]
    BY <1>3 DEF m, l
  <2> QED
    BY <1>1, <1>8, <2>1 DEF ConversationTypeOK
<1>10. /\ stage'[s] = "closed" /\ \A x \in Sockets : x # s => stage'[x] = stage[x]
       /\ stage' \in [Sockets -> {"new", "greeting", "closed"} \cup Served]
       /\ online' \in [Sockets -> BOOLEAN] /\ loops' \in [Sockets -> 0..(MaxLoops - 1)]
  BY <1>1, <1>2 DEF ConversationTypeOK, Served
<1>11. ASSUME NEW j \in Sessions
       PROVE  /\ ToSet(active'[j]) = {x \in Sockets : SessionOf[x] = j /\ stage'[x] \in Served}
              /\ IsInjective(active'[j])
  <2>1. /\ ToSet(active[j]) = {x \in Sockets : SessionOf[x] = j /\ stage[x] \in Served}
        /\ IsInjective(active[j])
    BY <1>1 DEF TablesMatch
  <2>2. stage'[s] \notin Served
    BY <1>10 DEF Served
  <2>3. CASE j = k
    <3>1. ToSet(active'[j]) = ToSet(active[j]) \ {s} /\ IsInjective(active'[j])
      BY <1>5, <1>8, <2>3 DEF m, l
    <3> QED
      BY <1>10, <2>1, <2>2, <2>3, <3>1
  <2>4. CASE j # k
    <3>1. active'[j] = active[j]
      BY <1>5, <2>4
    <3> QED
      BY <1>10, <2>1, <2>4, <3>1
  <2> QED
    BY <2>3, <2>4
<1>12. TablesMatch'
  BY <1>11 DEF TablesMatch
<1> QED
  BY <1>6, <1>7, <1>9, <1>10, <1>12, Combined

\* The first message is refused; its key may have come and gone meanwhile.
LEMMA DismissKeeps ==
  ASSUME ConversationInv, NEW s \in Sockets, Dismiss(s)
  PROVE  ConversationInv'
<1>1. ConversationTypeOK /\ TablesMatch /\ Broadcasts
  BY DEF ConversationInv
<1>2. /\ stage[s] = "greeting" /\ stage' = [stage EXCEPT ![s] = "closed"]
      /\ online' = [online EXCEPT ![s] = FALSE] /\ UNCHANGED <<loops, active>>
  BY DEF Dismiss, End, Turns
<1>3. /\ \A x \in Sockets : stage'[x] \in Served <=> stage[x] \in Served
      /\ stage' \in [Sockets -> {"new", "greeting", "closed"} \cup Served]
      /\ online' \in [Sockets -> BOOLEAN] /\ loops' \in [Sockets -> 0..(MaxLoops - 1)]
  BY <1>1, <1>2 DEF ConversationTypeOK, Served
<1>4. CASE UNCHANGED cast
  BY <1>2, <1>3, <1>4, Elsewhere
<1>5. CASE cast' = [c \in Casters |-> IF Running(cast[c]) THEN Unsteady(cast[c]) ELSE cast[c]]
  <2>1. ASSUME NEW c \in Casters PROVE cast'[c] \in Casts /\ Fine(cast'[c], active')
    <3>1. cast[c] \in Casts /\ Fine(cast[c], active)
      BY <1>1, CastsTyped DEF Broadcasts
    <3>2. CASE Running(cast[c])
      <4>1. cast'[c] = Unsteady(cast[c])
        BY <1>5, <3>2
      <4>2. cast[c].on = "list" /\ Sound(cast[c], active)
        BY <3>1, <3>2 DEF Fine, Running
      <4>3. /\ cast'[c] \in Casts /\ ~cast'[c].steady /\ cast'[c].owed = {}
            /\ cast'[c].on = "list" /\ cast'[c].at = cast[c].at /\ cast'[c].seen = cast[c].seen
        BY <3>1, <4>1, <4>2, UnsteadyFine
      <4> QED
        BY <1>2, <4>2, <4>3 DEF Fine, Sound
    <3>3. CASE ~Running(cast[c])
      BY <1>2, <1>5, <3>1, <3>3
    <3> QED
      BY <3>2, <3>3
  <2>2. cast' \in [Casters -> Casts]
    BY <1>5, <2>1
  <2>3. TablesMatch' /\ active' \in [Sessions -> Seq(Sockets)]
    BY <1>1, <1>2, <1>3 DEF TablesMatch, ConversationTypeOK
  <2> QED
    BY <1>3, <2>1, <2>2, <2>3, Combined
<1> QED
  BY <1>4, <1>5 DEF Dismiss

\* A round of the chat, or the end of it.
LEMMA RoundKeeps ==
  ASSUME ConversationInv, NEW s \in Sockets, NEW from \in Served, NEW to \in Served,
         stage[s] = from, Turns(s, to), UNCHANGED <<online, active, cast>>,
         NEW n \in 0..(MaxLoops - 1), loops' = [loops EXCEPT ![s] = n] \/ UNCHANGED loops
  PROVE  ConversationInv'
<1>1. ConversationTypeOK
  BY DEF ConversationInv
<1>2. /\ stage' \in [Sockets -> {"new", "greeting", "closed"} \cup Served]
      /\ \A x \in Sockets : stage'[x] \in Served <=> stage[x] \in Served
  BY <1>1 DEF ConversationTypeOK, Turns
<1>3. online' \in [Sockets -> BOOLEAN] /\ loops' \in [Sockets -> 0..(MaxLoops - 1)]
  BY <1>1 DEF ConversationTypeOK
<1> QED
  BY <1>2, <1>3, Elsewhere

LEMMA EndpointKeeps ==
  ASSUME ConversationInv, NEW s \in Sockets, Connect(s) \/ Leave(s) \/ Greet(s) \/ Serve(s)
  PROVE  ConversationInv'
<1>1. ConversationTypeOK
  BY DEF ConversationInv
<1>2. 0 \in 0..(MaxLoops - 1)
  BY ConversationConstants
<1>3. "idle" \in Served /\ "ask" \in Served /\ "tool" \in Served /\ "error" \in Served
  BY DEF Served
<1>4. CASE Connect(s)
  <2>1. /\ stage' \in [Sockets -> {"new", "greeting", "closed"} \cup Served]
        /\ \A x \in Sockets : stage'[x] \in Served <=> stage[x] \in Served
    BY <1>1, <1>4 DEF Connect, Turns, ConversationTypeOK, Served
  <2> QED
    BY <1>1, <1>4, <2>1, Elsewhere DEF Connect, ConversationTypeOK
<1>5. CASE Leave(s)
  <2>1. online' \in [Sockets -> BOOLEAN]
    BY <1>1, <1>5 DEF Leave, ConversationTypeOK
  <2> QED
    BY <1>1, <1>5, <2>1, Elsewhere DEF Leave, ConversationTypeOK
<1>6. CASE Receive(s)
  <2>1. CASE Turns(s, "ask") /\ UNCHANGED <<online, active, cast>>
    BY <1>2, <1>3, <1>6, <2>1, RoundKeeps DEF Receive
  <2>2. CASE Close(s)
    BY <1>6, <2>2, CloseKeeps DEF Receive
  <2> QED
    BY <1>6, <2>1, <2>2 DEF Receive
<1>7. CASE Ask(s)
  <2>1. CASE Turns(s, "tool") /\ UNCHANGED loops
    BY <1>2, <1>3, <1>7, <2>1, RoundKeeps DEF Ask
  <2>2. ASSUME NEW to \in {"idle", "error"}, ChatEnds(s, to) PROVE ConversationInv'
    <3>1. to \in Served
      BY DEF Served
    <3> QED
      BY <1>2, <1>3, <1>7, <2>2, <3>1, RoundKeeps DEF Ask, ChatEnds
  <2> QED
    BY <1>7, <2>1, <2>2 DEF Ask
<1>8. CASE Tool(s)
  <2>1. CASE loops[s] + 1 < MaxLoops /\ ChatGoesOn(s)
    <3> DEFINE n == loops[s] + 1
    <3>1. n \in 0..(MaxLoops - 1)
      BY <1>1, <2>1, ConversationConstants DEF ConversationTypeOK
    <3>2. Turns(s, "ask") /\ loops' = [loops EXCEPT ![s] = n]
      BY <2>1 DEF ChatGoesOn
    <3> HIDE DEF n
    <3> QED
      BY <1>3, <1>8, <3>1, <3>2, RoundKeeps DEF Tool
  <2>2. ASSUME NEW to \in {"idle", "error"}, ChatEnds(s, to) PROVE ConversationInv'
    <3>1. to \in Served
      BY DEF Served
    <3> QED
      BY <1>2, <1>3, <1>8, <2>2, <3>1, RoundKeeps DEF Tool, ChatEnds
  <2> QED
    BY <1>8, <2>1, <2>2 DEF Tool
<1>9. CASE Apologize(s)
  <2>1. CASE Turns(s, "idle") /\ UNCHANGED <<online, active, cast>>
    BY <1>2, <1>3, <1>9, <2>1, RoundKeeps DEF Apologize
  <2>2. CASE Close(s)
    BY <1>9, <2>2, CloseKeeps DEF Apologize
  <2> QED
    BY <1>9, <2>1, <2>2 DEF Apologize
<1> QED
  BY <1>4, <1>5, <1>6, <1>7, <1>8, <1>9, GreetKeeps, DismissKeeps DEF Serve

LEMMA BecomesKeeps ==
  ASSUME ConversationInv, UNCHANGED <<endpoint, active>>, NEW c \in Casters, NEW n \in Casts,
         Fine(n, active), Becomes(c, n)
  PROVE  ConversationInv'
<1>1. cast \in [Casters -> Casts]
  BY CastsTyped DEF ConversationInv
<1>2. cast' \in [Casters -> Casts] /\ \A b \in Casters : cast'[b] = IF b = c THEN n ELSE cast[b]
  BY <1>1 DEF Becomes
<1>3. \A b \in Casters : Fine(cast'[b], active)
  BY <1>2 DEF ConversationInv, Broadcasts
<1> QED
  BY <1>2, <1>3, Broadcasted

LEMMA FirstWalkFine ==
  ASSUME ConversationInv, NEW n \in Walk(Fresh)
  PROVE  n \in Casts /\ Fine(n, active) /\ n.on \in {"list", "over", "broken"}
BY FreshFine, WalkFine DEF ConversationInv

\* What follows an announcement that is over.
LEMMA AnnounceKeeps ==
  ASSUME ConversationInv, UNCHANGED <<endpoint, active>>, NEW w \in Webhooks,
         NEW r \in Casts, r.on = "list", Sound(r, active), Announce(w, r)
  PROVE  ConversationInv'
<1> DEFINE a == Announcement(w)
<1>1. a \in Casters /\ <<w, 1>> \in Casters
  BY ConversationConstants DEF Announcement
<1>2. cast \in [Casters -> Casts] /\ \A c \in Casters : Fine(cast[c], active)
  BY CastsTyped DEF ConversationInv, Broadcasts
<1>3. PICK n \in Walk(r) : \/ n.on # "over" /\ Becomes(a, n)
                           \/ n.on = "over" /\ (Route(w, n) \/ Act(w, n))
  BY DEF Announce
<1> HIDE DEF a
<1>4. n \in Casts /\ Fine(n, active)
  BY WalkFine DEF ConversationInv
<1>5. CASE Becomes(a, n)
  BY <1>1, <1>4, <1>5, BecomesKeeps
<1>6. ASSUME n.on = "over", NEW on \in {"over", "died"}
      PROVE  Outcome(n, on) \in Casts /\ Fine(Outcome(n, on), active)
  <2>1. n.owed = {}
    BY <1>4, <1>6 DEF Fine
  <2> QED
    BY <1>4, <2>1, OutcomeFine
<1>7. CASE n.on = "over" /\ Route(w, n)
  <2>1. PICK m \in 0..MaxMentions, on \in {"over", "died"} :
          cast' = [c \in Casters |->
                     IF c = a THEN Outcome(n, on)
                     ELSE IF c \in {<<w, i>> : i \in 1..m} THEN [Off EXCEPT !.on = "thinking"]
                     ELSE cast[c]]
    BY <1>7 DEF Route, a
  <2>2. ASSUME NEW c \in Casters PROVE cast'[c] \in Casts /\ Fine(cast'[c], active)
    <3>1. \/ cast'[c] = Outcome(n, on) \/ cast'[c] = [Off EXCEPT !.on = "thinking"]
          \/ cast'[c] = cast[c]
      BY <2>1
    <3> QED
      BY <1>2, <1>6, <1>7, <3>1, OffFine
  <2>3. cast' \in [Casters -> Casts]
    BY <2>1, <2>2
  <2> QED
    BY <2>2, <2>3, Broadcasted
<1>8. CASE n.on = "over" /\ Act(w, n)
  <2>1. PICK m \in Walk(Fresh) : cast' = [cast EXCEPT ![a] = Outcome(n, "over"), ![<<w, 1>>] = m]
    BY <1>8 DEF Act, a
  <2>2. m \in Casts /\ Fine(m, active)
    BY FirstWalkFine
  <2> DEFINE o == Outcome(n, "over")
  <2>3. o \in Casts /\ Fine(o, active)
    BY <1>6, <1>8
  <2>4. cast' = [cast EXCEPT ![a] = o, ![<<w, 1>>] = m]
    BY <2>1
  <2> HIDE DEF o
  <2>5. /\ cast' \in [Casters -> Casts]
        /\ \A c \in Casters : cast'[c] \in {o, m, cast[c]}
    BY <1>1, <1>2, <2>2, <2>3, <2>4
  <2>6. \A c \in Casters : Fine(cast'[c], active)
    BY <1>2, <2>2, <2>3, <2>5
  <2> QED
    BY <2>5, <2>6, Broadcasted
<1> QED
  BY <1>3, <1>5, <1>7, <1>8

LEMMA DiedFine == Outcome(Off, "died") \in Casts /\ \A A : Fine(Outcome(Off, "died"), A)
BY OffFine, OutcomeFine

LEMMA AcceptKeeps ==
  ASSUME ConversationInv, NEW w \in Webhooks, Accept(w)
  PROVE  ConversationInv'
<1>1. UNCHANGED <<endpoint, active>> /\ Announcement(w) \in Casters
  BY ConversationConstants DEF Accept, Announcement
<1>2. CASE Announce(w, Fresh)
  <2>1. Fresh \in Casts /\ Fresh.on = "list" /\ Sound(Fresh, active)
    BY FreshFine DEF ConversationInv
  <2> QED
    BY <1>1, <1>2, <2>1, AnnounceKeeps
<1>3. CASE Becomes(Announcement(w), Outcome(Off, "died"))
  BY <1>1, <1>3, DiedFine, BecomesKeeps
<1> QED
  BY <1>2, <1>3 DEF Accept

LEMMA ThinkKeeps ==
  ASSUME ConversationInv, NEW c \in Casters, Think(c)
  PROVE  ConversationInv'
<1>1. UNCHANGED <<endpoint, active>>
  BY DEF Think
<1>2. ASSUME NEW n \in Walk(Fresh), Becomes(c, n) PROVE ConversationInv'
  BY <1>1, <1>2, FirstWalkFine, BecomesKeeps
<1>3. CASE Becomes(c, Outcome(Off, "died"))
  BY <1>1, <1>3, DiedFine, BecomesKeeps
<1> QED
  BY <1>2, <1>3 DEF Think

LEMMA SendKeeps ==
  ASSUME ConversationInv, NEW c \in Casters, Send(c)
  PROVE  ConversationInv'
<1>1. /\ UNCHANGED <<endpoint, active>> /\ c[1] \in Webhooks
      /\ cast[c] \in Casts /\ cast[c].on = "list" /\ Sound(cast[c], active)
  BY ConversationConstants, CastsTyped DEF Send, ConversationInv, Broadcasts, Fine
<1>2. CASE c[2] = 0
  <2>1. Announce(c[1], cast[c])
    BY <1>2 DEF Send
  <2> QED
    BY <1>1, <2>1, AnnounceKeeps
<1>3. CASE c[2] # 0
  <2>1. PICK n \in Walk(cast[c]) : Becomes(c, n)
    BY <1>3 DEF Send
  <2>2. n \in Casts /\ Fine(n, active)
    BY <1>1, WalkFine DEF ConversationInv
  <2> QED
    BY <1>1, <2>1, <2>2, BecomesKeeps
<1> QED
  BY <1>2, <1>3

LEMMA ConversationStart == ConversationInit => ConversationInv
<1> SUFFICES ASSUME ConversationInit PROVE ConversationInv
  OBVIOUS
<1>1. ToSet(<<>>) = {} /\ IsInjective(<<>>) /\ <<>> \in Seq(Sockets)
  BY DEF ToSet, IsInjective
<1>2. \A c \in Casters : cast[c] = Off
  BY DEF ConversationInit
<1>3. Broadcasts
  BY <1>2, OffFine DEF Broadcasts
<1>4. cast \in [Casters -> Casts]
  BY OffFine DEF ConversationInit
<1>5. ConversationTypeOK
  BY <1>1, <1>4, ConversationConstants DEF ConversationInit, ConversationTypeOK, Casts
<1>6. TablesMatch
  BY <1>1 DEF ConversationInit, TablesMatch, Served
<1> QED
  BY <1>3, <1>5, <1>6 DEF ConversationInv

LEMMA ConversationInvHolds == ConversationSpec => []ConversationInv
<1>1. ASSUME ConversationInv, [ConversationNext]_conversationVars PROVE ConversationInv'
  <2>1. ASSUME NEW s \in Sockets, Connect(s) \/ Leave(s) \/ Greet(s) \/ Serve(s)
        PROVE  ConversationInv'
    BY <1>1, <2>1, EndpointKeeps
  <2>2. ASSUME NEW w \in Webhooks, Accept(w) PROVE ConversationInv'
    BY <1>1, <2>2, AcceptKeeps
  <2>3. ASSUME NEW c \in Casters, Think(c) \/ Send(c) PROVE ConversationInv'
    BY <1>1, <2>3, ThinkKeeps, SendKeeps
  <2>4. CASE UNCHANGED conversationVars
    <3>1. cast' \in [Casters -> Casts] /\ \A c \in Casters : Fine(cast'[c], active)
      BY <1>1, <2>4, CastsTyped DEF ConversationInv, Broadcasts, conversationVars
    <3>2. UNCHANGED <<endpoint, active>>
      BY <2>4 DEF conversationVars
    <3> QED
      BY <1>1, <3>1, <3>2, Broadcasted
  <2> QED
    BY <1>1, <2>1, <2>2, <2>3, <2>4 DEF ConversationNext
<1> QED
  BY <1>1, ConversationStart, PTL DEF ConversationSpec

-------------------------------------------------------------------------------

\* Every endpoint, connection list and broadcast stays what the code takes it for; a
\* chat makes no more rounds than max_loops.
THEOREM ConversationsTyped == ConversationSpec => []ConversationTypeOK
<1>1. ConversationInv => ConversationTypeOK
  BY DEF ConversationInv
<1> QED
  BY <1>1, ConversationInvHolds, PTL

\* The connection manager (ConnectionManager.connect and disconnect) holds exactly the
\* sockets whose endpoints serve them, each once, whatever ended the others.
THEOREM ConnectionsMatch == ConversationSpec => []TablesMatch
<1>1. ConversationInv => TablesMatch
  BY DEF ConversationInv
<1> QED
  BY <1>1, ConversationInvHolds, PTL

\* broadcast_global, whose sends are awaits while lists and keys come and go, reaches
\* whoever was there all the time, but for those a removal moves behind its iterator.
THEOREM BroadcastsReach == ConversationSpec => []NobodyMissed
<1>1. ConversationInv => NobodyMissed
  BY DEF ConversationInv, Broadcasts, Fine, NobodyMissed
<1> QED
  BY <1>1, ConversationInvHolds, PTL
===============================================================================
