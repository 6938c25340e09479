-------------------------- MODULE CronEngine_proofs --------------------------
(***************************************************************************)
(* The semaphore loses no slot, and the scheduler and the file follow the  *)
(* dictionary of jobs: proved for any job ids, definitions, executions,    *)
(* slots and number of faults.                                             *)
(***************************************************************************)
EXTENDS CronEngine, TLAPS, FiniteSetTheorems, SequenceTheorems

JobMaps == [JobIds -> Definitions \cup {None}]

-------------------------------------------------------------------------------
(* Executions and the semaphore. *)

Executions ==
  [at : {"free", "fired", "queue", "granted", "running"},
   job : JobIds \cup {None}, def : Definitions \cup {None}, fired : BOOLEAN]

RunsOK(R) ==
  /\ R \in [Runs -> Executions]
  /\ \A r \in Runs : R[r].at # "free" => R[r].job \in JobIds
  /\ \A r \in Runs : R[r].at \in {"queue", "granted", "running"} => R[r].def # None

\* The queue holds the executions that wait, each of them once.
QueueOK(R, q) ==
  /\ q \in Seq(Runs)
  /\ \A m, n \in 1..Len(q) : q[m] = q[n] => m = n
  /\ \A r \in Runs : R[r].at = "queue" <=> \E m \in 1..Len(q) : q[m] = r

RunInv == RunsOK(run) /\ QueueOK(run, queue) /\ SlotsAccounted

LEMMA ActiveFinite ==
  ASSUME NEW R
  PROVE  IsFiniteSet(Active(R)) /\ Cardinality(Active(R)) \in Nat
<1>1. Active(R) \in SUBSET Runs
  BY DEF Active
<1>2. IsFiniteSet(Active(R))
  BY <1>1, CronAssumption, FS_Subset
<1> QED
  BY <1>2, FS_CardinalityType

\* What waking the first n does to a consistent queue.
LEMMA Woken ==
  ASSUME NEW R, RunsOK(R), QueueOK(R, queue), NEW n \in 0..Len(queue), Wake(R, n)
  PROVE  /\ RunsOK(run') /\ QueueOK(run', queue')
         /\ n = 0 => run' = R
         /\ n = Len(queue) => queue' = <<>>
         /\ n > 0 => \E r \in Runs : run'[r].at = "granted"
         /\ Cardinality(Active(run')) <= Cardinality(Active(R)) + n
<1> DEFINE first == {queue[m] : m \in 1..n}
<1>1. /\ queue \in Seq(Runs) /\ Len(queue) \in Nat /\ n \in Nat /\ n <= Len(queue)
      /\ \A m \in 1..Len(queue) : queue[m] \in Runs
  BY DEF QueueOK
<1>2. /\ queue' = SubSeq(queue, n + 1, Len(queue))
      /\ queue' \in Seq(Runs) /\ Len(queue') = Len(queue) - n
      /\ \A i \in 1..Len(queue) - n : queue'[i] = queue[n + i]
  <2>1. queue' = SubSeq(queue, n + 1, Len(queue))
    BY DEF Wake
  <2>2. \A i \in n + 1..Len(queue) : queue[i] \in Runs
    BY <1>1
  <2> QED
    BY <1>1, <2>1, <2>2, SubSeqProperties
<1>3. /\ run' \in [Runs -> Executions]
      /\ \A r \in Runs : r \in first => run'[r] = [R[r] EXCEPT !.at = "granted"]
      /\ \A r \in Runs : r \notin first => run'[r] = R[r]
  <2>1. run' = [r \in Runs |-> IF r \in first THEN [R[r] EXCEPT !.at = "granted"] ELSE R[r]]
    BY DEF Wake
  <2> HIDE DEF first
  <2>2. \A r \in Runs : [R[r] EXCEPT !.at = "granted"] \in Executions
    BY DEF RunsOK, Executions
  <2>3. \A r \in Runs : R[r] \in Executions
    BY DEF RunsOK
  <2> QED
    BY <2>1, <2>2, <2>3
<1>4. \A r \in first : r \in Runs /\ R[r].at = "queue"
  BY <1>1 DEF QueueOK
<1>5. \A r \in first : /\ run'[r].at = "granted" /\ run'[r].job = R[r].job
                       /\ run'[r].def = R[r].def
  BY <1>3, <1>4 DEF RunsOK, Executions
<1>6. RunsOK(run')
  BY <1>3, <1>4, <1>5 DEF RunsOK
<1>7. QueueOK(run', queue')
  <2>1. ASSUME NEW k \in 1..Len(queue'), NEW m \in 1..Len(queue'), queue'[k] = queue'[m]
        PROVE  k = m
    <3>1. k \in 1..Len(queue) - n /\ m \in 1..Len(queue) - n
      BY <1>2
    <3>2. queue[n + k] = queue[n + m]
      BY <1>2, <2>1, <3>1
    <3>3. n + k \in 1..Len(queue) /\ n + m \in 1..Len(queue)
      BY <1>1, <3>1
    <3>4. n + k = n + m
      BY <3>2, <3>3 DEF QueueOK
    <3> QED
      BY <1>1, <3>1, <3>4
  <2>2. ASSUME NEW r \in Runs
        PROVE  run'[r].at = "queue" <=> \E m \in 1..Len(queue') : queue'[m] = r
    <3>1. CASE r \in first
      <4>1. PICK k \in 1..n : queue[k] = r
        BY <3>1
      <4>2. \A m \in 1..Len(queue') : queue'[m] # r
        BY <1>1, <1>2, <4>1 DEF QueueOK
      <4> QED
        BY <1>5, <3>1, <4>2
    <3>2. CASE r \notin first
      <4>1. ASSUME NEW k \in 1..Len(queue), queue[k] = r
            PROVE  \E m \in 1..Len(queue') : queue'[m] = r
        <5>1. k > n
          BY <1>1, <3>2, <4>1
        <5>2. k - n \in 1..Len(queue') /\ queue'[k - n] = r
          BY <1>1, <1>2, <4>1, <5>1
        <5> QED
          BY <5>2
      <4>2. ASSUME NEW m \in 1..Len(queue'), queue'[m] = r
            PROVE  n + m \in 1..Len(queue) /\ queue[n + m] = r
        BY <1>1, <1>2, <4>2
      <4>3. R[r].at = "queue" <=> \E k \in 1..Len(queue) : queue[k] = r
        BY DEF QueueOK
      <4> QED
        BY <1>3, <3>2, <4>1, <4>2, <4>3
    <3> QED
      BY <3>1, <3>2
  <2> QED
    BY <1>2, <2>1, <2>2 DEF QueueOK
<1>8. n = 0 => run' = R
  <2> SUFFICES ASSUME n = 0 PROVE run' = R
    OBVIOUS
  <2>1. \A r \in Runs : r \notin first
    BY <1>1
  <2> HIDE DEF first
  <2> QED
    BY <1>3, <2>1 DEF RunsOK
<1>9. n = Len(queue) => queue' = <<>>
  BY <1>1, <1>2
<1>10. n > 0 => \E r \in Runs : run'[r].at = "granted"
  <2> SUFFICES ASSUME n > 0 PROVE \E r \in Runs : run'[r].at = "granted"
    OBVIOUS
  <2>1. queue[1] \in first
    BY <1>1
  <2> QED
    BY <1>4, <1>5, <2>1
<1>11. IsFiniteSet(first) /\ Cardinality(first) <= n
  <2> DEFINE f == [m \in 1..n |-> queue[m]]
  <2>1. f \in Surjection(1..n, first)
    BY DEF Surjection
  <2>2. IsFiniteSet(1..n) /\ Cardinality(1..n) = n
    BY <1>1, FS_Interval
  <2> HIDE DEF f, first
  <2> QED
    BY <2>1, <2>2, FS_Surjection
<1>12. Active(run') \subseteq Active(R) \cup first
  BY <1>3 DEF Active
<1>13. Cardinality(Active(run')) <= Cardinality(Active(R)) + n
  <2> HIDE DEF first
  <2>1. IsFiniteSet(Active(R)) /\ Cardinality(Active(R)) \in Nat
    BY ActiveFinite
  <2>2. /\ IsFiniteSet(Active(R) \cup first)
        /\ Cardinality(Active(R) \cup first) =
             Cardinality(Active(R)) + Cardinality(first)
               - Cardinality(Active(R) \cap first)
    BY <1>11, <2>1, FS_Union
  <2>3. Cardinality(Active(R) \cap first) \in Nat /\ Cardinality(first) \in Nat
    <3>1. IsFiniteSet(Active(R) \cap first)
      BY <2>1, FS_Subset
    <3> QED
      BY <1>11, <3>1, FS_CardinalityType
  <2>4. /\ Cardinality(Active(run')) <= Cardinality(Active(R) \cup first)
        /\ Cardinality(Active(run')) \in Nat
    BY <1>12, <2>2, ActiveFinite, FS_Subset
  <2> QED
    BY <1>1, <1>11, <2>1, <2>2, <2>3, <2>4
<1> QED
  BY <1>6, <1>7, <1>8, <1>9, <1>10, <1>13

LEMMA SlotsType == /\ MaxConcurrent \in Nat /\ MaxConcurrent > 0
                   /\ Least(1, Len(queue)) = IF 1 < Len(queue) THEN 1 ELSE Len(queue)
BY CronAssumption DEF Least

LEMMA QueueLength == ASSUME QueueOK(run, queue)
                     PROVE  /\ Len(queue) \in Nat
                            /\ queue = <<>> <=> Len(queue) = 0
BY EmptySeq DEF QueueOK

\* Nobody waits and nobody runs.
LEMMA IdleRuns ==
  ASSUME NEW R, R = [r \in Runs |-> Free], NEW q, q = <<>>
  PROVE  RunsOK(R) /\ QueueOK(R, q) /\ Cardinality(Active(R)) = 0
<1>1. RunsOK(R)
  BY DEF RunsOK, Executions, Free
<1>2. QueueOK(R, q)
  BY EmptySeq DEF QueueOK, Free
<1>3. Active(R) = {}
  BY DEF Active, Free
<1>4. Cardinality(Active(R)) = 0
  BY <1>3, FS_EmptySet
<1> QED
  BY <1>1, <1>2, <1>4

LEMMA InitRunInv == Init => RunInv
<1> SUFFICES ASSUME Init PROVE RunInv
  OBVIOUS
<1>1. run = [r \in Runs |-> Free] /\ queue = <<>>
  BY DEF Init
<1>2. RunsOK(run) /\ QueueOK(run, queue) /\ Cardinality(Active(run)) = 0
  BY <1>1, IdleRuns
<1> QED
  BY <1>1, <1>2, SlotsType DEF RunInv, SlotsAccounted

\* r, which holds no slot and does not wait, changes without taking a slot; if
\* others wait, it leaves.
LEMMA PlainStep ==
  ASSUME RunInv, NEW r \in Runs, run[r].at \in {"free", "fired"},
         NEW e \in Executions, e.at \in {"free", "fired"},
         e.at # "free" => e.job \in JobIds,
         run' = [run EXCEPT ![r] = e], UNCHANGED queue
  PROVE  RunInv'
<1>1. \A q \in Runs \ {r} : run'[q] = run[q]
  BY DEF RunInv, RunsOK
<1>2. run' \in [Runs -> Executions] /\ run'[r] = e
  BY DEF RunInv, RunsOK
<1>3. RunsOK(run')
  BY <1>1, <1>2 DEF RunInv, RunsOK
<1>4. QueueOK(run', queue')
  BY <1>1, <1>2 DEF RunInv, QueueOK
<1>5. Active(run') = Active(run)
  BY <1>1, <1>2 DEF Active
<1>6. SlotsAccounted'
  BY <1>1, <1>5 DEF RunInv, SlotsAccounted
<1> QED
  BY <1>3, <1>4, <1>6 DEF RunInv

\* _execute_job_wrapper finds every slot taken and waits at the end of the queue.
LEMMA QueueStep ==
  ASSUME RunInv, Locked, NEW r \in Runs, run[r].at \in {"free", "fired"},
         NEW e \in Executions, e.at = "queue", e.job \in JobIds, e.def # None,
         run' = [run EXCEPT ![r] = e], queue' = Append(queue, r)
  PROVE  RunInv'
<1>1. \A q \in Runs \ {r} : run'[q] = run[q]
  BY DEF RunInv, RunsOK
<1>2. run' \in [Runs -> Executions] /\ run'[r] = e
  BY DEF RunInv, RunsOK
<1>3. RunsOK(run')
  BY <1>1, <1>2 DEF RunInv, RunsOK
<1>4. /\ queue' \in Seq(Runs) /\ Len(queue') = Len(queue) + 1 /\ Len(queue) \in Nat
      /\ \A i \in 1..Len(queue) : queue'[i] = queue[i]
      /\ queue'[Len(queue) + 1] = r
  BY AppendProperties DEF RunInv, QueueOK
<1>5. \A m \in 1..Len(queue) : queue[m] # r
  BY DEF RunInv, QueueOK
<1>6. QueueOK(run', queue')
  <2>1. \A k, m \in 1..Len(queue') : queue'[k] = queue'[m] => k = m
    BY <1>4, <1>5 DEF RunInv, QueueOK
  <2>2. \A q \in Runs : (\E m \in 1..Len(queue') : queue'[m] = q) <=>
                         q = r \/ \E m \in 1..Len(queue) : queue[m] = q
    BY <1>4
  <2>3. \A q \in Runs : run'[q].at = "queue" <=> \E m \in 1..Len(queue') : queue'[m] = q
    BY <1>1, <1>2, <2>2 DEF RunInv, QueueOK
  <2> QED
    BY <1>4, <2>1, <2>3 DEF QueueOK
<1>7. Active(run') = Active(run)
  BY <1>1, <1>2 DEF Active
<1>8. Cardinality(Active(run)) < MaxConcurrent => \E q \in Runs : run[q].at = "granted"
  <2>1. Cardinality(Active(run)) \in Nat
    BY ActiveFinite
  <2>2. (\E q \in Runs : run[q].at = "queue") => queue # <<>>
    BY QueueLength DEF RunInv, QueueOK
  <2> QED
    BY <2>1, <2>2, SlotsType DEF Locked, RunInv, SlotsAccounted
<1>9. SlotsAccounted'
  BY <1>1, <1>7, <1>8 DEF RunInv, SlotsAccounted
<1> QED
  BY <1>3, <1>6, <1>9 DEF RunInv

\* It finds a free slot and nobody before it.
LEMMA RunStep ==
  ASSUME RunInv, ~Locked, NEW r \in Runs, run[r].at \in {"free", "fired"},
         NEW e \in Executions, e.at = "running", e.job \in JobIds, e.def # None,
         run' = [run EXCEPT ![r] = e], UNCHANGED queue
  PROVE  RunInv'
<1>1. \A q \in Runs \ {r} : run'[q] = run[q]
  BY DEF RunInv, RunsOK
<1>2. run' \in [Runs -> Executions] /\ run'[r] = e
  BY DEF RunInv, RunsOK
<1>3. RunsOK(run')
  BY <1>1, <1>2 DEF RunInv, RunsOK
<1>4. QueueOK(run', queue')
  BY <1>1, <1>2 DEF RunInv, QueueOK
<1>5. queue = <<>>
  BY QueueLength DEF Locked, RunInv, QueueOK
<1>6. Active(run') = Active(run) \cup {r}
  BY <1>1, <1>2 DEF Active
<1>7. Cardinality(Active(run')) <= Cardinality(Active(run)) + 1
  <2>1. IsFiniteSet(Active(run)) /\ Cardinality(Active(run)) \in Nat
    BY ActiveFinite
  <2>2. Cardinality(Active(run) \cup {r}) <= Cardinality(Active(run)) + 1
    <3>1. Cardinality(Active(run) \cup {r}) =
            IF r \in Active(run) THEN Cardinality(Active(run))
                                 ELSE Cardinality(Active(run)) + 1
      BY <2>1, FS_AddElement
    <3> QED
      BY <2>1, <3>1
  <2> QED
    BY <1>6, <2>2
<1>8. Cardinality(Active(run')) <= MaxConcurrent
  BY <1>7, ActiveFinite, SlotsType DEF Locked
<1> QED
  BY <1>3, <1>4, <1>5, <1>8 DEF RunInv, SlotsAccounted

\* An execution gives its slot back, or goes on with it; R is `run` after that.
\* The woken ones take the free slots.
LEMMA WakeStep ==
  ASSUME RunInv, NEW r \in Runs, run[r].at \in {"granted", "running"},
         NEW e \in Executions, NEW R, R = [run EXCEPT ![r] = e],
         \/ e.at = "free" /\ (WakeOne(R) \/ WakeAll(R))
         \/ e.at = "running" /\ e.job \in JobIds /\ e.def # None /\ WakeAll(R)
  PROVE  RunInv'
<1>1. \A q \in Runs \ {r} : R[q] = run[q]
  BY DEF RunInv, RunsOK
<1>2. R \in [Runs -> Executions] /\ R[r] = e
  BY DEF RunInv, RunsOK
<1>3. RunsOK(R)
  BY <1>1, <1>2 DEF RunInv, RunsOK
<1>4. QueueOK(R, queue)
  BY <1>1, <1>2 DEF RunInv, QueueOK
<1>5. Len(queue) \in Nat /\ (queue = <<>> <=> Len(queue) = 0)
  BY QueueLength DEF RunInv
<1>6. r \in Active(run)
  BY DEF Active
<1>7. /\ Cardinality(Active(R)) \in Nat /\ Cardinality(Active(R)) <= MaxConcurrent
      /\ e.at = "free" => Cardinality(Active(R)) < MaxConcurrent
  <2>1. /\ Cardinality(Active(run)) \in Nat /\ IsFiniteSet(Active(run))
        /\ Cardinality(Active(run)) <= MaxConcurrent
    BY ActiveFinite DEF RunInv, SlotsAccounted
  <2>2. CASE e.at = "free"
    <3>1. Active(R) = Active(run) \ {r}
      BY <1>1, <1>2, <2>2 DEF Active
    <3>2. Cardinality(Active(R)) = Cardinality(Active(run)) - 1
      BY <1>6, <2>1, <3>1, FS_RemoveElement
    <3> QED
      BY <2>1, <3>2, ActiveFinite, SlotsType
  <2>3. CASE e.at = "running"
    <3>1. Active(R) = Active(run)
      BY <1>1, <1>2, <1>6, <2>3 DEF Active
    <3> QED
      BY <2>1, <2>3, <3>1
  <2> QED
    BY <2>2, <2>3
<1> DEFINE free == MaxConcurrent - Cardinality(Active(R))
<1>8. free \in Nat /\ (e.at = "free" => free > 0)
  BY <1>7, SlotsType
\* How many are woken: no more than there are slots, and someone if there are.
<1>9. PICK n \in 0..Len(queue) :
        Wake(R, n) /\ n <= free /\ (n = 0 => Len(queue) = 0 \/ free = 0)
  <2>1. CASE WakeAll(R)
    <3>1. Wake(R, Least(free, Len(queue)))
      BY <2>1 DEF WakeAll
    <3> HIDE DEF free
    <3> QED
      BY <1>5, <1>8, <3>1 DEF Least
  <2>2. CASE e.at = "free" /\ WakeOne(R)
    <3>1. Wake(R, Least(1, Len(queue)))
      BY <2>2 DEF WakeOne
    <3> HIDE DEF free
    <3> QED
      BY <1>5, <1>8, <2>2, <3>1 DEF Least
  <2> QED
    BY <2>1, <2>2
<1>10. /\ RunsOK(run') /\ QueueOK(run', queue')
       /\ n = 0 => run' = R
       /\ n = Len(queue) => queue' = <<>>
       /\ n > 0 => \E q \in Runs : run'[q].at = "granted"
       /\ Cardinality(Active(run')) <= Cardinality(Active(R)) + n
  BY <1>3, <1>4, <1>9, Woken
<1>11. Cardinality(Active(run')) \in Nat
  BY ActiveFinite
<1>12. Cardinality(Active(run')) <= MaxConcurrent
  BY <1>7, <1>9, <1>10, <1>11, SlotsType
<1>13. ASSUME queue' # <<>>, Cardinality(Active(run')) < MaxConcurrent
       PROVE  \E q \in Runs : run'[q].at = "granted"
  <2>1. CASE n = 0
    <3>1. run' = R /\ Len(queue) # 0
      BY <1>5, <1>10, <1>13, <2>1
    <3>2. Cardinality(Active(R)) = MaxConcurrent
      BY <1>7, <1>9, <2>1, <3>1, SlotsType
    <3> QED
      BY <1>13, <3>1, <3>2, <1>7
  <2> QED
    BY <1>9, <1>10, <2>1
<1> QED
  BY <1>10, <1>12, <1>13 DEF RunInv, SlotsAccounted

\* Every step.
LEMMA StepRunInv ==
  ASSUME RunInv, jobs \in JobMaps, [Next]_vars
  PROVE  RunInv'
<1>1. ASSUME Down PROVE RunInv'
  <2>1. run' = [r \in Runs |-> Free] /\ queue' = <<>>
    BY <1>1 DEF Down
  <2>2. RunsOK(run') /\ QueueOK(run', queue') /\ Cardinality(Active(run')) = 0
    BY <2>1, IdleRuns
  <2> QED
    BY <2>1, <2>2, SlotsType DEF RunInv, SlotsAccounted
<1>2. ASSUME UNCHANGED <<run, queue>> PROVE RunInv'
  BY <1>2 DEF RunInv, RunsOK, QueueOK, SlotsAccounted, Active
<1>3. ASSUME NEW j \in JobIds, NEW r \in Runs, Fire(j, r) PROVE RunInv'
  <2> DEFINE e == [at |-> "fired", job |-> j, def |-> None, fired |-> TRUE]
  <2>1. /\ run[r].at = "free" /\ run' = [run EXCEPT ![r] = e]
        /\ UNCHANGED queue
    BY <1>3 DEF Fire, Unused, Free
  <2>2. e \in Executions /\ e.at = "fired" /\ e.job \in JobIds
    BY DEF Executions
  <2> HIDE DEF e
  <2> QED
    BY <2>1, <2>2, PlainStep
<1>4. ASSUME NEW j \in JobIds, NEW r \in Runs, NEW fired \in BOOLEAN,
             Enter(r, j, fired), run[r].at \in {"free", "fired"}
      PROVE  RunInv'
  <2> DEFINE now(at) == [at |-> at, job |-> j, def |-> jobs[j], fired |-> fired]
  <2>1. \/ run' = [run EXCEPT ![r] = Free] /\ UNCHANGED queue
        \/ /\ Locked /\ jobs[j] # None
           /\ run' = [run EXCEPT ![r] = now("queue")] /\ queue' = Append(queue, r)
        \/ /\ ~Locked /\ jobs[j] # None
           /\ run' = [run EXCEPT ![r] = now("running")] /\ UNCHANGED queue
    BY <1>4 DEF Enter
  <2>2. /\ now("queue") \in Executions /\ now("queue").at = "queue"
        /\ now("queue").job = j /\ now("queue").def = jobs[j]
        /\ now("running") \in Executions /\ now("running").at = "running"
        /\ now("running").job = j /\ now("running").def = jobs[j]
    BY DEF Executions, JobMaps
  <2>3. Free \in Executions /\ Free.at = "free"
    BY DEF Executions, Free
  <2> HIDE DEF now
  <2>4. CASE run' = [run EXCEPT ![r] = Free] /\ UNCHANGED queue
    BY <1>4, <2>3, <2>4, PlainStep
  <2>5. CASE /\ Locked /\ jobs[j] # None
             /\ run' = [run EXCEPT ![r] = now("queue")] /\ queue' = Append(queue, r)
    BY <1>4, <2>2, <2>5, QueueStep
  <2>6. CASE /\ ~Locked /\ jobs[j] # None
             /\ run' = [run EXCEPT ![r] = now("running")] /\ UNCHANGED queue
    BY <1>4, <2>2, <2>6, RunStep
  <2> QED
    BY <2>1, <2>4, <2>5, <2>6
<1>5. ASSUME NEW r \in Runs, Begin(r) PROVE RunInv'
  <2>1. run[r].at = "fired" /\ Enter(r, run[r].job, TRUE)
    BY <1>5 DEF Begin
  <2>2. run[r].job \in JobIds
    BY <2>1 DEF RunInv, RunsOK
  <2> QED
    BY <1>4, <2>1, <2>2
<1>6. ASSUME NEW j \in JobIds, NEW r \in Runs, RunNow(j, r) PROVE RunInv'
  <2>1. run[r] = Free /\ Enter(r, j, FALSE)
    BY <1>6 DEF RunNow, Unused
  <2>2. run[r].at = "free"
    BY <2>1 DEF Free
  <2> QED
    BY <1>4, <2>1, <2>2
<1>7. ASSUME NEW r \in Runs, Resume(r) PROVE RunInv'
  <2> DEFINE e == [run[r] EXCEPT !.at = "running"]
  <2>1. run[r].at = "granted"
    BY <1>7 DEF Resume
  <2>2. e \in Executions /\ e.at = "running" /\ e.job \in JobIds /\ e.def # None
    BY <2>1 DEF RunInv, RunsOK, Executions
  <2>3. Free \in Executions /\ Free.at = "free"
    BY DEF Executions, Free
  <2>4. [run EXCEPT ![r].at = "running"] = [run EXCEPT ![r] = e]
    BY DEF RunInv, RunsOK
  <2>5. WakeAll([run EXCEPT ![r].at = "running"]) \/ WakeAll([run EXCEPT ![r] = Free])
    BY <1>7 DEF Resume
  <2>6. WakeAll([run EXCEPT ![r] = e]) \/ WakeAll([run EXCEPT ![r] = Free])
    BY <2>4, <2>5
  <2> HIDE DEF e
  <2> QED
    BY <2>1, <2>2, <2>3, <2>6, WakeStep
<1>8. ASSUME NEW r \in Runs, End(r) \/ EndFails(r) PROVE RunInv'
  <2>1. run[r].at = "running" /\ WakeOne([run EXCEPT ![r] = Free])
    BY <1>8 DEF End, EndFails
  <2>2. Free \in Executions /\ Free.at = "free"
    BY DEF Executions, Free
  <2> QED
    BY <2>1, <2>2, WakeStep
<1>9. ASSUME \/ Start \/ UNCHANGED vars
             \/ \E j \in JobIds : \/ DeleteJob(j) \/ FireMissed(j)
                                  \/ \E d \in Offered[j] : AddJob(j, d) \/ UpdateJob(j, d)
      PROVE  RunInv'
  <2>1. UNCHANGED <<run, queue>>
    BY <1>9 DEF Start, vars, memory, DeleteJob, FireMissed, AddJob, UpdateJob
  <2> QED
    BY <1>2, <2>1
<1>10. ASSUME Stop \/ Crash \/ DieSaving \/ \E j \in JobIds : DiePatching(j) PROVE RunInv'
  BY <1>1, <1>10 DEF Stop, Crash, DieSaving, DiePatching
<1> QED
  BY <1>3, <1>5, <1>6, <1>7, <1>8, <1>9, <1>10 DEF Next, Task

-------------------------------------------------------------------------------
(* The dictionary of jobs, the scheduler's jobs and the file. *)

\* The part of TypeOK that the dictionaries need.
Maps ==
  /\ up \in {"down", "started", "dead"}
  /\ jobs \in JobMaps /\ acked \in JobMaps /\ disk \in JobMaps \cup {Corrupt}
  /\ trigger \in [JobIds -> {"none", "in", "every"}]

\* A process that is down has nothing in memory.
DownIsEmpty ==
  up = "down" => /\ jobs = NoJobs /\ trigger = NoTriggers
                 /\ \A r \in Runs : run[r] = Free

\* What a restart would load is what was confirmed.
DiskConfirmed ==
  intact => disk # Corrupt /\ \A j \in JobIds \ excused : disk[j] = acked[j]

IInv == Maps /\ DownIsEmpty /\ DiskConfirmed /\ ScheduleFollowsJobs /\ ConfirmedSurvives

-------------------------------------------------------------------------------
(* Definitions of clients. *)

LEMMA OfferedDefinitions ==
  ASSUME NEW j \in JobIds, NEW d \in Offered[j]
  PROVE  /\ d \in Definitions /\ d # None
         /\ Scheduled(d) => d.sched \in {"in", "every"}
         /\ Recurs(d) => Scheduled(d) /\ ~Rejected(d) /\ d.sched = "every"
<1>1. d \in Definitions
  BY DEF Definitions
<1>2. d # None
  BY <1>1, CronAssumption
<1> QED
  BY <1>1, <1>2 DEF Scheduled, Recurs, Rejected

-------------------------------------------------------------------------------
(* The steps that change a definition. *)

\* Storing J as the jobs of a live engine and saving it keeps the file in step
\* with what was confirmed, if the change of id j is confirmed or excused.
LEMMA Saved ==
  ASSUME IInv, up # "down", NEW j \in JobIds, NEW d \in Definitions \cup {None},
         NEW J \in JobMaps, \A k \in JobIds \ {j} : J[k] = jobs[k],
         Save(J), (J[j] = d /\ Confirm(j, d)) \/ Excuse(j)
  PROVE  /\ DiskConfirmed' /\ acked' \in JobMaps /\ disk' \in JobMaps \cup {Corrupt}
         /\ intact' => \A k \in JobIds \ excused' : J[k] = acked'[k]
<1>1. /\ acked' \in JobMaps
      /\ \A k \in JobIds \ excused' :
           \/ k = j /\ acked'[k] = J[k]
           \/ k # j /\ k \notin excused /\ acked'[k] = acked[k]
  BY DEF IInv, Maps, JobMaps, Confirm, Excuse
<1>2. disk' \in JobMaps \cup {Corrupt}
  BY DEF IInv, Maps, Save
<1>3. intact' => intact /\ disk' = J
  BY DEF Save
<1>4. intact' => \A k \in JobIds \ excused' : J[k] = acked'[k]
  BY <1>1, <1>3 DEF IInv, ConfirmedSurvives
<1>5. J # Corrupt
  BY CronAssumption DEF JobMaps
<1> QED
  BY <1>1, <1>2, <1>3, <1>4, <1>5 DEF DiskConfirmed

\* remove_job, called for a client or at the end of an execution.
LEMMA RemovePreserves ==
  ASSUME IInv, up # "down", NEW j \in JobIds, RemoveJob(j), UNCHANGED up,
         Confirm(j, None) \/ Excuse(j)
  PROVE  IInv'
<1> DEFINE J == [jobs EXCEPT ![j] = None]
<1>1. J \in JobMaps /\ J[j] = None /\ \A k \in JobIds \ {j} : J[k] = jobs[k]
  BY DEF IInv, Maps, JobMaps
<1>2. Save(J) /\ jobs' = J /\ trigger' = [trigger EXCEPT ![j] = "none"]
  BY DEF RemoveJob, Save
<1> HIDE DEF J
<1>3. /\ DiskConfirmed' /\ acked' \in JobMaps /\ disk' \in JobMaps \cup {Corrupt}
      /\ intact' => \A k \in JobIds \ excused' : J[k] = acked'[k]
  BY <1>1, <1>2, Saved
<1>4. Maps'
  BY <1>1, <1>2, <1>3 DEF IInv, Maps
<1>5. ScheduleFollowsJobs'
  BY <1>1, <1>2 DEF IInv, Maps, ScheduleFollowsJobs, Recurs
<1> QED
  BY <1>2, <1>3, <1>4, <1>5 DEF IInv, DownIsEmpty, ConfirmedSurvives

-------------------------------------------------------------------------------
(* The invariant of the dictionaries. *)

LEMMA InitIInv == Init => IInv
<1> SUFFICES ASSUME Init PROVE IInv
  OBVIOUS
<1>1. NoJobs \in JobMaps /\ NoTriggers \in [JobIds -> {"none", "in", "every"}]
  BY DEF NoJobs, NoTriggers, JobMaps
<1>2. NoJobs # Corrupt
  BY <1>1, CronAssumption DEF JobMaps
<1> QED
  BY <1>1, <1>2
     DEF Init, IInv, Maps, DownIsEmpty, DiskConfirmed, ScheduleFollowsJobs,
         ConfirmedSurvives

\* Steps of the scheduler and of executions that change no definition.
Quiet == UNCHANGED <<jobs, disk, acked, excused, intact, up>>

LEMMA QuietPreserves ==
  ASSUME IInv, Quiet, up # "down",
         \/ UNCHANGED trigger
         \/ \E j \in JobIds : /\ trigger[j] = "in"
                              /\ trigger' = [trigger EXCEPT ![j] = "none"]
  PROVE  IInv'
<1>1. Maps'
  BY DEF IInv, Maps, Quiet
<1>2. ScheduleFollowsJobs'
  BY DEF IInv, Maps, ScheduleFollowsJobs, Recurs, Quiet
<1> QED
  BY <1>1, <1>2 DEF IInv, Quiet, DownIsEmpty, DiskConfirmed, ConfirmedSurvives

LEMMA DownPreserves ==
  ASSUME IInv, Down, DiskConfirmed', disk' \in JobMaps \cup {Corrupt}
  PROVE  IInv'
<1>1. NoJobs \in JobMaps /\ NoTriggers \in [JobIds -> {"none", "in", "every"}]
  BY DEF NoJobs, NoTriggers, JobMaps
<1>2. /\ up' = "down" /\ jobs' = NoJobs /\ trigger' = NoTriggers /\ acked' = acked
      /\ \A r \in Runs : run'[r] = Free
  BY DEF Down
<1> QED
  BY <1>1, <1>2
     DEF IInv, Maps, DownIsEmpty, ScheduleFollowsJobs, ConfirmedSurvives, NoJobs,
         NoTriggers, Free

LEMMA StartPreserves == IInv /\ Start => IInv'
<1> SUFFICES ASSUME IInv, Start PROVE IInv'
  OBVIOUS
<1>1. NoJobs \in JobMaps
  BY DEF NoJobs, JobMaps
<1>2. jobs' \in JobMaps /\ (disk # Corrupt => jobs' = disk)
  BY <1>1 DEF IInv, Maps, Start
<1> DEFINE on == {j \in JobIds : jobs'[j] # None /\ jobs'[j].enabled}
<1>3. \/ up' = "dead" /\ trigger' = trigger
      \/ /\ up' = "started" /\ ~\E j \in on : Rejected(jobs'[j])
         /\ trigger' = [j \in JobIds |-> IF j \in on /\ Scheduled(jobs'[j])
                                         THEN jobs'[j].sched ELSE "none"]
  BY DEF Start
<1>4. UNCHANGED <<disk, run, acked, excused, intact>>
  BY DEF Start
<1>5. trigger' \in [JobIds -> {"none", "in", "every"}] /\ ScheduleFollowsJobs'
  <2>1. CASE up' = "dead"
    BY <1>3, <2>1 DEF IInv, Maps, ScheduleFollowsJobs
  <2>2. CASE up' = "started"
    <3>1. \A j \in on : Scheduled(jobs'[j]) => jobs'[j].sched \in {"in", "every"}
      BY DEF Scheduled
    <3>2. trigger' = [j \in JobIds |-> IF j \in on /\ Scheduled(jobs'[j])
                                      THEN jobs'[j].sched ELSE "none"]
      BY <1>3, <2>2
    <3> QED
      BY <3>1, <3>2 DEF ScheduleFollowsJobs, Recurs, Scheduled
  <2> QED
    BY <1>3, <2>1, <2>2
<1>6. ConfirmedSurvives'
  BY <1>2, <1>4 DEF IInv, DiskConfirmed, ConfirmedSurvives
<1> QED
  BY <1>2, <1>3, <1>4, <1>5, <1>6 DEF IInv, Maps, DownIsEmpty, DiskConfirmed

LEMMA StepIInv == IInv /\ RunInv /\ [Next]_vars => IInv'
<1> SUFFICES ASSUME IInv, RunInv, [Next]_vars PROVE IInv'
  OBVIOUS
<1>0. \A r \in Runs : run[r] # Free => up # "down"
  BY DEF IInv, DownIsEmpty
<1>1. \A j \in JobIds : jobs[j] # None => up # "down"
  BY DEF IInv, DownIsEmpty, NoJobs
<1>2. ASSUME Stop \/ Crash PROVE IInv'
  BY <1>2, DownPreserves DEF Stop, Crash, Down, IInv, Maps, DiskConfirmed
<1>3. ASSUME DieSaving PROVE IInv'
  BY <1>3, DownPreserves DEF DieSaving, DiskConfirmed
<1>4. ASSUME NEW j \in JobIds, DiePatching(j) PROVE IInv'
  <2> DEFINE J == [jobs EXCEPT ![j] = None]
  <2>1. J \in JobMaps /\ \A k \in JobIds \ {j} : J[k] = jobs[k]
    BY DEF IInv, Maps, JobMaps
  <2>2. /\ Down /\ disk' = J /\ excused' = excused \cup {j} /\ UNCHANGED intact
        /\ acked' = acked /\ up # "down"
    BY <1>4 DEF DiePatching, Down
  <2> HIDE DEF J
  <2>3. J # Corrupt
    BY <2>1, CronAssumption DEF JobMaps
  <2>4. DiskConfirmed'
    BY <2>1, <2>2, <2>3 DEF IInv, ConfirmedSurvives, DiskConfirmed
  <2> QED
    BY <2>1, <2>2, <2>4, DownPreserves
<1>5. ASSUME NEW j \in JobIds, NEW d \in Offered[j], AddJob(j, d) PROVE IInv'
  <2> DEFINE J == [jobs EXCEPT ![j] = d]
  <2>1. d \in Definitions /\ d # None
        /\ (Scheduled(d) => d.sched \in {"in", "every"})
        /\ (Recurs(d) => Scheduled(d) /\ ~Rejected(d) /\ d.sched = "every")
    BY OfferedDefinitions
  <2>2. J \in JobMaps /\ J[j] = d /\ \A k \in JobIds \ {j} : J[k] = jobs[k]
    BY <2>1 DEF IInv, Maps, JobMaps
  <2>3. jobs' = J /\ up # "down" /\ UNCHANGED <<up, run>>
    BY <1>5 DEF AddJob
  <2>4. CASE Rejected(d)
    <3>1. Excuse(j) /\ UNCHANGED <<trigger, disk, intact>>
      BY <1>5, <2>4 DEF AddJob
    <3>2. /\ excused' = excused \cup {j} /\ acked' \in JobMaps
          /\ \A k \in JobIds \ {j} : acked'[k] = acked[k]
      BY <3>1 DEF Excuse, IInv, Maps, JobMaps
    <3> HIDE DEF J
    <3>3. Maps' /\ DownIsEmpty' /\ DiskConfirmed'
      BY <2>2, <2>3, <3>1, <3>2 DEF IInv, Maps, DownIsEmpty, DiskConfirmed
    <3>4. ConfirmedSurvives'
      BY <2>2, <2>3, <3>1, <3>2 DEF IInv, ConfirmedSurvives
    <3>5. ~Recurs(d)
      BY <2>1, <2>4
    <3>6. ScheduleFollowsJobs'
      BY <2>1, <2>2, <2>3, <3>1, <3>5 DEF IInv, ScheduleFollowsJobs, Recurs
    <3> QED
      BY <3>3, <3>4, <3>6 DEF IInv
  <2>5. CASE ~Rejected(d)
    <3>1. /\ trigger' = IF Scheduled(d) THEN [trigger EXCEPT ![j] = d.sched] ELSE trigger
          /\ Save(J) /\ Confirm(j, d)
      BY <1>5, <2>5 DEF AddJob, Save
    <3> HIDE DEF J
    <3>2. /\ DiskConfirmed' /\ acked' \in JobMaps /\ disk' \in JobMaps \cup {Corrupt}
          /\ intact' => \A k \in JobIds \ excused' : J[k] = acked'[k]
      BY <2>1, <2>2, <2>3, <3>1, Saved
    <3>3. Maps'
      BY <2>1, <2>2, <2>3, <2>5, <3>1, <3>2 DEF IInv, Maps
    <3>4. ScheduleFollowsJobs'
      BY <2>1, <2>2, <2>3, <3>1 DEF IInv, Maps, ScheduleFollowsJobs, Recurs
    <3> QED
      BY <2>3, <3>2, <3>3, <3>4 DEF IInv, DownIsEmpty, ConfirmedSurvives
  <2> QED
    BY <2>4, <2>5
<1>6. ASSUME NEW j \in JobIds, NEW d \in Offered[j], UpdateJob(j, d) PROVE IInv'
  <2> DEFINE J == [jobs EXCEPT ![j] = d]
             G == [jobs EXCEPT ![j] = None]
  <2>1. d \in Definitions /\ d # None
        /\ (Scheduled(d) => d.sched \in {"in", "every"})
        /\ (Recurs(d) => Scheduled(d) /\ ~Rejected(d) /\ d.sched = "every")
    BY OfferedDefinitions
  <2>2. /\ J \in JobMaps /\ J[j] = d /\ \A k \in JobIds \ {j} : J[k] = jobs[k]
        /\ G \in JobMaps /\ G[j] = None /\ \A k \in JobIds \ {j} : G[k] = jobs[k]
    BY <2>1 DEF IInv, Maps, JobMaps
  <2>3. /\ jobs' = J /\ up # "down" /\ UNCHANGED <<up, run>>
        /\ trigger' = [trigger EXCEPT ![j] =
                         IF Scheduled(d) THEN d.sched ELSE "none"]
    BY <1>1, <1>6 DEF UpdateJob
  <2>4. \/ Rejected(d) /\ Save(G) /\ Excuse(j)
        \/ ~Rejected(d) /\ Save(J) /\ Confirm(j, d)
        \/ ~Rejected(d) /\ SecondSaveFails(j) /\ Confirm(j, d)
    BY <1>6 DEF UpdateJob, Save
  <2>5. SecondSaveFails(j) => disk' = G /\ intact' = FALSE
    BY DEF SecondSaveFails
  <2> HIDE DEF J, G
  <2>6. /\ DiskConfirmed' /\ acked' \in JobMaps /\ disk' \in JobMaps \cup {Corrupt}
        /\ intact' => \A k \in JobIds \ excused' : J[k] = acked'[k]
    <3>1. CASE Rejected(d) /\ Save(G) /\ Excuse(j)
      <4>1. /\ DiskConfirmed' /\ acked' \in JobMaps /\ disk' \in JobMaps \cup {Corrupt}
            /\ intact' => \A k \in JobIds \ excused' : G[k] = acked'[k]
        BY <2>2, <2>3, <3>1, Saved
      <4>2. j \in excused'
        BY <3>1 DEF Excuse
      <4> QED
        BY <2>2, <4>1, <4>2
    <3>2. CASE ~Rejected(d) /\ Save(J) /\ Confirm(j, d)
      BY <2>1, <2>2, <2>3, <3>2, Saved
    <3>3. CASE ~Rejected(d) /\ SecondSaveFails(j) /\ Confirm(j, d)
      <4>1. acked' \in JobMaps
        BY <2>1, <3>3 DEF Confirm, IInv, Maps, JobMaps
      <4> QED
        BY <2>2, <2>5, <3>3, <4>1 DEF DiskConfirmed
    <3> QED
      BY <2>4, <3>1, <3>2, <3>3
  <2>7. Maps'
    BY <2>1, <2>2, <2>3, <2>6 DEF IInv, Maps
  <2>8. ScheduleFollowsJobs'
    BY <2>1, <2>2, <2>3 DEF IInv, Maps, ScheduleFollowsJobs, Recurs
  <2> QED
    BY <2>3, <2>6, <2>7, <2>8 DEF IInv, DownIsEmpty, ConfirmedSurvives
<1>7. ASSUME NEW j \in JobIds, DeleteJob(j) PROVE IInv'
  BY <1>1, <1>7, RemovePreserves DEF DeleteJob
<1>8. ASSUME NEW j \in JobIds, NEW r \in Runs, Fire(j, r) PROVE IInv'
  <2>1. Quiet /\ up # "down"
    BY <1>8 DEF Fire, Quiet
  <2>2. \/ UNCHANGED trigger
        \/ trigger[j] = "in" /\ trigger' = [trigger EXCEPT ![j] = "none"]
    BY <1>8 DEF Fire, IInv, Maps
  <2> QED
    BY <2>1, <2>2, QuietPreserves
<1>9. ASSUME NEW j \in JobIds, FireMissed(j) PROVE IInv'
  BY <1>9, QuietPreserves DEF FireMissed, Quiet
<1>10. ASSUME NEW r \in Runs, Begin(r) \/ Resume(r) \/ EndFails(r) PROVE IInv'
  <2>1. Quiet /\ UNCHANGED trigger /\ run[r] # Free
    BY <1>10 DEF Begin, Enter, Resume, EndFails, Quiet, Free
  <2> QED
    BY <1>0, <2>1, QuietPreserves
<1>11. ASSUME NEW j \in JobIds, NEW r \in Runs, RunNow(j, r) PROVE IInv'
  <2>1. Quiet /\ UNCHANGED trigger /\ jobs[j] # None
    BY <1>11 DEF RunNow, Enter, Quiet
  <2> QED
    BY <1>1, <2>1, QuietPreserves
<1>12. ASSUME NEW r \in Runs, End(r) PROVE IInv'
  <2>1. run[r] # Free /\ UNCHANGED up /\ run[r].job \in JobIds
    BY <1>12 DEF End, Free, RunInv, RunsOK
  <2>2. \/ UNCHANGED <<jobs, trigger, disk, acked, excused, intact>>
        \/ /\ jobs[run[r].job] # None /\ RemoveJob(run[r].job)
           /\ Confirm(run[r].job, None) \/ Excuse(run[r].job)
    BY <1>12 DEF End
  <2>3. CASE UNCHANGED <<jobs, trigger, disk, acked, excused, intact>>
    BY <1>0, <2>1, <2>3, QuietPreserves DEF Quiet
  <2>4. CASE /\ jobs[run[r].job] # None /\ RemoveJob(run[r].job)
             /\ Confirm(run[r].job, None) \/ Excuse(run[r].job)
    BY <1>0, <2>1, <2>4, RemovePreserves
  <2> QED
    BY <2>2, <2>3, <2>4
<1>13. ASSUME UNCHANGED vars PROVE IInv'
  BY <1>13
     DEF IInv, Maps, DownIsEmpty, DiskConfirmed, ScheduleFollowsJobs,
         ConfirmedSurvives, Recurs, vars, memory
<1> QED
  BY StartPreserves, <1>2, <1>3, <1>4, <1>5, <1>6, <1>7, <1>8, <1>9, <1>10, <1>11,
     <1>12, <1>13 DEF Next, Task

-------------------------------------------------------------------------------
(* The rest of the state. *)

Rest == faults \in 0..MaxFaults /\ excused \subseteq JobIds /\ intact \in BOOLEAN

LEMMA InitRest == Init => Rest
BY CronAssumption DEF Init, Rest

LEMMA StepRest == Rest /\ RunInv /\ [Next]_vars => Rest'
<1> SUFFICES ASSUME Rest, RunInv, [Next]_vars PROVE Rest'
  OBVIOUS
<1>1. faults \in Nat /\ faults <= MaxFaults /\ MaxFaults \in Nat
  BY CronAssumption DEF Rest
<1>2. Fault => faults' \in 0..MaxFaults
  BY <1>1 DEF Fault
<1>3. ASSUME NEW J, Save(J) PROVE faults' \in 0..MaxFaults /\ intact' \in BOOLEAN
  BY <1>2, <1>3 DEF Save, Rest
<1>4. ASSUME NEW j \in JobIds, NEW d, Confirm(j, d) \/ Excuse(j) PROVE excused' \subseteq JobIds
  BY <1>4 DEF Confirm, Excuse, Rest
<1>5. ASSUME UNCHANGED <<excused, intact>>, Fault \/ UNCHANGED faults PROVE Rest'
  BY <1>2, <1>5 DEF Rest
<1>6. ASSUME Start \/ Stop \/ Crash \/ UNCHANGED vars PROVE Rest'
  BY <1>5, <1>6 DEF Start, Stop, Crash, vars, memory
<1>7. ASSUME DieSaving PROVE Rest'
  BY <1>2, <1>7 DEF DieSaving, Rest
<1>8. ASSUME NEW j \in JobIds, DiePatching(j) PROVE Rest'
  BY <1>2, <1>8 DEF DiePatching, Rest
<1>9. ASSUME NEW j \in JobIds, NEW d \in Offered[j], AddJob(j, d) PROVE Rest'
  <2>1. CASE Rejected(d)
    BY <1>4, <1>9, <2>1 DEF AddJob, Rest
  <2>2. CASE ~Rejected(d)
    <3>1. Save(jobs') /\ Confirm(j, d)
      BY <1>9, <2>2 DEF AddJob
    <3> QED
      BY <1>3, <1>4, <3>1 DEF Rest
  <2> QED
    BY <2>1, <2>2
<1>10. ASSUME NEW j \in JobIds, NEW d \in Offered[j], UpdateJob(j, d) PROVE Rest'
  <2>1. /\ Confirm(j, d) \/ Excuse(j)
        /\ Save([jobs EXCEPT ![j] = None]) \/ Save(jobs') \/ SecondSaveFails(j)
    BY <1>10 DEF UpdateJob
  <2>2. SecondSaveFails(j) => faults' \in 0..MaxFaults /\ intact' = FALSE
    BY <1>2 DEF SecondSaveFails
  <2> QED
    BY <1>3, <1>4, <2>1, <2>2 DEF Rest
<1>11. ASSUME NEW j \in JobIds, RemoveJob(j), Confirm(j, None) \/ Excuse(j) PROVE Rest'
  <2>1. Save(jobs')
    BY <1>11 DEF RemoveJob
  <2> QED
    BY <1>3, <1>4, <1>11, <2>1 DEF Rest
<1>12. ASSUME NEW j \in JobIds, DeleteJob(j) PROVE Rest'
  BY <1>11, <1>12 DEF DeleteJob
<1>13. ASSUME NEW j \in JobIds, FireMissed(j) \/ \E r \in Runs : Fire(j, r) PROVE Rest'
  BY <1>5, <1>13 DEF Fire, FireMissed
<1>14. ASSUME NEW r \in Runs, NEW j, NEW fired, Enter(r, j, fired) PROVE Rest'
  BY <1>5, <1>14 DEF Enter
<1>15. ASSUME NEW j \in JobIds, NEW r \in Runs, RunNow(j, r) PROVE Rest'
  BY <1>14, <1>15 DEF RunNow
<1>16. ASSUME NEW r \in Runs, Resume(r) \/ EndFails(r) PROVE Rest'
  BY <1>5, <1>16 DEF Resume, EndFails
<1>17. ASSUME NEW r \in Runs, End(r) PROVE Rest'
  <2>1. run[r].job \in JobIds
    BY <1>17 DEF End, RunInv, RunsOK
  <2>2. \/ UNCHANGED <<faults, excused, intact>>
        \/ /\ RemoveJob(run[r].job)
           /\ Confirm(run[r].job, None) \/ Excuse(run[r].job)
    BY <1>17 DEF End
  <2> QED
    BY <1>5, <1>11, <2>1, <2>2
<1>18. ASSUME NEW r \in Runs, Begin(r) PROVE Rest'
  BY <1>14, <1>18 DEF Begin
<1> QED
  BY <1>6, <1>7, <1>8, <1>9, <1>10, <1>12, <1>13, <1>15, <1>16, <1>17, <1>18
     DEF Next, Task

-------------------------------------------------------------------------------
(* The theorems. *)

LEMMA Invariance == Spec => [](IInv /\ RunInv /\ Rest)
<1>1. IInv => jobs \in JobMaps
  BY DEF IInv, Maps
<1>2. IInv /\ RunInv /\ Rest /\ [Next]_vars => (IInv /\ RunInv /\ Rest)'
  BY <1>1, StepIInv, StepRunInv, StepRest
<1> QED
  BY <1>2, InitIInv, InitRunInv, InitRest, PTL DEF Spec

\* Type correctness of the cron engine: what every handler of cron_engine.py
\* leaves in the dictionary, the scheduler, the file and the semaphore.
THEOREM TypeCorrect == Spec => []TypeOK
<1>1. QueueOK(run, queue) => ToSet(queue) = {r \in Runs : run[r].at = "queue"}
  BY DEF QueueOK, ToSet
<1>2. IInv /\ RunInv /\ Rest => TypeOK
  BY <1>1 DEF IInv, Maps, JobMaps, RunInv, RunsOK, Executions, Rest, TypeOK
<1> QED
  BY <1>2, Invariance, PTL

\* _execute_job_wrapper's semaphore: however executions of it end, fail to begin
\* or wait, never more than max_concurrent_jobs hold a slot, and none is lost.
THEOREM NoSlotLost == Spec => []SlotsAccounted
<1>1. RunInv => SlotsAccounted
  BY DEF RunInv
<1> QED
  BY <1>1, Invariance, PTL

\* add_job, remove_job, start and the executions keep the scheduler in agreement with
\* the dictionary: no trigger of an id that was removed, and the one of every enabled
\* recurring job whose schedule _schedule_job makes a trigger of.
THEOREM SchedulerAgrees == Spec => []ScheduleFollowsJobs
<1>1. IInv => ScheduleFollowsJobs
  BY DEF IInv
<1> QED
  BY <1>1, Invariance, PTL

\* _save_jobs and _load_jobs keep every confirmed definition through restarts.
THEOREM JobsPersist == Spec => []ConfirmedSurvives
<1>1. IInv => ConfirmedSurvives
  BY DEF IInv
<1> QED
  BY <1>1, Invariance, PTL
===============================================================================
