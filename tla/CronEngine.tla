----------------------------- MODULE CronEngine -----------------------------
(***************************************************************************)
(* The cron engine (cron_engine.py, routers/cron.py): job definitions in   *)
(* memory and in jobs.json, a scheduler that fires them, and executions    *)
(* that share a semaphore.                                                 *)
(*                                                                         *)
(* Everything runs in one event loop: what happens between two awaits is   *)
(* one step here, the synchronous ledger calls and the saving of the file  *)
(* included.  An execution waits for the semaphore and for its payload.    *)
(* The scheduler (APScheduler 3) and the semaphore (asyncio of Python      *)
(* 3.12) are modelled by what the engine observes of them.  "cron" jobs    *)
(* are like "every"; "at" jobs, whose date does not move, are left out.    *)
(***************************************************************************)
EXTENDS Naturals, FiniteSets, Sequences, SequencesExt

CONSTANTS JobIds,
          Offered,          \* JobIds -> definitions clients send for the id:
                            \* [sched : {"in", "every", "bad", "unknown"}, enabled,
                            \*  high, deleteAfterRun : BOOLEAN]
          Runs,             \* bound: executions at one time
          MaxConcurrent,    \* max_concurrent_jobs
          MaxFaults,        \* bound: crashes, failed saves, ledger errors
          None, Corrupt

Definitions == UNION {Offered[j] : j \in JobIds}

ASSUME CronAssumption ==
  /\ DOMAIN Offered = JobIds
  /\ Definitions \subseteq [sched : {"in", "every", "bad", "unknown"}, enabled : BOOLEAN,
                            high : BOOLEAN, deleteAfterRun : BOOLEAN]
  /\ None \notin Definitions
  /\ Corrupt \notin [JobIds -> Definitions \cup {None}]
  /\ IsFiniteSet(Runs)
  /\ MaxConcurrent \in Nat \ {0} /\ MaxFaults \in Nat

VARIABLES up,               \* "down", "started", or "dead": start() raised
          jobs,             \* JobIds -> definition or None
          trigger,          \* the scheduler's jobs: JobIds -> kind or "none"
          disk,             \* jobs.json: what was saved, or Corrupt
          run,              \* Runs -> execution
          queue,            \* executions waiting for the semaphore, in order
          faults,
          acked,            \* history: JobIds -> the definition last confirmed,
                            \* None if the id has been excused since
          excused,          \* history: ids whose last change was rejected, cut
                            \* short, or undone by an execution of an older one
          intact            \* history: no save failed or was cut short
memory == <<up, jobs, trigger, run, queue>>
vars == <<memory, disk, faults, acked, excused, intact>>

NoJobs == [j \in JobIds |-> None]
NoTriggers == [j \in JobIds |-> "none"]
Free == [at |-> "free", job |-> None, def |-> None, fired |-> FALSE]

Fault == faults < MaxFaults /\ faults' = faults + 1

\* _schedule_job raises: a field or the date does not parse ("bad").
Rejected(d) == d.enabled /\ d.sched = "bad"

\* Of a kind it does not know, or a cron expression without 5 or 6 fields ("unknown"),
\* it makes no trigger: nothing is scheduled, and nothing is raised.
Scheduled(d) == d.enabled /\ d.sched \in {"in", "every"}

-------------------------------------------------------------------------------
(* Start, stop, crash *)

Init ==
  /\ up = "down" /\ jobs = NoJobs /\ trigger = NoTriggers /\ disk = NoJobs
  /\ run = [r \in Runs |-> Free] /\ queue = <<>>
  /\ faults = 0
  /\ acked = NoJobs /\ excused = {} /\ intact = TRUE

\* _load_jobs, then start: the first job that cannot be scheduled ends it with
\* an exception before the scheduler runs; main.py logs that and goes on.
Start ==
  /\ up = "down"
  /\ jobs' = IF disk = Corrupt THEN NoJobs ELSE disk
  /\ LET on == {j \in JobIds : jobs'[j] # None /\ jobs'[j].enabled} IN
       IF \E j \in on : Rejected(jobs'[j])
       THEN up' = "dead" /\ UNCHANGED trigger
       ELSE /\ up' = "started"
            /\ trigger' = [j \in JobIds |-> IF j \in on /\ Scheduled(jobs'[j])
                                            THEN jobs'[j].sched ELSE "none"]
  /\ UNCHANGED <<disk, run, queue, faults, acked, excused, intact>>

DownKeepingQueue ==
  /\ up # "down"
  /\ up' = "down" /\ jobs' = NoJobs /\ trigger' = NoTriggers
  /\ run' = [r \in Runs |-> Free]
  /\ UNCHANGED <<queue, acked>>

Down ==
  /\ up # "down"
  /\ up' = "down" /\ jobs' = NoJobs /\ trigger' = NoTriggers
  /\ run' = [r \in Runs |-> Free] /\ queue' = <<>>
  /\ UNCHANGED acked

\* The lifespan ends: requests are over, shutdown() cancels what it has fired.
Stop ==
  /\ Down
  /\ \A r \in Runs : run[r] # Free => run[r].fired
  /\ UNCHANGED <<disk, faults, excused, intact>>

Crash == Down /\ Fault /\ UNCHANGED <<disk, excused, intact>>

\* The process dies in _save_jobs, which writes the file in place.
DieSaving == Down /\ Fault /\ disk' = Corrupt /\ intact' = FALSE /\ UNCHANGED excused

\* The process dies between the two saves of update_job.
DiePatching(j) ==
  /\ jobs[j] # None
  /\ Down /\ Fault
  /\ disk' = [jobs EXCEPT ![j] = None]
  /\ excused' = excused \cup {j}
  /\ UNCHANGED intact

-------------------------------------------------------------------------------
(* Changes of job definitions *)

\* _save_jobs: an exception is logged, the file is as it was or cut short.
Save(J) ==
  \/ disk' = J /\ UNCHANGED <<faults, intact>>
  \/ Fault /\ disk' \in {disk, Corrupt} /\ intact' = FALSE

\* update_job saves twice; the file keeps what the first one wrote.
SecondSaveFails(j) ==
  Fault /\ disk' = [jobs EXCEPT ![j] = None] /\ intact' = FALSE

Confirm(j, d) ==
  /\ acked' = [acked EXCEPT ![j] = d]
  /\ excused' = excused \ {j}

Excuse(j) ==
  /\ acked' = [acked EXCEPT ![j] = None]
  /\ excused' = excused \cup {j}

\* add_job (POST): a rejected definition is in memory already, and stays there.  One
\* that is not scheduled, disabled or unknown, leaves an old trigger in place.
AddJob(j, d) ==
  /\ up # "down"
  /\ jobs' = [jobs EXCEPT ![j] = d]
  /\ IF Rejected(d)
     THEN Excuse(j) /\ UNCHANGED <<trigger, disk, faults, intact>>
     ELSE /\ trigger' = IF Scheduled(d) THEN [trigger EXCEPT ![j] = d.sched] ELSE trigger
          /\ Save(jobs') /\ Confirm(j, d)
  /\ UNCHANGED <<up, run, queue>>

UpdateJobUnscheduling(j, d) ==
  /\ jobs[j] # None
  /\ jobs' = [jobs EXCEPT ![j] = d]
  /\ trigger' = [trigger EXCEPT ![j] = "none"]
  /\ Save(jobs') /\ Confirm(j, d)
  /\ UNCHANGED <<up, run, queue>>

\* update_job (PATCH): remove_job, then add_job.
UpdateJob(j, d) ==
  /\ jobs[j] # None
  /\ jobs' = [jobs EXCEPT ![j] = d]
  /\ trigger' = [trigger EXCEPT ![j] = IF Scheduled(d) THEN d.sched ELSE "none"]
  /\ IF Rejected(d) THEN Save([jobs EXCEPT ![j] = None]) /\ Excuse(j)
                    ELSE (Save(jobs') \/ SecondSaveFails(j)) /\ Confirm(j, d)
  /\ UNCHANGED <<up, run, queue>>

RemoveJobUnsaved(j) ==
  /\ jobs' = [jobs EXCEPT ![j] = None]
  /\ trigger' = [trigger EXCEPT ![j] = "none"]
  /\ UNCHANGED <<disk, faults, intact>>

\* remove_job of an id that is there.
RemoveJob(j) ==
  /\ jobs' = [jobs EXCEPT ![j] = None]
  /\ trigger' = [trigger EXCEPT ![j] = "none"]
  /\ Save(jobs')

DeleteJob(j) ==
  /\ jobs[j] # None
  /\ RemoveJob(j) /\ Confirm(j, None)
  /\ UNCHANGED <<up, run, queue>>

-------------------------------------------------------------------------------
(* The semaphore *)

Least(m, n) == IF m < n THEN m ELSE n

Active(R) == {r \in Runs : R[r].at \in {"granted", "running"}}

LockedNever == FALSE

\* Semaphore.locked(): no slot is free, or someone is still waiting, an
\* execution that has its slot but has not resumed yet included.
Locked ==
  \/ Cardinality(Active(run)) >= MaxConcurrent
  \/ \E r \in Runs : run[r].at \in {"queue", "granted"}

\* The first n waiting executions get slots; R is `run` without that.
Wake(R, n) ==
  /\ run' = [r \in Runs |-> IF \E m \in 1..n : queue[m] = r
                            THEN [R[r] EXCEPT !.at = "granted"] ELSE R[r]]
  /\ queue' = SubSeq(queue, n + 1, Len(queue))

\* release() wakes one, an acquire that had to wait all that find a slot.
WakeOne(R) == Wake(R, Least(1, Len(queue)))
WakeNone(R) == run' = R /\ UNCHANGED queue
WakeAll(R) == Wake(R, Least(MaxConcurrent - Cardinality(Active(R)), Len(queue)))

-------------------------------------------------------------------------------
(* Executions *)

\* An execution has no identity before it begins: one free slot of Runs is like
\* another.
Unused(r) == run[r] = Free /\ r = CHOOSE q \in Runs : run[q] = Free

\* The scheduler fires: max_instances is 1, and a one-shot job is forgotten.
Fire(j, r) ==
  /\ up = "started" /\ trigger[j] # "none" /\ Unused(r)
  /\ \A q \in Runs : ~(run[q].fired /\ run[q].job = j)
  /\ run' = [run EXCEPT ![r] = [at |-> "fired", job |-> j, def |-> None, fired |-> TRUE]]
  /\ trigger' = [trigger EXCEPT ![j] = IF @ = "in" THEN "none" ELSE @]
  /\ UNCHANGED <<up, jobs, queue, disk, faults, acked, excused, intact>>

\* A one-shot job that comes late (the event loop was busy for a second), or
\* whose earlier execution has not ended, is skipped for good.
FireMissed(j) ==
  /\ up = "started" /\ trigger[j] = "in"
  /\ trigger' = [trigger EXCEPT ![j] = "none"]
  /\ UNCHANGED <<up, jobs, run, queue, disk, faults, acked, excused, intact>>

\* _execute_job_wrapper up to its first await.  The execution keeps the
\* definition it finds now.
Enter(r, j, fired) ==
  LET d == jobs[j]
      now(at) == [at |-> at, job |-> j, def |-> d, fired |-> fired]
      live == d # None /\ d.enabled
  IN
  /\ \/ /\ live => Locked /\ ~d.high           \* nothing to do, or backpressure
        /\ run' = [run EXCEPT ![r] = Free]
        /\ UNCHANGED <<queue, faults>>
     \/ /\ live /\ Locked /\ d.high
        /\ run' = [run EXCEPT ![r] = now("queue")]
        /\ queue' = Append(queue, r)
        /\ UNCHANGED faults
     \/ /\ live /\ ~Locked
        /\ run' = [run EXCEPT ![r] = now("running")]
        /\ UNCHANGED <<queue, faults>>
     \/ /\ live /\ ~Locked /\ Fault          \* create_entry or mark_running raises
        /\ run' = [run EXCEPT ![r] = Free]
        /\ UNCHANGED queue
  /\ UNCHANGED <<up, jobs, trigger, disk, acked, excused, intact>>

Begin(r) == run[r].at = "fired" /\ Enter(r, run[r].job, TRUE)

\* run_job_now (POST .../run): not counted by max_instances.
RunNow(j, r) == jobs[j] # None /\ Unused(r) /\ Enter(r, j, FALSE)

ResumeWakingNone(r) ==
  /\ run[r].at = "granted"
  /\ \/ WakeNone([run EXCEPT ![r].at = "running"]) /\ UNCHANGED faults
     \/ WakeNone([run EXCEPT ![r] = Free]) /\ Fault
  /\ UNCHANGED <<up, jobs, trigger, disk, acked, excused, intact>>

\* acquire returns; the ledger entry is created and running, or that raises.
Resume(r) ==
  /\ run[r].at = "granted"
  /\ \/ WakeAll([run EXCEPT ![r].at = "running"]) /\ UNCHANGED faults
     \/ WakeAll([run EXCEPT ![r] = Free]) /\ Fault
  /\ UNCHANGED <<up, jobs, trigger, disk, acked, excused, intact>>

\* The payload ends, well or badly, and the entry is completed or failed.
\* deleteAfterRun is that of the definition the execution started with, the id
\* may stand for another one by now.
End(r) ==
  LET e == run[r] IN
  /\ e.at = "running"
  /\ WakeOne([run EXCEPT ![r] = Free])
  /\ IF e.def.deleteAfterRun /\ jobs[e.job] # None
     THEN /\ RemoveJob(e.job)
          /\ IF jobs[e.job] = e.def THEN Confirm(e.job, None) ELSE Excuse(e.job)
     ELSE UNCHANGED <<jobs, trigger, disk, faults, acked, excused, intact>>
  /\ UNCHANGED up

\* mark_failed raises: the job is not removed.
EndFails(r) ==
  /\ run[r].at = "running" /\ Fault
  /\ WakeOne([run EXCEPT ![r] = Free])
  /\ UNCHANGED <<up, jobs, trigger, disk, acked, excused, intact>>

Task(r) == Begin(r) \/ Resume(r) \/ End(r)

Next ==
  \/ Start \/ Stop \/ Crash \/ DieSaving
  \/ \E j \in JobIds :
       \/ DiePatching(j) \/ DeleteJob(j) \/ FireMissed(j)
       \/ \E d \in Offered[j] : AddJob(j, d) \/ UpdateJob(j, d)
       \/ \E r \in Runs : Fire(j, r) \/ RunNow(j, r)
  \/ \E r \in Runs : Task(r) \/ EndFails(r)

Spec == Init /\ [][Next]_vars

\* The event loop goes on, and payloads come to an end.
FairSpec == Spec /\ \A r \in Runs : WF_vars(Task(r))

-------------------------------------------------------------------------------
(* Properties. *)

TypeOK ==
  /\ up \in {"down", "started", "dead"}
  /\ jobs \in [JobIds -> Definitions \cup {None}]
  /\ trigger \in [JobIds -> {"none", "in", "every"}]
  /\ disk \in [JobIds -> Definitions \cup {None}] \cup {Corrupt}
  /\ run \in [Runs -> [at : {"free", "fired", "queue", "granted", "running"},
                       job : JobIds \cup {None}, def : Definitions \cup {None},
                       fired : BOOLEAN]]
  /\ ToSet(queue) = {r \in Runs : run[r].at = "queue"}
  /\ \A r \in Runs : run[r].at \in {"queue", "granted", "running"} => run[r].def # None
  /\ faults \in 0..MaxFaults
  /\ acked \in [JobIds -> Definitions \cup {None}]
  /\ excused \subseteq JobIds /\ intact \in BOOLEAN

\* However executions end, fail to begin or wait, no slot is taken twice or lost:
\* an execution waits beside a free slot only while one that was woken before it
\* is about to resume and wake it.
SlotsAccounted ==
  /\ Cardinality(Active(run)) <= MaxConcurrent
  /\ queue # <<>> /\ Cardinality(Active(run)) < MaxConcurrent =>
       \E r \in Runs : run[r].at = "granted"

Recurs(d) == d # None /\ d.enabled /\ d.sched = "every"

\* In a started engine the scheduler and the dictionary agree, through every
\* change, restart and removal by an execution: nothing is scheduled that was
\* removed, and every enabled recurring job is whose schedule the engine makes a
\* trigger of.  Of any other it makes none, confirms it all the same
\* (cron_engine.py:152), and promises nothing here.
ScheduleFollowsJobs ==
  up = "started" => \A j \in JobIds :
    /\ jobs[j] = None => trigger[j] = "none"
    /\ Recurs(jobs[j]) => trigger[j] = "every"

\* Jobs are persistent (cron_engine.py:57): unless saving failed, every job is as
\* it was last confirmed, before and after any restart, save those whose last
\* change was rejected or undone.
ConfirmedSurvives ==
  intact /\ up # "down" => \A j \in JobIds \ excused : jobs[j] = acked[j]

\* Every execution ends, those that wait behind others included.
EveryRunEnds == \A r \in Runs : run[r] # Free ~> run[r] = Free
===============================================================================
