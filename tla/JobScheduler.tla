---------------------------- MODULE JobScheduler ----------------------------
(***************************************************************************)
(* The JobScheduler of core/infrastructure/scaling/workers.py on top of    *)
(* its WorkerPool.  A pass of _scheduler_loop only suspends in its         *)
(* sleep(1): the lock is free, and submit never suspends.  So a pass, with *)
(* every submit it makes, is one step.                                     *)
(***************************************************************************)
EXTENDS WorkerPool

CONSTANTS
  Jobs,          \* the ScheduledJob objects
  JobTask,       \* job.task
  Kind,          \* job.schedule_type
  MaxRuns,       \* job.max_runs, 0 for None (the code tests its truth value)
  FirstRun,      \* job.next_run as given by the client
  MaxScheduled   \* bound: calls of schedule_job

ASSUME SchedulerAssumption ==
  /\ IsFiniteSet(Jobs)
  /\ JobTask \in [Jobs -> Tasks]
  /\ Kind \in [Jobs -> {"once", "interval", "cron", "periodic"}]
  /\ MaxRuns \in [Jobs -> Nat]
  /\ FirstRun \in [Jobs -> {"none", "future", "due"}]
  /\ MaxScheduled \in Nat

VARIABLES
  jobs,           \* self._jobs: the jobs that have been scheduled
  enabled,        \* job.enabled
  nextRun,        \* job.next_run: none, in the future, or due
  runs,           \* job.runs
  scheduledJobs, completedJobs,  \* self.stats
  looping,        \* the scheduler task exists and has not been cancelled
  cancelled       \* history: jobs for which cancel_job returned True

jobVars == <<jobs, enabled, nextRun, runs, scheduledJobs, completedJobs,
             looping, cancelled>>
schedulerVars == <<vars, jobVars>>

SchedulerInit ==
  /\ Init
  /\ jobs = {}
  /\ enabled = [j \in Jobs |-> TRUE]
  /\ nextRun = FirstRun
  /\ runs = [j \in Jobs |-> 0]
  /\ scheduledJobs = 0 /\ completedJobs = 0
  /\ looping = FALSE
  /\ cancelled = {}

-----------------------------------------------------------------------------
StartScheduler ==
  /\ ~looping
  /\ looping' = TRUE
  /\ UNCHANGED <<vars, jobs, enabled, nextRun, runs, scheduledJobs,
                 completedJobs, cancelled>>

StopScheduler ==
  /\ looping
  /\ looping' = FALSE
  /\ UNCHANGED <<vars, jobs, enabled, nextRun, runs, scheduledJobs,
                 completedJobs, cancelled>>

(* Mutated form: scheduling a job again arms it again.                     *)
ScheduleJobArmed(j) ==
  /\ scheduledJobs < MaxScheduled
  /\ scheduledJobs' = scheduledJobs + 1
  /\ jobs' = jobs \cup {j}
  /\ enabled' = [enabled EXCEPT ![j] = TRUE]
  /\ nextRun' = [nextRun EXCEPT ![j] = "due"]
  /\ UNCHANGED <<vars, runs, completedJobs, looping, cancelled>>

(* Mutated form: a ONCE job without a next_run is not given one.           *)
ScheduleJobUnset(j) ==
  /\ scheduledJobs < MaxScheduled
  /\ scheduledJobs' = scheduledJobs + 1
  /\ jobs' = jobs \cup {j}
  /\ nextRun' = [nextRun EXCEPT ![j] = IF Kind[j] = "interval" THEN "future" ELSE @]
  /\ UNCHANGED <<vars, enabled, runs, completedJobs, looping, cancelled>>

(* The same job object may be scheduled again.                             *)
ScheduleJob(j) ==
  /\ scheduledJobs < MaxScheduled
  /\ scheduledJobs' = scheduledJobs + 1
  /\ jobs' = jobs \cup {j}
  /\ nextRun' = [nextRun EXCEPT ![j] =
       CASE Kind[j] = "once" /\ @ = "none" -> "due"
         [] Kind[j] = "interval"           -> "future"
         [] OTHER                          -> @]
  /\ UNCHANGED <<vars, enabled, runs, completedJobs, looping, cancelled>>

CancelJob(j) ==
  /\ j \in jobs
  /\ enabled' = [enabled EXCEPT ![j] = FALSE]
  /\ cancelled' = cancelled \cup {j}
  /\ UNCHANGED <<vars, jobs, nextRun, runs, scheduledJobs, completedJobs, looping>>

(* The clock passes the next_run of a job.                                 *)
ComesDue(j) ==
  /\ nextRun[j] = "future"
  /\ nextRun' = [nextRun EXCEPT ![j] = "due"]
  /\ UNCHANGED <<vars, jobs, enabled, runs, scheduledJobs, completedJobs,
                 looping, cancelled>>

-----------------------------------------------------------------------------
(* Mutated form: a cancelled job is still picked.                          *)
DueIfCancelled ==
  {j \in jobs : /\ nextRun[j] = "due"
                /\ MaxRuns[j] = 0 \/ runs[j] < MaxRuns[j]}

(* Mutated form: one run more than max_runs.                               *)
DueOnceMore ==
  {j \in jobs : /\ enabled[j]
                /\ nextRun[j] = "due"
                /\ MaxRuns[j] = 0 \/ runs[j] <= MaxRuns[j]}

Due ==
  {j \in jobs : /\ enabled[j]
                /\ nextRun[j] = "due"
                /\ MaxRuns[j] = 0 \/ runs[j] < MaxRuns[j]}

(* worker_pool.submit for every job of a pass: Push, once for each.        *)
PushAll(due) ==
  LET n == Cardinality(due)
      place == CHOOSE f \in [due -> 1..n] :
                 \A i, j \in due : f[i] = f[j] => i = j
  IN
  /\ queue' = queue \cup {<<JobTask[j], total + place[j]>> : j \in due}
  /\ total' = total + n
  /\ queued' = Cardinality(queue')
  /\ maxQueued' = Larger(maxQueued, queued')
  /\ event' = TRUE

(* One pass of the loop that finds something to run.                       *)
Pass ==
  /\ looping
  /\ Due # {}
  /\ PushAll(Due)
  /\ runs' = [j \in Jobs |-> IF j \in Due THEN runs[j] + 1 ELSE runs[j]]
  /\ nextRun' = [j \in Jobs |-> IF j \in Due /\ Kind[j] = "interval"
                                  THEN "future" ELSE nextRun[j]]
  /\ enabled' = [j \in Jobs |-> enabled[j] /\ ~(j \in Due /\ Kind[j] = "once")]
  /\ completedJobs' = completedJobs + Cardinality({j \in Due : Kind[j] = "once"})
  /\ UNCHANGED <<delayed, results, running, stopping, workerVars, completed,
                 failed, retried, active, failures, jobs, scheduledJobs,
                 looping, cancelled>>

-----------------------------------------------------------------------------
(* The pool's own steps; the scheduler is its only client.                 *)
PoolStep ==
  /\ \/ \E w \in Workers : WorkerStep(w)
     \/ \E t \in Tasks : TimePasses(t)
     \/ Stop
  /\ UNCHANGED jobVars

SchedulerStep ==
  \/ StartScheduler \/ StopScheduler \/ Pass
  \/ \E j \in Jobs : ScheduleJob(j) \/ CancelJob(j) \/ ComesDue(j)

SchedulerSpec ==
  SchedulerInit /\ [][PoolStep \/ SchedulerStep]_schedulerVars

(* The loop wakes from its sleep, the clock advances, the workers run.     *)
FairSchedulerSpec ==
  /\ SchedulerSpec
  /\ WF_schedulerVars(Pass)
  /\ \A j \in Jobs : WF_schedulerVars(ComesDue(j))
  /\ \A w \in Workers : WF_schedulerVars(Progress(w) /\ UNCHANGED jobVars)

-----------------------------------------------------------------------------
(* The shape of the scheduler's part of the state.                         *)
JobsTypeOK ==
  /\ jobs \subseteq Jobs
  /\ enabled \in [Jobs -> BOOLEAN]
  /\ nextRun \in [Jobs -> {"none", "future", "due"}]
  /\ runs \in [Jobs -> Nat]
  /\ scheduledJobs \in 0..MaxScheduled
  /\ completedJobs \in 0..Cardinality({j \in Jobs : Kind[j] = "once"})
  /\ looping \in BOOLEAN
  /\ cancelled \subseteq jobs

(* max_runs is a limit on the submits of a job, and a ONCE job is submitted *)
(* once, however often either is scheduled again or finds its run due.     *)
RunsBounded ==
  \A j \in Jobs : /\ MaxRuns[j] # 0 => runs[j] <= MaxRuns[j]
                  /\ Kind[j] = "once" => runs[j] <= 1

(* After cancel_job has returned True the job is never submitted again,    *)
(* not by a pass under way and not when it is scheduled another time.      *)
CancelledStaysQuiet ==
  [][\A j \in cancelled : runs'[j] = runs[j]]_schedulerVars

(* Every submit the pool counts is a retry or one run of a job, also when  *)
(* executions of one Task overlap: pool and scheduler statistics agree.    *)
RunsMade == UNION {{j} \X (1..runs[j]) : j \in Jobs}
SubmitsExplained == total = retried + Cardinality(RunsMade)

(* The runs of a job are counted once each and stay within its limits.     *)
RunsCounted == RunsBounded /\ SubmitsExplained

(* What makes these inductive: a ONCE job is disarmed by its run and       *)
(* counted as completed by it, and a cancelled job is never armed again.   *)
OnceDisarmed  == \A j \in Jobs : Kind[j] = "once" /\ runs[j] > 0 => ~enabled[j]
OnceCompleted ==
  completedJobs = Cardinality({j \in Jobs : Kind[j] = "once" /\ runs[j] > 0})
CancelledOff  == \A j \in cancelled : ~enabled[j]

JobsInv == /\ JobsTypeOK /\ RunsCounted
           /\ OnceDisarmed /\ OnceCompleted /\ CancelledOff

(* A scheduled ONCE or INTERVAL job is submitted in the end and its task   *)
(* gets a final result, unless it is cancelled or something is stopped.    *)
JobsAreRun ==
  \A j \in Jobs :
    j \in jobs /\ Kind[j] \in {"once", "interval"} ~>
      Settled(JobTask[j]) \/ j \in cancelled \/ ~looping \/ stopping

=============================================================================
