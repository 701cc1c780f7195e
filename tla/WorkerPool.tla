----------------------------- MODULE WorkerPool -----------------------------
(***************************************************************************)
(* The asyncio worker pool of core/infrastructure/scaling/workers.py:      *)
(* clients submit Task objects to a priority heap, worker coroutines pop   *)
(* them, run their function, and record a JobResult under the task's id.   *)
(*                                                                         *)
(* Atomicity.  A coroutine keeps the event loop until it really suspends.  *)
(* No body of `async with self._lock` suspends, so the lock is always free *)
(* when it is asked for and submit, the pop of a task and the recording of *)
(* a result are single steps.  The suspension points are the wait for      *)
(* _tasks_event, the sleep until scheduled_for, the task function, and a   *)
(* coroutine callback: one value of pc for each.                           *)
(***************************************************************************)
EXTENDS Naturals, FiniteSets

CONSTANTS
  Workers,      \* the worker coroutines started by start()
  Tasks,        \* the Task objects
  Rank,         \* the heap order of __lt__: priority first, then created_at
  MaxRetries,   \* task.max_retries
  Awaited,      \* tasks with a coroutine callback, which suspends the worker
  TimeLimited,  \* tasks that may end with a TimeoutError, their own or wait_for's
  Cancellable,  \* tasks whose function can surface a CancelledError
  MaxFailures   \* bound: how often the function of one task raises

ASSUME PoolAssumption ==
  /\ IsFiniteSet(Workers)
  /\ Rank \in [Tasks -> Nat]
  /\ MaxRetries \in [Tasks -> Nat]
  /\ Awaited \subseteq Tasks
  /\ TimeLimited \subseteq Tasks
  /\ Cancellable \subseteq Tasks
  /\ MaxFailures \in Nat

VARIABLES
  queue,      \* self.queue: heap entries <<task, n>>, n the ordinal of the submit
  delayed,    \* tasks whose scheduled_for lies in the future
  results,    \* self._results: status of the last JobResult of each task
  running,    \* self._running: ids of the tasks being executed
  event,      \* self._tasks_event
  stopping,   \* self._stop_event
  pc,         \* where each worker coroutine is suspended
  entry,      \* the heap entry each worker holds
  verdict,    \* the status a worker is about to record
  total, completed, failed, retried, active, queued, maxQueued,  \* self.stats
  failures    \* history: how often the function of each task has raised

statVars   == <<total, completed, failed, retried, active, queued, maxQueued>>
workerVars == <<pc, entry, verdict>>
vars == <<queue, delayed, results, running, event, stopping, workerVars,
          statVars, failures>>

None == "none"
NoEntry == <<>>
Status == {"completed", "failed", "retrying"}
Entries == Tasks \X Nat

TaskOf(e) == e[1]

-----------------------------------------------------------------------------
Init ==
  /\ queue = {}
  /\ delayed = {}
  /\ results = [t \in Tasks |-> None]
  /\ running = {}
  /\ event = FALSE
  /\ stopping = FALSE
  /\ pc = [w \in Workers |-> "loop"]
  /\ entry = [w \in Workers |-> NoEntry]
  /\ verdict = [w \in Workers |-> None]
  /\ total = 0 /\ completed = 0 /\ failed = 0 /\ retried = 0
  /\ active = 0 /\ queued = 0 /\ maxQueued = 0
  /\ failures = [t \in Tasks |-> 0]

-----------------------------------------------------------------------------
(* submit: push under the lock, refresh the queue statistics, set the      *)
(* event.  Used by the clients, by the retry path and by the scheduler.    *)

Larger(a, b) == IF a >= b THEN a ELSE b

(* Mutated form: the event is not set.                                     *)
PushSilently(t) ==
  /\ queue' = queue \cup {<<t, total + 1>>}
  /\ total' = total + 1
  /\ queued' = Cardinality(queue')
  /\ maxQueued' = Larger(maxQueued, queued')
  /\ UNCHANGED event

Push(t) ==
  /\ queue' = queue \cup {<<t, total + 1>>}
  /\ total' = total + 1
  /\ queued' = Cardinality(queue')
  /\ maxQueued' = Larger(maxQueued, queued')
  /\ event' = TRUE

Busy == {w \in Workers : pc[w] \in {"sleeping", "executing", "callback", "dead"}}
Queued(t) == \E e \in queue : TaskOf(e) = t
Held(t)   == \E w \in Busy : TaskOf(entry[w]) = t
Submitted(t) == Queued(t) \/ Held(t) \/ results[t] # None

(* A client submits a Task object once, possibly with a start time.        *)
Submit(t) ==
  /\ ~Submitted(t)
  /\ Push(t)
  /\ delayed' \in {delayed, delayed \cup {t}}
  /\ UNCHANGED <<results, running, stopping, workerVars, completed, failed,
                 retried, active, failures>>

(* stop() raises the stop flag, then gathers the workers.                  *)
Stop ==
  /\ ~stopping
  /\ stopping' = TRUE
  /\ UNCHANGED <<queue, delayed, results, running, event, workerVars,
                 statVars, failures>>

(* The clock passes the scheduled_for of a task.                           *)
TimePasses(t) ==
  /\ t \in delayed
  /\ delayed' = delayed \ {t}
  /\ UNCHANGED <<queue, results, running, event, stopping, workerVars,
                 statVars, failures>>

-----------------------------------------------------------------------------
(* The loop of _worker.                                                    *)

First(e) == \A f \in queue : Rank[TaskOf(e)] <= Rank[TaskOf(f)]

TakeTask(w) ==
  /\ pc[w] = "loop"
  /\ ~stopping
  /\ \E e \in queue :
       /\ First(e)
       /\ queue' = queue \ {e}
       /\ running' = running \cup {TaskOf(e)}
       /\ entry' = [entry EXCEPT ![w] = e]
       /\ pc' = [pc EXCEPT ![w] = IF TaskOf(e) \in delayed
                                    THEN "sleeping" ELSE "executing"]
  /\ active' = active + 1
  /\ queued' = Cardinality(queue')
  /\ UNCHANGED <<delayed, results, event, stopping, verdict, total, completed,
                 failed, retried, maxQueued, failures>>

(* The queue was found empty: clear the event and wait for it.             *)
Idle(w) ==
  /\ pc[w] = "loop"
  /\ ~stopping
  /\ queue = {}
  /\ event' = FALSE
  /\ pc' = [pc EXCEPT ![w] = "waiting"]
  /\ UNCHANGED <<queue, delayed, results, running, stopping, entry, verdict,
                 statVars, failures>>

(* Mutated form: an event that resets when it wakes a waiter.              *)
NotifiedAutoReset(w) ==
  /\ pc[w] = "waiting"
  /\ event
  /\ event' = FALSE
  /\ pc' = [pc EXCEPT ![w] = "loop"]
  /\ UNCHANGED <<queue, delayed, results, running, stopping, entry,
                 verdict, statVars, failures>>

(* The wait ends because the event is set ...                              *)
Notified(w) ==
  /\ pc[w] = "waiting"
  /\ event
  /\ pc' = [pc EXCEPT ![w] = "loop"]
  /\ UNCHANGED <<queue, delayed, results, running, event, stopping, entry,
                 verdict, statVars, failures>>

(* ... or because one second has passed.                                   *)
WaitTimesOut(w) ==
  /\ pc[w] = "waiting"
  /\ ~event
  /\ pc' = [pc EXCEPT ![w] = "loop"]
  /\ UNCHANGED <<queue, delayed, results, running, event, stopping, entry,
                 verdict, statVars, failures>>

LeaveLoop(w) ==
  /\ pc[w] = "loop"
  /\ stopping
  /\ pc' = [pc EXCEPT ![w] = "exited"]
  /\ UNCHANGED <<queue, delayed, results, running, event, stopping, entry,
                 verdict, statVars, failures>>

-----------------------------------------------------------------------------
(* _execute_task, and what _worker does with the result it returns.        *)

(* scheduled_for has passed, unless another execution of the same Task     *)
(* object has failed during the sleep and moved it.                        *)
Wake(w) ==
  LET t == TaskOf(entry[w])
      moved == \/ Queued(t)
               \/ \E v \in Busy \ {w} : TaskOf(entry[v]) = t
  IN
  /\ pc[w] = "sleeping"
  /\ pc' = [pc EXCEPT ![w] = "executing"]
  /\ delayed' \in {delayed \ {t}} \cup {d \in {delayed} : moved}
  /\ UNCHANGED <<queue, results, running, event, stopping, entry, verdict,
                 statVars, failures>>

(* Mutated form: a retry is counted neither as completed nor as failed.    *)
RecordUncounted(w, status) ==
  LET t == TaskOf(entry[w]) IN
  /\ results' = [results EXCEPT ![t] = status]
  /\ running' = running \ {t}
  /\ active' = active - 1
  /\ IF status = "completed"
       THEN completed' = completed + 1 /\ UNCHANGED failed
       ELSE /\ failed' = IF status = "failed" THEN failed + 1 ELSE failed
            /\ UNCHANGED completed
  /\ pc' = [pc EXCEPT ![w] = "loop"]
  /\ entry' = [entry EXCEPT ![w] = NoEntry]
  /\ verdict' = [verdict EXCEPT ![w] = None]

(* Mutated form: the worker is subtracted by two layers.                   *)
RecordTwice(w, status) ==
  LET t == TaskOf(entry[w]) IN
  /\ results' = [results EXCEPT ![t] = status]
  /\ running' = running \ {t}
  /\ active' = active - 2
  /\ IF status = "completed"
       THEN completed' = completed + 1 /\ UNCHANGED failed
       ELSE failed' = failed + 1 /\ UNCHANGED completed
  /\ pc' = [pc EXCEPT ![w] = "loop"]
  /\ entry' = [entry EXCEPT ![w] = NoEntry]
  /\ verdict' = [verdict EXCEPT ![w] = None]

(* Store the result, leave _running and update the statistics.             *)
Record(w, status) ==
  LET t == TaskOf(entry[w]) IN
  /\ results' = [results EXCEPT ![t] = status]
  /\ running' = running \ {t}
  /\ active' = active - 1
  /\ IF status = "completed"
       THEN completed' = completed + 1 /\ UNCHANGED failed
       ELSE failed' = failed + 1 /\ UNCHANGED completed
  /\ pc' = [pc EXCEPT ![w] = "loop"]
  /\ entry' = [entry EXCEPT ![w] = NoEntry]
  /\ verdict' = [verdict EXCEPT ![w] = None]

(* A result with a coroutine callback is recorded when the callback ends.  *)
Conclude(w, status) ==
  IF TaskOf(entry[w]) \in Awaited
    THEN /\ pc' = [pc EXCEPT ![w] = "callback"]
         /\ verdict' = [verdict EXCEPT ![w] = status]
         /\ UNCHANGED <<results, running, active, completed, failed, entry>>
    ELSE Record(w, status)

Succeed(w) ==
  /\ pc[w] = "executing"
  /\ Conclude(w, "completed")
  /\ UNCHANGED <<queue, delayed, event, stopping, total, retried, queued,
                 maxQueued, failures>>

(* Mutated form: a task that timed out is submitted again.                 *)
TimeOutResubmits(w) ==
  /\ pc[w] = "executing"
  /\ TaskOf(entry[w]) \in TimeLimited
  /\ failures[TaskOf(entry[w])] < MaxFailures
  /\ failures' = [failures EXCEPT ![TaskOf(entry[w])] = @ + 1]
  /\ Push(TaskOf(entry[w]))
  /\ Record(w, "failed")
  /\ UNCHANGED <<delayed, stopping, retried>>

(* asyncio.TimeoutError: no retry and no error callback.                   *)
TimeOut(w) ==
  /\ pc[w] = "executing"
  /\ TaskOf(entry[w]) \in TimeLimited
  /\ Record(w, "failed")
  /\ UNCHANGED <<queue, delayed, event, stopping, total, retried, queued,
                 maxQueued, failures>>

(* The retry count is read from the JobResult created for this execution,  *)
(* where it is 0.                                                          *)
RetriesSoFar == 0
MayRetry(t) == RetriesSoFar < MaxRetries[t]

Raises(w) ==
  /\ pc[w] = "executing"
  /\ failures[TaskOf(entry[w])] < MaxFailures
  /\ failures' = [failures EXCEPT ![TaskOf(entry[w])] = @ + 1]

Retry(w) ==
  LET t == TaskOf(entry[w]) IN
  /\ Raises(w)
  /\ MayRetry(t)
  /\ retried' = retried + 1
  /\ delayed' = delayed \cup {t}
  /\ Push(t)
  /\ Record(w, "retrying")
  /\ UNCHANGED stopping

GiveUp(w) ==
  /\ Raises(w)
  /\ ~MayRetry(TaskOf(entry[w]))
  /\ Conclude(w, "failed")
  /\ UNCHANGED <<queue, delayed, event, stopping, total, retried, queued,
                 maxQueued>>

CallbackEnds(w) ==
  /\ pc[w] = "callback"
  /\ Record(w, verdict[w])
  /\ UNCHANGED <<queue, delayed, event, stopping, total, retried, queued,
                 maxQueued, failures>>

(* CancelledError is no Exception: it leaves _execute_task and _worker,    *)
(* and nothing after it in the loop body runs.                             *)
Die(w) ==
  /\ pc[w] \in {"executing", "callback"}
  /\ TaskOf(entry[w]) \in Cancellable
  /\ pc' = [pc EXCEPT ![w] = "dead"]
  /\ UNCHANGED <<queue, delayed, results, running, event, stopping, entry,
                 verdict, statVars, failures>>

-----------------------------------------------------------------------------
WorkerStep(w) ==
  \/ TakeTask(w) \/ Idle(w) \/ Notified(w) \/ WaitTimesOut(w) \/ LeaveLoop(w)
  \/ Wake(w) \/ Succeed(w) \/ TimeOut(w) \/ Retry(w) \/ GiveUp(w)
  \/ CallbackEnds(w) \/ Die(w)

ClientStep(t) == Submit(t) \/ TimePasses(t)

Next ==
  \/ \E w \in Workers : WorkerStep(w)
  \/ \E t \in Tasks : ClientStep(t)
  \/ Stop

Spec == Init /\ [][Next]_vars

(* Every coroutine that can run does run, a task function and a callback   *)
(* end, and a sleep is over some day.  The one-second poll of the event is *)
(* taken for granted only once the pool is stopping: until then it is the  *)
(* event that must wake the workers.                                       *)
Progress(w) ==
  \/ TakeTask(w) \/ Idle(w) \/ Notified(w) \/ LeaveLoop(w) \/ Wake(w)
  \/ Succeed(w) \/ TimeOut(w) \/ Retry(w) \/ GiveUp(w) \/ CallbackEnds(w)
  \/ (stopping /\ WaitTimesOut(w))

FairSpec == Spec /\ \A w \in Workers : WF_vars(Progress(w))

-----------------------------------------------------------------------------
(* The shape of the state.                                                 *)
TypeOK ==
  /\ queue \subseteq Entries /\ IsFiniteSet(queue)
  /\ delayed \subseteq Tasks
  /\ results \in [Tasks -> Status \cup {None}]
  /\ running \subseteq Tasks
  /\ event \in BOOLEAN /\ stopping \in BOOLEAN
  /\ pc \in [Workers -> {"loop", "waiting", "sleeping", "executing",
                         "callback", "dead", "exited"}]
  /\ entry \in [Workers -> Entries \cup {NoEntry}]
  /\ verdict \in [Workers -> {"completed", "failed", None}]
  /\ total \in Nat /\ completed \in Nat /\ failed \in Nat /\ retried \in Nat
  /\ active \in Nat /\ queued \in Nat /\ maxQueued \in Nat
  /\ failures \in [Tasks -> Nat]

Settled(t) == results[t] \in {"completed", "failed"}

(* Every submit, a client's or a retry's, is accounted for exactly once:   *)
(* still on the heap, held by a worker (one that died holding it too), or  *)
(* counted as completed or failed, so the figures of get_stats add up.     *)
Accounting ==
  /\ active = Cardinality(Busy)
  /\ queued = Cardinality(queue)
  /\ total = queued + active + completed + failed

(* No lost wakeup: between the pop that finds nothing and the clearing of  *)
(* the event no submit can slip in, so a heap with tasks on it always has  *)
(* the event set and a worker never sleeps its poll out beside it.         *)
EventCoversQueue == queue # {} => event

(* What makes the two above inductive: ordinals on the heap are in the     *)
(* past, a busy worker holds an entry, and one in a callback has a verdict. *)
Fresh        == \A e \in queue : e[2] <= total
HoldsEntry   == \A w \in Busy : entry[w] \in Entries
VerdictReady == \A w \in Workers :
                  pc[w] = "callback" => verdict[w] \in {"completed", "failed"}

PoolInv == /\ TypeOK /\ Accounting /\ EventCoversQueue
           /\ Fresh /\ HoldsEntry /\ VerdictReady

(* A submitted Task is in exactly one place until it is settled: a retry   *)
(* never runs beside the execution it retries, a task reported as being    *)
(* retried is never forgotten, and one that is settled never comes back.   *)
OnePlace ==
  /\ \A e, f \in queue : TaskOf(e) = TaskOf(f) => e = f
  /\ \A v, w \in Busy : TaskOf(entry[v]) = TaskOf(entry[w]) => v = w
  /\ \A t \in Tasks : ~(Queued(t) /\ Held(t))
  /\ \A t \in Tasks : results[t] = "retrying" => Queued(t) \/ Held(t)
  /\ \A t \in Tasks : Settled(t) => ~Queued(t) /\ ~Held(t)

(* _running names exactly the tasks held by workers: the early discard of  *)
(* one execution never hides another one.                                  *)
RunningIsHeld == running = {TaskOf(entry[w]) : w \in Busy}

(* Where the tasks are, and where _running says they are.                  *)
Placement == OnePlace /\ RunningIsHeld

(* The result of a settled task is never replaced by a later one.          *)
SettledForGood ==
  [][\A t \in Tasks : Settled(t) => results'[t] = results[t]]_vars

(* A worker died with the task, or no worker is left.                      *)
Lost(t) == \/ \E w \in Workers : pc[w] = "dead" /\ TaskOf(entry[w]) = t
           \/ \A w \in Workers : pc[w] = "dead"

(* As long as the pool is not stopped every submitted task is settled in   *)
(* the end, unless its own function has surfaced a CancelledError: workers *)
(* are woken by the event and without the poll, the death of one worker    *)
(* costs no other task anything, and a function that raises only finitely  *)
(* often (MaxFailures) is retried until it ends.                           *)
TasksSettle ==
  \A t \in Tasks : Submitted(t) ~> (Settled(t) \/ stopping \/ Lost(t))

(* stop() returns: every worker leaves its loop, however it waits.         *)
StopReturns ==
  stopping ~> \A w \in Workers : pc[w] \in {"exited", "dead"}

(* Tasks settle while the pool runs, and it stops.                         *)
PoolLives == TasksSettle /\ StopReturns

(* max_retries bounds the retries: a task is executed at most 1 +          *)
(* max_retries times, so it raises at most that often.                     *)
RetriesBounded == \A t \in Tasks : failures[t] <= MaxRetries[t] + 1


=============================================================================
