-------------------------- MODULE WorkerPool_proofs --------------------------
(***************************************************************************)
(* Of the worker pool, for every set of workers and tasks: type            *)
(* correctness, the accounting of the statistics, the absence of lost      *)
(* wakeups. Of the scheduler above it: the limits on the runs of a job,    *)
(* the agreement of the two sets of statistics, and that the guarantees of *)
(* the pool survive a client that submits several tasks in one step.       *)
(***************************************************************************)
EXTENDS JobScheduler, TLAPS, FiniteSetTheorems, FunctionTheorems

(* Busy is a finite set, so its cardinality is a natural number.           *)
LEMMA BusyFinite ==
  /\ IsFiniteSet(Busy) /\ Cardinality(Busy) \in Nat
  /\ IsFiniteSet(Busy)' /\ Cardinality(Busy)' \in Nat
<1>1. Busy \in SUBSET Workers /\ Busy' \in SUBSET Workers
  BY DEF Busy
<1> QED
  BY <1>1, PoolAssumption, FS_Subset, FS_CardinalityType DEF PoolAssumption

(* A worker that takes a task becomes busy.                                *)
LEMMA BusyTake ==
  ASSUME TypeOK, NEW w \in Workers, w \notin Busy,
         NEW p \in {"sleeping", "executing"}, pc' = [pc EXCEPT ![w] = p]
  PROVE  Busy' = Busy \cup {w} /\ Cardinality(Busy)' = Cardinality(Busy) + 1
<1>1. Busy' = Busy \cup {w}
  BY DEF Busy, TypeOK
<1> QED
  BY <1>1, BusyFinite, FS_AddElement

(* A worker that records a result is busy no more.                         *)
LEMMA BusyLeave ==
  ASSUME TypeOK, NEW w \in Busy, pc' = [pc EXCEPT ![w] = "loop"]
  PROVE  /\ Busy' = Busy \ {w} /\ Cardinality(Busy)' = Cardinality(Busy) - 1
         /\ Cardinality(Busy) > 0
<1>1. Busy' = Busy \ {w}
  BY DEF Busy, TypeOK
<1> QED
  BY <1>1, BusyFinite, FS_RemoveElement

(* A worker that stays busy, or stays idle, leaves Busy alone.             *)
LEMMA BusyKeep ==
  ASSUME TypeOK, NEW w \in Workers,
         NEW p \in {"loop", "waiting", "sleeping", "executing", "callback",
                    "dead", "exited"},
         pc' = [pc EXCEPT ![w] = p],
         w \in Busy <=> p \in {"sleeping", "executing", "callback", "dead"}
  PROVE  Busy' = Busy
BY DEF Busy, TypeOK

(* What submit does to the heap, the event and the counters.               *)
LEMMA PushAdds ==
  ASSUME PoolInv, NEW t \in Tasks, Push(t)
  PROVE  /\ queue' \subseteq Entries /\ IsFiniteSet(queue')
         /\ Fresh' /\ event' = TRUE
         /\ total' = total + 1 /\ queued' = queued + 1
         /\ queued' = Cardinality(queue)' /\ maxQueued' \in Nat
<1> DEFINE e == <<t, total + 1>>
<1>1. e \notin queue /\ IsFiniteSet(queue)
  BY DEF Fresh, PoolInv, TypeOK
<1>2. e \in Entries /\ queue' = queue \cup {e}
  BY DEF Entries, PoolInv, TypeOK, Push
<1>3. IsFiniteSet(queue') /\ Cardinality(queue') = Cardinality(queue) + 1
  <2> HIDE DEF e
  <2> QED
    BY <1>1, <1>2, FS_AddElement
<1> USE DEF PoolInv, TypeOK, Push
<1>4. Fresh'
  <2> SUFFICES ASSUME NEW f \in queue' PROVE f[2] <= total'
    BY DEF Fresh
  <2>1. CASE f \in queue
    BY <2>1 DEF Fresh, Entries
  <2>2. CASE f = e
    BY <2>2
  <2> QED
    BY <1>2, <2>1, <2>2
<1>5. queued = Cardinality(queue) /\ queued' = Cardinality(queue')
  BY DEF Accounting
<1>6. maxQueued' \in Nat
  BY <1>3, <1>5 DEF Larger
<1> QED
  BY <1>2, <1>3, <1>4, <1>5, <1>6

(* What recording a result does to the worker and to the counters.         *)
LEMMA RecordFrees ==
  ASSUME PoolInv, NEW w \in Busy, NEW status \in Status, Record(w, status)
  PROVE  /\ TaskOf(entry[w]) \in Tasks
         /\ results' \in [Tasks -> Status \cup {None}]
         /\ running' \subseteq Tasks
         /\ pc' \in [Workers -> {"loop", "waiting", "sleeping", "executing",
                                 "callback", "dead", "exited"}]
         /\ entry' \in [Workers -> Entries \cup {NoEntry}]
         /\ verdict' \in [Workers -> {"completed", "failed", None}]
         /\ HoldsEntry' /\ VerdictReady'
         /\ active' = Cardinality(Busy)' /\ active' = active - 1 /\ active' \in Nat
         /\ completed' \in Nat /\ failed' \in Nat
         /\ completed' + failed' = completed + failed + 1
<1> USE DEF PoolInv, TypeOK
<1>1. entry[w] \in Entries /\ w \in Workers
  BY DEF HoldsEntry, Busy
<1>2. TaskOf(entry[w]) \in Tasks
  BY <1>1 DEF TaskOf, Entries
<1>3. pc' = [pc EXCEPT ![w] = "loop"] /\ Busy' = Busy \ {w}
      /\ Cardinality(Busy)' = Cardinality(Busy) - 1 /\ Cardinality(Busy) > 0
  BY BusyLeave DEF Record
<1>4. active' = Cardinality(Busy)' /\ active' = active - 1 /\ active' \in Nat
  BY <1>3, BusyFinite DEF Record, Accounting
<1>5. HoldsEntry'
  BY <1>1, <1>3 DEF HoldsEntry, Record, Busy
<1>6. VerdictReady'
  BY <1>1, <1>3 DEF VerdictReady, Record
<1>7. /\ completed' \in Nat /\ failed' \in Nat
      /\ completed' + failed' = completed + failed + 1
  BY DEF Record
<1>8. results' \in [Tasks -> Status \cup {None}] /\ running' \subseteq Tasks
  BY <1>2 DEF Record
<1>9. /\ entry' \in [Workers -> Entries \cup {NoEntry}]
      /\ verdict' \in [Workers -> {"completed", "failed", None}]
      /\ pc' \in [Workers -> {"loop", "waiting", "sleeping", "executing",
                              "callback", "dead", "exited"}]
  BY <1>3 DEF Record
<1> QED
  BY <1>2, <1>4, <1>5, <1>6, <1>7, <1>8, <1>9

(* The first state satisfies the inductive invariant.                      *)
LEMMA InitPool == Init => PoolInv
<1> SUFFICES ASSUME Init PROVE PoolInv
  OBVIOUS
<1>1. Busy = {}
  BY DEF Busy, Init
<1>2. Cardinality(Busy) = 0 /\ Cardinality(queue) = 0 /\ IsFiniteSet(queue)
  BY <1>1, FS_EmptySet DEF Init
<1>3. TypeOK
  BY <1>2 DEF Init, TypeOK, NoEntry, None
<1>4. Accounting
  BY <1>2 DEF Init, Accounting
<1>5. EventCoversQueue /\ Fresh /\ HoldsEntry /\ VerdictReady
  BY <1>1 DEF Init, EventCoversQueue, Fresh, HoldsEntry, VerdictReady
<1> QED
  BY <1>3, <1>4, <1>5 DEF PoolInv

(* The steps of clients, of stop and of the clock.                         *)
LEMMA ClientKeepsPool ==
  ASSUME PoolInv, Stop \/ \E t \in Tasks : ClientStep(t)
  PROVE  PoolInv'
<1>1. ASSUME NEW t \in Tasks, Submit(t) PROVE PoolInv'
  <2>1. Push(t) /\ delayed' \subseteq Tasks /\ Busy' = Busy
    BY <1>1 DEF Submit, PoolInv, TypeOK, workerVars, Busy
  <2> DEFINE pushed == /\ queue' \subseteq Entries /\ IsFiniteSet(queue')
                       /\ event' = TRUE /\ total' = total + 1
                       /\ queued' = queued + 1 /\ queued' = Cardinality(queue)'
                       /\ maxQueued' \in Nat
  <2>0. pushed
    BY <1>1, <2>1, PushAdds
  <2>2. TypeOK'
    BY <1>1, <2>0, <2>1 DEF Submit, PoolInv, TypeOK, workerVars
  <2>3. Accounting'
    BY <1>1, <2>0, <2>1 DEF Submit, PoolInv, TypeOK, Accounting, workerVars
  <2>4. EventCoversQueue' /\ Fresh'
    BY <2>1, PushAdds DEF EventCoversQueue
  <2>5. HoldsEntry' /\ VerdictReady'
    BY <1>1, <2>1 DEF Submit, workerVars, PoolInv, HoldsEntry, VerdictReady
  <2> QED
    BY <2>2, <2>3, <2>4, <2>5 DEF PoolInv
<1>2. ASSUME \/ Stop
             \/ \E t \in Tasks : TimePasses(t)
      PROVE PoolInv'
  <2> USE DEF TimePasses, Stop, workerVars, statVars
  <2>1. TypeOK'
    BY <1>2 DEF PoolInv, TypeOK
  <2>2. Accounting' /\ EventCoversQueue' /\ Fresh' /\ HoldsEntry' /\ VerdictReady'
    BY <1>2 DEF PoolInv, Accounting, EventCoversQueue, Fresh, HoldsEntry,
                VerdictReady, Busy
  <2> QED
    BY <2>1, <2>2 DEF PoolInv
<1> QED
  BY <1>1, <1>2 DEF ClientStep

(* The pop of a task.                                                      *)
LEMMA TakeKeepsPool ==
  ASSUME PoolInv, NEW w \in Workers, TakeTask(w)
  PROVE  PoolInv'
<1>1. PICK e \in queue :
        /\ queue' = queue \ {e}
        /\ running' = running \cup {TaskOf(e)}
        /\ entry' = [entry EXCEPT ![w] = e]
        /\ pc' = [pc EXCEPT ![w] = IF TaskOf(e) \in delayed
                                     THEN "sleeping" ELSE "executing"]
  BY DEF TakeTask
<1>2. e \in Entries /\ TaskOf(e) \in Tasks /\ w \notin Busy /\ IsFiniteSet(queue)
  BY DEF PoolInv, TypeOK, Entries, TaskOf, TakeTask, Busy
<1>3. Busy' = Busy \cup {w} /\ Cardinality(Busy)' = Cardinality(Busy) + 1
  BY <1>1, <1>2, BusyTake DEF PoolInv
<1>4. /\ IsFiniteSet(queue') /\ Cardinality(queue') = Cardinality(queue) - 1
      /\ Cardinality(queue') \in Nat
  BY <1>1, <1>2, FS_RemoveElement, FS_CardinalityType
<1>5. Accounting'
  BY <1>3, <1>4, BusyFinite DEF TakeTask, Accounting, PoolInv, TypeOK
<1>6. /\ queue' \subseteq Entries /\ running' \subseteq Tasks
      /\ entry' \in [Workers -> Entries \cup {NoEntry}]
      /\ pc' \in [Workers -> {"loop", "waiting", "sleeping", "executing",
                              "callback", "dead", "exited"}]
      /\ queued' \in Nat /\ active' \in Nat
  BY <1>1, <1>2, <1>4 DEF TakeTask, PoolInv, TypeOK
<1>7. TypeOK'
  BY <1>4, <1>6 DEF TakeTask, PoolInv, TypeOK
<1>8. EventCoversQueue' /\ Fresh'
  BY <1>1 DEF TakeTask, PoolInv, EventCoversQueue, Fresh
<1>9. HoldsEntry'
  BY <1>1, <1>2, <1>3 DEF PoolInv, TypeOK, HoldsEntry, Busy
<1>10. VerdictReady'
  BY <1>1 DEF TakeTask, PoolInv, TypeOK, VerdictReady
<1> QED
  BY <1>5, <1>7, <1>8, <1>9, <1>10 DEF PoolInv

(* The steps of a worker that move it without recording a result.          *)
LEMMA MoveKeepsPool ==
  ASSUME PoolInv, NEW w \in Workers,
         \/ Idle(w) \/ Notified(w) \/ WaitTimesOut(w) \/ LeaveLoop(w)
         \/ Wake(w) \/ Die(w)
  PROVE  PoolInv'
<1> USE DEF Idle, Notified, WaitTimesOut, LeaveLoop, Wake, Die, statVars
<1>1. Busy' = Busy
  BY DEF PoolInv, TypeOK, Busy
<1>2. TypeOK'
  BY DEF PoolInv, TypeOK
<1>3. Accounting' /\ EventCoversQueue' /\ Fresh'
  BY <1>1 DEF PoolInv, Accounting, EventCoversQueue, Fresh
<1>4. HoldsEntry'
  BY <1>1 DEF PoolInv, HoldsEntry
<1>5. VerdictReady'
  BY DEF PoolInv, TypeOK, VerdictReady
<1> QED
  BY <1>2, <1>3, <1>4, <1>5 DEF PoolInv

(* The end of an execution that is not retried.                            *)
LEMMA ConcludeKeepsPool ==
  ASSUME PoolInv, NEW w \in Workers,
         \/ Succeed(w) \/ TimeOut(w) \/ GiveUp(w) \/ CallbackEnds(w)
  PROVE  PoolInv'
<1>1. PICK status \in {"completed", "failed"} :
        \/ Record(w, status)
        \/ /\ pc[w] = "executing"
           /\ pc' = [pc EXCEPT ![w] = "callback"]
           /\ verdict' = [verdict EXCEPT ![w] = status]
           /\ UNCHANGED <<results, running, active, completed, failed, entry>>
  BY DEF Succeed, TimeOut, GiveUp, CallbackEnds, Conclude, Raises, PoolInv,
         VerdictReady
<1>2. /\ UNCHANGED <<queue, delayed, event, stopping, total, retried, queued,
                     maxQueued>>
      /\ failures' \in [Tasks -> Nat]
      /\ w \in Busy
  <2>1. w \in Busy
    BY DEF Succeed, TimeOut, GiveUp, CallbackEnds, Raises, Busy
  <2>2. failures' \in [Tasks -> Nat]
    BY <2>1 DEF Succeed, TimeOut, GiveUp, CallbackEnds, Raises, PoolInv, TypeOK,
                HoldsEntry, Entries, TaskOf
  <2> QED
    BY <2>1, <2>2 DEF Succeed, TimeOut, GiveUp, CallbackEnds
<1>3. CASE Record(w, status)
  <2>1. status \in Status
    BY DEF Status
  <2>2. TypeOK'
    BY <1>2, <1>3, <2>1, RecordFrees DEF PoolInv, TypeOK
  <2>3. Accounting'
    BY <1>2, <1>3, <2>1, RecordFrees DEF PoolInv, TypeOK, Accounting
  <2>4. EventCoversQueue' /\ Fresh'
    BY <1>2 DEF PoolInv, EventCoversQueue, Fresh
  <2> QED
    BY <1>2, <1>3, <2>1, <2>2, <2>3, <2>4, RecordFrees DEF PoolInv
<1>4. CASE /\ pc[w] = "executing"
           /\ pc' = [pc EXCEPT ![w] = "callback"]
           /\ verdict' = [verdict EXCEPT ![w] = status]
           /\ UNCHANGED <<results, running, active, completed, failed, entry>>
  <2>1. Busy' = Busy
    BY <1>4 DEF PoolInv, TypeOK, Busy
  <2>2. TypeOK'
    BY <1>2, <1>4 DEF PoolInv, TypeOK
  <2>3. Accounting' /\ EventCoversQueue' /\ Fresh' /\ HoldsEntry'
    BY <1>2, <1>4, <2>1 DEF PoolInv, Accounting, EventCoversQueue, Fresh, HoldsEntry
  <2>4. VerdictReady'
    BY <1>4 DEF PoolInv, TypeOK, VerdictReady
  <2> QED
    BY <2>2, <2>3, <2>4 DEF PoolInv
<1> QED
  BY <1>1, <1>3, <1>4

(* A retry records one execution and submits the next one in one step.     *)
LEMMA RetryKeepsPool ==
  ASSUME PoolInv, NEW w \in Workers, Retry(w)
  PROVE  PoolInv'
<1> DEFINE t == TaskOf(entry[w])
<1>1. w \in Busy /\ Push(t) /\ Record(w, "retrying") /\ "retrying" \in Status
  BY DEF Retry, Raises, Busy, Status
<1>2. t \in Tasks
  BY <1>1, RecordFrees
<1>3. /\ delayed' \subseteq Tasks /\ failures' \in [Tasks -> Nat]
      /\ retried' \in Nat /\ stopping' \in BOOLEAN
  BY <1>2 DEF Retry, Raises, PoolInv, TypeOK
<1>4. TypeOK'
  <2> HIDE DEF t
  <2>1. /\ queue' \subseteq Entries /\ IsFiniteSet(queue')
        /\ event' = TRUE /\ maxQueued' \in Nat
        /\ total' = total + 1 /\ queued' = queued + 1
    BY <1>1, <1>2, PushAdds
  <2>2. /\ results' \in [Tasks -> Status \cup {None}]
        /\ running' \subseteq Tasks
        /\ pc' \in [Workers -> {"loop", "waiting", "sleeping", "executing",
                                "callback", "dead", "exited"}]
        /\ entry' \in [Workers -> Entries \cup {NoEntry}]
        /\ verdict' \in [Workers -> {"completed", "failed", None}]
        /\ completed' \in Nat /\ failed' \in Nat /\ active' \in Nat
    BY <1>1, RecordFrees
  <2> QED
    BY <1>3, <2>1, <2>2 DEF PoolInv, TypeOK
<1>5. Accounting'
  <2> HIDE DEF t
  <2>1. total' = total + 1 /\ queued' = queued + 1 /\ queued' = Cardinality(queue)'
    BY <1>1, <1>2, PushAdds
  <2>2. /\ active' = Cardinality(Busy)' /\ active' = active - 1
        /\ completed' + failed' = completed + failed + 1
        /\ completed' \in Nat /\ failed' \in Nat /\ active' \in Nat
    BY <1>1, RecordFrees
  <2>3. total = queued + active + completed + failed
        /\ total \in Nat /\ queued \in Nat /\ active \in Nat
        /\ completed \in Nat /\ failed \in Nat
    BY DEF PoolInv, TypeOK, Accounting
  <2>4. total' = queued' + active' + completed' + failed'
    <3>1. /\ total' = total + 1 /\ queued' = queued + 1
          /\ active' = active - 1
          /\ completed' + failed' = completed + failed + 1
          /\ completed' \in Nat /\ failed' \in Nat
      BY <2>1, <2>2
    <3>2. PICK c \in Nat, f \in Nat : c = completed' /\ f = failed'
      BY <3>1
    <3>3. total + 1 = (queued + 1) + (active - 1) + c + f
      <4>1. c + f = completed + failed + 1
        BY <3>1, <3>2
      <4> QED
        BY <2>3, <4>1
    <3> QED
      BY <3>1, <3>2, <3>3
  <2> QED
    BY <2>1, <2>2, <2>4 DEF Accounting
<1>6. EventCoversQueue' /\ Fresh' /\ HoldsEntry' /\ VerdictReady'
  BY <1>1, <1>2, PushAdds, RecordFrees DEF EventCoversQueue
<1> QED
  BY <1>4, <1>5, <1>6 DEF PoolInv

(* Every step of the pool and of its clients keeps PoolInv.                *)
LEMMA NextKeepsPool ==
  ASSUME PoolInv, [Next]_vars
  PROVE  PoolInv'
<1>1. ASSUME NEW w \in Workers, WorkerStep(w) PROVE PoolInv'
  BY <1>1, TakeKeepsPool, MoveKeepsPool, ConcludeKeepsPool, RetryKeepsPool
  DEF WorkerStep
<1>2. ASSUME NEW t \in Tasks, ClientStep(t) PROVE PoolInv'
  BY <1>2, ClientKeepsPool
<1>3. ASSUME Stop PROVE PoolInv'
  BY <1>3, ClientKeepsPool
<1>4. ASSUME UNCHANGED vars PROVE PoolInv'
  BY <1>4 DEF vars, workerVars, statVars, PoolInv, TypeOK, Accounting,
              EventCoversQueue, Fresh, HoldsEntry, VerdictReady, Busy
<1> QED
  BY <1>1, <1>2, <1>3, <1>4 DEF Next

(* PoolInv holds in every reachable state: types, accounting and event.    *)
THEOREM PoolCorrect == Spec => []PoolInv
<1>1. PoolInv /\ [Next]_vars => PoolInv'
  BY NextKeepsPool
<1> QED
  BY InitPool, <1>1, PTL DEF Spec

(* The parts of the inductive invariant, one by one.                       *)
THEOREM TypeCorrect == Spec => []TypeOK
BY PoolCorrect, PTL DEF PoolInv

(* The statistics of get_stats account for every submit, for every pool.   *)
THEOREM AccountingCorrect == Spec => []Accounting
BY PoolCorrect, PTL DEF PoolInv

(* Whatever the number of workers and clients, no wakeup is lost.          *)
THEOREM NoLostWakeup == Spec => []EventCoversQueue
BY PoolCorrect, PTL DEF PoolInv

-----------------------------------------------------------------------------
(* A task is in one place, and _running names the tasks held.              *)
Placed == OnePlace /\ RunningIsHeld

LEMMA InitPlaced == Init => Placed
BY DEF Init, Placed, OnePlace, RunningIsHeld, Busy, Queued, Held, Settled, None

(* Steps that leave heap, workers' holdings, results and _running alone.   *)
LEMMA PlacedKept ==
  ASSUME Placed, UNCHANGED <<queue, results, running, entry>>, Busy' = Busy
  PROVE  Placed'
BY DEF Placed, OnePlace, RunningIsHeld, Queued, Held, Settled

(* A client's submit: the task was nowhere before.                         *)
LEMMA SubmitPlaced ==
  ASSUME Placed, NEW t \in Tasks, Submit(t)
  PROVE  Placed'
<1> DEFINE e == <<t, total + 1>>
<1>1. /\ queue' = queue \cup {e} /\ TaskOf(e) = t
      /\ UNCHANGED <<results, running, entry, pc>> /\ Busy' = Busy
      /\ ~Queued(t) /\ ~Held(t) /\ results[t] = None
  BY DEF Submit, Push, TaskOf, workerVars, Busy, Submitted
<1> HIDE DEF e
<1>2. \A u \in Tasks : (Queued(u)' <=> Queued(u) \/ u = t) /\ (Held(u)' <=> Held(u))
  BY <1>1 DEF Queued, Held
<1>3. \A f, g \in queue' : TaskOf(f) = TaskOf(g) => f = g
  BY <1>1 DEF Placed, OnePlace, Queued
<1> QED
  BY <1>1, <1>2, <1>3 DEF Placed, OnePlace, RunningIsHeld, Settled, None

(* A pop moves the task from the heap to the worker.                       *)
LEMMA TakePlaced ==
  ASSUME Placed, PoolInv, NEW w \in Workers, TakeTask(w)
  PROVE  Placed'
<1>1. PICK e \in queue :
        /\ queue' = queue \ {e}
        /\ running' = running \cup {TaskOf(e)}
        /\ entry' = [entry EXCEPT ![w] = e]
        /\ pc' = [pc EXCEPT ![w] = IF TaskOf(e) \in delayed
                                     THEN "sleeping" ELSE "executing"]
  BY DEF TakeTask
<1>2. /\ Busy' = Busy \cup {w} /\ w \notin Busy /\ results' = results
      /\ entry'[w] = e /\ \A v \in Busy : entry'[v] = entry[v]
  <2>1. w \notin Busy
    BY DEF TakeTask, Busy
  <2>2. Busy' = Busy \cup {w}
    BY <1>1, <2>1, BusyTake DEF PoolInv
  <2> QED
    BY <1>1, <2>1, <2>2 DEF TakeTask, PoolInv, TypeOK, Busy
<1>3. Queued(TaskOf(e)) /\ ~Held(TaskOf(e)) /\ ~Settled(TaskOf(e)) /\ TaskOf(e) \in Tasks
  BY DEF Placed, OnePlace, Queued, PoolInv, TypeOK, Entries, TaskOf
<1>4. \A u : Queued(u)' <=> Queued(u) /\ u # TaskOf(e)
  BY <1>1 DEF Queued, Placed, OnePlace
<1>5. \A u : Held(u)' <=> Held(u) \/ u = TaskOf(e)
  BY <1>2 DEF Held
<1>6. \A v, x \in Busy' : TaskOf(entry'[v]) = TaskOf(entry'[x]) => v = x
  BY <1>2, <1>3 DEF Held, Placed, OnePlace
<1>7. OnePlace'
  BY <1>1, <1>2, <1>3, <1>4, <1>5, <1>6 DEF OnePlace, Placed, Settled
<1>8. RunningIsHeld'
  BY <1>1, <1>2 DEF RunningIsHeld, Placed
<1> QED
  BY <1>7, <1>8 DEF Placed

(* Recording a result takes the task away from the worker, and from it     *)
(* only: no other worker holds it.                                         *)
LEMMA RecordReleases ==
  ASSUME Placed, PoolInv, NEW w \in Busy, NEW status \in Status, Record(w, status)
  PROVE  LET t == TaskOf(entry[w]) IN
         /\ t \in Tasks /\ Held(t) /\ ~Queued(t)
         /\ results' = [results EXCEPT ![t] = status]
         /\ \A u : Held(u)' <=> Held(u) /\ u # t
         /\ \A v, x \in Busy' : TaskOf(entry'[v]) = TaskOf(entry'[x]) => v = x
         /\ RunningIsHeld'
<1> DEFINE t == TaskOf(entry[w])
<1>1. t \in Tasks /\ Held(t) /\ ~Queued(t)
  BY DEF HoldsEntry, PoolInv, Entries, TaskOf, Held, Placed, OnePlace
<1>2. /\ Busy' = Busy \ {w}
      /\ \A v \in Busy' : entry'[v] = entry[v] /\ TaskOf(entry[v]) # t
  <2>1. Busy' = Busy \ {w}
    BY BusyLeave DEF Record, PoolInv
  <2> QED
    BY <2>1 DEF Record, PoolInv, TypeOK, Busy, Placed, OnePlace
<1>3. \A u : Held(u)' <=> Held(u) /\ u # t
  BY <1>2 DEF Held
<1>4. \A v, x \in Busy' : TaskOf(entry'[v]) = TaskOf(entry'[x]) => v = x
  BY <1>2 DEF Placed, OnePlace
<1>5. RunningIsHeld'
  BY <1>2 DEF RunningIsHeld, Placed, Record
<1> QED
  BY <1>1, <1>3, <1>4, <1>5 DEF Record

(* An execution that is not retried settles its task.                      *)
LEMMA ConcludePlaced ==
  ASSUME Placed, PoolInv, NEW w \in Workers,
         \/ Succeed(w) \/ TimeOut(w) \/ GiveUp(w) \/ CallbackEnds(w)
  PROVE  Placed'
<1>1. PICK status \in {"completed", "failed"} :
        \/ Record(w, status)
        \/ /\ pc[w] = "executing"
           /\ pc' = [pc EXCEPT ![w] = "callback"]
           /\ UNCHANGED <<results, running, entry>>
  BY DEF Succeed, TimeOut, GiveUp, CallbackEnds, Conclude, Raises, PoolInv,
         VerdictReady
<1>2. w \in Busy /\ queue' = queue
  BY DEF Succeed, TimeOut, GiveUp, CallbackEnds, Raises, Busy
<1>3. CASE Record(w, status)
  <2>1. status \in Status
    BY DEF Status
  <2> DEFINE t == TaskOf(entry[w])
  <2>2. /\ t \in Tasks /\ Held(t) /\ ~Queued(t)
        /\ results' = [results EXCEPT ![t] = status]
        /\ \A u : Held(u)' <=> Held(u) /\ u # t
        /\ \A v, x \in Busy' : TaskOf(entry'[v]) = TaskOf(entry'[x]) => v = x
        /\ RunningIsHeld'
    BY <1>2, <1>3, <2>1, RecordReleases
  <2> HIDE DEF t
  <2>3. \A u : Queued(u)' <=> Queued(u)
    BY <1>2 DEF Queued
  <2>4. \A u \in Tasks \ {t} : results'[u] = results[u]
    BY <2>2 DEF PoolInv, TypeOK
  <2>5. results'[t] = status
    BY <2>2 DEF PoolInv, TypeOK
  <2> QED
    BY <1>2, <2>2, <2>3, <2>4, <2>5 DEF Placed, OnePlace, Settled
<1>4. CASE /\ pc[w] = "executing"
           /\ pc' = [pc EXCEPT ![w] = "callback"]
           /\ UNCHANGED <<results, running, entry>>
  <2>1. Busy' = Busy
    BY <1>4 DEF PoolInv, TypeOK, Busy
  <2> QED
    BY <1>2, <1>4, <2>1, PlacedKept
<1> QED
  BY <1>1, <1>3, <1>4

(* A retry puts the task back on the heap as it leaves the worker.         *)
LEMMA RetryPlaced ==
  ASSUME Placed, PoolInv, NEW w \in Workers, Retry(w)
  PROVE  Placed'
<1> DEFINE t == TaskOf(entry[w])
           e == <<t, total + 1>>
<1>1. w \in Busy /\ "retrying" \in Status /\ Record(w, "retrying")
  BY DEF Retry, Raises, Busy, Status
<1>2. queue' = queue \cup {e} /\ TaskOf(e) = t
  BY DEF Retry, Push, TaskOf
<1>3. /\ t \in Tasks /\ Held(t) /\ ~Queued(t)
      /\ results' = [results EXCEPT ![t] = "retrying"]
      /\ \A u : Held(u)' <=> Held(u) /\ u # t
      /\ \A v, x \in Busy' : TaskOf(entry'[v]) = TaskOf(entry'[x]) => v = x
      /\ RunningIsHeld'
  BY <1>1, RecordReleases
<1> HIDE DEF e, t
<1>4. \A u : Queued(u)' <=> Queued(u) \/ u = t
  BY <1>2 DEF Queued
<1>5. \A f, g \in queue' : TaskOf(f) = TaskOf(g) => f = g
  BY <1>2, <1>3 DEF Placed, OnePlace, Queued
<1>6. results'[t] = "retrying" /\ \A u \in Tasks \ {t} : results'[u] = results[u]
  BY <1>3 DEF PoolInv, TypeOK
<1> QED
  BY <1>3, <1>4, <1>5, <1>6 DEF Placed, OnePlace, Settled

(* Placed is inductive relative to PoolInv.                                *)
LEMMA PlacedInvariant == Spec => []Placed
<1>1. Placed /\ PoolInv /\ [Next]_vars => Placed'
  <2> SUFFICES ASSUME Placed, PoolInv, [Next]_vars PROVE Placed'
    OBVIOUS
  <2>1. ASSUME NEW w \in Workers, WorkerStep(w) PROVE Placed'
    <3>1. CASE \/ Idle(w) \/ Notified(w) \/ WaitTimesOut(w) \/ LeaveLoop(w)
               \/ Wake(w) \/ Die(w)
      <4>1. UNCHANGED <<queue, results, running, entry>> /\ Busy' = Busy
        BY <3>1 DEF Idle, Notified, WaitTimesOut, LeaveLoop, Wake, Die,
                    PoolInv, TypeOK, Busy
      <4> QED
        BY <4>1, PlacedKept
    <3>2. CASE TakeTask(w) \/ Retry(w)
      BY <3>2, TakePlaced, RetryPlaced
    <3>3. CASE Succeed(w) \/ TimeOut(w) \/ GiveUp(w) \/ CallbackEnds(w)
      BY <3>3, ConcludePlaced
    <3> QED
      BY <2>1, <3>1, <3>2, <3>3 DEF WorkerStep
  <2>2. ASSUME NEW t \in Tasks, Submit(t) PROVE Placed'
    BY <2>2, SubmitPlaced
  <2>3. ASSUME \/ Stop \/ UNCHANGED vars
               \/ \E t \in Tasks : TimePasses(t)
        PROVE Placed'
    <3>1. UNCHANGED <<queue, results, running, entry>> /\ Busy' = Busy
      BY <2>3 DEF Stop, TimePasses, vars, workerVars, Busy
    <3> QED
      BY <3>1, PlacedKept
  <2> QED
    BY <2>1, <2>2, <2>3 DEF Next, ClientStep
<1> QED
  BY InitPlaced, PoolCorrect, <1>1, PTL DEF Spec

(* Every task is queued once, or held by one worker, or settled for good;  *)
(* none is lost on its way from one to the other.                          *)
THEOREM PlacementCorrect == Spec => []Placement
BY PlacedInvariant, PTL DEF Placed, Placement

(* A result is only written for the task a worker holds, and a settled     *)
(* task is held by none: no result is replaced once it is final.           *)
THEOREM SettledResultsStay == Spec => SettledForGood
<1> DEFINE Stays == \A t \in Tasks : Settled(t) => results'[t] = results[t]
<1>1. ASSUME Placed, PoolInv, [Next]_vars PROVE Stays
  <2>1. CASE UNCHANGED results
    BY <2>1
  <2>2. ASSUME NEW w \in Busy, NEW status \in Status, Record(w, status)
        PROVE Stays
    <3>1. /\ Held(TaskOf(entry[w])) /\ TaskOf(entry[w]) \in Tasks
          /\ results' = [results EXCEPT ![TaskOf(entry[w])] = status]
      BY <1>1, <2>2, RecordReleases
    <3> QED
      BY <1>1, <3>1 DEF Placed, OnePlace, PoolInv, TypeOK
  <2>3. \/ UNCHANGED results
        \/ \E w \in Busy : \E status \in Status : Record(w, status)
    <3>1. ASSUME NEW w \in Workers, WorkerStep(w)
          PROVE  UNCHANGED results \/ (w \in Busy /\ \E status \in Status : Record(w, status))
      <4>1. CASE \/ TakeTask(w) \/ Idle(w) \/ Notified(w) \/ WaitTimesOut(w)
                 \/ LeaveLoop(w) \/ Wake(w) \/ Die(w)
        BY <4>1 DEF TakeTask, Idle, Notified, WaitTimesOut, LeaveLoop, Wake, Die
      <4>2. CASE Succeed(w) \/ TimeOut(w) \/ GiveUp(w) \/ CallbackEnds(w) \/ Retry(w)
        BY <1>1, <4>2 DEF Succeed, TimeOut, GiveUp, CallbackEnds, Retry, Conclude,
                    Raises, Busy, Status, PoolInv, VerdictReady
      <4> QED
        BY <3>1, <4>1, <4>2 DEF WorkerStep
    <3>2. ASSUME NEW t \in Tasks, ClientStep(t) PROVE UNCHANGED results
      BY <3>2 DEF ClientStep, Submit, TimePasses
    <3> QED
      BY <1>1, <3>1, <3>2 DEF Next, Stop, vars
  <2> QED
    BY <2>1, <2>2, <2>3
<1>2. Placed /\ PoolInv /\ [Next]_vars => [Stays]_vars
  BY <1>1
<1> QED
  BY PlacedInvariant, PoolCorrect, <1>2, PTL DEF Spec, SettledForGood

-----------------------------------------------------------------------------

(* What a pass submits gets as many new ordinals as there are due jobs.    *)
LEMMA PlacesExist ==
  ASSUME NEW due, IsFiniteSet(due)
  PROVE  LET n == Cardinality(due)
             place == CHOOSE f \in [due -> 1..n] :
                        \A i, j \in due : f[i] = f[j] => i = j
         IN  /\ n \in Nat
             /\ place \in [due -> 1..n]
             /\ \A i, j \in due : place[i] = place[j] => i = j
<1> DEFINE n == Cardinality(due)
<1>1. n \in Nat /\ ExistsBijection(1..n, due)
  BY FS_CardinalityType
<1>2. PICK g \in Bijection(1..n, due) : TRUE
  BY <1>1 DEF ExistsBijection
<1>3. PICK f \in Bijection(due, 1..n) : TRUE
  BY <1>2, Fun_BijInverse
<1> HIDE DEF n
<1>4. f \in [due -> 1..n] /\ \A i, j \in due : f[i] = f[j] => i = j
  BY <1>3, Fun_BijectionProperties
<1> QED
  BY <1>1, <1>4 DEF n

(* PushAll adds one fresh entry for every due job, and counts each once.   *)
LEMMA PushAllAdds ==
  ASSUME PoolInv, NEW due \in SUBSET Jobs, PushAll(due)
  PROVE  /\ queue' \subseteq Entries /\ IsFiniteSet(queue')
         /\ Fresh' /\ event' = TRUE /\ Cardinality(due) \in Nat
         /\ total' = total + Cardinality(due)
         /\ queued' = queued + Cardinality(due)
         /\ queued' = Cardinality(queue)' /\ maxQueued' \in Nat
<1> DEFINE n == Cardinality(due)
           place == CHOOSE f \in [due -> 1..n] :
                      \A i, j \in due : f[i] = f[j] => i = j
           new == {<<JobTask[j], total + place[j]>> : j \in due}
<1>1. IsFiniteSet(due)
  BY SchedulerAssumption, FS_Subset DEF SchedulerAssumption
<1>2. /\ n \in Nat
      /\ place \in [due -> 1..n]
      /\ \A i, j \in due : place[i] = place[j] => i = j
  BY <1>1, PlacesExist
<1>3. /\ queue' = queue \cup new /\ total' = total + n
      /\ queued' = Cardinality(queue') /\ event' = TRUE
      /\ maxQueued' = Larger(maxQueued, queued')
  BY DEF PushAll
<1>4. /\ total \in Nat /\ queued \in Nat /\ maxQueued \in Nat
      /\ queue \subseteq Entries /\ IsFiniteSet(queue)
      /\ queued = Cardinality(queue)
      /\ \A e \in queue : e[2] <= total
  BY DEF PoolInv, TypeOK, Accounting, Fresh
<1> HIDE DEF place, n
<1>5. \A j \in due : place[j] \in 1..n /\ JobTask[j] \in Tasks
  BY <1>2, SchedulerAssumption DEF SchedulerAssumption
<1>6. new \subseteq Entries /\ \A e \in new : e[2] <= total + n /\ e[2] > total
  BY <1>2, <1>4, <1>5 DEF Entries
<1>7. IsFiniteSet(new) /\ Cardinality(new) = n
  <2> DEFINE h == [j \in due |-> <<JobTask[j], total + place[j]>>]
  <2>1. h \in Bijection(due, new)
    <3>1. h \in [due -> new] /\ \A e \in new : \E j \in due : h[j] = e
      OBVIOUS
    <3>2. ASSUME NEW i \in due, NEW j \in due, h[i] = h[j] PROVE i = j
      <4>1. total + place[i] = total + place[j]
        BY <3>2
      <4>2. place[i] = place[j]
        BY <1>2, <1>4, <1>5, <4>1
      <4> QED
        BY <1>2, <4>2
    <3> HIDE DEF h, new
    <3> QED
      BY <3>1, <3>2, Fun_IsBij
  <2> QED
    BY <1>1, <2>1, FS_Bijection DEF ExistsBijection, n
<1>8. queue \cap new = {}
  BY <1>4, <1>6 DEF Entries
<1>9. IsFiniteSet(queue') /\ Cardinality(queue') = Cardinality(queue) + n
  <2> HIDE DEF new
  <2>1. Cardinality(queue \cap new) = 0
    BY <1>8, FS_EmptySet
  <2> QED
    BY <1>2, <1>3, <1>4, <1>7, <2>1, FS_Union
<1>10. \A e \in queue' : e[2] <= total'
  BY <1>2, <1>3, <1>4, <1>6 DEF Entries
<1> HIDE DEF new
<1> QED
  BY <1>2, <1>3, <1>4, <1>6, <1>9, <1>10 DEF Fresh, Larger, n

(* A pass of the scheduler keeps every guarantee of the pool.              *)
LEMMA PassKeepsPool ==
  ASSUME PoolInv, JobsTypeOK, Pass
  PROVE  PoolInv'
<1> DEFINE n == Cardinality(Due)
<1>1. Due \in SUBSET Jobs /\ PushAll(Due)
  BY DEF JobsTypeOK, Due, Pass
<1>2. UNCHANGED <<delayed, results, running, stopping, pc, entry, verdict,
                  completed, failed, retried, active, failures>>
  BY DEF Pass, workerVars
<1>3. /\ queue' \subseteq Entries /\ IsFiniteSet(queue')
      /\ Fresh' /\ event' = TRUE /\ n \in Nat
      /\ total' = total + n /\ queued' = queued + n
      /\ queued' = Cardinality(queue)' /\ maxQueued' \in Nat
  BY <1>1, PushAllAdds
<1> HIDE DEF n
<1>4. TypeOK'
  BY <1>2, <1>3 DEF PoolInv, TypeOK
<1>5. Busy' = Busy
  BY <1>2 DEF Busy
<1>6. Accounting'
  BY <1>2, <1>3, <1>5 DEF PoolInv, TypeOK, Accounting
<1> QED
  BY <1>2, <1>3, <1>4, <1>5, <1>6
  DEF PoolInv, EventCoversQueue, HoldsEntry, VerdictReady

-----------------------------------------------------------------------------
(* The runs made so far are finitely many.                                 *)
LEMMA RunsFinite ==
  ASSUME JobsTypeOK
  PROVE  IsFiniteSet(RunsMade) /\ Cardinality(RunsMade) \in Nat
<1>1. IsFiniteSet({{j} \X (1..runs[j]) : j \in Jobs})
  <2> DEFINE S == {{j} \X (1..runs[j]) : j \in Jobs}
             h == [j \in Jobs |-> {j} \X (1..runs[j])]
  <2>1. h \in [Jobs -> S] /\ \A e \in S : \E j \in Jobs : h[j] = e
    OBVIOUS
  <2> HIDE DEF h, S
  <2>2. IsFiniteSet(S)
    BY <2>1, Fun_IsSurj, FS_Surjection, SchedulerAssumption DEF SchedulerAssumption
  <2> QED
    BY <2>2 DEF S
<1>2. ASSUME NEW j \in Jobs PROVE IsFiniteSet({j} \X (1..runs[j]))
  <2>1. IsFiniteSet({j}) /\ runs[j] \in Nat
    BY FS_Singleton DEF JobsTypeOK
  <2>2. IsFiniteSet(1..runs[j])
    BY <2>1, FS_Interval
  <2> QED
    BY <2>1, <2>2, FS_Product
<1> QED
  BY <1>1, <1>2, FS_UNION, FS_CardinalityType DEF RunsMade

(* A pass makes one more run of each due job.                              *)
LEMMA PassRuns ==
  ASSUME JobsTypeOK, Pass
  PROVE  /\ Cardinality(Due) \in Nat
         /\ Cardinality(RunsMade)' = Cardinality(RunsMade) + Cardinality(Due)
<1> DEFINE more == {<<j, runs[j] + 1>> : j \in Due}
<1>1. Due \in SUBSET Jobs /\ IsFiniteSet(Due) /\ Cardinality(Due) \in Nat
  BY SchedulerAssumption, FS_Subset, FS_CardinalityType
  DEF JobsTypeOK, Due, SchedulerAssumption
<1>2. runs' = [j \in Jobs |-> IF j \in Due THEN runs[j] + 1 ELSE runs[j]]
      /\ \A j \in Jobs : runs[j] \in Nat
  BY DEF Pass, JobsTypeOK
<1>3. RunsMade' = RunsMade \cup more
  <2>1. \A e : e \in RunsMade <=> \E j \in Jobs : \E k \in 1..runs[j] : e = <<j, k>>
    BY DEF RunsMade
  <2>2. \A e : e \in RunsMade' <=> \E j \in Jobs : \E k \in 1..runs'[j] : e = <<j, k>>
    BY DEF RunsMade
  <2>3. ASSUME NEW j \in Jobs, NEW k \in 1..runs'[j]
        PROVE  <<j, k>> \in RunsMade \cup more
    <3>1. k \in 1..runs[j] \/ (j \in Due /\ k = runs[j] + 1)
      BY <1>2, <2>3
    <3> QED
      BY <2>1, <3>1
  <2>4. ASSUME NEW j \in Jobs, NEW k \in 1..runs[j] PROVE <<j, k>> \in RunsMade'
    <3>1. k \in 1..runs'[j]
      BY <1>2
    <3> QED
      BY <2>2, <3>1
  <2>5. ASSUME NEW j \in Due PROVE <<j, runs[j] + 1>> \in RunsMade'
    <3>1. runs[j] + 1 \in 1..runs'[j]
      BY <1>1, <1>2
    <3> QED
      BY <1>1, <2>2, <3>1
  <2> QED
    BY <2>1, <2>2, <2>3, <2>4, <2>5
<1>4. RunsMade \cap more = {}
  <2> SUFFICES ASSUME NEW j \in Due, <<j, runs[j] + 1>> \in RunsMade PROVE FALSE
    OBVIOUS
  <2>1. runs[j] + 1 \in 1..runs[j]
    BY DEF RunsMade
  <2> QED
    BY <1>1, <1>2, <2>1
<1>5. IsFiniteSet(more) /\ Cardinality(more) = Cardinality(Due)
  <2> DEFINE h == [j \in Due |-> <<j, runs[j] + 1>>]
  <2>1. /\ h \in [Due -> more] /\ \A e \in more : \E j \in Due : h[j] = e
        /\ \A i, j \in Due : h[i] = h[j] => i = j
    OBVIOUS
  <2>2. h \in Bijection(Due, more)
    <3> HIDE DEF h, more
    <3> QED
      BY <2>1, Fun_IsBij
  <2> QED
    BY <1>1, <2>2, FS_Bijection DEF ExistsBijection
<1> HIDE DEF more
<1>6. Cardinality(RunsMade \cap more) = 0
  BY <1>4, FS_EmptySet
<1>7. Cardinality(RunsMade)' = Cardinality(RunsMade \cup more)
  BY <1>3
<1>8. Cardinality(RunsMade \cup more) = Cardinality(RunsMade) + Cardinality(Due)
  <2>1. IsFiniteSet(RunsMade) /\ Cardinality(RunsMade) \in Nat
    BY RunsFinite
  <2>2. Cardinality(RunsMade \cup more)
          = Cardinality(RunsMade) + Cardinality(more) - Cardinality(RunsMade \cap more)
    BY <1>5, <2>1, FS_Union
  <2> QED
    BY <1>1, <1>5, <1>6, <2>1, <2>2
<1> QED
  BY <1>1, <1>7, <1>8

-----------------------------------------------------------------------------
LEMMA InitJobs == SchedulerInit => JobsInv
<1> SUFFICES ASSUME SchedulerInit PROVE JobsInv
  OBVIOUS
<1>1. /\ RunsMade = {} /\ {j \in Jobs : Kind[j] = "once" /\ runs[j] > 0} = {}
      /\ \A j \in Jobs : runs[j] = 0
  BY DEF SchedulerInit, RunsMade
<1>2. Cardinality({}) = 0
  BY FS_EmptySet
<1>3. IsFiniteSet({j \in Jobs : Kind[j] = "once"})
  BY SchedulerAssumption, FS_Subset DEF SchedulerAssumption
<1>4. Cardinality({j \in Jobs : Kind[j] = "once"}) \in Nat
  BY <1>3, FS_CardinalityType
<1>5. JobsTypeOK
  <2>1. completedJobs \in 0..Cardinality({j \in Jobs : Kind[j] = "once"})
    BY <1>4 DEF SchedulerInit
  <2>2. /\ enabled \in [Jobs -> BOOLEAN] /\ runs \in [Jobs -> Nat]
        /\ nextRun \in [Jobs -> {"none", "future", "due"}]
    BY SchedulerAssumption DEF SchedulerInit, SchedulerAssumption
  <2>3. /\ jobs = {} /\ cancelled = {} /\ looping = FALSE
        /\ scheduledJobs \in 0..MaxScheduled
    BY SchedulerAssumption DEF SchedulerInit, SchedulerAssumption
  <2> QED
    BY <2>1, <2>2, <2>3 DEF JobsTypeOK
<1>6. RunsCounted
  BY <1>1, <1>2, SchedulerAssumption
  DEF SchedulerInit, Init, RunsCounted, RunsBounded, SubmitsExplained,
      SchedulerAssumption
<1> QED
  BY <1>1, <1>2, <1>5, <1>6
  DEF SchedulerInit, JobsInv, OnceDisarmed, OnceCompleted, CancelledOff

(* The pool's own steps leave the scheduler's state alone and count a      *)
(* retry as one more submit.                                               *)
LEMMA PoolKeepsJobs ==
  ASSUME JobsInv, PoolInv, PoolStep
  PROVE  JobsInv'
<1>1. UNCHANGED jobVars
  BY DEF PoolStep
<1>2. (total' = total /\ retried' = retried) \/ (total' = total + 1 /\ retried' = retried + 1)
  <2>1. ASSUME NEW w \in Workers, WorkerStep(w)
        PROVE  \/ total' = total /\ retried' = retried
               \/ total' = total + 1 /\ retried' = retried + 1
    BY <2>1 DEF WorkerStep, TakeTask, Idle, Notified, WaitTimesOut, LeaveLoop,
                Wake, Succeed, TimeOut, Retry, GiveUp, CallbackEnds, Die, Push,
                statVars
  <2> QED
    BY <2>1 DEF PoolStep, TimePasses, Stop, statVars
<1>3. RunsMade' = RunsMade
  BY <1>1 DEF jobVars, RunsMade
<1>4. Cardinality(RunsMade) \in Nat /\ total \in Nat /\ retried \in Nat
  BY RunsFinite DEF JobsInv, PoolInv, TypeOK
<1>5. SubmitsExplained'
  BY <1>2, <1>3, <1>4 DEF JobsInv, RunsCounted, SubmitsExplained
<1> QED
  BY <1>1, <1>5 DEF jobVars, JobsInv, JobsTypeOK, RunsCounted, RunsBounded,
                    OnceDisarmed, OnceCompleted, CancelledOff

(* A pass counts every run it makes, and completes the ONCE jobs among     *)
(* them, none of which has run before.                                     *)
LEMMA PassKeepsJobs ==
  ASSUME JobsInv, PoolInv, Pass
  PROVE  JobsInv'
<1> DEFINE done == {j \in Jobs : Kind[j] = "once" /\ runs[j] > 0}
           now  == {j \in Due : Kind[j] = "once"}
           once == {j \in Jobs : Kind[j] = "once"}
<1>1. /\ JobsTypeOK /\ Due \in SUBSET Jobs
      /\ \A j \in Jobs : runs[j] \in Nat /\ enabled[j] \in BOOLEAN /\ MaxRuns[j] \in Nat
      /\ \A j \in Due : enabled[j] /\ (MaxRuns[j] = 0 \/ runs[j] < MaxRuns[j])
  BY SchedulerAssumption DEF JobsInv, JobsTypeOK, Due, SchedulerAssumption
<1>2. /\ runs' = [j \in Jobs |-> IF j \in Due THEN runs[j] + 1 ELSE runs[j]]
      /\ enabled' = [j \in Jobs |-> enabled[j] /\ ~(j \in Due /\ Kind[j] = "once")]
      /\ nextRun' = [j \in Jobs |-> IF j \in Due /\ Kind[j] = "interval"
                                      THEN "future" ELSE nextRun[j]]
      /\ completedJobs' = completedJobs + Cardinality(now)
      /\ UNCHANGED <<jobs, scheduledJobs, looping, cancelled, retried>>
  BY DEF Pass
<1>3. /\ \A j \in now : runs[j] = 0
      /\ {j \in Jobs : Kind[j] = "once" /\ runs'[j] > 0} = done \cup now
      /\ done \cap now = {} /\ done \cup now \subseteq once
  BY <1>1, <1>2 DEF JobsInv, OnceDisarmed
<1>4. /\ IsFiniteSet(once) /\ IsFiniteSet(done) /\ IsFiniteSet(now)
      /\ IsFiniteSet(done \cup now)
  BY <1>1, <1>3, SchedulerAssumption, FS_Subset DEF SchedulerAssumption
<1> HIDE DEF done, now, once
<1>5. /\ Cardinality(done \cup now) = Cardinality(done) + Cardinality(now)
      /\ Cardinality(done \cup now) <= Cardinality(once)
      /\ Cardinality(done \cup now) \in Nat /\ Cardinality(once) \in Nat
  <2>1. Cardinality(done \cap now) = 0
    BY <1>3, FS_EmptySet
  <2>2. /\ Cardinality(done) \in Nat /\ Cardinality(now) \in Nat
        /\ Cardinality(done \cup now) \in Nat /\ Cardinality(once) \in Nat
    BY <1>4, FS_CardinalityType
  <2>3. Cardinality(done \cup now)
          = Cardinality(done) + Cardinality(now) - Cardinality(done \cap now)
    BY <1>4, FS_Union
  <2>4. Cardinality(done \cup now) <= Cardinality(once)
    BY <1>3, <1>4, FS_Subset
  <2> QED
    BY <2>1, <2>2, <2>3, <2>4
<1>6. OnceCompleted' /\ completedJobs' \in 0..Cardinality(once)
  <2>1. completedJobs = Cardinality(done)
    BY DEF JobsInv, OnceCompleted, done
  <2>2. completedJobs' = Cardinality(done \cup now)
    BY <1>2, <1>5, <2>1
  <2>3. Cardinality({j \in Jobs : Kind[j] = "once" /\ runs'[j] > 0})
          = Cardinality(done \cup now)
    BY <1>3
  <2>4. OnceCompleted'
    BY <2>2, <2>3 DEF OnceCompleted
  <2> QED
    BY <1>5, <2>2, <2>4
<1>7. JobsTypeOK'
  BY <1>1, <1>2, <1>6 DEF JobsTypeOK, once
<1>8. RunsBounded' /\ OnceDisarmed'
  <2>1. \A j \in Jobs : j \in Due /\ Kind[j] = "once" => runs[j] = 0
    BY <1>3 DEF now
  <2>2. \A j \in Jobs : runs'[j] = IF j \in Due THEN runs[j] + 1 ELSE runs[j]
    BY <1>2
  <2>3. ASSUME NEW j \in Jobs
        PROVE  /\ MaxRuns[j] # 0 => runs'[j] <= MaxRuns[j]
               /\ Kind[j] = "once" => runs'[j] <= 1
    <3>1. /\ MaxRuns[j] # 0 => runs[j] <= MaxRuns[j]
          /\ Kind[j] = "once" => runs[j] <= 1
      BY DEF JobsInv, RunsCounted, RunsBounded
    <3>2. CASE j \in Due
      BY <1>1, <2>1, <2>2, <3>1, <3>2
    <3>3. CASE j \notin Due
      BY <2>2, <3>1, <3>3
    <3> QED
      BY <3>2, <3>3
  <2>4. ASSUME NEW j \in Jobs, Kind[j] = "once", runs'[j] > 0 PROVE ~enabled'[j]
    <3>1. CASE j \in Due
      BY <1>2, <2>4, <3>1
    <3>2. CASE j \notin Due
      <4>1. ~enabled[j]
        BY <2>2, <2>4, <3>2 DEF JobsInv, OnceDisarmed
      <4> QED
        BY <1>2, <4>1
    <3> QED
      BY <3>1, <3>2
  <2> QED
    BY <2>3, <2>4 DEF RunsBounded, OnceDisarmed
<1>9. SubmitsExplained'
  <2>1. /\ Cardinality(Due) \in Nat
        /\ Cardinality(RunsMade)' = Cardinality(RunsMade) + Cardinality(Due)
    BY <1>1, PassRuns
  <2>2. total' = total + Cardinality(Due)
    BY <1>1, PushAllAdds DEF Pass
  <2>3. Cardinality(RunsMade) \in Nat /\ total \in Nat /\ retried \in Nat
    BY <1>1, RunsFinite DEF PoolInv, TypeOK
  <2> QED
    BY <1>2, <2>1, <2>2, <2>3 DEF JobsInv, RunsCounted, SubmitsExplained
<1>10. CancelledOff'
  BY <1>1, <1>2 DEF JobsInv, JobsTypeOK, CancelledOff
<1> QED
  BY <1>6, <1>7, <1>8, <1>9, <1>10 DEF JobsInv, RunsCounted

(* The calls of the scheduler's clients, and the clock.                    *)
LEMMA ClientsKeepJobs ==
  ASSUME JobsInv,
         \/ StartScheduler \/ StopScheduler
         \/ \E j \in Jobs : ScheduleJob(j) \/ CancelJob(j) \/ ComesDue(j)
  PROVE  JobsInv' /\ UNCHANGED vars
<1> USE DEF StartScheduler, StopScheduler, ScheduleJob, CancelJob, ComesDue
<1>1. UNCHANGED <<vars, runs, completedJobs>>
  OBVIOUS
<1>2. UNCHANGED <<total, retried, RunsMade, SubmitsExplained, RunsBounded, OnceCompleted>>
  BY <1>1 DEF vars, statVars, RunsMade, SubmitsExplained, RunsBounded, OnceCompleted
<1>3. JobsTypeOK'
  <2>1. jobs' \subseteq Jobs /\ jobs \subseteq jobs' /\ looping' \in BOOLEAN
    BY DEF JobsInv, JobsTypeOK
  <2>2. /\ enabled' \in [Jobs -> BOOLEAN]
        /\ nextRun' \in [Jobs -> {"none", "future", "due"}]
    BY DEF JobsInv, JobsTypeOK
  <2>3. scheduledJobs' \in 0..MaxScheduled /\ cancelled' \subseteq jobs'
    BY SchedulerAssumption DEF JobsInv, JobsTypeOK, SchedulerAssumption
  <2> QED
    BY <1>1, <2>1, <2>2, <2>3 DEF JobsInv, JobsTypeOK
<1>4. /\ cancelled' \subseteq Jobs
      /\ \A j \in Jobs : enabled'[j] => enabled[j]
      /\ \A j \in cancelled' : ~enabled'[j]
  BY DEF JobsInv, JobsTypeOK, CancelledOff
<1> QED
  BY <1>1, <1>2, <1>3, <1>4
  DEF JobsInv, RunsCounted, OnceDisarmed, CancelledOff

(* Both invariants hold in every reachable state of the composition.       *)
THEOREM SchedulerCorrect == SchedulerSpec => [](JobsInv /\ PoolInv)
<1>1. SchedulerInit => JobsInv /\ PoolInv
  BY InitJobs, InitPool DEF SchedulerInit
<1>2. ASSUME JobsInv, PoolInv, [PoolStep \/ SchedulerStep]_schedulerVars
      PROVE  JobsInv' /\ PoolInv'
  <2>1. CASE PoolStep
    <3>1. [Next]_vars
      BY <2>1 DEF PoolStep, Next, ClientStep
    <3> QED
      BY <1>2, <2>1, <3>1, PoolKeepsJobs, NextKeepsPool
  <2>2. CASE Pass
    BY <1>2, <2>2, PassKeepsJobs, PassKeepsPool DEF JobsInv
  <2>3. CASE \/ StartScheduler \/ StopScheduler
             \/ \E j \in Jobs : ScheduleJob(j) \/ CancelJob(j) \/ ComesDue(j)
    BY <1>2, <2>3, ClientsKeepJobs, NextKeepsPool
  <2>4. CASE UNCHANGED schedulerVars
    <3>1. UNCHANGED vars /\ UNCHANGED jobVars
      BY <2>4 DEF schedulerVars
    <3>2. UNCHANGED <<total, retried, RunsMade>>
      BY <3>1 DEF vars, statVars, jobVars, RunsMade
    <3>3. JobsInv'
      BY <1>2, <3>1, <3>2
      DEF jobVars, JobsInv, JobsTypeOK, RunsCounted, RunsBounded,
          SubmitsExplained, OnceDisarmed, OnceCompleted, CancelledOff
    <3> QED
      BY <1>2, <3>1, <3>3, NextKeepsPool
  <2> QED
    BY <1>2, <2>1, <2>2, <2>3, <2>4 DEF SchedulerStep
<1> QED
  BY <1>1, <1>2, PTL DEF SchedulerSpec

(* The shape of the scheduler's state, for every set of jobs and tasks.    *)
THEOREM JobsTypeCorrect == SchedulerSpec => []JobsTypeOK
BY SchedulerCorrect, PTL DEF JobsInv

(* max_runs and ONCE are kept, and every submit the pool has counted is a  *)
(* retry or one run of one job, however executions overlap.                *)
THEOREM RunsAlwaysCounted == SchedulerSpec => []RunsCounted
BY SchedulerCorrect, PTL DEF JobsInv

(* The pool's statistics and its event stay right under a client that      *)
(* submits several tasks in one step, and one task more than once.         *)
THEOREM PoolCorrectBelowScheduler == SchedulerSpec => [](Accounting /\ EventCoversQueue)
BY SchedulerCorrect, PTL DEF PoolInv

(* A cancelled job is disabled for good, and a pass only takes enabled     *)
(* jobs: it is never submitted again.                                      *)
THEOREM CancelledJobsStayQuiet == SchedulerSpec => CancelledStaysQuiet
<1> DEFINE Quiet == \A j \in cancelled : runs'[j] = runs[j]
<1>1. ASSUME JobsInv, [PoolStep \/ SchedulerStep]_schedulerVars PROVE Quiet
  <2>1. CASE Pass
    BY <1>1, <2>1 DEF Pass, Due, JobsInv, JobsTypeOK, CancelledOff
  <2>2. CASE UNCHANGED runs
    BY <2>2
  <2> QED
    BY <1>1, <2>1, <2>2
    DEF PoolStep, SchedulerStep, StartScheduler, StopScheduler, ScheduleJob,
        CancelJob, ComesDue, schedulerVars, jobVars
<1>2. JobsInv /\ [PoolStep \/ SchedulerStep]_schedulerVars => [Quiet]_schedulerVars
  BY <1>1
<1> QED
  BY SchedulerCorrect, <1>2, PTL DEF SchedulerSpec, CancelledStaysQuiet

=============================================================================
