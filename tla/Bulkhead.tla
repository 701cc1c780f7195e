------------------------------ MODULE Bulkhead ------------------------------
(***************************************************************************)
(* Bulkhead of core/infrastructure/resilience/patterns.py, over the        *)
(* asyncio.Semaphore and asyncio.wait_for of Python 3.11 it is built from. *)
(*                                                                         *)
(* execute runs `semaphore.acquire()` as a task of its own under wait_for, *)
(* then the function, then gives the permit back.  The bodies of           *)
(* `async with self._lock` never suspend: the lock is always free and the  *)
(* statistics change in the same step as the code around them.  Nothing is *)
(* ever put on self._queue, so its full() is FALSE and no call is turned   *)
(* away before it asks for a permit.                                       *)
(***************************************************************************)
EXTENDS Naturals, FiniteSets

CONSTANTS
  Callers,        \* the tasks that call execute
  Max,            \* config.max_concurrent_calls
  MaxCalls        \* bound: calls of execute

ASSUME BulkheadAssumption ==
  /\ IsFiniteSet(Callers)
  /\ Max \in Nat
  /\ MaxCalls \in Nat

VARIABLES
  pc,         \* where each caller is
  value,      \* semaphore._value
  before,     \* pairs <<c, d>>: c was appended to semaphore._waiters before d
  active, total, successful, failed, rejected,   \* self.metrics
  calls,      \* history: how many calls of execute there have been
  dropped     \* history: calls cancelled while their function was running

metrics == <<active, total, successful, failed, rejected>>
vars == <<pc, value, before, metrics, calls, dropped>>

At(p)   == {c \in Callers : pc[c] = p}
Queued  == At("queued")     \* in _waiters, the future not done
Granted == At("granted")    \* in _waiters, the future done, not resumed yet
Owners  == {c \in Callers : pc[c] \in {"granted", "acquired", "running"}}

Init ==
  /\ pc = [c \in Callers |-> "idle"]
  /\ value = Max
  /\ before = {}
  /\ active = 0 /\ total = 0 /\ successful = 0 /\ failed = 0 /\ rejected = 0
  /\ calls = 0 /\ dropped = 0

-----------------------------------------------------------------------------
(* The semaphore.                                                          *)

Forget(c) == {p \in before : c \notin {p[1], p[2]}}

(* Mutated form: whichever waiter.                                         *)
AnyNext(d) == d \in Queued

IsNext(d) == d \in Queued /\ \A c \in Queued : <<c, d>> \notin before

(* c moves to p giving a permit back: _value += 1 and _wake_up_next, which *)
(* grants the permit to the first waiter whose future is not done.         *)
GiveBack(c, p) ==
  /\ before' = Forget(c)
  /\ \/ /\ Queued \ {c} = {}
        /\ value' = value + 1
        /\ pc' = [pc EXCEPT ![c] = p]
     \/ \E d \in Queued \ {c} :
          /\ IsNext(d)
          /\ value' = value
          /\ pc' = [pc EXCEPT ![c] = p, ![d] = "granted"]

Locked == value = 0 \/ Queued # {} \/ Granted # {}

(* Mutated form: the permits are not counted.                              *)
AskUnlocked(c) ==
  /\ pc[c] = "asking"
  /\ value' = value - 1
  /\ pc' = [pc EXCEPT ![c] = "acquired"]
  /\ UNCHANGED <<before, metrics, calls, dropped>>

(* acquire: take a permit at once, or wait at the end of the queue.        *)
Ask(c) ==
  /\ pc[c] = "asking"
  /\ \/ /\ ~Locked
        /\ value' = value - 1
        /\ pc' = [pc EXCEPT ![c] = "acquired"]
        /\ UNCHANGED before
     \/ /\ Locked
        /\ pc' = [pc EXCEPT ![c] = "queued"]
        /\ before' = before \cup {<<d, c>> : d \in Queued \cup Granted}
        /\ UNCHANGED value
  /\ UNCHANGED <<metrics, calls, dropped>>

(* A granted waiter resumes; if permits are left it wakes the next one.    *)
Resume(c) ==
  /\ pc[c] = "granted"
  /\ before' = Forget(c)
  /\ \/ /\ value = 0 \/ Queued = {}
        /\ pc' = [pc EXCEPT ![c] = "acquired"]
        /\ UNCHANGED value
     \/ /\ value > 0
        /\ \E d \in Queued :
             /\ IsNext(d)
             /\ pc' = [pc EXCEPT ![c] = "acquired", ![d] = "granted"]
        /\ value' = value - 1
  /\ UNCHANGED <<metrics, calls, dropped>>

-----------------------------------------------------------------------------
(* Bulkhead.execute.                                                       *)

Execute(c) ==
  /\ pc[c] = "idle"
  /\ calls < MaxCalls
  /\ calls' = calls + 1
  /\ pc' = [pc EXCEPT ![c] = "asking"]
  /\ UNCHANGED <<value, before, metrics, dropped>>

Enter(c) ==
  /\ pc[c] = "acquired"
  /\ pc' = [pc EXCEPT ![c] = "running"]
  /\ active' = active + 1
  /\ total' = total + 1
  /\ UNCHANGED <<value, before, successful, failed, rejected, calls, dropped>>

(* Mutated form: a permit granted during the timeout is not given back.    *)
WaitTimesOutLeaking(c) ==
  /\ pc[c] \in {"queued", "granted"}
  /\ pc' = [pc EXCEPT ![c] = "idle"]
  /\ before' = Forget(c)
  /\ rejected' = rejected + 1
  /\ UNCHANGED <<value, active, total, successful, failed, calls, dropped>>

(* The wait for a permit is over its limit.  The acquire task is cancelled; *)
(* when its permit had just been granted, acquire gives it back.           *)
WaitTimesOut(c) ==
  /\ \/ /\ pc[c] = "queued"
        /\ pc' = [pc EXCEPT ![c] = "idle"]
        /\ before' = Forget(c)
        /\ UNCHANGED value
     \/ /\ pc[c] = "granted"
        /\ GiveBack(c, "idle")
  /\ rejected' = rejected + 1
  /\ UNCHANGED <<active, total, successful, failed, calls, dropped>>

(* Mutated form: the permit is only given back when the function succeeds. *)
FinishNoFinally(c) ==
  /\ pc[c] = "running"
  /\ \/ /\ GiveBack(c, "idle")
        /\ successful' = successful + 1
        /\ UNCHANGED <<failed, rejected>>
     \/ /\ pc' = [pc EXCEPT ![c] = "idle"]
        /\ failed' = failed + 1
        /\ UNCHANGED <<value, before, successful, rejected>>
  /\ active' = active - 1
  /\ UNCHANGED <<total, calls, dropped>>

(* The function returns, raises, or raises a TimeoutError: the last one    *)
(* also reaches the handler of the wait's own timeout.                     *)
Finish(c) ==
  /\ pc[c] = "running"
  /\ GiveBack(c, "idle")
  /\ active' = active - 1
  /\ \/ successful' = successful + 1 /\ UNCHANGED <<failed, rejected>>
     \/ failed' = failed + 1 /\ UNCHANGED <<successful, rejected>>
     \/ failed' = failed + 1 /\ rejected' = rejected + 1 /\ UNCHANGED successful
  /\ UNCHANGED <<total, calls, dropped>>

(* The caller is cancelled.  Once the acquire task is done, wait_for       *)
(* returns its result all the same; in the function, only `finally` runs.  *)
Cancel(c) ==
  /\ \/ /\ pc[c] \in {"asking", "queued"}
        /\ pc' = [pc EXCEPT ![c] = "idle"]
        /\ before' = Forget(c)
        /\ UNCHANGED <<value, active, dropped>>
     \/ /\ pc[c] = "granted"
        /\ GiveBack(c, "idle")
        /\ UNCHANGED <<active, dropped>>
     \/ /\ pc[c] = "running"
        /\ GiveBack(c, "idle")
        /\ active' = active - 1
        /\ dropped' = dropped + 1
  /\ UNCHANGED <<total, successful, failed, rejected, calls>>

-----------------------------------------------------------------------------
Next == \E c \in Callers :
  \/ Execute(c) \/ Ask(c) \/ Resume(c) \/ Enter(c) \/ WaitTimesOut(c)
  \/ Finish(c) \/ Cancel(c)

Spec == Init /\ [][Next]_vars

(* Coroutines that can run do, and the protected functions end.  No waiter *)
(* is taken to time out.                                                   *)
Fairness == \A c \in Callers :
  WF_vars(Ask(c)) /\ WF_vars(Resume(c)) /\ WF_vars(Enter(c)) /\ WF_vars(Finish(c))

-----------------------------------------------------------------------------
(* The shape of the state.                                                 *)
TypeOK ==
  /\ pc \in [Callers -> {"idle", "asking", "queued", "granted", "acquired", "running"}]
  /\ value \in Nat
  /\ before \subseteq Callers \X Callers
  /\ active \in Nat /\ total \in Nat /\ successful \in Nat
  /\ failed \in Nat /\ rejected \in Nat
  /\ calls \in Nat /\ dropped \in Nat

(* Permits are neither lost nor made up, whatever times out or is          *)
(* cancelled in the window between the grant and the resumption.           *)
PermitsConserved == value + Cardinality(Owners) = Max

(* active_calls counts the functions running, and every call that got in   *)
(* has one outcome: running, successful, failed or cancelled.              *)
MetricsAddUp ==
  /\ active = Cardinality(At("running"))
  /\ total = active + successful + failed + dropped

(* Permits and metrics stay true to the calls there are.                   *)
Conserved == PermitsConserved /\ MetricsAddUp

(* What the proofs carry from step to step.                                *)
BulkheadInv == TypeOK /\ PermitsConserved /\ MetricsAddUp

(* No permit lies idle beside a waiter unless a wakeup is on its way.      *)
NoIdlePermit == value > 0 /\ Queued # {} => Granted # {}

(* A permit goes from one call to the next without pause, and a call never *)
(* overtakes one that was waiting when it arrived.                         *)
HandOver ==
  [][/\ NoIdlePermit'
     /\ \A c, d \in Queued : <<c, d>> \in before /\ pc'[d] = "granted" => pc'[c] # "queued"]_vars

(* Calls that wait are let in as long as the functions before them end,    *)
(* without the help of their own timeout.                                  *)
WaitersGetIn == \A c \in Callers : pc[c] = "queued" ~> pc[c] \in {"running", "idle"}

(* The bulkhead implements Isolation: the free permits are the value of    *)
(* the semaphore, the calls inside are those granted a permit.             *)
Promise == INSTANCE Isolation WITH inside <- Owners, permits <- value
Isolates == Promise!IsolationSpec

=============================================================================
