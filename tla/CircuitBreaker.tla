--------------------------- MODULE CircuitBreaker ---------------------------
(***************************************************************************)
(* CircuitBreaker of core/infrastructure/resilience/patterns.py.           *)
(*                                                                         *)
(* self._lock is an asyncio.Lock, which is not re-entrant.  Apart from     *)
(* _transition, no body guarded by it suspends, so it is only ever found   *)
(* taken by the callers that come after one that called _transition from   *)
(* inside _record_success or _record_failure: that caller waits for the    *)
(* lock it holds itself.                                                   *)
(***************************************************************************)
EXTENDS Naturals, Sequences

CONSTANTS
  BreakerCallers,           \* the tasks that call the breaker
  FailureThreshold,  \* config.failure_threshold
  SuccessThreshold,  \* config.success_threshold
  HalfOpenMax,       \* config.half_open_max_calls
  WindowSize,        \* config.window_size
  MaxBreakerCalls           \* bound: calls made

ASSUME BreakerAssumption ==
  /\ FailureThreshold \in Nat \ {0} /\ SuccessThreshold \in Nat \ {0}
  /\ HalfOpenMax \in Nat /\ WindowSize \in Nat \ {0} /\ MaxBreakerCalls \in Nat

VARIABLES
  state,       \* self._state
  history,     \* self._call_history
  halfOpen,    \* self._half_open_calls
  lock,        \* the holder of self._lock, or Free
  where,          \* where each caller is
  successes, failures, changes,  \* self.metrics
  made        \* history: calls made

breakerVars == <<state, history, halfOpen, lock, where, successes, failures, changes, made>>
Free == "free"

(* Free is no caller: lock says whether, and by whom, the lock is held.    *)
ASSUME FreeIsNoCaller == Free \notin BreakerCallers

BreakerInit ==
  /\ state = "closed"
  /\ history = <<>>
  /\ halfOpen = 0
  /\ lock = Free
  /\ where = [c \in BreakerCallers |-> "idle"]
  /\ successes = 0 /\ failures = 0 /\ changes = 0
  /\ made = 0

Goto(c, p) == where' = [where EXCEPT ![c] = p]

(* Called with the lock free, _transition runs through.                    *)
Become(s) == state' = s /\ changes' = changes + 1

-----------------------------------------------------------------------------
Call(c) ==
  /\ where[c] = "idle"
  /\ made < MaxBreakerCalls
  /\ made' = made + 1
  /\ Goto(c, "entering")
  /\ UNCHANGED <<state, history, halfOpen, lock, successes, failures, changes>>

(* The gate: an open breaker whose timeout is not over rejects, and so     *)
(* does a half-open one that has let its quota in.                         *)
Gate(c) ==
  \E timeoutOver \in BOOLEAN :
    LET probing == state = "open" /\ timeoutOver
        tried   == IF probing THEN 0 ELSE halfOpen
        half    == probing \/ state = "half_open"
        refused == IF half THEN tried >= HalfOpenMax ELSE state = "open"
    IN
    /\ IF probing THEN Become("half_open") ELSE UNCHANGED <<state, changes>>
    /\ halfOpen' = IF half /\ ~refused THEN tried + 1 ELSE tried
    /\ Goto(c, IF refused THEN "idle" ELSE "calling")
    /\ UNCHANGED <<history, lock, successes, failures, made>>

PassGate(c) == where[c] = "entering" /\ lock = Free /\ Gate(c)

(* The protected function ends; its outcome is recorded under the lock.    *)
Return(c) ==
  /\ where[c] = "calling"
  /\ Goto(c, "succeeded") \/ Goto(c, "failed")
  /\ UNCHANGED <<state, history, halfOpen, lock, successes, failures, changes, made>>

(* The last n of a sequence, and how often it holds b.                     *)
LastOf(s, n) == IF Len(s) > n THEN SubSeq(s, Len(s) - n + 1, Len(s)) ELSE s
Count(s, b) == Len(SelectSeq(s, LAMBDA x : x = b))

Recorded(b) == LastOf(Append(history, b), WindowSize)

(* Recording ends, or goes on to _transition while it holds the lock.      *)
RecordEnds(c, transition) ==
  IF transition THEN lock' = c /\ Goto(c, "stuck")
                ELSE UNCHANGED lock /\ Goto(c, "idle")

RecordSuccess(c) ==
  /\ where[c] = "succeeded"
  /\ lock = Free
  /\ successes' = successes + 1
  /\ history' = Recorded(TRUE)
  /\ RecordEnds(c, /\ state = "half_open"
                   /\ Count(LastOf(history', SuccessThreshold), TRUE) >= SuccessThreshold)
  /\ UNCHANGED <<state, halfOpen, failures, changes, made>>

(* Mutated form: one failure early.                                        *)
RecordFailureEarly(c) ==
  /\ where[c] = "failed"
  /\ lock = Free
  /\ failures' = failures + 1
  /\ history' = Recorded(FALSE)
  /\ RecordEnds(c, Count(history', FALSE) + 1 >= FailureThreshold)
  /\ UNCHANGED <<state, halfOpen, successes, changes, made>>

RecordFailure(c) ==
  /\ where[c] = "failed"
  /\ lock = Free
  /\ failures' = failures + 1
  /\ history' = Recorded(FALSE)
  /\ RecordEnds(c, IF state = "closed" THEN Count(history', FALSE) >= FailureThreshold
                                       ELSE state = "half_open")
  /\ UNCHANGED <<state, halfOpen, successes, changes, made>>

(* A caller is cancelled; one that waits for itself lets the lock go.      *)
CancelCall(c) ==
  /\ where[c] # "idle"
  /\ Goto(c, "idle")
  /\ lock' = IF lock = c THEN Free ELSE lock
  /\ UNCHANGED <<state, history, halfOpen, successes, failures, changes, made>>

BreakerNext == \E c \in BreakerCallers :
  \/ Call(c) \/ PassGate(c) \/ Return(c) \/ RecordSuccess(c) \/ RecordFailure(c)
  \/ CancelCall(c)

BreakerSpec == BreakerInit /\ [][BreakerNext]_breakerVars

(* Whoever can run does, and protected functions end.                      *)
BreakerFairSpec == BreakerSpec /\ \A c \in BreakerCallers :
  /\ WF_breakerVars(PassGate(c)) /\ WF_breakerVars(Return(c))
  /\ WF_breakerVars(RecordSuccess(c)) /\ WF_breakerVars(RecordFailure(c))

-----------------------------------------------------------------------------
FailuresInWindow == Count(history, FALSE)

(* The lock is held exactly by a caller stuck in _transition, and one gets *)
(* stuck there only once the window holds failure_threshold failures.      *)
StuckAtThreshold ==
  \A c \in BreakerCallers :
    /\ lock = c <=> where[c] = "stuck"
    /\ where[c] = "stuck" => FailuresInWindow >= FailureThreshold

(* Since every way to _transition from the closed state goes through the   *)
(* held lock, the breaker never leaves that state: it rejects no call.     *)
NeverOpens == state = "closed" /\ changes = 0 /\ halfOpen = 0

(* Closed for good, and stuck only at the threshold.                       *)
BreakerHolds == NeverOpens /\ StuckAtThreshold

(* While one caller is stuck no call of any other enters or completes.     *)
NothingPassesStuck ==
  [][\A c, d \in BreakerCallers :
       where[c] = "stuck" /\ where'[c] = "stuck" =>
         /\ history' = history
         /\ where[d] = "entering" => where'[d] # "calling"]_breakerVars

(* Once the window holds failure_threshold failures the breaker opens.     *)
OpensOnFailures ==
  [](FailuresInWindow >= FailureThreshold => <>(state = "open"))

=============================================================================
