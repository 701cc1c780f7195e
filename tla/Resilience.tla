----------------------------- MODULE Resilience -----------------------------
(***************************************************************************)
(* core/infrastructure/resilience/patterns.py as a whole: the Bulkhead,    *)
(* the CircuitBreaker and the Resilience handler that wraps a function in  *)
(* both. `pattern` says which of the three a behaviour looks at: what the  *)
(* first two do to a call, refuse it, keep it waiting for ever or let its  *)
(* outcome through, is in a handler's attempt one of the ways it may end.  *)
(***************************************************************************)
EXTENDS Bulkhead, CircuitBreaker

CONSTANTS
  Handled,       \* calls of Resilience.execute
  MaxRetries,    \* max_retries
  Fallbacks      \* those of Handled that name a fallback

ASSUME ResilienceAssumption == MaxRetries \in Nat /\ Fallbacks \subseteq Handled

VARIABLES
  pattern,
  handling,   \* where each call of execute is
  attempt,    \* the loop's counter
  ran,        \* history: how often the function completed
  plain,      \* history: the calls whose function completed with a plain value
  slept,      \* history: the delay so far, in units of retry_delay
  answer      \* history: what a call returned

handlerVars == <<handling, attempt, ran, plain, slept, answer>>

HandlerInit ==
  /\ handling = [r \in Handled |-> "idle"]
  /\ attempt = [r \in Handled |-> 0]
  /\ ran = [r \in Handled |-> 0] /\ slept = [r \in Handled |-> 0]
  /\ plain = {} /\ answer = [r \in Handled |-> "none"]

Move(r, p) == handling' = [handling EXCEPT ![r] = p]

(* 2 ** attempt, the factor of the delay after that attempt.               *)
Doubled[n \in Nat] == IF n = 0 THEN 1 ELSE 2 * Doubled[n - 1]

(* The loop is over: the fallback, or the last error raised.               *)
GiveUp(r) == Move(r, IF r \in Fallbacks THEN "falling back" ELSE "raised")

Start(r) ==
  /\ handling[r] = "idle"
  /\ IF MaxRetries = 0 THEN GiveUp(r) ELSE Move(r, "attempting")
  /\ UNCHANGED <<attempt, ran, plain, slept, answer>>

(* Mutated form: a delay after the last attempt too.                       *)
FailDelaying(r) ==
  /\ slept' = [slept EXCEPT ![r] = @ + Doubled[attempt[r]]]
  /\ attempt' = [attempt EXCEPT ![r] = @ + 1]
  /\ IF attempt[r] + 1 < MaxRetries THEN Move(r, "sleeping") ELSE GiveUp(r)

(* except: the delay doubles, and there is none after the last attempt.    *)
Fail(r) ==
  /\ attempt' = [attempt EXCEPT ![r] = @ + 1]
  /\ IF attempt[r] + 1 < MaxRetries
       THEN Move(r, "sleeping") /\ slept' = [slept EXCEPT ![r] = @ + Doubled[attempt[r]]]
       ELSE GiveUp(r) /\ UNCHANGED slept

Completed(r) == ran' = [ran EXCEPT ![r] = @ + 1]

(* The attempt is refused by bulkhead or breaker, or the function raises;  *)
(* or it completes with a plain value, which wait_for cannot wait for: its *)
(* TypeError counts as a failure; or with an awaitable, awaited next. An   *)
(* attempt that hangs, as one behind a stuck breaker does, stays here: the *)
(* timeout has not begun.                                                  *)
Attempt(r) ==
  /\ handling[r] = "attempting"
  /\ \/ Fail(r) /\ UNCHANGED <<ran, plain>>
     \/ Fail(r) /\ Completed(r) /\ plain' = plain \cup {r}
     \/ Move(r, "awaiting") /\ Completed(r) /\ UNCHANGED <<attempt, plain, slept>>
  /\ UNCHANGED answer

Awaited(r) ==
  /\ handling[r] = "awaiting"
  /\ \/ /\ Move(r, "returned")
        /\ answer' = [answer EXCEPT ![r] = "awaited"]
        /\ UNCHANGED <<attempt, slept>>
     \/ Fail(r) /\ UNCHANGED answer
  /\ UNCHANGED <<ran, plain>>

WakeUp(r) ==
  /\ handling[r] = "sleeping"
  /\ Move(r, "attempting")
  /\ UNCHANGED <<attempt, ran, plain, slept, answer>>

(* The fallback's own exception gives way to the last error.               *)
Fallback(r) ==
  /\ handling[r] = "falling back"
  /\ \/ Move(r, "returned") /\ answer' = [answer EXCEPT ![r] = "fallback"]
     \/ Move(r, "raised") /\ UNCHANGED answer
  /\ UNCHANGED <<attempt, ran, plain, slept>>

(* CancelledError is no Exception: it leaves at once, from anywhere.       *)
Abandon(r) ==
  /\ handling[r] \notin {"idle", "returned", "raised", "cancelled"}
  /\ Move(r, "cancelled")
  /\ UNCHANGED <<attempt, ran, plain, slept, answer>>

HandlerNext == \E r \in Handled :
  Start(r) \/ Attempt(r) \/ Awaited(r) \/ WakeUp(r) \/ Fallback(r) \/ Abandon(r)

-----------------------------------------------------------------------------
ResilienceInit ==
  /\ pattern \in {"bulkhead", "breaker", "handler"}
  /\ Init /\ BreakerInit /\ HandlerInit

BulkheadUsed == pattern = "bulkhead" /\ Next /\ UNCHANGED <<pattern, breakerVars, handlerVars>>
BreakerUsed  == pattern = "breaker" /\ BreakerNext /\ UNCHANGED <<pattern, vars, handlerVars>>
HandlerUsed  == pattern = "handler" /\ HandlerNext /\ UNCHANGED <<pattern, vars, breakerVars>>

resilienceVars == <<pattern, vars, breakerVars, handlerVars>>

ResilienceNext == BulkheadUsed \/ BreakerUsed \/ HandlerUsed

(* Fair to the bulkhead's callers, as Bulkhead says; nothing is asked of   *)
(* the other two.                                                          *)
ResilienceSpec == ResilienceInit /\ [][ResilienceNext]_resilienceVars /\ Fairness

-----------------------------------------------------------------------------
(* A call gives up only after every attempt; its delays double from one    *)
(* attempt to the next and there are exactly as many as attempts that were *)
(* followed by another. The function completes at most once per attempt.   *)
RetriesHold == \A r \in Handled :
  /\ attempt[r] <= MaxRetries /\ ran[r] <= attempt[r] + 1
  /\ handling[r] \in {"falling back", "raised"} \/ answer[r] = "fallback" => attempt[r] = MaxRetries
  /\ handling[r] \in {"attempting", "awaiting", "sleeping"} => slept[r] = Doubled[attempt[r]] - 1
  /\ handling[r] \in {"falling back", "raised"} /\ MaxRetries > 0 => slept[r] = Doubled[MaxRetries - 1] - 1

(* execute returns what its function returns: a call whose function has    *)
(* completed with a plain value does not end with an error, as the test    *)
(* that combines the patterns asserts. It does: wait_for cannot wait for   *)
(* the value, and the function is run again until the attempts are over.   *)
PlainReturned == \A r \in plain : handling[r] # "raised"

(* What makes it inductive: where a call stands in each of the places it   *)
(* can be in.                                                              *)
HandlerPlaces == {"idle", "attempting", "awaiting", "sleeping", "falling back",
                  "returned", "raised", "cancelled"}
HandlerTypeOK ==
  /\ handling \in [Handled -> HandlerPlaces]
  /\ attempt \in [Handled -> 0..MaxRetries]
  /\ ran \in [Handled -> Nat] /\ slept \in [Handled -> Nat]
  /\ answer \in [Handled -> {"none", "awaited", "fallback"}]

Standing(r) ==
  /\ handling[r] = "idle" => attempt[r] = 0 /\ ran[r] = 0 /\ slept[r] = 0
  /\ handling[r] \in {"attempting", "awaiting", "sleeping"} => attempt[r] < MaxRetries
  /\ handling[r] \in {"attempting", "sleeping", "falling back"} => ran[r] <= attempt[r]
  /\ handling[r] = "awaiting" => ran[r] > 0
  /\ answer[r] # "none" => handling[r] = "returned"

HandlerInv == HandlerTypeOK /\ RetriesHold /\ \A r \in Handled : Standing(r)

(* Whoever waits for a permit or for the breaker's lock keeps its place:   *)
(* permits go to the first that waits, and nobody passes a caller that is  *)
(* stuck.                                                                  *)
NobodyPasses == HandOver /\ NothingPassesStuck
=============================================================================
