---------------------------- MODULE MessageRouter ----------------------------
(***************************************************************************)
(* MessageRouter of core/infrastructure/messaging/router.py with the three *)
(* middlewares of get_message_router: validation, logging, retry. route    *)
(* holds the asyncio lock, which is FIFO, while the handlers run; add_rule *)
(* and remove_rule do not take it and so may come in between.              *)
(***************************************************************************)
EXTENDS Integers, Sequences, SequencesExt, FiniteSets

CONSTANTS
  Messages,    \* Message objects
  Keys,        \* routing keys
  KeyOf(_),    \* message.routing_key
  Empty,       \* messages with an empty body
  Rules,       \* RoutingRule objects, one handler each; a rule is its own name
  Priority(_), \* rule.priority
  Matches(_, _),  \* rule.matches(key)
  Default,     \* {the default handler} or {}
  MaxRetries,  \* RetryMiddleware.max_retries
  MaxCalls     \* bound: calls of route

ASSUME RouterAssumption ==
  /\ MaxRetries \in Nat
  /\ \A m \in Messages : KeyOf(m) \in Keys
  /\ \A r \in Rules : Priority(r) \in Int
  /\ IsFiniteSet(Default) /\ Cardinality(Default) <= 1

VARIABLES
  rules,      \* _rules
  cache,      \* _handler_cache: key -> list of rules, for the cached keys
  waiting,    \* messages of the route calls waiting for the lock, in order
  current,    \* the call holding the lock: << >> or <<[msg, todo]>>
  status,     \* message.status
  retries,    \* message.retries
  stats,      \* _stats: per key, total_successful and total_failed
  calls,      \* history variable: calls of route made
  ends,       \* history variable: per message, how its calls ended
  tried,      \* history variable: rules the current call has found and tried
  handed,     \* history variable: calls that handed each message to handlers
  cutOff      \* history variable: those of them that were cancelled

attemptVars == <<handed, cutOff>>
routerVars == <<rules, cache, waiting, current, status, retries, stats, calls, ends, tried, attemptVars>>

RouterInit ==
  /\ rules = <<>>
  /\ cache = [k \in {} |-> <<>>]
  /\ waiting = <<>>
  /\ current = <<>>
  /\ status = [m \in Messages |-> "pending"]
  /\ retries = [m \in Messages |-> 0]
  /\ stats = [k \in Keys |-> [ok |-> 0, failed |-> 0]]
  /\ calls = 0
  /\ ends = [m \in Messages |-> [processed |-> 0, refused |-> 0, unhandled |-> 0, failed |-> 0]]
  /\ tried = <<>>
  /\ handed = [m \in Messages |-> 0] /\ cutOff = [m \in Messages |-> 0]

NoKeys == [k \in {} |-> <<>>]

(* _rules.sort(key=priority, reverse=True) is stable: a new rule goes      *)
(* behind those of its own priority, before the first of a lower one.      *)
Place(r) ==
  CHOOSE p \in 1..(Len(rules) + 1) :
    /\ \A i \in 1..(p - 1) : Priority(rules[i]) >= Priority(r)
    /\ p <= Len(rules) => Priority(rules[p]) < Priority(r)

Inserted(r) == InsertAt(rules, Place(r), r)

(* The list comprehension of remove_rule: r stands in the list once.       *)
WithoutRule(r) == RemoveAt(rules, CHOOSE i \in DOMAIN rules : rules[i] = r)

AddRule(r) ==
  /\ r \notin Range(rules)
  /\ rules' = Inserted(r)
  /\ cache' = NoKeys
  /\ UNCHANGED <<waiting, current, status, retries, stats, calls, ends, tried, attemptVars>>

(* Mutated form: remove_rule forgetting the cache. *)
RemoveRuleKeepingCache(r) ==
  /\ r \in Range(rules)
  /\ rules' = WithoutRule(r)
  /\ UNCHANGED <<cache, waiting, current, status, retries, stats, calls, ends, tried, attemptVars>>

RemoveRule(r) ==
  /\ r \in Range(rules)
  /\ rules' = WithoutRule(r)
  /\ cache' = NoKeys
  /\ UNCHANGED <<waiting, current, status, retries, stats, calls, ends, tried, attemptVars>>

(* route(m) reaches async with self._lock.                                 *)
Route(m) ==
  /\ calls < MaxCalls
  /\ calls' = calls + 1
  /\ waiting' = Append(waiting, m)
  /\ UNCHANGED <<rules, cache, current, status, retries, stats, ends, tried, attemptVars>>

(* _find_handlers: what it returns and leaves in the cache. The loop takes *)
(* the rules one by one.                                                   *)
Matching(k) ==
  LET kept[i \in 0..Len(rules)] ==
        IF i = 0 THEN <<>>
        ELSE IF Matches(rules[i], k) THEN Append(kept[i - 1], rules[i]) ELSE kept[i - 1]
  IN  kept[Len(rules)]

Found(k)    == IF k \in DOMAIN cache THEN cache[k] ELSE Matching(k)

UpdateStats(m, success) ==
  stats' = IF success THEN [stats EXCEPT ![KeyOf(m)].ok = @ + 1]
                      ELSE [stats EXCEPT ![KeyOf(m)].failed = @ + 1]

(* Mutated form: off by one in the comparison with the limit. *)
ExhaustedLater(m) == retries[m] > MaxRetries + 1

(* The middlewares in the order get_message_router adds them.              *)
Valid(m)     == m \notin Empty
Exhausted(m) == retries[m] > MaxRetries

TakeLock ==
  /\ current = <<>>
  /\ waiting # <<>>
  /\ waiting' = Tail(waiting)

Refuse ==
  /\ TakeLock
  /\ LET m == Head(waiting) IN
       /\ ~Valid(m) \/ Exhausted(m)
       /\ status' = IF Valid(m) THEN [status EXCEPT ![m] = "dead_lettered"] ELSE status
       /\ UpdateStats(m, FALSE)
       /\ ends' = [ends EXCEPT ![m].refused = @ + 1]
  /\ UNCHANGED <<rules, cache, current, retries, calls, tried, attemptVars>>

Lookup(k) == cache' = [x \in DOMAIN cache \cup {k} |-> IF x = k THEN Found(k) ELSE cache[x]]

HandlersFor(k) == IF Found(k) = <<>> THEN SetToSeq(Default) ELSE Found(k)

(* The early return: after_route does not run, so the retry is not counted.*)
NoHandler ==
  /\ TakeLock
  /\ LET m == Head(waiting) IN
       /\ Valid(m) /\ ~Exhausted(m)
       /\ HandlersFor(KeyOf(m)) = <<>>
       /\ Lookup(KeyOf(m))
       /\ status' = [status EXCEPT ![m] = "failed"]
       /\ UpdateStats(m, FALSE)
       /\ ends' = [ends EXCEPT ![m].unhandled = @ + 1]
  /\ UNCHANGED <<rules, current, retries, calls, tried, attemptVars>>

(* The list of handlers is a copy: later changes of the rules do not reach *)
(* the call.                                                               *)
Begin ==
  /\ TakeLock
  /\ LET m == Head(waiting) IN
       /\ Valid(m) /\ ~Exhausted(m)
       /\ HandlersFor(KeyOf(m)) # <<>>
       /\ Lookup(KeyOf(m))
       /\ current' = <<[msg |-> m, todo |-> HandlersFor(KeyOf(m))]>>
  /\ tried' = <<>>
  /\ handed' = [handed EXCEPT ![Head(waiting)] = @ + 1]
  /\ UNCHANGED <<rules, status, retries, stats, calls, ends, cutOff>>

Call == current[1]

(* after_route, _update_stats and the end of the call.                     *)
Return(success) ==
  LET m == Call.msg IN
  /\ current' = <<>>
  /\ retries' = IF success THEN retries ELSE [retries EXCEPT ![m] = @ + 1]
  /\ UpdateStats(m, success)
  /\ ends' = IF success THEN [ends EXCEPT ![m].processed = @ + 1]
                        ELSE [ends EXCEPT ![m].failed = @ + 1]

(* A handler accepts the message and succeeds: the loop breaks.            *)
HandlerSucceeds ==
  /\ current # <<>>
  /\ status' = [status EXCEPT ![Call.msg] = "processed"]
  /\ tried' = Append(tried, Head(Call.todo))
  /\ Return(TRUE)
  /\ UNCHANGED <<rules, cache, waiting, calls, attemptVars>>

(* can_handle or handle returns False (the status stays), or raises.       *)
HandlerFails ==
  /\ current # <<>>
  /\ status' \in {status, [status EXCEPT ![Call.msg] = "failed"]}
  /\ tried' = Append(tried, Head(Call.todo))
  /\ IF Len(Call.todo) > 1
     THEN /\ current' = <<[Call EXCEPT !.todo = Tail(@)]>>
          /\ UNCHANGED <<retries, stats, ends>>
     ELSE Return(FALSE)
  /\ UNCHANGED <<rules, cache, waiting, calls, attemptVars>>

(* The caller is cancelled at a handler's await, or the handler lets a     *)
(* CancelledError through: the lock is released, the rest of route, with   *)
(* after_route, is skipped.                                                *)
CallerCancelled ==
  /\ current # <<>>
  /\ current' = <<>>
  /\ cutOff' = [cutOff EXCEPT ![Call.msg] = @ + 1]
  /\ UNCHANGED <<rules, cache, waiting, status, retries, stats, calls, ends, tried, handed>>

WaiterCancelled(i) ==
  /\ waiting' = RemoveAt(waiting, i)
  /\ UNCHANGED <<rules, cache, current, status, retries, stats, calls, ends, tried, attemptVars>>

RouterNext ==
  \/ \E r \in Rules : AddRule(r) \/ RemoveRule(r)
  \/ \E m \in Messages : Route(m)
  \/ Refuse \/ NoHandler \/ Begin
  \/ HandlerSucceeds \/ HandlerFails \/ CallerCancelled
  \/ \E i \in DOMAIN waiting : WaiterCancelled(i)

-----------------------------------------------------------------------------
RouterTypeOK ==
  /\ rules \in Seq(Rules)
  /\ DOMAIN cache \subseteq Keys /\ \A k \in DOMAIN cache : cache[k] \in Seq(Rules)
  /\ waiting \in Seq(Messages)
  /\ Len(current) <= 1
  /\ current \in Seq([msg : Messages, todo : Seq(Rules \cup Default)])
  /\ \A i \in DOMAIN current : current[i].todo # <<>>
  /\ status \in [Messages -> {"pending", "processed", "failed", "dead_lettered"}]
  /\ retries \in [Messages -> Nat]
  /\ stats \in [Keys -> [ok : Nat, failed : Nat]]
  /\ ends \in [Messages -> [{"processed", "refused", "unhandled", "failed"} -> Nat]]
  /\ tried \in Seq(Rules \cup Default)

(* A cached list is what the rules of the moment select for the key, in    *)
(* the order of the rules, whatever rules were added or removed during a   *)
(* route.                                                                  *)
CacheFresh == \A k \in DOMAIN cache : cache[k] = Matching(k)

(* No rule is tried before one of a higher priority in the same call.      *)
PriorityFirst ==
  current # <<>> =>
    LET order == tried \o Call.todo
        prio(x) == IF x \in Rules THEN Priority(x) ELSE 0
    IN  \A i, j \in DOMAIN order : i < j => prio(order[i]) >= prio(order[j])

(* The retry count is the number of calls that came to their end with      *)
(* every handler of the message failing, and never more than one above the *)
(* limit, however the calls queue up behind the lock.                      *)
RetriesAreFailures ==
  \A m \in Messages : retries[m] = ends[m].failed /\ retries[m] <= MaxRetries + 1

(* So handlers are given a message again beyond MaxRetries only after a    *)
(* success or after a call that was cancelled: those skip after_route, are *)
(* not counted, and nothing bounds how many there may be.                  *)
AttemptsBounded ==
  \A m \in Messages : handed[m] <= MaxRetries + 1 + ends[m].processed + cutOff[m]

(* The ends of those kinds that calls for the key's messages came to, one  *)
(* by one.                                                                 *)
Ended(k, kinds) ==
  UNION {{e} \X (1..ends[e[1]][e[2]]) : e \in {m \in Messages : KeyOf(m) = k} \X kinds}

(* The counters of a key are the ends of its messages' calls.              *)
StatsAddUp ==
  \A k \in Keys :
    /\ stats[k].ok = Cardinality(Ended(k, {"processed"}))
    /\ stats[k].failed = Cardinality(Ended(k, {"refused", "unhandled", "failed"}))

(* The router's lists and counters agree with its rules and calls.         *)
Consistent == CacheFresh /\ PriorityFirst /\ StatsAddUp

(* Retries end, as far as the middleware sees them: every step keeps the   *)
(* count that of the failures and the attempts bounded by it, successes    *)
(* and cancelled calls apart; and one that finds a message dead-lettered   *)
(* leaves it so, whatever calls for it are still in the queue.             *)
RetriesEnd ==
  [][/\ RetriesAreFailures' /\ AttemptsBounded'
     /\ \A m \in Messages : status[m] = "dead_lettered" => status'[m] = "dead_lettered"]_routerVars

(* What makes them inductive: the rules are in the order of their          *)
(* priorities, once each; a message that the lock is held for has retries  *)
(* left, and one that is dead-lettered has none; the ends are countable.   *)
RulesSorted ==
  /\ IsInjective(rules)
  /\ \A i, j \in DOMAIN rules : i < j => Priority(rules[i]) >= Priority(rules[j])

DeadAreExhausted ==
  /\ current # <<>> => ~Exhausted(Call.msg)
  /\ \A m \in Messages : status[m] = "dead_lettered" => Exhausted(m)

(* A call that has handed its message over is under way, has come to an    *)
(* end, or was cancelled.                                                  *)
AttemptsExplained ==
  /\ handed \in [Messages -> Nat] /\ cutOff \in [Messages -> Nat]
  /\ \A m \in Messages :
       handed[m] = ends[m].processed + ends[m].failed + cutOff[m]
                   + (IF current # <<>> /\ Call.msg = m THEN 1 ELSE 0)

FewEnds == \A k \in Keys : IsFiniteSet(Ended(k, {"processed", "refused", "unhandled", "failed"}))

RouterInv ==
  /\ RouterTypeOK /\ RulesSorted /\ CacheFresh /\ PriorityFirst
  /\ RetriesAreFailures /\ DeadAreExhausted /\ StatsAddUp /\ FewEnds
=============================================================================
