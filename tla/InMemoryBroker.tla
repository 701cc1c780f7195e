--------------------------- MODULE InMemoryBroker ---------------------------
(***************************************************************************)
(* InMemoryBroker of core/infrastructure/messaging/broker.py: bindings put *)
(* a message on queues of bounded length, a task per subscription is to    *)
(* take it off. Binding keys stand for exchange:routing_key.               *)
(***************************************************************************)
EXTENDS Naturals, Sequences, SequencesExt, FiniteSets

CONSTANTS
  Queues,
  BindingKeys,
  Callbacks,      \* callables that subscribe
  MaxLen,         \* maxlen of the deque, 1000 in the code
  MaxBindings,    \* bound: bindings per key (a queue may be bound twice)
  MaxPublished,   \* bound: messages published
  MaxSubscribed   \* bound: subscriptions

VARIABLES
  queues,        \* _queues: queue -> Seq of messages (numbers)
  bindings,      \* _bindings: key -> Seq of queues
  subscribers,   \* _subscribers: queue -> set of callbacks (and ids, see unsubscribe)
  consumers,     \* tasks of subscribe in their loop: set of [id, queue]
  brokerStats,   \* the MessageStats fields
  routed         \* history variable: queue -> messages put on it since it was last emptied

brokerVars == <<queues, bindings, subscribers, consumers, brokerStats, routed>>

Subscriptions == 1..MaxSubscribed

BrokerInit ==
  /\ queues = [q \in Queues |-> <<>>]
  /\ bindings = [k \in BindingKeys |-> <<>>]
  /\ subscribers = [q \in Queues |-> {}]
  /\ consumers = {}
  /\ brokerStats = [published |-> 0, consumed |-> 0, failed |-> 0,
                    inQueue |-> 0, maxSize |-> 0, subscriptions |-> 0]
  /\ routed = [q \in Queues |-> <<>>]

BindQueue(q, k) ==
  /\ Len(bindings[k]) < MaxBindings
  /\ bindings' = [bindings EXCEPT ![k] = Append(@, q)]
  /\ UNCHANGED <<queues, subscribers, consumers, brokerStats, routed>>

(* A full deque drops its oldest message.                                  *)
Longest(s) == IF Len(s) > MaxLen THEN SubSeq(s, Len(s) - MaxLen + 1, Len(s)) ELSE s

Copies(q, k) == Cardinality({i \in DOMAIN bindings[k] : bindings[k][i] = q})

Held(qs) == Cardinality(UNION {{q} \X DOMAIN qs[q] : q \in Queues})

(* publish counts the message as sent whether or not a queue is bound.     *)
Publish(k) ==
  LET m   == brokerStats.published + 1
      new == [q \in Queues |-> [i \in 1..Copies(q, k) |-> m]]
  IN
  /\ brokerStats.published < MaxPublished
  /\ queues' = [q \in Queues |-> Longest(queues[q] \o new[q])]
  /\ routed' = [q \in Queues |-> routed[q] \o new[q]]
  /\ brokerStats' = [brokerStats EXCEPT !.published = m, !.inQueue = Held(queues'),
                       !.maxSize = IF @ > Held(queues') THEN @ ELSE Held(queues')]
  /\ UNCHANGED <<bindings, subscribers, consumers>>

Emptied(q) ==
  /\ queues' = [queues EXCEPT ![q] = <<>>]
  /\ routed' = [routed EXCEPT ![q] = <<>>]
  /\ UNCHANGED <<bindings, subscribers, consumers, brokerStats>>

PurgeQueue(q)   == queues[q] # <<>> /\ Emptied(q)
DeclareQueue(q) == queues[q] # <<>> /\ Emptied(q)    \* a new deque, also for a queue in use

(* The set of the queue's subscribers gets the callback; the task's loop   *)
(* runs while the set holds the subscription's id.                         *)
Subscribe(q, c) ==
  /\ brokerStats.subscriptions < MaxSubscribed
  /\ subscribers' = [subscribers EXCEPT ![q] = @ \cup {c}]
  /\ brokerStats' = [brokerStats EXCEPT !.subscriptions = @ + 1]
  /\ consumers' = consumers \cup {[id |-> brokerStats.subscriptions + 1, queue |-> q]}
  /\ UNCHANGED <<queues, bindings, routed>>

Active(t) == t.id \in subscribers[t.queue]

(* One round of the loop of subscribe: the oldest message, if any, goes to *)
(* the callback, which returns or raises; it has left the queue either way.*)
(* An id is looked for among callables, so that no loop gets that far.     *)
ConsumerRound(t) ==
  IF Active(t)
  THEN /\ queues' = [queues EXCEPT ![t.queue] = IF @ = <<>> THEN @ ELSE Tail(@)]
       /\ brokerStats' \in IF queues[t.queue] = <<>> THEN {brokerStats}
                           ELSE {[brokerStats EXCEPT !.consumed = @ + 1],
                                 [brokerStats EXCEPT !.failed = @ + 1]}
       /\ UNCHANGED <<bindings, subscribers, consumers, routed>>
  ELSE /\ consumers' = consumers \ {t}
       /\ UNCHANGED <<queues, bindings, subscribers, brokerStats, routed>>

(* unsubscribe discards the id from the sets of callbacks.                 *)
Unsubscribe(id) ==
  /\ subscribers' = [q \in Queues |-> subscribers[q] \ {id}]
  /\ UNCHANGED <<queues, bindings, consumers, brokerStats, routed>>

BrokerNext ==
  \/ \E q \in Queues, k \in BindingKeys : BindQueue(q, k)
  \/ \E k \in BindingKeys : Publish(k)
  \/ \E q \in Queues : PurgeQueue(q) \/ DeclareQueue(q)
  \/ \E q \in Queues, c \in Callbacks : Subscribe(q, c)
  \/ \E id \in 1..brokerStats.subscriptions : Unsubscribe(id)
  \/ \E t \in consumers : ConsumerRound(t)

-----------------------------------------------------------------------------
BrokerTypeOK ==
  /\ queues \in [Queues -> Seq(1..brokerStats.published)]
  /\ routed \in [Queues -> Seq(1..brokerStats.published)]
  /\ bindings \in [BindingKeys -> Seq(Queues)]
  /\ subscribers \in [Queues -> SUBSET Callbacks]
  /\ consumers \subseteq [id : Subscriptions, queue : Queues]
  /\ brokerStats \in [published : Nat, consumed : Nat, failed : Nat, inQueue : Nat,
                      maxSize : Nat, subscriptions : 0..MaxSubscribed]

(* s is the end of t.                                                      *)
EndOf(s, t) == Len(s) <= Len(t) /\ \A i \in 1..Len(s) : s[i] = t[i + (Len(t) - Len(s))]

Taken == brokerStats.consumed + brokerStats.failed

(* A queue holds the end of what was routed to it since it was declared or  *)
(* purged, in publication order, once for each binding that existed at the *)
(* publish. What it no longer has was given up by the full deque or counted *)
(* as taken by a consumer. The high-water mark is never below what the     *)
(* queues hold.                                                            *)
QueuesHoldTheLatest ==
  /\ \A q \in Queues :
       /\ EndOf(queues[q], routed[q]) /\ Len(queues[q]) <= MaxLen
       /\ Len(queues[q]) + Taken >= IF Len(routed[q]) < MaxLen THEN Len(routed[q]) ELSE MaxLen
  /\ Held(queues) <= brokerStats.maxSize
=============================================================================
