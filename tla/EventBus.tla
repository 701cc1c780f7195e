------------------------------ MODULE EventBus ------------------------------
(***************************************************************************)
(* EventBus of core/interfaces/events: subscribers of one event type.      *)
(* publish makes one task per handler, which asyncio starts in the order   *)
(* they were made; publish_sync awaits the handlers one by one while it    *)
(* iterates over the list itself. subscribe appends to that list,          *)
(* unsubscribe replaces it by a new one, so `lists` holds every list the   *)
(* type has had: the last is the current one, a publish_sync under way may *)
(* still be walking an older one. Types share only the history.            *)
(***************************************************************************)
EXTENDS Naturals, Sequences, SequencesExt, FiniteSets

CONSTANTS
  Handlers,     \* EventHandler objects, each subscribed at most once
  MaxHistory,   \* max_history, 1000 in the code
  MaxEvents     \* bound: events published

ASSUME EventBusAssumption == MaxHistory \in Nat

VARIABLES
  lists,      \* Seq(Seq(Handlers)): the lists bound to the event type, oldest first
  history,    \* event_history: numbers of events
  tasks,      \* tasks of publish that have not started, <<handler, event>>
  walks,      \* publish_sync calls under way: [event, list, at]
  published,  \* history variable: per event, its mode and the handlers it is due to
  started,    \* history variable: per handler, the events it was started with
  cut,        \* history variable: events whose publish_sync was cancelled
  leftAt      \* history variable: events published when a handler unsubscribed

busVars == <<lists, history, tasks, walks, published, started, cut, leftAt>>

Subscribed == Last(lists)
Known(h)   == \E i \in DOMAIN lists : h \in Range(lists[i])

EventType(e) == published[e].mode

BusInit ==
  /\ lists = << <<>> >>
  /\ history = <<>>
  /\ tasks = <<>>
  /\ walks = {}
  /\ published = <<>>
  /\ started = [h \in Handlers |-> <<>>]
  /\ cut = {}
  /\ leftAt = [h \in {} |-> 0]

(* self.handlers[event_type].append(event_handler): in the current list.   *)
Subscribe(h) ==
  /\ ~Known(h)
  /\ lists' = [lists EXCEPT ![Len(lists)] = Append(@, h)]
  /\ UNCHANGED <<history, tasks, walks, published, started, cut, leftAt>>

(* The list comprehension of unsubscribe: h stands in the list once.       *)
Without(h) == RemoveAt(Subscribed, CHOOSE i \in DOMAIN Subscribed : Subscribed[i] = h)

(* Mutated form: unsubscribe removing from the list itself. *)
UnsubscribeInPlace(h) ==
  /\ h \in Range(Subscribed)
  /\ lists' = [lists EXCEPT ![Len(lists)] = Without(h)]
  /\ leftAt' = [g \in DOMAIN leftAt \cup {h} |-> IF g = h THEN Len(published) ELSE leftAt[g]]
  /\ UNCHANGED <<history, tasks, walks, published, started, cut>>

(* A new list without the handler; a walk goes on over the old one.        *)
Unsubscribe(h) ==
  /\ h \in Range(Subscribed)
  /\ lists' = Append(lists, Without(h))
  /\ leftAt' = [g \in DOMAIN leftAt \cup {h} |-> IF g = h THEN Len(published) ELSE leftAt[g]]
  /\ UNCHANGED <<history, tasks, walks, published, started, cut>>

Remember(e) ==
  LET longer == Append(history, e)
  IN  history' = IF Len(longer) > MaxHistory THEN Tail(longer) ELSE longer

NewEvent(mode) ==
  /\ Len(published) < MaxEvents
  /\ published' = Append(published, [mode |-> mode, due |-> Range(Subscribed)])
  /\ Remember(Len(published) + 1)

Start(h, e) == started' = [started EXCEPT ![h] = Append(@, e)]

Publish ==
  /\ NewEvent("async")
  /\ tasks' = tasks \o [i \in DOMAIN Subscribed |-> <<Subscribed[i], Len(published) + 1>>]
  /\ UNCHANGED <<lists, walks, started, cut, leftAt>>

(* Mutated form: the newest task first. *)
StartNewestTask ==
  /\ tasks # <<>>
  /\ Start(Last(tasks)[1], Last(tasks)[2])
  /\ tasks' = Front(tasks)
  /\ UNCHANGED <<lists, history, walks, published, cut, leftAt>>

(* The event loop starts the oldest task. What the handler raises is       *)
(* logged; nobody waits for its end.                                       *)
StartTask ==
  /\ tasks # <<>>
  /\ Start(Head(tasks)[1], Head(tasks)[2])
  /\ tasks' = Tail(tasks)
  /\ UNCHANGED <<lists, history, walks, published, cut, leftAt>>

(* The first handler runs at once, in the publisher's own step.            *)
PublishSync ==
  /\ NewEvent("sync")
  /\ IF Subscribed = <<>>
     THEN UNCHANGED <<walks, started>>
     ELSE /\ walks' = walks \cup {[event |-> Len(published) + 1, list |-> Len(lists), at |-> 1]}
          /\ Start(Head(Subscribed), Len(published) + 1)
  /\ UNCHANGED <<lists, tasks, cut, leftAt>>

(* The handler awaited by w returned or raised: the iteration looks at the *)
(* list again, as it is now.                                               *)
NextHandler(w) ==
  /\ w.at < Len(lists[w.list])
  /\ walks' = (walks \ {w}) \cup {[w EXCEPT !.at = @ + 1]}
  /\ Start(lists[w.list][w.at + 1], w.event)
  /\ UNCHANGED <<lists, history, tasks, published, cut, leftAt>>

SyncReturns(w) ==
  /\ w.at >= Len(lists[w.list])
  /\ walks' = walks \ {w}
  /\ UNCHANGED <<lists, history, tasks, published, started, cut, leftAt>>

(* The publisher is cancelled while it waits for a handler: CancelledError *)
(* is no Exception and leaves handle and publish_sync.                     *)
PublisherCancelled(w) ==
  /\ walks' = walks \ {w}
  /\ cut' = cut \cup {w.event}
  /\ UNCHANGED <<lists, history, tasks, published, started, leftAt>>

ClearHistory ==
  /\ history # <<>>
  /\ history' = <<>>
  /\ UNCHANGED <<lists, tasks, walks, published, started, cut, leftAt>>

BusNext ==
  \/ \E h \in Handlers : Subscribe(h) \/ Unsubscribe(h)
  \/ Publish \/ StartTask \/ PublishSync \/ ClearHistory
  \/ \E w \in walks : NextHandler(w) \/ SyncReturns(w) \/ PublisherCancelled(w)

-----------------------------------------------------------------------------
Events == 1..Len(published)

BusTypeOK ==
  /\ lists \in Seq(Seq(Handlers)) /\ lists # <<>>
  /\ history \in Seq(Events)
  /\ tasks \in Seq(Handlers \X Events)
  /\ walks \subseteq [event : Events, list : DOMAIN lists, at : Nat]
  /\ \A w \in walks : w.at \in DOMAIN lists[w.list]
  /\ published \in Seq([mode : {"async", "sync"}, due : SUBSET Handlers])
  /\ started \in [Handlers -> Seq(Events)]
  /\ cut \subseteq Events
  /\ DOMAIN leftAt \subseteq Handlers /\ leftAt \in [DOMAIN leftAt -> 0..Len(published)]

Dispatched(e) == (\A w \in walks : w.event # e) /\ (\A i \in DOMAIN tasks : tasks[i][2] # e)

(* However subscribing, unsubscribing and publishing interleave, no handler *)
(* is started twice with an event, and when its dispatch is over every      *)
(* handler subscribed at the publish was started with it, unless the        *)
(* publisher was cancelled. Others only get an event of a publish_sync that *)
(* was still walking the list when they subscribed.                         *)
DeliveredOnce ==
  /\ \A h \in Handlers : IsInjective(started[h])
  /\ \A e \in Events \ cut : Dispatched(e) =>
        \A h \in published[e].due : e \in Range(started[h])
  /\ \A h \in Handlers : \A e \in Range(started[h]) :
        h \in published[e].due \/ EventType(e) = "sync"

(* A handler is never started with an event published after it left.       *)
QuietAfterUnsubscribe ==
  \A h \in DOMAIN leftAt : \A e \in Range(started[h]) : e <= leftAt[h]

(* A handler is started with the events of publish in publication order.   *)
PublishOrder ==
  \A h \in Handlers : \A i, j \in DOMAIN started[h] :
    i < j /\ EventType(started[h][i]) = "async" /\ EventType(started[h][j]) = "async"
      => started[h][i] < started[h][j]

(* The history is the latest events, without a gap, and never longer than   *)
(* max_history, although handlers publish and clear it in between.          *)
HistoryIsRecent ==
  /\ Len(history) <= MaxHistory
  /\ \A i \in DOMAIN history : history[i] = Len(published) - Len(history) + i

(* Delivery and history keep the order of publication, and a handler's     *)
(* leaving has its place in it.                                            *)
InOrder == PublishOrder /\ HistoryIsRecent /\ QuietAfterUnsubscribe

(* What makes them inductive. The lists hold a handler once each, and the  *)
(* current one none that has left.                                         *)
ListsOnce ==
  /\ \A i \in DOMAIN lists : IsInjective(lists[i])
  /\ \A h \in DOMAIN leftAt : Known(h) /\ h \notin Range(Subscribed)

(* A walk is the only one of its event. It has started the handlers of its *)
(* list up to where it is and no others, and has every handler that was    *)
(* due before it or behind it in that list.                                *)
WalksExact ==
  \A w \in walks :
    /\ \A v \in walks : v.event = w.event => v = w
    /\ EventType(w.event) = "sync"
    /\ published[w.event].due \subseteq Range(lists[w.list])
    /\ \A h \in Handlers :
         w.event \in Range(started[h]) <=> \E i \in 1..w.at : lists[w.list][i] = h
    /\ \A h \in DOMAIN leftAt : h \in Range(lists[w.list]) => w.event <= leftAt[h]

(* A handler's tasks are in publication order, for events after those that *)
(* publish has already started it with.                                    *)
TasksInOrder ==
  \A i \in DOMAIN tasks :
    LET h == tasks[i][1]
        e == tasks[i][2]
    IN  /\ EventType(e) = "async" /\ h \in published[e].due
        /\ \A j \in DOMAIN tasks : i < j /\ tasks[j][1] = h => e < tasks[j][2]
        /\ \A x \in Range(started[h]) : EventType(x) = "async" => x < e
        /\ h \in DOMAIN leftAt => e <= leftAt[h]

(* What is due has been started, or has its task or its walk.              *)
DuePending ==
  \A e \in Events \ cut : \A h \in published[e].due :
    e \in Range(started[h]) \/ <<h, e>> \in Range(tasks) \/ \E w \in walks : w.event = e

BusInv ==
  /\ BusTypeOK /\ ListsOnce /\ WalksExact /\ TasksInOrder /\ DuePending
  /\ DeliveredOnce /\ InOrder
=============================================================================
