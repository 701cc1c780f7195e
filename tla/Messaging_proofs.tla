-------------------------- MODULE Messaging_proofs --------------------------
(***************************************************************************)
(* The event bus, the router and the broker, for every number of handlers, *)
(* rules, queues and messages.                                             *)
(***************************************************************************)
EXTENDS Messaging, Lemmas, FiniteSetTheorems

(* The bus. What a new event leaves of the old ones.                       *)
NewEntry(mode) == [mode |-> mode, due |-> Range(Subscribed)]

LEMMA Numbers ==
  ASSUME BusTypeOK
  PROVE  /\ Len(published) \in Nat /\ Events \subseteq Nat /\ DOMAIN published = Events
         /\ Len(published) + 1 \notin Events
         /\ lists \in Seq(Seq(Handlers)) /\ Len(lists) \in Nat \ {0} /\ DOMAIN lists = 1..Len(lists)
         /\ Subscribed = lists[Len(lists)] /\ Subscribed \in Seq(Handlers)
         /\ Range(Subscribed) \subseteq Handlers
         /\ \A h \in Handlers : Range(started[h]) \subseteq Events
         /\ \A e \in Events : published[e].due \subseteq Handlers
<1>1. Len(published) \in Nat /\ Events \subseteq Nat /\ DOMAIN published = Events
      /\ Len(published) + 1 \notin Events
  BY DEF BusTypeOK, Events
<1>2. /\ lists \in Seq(Seq(Handlers)) /\ Len(lists) \in Nat \ {0} /\ DOMAIN lists = 1..Len(lists)
      /\ Subscribed = lists[Len(lists)]
  BY DEF BusTypeOK, Subscribed, Last
<1>3. Subscribed \in Seq(Handlers)
  BY <1>2
<1>4. Range(Subscribed) \subseteq Handlers
  BY <1>3 DEF Range
<1>5. ASSUME NEW h \in Handlers PROVE Range(started[h]) \subseteq Events
  <2>1. started[h] \in Seq(Events)
    BY DEF BusTypeOK
  <2> QED
    BY <2>1 DEF Range
<1>6. ASSUME NEW e \in Events PROVE published[e].due \subseteq Handlers
  <2> DEFINE S == [mode : {"async", "sync"}, due : SUBSET Handlers]
  <2>1. published \in Seq(S) /\ e \in DOMAIN published
    BY <1>1 DEF BusTypeOK
  <2>2. published[e] \in S
    <3> HIDE DEF S
    <3> QED
      BY <2>1
  <2> QED
    BY <2>2
<1> QED
  BY <1>1, <1>2, <1>3, <1>4, <1>5, <1>6

LEMMA OldEvents ==
  ASSUME BusTypeOK, NEW mode \in {"async", "sync"}, NewEvent(mode)
  PROVE  /\ Events' = Events \cup {Len(published) + 1}
         /\ published' \in Seq([mode : {"async", "sync"}, due : SUBSET Handlers])
         /\ Len(published') = Len(published) + 1
         /\ \A e \in Events : published'[e] = published[e]
         /\ published'[Len(published) + 1] = NewEntry(mode) /\ NewEntry(mode).mode = mode
         /\ NewEntry(mode).due = Range(Subscribed)
         /\ \A h \in Handlers : Len(published) + 1 \notin Range(started[h])
<1> DEFINE S == [mode : {"async", "sync"}, due : SUBSET Handlers]
<1>1. NewEntry(mode) \in S /\ NewEntry(mode).mode = mode
  BY Numbers DEF NewEntry
<1>2. published \in Seq(S) /\ published' = Append(published, NewEntry(mode))
  BY DEF BusTypeOK, NewEvent, NewEntry
<1> HIDE DEF S
<1>3. /\ published' \in Seq(S) /\ Len(published') = Len(published) + 1
      /\ \A e \in 1..Len(published) : published'[e] = published[e]
      /\ published'[Len(published) + 1] = NewEntry(mode)
  BY <1>1, <1>2, Appended
<1>4. Events' = Events \cup {Len(published) + 1}
  BY <1>3, Numbers DEF Events
<1>5. NewEntry(mode).due = Range(Subscribed)
  BY DEF NewEntry
<1>6. \A e \in Events : published'[e] = published[e]
  BY <1>3 DEF Events
<1>7. \A h \in Handlers : Len(published) + 1 \notin Range(started[h])
  BY Numbers
<1> QED
  BY <1>1, <1>3, <1>4, <1>5, <1>6, <1>7 DEF S

LEMMA Starting ==
  ASSUME BusTypeOK, NEW h \in Handlers, NEW e \in Nat, Start(h, e)
  PROVE  /\ started' \in [Handlers -> Seq(Nat)]
         /\ started'[h] = Append(started[h], e)
         /\ Range(started'[h]) = Range(started[h]) \cup {e}
         /\ \A g \in Handlers : g # h => started'[g] = started[g]
         /\ \A g \in Handlers : started[g] \in Seq(Nat) /\ Len(started[g]) \in Nat
<1>1. ASSUME NEW g \in Handlers PROVE started[g] \in Seq(Nat)
  <2>1. started[g] \in Seq(Events)
    BY DEF BusTypeOK
  <2> QED
    BY <2>1, Numbers, Retyped
<1>2. DOMAIN started = Handlers /\ started' = [started EXCEPT ![h] = Append(started[h], e)]
  BY DEF BusTypeOK, Start
<1>3. started'[h] = Append(started[h], e) /\ \A g \in Handlers : g # h => started'[g] = started[g]
  BY <1>2
<1>4. Append(started[h], e) \in Seq(Nat) /\ Range(Append(started[h], e)) = Range(started[h]) \cup {e}
  BY <1>1, Appended
<1>5. started' \in [Handlers -> Seq(Nat)]
  BY <1>1, <1>2, <1>4
<1> QED
  BY <1>1, <1>3, <1>4, <1>5

(* Started with a new event, a handler has had each of its events once,    *)
(* and those of publish in order if this one comes after them.             *)
LEMMA StartedOnce ==
  ASSUME BusTypeOK, NEW h \in Handlers, NEW e \in Nat, Start(h, e),
         \A g \in Handlers : IsInjective(started[g]), e \notin Range(started[h])
  PROVE  \A g \in Handlers : IsInjective(started'[g])
<1>1. ASSUME NEW i \in DOMAIN started'[h], NEW j \in DOMAIN started'[h],
             started'[h][i] = started'[h][j]
      PROVE  i = j
  <2>1. /\ started[h] \in Seq(Nat) /\ Len(started[h]) \in Nat
        /\ DOMAIN started'[h] = 1..(Len(started[h]) + 1) /\ DOMAIN started[h] = 1..Len(started[h])
        /\ \A k \in 1..Len(started[h]) : started'[h][k] = started[h][k]
        /\ started'[h][Len(started[h]) + 1] = e
    <3>1. started[h] \in Seq(Nat) /\ started'[h] = Append(started[h], e)
      BY Starting
    <3> QED
      BY <3>1, Appended
  <2>2. \A k \in 1..Len(started[h]) : started[h][k] # e
    BY <2>1 DEF Range
  <2>3. \A k, l \in 1..Len(started[h]) : started[h][k] = started[h][l] => k = l
    BY <2>1 DEF IsInjective
  <2>4. /\ i \in 1..Len(started[h]) \/ i = Len(started[h]) + 1
        /\ j \in 1..Len(started[h]) \/ j = Len(started[h]) + 1
    BY <2>1
  <2> QED
    BY <1>1, <2>1, <2>2, <2>3, <2>4
<1>2. IsInjective(started'[h])
  BY <1>1 DEF IsInjective
<1> QED
  BY <1>2, Starting

LEMMA StartedInOrder ==
  ASSUME BusTypeOK, PublishOrder, NEW h \in Handlers, NEW e \in Nat, Start(h, e),
         \A x \in Events : published'[x] = published[x],
         published'[e].mode = "async" =>
           \A x \in Range(started[h]) : published[x].mode = "async" => x < e
  PROVE  PublishOrder'
<1>0. ASSUME NEW g \in Handlers
      PROVE  /\ started[g] \in Seq(Nat) /\ Len(started[g]) \in Nat
             /\ DOMAIN started[g] = 1..Len(started[g])
             /\ \A k \in 1..Len(started[g]) :
                  /\ started[g][k] \in Range(started[g])
                  /\ published'[started[g][k]] = published[started[g][k]]
  <2>1. started[g] \in Seq(Nat) /\ Len(started[g]) \in Nat /\ DOMAIN started[g] = 1..Len(started[g])
    BY Starting
  <2>2. \A k \in 1..Len(started[g]) : started[g][k] \in Range(started[g])
    BY <2>1 DEF Range
  <2> QED
    BY <2>1, <2>2, Numbers
<1>1. ASSUME NEW g \in Handlers, NEW i \in DOMAIN started'[g], NEW j \in DOMAIN started'[g], i < j,
             published'[started'[g][i]].mode = "async", published'[started'[g][j]].mode = "async"
      PROVE  started'[g][i] < started'[g][j]
  <2>1. CASE g # h
    <3>1. started'[g] = started[g]
      BY <2>1, Starting
    <3>2. i \in 1..Len(started[g]) /\ j \in 1..Len(started[g])
      BY <1>0, <1>1, <3>1
    <3>3. published[started[g][i]].mode = "async" /\ published[started[g][j]].mode = "async"
      BY <1>0, <1>1, <3>1, <3>2
    <3> QED
      BY <1>0, <1>1, <3>1, <3>2, <3>3 DEF PublishOrder, EventType
  <2>2. CASE g = h
    <3>1. /\ DOMAIN started'[h] = 1..(Len(started[h]) + 1)
          /\ \A k \in 1..Len(started[h]) : started'[h][k] = started[h][k]
          /\ started'[h][Len(started[h]) + 1] = e
      <4>1. started[h] \in Seq(Nat) /\ started'[h] = Append(started[h], e)
        BY Starting
      <4> QED
        BY <4>1, Appended
    <3>2. i \in 1..Len(started[h]) /\ (j = Len(started[h]) + 1 \/ j \in 1..Len(started[h]))
      BY <1>0, <1>1, <2>2, <3>1, SMTT(30)
    <3>3. CASE j = Len(started[h]) + 1
      BY <1>0, <1>1, <2>2, <3>1, <3>2, <3>3, SMTT(30)
    <3>4. CASE j \in 1..Len(started[h])
      <4>1. started'[h][i] = started[h][i] /\ started'[h][j] = started[h][j]
        BY <3>1, <3>2, <3>4
      <4>2. published[started[h][i]].mode = "async" /\ published[started[h][j]].mode = "async"
        BY <1>0, <1>1, <2>2, <3>2, <3>4, <4>1
      <4> QED
        BY <1>0, <1>1, <2>2, <3>2, <3>4, <4>1, <4>2 DEF PublishOrder, EventType
    <3> QED
      BY <3>2, <3>3, <3>4
  <2> QED
    BY <2>1, <2>2
<1> QED
  BY <1>1 DEF PublishOrder, EventType

(* Where the walks are, once the lists have grown or one has been added.   *)
LEMMA WalksTyped ==
  ASSUME BusTypeOK, NEW w \in walks
  PROVE  /\ w.event \in Events /\ w.list \in 1..Len(lists) /\ lists[w.list] \in Seq(Handlers)
         /\ Len(lists[w.list]) \in Nat /\ DOMAIN lists[w.list] = 1..Len(lists[w.list])
         /\ w.at \in 1..Len(lists[w.list])
<1>1. w.event \in Events /\ w.list \in DOMAIN lists /\ w.at \in DOMAIN lists[w.list]
  BY DEF BusTypeOK
<1>2. lists \in Seq(Seq(Handlers)) /\ DOMAIN lists = 1..Len(lists)
  BY Numbers
<1>3. lists[w.list] \in Seq(Handlers)
  BY <1>1, <1>2
<1> QED
  BY <1>1, <1>2, <1>3

LEMMA ListsGrow ==
  ASSUME BusTypeOK, WalksExact, UNCHANGED <<walks, published, started>>,
         lists' \in Seq(Seq(Handlers)), Len(lists') >= Len(lists),
         \A l \in 1..Len(lists) : /\ Len(lists'[l]) \in Nat /\ Len(lists'[l]) >= Len(lists[l])
                                  /\ \A k \in 1..Len(lists[l]) : lists'[l][k] = lists[l][k],
         \A w \in walks : \A h \in DOMAIN leftAt' :
           h \in Range(lists'[w.list]) => w.event <= leftAt'[h]
  PROVE  /\ WalksExact'
         /\ \A w \in walks : w.list \in DOMAIN lists' /\ w.at \in DOMAIN lists'[w.list]
<1>1. ASSUME NEW w \in walks
      PROVE  /\ w.list \in DOMAIN lists' /\ w.at \in DOMAIN lists'[w.list]
             /\ published[w.event].due \subseteq Range(lists'[w.list])
             /\ \A k \in 1..w.at : lists'[w.list][k] = lists[w.list][k]
  <2>1. /\ w.list \in 1..Len(lists) /\ Len(lists[w.list]) \in Nat /\ Len(lists) \in Nat
        /\ w.at \in 1..Len(lists[w.list]) /\ DOMAIN lists[w.list] = 1..Len(lists[w.list])
        /\ lists'[w.list] \in Seq(Handlers)
    BY WalksTyped, Numbers
  <2>2. /\ Len(lists'[w.list]) \in Nat /\ Len(lists'[w.list]) >= Len(lists[w.list])
        /\ DOMAIN lists'[w.list] = 1..Len(lists'[w.list])
        /\ \A k \in 1..Len(lists[w.list]) : lists'[w.list][k] = lists[w.list][k]
    BY <2>1
  <2>3. ASSUME NEW g \in published[w.event].due PROVE g \in Range(lists'[w.list])
    <3>1. PICK k \in 1..Len(lists[w.list]) : g = lists[w.list][k]
      <4>1. g \in Range(lists[w.list])
        BY DEF WalksExact
      <4> QED
        BY <2>1, <4>1 DEF Range
    <3>2. k \in 1..Len(lists'[w.list]) /\ g = lists'[w.list][k]
      BY <2>1, <2>2, <3>1
    <3> QED
      BY <2>2, <3>2 DEF Range
  <2> QED
    BY <2>1, <2>2, <2>3, SMTT(30)
<1>2. ASSUME NEW w \in walks, NEW g \in Handlers
      PROVE  w.event \in Range(started[g]) <=> \E k \in 1..w.at : lists'[w.list][k] = g
  <2>1. w.event \in Range(started[g]) <=> \E k \in 1..w.at : lists[w.list][k] = g
    BY DEF WalksExact
  <2> QED
    BY <1>1, <2>1
<1> QED
  BY <1>1, <1>2 DEF WalksExact, EventType

LEMMA SubscribeKeeps ==
  ASSUME BusInv, NEW h \in Handlers, Subscribe(h) PROVE BusInv'
<1>0. PICK n : n = Len(lists)
  OBVIOUS
<1>1. /\ lists' = [lists EXCEPT ![n] = Append(lists[n], h)] /\ ~ Known(h)
      /\ UNCHANGED <<history, tasks, walks, published, started, cut, leftAt>>
  BY <1>0 DEF Subscribe
<1>2. /\ BusTypeOK /\ n \in Nat \ {0} /\ DOMAIN lists = 1..n /\ lists \in Seq(Seq(Handlers))
      /\ \A l \in 1..n : lists[l] \in Seq(Handlers)
  <2>1. BusTypeOK
    BY DEF BusInv
  <2> QED
    BY <1>0, <2>1, Numbers
<1>3. \A l \in 1..n : h \notin Range(lists[l])
  BY <1>1, <1>2 DEF Known
<1>4. /\ lists' \in Seq(Seq(Handlers)) /\ Len(lists') = n /\ DOMAIN lists' = 1..n
      /\ lists'[n] = Append(lists[n], h) /\ \A l \in 1..n : l # n => lists'[l] = lists[l]
  <2>1. Append(lists[n], h) \in Seq(Handlers)
    BY <1>2
  <2> QED
    BY <1>1, <1>2, <2>1
<1>5. ASSUME NEW l \in 1..n
      PROVE  /\ Len(lists'[l]) \in Nat /\ Len(lists'[l]) >= Len(lists[l])
             /\ \A k \in 1..Len(lists[l]) : lists'[l][k] = lists[l][k]
             /\ Range(lists'[l]) \subseteq Range(lists[l]) \cup {h}
             /\ Range(lists[l]) \subseteq Range(lists'[l])
             /\ IsInjective(lists'[l])
  <2>1. IsInjective(lists[l]) /\ h \notin Range(lists[l]) /\ lists[l] \in Seq(Handlers)
        /\ Len(lists[l]) \in Nat
    BY <1>2, <1>3 DEF BusInv, ListsOnce
  <2>2. CASE l # n
    BY <1>2, <1>4, <2>1, <2>2
  <2>3. CASE l = n
    <3>1. /\ Len(lists[n]) \in Nat /\ Len(lists'[n]) = Len(lists[n]) + 1
          /\ DOMAIN lists'[n] = 1..(Len(lists[n]) + 1) /\ DOMAIN lists[n] = 1..Len(lists[n])
          /\ \A k \in 1..Len(lists[n]) : lists'[n][k] = lists[n][k]
          /\ lists'[n][Len(lists[n]) + 1] = h /\ Range(lists'[n]) = Range(lists[n]) \cup {h}
      <4>1. lists[n] \in Seq(Handlers) /\ lists'[n] = Append(lists[n], h)
        BY <1>4, <2>1, <2>3
      <4> QED
        BY <4>1, Appended
    <3>2. \A k \in 1..Len(lists[n]) : lists[n][k] # h
      BY <2>1, <2>3, <3>1 DEF Range
    <3>3. \A j, k \in 1..Len(lists[n]) : lists[n][j] = lists[n][k] => j = k
      BY <2>1, <2>3, <3>1 DEF IsInjective
    <3>4. \A k \in DOMAIN lists'[n] : k \in 1..Len(lists[n]) \/ k = Len(lists[n]) + 1
      BY <3>1
    <3>5. IsInjective(lists'[n])
      BY <3>1, <3>2, <3>3, <3>4 DEF IsInjective
    <3> QED
      BY <2>3, <3>1, <3>5
  <2> QED
    BY <2>2, <2>3
<1>6. ASSUME NEW w \in walks, NEW g \in DOMAIN leftAt', g \in Range(lists'[w.list])
      PROVE  w.event <= leftAt'[g]
  <2>1. Known(g) /\ g # h
    BY <1>1 DEF BusInv, ListsOnce
  <2>2. g \in Range(lists[w.list])
    BY <1>0, <1>2, <1>5, <1>6, <2>1, WalksTyped
  <2> QED
    BY <1>1, <2>2 DEF BusInv, WalksExact
<1>7. /\ WalksExact'
      /\ \A w \in walks : w.list \in DOMAIN lists' /\ w.at \in DOMAIN lists'[w.list]
  <2>1. Len(lists') >= Len(lists)
    BY <1>0, <1>2, <1>4
  <2>2. WalksExact
    BY DEF BusInv
  <2>3. \A l \in 1..Len(lists) : /\ Len(lists'[l]) \in Nat /\ Len(lists'[l]) >= Len(lists[l])
                                 /\ \A k \in 1..Len(lists[l]) : lists'[l][k] = lists[l][k]
    BY <1>0, <1>5
  <2> QED
    BY <1>1, <1>2, <1>4, <1>6, <2>1, <2>2, <2>3, ListsGrow
<1>8. ListsOnce'
  <2>1. ASSUME NEW g \in DOMAIN leftAt' PROVE Known(g)' /\ g \notin Range(Subscribed')
    <3>1. Known(g) /\ g \notin Range(Subscribed) /\ g # h
      BY <1>1, <2>1 DEF BusInv, ListsOnce
    <3>2. PICK l \in 1..n : g \in Range(lists[l])
      BY <1>2, <3>1 DEF Known
    <3>3. g \in Range(lists'[l])
      BY <1>5, <3>2
    <3>4. Subscribed' = lists'[n] /\ Subscribed = lists[n] /\ n \in 1..n
      BY <1>0, <1>2, <1>4 DEF Subscribed, Last
    <3> QED
      BY <1>4, <1>5, <3>1, <3>3, <3>4 DEF Known
  <2> QED
    BY <1>4, <1>5, <2>1 DEF ListsOnce
<1>9. BusTypeOK'
  BY <1>1, <1>2, <1>4, <1>7 DEF BusTypeOK, Events
<1> QED
  BY <1>1, <1>7, <1>8, <1>9
  DEF BusInv, TasksInOrder, DuePending, DeliveredOnce, Dispatched, InOrder, Events, EventType,
      QuietAfterUnsubscribe, PublishOrder, HistoryIsRecent

LEMMA UnsubscribeKeeps ==
  ASSUME BusInv, NEW h \in Handlers, Unsubscribe(h) PROVE BusInv'
<1>0. PICK n : n = Len(lists)
  OBVIOUS
<1>1. /\ lists' = Append(lists, Without(h)) /\ h \in Range(Subscribed)
      /\ UNCHANGED <<history, tasks, walks, published, started, cut>>
      /\ DOMAIN leftAt' = DOMAIN leftAt \cup {h} /\ leftAt'[h] = Len(published)
      /\ leftAt' \in [DOMAIN leftAt' -> {leftAt'[g] : g \in DOMAIN leftAt'}]
      /\ \A g \in DOMAIN leftAt : g # h => leftAt'[g] = leftAt[g]
  BY <1>0 DEF Unsubscribe
<1>2. /\ BusTypeOK /\ n \in Nat \ {0} /\ DOMAIN lists = 1..n /\ lists \in Seq(Seq(Handlers))
      /\ \A l \in 1..n : lists[l] \in Seq(Handlers)
      /\ Subscribed = lists[n] /\ Subscribed \in Seq(Handlers)
      /\ Len(published) \in Nat /\ Events \subseteq Nat
      /\ \A e \in Events : e <= Len(published)
  <2>1. BusTypeOK
    BY DEF BusInv
  <2>2. Len(published) \in Nat
    BY <2>1, Numbers
  <2>3. \A e \in Events : e <= Len(published)
    BY <2>2 DEF Events
  <2> QED
    BY <1>0, <2>1, <2>2, <2>3, Numbers
<1>3. PICK k \in DOMAIN Subscribed : Subscribed[k] = h /\ Without(h) = RemoveAt(Subscribed, k)
  <2>1. \E i \in DOMAIN Subscribed : Subscribed[i] = h
    BY <1>1 DEF Range
  <2> QED
    BY <2>1 DEF Without
<1>4. /\ Without(h) \in Seq(Handlers) /\ Len(Without(h)) = Len(Subscribed) - 1
      /\ DOMAIN Without(h) = 1..(Len(Subscribed) - 1) /\ Len(Subscribed) \in Nat \ {0}
      /\ \A i \in 1..(Len(Subscribed) - 1) :
           Without(h)[i] = Subscribed[IF i < k THEN i ELSE i + 1]
  <2>1. Without(h) = Dropped(Subscribed, k)
    BY <1>3 DEF Dropped, RemoveAt
  <2>2. PICK s \in Seq(Handlers) : s = Subscribed
    BY <1>2
  <2>3. k \in DOMAIN s
    BY <2>2
  <2>4. /\ Dropped(s, k) \in Seq(Handlers) /\ Len(Dropped(s, k)) = Len(s) - 1
        /\ DOMAIN Dropped(s, k) = 1..(Len(s) - 1) /\ Len(s) \in Nat \ {0}
        /\ \A i \in 1..(Len(s) - 1) : Dropped(s, k)[i] = s[IF i < k THEN i ELSE i + 1]
    BY <2>3, RemovedAt
  <2> QED
    BY <2>1, <2>2, <2>4, Zenon
<1>5. /\ IsInjective(Without(h)) /\ h \notin Range(Without(h))
      /\ Range(Without(h)) \subseteq Range(Subscribed)
  <2>1. /\ DOMAIN Subscribed = 1..Len(Subscribed) /\ k \in 1..Len(Subscribed)
        /\ IsInjective(Subscribed)
    BY <1>2 DEF BusInv, ListsOnce
  <2>2. \A i, j \in 1..Len(Subscribed) : Subscribed[i] = Subscribed[j] => i = j
    BY <2>1 DEF IsInjective
  <2>3. ASSUME NEW i \in DOMAIN Without(h)
        PROVE  /\ (IF i < k THEN i ELSE i + 1) \in 1..Len(Subscribed)
               /\ (IF i < k THEN i ELSE i + 1) # k
               /\ Without(h)[i] = Subscribed[IF i < k THEN i ELSE i + 1]
    BY <1>4, <2>1
  <2>4. ASSUME NEW i \in DOMAIN Without(h), NEW j \in DOMAIN Without(h),
               Without(h)[i] = Without(h)[j]
        PROVE  i = j
    <3>1. (IF i < k THEN i ELSE i + 1) = (IF j < k THEN j ELSE j + 1)
      BY <2>2, <2>3, <2>4
    <3> QED
      BY <1>4, <2>1, <3>1
  <2>5. ASSUME NEW i \in DOMAIN Without(h)
        PROVE  Without(h)[i] # h /\ Without(h)[i] \in Range(Subscribed)
    <3>1. PICK p \in 1..Len(Subscribed) : p # k /\ Without(h)[i] = Subscribed[p]
      BY <2>3
    <3> QED
      BY <1>3, <2>1, <2>2, <3>1 DEF Range
  <2> QED
    BY <2>4, <2>5 DEF IsInjective, Range
<1>6. /\ lists' \in Seq(Seq(Handlers)) /\ Len(lists') = n + 1 /\ DOMAIN lists' = 1..(n + 1)
      /\ \A l \in 1..n : lists'[l] = lists[l]
      /\ lists'[n + 1] = Without(h) /\ Subscribed' = Without(h)
  <2>1. /\ lists' \in Seq(Seq(Handlers)) /\ Len(lists') = n + 1 /\ DOMAIN lists' = 1..(n + 1)
        /\ \A l \in 1..n : lists'[l] = lists[l] /\ lists'[n + 1] = Without(h)
    BY <1>0, <1>1, <1>2, <1>4, Appended
  <2> QED
    BY <1>2, <2>1 DEF Subscribed, Last
<1>7. \A e \in Events : e <= leftAt'[h]
  BY <1>1, <1>2
<1>8. /\ WalksExact'
      /\ \A w \in walks : w.list \in DOMAIN lists' /\ w.at \in DOMAIN lists'[w.list]
  <2>1. ASSUME NEW w \in walks, NEW g \in DOMAIN leftAt', g \in Range(lists'[w.list])
        PROVE  w.event <= leftAt'[g]
    <3>1. w.list \in 1..n /\ w.event \in Events
      BY <1>0, <1>2, WalksTyped
    <3>2. CASE g = h
      BY <1>7, <3>1, <3>2
    <3>3. CASE g # h
      BY <1>1, <1>6, <2>1, <3>1, <3>3 DEF BusInv, WalksExact
    <3> QED
      BY <3>2, <3>3
  <2>2. WalksExact /\ Len(lists') >= Len(lists)
    BY <1>0, <1>2, <1>6 DEF BusInv
  <2>3. \A l \in 1..Len(lists) : /\ Len(lists'[l]) \in Nat /\ Len(lists'[l]) >= Len(lists[l])
                                 /\ \A i \in 1..Len(lists[l]) : lists'[l][i] = lists[l][i]
    BY <1>0, <1>2, <1>6
  <2> QED
    BY <1>1, <1>2, <1>6, <2>1, <2>2, <2>3, ListsGrow
<1>9. ListsOnce'
  <2>1. ASSUME NEW g \in DOMAIN leftAt' PROVE Known(g)' /\ g \notin Range(Subscribed')
    <3>1. CASE g = h
      BY <1>1, <1>2, <1>5, <1>6, <3>1 DEF Known
    <3>2. CASE g # h
      <4>1. Known(g) /\ g \notin Range(Subscribed)
        BY <1>1, <3>2 DEF BusInv, ListsOnce
      <4>2. PICK l \in 1..n : g \in Range(lists[l])
        BY <1>2, <4>1 DEF Known
      <4> QED
        BY <1>2, <1>5, <1>6, <4>1, <4>2 DEF Known
    <3> QED
      BY <3>1, <3>2
  <2>2. \A l \in DOMAIN lists' : IsInjective(lists'[l])
    <3>1. \A l \in 1..n : IsInjective(lists'[l])
      BY <1>2, <1>6 DEF BusInv, ListsOnce
    <3>2. \A l \in 1..(n + 1) : l \in 1..n \/ l = n + 1
      BY <1>2
    <3> QED
      BY <1>5, <1>6, <3>1, <3>2
  <2> QED
    BY <2>1, <2>2 DEF ListsOnce
<1>10. ASSUME NEW g \in DOMAIN leftAt', NEW e \in Events, g # h => e <= leftAt[g]
       PROVE  e <= leftAt'[g]
  BY <1>1, <1>7, <1>10
<1>11. TasksInOrder' /\ QuietAfterUnsubscribe'
  <2>1. ASSUME NEW i \in DOMAIN tasks, tasks[i][1] \in DOMAIN leftAt'
        PROVE  tasks[i][2] <= leftAt'[tasks[i][1]]
    <3>1. tasks[i][2] \in Events
      BY <1>2 DEF BusTypeOK
    <3> QED
      BY <1>1, <1>10, <2>1, <3>1 DEF BusInv, TasksInOrder
  <2>2. ASSUME NEW g \in DOMAIN leftAt', NEW e \in Range(started[g]) PROVE e <= leftAt'[g]
    <3>1. e \in Events
      BY <1>1, <1>2, Numbers DEF BusTypeOK
    <3> QED
      BY <1>1, <1>10, <3>1 DEF BusInv, InOrder, QuietAfterUnsubscribe
  <2> QED
    BY <1>1, <2>1, <2>2 DEF BusInv, TasksInOrder, QuietAfterUnsubscribe, EventType
<1>12. BusTypeOK'
  <2>1. leftAt' \in [DOMAIN leftAt' -> 0..Len(published')]
    BY <1>1, <1>2 DEF BusTypeOK
  <2> QED
    BY <1>1, <1>2, <1>6, <1>8, <2>1, SMTT(30) DEF BusTypeOK, Events
<1> QED
  BY <1>1, <1>8, <1>9, <1>11, <1>12
  DEF BusInv, DuePending, DeliveredOnce, Dispatched, InOrder, Events, EventType,
      PublishOrder, HistoryIsRecent

(* What DeliveredOnce says of an event that is over follows from what is   *)
(* pending.                                                                *)
LEMMA DeliveredFrom ==
  ASSUME DuePending', \A h \in Handlers : IsInjective(started'[h]),
         \A h \in Handlers : \A e \in Range(started'[h]) :
           h \in published'[e].due \/ published'[e].mode = "sync"
  PROVE  DeliveredOnce'
<1>1. ASSUME NEW e \in (Events \ cut)', Dispatched(e)', NEW h \in published'[e].due
      PROVE  e \in Range(started'[h])
  <2>1. /\ \A w \in walks' : w.event # e
        /\ \A i \in DOMAIN tasks' : tasks'[i][2] # e
    BY <1>1 DEF Dispatched
  <2>2. <<h, e>> \notin Range(tasks')
    BY <2>1 DEF Range
  <2> QED
    BY <2>1, <2>2 DEF DuePending
<1> QED
  BY <1>1 DEF DeliveredOnce, EventType

LEMMA TasksTyped ==
  ASSUME BusTypeOK
  PROVE  /\ tasks \in Seq(Handlers \X Events) /\ Len(tasks) \in Nat
         /\ DOMAIN tasks = 1..Len(tasks)
         /\ \A i \in DOMAIN tasks : /\ tasks[i] \in Handlers \X Events
                                    /\ tasks[i][1] \in Handlers /\ tasks[i][2] \in Events
                                    /\ tasks[i] = <<tasks[i][1], tasks[i][2]>>
<1>1. tasks \in Seq(Handlers \X Events)
  BY DEF BusTypeOK
<1>2. \A i \in DOMAIN tasks : tasks[i] \in Handlers \X Events
  BY <1>1
<1> QED
  BY <1>1, <1>2

LEMMA StartTaskKeeps ==
  ASSUME BusInv, StartTask PROVE BusInv'
<1>0. PICK h, e : h = tasks[1][1] /\ e = tasks[1][2]
  OBVIOUS
<1>1. BusTypeOK
  BY DEF BusInv
<1>2. /\ tasks # <<>> /\ tasks' = Tail(tasks) /\ Head(tasks) = tasks[1]
      /\ UNCHANGED <<lists, history, walks, published, cut, leftAt>>
  BY <1>1, TasksTyped DEF StartTask
<1>3. Start(h, e) /\ h \in Handlers /\ e \in Events /\ e \in Nat /\ tasks[1] = <<h, e>>
  BY <1>0, <1>1, <1>2, TasksTyped, Numbers DEF StartTask
<1>4. /\ tasks' \in Seq(Handlers \X Events) /\ Len(tasks) \in Nat \ {0}
      /\ DOMAIN tasks' = 1..(Len(tasks) - 1) /\ DOMAIN tasks = 1..Len(tasks)
      /\ \A i \in 1..(Len(tasks) - 1) : tasks'[i] = tasks[i + 1]
      /\ Range(tasks) = Range(tasks') \cup {<<h, e>>}
  BY <1>1, <1>2, <1>3, TasksTyped, Shortened
<1>5. /\ EventType(e) = "async" /\ h \in published[e].due
      /\ \A j \in 2..Len(tasks) : tasks[j][1] = h => e < tasks[j][2]
      /\ \A x \in Range(started[h]) : EventType(x) = "async" => x < e
      /\ h \in DOMAIN leftAt => e <= leftAt[h]
  <2>1. TasksInOrder /\ 1 \in DOMAIN tasks
    BY <1>4 DEF BusInv
  <2> QED
    BY <1>0, <1>4, <2>1, SMTT(30) DEF TasksInOrder
<1>6. /\ started' \in [Handlers -> Seq(Nat)] /\ Range(started'[h]) = Range(started[h]) \cup {e}
      /\ \A g \in Handlers : g # h => started'[g] = started[g]
      /\ \A g \in Handlers : Range(started'[g]) \subseteq Events
  BY <1>1, <1>3, Starting, Numbers, ZenonT(60)
<1>7. e \notin Range(started[h])
  BY <1>3, <1>5
<1>8. \A g \in Handlers : IsInjective(started'[g])
  BY <1>1, <1>3, <1>7, StartedOnce DEF BusInv, DeliveredOnce
<1>9. PublishOrder'
  <2>1. PublishOrder /\ \A x \in Events : published'[x] = published[x]
    BY <1>2 DEF BusInv, InOrder
  <2>2. \A x \in Range(started[h]) : published[x].mode = "async" => x < e
    BY <1>5 DEF EventType
  <2> QED
    BY <1>1, <1>3, <2>1, <2>2, StartedInOrder
<1>10. TasksInOrder'
  <2>1. ASSUME NEW i \in DOMAIN tasks'
        PROVE  /\ published'[tasks'[i][2]].mode = "async"
               /\ tasks'[i][1] \in published'[tasks'[i][2]].due
               /\ \A j \in DOMAIN tasks' :
                    i < j /\ tasks'[j][1] = tasks'[i][1] => tasks'[i][2] < tasks'[j][2]
               /\ \A x \in Range(started'[tasks'[i][1]]) :
                    published'[x].mode = "async" => x < tasks'[i][2]
               /\ tasks'[i][1] \in DOMAIN leftAt' => tasks'[i][2] <= leftAt'[tasks'[i][1]]
    <3>1. i + 1 \in 2..Len(tasks) /\ i + 1 \in DOMAIN tasks /\ tasks'[i] = tasks[i + 1]
      BY <1>4
    <3>2. /\ EventType(tasks'[i][2]) = "async" /\ tasks'[i][1] \in published[tasks'[i][2]].due
          /\ \A j \in DOMAIN tasks :
               i + 1 < j /\ tasks[j][1] = tasks'[i][1] => tasks'[i][2] < tasks[j][2]
          /\ \A x \in Range(started[tasks'[i][1]]) :
               EventType(x) = "async" => x < tasks'[i][2]
          /\ tasks'[i][1] \in DOMAIN leftAt => tasks'[i][2] <= leftAt[tasks'[i][1]]
      BY <3>1 DEF BusInv, TasksInOrder
    <3>3. ASSUME NEW j \in DOMAIN tasks', i < j, tasks'[j][1] = tasks'[i][1]
          PROVE  tasks'[i][2] < tasks'[j][2]
      <4>1. j + 1 \in DOMAIN tasks /\ tasks'[j] = tasks[j + 1] /\ i + 1 < j + 1
        BY <1>4, <3>3
      <4> QED
        BY <3>2, <3>3, <4>1
    <3>4. ASSUME NEW x \in Range(started'[tasks'[i][1]]), published[x].mode = "async"
          PROVE  x < tasks'[i][2]
      <4>1. tasks'[i][1] \in Handlers
        BY <1>1, <3>1, TasksTyped
      <4>2. CASE tasks'[i][1] = h /\ x = e
        BY <1>5, <3>1, <4>2
      <4>3. CASE x \in Range(started[tasks'[i][1]])
        BY <3>2, <3>4, <4>3 DEF EventType
      <4> QED
        BY <1>6, <4>1, <4>2, <4>3
    <3> QED
      BY <1>2, <3>2, <3>3, <3>4 DEF EventType
  <2> QED
    BY <2>1 DEF TasksInOrder, EventType
<1>11. WalksExact'
  <2>1. ASSUME NEW w \in walks, NEW g \in Handlers
        PROVE  w.event \in Range(started'[g]) <=> w.event \in Range(started[g])
    <3>1. EventType(w.event) = "sync"
      BY DEF BusInv, WalksExact
    <3>2. w.event # e
      BY <1>5, <3>1
    <3> QED
      BY <1>6, <3>2
  <2>2. WalksExact
    BY DEF BusInv
  <2> QED
    BY <1>2, <2>1, <2>2 DEF WalksExact, EventType
<1>12. DuePending'
  <2>1. ASSUME NEW x \in Events \ cut, NEW g \in published[x].due
        PROVE  x \in Range(started'[g]) \/ <<g, x>> \in Range(tasks') \/ \E w \in walks : w.event = x
    <3>1. g \in Handlers
      BY <1>1, Numbers
    <3>2. x \in Range(started[g]) \/ <<g, x>> \in Range(tasks) \/ \E w \in walks : w.event = x
      BY DEF BusInv, DuePending
    <3> QED
      BY <1>4, <1>6, <3>1, <3>2
  <2> QED
    BY <1>2, <2>1 DEF DuePending, Events
<1>13. \A g \in Handlers : \A x \in Range(started'[g]) : g \in published[x].due \/ EventType(x) = "sync"
  BY <1>5, <1>6 DEF BusInv, DeliveredOnce
<1>14. DeliveredOnce'
  BY <1>2, <1>8, <1>12, <1>13, DeliveredFrom DEF EventType
<1>15. QuietAfterUnsubscribe' /\ HistoryIsRecent'
  <2>1. ASSUME NEW g \in DOMAIN leftAt, NEW x \in Range(started'[g]) PROVE x <= leftAt[g]
    <3>1. g \in Handlers
      BY <1>1 DEF BusTypeOK
    <3> QED
      BY <1>5, <1>6, <3>1 DEF BusInv, InOrder, QuietAfterUnsubscribe
  <2> QED
    BY <1>2, <2>1 DEF BusInv, InOrder, QuietAfterUnsubscribe, HistoryIsRecent
<1>16. BusTypeOK'
  <2>1. ASSUME NEW g \in Handlers PROVE started'[g] \in Seq(Events)
    <3>1. started'[g] \in Seq(Nat) /\ Range(started'[g]) \subseteq Events
      BY <1>6
    <3> QED
      BY <3>1, Retyped DEF Range
  <2>2. started' \in [Handlers -> Seq(Events)]
    BY <1>6, <2>1
  <2> QED
    BY <1>1, <1>2, <1>4, <2>2 DEF BusTypeOK, Events
<1> QED
  BY <1>2, <1>9, <1>10, <1>11, <1>12, <1>14, <1>15, <1>16
  DEF BusInv, InOrder, ListsOnce, Known, Subscribed

(* A step of a walk: it is the same walk, one further.                     *)
LEMMA NextHandlerKeeps ==
  ASSUME BusInv, NEW w \in walks, NextHandler(w) PROVE BusInv'
<1>1. BusTypeOK /\ WalksExact
  BY DEF BusInv
<1>0. PICK h, e, n : h = lists[w.list][w.at + 1] /\ e = w.event /\ n = [w EXCEPT !.at = w.at + 1]
  OBVIOUS
<1>2. /\ walks' = (walks \ {w}) \cup {n} /\ n.event = e /\ n.list = w.list /\ n.at = w.at + 1
      /\ n \in [event : Events, list : DOMAIN lists, at : Nat]
      /\ UNCHANGED <<lists, history, tasks, published, cut, leftAt>>
      /\ w.at \in Nat /\ w.at + 1 \in DOMAIN lists[w.list] /\ w.list \in DOMAIN lists
      /\ \A i, j \in DOMAIN lists[w.list] : lists[w.list][i] = lists[w.list][j] => i = j
  <2>1. /\ w \in [event : Events, list : DOMAIN lists, at : Nat] /\ w.at < Len(lists[w.list])
        /\ w.at \in 1..Len(lists[w.list]) /\ DOMAIN lists[w.list] = 1..Len(lists[w.list])
        /\ Len(lists[w.list]) \in Nat
    BY <1>1, WalksTyped DEF BusTypeOK, NextHandler
  <2>2. n \in [event : Events, list : DOMAIN lists, at : Nat]
        /\ n.event = e /\ n.list = w.list /\ n.at = w.at + 1
    BY <1>0, <2>1
  <2>3. IsInjective(lists[w.list]) /\ w.list \in DOMAIN lists
    BY <2>1 DEF BusInv, ListsOnce
  <2> QED
    BY <1>0, <2>1, <2>2, <2>3 DEF NextHandler, IsInjective
<1>3. Start(h, e) /\ h \in Handlers /\ e \in Events /\ e \in Nat
  <2>1. lists[w.list] \in Seq(Handlers) /\ e \in Events
    BY <1>0, <1>1, WalksTyped
  <2> QED
    BY <1>0, <1>1, <1>2, <2>1, Numbers DEF NextHandler
<1>4. /\ EventType(e) = "sync" /\ published[e].due \subseteq Range(lists[w.list])
      /\ \A v \in walks : v # w => v.event # e
      /\ \A g \in Handlers : e \in Range(started[g]) <=> \E i \in 1..w.at : lists[w.list][i] = g
      /\ \A g \in DOMAIN leftAt : g \in Range(lists[w.list]) => e <= leftAt[g]
  BY <1>0, <1>1 DEF WalksExact
<1>5. /\ started' \in [Handlers -> Seq(Nat)] /\ Range(started'[h]) = Range(started[h]) \cup {e}
      /\ \A g \in Handlers : g # h => started'[g] = started[g]
      /\ \A g \in Handlers : Range(started'[g]) \subseteq Events
  BY <1>1, <1>3, Starting, Numbers
<1>6. e \notin Range(started[h])
  <2>1. \A i \in 1..w.at : i \in DOMAIN lists[w.list] /\ i # w.at + 1
    BY <1>1, <1>2, WalksTyped
  <2> QED
    BY <1>0, <1>2, <1>3, <1>4, <2>1
<1>7. \A g \in Handlers : IsInjective(started'[g])
  BY <1>1, <1>3, <1>6, StartedOnce DEF BusInv, DeliveredOnce
<1>8. PublishOrder'
  <2>1. PublishOrder /\ \A x \in Events : published'[x] = published[x]
    BY <1>2 DEF BusInv, InOrder
  <2>2. published'[e].mode # "async"
    BY <1>2, <1>4 DEF EventType
  <2> QED
    BY <1>1, <1>3, <2>1, <2>2, StartedInOrder
<1>9. TasksInOrder'
  <2>1. ASSUME NEW i \in DOMAIN tasks, NEW x \in Range(started'[tasks[i][1]]),
               EventType(x) = "async"
        PROVE  x < tasks[i][2]
    <3>1. tasks[i][1] \in Handlers /\ x # e
      BY <1>1, <1>4, <2>1, TasksTyped
    <3>2. x \in Range(started[tasks[i][1]])
      BY <1>5, <3>1
    <3> QED
      BY <2>1, <3>2 DEF BusInv, TasksInOrder
  <2>2. TasksInOrder
    BY DEF BusInv
  <2> QED
    BY <1>2, <2>1, <2>2 DEF TasksInOrder, EventType
<1>10. \A i \in 1..(w.at + 1) : i \in 1..w.at \/ i = w.at + 1
  BY <1>2
<1>11. ASSUME NEW v \in walks', NEW g \in Handlers
       PROVE  v.event \in Range(started'[g]) <=> \E i \in 1..v.at : lists[v.list][i] = g
  <2>1. CASE v = n
    <3>1. e \in Range(started'[g]) <=> e \in Range(started[g]) \/ g = h
      BY <1>5
    <3>2. (\E i \in 1..n.at : lists[n.list][i] = g)
            <=> (\E i \in 1..w.at : lists[w.list][i] = g) \/ g = h
      <4>1. 1..w.at \subseteq 1..(w.at + 1) /\ w.at + 1 \in 1..(w.at + 1)
        BY <1>1, <1>2, WalksTyped
      <4> QED
        BY <1>0, <1>2, <1>10, <4>1
    <3> QED
      BY <1>2, <1>4, <2>1, <3>1, <3>2
  <2>2. CASE v # n
    <3>1. v \in walks /\ v.event # e
      BY <1>2, <1>4, <2>2
    <3>2. v.event \in Range(started'[g]) <=> v.event \in Range(started[g])
      BY <1>5, <3>1
    <3> QED
      BY <1>1, <3>1, <3>2 DEF WalksExact
  <2> QED
    BY <2>1, <2>2
<1>12. WalksExact'
  <2>1. ASSUME NEW v \in walks', NEW u \in walks', u.event = v.event PROVE u = v
    <3>1. \A x \in walks' : x # n => x \in walks /\ x # w
      BY <1>2
    <3> QED
      BY <1>1, <1>2, <1>4, <2>1, <3>1 DEF WalksExact
  <2>2. ASSUME NEW v \in walks'
        PROVE  /\ EventType(v.event) = "sync"
               /\ published[v.event].due \subseteq Range(lists[v.list])
               /\ \A g \in DOMAIN leftAt : g \in Range(lists[v.list]) => v.event <= leftAt[g]
    <3>1. v = n \/ v \in walks
      BY <1>2
    <3> QED
      BY <1>1, <1>2, <1>4, <3>1 DEF WalksExact
  <2> QED
    BY <1>2, <1>11, <2>1, <2>2 DEF WalksExact, EventType
<1>13. DuePending'
  <2>1. ASSUME NEW x \in Events \ cut, NEW g \in published[x].due
        PROVE  x \in Range(started'[g]) \/ <<g, x>> \in Range(tasks) \/ \E v \in walks' : v.event = x
    <3>1. g \in Handlers
      BY <1>1, Numbers
    <3>2. x \in Range(started[g]) \/ <<g, x>> \in Range(tasks) \/ \E v \in walks : v.event = x
      BY DEF BusInv, DuePending
    <3> QED
      BY <1>0, <1>2, <1>5, <3>1, <3>2
  <2> QED
    BY <1>2, <2>1 DEF DuePending, Events
<1>14. \A g \in Handlers : \A x \in Range(started'[g]) :
         g \in published'[x].due \/ published'[x].mode = "sync"
  BY <1>2, <1>4, <1>5 DEF BusInv, DeliveredOnce, EventType
<1>15. DeliveredOnce'
  BY <1>7, <1>13, <1>14, DeliveredFrom
<1>16. QuietAfterUnsubscribe' /\ HistoryIsRecent'
  <2>1. ASSUME NEW g \in DOMAIN leftAt, NEW x \in Range(started'[g]) PROVE x <= leftAt[g]
    <3>1. g \in Handlers /\ h \in Range(lists[w.list])
      BY <1>0, <1>1, <1>2 DEF BusTypeOK, Range
    <3> QED
      BY <1>4, <1>5, <3>1 DEF BusInv, InOrder, QuietAfterUnsubscribe
  <2> QED
    BY <1>2, <2>1 DEF BusInv, InOrder, QuietAfterUnsubscribe, HistoryIsRecent
<1>17. BusTypeOK'
  <2>1. ASSUME NEW g \in Handlers PROVE started'[g] \in Seq(Events)
    <3>1. started'[g] \in Seq(Nat) /\ Range(started'[g]) \subseteq Events
      BY <1>5
    <3> QED
      BY <3>1, Retyped DEF Range
  <2>2. started' \in [Handlers -> Seq(Events)]
    BY <1>5, <2>1
  <2>3. ASSUME NEW v \in walks'
        PROVE  v.event \in Events /\ v.list \in DOMAIN lists /\ v.at \in DOMAIN lists[v.list]
    BY <1>1, <1>2, <1>3 DEF BusTypeOK
  <2>4. walks' \subseteq [event : Events, list : DOMAIN lists, at : Nat]
    BY <1>1, <1>2 DEF BusTypeOK
  <2> QED
    BY <1>1, <1>2, <2>2, <2>3, <2>4 DEF BusTypeOK, Events
<1> QED
  BY <1>2, <1>8, <1>9, <1>12, <1>13, <1>15, <1>16, <1>17
  DEF BusInv, InOrder, ListsOnce, Known, Subscribed

(* A walk ends, its handlers all started or its publisher cancelled.       *)
LEMMA WalkEndsKeeps ==
  ASSUME BusInv, NEW w \in walks, SyncReturns(w) \/ PublisherCancelled(w) PROVE BusInv'
<1>1. BusTypeOK /\ WalksExact
  BY DEF BusInv
<1>2. /\ walks' = walks \ {w} /\ cut \subseteq cut' /\ cut' \subseteq Events
      /\ UNCHANGED <<lists, history, tasks, published, started, leftAt>>
  BY <1>1 DEF SyncReturns, PublisherCancelled, BusTypeOK
<1>3. ASSUME w.event \notin cut', NEW g \in published[w.event].due
      PROVE  w.event \in Range(started[g])
  <2>1. w.at >= Len(lists[w.list])
    BY <1>3 DEF SyncReturns, PublisherCancelled
  <2>2. /\ g \in Range(lists[w.list]) /\ DOMAIN lists[w.list] = 1..Len(lists[w.list])
        /\ w.at \in 1..Len(lists[w.list]) /\ Len(lists[w.list]) \in Nat
    BY <1>1, WalksTyped DEF WalksExact
  <2>3. PICK i \in 1..w.at : lists[w.list][i] = g
    BY <2>1, <2>2 DEF Range
  <2>4. g \in Handlers
    BY <1>1, WalksTyped, Numbers
  <2> QED
    BY <1>1, <2>3, <2>4 DEF WalksExact
<1>4. DuePending'
  <2>1. ASSUME NEW x \in Events \ cut', NEW g \in published[x].due
        PROVE  x \in Range(started[g]) \/ <<g, x>> \in Range(tasks) \/ \E v \in walks' : v.event = x
    <3>1. x \in Range(started[g]) \/ <<g, x>> \in Range(tasks) \/ \E v \in walks : v.event = x
      BY <1>2 DEF BusInv, DuePending
    <3>2. CASE x = w.event
      BY <1>3, <3>2
    <3>3. CASE x # w.event
      BY <1>2, <3>1, <3>3
    <3> QED
      BY <3>2, <3>3
  <2> QED
    BY <1>2, <2>1 DEF DuePending, Events
<1>5. WalksExact'
  BY <1>1, <1>2 DEF WalksExact, EventType
<1>6. DeliveredOnce'
  <2>1. \A g \in Handlers : IsInjective(started'[g])
    BY <1>2 DEF BusInv, DeliveredOnce
  <2>2. \A g \in Handlers : \A x \in Range(started'[g]) :
          g \in published'[x].due \/ published'[x].mode = "sync"
    BY <1>2 DEF BusInv, DeliveredOnce, EventType
  <2> QED
    BY <1>4, <2>1, <2>2, DeliveredFrom
<1>7. BusTypeOK'
  BY <1>1, <1>2 DEF BusTypeOK, Events
<1> QED
  BY <1>2, <1>4, <1>5, <1>6, <1>7
  DEF BusInv, InOrder, ListsOnce, Known, Subscribed, TasksInOrder, EventType, Events,
      QuietAfterUnsubscribe, PublishOrder, HistoryIsRecent

LEMMA ClearHistoryKeeps ==
  ASSUME BusInv, ClearHistory PROVE BusInv'
<1>1. /\ history' = <<>> /\ BusTypeOK
      /\ UNCHANGED <<lists, tasks, walks, published, started, cut, leftAt>>
  BY DEF ClearHistory, BusInv
<1>2. HistoryIsRecent' /\ BusTypeOK'
  BY <1>1, EventBusAssumption DEF HistoryIsRecent, BusTypeOK, Events, EventBusAssumption
<1> QED
  BY <1>1, <1>2
  DEF BusInv, DuePending, DeliveredOnce, Dispatched, InOrder, ListsOnce, Known, Subscribed,
      WalksExact, TasksInOrder, EventType, Events, QuietAfterUnsubscribe, PublishOrder

(* What every publish leaves in the history.                               *)
LEMMA RememberKeeps ==
  ASSUME BusTypeOK, HistoryIsRecent, NEW mode \in {"async", "sync"}, NewEvent(mode)
  PROVE  HistoryIsRecent' /\ history' \in Seq(Events')
<1>0. PICK n : n = Len(published) + 1
  OBVIOUS
<1>1. /\ n \in Nat /\ n \in Events' /\ Events \subseteq Events' /\ Len(published') = n
      /\ history \in Seq(Events') /\ MaxHistory \in Nat
      /\ Len(history) \in Nat /\ Len(history) <= MaxHistory
      /\ \A i \in 1..Len(history) : history[i] = Len(published) - Len(history) + i
  <2>1. n \in Events' /\ Events \subseteq Events' /\ Len(published') = n /\ Len(published) \in Nat
    BY <1>0, OldEvents, Numbers
  <2>2. history \in Seq(Events) /\ \A i \in DOMAIN history : history[i] \in Events'
    BY <2>1 DEF BusTypeOK
  <2>3. history \in Seq(Events')
    BY <2>2, Retyped
  <2> QED
    BY <1>0, <2>1, <2>3, EventBusAssumption DEF HistoryIsRecent, EventBusAssumption
<1>2. PICK longer : longer = Append(history, n)
  OBVIOUS
<1>3. /\ longer \in Seq(Events') /\ Len(longer) = Len(history) + 1 /\ longer # <<>>
      /\ DOMAIN longer = 1..Len(longer)
      /\ \A i \in 1..Len(longer) : longer[i] = n - Len(longer) + i
  <2>1. /\ longer \in Seq(Events') /\ Len(longer) = Len(history) + 1
        /\ DOMAIN longer = 1..Len(longer)
        /\ \A i \in 1..Len(history) : longer[i] = history[i]
        /\ longer[Len(history) + 1] = n
    BY <1>1, <1>2, Appended
  <2>2. ASSUME NEW i \in 1..Len(longer) PROVE longer[i] = n - Len(longer) + i
    <3>1. CASE i \in 1..Len(history)
      BY <1>0, <1>1, <2>1, <3>1, Numbers
    <3>2. CASE i = Len(history) + 1
      BY <1>0, <1>1, <2>1, <3>2, Numbers
    <3> QED
      BY <1>1, <2>1, <3>1, <3>2
  <2>3. longer # <<>>
    BY <1>1, <2>1
  <2> QED
    BY <2>1, <2>2, <2>3
<1>4. CASE Len(longer) > MaxHistory
  <2>1. history' = Tail(longer)
    BY <1>0, <1>2, <1>4 DEF NewEvent, Remember
  <2>2. /\ history' \in Seq(Events') /\ Len(history') = Len(longer) - 1
        /\ DOMAIN history' = 1..(Len(longer) - 1)
        /\ \A i \in 1..(Len(longer) - 1) : history'[i] = longer[i + 1]
    BY <1>3, <2>1, Shortened
  <2>3. ASSUME NEW i \in DOMAIN history' PROVE history'[i] = n - Len(history') + i
    BY <1>1, <1>3, <2>2
  <2> QED
    BY <1>1, <1>3, <2>2, <2>3 DEF HistoryIsRecent
<1>5. CASE ~ (Len(longer) > MaxHistory)
  <2>1. history' = longer
    BY <1>0, <1>2, <1>5 DEF NewEvent, Remember
  <2>2. Len(history') <= MaxHistory
    BY <1>1, <1>3, <1>5, <2>1
  <2>3. \A i \in DOMAIN history' : history'[i] = n - Len(history') + i
    BY <1>3, <2>1
  <2> QED
    BY <1>1, <1>3, <2>1, <2>2, <2>3 DEF HistoryIsRecent
<1> QED
  BY <1>4, <1>5

(* What a new event does not change: the walks and tasks of the others.    *)
LEMMA OthersStand ==
  ASSUME BusInv, NEW mode \in {"async", "sync"}, NewEvent(mode),
         UNCHANGED <<lists, cut, leftAt>>
  PROVE  /\ leftAt' \in [DOMAIN leftAt' -> 0..Len(published')]
         /\ walks \subseteq [event : Events', list : DOMAIN lists', at : Nat]
         /\ tasks \in Seq(Handlers \X Events') /\ cut' \subseteq Events'
         /\ \A h \in Handlers : started[h] \in Seq(Events')
         /\ \A h \in Handlers : \A x \in Range(started[h]) :
              /\ published'[x] = published[x]
              /\ h \in published'[x].due \/ published'[x].mode = "sync"
         /\ \A w \in walks : published'[w.event] = published[w.event]
         /\ \A i \in DOMAIN tasks : published'[tasks[i][2]] = published[tasks[i][2]]
<1>0. BusTypeOK
  BY DEF BusInv
<1>1. /\ Events \subseteq Events' /\ Len(published') = Len(published) + 1
      /\ \A x \in Events : published'[x] = published[x]
      /\ Len(published) \in Nat
  BY <1>0, OldEvents, Numbers
<1>2. leftAt' \in [DOMAIN leftAt' -> 0..Len(published')]
  BY <1>0, <1>1 DEF BusTypeOK
<1>3. walks \subseteq [event : Events', list : DOMAIN lists', at : Nat] /\ cut' \subseteq Events'
  BY <1>0, <1>1 DEF BusTypeOK
<1>4. tasks \in Seq(Handlers \X Events')
  <2>1. \A i \in DOMAIN tasks : tasks[i] \in Handlers \X Events'
    BY <1>0, <1>1, TasksTyped
  <2> QED
    BY <1>0, <2>1, TasksTyped, Retyped
<1>5. ASSUME NEW h \in Handlers PROVE started[h] \in Seq(Events')
  <2>1. started[h] \in Seq(Events) /\ \A i \in DOMAIN started[h] : started[h][i] \in Events'
    BY <1>0, <1>1 DEF BusTypeOK
  <2> QED
    BY <2>1, Retyped
<1>6. ASSUME NEW h \in Handlers, NEW x \in Range(started[h])
      PROVE  /\ published'[x] = published[x]
             /\ h \in published'[x].due \/ published'[x].mode = "sync"
  <2>1. x \in Events
    BY <1>0, Numbers
  <2> QED
    BY <1>1, <2>1 DEF BusInv, DeliveredOnce, EventType
<1>7. \A w \in walks : published'[w.event] = published[w.event]
  BY <1>0, <1>1, WalksTyped
<1>8. \A i \in DOMAIN tasks : published'[tasks[i][2]] = published[tasks[i][2]]
  BY <1>0, <1>1, TasksTyped
<1> QED
  BY <1>2, <1>3, <1>4, <1>5, <1>6, <1>7, <1>8

LEMMA PublishKeeps ==
  ASSUME BusInv, Publish PROVE BusInv'
<1>0. PICK n, more : n = Len(published) + 1
                     /\ more = [i \in DOMAIN Subscribed |-> <<Subscribed[i], n>>]
  OBVIOUS
<1>1. /\ BusTypeOK /\ NewEvent("async") /\ tasks' = tasks \o more
      /\ UNCHANGED <<lists, walks, started, cut, leftAt>>
  BY <1>0 DEF Publish, BusInv
<1>2. /\ Events' = Events \cup {n} /\ n \notin Events /\ n \in Nat
      /\ \A x \in Events : published'[x] = published[x] /\ x < n
      /\ published'[n].mode = "async" /\ published'[n].due = Range(Subscribed)
      /\ \A h \in Handlers : n \notin Range(started[h])
  <2>1. Len(published) \in Nat /\ \A x \in Events : x < Len(published) + 1
    BY <1>1, Numbers DEF Events
  <2> QED
    BY <1>0, <1>1, <2>1, OldEvents, Numbers
<1>3. /\ more \in Seq(Handlers \X Events') /\ Len(more) = Len(Subscribed)
      /\ Subscribed \in Seq(Handlers) /\ Len(Subscribed) \in Nat
      /\ DOMAIN Subscribed = 1..Len(Subscribed)
      /\ \A i \in 1..Len(Subscribed) : more[i] = <<Subscribed[i], n>>
  <2>1. /\ Subscribed \in Seq(Handlers) /\ Len(Subscribed) \in Nat
        /\ DOMAIN Subscribed = 1..Len(Subscribed)
    BY <1>1, Numbers
  <2>2. \A i \in 1..Len(Subscribed) : Subscribed[i] \in Handlers /\ n \in Events'
    BY <1>2, <2>1
  <2>3. more \in [1..Len(Subscribed) -> Handlers \X Events']
    BY <1>0, <2>1, <2>2
  <2> QED
    BY <1>0, <2>1, <2>3
<1>4. /\ tasks' \in Seq(Handlers \X Events') /\ Len(tasks) \in Nat
      /\ DOMAIN tasks' = 1..(Len(tasks) + Len(Subscribed)) /\ DOMAIN tasks = 1..Len(tasks)
      /\ \A i \in 1..(Len(tasks) + Len(Subscribed)) :
           tasks'[i] = IF i <= Len(tasks) THEN tasks[i] ELSE <<Subscribed[i - Len(tasks)], n>>
  <2>1. tasks \in Seq(Handlers \X Events') /\ Len(tasks) \in Nat /\ DOMAIN tasks = 1..Len(tasks)
    BY <1>1, OthersStand, TasksTyped
  <2>2. /\ tasks \o more \in Seq(Handlers \X Events')
        /\ Len(tasks \o more) = Len(tasks) + Len(more)
        /\ \A i \in 1..(Len(tasks) + Len(more)) :
             (tasks \o more)[i] = IF i <= Len(tasks) THEN tasks[i] ELSE more[i - Len(tasks)]
    BY <1>3, <2>1, ConcatProperties
  <2>3. \A i \in 1..(Len(tasks) + Len(Subscribed)) :
          ~ (i <= Len(tasks)) => i - Len(tasks) \in 1..Len(Subscribed)
    BY <1>3, <2>1
  <2>4. ASSUME NEW i \in 1..(Len(tasks) + Len(Subscribed))
        PROVE  tasks'[i] = IF i <= Len(tasks) THEN tasks[i] ELSE <<Subscribed[i - Len(tasks)], n>>
    <3>1. CASE i <= Len(tasks)
      BY <1>1, <1>3, <2>2, <3>1
    <3>2. CASE ~ (i <= Len(tasks))
      <4>1. i - Len(tasks) \in 1..Len(Subscribed) /\ tasks'[i] = more[i - Len(tasks)]
        BY <1>1, <1>3, <2>2, <2>3, <3>2
      <4> QED
        BY <1>3, <3>2, <4>1
    <3> QED
      BY <3>1, <3>2
  <2>5. DOMAIN tasks' = 1..(Len(tasks) + Len(Subscribed))
    BY <1>1, <1>3, <2>2
  <2> QED
    BY <1>1, <2>1, <2>2, <2>4, <2>5
<1>5. ASSUME NEW i \in DOMAIN tasks'
      PROVE  \/ i \in DOMAIN tasks /\ tasks'[i] = tasks[i]
             \/ /\ i > Len(tasks) /\ i - Len(tasks) \in DOMAIN Subscribed
                /\ tasks'[i][1] = Subscribed[i - Len(tasks)] /\ tasks'[i][2] = n
                /\ tasks'[i][1] \in Range(Subscribed) /\ tasks'[i][1] \in Handlers
  <2>1. CASE i <= Len(tasks)
    BY <1>4, <2>1
  <2>2. CASE ~ (i <= Len(tasks))
    <3>1. i - Len(tasks) \in DOMAIN Subscribed /\ i > Len(tasks)
      BY <1>3, <1>4, <2>2
    <3>2. tasks'[i] = <<Subscribed[i - Len(tasks)], n>>
      BY <1>4, <2>2
    <3> QED
      BY <1>3, <3>1, <3>2 DEF Range
  <2> QED
    BY <2>1, <2>2
<1>6. TasksInOrder'
  <2>1. ASSUME NEW i \in DOMAIN tasks', i \in DOMAIN tasks, tasks'[i] = tasks[i]
        PROVE  /\ published'[tasks'[i][2]].mode = "async"
               /\ tasks'[i][1] \in published'[tasks'[i][2]].due
               /\ \A j \in DOMAIN tasks' :
                    i < j /\ tasks'[j][1] = tasks'[i][1] => tasks'[i][2] < tasks'[j][2]
               /\ \A x \in Range(started[tasks'[i][1]]) :
                    published'[x].mode = "async" => x < tasks'[i][2]
               /\ tasks'[i][1] \in DOMAIN leftAt => tasks'[i][2] <= leftAt[tasks'[i][1]]
    <3>1. /\ EventType(tasks[i][2]) = "async" /\ tasks[i][1] \in published[tasks[i][2]].due
          /\ \A j \in DOMAIN tasks : i < j /\ tasks[j][1] = tasks[i][1] => tasks[i][2] < tasks[j][2]
          /\ \A x \in Range(started[tasks[i][1]]) : EventType(x) = "async" => x < tasks[i][2]
          /\ tasks[i][1] \in DOMAIN leftAt => tasks[i][2] <= leftAt[tasks[i][1]]
      BY <2>1 DEF BusInv, TasksInOrder
    <3>2. /\ tasks[i][1] \in Handlers /\ tasks[i][2] \in Events
          /\ published'[tasks[i][2]] = published[tasks[i][2]]
      BY <1>1, <1>2, <2>1, TasksTyped
    <3>3. ASSUME NEW j \in DOMAIN tasks', i < j, tasks'[j][1] = tasks[i][1]
          PROVE  tasks[i][2] < tasks'[j][2]
      BY <1>2, <1>5, <3>1, <3>2, <3>3
    <3>4. \A x \in Range(started[tasks[i][1]]) : published'[x] = published[x]
      BY <1>1, <3>2, OthersStand
    <3> QED
      BY <2>1, <3>1, <3>2, <3>3, <3>4 DEF EventType
  <2>2. ASSUME NEW i \in DOMAIN tasks', i > Len(tasks), i - Len(tasks) \in DOMAIN Subscribed,
               tasks'[i][1] = Subscribed[i - Len(tasks)], tasks'[i][2] = n,
               tasks'[i][1] \in Range(Subscribed), tasks'[i][1] \in Handlers
        PROVE  /\ published'[tasks'[i][2]].mode = "async"
               /\ tasks'[i][1] \in published'[tasks'[i][2]].due
               /\ \A j \in DOMAIN tasks' :
                    i < j /\ tasks'[j][1] = tasks'[i][1] => tasks'[i][2] < tasks'[j][2]
               /\ \A x \in Range(started[tasks'[i][1]]) :
                    published'[x].mode = "async" => x < tasks'[i][2]
               /\ tasks'[i][1] \in DOMAIN leftAt => tasks'[i][2] <= leftAt[tasks'[i][1]]
    <3>1. IsInjective(Subscribed) /\ tasks'[i][1] \notin DOMAIN leftAt
      <4>1. Subscribed = lists[Len(lists)] /\ Len(lists) \in DOMAIN lists
        BY <1>1, Numbers
      <4> QED
        BY <2>2, <4>1 DEF BusInv, ListsOnce
    <3>2. ASSUME NEW j \in DOMAIN tasks', i < j, tasks'[j][1] = tasks'[i][1] PROVE FALSE
      <4>1. j \notin DOMAIN tasks
        BY <1>4, <2>2, <3>2
      <4>2. j - Len(tasks) \in DOMAIN Subscribed /\ tasks'[j][1] = Subscribed[j - Len(tasks)]
        BY <1>5, <4>1
      <4>3. j - Len(tasks) = i - Len(tasks)
        BY <2>2, <3>1, <3>2, <4>2 DEF IsInjective
      <4> QED
        BY <1>4, <3>2, <4>3
    <3>3. \A x \in Range(started[tasks'[i][1]]) : x < n
      BY <1>1, <1>2, <2>2, Numbers
    <3> QED
      BY <1>2, <2>2, <3>1, <3>2, <3>3
  <2> QED
    BY <1>1, <1>5, <2>1, <2>2 DEF TasksInOrder, EventType
<1>7. WalksExact'
  <2>1. WalksExact /\ \A w \in walks : published'[w.event] = published[w.event]
    BY <1>1, OthersStand DEF BusInv
  <2> QED
    BY <1>1, <2>1, ZenonT(60) DEF WalksExact, EventType
<1>8. DuePending'
  <2>1. Range(tasks) \subseteq Range(tasks') /\ \A h \in Range(Subscribed) : <<h, n>> \in Range(tasks')
    <3>1. ASSUME NEW y \in Range(tasks) PROVE y \in Range(tasks')
      <4>1. PICK i \in 1..Len(tasks) : y = tasks[i]
        BY <1>4 DEF Range
      <4>2. i \in DOMAIN tasks' /\ y = tasks'[i]
        BY <1>3, <1>4, <4>1
      <4> QED
        BY <4>2 DEF Range
    <3>2. ASSUME NEW h \in Range(Subscribed) PROVE <<h, n>> \in Range(tasks')
      <4>1. PICK i \in 1..Len(Subscribed) : h = Subscribed[i]
        BY <1>3 DEF Range
      <4>2. /\ Len(tasks) + i \in DOMAIN tasks' /\ ~ (Len(tasks) + i <= Len(tasks))
            /\ (Len(tasks) + i) - Len(tasks) = i
        BY <1>3, <1>4
      <4>3. tasks'[Len(tasks) + i] = <<h, n>>
        BY <1>4, <4>1, <4>2
      <4> QED
        BY <4>2, <4>3 DEF Range
    <3> QED
      BY <3>1, <3>2
  <2>2. ASSUME NEW x \in Events' \ cut', NEW h \in published'[x].due
        PROVE  x \in Range(started[h]) \/ <<h, x>> \in Range(tasks') \/ \E w \in walks : w.event = x
    <3>1. CASE x = n
      BY <1>2, <2>1, <2>2, <3>1
    <3>2. CASE x \in Events
      BY <1>1, <1>2, <2>1, <2>2, <3>2 DEF BusInv, DuePending
    <3> QED
      BY <1>2, <3>1, <3>2
  <2> QED
    BY <1>1, <2>2 DEF DuePending
<1>9. DeliveredOnce'
  <2>1. \A h \in Handlers : IsInjective(started'[h])
    BY <1>1 DEF BusInv, DeliveredOnce
  <2>2. \A h \in Handlers : \A x \in Range(started'[h]) :
          h \in published'[x].due \/ published'[x].mode = "sync"
    BY <1>1, OthersStand
  <2> QED
    BY <1>8, <2>1, <2>2, DeliveredFrom
<1>10. InOrder'
  <2>1. HistoryIsRecent'
    BY <1>1, RememberKeeps DEF BusInv, InOrder
  <2>2. QuietAfterUnsubscribe'
    BY <1>1 DEF BusInv, InOrder, QuietAfterUnsubscribe
  <2>3. ASSUME NEW h \in Handlers, NEW i \in DOMAIN started[h], NEW j \in DOMAIN started[h], i < j,
               published'[started[h][i]].mode = "async", published'[started[h][j]].mode = "async"
        PROVE  started[h][i] < started[h][j]
    <3>1. started[h][i] \in Range(started[h]) /\ started[h][j] \in Range(started[h])
      BY DEF Range
    <3>2. published[started[h][i]].mode = "async" /\ published[started[h][j]].mode = "async"
      BY <1>1, <2>3, <3>1, OthersStand
    <3> QED
      BY <2>3, <3>2 DEF BusInv, InOrder, PublishOrder, EventType
  <2> QED
    BY <1>1, <2>1, <2>2, <2>3 DEF InOrder, PublishOrder, EventType
<1>11. BusTypeOK'
  <2>1. history' \in Seq(Events')
    BY <1>1, RememberKeeps DEF BusInv, InOrder
  <2>2. started' \in [Handlers -> Seq(Events')]
    BY <1>1, OthersStand DEF BusTypeOK
  <2>3. published' \in Seq([mode : {"async", "sync"}, due : SUBSET Handlers])
    BY <1>1, OldEvents
  <2> QED
    BY <1>1, <1>4, <2>1, <2>2, <2>3, OthersStand DEF BusTypeOK
<1> QED
  BY <1>1, <1>6, <1>7, <1>8, <1>9, <1>10, <1>11 DEF BusInv, ListsOnce, Known, Subscribed

LEMMA PublishSyncKeeps ==
  ASSUME BusInv, PublishSync PROVE BusInv'
<1>0. PICK n, h, v : /\ n = Len(published) + 1 /\ h = Head(Subscribed)
                     /\ v = [event |-> n, list |-> Len(lists), at |-> 1]
  OBVIOUS
<1>1. /\ BusTypeOK /\ NewEvent("sync") /\ UNCHANGED <<lists, tasks, cut, leftAt>>
      /\ \/ Subscribed = <<>> /\ walks' = walks /\ started' = started
         \/ Subscribed # <<>> /\ walks' = walks \cup {v} /\ Start(h, n)
  BY <1>0 DEF PublishSync, BusInv
<1>2. /\ Events' = Events \cup {n} /\ n \notin Events /\ n \in Nat
      /\ \A x \in Events : published'[x] = published[x] /\ x < n
      /\ published'[n].mode = "sync" /\ published'[n].due = Range(Subscribed)
      /\ \A g \in Handlers : n \notin Range(started[g])
  <2>1. Len(published) \in Nat /\ \A x \in Events : x < Len(published) + 1
    BY <1>1, Numbers DEF Events
  <2> QED
    BY <1>0, <1>1, <2>1, OldEvents, Numbers
<1>3. /\ Subscribed = lists[Len(lists)] /\ Len(lists) \in DOMAIN lists /\ Len(lists) \in Nat
      /\ Subscribed \in Seq(Handlers) /\ DOMAIN Subscribed = 1..Len(Subscribed)
      /\ Len(Subscribed) \in Nat
      /\ \A g \in DOMAIN leftAt : g \notin Range(Subscribed)
  BY <1>1, Numbers DEF BusInv, ListsOnce
<1>4. /\ \A g \in Handlers : Range(started[g]) \subseteq Range(started'[g])
      /\ \A g \in Handlers : Range(started'[g]) \subseteq Range(started[g]) \cup {n}
      /\ \A g \in Handlers :
           n \in Range(started'[g]) <=> Subscribed # <<>> /\ g = Subscribed[1]
      /\ started' \in [Handlers -> Seq(Nat)] /\ \A g \in Handlers : IsInjective(started'[g])
  <2>1. CASE Subscribed = <<>>
    <3>1. \A g \in Handlers : started[g] \in Seq(Nat)
      <4>1. \A g \in Handlers : started[g] \in Seq(Events)
        BY <1>1 DEF BusTypeOK
      <4> QED
        BY <1>1, <4>1, Numbers, Retyped
    <3>2. started' = started /\ started \in [Handlers -> Seq(Nat)]
      BY <1>1, <2>1, <3>1 DEF BusTypeOK
    <3> QED
      BY <1>2, <2>1, <3>2 DEF BusInv, DeliveredOnce
  <2>2. CASE Subscribed # <<>>
    <3>1. h = Subscribed[1] /\ h \in Handlers /\ Start(h, n)
      BY <1>0, <1>1, <1>3, <2>2, Shortened
    <3>2. \A g \in Handlers : IsInjective(started'[g])
      <4>1. \A g \in Handlers : IsInjective(started[g])
        BY DEF BusInv, DeliveredOnce
      <4> QED
        BY <1>1, <1>2, <3>1, <4>1, StartedOnce
    <3>3. /\ started' \in [Handlers -> Seq(Nat)]
          /\ Range(started'[h]) = Range(started[h]) \cup {n}
          /\ \A g \in Handlers : g # h => started'[g] = started[g]
      BY <1>1, <1>2, <3>1, Starting
    <3> QED
      BY <1>2, <2>2, <3>1, <3>2, <3>3
  <2> QED
    BY <2>1, <2>2
<1>5. ASSUME NEW g \in Handlers, NEW x \in Range(started'[g])
      PROVE  /\ x \in Events'
             /\ published'[x].mode = "async" => x \in Range(started[g]) /\ x \in Events
             /\ g \in published'[x].due \/ published'[x].mode = "sync"
  <2>1. x \in Range(started[g]) \/ x = n
    BY <1>4
  <2>2. CASE x = n
    BY <1>2, <2>2
  <2>3. CASE x \in Range(started[g])
    BY <1>1, <1>2, <2>3, OthersStand, Numbers
  <2> QED
    BY <2>1, <2>2, <2>3
<1>6. TasksInOrder'
  <2>1. ASSUME NEW i \in DOMAIN tasks
        PROVE  /\ published'[tasks[i][2]] = published[tasks[i][2]] /\ tasks[i][1] \in Handlers
               /\ \A x \in Range(started'[tasks[i][1]]) :
                    published'[x].mode = "async" => x < tasks[i][2]
    <3>1. tasks[i][1] \in Handlers
      BY <1>1, TasksTyped
    <3>2. ASSUME NEW x \in Range(started'[tasks[i][1]]), published'[x].mode = "async"
          PROVE  x < tasks[i][2]
      <4>1. x \in Range(started[tasks[i][1]]) /\ published[x].mode = "async"
        BY <1>2, <1>5, <3>1, <3>2
      <4> QED
        BY <4>1 DEF BusInv, TasksInOrder, EventType
    <3> QED
      BY <1>1, <3>1, <3>2, OthersStand
  <2>2. TasksInOrder
    BY DEF BusInv
  <2> QED
    BY <1>1, <2>1, <2>2 DEF TasksInOrder, EventType
<1>7. ASSUME NEW w \in walks
      PROVE  /\ w.event \in Events /\ w.event # n
             /\ published'[w.event] = published[w.event]
             /\ \A g \in Handlers : w.event \in Range(started'[g]) <=> w.event \in Range(started[g])
  <2>1. w.event \in Events /\ w.event # n /\ published'[w.event] = published[w.event]
    BY <1>1, <1>2, WalksTyped
  <2> QED
    BY <1>4, <2>1
<1>8. ASSUME Subscribed # <<>>
      PROVE  /\ v.event = n /\ v.list = Len(lists) /\ v.at = 1
             /\ 1 \in DOMAIN lists[v.list] /\ lists[v.list] = Subscribed
             /\ v \in [event : Events', list : DOMAIN lists', at : Nat]
  BY <1>0, <1>1, <1>2, <1>3, <1>8
<1>9. WalksExact'
  <2>1. ASSUME NEW w \in walks', w \in walks
        PROVE  /\ \A u \in walks' : u.event = w.event => u = w
               /\ published'[w.event].mode = "sync"
               /\ published'[w.event].due \subseteq Range(lists[w.list])
               /\ \A g \in Handlers :
                    w.event \in Range(started'[g]) <=> \E i \in 1..w.at : lists[w.list][i] = g
               /\ \A g \in DOMAIN leftAt : g \in Range(lists[w.list]) => w.event <= leftAt[g]
    <3>1. ASSUME NEW u \in walks', u.event = w.event PROVE u = w
      <4>1. u \in walks
        BY <1>1, <1>7, <1>8, <2>1, <3>1
      <4> QED
        BY <2>1, <3>1, <4>1 DEF BusInv, WalksExact
    <3>2. /\ EventType(w.event) = "sync" /\ published[w.event].due \subseteq Range(lists[w.list])
          /\ \A g \in Handlers :
               w.event \in Range(started[g]) <=> \E i \in 1..w.at : lists[w.list][i] = g
          /\ \A g \in DOMAIN leftAt : g \in Range(lists[w.list]) => w.event <= leftAt[g]
      BY <2>1 DEF BusInv, WalksExact
    <3> QED
      BY <1>7, <2>1, <3>1, <3>2 DEF EventType
  <2>2. ASSUME NEW w \in walks', w \notin walks
        PROVE  /\ \A u \in walks' : u.event = w.event => u = w
               /\ published'[w.event].mode = "sync"
               /\ published'[w.event].due \subseteq Range(lists[w.list])
               /\ \A g \in Handlers :
                    w.event \in Range(started'[g]) <=> \E i \in 1..w.at : lists[w.list][i] = g
               /\ \A g \in DOMAIN leftAt : g \in Range(lists[w.list]) => w.event <= leftAt[g]
    <3>1. Subscribed # <<>> /\ w = v /\ walks' = walks \cup {v}
      BY <1>1, <2>2
    <3>2. \A u \in walks' : u.event = w.event => u = w
      BY <1>7, <1>8, <3>1
    <3>3. \A g \in Handlers : n \in Range(started'[g]) <=> \E i \in 1..1 : Subscribed[i] = g
      BY <1>4, <3>1
    <3> QED
      BY <1>2, <1>3, <1>8, <3>1, <3>2, <3>3
  <2> QED
    BY <1>1, <2>1, <2>2 DEF WalksExact, EventType
<1>10. DuePending'
  <2>1. ASSUME NEW x \in Events' \ cut', NEW g \in published'[x].due
        PROVE  x \in Range(started'[g]) \/ <<g, x>> \in Range(tasks') \/ \E w \in walks' : w.event = x
    <3>1. CASE x = n
      <4>1. Subscribed # <<>>
        BY <1>2, <1>3, <2>1, <3>1 DEF Range
      <4> QED
        BY <1>1, <1>8, <3>1, <4>1
    <3>2. CASE x \in Events
      <4>1. g \in published[x].due /\ g \in Handlers /\ x \in Events \ cut
        BY <1>1, <1>2, <2>1, <3>2, Numbers
      <4>2. x \in Range(started[g]) \/ <<g, x>> \in Range(tasks) \/ \E w \in walks : w.event = x
        BY <4>1 DEF BusInv, DuePending
      <4> QED
        BY <1>1, <1>4, <4>1, <4>2
    <3> QED
      BY <1>2, <2>1, <3>1, <3>2
  <2> QED
    BY <2>1 DEF DuePending
<1>11. DeliveredOnce'
  BY <1>4, <1>5, <1>10, DeliveredFrom
<1>12. InOrder'
  <2>1. HistoryIsRecent'
    BY <1>1, RememberKeeps DEF BusInv, InOrder
  <2>2. QuietAfterUnsubscribe'
    <3>1. ASSUME NEW g \in DOMAIN leftAt, NEW x \in Range(started'[g]) PROVE x <= leftAt[g]
      <4>1. g \in Handlers
        BY <1>1 DEF BusTypeOK
      <4>2. x # n
        <5>1. CASE Subscribed # <<>>
          <6>1. Subscribed[1] \in Range(Subscribed)
            BY <1>8, <5>1 DEF Range
          <6> QED
            BY <1>3, <1>4, <3>1, <4>1, <6>1
        <5>2. CASE Subscribed = <<>>
          BY <1>4, <3>1, <4>1, <5>2
        <5> QED
          BY <5>1, <5>2
      <4>3. x \in Range(started[g])
        BY <1>4, <3>1, <4>1, <4>2
      <4> QED
        BY <4>3 DEF BusInv, InOrder, QuietAfterUnsubscribe
    <3> QED
      BY <1>1, <3>1 DEF QuietAfterUnsubscribe
  <2>3. PublishOrder'
    <3>1. PublishOrder /\ \A x \in Events : published'[x] = published[x]
      BY <1>2 DEF BusInv, InOrder
    <3>2. CASE Subscribed # <<>>
      <4>1. h \in Handlers /\ Start(h, n) /\ published'[n].mode # "async"
        BY <1>0, <1>1, <1>2, <1>3, <3>2, Shortened
      <4> QED
        BY <1>1, <1>2, <3>1, <4>1, StartedInOrder
    <3>3. CASE Subscribed = <<>>
      <4>1. started' = started
        BY <1>1, <3>3
      <4>2. ASSUME NEW g \in Handlers, NEW i \in DOMAIN started[g] PROVE started[g][i] \in Events
        <5>1. started[g][i] \in Range(started[g])
          BY DEF Range
        <5> QED
          BY <1>1, <5>1, Numbers
      <4> QED
        BY <3>1, <4>1, <4>2 DEF PublishOrder, EventType
    <3> QED
      BY <3>2, <3>3
  <2> QED
    BY <2>1, <2>2, <2>3 DEF InOrder
<1>13. BusTypeOK'
  <2>1. history' \in Seq(Events')
    BY <1>1, RememberKeeps DEF BusInv, InOrder
  <2>2. started' \in [Handlers -> Seq(Events')]
    <3>1. ASSUME NEW g \in Handlers PROVE started'[g] \in Seq(Events')
      <4>1. started'[g] \in Seq(Nat) /\ \A i \in DOMAIN started'[g] : started'[g][i] \in Events'
        BY <1>4, <1>5 DEF Range
      <4> QED
        BY <4>1, Retyped
    <3> QED
      BY <1>4, <3>1
  <2>3. published' \in Seq([mode : {"async", "sync"}, due : SUBSET Handlers])
    BY <1>1, OldEvents
  <2>4. /\ walks' \subseteq [event : Events', list : DOMAIN lists', at : Nat]
        /\ \A w \in walks' : w.at \in DOMAIN lists'[w.list]
    <3>1. /\ walks \subseteq [event : Events', list : DOMAIN lists', at : Nat]
          /\ \A w \in walks : w.at \in DOMAIN lists[w.list]
      BY <1>1, OthersStand DEF BusTypeOK
    <3> QED
      BY <1>1, <1>8, <3>1
  <2> QED
    BY <1>1, <2>1, <2>2, <2>3, <2>4, OthersStand DEF BusTypeOK
<1> QED
  BY <1>1, <1>6, <1>9, <1>10, <1>11, <1>12, <1>13 DEF BusInv, ListsOnce, Known, Subscribed

LEMMA BusNextKeeps ==
  BusInv /\ [BusNext]_busVars => BusInv'
<1> SUFFICES ASSUME BusInv, [BusNext]_busVars PROVE BusInv'
  OBVIOUS
<1>1. CASE UNCHANGED busVars
  <2>1. /\ lists' = lists /\ history' = history /\ tasks' = tasks /\ walks' = walks /\ published' = published
        /\ started' = started /\ cut' = cut /\ leftAt' = leftAt
    BY <1>1 DEF busVars
  <2>2. BusTypeOK'
    BY <2>1, Zenon DEF BusInv, BusTypeOK, Events
  <2>3. ListsOnce'
    BY <2>1, Zenon DEF BusInv, ListsOnce, Known, Subscribed
  <2>4. WalksExact'
    BY <2>1, Zenon DEF BusInv, WalksExact, EventType
  <2>5. TasksInOrder'
    BY <2>1, Zenon DEF BusInv, TasksInOrder, EventType
  <2>6. DuePending'
    BY <2>1, Zenon DEF BusInv, DuePending, Events
  <2>7. DeliveredOnce'
    <3>1. \A h \in Handlers : IsInjective(started'[h])
      BY <2>1, Zenon DEF BusInv, DeliveredOnce
    <3>2. \A e \in Events' \ cut' : Dispatched(e)' => \A h \in published'[e].due : e \in Range(started'[h])
      BY <2>1, Zenon DEF BusInv, DeliveredOnce, Dispatched, Events
    <3>3. \A h \in Handlers : \A e \in Range(started'[h]) : h \in published'[e].due \/ EventType(e)' = "sync"
      BY <2>1, Zenon DEF BusInv, DeliveredOnce, EventType
    <3> QED
      BY <3>1, <3>2, <3>3 DEF DeliveredOnce
  <2>8. InOrder'
    BY <2>1, Zenon DEF BusInv, InOrder, HistoryIsRecent, PublishOrder, QuietAfterUnsubscribe, Events, EventType
  <2> QED
    BY <2>2, <2>3, <2>4, <2>5, <2>6, <2>7, <2>8 DEF BusInv
<1> QED
  BY <1>1, SubscribeKeeps, UnsubscribeKeeps, PublishKeeps, StartTaskKeeps, PublishSyncKeeps,
     ClearHistoryKeeps, NextHandlerKeeps, WalkEndsKeeps DEF BusNext

LEMMA InitBus == BusInit => BusInv
<1> SUFFICES ASSUME BusInit PROVE BusInv
  OBVIOUS
<1>1. /\ lists = << <<>> >> /\ history = <<>> /\ tasks = <<>> /\ walks = {} /\ published = <<>>
      /\ started = [h \in Handlers |-> <<>>] /\ cut = {} /\ DOMAIN leftAt = {}
      /\ leftAt = [h \in {} |-> 0]
  BY DEF BusInit
<1>2. Events = {}
  BY <1>1 DEF Events
<1>3. lists \in Seq(Seq(Handlers)) /\ lists # <<>> /\ \A i \in DOMAIN lists : lists[i] = <<>>
  BY <1>1
<1>4. \A h \in Handlers : started[h] = <<>> /\ Range(started[h]) = {} /\ DOMAIN started[h] = {}
  BY <1>1 DEF Range
<1>5. BusTypeOK
  BY <1>1, <1>2, <1>3 DEF BusTypeOK
<1>6. ListsOnce /\ WalksExact /\ TasksInOrder /\ DuePending
  BY <1>1, <1>2, <1>3 DEF ListsOnce, WalksExact, TasksInOrder, DuePending, IsInjective
<1>7. DeliveredOnce
  BY <1>2, <1>4 DEF DeliveredOnce, IsInjective
<1>8. InOrder
  BY <1>1, <1>4, EventBusAssumption
  DEF InOrder, PublishOrder, HistoryIsRecent, QuietAfterUnsubscribe, EventBusAssumption
<1> QED
  BY <1>5, <1>6, <1>7, <1>8 DEF BusInv

LEMMA BusCorrect == Spec => []BusInv
<1>1. Init => BusInit
  BY DEF Init
<1>2. [BusUsed \/ RouterUsed \/ BrokerUsed]_vars => [BusNext]_busVars
  BY DEF vars, BusUsed, RouterUsed, BrokerUsed
<1> QED
  BY <1>1, <1>2, InitBus, BusNextKeeps, PTL DEF Spec

(* No handler is started twice with an event, and none that was due misses *)
(* it, however subscribe, unsubscribe and both publishes interleave and    *)
(* whichever publishers are cancelled.                                     *)
THEOREM EventsDeliveredOnce == Spec => []DeliveredOnce
BY BusCorrect, PTL DEF BusInv

(* Handlers start the events of publish in its order and none after they   *)
(* left, and the history is the latest max_history events.                 *)
THEOREM EventsInOrder == Spec => []InOrder
BY BusCorrect, PTL DEF BusInv

-----------------------------------------------------------------------------
(* The router. What _find_handlers collects.                               *)
Handling(k) == {r \in Rules : Matches(r, k)}

LEMMA MatchingLeaves ==
  ASSUME rules \in Seq(Rules), NEW k
  PROVE  Matching(k) \in Seq(Rules) /\ Leaves(Matching(k), rules, Len(rules), Handling(k))
<1> DEFINE Is(f) == f = [i \in 0..Len(rules) |->
                           IF i = 0 THEN <<>>
                           ELSE IF Matches(rules[i], k) THEN Append(f[i - 1], rules[i]) ELSE f[i - 1]]
           kept == CHOOSE f : Is(f)
<1>1. Matching(k) = kept[Len(rules)]
  BY DEF Matching
<1>2. Len(rules) \in Nat /\ \A i \in 1..Len(rules) : Matches(rules[i], k) <=> rules[i] \in Handling(k)
  <2>1. \A i \in 1..Len(rules) : rules[i] \in Rules
    OBVIOUS
  <2> QED
    BY <2>1 DEF Handling
<1>3. PICK f : f = [i \in 0..Len(rules) |-> IF i = 0 THEN <<>> ELSE
                       IF rules[i] \in Handling(k) THEN Append(f[i - 1], rules[i]) ELSE f[i - 1]]
  BY SiftExists, ZenonT(60)
<1>4. Is(f)
  <2>1. \A i \in 0..Len(rules) : i = 0 \/ (Matches(rules[i], k) <=> rules[i] \in Handling(k))
    BY <1>2
  <2>2. ASSUME NEW i \in 0..Len(rules)
        PROVE  f[i] = IF i = 0 THEN <<>>
                      ELSE IF Matches(rules[i], k) THEN Append(f[i - 1], rules[i]) ELSE f[i - 1]
    BY <1>3, <2>1
  <2>3. f = [i \in 0..Len(rules) |-> f[i]]
    BY <1>3
  <2> QED
    BY <2>2, <2>3
<1>5. Is(kept)
  BY <1>4
<1> HIDE DEF kept
<1>6. ASSUME NEW i \in 0..Len(rules)
      PROVE  kept[i] = IF i = 0 THEN <<>>
                       ELSE IF Matches(rules[i], k) THEN Append(kept[i - 1], rules[i]) ELSE kept[i - 1]
  BY <1>5
<1>7. kept[0] = <<>>
  BY <1>2, <1>6
<1>8. ASSUME NEW i \in 1..Len(rules)
      PROVE  kept[i] = IF rules[i] \in Handling(k) THEN Append(kept[i - 1], rules[i]) ELSE kept[i - 1]
  BY <1>2, <1>6
<1>9. kept[Len(rules)] \in Seq(Rules) /\ Leaves(kept[Len(rules)], rules, Len(rules), Handling(k))
  BY <1>7, <1>8, Sifted
<1> QED
  BY <1>1, <1>9

(* They come in the order of the priorities.                               *)
prio(x) == IF x \in Rules THEN Priority(x) ELSE 0
Descending(s) == \A i, j \in DOMAIN s : i < j => prio(s[i]) >= prio(s[j])

LEMMA MatchingDescends ==
  ASSUME rules \in Seq(Rules), RulesSorted, NEW k
  PROVE  Descending(Matching(k))
<1> DEFINE t == Matching(k)
<1>1. t \in Seq(Rules) /\ Leaves(t, rules, Len(rules), Handling(k)) /\ DOMAIN rules = 1..Len(rules)
  BY MatchingLeaves
<1> HIDE DEF t
<1>2. ASSUME NEW i \in DOMAIN t, NEW j \in DOMAIN t, i < j PROVE prio(t[i]) >= prio(t[j])
  <2>1. PICK a \in 1..Len(rules), c \in 1..Len(rules) : a < c /\ t[i] = rules[a] /\ t[j] = rules[c]
    BY <1>1, <1>2 DEF Leaves
  <2>2. Priority(rules[a]) >= Priority(rules[c]) /\ rules[a] \in Rules /\ rules[c] \in Rules
    BY <1>1, <2>1 DEF RulesSorted
  <2> QED
    BY <2>1, <2>2 DEF prio
<1> QED
  BY <1>2 DEF Descending, t

(* The default handler, if there is one, comes alone.                      *)
LEMMA DefaultAlone ==
  /\ SetToSeq(Default) \in Seq(Default)
  /\ \/ Default = {} /\ SetToSeq(Default) = <<>>
     \/ \E d \in Default : SetToSeq(Default) = <<d>>
<1>1. IsFiniteSet(Default) /\ (Cardinality(Default) = 0 \/ Cardinality(Default) = 1)
  <2>1. IsFiniteSet(Default) /\ Cardinality(Default) \in Nat /\ Cardinality(Default) <= 1
    BY RouterAssumption, FS_CardinalityType DEF RouterAssumption
  <2> QED
    BY <2>1
<1> DEFINE n == Cardinality(Default)
           s == SetToSeq(Default)
<1>2. ASSUME NEW f \in [1..n -> Default], IsInjective(f) PROVE s \in [1..n -> Default]
  BY <1>2 DEF SetToSeq
<1>3. CASE n = 0
  <2>1. Default = {}
    BY <1>1, <1>3, FS_EmptySet
  <2>2. \E f \in [1..n -> Default] : IsInjective(f)
    <3>1. <<>> \in [1..0 -> Default] /\ IsInjective(<<>>)
      BY DEF IsInjective
    <3> QED
      BY <1>3, <3>1
  <2>3. s \in [1..0 -> Default]
    BY <1>2, <1>3, <2>2
  <2>4. s = <<>>
    BY <2>3
  <2> QED
    BY <2>1, <2>4, EmptySeq
<1>4. CASE n = 1
  <2>1. PICK d : Default = {d}
    BY <1>1, <1>4, FS_Singleton
  <2>2. \E f \in [1..n -> Default] : IsInjective(f)
    <3>1. <<d>> \in [1..1 -> Default] /\ IsInjective(<<d>>)
      BY <2>1 DEF IsInjective
    <3> QED
      BY <1>4, <3>1
  <2>3. s \in [1..1 -> Default]
    BY <1>2, <1>4, <2>2
  <2>4. s = <<d>> /\ s \in Seq(Default)
    <3>0. PICK t, u : t = s /\ u = <<d>>
      OBVIOUS
    <3>1. /\ t \in [1..1 -> Default] /\ u \in [1..1 -> Default] /\ u \in Seq(Default)
          /\ u[1] = d /\ t[1] = d
      BY <2>1, <2>3, <3>0
    <3>2. \A i \in 1..1 : t[i] = d /\ u[i] = d
      BY <3>1
    <3>3. t = [i \in 1..1 |-> d] /\ u = [i \in 1..1 |-> d]
      BY <3>1, <3>2
    <3> QED
      BY <3>0, <3>1, <3>3
  <2> QED
    BY <2>1, <2>4
<1> QED
  BY <1>1, <1>3, <1>4

LEMMA HandlersDescend ==
  ASSUME RouterInv, NEW k \in Keys
  PROVE  /\ Found(k) = Matching(k) /\ Found(k) \in Seq(Rules)
         /\ HandlersFor(k) \in Seq(Rules \cup Default) /\ Descending(HandlersFor(k))
<1>1. rules \in Seq(Rules) /\ RulesSorted /\ CacheFresh
  BY DEF RouterInv, RouterTypeOK
<1>2. Found(k) = Matching(k) /\ Found(k) \in Seq(Rules) /\ Descending(Found(k))
  BY <1>1, MatchingLeaves, MatchingDescends DEF Found, CacheFresh
<1>3. SetToSeq(Default) \in Seq(Default) /\ Descending(SetToSeq(Default))
  <2>1. \A d \in Default : Descending(<<d>>)
    BY DEF Descending
  <2>2. Descending(<<>>)
    BY DEF Descending
  <2> QED
    BY <2>1, <2>2, DefaultAlone
<1>4. Found(k) \in Seq(Rules \cup Default) /\ SetToSeq(Default) \in Seq(Rules \cup Default)
  BY <1>2, <1>3, SeqMonotonic
<1> QED
  BY <1>2, <1>3, <1>4 DEF HandlersFor

LEMMA PlaceExists ==
  ASSUME RouterTypeOK, RulesSorted, NEW r \in Rules
  PROVE  /\ Place(r) \in 1..(Len(rules) + 1)
         /\ \A i \in 1..(Place(r) - 1) : Priority(rules[i]) >= Priority(r)
         /\ Place(r) <= Len(rules) => Priority(rules[Place(r)]) < Priority(r)
<1> DEFINE n == Len(rules)
           Lower == {p \in 1..(n + 1) : p <= n => Priority(rules[p]) < Priority(r)}
<1>1. n \in Nat /\ \A i \in 1..n : rules[i] \in Rules
  BY DEF RouterTypeOK
<1>2. Lower \in SUBSET Nat /\ Lower # {}
  <2>1. n + 1 \in Lower
    BY <1>1
  <2> QED
    BY <1>1, <2>1
<1>3. PICK p \in Lower : \A q \in Lower : p <= q
  <2> HIDE DEF Lower
  <2> QED
    BY <1>2, LeastElement
<1>4. p \in 1..(n + 1) /\ (p <= n => Priority(rules[p]) < Priority(r))
  BY <1>3
<1>5. ASSUME NEW i \in 1..(p - 1) PROVE Priority(rules[i]) >= Priority(r)
  <2>1. i \in 1..n /\ ~ (p <= i) /\ i \in 1..(n + 1) /\ i <= n
    BY <1>1, <1>4
  <2>2. ~ (Priority(rules[i]) < Priority(r))
    BY <1>3, <2>1
  <2>3. Priority(rules[i]) \in Int /\ Priority(r) \in Int
    BY <1>1, <2>1, RouterAssumption DEF RouterAssumption
  <2> QED
    BY <2>2, <2>3
<1> HIDE DEF Lower, n
<1> QED
  BY <1>4, <1>5 DEF Place, n

LEMMA AddRuleSorts ==
  ASSUME RouterTypeOK, RulesSorted, NEW r \in Rules, r \notin Range(rules), rules' = Inserted(r)
  PROVE  rules' \in Seq(Rules) /\ RulesSorted'
<1>1. PICK p, n, u : p = Place(r) /\ n = Len(rules) /\ u = rules'
  OBVIOUS
<1>2. /\ p \in 1..(n + 1) /\ n \in Nat
      /\ \A i \in 1..(p - 1) : Priority(rules[i]) >= Priority(r)
      /\ p <= n => Priority(rules[p]) < Priority(r)
  BY <1>1, PlaceExists DEF RouterTypeOK
<1>3. /\ u \in Seq(Rules) /\ DOMAIN u = 1..(n + 1)
      /\ \A i \in 1..(n + 1) : u[i] = IF i < p THEN rules[i] ELSE IF i = p THEN r ELSE rules[i - 1]
  <2>1. u = PutBefore(rules, p, r)
    BY <1>1 DEF Inserted, InsertAt, PutBefore
  <2>2. rules \in Seq(Rules) /\ p \in 1..(Len(rules) + 1)
    BY <1>1, <1>2 DEF RouterTypeOK
  <2> QED
    BY <1>1, <2>1, <2>2, Insertion, SMTT(30)
<1>4. /\ rules \in Seq(Rules) /\ DOMAIN rules = 1..n /\ \A i \in 1..n : rules[i] \in Rules /\ rules[i] # r
      /\ \A i, j \in 1..n : rules[i] = rules[j] => i = j
      /\ \A i, j \in 1..n : i < j => Priority(rules[i]) >= Priority(rules[j])
  <2>1. rules \in Seq(Rules) /\ DOMAIN rules = 1..n
    BY <1>1 DEF RouterTypeOK
  <2>2. \A i \in 1..n : rules[i] \in Rules /\ rules[i] # r
    <3>1. \A i \in 1..n : rules[i] \in Range(rules)
      BY <2>1, Zenon DEF Range
    <3>2. \A i \in 1..n : rules[i] \in Rules
      BY <1>1, <1>2, <2>1
    <3> QED
      BY <3>1, <3>2
  <2> QED
    BY <2>1, <2>2 DEF RulesSorted, IsInjective
<1>5. \A x \in Rules : Priority(x) \in Int
  BY RouterAssumption DEF RouterAssumption
<1>6. ASSUME NEW i \in 1..(n + 1), NEW j \in 1..(n + 1), i < j
      PROVE  Priority(u[i]) >= Priority(u[j]) /\ u[i] # u[j]
  <2>1. CASE j < p
    <3>1. i \in 1..n /\ j \in 1..n /\ i < p
      BY <1>2, <1>6, <2>1
    <3>2. u[i] = rules[i] /\ u[j] = rules[j]
      BY <1>3, <2>1, <3>1
    <3>3. Priority(rules[i]) >= Priority(rules[j]) /\ rules[i] # rules[j]
      BY <1>4, <1>6, <3>1
    <3> QED
      BY <3>2, <3>3
  <2>2. CASE j = p
    <3>1. i \in 1..n /\ i \in 1..(p - 1) /\ i < p /\ ~ (j < p)
      BY <1>2, <1>6, <2>2
    <3>2. u[i] = rules[i] /\ u[j] = r
      BY <1>3, <2>2, <3>1
    <3> QED
      BY <1>2, <1>4, <3>1, <3>2
  <2>3. CASE j > p
    <3>0. ~ (j < p) /\ j # p /\ j - 1 \in 1..n /\ p \in 1..n /\ p <= j - 1
      BY <1>2, <2>3
    <3>1. u[j] = rules[j - 1] /\ rules[j - 1] \in Rules /\ rules[p] \in Rules
      BY <1>3, <1>4, <3>0
    <3>2. p = j - 1 \/ p < j - 1
      BY <1>2, <3>0
    <3>3. Priority(rules[p]) < Priority(r) /\ Priority(rules[p]) >= Priority(rules[j - 1])
      <4>1. Priority(rules[p]) < Priority(r)
        BY <1>2, <3>0
      <4>2. CASE p = j - 1
        BY <1>5, <3>1, <4>1, <4>2
      <4>3. CASE p < j - 1
        BY <1>4, <3>0, <4>1, <4>3
      <4> QED
        BY <3>2, <4>2, <4>3
    <3>4. CASE i < p
      <4>1. u[i] = rules[i] /\ i \in 1..n /\ i < j - 1
        BY <1>2, <1>3, <3>0, <3>4
      <4>2. Priority(rules[i]) >= Priority(rules[j - 1]) /\ rules[i] # rules[j - 1]
        BY <1>4, <3>0, <4>1
      <4> QED
        BY <3>1, <4>1, <4>2
    <3>5. CASE i = p
      <4>1. u[i] = r
        BY <1>3, <3>5
      <4>2. Priority(r) >= Priority(rules[j - 1])
        BY <1>5, <3>1, <3>3
      <4> QED
        BY <1>4, <3>0, <3>1, <4>1, <4>2
    <3>6. CASE i > p
      <4>1. u[i] = rules[i - 1] /\ i - 1 \in 1..n /\ i - 1 < j - 1 /\ i - 1 # j - 1
        BY <1>2, <1>3, <1>6, <3>6
      <4>2. Priority(rules[i - 1]) >= Priority(rules[j - 1]) /\ rules[i - 1] # rules[j - 1]
        BY <1>4, <3>0, <4>1
      <4> QED
        BY <3>1, <4>1, <4>2
    <3> QED
      BY <1>2, <3>4, <3>5, <3>6
  <2> QED
    BY <1>2, <2>1, <2>2, <2>3
<1>7. ASSUME NEW i \in 1..(n + 1), NEW j \in 1..(n + 1), u[i] = u[j] PROVE i = j
  <2>1. i < j \/ i = j \/ j < i
    BY <1>2
  <2> QED
    BY <1>6, <1>7, <2>1
<1> QED
  BY <1>1, <1>3, <1>6, <1>7 DEF RulesSorted, IsInjective

LEMMA RemoveRuleSorts ==
  ASSUME RouterTypeOK, RulesSorted, NEW r \in Rules, r \in Range(rules), rules' = WithoutRule(r)
  PROVE  rules' \in Seq(Rules) /\ RulesSorted'
<1>1. PICK k, n, u : k = (CHOOSE i \in DOMAIN rules : rules[i] = r) /\ n = Len(rules) /\ u = rules'
  OBVIOUS
<1>2. rules \in Seq(Rules) /\ k \in DOMAIN rules /\ u = Dropped(rules, k)
  BY <1>1 DEF RouterTypeOK, Range, WithoutRule, RemoveAt, Dropped
<1>3. /\ u \in Seq(Rules) /\ DOMAIN u = 1..(n - 1) /\ n \in Nat \ {0} /\ DOMAIN rules = 1..n
      /\ \A i \in 1..(n - 1) : u[i] = rules[IF i < k THEN i ELSE i + 1]
  <2>1. /\ Dropped(rules, k) \in Seq(Rules) /\ DOMAIN Dropped(rules, k) = 1..(Len(rules) - 1)
        /\ Len(rules) \in Nat \ {0}
        /\ \A i \in 1..(Len(rules) - 1) : Dropped(rules, k)[i] = rules[IF i < k THEN i ELSE i + 1]
    BY <1>2, RemovedAt
  <2>2. DOMAIN rules = 1..n
    BY <1>1, <1>2
  <2> QED
    BY <1>1, <1>2, <2>1, <2>2
<1> DEFINE at(i) == IF i < k THEN i ELSE i + 1
<1>4. \A i, j \in 1..(n - 1) : /\ at(i) \in 1..n /\ (i < j => at(i) < at(j)) /\ (at(i) = at(j) => i = j)
  BY <1>2, <1>3
<1>5. \A i \in 1..(n - 1) : u[i] = rules[at(i)]
  BY <1>3
<1> HIDE DEF at
<1>6. /\ \A i, j \in 1..n : rules[i] = rules[j] => i = j
      /\ \A i, j \in 1..n : i < j => Priority(rules[i]) >= Priority(rules[j])
  BY <1>3 DEF RulesSorted, IsInjective
<1>7. \A i, j \in 1..(n - 1) : u[i] = u[j] => i = j
  BY <1>4, <1>5, <1>6
<1>8. \A i, j \in 1..(n - 1) : i < j => Priority(u[i]) >= Priority(u[j])
  BY <1>4, <1>5, <1>6
<1>9. rules' = u /\ DOMAIN rules' = 1..(n - 1)
  BY <1>1, <1>3
<1> QED
  BY <1>3, <1>7, <1>8, <1>9 DEF RulesSorted, IsInjective

(* One more end of one kind, and the counter that goes with it.            *)
Kinds == {"processed", "refused", "unhandled", "failed"}

LEMMA OneMoreEnd ==
  ASSUME RouterTypeOK, NEW m \in Messages, NEW x \in Kinds, ends' = [ends EXCEPT ![m][x] = @ + 1],
         NEW k \in Keys, NEW kinds \in SUBSET Kinds, IsFiniteSet(Ended(k, kinds))
  PROVE  /\ IsFiniteSet(Ended(k, kinds)')
         /\ KeyOf(m) = k /\ x \in kinds => Cardinality(Ended(k, kinds)') = Cardinality(Ended(k, kinds)) + 1
         /\ ~ (KeyOf(m) = k /\ x \in kinds) => Cardinality(Ended(k, kinds)') = Cardinality(Ended(k, kinds))
<1>0. PICK P, g : P = {n \in Messages : KeyOf(n) = k} \X kinds /\ g = <<m, x>>
  OBVIOUS
<1>1. \A p \in P : /\ ends[p[1]][p[2]] \in Nat
                   /\ ends'[p[1]][p[2]] = IF p = g THEN ends[p[1]][p[2]] + 1 ELSE ends[p[1]][p[2]]
  <2>1. ends \in [Messages -> [Kinds -> Nat]]
    BY DEF RouterTypeOK, Kinds
  <2>2. ASSUME NEW p \in P PROVE p[1] \in Messages /\ p[2] \in Kinds /\ p = <<p[1], p[2]>>
    BY <1>0
  <2>3. ASSUME NEW n \in Messages, NEW y \in Kinds
        PROVE  /\ ends[n][y] \in Nat
               /\ ends'[n][y] = IF <<n, y>> = <<m, x>> THEN ends[n][y] + 1 ELSE ends[n][y]
    BY <2>1
  <2> QED
    BY <1>0, <2>2, <2>3
<1>2. /\ Ended(k, kinds) = UNION {{p} \X (1..ends[p[1]][p[2]]) : p \in P}
      /\ Ended(k, kinds)' = UNION {{p} \X (1..ends'[p[1]][p[2]]) : p \in P}
  BY <1>0 DEF Ended
<1>3. CASE KeyOf(m) = k /\ x \in kinds
  <2>1. PICK e, c : e = <<g, c>> /\ c = ends[g[1]][g[2]] + 1
    OBVIOUS
  <2>2. g \in P
    BY <1>0, <1>3
  <2>3. c - 1 \in Nat /\ ends[g[1]][g[2]] = c - 1 /\ ends'[g[1]][g[2]] = c
    BY <1>1, <2>1, <2>2
  <2>4. 1..c = 1..(c - 1) \cup {c} /\ c \notin 1..(c - 1)
    BY <2>3
  <2>5. Ended(k, kinds)' = Ended(k, kinds) \cup {e}
    <3>1. ASSUME NEW z \in Ended(k, kinds)' PROVE z \in Ended(k, kinds) \cup {e}
      <4>1. PICK p \in P : z \in {p} \X (1..ends'[p[1]][p[2]])
        BY <1>2
      <4>2. CASE p = g
        <5>1. z \in {g} \X (1..(c - 1) \cup {c})
          BY <2>3, <2>4, <4>1, <4>2
        <5>2. z = e \/ z \in {g} \X (1..(c - 1))
          BY <2>1, <5>1
        <5> QED
          BY <1>2, <2>2, <2>3, <5>2
      <4>3. CASE p # g
        BY <1>1, <1>2, <4>1, <4>3
      <4> QED
        BY <4>2, <4>3
    <3>2. ASSUME NEW z \in Ended(k, kinds) PROVE z \in Ended(k, kinds)'
      <4>1. PICK p \in P : z \in {p} \X (1..ends[p[1]][p[2]])
        BY <1>2
      <4>2. 1..ends[p[1]][p[2]] \subseteq 1..ends'[p[1]][p[2]]
        BY <1>1
      <4> QED
        BY <1>2, <4>1, <4>2
    <3>3. e \in Ended(k, kinds)'
      <4>1. e \in {g} \X (1..ends'[g[1]][g[2]])
        BY <2>1, <2>3, <2>4
      <4> QED
        BY <1>2, <2>2, <4>1
    <3> QED
      BY <3>1, <3>2, <3>3
  <2>6. e \notin Ended(k, kinds)
    <3>1. ASSUME NEW p \in P, e \in {p} \X (1..ends[p[1]][p[2]]) PROVE FALSE
      <4>1. p = g /\ c \in 1..ends[p[1]][p[2]]
        BY <2>1, <3>1
      <4> QED
        BY <2>3, <2>4, <4>1
    <3> QED
      BY <1>2, <3>1
  <2> QED
    BY <1>3, <2>5, <2>6, FS_AddElement
<1>4. CASE ~ (KeyOf(m) = k /\ x \in kinds)
  <2>1. g \notin P
    BY <1>0, <1>4
  <2>2. \A p \in P : ends'[p[1]][p[2]] = ends[p[1]][p[2]]
    BY <1>1, <2>1
  <2>3. Ended(k, kinds)' = Ended(k, kinds)
    BY <1>2, <2>2
  <2> QED
    BY <1>4, <2>3
<1> QED
  BY <1>3, <1>4

LEMMA CountersAddUp ==
  ASSUME RouterTypeOK, StatsAddUp, FewEnds, NEW m \in Messages, NEW success \in BOOLEAN, NEW x \in Kinds,
         success <=> x = "processed", UpdateStats(m, success), ends' = [ends EXCEPT ![m][x] = @ + 1]
  PROVE  /\ StatsAddUp' /\ FewEnds'
         /\ stats' \in [Keys -> [ok : Nat, failed : Nat]]
         /\ ends' \in [Messages -> [Kinds -> Nat]]
<1>1. stats \in [Keys -> [ok : Nat, failed : Nat]] /\ KeyOf(m) \in Keys /\ ends \in [Messages -> [Kinds -> Nat]]
  BY RouterAssumption DEF RouterTypeOK, RouterAssumption, Kinds
<1>2. ends' \in [Messages -> [Kinds -> Nat]]
  BY <1>1
<1>3. stats' \in [Keys -> [ok : Nat, failed : Nat]]
  BY <1>1 DEF UpdateStats
<1>4. /\ \A k \in Keys : stats'[k].ok = IF KeyOf(m) = k /\ success THEN stats[k].ok + 1 ELSE stats[k].ok
      /\ \A k \in Keys : stats'[k].failed = IF KeyOf(m) = k /\ ~success THEN stats[k].failed + 1 ELSE stats[k].failed
  BY <1>1 DEF UpdateStats
<1>0. PICK good, bad : good = {"processed"} /\ bad = {"refused", "unhandled", "failed"}
  OBVIOUS
<1>5. good \in SUBSET Kinds /\ bad \in SUBSET Kinds /\ Kinds \in SUBSET Kinds
      /\ (x \in good <=> success) /\ (x \in bad <=> ~success)
  BY <1>0 DEF Kinds
<1>6. ASSUME NEW k \in Keys
      PROVE  /\ stats'[k].ok = Cardinality(Ended(k, good)')
             /\ stats'[k].failed = Cardinality(Ended(k, bad)')
             /\ IsFiniteSet(Ended(k, Kinds)')
  <2>1. IsFiniteSet(Ended(k, Kinds)) /\ IsFiniteSet(Ended(k, good)) /\ IsFiniteSet(Ended(k, bad))
    <3>1. IsFiniteSet(Ended(k, Kinds))
      BY DEF FewEnds, Kinds
    <3>2. Ended(k, good) \subseteq Ended(k, Kinds) /\ Ended(k, bad) \subseteq Ended(k, Kinds)
      BY <1>5 DEF Ended
    <3> QED
      BY <3>1, <3>2, FS_Subset
  <2>2. stats[k].ok = Cardinality(Ended(k, good)) /\ stats[k].failed = Cardinality(Ended(k, bad))
    BY <1>0 DEF StatsAddUp
  <2>3. IsFiniteSet(Ended(k, Kinds)')
    BY <1>5, <2>1, OneMoreEnd
  <2>4. ASSUME NEW kinds \in SUBSET Kinds, IsFiniteSet(Ended(k, kinds))
        PROVE  /\ KeyOf(m) = k /\ x \in kinds => Cardinality(Ended(k, kinds)') = Cardinality(Ended(k, kinds)) + 1
               /\ ~ (KeyOf(m) = k /\ x \in kinds) => Cardinality(Ended(k, kinds)') = Cardinality(Ended(k, kinds))
    BY <2>4, OneMoreEnd
  <2>5. /\ KeyOf(m) = k /\ success => Cardinality(Ended(k, good)') = Cardinality(Ended(k, good)) + 1
        /\ ~ (KeyOf(m) = k /\ success) => Cardinality(Ended(k, good)') = Cardinality(Ended(k, good))
    BY <1>5, <2>1, <2>4
  <2>6. /\ KeyOf(m) = k /\ ~success => Cardinality(Ended(k, bad)') = Cardinality(Ended(k, bad)) + 1
        /\ ~ (KeyOf(m) = k /\ ~success) => Cardinality(Ended(k, bad)') = Cardinality(Ended(k, bad))
    BY <1>5, <2>1, <2>4
  <2> QED
    BY <1>4, <2>2, <2>3, <2>5, <2>6
<1> QED
  BY <1>0, <1>2, <1>3, <1>6 DEF StatsAddUp, FewEnds, Kinds

LEMMA SameCounts ==
  ASSUME UNCHANGED <<stats, ends>>, StatsAddUp, FewEnds
  PROVE  StatsAddUp' /\ FewEnds'
<1>1. \A k \in Keys : Ended(k, {"processed"})' = Ended(k, {"processed"})
  BY DEF Ended
<1>2. \A k \in Keys : Ended(k, {"refused", "unhandled", "failed"})' = Ended(k, {"refused", "unhandled", "failed"})
  BY DEF Ended
<1>3. \A k \in Keys : Ended(k, Kinds)' = Ended(k, Kinds)
  BY DEF Ended
<1>4. StatsAddUp'
  BY <1>1, <1>2 DEF StatsAddUp
<1>5. FewEnds'
  BY <1>3 DEF FewEnds, Kinds
<1> QED
  BY <1>4, <1>5

LEMMA SameMatches ==
  ASSUME rules' = rules, NEW k PROVE Matching(k)' = Matching(k)
BY DEF Matching

LEMMA LookedUp ==
  ASSUME RouterInv, NEW k \in Keys, Lookup(k), rules' = rules
  PROVE  CacheFresh' /\ DOMAIN cache' \subseteq Keys /\ \A x \in DOMAIN cache' : cache'[x] \in Seq(Rules)
<1>1. /\ Found(k) = Matching(k) /\ Found(k) \in Seq(Rules) /\ CacheFresh
      /\ DOMAIN cache \subseteq Keys /\ \A x \in DOMAIN cache : cache[x] \in Seq(Rules)
  BY HandlersDescend DEF RouterInv, RouterTypeOK
<1>2. /\ DOMAIN cache' = DOMAIN cache \cup {k}
      /\ \A x \in DOMAIN cache' : cache'[x] = IF x = k THEN Found(k) ELSE cache[x]
  BY DEF Lookup
<1>3. ASSUME NEW x \in DOMAIN cache' PROVE cache'[x] = Matching(x)' /\ cache'[x] \in Seq(Rules)
  <2>1. cache'[x] = Matching(x)
    BY <1>1, <1>2 DEF CacheFresh
  <2> QED
    BY <1>1, <1>2, <2>1, SameMatches
<1> QED
  BY <1>1, <1>2, <1>3 DEF CacheFresh

LEMMA SameLists ==
  ASSUME UNCHANGED <<rules, cache>>, RulesSorted, CacheFresh
  PROVE  RulesSorted' /\ CacheFresh'
<1>1. \A k \in DOMAIN cache : Matching(k)' = Matching(k)
  BY SameMatches
<1> QED
  BY <1>1 DEF RulesSorted, CacheFresh

LEMMA OrderDescends ==
  /\ PriorityFirst <=> (current # <<>> => Descending(tried \o current[1].todo))
  /\ PriorityFirst' <=> (current' # <<>> => Descending(tried' \o current'[1].todo))
BY DEF PriorityFirst, Descending, prio, Call

LEMMA HeadOfTheLine ==
  ASSUME RouterInv, TakeLock
  PROVE  /\ Head(waiting) \in Messages /\ waiting' \in Seq(Messages) /\ KeyOf(Head(waiting)) \in Keys
         /\ current = <<>>
BY RouterAssumption, SMTT(30) DEF RouterInv, RouterTypeOK, TakeLock, RouterAssumption

LEMMA InTheLock ==
  ASSUME RouterInv, current # <<>>
  PROVE  /\ current = <<Call>> /\ Call \in [msg : Messages, todo : Seq(Rules \cup Default)]
         /\ Call.todo # <<>> /\ ~Exhausted(Call.msg) /\ Head(Call.todo) \in Rules \cup Default
         /\ tried \in Seq(Rules \cup Default)
<1> DEFINE C == [msg : Messages, todo : Seq(Rules \cup Default)]
<1>1. current \in Seq(C) /\ Len(current) <= 1 /\ (\A i \in DOMAIN current : current[i].todo # <<>>)
      /\ tried \in Seq(Rules \cup Default) /\ ~Exhausted(Call.msg)
  BY DEF RouterInv, RouterTypeOK, DeadAreExhausted
<1>2. current = <<current[1]>> /\ current[1] \in C /\ 1 \in DOMAIN current
  <2> HIDE DEF C
  <2>1. Len(current) = 1 /\ DOMAIN current = 1..1 /\ current[1] \in C
    <3>1. Len(current) \in Nat \ {0} /\ DOMAIN current = 1..Len(current)
      BY <1>1, EmptySeq, LenProperties
    <3>2. Len(current) = 1
      BY <1>1, <3>1
    <3> QED
      BY <1>1, <3>1, <3>2, ElementOfSeq
  <2> PICK c, d : c = current /\ d = <<current[1]>>
    OBVIOUS
  <2>2. c \in Seq(C) /\ d \in Seq(C) /\ Len(c) = Len(d) /\ \A i \in 1..Len(c) : c[i] = d[i]
    BY <1>1, <2>1
  <2>3. c = d
    BY <2>2, SeqEqual
  <2> QED
    BY <2>1, <2>3
<1>3. Call.todo # <<>> /\ Call.todo \in Seq(Rules \cup Default)
  BY <1>1, <1>2 DEF Call
<1>4. Head(Call.todo) \in Rules \cup Default
  BY <1>3, HeadTailProperties
<1> QED
  BY <1>1, <1>2, <1>3, <1>4 DEF Call

LEMMA AddRuleKeeps ==
  ASSUME RouterInv, NEW r \in Rules, AddRule(r) PROVE RouterInv'
<1>1. /\ r \notin Range(rules) /\ rules' = Inserted(r) /\ cache' = NoKeys
      /\ UNCHANGED <<waiting, current, status, retries, stats, calls, ends, tried>>
  BY DEF AddRule
<1>2. RouterTypeOK /\ RulesSorted
  BY DEF RouterInv
<1>3. rules' \in Seq(Rules) /\ RulesSorted'
  BY <1>1, <1>2, AddRuleSorts
<1>4. DOMAIN cache' = {} /\ CacheFresh'
  BY <1>1 DEF NoKeys, CacheFresh
<1>5. PriorityFirst' /\ RetriesAreFailures' /\ DeadAreExhausted'
  BY <1>1, OrderDescends DEF RouterInv, RetriesAreFailures, DeadAreExhausted, Exhausted, Call
<1>6. StatsAddUp' /\ FewEnds'
  BY <1>1, SameCounts DEF RouterInv
<1>7. RouterTypeOK'
  BY <1>1, <1>2, <1>3, <1>4 DEF RouterTypeOK
<1> QED
  BY <1>3, <1>4, <1>5, <1>6, <1>7 DEF RouterInv

LEMMA RemoveRuleKeeps ==
  ASSUME RouterInv, NEW r \in Rules, RemoveRule(r) PROVE RouterInv'
<1>1. /\ r \in Range(rules) /\ rules' = WithoutRule(r) /\ cache' = NoKeys
      /\ UNCHANGED <<waiting, current, status, retries, stats, calls, ends, tried>>
  BY DEF RemoveRule
<1>2. RouterTypeOK /\ RulesSorted
  BY DEF RouterInv
<1>3. rules' \in Seq(Rules) /\ RulesSorted'
  BY <1>1, <1>2, RemoveRuleSorts
<1>4. DOMAIN cache' = {} /\ CacheFresh'
  BY <1>1 DEF NoKeys, CacheFresh
<1>5. PriorityFirst' /\ RetriesAreFailures' /\ DeadAreExhausted'
  BY <1>1, OrderDescends DEF RouterInv, RetriesAreFailures, DeadAreExhausted, Exhausted, Call
<1>6. StatsAddUp' /\ FewEnds'
  BY <1>1, SameCounts DEF RouterInv
<1>7. RouterTypeOK'
  BY <1>1, <1>2, <1>3, <1>4 DEF RouterTypeOK
<1> QED
  BY <1>3, <1>4, <1>5, <1>6, <1>7 DEF RouterInv

(* The queue of the lock: route, a waiter that is cancelled, and a caller  *)
(* that is cancelled.                                                      *)
LEMMA QueueKeeps ==
  ASSUME RouterInv,
         \/ \E m \in Messages : Route(m)
         \/ \E i \in DOMAIN waiting : WaiterCancelled(i)
         \/ CallerCancelled
  PROVE  RouterInv'
<1>1. /\ UNCHANGED <<rules, cache, status, retries, stats, ends, tried>>
      /\ waiting' \in Seq(Messages) /\ (current' = current \/ current' = <<>>)
  <2>1. waiting \in Seq(Messages)
    BY DEF RouterInv, RouterTypeOK
  <2>2. ASSUME NEW m \in Messages, Route(m) PROVE waiting' \in Seq(Messages) /\ current' = current
    BY <2>1, <2>2 DEF Route
  <2>3. ASSUME NEW i \in DOMAIN waiting, WaiterCancelled(i)
        PROVE  waiting' \in Seq(Messages) /\ current' = current
    BY <2>1, <2>3, RemovedAt DEF WaiterCancelled, Dropped, RemoveAt
  <2> QED
    BY <2>1, <2>2, <2>3 DEF Route, WaiterCancelled, CallerCancelled
<1>2. RulesSorted' /\ CacheFresh' /\ StatsAddUp' /\ FewEnds'
  BY <1>1, SameLists, SameCounts DEF RouterInv
<1>3. RetriesAreFailures' /\ DeadAreExhausted' /\ PriorityFirst'
  BY <1>1, OrderDescends DEF RouterInv, RetriesAreFailures, DeadAreExhausted, Exhausted, Call
<1>4. RouterTypeOK'
  <2>1. RouterTypeOK
    BY DEF RouterInv
  <2>2. /\ Len(current') <= 1 /\ current' \in Seq([msg : Messages, todo : Seq(Rules \cup Default)])
        /\ \A i \in DOMAIN current' : current'[i].todo # <<>>
    <3>1. CASE current' = current
      BY <2>1, <3>1 DEF RouterTypeOK
    <3>2. CASE current' = <<>>
      BY <3>2
    <3> QED
      BY <1>1, <3>1, <3>2
  <2> QED
    BY <1>1, <2>1, <2>2 DEF RouterTypeOK
<1> QED
  BY <1>2, <1>3, <1>4 DEF RouterInv

LEMMA RefuseKeeps ==
  ASSUME RouterInv, Refuse PROVE RouterInv' /\ (\A n \in Messages : status[n] = "dead_lettered" => status'[n] = "dead_lettered")
<1>1. PICK m : /\ m = Head(waiting) /\ TakeLock
               /\ ~Valid(m) \/ Exhausted(m)
               /\ status' = IF Valid(m) THEN [status EXCEPT ![m] = "dead_lettered"] ELSE status
               /\ UpdateStats(m, FALSE)
               /\ ends' = [ends EXCEPT ![m].refused = @ + 1]
               /\ UNCHANGED <<rules, cache, current, retries, calls, tried>>
  BY DEF Refuse
<1>2. m \in Messages /\ waiting' \in Seq(Messages) /\ current = <<>>
  BY <1>1, HeadOfTheLine
<1>3. RouterTypeOK /\ status \in [Messages -> {"pending", "processed", "failed", "dead_lettered"}]
      /\ ends \in [Messages -> [Kinds -> Nat]]
  BY DEF RouterInv, RouterTypeOK, Kinds
<1>4. RulesSorted' /\ CacheFresh'
  BY <1>1, SameLists DEF RouterInv
<1>5. /\ StatsAddUp' /\ FewEnds'
      /\ stats' \in [Keys -> [ok : Nat, failed : Nat]]
      /\ ends' \in [Messages -> [Kinds -> Nat]]
  BY <1>1, <1>2, <1>3, CountersAddUp DEF RouterInv, Kinds
<1>6. \A n \in Messages : ends'[n].failed = ends[n].failed
  BY <1>1, <1>2, <1>3
<1>7. RetriesAreFailures' /\ PriorityFirst'
  BY <1>1, <1>2, <1>6, OrderDescends DEF RouterInv, RetriesAreFailures
<1>8. DeadAreExhausted'
  BY <1>1, <1>2, <1>3 DEF RouterInv, DeadAreExhausted, Exhausted
<1>9. RouterTypeOK'
  BY <1>1, <1>2, <1>3, <1>5 DEF RouterTypeOK, Kinds
<1> QED
  BY <1>1, <1>3, <1>4, <1>5, <1>7, <1>8, <1>9 DEF RouterInv

LEMMA NoHandlerKeeps ==
  ASSUME RouterInv, NoHandler PROVE RouterInv' /\ (\A n \in Messages : status[n] = "dead_lettered" => status'[n] = "dead_lettered")
<1>1. PICK m : /\ m = Head(waiting) /\ TakeLock
               /\ ~Exhausted(m) /\ Lookup(KeyOf(m))
               /\ status' = [status EXCEPT ![m] = "failed"]
               /\ UpdateStats(m, FALSE)
               /\ ends' = [ends EXCEPT ![m].unhandled = @ + 1]
               /\ UNCHANGED <<rules, current, retries, calls, tried>>
  BY DEF NoHandler
<1>2. m \in Messages /\ waiting' \in Seq(Messages) /\ current = <<>> /\ KeyOf(m) \in Keys
  BY <1>1, HeadOfTheLine
<1>3. RouterTypeOK /\ status \in [Messages -> {"pending", "processed", "failed", "dead_lettered"}]
      /\ ends \in [Messages -> [Kinds -> Nat]]
  BY DEF RouterInv, RouterTypeOK, Kinds
<1>4. /\ CacheFresh' /\ DOMAIN cache' \subseteq Keys /\ \A x \in DOMAIN cache' : cache'[x] \in Seq(Rules)
      /\ RulesSorted'
  BY <1>1, <1>2, LookedUp DEF RouterInv, RulesSorted
<1>5. /\ StatsAddUp' /\ FewEnds'
      /\ stats' \in [Keys -> [ok : Nat, failed : Nat]]
      /\ ends' \in [Messages -> [Kinds -> Nat]]
  BY <1>1, <1>2, <1>3, CountersAddUp DEF RouterInv, Kinds
<1>6. \A n \in Messages : ends'[n].failed = ends[n].failed
  BY <1>1, <1>2, <1>3
<1>7. RetriesAreFailures' /\ PriorityFirst'
  BY <1>1, <1>2, <1>6, OrderDescends DEF RouterInv, RetriesAreFailures
<1>8. DeadAreExhausted' /\ (\A n \in Messages : status[n] = "dead_lettered" => status'[n] = "dead_lettered")
  BY <1>1, <1>2, <1>3 DEF RouterInv, DeadAreExhausted, Exhausted
<1>9. RouterTypeOK'
  BY <1>1, <1>2, <1>3, <1>4, <1>5 DEF RouterTypeOK, Kinds
<1> QED
  BY <1>4, <1>5, <1>7, <1>8, <1>9 DEF RouterInv

LEMMA BeginKeeps ==
  ASSUME RouterInv, Begin PROVE RouterInv'
<1>1. PICK m, h, v : /\ m = Head(waiting) /\ h = HandlersFor(KeyOf(m)) /\ v = [msg |-> m, todo |-> h]
                  /\ TakeLock /\ ~Exhausted(m) /\ h # <<>> /\ Lookup(KeyOf(m))
                  /\ current' = <<v>> /\ tried' = <<>>
                  /\ UNCHANGED <<rules, status, retries, stats, calls, ends>>
  BY DEF Begin
<1>2. m \in Messages /\ waiting' \in Seq(Messages) /\ KeyOf(m) \in Keys
  BY <1>1, HeadOfTheLine
<1>3. h \in Seq(Rules \cup Default) /\ Descending(h)
  BY <1>1, <1>2, HandlersDescend
<1>4. /\ CacheFresh' /\ DOMAIN cache' \subseteq Keys /\ \A x \in DOMAIN cache' : cache'[x] \in Seq(Rules)
      /\ RulesSorted'
  BY <1>1, <1>2, LookedUp DEF RouterInv, RulesSorted
<1>5. StatsAddUp' /\ FewEnds' /\ RetriesAreFailures'
  BY <1>1, SameCounts DEF RouterInv, RetriesAreFailures
<1>6. current'[1].todo = h /\ current'[1].msg = m
  BY <1>1
<1>7. PriorityFirst'
  <2>1. tried' \o h = h
    BY <1>1, <1>3, ConcatEmptySeq
  <2> QED
    BY <1>3, <1>6, <2>1, OrderDescends
<1>8. DeadAreExhausted'
  BY <1>1, <1>6 DEF RouterInv, DeadAreExhausted, Exhausted, Call
<1>9. RouterTypeOK'
  <2>1. v \in [msg : Messages, todo : Seq(Rules \cup Default)] /\ v.todo # <<>>
    BY <1>1, <1>2, <1>3
  <2>2. RouterTypeOK
    BY DEF RouterInv
  <2>3. /\ Len(current') <= 1 /\ current' \in Seq([msg : Messages, todo : Seq(Rules \cup Default)])
        /\ \A i \in DOMAIN current' : current'[i].todo # <<>>
    <3> DEFINE C == [msg : Messages, todo : Seq(Rules \cup Default)]
    <3>1. v \in C
      BY <2>1
    <3> HIDE DEF C
    <3>2. <<v>> \in Seq(C) /\ Len(<<v>>) = 1 /\ DOMAIN <<v>> = 1..1 /\ <<v>>[1] = v
      BY <3>1
    <3>3. current' \in Seq(C) /\ Len(current') <= 1 /\ DOMAIN current' = 1..1 /\ current'[1] = v
      BY <1>1, <3>2
    <3> QED
      BY <2>1, <3>3 DEF C
  <2> QED
    BY <1>1, <1>2, <1>4, <2>2, <2>3, EmptySeq DEF RouterTypeOK
<1> QED
  BY <1>4, <1>5, <1>7, <1>8, <1>9 DEF RouterInv

(* What the end of a call leaves, whichever way it ends.                   *)
LEMMA ReturnKeeps ==
  ASSUME RouterInv, current # <<>>, NEW success \in BOOLEAN, Return(success),
         UNCHANGED <<rules, cache, waiting>>, tried' = Append(tried, Head(Call.todo)),
         NEW st \in {"pending", "processed", "failed"},
         status' = status \/ status' = [status EXCEPT ![Call.msg] = st]
  PROVE  RouterInv' /\ (\A n \in Messages : status[n] = "dead_lettered" => status'[n] = "dead_lettered")
<1>1. PICK m : m = Call.msg /\ current' = <<>> /\ UpdateStats(m, success)
  BY DEF Return
<1>11. ASSUME success
       PROVE  /\ UpdateStats(m, TRUE) /\ retries' = retries
              /\ ends' = [ends EXCEPT ![m].processed = @ + 1]
  BY <1>1, <1>11 DEF Return, UpdateStats
<1>12. ASSUME ~success
       PROVE  /\ UpdateStats(m, FALSE) /\ retries' = [retries EXCEPT ![m] = @ + 1]
              /\ ends' = [ends EXCEPT ![m].failed = @ + 1]
  BY <1>1, <1>12 DEF Return, UpdateStats
<1>2. m \in Messages /\ ~Exhausted(m) /\ Head(Call.todo) \in Rules \cup Default /\ tried \in Seq(Rules \cup Default)
  BY <1>1, InTheLock
<1>3. RouterTypeOK /\ status \in [Messages -> {"pending", "processed", "failed", "dead_lettered"}]
      /\ ends \in [Messages -> [Kinds -> Nat]] /\ retries \in [Messages -> Nat] /\ MaxRetries \in Nat
  BY RouterAssumption DEF RouterInv, RouterTypeOK, Kinds, RouterAssumption
<1>4. RulesSorted' /\ CacheFresh'
  BY SameLists DEF RouterInv
<1>5. /\ StatsAddUp' /\ FewEnds'
      /\ stats' \in [Keys -> [ok : Nat, failed : Nat]]
      /\ ends' \in [Messages -> [Kinds -> Nat]]
  <2>1. StatsAddUp /\ FewEnds
    BY DEF RouterInv
  <2>2. CASE success
    BY <1>11, <1>2, <1>3, <2>1, <2>2, CountersAddUp DEF Kinds
  <2>3. CASE ~success
    BY <1>12, <1>2, <1>3, <2>1, <2>3, CountersAddUp DEF Kinds
  <2> QED
    BY <2>2, <2>3
<1>6. ASSUME success
      PROVE  \A n \in Messages : ends'[n].failed = ends[n].failed /\ retries'[n] = retries[n]
  <2>1. \A n \in Messages : ends'[n].failed = ends[n].failed
    <3>1. "failed" \in Kinds /\ "processed" \in Kinds
      BY DEF Kinds
    <3>2. ends' = [ends EXCEPT ![m].processed = @ + 1]
      BY <1>11, <1>6
    <3> QED
      BY <1>2, <1>3, <3>1, <3>2
  <2> QED
    BY <1>11, <1>6, <2>1
<1>7. ASSUME ~success
      PROVE  \A n \in Messages : /\ ends'[n].failed = IF n = m THEN ends[n].failed + 1 ELSE ends[n].failed
                                 /\ retries'[n] = IF n = m THEN retries[n] + 1 ELSE retries[n]
  <2>1. \A n \in Messages : ends'[n].failed = IF n = m THEN ends[n].failed + 1 ELSE ends[n].failed
    <3>1. "failed" \in Kinds
      BY DEF Kinds
    <3> QED
      BY <1>12, <1>2, <1>3, <1>7, <3>1
  <2>2. \A n \in Messages : retries'[n] = IF n = m THEN retries[n] + 1 ELSE retries[n]
    BY <1>12, <1>2, <1>3, <1>7
  <2> QED
    BY <2>1, <2>2
<1>13. RetriesAreFailures'
  <2>1. RetriesAreFailures /\ retries[m] \in Nat /\ retries[m] <= MaxRetries
    BY <1>2, <1>3 DEF RouterInv, Exhausted
  <2>2. CASE success
    BY <1>6, <2>1, <2>2 DEF RetriesAreFailures
  <2>3. CASE ~success
    <3>1. ASSUME NEW n \in Messages
          PROVE  retries'[n] = ends'[n].failed /\ retries'[n] <= MaxRetries + 1
      <4>1. retries[n] = ends[n].failed /\ retries[n] <= MaxRetries + 1 /\ retries[n] \in Nat
        BY <1>3, <2>1 DEF RetriesAreFailures
      <4>2. CASE n = m
        BY <1>3, <1>7, <2>1, <2>3, <4>1, <4>2
      <4>3. CASE n # m
        BY <1>7, <2>3, <4>1, <4>3
      <4> QED
        BY <4>2, <4>3
    <3> QED
      BY <3>1 DEF RetriesAreFailures
  <2> QED
    BY <2>2, <2>3
<1>8. DeadAreExhausted' /\ (\A n \in Messages : status[n] = "dead_lettered" => status'[n] = "dead_lettered")
  <2>1. \A n \in Messages : retries'[n] >= retries[n] /\ retries'[n] \in Nat /\ retries[n] \in Nat
    <3>1. \A n \in Messages : retries[n] \in Nat
      BY <1>3
    <3>2. CASE success
      BY <1>6, <3>1, <3>2
    <3>3. CASE ~success
      BY <1>7, <3>1, <3>3
    <3> QED
      BY <3>2, <3>3
  <2>2. \A n \in Messages : status[n] = "dead_lettered" => Exhausted(n)
    BY DEF RouterInv, DeadAreExhausted
  <2>3. \A n \in Messages : n = m \/ status'[n] = status[n]
    BY <1>1, <1>2, <1>3
  <2>4. status[m] # "dead_lettered" /\ status'[m] # "dead_lettered"
    BY <1>1, <1>2, <1>3, <2>2
  <2>5. \A n \in Messages : status'[n] = "dead_lettered" => retries'[n] > MaxRetries
    BY <1>3, <2>1, <2>2, <2>3, <2>4 DEF Exhausted
  <2> QED
    BY <1>1, <2>3, <2>4, <2>5 DEF DeadAreExhausted, Exhausted
<1>9. PriorityFirst'
  BY <1>1, OrderDescends
<1>10. RouterTypeOK'
  <2>1. status' \in [Messages -> {"pending", "processed", "failed", "dead_lettered"}]
    BY <1>1, <1>2, <1>3
  <2>2. retries' \in [Messages -> Nat]
    <3>1. CASE success
      BY <1>11, <1>3, <3>1
    <3>2. CASE ~success
      BY <1>12, <1>2, <1>3, <3>2
    <3> QED
      BY <3>1, <3>2
  <2>3. tried' \in Seq(Rules \cup Default)
    BY <1>2, Appended
  <2>4. /\ Len(current') <= 1 /\ current' \in Seq([msg : Messages, todo : Seq(Rules \cup Default)])
        /\ \A i \in DOMAIN current' : current'[i].todo # <<>>
    BY <1>1
  <2> QED
    BY <1>3, <1>5, <2>1, <2>2, <2>3, <2>4 DEF RouterTypeOK, Kinds
<1> QED
  BY <1>4, <1>5, <1>13, <1>8, <1>9, <1>10 DEF RouterInv

LEMMA HandlerSucceedsKeeps ==
  ASSUME RouterInv, HandlerSucceeds
  PROVE  RouterInv' /\ (\A n \in Messages : status[n] = "dead_lettered" => status'[n] = "dead_lettered")
BY ReturnKeeps DEF HandlerSucceeds

LEMMA HandlerFailsKeeps ==
  ASSUME RouterInv, HandlerFails
  PROVE  RouterInv' /\ (\A n \in Messages : status[n] = "dead_lettered" => status'[n] = "dead_lettered")
<1>1. /\ current # <<>> /\ status' \in {status, [status EXCEPT ![Call.msg] = "failed"]}
      /\ tried' = Append(tried, Head(Call.todo)) /\ UNCHANGED <<rules, cache, waiting, calls>>
  BY DEF HandlerFails
<1>2. CASE ~ (Len(Call.todo) > 1)
  <2>1. Return(FALSE)
    BY <1>2 DEF HandlerFails
  <2> QED
    BY <1>1, <2>1, ReturnKeeps
<1>3. CASE Len(Call.todo) > 1
  <2>1. PICK m, t, v : /\ m = Call.msg /\ t = Call.todo /\ v = [Call EXCEPT !.todo = Tail(@)]
    OBVIOUS
  <2>2. /\ m \in Messages /\ ~Exhausted(m) /\ t \in Seq(Rules \cup Default) /\ t # <<>>
        /\ tried \in Seq(Rules \cup Default) /\ Call \in [msg : Messages, todo : Seq(Rules \cup Default)]
        /\ v.msg = m /\ v.todo = Tail(t)
    BY <1>1, <2>1, InTheLock
  <2>3. current' = <<v>> /\ UNCHANGED <<retries, stats, ends>>
    <3>1. current' = <<[Call EXCEPT !.todo = Tail(@)]>> /\ UNCHANGED <<retries, stats, ends>>
      BY <1>3 DEF HandlerFails
    <3> QED
      BY <2>1, <3>1
  <2>4. RouterTypeOK /\ status \in [Messages -> {"pending", "processed", "failed", "dead_lettered"}]
    BY DEF RouterInv, RouterTypeOK
  <2>5. RulesSorted' /\ CacheFresh' /\ StatsAddUp' /\ FewEnds' /\ RetriesAreFailures'
    BY <1>1, <2>3, SameLists, SameCounts DEF RouterInv, RetriesAreFailures
  <2>6. status' \in [Messages -> {"pending", "processed", "failed", "dead_lettered"}]
        /\ (\A n \in Messages : status[n] = "dead_lettered" <=> status'[n] = "dead_lettered")
    <3>1. status[m] # "dead_lettered"
      BY <2>2 DEF RouterInv, DeadAreExhausted
    <3> QED
      BY <1>1, <2>1, <2>2, <2>4, <3>1
  <2>7. current'[1].msg = m /\ current'[1].todo = Tail(t)
    <3>1. current'[1] = v
      BY <2>3
    <3> QED
      BY <2>2, <3>1
  <2>8. DeadAreExhausted'
    BY <2>2, <2>3, <2>6, <2>7 DEF RouterInv, DeadAreExhausted, Exhausted, Call
  <2>9. PriorityFirst'
    <3>1. Descending(tried \o t)
      BY <1>1, <2>1, OrderDescends DEF RouterInv, Call
    <3>2. tried' \o Tail(t) = tried \o t
      <4>1. Append(tried, Head(t)) \o Tail(t) = tried \o t
        BY <2>2, HandedOver
      <4> QED
        BY <1>1, <2>1, <4>1
    <3> QED
      BY <2>7, <3>1, <3>2, OrderDescends
  <2>10. RouterTypeOK'
    <3> DEFINE C == [msg : Messages, todo : Seq(Rules \cup Default)]
    <3>1. Tail(t) \in Seq(Rules \cup Default) /\ Len(Tail(t)) = Len(t) - 1 /\ Len(t) \in Nat
      BY <2>2, Shortened
    <3>2. v \in C /\ v.todo = Tail(t)
      BY <2>1, <2>2, <3>1
    <3>3. Tail(t) # <<>>
      <4>1. PICK u : u = Tail(t)
        OBVIOUS
      <4>2. Len(u) # 0 /\ u \in Seq(Rules \cup Default)
        BY <1>3, <2>1, <3>1, <4>1
      <4> QED
        BY <4>1, <4>2, EmptySeq
    <3>4. /\ current' \in Seq(C) /\ Len(current') <= 1 /\ \A i \in DOMAIN current' : current'[i].todo # <<>>
      <4> HIDE DEF C
      <4>1. <<v>> \in Seq(C) /\ Len(<<v>>) = 1 /\ DOMAIN <<v>> = 1..1 /\ <<v>>[1] = v
        BY <3>2
      <4> QED
        BY <2>3, <3>2, <3>3, <4>1
    <3>5. tried' \in Seq(Rules \cup Default)
      BY <1>1, <2>1, <2>2, <3>1, Appended, HeadTailProperties
    <3> QED
      BY <1>1, <2>3, <2>4, <2>6, <3>4, <3>5 DEF RouterTypeOK
  <2> QED
    BY <2>5, <2>6, <2>8, <2>9, <2>10 DEF RouterInv
<1> QED
  BY <1>2, <1>3

LEMMA RouterNextKeeps ==
  ASSUME RouterInv, [RouterNext]_routerVars
  PROVE  RouterInv' /\ (\A n \in Messages : status[n] = "dead_lettered" => status'[n] = "dead_lettered")
<1>1. CASE UNCHANGED routerVars
  <2>1. RulesSorted' /\ CacheFresh' /\ StatsAddUp' /\ FewEnds'
    BY <1>1, SameLists, SameCounts DEF RouterInv, routerVars
  <2>2. RouterTypeOK' /\ RetriesAreFailures' /\ DeadAreExhausted' /\ PriorityFirst'
    BY <1>1, OrderDescends
    DEF RouterInv, RouterTypeOK, RetriesAreFailures, DeadAreExhausted, Exhausted, Call, routerVars
  <2> QED
    BY <1>1, <2>1, <2>2 DEF RouterInv, routerVars
<1>2. ASSUME NEW r \in Rules, AddRule(r) \/ RemoveRule(r)
      PROVE  RouterInv' /\ status' = status
  BY <1>2, AddRuleKeeps, RemoveRuleKeeps DEF AddRule, RemoveRule
<1>3. ASSUME \/ \E m \in Messages : Route(m)
             \/ \E i \in DOMAIN waiting : WaiterCancelled(i)
             \/ CallerCancelled
             \/ Begin
      PROVE  RouterInv' /\ status' = status
  BY <1>3, QueueKeeps, BeginKeeps DEF Route, WaiterCancelled, CallerCancelled, Begin
<1> QED
  BY <1>1, <1>2, <1>3, RefuseKeeps, NoHandlerKeeps, HandlerSucceedsKeeps, HandlerFailsKeeps DEF RouterNext

LEMMA InitRouter == RouterInit => RouterInv
<1> SUFFICES ASSUME RouterInit PROVE RouterInv
  OBVIOUS
<1>1. /\ rules = <<>> /\ DOMAIN cache = {} /\ waiting = <<>> /\ current = <<>> /\ tried = <<>>
      /\ status = [m \in Messages |-> "pending"] /\ retries = [m \in Messages |-> 0]
      /\ stats = [k \in Keys |-> [ok |-> 0, failed |-> 0]] /\ MaxRetries \in Nat
  BY RouterAssumption DEF RouterInit, RouterAssumption
<1>2. ends \in [Messages -> [Kinds -> Nat]] /\ \A m \in Messages : \A x \in Kinds : ends[m][x] = 0
  <2>1. ends = [m \in Messages |-> [processed |-> 0, refused |-> 0, unhandled |-> 0, failed |-> 0]]
    BY DEF RouterInit
  <2> DEFINE z == [processed |-> 0, refused |-> 0, unhandled |-> 0, failed |-> 0]
  <2>2. z \in [Kinds -> Nat] /\ \A x \in Kinds : z[x] = 0
    BY DEF Kinds
  <2> HIDE DEF z
  <2> QED
    BY <2>1, <2>2 DEF z
<1>3. ASSUME NEW k \in Keys, NEW kinds \in SUBSET Kinds PROVE Ended(k, kinds) = {}
  <2>1. ASSUME NEW e \in {m \in Messages : KeyOf(m) = k} \X kinds PROVE {e} \X (1..ends[e[1]][e[2]]) = {}
    <3>1. ends[e[1]][e[2]] = 0
      BY <1>2, <2>1
    <3> QED
      BY <3>1
  <2> QED
    BY <2>1 DEF Ended
<1>4. StatsAddUp /\ FewEnds
  <2>1. {"processed"} \in SUBSET Kinds /\ {"refused", "unhandled", "failed"} \in SUBSET Kinds
        /\ Kinds \in SUBSET Kinds
    BY DEF Kinds
  <2>2. ASSUME NEW k \in Keys
        PROVE  /\ Ended(k, {"processed"}) = {} /\ Ended(k, {"refused", "unhandled", "failed"}) = {}
               /\ Ended(k, Kinds) = {} /\ stats[k].ok = 0 /\ stats[k].failed = 0
    BY <1>1, <1>3, <2>1
  <2> QED
    BY <2>2, FS_EmptySet DEF StatsAddUp, FewEnds, Kinds
<1>5. RouterTypeOK
  BY <1>1, <1>2 DEF RouterTypeOK, Kinds
<1>6. RulesSorted /\ CacheFresh /\ PriorityFirst /\ DeadAreExhausted
  BY <1>1 DEF RulesSorted, IsInjective, CacheFresh, PriorityFirst, DeadAreExhausted
<1>7. RetriesAreFailures
  BY <1>1, <1>2 DEF RetriesAreFailures, Kinds
<1> QED
  BY <1>4, <1>5, <1>6, <1>7 DEF RouterInv

LEMMA RouterCorrect == Spec => []RouterInv
<1>1. Init => RouterInit
  BY DEF Init
<1>2. [BusUsed \/ RouterUsed \/ BrokerUsed]_vars => [RouterNext]_routerVars
  BY DEF vars, BusUsed, RouterUsed, BrokerUsed
<1>3. RouterInv /\ [RouterNext]_routerVars => RouterInv'
  BY RouterNextKeeps
<1> QED
  BY <1>1, <1>2, <1>3, InitRouter, PTL DEF Spec

(* A call that handed its message over ends in one of three ways.          *)
LEMMA AttemptsKept ==
  ASSUME RouterInv, AttemptsExplained, [RouterNext]_routerVars
  PROVE  AttemptsExplained'
<1>1. /\ ends \in [Messages -> [Kinds -> Nat]]
      /\ handed \in [Messages -> Nat] /\ cutOff \in [Messages -> Nat]
      /\ \A m \in Messages : ends[m].processed \in Nat /\ ends[m].failed \in Nat
  BY DEF RouterInv, RouterTypeOK, Kinds, AttemptsExplained
<1>2. ASSUME UNCHANGED <<current, handed, cutOff>>,
             \A m \in Messages : ends'[m].processed = ends[m].processed /\ ends'[m].failed = ends[m].failed
      PROVE  AttemptsExplained'
  BY <1>2 DEF AttemptsExplained, Call
<1>3. CASE \/ \E r \in Rules : AddRule(r) \/ RemoveRule(r)
           \/ \E m \in Messages : Route(m)
           \/ \E i \in DOMAIN waiting : WaiterCancelled(i)
           \/ UNCHANGED routerVars
  <2>1. UNCHANGED <<current, handed, cutOff, ends>>
    BY <1>3 DEF AddRule, RemoveRule, Route, WaiterCancelled, routerVars, attemptVars
  <2> QED
    BY <1>2, <2>1
<1>4. CASE Refuse \/ NoHandler
  <2>1. PICK m, x : /\ x \in {"refused", "unhandled"} /\ m = Head(waiting) /\ TakeLock
                    /\ ends' = [ends EXCEPT ![m][x] = @ + 1] /\ UNCHANGED <<current, handed, cutOff>>
    <3>1. CASE Refuse
      BY <3>1 DEF Refuse, attemptVars
    <3>2. CASE NoHandler
      BY <3>2 DEF NoHandler, attemptVars
    <3> QED
      BY <1>4, <3>1, <3>2
  <2>2. m \in Messages
    BY <2>1, HeadOfTheLine
  <2>3. \A n \in Messages : ends'[n].processed = ends[n].processed /\ ends'[n].failed = ends[n].failed
    BY <1>1, <2>1, <2>2 DEF Kinds
  <2> QED
    BY <1>2, <2>1, <2>3
<1>5. CASE Begin
  <2>1. PICK m, v : /\ m = Head(waiting) /\ TakeLock /\ v.msg = m /\ current' = <<v>>
                    /\ handed' = [handed EXCEPT ![m] = @ + 1] /\ UNCHANGED <<ends, cutOff>>
    BY <1>5 DEF Begin
  <2>2. m \in Messages /\ current = <<>>
    BY <2>1, HeadOfTheLine
  <2>3. current' # <<>> /\ Call'.msg = m
    BY <2>1 DEF Call
  <2>4. ASSUME NEW n \in Messages
        PROVE  handed'[n] = ends'[n].processed + ends'[n].failed + cutOff'[n]
                            + (IF current' # <<>> /\ Call'.msg = n THEN 1 ELSE 0)
    <3>1. handed[n] = ends[n].processed + ends[n].failed + cutOff[n]
      BY <1>1, <2>2 DEF AttemptsExplained
    <3>2. handed'[n] = IF n = m THEN handed[n] + 1 ELSE handed[n]
      BY <1>1, <2>1, <2>2
    <3>3. (IF current' # <<>> /\ Call'.msg = n THEN 1 ELSE 0) = IF n = m THEN 1 ELSE 0
      BY <2>3
    <3>4. ends'[n] = ends[n] /\ cutOff'[n] = cutOff[n]
      BY <2>1
    <3> QED
      BY <1>1, <3>1, <3>2, <3>3, <3>4
  <2>5. handed' \in [Messages -> Nat] /\ cutOff' \in [Messages -> Nat]
    BY <1>1, <2>1, <2>2
  <2> QED
    BY <2>4, <2>5 DEF AttemptsExplained
<1>6. ASSUME current # <<>>, NEW m \in Messages, m = Call.msg, current' = <<>>, handed' = handed,
             cutOff' \in [Messages -> Nat],
             \A n \in Messages : ends'[n].processed + ends'[n].failed + cutOff'[n]
                = ends[n].processed + ends[n].failed + cutOff[n] + (IF n = m THEN 1 ELSE 0)
      PROVE  AttemptsExplained'
  <2>1. ASSUME NEW n \in Messages
        PROVE  handed'[n] = ends'[n].processed + ends'[n].failed + cutOff'[n]
                            + (IF current' # <<>> /\ Call'.msg = n THEN 1 ELSE 0)
    <3>1. handed[n] = ends[n].processed + ends[n].failed + cutOff[n] + (IF n = m THEN 1 ELSE 0)
      BY <1>6 DEF AttemptsExplained
    <3> QED
      BY <1>1, <1>6, <3>1
  <2> QED
    BY <1>1, <1>6, <2>1 DEF AttemptsExplained
<1>7. ASSUME current # <<>>, NEW success \in BOOLEAN, Return(success), UNCHANGED attemptVars
      PROVE  AttemptsExplained'
  <2>1. PICK m, x : /\ m = Call.msg /\ x = (IF success THEN "processed" ELSE "failed")
                    /\ current' = <<>> /\ ends' = [ends EXCEPT ![m][x] = @ + 1]
                    /\ UNCHANGED <<handed, cutOff>>
    BY <1>7 DEF Return, attemptVars
  <2>2. m \in Messages
    BY <1>7, <2>1, InTheLock
  <2>3. ASSUME NEW n \in Messages
        PROVE  ends'[n].processed + ends'[n].failed + cutOff'[n]
                = ends[n].processed + ends[n].failed + cutOff[n] + (IF n = m THEN 1 ELSE 0)
    <3>1. CASE success
      <4>1. ends' = [ends EXCEPT ![m].processed = @ + 1]
        BY <2>1, <3>1
      <4>2. ends'[n].failed = ends[n].failed
            /\ ends'[n].processed = IF n = m THEN ends[n].processed + 1 ELSE ends[n].processed
        BY <1>1, <2>2, <4>1 DEF Kinds
      <4> QED
        BY <1>1, <2>1, <4>2
    <3>2. CASE ~success
      <4>1. ends' = [ends EXCEPT ![m].failed = @ + 1]
        BY <2>1, <3>2
      <4>2. ends'[n].processed = ends[n].processed
            /\ ends'[n].failed = IF n = m THEN ends[n].failed + 1 ELSE ends[n].failed
        BY <1>1, <2>2, <4>1 DEF Kinds
      <4> QED
        BY <1>1, <2>1, <4>2
    <3> QED
      BY <3>1, <3>2
  <2> QED
    BY <1>1, <1>6, <1>7, <2>1, <2>2, <2>3
<1>8. CASE HandlerSucceeds
  BY <1>7, <1>8 DEF HandlerSucceeds
<1>9. CASE HandlerFails
  <2>1. current # <<>> /\ UNCHANGED attemptVars
    BY <1>9 DEF HandlerFails
  <2>2. CASE ~ (Len(Call.todo) > 1)
    <3>1. Return(FALSE)
      BY <1>9, <2>2 DEF HandlerFails
    <3> QED
      BY <1>7, <2>1, <3>1
  <2>3. CASE Len(Call.todo) > 1
    <3>1. current' = <<[Call EXCEPT !.todo = Tail(@)]>> /\ UNCHANGED <<ends, handed, cutOff>>
      BY <1>9, <2>1, <2>3 DEF HandlerFails, attemptVars
    <3>2. Call \in [msg : Messages, todo : Seq(Rules \cup Default)]
      BY <2>1, InTheLock
    <3>3. [Call EXCEPT !.todo = Tail(@)].msg = Call.msg
      BY <3>2
    <3>4. current' # <<>> /\ Call'.msg = Call.msg
      BY <3>1, <3>3 DEF Call
    <3> QED
      BY <2>1, <3>1, <3>4 DEF AttemptsExplained
  <2> QED
    BY <2>2, <2>3
<1>10. CASE CallerCancelled
  <2>1. PICK m : /\ m = Call.msg /\ current # <<>> /\ current' = <<>>
                 /\ cutOff' = [cutOff EXCEPT ![m] = @ + 1] /\ UNCHANGED <<ends, handed>>
    BY <1>10 DEF CallerCancelled
  <2>2. m \in Messages
    BY <2>1, InTheLock
  <2>3. cutOff' \in [Messages -> Nat]
    BY <1>1, <2>1, <2>2
  <2>4. \A n \in Messages : ends'[n].processed + ends'[n].failed + cutOff'[n]
                = ends[n].processed + ends[n].failed + cutOff[n] + (IF n = m THEN 1 ELSE 0)
    <3>1. ASSUME NEW n \in Messages
          PROVE  cutOff'[n] = cutOff[n] + (IF n = m THEN 1 ELSE 0) /\ ends'[n] = ends[n]
      BY <1>1, <2>1, <2>2
    <3>2. ASSUME NEW n \in Messages
          PROVE  ends'[n].processed + ends'[n].failed + cutOff'[n]
                  = ends[n].processed + ends[n].failed + cutOff[n] + (IF n = m THEN 1 ELSE 0)
      <4>1. PICK a, f, c, d : /\ a = ends[n].processed /\ f = ends[n].failed /\ c = cutOff[n]
                              /\ d = (IF n = m THEN 1 ELSE 0)
                              /\ a \in Nat /\ f \in Nat /\ c \in Nat /\ d \in Nat
        BY <1>1
      <4>2. ends'[n].processed = a /\ ends'[n].failed = f /\ cutOff'[n] = c + d
        BY <3>1, <4>1
      <4>3. a + f + (c + d) = a + f + c + d
        BY <4>1
      <4> QED
        BY <4>1, <4>2, <4>3
    <3> QED
      BY <3>2
  <2> QED
    BY <1>6, <2>1, <2>2, <2>3, <2>4
<1> QED
  BY <1>3, <1>4, <1>5, <1>8, <1>9, <1>10 DEF RouterNext

LEMMA AttemptsInBounds ==
  ASSUME RouterInv, AttemptsExplained
  PROVE  AttemptsBounded
<1> SUFFICES ASSUME NEW m \in Messages PROVE handed[m] <= MaxRetries + 1 + ends[m].processed + cutOff[m]
  BY DEF AttemptsBounded
<1>1. /\ ends[m].processed \in Nat /\ ends[m].failed \in Nat /\ cutOff[m] \in Nat /\ MaxRetries \in Nat
      /\ retries[m] = ends[m].failed /\ retries[m] <= MaxRetries + 1
      /\ handed[m] = ends[m].processed + ends[m].failed + cutOff[m]
                      + (IF current # <<>> /\ Call.msg = m THEN 1 ELSE 0)
  BY RouterAssumption DEF RouterInv, RouterTypeOK, RetriesAreFailures, AttemptsExplained, RouterAssumption
<1>2. CASE current # <<>> /\ Call.msg = m
  <2>1. ~Exhausted(m)
    BY <1>2, InTheLock
  <2>2. ends[m].failed <= MaxRetries
    BY <1>1, <2>1 DEF Exhausted
  <2> QED
    BY <1>1, <1>2, <2>2
<1>3. CASE ~ (current # <<>> /\ Call.msg = m)
  BY <1>1, <1>3
<1> QED
  BY <1>2, <1>3

LEMMA AttemptsCorrect == Spec => []AttemptsExplained
<1>1. Init => AttemptsExplained
  <2> SUFFICES ASSUME Init PROVE AttemptsExplained
    OBVIOUS
  <2>1. /\ current = <<>> /\ handed = [m \in Messages |-> 0] /\ cutOff = [m \in Messages |-> 0]
        /\ ends = [m \in Messages |-> [processed |-> 0, refused |-> 0, unhandled |-> 0, failed |-> 0]]
    BY DEF Init, RouterInit
  <2> QED
    BY <2>1 DEF AttemptsExplained
<1>2. [BusUsed \/ RouterUsed \/ BrokerUsed]_vars => [RouterNext]_routerVars
  BY DEF vars, BusUsed, RouterUsed, BrokerUsed
<1>3. RouterInv /\ AttemptsExplained /\ [RouterNext]_routerVars => AttemptsExplained'
  BY AttemptsKept
<1> QED
  BY <1>1, <1>2, <1>3, RouterCorrect, PTL DEF Spec

(* The retries the middleware sees are counted, bounded, and end a message *)
(* for good; beyond them a handler gets it only after a success or after a *)
(* call that was cancelled.                                                *)
THEOREM RoutingEnds == Spec => RetriesEnd
<1>1. [BusUsed \/ RouterUsed \/ BrokerUsed]_vars => [RouterNext]_routerVars
  BY DEF vars, BusUsed, RouterUsed, BrokerUsed
<1>2. RouterInv /\ AttemptsExplained /\ [RouterNext]_routerVars =>
        [/\ RetriesAreFailures' /\ AttemptsBounded'
         /\ \A m \in Messages : status[m] = "dead_lettered" => status'[m] = "dead_lettered"]_routerVars
  <2>1. ASSUME RouterInv', AttemptsExplained' PROVE AttemptsBounded'
    BY <2>1, AttemptsInBounds, PTL
  <2> QED
    BY <2>1, RouterNextKeeps, AttemptsKept DEF RouterInv
<1> QED
  BY <1>1, <1>2, RouterCorrect, AttemptsCorrect, PTL DEF Spec, RetriesEnd

-----------------------------------------------------------------------------
(* The broker. A bounded deque holds the last MaxLen of what was put on it.*)
Cut(s) == IF Len(s) > MaxLen THEN Len(s) - MaxLen ELSE 0

LEMMA LongestIs ==
  ASSUME NEW S, NEW s \in Seq(S)
  PROVE  /\ Broker!Longest(s) \in Seq(S) /\ Len(s) \in Nat /\ Cut(s) \in 0..Len(s)
         /\ Len(Broker!Longest(s)) = Len(s) - Cut(s) /\ Len(Broker!Longest(s)) <= MaxLen
         /\ \A i \in 1..(Len(s) - Cut(s)) : Broker!Longest(s)[i] = s[i + Cut(s)]
<1>1. Len(s) \in Nat /\ MaxLen \in Nat
  BY BrokerAssumption DEF BrokerAssumption
<1>2. CASE Len(s) > MaxLen
  <2>1. Broker!Longest(s) = SubSeq(s, Len(s) - MaxLen + 1, Len(s)) /\ Cut(s) = Len(s) - MaxLen
    BY <1>2 DEF Broker!Longest, Cut
  <2>2. PICK a, n : a = SubSeq(s, Len(s) - MaxLen + 1, Len(s)) /\ n = Len(s)
    OBVIOUS
  <2>3. /\ a \in Seq(S) /\ Len(a) = MaxLen /\ \A i \in 1..MaxLen : a[i] = s[(n - MaxLen + 1) + i - 1]
    <3>1. n - MaxLen + 1 \in Int /\ n \in Int /\ \A i \in (n - MaxLen + 1)..n : s[i] \in S
      BY <1>1, <1>2, <2>2
    <3>2. /\ a \in Seq(S) /\ Len(a) = IF n - MaxLen + 1 <= n THEN n - (n - MaxLen + 1) + 1 ELSE 0
          /\ \A i \in 1..(n - (n - MaxLen + 1) + 1) : a[i] = s[(n - MaxLen + 1) + i - 1]
      BY <2>2, <3>1, SubSeqProperties
    <3>3. n - (n - MaxLen + 1) + 1 = MaxLen /\ (MaxLen > 0 <=> n - MaxLen + 1 <= n)
      BY <1>1, <2>2
    <3> QED
      BY <1>1, <3>2, <3>3
  <2>4. ASSUME NEW i \in 1..MaxLen PROVE a[i] = s[i + (n - MaxLen)]
    <3>1. (n - MaxLen + 1) + i - 1 = i + (n - MaxLen)
      BY <1>1, <2>2
    <3> QED
      BY <2>3, <3>1
  <2>5. PICK c : c = Cut(s)
    OBVIOUS
  <2>6. c = n - MaxLen /\ n - c = MaxLen /\ c \in 0..n /\ MaxLen <= MaxLen /\ n \in Nat
    BY <1>1, <1>2, <2>1, <2>2, <2>5
  <2>7. \A i \in 1..(n - c) : a[i] = s[i + c]
    BY <2>4, <2>6
  <2> QED
    BY <2>1, <2>2, <2>3, <2>5, <2>6, <2>7
<1>3. CASE ~ (Len(s) > MaxLen)
  <2>1. Broker!Longest(s) = s /\ Cut(s) = 0
    BY <1>3 DEF Broker!Longest, Cut
  <2> QED
    BY <1>1, <1>3, <2>1
<1> QED
  BY <1>2, <1>3

(* What a queue holds of what was put on it, c messages having been taken. *)
Holds(s, t, c) ==
  /\ Broker!EndOf(s, t) /\ Len(s) <= MaxLen
  /\ Len(s) + c >= IF Len(t) < MaxLen THEN Len(t) ELSE MaxLen

(* A deque that more is put on holds the end of it all.                    *)
LEMMA HoldsMore ==
  ASSUME NEW S, NEW s \in Seq(S), NEW t \in Seq(S), NEW w \in Seq(S), NEW c \in Nat, Holds(s, t, c)
  PROVE  Holds(Broker!Longest(s \o w), t \o w, c) /\ Broker!Longest(s \o w) \in Seq(S)
<1>1. PICK k, n, m, a, b : /\ k = Len(s) /\ n = Len(t) /\ m = Len(w) /\ a = s \o w /\ b = t \o w
  OBVIOUS
<1>2. /\ k \in Nat /\ n \in Nat /\ m \in Nat /\ MaxLen \in Nat /\ k <= n /\ k <= MaxLen
      /\ k + c >= IF n < MaxLen THEN n ELSE MaxLen
      /\ \A i \in 1..k : s[i] = t[i + (n - k)]
  BY <1>1, BrokerAssumption DEF Holds, Broker!EndOf, BrokerAssumption
<1>3. /\ a \in Seq(S) /\ Len(a) = k + m
      /\ \A i \in 1..(k + m) : a[i] = IF i <= k THEN s[i] ELSE w[i - k]
  BY <1>1, ConcatProperties
<1>4. /\ b \in Seq(S) /\ Len(b) = n + m
      /\ \A i \in 1..(n + m) : b[i] = IF i <= n THEN t[i] ELSE w[i - n]
  BY <1>1, ConcatProperties
<1>5. PICK z, j : z = Broker!Longest(a) /\ j = Cut(a)
  OBVIOUS
<1>6. /\ z \in Seq(S) /\ j \in 0..(k + m) /\ Len(z) = (k + m) - j /\ Len(z) <= MaxLen
      /\ \A i \in 1..((k + m) - j) : z[i] = a[i + j]
      /\ j = IF k + m > MaxLen THEN (k + m) - MaxLen ELSE 0
  <2>1. /\ Broker!Longest(a) \in Seq(S) /\ Len(a) \in Nat /\ Cut(a) \in 0..Len(a)
        /\ Len(Broker!Longest(a)) = Len(a) - Cut(a) /\ Len(Broker!Longest(a)) <= MaxLen
        /\ \A i \in 1..(Len(a) - Cut(a)) : Broker!Longest(a)[i] = a[i + Cut(a)]
    BY <1>3, LongestIs
  <2>2. Cut(a) = IF k + m > MaxLen THEN (k + m) - MaxLen ELSE 0
    BY <1>3 DEF Cut
  <2> QED
    BY <1>3, <1>5, <2>1, <2>2
<1>7. ASSUME NEW i \in 1..((k + m) - j) PROVE z[i] = b[i + ((n + m) - ((k + m) - j))]
  <2>1. z[i] = a[i + j] /\ i + j \in 1..(k + m) /\ i \in Nat /\ j \in Nat
    BY <1>2, <1>6
  <2>2. i + ((n + m) - ((k + m) - j)) = (i + j) + (n - k)
    BY <1>2, <2>1
  <2>3. PICK x : x = i + j
    OBVIOUS
  <2>4. a[x] = b[x + (n - k)]
    <3>1. x \in 1..(k + m) /\ x + (n - k) \in 1..(n + m) /\ (x + (n - k)) - n = x - k
          /\ (x <= k <=> x + (n - k) <= n)
      BY <1>2, <2>1, <2>3
    <3>2. CASE x <= k
      <4>1. a[x] = s[x] /\ b[x + (n - k)] = t[x + (n - k)] /\ x \in 1..k
        BY <1>3, <1>4, <3>1, <3>2
      <4> QED
        BY <1>2, <4>1
    <3>3. CASE ~ (x <= k)
      BY <1>3, <1>4, <3>1, <3>3
    <3> QED
      BY <3>2, <3>3
  <2> QED
    BY <2>1, <2>2, <2>3, <2>4
<1>8. Len(z) <= Len(b) /\ \A i \in 1..Len(z) : z[i] = b[i + (Len(b) - Len(z))]
  BY <1>2, <1>4, <1>6, <1>7
<1>9. Len(z) + c >= IF Len(b) < MaxLen THEN Len(b) ELSE MaxLen
  <2>1. PICK x, y : x = Len(b) /\ y = Len(z)
    OBVIOUS
  <2>2. x = n + m /\ y = (k + m) - j
    BY <1>4, <1>6, <2>1
  <2>3. CASE k + m > MaxLen
    <3>1. y = MaxLen
      BY <1>2, <1>6, <2>2, <2>3
    <3> QED
      BY <1>2, <2>1, <2>2, <3>1
  <2>4. CASE ~ (k + m > MaxLen)
    <3>1. y = k + m
      BY <1>2, <1>6, <2>2, <2>4
    <3>2. CASE n < MaxLen
      BY <1>2, <2>1, <2>2, <3>1, <3>2
    <3>3. CASE ~ (n < MaxLen)
      BY <1>2, <2>1, <2>2, <3>1, <3>3
    <3> QED
      BY <3>2, <3>3
  <2> QED
    BY <2>3, <2>4
<1> QED
  BY <1>1, <1>5, <1>6, <1>8, <1>9 DEF Holds, Broker!EndOf

(* One from which a consumer takes the oldest holds the end still.         *)
LEMMA HoldsLess ==
  ASSUME NEW S, NEW s \in Seq(S), NEW t \in Seq(S), NEW c \in Nat, s # <<>>, Holds(s, t, c)
  PROVE  Holds(Tail(s), t, c + 1) /\ Tail(s) \in Seq(S) /\ DOMAIN Tail(s) \subseteq DOMAIN s
<1>1. PICK k, n, z : k = Len(s) /\ n = Len(t) /\ z = Tail(s)
  OBVIOUS
<1>2. /\ k \in Nat \ {0} /\ n \in Nat /\ MaxLen \in Nat /\ k <= n /\ k <= MaxLen
      /\ k + c >= IF n < MaxLen THEN n ELSE MaxLen
      /\ \A i \in 1..k : s[i] = t[i + (n - k)]
  <2>1. Len(s) \in Nat \ {0}
    BY EmptySeq, LenProperties
  <2> QED
    BY <1>1, <2>1, BrokerAssumption DEF Holds, Broker!EndOf, BrokerAssumption
<1>3. z \in Seq(S) /\ Len(z) = k - 1 /\ \A i \in 1..(k - 1) : z[i] = s[i + 1]
  BY <1>1, HeadTailProperties
<1>4. ASSUME NEW i \in 1..(k - 1) PROVE z[i] = t[i + (n - (k - 1))]
  <2>1. z[i] = s[i + 1] /\ i + 1 \in 1..k /\ (i + 1) + (n - k) = i + (n - (k - 1))
    BY <1>2, <1>3
  <2>2. PICK x : x = i + 1
    OBVIOUS
  <2>3. s[x] = t[x + (n - k)]
    BY <1>2, <2>1, <2>2
  <2> QED
    BY <2>1, <2>2, <2>3
<1>5. DOMAIN z = 1..Len(z) /\ DOMAIN s = 1..k
  BY <1>1, <1>3, LenProperties
<1>6. 1..(k - 1) \subseteq 1..k
  BY <1>2
<1> QED
  BY <1>1, <1>2, <1>3, <1>4, <1>5, <1>6 DEF Holds, Broker!EndOf

LEMMA HoldsOn ==
  ASSUME NEW S, NEW s \in Seq(S), NEW t \in Seq(S), NEW c \in Nat, NEW d \in Nat, c <= d, Holds(s, t, c)
  PROVE  Holds(s, t, d)
<1>1. Len(s) \in Nat /\ Len(t) \in Nat /\ MaxLen \in Nat
  BY BrokerAssumption DEF BrokerAssumption
<1> QED
  BY <1>1 DEF Holds

LEMMA HoldsNothing ==
  ASSUME NEW c \in Nat
  PROVE  Holds(<<>>, <<>>, c)
<1>1. Len(<<>>) = 0 /\ MaxLen \in Nat
  BY BrokerAssumption DEF BrokerAssumption
<1> QED
  BY <1>1 DEF Holds, Broker!EndOf

BrokerInv ==
  /\ Broker!BrokerTypeOK /\ Broker!QueuesHoldTheLatest

(* The broker module's Cardinality is that of this one.                    *)
LEMMA SameCardinality ==
  ASSUME NEW S PROVE Broker!Cardinality(S) = Cardinality(S)
BY DEF Broker!Cardinality, Cardinality

LEMMA HeldIs ==
  ASSUME NEW qs PROVE Broker!Held(qs) = Cardinality(UNION {{q} \X DOMAIN qs[q] : q \in Queues})
BY SameCardinality DEF Broker!Held

(* How many messages the queues hold: a number, and no more than before    *)
(* when they lose some.                                                    *)
LEMMA HeldCounts ==
  ASSUME NEW qs, NEW S, qs \in [Queues -> Seq(S)], \A q \in Queues : Len(qs[q]) <= MaxLen
  PROVE  /\ IsFiniteSet(UNION {{q} \X DOMAIN qs[q] : q \in Queues})
         /\ Broker!Held(qs) \in Nat
<1> DEFINE U == UNION {{q} \X DOMAIN qs[q] : q \in Queues}
<1>1. U \subseteq Queues \X (1..MaxLen)
  <2>1. ASSUME NEW q \in Queues PROVE {q} \X DOMAIN qs[q] \subseteq Queues \X (1..MaxLen)
    <3>1. qs[q] \in Seq(S) /\ DOMAIN qs[q] = 1..Len(qs[q]) /\ Len(qs[q]) \in Nat /\ Len(qs[q]) <= MaxLen
      OBVIOUS
    <3>2. 1..Len(qs[q]) \subseteq 1..MaxLen
      BY <3>1, BrokerAssumption DEF BrokerAssumption
    <3> QED
      BY <3>1, <3>2
  <2> QED
    BY <2>1
<1>2. IsFiniteSet(Queues \X (1..MaxLen))
  <2>1. IsFiniteSet(Queues) /\ 1 \in Int /\ MaxLen \in Int
    BY BrokerAssumption DEF BrokerAssumption
  <2>2. IsFiniteSet(1..MaxLen)
    BY <2>1, FS_Interval
  <2> QED
    BY <2>1, <2>2, FS_Product
<1>3. IsFiniteSet(U)
  <2> HIDE DEF U
  <2> QED
    BY <1>1, <1>2, FS_Subset
<1>4. Broker!Held(qs) = Cardinality(U)
  BY HeldIs
<1> HIDE DEF U
<1>5. Cardinality(U) \in Nat
  BY <1>3, FS_CardinalityType
<1> QED
  BY <1>3, <1>4, <1>5 DEF U

LEMMA HeldShrinks ==
  ASSUME NEW qs, NEW rs, NEW S, qs \in [Queues -> Seq(S)], \A q \in Queues : Len(qs[q]) <= MaxLen,
         \A q \in Queues : DOMAIN rs[q] \subseteq DOMAIN qs[q]
  PROVE  Broker!Held(rs) <= Broker!Held(qs)
<1> DEFINE U == UNION {{q} \X DOMAIN qs[q] : q \in Queues}
           T == UNION {{q} \X DOMAIN rs[q] : q \in Queues}
<1>1. IsFiniteSet(U)
  BY HeldCounts
<1>2. T \in SUBSET U
  OBVIOUS
<1>3. Broker!Held(qs) = Cardinality(U) /\ Broker!Held(rs) = Cardinality(T)
  BY HeldIs
<1> HIDE DEF U, T
<1> QED
  BY <1>1, <1>2, <1>3, FS_Subset

LEMMA BrokerFacts ==
  ASSUME BrokerInv
  PROVE  /\ brokerStats.published \in Nat /\ brokerStats.maxSize \in Nat
         /\ brokerStats.subscriptions \in 0..MaxSubscribed
         /\ \A q \in Queues : Len(queues[q]) <= MaxLen
         /\ Broker!Held(queues) \in Nat /\ Broker!Held(queues) <= brokerStats.maxSize
         /\ Broker!Taken \in Nat /\ \A q \in Queues : Holds(queues[q], routed[q], Broker!Taken)
<1>1. /\ queues \in [Queues -> Seq(1..brokerStats.published)]
      /\ routed \in [Queues -> Seq(1..brokerStats.published)]
      /\ brokerStats \in [published : Nat, consumed : Nat, failed : Nat, inQueue : Nat,
                          maxSize : Nat, subscriptions : 0..MaxSubscribed]
      /\ \A q \in Queues : Len(queues[q]) <= MaxLen
      /\ Broker!Held(queues) <= brokerStats.maxSize
  BY DEF BrokerInv, Broker!BrokerTypeOK, Broker!QueuesHoldTheLatest
<1>2. \A q \in Queues : Holds(queues[q], routed[q], Broker!Taken)
  BY DEF BrokerInv, Broker!QueuesHoldTheLatest, Holds
<1>3. Broker!Taken \in Nat
  BY <1>1 DEF Broker!Taken
<1>4. Broker!Held(queues) \in Nat
  BY <1>1, HeldCounts
<1> QED
  BY <1>1, <1>2, <1>3, <1>4

LEMMA PublishKeepsQueues ==
  ASSUME BrokerInv, NEW k \in BindingKeys, Broker!Publish(k) PROVE BrokerInv'
<1> DEFINE sent == brokerStats.published + 1
           put == [q \in Queues |-> [i \in 1..Broker!Copies(q, k) |-> sent]]
<1>0. /\ queues' = [q \in Queues |-> Broker!Longest(queues[q] \o put[q])]
      /\ routed' = [q \in Queues |-> routed[q] \o put[q]]
      /\ brokerStats' = [brokerStats EXCEPT !.published = sent, !.inQueue = Broker!Held(queues'),
                           !.maxSize = IF @ > Broker!Held(queues') THEN @ ELSE Broker!Held(queues')]
      /\ UNCHANGED <<bindings, subscribers, consumers>>
  BY Zenon DEF Broker!Publish
<1>a. PICK m, p, new : m = sent /\ p = brokerStats.published /\ new = put
  OBVIOUS
<1>1. /\ p = brokerStats.published /\ m = p + 1
      /\ new = [q \in Queues |-> [i \in 1..Broker!Copies(q, k) |-> m]]
      /\ queues' = [q \in Queues |-> Broker!Longest(queues[q] \o new[q])]
      /\ routed' = [q \in Queues |-> routed[q] \o new[q]]
      /\ brokerStats' = [brokerStats EXCEPT !.published = m, !.inQueue = Broker!Held(queues'),
                           !.maxSize = IF @ > Broker!Held(queues') THEN @ ELSE Broker!Held(queues')]
      /\ UNCHANGED <<bindings, subscribers, consumers>>
  <2>1. m = p + 1 /\ new = [q \in Queues |-> [i \in 1..Broker!Copies(q, k) |-> m]]
    BY <1>a
  <2> HIDE DEF sent, put
  <2>2. queues' = [q \in Queues |-> Broker!Longest(queues[q] \o new[q])]
    BY <1>0, <1>a, Zenon
  <2>3. routed' = [q \in Queues |-> routed[q] \o new[q]]
    BY <1>0, <1>a, Zenon
  <2>4. brokerStats' = [brokerStats EXCEPT !.published = m, !.inQueue = Broker!Held(queues'),
                          !.maxSize = IF @ > Broker!Held(queues') THEN @ ELSE Broker!Held(queues')]
    BY <1>0, <1>a, Zenon
  <2> QED
    BY <1>0, <1>a, <2>1, <2>2, <2>3, <2>4, Zenon
<1> HIDE DEF sent, put
<1>2. /\ queues \in [Queues -> Seq(1..p)] /\ routed \in [Queues -> Seq(1..p)]
      /\ bindings \in [BindingKeys -> Seq(Queues)]
      /\ brokerStats \in [published : Nat, consumed : Nat, failed : Nat, inQueue : Nat,
                          maxSize : Nat, subscriptions : 0..MaxSubscribed]
      /\ Broker!Taken \in Nat /\ \A q \in Queues : Holds(queues[q], routed[q], Broker!Taken)
  BY <1>1, BrokerFacts DEF BrokerInv, Broker!BrokerTypeOK
<1>3. p \in Nat /\ m \in 1..m /\ 1..p \subseteq 1..m /\ m \in Nat
  BY <1>1, BrokerFacts
<1>4. ASSUME NEW q \in Queues
      PROVE  /\ new[q] \in Seq(1..m) /\ queues[q] \in Seq(1..m) /\ routed[q] \in Seq(1..m)
             /\ queues'[q] = Broker!Longest(queues[q] \o new[q]) /\ routed'[q] = routed[q] \o new[q]
  <2>1. Broker!Copies(q, k) \in Nat
    <3>1. bindings[k] \in Seq(Queues) /\ DOMAIN bindings[k] = 1..Len(bindings[k]) /\ Len(bindings[k]) \in Nat
      BY <1>2
    <3>2. IsFiniteSet(1..Len(bindings[k]))
      BY <3>1, FS_Interval
    <3>3. IsFiniteSet({i \in DOMAIN bindings[k] : bindings[k][i] = q})
      BY <3>1, <3>2, FS_Subset
    <3> QED
      BY <3>3, FS_CardinalityType, SameCardinality DEF Broker!Copies
  <2>2. new[q] = [i \in 1..Broker!Copies(q, k) |-> m]
    BY <1>1
  <2>3. new[q] \in Seq(1..m)
    BY <1>3, <2>1, <2>2
  <2>4. queues[q] \in Seq(1..m) /\ routed[q] \in Seq(1..m)
    BY <1>2, <1>3, SeqMonotonic
  <2> QED
    BY <1>1, <1>2, <2>3, <2>4
<1>5. ASSUME NEW q \in Queues
      PROVE  /\ Holds(queues'[q], routed'[q], Broker!Taken) /\ routed'[q] \in Seq(1..m)
             /\ queues'[q] \in Seq(1..m) /\ Len(queues'[q]) <= MaxLen
  <2>1. Holds(queues'[q], routed'[q], Broker!Taken) /\ queues'[q] \in Seq(1..m)
    <3>1. PICK S : S = 1..m
      OBVIOUS
    <3>2. /\ Holds(Broker!Longest(queues[q] \o new[q]), routed[q] \o new[q], Broker!Taken)
          /\ Broker!Longest(queues[q] \o new[q]) \in Seq(S)
      BY <1>2, <1>4, <3>1, HoldsMore
    <3> QED
      BY <1>4, <3>1, <3>2
  <2>2. routed'[q] \in Seq(1..m)
    BY <1>4, ConcatProperties
  <2>3. Len(queues'[q]) <= MaxLen
    BY <2>1 DEF Holds
  <2> QED
    BY <2>1, <2>2, <2>3
<1>6. queues' \in [Queues -> Seq(1..m)] /\ routed' \in [Queues -> Seq(1..m)]
  BY <1>1, <1>5
<1>7. PICK h : h = Broker!Held(queues')
  OBVIOUS
<1>8. h \in Nat
  BY <1>5, <1>6, <1>7, HeldCounts
<1>9. /\ brokerStats' \in [published : Nat, consumed : Nat, failed : Nat, inQueue : Nat,
                           maxSize : Nat, subscriptions : 0..MaxSubscribed]
      /\ brokerStats'.published = m /\ h <= brokerStats'.maxSize
  <2>1. PICK x : x = IF brokerStats.maxSize > h THEN brokerStats.maxSize ELSE h
    OBVIOUS
  <2>2. x \in Nat /\ h <= x
    BY <1>2, <1>8, <2>1
  <2>3. brokerStats' = [brokerStats EXCEPT !.published = m, !.inQueue = h, !.maxSize = x]
    BY <1>1, <1>7, <2>1
  <2> QED
    BY <1>2, <1>3, <1>8, <2>2, <2>3
<1>10. Broker!BrokerTypeOK'
  BY <1>1, <1>6, <1>9 DEF BrokerInv, Broker!BrokerTypeOK, Broker!Subscriptions
<1>11. Broker!QueuesHoldTheLatest'
  <2>1. Broker!Taken' = Broker!Taken
    BY <1>1, <1>2 DEF Broker!Taken
  <2>2. \A q \in Queues : Holds(queues'[q], routed'[q], Broker!Taken')
    BY <1>5, <2>1
  <2> QED
    BY <1>7, <1>9, <2>2 DEF Broker!QueuesHoldTheLatest, Holds
<1> QED
  BY <1>10, <1>11 DEF BrokerInv

LEMMA EmptyKeeps ==
  ASSUME BrokerInv, NEW q \in Queues, Broker!Emptied(q) PROVE BrokerInv'
<1>1. /\ queues' = [queues EXCEPT ![q] = <<>>] /\ routed' = [routed EXCEPT ![q] = <<>>]
      /\ UNCHANGED <<bindings, subscribers, consumers, brokerStats>>
  BY DEF Broker!Emptied
<1>2. PICK S : S = 1..brokerStats.published
  OBVIOUS
<1>3. queues \in [Queues -> Seq(S)] /\ routed \in [Queues -> Seq(S)]
  BY <1>2 DEF BrokerInv, Broker!BrokerTypeOK
<1>4. queues' \in [Queues -> Seq(S)] /\ routed' \in [Queues -> Seq(S)]
  BY <1>1, <1>3, EmptySeq
<1>5. Broker!BrokerTypeOK'
  BY <1>1, <1>2, <1>4 DEF BrokerInv, Broker!BrokerTypeOK, Broker!Subscriptions
<1>6. ASSUME NEW p \in Queues
      PROVE  Holds(queues'[p], routed'[p], Broker!Taken) /\ DOMAIN queues'[p] \subseteq DOMAIN queues[p]
  <2>1. CASE p = q
    <3>1. queues'[p] = <<>> /\ routed'[p] = <<>>
      BY <1>1, <1>3, <2>1
    <3>2. Holds(<<>>, <<>>, Broker!Taken)
      BY BrokerFacts, HoldsNothing
    <3> QED
      BY <3>1, <3>2
  <2>2. CASE p # q
    <3>1. queues'[p] = queues[p] /\ routed'[p] = routed[p]
      BY <1>1, <1>3, <2>2
    <3> QED
      BY <3>1, BrokerFacts
  <2> QED
    BY <2>1, <2>2
<1>7. PICK h, c : h = Broker!Held(queues') /\ c = queues'
  OBVIOUS
<1>8. h <= brokerStats.maxSize
  <2>1. \A p \in Queues : Len(c[p]) <= MaxLen /\ Len(queues[p]) <= MaxLen
    BY <1>6, <1>7, BrokerFacts DEF Holds
  <2>2. h \in Nat
    BY <1>4, <1>7, <2>1, HeldCounts
  <2>3. h <= Broker!Held(queues)
    BY <1>3, <1>6, <1>7, <2>1, HeldShrinks
  <2> QED
    BY <2>2, <2>3, BrokerFacts
<1>9. Broker!QueuesHoldTheLatest'
  <2>1. Broker!Taken' = Broker!Taken
    BY <1>1 DEF Broker!Taken
  <2>2. \A p \in Queues : Holds(queues'[p], routed'[p], Broker!Taken')
    BY <1>6, <2>1
  <2> QED
    BY <1>1, <1>7, <1>8, <2>2 DEF Broker!QueuesHoldTheLatest, Holds
<1> QED
  BY <1>5, <1>9 DEF BrokerInv

(* A consumer takes the oldest message of a queue, and it is counted.      *)
LEMMA ConsumerKeeps ==
  ASSUME BrokerInv, NEW t \in consumers, Broker!ConsumerRound(t), Broker!Active(t), queues[t.queue] # <<>>
  PROVE  BrokerInv'
<1>1. PICK q, S, x : /\ q = t.queue /\ S = 1..brokerStats.published /\ x = Tail(queues[q])
  OBVIOUS
<1>2. /\ queues' = [queues EXCEPT ![q] = x]
      /\ brokerStats' \in {[brokerStats EXCEPT !.consumed = @ + 1], [brokerStats EXCEPT !.failed = @ + 1]}
      /\ UNCHANGED <<bindings, subscribers, consumers, routed>>
  BY <1>1 DEF Broker!ConsumerRound
<1>3. /\ q \in Queues /\ queues \in [Queues -> Seq(S)] /\ routed \in [Queues -> Seq(S)]
      /\ brokerStats \in [published : Nat, consumed : Nat, failed : Nat, inQueue : Nat,
                          maxSize : Nat, subscriptions : 0..MaxSubscribed]
  BY <1>1 DEF BrokerInv, Broker!BrokerTypeOK, Broker!Subscriptions
<1>4. PICK c \in Nat : c = Broker!Taken
  BY BrokerFacts
<1>5. /\ brokerStats' \in [published : Nat, consumed : Nat, failed : Nat, inQueue : Nat,
                           maxSize : Nat, subscriptions : 0..MaxSubscribed]
      /\ brokerStats'.published = brokerStats.published /\ brokerStats'.maxSize = brokerStats.maxSize
      /\ Broker!Taken' = c + 1
  <2>1. PICK a, f : /\ a = brokerStats.consumed /\ f = brokerStats.failed /\ a \in Nat /\ f \in Nat
    BY <1>3
  <2>2. c = a + f
    BY <1>4, <2>1 DEF Broker!Taken
  <2>3. CASE brokerStats' = [brokerStats EXCEPT !.consumed = a + 1]
    <3>1. brokerStats'.consumed = a + 1 /\ brokerStats'.failed = f
      BY <1>3, <2>1, <2>3
    <3>2. Broker!Taken' = (a + 1) + f
      BY <3>1 DEF Broker!Taken
    <3>3. c + 1 = (a + 1) + f
      BY <2>1, <2>2
    <3>5. a + 1 \in Nat /\ f + 1 \in Nat
      BY <2>1
    <3>4. /\ brokerStats' \in [published : Nat, consumed : Nat, failed : Nat, inQueue : Nat,
                               maxSize : Nat, subscriptions : 0..MaxSubscribed]
          /\ brokerStats'.published = brokerStats.published /\ brokerStats'.maxSize = brokerStats.maxSize
      BY <1>3, <2>1, <2>3, <3>5
    <3> QED
      BY <3>2, <3>3, <3>4
  <2>4. CASE brokerStats' = [brokerStats EXCEPT !.failed = f + 1]
    <3>1. brokerStats'.consumed = a /\ brokerStats'.failed = f + 1
      BY <1>3, <2>1, <2>4
    <3>2. Broker!Taken' = a + (f + 1)
      BY <3>1 DEF Broker!Taken
    <3>3. c + 1 = a + (f + 1)
      BY <2>1, <2>2
    <3>5. a + 1 \in Nat /\ f + 1 \in Nat
      BY <2>1
    <3>4. /\ brokerStats' \in [published : Nat, consumed : Nat, failed : Nat, inQueue : Nat,
                               maxSize : Nat, subscriptions : 0..MaxSubscribed]
          /\ brokerStats'.published = brokerStats.published /\ brokerStats'.maxSize = brokerStats.maxSize
      BY <1>3, <2>1, <2>4, <3>5
    <3> QED
      BY <3>2, <3>3, <3>4
  <2> QED
    BY <1>2, <2>1, <2>3, <2>4
<1>6. Holds(x, routed[q], c + 1) /\ x \in Seq(S) /\ DOMAIN x \subseteq DOMAIN queues[q]
  <2>1. Holds(queues[q], routed[q], c)
    BY <1>3, <1>4, BrokerFacts
  <2> QED
    BY <1>1, <1>3, <2>1, HoldsLess
<1>7. ASSUME NEW p \in Queues
      PROVE  Holds(queues'[p], routed'[p], c + 1) /\ DOMAIN queues'[p] \subseteq DOMAIN queues[p]
  <2>1. CASE p = q
    BY <1>2, <1>3, <1>6, <2>1
  <2>2. CASE p # q
    <3>1. queues'[p] = queues[p] /\ routed'[p] = routed[p]
      BY <1>2, <1>3, <2>2
    <3>2. Holds(queues[p], routed[p], c) /\ c <= c + 1 /\ c + 1 \in Nat
      BY <1>4, BrokerFacts
    <3>3. Holds(queues[p], routed[p], c + 1)
      BY <1>3, <3>2, HoldsOn
    <3> QED
      BY <3>1, <3>3
  <2> QED
    BY <2>1, <2>2
<1>8. queues' \in [Queues -> Seq(S)]
  BY <1>2, <1>3, <1>6
<1>9. Broker!BrokerTypeOK'
  BY <1>1, <1>2, <1>5, <1>8 DEF BrokerInv, Broker!BrokerTypeOK, Broker!Subscriptions
<1>10. Broker!Held(queues') <= brokerStats'.maxSize
  <2>1. PICK h, d : h = Broker!Held(queues') /\ d = queues'
    OBVIOUS
  <2>2. \A p \in Queues : Len(d[p]) <= MaxLen /\ Len(queues[p]) <= MaxLen
    BY <1>7, <2>1, BrokerFacts DEF Holds
  <2>3. h \in Nat
    BY <1>8, <2>1, <2>2, HeldCounts
  <2>4. h <= Broker!Held(queues)
    BY <1>3, <1>7, <2>1, <2>2, HeldShrinks
  <2> QED
    BY <1>5, <2>1, <2>3, <2>4, BrokerFacts
<1>11. Broker!QueuesHoldTheLatest'
  BY <1>5, <1>7, <1>10 DEF Broker!QueuesHoldTheLatest, Holds
<1> QED
  BY <1>9, <1>11 DEF BrokerInv

LEMMA SubscriptionsKeep ==
  ASSUME BrokerInv,
         \/ \E q \in Queues, k \in BindingKeys : Broker!BindQueue(q, k)
         \/ \E q \in Queues, c \in Callbacks : Broker!Subscribe(q, c)
         \/ \E id \in 1..brokerStats.subscriptions : Broker!Unsubscribe(id)
         \/ \E t \in consumers : Broker!ConsumerRound(t) /\ (Broker!Active(t) => queues[t.queue] = <<>>)
         \/ UNCHANGED brokerVars
  PROVE  BrokerInv'
<1>1. /\ bindings \in [BindingKeys -> Seq(Queues)] /\ subscribers \in [Queues -> SUBSET Callbacks]
      /\ consumers \subseteq [id : 1..MaxSubscribed, queue : Queues]
      /\ brokerStats \in [published : Nat, consumed : Nat, failed : Nat, inQueue : Nat,
                          maxSize : Nat, subscriptions : 0..MaxSubscribed]
      /\ MaxSubscribed \in Nat
  BY BrokerAssumption DEF BrokerInv, Broker!BrokerTypeOK, Broker!Subscriptions, BrokerAssumption
<1> DEFINE Keeps == /\ UNCHANGED <<queues, routed>>
                    /\ bindings' \in [BindingKeys -> Seq(Queues)]
                    /\ subscribers' \in [Queues -> SUBSET Callbacks]
                    /\ consumers' \subseteq [id : 1..MaxSubscribed, queue : Queues]
                    /\ brokerStats' \in [published : Nat, consumed : Nat, failed : Nat, inQueue : Nat,
                                         maxSize : Nat, subscriptions : 0..MaxSubscribed]
                    /\ brokerStats'.published = brokerStats.published
                    /\ brokerStats'.maxSize = brokerStats.maxSize
                    /\ brokerStats'.consumed = brokerStats.consumed /\ brokerStats'.failed = brokerStats.failed
<1>2. ASSUME NEW q \in Queues, NEW k \in BindingKeys, Broker!BindQueue(q, k) PROVE Keeps
  <2>1. bindings' = [bindings EXCEPT ![k] = Append(@, q)]
    BY <1>2 DEF Broker!BindQueue
  <2>2. Append(bindings[k], q) \in Seq(Queues)
    BY <1>1, Appended
  <2>3. bindings' \in [BindingKeys -> Seq(Queues)]
    BY <1>1, <2>1, <2>2
  <2> QED
    BY <1>1, <1>2, <2>3 DEF Broker!BindQueue
<1>3. ASSUME NEW q \in Queues, NEW c \in Callbacks, Broker!Subscribe(q, c) PROVE Keeps
  <2>1. PICK n : n = brokerStats.subscriptions
    OBVIOUS
  <2>2. /\ n < MaxSubscribed /\ n \in 0..MaxSubscribed
        /\ subscribers' = [subscribers EXCEPT ![q] = @ \cup {c}]
        /\ brokerStats' = [brokerStats EXCEPT !.subscriptions = n + 1]
        /\ consumers' = consumers \cup {[id |-> n + 1, queue |-> q]}
        /\ UNCHANGED <<queues, bindings, routed>>
    BY <1>1, <1>3, <2>1 DEF Broker!Subscribe
  <2>3. n + 1 \in 0..MaxSubscribed /\ n + 1 \in 1..MaxSubscribed
    BY <1>1, <2>2
  <2>4. subscribers' \in [Queues -> SUBSET Callbacks]
    BY <1>1, <2>2
  <2>5. consumers' \subseteq [id : 1..MaxSubscribed, queue : Queues]
    BY <1>1, <2>2, <2>3
  <2>6. /\ brokerStats' \in [published : Nat, consumed : Nat, failed : Nat, inQueue : Nat,
                             maxSize : Nat, subscriptions : 0..MaxSubscribed]
        /\ brokerStats'.published = brokerStats.published
        /\ brokerStats'.maxSize = brokerStats.maxSize
        /\ brokerStats'.consumed = brokerStats.consumed /\ brokerStats'.failed = brokerStats.failed
    BY <1>1, <2>2, <2>3
  <2> QED
    BY <1>1, <2>2, <2>4, <2>5, <2>6
<1>4. ASSUME NEW id \in 1..brokerStats.subscriptions, Broker!Unsubscribe(id) PROVE Keeps
  BY <1>1, <1>4 DEF Broker!Unsubscribe
<1>5. ASSUME NEW t \in consumers, Broker!ConsumerRound(t), Broker!Active(t) => queues[t.queue] = <<>> PROVE Keeps
  <2>1. CASE ~Broker!Active(t)
    BY <1>1, <1>5, <2>1 DEF Broker!ConsumerRound
  <2>2. CASE Broker!Active(t)
    <3>1. queues' = [queues EXCEPT ![t.queue] = queues[t.queue]] /\ brokerStats' = brokerStats
          /\ UNCHANGED <<bindings, subscribers, consumers, routed>>
      BY <1>5, <2>2 DEF Broker!ConsumerRound
    <3>2. queues' = queues
      BY <3>1 DEF BrokerInv, Broker!BrokerTypeOK
    <3> QED
      BY <1>1, <3>1, <3>2
  <2> QED
    BY <2>1, <2>2
<1>6. ASSUME UNCHANGED brokerVars PROVE Keeps
  BY <1>1, <1>6 DEF brokerVars
<1>7. Keeps
  BY <1>2, <1>3, <1>4, <1>5, <1>6
<1>8. Broker!BrokerTypeOK'
  BY <1>7 DEF BrokerInv, Broker!BrokerTypeOK, Broker!Subscriptions
<1>9. Broker!QueuesHoldTheLatest'
  <2>1. Broker!Taken' = Broker!Taken
    BY <1>7 DEF Broker!Taken
  <2>2. \A q \in Queues : Holds(queues'[q], routed'[q], Broker!Taken')
    BY <1>7, <2>1, BrokerFacts
  <2>3. Broker!Held(queues') <= brokerStats'.maxSize
    BY <1>7, BrokerFacts
  <2> QED
    BY <2>2, <2>3 DEF Broker!QueuesHoldTheLatest, Holds
<1> QED
  BY <1>8, <1>9 DEF BrokerInv

LEMMA InitBroker == Broker!BrokerInit => BrokerInv
<1> SUFFICES ASSUME Broker!BrokerInit PROVE BrokerInv
  OBVIOUS
<1>1. /\ queues = [q \in Queues |-> <<>>] /\ routed = [q \in Queues |-> <<>>]
      /\ bindings = [k \in BindingKeys |-> <<>>]
      /\ subscribers = [q \in Queues |-> {}] /\ consumers = {}
      /\ brokerStats = [published |-> 0, consumed |-> 0, failed |-> 0,
                        inQueue |-> 0, maxSize |-> 0, subscriptions |-> 0]
      /\ MaxLen \in Nat /\ MaxSubscribed \in Nat
  BY BrokerAssumption DEF Broker!BrokerInit, BrokerAssumption
<1>2. Broker!BrokerTypeOK
  BY <1>1 DEF Broker!BrokerTypeOK
<1>3. \A q \in Queues : Holds(queues[q], routed[q], Broker!Taken)
  <2>1. Broker!Taken \in Nat
    BY <1>1 DEF Broker!Taken
  <2>2. Holds(<<>>, <<>>, Broker!Taken)
    BY <2>1, HoldsNothing
  <2> QED
    BY <1>1, <2>2
<1>4. Broker!Held(queues) = 0
  <2>1. UNION {{q} \X DOMAIN queues[q] : q \in Queues} = {}
    BY <1>1
  <2> QED
    BY <2>1, FS_EmptySet, HeldIs
<1> QED
  BY <1>1, <1>2, <1>3, <1>4 DEF BrokerInv, Broker!QueuesHoldTheLatest, Holds

LEMMA BrokerCorrect == Spec => []BrokerInv
<1>1. Init => Broker!BrokerInit
  BY DEF Init
<1>2. BrokerInv /\ [BusUsed \/ RouterUsed \/ BrokerUsed]_vars => BrokerInv'
  <2> SUFFICES ASSUME BrokerInv, [BusUsed \/ RouterUsed \/ BrokerUsed]_vars PROVE BrokerInv'
    OBVIOUS
  <2>1. Broker!BrokerNext \/ UNCHANGED brokerVars
    BY DEF vars, BusUsed, RouterUsed, BrokerUsed
  <2> QED
    BY <2>1, SubscriptionsKeep, ConsumerKeeps, PublishKeepsQueues, EmptyKeeps
    DEF Broker!BrokerNext, Broker!PurgeQueue, Broker!DeclareQueue
<1> QED
  BY <1>1, <1>2, InitBroker, PTL DEF Spec

THEOREM MessagingTyped == Spec => []TypeOK
BY BusCorrect, RouterCorrect, BrokerCorrect, PTL DEF TypeOK, BusInv, RouterInv, BrokerInv

(* What the router caches is what its rules select, in their order, and    *)
(* its counters are its calls; the broker's queues hold the end of what    *)
(* was published to them, whatever takes from them.                        *)
THEOREM RulesAndQueuesHold == Spec => []RulesAndQueues
BY RouterCorrect, BrokerCorrect, PTL DEF RulesAndQueues, Consistent, RouterInv, BrokerInv
=============================================================================
