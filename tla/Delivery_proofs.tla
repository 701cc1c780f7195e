-------------------------- MODULE Delivery_proofs --------------------------
(***************************************************************************)
(* The connections alone, the alerts that are broadcast over them, the     *)
(* webhooks, the delivery by channel and the streams: an inductive         *)
(* invariant for each, and the theorems of the composition.                *)
(***************************************************************************)
EXTENDS Delivery, Lemmas, TLAPS

(* The strengthening: what Connect relies on. A client that is not        *)
(* connected has no subscriptions left over.                               *)
ConnInv ==
  /\ active \subseteq Clients /\ broken \subseteq Clients
  /\ subscribed \in [Clients -> SUBSET Topics]
  /\ byGroup \in [Groups -> SUBSET Clients]
  /\ byTopic \in [Topics -> SUBSET Clients]
  /\ handler \in [Clients -> {"none", "open", "over"}]
  /\ \A c \in Clients \ active : subscribed[c] = {}
  /\ IndexesAgree

LEMMA ConnInitInv == ConnInit => ConnInv
  BY DEF ConnInit, ConnInv, IndexesAgree

(* Disconnecting any clients, connected or not, keeps the indexes.        *)
LEMMA DisconnectKeeps ==
  ASSUME ConnInv, NEW cs, Disconnect(cs),
         handler' \in [Clients -> {"none", "open", "over"}],
         \A c \in active \ cs : handler'[c] = handler[c], broken' \subseteq broken
  PROVE  ConnInv'
  <1>1. /\ active' = active \ cs /\ active' \subseteq Clients
        /\ byGroup' \in [Groups -> SUBSET Clients]
        /\ byTopic' \in [Topics -> SUBSET Clients]
        /\ subscribed' \in [Clients -> SUBSET Topics]
    BY DEF Disconnect, ConnInv
  <1>2. \A c \in Clients \ active' : subscribed'[c] = {}
    BY DEF Disconnect, ConnInv
  <1>3. \A g \in Groups : byGroup'[g] = {c \in active' : g \in GroupsOf(c)}
    BY DEF Disconnect, ConnInv, IndexesAgree
  <1>4. \A t \in Topics : byTopic'[t] = {c \in active' : t \in subscribed'[c]}
    <2> SUFFICES ASSUME NEW t \in Topics
                 PROVE  byTopic'[t] = {c \in active' : t \in subscribed'[c]}
      OBVIOUS
    <2>1. byTopic'[t] = byTopic[t] \ {c \in cs \cap active : t \in subscribed[c]}
      BY DEF Disconnect, ConnInv
    <2>2. byTopic[t] = {c \in active : t \in subscribed[c]}
      BY DEF ConnInv, IndexesAgree
    <2>3. \A c \in active' : subscribed'[c] = subscribed[c]
      BY DEF Disconnect, ConnInv
    <2>4. QED
      BY <1>1, <2>1, <2>2, <2>3
  <1>5. \A c \in active' : handler'[c] = "open"
    BY <1>1 DEF ConnInv, IndexesAgree
  <1>6. QED
    BY <1>1, <1>2, <1>3, <1>4, <1>5 DEF ConnInv, IndexesAgree

(* Steps that touch only sockets and broadcasts.                          *)
LEMMA UntouchedKeeps ==
  ASSUME ConnInv, UNCHANGED <<active, subscribed, byGroup, byTopic, handler>>, broken' \subseteq Clients
  PROVE  ConnInv'
  BY DEF ConnInv, IndexesAgree

LEMMA ConnNextInv ==
  ASSUME ConnInv, [ConnNext]_connVars
  PROVE  ConnInv'
  <1>1. ASSUME NEW c \in Clients, Connect(c) PROVE ConnInv'
    <2>1. c \notin active /\ subscribed[c] = {}
      BY <1>1 DEF Connect, ConnInv, IndexesAgree
    <2>2. \A g \in Groups : byGroup'[g] = {x \in active' : g \in GroupsOf(x)}
      BY <1>1 DEF Connect, ConnInv, IndexesAgree
    <2>3. \A t \in Topics : byTopic'[t] = {x \in active' : t \in subscribed'[x]}
      BY <1>1, <2>1 DEF Connect, ConnInv, IndexesAgree
    <2>4. \A x \in active' : handler'[x] = "open"
      BY <1>1 DEF Connect, ConnInv, IndexesAgree
    <2>5. QED
      BY <1>1, <2>2, <2>3, <2>4 DEF Connect, ConnInv, IndexesAgree
  <1>2. ASSUME NEW c \in Clients, SocketBreaks(c) PROVE ConnInv'
    BY <1>2, UntouchedKeeps DEF SocketBreaks, ConnInv
  <1>3. ASSUME NEW c \in Clients, HandlerEnds(c) PROVE ConnInv'
    <2>1. handler' \in [Clients -> {"none", "open", "over"}]
      BY <1>3 DEF HandlerEnds, ConnInv
    <2>2. \A x \in active \ {c} : handler'[x] = handler[x]
      BY <1>3 DEF HandlerEnds, ConnInv
    <2>3. QED
      BY <1>3, <2>1, <2>2, DisconnectKeeps DEF HandlerEnds
  <1>4. ASSUME NEW c \in Clients, NEW t \in Topics, SubscribeTo(c, t) PROVE ConnInv'
    <2>1. \A s \in Topics : byTopic'[s] = {x \in active' : s \in subscribed'[x]}
      BY <1>4 DEF SubscribeTo, ConnInv, IndexesAgree
    <2>2. QED
      BY <1>4, <2>1 DEF SubscribeTo, ConnInv, IndexesAgree
  <1>5. ASSUME NEW c \in Clients, NEW t \in Topics, UnsubscribeFrom(c, t) PROVE ConnInv'
    <2>1. \A s \in Topics : byTopic'[s] = {x \in active' : s \in subscribed'[x]}
      BY <1>5 DEF UnsubscribeFrom, ConnInv, IndexesAgree
    <2>2. QED
      BY <1>5, <2>1 DEF UnsubscribeFrom, ConnInv, IndexesAgree
  <1>6. ASSUME NEW cs \in SUBSET active, CleanupInactive(cs) PROVE ConnInv'
    BY <1>6, DisconnectKeeps DEF CleanupInactive, ConnInv
  <1>7. ASSUME NEW t \in Targets, StartBroadcast(t) PROVE ConnInv'
    BY <1>7, UntouchedKeeps DEF StartBroadcast, ConnInv
  <1>8. ASSUME NEW n \in DOMAIN broadcasts, Broadcasting(n) \/ Cancelled(n) PROVE ConnInv'
    <2>1. ASSUME NEW c \in Clients, Send(n, c) PROVE ConnInv'
      BY <2>1, UntouchedKeeps DEF Send, ConnInv
    <2>2. CASE Raises(n) \/ Cancelled(n)
      BY <2>2, UntouchedKeeps DEF Raises, Cancelled, ConnInv
    <2>3. CASE Returns(n)
      BY <2>3, DisconnectKeeps DEF Returns, ConnInv
    <2>4. QED
      BY <1>8, <2>1, <2>2, <2>3 DEF Broadcasting
  <1>9. CASE UNCHANGED connVars
    BY <1>9, UntouchedKeeps DEF connVars, ConnInv
  <1>10. QED
    BY <1>1, <1>2, <1>3, <1>4, <1>5, <1>6, <1>7, <1>8, <1>9 DEF ConnNext, ClientSteps

(* However connections, subscriptions, clean-ups and broadcasts are        *)
(* interleaved, the indexes the broadcasts read name exactly the connected *)
(* clients concerned.                                                      *)
THEOREM IndexesAlwaysAgree == ConnSpec => []IndexesAgree
  <1>1. ConnInv => IndexesAgree
    BY DEF ConnInv
  <1>2. QED
    BY ConnInitInv, ConnNextInv, <1>1, PTL DEF ConnSpec

-----------------------------------------------------------------------------
(* An undisturbed broadcast still walks the audience it started on.        *)
Records ==
  {b \in [target : Targets, due : SUBSET Clients, visited : SUBSET Clients, failed : SUBSET Clients,
          disturbed : BOOLEAN, state : {"sending", "returned", "raised", "cancelled"}] :
     b.failed \subseteq b.visited}

OnCourse(b) == b.state = "sending" /\ ~b.disturbed => b.due = Audience(b.target) /\ b.visited \subseteq b.due

WalkInv ==
  /\ broadcasts \in Seq(Records)
  /\ \A n \in DOMAIN broadcasts : OnCourse(broadcasts[n])

LEMMA AudienceAfterIs ==
  ASSUME NEW t
  PROVE  Audience(t)' = AudienceAfter(t)
  BY DEF Audience, AudienceAfter

LEMMA DisturbingKeeps ==
  ASSUME WalkInv, NEW bs \in Seq(Records), NEW own, Len(bs) = Len(broadcasts),
         \A n \in DOMAIN bs \ own : bs[n] = broadcasts[n],
         \A n \in DOMAIN bs \cap own : bs[n].state # "sending",
         broadcasts' = Disturbing(bs, own)
  PROVE  WalkInv'
  <1>1. DOMAIN broadcasts' = 1..Len(bs) /\ DOMAIN bs = 1..Len(bs) /\ Len(bs) \in Nat
    BY DEF Disturbing
  <1>2. \A n \in 1..Len(bs) : broadcasts'[n] = bs[n] \/ broadcasts'[n] = [bs[n] EXCEPT !.disturbed = TRUE]
    BY <1>1 DEF Disturbing
  <1>3. ASSUME NEW n \in 1..Len(bs) PROVE broadcasts'[n] \in Records
    <2>1. bs[n] \in Records
      BY <1>1
    <2>2. [bs[n] EXCEPT !.disturbed = TRUE] \in Records
      BY <2>1 DEF Records
    <2>3. QED
      BY <1>2, <2>1, <2>2
  <1>4. broadcasts' \in Seq(Records)
    BY <1>1, <1>3 DEF Disturbing
  <1>5. ASSUME NEW n \in 1..Len(bs) PROVE OnCourse(broadcasts[n])'
    <2> SUFFICES ASSUME broadcasts'[n].state = "sending", ~broadcasts'[n].disturbed
                 PROVE  /\ broadcasts'[n].due = Audience(broadcasts[n].target)'
                        /\ broadcasts'[n].visited \subseteq broadcasts'[n].due
      BY DEF OnCourse, Audience
    <2>1. bs[n] \in Records
      BY <1>1
    <2>2. broadcasts'[n] = bs[n]
      BY <1>2, <2>1 DEF Records
    <2>3. n \notin own /\ bs[n] = broadcasts[n]
      BY <1>1, <2>2
    <2>4. AudienceAfter(bs[n].target) = Audience(bs[n].target)
      BY <1>1, <2>1, <2>2, <2>3 DEF Disturbing, Records
    <2>5. OnCourse(broadcasts[n])
      BY <1>1, <2>3 DEF WalkInv
    <2>6. bs[n].due = Audience(bs[n].target) /\ bs[n].visited \subseteq bs[n].due
      BY <2>2, <2>3, <2>5 DEF OnCourse
    <2>7. Audience(broadcasts[n].target)' = AudienceAfter(broadcasts'[n].target)
      BY AudienceAfterIs DEF Audience, AudienceAfter
    <2>8. QED
      BY <2>2, <2>4, <2>6, <2>7
  <1>6. QED
    BY <1>1, <1>4, <1>5 DEF WalkInv

(* A broadcast may be replaced as long as the audiences stay as they are.  *)
LEMMA ReplacedKeeps ==
  ASSUME WalkInv, UNCHANGED <<active, byGroup, byTopic>>, NEW n \in DOMAIN broadcasts,
         NEW b \in Records, OnCourse(b), broadcasts' = [broadcasts EXCEPT ![n] = b]
  PROVE  WalkInv'
  <1>1. broadcasts' \in Seq(Records) /\ DOMAIN broadcasts' = DOMAIN broadcasts
    BY DEF WalkInv
  <1>2. \A t : Audience(t)' = Audience(t)
    BY DEF Audience
  <1>3. ASSUME NEW k \in DOMAIN broadcasts PROVE OnCourse(broadcasts[k])'
    <2>1. OnCourse(broadcasts'[k])
      BY DEF WalkInv
    <2>2. QED
      BY <2>1 DEF OnCourse, Audience
  <1>4. QED
    BY <1>1, <1>3 DEF WalkInv

LEMMA UnmovedKeeps ==
  ASSUME WalkInv, UNCHANGED <<active, byGroup, byTopic, broadcasts>>
  PROVE  WalkInv'
  BY DEF WalkInv, OnCourse, Audience

LEMMA OverIsRecord ==
  ASSUME NEW b \in Records, NEW how \in {"returned", "raised", "cancelled"}
  PROVE  Over(b, how) \in Records /\ Over(b, how).state = how /\ OnCourse(Over(b, how))
  BY DEF Over, Records, OnCourse

LEMMA WalkNextInv ==
  ASSUME ConnInv, WalkInv, [ConnNext]_connVars
  PROVE  WalkInv'
  <1>a. broadcasts \in Seq(Records) /\ \A n \in DOMAIN broadcasts : broadcasts[n] \in Records
    BY DEF WalkInv
  <1> USE DEF Records
  <1>1. ASSUME broadcasts' = Disturbing(broadcasts, {}) PROVE WalkInv'
    BY <1>1, <1>a, DisturbingKeeps
  <1>2. CASE ClientSteps
    <2>1. CASE broadcasts' = Disturbing(broadcasts, {})
      BY <2>1, <1>1
    <2>2. ASSUME NEW c \in Clients, SocketBreaks(c) PROVE WalkInv'
      BY <2>2, UnmovedKeeps DEF SocketBreaks
    <2>3. QED
      BY <1>2, <2>1, <2>2
         DEF ClientSteps, Connect, HandlerEnds, SubscribeTo, UnsubscribeFrom, CleanupInactive
  <1>3. ASSUME NEW t \in Targets, StartBroadcast(t) PROVE WalkInv'
    <2>1. Audience(t) \subseteq Clients
      BY DEF ConnInv, Audience
    <2>2. Broadcast(t) \in Records /\ OnCourse(Broadcast(t))
      BY <2>1 DEF Broadcast, OnCourse
    <2>3. \A u : Audience(u)' = Audience(u)
      BY <1>3 DEF StartBroadcast, Audience
    <2>4. broadcasts' \in Seq(Records) /\ Len(broadcasts') = Len(broadcasts) + 1
      BY <1>3, <1>a, <2>2 DEF StartBroadcast
    <2>5. ASSUME NEW n \in DOMAIN broadcasts' PROVE OnCourse(broadcasts[n])'
      <3>1. broadcasts'[n] = IF n \in DOMAIN broadcasts THEN broadcasts[n] ELSE Broadcast(t)
        BY <1>3, <1>a, <2>4, <2>5 DEF StartBroadcast
      <3>2. OnCourse(broadcasts'[n])
        BY <3>1, <2>2 DEF WalkInv
      <3>3. QED
        BY <3>2, <1>3 DEF OnCourse, Audience, StartBroadcast
    <2>6. QED
      BY <2>4, <2>5 DEF WalkInv
  <1>4. ASSUME NEW n \in DOMAIN broadcasts, Broadcasting(n) \/ Cancelled(n) PROVE WalkInv'
    <2>1. ASSUME NEW c \in Clients, Send(n, c) PROVE WalkInv'
      <3>1. Tried(broadcasts[n], c) \in Records
        BY <1>a, <2>1 DEF Tried
      <3>2. OnCourse(Tried(broadcasts[n], c))
        BY <1>a, <2>1 DEF Tried, Send, Left, OnCourse, WalkInv
      <3>3. QED
        BY <2>1, <3>1, <3>2, ReplacedKeeps DEF Send
    <2>2. CASE Raises(n)
      BY <2>2, <1>a, OverIsRecord, ReplacedKeeps DEF Raises
    <2>3. CASE Cancelled(n)
      BY <2>3, <1>a, OverIsRecord, ReplacedKeeps DEF Cancelled
    <2>4. CASE Returns(n)
      <3> DEFINE bs == [broadcasts EXCEPT ![n] = Over(broadcasts[n], "returned")]
      <3>1. bs \in Seq(Records) /\ Len(bs) = Len(broadcasts)
        BY <1>a, OverIsRecord
      <3>2. bs[n].state = "returned"
        BY <1>a, OverIsRecord
      <3>3. \A k \in DOMAIN bs \ {n} : bs[k] = broadcasts[k]
        BY <1>a
      <3>4. broadcasts' = Disturbing(bs, {n})
        BY <2>4 DEF Returns
      <3>5. \A k \in DOMAIN bs \cap {n} : bs[k].state # "sending"
        BY <3>2
      <3> HIDE DEF bs
      <3>6. QED
        BY <3>1, <3>3, <3>4, <3>5, DisturbingKeeps
    <2>5. QED
      BY <1>4, <2>1, <2>2, <2>3, <2>4 DEF Broadcasting
  <1>5. CASE UNCHANGED connVars
    BY <1>5, UnmovedKeeps DEF connVars
  <1>6. QED
    BY <1>2, <1>3, <1>4, <1>5 DEF ConnNext

(* A broadcast ends by one of three actions; each of them alone decides.   *)
LEMMA EndingCompletes ==
  ASSUME WalkInv, [ConnNext]_connVars, NEW n \in DOMAIN broadcasts
  PROVE  Completes(n)
  <1> SUFFICES ASSUME broadcasts[n].state = "sending", ~broadcasts[n].disturbed,
                      broadcasts'[n].state \in {"returned", "raised"}
               PROVE  /\ broadcasts'[n].state = "returned"
                      /\ broadcasts[n].visited = broadcasts[n].due
                      /\ broadcasts[n].failed \cap active' = {}
    BY DEF Completes
  <1>1. /\ broadcasts \in Seq(Records) /\ \A k \in DOMAIN broadcasts : broadcasts[k] \in Records
        /\ broadcasts[n].due = Audience(broadcasts[n].target)
        /\ broadcasts[n].visited \subseteq broadcasts[n].due
    BY DEF WalkInv, OnCourse
  <1>2. ~Resized(broadcasts[n])
    BY <1>1 DEF Resized
  <1>3. ASSUME NEW bs \in Seq(Records), NEW own, broadcasts' = Disturbing(bs, own),
               DOMAIN bs = DOMAIN broadcasts, bs[n].state = "sending"
        PROVE  FALSE
    <2>1. bs[n] \in Records
      BY <1>3
    <2>2. broadcasts'[n] = bs[n] \/ broadcasts'[n] = [bs[n] EXCEPT !.disturbed = TRUE]
      BY <1>3 DEF Disturbing
    <2>3. QED
      BY <1>3, <2>1, <2>2 DEF Records
  <1>4. CASE broadcasts' = Disturbing(broadcasts, {})
    BY <1>1, <1>3, <1>4
  <1>5. CASE UNCHANGED broadcasts
    BY <1>5
  <1>6. ASSUME NEW t \in Targets, StartBroadcast(t) PROVE FALSE
    BY <1>1, <1>6 DEF StartBroadcast
  <1>7. ASSUME NEW k \in DOMAIN broadcasts, NEW c \in Clients, Send(k, c) PROVE FALSE
    <2>1. broadcasts[k] \in Records
      BY <1>1
    <2>2. Tried(broadcasts[k], c).state = broadcasts[k].state
      BY <2>1 DEF Tried, Records
    <2>3. broadcasts' = [broadcasts EXCEPT ![k] = Tried(broadcasts[k], c)]
      BY <1>7 DEF Send
    <2>4. QED
      BY <1>1, <2>2, <2>3
  <1>8. ASSUME NEW k \in DOMAIN broadcasts, Raises(k) \/ Cancelled(k) PROVE FALSE
    <2>1. PICK how \in {"raised", "cancelled"} :
             /\ broadcasts' = [broadcasts EXCEPT ![k] = Over(broadcasts[k], how)]
             /\ how = "raised" => Resized(broadcasts[k])
      BY <1>8 DEF Raises, Cancelled
    <2>2. k = n
      BY <2>1, <1>1
    <2>3. broadcasts'[n].state = how
      BY <2>1, <2>2, <1>1, OverIsRecord
    <2>4. QED
      BY <2>1, <2>2, <2>3, <1>2
  <1>9. ASSUME NEW k \in DOMAIN broadcasts, Returns(k)
        PROVE  /\ broadcasts'[n].state = "returned"
               /\ broadcasts[n].visited = broadcasts[n].due
               /\ broadcasts[n].failed \cap active' = {}
    <2> DEFINE bs == [broadcasts EXCEPT ![k] = Over(broadcasts[k], "returned")]
    <2>1. bs \in Seq(Records) /\ DOMAIN bs = DOMAIN broadcasts
      BY <1>1, OverIsRecord
    <2>2. broadcasts' = Disturbing(bs, {k})
      BY <1>9 DEF Returns
    <2>3. k # n => bs[n].state = "sending"
      BY <1>1
    <2>4. bs[k].state = "returned"
      BY <1>1, OverIsRecord
    <2> HIDE DEF bs
    <2>5. k = n
      BY <2>1, <2>2, <2>3, <1>3
    <2>6. broadcasts'[n] = bs[n]
      BY <2>1, <2>2, <2>5 DEF Disturbing
    <2>7. Left(broadcasts[n]) = {} /\ active' = active \ broadcasts[n].failed
      BY <1>9, <2>5 DEF Returns, Disconnect
    <2>8. QED
      BY <2>4, <2>5, <2>6, <2>7, <1>1 DEF Left
  <1>10. QED
    BY <1>4, <1>5, <1>6, <1>7, <1>8, <1>9
       DEF ConnNext, ClientSteps, Connect, SocketBreaks, HandlerEnds, SubscribeTo,
           UnsubscribeFrom, CleanupInactive, Broadcasting, connVars

(* A broadcast that nobody disturbed never raises: it reaches its whole    *)
(* audience and drops whom it could not reach.                             *)
THEOREM BroadcastsAlwaysComplete == ConnSpec => BroadcastsComplete
  <1>1. ConnInit => WalkInv
    BY DEF ConnInit, WalkInv
  <1>2. ConnInv /\ WalkInv /\ [ConnNext]_connVars => ConnInv' /\ WalkInv'
    BY ConnNextInv, WalkNextInv
  <1>3. WalkInv /\ [ConnNext]_connVars => [\A n \in DOMAIN broadcasts : Completes(n)]_connVars
    BY EndingCompletes
  <1>4. QED
    BY ConnInitInv, <1>1, <1>2, <1>3, PTL DEF ConnSpec, BroadcastsComplete

LEMMA ConnTyped == ConnInv /\ WalkInv => ConnTypeOK
  BY DEF ConnInv, WalkInv, ConnTypeOK, Records
-----------------------------------------------------------------------------
(* The alerts. What the queue, the task and `settled` hold are three sets  *)
(* that share nothing, and each is a list or a domain without repetitions. *)
Kind == [critical : BOOLEAN, rule : BOOLEAN]

AlertsPlaced ==
  /\ alerts \in Seq(Kind)
  /\ queue \in Seq(DOMAIN alerts) /\ IsInjective(queue) /\ Len(queue) <= MaxQueue
  /\ task \in [alert : {0} \cup DOMAIN alerts, broadcast : Nat, next : Nat]
  /\ task.alert = 0 => task = Idle
  /\ task.alert # 0 /\ task.next = 0 => task.broadcast \in DOMAIN broadcasts
  /\ Range(queue) \cap InHand = {} /\ Range(queue) \cap DOMAIN settled = {}
  /\ InHand \cap DOMAIN settled = {}
  /\ Range(queue) \cup InHand \cup DOMAIN settled = DOMAIN alerts
  /\ resolved \subseteq DOMAIN alerts /\ recent \subseteq Rules

Made == {a \in DOMAIN alerts : ~alerts[a].rule}

(* The history is in the order of creation, and what create_alert made is *)
(* in it or has been pushed out by enough that came later.                 *)
HistoryInv ==
  /\ history \in Seq(Made) /\ Len(history) <= MaxPerSource
  /\ \A i, j \in DOMAIN history : i < j => history[i] < history[j]
  /\ \A b \in Made : b \in Range(history) \/ (Len(history) = MaxPerSource /\ b < history[1])

(* While nobody leaves, the listeners called are those before `next`.      *)
ListenersInv ==
  /\ listeners \in Seq(Listeners) /\ IsInjective(listeners)
  /\ task.next = 0 => told = Quiet
  /\ task.next > 0 /\ ~told.left =>
       task.next <= Len(listeners) + 1 /\ told.calls = SubSeq(listeners, 1, task.next - 1)

AlertInv == AlertsPlaced /\ HistoryInv /\ ListenersInv
-----------------------------------------------------------------------------
(* The two sorts of the queue are orders: no two alerts are equal in them. *)
LEMMA OldestExists ==
  ASSUME NEW all \in Seq(Kind), NEW S \in SUBSET DOMAIN all, S # {}
  PROVE  \E x \in S : \A y \in S \ {x} : Older(all, x, y)
<1> DEFINE R == {p \in S \X S : Older(all, p[2], p[1])}
<1>1. /\ DOMAIN all = 1..Len(all) /\ Len(all) \in Nat
      /\ \A x \in S : x \in Nat /\ all[x].critical \in BOOLEAN
  <2>1. DOMAIN all = 1..Len(all) /\ Len(all) \in Nat
    OBVIOUS
  <2>2. ASSUME NEW x \in S PROVE x \in Nat /\ all[x].critical \in BOOLEAN
    <3>1. x \in DOMAIN all
      OBVIOUS
    <3>2. x \in Nat /\ all[x] \in Kind
      BY <2>1, <3>1
    <3> QED
      BY <3>2 DEF Kind
  <2> QED
    BY <2>1, <2>2
<1>2. IsFiniteSet(S)
  <2>1. IsFiniteSet(1..Len(all)) /\ S \in SUBSET (1..Len(all))
    BY <1>1, FS_Interval
  <2> QED
    BY <2>1, FS_Subset
<1>3. \A x, y \in S : <<x, y>> \in R <=> Older(all, y, x)
  OBVIOUS
<1> HIDE DEF R
<1>4. Orders(R, S)
  <2>1. \A x, y \in S : x # y => Older(all, x, y) \/ Older(all, y, x)
    BY <1>1 DEF Older
  <2>2. \A x, y, z \in S : Older(all, y, x) /\ Older(all, z, y) => Older(all, z, x)
    BY <1>1 DEF Older
  <2> QED
    BY <1>3, <2>1, <2>2 DEF Orders
<1>5. PICK x \in S : \A y \in S \ {x} : <<y, x>> \in R
  BY <1>2, <1>4, LastElement
<1> QED
  BY <1>3, <1>5

LEMMA SortedIs ==
  ASSUME NEW all \in Seq(Kind), NEW S \in SUBSET DOMAIN all
  PROVE  /\ IsFiniteSet(S) /\ Sorted(S, all) \in Seq(S) /\ Len(Sorted(S, all)) = Cardinality(S)
         /\ Range(Sorted(S, all)) = S /\ IsInjective(Sorted(S, all))
<1> DEFINE R == {p \in S \X S : Before(all, p[1], p[2])}
<1>1. /\ DOMAIN all = 1..Len(all) /\ Len(all) \in Nat
      /\ \A x \in S : x \in Nat /\ all[x].critical \in BOOLEAN
  <2>1. DOMAIN all = 1..Len(all) /\ Len(all) \in Nat
    OBVIOUS
  <2>2. ASSUME NEW x \in S PROVE x \in Nat /\ all[x].critical \in BOOLEAN
    <3>1. x \in DOMAIN all
      OBVIOUS
    <3>2. x \in Nat /\ all[x] \in Kind
      BY <2>1, <3>1
    <3> QED
      BY <3>2 DEF Kind
  <2> QED
    BY <2>1, <2>2
<1>2. IsFiniteSet(S)
  <2>1. IsFiniteSet(1..Len(all)) /\ S \in SUBSET (1..Len(all))
    BY <1>1, FS_Interval
  <2> QED
    BY <2>1, FS_Subset
<1>3. \A x, y \in S : <<x, y>> \in R <=> Before(all, x, y)
  OBVIOUS
<1> HIDE DEF R
<1>4. Orders(R, S)
  <2>1. \A x, y \in S : x # y => Before(all, x, y) \/ Before(all, y, x)
    BY <1>1 DEF Before
  <2>2. \A x, y, z \in S : Before(all, x, y) /\ Before(all, y, z) => Before(all, x, z)
    BY <1>1 DEF Before
  <2> QED
    BY <1>3, <2>1, <2>2 DEF Orders
<1>5. PICK n \in Nat : n = Cardinality(S)
  BY <1>2, FS_CardinalityType
<1>6. PICK s \in [1..n -> S] : \A i, j \in 1..n : i < j => <<s[i], s[j]>> \in R
  BY <1>2, <1>4, <1>5, SortExists DEF Ascending
<1>7. \A i, j \in 1..n : i < j => Before(all, s[i], s[j])
  BY <1>3, <1>6
<1>8. PICK t : t = Sorted(S, all)
  OBVIOUS
<1>9. t \in [1..n -> S] /\ \A i, j \in 1..n : i < j => Before(all, t[i], t[j])
  BY <1>5, <1>6, <1>7, <1>8 DEF Sorted
<1>10. \A i, j \in 1..n : i < j => t[i] # t[j]
  <2>1. \A x \in S : ~ Before(all, x, x)
    BY <1>1 DEF Before
  <2> QED
    BY <1>9, <2>1
<1> QED
  BY <1>2, <1>5, <1>8, <1>9, <1>10, AllListed

(* What creating an alert does to the queue: it is in, one other may be out. *)
LEMMA EnqueueKeeps ==
  ASSUME AlertsPlaced, NEW x \in Kind, NEW a, a = Len(alerts) + 1, NEW all, all = Append(alerts, x),
         Enqueue(a, all), UNCHANGED <<task, broadcasts>>,
         resolved' \subseteq resolved, recent' \subseteq Rules
  PROVE  /\ AlertsPlaced' /\ DOMAIN alerts' = DOMAIN alerts \cup {a} /\ a \notin DOMAIN alerts
         /\ \A b \in DOMAIN alerts : alerts'[b] = alerts[b] /\ b < a
         /\ alerts'[a] = x
         /\ \A b \in Range(queue) \cap DOMAIN settled' : \A c \in Range(queue) \ {b} : Older(alerts, b, c)
<1> DEFINE full == Len(queue) >= MaxQueue
           gone == IF full THEN {Victim(all)} ELSE {}
<1>1. /\ alerts \in Seq(Kind) /\ DOMAIN alerts = 1..Len(alerts) /\ Len(alerts) \in Nat
      /\ queue \in Seq(DOMAIN alerts) /\ IsInjective(queue) /\ Len(queue) <= MaxQueue /\ Len(queue) \in Nat
      /\ MaxQueue \in Nat \ {0}
  BY AlertsAssumption DEF AlertsPlaced, Kind, AlertsAssumption
<1>2. /\ all \in Seq(Kind) /\ DOMAIN all = DOMAIN alerts \cup {a} /\ a \notin DOMAIN alerts
      /\ \A b \in DOMAIN alerts : all[b] = alerts[b] /\ b < a
      /\ all[a] = x
  <2>1. /\ Append(alerts, x) \in Seq(Kind) /\ DOMAIN Append(alerts, x) = 1..(Len(alerts) + 1)
        /\ \A i \in 1..Len(alerts) : Append(alerts, x)[i] = alerts[i]
        /\ Append(alerts, x)[Len(alerts) + 1] = x
    BY <1>1, Appended
  <2>2. /\ 1..(Len(alerts) + 1) = 1..Len(alerts) \cup {Len(alerts) + 1}
        /\ \A b \in 1..Len(alerts) : b < Len(alerts) + 1
    BY <1>1
  <2> QED
    BY <1>1, <2>1, <2>2
<1>3. IsFiniteSet(Range(queue)) /\ Cardinality(Range(queue)) = Len(queue) /\ Range(queue) \subseteq DOMAIN alerts
  <2>1. Range(queue) \subseteq DOMAIN alerts
    BY <1>1 DEF Range
  <2> QED
    BY <1>1, <2>1, RangeCounts
<1>4. ASSUME full PROVE /\ Victim(all) \in Range(queue)
                        /\ \A c \in Range(queue) \ {Victim(all)} : Older(all, Victim(all), c)
  <2>1. Range(queue) # {}
    <3>1. Len(queue) # 0
      BY <1>1, <1>4
    <3> QED
      BY <1>3, <3>1, FS_EmptySet
  <2>2. Range(queue) \in SUBSET DOMAIN all
    BY <1>2, <1>3
  <2>3. \E b \in Range(queue) : \A c \in Range(queue) \ {b} : Older(all, b, c)
    BY <1>2, <2>1, <2>2, OldestExists
  <2> QED
    BY <2>3 DEF Victim
<1>5. gone \subseteq Range(queue)
  BY <1>4
<1>6. PICK S : S = (Range(queue) \ gone) \cup {a}
  OBVIOUS
<1>7. S \in SUBSET DOMAIN all /\ a \in S
  BY <1>2, <1>3, <1>6
<1>8. /\ alerts' = all /\ queue' = Sorted(S, all)
      /\ settled' = [y \in DOMAIN settled \cup gone |-> IF y \in gone THEN "evicted" ELSE settled[y]]
  BY <1>6 DEF Enqueue
<1>9. /\ queue' \in Seq(S) /\ Len(queue') = Cardinality(S) /\ Range(queue') = S /\ IsInjective(queue')
  BY <1>2, <1>7, <1>8, SortedIs
<1>10. Len(queue') <= MaxQueue
  <2>1. CASE full
    <3>1. PICK v : v = Victim(all) /\ v \in Range(queue)
      BY <1>4, <2>1
    <3>2. S = (Range(queue) \ {v}) \cup {a} /\ a \notin Range(queue) \ {v}
      BY <1>2, <1>3, <1>6, <2>1, <3>1
    <3>3. IsFiniteSet(Range(queue) \ {v}) /\ Cardinality(Range(queue) \ {v}) = Len(queue) - 1
      BY <1>3, <3>1, FS_RemoveElement
    <3>4. Cardinality((Range(queue) \ {v}) \cup {a}) = Cardinality(Range(queue) \ {v}) + 1
      BY <3>2, <3>3, FS_AddElement
    <3> QED
      BY <1>1, <1>9, <3>2, <3>3, <3>4
  <2>2. CASE ~full
    <3>1. S = Range(queue) \cup {a} /\ a \notin Range(queue)
      BY <1>2, <1>3, <1>6, <2>2
    <3>2. Cardinality(Range(queue) \cup {a}) = Cardinality(Range(queue)) + 1
      BY <1>3, <3>1, FS_AddElement
    <3> QED
      BY <1>1, <1>3, <1>9, <2>2, <3>1, <3>2
  <2> QED
    BY <2>1, <2>2
<1> DEFINE dom == DOMAIN settled
<1>11. DOMAIN settled' = DOMAIN settled \cup gone
  BY <1>8
<1> HIDE DEF gone, full
<1>12. /\ task \in [alert : {0} \cup DOMAIN alerts, broadcast : Nat, next : Nat]
       /\ task.alert = 0 => task = Idle
       /\ (task.alert # 0 /\ task.next = 0) => task.broadcast \in DOMAIN broadcasts
       /\ Range(queue) \cap InHand = {} /\ Range(queue) \cap DOMAIN settled = {}
       /\ InHand \cap DOMAIN settled = {}
       /\ Range(queue) \cup InHand \cup DOMAIN settled = DOMAIN alerts
       /\ resolved \subseteq DOMAIN alerts /\ recent \subseteq Rules
  BY DEF AlertsPlaced
<1>13. InHand' = InHand
  BY DEF InHand
<1>14. /\ Range(queue') \cap InHand = {} /\ Range(queue') \cap DOMAIN settled' = {}
       /\ InHand \cap DOMAIN settled' = {}
       /\ Range(queue') \cup InHand \cup DOMAIN settled' = DOMAIN alerts'
  <2>1. Range(queue') = (Range(queue) \ gone) \cup {a} /\ DOMAIN alerts' = DOMAIN alerts \cup {a}
    BY <1>2, <1>6, <1>8, <1>9
  <2>2. InHand \subseteq DOMAIN alerts /\ DOMAIN settled \subseteq DOMAIN alerts /\ gone \subseteq DOMAIN alerts
    BY <1>3, <1>5, <1>12
  <2> QED
    BY <1>2, <1>5, <1>11, <1>12, <2>1, <2>2
<1>15. queue' \in Seq(DOMAIN alerts')
  BY <1>7, <1>8, <1>9, SeqMonotonic
<1>16. AlertsPlaced'
  <2>1. task' \in [alert : {0} \cup DOMAIN alerts', broadcast : Nat, next : Nat]
    BY <1>2, <1>8, <1>12
  <2>2. (task'.alert # 0 /\ task'.next = 0) => task'.broadcast \in DOMAIN broadcasts
    BY <1>12
  <2> QED
    BY <1>2, <1>8, <1>9, <1>10, <1>12, <1>13, <1>14, <1>15, <2>1, <2>2 DEF AlertsPlaced, Kind
<1>17. ASSUME NEW b \in Range(queue) \cap DOMAIN settled', NEW c \in Range(queue) \ {b} PROVE Older(alerts, b, c)
  <2>1. b \in gone
    BY <1>11, <1>12
  <2>2. full /\ b = Victim(all)
    BY <2>1 DEF gone
  <2>3. Older(all, b, c)
    BY <1>4, <2>2
  <2>4. all[b] = alerts[b] /\ all[c] = alerts[c]
    BY <1>2, <1>3
  <2> QED
    BY <2>3, <2>4 DEF Older
<1> QED
  BY <1>2, <1>8, <1>16, <1>17

(* What a step on the alerts alone may leave unchanged.                    *)
LEMMA HistoryStays ==
  ASSUME HistoryInv, alerts \in Seq(Kind), UNCHANGED history,
         NEW D, D = DOMAIN alerts' \ DOMAIN alerts, DOMAIN alerts \subseteq DOMAIN alerts',
         \A b \in DOMAIN alerts : alerts'[b] = alerts[b], \A b \in D : alerts'[b].rule
  PROVE  HistoryInv'
<1>1. Made' = Made
  BY DEF Made
<1> QED
  BY <1>1 DEF HistoryInv

LEMMA RememberKeeps ==
  ASSUME HistoryInv, NEW a, history' = Remembered(a), a \in Made', Made' = Made \cup {a}, a \in Nat,
         Made \subseteq Nat, \A b \in Made : b < a
  PROVE  HistoryInv'
<1>1. PICK h, k, n, M, N : h = history /\ k = history' /\ n = Len(history) /\ M = Made /\ N = Made'
  OBVIOUS
<1>2. /\ h \in Seq(M) /\ DOMAIN h = 1..n /\ n \in Nat /\ n <= MaxPerSource /\ M \subseteq Nat
      /\ \A i, j \in 1..n : i < j => h[i] < h[j]
      /\ \A b \in M : b \in Range(h) \/ (n = MaxPerSource /\ b < h[1])
      /\ MaxPerSource \in Nat \ {0} /\ N = M \cup {a} /\ a \in Nat /\ \A b \in M : b < a
      /\ k = IF n = MaxPerSource THEN Append(Tail(h), a) ELSE Append(h, a)
  BY <1>1, AlertsAssumption DEF HistoryInv, AlertsAssumption, Remembered
<1>3. h \in Seq(N)
  BY <1>2, SeqMonotonic
<1>4. CASE n = MaxPerSource
  <2>1. /\ Tail(h) \in Seq(N) /\ Len(Tail(h)) = n - 1 /\ \A i \in 1..(n - 1) : Tail(h)[i] = h[i + 1]
        /\ Range(h) = Range(Tail(h)) \cup {h[1]} /\ n # 0 /\ h[1] \in M
    <3>1. h # <<>>
      BY <1>1, <1>2, <1>4
    <3>2. n # 0 /\ h[1] \in M
      BY <1>2, <1>4
    <3> QED
      BY <1>1, <1>3, <3>1, <3>2, Shortened
  <2>2. PICK t : t = Tail(h)
    OBVIOUS
  <2>3. /\ k \in Seq(N) /\ Len(k) = n /\ DOMAIN k = 1..n
        /\ \A i \in 1..(n - 1) : k[i] = t[i]
        /\ k[n] = a /\ Range(k) = Range(t) \cup {a}
    <3>1. t \in Seq(N) /\ a \in N /\ Len(t) = n - 1 /\ (n - 1) + 1 = n
      BY <1>2, <2>1, <2>2
    <3>2. /\ Append(t, a) \in Seq(N) /\ Len(Append(t, a)) = Len(t) + 1
          /\ DOMAIN Append(t, a) = 1..(Len(t) + 1)
          /\ \A i \in 1..Len(t) : Append(t, a)[i] = t[i]
          /\ Append(t, a)[Len(t) + 1] = a
          /\ Range(Append(t, a)) = Range(t) \cup {a}
      BY <3>1, Appended
    <3> QED
      BY <1>2, <1>4, <2>2, <3>1, <3>2
  <2>4. \A i \in 1..(n - 1) : k[i] = h[i + 1] /\ h[i + 1] \in M /\ i + 1 \in 1..n
    <3>1. \A i \in 1..(n - 1) : i + 1 \in 1..n
      BY <1>2
    <3> QED
      BY <1>2, <2>1, <2>2, <2>3, <3>1
  <2>5. ASSUME NEW i \in 1..n, NEW j \in 1..n, i < j PROVE k[i] < k[j]
    <3>1. i \in 1..(n - 1)
      BY <1>2, <2>5
    <3>2. CASE j = n
      BY <1>2, <2>3, <2>4, <3>1, <3>2
    <3>3. CASE j # n
      <4>1. j \in 1..(n - 1) /\ i + 1 < j + 1
        BY <1>2, <2>5, <3>1, <3>3
      <4> QED
        BY <1>2, <2>4, <3>1, <4>1
    <3> QED
      BY <3>2, <3>3
  <2>6. ASSUME NEW b \in N PROVE b \in Range(k) \/ (n = MaxPerSource /\ b < k[1])
    <3>1. CASE b = a
      BY <2>3, <3>1
    <3>2. CASE b \in Range(t)
      BY <2>3, <3>2
    <3>3. CASE b \in M /\ b \notin Range(t)
      <4>0. b \in Nat /\ h[1] \in Nat
        BY <1>2, <2>1, <3>3
      <4>1. b = h[1] \/ b < h[1]
        BY <1>2, <2>1, <2>2, <3>3
      <4>2. CASE n = 1
        <5>1. k[1] = a /\ b < a
          BY <1>2, <2>3, <3>3, <4>2
        <5> QED
          BY <1>4, <5>1
      <4>3. CASE n # 1
        <5>1. 1 \in 1..(n - 1) /\ 1 < 1 + 1 /\ 1 \in 1..n /\ 1 + 1 \in 1..n
          BY <1>2, <2>1, <4>3
        <5>2. k[1] = h[1 + 1] /\ h[1] < h[1 + 1] /\ h[1 + 1] \in Nat
          BY <1>2, <2>4, <5>1
        <5>3. b < k[1]
          BY <4>0, <4>1, <5>2
        <5> QED
          BY <1>4, <5>3
      <4> QED
        BY <4>2, <4>3
    <3> QED
      BY <1>2, <3>1, <3>2, <3>3
  <2> QED
    BY <1>1, <1>2, <2>3, <2>5, <2>6 DEF HistoryInv
<1>5. CASE n # MaxPerSource
  <2>1. /\ k \in Seq(N) /\ Len(k) = n + 1 /\ DOMAIN k = 1..(n + 1)
        /\ \A i \in 1..n : k[i] = h[i] /\ h[i] \in M
        /\ k[n + 1] = a /\ Range(k) = Range(h) \cup {a}
    <3>1. a \in N /\ Len(h) = n
      BY <1>1, <1>2
    <3>2. /\ Append(h, a) \in Seq(N) /\ Len(Append(h, a)) = Len(h) + 1
          /\ DOMAIN Append(h, a) = 1..(Len(h) + 1)
          /\ \A i \in 1..Len(h) : Append(h, a)[i] = h[i]
          /\ Append(h, a)[Len(h) + 1] = a
          /\ Range(Append(h, a)) = Range(h) \cup {a}
      BY <1>3, <3>1, Appended
    <3> QED
      BY <1>2, <1>5, <3>1, <3>2
  <2>2. ASSUME NEW i \in 1..(n + 1), NEW j \in 1..(n + 1), i < j PROVE k[i] < k[j]
    <3>1. i \in 1..n /\ (j \in 1..n \/ j = n + 1)
      BY <1>2, <2>2
    <3> QED
      BY <1>2, <2>1, <2>2, <3>1
  <2>3. n + 1 <= MaxPerSource
    BY <1>2, <1>5
  <2>4. \A b \in N : b \in Range(k)
    BY <1>2, <1>5, <2>1
  <2> QED
    BY <1>1, <1>2, <2>1, <2>2, <2>3, <2>4 DEF HistoryInv
<1> QED
  BY <1>4, <1>5

LEMMA CreatedKeeps ==
  ASSUME AlertInv, UNCHANGED connVars,
         \E critical \in BOOLEAN : CreateAlert(critical) \/ \E r \in Rules : RuleFires(r, critical)
  PROVE  /\ AlertInv'
         /\ \A b \in Range(queue) \cap DOMAIN settled' : \A c \in Range(queue) \ {b} : Older(alerts, b, c)
<1>1. PICK a : a = Len(alerts) + 1
  OBVIOUS
<1>2. /\ AlertsPlaced /\ alerts \in Seq(Kind) /\ DOMAIN alerts = 1..Len(alerts) /\ Len(alerts) \in Nat
      /\ recent \subseteq Rules /\ HistoryInv /\ ListenersInv /\ UNCHANGED broadcasts
  BY DEF AlertInv, AlertsPlaced, connVars
<1>3. ASSUME NEW critical \in BOOLEAN, CreateAlert(critical)
      PROVE  /\ AlertInv'
             /\ \A b \in Range(queue) \cap DOMAIN settled' : \A c \in Range(queue) \ {b} : Older(alerts, b, c)
  <2>1. PICK x \in Kind : x = [critical |-> critical, rule |-> FALSE]
    BY DEF Kind
  <2>2. /\ Enqueue(a, Append(alerts, x)) /\ history' = Remembered(a) /\ resolved' \subseteq resolved
        /\ UNCHANGED <<task, recent, broadcasts, listeners, told>>
    BY <1>1, <1>2, <1>3, <2>1 DEF CreateAlert
  <2>a. recent' \subseteq Rules /\ resolved' \subseteq resolved
    BY <1>2, <2>2
  <2>3. /\ AlertsPlaced' /\ DOMAIN alerts' = DOMAIN alerts \cup {a} /\ a \notin DOMAIN alerts
        /\ \A b \in DOMAIN alerts : alerts'[b] = alerts[b] /\ b < a
        /\ alerts'[a] = x
        /\ \A b \in Range(queue) \cap DOMAIN settled' : \A c \in Range(queue) \ {b} : Older(alerts, b, c)
    BY <1>1, <1>2, <2>a, <2>2, EnqueueKeeps
  <2>4. ~ alerts'[a].rule
    BY <2>1, <2>3
  <2>5. Made' = Made \cup {a} /\ Made \subseteq DOMAIN alerts
    BY <2>3, <2>4 DEF Made
  <2>6. HistoryInv'
    <3>1. a \in Nat /\ Made \subseteq Nat /\ \A b \in Made : b < a
      BY <1>1, <1>2, <2>3, <2>5
    <3> QED
      BY <1>2, <2>2, <2>5, <3>1, RememberKeeps
  <2>7. ListenersInv'
    BY <1>2, <2>2 DEF ListenersInv
  <2> QED
    BY <2>3, <2>6, <2>7 DEF AlertInv
<1>4. ASSUME NEW r \in Rules, NEW critical \in BOOLEAN, RuleFires(r, critical)
      PROVE  /\ AlertInv'
             /\ \A b \in Range(queue) \cap DOMAIN settled' : \A c \in Range(queue) \ {b} : Older(alerts, b, c)
  <2>1. PICK x \in Kind : x = [critical |-> critical, rule |-> TRUE]
    BY DEF Kind
  <2>2. /\ Enqueue(a, Append(alerts, x)) /\ recent' = recent \cup {r}
        /\ UNCHANGED <<task, history, resolved, broadcasts, listeners, told>>
    BY <1>1, <1>2, <1>4, <2>1 DEF RuleFires
  <2>a. recent' \subseteq Rules /\ resolved' \subseteq resolved
    BY <1>2, <2>2
  <2>3. /\ AlertsPlaced' /\ DOMAIN alerts' = DOMAIN alerts \cup {a} /\ a \notin DOMAIN alerts
        /\ \A b \in DOMAIN alerts : alerts'[b] = alerts[b] /\ b < a
        /\ alerts'[a] = x
        /\ \A b \in Range(queue) \cap DOMAIN settled' : \A c \in Range(queue) \ {b} : Older(alerts, b, c)
    BY <1>1, <1>2, <2>a, <2>2, EnqueueKeeps
  <2>5. HistoryInv'
    <3>1. DOMAIN alerts' \ DOMAIN alerts = {a} /\ alerts'[a].rule
      BY <2>1, <2>3
    <3> QED
      BY <1>2, <2>2, <2>3, <3>1, HistoryStays
  <2>6. ListenersInv'
    BY <1>2, <2>2 DEF ListenersInv
  <2> QED
    BY <2>3, <2>5, <2>6 DEF AlertInv
<1> QED
  BY <1>3, <1>4

LEMMA OtherRequestsKeep ==
  ASSUME AlertInv, UNCHANGED connVars,
         \/ \E r \in Rules : ThrottleEnds(r)
         \/ \E a \in DOMAIN alerts : ResolveAlert(a)
         \/ \E l \in Listeners : SubscribeListener(l) \/ UnsubscribeListener(l)
  PROVE  AlertInv' /\ UNCHANGED settled
<1>1. /\ AlertsPlaced /\ HistoryInv /\ ListenersInv /\ UNCHANGED broadcasts
      /\ history \in Seq(Made) /\ Made \subseteq DOMAIN alerts
  BY DEF AlertInv, connVars, HistoryInv, Made
<1>2. ASSUME UNCHANGED <<alerts, queue, history, task, settled>>, resolved' \subseteq DOMAIN alerts, recent' \subseteq Rules
      PROVE  AlertsPlaced' /\ HistoryInv'
  BY <1>1, <1>2 DEF AlertsPlaced, HistoryInv, InHand, Made
<1>3. resolved \subseteq DOMAIN alerts /\ recent \subseteq Rules
  BY <1>1 DEF AlertsPlaced
<1>4. ASSUME NEW r \in Rules, ThrottleEnds(r) PROVE AlertInv' /\ UNCHANGED settled
  <2>1. /\ UNCHANGED <<alerts, queue, history, resolved, listeners, task, settled, told>>
        /\ recent' \subseteq Rules
    BY <1>3, <1>4 DEF ThrottleEnds
  <2> QED
    BY <1>1, <1>2, <1>3, <2>1 DEF AlertInv, ListenersInv
<1>5. ASSUME NEW a \in DOMAIN alerts, ResolveAlert(a) PROVE AlertInv' /\ UNCHANGED settled
  <2>1. /\ UNCHANGED <<alerts, queue, history, recent, listeners, task, settled, told>>
        /\ resolved' \subseteq DOMAIN alerts
    BY <1>3, <1>5 DEF ResolveAlert
  <2> QED
    BY <1>1, <1>2, <1>3, <2>1 DEF AlertInv, ListenersInv
<1>6. PICK s, n : s = listeners /\ n = task.next
  OBVIOUS
<1>7. /\ s \in Seq(Listeners) /\ IsInjective(s) /\ n \in Nat
      /\ n = 0 => told = Quiet
      /\ n > 0 /\ ~told.left => n <= Len(s) + 1 /\ told.calls = SubSeq(s, 1, n - 1)
  BY <1>1, <1>6 DEF AlertsPlaced, ListenersInv
<1>8. ASSUME NEW l \in Listeners, SubscribeListener(l) PROVE AlertInv' /\ UNCHANGED settled
  <2>1. /\ UNCHANGED <<alerts, queue, history, resolved, recent, task, settled, told>>
        /\ l \notin Range(s) /\ listeners' = Append(s, l)
    BY <1>6, <1>8 DEF SubscribeListener
  <2>2. Append(s, l) \in Seq(Listeners) /\ Len(Append(s, l)) = Len(s) + 1 /\ Len(s) \in Nat
    BY <1>7, Appended
  <2>3. IsInjective(Append(s, l))
    BY <1>7, <2>1, AppendedOnce
  <2>4. ASSUME n > 0, ~told.left
        PROVE  n <= Len(Append(s, l)) + 1 /\ told.calls = SubSeq(Append(s, l), 1, n - 1)
    <3>1. n - 1 \in 0..Len(s) /\ n <= (Len(s) + 1) + 1
      BY <1>7, <2>2, <2>4
    <3>2. SubSeq(Append(s, l), 1, n - 1) = SubSeq(s, 1, n - 1)
      BY <1>7, <3>1, Beginnings
    <3> QED
      BY <1>7, <2>2, <2>4, <3>1, <3>2
  <2>5. ListenersInv'
    BY <1>6, <1>7, <2>1, <2>2, <2>3, <2>4 DEF ListenersInv
  <2> QED
    BY <1>2, <1>3, <2>1, <2>5 DEF AlertInv
<1>9. ASSUME NEW l \in Listeners, UnsubscribeListener(l) PROVE AlertInv' /\ UNCHANGED settled
  <2>1. /\ UNCHANGED <<alerts, queue, history, resolved, recent, task, settled>>
        /\ l \in Range(s) /\ listeners' = WithoutListener(l)
        /\ told' = IF n > 0 THEN [calls |-> <<>>, left |-> TRUE] ELSE told
    BY <1>6, <1>9 DEF UnsubscribeListener
  <2>2. PICK k \in DOMAIN s : k = CHOOSE i \in DOMAIN s : s[i] = l
    BY <2>1 DEF Range
  <2>3. listeners' = Dropped(s, k)
    BY <1>6, <2>1, <2>2 DEF WithoutListener, RemoveAt, Dropped
  <2>4. Dropped(s, k) \in Seq(Listeners) /\ IsInjective(Dropped(s, k))
    BY <1>7, RemovedAt, RemovedOnce
  <2>5. (n = 0 => told' = Quiet) /\ (n > 0 => told'.left)
    BY <1>7, <2>1
  <2>6. ListenersInv'
    BY <1>6, <2>1, <2>3, <2>4, <2>5 DEF ListenersInv
  <2> QED
    BY <1>2, <1>3, <2>1, <2>6 DEF AlertInv
<1> QED
  BY <1>4, <1>5, <1>8, <1>9

(* The connections may gain broadcasts under the task.                     *)
LEMMA BroadcastsStay ==
  ASSUME WalkInv, [ConnNext]_connVars PROVE DOMAIN broadcasts \subseteq DOMAIN broadcasts'
<1>1. broadcasts \in Seq(Records)
  BY DEF WalkInv
<1>2. ASSUME NEW own, NEW bs, broadcasts' = Disturbing(bs, own) PROVE DOMAIN broadcasts' = DOMAIN bs
  BY <1>2 DEF Disturbing
<1>3. ASSUME NEW t \in Targets, StartBroadcast(t) PROVE DOMAIN broadcasts \subseteq DOMAIN broadcasts'
  <2>1. broadcasts' = Append(broadcasts, Broadcast(t))
    BY <1>3 DEF StartBroadcast
  <2> QED
    BY <1>1, <2>1
<1>4. ASSUME ClientSteps PROVE DOMAIN broadcasts \subseteq DOMAIN broadcasts'
  <2>1. broadcasts' = Disturbing(broadcasts, {}) \/ UNCHANGED broadcasts
    BY <1>4 DEF ClientSteps, Connect, SocketBreaks, HandlerEnds, SubscribeTo, UnsubscribeFrom, CleanupInactive
  <2> QED
    BY <1>2, <2>1
<1>5. ASSUME NEW n \in DOMAIN broadcasts, Broadcasting(n) \/ Cancelled(n)
      PROVE  DOMAIN broadcasts \subseteq DOMAIN broadcasts'
  <2>1. ASSUME NEW c \in Clients, Send(n, c) PROVE DOMAIN broadcasts \subseteq DOMAIN broadcasts'
    BY <2>1 DEF Send
  <2>2. CASE Raises(n) \/ Cancelled(n)
    BY <2>2 DEF Raises, Cancelled
  <2>3. CASE Returns(n)
    <3>1. PICK bs : bs = [broadcasts EXCEPT ![n] = Over(broadcasts[n], "returned")]
      OBVIOUS
    <3>2. broadcasts' = Disturbing(bs, {n}) /\ DOMAIN bs = DOMAIN broadcasts
      BY <2>3, <3>1 DEF Returns
    <3> QED
      BY <1>2, <3>2
  <2> QED
    BY <1>5, <2>1, <2>2, <2>3 DEF Broadcasting
<1> QED
  BY <1>3, <1>4, <1>5 DEF ConnNext, connVars

(* Every step on the alerts is one of the connections or leaves them alone. *)
LEMMA AlertsConnect ==
  ASSUME AlertsPlaced, AlertNext PROVE [ConnNext]_connVars
<1>1. AlertClients \subseteq Clients /\ Company \in Targets
  BY AlertsAssumption DEF AlertsAssumption, Targets
<1>2. CASE Requests /\ UNCHANGED connVars
  BY <1>2
<1>3. CASE StartService
  BY <1>3 DEF StartService
<1>4. CASE StopService
  <2>1. task = Idle \/ task # Idle
    OBVIOUS
  <2>2. UNCHANGED connVars \/ (task # Idle /\ task.next = 0 /\ Cancelled(task.broadcast))
    BY <1>4 DEF StopService
  <2>3. task # Idle /\ task.next = 0 => task.broadcast \in DOMAIN broadcasts
    BY DEF AlertsPlaced
  <2> QED
    BY <2>2, <2>3 DEF ConnNext
<1>5. CASE Processing
  <2>1. CASE Dequeue
    BY <1>1, <2>1 DEF Dequeue, ConnNext
  <2>2. CASE BroadcastDone \/ NextListener \/ ListenersDone
    BY <2>2 DEF BroadcastDone, NextListener, ListenersDone
  <2> QED
    BY <1>5, <2>1, <2>2 DEF Processing
<1>6. ASSUME NEW c \in AlertClients, Connect(c) \/ SocketBreaks(c) \/ HandlerEnds(c) PROVE ConnNext
  BY <1>1, <1>6 DEF ConnNext, ClientSteps
<1>7. ASSUME NEW n \in DOMAIN broadcasts, Broadcasting(n) PROVE ConnNext
  BY <1>7 DEF ConnNext
<1> QED
  BY <1>2, <1>3, <1>4, <1>5, <1>6, <1>7 DEF AlertNext

LEMMA BegunKeeps ==
  ASSUME AlertInv, WalkInv, Dequeue PROVE AlertInv' /\ UNCHANGED settled
<1>1. PICK q, a, n : q = queue /\ a = Head(queue) /\ n = Len(broadcasts) + 1
  OBVIOUS
<1>2. /\ AlertsPlaced /\ HistoryInv /\ ListenersInv /\ task = Idle
      /\ q \in Seq(DOMAIN alerts) /\ IsInjective(q) /\ q # <<>> /\ Len(q) <= MaxQueue
      /\ task' = [alert |-> a, broadcast |-> n, next |-> 0] /\ queue' = Tail(q)
      /\ UNCHANGED <<alerts, history, resolved, recent, listeners, settled, told>>
      /\ broadcasts' = Append(broadcasts, Broadcast(Company))
      /\ alerts \in Seq(Kind) /\ MaxQueue \in Nat
  BY <1>1, AlertsAssumption DEF AlertInv, AlertsPlaced, Dequeue, StartBroadcast, AlertsAssumption
<1>3. /\ Tail(q) \in Seq(DOMAIN alerts) /\ Len(Tail(q)) = Len(q) - 1 /\ Len(q) \in Nat \ {0}
      /\ a \in DOMAIN alerts /\ Range(q) = Range(Tail(q)) \cup {a}
      /\ IsInjective(Tail(q)) /\ a \notin Range(Tail(q))
  BY <1>1, <1>2, Shortened, TailOnce
<1>4. a # 0 /\ a \in Nat
  BY <1>2, <1>3
<1>5. InHand = {} /\ InHand' = {a}
  BY <1>2, <1>4 DEF InHand, Idle
<1>6. n \in DOMAIN broadcasts' /\ n \in Nat
  <2>1. broadcasts \in Seq(Records)
    BY DEF WalkInv
  <2> QED
    BY <1>1, <1>2, <2>1
<1>7. /\ Range(q) \cap DOMAIN settled = {} /\ Range(q) \cup DOMAIN settled = DOMAIN alerts
      /\ resolved \subseteq DOMAIN alerts /\ recent \subseteq Rules
  BY <1>1, <1>2, <1>5 DEF AlertsPlaced
<1>8. task' \in [alert : {0} \cup DOMAIN alerts, broadcast : Nat, next : Nat] /\ task'.alert = a
      /\ task'.broadcast = n /\ task'.next = 0
  BY <1>2, <1>3, <1>6
<1>9. Len(Tail(q)) <= MaxQueue
  BY <1>2, <1>3
<1>10. AlertsPlaced'
  BY <1>2, <1>3, <1>4, <1>5, <1>6, <1>7, <1>8, <1>9 DEF AlertsPlaced
<1>11. HistoryInv'
  BY <1>2 DEF HistoryInv, Made
<1>12. ListenersInv'
  BY <1>2, <1>8 DEF ListenersInv, Idle
<1> QED
  BY <1>2, <1>10, <1>11, <1>12 DEF AlertInv

(* The alert in hand is settled.                                           *)
LEMMA SettledKeeps ==
  ASSUME AlertInv, task.alert # 0, NEW how, Settle(how),
         UNCHANGED <<alerts, queue, history, resolved, recent, listeners>>
  PROVE  /\ AlertInv' /\ DOMAIN settled' \cap Range(queue) = {}
<1>1. /\ AlertsPlaced /\ HistoryInv /\ ListenersInv
      /\ DOMAIN settled' = DOMAIN settled \cup {task.alert} /\ task' = Idle /\ told' = Quiet
  BY DEF AlertInv, Settle
<1>2. InHand = {task.alert} /\ InHand' = {}
  BY <1>1 DEF InHand, Idle
<1>3. task' \in [alert : {0} \cup DOMAIN alerts, broadcast : Nat, next : Nat] /\ task'.alert = 0 /\ task'.next = 0
  BY <1>1 DEF Idle
<1>4. AlertsPlaced'
  BY <1>1, <1>2, <1>3 DEF AlertsPlaced
<1>5. HistoryInv'
  BY <1>1 DEF HistoryInv, Made
<1>6. ListenersInv'
  BY <1>1, <1>3 DEF ListenersInv
<1>7. DOMAIN settled' \cap Range(queue) = {}
  BY <1>1, <1>2 DEF AlertsPlaced
<1> QED
  BY <1>4, <1>5, <1>6, <1>7 DEF AlertInv

LEMMA ProcessingKeeps ==
  ASSUME AlertInv, WalkInv, StopService \/ Processing \/ StartService
  PROVE  AlertInv' /\ (UNCHANGED settled \/ DOMAIN settled' \cap Range(queue) = {})
<1>0. AlertsPlaced /\ HistoryInv /\ ListenersInv
  BY DEF AlertInv
<1>1. task # Idle => task.alert # 0
  BY <1>0 DEF AlertsPlaced
<1>2. ASSUME UNCHANGED <<alerts, queue, history, resolved, recent, listeners, task, settled, told>>,
             DOMAIN broadcasts' = DOMAIN broadcasts
      PROVE  AlertInv'
  BY <1>0, <1>2 DEF AlertInv, AlertsPlaced, HistoryInv, ListenersInv, InHand, Made
<1>3. CASE StartService
  BY <1>2, <1>3 DEF StartService, connVars
<1>4. CASE StopService
  <2>1. CASE task = Idle
    BY <1>2, <1>4, <2>1 DEF StopService, connVars
  <2>2. CASE task # Idle
    BY <1>1, <1>4, <2>2, SettledKeeps DEF StopService
  <2> QED
    BY <2>1, <2>2
<1>5. CASE Dequeue
  BY <1>5, BegunKeeps
<1>6. ASSUME UNCHANGED <<alerts, queue, history, resolved, recent, listeners, settled, broadcasts>>,
             task' = [task EXCEPT !.next = @ + 1], ListenersInv', task.alert # 0
      PROVE  AlertInv'
  <2>1. /\ task \in [alert : {0} \cup DOMAIN alerts, broadcast : Nat, next : Nat]
        /\ task'.alert = task.alert /\ task'.broadcast = task.broadcast /\ task'.next = task.next + 1
        /\ task' \in [alert : {0} \cup DOMAIN alerts, broadcast : Nat, next : Nat]
        /\ task.next \in Nat
    BY <1>0, <1>6 DEF AlertsPlaced
  <2>2. task'.next # 0 /\ InHand' = InHand
    BY <2>1 DEF InHand
  <2>3. AlertsPlaced'
    BY <1>0, <1>6, <2>1, <2>2 DEF AlertsPlaced
  <2>4. HistoryInv'
    BY <1>0, <1>6 DEF HistoryInv, Made
  <2> QED
    BY <1>6, <2>3, <2>4 DEF AlertInv
<1>7. PICK s, n : s = listeners /\ n = task.next
  OBVIOUS
<1>8. /\ s \in Seq(Listeners) /\ IsInjective(s) /\ n \in Nat /\ Len(s) \in Nat /\ DOMAIN s = 1..Len(s)
      /\ task \in [alert : {0} \cup DOMAIN alerts, broadcast : Nat, next : Nat]
      /\ n = 0 => told = Quiet
      /\ n > 0 /\ ~told.left => n <= Len(s) + 1 /\ told.calls = SubSeq(s, 1, n - 1)
  BY <1>0, <1>7 DEF AlertsPlaced, ListenersInv
<1>9. CASE BroadcastDone
  <2>1. CASE task' = [task EXCEPT !.next = 1] /\ UNCHANGED <<settled, told>>
    <3>1. n = 0 /\ task # Idle
      BY <1>7, <1>9 DEF BroadcastDone
    <3>2. task' = [task EXCEPT !.next = @ + 1] /\ task'.next = 1
      BY <1>7, <1>8, <2>1, <3>1
    <3>3. told = Quiet /\ SubSeq(s, 1, 1 - 1) = <<>> /\ 1 <= Len(s) + 1
      BY <1>8, <3>1, Beginnings
    <3>4. ListenersInv'
      BY <1>7, <1>8, <1>9, <2>1, <3>2, <3>3 DEF ListenersInv, BroadcastDone, Quiet
    <3> QED
      BY <1>1, <1>6, <1>9, <2>1, <3>1, <3>2, <3>4 DEF BroadcastDone, connVars
  <2>2. CASE Settle("lost")
    BY <1>1, <1>9, <2>2, SettledKeeps DEF BroadcastDone
  <2> QED
    BY <1>9, <2>1, <2>2 DEF BroadcastDone
<1>10. CASE NextListener
  <2>1. /\ n \in 1..Len(s) /\ task' = [task EXCEPT !.next = @ + 1]
        /\ told' = [told EXCEPT !.calls = IF told.left THEN @ ELSE Append(@, s[n])]
        /\ UNCHANGED <<alerts, queue, history, resolved, recent, listeners, settled, broadcasts>>
    BY <1>7, <1>8, <1>10 DEF NextListener, connVars
  <2>2. task.alert # 0
    <3>1. task # Idle
      BY <1>7, <2>1 DEF Idle
    <3> QED
      BY <1>1, <3>1
  <2>3. task'.next = n + 1
    BY <1>7, <1>8, <2>1
  <2>4. ASSUME ~told'.left PROVE n + 1 <= Len(s) + 1 /\ told'.calls = SubSeq(s, 1, (n + 1) - 1)
    <3>1. ~told.left /\ told'.calls = Append(told.calls, s[n])
      BY <2>1, <2>4, <1>8
    <3>2. told.calls = SubSeq(s, 1, n - 1)
      BY <1>8, <2>1, <3>1
    <3>3. \A k \in 1..Len(s) : Append(SubSeq(s, 1, k - 1), s[k]) = SubSeq(s, 1, k)
      BY <1>8, Beginnings
    <3> QED
      BY <1>8, <2>1, <3>1, <3>2, <3>3
  <2>5. ListenersInv'
    BY <1>7, <1>8, <2>1, <2>3, <2>4 DEF ListenersInv
  <2> QED
    BY <1>6, <2>1, <2>2, <2>5
<1>11. CASE ListenersDone
  BY <1>1, <1>11, SettledKeeps DEF ListenersDone
<1> QED
  BY <1>3, <1>4, <1>5, <1>9, <1>10, <1>11 DEF Processing

LEMMA AlertNextInv ==
  ASSUME AlertInv, WalkInv, [AlertNext]_pushVars
  PROVE  /\ AlertInv'
         /\ \A a \in Range(queue) \cap DOMAIN settled' : \A b \in Range(queue) \ {a} : Older(alerts, a, b)
<1>0. AlertsPlaced /\ HistoryInv /\ ListenersInv /\ Range(queue) \cap DOMAIN settled = {}
  BY DEF AlertInv, AlertsPlaced
<1>1. CASE Requests /\ UNCHANGED connVars
  BY <1>0, <1>1, CreatedKeeps, OtherRequestsKeep DEF Requests
<1>2. CASE StartService \/ StopService \/ Processing
  BY <1>0, <1>2, ProcessingKeeps
<1>3. CASE UNCHANGED alertVars /\ [ConnNext]_connVars
  <2>1. DOMAIN broadcasts \subseteq DOMAIN broadcasts'
    BY <1>3, BroadcastsStay
  <2>2. UNCHANGED <<alerts, queue, history, resolved, recent, listeners, task, settled, told>>
    BY <1>3 DEF alertVars
  <2>3. AlertsPlaced' /\ HistoryInv' /\ ListenersInv'
    BY <1>0, <2>1, <2>2 DEF AlertsPlaced, HistoryInv, ListenersInv, InHand, Made
  <2> QED
    BY <1>0, <2>2, <2>3 DEF AlertInv
<1>4. CASE AlertNext /\ UNCHANGED alertVars
  BY <1>0, <1>3, <1>4, AlertsConnect
<1>5. CASE UNCHANGED pushVars
  BY <1>3, <1>5 DEF pushVars
<1> QED
  BY <1>1, <1>2, <1>4, <1>5 DEF AlertNext

(* What a full queue gives up is the oldest of the least urgent.           *)
LEMMA UrgentKept ==
  ASSUME AlertInv, WalkInv, [AlertNext]_pushVars PROVE KeepsUrgent
<1>1. \A a \in Range(queue) \cap DOMAIN settled' : \A b \in Range(queue) \ {a} : Older(alerts, a, b)
  BY AlertNextInv
<1>2. \A a \in Range(queue) : alerts[a].critical \in BOOLEAN
  <2>1. ASSUME NEW a \in Range(queue) PROVE alerts[a].critical \in BOOLEAN
    <3>1. queue \in Seq(DOMAIN alerts) /\ alerts \in Seq(Kind)
      BY DEF AlertInv, AlertsPlaced
    <3>2. alerts[a] \in Kind
      BY <3>1 DEF Range
    <3> QED
      BY <3>2 DEF Kind
  <2> QED
    BY <2>1
<1> QED
  BY <1>1, <1>2 DEF KeepsUrgent, Older

LEMMA AlertsBegin == ConnInit /\ AlertInit => AlertInv
<1> SUFFICES ASSUME AlertInit PROVE AlertInv
  OBVIOUS
<1>1. /\ alerts = <<>> /\ queue = <<>> /\ history = <<>> /\ resolved = {} /\ recent = {} /\ listeners = <<>>
      /\ task = [alert |-> 0, broadcast |-> 0, next |-> 0] /\ settled = <<>> /\ told = Quiet
  BY DEF AlertInit, Idle
<1>2. MaxQueue \in Nat /\ MaxPerSource \in Nat
  BY AlertsAssumption DEF AlertsAssumption
<1>3. Range(<<>>) = {} /\ DOMAIN <<>> = {} /\ Len(<<>>) = 0 /\ IsInjective(<<>>)
  BY DEF Range, IsInjective
<1>4. InHand = {} /\ Made = {}
  BY <1>1, <1>3 DEF InHand, Made
<1>5. AlertsPlaced
  BY <1>1, <1>2, <1>3, <1>4 DEF AlertsPlaced, Idle
<1>6. HistoryInv
  BY <1>1, <1>2, <1>3, <1>4 DEF HistoryInv
<1>7. ListenersInv
  BY <1>1, <1>3 DEF ListenersInv
<1> QED
  BY <1>5, <1>6, <1>7 DEF AlertInv

LEMMA AlertsTyped == AlertInv => AlertTypeOK
<1> SUFFICES ASSUME AlertInv PROVE AlertTypeOK
  OBVIOUS
<1>1. history \in Seq(Made) /\ Made \subseteq DOMAIN alerts
  BY DEF AlertInv, HistoryInv, Made
<1>2. history \in Seq(DOMAIN alerts)
  BY <1>1, SeqMonotonic
<1> QED
  BY <1>2 DEF AlertInv, AlertsPlaced, ListenersInv, AlertTypeOK

LEMMA AlertsCounted == AlertInv => AlertsAccounted
<1> SUFFICES ASSUME AlertInv PROVE AlertsAccounted
  OBVIOUS
<1>0. AlertsPlaced /\ HistoryInv /\ ListenersInv
  BY DEF AlertInv
<1>1. Len(queue) + Cardinality(InHand) + Cardinality(DOMAIN settled) = Len(alerts)
  <2>1. PICK Q, H, E, D : Q = Range(queue) /\ H = InHand /\ E = DOMAIN settled /\ D = DOMAIN alerts
    OBVIOUS
  <2>2. /\ Q \cap H = {} /\ Q \cap E = {} /\ H \cap E = {} /\ D = Q \cup H \cup E
        /\ queue \in Seq(D) /\ IsInjective(queue) /\ alerts \in Seq(Kind)
    BY <1>0, <2>1 DEF AlertsPlaced
  <2>3. IsFiniteSet(D) /\ Cardinality(D) = Len(alerts) /\ Len(alerts) \in Nat
    <3>0. DOMAIN alerts = 1..Len(alerts) /\ Len(alerts) \in Nat
      BY <2>2, ListDomain
    <3>1. D = 1..Len(alerts) /\ Len(alerts) \in Nat
      BY <2>1, <3>0
    <3>2. IsFiniteSet(1..Len(alerts)) /\ Cardinality(1..Len(alerts)) = IF 1 > Len(alerts) THEN 0 ELSE Len(alerts) - 1 + 1
      BY <3>1, FS_Interval
    <3> QED
      BY <3>1, <3>2
  <2>4. IsFiniteSet(Q) /\ IsFiniteSet(H) /\ IsFiniteSet(E)
    BY <2>2, <2>3, FS_Subset
  <2>5. Cardinality(Q) = Len(queue)
    BY <2>1, <2>2, RangeCounts
  <2>6. /\ IsFiniteSet(Q \cup H)
        /\ Cardinality(Q \cup H) = Cardinality(Q) + Cardinality(H) - Cardinality(Q \cap H)
    BY <2>4, FS_Union
  <2>7. Cardinality((Q \cup H) \cup E) = Cardinality(Q \cup H) + Cardinality(E) - Cardinality((Q \cup H) \cap E)
    BY <2>4, <2>6, FS_Union
  <2>8. Q \cap H = {} /\ (Q \cup H) \cap E = {} /\ (Q \cup H) \cup E = D
    BY <2>2
  <2>9. Cardinality({}) = 0
    BY FS_EmptySet
  <2>10. Cardinality(Q) \in Nat /\ Cardinality(H) \in Nat /\ Cardinality(E) \in Nat
    BY <2>4, FS_CardinalityType
  <2>11. PICK q \in Nat, h \in Nat, e \in Nat : q = Cardinality(Q) /\ h = Cardinality(H) /\ e = Cardinality(E)
    BY <2>10
  <2>a. Cardinality(Q \cap H) = 0 /\ Cardinality((Q \cup H) \cap E) = 0 /\ Cardinality((Q \cup H) \cup E) = Cardinality(D)
    BY <2>8, <2>9, Zenon
  <2>12. Cardinality(Q \cup H) = q + h
    BY <2>6, <2>a, <2>11
  <2>13. Cardinality(D) = (q + h) + e
    BY <2>7, <2>a, <2>11, <2>12
  <2> QED
    BY <2>1, <2>3, <2>5, <2>11, <2>13
<1>2. Range(history) = {a \in Made : Cardinality({b \in Made : b > a}) < MaxPerSource}
  <2>1. PICK h, n, M, R : h = history /\ n = Len(history) /\ M = Made /\ R = Range(history)
    OBVIOUS
  <2>2. /\ h \in Seq(M) /\ DOMAIN h = 1..n /\ n \in Nat /\ n <= MaxPerSource
        /\ \A i, j \in 1..n : i < j => h[i] < h[j]
        /\ \A b \in M : b \in R \/ (n = MaxPerSource /\ b < h[1])
        /\ MaxPerSource \in Nat \ {0} /\ R = Range(h) /\ Len(h) = n
    BY <1>0, <2>1, AlertsAssumption DEF HistoryInv, AlertsAssumption
  <2>3. M \subseteq DOMAIN alerts /\ DOMAIN alerts = 1..Len(alerts) /\ Len(alerts) \in Nat
    <3>1. alerts \in Seq(Kind)
      BY <1>0 DEF AlertsPlaced
    <3>2. DOMAIN alerts = 1..Len(alerts) /\ Len(alerts) \in Nat
      BY <3>1, ListDomain
    <3> QED
      BY <2>1, <3>2 DEF Made
  <2>4. M \subseteq Nat /\ IsFiniteSet(M)
    <3>1. IsFiniteSet(1..Len(alerts)) /\ M \in SUBSET (1..Len(alerts))
      BY <2>3, FS_Interval
    <3> QED
      BY <2>3, <3>1, FS_Subset
  <2>5. \A i \in 1..n : h[i] \in M /\ h[i] \in Nat
    <3>1. \A i \in 1..n : h[i] \in M
      BY <2>2
    <3> QED
      BY <2>4, <3>1
  <2>6. IsInjective(h)
    <3>1. \A i, j \in 1..n : i = j \/ i < j \/ j < i
      BY <2>2
    <3> QED
      BY <2>2, <2>5, <3>1 DEF IsInjective
  <2>7. IsFiniteSet(R) /\ Cardinality(R) = n /\ R \subseteq M
    BY <2>2, <2>5, <2>6, RangeCounts DEF Range
  <2> DEFINE L(a) == {b \in M : b > a}
  <2>8. ASSUME NEW a \in R PROVE Cardinality(L(a)) < MaxPerSource
    <3>1. PICK i \in 1..n : a = h[i]
      BY <2>2, <2>8 DEF Range
    <3>2. ASSUME NEW b \in L(a) PROVE b \in R \ {a}
      <4>1. a \in Nat /\ b \in Nat /\ b > a /\ b # a
        BY <2>4, <2>5, <3>1
      <4>2. h[1] <= a
        <5>1. 1 \in 1..n /\ (i = 1 \/ 1 < i)
          BY <2>2, <3>1
        <5> QED
          BY <2>2, <2>5, <3>1, <5>1
      <4>3. h[1] \in Nat
        BY <2>2, <2>5, <3>1
      <4> QED
        BY <2>2, <4>1, <4>2, <4>3
    <3>3. IsFiniteSet(R \ {a}) /\ Cardinality(R \ {a}) = n - 1
      BY <2>7, <2>8, FS_RemoveElement
    <3>4. L(a) \subseteq R \ {a}
      BY <3>2
    <3>5. PICK c : c = L(a)
      OBVIOUS
    <3>6. Cardinality(c) <= Cardinality(R \ {a})
      BY <3>3, <3>4, <3>5, FS_Subset
    <3>7. Cardinality(c) \in Nat
      BY <3>3, <3>4, <3>5, FS_Subset, FS_CardinalityType
    <3> HIDE DEF L
    <3> QED
      BY <2>2, <3>3, <3>5, <3>6, <3>7
  <2>9. ASSUME NEW a \in M, a \notin R PROVE ~ (Cardinality(L(a)) < MaxPerSource)
    <3>1. n = MaxPerSource /\ a < h[1] /\ a \in Nat
      BY <2>2, <2>4, <2>9
    <3>2. \A i \in 1..n : h[i] > a
      <4>1. ASSUME NEW i \in 1..n PROVE h[i] > a
        <5>1. 1 \in 1..n /\ (i = 1 \/ 1 < i)
          BY <2>2
        <5>2. h[i] \in Nat /\ h[1] \in Nat /\ (i = 1 \/ h[1] < h[i])
          BY <2>2, <2>5, <5>1
        <5> QED
          BY <3>1, <5>2
      <4> QED
        BY <4>1
    <3>3. R \subseteq L(a)
      BY <2>2, <2>5, <3>2 DEF Range
    <3>4. IsFiniteSet(L(a))
      BY <2>4, FS_Subset
    <3>5. PICK c : c = L(a)
      OBVIOUS
    <3>6. Cardinality(R) <= Cardinality(c) /\ Cardinality(c) \in Nat
      BY <3>3, <3>4, <3>5, FS_Subset, FS_CardinalityType
    <3> HIDE DEF L
    <3> QED
      BY <2>2, <2>7, <3>1, <3>5, <3>6
  <2>10. R = {a \in M : Cardinality(L(a)) < MaxPerSource}
    <3> HIDE DEF L
    <3> QED
      BY <2>7, <2>8, <2>9
  <2> QED
    BY <2>1, <2>10
<1>3. task.next > Len(listeners) /\ ~told.left => told.calls = listeners
  <2>1. PICK s, n : s = listeners /\ n = task.next
    OBVIOUS
  <2>2. /\ s \in Seq(Listeners) /\ Len(s) \in Nat /\ n \in Nat
        /\ n > 0 /\ ~told.left => n <= Len(s) + 1 /\ told.calls = SubSeq(s, 1, n - 1)
    BY <1>0, <2>1 DEF AlertsPlaced, ListenersInv
  <2>3. ASSUME n > Len(s), ~told.left PROVE told.calls = s
    <3>1. n > 0 /\ n - 1 = Len(s)
      BY <2>2, <2>3
    <3> QED
      BY <2>2, <2>3, <3>1, Beginnings
  <2> QED
    BY <2>1, <2>3
<1> QED
  BY <1>0, <1>1, <1>2, <1>3 DEF AlertsAccounted, AlertsPlaced, Made
-----------------------------------------------------------------------------
(* The webhooks. A delivery is in one place; what a webhook counts are the *)
(* tries and the successes of its deliveries.                              *)
DeliveryOf(ws) == [webhook : ws, attempt : Nat \ {0}, success : BOOLEAN, completed : BOOLEAN]

PlaceNames == {"queued", "sending", "completed", "dropped"}

PlacedAt(d, p) ==
  /\ d \in Range(retryQueue) <=> p = "queued"
  /\ (Sending /\ d = worker.delivery) <=> p = "sending"
  /\ deliveries[d].completed <=> p = "completed"
  /\ d \in dropped <=> p = "dropped"

HooksPlaced ==
  /\ registered \in Nat /\ DOMAIN webhooks \subseteq 1..registered
  /\ deliveries \in Seq(DeliveryOf(1..registered))
  /\ retryQueue \in Seq(DOMAIN deliveries) /\ IsInjective(retryQueue)
  /\ records \in Seq(DOMAIN deliveries)
  /\ worker \in [delivery : {0} \cup DOMAIN deliveries, known : BOOLEAN, next : Nat]
  /\ worker.delivery = 0 => worker = AtRest
  /\ dropped \subseteq DOMAIN deliveries
  /\ hookListeners \in Seq(HookListeners)
  /\ \A d \in DOMAIN deliveries : \E p \in PlaceNames : PlacedAt(d, p)

TriesBounded ==
  \A d \in DOMAIN deliveries :
    /\ Tries(d) <= MaxAttempts
    /\ deliveries[d].completed <=> deliveries[d].success \/ Tries(d) = MaxAttempts

OwnOf(w)    == {d \in DOMAIN deliveries : deliveries[d].webhook = w}
TriesOf(w)  == [d \in OwnOf(w) |-> Tries(d)]
Received(w) == {d \in OwnOf(w) : deliveries[d].success}

CountsTrue ==
  /\ webhooks \in [DOMAIN webhooks -> [events : SUBSET EventTypes, active : BOOLEAN, successes : Nat, failures : Nat]]
  /\ \A w \in DOMAIN webhooks :
       /\ webhooks[w].successes + webhooks[w].failures = SumOf(OwnOf(w), TriesOf(w))
       /\ webhooks[w].successes = Cardinality(Received(w))

HooksInv == HooksPlaced /\ TriesBounded /\ CountsTrue

LEMMA WalkIs ==
  ASSUME NEW n \in Nat, NEW ws \in SUBSET (1..n)
  PROVE  /\ Walk(ws) \in Seq(ws) /\ DOMAIN Walk(ws) = 1..Len(Walk(ws)) /\ Len(Walk(ws)) \in Nat
         /\ IsInjective(Walk(ws))
<1> DEFINE R == {p \in ws \X ws : p[1] < p[2]}
<1>1. IsFiniteSet(ws)
  <2>1. IsFiniteSet(1..n)
    BY FS_Interval
  <2> QED
    BY <2>1, FS_Subset
<1>2. \A x, y \in ws : <<x, y>> \in R <=> x < y
  OBVIOUS
<1> HIDE DEF R
<1>3. Orders(R, ws)
  <2>1. \A x \in ws : x \in Nat
    OBVIOUS
  <2> QED
    BY <1>2, <2>1 DEF Orders
<1>4. PICK m \in Nat : m = Cardinality(ws)
  BY <1>1, FS_CardinalityType
<1>5. PICK s \in [1..m -> ws] : \A i, j \in 1..m : i < j => <<s[i], s[j]>> \in R
  BY <1>1, <1>3, <1>4, SortExists DEF Ascending
<1>6. \A i, j \in 1..m : i < j => s[i] < s[j]
  BY <1>2, <1>5
<1>7. PICK t : t = Walk(ws)
  OBVIOUS
<1>8. t \in [1..m -> ws] /\ \A i, j \in 1..m : i < j => t[i] < t[j]
  BY <1>4, <1>5, <1>6, <1>7 DEF Walk
<1>9. \A i, j \in 1..m : i < j => t[i] # t[j]
  <2>1. \A i \in 1..m : t[i] \in ws
    BY <1>8
  <2>2. \A x \in ws : x \in Nat
    OBVIOUS
  <2>3. \A x, y \in Nat : x < y => x # y
    OBVIOUS
  <2> QED
    BY <1>8, <2>1, <2>2, <2>3, Zenon
<1> QED
  BY <1>1, <1>4, <1>7, <1>8, <1>9, AllListed

LEMMA HookFacts ==
  ASSUME HooksInv
  PROVE  /\ DOMAIN deliveries = 1..Len(deliveries) /\ Len(deliveries) \in Nat /\ registered \in Nat
         /\ IsFiniteSet(DOMAIN deliveries)
         /\ \A d \in DOMAIN deliveries :
              /\ deliveries[d] \in DeliveryOf(1..registered) /\ deliveries[d].webhook \in 1..registered
              /\ deliveries[d].attempt \in Nat \ {0} /\ deliveries[d].success \in BOOLEAN
              /\ deliveries[d].completed \in BOOLEAN /\ Tries(d) \in Nat
         /\ \A w : /\ OwnOf(w) \subseteq DOMAIN deliveries /\ IsFiniteSet(OwnOf(w))
                   /\ IsFiniteSet(Received(w)) /\ TriesOf(w) \in [OwnOf(w) -> Int]
         /\ MaxAttempts \in Nat \ {0} /\ MaxRecords \in Nat
<1>1. deliveries \in Seq(DeliveryOf(1..registered)) /\ registered \in Nat
  BY DEF HooksInv, HooksPlaced
<1>2. DOMAIN deliveries = 1..Len(deliveries) /\ Len(deliveries) \in Nat
  BY <1>1, ListDomain
<1>3. IsFiniteSet(DOMAIN deliveries)
  BY <1>2, FS_Interval
<1>4. ASSUME NEW d \in DOMAIN deliveries
      PROVE  /\ deliveries[d] \in DeliveryOf(1..registered) /\ deliveries[d].webhook \in 1..registered
             /\ deliveries[d].attempt \in Nat \ {0} /\ deliveries[d].success \in BOOLEAN
             /\ deliveries[d].completed \in BOOLEAN /\ Tries(d) \in Nat
  <2>1. deliveries[d] \in DeliveryOf(1..registered)
    BY <1>1
  <2> QED
    BY <2>1 DEF DeliveryOf, Tries
<1>5. ASSUME NEW w
      PROVE  /\ OwnOf(w) \subseteq DOMAIN deliveries /\ IsFiniteSet(OwnOf(w))
             /\ IsFiniteSet(Received(w)) /\ TriesOf(w) \in [OwnOf(w) -> Int]
  <2>1. OwnOf(w) \subseteq DOMAIN deliveries /\ Received(w) \subseteq DOMAIN deliveries
    BY DEF OwnOf, Received
  <2>2. \A d \in OwnOf(w) : Tries(d) \in Int
    BY <1>4, <2>1
  <2> QED
    BY <1>3, <2>1, <2>2, FS_Subset DEF TriesOf
<1> QED
  BY <1>1, <1>2, <1>3, <1>4, <1>5, HooksAssumption DEF HooksAssumption

(* Steps that make no delivery and answer none.                            *)
LEMMA SameDeliveries ==
  ASSUME HooksInv, UNCHANGED deliveries
  PROVE  /\ TriesBounded'
         /\ \A w : OwnOf(w)' = OwnOf(w) /\ TriesOf(w)' = TriesOf(w) /\ Received(w)' = Received(w)
BY DEF HooksInv, TriesBounded, Tries, OwnOf, TriesOf, Received

LEMMA RegistrationKeeps ==
  ASSUME HooksInv,
         \/ \E es \in SUBSET EventTypes : RegisterWebhook(es)
         \/ \E w \in DOMAIN webhooks, es \in SUBSET EventTypes, on \in BOOLEAN : UpdateWebhook(w, es, on)
         \/ \E w \in DOMAIN webhooks : DeleteWebhook(w)
  PROVE  HooksInv'
<1> DEFINE Hooks == [events : SUBSET EventTypes, active : BOOLEAN, successes : Nat, failures : Nat]
<1>1. /\ webhooks \in [DOMAIN webhooks -> Hooks]
      /\ \A w \in DOMAIN webhooks :
           /\ webhooks[w].successes + webhooks[w].failures = SumOf(OwnOf(w), TriesOf(w))
           /\ webhooks[w].successes = Cardinality(Received(w))
      /\ HooksPlaced /\ registered \in Nat /\ DOMAIN webhooks \subseteq 1..registered
      /\ deliveries \in Seq(DeliveryOf(1..registered))
  BY DEF HooksInv, CountsTrue, HooksPlaced
<1>2. ASSUME UNCHANGED <<deliveries, retryQueue, records, hookListeners, worker, dropped>>,
             registered' \in Nat, registered <= registered', DOMAIN webhooks' \subseteq 1..registered'
      PROVE  HooksPlaced' /\ TriesBounded'
  <2>1. 1..registered \subseteq 1..registered'
    BY <1>1, <1>2
  <2>2. DeliveryOf(1..registered) \subseteq DeliveryOf(1..registered')
    BY <2>1 DEF DeliveryOf
  <2>3. deliveries' \in Seq(DeliveryOf(1..registered'))
    BY <1>1, <1>2, <2>2, SeqMonotonic
  <2>4. \A d \in DOMAIN deliveries : \E p \in PlaceNames : PlacedAt(d, p)'
    BY <1>1, <1>2 DEF HooksPlaced, PlacedAt, Sending
  <2>5. HooksPlaced'
    BY <1>1, <1>2, <2>3, <2>4 DEF HooksPlaced
  <2> QED
    BY <1>2, <2>5, SameDeliveries
<1>3. ASSUME UNCHANGED deliveries, webhooks' \in [DOMAIN webhooks' -> Hooks],
             \A w \in DOMAIN webhooks' :
               \/ /\ w \in DOMAIN webhooks /\ webhooks'[w].successes = webhooks[w].successes
                  /\ webhooks'[w].failures = webhooks[w].failures
               \/ OwnOf(w) = {} /\ webhooks'[w].successes = 0 /\ webhooks'[w].failures = 0
      PROVE  CountsTrue'
  <2>1. \A w : OwnOf(w)' = OwnOf(w) /\ TriesOf(w)' = TriesOf(w) /\ Received(w)' = Received(w)
    BY <1>3, SameDeliveries
  <2>2. ASSUME NEW w \in DOMAIN webhooks'
        PROVE  /\ webhooks'[w].successes + webhooks'[w].failures = SumOf(OwnOf(w), TriesOf(w))
               /\ webhooks'[w].successes = Cardinality(Received(w))
    <3>1. CASE w \in DOMAIN webhooks /\ webhooks'[w].successes = webhooks[w].successes
               /\ webhooks'[w].failures = webhooks[w].failures
      BY <1>1, <3>1
    <3>2. CASE OwnOf(w) = {} /\ webhooks'[w].successes = 0 /\ webhooks'[w].failures = 0
      <4>1. Received(w) = {}
        BY <3>2 DEF Received
      <4>2. SumOf({}, TriesOf(w)) = 0 /\ Cardinality({}) = 0
        BY EmptySum, FS_EmptySet
      <4>3. SumOf(OwnOf(w), TriesOf(w)) = 0 /\ Cardinality(Received(w)) = 0
        BY <3>2, <4>1, <4>2, Zenon
      <4> QED
        BY <3>2, <4>3
    <3> QED
      BY <1>3, <3>1, <3>2
  <2>3. \A w \in DOMAIN webhooks' :
          /\ webhooks'[w].successes + webhooks'[w].failures = SumOf(OwnOf(w)', TriesOf(w)')
          /\ webhooks'[w].successes = Cardinality(Received(w)')
    BY <2>1, <2>2
  <2> QED
    BY <1>3, <2>3 DEF CountsTrue
<1>4. ASSUME NEW es \in SUBSET EventTypes, RegisterWebhook(es) PROVE HooksInv'
  <2>1. /\ registered' = registered + 1
        /\ webhooks' = [w \in DOMAIN webhooks \cup {registered + 1} |->
                    IF w \in DOMAIN webhooks THEN webhooks[w]
                    ELSE [events |-> es, active |-> TRUE, successes |-> 0, failures |-> 0]]
        /\ UNCHANGED <<deliveries, retryQueue, records, hookListeners, worker, dropped>>
    BY <1>4 DEF RegisterWebhook
  <2>2. DOMAIN webhooks' \subseteq 1..registered' /\ registered' \in Nat /\ registered <= registered'
    BY <1>1, <2>1
  <2>3. OwnOf(registered + 1) = {}
    <3>1. ASSUME NEW d \in OwnOf(registered + 1) PROVE FALSE
      <4>1. deliveries[d].webhook \in 1..registered /\ deliveries[d].webhook = registered + 1
        BY HookFacts DEF OwnOf
      <4> QED
        BY <1>1, <4>1
    <3> QED
      BY <3>1
  <2>4. webhooks' \in [DOMAIN webhooks' -> Hooks]
    BY <1>1, <2>1
  <2>5. \A w \in DOMAIN webhooks' :
          \/ w \in DOMAIN webhooks /\ webhooks'[w] = webhooks[w]
          \/ w = registered + 1 /\ webhooks'[w] = [events |-> es, active |-> TRUE, successes |-> 0, failures |-> 0]
    BY <2>1
  <2> HIDE DEF Hooks
  <2> QED
    BY <1>2, <1>3, <2>1, <2>2, <2>3, <2>4, <2>5 DEF HooksInv
<1>5. ASSUME NEW w \in DOMAIN webhooks, NEW es \in SUBSET EventTypes, NEW on \in BOOLEAN, UpdateWebhook(w, es, on)
      PROVE  HooksInv'
  <2>1. /\ webhooks' = [webhooks EXCEPT ![w].events = IF es = {} THEN @ ELSE es, ![w].active = on]
        /\ UNCHANGED <<registered, deliveries, retryQueue, records, hookListeners, worker, dropped>>
    BY <1>5 DEF UpdateWebhook
  <2> DEFINE New == [webhooks[w] EXCEPT !.events = IF es = {} THEN @ ELSE es, !.active = on]
  <2>0. webhooks' = [webhooks EXCEPT ![w] = New]
    BY <1>1, <2>1
  <2>5. New \in Hooks /\ New.successes = webhooks[w].successes /\ New.failures = webhooks[w].failures
    BY <1>1
  <2> HIDE DEF New, Hooks
  <2>2. webhooks' \in [DOMAIN webhooks -> Hooks]
    BY <1>1, <2>0, <2>5
  <2>3. \A v \in DOMAIN webhooks : /\ webhooks'[v].successes = webhooks[v].successes
                                   /\ webhooks'[v].failures = webhooks[v].failures
    BY <1>1, <2>0, <2>5
  <2>4. DOMAIN webhooks' = DOMAIN webhooks
    BY <2>2
  <2>6. registered <= registered' /\ registered' \in Nat /\ DOMAIN webhooks' \subseteq 1..registered'
    <3>1. registered' = registered
      BY <2>1
    <3>2. registered <= registered
      BY <1>1
    <3> QED
      BY <1>1, <2>4, <3>1, <3>2, Zenon
  <2> QED
    BY <1>1, <1>2, <1>3, <2>1, <2>2, <2>3, <2>4, <2>6, ZenonT(60) DEF HooksInv
<1>6. ASSUME NEW w \in DOMAIN webhooks, DeleteWebhook(w) PROVE HooksInv'
  <2>1. /\ webhooks' = [v \in DOMAIN webhooks \ {w} |-> webhooks[v]]
        /\ UNCHANGED <<registered, deliveries, retryQueue, records, hookListeners, worker, dropped>>
    BY <1>6 DEF DeleteWebhook
  <2>2. webhooks' \in [DOMAIN webhooks' -> Hooks] /\ DOMAIN webhooks' \subseteq DOMAIN webhooks
    BY <1>1, <2>1
  <2>3. \A v \in DOMAIN webhooks' : v \in DOMAIN webhooks /\ webhooks'[v] = webhooks[v]
    BY <2>1
  <2>4. registered <= registered
    BY <1>1
  <2> HIDE DEF Hooks
  <2> QED
    BY <1>1, <1>2, <1>3, <2>1, <2>2, <2>3, <2>4 DEF HooksInv
<1> QED
  BY <1>4, <1>5, <1>6

LEMMA TriggerKeeps ==
  ASSUME HooksInv, NEW e \in EventTypes, TriggerEvent(e)
  PROVE  HooksInv'
<1>1. PICK D, T, Q, due, N, n, ids :
        /\ D = deliveries /\ Q = retryQueue /\ due = Walk(Concerned(e)) /\ N = Len(deliveries) /\ n = Len(due)
        /\ T = [i \in DOMAIN due |-> [webhook |-> due[i], attempt |-> 1, success |-> FALSE, completed |-> FALSE]]
        /\ ids = [i \in DOMAIN due |-> N + i]
  OBVIOUS
<1>2. /\ deliveries' = D \o T /\ retryQueue' = Q \o ids
      /\ UNCHANGED <<registered, webhooks, records, hookListeners, hookRunning, worker, dropped>>
  BY <1>1 DEF TriggerEvent
<1>3. /\ D \in Seq(DeliveryOf(1..registered)) /\ N \in Nat /\ DOMAIN D = 1..N /\ Len(D) = N /\ registered \in Nat
      /\ Q \in Seq(1..N) /\ IsInjective(Q) /\ records \in Seq(1..N)
      /\ worker \in [delivery : {0} \cup 1..N, known : BOOLEAN, next : Nat]
      /\ dropped \subseteq 1..N /\ DOMAIN webhooks \subseteq 1..registered
  BY <1>1, HookFacts DEF HooksInv, HooksPlaced
<1>4. due \in Seq(1..registered) /\ DOMAIN due = 1..n /\ n \in Nat /\ \A i \in 1..n : due[i] \in 1..registered
  <2>1. Concerned(e) \subseteq 1..registered
    BY <1>3 DEF Concerned
  <2>2. due \in Seq(Concerned(e)) /\ DOMAIN due = 1..n /\ n \in Nat
    BY <1>1, <1>3, <2>1, WalkIs
  <2>3. \A i \in DOMAIN due : due[i] \in Concerned(e)
    BY <2>2
  <2> QED
    BY <2>1, <2>2, <2>3, SeqMonotonic
<1>5. T \in Seq(DeliveryOf(1..registered)) /\ DOMAIN T = 1..n /\ Len(T) = n
  <2>1. \A i \in DOMAIN due : [webhook |-> due[i], attempt |-> 1, success |-> FALSE, completed |-> FALSE]
                                \in DeliveryOf(1..registered)
    BY <1>4 DEF DeliveryOf
  <2>2. T \in [1..n -> DeliveryOf(1..registered)]
    BY <1>1, <1>4, <2>1
  <2>3. \A S : [1..n -> S] \subseteq Seq(S)
    BY <1>4
  <2> QED
    BY <1>4, <2>2, <2>3
<1>6. \A i \in 1..n : /\ T[i].attempt = 1 /\ T[i].success = FALSE /\ T[i].completed = FALSE
                      /\ T[i].webhook \in 1..registered
  <2>1. \A i \in 1..n : T[i] = [webhook |-> due[i], attempt |-> 1, success |-> FALSE, completed |-> FALSE]
    BY <1>1, <1>4
  <2>2. \A i \in 1..n : /\ T[i].attempt = 1 /\ T[i].success = FALSE /\ T[i].completed = FALSE
                        /\ T[i].webhook = due[i]
    <3>1. ASSUME NEW i \in 1..n
          PROVE  /\ T[i].attempt = 1 /\ T[i].success = FALSE /\ T[i].completed = FALSE /\ T[i].webhook = due[i]
      <4>1. PICK t : t = T[i]
        OBVIOUS
      <4>2. t = [webhook |-> due[i], attempt |-> 1, success |-> FALSE, completed |-> FALSE]
        BY <2>1, <4>1
      <4> QED
        BY <4>1, <4>2
    <3> QED
      BY <3>1
  <2> QED
    BY <1>4, <2>2, Zenon
<1>7. /\ ids \in Seq(1..(N + n)) /\ DOMAIN ids = 1..n /\ IsInjective(ids) /\ Len(ids) = n
      /\ \A i \in 1..n : ids[i] = N + i
  <2>1. \A i \in 1..n : ids[i] = N + i /\ N + i \in 1..(N + n)
    BY <1>1, <1>3, <1>4
  <2>2. ids \in [1..n -> 1..(N + n)]
    BY <1>1, <1>4, <2>1
  <2>3. \A S : [1..n -> S] \subseteq Seq(S)
    BY <1>4
  <2>4. DOMAIN ids = 1..n
    BY <2>2
  <2>5. \A i, j \in 1..n : N + i = N + j => i = j
    BY <1>3, <1>4
  <2>6. IsInjective(ids)
    BY <2>1, <2>4, <2>5 DEF IsInjective
  <2> QED
    BY <1>4, <2>1, <2>2, <2>3, <2>6
<1>8. PICK E, P : E = deliveries' /\ P = retryQueue'
  OBVIOUS
<1>9. /\ E \in Seq(DeliveryOf(1..registered)) /\ DOMAIN E = 1..(N + n) /\ Len(E) = N + n
      /\ \A d \in 1..N : E[d] = D[d]
      /\ \A i \in 1..n : E[N + i] = T[i]
  <2>1. E = D \o T
    BY <1>2, <1>8
  <2>2. /\ D \o T \in Seq(DeliveryOf(1..registered)) /\ Len(D \o T) = Len(D) + Len(T)
        /\ DOMAIN (D \o T) = 1..(Len(D) + Len(T))
        /\ \A i \in 1..Len(D) : (D \o T)[i] = D[i]
        /\ \A i \in 1..Len(T) : (D \o T)[Len(D) + i] = T[i]
    <3>1. PICK S : S = DeliveryOf(1..registered)
      OBVIOUS
    <3>2. D \in Seq(S) /\ T \in Seq(S)
      BY <1>3, <1>5, <3>1
    <3> QED
      BY <3>1, <3>2, Joined
  <2>3. Len(D) = N /\ Len(T) = n
    BY <1>3, <1>5
  <2> QED
    BY <2>1, <2>2, <2>3, Zenon
<1>10. 1..N \subseteq 1..(N + n)
  BY <1>3, <1>4
<1>11. Q \in Seq(1..(N + n)) /\ records \in Seq(1..(N + n))
  BY <1>3, <1>10, SeqMonotonic
<1>12. \A i \in 1..n : N + i \notin 1..N
  BY <1>3, <1>4
<1>13. Range(Q) \subseteq 1..N /\ Range(ids) = {N + i : i \in 1..n}
  <2>1. \A i \in DOMAIN Q : Q[i] \in 1..N
    BY <1>3
  <2>2. Range(Q) \subseteq 1..N
    BY <2>1, Zenon DEF Range
  <2>3. \A x \in Range(ids) : \E i \in 1..n : x = ids[i]
    BY <1>7, Zenon DEF Range
  <2>4. \A i \in 1..n : ids[i] \in Range(ids)
    BY <1>7, Zenon DEF Range
  <2> QED
    BY <1>7, <2>2, <2>3, <2>4
<1>14. P \in Seq(1..(N + n)) /\ IsInjective(P) /\ Range(P) = Range(Q) \cup {N + i : i \in 1..n}
  <2>1. Range(Q) \cap Range(ids) = {}
    BY <1>12, <1>13
  <2> QED
    <3>1. P = Q \o ids
      BY <1>2, <1>8
    <3>2. Q \o ids \in Seq(1..(N + n)) /\ Range(Q \o ids) = Range(Q) \cup Range(ids)
      BY <1>7, <1>11, Joined
    <3>3. IsInjective(Q \o ids)
      BY <1>3, <1>7, <1>11, <2>1, JoinedOnce
    <3> QED
      BY <1>13, <3>1, <3>2, <3>3
<1>15. \A d \in 1..(N + n) : d \in 1..N \/ \E i \in 1..n : d = N + i
  <2>1. \A d \in 1..(N + n) : d \notin 1..N => d - N \in 1..n /\ d = N + (d - N)
    BY <1>3, <1>4
  <2> QED
    BY <2>1
<1>16. HooksPlaced'
  <2>1. ASSUME NEW d \in 1..(N + n) PROVE \E p \in PlaceNames : PlacedAt(d, p)'
    <3>1. CASE d \in 1..N
      <4>1. PICK p \in PlaceNames : PlacedAt(d, p)
        BY <1>1, <1>3, <3>1 DEF HooksInv, HooksPlaced
      <4>2. d \in Range(P) <=> d \in Range(Q)
        BY <1>12, <1>14, <3>1
      <4>3. PlacedAt(d, p)'
        BY <1>1, <1>2, <1>8, <1>9, <3>1, <4>1, <4>2 DEF PlacedAt, Sending
      <4> QED
        BY <4>3
    <3>2. CASE \E i \in 1..n : d = N + i
      <4>1. PICK i \in 1..n : d = N + i
        BY <3>2
      <4>2. d \notin 1..N /\ d \in Range(P) /\ d # 0
        BY <1>3, <1>12, <1>14, <4>1
      <4>3. E[d].completed = FALSE
        BY <1>6, <1>9, <4>1
      <4>4. worker.delivery # d /\ d \notin dropped
        BY <1>3, <4>2
      <4>5. PlacedAt(d, "queued")'
        BY <1>2, <1>8, <4>2, <4>3, <4>4 DEF PlacedAt, Sending
      <4> QED
        BY <4>5 DEF PlaceNames
    <3> QED
      BY <1>15, <3>1, <3>2
  <2>2. dropped \subseteq 1..(N + n) /\ worker \in [delivery : {0} \cup 1..(N + n), known : BOOLEAN, next : Nat]
    BY <1>3, <1>10
  <2> QED
    BY <1>2, <1>3, <1>8, <1>9, <1>11, <1>14, <2>1, <2>2 DEF HooksInv, HooksPlaced
<1>17. \A d \in 1..N : Tries(d)' = Tries(d) /\ E[d] = deliveries[d]
  BY <1>1, <1>8, <1>9 DEF Tries
<1>18. \A i \in 1..n : Tries(N + i)' = 0
  BY <1>6, <1>8, <1>9 DEF Tries
<1>19. TriesBounded'
  <2>1. \A d \in 1..N : /\ Tries(d) <= MaxAttempts
                        /\ deliveries[d].completed <=> deliveries[d].success \/ Tries(d) = MaxAttempts
    BY <1>1, <1>3 DEF HooksInv, TriesBounded
  <2>2. \A i \in 1..n : Tries(N + i)' <= MaxAttempts /\ Tries(N + i)' # MaxAttempts
    BY <1>18, HookFacts
  <2>3. \A i \in 1..n : E[N + i].completed = FALSE /\ E[N + i].success = FALSE
    BY <1>6, <1>9
  <2>4. \A d \in 1..(N + n) : /\ Tries(d)' <= MaxAttempts
                              /\ E[d].completed <=> E[d].success \/ Tries(d)' = MaxAttempts
    BY <1>15, <1>17, <2>1, <2>2, <2>3
  <2> QED
    BY <1>8, <1>9, <2>4 DEF TriesBounded
<1>20. ASSUME NEW w
       PROVE  SumOf(OwnOf(w)', TriesOf(w)') = SumOf(OwnOf(w), TriesOf(w)) /\ Received(w)' = Received(w)
  <2>1. PICK old, new, f, g : old = OwnOf(w) /\ new = OwnOf(w)' /\ f = TriesOf(w) /\ g = TriesOf(w)'
    OBVIOUS
  <2>2. new = {d \in 1..(N + n) : E[d].webhook = w} /\ old = {d \in 1..N : D[d].webhook = w}
    BY <1>1, <1>3, <1>8, <1>9, <2>1 DEF OwnOf
  <2>3. old \subseteq new /\ new \subseteq 1..(N + n) /\ \A d \in new : d \in old \/ \E i \in 1..n : d = N + i
    BY <1>9, <1>10, <1>15, <2>2
  <2>4. IsFiniteSet(new)
    <3>1. IsFiniteSet(1..(N + n))
      BY <1>3, <1>4, FS_Interval
    <3> QED
      BY <2>3, <3>1, FS_Subset
  <2>5. f = [d \in old |-> Tries(d)] /\ g = [d \in new |-> Tries(d)']
    BY <2>1 DEF TriesOf
  <2>6. \A d \in old : Tries(d) \in Int /\ Tries(d)' = Tries(d) /\ d \in 1..N
    <3>1. \A d \in old : d \in 1..N
      BY <2>2
    <3>2. \A d \in 1..N : Tries(d) \in Int
      <4>1. \A d \in DOMAIN deliveries : Tries(d) \in Nat
        BY HookFacts
      <4>2. DOMAIN deliveries = 1..N
        BY <1>1, <1>3
      <4>3. \A x \in Nat : x \in Int
        OBVIOUS
      <4> QED
        BY <4>1, <4>2, <4>3, Zenon
    <3> QED
      BY <1>17, <3>1, <3>2
  <2>7. \A d \in new : d \notin old => Tries(d)' = 0
    BY <1>18, <2>3
  <2>8. f \in [old -> Int] /\ g \in [new -> Int] /\ (\A d \in old : f[d] = g[d]) /\ \A d \in new \ old : g[d] = 0
    BY <2>3, <2>5, <2>6, <2>7
  <2>9. SumOf(new, g) = SumOf(old, f)
    <3>1. old \in SUBSET new
      BY <2>3
    <3> QED
      BY <2>4, <2>8, <3>1, SumWithZeros
  <2>10. {d \in new : E[d].success} = {d \in old : D[d].success}
    <3>1. \A d \in old : E[d] = D[d]
      BY <1>1, <1>17, <2>6
    <3>2. \A d \in new : d \notin old => E[d].success = FALSE
      BY <1>6, <1>9, <2>3
    <3> QED
      BY <2>3, <3>1, <3>2
  <2> QED
    BY <1>1, <1>8, <2>1, <2>9, <2>10 DEF Received
<1>21. CountsTrue'
  BY <1>2, <1>20 DEF HooksInv, CountsTrue
<1> QED
  BY <1>16, <1>19, <1>21 DEF HooksInv

(* What the worker does between two answers, and the listeners.            *)
LEMMA WorkerKeeps ==
  ASSUME HooksInv,
         \/ \E l \in HookListeners : HookSubscribe(l) \/ HookUnsubscribe(l)
         \/ StartWorker \/ StopWorker \/ TakeDelivery \/ NotifyListener \/ DeliveryDone
  PROVE  HooksInv'
<1>1. UNCHANGED <<registered, webhooks, deliveries, records>>
  BY DEF HookSubscribe, HookUnsubscribe, StartWorker, StopWorker, TakeDelivery, NotifyListener, DeliveryDone
<1>2. TriesBounded' /\ CountsTrue'
  BY <1>1, SameDeliveries DEF HooksInv, CountsTrue
<1>3. PICK D, Q : D = DOMAIN deliveries /\ Q = retryQueue
  OBVIOUS
<1>4. /\ Q \in Seq(D) /\ IsInjective(Q) /\ dropped \subseteq D /\ 0 \notin D
      /\ worker \in [delivery : {0} \cup D, known : BOOLEAN, next : Nat]
      /\ worker.delivery = 0 => worker = AtRest
      /\ hookListeners \in Seq(HookListeners)
      /\ \A d \in D : \E p \in PlaceNames : PlacedAt(d, p)
  BY <1>3, HookFacts DEF HooksInv, HooksPlaced
<1>5. ASSUME retryQueue' \in Seq(D), IsInjective(retryQueue'), dropped' \subseteq D,
             worker' \in [delivery : {0} \cup D, known : BOOLEAN, next : Nat],
             worker'.delivery = 0 => worker' = AtRest, hookListeners' \in Seq(HookListeners),
             \A d \in D : \E p \in PlaceNames : PlacedAt(d, p)'
      PROVE  HooksInv'
  <2>1. HooksPlaced'
    BY <1>1, <1>3, <1>5 DEF HooksInv, HooksPlaced
  <2> QED
    BY <1>2, <2>1 DEF HooksInv
<1>6. ASSUME UNCHANGED <<retryQueue, dropped>>, Sending' <=> Sending, worker'.delivery = worker.delivery \/ ~Sending
      PROVE  \A d \in D : \E p \in PlaceNames : PlacedAt(d, p)'
  <2>1. \A d \in D : \A p \in PlaceNames : PlacedAt(d, p) => PlacedAt(d, p)'
    BY <1>1, <1>6 DEF PlacedAt
  <2> QED
    BY <1>4, <2>1
<1>7. AtRest \in [delivery : {0} \cup D, known : BOOLEAN, next : Nat]
  BY DEF AtRest
<1>8. CASE \E l \in HookListeners : HookSubscribe(l) \/ HookUnsubscribe(l)
  <2>1. UNCHANGED <<retryQueue, dropped, worker>>
    BY <1>8 DEF HookSubscribe, HookUnsubscribe
  <2>2. hookListeners' \in Seq(HookListeners)
    <3>1. ASSUME NEW l \in HookListeners, HookSubscribe(l) PROVE hookListeners' \in Seq(HookListeners)
      BY <1>4, <3>1 DEF HookSubscribe
    <3>2. ASSUME NEW l \in HookListeners, HookUnsubscribe(l) PROVE hookListeners' \in Seq(HookListeners)
      <4>1. PICK s, k : s = hookListeners /\ k = CHOOSE i \in DOMAIN s : s[i] = l
        OBVIOUS
      <4>2. k \in DOMAIN s
        <5>1. \E i \in DOMAIN s : s[i] = l
          BY <3>2, <4>1, SMTT(30) DEF HookUnsubscribe, Range
        <5> QED
          BY <4>1, <5>1
      <4>3. hookListeners' = Dropped(s, k)
        BY <3>2, <4>1 DEF HookUnsubscribe, RemoveAt, Dropped
      <4> QED
        BY <1>4, <4>1, <4>2, <4>3, RemovedAt
    <3> QED
      BY <1>8, <3>1, <3>2
  <2>3. Sending' <=> Sending
    BY <2>1 DEF Sending
  <2> QED
    BY <1>3, <1>4, <1>5, <1>6, <2>1, <2>2, <2>3
<1>9. CASE StartWorker
  <2>1. UNCHANGED <<retryQueue, dropped, worker, hookListeners>>
    BY <1>9 DEF StartWorker
  <2>2. Sending' <=> Sending
    BY <2>1 DEF Sending
  <2> QED
    BY <1>3, <1>4, <1>5, <1>6, <2>1, <2>2
<1>10. CASE StopWorker
  <2>1. /\ UNCHANGED <<retryQueue, hookListeners>> /\ worker' = AtRest
        /\ dropped' = IF Sending THEN dropped \cup {worker.delivery} ELSE dropped
    BY <1>10 DEF StopWorker
  <2>2. Sending => worker.delivery \in D
    BY <1>4 DEF Sending
  <2>3. ~Sending' /\ dropped' \subseteq D
    BY <1>4, <2>1, <2>2 DEF Sending, AtRest
  <2>4. ASSUME NEW d \in D PROVE \E p \in PlaceNames : PlacedAt(d, p)'
    <3>1. PICK p \in PlaceNames : PlacedAt(d, p)
      BY <1>4
    <3>2. CASE Sending /\ d = worker.delivery
      <4>1. PlacedAt(d, "dropped")'
        BY <1>1, <2>1, <2>3, <3>1, <3>2 DEF PlacedAt
      <4> QED
        BY <4>1 DEF PlaceNames
    <3>3. CASE ~(Sending /\ d = worker.delivery)
      <4>1. PlacedAt(d, p)'
        BY <1>1, <2>1, <2>3, <3>1, <3>3 DEF PlacedAt
      <4> QED
        BY <4>1
    <3> QED
      BY <3>2, <3>3
  <2> QED
    BY <1>3, <1>4, <1>5, <1>7, <2>1, <2>3, <2>4
<1>11. CASE TakeDelivery
  <2>1. /\ UNCHANGED <<dropped, hookListeners>> /\ worker = AtRest /\ Q # <<>>
        /\ worker' = [delivery |-> Head(Q), next |-> 0, known |-> deliveries[Head(Q)].webhook \in DOMAIN webhooks]
        /\ retryQueue' = Tail(Q)
    BY <1>3, <1>11 DEF TakeDelivery
  <2>2. /\ Tail(Q) \in Seq(D) /\ Head(Q) \in D /\ IsInjective(Tail(Q))
        /\ Range(Tail(Q)) = Range(Q) \ {Head(Q)} /\ Head(Q) \in Range(Q)
    BY <1>4, <2>1, Shortened, TailOnce
  <2>3. worker'.delivery = Head(Q) /\ worker'.next = 0 /\ worker'.delivery # 0
    BY <1>4, <2>1, <2>2
  <2>4. Sending' /\ ~Sending
    BY <2>1, <2>3 DEF Sending, AtRest
  <2>5. ASSUME NEW d \in D PROVE \E p \in PlaceNames : PlacedAt(d, p)'
    <3>1. PICK p \in PlaceNames : PlacedAt(d, p)
      BY <1>4
    <3>2. CASE d = Head(Q)
      <4>1. PlacedAt(d, "sending")'
        BY <1>1, <1>3, <2>1, <2>2, <2>3, <2>4, <3>1, <3>2 DEF PlacedAt
      <4> QED
        BY <4>1 DEF PlaceNames
    <3>3. CASE d # Head(Q)
      <4>1. PlacedAt(d, p)'
        BY <1>1, <1>3, <2>1, <2>2, <2>3, <2>4, <3>1, <3>3 DEF PlacedAt
      <4> QED
        BY <4>1
    <3> QED
      BY <3>2, <3>3
  <2>6. worker' \in [delivery : {0} \cup D, known : BOOLEAN, next : Nat]
    BY <2>1, <2>2
  <2> QED
    BY <1>4, <1>5, <2>1, <2>2, <2>3, <2>5, <2>6
<1>12. CASE NotifyListener
  <2>1. /\ UNCHANGED <<retryQueue, dropped, hookListeners>> /\ worker' = [worker EXCEPT !.next = @ + 1]
        /\ worker.next \in DOMAIN hookListeners
    BY <1>12 DEF NotifyListener
  <2>2. worker.next \in Nat \ {0}
    <3>1. DOMAIN hookListeners = 1..Len(hookListeners) /\ Len(hookListeners) \in Nat
      BY <1>4, ListDomain
    <3> QED
      BY <2>1, <3>1
  <2>3. /\ worker' \in [delivery : {0} \cup D, known : BOOLEAN, next : Nat]
        /\ worker'.delivery = worker.delivery /\ worker'.next = worker.next + 1
    BY <1>4, <2>1
  <2>4. ~Sending /\ ~Sending' /\ worker.delivery # 0
    <3>1. worker'.next # 0 /\ worker.next # 0
      BY <2>2, <2>3
    <3> QED
      BY <1>4, <3>1 DEF Sending, AtRest
  <2> QED
    BY <1>3, <1>4, <1>5, <1>6, <2>1, <2>3, <2>4
<1>13. CASE DeliveryDone
  <2>1. /\ UNCHANGED <<retryQueue, dropped, hookListeners>> /\ worker' = AtRest
        /\ worker.next > Len(hookListeners)
    BY <1>13 DEF DeliveryDone
  <2>2. worker.next # 0
    <3>1. Len(hookListeners) \in Nat
      BY <1>4
    <3> QED
      BY <2>1, <3>1
  <2>3. ~Sending /\ ~Sending'
    BY <2>1, <2>2 DEF Sending, AtRest
  <2> QED
    BY <1>3, <1>4, <1>5, <1>6, <1>7, <2>1, <2>3
<1> QED
  BY <1>8, <1>9, <1>10, <1>11, <1>12, <1>13

(* The answer to the delivery in hand.                                     *)
LEMMA RecordsStored ==
  ASSUME NEW D, records \in Seq(D), NEW d \in D, MaxRecords \in Nat
  PROVE  StoreDelivery(d) \in Seq(D)
<1>1. PICK all, n, m : all = Append(records, d) /\ n = Len(all) /\ m = MaxRecords
  OBVIOUS
<1>2. all \in Seq(D) /\ n \in Nat /\ m \in Nat
  BY <1>1
<1>3. n > m => SubSeq(all, n - m + 1, n) \in Seq(D)
  <2>1. n > m => \A i \in (n - m + 1)..n : all[i] \in D
    BY <1>1, <1>2
  <2> QED
    BY <1>1, <1>2, <2>1, SubSeqProperties
<1> QED
  BY <1>1, <1>2, <1>3 DEF StoreDelivery

LEMMA AnsweredKeeps ==
  ASSUME HooksInv, NEW ok \in BOOLEAN, Answered(ok)
  PROVE  HooksInv'
<1>1. PICK D, E, d, a, Q, B : /\ D = deliveries /\ E = DOMAIN D /\ d = worker.delivery /\ a = D[d].attempt
                              /\ Q = retryQueue /\ B = Retries(d)
  OBVIOUS
<1>2. /\ D \in Seq(DeliveryOf(1..registered)) /\ Q \in Seq(E) /\ IsInjective(Q) /\ records \in Seq(E)
      /\ worker \in [delivery : {0} \cup E, known : BOOLEAN, next : Nat] /\ dropped \subseteq E
      /\ hookListeners \in Seq(HookListeners)
      /\ \A c \in E : \E p \in PlaceNames : PlacedAt(c, p)
      /\ \A c \in E : D[c] \in DeliveryOf(1..registered)
  BY <1>1, HookFacts DEF HooksInv, HooksPlaced
<1>3. MaxAttempts \in Nat \ {0} /\ MaxRecords \in Nat
  BY HookFacts
<1>4. /\ Sending /\ d # 0 /\ d \in E /\ a \in Nat \ {0}
  <2>1. Sending /\ d # 0
    BY <1>1 DEF Answered, Sending
  <2> QED
    BY <1>1, <1>2, <2>1 DEF DeliveryOf
<1>5. PlacedAt(d, "sending") /\ D[d].completed = FALSE /\ d \notin Range(Q) /\ d \notin dropped
  <2>1. PICK p \in PlaceNames : PlacedAt(d, p)
    BY <1>2, <1>4
  <2>2. p = "sending"
    BY <1>1, <1>4, <2>1 DEF PlacedAt
  <2>3. D[d].completed \in BOOLEAN
    BY <1>2, <1>4 DEF DeliveryOf
  <2> QED
    BY <1>1, <2>1, <2>2, <2>3 DEF PlacedAt
<1>6. D[d].success = FALSE /\ a <= MaxAttempts /\ Tries(d) = a - 1
  <2>1. D[d].success \in BOOLEAN
    BY <1>2, <1>4 DEF DeliveryOf
  <2>2. Tries(d) <= MaxAttempts /\ Tries(d) # MaxAttempts /\ ~D[d].success
    BY <1>1, <1>4, <1>5 DEF HooksInv, TriesBounded
  <2>3. Tries(d) = a - 1
    BY <1>1, <2>2 DEF Tries
  <2> QED
    BY <1>3, <1>4, <2>1, <2>2, <2>3
<1>7. /\ deliveries' = [D EXCEPT ![d].success = ok, ![d].completed = ok \/ ~B, ![d].attempt = IF ok THEN @ ELSE @ + 1]
      /\ webhooks' = Counted(D[d].webhook, ok)
      /\ retryQueue' = IF ~ok /\ B THEN Append(Q, d) ELSE Q
      /\ records' = StoreDelivery(d) /\ worker' = [worker EXCEPT !.next = 1]
      /\ UNCHANGED <<registered, hookListeners, hookRunning, dropped>>
  BY <1>1 DEF Answered
<1>8. B = (a + 1 <= MaxAttempts) /\ B \in BOOLEAN
  BY <1>1 DEF Retries
<1>9. PICK F, r : F = deliveries' /\ r = [D[d] EXCEPT !.success = ok, !.completed = ok \/ ~B, !.attempt = IF ok THEN @ ELSE @ + 1]
  OBVIOUS
<1>10. /\ r \in DeliveryOf(1..registered) /\ r.success = ok /\ r.completed = (ok \/ ~B)
       /\ r.attempt = (IF ok THEN a ELSE a + 1) /\ r.webhook = D[d].webhook
  <2>1. D[d] \in DeliveryOf(1..registered)
    BY <1>2, <1>4
  <2> QED
    <3>1. PICK old : old = D[d]
      OBVIOUS
    <3>2. old \in DeliveryOf(1..registered) /\ old.attempt = a
      BY <1>1, <2>1, <3>1
    <3>3. r = [old EXCEPT !.success = ok, !.completed = ok \/ ~B, !.attempt = IF ok THEN a ELSE a + 1]
      BY <1>9, <3>1, <3>2 DEF DeliveryOf
    <3>4. a \in Nat \ {0} /\ a + 1 \in Nat \ {0} /\ (ok \/ ~B) \in BOOLEAN
      BY <1>4, <1>8
    <3>5. CASE ok
      BY <3>1, <3>2, <3>3, <3>4, <3>5 DEF DeliveryOf
    <3>6. CASE ~ok
      BY <3>1, <3>2, <3>3, <3>4, <3>6 DEF DeliveryOf
    <3> QED
      BY <3>5, <3>6
<1>11. F = [D EXCEPT ![d] = r]
  BY <1>7, <1>9
<1>12. /\ F \in Seq(DeliveryOf(1..registered)) /\ DOMAIN F = E /\ F[d] = r
       /\ \A c \in E \ {d} : F[c] = D[c]
  <2>1. F \in Seq(DeliveryOf(1..registered)) /\ Len(F) = Len(D)
    BY <1>1, <1>2, <1>4, <1>10, <1>11
  <2> QED
    BY <1>1, <1>4, <1>11, <2>1
<1>13. worker' \in [delivery : {0} \cup E, known : BOOLEAN, next : Nat] /\ worker'.delivery = d /\ ~Sending'
  <2>1. worker' \in [delivery : {0} \cup E, known : BOOLEAN, next : Nat] /\ worker'.delivery = d /\ worker'.next = 1
    BY <1>1, <1>2, <1>7
  <2> QED
    BY <2>1 DEF Sending
<1>14. PICK P : P = retryQueue'
  OBVIOUS
<1>15. /\ P \in Seq(E) /\ IsInjective(P)
       /\ Range(P) = IF ~ok /\ B THEN Range(Q) \cup {d} ELSE Range(Q)
  <2>1. CASE ~ok /\ B
    <3>1. P = Append(Q, d)
      BY <1>7, <1>14, <2>1
    <3>2. Append(Q, d) \in Seq(E) /\ Range(Append(Q, d)) = Range(Q) \cup {d}
      BY <1>2, <1>4, Appended
    <3>3. IsInjective(Append(Q, d))
      BY <1>2, <1>4, <1>5, AppendedOnce
    <3> QED
      BY <2>1, <3>1, <3>2, <3>3
  <2>2. CASE ~(~ok /\ B)
    BY <1>2, <1>7, <1>14, <2>2
  <2> QED
    BY <2>1, <2>2
<1>16. HooksPlaced'
  <2>1. ASSUME NEW c \in E PROVE \E p \in PlaceNames : PlacedAt(c, p)'
    <3>1. CASE c = d
      <4>1. PlacedAt(d, IF ok \/ ~B THEN "completed" ELSE "queued")'
        BY <1>5, <1>7, <1>8, <1>9, <1>10, <1>12, <1>13, <1>14, <1>15 DEF PlacedAt
      <4> QED
        BY <3>1, <4>1 DEF PlaceNames
    <3>2. CASE c # d
      <4>1. PICK p \in PlaceNames : PlacedAt(c, p)
        BY <1>2
      <4>2. c \in Range(P) <=> c \in Range(Q)
        BY <1>15, <3>2
      <4>3. F[c] = D[c]
        BY <1>12, <3>2
      <4>4. PlacedAt(c, p)'
        BY <1>1, <1>7, <1>9, <1>13, <1>14, <3>2, <4>1, <4>2, <4>3 DEF PlacedAt
      <4> QED
        BY <4>4
    <3> QED
      BY <3>1, <3>2
  <2>2. records' \in Seq(E)
    BY <1>2, <1>3, <1>4, <1>7, RecordsStored
  <2>3. DOMAIN webhooks' = DOMAIN webhooks
    BY <1>7 DEF Counted
  <2>4. worker'.delivery = 0 => worker' = AtRest
    BY <1>4, <1>13
  <2> QED
    BY <1>2, <1>7, <1>9, <1>12, <1>13, <1>14, <1>15, <2>1, <2>2, <2>3, <2>4 DEF HooksInv, HooksPlaced
<1>17. /\ Tries(d)' = Tries(d) + 1
       /\ \A c \in E \ {d} : Tries(c)' = Tries(c)
  <2>1. Tries(d)' = a
    BY <1>4, <1>9, <1>10, <1>12 DEF Tries
  <2> QED
    BY <1>1, <1>4, <1>6, <1>9, <1>12, <2>1 DEF Tries
<1>18. TriesBounded'
  <2>1. Tries(d)' = a /\ Tries(d)' <= MaxAttempts
    BY <1>4, <1>6, <1>17
  <2>2. r.completed <=> r.success \/ Tries(d)' = MaxAttempts
    <3>1. CASE ok
      BY <1>10, <3>1
    <3>2. CASE ~ok
      <4>1. r.completed <=> ~B
        BY <1>10, <3>2
      <4>2. r.success = FALSE
        BY <1>10, <3>2
      <4>3. ~B <=> a = MaxAttempts
        <5>1. a + 1 <= MaxAttempts <=> a # MaxAttempts
          BY <1>3, <1>4, <1>6
        <5> QED
          BY <1>8, <5>1, Zenon
      <4> QED
        BY <2>1, <4>1, <4>2, <4>3
    <3> QED
      BY <3>1, <3>2
  <2>3. \A c \in E \ {d} : /\ Tries(c)' <= MaxAttempts
                           /\ F[c].completed <=> F[c].success \/ Tries(c)' = MaxAttempts
    BY <1>1, <1>12, <1>17 DEF HooksInv, TriesBounded
  <2>4. \A c \in E : /\ Tries(c)' <= MaxAttempts
                     /\ F[c].completed <=> F[c].success \/ Tries(c)' = MaxAttempts
    BY <1>12, <2>1, <2>2, <2>3
  <2> QED
    BY <1>9, <1>12, <2>4 DEF TriesBounded
<1>19. ASSUME NEW w
       PROVE  /\ OwnOf(w)' = OwnOf(w) /\ IsFiniteSet(OwnOf(w)) /\ OwnOf(w) \subseteq E
              /\ TriesOf(w) \in [OwnOf(w) -> Int] /\ TriesOf(w)' \in [OwnOf(w) -> Int]
              /\ \A c \in OwnOf(w) : TriesOf(w)[c] = Tries(c) /\ TriesOf(w)'[c] = Tries(c)'
  <2>1. OwnOf(w)' = OwnOf(w)
    <3>1. \A c \in E : F[c].webhook = D[c].webhook
      BY <1>10, <1>12
    <3>2. OwnOf(w) = {c \in E : D[c].webhook = w}
      BY <1>1 DEF OwnOf
    <3>3. OwnOf(w)' = {c \in E : F[c].webhook = w}
      BY <1>9, <1>12 DEF OwnOf
    <3> QED
      BY <3>1, <3>2, <3>3
  <2>2. \A c \in E : Tries(c) \in Int /\ Tries(c)' \in Int
    <3>1. \A c \in E : Tries(c) \in Nat
      BY <1>1, HookFacts
    <3>2. \A c \in E : c = d \/ c \in E \ {d}
      OBVIOUS
    <3>3. \A x \in Nat : x \in Int /\ x + 1 \in Int
      OBVIOUS
    <3> QED
      BY <1>4, <1>17, <3>1, <3>2, <3>3, Zenon
  <2>3. OwnOf(w) \subseteq E /\ IsFiniteSet(OwnOf(w))
    BY <1>1, HookFacts
  <2>4. TriesOf(w) = [c \in OwnOf(w) |-> Tries(c)] /\ TriesOf(w)' = [c \in OwnOf(w) |-> Tries(c)']
    BY <2>1 DEF TriesOf
  <2> QED
    BY <2>1, <2>2, <2>3, <2>4
<1>20. PICK v : v = D[d].webhook
  OBVIOUS
<1>21. \A w : d \in OwnOf(w) <=> w = v
  BY <1>1, <1>4, <1>20 DEF OwnOf
<1>22. ASSUME NEW w, w # v
       PROVE  SumOf(OwnOf(w)', TriesOf(w)') = SumOf(OwnOf(w), TriesOf(w)) /\ Received(w)' = Received(w)
  <2>1. \A c \in OwnOf(w) : c \in E \ {d}
    BY <1>19, <1>21, <1>22
  <2>2. TriesOf(w)' = TriesOf(w)
    BY <1>17, <1>19, <2>1
  <2>3. Received(w)' = Received(w)
    BY <1>1, <1>9, <1>12, <1>19, <2>1 DEF Received
  <2> QED
    BY <1>19, <2>2, <2>3, Zenon
<1>23. /\ SumOf(OwnOf(v)', TriesOf(v)') = SumOf(OwnOf(v), TriesOf(v)) + 1
       /\ Cardinality(Received(v)') = Cardinality(Received(v)) + (IF ok THEN 1 ELSE 0)
       /\ Cardinality(Received(v)) \in Nat /\ SumOf(OwnOf(v), TriesOf(v)) \in Int
  <2>1. PICK S, f, g : S = OwnOf(v) /\ f = TriesOf(v) /\ g = TriesOf(v)'
    OBVIOUS
  <2>2. /\ IsFiniteSet(S) /\ f \in [S -> Int] /\ g \in [S -> Int] /\ d \in S /\ S \subseteq E /\ OwnOf(v)' = S
        /\ \A c \in S : f[c] = Tries(c) /\ g[c] = Tries(c)'
    BY <1>19, <1>21, <2>1
  <2>3. (\A c \in S \ {d} : g[c] = f[c]) /\ g[d] = f[d] + 1 /\ f[d] \in Int
    BY <1>17, <2>2
  <2>4. SumOf(S, f) \in Int /\ SumOf(S, g) = SumOf(S, f) + (g[d] - f[d])
    BY <2>2, <2>3, SumChanges
  <2>5. SumOf(S, g) = SumOf(S, f) + 1
    BY <2>3, <2>4
  <2>6. PICK R, T : R = Received(v) /\ T = Received(v)'
    OBVIOUS
  <2>7. R = {c \in S : D[c].success} /\ T = {c \in S : F[c].success}
    BY <1>1, <1>9, <2>1, <2>2, <2>6 DEF Received
  <2>8. d \notin R /\ T = IF ok THEN R \cup {d} ELSE R
    BY <1>6, <1>10, <1>12, <2>2, <2>7
  <2>9. IsFiniteSet(R) /\ Cardinality(R) \in Nat
    BY <2>2, <2>7, FS_Subset, FS_CardinalityType
  <2>10. Cardinality(R \cup {d}) = Cardinality(R) + 1
    BY <2>8, <2>9, FS_AddElement
  <2>11. Cardinality(T) = Cardinality(R) + (IF ok THEN 1 ELSE 0)
    BY <2>8, <2>9, <2>10
  <2> QED
    BY <2>1, <2>2, <2>4, <2>5, <2>6, <2>9, <2>11
<1>24. CountsTrue'
  <2> DEFINE Hooks == [events : SUBSET EventTypes, active : BOOLEAN, successes : Nat, failures : Nat]
  <2>1. /\ webhooks \in [DOMAIN webhooks -> Hooks]
        /\ \A w \in DOMAIN webhooks :
             /\ webhooks[w].successes + webhooks[w].failures = SumOf(OwnOf(w), TriesOf(w))
             /\ webhooks[w].successes = Cardinality(Received(w))
    BY DEF HooksInv, CountsTrue
  <2>2. CASE v \notin DOMAIN webhooks
    <3>1. webhooks' = webhooks
      BY <1>7, <1>20, <2>2 DEF Counted
    <3> HIDE DEF Hooks
    <3>2. \A w \in DOMAIN webhooks :
            /\ webhooks[w].successes + webhooks[w].failures = SumOf(OwnOf(w)', TriesOf(w)')
            /\ webhooks[w].successes = Cardinality(Received(w)')
      BY <1>22, <2>1, <2>2
    <3> QED
      BY <2>1, <3>1, <3>2 DEF CountsTrue, Hooks
  <2>3. CASE v \in DOMAIN webhooks
    <3>1. PICK h : h = [webhooks[v] EXCEPT !.successes = IF ok THEN @ + 1 ELSE @, !.failures = IF ok THEN @ ELSE @ + 1]
      OBVIOUS
    <3>2. webhooks' = [webhooks EXCEPT ![v] = h]
      BY <1>7, <1>20, <2>3, <3>1 DEF Counted
    <3>3. webhooks[v] \in Hooks
      BY <2>1, <2>3
    <3>4. /\ h \in Hooks
          /\ h.successes = webhooks[v].successes + (IF ok THEN 1 ELSE 0)
          /\ h.successes + h.failures = webhooks[v].successes + webhooks[v].failures + 1
      <4>1. PICK o : o = webhooks[v]
        OBVIOUS
      <4>2. o \in Hooks
        BY <3>3, <4>1
      <4>5. /\ o = [events |-> o.events, active |-> o.active, successes |-> o.successes, failures |-> o.failures]
            /\ o.successes \in Nat /\ o.failures \in Nat /\ o.events \in SUBSET EventTypes /\ o.active \in BOOLEAN
        BY <4>2
      <4>3. CASE ok
        <5>1. h = [o EXCEPT !.successes = @ + 1, !.failures = @]
          BY <3>1, <4>1, <4>3
        <5>2. h = [events |-> o.events, active |-> o.active, successes |-> o.successes + 1, failures |-> o.failures]
          BY <4>5, <5>1
        <5> QED
          BY <4>1, <4>2, <4>5, <4>3, <5>2
      <4>4. CASE ~ok
        <5>1. h = [o EXCEPT !.successes = @, !.failures = @ + 1]
          BY <3>1, <4>1, <4>4
        <5>2. h = [events |-> o.events, active |-> o.active, successes |-> o.successes, failures |-> o.failures + 1]
          BY <4>5, <5>1
        <5> QED
          BY <4>1, <4>2, <4>5, <4>4, <5>2
      <4> QED
        BY <4>3, <4>4
    <3> HIDE DEF Hooks
    <3>5. /\ webhooks' \in [DOMAIN webhooks -> Hooks] /\ webhooks'[v] = h
          /\ \A w \in DOMAIN webhooks \ {v} : webhooks'[w] = webhooks[w]
      BY <2>1, <2>3, <3>2, <3>4
    <3>6. /\ h.successes + h.failures = SumOf(OwnOf(v)', TriesOf(v)')
          /\ h.successes = Cardinality(Received(v)')
      BY <1>23, <2>1, <2>3, <3>4
    <3>7. \A w \in DOMAIN webhooks \ {v} :
            /\ webhooks[w].successes + webhooks[w].failures = SumOf(OwnOf(w)', TriesOf(w)')
            /\ webhooks[w].successes = Cardinality(Received(w)')
      BY <1>22, <2>1
    <3>8. DOMAIN webhooks' = DOMAIN webhooks
      BY <3>5
    <3> QED
      BY <3>5, <3>6, <3>7, <3>8 DEF CountsTrue, Hooks
  <2> QED
    BY <2>2, <2>3
<1> QED
  BY <1>16, <1>18, <1>24 DEF HooksInv

LEMMA TriesAdded ==
  ASSUME NEW S, IsFiniteSet(S), \A d \in S : Tries(d) \in Int
  PROVE  FoldSet(LAMBDA d, n : n + Tries(d), 0, S) = SumOf(S, [d \in S |-> Tries(d)])
<1> DEFINE w        == [d \in S |-> Tries(d)]
           Folded(f) == f = [s \in SUBSET S |->
                              IF s = {} THEN 0
                              ELSE f[s \ {CHOOSE x \in s : TRUE}] + Tries(CHOOSE x \in s : TRUE)]
<1>1. FoldSet(LAMBDA d, n : n + Tries(d), 0, S) = (CHOOSE f : Folded(f))[S]
  BY DEF FoldSet, MapThenFoldSet
<1>2. ASSUME NEW f PROVE Folded(f) <=> Adding(f, S, w)
  <2>1. \A s \in SUBSET S : s # {} => (CHOOSE x \in s : TRUE) \in S
    OBVIOUS
  <2>2. \A s \in SUBSET S : s # {} => w[CHOOSE x \in s : TRUE] = Tries(CHOOSE x \in s : TRUE)
    BY <2>1
  <2> HIDE DEF w
  <2>3. [s \in SUBSET S |-> IF s = {} THEN 0
                            ELSE f[s \ {CHOOSE x \in s : TRUE}] + Tries(CHOOSE x \in s : TRUE)]
        = [s \in SUBSET S |-> IF s = {} THEN 0
                            ELSE f[s \ {CHOOSE x \in s : TRUE}] + w[CHOOSE x \in s : TRUE]]
    BY <2>2
  <2> QED
    BY <2>3, Zenon DEF Adding, Chosen
<1>3. w \in [S -> Int]
  OBVIOUS
<1> HIDE DEF w, Folded
<1>4. PICK f : Adding(f, S, w)
  BY <1>3, SumExists
<1>5. PICK g : g = CHOOSE h : Folded(h)
  OBVIOUS
<1>6. Folded(g)
  BY <1>2, <1>4, <1>5, Zenon
<1>7. SumOf(S, w) = g[S]
  <2>1. Adding(g, S, w)
    BY <1>2, <1>6
  <2> QED
    BY <1>3, <2>1, SumIs
<1> QED
  BY <1>1, <1>5, <1>7 DEF w

LEMMA HooksBegin ==
  ASSUME HooksInit
  PROVE  HooksInv
<1>1. /\ registered = 0 /\ webhooks = <<>> /\ deliveries = <<>> /\ retryQueue = <<>> /\ records = <<>>
      /\ hookListeners = <<>> /\ worker = AtRest /\ dropped = {}
  BY DEF HooksInit
<1>2. DOMAIN webhooks = {} /\ DOMAIN deliveries = {} /\ DOMAIN retryQueue = {}
  BY <1>1
<1>3. HooksPlaced
  <2>1. IsInjective(retryQueue)
    BY <1>2, Zenon DEF IsInjective
  <2>2. \A S : <<>> \in Seq(S)
    OBVIOUS
  <2>3. worker \in [delivery : {0} \cup DOMAIN deliveries, known : BOOLEAN, next : Nat]
    BY <1>1 DEF AtRest
  <2> QED
    BY <1>1, <1>2, <2>1, <2>2, <2>3 DEF HooksPlaced
<1>4. TriesBounded
  BY <1>2 DEF TriesBounded
<1>5. CountsTrue
  <2>1. webhooks \in [DOMAIN webhooks -> [events : SUBSET EventTypes, active : BOOLEAN, successes : Nat, failures : Nat]]
    BY <1>1, <1>2
  <2> QED
    BY <1>2, <2>1 DEF CountsTrue
<1> QED
  BY <1>3, <1>4, <1>5 DEF HooksInv

LEMMA HooksNextInv ==
  ASSUME HooksInv, [HooksNext]_hookVars
  PROVE  HooksInv'
<1>1. CASE HooksNext
  <2>1. \/ \/ \E es \in SUBSET EventTypes : RegisterWebhook(es)
           \/ \E w \in DOMAIN webhooks, es \in SUBSET EventTypes, on \in BOOLEAN : UpdateWebhook(w, es, on)
           \/ \E w \in DOMAIN webhooks : DeleteWebhook(w)
        \/ \E e \in EventTypes : TriggerEvent(e)
        \/ \/ \E l \in HookListeners : HookSubscribe(l) \/ HookUnsubscribe(l)
           \/ StartWorker \/ StopWorker \/ TakeDelivery \/ NotifyListener \/ DeliveryDone
        \/ \E ok \in BOOLEAN : Answered(ok)
    BY <1>1, Zenon DEF HooksNext
  <2> QED
    BY <2>1, RegistrationKeeps, TriggerKeeps, WorkerKeeps, AnsweredKeeps
<1>2. CASE UNCHANGED hookVars
  <2>1. /\ UNCHANGED <<registered, webhooks, deliveries, retryQueue, records, hookListeners>>
        /\ UNCHANGED <<hookRunning, worker, dropped>>
    BY <1>2 DEF hookVars
  <2>2. TriesBounded' /\ CountsTrue'
    BY <2>1, SameDeliveries DEF HooksInv, CountsTrue
  <2>3. \A d \in DOMAIN deliveries : \A p \in PlaceNames : PlacedAt(d, p) => PlacedAt(d, p)'
    BY <2>1 DEF PlacedAt, Sending
  <2>4. HooksPlaced'
    BY <2>1, <2>3 DEF HooksInv, HooksPlaced
  <2> QED
    BY <2>2, <2>4 DEF HooksInv
<1> QED
  BY <1>1, <1>2

LEMMA HooksTyped ==
  ASSUME HooksInv
  PROVE  HooksTypeOK
BY HookFacts DEF HooksInv, HooksPlaced, HooksTypeOK

LEMMA HooksCounted ==
  ASSUME HooksInv
  PROVE  HooksAccounted
<1>1. Len(retryQueue) = Cardinality(Range(retryQueue))
  BY RangeCounts DEF HooksInv, HooksPlaced
<1>2. ASSUME NEW d \in DOMAIN deliveries PROVE Cardinality(Places(d)) = 1
  <2>1. PICK p \in PlaceNames : PlacedAt(d, p)
    BY DEF HooksInv, HooksPlaced
  <2>2. Places(d) = {p}
    BY <2>1 DEF Places, PlacedAt, PlaceNames
  <2>3. Cardinality({p}) = 1
    BY FS_Singleton
  <2> QED
    BY <2>2, <2>3
<1>3. ASSUME NEW w \in DOMAIN webhooks, NEW own, own = {d \in DOMAIN deliveries : deliveries[d].webhook = w}
      PROVE  /\ webhooks[w].successes + webhooks[w].failures = FoldSet(LAMBDA d, n : n + Tries(d), 0, own)
             /\ webhooks[w].successes = Cardinality({d \in own : deliveries[d].success})
  <2>1. own = OwnOf(w)
    BY <1>3 DEF OwnOf
  <2>2. IsFiniteSet(own) /\ \A d \in own : Tries(d) \in Int
    <3>1. IsFiniteSet(OwnOf(w)) /\ OwnOf(w) \subseteq DOMAIN deliveries /\ \A d \in DOMAIN deliveries : Tries(d) \in Nat
      BY HookFacts
    <3>2. \A n \in Nat : n \in Int
      OBVIOUS
    <3> QED
      BY <2>1, <3>1, <3>2, Zenon
  <2>3. FoldSet(LAMBDA d, n : n + Tries(d), 0, own) = SumOf(own, [d \in own |-> Tries(d)])
    BY <2>2, TriesAdded
  <2>4. TriesOf(w) = [d \in own |-> Tries(d)]
    BY <2>1 DEF TriesOf
  <2>5. webhooks[w].successes + webhooks[w].failures = SumOf(own, [d \in own |-> Tries(d)])
    BY <2>1, <2>4 DEF HooksInv, CountsTrue
  <2>6. webhooks[w].successes = Cardinality({d \in own : deliveries[d].success})
    BY <2>1 DEF HooksInv, CountsTrue, Received
  <2> QED
    BY <2>3, <2>5, <2>6
<1> QED
  BY <1>1, <1>2, <1>3 DEF HooksAccounted, HooksInv, TriesBounded
-----------------------------------------------------------------------------
(* The items. Those a call has yet to try are untouched, each is in one    *)
(* place only, and a record of a success is the last of its item.          *)
Untouched(i) == outcome[i] = [tries |-> 0, end |-> "none"]
Outcomes     == [tries : Nat, end : {"none", "delivered", "aborted"}]
Entries      == [item : Items, count : 1..MaxItemRetries]

ItemsPlaced ==
  /\ providers \subseteq Channels /\ called \subseteq Calls
  /\ outcome \in [Items -> Outcomes] /\ todo \in [Calls -> Seq(Items)]
  /\ \A n \in Calls :
       /\ IsInjective(todo[n]) /\ Range(todo[n]) \subseteq Range(ItemsOf(n))
       /\ \A i \in Range(todo[n]) : Untouched(i)
       /\ n \notin called => todo[n] = <<>> /\ \A i \in Range(ItemsOf(n)) : Untouched(i)

Owed(i) == outcome[i].tries \in 1..MaxItemRetries /\ outcome[i].end = "none"

RetriesPlaced ==
  /\ itemQueue \in Seq(Entries) /\ retry \in Entries \cup {Nothing}
  /\ \A i \in Items : outcome[i].tries <= MaxItemRetries + 1
  /\ \A j, k \in DOMAIN itemQueue : itemQueue[j].item = itemQueue[k].item => j = k
  /\ \A k \in DOMAIN itemQueue : /\ itemQueue[k].item # retry.item /\ Owed(itemQueue[k].item)
                                 /\ itemQueue[k].count = outcome[itemQueue[k].item].tries
  /\ retry # Nothing => Owed(retry.item) /\ retry.count = outcome[retry.item].tries
  /\ \A i \in Items : Owed(i) => retry.item = i \/ \E k \in DOMAIN itemQueue : itemQueue[k].item = i

RecordsTrue ==
  /\ itemRecords \in Seq(Items \X BOOLEAN) /\ Len(itemRecords) <= MaxItemRecords
  /\ \A k \in DOMAIN itemRecords : itemRecords[k][2] => outcome[itemRecords[k][1]].end = "delivered"
  /\ \A j, k \in DOMAIN itemRecords :
       j < k /\ itemRecords[j][1] = itemRecords[k][1] => ~itemRecords[j][2]

ItemsInv == ItemsPlaced /\ RetriesPlaced /\ RecordsTrue

LEMMA ItemFacts ==
  /\ MaxItemRetries \in Nat /\ MaxItemRecords \in Nat /\ "none" \notin Items
  /\ \A n \in Calls : ItemsOf(n) \in Seq(Items) /\ IsInjective(ItemsOf(n))
                      /\ Range(ItemsOf(n)) \subseteq Items
  /\ \A m, n \in Calls : \A i : i \in Range(ItemsOf(m)) /\ i \in Range(ItemsOf(n)) => m = n
<1>1. MaxItemRetries \in Nat /\ MaxItemRecords \in Nat /\ "none" \notin Items
  BY ItemsAssumption DEF ItemsAssumption
<1>2. ASSUME NEW n \in Calls
      PROVE  ItemsOf(n) \in Seq(Items) /\ IsInjective(ItemsOf(n)) /\ Range(ItemsOf(n)) \subseteq Items
  <2>1. ItemsOf(n) \in Seq(Items)
    BY ItemsAssumption DEF ItemsAssumption
  <2>2. \A i \in DOMAIN ItemsOf(n) : ItemsOf(n)[i] \in Items
    BY <2>1
  <2>3. IsInjective(ItemsOf(n))
    BY ItemsAssumption DEF ItemsAssumption, IsInjective
  <2> QED
    BY <2>1, <2>2, <2>3 DEF Range
<1>3. ASSUME NEW m \in Calls, NEW n \in Calls, NEW i, i \in Range(ItemsOf(m)), i \in Range(ItemsOf(n))
      PROVE  m = n
  BY <1>3, ItemsAssumption DEF ItemsAssumption, Range
<1> QED
  BY <1>1, <1>2, <1>3

LEMMA AheadIs ==
  ASSUME NEW is \in Seq(Items), IsInjective(is)
  PROVE  Ahead(is) \in Seq(Items) /\ IsInjective(Ahead(is)) /\ Range(Ahead(is)) \subseteq Range(is)
<1>1. PICK served : served = {k \in DOMAIN is : ChannelOf(is[k]) \in providers}
  OBVIOUS
<1>2. CASE served = {}
  <2>1. Ahead(is) = <<>>
    BY <1>1, <1>2 DEF Ahead
  <2>2. DOMAIN Ahead(is) = {}
    BY <2>1
  <2> QED
    BY <2>1, <2>2 DEF IsInjective, Range
<1>3. CASE served # {}
  <2>1. DOMAIN is = 1..Len(is) /\ Len(is) \in Nat
    BY ListDomain
  <2>2. served \subseteq 1..Len(is) /\ served \in SUBSET Nat
    BY <1>1, <2>1
  <2>3. \E k \in served : \A j \in served : k <= j
    BY <1>3, <2>2, LeastElement
  <2>4. PICK k : k = CHOOSE l \in served : \A j \in served : l <= j
    OBVIOUS
  <2>5. k \in served
    BY <2>3, <2>4
  <2>6. Ahead(is) = SubSeq(is, k, Len(is))
    BY <1>1, <1>3, <2>4 DEF Ahead
  <2>7. k \in DOMAIN is
    BY <2>1, <2>2, <2>5
  <2> QED
    BY <2>6, <2>7, Endings
<1> QED
  BY <1>2, <1>3

(* An item answers, or its delivery is given up.                           *)
LEMMA RecordsKeep ==
  ASSUME ItemsInv, NEW i \in Items, NEW o \in Outcomes, outcome[i].end = "none",
         outcome' = [outcome EXCEPT ![i] = o],
         itemRecords' = itemRecords \/ \E ok \in BOOLEAN : itemRecords' = Stored(i, ok) /\ (ok => o.end = "delivered")
  PROVE  RecordsTrue'
<1>1. PICK R, n : R = itemRecords /\ n = Len(R)
  OBVIOUS
<1>2. /\ R \in Seq(Items \X BOOLEAN) /\ n \in Nat /\ DOMAIN R = 1..n /\ n <= MaxItemRecords
      /\ \A k \in 1..n : R[k] \in Items \X BOOLEAN
      /\ \A k \in 1..n : R[k][2] => outcome[R[k][1]].end = "delivered"
      /\ \A j, k \in 1..n : j < k /\ R[j][1] = R[k][1] => ~R[j][2]
      /\ MaxItemRecords \in Nat
  BY <1>1, ItemFacts, ListDomain DEF ItemsInv, RecordsTrue
<1>3. /\ outcome'[i] = o
      /\ \A x \in Items : x # i => outcome'[x] = outcome[x]
  BY DEF ItemsInv, ItemsPlaced
<1>4. \A k \in 1..n : R[k][1] = i => ~R[k][2]
  BY <1>2
<1>5. \A k \in 1..n : R[k][2] => outcome'[R[k][1]].end = "delivered"
  <2>1. ASSUME NEW k \in 1..n, R[k][2] PROVE outcome'[R[k][1]].end = "delivered"
    <3>1. R[k][1] \in Items /\ R[k][1] # i
      BY <1>2, <1>4, <2>1
    <3> QED
      BY <1>2, <1>3, <2>1, <3>1
  <2> QED
    BY <2>1
<1>6. CASE itemRecords' = itemRecords
  BY <1>1, <1>2, <1>5, <1>6 DEF RecordsTrue
<1>7. ASSUME NEW ok \in BOOLEAN, itemRecords' = Stored(i, ok), ok => o.end = "delivered"
      PROVE  RecordsTrue'
  <2>1. PICK A : A = Append(R, <<i, ok>>)
    OBVIOUS
  <2>2. /\ A \in Seq(Items \X BOOLEAN) /\ Len(A) = n + 1 /\ DOMAIN A = 1..(n + 1)
        /\ \A k \in 1..n : A[k] = R[k]
        /\ A[n + 1] = <<i, ok>>
    BY <1>1, <1>2, <2>1, Appended
  <2>3. \A k \in 1..(n + 1) : k \in 1..n \/ k = n + 1
    BY <1>2
  <2>4. \A k \in 1..(n + 1) : A[k][2] => outcome'[A[k][1]].end = "delivered"
    BY <1>3, <1>5, <1>7, <2>2, <2>3
  <2>5. \A j, k \in 1..(n + 1) : j < k /\ A[j][1] = A[k][1] => ~A[j][2]
    <3>1. ASSUME NEW j \in 1..(n + 1), NEW k \in 1..(n + 1), j < k, A[j][1] = A[k][1] PROVE ~A[j][2]
      <4>1. j \in 1..n
        BY <1>2, <3>1
      <4>2. CASE k \in 1..n
        BY <1>2, <2>2, <3>1, <4>1, <4>2
      <4>3. CASE k = n + 1
        BY <1>4, <2>2, <3>1, <4>1, <4>3
      <4> QED
        BY <2>3, <4>2, <4>3
    <3> QED
      BY <3>1
  <2>6. PICK B : B = itemRecords'
    OBVIOUS
  <2>7. B = IF n + 1 > MaxItemRecords THEN Tail(A) ELSE A
    BY <1>1, <1>7, <2>1, <2>2, <2>6 DEF Stored
  <2>8. CASE n + 1 > MaxItemRecords
    <3>1. /\ Tail(A) \in Seq(Items \X BOOLEAN) /\ Len(Tail(A)) = n /\ DOMAIN Tail(A) = 1..n
          /\ \A k \in 1..n : Tail(A)[k] = A[k + 1]
      <4>1. A # <<>> /\ (n + 1) - 1 = n
        BY <1>2, <2>2
      <4> QED
        BY <2>2, <4>1, Shortened
    <3>2. /\ B \in Seq(Items \X BOOLEAN) /\ Len(B) = n /\ DOMAIN B = 1..n
          /\ \A k \in 1..n : B[k] = A[k + 1]
      BY <2>7, <2>8, <3>1
    <3>3. \A k \in 1..n : k + 1 \in 1..(n + 1)
      BY <1>2
    <3>4. \A k \in 1..n : B[k][2] => outcome'[B[k][1]].end = "delivered"
      BY <2>4, <3>2, <3>3
    <3>5. \A j, k \in 1..n : j < k => j + 1 < k + 1
      BY <1>2
    <3>6. \A j, k \in 1..n : j < k /\ B[j][1] = B[k][1] => ~B[j][2]
      <4>1. ASSUME NEW j \in 1..n, NEW k \in 1..n, j < k, B[j][1] = B[k][1] PROVE ~B[j][2]
        <5>1. PICK x, y : x = j + 1 /\ y = k + 1
          OBVIOUS
        <5>2. x \in 1..(n + 1) /\ y \in 1..(n + 1) /\ x < y
          BY <3>3, <3>5, <4>1, <5>1
        <5>3. B[j] = A[x] /\ B[k] = A[y]
          BY <3>2, <5>1
        <5> QED
          BY <2>5, <4>1, <5>2, <5>3
      <4> QED
        BY <4>1
    <3> QED
      BY <1>2, <2>6, <3>2, <3>4, <3>6 DEF RecordsTrue
  <2>9. CASE ~(n + 1 > MaxItemRecords)
    <3>1. B = A /\ Len(B) <= MaxItemRecords
      BY <1>2, <2>2, <2>7, <2>9
    <3> QED
      BY <2>2, <2>4, <2>5, <2>6, <3>1 DEF RecordsTrue
  <2> QED
    BY <2>8, <2>9
<1> QED
  BY <1>6, <1>7

LEMMA TodoKeeps ==
  ASSUME ItemsInv, NEW i \in Items, NEW o \in Outcomes, outcome' = [outcome EXCEPT ![i] = o],
         UNCHANGED <<providers, called>>, todo' \in [Calls -> Seq(Items)],
         \A n \in Calls : /\ IsInjective(todo'[n]) /\ Range(todo'[n]) \subseteq Range(todo[n])
                          /\ i \notin Range(todo'[n])
                          /\ n \notin called => todo'[n] = <<>> /\ i \notin Range(ItemsOf(n))
  PROVE  ItemsPlaced'
<1>1. /\ outcome' \in [Items -> Outcomes]
      /\ \A x \in Items : x # i => outcome'[x] = outcome[x]
  BY DEF ItemsInv, ItemsPlaced
<1>2. ASSUME NEW n \in Calls
      PROVE  /\ IsInjective(todo'[n]) /\ Range(todo'[n]) \subseteq Range(ItemsOf(n))
             /\ \A x \in Range(todo'[n]) : Untouched(x)'
             /\ n \notin called => todo'[n] = <<>> /\ \A x \in Range(ItemsOf(n)) : Untouched(x)'
  <2>1. Range(todo[n]) \subseteq Range(ItemsOf(n)) /\ Range(ItemsOf(n)) \subseteq Items
    BY ItemFacts DEF ItemsInv, ItemsPlaced
  <2>2. \A x \in Range(todo'[n]) : Untouched(x)'
    BY <1>1, <2>1 DEF ItemsInv, ItemsPlaced, Untouched
  <2>3. n \notin called => \A x \in Range(ItemsOf(n)) : Untouched(x)'
    BY <1>1, <2>1 DEF ItemsInv, ItemsPlaced, Untouched
  <2> QED
    BY <2>1, <2>2, <2>3
<1> QED
  BY <1>1, <1>2 DEF ItemsInv, ItemsPlaced

RetriesHeld(P, m, z) ==
  /\ P \in Seq(Entries) /\ DOMAIN P = 1..m /\ z \in Entries \cup {Nothing}
  /\ \A i \in Items : outcome[i].tries <= MaxItemRetries + 1
  /\ \A j, k \in 1..m : P[j].item = P[k].item => j = k
  /\ \A k \in 1..m : P[k].item # z.item /\ Owed(P[k].item) /\ P[k].count = outcome[P[k].item].tries
  /\ z # Nothing => Owed(z.item) /\ z.count = outcome[z.item].tries
  /\ \A i \in Items : Owed(i) => z.item = i \/ \E k \in 1..m : P[k].item = i

LEMMA RetriesAre ==
  ASSUME NEW m, NEW P, NEW z, P = itemQueue', z = retry', RetriesHeld(P, m, z)'
  PROVE  RetriesPlaced'
<1>1. itemQueue' \in Seq(Entries) /\ retry' \in Entries \cup {Nothing}
  BY DEF RetriesHeld
<1>2. \A j, k \in DOMAIN itemQueue' : itemQueue'[j].item = itemQueue'[k].item => j = k
  BY DEF RetriesHeld
<1>3. \A k \in DOMAIN itemQueue' :
        /\ itemQueue'[k].item # retry'.item
        /\ outcome'[itemQueue'[k].item].tries \in 1..MaxItemRetries
        /\ outcome'[itemQueue'[k].item].end = "none"
        /\ itemQueue'[k].count = outcome'[itemQueue'[k].item].tries
  BY DEF RetriesHeld, Owed
<1>4. retry' # Nothing => /\ outcome'[retry'.item].tries \in 1..MaxItemRetries
                          /\ outcome'[retry'.item].end = "none"
                          /\ retry'.count = outcome'[retry'.item].tries
  BY DEF RetriesHeld, Owed
<1>5. \A i \in Items : outcome'[i].tries \in 1..MaxItemRetries /\ outcome'[i].end = "none" =>
        retry'.item = i \/ \E k \in DOMAIN itemQueue' : itemQueue'[k].item = i
  BY DEF RetriesHeld, Owed
<1>6. \A i \in Items : outcome'[i].tries <= MaxItemRetries + 1
  BY DEF RetriesHeld
<1> QED
  BY <1>1, <1>2, <1>3, <1>4, <1>5, <1>6, Zenon DEF RetriesPlaced, Owed

(* The queue after an item became as `o` says.                             *)
Requeued(i, o) ==
  IF o.tries \in 1..MaxItemRetries /\ o.end = "none"
  THEN Append(itemQueue, [item |-> i, count |-> o.tries]) ELSE itemQueue

LEMMA RetriesKeep ==
  ASSUME ItemsInv, NEW i \in Items, NEW o \in Outcomes, outcome' = [outcome EXCEPT ![i] = o],
         o.tries <= MaxItemRetries + 1,
         \A k \in DOMAIN itemQueue : itemQueue[k].item # i,
         \/ retry' = retry /\ retry.item # i
         \/ retry' = Nothing /\ retry.item \in {i, "none"},
         itemQueue' = Requeued(i, o)
  PROVE  RetriesPlaced'
<1>1. PICK Q, n : Q = itemQueue /\ n = Len(Q)
  OBVIOUS
<1>2. /\ Q \in Seq(Entries) /\ n \in Nat /\ DOMAIN Q = 1..n /\ retry \in Entries \cup {Nothing}
      /\ \A k \in 1..n : Q[k] \in Entries /\ Q[k].item \in Items /\ Q[k].item # i
      /\ \A j, k \in 1..n : Q[j].item = Q[k].item => j = k
      /\ \A k \in 1..n : /\ Q[k].item # retry.item /\ Owed(Q[k].item)
                         /\ Q[k].count = outcome[Q[k].item].tries
      /\ retry # Nothing => Owed(retry.item) /\ retry.count = outcome[retry.item].tries
      /\ \A x \in Items : Owed(x) => retry.item = x \/ \E k \in 1..n : Q[k].item = x
      /\ \A x \in Items : outcome[x].tries <= MaxItemRetries + 1
  <2>1. Q \in Seq(Entries) /\ n \in Nat /\ DOMAIN Q = 1..n
    BY <1>1, ListDomain DEF ItemsInv, RetriesPlaced
  <2>2. \A k \in 1..n : Q[k] \in Entries
    BY <2>1
  <2>3. \A k \in 1..n : Q[k].item \in Items
    BY <2>2 DEF Entries
  <2> QED
    BY <1>1, <2>1, <2>2, <2>3 DEF ItemsInv, RetriesPlaced
<1>3. /\ outcome'[i] = o
      /\ \A x \in Items : x # i => outcome'[x] = outcome[x]
  BY DEF ItemsInv, ItemsPlaced
<1>4. \A x \in Items : x # i => (Owed(x)' <=> Owed(x)) /\ outcome'[x].tries = outcome[x].tries
  BY <1>3 DEF Owed
<1>5. Owed(i)' <=> o.tries \in 1..MaxItemRetries /\ o.end = "none"
  BY <1>3 DEF Owed
<1>0. PICK z : z = retry'
  OBVIOUS
<1>6. z \in Entries \cup {Nothing} /\ "none" \notin Items /\ z.item # i
  BY <1>0, <1>2, ItemFacts DEF Nothing
<1>7. \A x \in Items : outcome'[x].tries <= MaxItemRetries + 1
  BY <1>2, <1>3
<1>8. z # Nothing => z.item \in Items /\ z = retry /\ retry # Nothing
  BY <1>0, <1>2, <1>6 DEF Entries
<1>9. z # Nothing => Owed(z.item)' /\ z.count = outcome'[z.item].tries
  BY <1>2, <1>4, <1>6, <1>8
<1>10. \A k \in 1..n : /\ Q[k].item # z.item /\ Owed(Q[k].item)'
                       /\ Q[k].count = outcome'[Q[k].item].tries
  <2>1. \A k \in 1..n : Q[k].item # z.item
    BY <1>0, <1>2, <1>6 DEF Nothing
  <2> QED
    BY <1>2, <1>4, <2>1
<1>11. \A x \in Items : x # i /\ Owed(x)' => z.item = x \/ \E k \in 1..n : Q[k].item = x
  <2>1. ASSUME NEW x \in Items, x # i, Owed(x)' PROVE z.item = x \/ \E k \in 1..n : Q[k].item = x
    <3>1. Owed(x)
      BY <1>4, <2>1
    <3>2. retry.item = x => z = retry
      BY <1>0, <1>6, <2>1
    <3> QED
      BY <1>2, <3>1, <3>2
  <2> QED
    BY <2>1
<1>12. PICK P : P = itemQueue'
  OBVIOUS
<1>13. CASE ~Owed(i)'
  <2>1. P = Q
    BY <1>1, <1>5, <1>12, <1>13 DEF Requeued
  <2>2. \A x \in Items : Owed(x)' => z.item = x \/ \E k \in 1..n : Q[k].item = x
    BY <1>11, <1>13
  <2> QED
    <3>1. RetriesHeld(Q, n, z)'
      BY <1>2, <1>6, <1>7, <1>9, <1>10, <2>2 DEF RetriesHeld
    <3> QED
      BY <1>0, <1>12, <2>1, <3>1, RetriesAre
<1>14. CASE Owed(i)'
  <2>1. PICK e : e = [item |-> i, count |-> o.tries]
    OBVIOUS
  <2>2. e \in Entries /\ e.item = i /\ e.count = o.tries
    BY <1>5, <1>14, <2>1 DEF Entries
  <2>3. P = Append(Q, e)
    BY <1>1, <1>5, <1>12, <1>14, <2>1 DEF Requeued
  <2>4. /\ P \in Seq(Entries) /\ DOMAIN P = 1..(n + 1)
        /\ \A k \in 1..n : P[k] = Q[k]
        /\ P[n + 1] = e
    BY <1>1, <1>2, <2>2, <2>3, Appended
  <2>5. (\A k \in 1..(n + 1) : k \in 1..n \/ k = n + 1) /\ n + 1 \in 1..(n + 1) /\ 1..n \subseteq 1..(n + 1)
    BY <1>2
  <2>6. \A j, k \in 1..(n + 1) : P[j].item = P[k].item => j = k
    BY <1>2, <2>2, <2>4, <2>5
  <2>7. \A k \in 1..(n + 1) : /\ P[k].item # z.item /\ Owed(P[k].item)'
                              /\ P[k].count = outcome'[P[k].item].tries
    BY <1>3, <1>6, <1>10, <1>14, <2>2, <2>4, <2>5
  <2>8. \A x \in Items : Owed(x)' => z.item = x \/ \E k \in 1..(n + 1) : P[k].item = x
    <3>1. ASSUME NEW x \in Items, Owed(x)', z.item # x PROVE \E k \in 1..(n + 1) : P[k].item = x
      <4>1. CASE x = i
        BY <2>2, <2>4, <2>5, <4>1
      <4>2. CASE x # i
        BY <1>11, <2>4, <2>5, <3>1, <4>2
      <4> QED
        BY <4>1, <4>2
    <3> QED
      BY <3>1
  <2> QED
    <3>1. RetriesHeld(P, n + 1, z)'
      BY <1>6, <1>7, <1>9, <2>4, <2>6, <2>7, <2>8 DEF RetriesHeld
    <3> QED
      BY <1>0, <1>12, <3>1, RetriesAre
<1> QED
  BY <1>13, <1>14

LEMMA OutcomesStay ==
  ASSUME ItemsInv, UNCHANGED outcome
  PROVE  /\ itemRecords' = itemRecords => RecordsTrue'
         /\ UNCHANGED <<itemQueue, retry>> => RetriesPlaced'
         /\ UNCHANGED <<called, todo>> /\ providers' \subseteq Channels => ItemsPlaced'
BY SMTT(30) DEF ItemsInv, ItemsPlaced, RetriesPlaced, RecordsTrue, Owed, Untouched

LEMMA QuietSteps ==
  ASSUME ItemsInv,
         \/ \E c \in Channels : RegisterProvider(c)
         \/ \E n \in Calls : SendAlert(n)
         \/ StartRetryWorker \/ TakeRetry
  PROVE  ItemsInv'
<1>1. providers \subseteq Channels
  BY DEF ItemsInv, ItemsPlaced
<1>2. ASSUME NEW c \in Channels, RegisterProvider(c) PROVE ItemsInv'
  BY <1>1, <1>2, OutcomesStay DEF ItemsInv, RegisterProvider
<1>3. CASE StartRetryWorker
  BY <1>1, <1>3, OutcomesStay DEF ItemsInv, StartRetryWorker
<1>4. ASSUME NEW n \in Calls, SendAlert(n) PROVE ItemsInv'
  <2>1. /\ n \notin called /\ called' = called \cup {n}
        /\ todo' = [todo EXCEPT ![n] = Ahead(ItemsOf(n))]
        /\ UNCHANGED <<providers, itemQueue, itemRecords, retry, outcome>>
    BY <1>4 DEF SendAlert
  <2>2. /\ Ahead(ItemsOf(n)) \in Seq(Items) /\ IsInjective(Ahead(ItemsOf(n)))
        /\ Range(Ahead(ItemsOf(n))) \subseteq Range(ItemsOf(n))
    BY ItemFacts, AheadIs
  <2>3. /\ todo' \in [Calls -> Seq(Items)] /\ todo'[n] = Ahead(ItemsOf(n))
        /\ \A m \in Calls : m # n => todo'[m] = todo[m]
    BY <2>1, <2>2 DEF ItemsInv, ItemsPlaced
  <2>4. \A i : Untouched(i)' <=> Untouched(i)
    BY <2>1 DEF Untouched
  <2>5. \A i \in Range(ItemsOf(n)) : Untouched(i)
    BY <2>1 DEF ItemsInv, ItemsPlaced
  <2>6. ASSUME NEW m \in Calls
        PROVE  /\ IsInjective(todo'[m]) /\ Range(todo'[m]) \subseteq Range(ItemsOf(m))
               /\ \A i \in Range(todo'[m]) : Untouched(i)'
               /\ m \notin called' => todo'[m] = <<>> /\ \A i \in Range(ItemsOf(m)) : Untouched(i)'
    <3>1. CASE m = n
      BY <2>1, <2>2, <2>3, <2>4, <2>5, <3>1
    <3>2. CASE m # n
      BY <2>1, <2>3, <2>4, <3>2 DEF ItemsInv, ItemsPlaced
    <3> QED
      BY <3>1, <3>2
  <2>7. ItemsPlaced'
    BY <2>1, <2>3, <2>6 DEF ItemsInv, ItemsPlaced
  <2> QED
    BY <2>1, <2>7, OutcomesStay DEF ItemsInv
<1>5. CASE TakeRetry
  <2>1. PICK Q, n : Q = itemQueue /\ n = Len(Q)
    OBVIOUS
  <2>2. /\ retry = Nothing /\ Q # <<>> /\ retry' = Head(Q) /\ itemQueue' = Tail(Q)
        /\ UNCHANGED <<providers, called, todo, itemRecords, outcome>>
    BY <1>5, <2>1 DEF TakeRetry
  <2>3. Q \in Seq(Entries) /\ \A k \in DOMAIN Q : Q[k] \in Entries /\ Q[k].item \in Items
    <3>1. Q \in Seq(Entries)
      BY <2>1 DEF ItemsInv, RetriesPlaced
    <3>2. \A k \in DOMAIN Q : Q[k] \in Entries
      BY <3>1
    <3> QED
      BY <3>1, <3>2 DEF Entries
  <2>4. /\ n \in Nat \ {0} /\ DOMAIN Q = 1..n /\ Head(Q) = Q[1]
        /\ Tail(Q) \in Seq(Entries) /\ DOMAIN Tail(Q) = 1..(n - 1) /\ \A k \in 1..(n - 1) : Tail(Q)[k] = Q[k + 1]
    BY <2>1, <2>2, <2>3, Shortened
  <2>5. PICK T, h : T = Tail(Q) /\ h = Q[1]
    OBVIOUS
  <2>6. /\ T \in Seq(Entries) /\ DOMAIN T = 1..(n - 1) /\ h \in Entries /\ h # Nothing /\ h.item \in Items
        /\ \A k \in 1..(n - 1) : T[k] = Q[k + 1]
        /\ itemQueue' = T /\ retry' = h
    <3>1. 1 \in 1..n
      BY <2>4
    <3>2. h \in Entries /\ h.item \in Items
      BY <2>3, <2>4, <2>5, <3>1
    <3>3. h # Nothing
      BY <3>2, ItemFacts DEF Nothing
    <3> QED
      BY <2>2, <2>4, <2>5, <3>2, <3>3
  <2>7. (\A k \in 1..(n - 1) : k + 1 \in 1..n /\ k + 1 # 1) /\ 1 \in 1..n
        /\ \A j, k \in 1..(n - 1) : j + 1 = k + 1 => j = k
    BY <2>4
  <2>8. /\ \A j, k \in 1..n : Q[j].item = Q[k].item => j = k
        /\ \A k \in 1..n : Owed(Q[k].item) /\ Q[k].count = outcome[Q[k].item].tries
        /\ \A i \in Items : Owed(i) => \E k \in 1..n : Q[k].item = i
        /\ \A i \in Items : outcome[i].tries <= MaxItemRetries + 1
    BY <2>1, <2>2, <2>4, ItemFacts, SMTT(30) DEF ItemsInv, RetriesPlaced, Nothing
  <2>9. \A j, k \in 1..(n - 1) : T[j].item = T[k].item => j = k
    <3>1. ASSUME NEW j \in 1..(n - 1), NEW k \in 1..(n - 1), T[j].item = T[k].item PROVE j = k
      <4>1. PICK x, y : x = j + 1 /\ y = k + 1
        OBVIOUS
      <4>2. x \in 1..n /\ y \in 1..n /\ T[j] = Q[x] /\ T[k] = Q[y]
        BY <2>6, <2>7, <4>1
      <4>3. x = y
        BY <2>8, <3>1, <4>2
      <4> QED
        BY <2>7, <4>1, <4>3
    <3> QED
      BY <3>1
  <2>10. \A k \in 1..(n - 1) : T[k].item # h.item /\ Owed(T[k].item) /\ T[k].count = outcome[T[k].item].tries
    <3>1. ASSUME NEW k \in 1..(n - 1)
          PROVE  T[k].item # h.item /\ Owed(T[k].item) /\ T[k].count = outcome[T[k].item].tries
      <4>1. PICK x : x = k + 1
        OBVIOUS
      <4>2. x \in 1..n /\ x # 1 /\ T[k] = Q[x]
        BY <2>6, <2>7, <4>1
      <4> QED
        <5>1. Owed(Q[x].item) /\ Q[x].count = outcome[Q[x].item].tries
          BY <2>8, <4>2
        <5>2. Q[x].item # Q[1].item
          BY <2>7, <2>8, <4>2
        <5> QED
          BY <2>5, <4>2, <5>1, <5>2
    <3> QED
      BY <3>1
  <2>11. Owed(h.item) /\ h.count = outcome[h.item].tries
    BY <2>5, <2>7, <2>8
  <2>12. \A i \in Items : Owed(i) => h.item = i \/ \E k \in 1..(n - 1) : T[k].item = i
    <3>1. \A k \in 1..n : k = 1 \/ \E j \in 1..(n - 1) : k = j + 1
      <4>1. \A k \in 1..n : k # 1 => k - 1 \in 1..(n - 1) /\ k = (k - 1) + 1
        BY <2>4
      <4> QED
        BY <4>1
    <3>2. ASSUME NEW i \in Items, Owed(i), h.item # i PROVE \E k \in 1..(n - 1) : T[k].item = i
      <4>1. PICK k \in 1..n : Q[k].item = i
        BY <2>8, <3>2
      <4>2. PICK j \in 1..(n - 1) : k = j + 1
        BY <2>5, <3>1, <3>2, <4>1
      <4>3. T[j] = Q[k]
        BY <2>6, <4>2
      <4> QED
        BY <4>1, <4>3
    <3> QED
      BY <3>2
  <2>13. RetriesPlaced'
    <3>1. \A i : Owed(i)' <=> Owed(i)
      BY <2>2 DEF Owed
    <3> QED
      <4>1. \A i : outcome'[i] = outcome[i]
        BY <2>2
      <4>2. RetriesHeld(T, n - 1, h)'
        BY <2>6, <2>8, <2>9, <2>10, <2>11, <2>12, <3>1, <4>1 DEF RetriesHeld
      <4> QED
        BY <2>6, <4>2, RetriesAre
  <2> QED
    BY <1>1, <2>2, <2>13, OutcomesStay DEF ItemsInv
<1> QED
  BY <1>2, <1>3, <1>4, <1>5

(* The item a call is sending: untouched, and of that call only.           *)
LEMMA Sent ==
  ASSUME ItemsInv, NEW n \in Calls, todo[n] # <<>>
  PROVE  /\ Head(todo[n]) \in Items /\ outcome[Head(todo[n])] = [tries |-> 0, end |-> "none"]
         /\ n \in called /\ Tail(todo[n]) \in Seq(Items) /\ IsInjective(Tail(todo[n]))
         /\ Range(Tail(todo[n])) = Range(todo[n]) \ {Head(todo[n])}
         /\ \A m \in Calls : /\ m # n => Head(todo[n]) \notin Range(todo[m])
                             /\ m \notin called => Head(todo[n]) \notin Range(ItemsOf(m))
         /\ \A k \in DOMAIN itemQueue : itemQueue[k].item # Head(todo[n])
         /\ retry.item # Head(todo[n])
<1>1. PICK t, i : t = todo[n] /\ i = Head(t)
  OBVIOUS
<1>2. t \in Seq(Items) /\ IsInjective(t) /\ t # <<>> /\ Range(t) \subseteq Range(ItemsOf(n))
  BY <1>1 DEF ItemsInv, ItemsPlaced
<1>3. /\ i \in Items /\ Tail(t) \in Seq(Items) /\ IsInjective(Tail(t)) /\ Range(Tail(t)) = Range(t) \ {i}
      /\ i \in Range(t)
  BY <1>1, <1>2, Shortened, TailOnce
<1>4. outcome[i] = [tries |-> 0, end |-> "none"] /\ n \in called
  BY <1>1, <1>2, <1>3 DEF ItemsInv, ItemsPlaced, Untouched
<1>5. i \in Range(ItemsOf(n))
  BY <1>2, <1>3
<1>6. ASSUME NEW m \in Calls
      PROVE  /\ m # n => i \notin Range(todo[m])
             /\ m \notin called => i \notin Range(ItemsOf(m))
  <2>1. Range(todo[m]) \subseteq Range(ItemsOf(m))
    BY DEF ItemsInv, ItemsPlaced
  <2>2. m # n => i \notin Range(ItemsOf(m))
    BY <1>5, ItemFacts
  <2> QED
    BY <1>4, <2>1, <2>2
<1>7. ~Owed(i)
  BY <1>4, ItemFacts DEF Owed
<1>8. \A k \in DOMAIN itemQueue : itemQueue[k].item # i
  BY <1>7 DEF ItemsInv, RetriesPlaced
<1>9. retry.item # i
  <2>1. Nothing.item # i
    BY <1>3, ItemFacts DEF Nothing
  <2> QED
    BY <1>7, <2>1 DEF ItemsInv, RetriesPlaced
<1> QED
  BY <1>1, <1>3, <1>4, <1>6, <1>8, <1>9

LEMMA ProviderSteps ==
  ASSUME ItemsInv, NEW n \in Calls,
         SendAlertAborted(n) \/ \E ok \in BOOLEAN : ProviderAnswers(n, ok)
  PROVE  ItemsInv'
<1>1. todo[n] # <<>> /\ UNCHANGED <<providers, called, retry>>
  BY DEF SendAlertAborted, ProviderAnswers
<1>2. PICK t, i : t = todo[n] /\ i = Head(t)
  OBVIOUS
<1>3. /\ i \in Items /\ outcome[i] = [tries |-> 0, end |-> "none"] /\ outcome[i].end = "none"
      /\ n \in called /\ Tail(t) \in Seq(Items) /\ IsInjective(Tail(t)) /\ Range(Tail(t)) = Range(t) \ {i}
      /\ \A m \in Calls : m # n => i \notin Range(todo[m])
      /\ \A m \in Calls : m \notin called => i \notin Range(ItemsOf(m))
      /\ \A k \in DOMAIN itemQueue : itemQueue[k].item # i
      /\ retry.item # i
  BY <1>1, <1>2, Sent
<1>4. /\ outcome \in [Items -> Outcomes] /\ todo \in [Calls -> Seq(Items)]
      /\ \A m \in Calls : IsInjective(todo[m]) /\ (m \notin called => todo[m] = <<>>)
  BY DEF ItemsInv, ItemsPlaced
<1>5. MaxItemRetries \in Nat
  BY ItemFacts
<1>6. ASSUME NEW u \in Seq(Items), IsInjective(u), Range(u) \subseteq Range(t) \ {i}, todo' = [todo EXCEPT ![n] = u],
             NEW o \in Outcomes, outcome' = [outcome EXCEPT ![i] = o]
      PROVE  ItemsPlaced'
  <2>1. /\ todo' \in [Calls -> Seq(Items)] /\ todo'[n] = u
        /\ \A m \in Calls : m # n => todo'[m] = todo[m]
    BY <1>4, <1>6
  <2>2. ASSUME NEW m \in Calls
        PROVE  /\ IsInjective(todo'[m]) /\ Range(todo'[m]) \subseteq Range(todo[m]) /\ i \notin Range(todo'[m])
               /\ m \notin called => todo'[m] = <<>> /\ i \notin Range(ItemsOf(m))
    <3>1. CASE m = n
      BY <1>2, <1>3, <1>6, <2>1, <3>1
    <3>2. CASE m # n
      BY <1>3, <1>4, <2>1, <3>2
    <3> QED
      BY <3>1, <3>2
  <2> QED
    BY <1>1, <1>3, <1>6, <2>1, <2>2, TodoKeeps
<1>7. CASE SendAlertAborted(n)
  <2>1. /\ todo' = [todo EXCEPT ![n] = <<>>] /\ UNCHANGED <<itemQueue, itemRecords>>
        /\ outcome' = [outcome EXCEPT ![i].end = "aborted"]
    BY <1>2, <1>7 DEF SendAlertAborted
  <2>2. PICK o : o = [tries |-> 0, end |-> "aborted"]
    OBVIOUS
  <2>3. outcome' = [outcome EXCEPT ![i] = o] /\ o \in Outcomes /\ o.tries = 0 /\ o.end = "aborted"
    <3>1. outcome[i] = [tries |-> 0, end |-> "none"]
      BY <1>3
    <3>2. [outcome[i] EXCEPT !.end = "aborted"] = o
      BY <2>2, <3>1
    <3>3. o \in Outcomes /\ o.tries = 0 /\ o.end = "aborted"
      BY <2>2 DEF Outcomes
    <3> QED
      BY <1>3, <1>4, <2>1, <3>2, <3>3
  <2>4. ItemsPlaced'
    <3>1. PICK u : u = <<>>
      OBVIOUS
    <3>2. u \in Seq(Items) /\ DOMAIN u = {}
      BY <3>1
    <3>3. IsInjective(u) /\ Range(u) \subseteq Range(t) \ {i}
      BY <3>2, Zenon DEF IsInjective, Range
    <3> QED
      BY <1>6, <2>1, <2>3, <3>1, <3>2, <3>3
  <2>5. RetriesPlaced'
    <3>1. itemQueue' = Requeued(i, o)
      BY <2>1, <2>3 DEF Requeued
    <3>2. 0 <= MaxItemRetries + 1 /\ retry' = retry
      BY <1>1, <1>5
    <3> QED
      BY <1>3, <2>3, <3>1, <3>2, RetriesKeep
  <2>6. RecordsTrue'
    BY <1>3, <2>1, <2>3, RecordsKeep
  <2> QED
    BY <2>4, <2>5, <2>6 DEF ItemsInv
<1>8. ASSUME NEW ok \in BOOLEAN, ProviderAnswers(n, ok) PROVE ItemsInv'
  <2>1. /\ itemRecords' = Stored(i, ok) /\ outcome' = Noted(i, ok)
        /\ itemQueue' = IF ok THEN itemQueue ELSE QueueRetry(i, 0)
        /\ todo' = [todo EXCEPT ![n] = Ahead(Tail(t))]
    BY <1>2, <1>8 DEF ProviderAnswers
  <2>2. PICK o : o = [tries |-> 1, end |-> IF ok THEN "delivered" ELSE "none"]
    OBVIOUS
  <2>3. /\ outcome' = [outcome EXCEPT ![i] = o] /\ o \in Outcomes /\ o.tries = 1
        /\ o.end = IF ok THEN "delivered" ELSE "none"
    <3>1. outcome' = [outcome EXCEPT ![i] = [tries |-> outcome[i].tries + 1, end |-> IF ok THEN "delivered" ELSE outcome[i].end]]
      BY <2>1 DEF Noted
    <3>2. outcome[i].tries = 0 /\ outcome[i].end = "none"
      BY <1>3
    <3> QED
      BY <2>2, <3>1, <3>2 DEF Outcomes
  <2>4. ItemsPlaced'
    <3>1. PICK u : u = Ahead(Tail(t))
      OBVIOUS
    <3>2. u \in Seq(Items) /\ IsInjective(u) /\ Range(u) \subseteq Range(t) \ {i}
      BY <1>3, <3>1, AheadIs
    <3> QED
      BY <1>6, <2>1, <2>3, <3>1, <3>2
  <2>5. itemQueue' = Requeued(i, o)
    <3>1. QueueRetry(i, 0) = IF 0 < MaxItemRetries THEN Append(itemQueue, [item |-> i, count |-> 1]) ELSE itemQueue
      BY DEF QueueRetry
    <3>2. 1 \in 1..MaxItemRetries <=> 0 < MaxItemRetries
      BY <1>5
    <3> QED
      BY <2>1, <2>3, <3>1, <3>2, Zenon DEF Requeued
  <2>6. RetriesPlaced'
    <3>1. 1 <= MaxItemRetries + 1 /\ retry' = retry
      BY <1>1, <1>5
    <3> QED
      BY <1>3, <2>3, <2>5, <3>1, RetriesKeep
  <2>7. RecordsTrue'
    BY <1>3, <2>1, <2>3, RecordsKeep
  <2> QED
    BY <2>4, <2>6, <2>7 DEF ItemsInv
<1> QED
  BY <1>7, <1>8

LEMMA RetrySteps ==
  ASSUME ItemsInv, StopRetryWorker \/ RetryRaises \/ \E ok \in BOOLEAN : RetryAnswered(ok)
  PROVE  ItemsInv'
<1>1. UNCHANGED <<providers, called, todo>> /\ retry' = Nothing
  BY DEF StopRetryWorker, RetryRaises, RetryAnswered
<1>2. CASE retry = Nothing
  <2>1. UNCHANGED <<itemQueue, itemRecords, outcome, retry>>
    BY <1>1, <1>2 DEF StopRetryWorker, RetryRaises, RetryAnswered
  <2> QED
    BY <1>1, <2>1, OutcomesStay DEF ItemsInv, ItemsPlaced
<1>3. CASE retry # Nothing
  <2>1. PICK i, c : i = retry.item /\ c = retry.count
    OBVIOUS
  <2>2. /\ i \in Items /\ c \in 1..MaxItemRetries /\ outcome[i].tries = c /\ outcome[i].end = "none" /\ Owed(i)
        /\ \A k \in DOMAIN itemQueue : itemQueue[k].item # i
    BY <1>3, <2>1 DEF ItemsInv, RetriesPlaced, Entries, Owed
  <2>3. /\ outcome \in [Items -> Outcomes] /\ todo \in [Calls -> Seq(Items)] /\ MaxItemRetries \in Nat
    BY ItemFacts DEF ItemsInv, ItemsPlaced
  <2>4. ~Untouched(i)
    BY <2>2, <2>3 DEF Untouched
  <2>5. ASSUME NEW o \in Outcomes, outcome' = [outcome EXCEPT ![i] = o]
        PROVE  ItemsPlaced'
    <3>1. ASSUME NEW n \in Calls
          PROVE  /\ IsInjective(todo[n]) /\ i \notin Range(todo[n])
                 /\ n \notin called => todo[n] = <<>> /\ i \notin Range(ItemsOf(n))
      BY <2>4 DEF ItemsInv, ItemsPlaced
    <3> QED
      BY <1>1, <2>2, <2>3, <2>5, <3>1, TodoKeeps
  <2>6. CASE StopRetryWorker \/ RetryRaises
    <3>1. /\ UNCHANGED <<itemQueue, itemRecords>> /\ outcome' = [outcome EXCEPT ![i].end = "aborted"]
      BY <1>3, <2>1, <2>6 DEF StopRetryWorker, RetryRaises, GivenUp
    <3>2. PICK o : o = [tries |-> c, end |-> "aborted"]
      OBVIOUS
    <3>3. outcome' = [outcome EXCEPT ![i] = o] /\ o \in Outcomes /\ o.tries = c /\ o.end = "aborted"
      <4>1. outcome[i] \in Outcomes /\ c \in Nat
        BY <2>2, <2>3
      <4>2. o \in Outcomes /\ o.tries = c /\ o.end = "aborted"
        BY <3>2, <4>1 DEF Outcomes
      <4>3. [outcome[i] EXCEPT !.end = "aborted"] = o
        BY <2>2, <3>2, <4>1 DEF Outcomes
      <4> QED
        BY <2>3, <3>1, <4>2, <4>3
    <3>4. c <= MaxItemRetries + 1
      BY <2>2, <2>3
    <3>5. RetriesPlaced'
      <4>1. itemQueue' = Requeued(i, o)
        BY <3>1, <3>3 DEF Requeued
      <4> QED
        BY <1>1, <2>1, <2>2, <3>3, <3>4, <4>1, RetriesKeep
    <3>6. RecordsTrue'
      BY <2>2, <3>1, <3>3, RecordsKeep
    <3> QED
      BY <2>5, <3>3, <3>5, <3>6 DEF ItemsInv
  <2>7. ASSUME NEW ok \in BOOLEAN, RetryAnswered(ok) PROVE ItemsInv'
    <3>1. /\ itemRecords' = Stored(i, ok) /\ outcome' = Noted(i, ok)
          /\ itemQueue' = IF ok THEN itemQueue ELSE QueueRetry(i, c)
      BY <2>1, <2>7 DEF RetryAnswered
    <3>2. PICK o : o = [tries |-> c + 1, end |-> IF ok THEN "delivered" ELSE "none"]
      OBVIOUS
    <3>3. /\ outcome' = [outcome EXCEPT ![i] = o] /\ o \in Outcomes /\ o.tries = c + 1
          /\ o.end = IF ok THEN "delivered" ELSE "none"
      <4>1. outcome' = [outcome EXCEPT ![i] = [tries |-> outcome[i].tries + 1, end |-> IF ok THEN "delivered" ELSE outcome[i].end]]
        BY <3>1 DEF Noted
      <4>2. c + 1 \in Nat
        BY <2>2
      <4> QED
        BY <2>2, <3>2, <4>1, <4>2 DEF Outcomes
    <3>4. itemQueue' = Requeued(i, o)
      <4>1. QueueRetry(i, c) = IF c < MaxItemRetries THEN Append(itemQueue, [item |-> i, count |-> c + 1]) ELSE itemQueue
        BY DEF QueueRetry
      <4>2. c + 1 \in 1..MaxItemRetries <=> c < MaxItemRetries
        BY <2>2, <2>3
      <4>3. "delivered" # "none"
        OBVIOUS
      <4> QED
        BY <3>1, <3>3, <4>1, <4>2, <4>3, Zenon DEF Requeued
    <3>5. c + 1 <= MaxItemRetries + 1
      BY <2>2, <2>3
    <3>6. RetriesPlaced'
      BY <1>1, <2>1, <2>2, <3>3, <3>4, <3>5, RetriesKeep
    <3>7. RecordsTrue'
      BY <2>2, <3>1, <3>3, RecordsKeep
    <3> QED
      BY <2>5, <3>3, <3>6, <3>7 DEF ItemsInv
  <2> QED
    BY <2>6, <2>7
<1> QED
  BY <1>2, <1>3

LEMMA ItemsBegin ==
  ASSUME DeliveryInit
  PROVE  ItemsInv
<1>1. /\ providers = {} /\ called = {} /\ todo = [n \in Calls |-> <<>>]
      /\ itemQueue = <<>> /\ itemRecords = <<>> /\ retry = Nothing
      /\ outcome = [i \in Items |-> [tries |-> 0, end |-> "none"]]
  BY DEF DeliveryInit
<1>2. PICK e : e = <<>>
  OBVIOUS
<1>3. DOMAIN e = {} /\ Len(e) = 0 /\ \A S : e \in Seq(S)
  BY <1>2
<1>4. IsInjective(e) /\ Range(e) = {}
  BY <1>3, Zenon DEF IsInjective, Range
<1>5. \A i \in Items : Untouched(i) /\ ~Owed(i) /\ outcome[i].tries = 0
  BY <1>1, ItemFacts DEF Untouched, Owed
<1>6. ItemsPlaced
  <2>1. outcome \in [Items -> Outcomes]
    BY <1>1 DEF Outcomes
  <2>2. todo \in [Calls -> Seq(Items)] /\ \A n \in Calls : todo[n] = e
    BY <1>1, <1>2, <1>3
  <2>3. \A n \in Calls : Range(ItemsOf(n)) \subseteq Items
    BY ItemFacts
  <2>4. \A n \in Calls : \A i \in Range(ItemsOf(n)) : Untouched(i)
    BY <1>5, <2>3
  <2> QED
    BY <1>1, <1>2, <1>4, <2>1, <2>2, <2>4 DEF ItemsPlaced
<1>7. RetriesPlaced
  <2>1. 0 <= MaxItemRetries + 1
    BY ItemFacts
  <2> QED
    BY <1>1, <1>2, <1>3, <1>5, <2>1 DEF RetriesPlaced
<1>8. RecordsTrue
  BY <1>1, <1>2, <1>3, ItemFacts DEF RecordsTrue
<1> QED
  BY <1>6, <1>7, <1>8 DEF ItemsInv

LEMMA ItemsNextInv ==
  ASSUME ItemsInv, [DeliveryNext]_deliveryVars
  PROVE  ItemsInv'
<1>1. CASE DeliveryNext
  <2>1. \/ \/ \E c \in Channels : RegisterProvider(c)
           \/ \E n \in Calls : SendAlert(n)
           \/ StartRetryWorker \/ TakeRetry
        \/ \E n \in Calls : SendAlertAborted(n) \/ \E ok \in BOOLEAN : ProviderAnswers(n, ok)
        \/ StopRetryWorker \/ RetryRaises \/ \E ok \in BOOLEAN : RetryAnswered(ok)
    BY <1>1, Zenon DEF DeliveryNext
  <2> QED
    BY <2>1, QuietSteps, ProviderSteps, RetrySteps
<1>2. CASE UNCHANGED deliveryVars
  <2>1. UNCHANGED <<providers, called, todo, itemQueue>> /\ UNCHANGED <<itemRecords, retry, outcome>>
    BY <1>2 DEF deliveryVars
  <2> QED
    BY <2>1, OutcomesStay DEF ItemsInv, ItemsPlaced
<1> QED
  BY <1>1, <1>2

LEMMA ItemsTyped ==
  ASSUME ItemsInv
  PROVE  DeliveryTypeOK
BY DEF ItemsInv, ItemsPlaced, RetriesPlaced, RecordsTrue, DeliveryTypeOK, Entries

LEMMA ItemsCounted ==
  ASSUME ItemsInv
  PROVE  ItemsAccounted
<1>1. ASSUME NEW i \in Items
      PROVE  /\ outcome[i].tries <= MaxItemRetries + 1
             /\ Cardinality(Waiting(i)) + (IF retry.item = i THEN 1 ELSE 0)
                  = (IF outcome[i].tries \in 1..MaxItemRetries /\ outcome[i].end = "none" THEN 1 ELSE 0)
             /\ \A k \in Waiting(i) : itemQueue[k].count = outcome[i].tries
             /\ outcome[i].end = "delivered" => \A k \in DOMAIN itemRecords :
                  itemRecords[k] = <<i, TRUE>> => \A j \in DOMAIN itemRecords : j > k => itemRecords[j][1] # i
  <2>1. outcome[i].tries <= MaxItemRetries + 1 /\ \A k \in Waiting(i) : itemQueue[k].count = outcome[i].tries
    BY DEF ItemsInv, RetriesPlaced, Waiting
  <2>2. Cardinality(Waiting(i)) + (IF retry.item = i THEN 1 ELSE 0) = (IF Owed(i) THEN 1 ELSE 0)
    <3>1. Cardinality({}) = 0 /\ \A k : Cardinality({k}) = 1
      BY FS_EmptySet, FS_Singleton
    <3>2. retry.item = i => Owed(i)
      BY ItemFacts DEF ItemsInv, RetriesPlaced, Nothing
    <3>3. \A k \in Waiting(i) : Waiting(i) = {k} /\ retry.item # i /\ Owed(i)
      BY DEF ItemsInv, RetriesPlaced, Waiting
    <3>4. Owed(i) => retry.item = i \/ Waiting(i) # {}
      BY DEF ItemsInv, RetriesPlaced, Waiting
    <3>5. CASE Waiting(i) = {}
      <4>1. Cardinality(Waiting(i)) = 0
        BY <3>1, <3>5, Zenon
      <4>2. retry.item = i <=> Owed(i)
        BY <3>2, <3>4, <3>5
      <4> QED
        BY <4>1, <4>2
    <3>6. CASE Waiting(i) # {}
      <4>1. PICK k \in Waiting(i) : TRUE
        BY <3>6
      <4>2. Waiting(i) = {k} /\ retry.item # i /\ Owed(i)
        BY <3>3, <4>1
      <4>3. Cardinality(Waiting(i)) = 1
        BY <3>1, <4>2, Zenon
      <4> QED
        BY <4>2, <4>3
    <3> QED
      BY <3>5, <3>6
  <2>3. \A k \in DOMAIN itemRecords :
          itemRecords[k] = <<i, TRUE>> => \A j \in DOMAIN itemRecords : j > k => itemRecords[j][1] # i
    <3>1. ASSUME NEW k \in DOMAIN itemRecords, NEW j \in DOMAIN itemRecords,
                 itemRecords[k] = <<i, TRUE>>, j > k
          PROVE  itemRecords[j][1] # i
      <4>1. j \in Int /\ k \in Int
        <5>1. DOMAIN itemRecords = 1..Len(itemRecords) /\ Len(itemRecords) \in Nat
          BY ListDomain DEF ItemsInv, RecordsTrue
        <5> QED
          BY <3>1, <5>1
      <4>2. k < j
        BY <3>1, <4>1
      <4>3. itemRecords[k][1] = i /\ itemRecords[k][2]
        BY <3>1
      <4> QED
        BY <3>1, <4>2, <4>3 DEF ItemsInv, RecordsTrue
    <3> QED
      BY <3>1
  <2> QED
    BY <2>1, <2>2, <2>3 DEF Owed
<1>2. Len(itemRecords) <= MaxItemRecords
  BY DEF ItemsInv, RecordsTrue
<1> QED
  BY <1>1, <1>2 DEF ItemsAccounted
-----------------------------------------------------------------------------
(* The stream. An event the buffer or the batch holds will be handed over  *)
(* once more, and so will one whose emitter is not through.                *)
Precedes(x, y) == streamed[x] > streamed[y] \/ (streamed[x] = streamed[y] /\ x < y)
Served(s)    == \A i, j \in DOMAIN s : i < j => Precedes(s[i], s[j])

StreamPlaced ==
  /\ streamed \in Seq(Priorities)
  /\ buffer \in Seq(DOMAIN streamed) /\ Len(buffer) <= MaxBuffer /\ Served(buffer)
  /\ batch \in Seq(DOMAIN streamed) /\ IsInjective(batch)
  /\ Range(buffer) \cap Range(batch) = {}

Coming(e) ==
  (IF e \in DOMAIN passes THEN 1 ELSE 0) + (IF e \in Range(buffer) \cup Range(batch) THEN 1 ELSE 0)

PassesTrue ==
  /\ DOMAIN passes \subseteq {0} \cup DOMAIN streamed
  /\ batch # <<>> <=> 0 \in DOMAIN passes
  /\ streamHistory \in Seq(DOMAIN streamed)
  /\ \A e \in DOMAIN streamed : Times(streamHistory, e) + Coming(e) <= 2

CallsTrue ==
  /\ subscriberList \in Seq(StreamSubscribers)
  /\ \A p \in DOMAIN passes :
       /\ passes[p] \in [next : Nat \ {0}, calls : Seq(StreamSubscribers), left : BOOLEAN]
       /\ ~passes[p].left => /\ passes[p].next <= Len(subscriberList) + 1
                             /\ passes[p].calls = SubSeq(subscriberList, 1, passes[p].next - 1)

StreamInv == StreamPlaced /\ PassesTrue /\ CallsTrue

LEMMA StreamFacts ==
  ASSUME StreamInv
  PROVE  /\ DOMAIN streamed = 1..Len(streamed) /\ Len(streamed) \in Nat
         /\ DOMAIN buffer = 1..Len(buffer) /\ Len(buffer) \in Nat
         /\ \A e \in DOMAIN streamed : e \in Nat \ {0} /\ streamed[e] \in Nat /\ streamed[e] \in Priorities
         /\ \A i \in DOMAIN buffer : buffer[i] \in DOMAIN streamed
         /\ 0 \notin DOMAIN streamed
         /\ MaxBuffer \in Nat \ {0} /\ BatchSize \in Nat \ {0} /\ MaxStreamHistory \in Nat \ {0}
         /\ Priorities \subseteq Nat
<1>1. streamed \in Seq(Priorities) /\ buffer \in Seq(DOMAIN streamed)
  BY DEF StreamInv, StreamPlaced
<1>2. DOMAIN streamed = 1..Len(streamed) /\ Len(streamed) \in Nat
  BY <1>1, ListDomain
<1>3. DOMAIN buffer = 1..Len(buffer) /\ Len(buffer) \in Nat
  BY <1>1, ListDomain
<1>4. \A e \in DOMAIN streamed : streamed[e] \in Priorities
  BY <1>1
<1>5. \A i \in DOMAIN buffer : buffer[i] \in DOMAIN streamed
  BY <1>1
<1>6. /\ MaxBuffer \in Nat \ {0} /\ BatchSize \in Nat \ {0} /\ MaxStreamHistory \in Nat \ {0}
      /\ Priorities \subseteq Nat
  BY StreamAssumption DEF StreamAssumption
<1>7. \A e \in DOMAIN streamed : e \in Nat \ {0}
  BY <1>2
<1> QED
  BY <1>2, <1>3, <1>4, <1>5, <1>6, <1>7

LEMMA BufferOnce ==
  ASSUME StreamInv
  PROVE  IsInjective(buffer)
<1>1. ASSUME NEW i \in DOMAIN buffer, NEW j \in DOMAIN buffer, buffer[i] = buffer[j], i # j PROVE FALSE
  <2>1. \A x \in DOMAIN streamed : ~Precedes(x, x)
    <3>1. \A n \in Nat : ~(n > n) /\ ~(n < n)
      OBVIOUS
    <3> QED
      BY <3>1, StreamFacts DEF Precedes
  <2>2. i < j \/ j < i
    BY <1>1, StreamFacts
  <2>3. Precedes(buffer[i], buffer[j]) \/ Precedes(buffer[j], buffer[i])
    BY <1>1, <2>2 DEF StreamInv, StreamPlaced, Served
  <2>4. buffer[i] \in DOMAIN streamed
    BY <1>1, StreamFacts
  <2> QED
    BY <1>1, <2>1, <2>3, <2>4
<1> QED
  BY <1>1 DEF IsInjective

(* The place of the lowest event: of the lowest priority the first.        *)
LEMMA LowestIs ==
  ASSUME StreamInv, buffer # <<>>
  PROVE  /\ Lowest \in DOMAIN buffer
         /\ \A j \in DOMAIN buffer : \/ streamed[buffer[Lowest]] < streamed[buffer[j]]
                                     \/ streamed[buffer[Lowest]] = streamed[buffer[j]] /\ Lowest <= j
<1>1. PICK D, f : D = DOMAIN buffer /\ f = [i \in D |-> streamed[buffer[i]]]
  OBVIOUS
<1>2. D # {} /\ D \in SUBSET Nat /\ \A i \in D : f[i] = streamed[buffer[i]] /\ f[i] \in Nat
  <2>1. Len(buffer) # 0
    BY DEF StreamInv, StreamPlaced
  <2>2. D = 1..Len(buffer) /\ Len(buffer) \in Nat
    BY <1>1, StreamFacts
  <2>3. D # {} /\ D \in SUBSET Nat
    BY <2>1, <2>2
  <2> QED
    BY <1>1, <2>3, StreamFacts
<1>3. PICK v \in {f[i] : i \in D} : \A u \in {f[i] : i \in D} : v <= u
  <2>1. {f[i] : i \in D} \in SUBSET Nat /\ {f[i] : i \in D} # {}
    BY <1>2
  <2> QED
    BY <2>1, LeastElement
<1>4. PICK k \in {i \in D : f[i] = v} : \A j \in {i \in D : f[i] = v} : k <= j
  <2>1. {i \in D : f[i] = v} \in SUBSET Nat /\ {i \in D : f[i] = v} # {}
    BY <1>2, <1>3
  <2> QED
    BY <2>1, LeastElement
<1>5. \A j \in D : f[k] < f[j] \/ (f[k] = f[j] /\ k <= j)
  <2>1. ASSUME NEW j \in D PROVE f[k] < f[j] \/ (f[k] = f[j] /\ k <= j)
    <3>1. f[k] = v /\ v <= f[j] /\ v \in Nat /\ f[j] \in Nat
      BY <1>2, <1>3, <1>4
    <3>2. CASE f[j] = v
      BY <1>4, <3>1, <3>2
    <3>3. CASE f[j] # v
      BY <3>1, <3>3
    <3> QED
      BY <3>2, <3>3
  <2> QED
    BY <2>1
<1>6. \A j \in DOMAIN buffer : \/ streamed[buffer[k]] < streamed[buffer[j]]
                               \/ streamed[buffer[k]] = streamed[buffer[j]] /\ k <= j
  BY <1>1, <1>2, <1>4, <1>5
<1>7. k \in DOMAIN buffer
  BY <1>1, <1>4
<1> QED
  BY <1>6, <1>7, Zenon DEF Lowest

LEMMA KeptIs ==
  ASSUME StreamInv
  PROVE  /\ Kept \in Seq(DOMAIN streamed) /\ DOMAIN Kept = 1..Len(Kept) /\ Len(Kept) \in Nat /\ Len(Kept) + 1 <= MaxBuffer
         /\ Served(Kept) /\ Range(Kept) \subseteq Range(buffer)
         /\ \A i \in DOMAIN buffer : buffer[i] \notin Range(Kept) => i = Lowest /\ buffer # <<>>
<1>1. PICK S, n : S = DOMAIN streamed /\ n = Len(buffer)
  OBVIOUS
<1>2. /\ buffer \in Seq(S) /\ n \in Nat /\ DOMAIN buffer = 1..n /\ n <= MaxBuffer /\ MaxBuffer \in Nat \ {0}
      /\ Served(buffer)
  BY <1>1, StreamFacts DEF StreamInv, StreamPlaced
<1>3. CASE n < MaxBuffer
  <2>1. Kept = buffer
    BY <1>1, <1>3 DEF Kept
  <2>2. n + 1 <= MaxBuffer
    BY <1>2, <1>3
  <2> QED
    BY <1>1, <1>2, <2>1, <2>2, Zenon DEF Range
<1>4. CASE ~(n < MaxBuffer)
  <2>1. n = MaxBuffer /\ buffer # <<>>
    BY <1>1, <1>2, <1>4
  <2>2. PICK k : k = Lowest
    OBVIOUS
  <2>3. k \in DOMAIN buffer
    BY <2>1, <2>2, LowestIs
  <2>4. PICK t : t = Dropped(buffer, k)
    OBVIOUS
  <2>5. Kept = t
    BY <1>1, <1>4, <2>2, <2>4 DEF Kept, RemoveAt, Dropped
  <2>6. /\ t \in Seq(S) /\ Len(t) = n - 1 /\ DOMAIN t = 1..(n - 1)
        /\ \A i \in 1..(n - 1) : t[i] = buffer[IF i < k THEN i ELSE i + 1]
    BY <1>1, <1>2, <2>3, <2>4, RemovedAt
  <2>7. Range(t) = Range(buffer) \ {buffer[k]}
    BY <1>1, <1>2, <2>3, <2>4, BufferOnce, RemovedOnce
  <2>8. Served(t)
    <3>1. ASSUME NEW i \in 1..(n - 1), NEW j \in 1..(n - 1), i < j PROVE Precedes(t[i], t[j])
      <4>1. PICK x, y : x = (IF i < k THEN i ELSE i + 1) /\ y = (IF j < k THEN j ELSE j + 1)
        OBVIOUS
      <4>2. x \in 1..n /\ y \in 1..n /\ x < y
        BY <1>2, <2>3, <3>1, <4>1
      <4>3. t[i] = buffer[x] /\ t[j] = buffer[y]
        BY <2>6, <4>1
      <4> QED
        BY <1>2, <4>2, <4>3 DEF Served
    <3> QED
      BY <2>6, <3>1 DEF Served
  <2>9. \A i \in DOMAIN buffer : buffer[i] \notin Range(t) => i = k
    <3>1. IsInjective(buffer)
      BY BufferOnce
    <3>2. \A i \in DOMAIN buffer : buffer[i] \in Range(buffer)
      BY Zenon DEF Range
    <3> QED
      BY <2>3, <2>7, <3>1, <3>2, Zenon DEF IsInjective
  <2>10. Len(t) + 1 <= MaxBuffer /\ Len(t) \in Nat /\ n - 1 = Len(t)
    BY <1>2, <2>1, <2>6
  <2> QED
    BY <1>1, <2>1, <2>2, <2>5, <2>6, <2>7, <2>8, <2>9, <2>10, Zenon
<1> QED
  BY <1>3, <1>4

LEMMA EntryIs ==
  ASSUME StreamInv, NEW priority \in Priorities
  PROVE  /\ Entry(priority) \in 1..(Len(Kept) + 1)
         /\ \A i \in 1..(Entry(priority) - 1) : streamed[Kept[i]] >= priority
         /\ Entry(priority) <= Len(Kept) => streamed[Kept[Entry(priority)]] < priority
<1>1. PICK m, K : m = Len(Kept) /\ K = Kept
  OBVIOUS
<1>2. m \in Nat /\ \A i \in 1..m : K[i] \in DOMAIN streamed /\ streamed[K[i]] \in Nat
  <2>1. K \in Seq(DOMAIN streamed) /\ DOMAIN K = 1..m /\ m \in Nat
    BY <1>1, KeptIs
  <2>2. \A i \in DOMAIN K : K[i] \in DOMAIN streamed
    BY <2>1
  <2> QED
    BY <2>1, <2>2, StreamFacts
<1>3. PICK T : T = {p \in 1..(m + 1) : p <= m => streamed[K[p]] < priority}
  OBVIOUS
<1>4. PICK p \in T : \A q \in T : p <= q
  <2>1. T \in SUBSET Nat /\ m + 1 \in T
    BY <1>2, <1>3
  <2> QED
    BY <2>1, LeastElement
<1>5. p \in 1..(m + 1) /\ (p <= m => streamed[K[p]] < priority)
  BY <1>3, <1>4
<1>6. \A i \in 1..(p - 1) : streamed[K[i]] >= priority
  <2>1. ASSUME NEW i \in 1..(p - 1) PROVE streamed[K[i]] >= priority
    <3>1. i \in 1..m /\ i < p /\ i \in 1..(m + 1)
      BY <1>2, <1>5
    <3>2. i \notin T
      BY <1>2, <1>4, <1>5, <3>1
    <3>3. ~(streamed[K[i]] < priority)
      BY <1>3, <3>1, <3>2
    <3>4. streamed[K[i]] \in Nat /\ priority \in Nat
      BY <1>2, <3>1, StreamFacts
    <3> QED
      BY <3>3, <3>4
  <2> QED
    BY <2>1
<1> QED
  BY <1>1, <1>5, <1>6, Zenon DEF Entry

(* The buffer after an event: the new one behind those of its priority.    *)
LEMMA EmitPlaces ==
  ASSUME StreamInv, NEW priority \in Priorities, EmitUpdate(priority)
  PROVE  /\ StreamPlaced' /\ Range(buffer') = Range(Kept) \cup {Len(streamed) + 1}
         /\ DOMAIN streamed' = DOMAIN streamed \cup {Len(streamed) + 1}
         /\ Len(streamed) + 1 \notin DOMAIN streamed
<1>1. PICK K, m, n, e, p, t : /\ K = Kept /\ m = Len(K) /\ n = Len(streamed) /\ e = n + 1
                              /\ p = Entry(priority) /\ t = PutBefore(K, p, e)
  OBVIOUS
<1>2. streamed' = Append(streamed, priority) /\ buffer' = t /\ UNCHANGED batch
  BY <1>1 DEF EmitUpdate, InsertAt, PutBefore
<1>3. PICK S : S = DOMAIN streamed
  OBVIOUS
<1>4. /\ streamed \in Seq(Priorities) /\ n \in Nat /\ S = 1..n /\ priority \in Nat
      /\ \A x \in S : x \in Nat /\ streamed[x] \in Nat
  BY <1>1, <1>3, StreamFacts DEF StreamInv, StreamPlaced
<1>5. /\ K \in Seq(S) /\ DOMAIN K = 1..m /\ m \in Nat /\ m + 1 <= MaxBuffer /\ Served(K)
      /\ Range(K) \subseteq Range(buffer)
      /\ \A i \in 1..m : K[i] \in S
  <2>1. K \in Seq(S) /\ DOMAIN K = 1..m
    BY <1>1, <1>3, KeptIs
  <2>2. \A i \in DOMAIN K : K[i] \in S
    <3>1. K \in Seq(S)
      BY <2>1
    <3> QED
      BY <3>1
  <2> QED
    BY <1>1, <2>1, <2>2, KeptIs
<1>6. /\ p \in 1..(m + 1)
      /\ \A i \in 1..(p - 1) : streamed[K[i]] >= priority
      /\ p <= m => streamed[K[p]] < priority
  BY <1>1, EntryIs
<1>7. PICK T : T = 1..(n + 1)
  OBVIOUS
<1>8. /\ streamed' \in Seq(Priorities) /\ DOMAIN streamed' = T /\ streamed'[e] = priority
      /\ \A x \in S : streamed'[x] = streamed[x]
  BY <1>1, <1>2, <1>4, <1>7, Appended
<1>9. T = S \cup {e} /\ e \notin S /\ e \in T /\ S \subseteq T /\ e \in Nat /\ \A x \in S : x < e
  BY <1>1, <1>4, <1>7
<1>10. K \in Seq(T)
  BY <1>5, <1>9, SeqMonotonic
<1>11. /\ t \in Seq(T) /\ DOMAIN t = 1..(m + 1)
       /\ \A i \in 1..(m + 1) : t[i] = IF i < p THEN K[i] ELSE IF i = p THEN e ELSE K[i - 1]
  <2>1. p \in 1..(Len(K) + 1) /\ e \in T
    BY <1>1, <1>6, <1>9
  <2>2. PutBefore(K, p, e) \in Seq(T) /\ DOMAIN PutBefore(K, p, e) = 1..(Len(K) + 1)
    BY <1>10, <2>1, Insertion
  <2>3. ASSUME NEW i \in 1..(Len(K) + 1)
        PROVE  PutBefore(K, p, e)[i] = IF i < p THEN K[i] ELSE IF i = p THEN e ELSE K[i - 1]
    BY <1>10, <2>1, Insertion
  <2> QED
    BY <1>1, <2>2, <2>3
<1>12. Len(t) <= MaxBuffer
  <2>1. Len(t) = m + 1
    <3>1. DOMAIN t = 1..Len(t) /\ Len(t) \in Nat
      BY <1>11, ListDomain
    <3> QED
      BY <1>5, <1>11, <3>1
  <2> QED
    BY <1>5, <2>1
<1>13. \A x, y \in S : Precedes(x, y) => Precedes(x, y)'
  BY <1>8 DEF Precedes
<1>14. ASSUME NEW i \in 1..(m + 1), NEW j \in 1..(m + 1), i < j
       PROVE  Precedes(t[i], t[j])'
  <2>1. CASE j < p
    <3>1. i \in 1..m /\ j \in 1..m /\ t[i] = K[i] /\ t[j] = K[j]
      BY <1>5, <1>6, <1>11, <1>14, <2>1
    <3>2. Precedes(K[i], K[j])
      BY <1>5, <1>14, <3>1 DEF Served
    <3> QED
      BY <1>5, <1>13, <3>1, <3>2
  <2>2. CASE j = p
    <3>1. i \in 1..m /\ i \in 1..(p - 1) /\ t[i] = K[i] /\ t[j] = e
      BY <1>5, <1>6, <1>11, <1>14, <2>2
    <3>2. K[i] \in S /\ streamed[K[i]] >= priority
      BY <1>5, <1>6, <3>1
    <3>3. streamed'[K[i]] = streamed[K[i]] /\ streamed'[e] = priority /\ K[i] < e /\ streamed[K[i]] \in Nat
      BY <1>4, <1>8, <1>9, <3>2
    <3>4. streamed'[K[i]] > streamed'[e] \/ (streamed'[K[i]] = streamed'[e] /\ K[i] < e)
      BY <1>4, <3>2, <3>3
    <3> QED
      BY <3>1, <3>4 DEF Precedes
  <2>3. CASE j > p /\ i < p
    <3>1. i \in 1..m /\ j - 1 \in 1..m /\ t[i] = K[i] /\ t[j] = K[j - 1] /\ i < j - 1
      BY <1>5, <1>6, <1>11, <1>14, <2>3
    <3>2. Precedes(K[i], K[j - 1])
      BY <1>5, <3>1 DEF Served
    <3> QED
      BY <1>5, <1>13, <3>1, <3>2
  <2>4. CASE j > p /\ i = p
    <3>1. j - 1 \in 1..m /\ p \in 1..m /\ t[i] = e /\ t[j] = K[j - 1] /\ (p = j - 1 \/ p < j - 1)
      BY <1>5, <1>6, <1>11, <1>14, <2>4
    <3>2. PICK x, y : x = K[p] /\ y = K[j - 1]
      OBVIOUS
    <3>3. x \in S /\ y \in S /\ streamed[x] < priority
      BY <1>5, <1>6, <3>1, <3>2
    <3>4. x = y \/ Precedes(x, y)
      BY <1>5, <3>1, <3>2 DEF Served
    <3>5. streamed[x] \in Nat /\ streamed[y] \in Nat /\ (streamed[x] = streamed[y] \/ streamed[x] > streamed[y])
      BY <1>4, <3>3, <3>4 DEF Precedes
    <3>6. streamed[y] < priority
      BY <1>4, <3>3, <3>5
    <3>7. streamed'[e] > streamed'[y]
      BY <1>4, <1>8, <3>3, <3>5, <3>6
    <3> QED
      BY <3>1, <3>2, <3>7 DEF Precedes
  <2>5. CASE i > p
    <3>1. i - 1 \in 1..m /\ j - 1 \in 1..m /\ t[i] = K[i - 1] /\ t[j] = K[j - 1] /\ i - 1 < j - 1
      BY <1>5, <1>6, <1>11, <1>14, <2>5
    <3>2. Precedes(K[i - 1], K[j - 1])
      BY <1>5, <3>1 DEF Served
    <3> QED
      BY <1>5, <1>13, <3>1, <3>2
  <2> QED
    BY <1>5, <1>6, <1>14, <2>1, <2>2, <2>3, <2>4, <2>5
<1>15. Range(t) = Range(K) \cup {e}
  <2>1. \A i \in 1..m : K[i] \in Range(t)
    <3>1. ASSUME NEW i \in 1..m PROVE K[i] \in Range(t)
      <4>1. PICK j : j = IF i < p THEN i ELSE i + 1
        OBVIOUS
      <4>2. j \in 1..(m + 1) /\ t[j] = K[i]
        BY <1>5, <1>6, <1>11, <4>1
      <4> QED
        BY <1>11, <4>2 DEF Range
    <3> QED
      BY <3>1
  <2>2. e \in Range(t)
    <3>1. p \in 1..(m + 1) /\ t[p] = e
      BY <1>5, <1>6, <1>11
    <3> QED
      BY <1>11, <3>1 DEF Range
  <2>3. \A i \in 1..(m + 1) : t[i] = e \/ t[i] \in Range(K)
    <3>1. ASSUME NEW i \in 1..(m + 1), i # p PROVE t[i] \in Range(K)
      <4>1. PICK j : j = IF i < p THEN i ELSE i - 1
        OBVIOUS
      <4>2. j \in 1..m /\ t[i] = K[j]
        BY <1>5, <1>6, <1>11, <3>1, <4>1
      <4> QED
        BY <1>5, <4>2 DEF Range
    <3> QED
      BY <1>6, <1>11, <3>1
  <2>4. \A x \in Range(t) : \E i \in 1..(m + 1) : x = t[i]
    BY <1>11, Zenon DEF Range
  <2>5. \A x \in Range(K) : \E i \in 1..m : x = K[i]
    BY <1>5, Zenon DEF Range
  <2> QED
    BY <2>1, <2>2, <2>3, <2>4, <2>5, Zenon
<1>16. Served(buffer)'
  BY <1>2, <1>11, <1>14 DEF Served
<1>17. batch' \in Seq(T) /\ IsInjective(batch') /\ Range(buffer') \cap Range(batch') = {}
  <2>1. batch \in Seq(S) /\ IsInjective(batch) /\ Range(buffer) \cap Range(batch) = {}
    BY <1>3 DEF StreamInv, StreamPlaced
  <2>2. batch \in Seq(T)
    BY <1>9, <2>1, SeqMonotonic
  <2>3. \A i \in DOMAIN batch : batch[i] \in S
    BY <2>1
  <2>4. e \notin Range(batch)
    BY <1>9, <2>3 DEF Range
  <2> QED
    BY <1>2, <1>5, <1>15, <2>1, <2>2, <2>4
<1>18. StreamPlaced'
  BY <1>2, <1>8, <1>11, <1>12, <1>16, <1>17 DEF StreamPlaced
<1> QED
  BY <1>1, <1>2, <1>3, <1>8, <1>9, <1>15, <1>18

(* A full buffer gives up its lowest event and no other.                   *)
LEMMA HighestKept ==
  ASSUME StreamInv, [StreamNext]_streamVars
  PROVE  KeepsHighest
<1>1. ASSUME NEW priority \in Priorities, EmitUpdate(priority) PROVE KeepsHighest
  <2>1. ASSUME NEW i \in DOMAIN buffer, NEW j \in DOMAIN buffer, buffer[i] \notin Range(buffer'), i # j
        PROVE  /\ buffer[j] \in Range(buffer')
               /\ \/ streamed[buffer[i]] < streamed[buffer[j]]
                  \/ streamed[buffer[i]] = streamed[buffer[j]] /\ buffer[i] < buffer[j]
    <3>1. Range(Kept) \subseteq Range(buffer')
      BY <1>1, EmitPlaces
    <3>2. i = Lowest /\ buffer # <<>>
      BY <2>1, <3>1, KeptIs
    <3>3. buffer[j] \in Range(buffer')
      BY <2>1, <3>1, <3>2, KeptIs
    <3>4. \/ streamed[buffer[i]] < streamed[buffer[j]]
          \/ streamed[buffer[i]] = streamed[buffer[j]] /\ i <= j
      BY <2>1, <3>2, LowestIs
    <3>5. i <= j => Precedes(buffer[i], buffer[j])
      <4>1. i <= j => i < j
        BY <2>1, StreamFacts
      <4> QED
        BY <2>1, <4>1 DEF StreamInv, StreamPlaced, Served
    <3>6. streamed[buffer[i]] \in Nat /\ streamed[buffer[j]] \in Nat
      BY <2>1, StreamFacts
    <3>7. streamed[buffer[i]] = streamed[buffer[j]] => ~(streamed[buffer[i]] > streamed[buffer[j]])
      BY <3>6
    <3> QED
      BY <3>3, <3>4, <3>5, <3>7, Zenon DEF Precedes
  <2> QED
    BY <2>1 DEF KeepsHighest
<1>2. CASE UNCHANGED streamed
  <2>1. Len(streamed') = Len(streamed)
    BY <1>2
  <2>2. ~(Len(streamed') > Len(streamed))
    BY <2>1, StreamFacts
  <2> QED
    BY <2>2 DEF KeepsHighest
<1> QED
  BY <1>1, <1>2 DEF StreamNext, streamVars, SubscribeStream, UnsubscribeStream, CallSubscriber, PassEnds, EmitterCancelled, TakeBatch, StartStreaming, StopStreaming, FlushBuffer

LEMMA PlacedStay ==
  ASSUME StreamInv, UNCHANGED streamed, buffer' \in {buffer, <<>>},
         \/ batch' = batch
         \/ batch' = <<>>
         \/ batch # <<>> /\ batch' = Tail(batch)
  PROVE  /\ StreamPlaced' /\ Range(buffer') \cup Range(batch') \subseteq Range(buffer) \cup Range(batch)
         /\ batch # <<>> /\ batch' = Tail(batch) =>
              Head(batch) \notin Range(buffer') \cup Range(batch') /\ Head(batch) \in Range(batch)
<1>1. PICK S, e : S = DOMAIN streamed /\ e = <<>>
  OBVIOUS
<1>2. /\ buffer \in Seq(S) /\ Len(buffer) <= MaxBuffer /\ Served(buffer)
      /\ batch \in Seq(S) /\ IsInjective(batch) /\ Range(buffer) \cap Range(batch) = {}
      /\ streamed \in Seq(Priorities)
  BY <1>1 DEF StreamInv, StreamPlaced
<1>3. e \in Seq(S) /\ DOMAIN e = {} /\ Len(e) = 0
  BY <1>1
<1>4. Range(e) = {} /\ IsInjective(e) /\ Served(e) /\ Len(e) <= MaxBuffer
  <2>1. 0 <= MaxBuffer
    BY StreamFacts
  <2> QED
    BY <1>3, <2>1, Zenon DEF Range, IsInjective, Served
<1>5. batch # <<>> => /\ Tail(batch) \in Seq(S) /\ IsInjective(Tail(batch))
                      /\ Range(Tail(batch)) = Range(batch) \ {Head(batch)} /\ Head(batch) \in Range(batch)
  BY <1>2, Shortened, TailOnce
<1>6. PICK b, c : b = buffer' /\ c = batch'
  OBVIOUS
<1>7. b \in Seq(S) /\ Len(b) <= MaxBuffer /\ Served(b) /\ Range(b) \subseteq Range(buffer)
  <2>1. b = buffer \/ b = e
    BY <1>1, <1>6
  <2> QED
    BY <1>2, <1>3, <1>4, <2>1
<1>8. c \in Seq(S) /\ IsInjective(c) /\ Range(c) \subseteq Range(batch)
  <2>1. c = batch \/ c = e \/ (batch # <<>> /\ c = Tail(batch))
    BY <1>1, <1>6
  <2> QED
    BY <1>2, <1>3, <1>4, <1>5, <2>1
<1>9. Served(b)'
  BY <1>7 DEF Served, Precedes
<1>10. StreamPlaced'
  <2>1. Range(b) \cap Range(c) = {}
    BY <1>2, <1>7, <1>8
  <2>2. Served(buffer)'
    BY <1>6, <1>9 DEF Served
  <2> QED
    BY <1>1, <1>2, <1>6, <1>7, <1>8, <2>1, <2>2 DEF StreamPlaced
<1>11. batch # <<>> /\ batch' = Tail(batch) =>
         Head(batch) \notin Range(buffer') \cup Range(batch') /\ Head(batch) \in Range(batch)
  BY <1>2, <1>5, <1>6, <1>7
<1> QED
  BY <1>6, <1>7, <1>8, <1>10, <1>11

LEMMA BatchTaken ==
  ASSUME StreamInv, TakeBatch
  PROVE  /\ StreamPlaced' /\ Range(buffer') \cup Range(batch') \subseteq Range(buffer) \cup Range(batch)
         /\ batch' # <<>>
<1>1. PICK S, n, m, b, c : /\ S = DOMAIN streamed /\ n = Len(buffer)
                           /\ m = (IF n < BatchSize THEN n ELSE BatchSize)
                           /\ b = SubSeq(buffer, BatchSize + 1, n) /\ c = SubSeq(buffer, 1, m)
  OBVIOUS
<1>2. buffer' = b /\ batch' = c /\ buffer # <<>> /\ UNCHANGED streamed
  BY <1>1 DEF TakeBatch
<1>3. /\ buffer \in Seq(S) /\ n \in Nat \ {0} /\ DOMAIN buffer = 1..n /\ n <= MaxBuffer /\ Served(buffer)
      /\ streamed \in Seq(Priorities) /\ BatchSize \in Nat \ {0} /\ MaxBuffer \in Nat
  <2>1. buffer \in Seq(S) /\ n <= MaxBuffer /\ Served(buffer) /\ streamed \in Seq(Priorities) /\ n \in Nat
        /\ DOMAIN buffer = 1..n /\ BatchSize \in Nat \ {0} /\ MaxBuffer \in Nat
    BY <1>1, StreamFacts DEF StreamInv, StreamPlaced
  <2>2. n # 0
    BY <1>1, <1>2, <2>1
  <2> QED
    BY <2>1, <2>2
<1>4. m \in 1..n /\ m <= BatchSize
  BY <1>1, <1>3
<1>5. /\ c \in Seq(S) /\ Len(c) = m /\ DOMAIN c = 1..m
      /\ \A i \in 1..m : i \in DOMAIN buffer /\ c[i] = buffer[i]
      /\ \A x \in Range(c) : \E j \in 1..m : j \in DOMAIN buffer /\ x = buffer[j]
  <2>1. /\ c \in Seq(S) /\ Len(c) = m /\ DOMAIN c = 1..Len(c)
        /\ \A i \in DOMAIN c : 1 + i - 1 \in DOMAIN buffer /\ c[i] = buffer[1 + i - 1]
        /\ \A x \in Range(c) : \E j \in 1..m : j \in DOMAIN buffer /\ x = buffer[j]
    <3>1. m \in Nat /\ 1 \in Nat \ {0} /\ m <= Len(buffer) /\ (IF 1 <= m THEN m - 1 + 1 ELSE 0) = m
      BY <1>1, <1>3, <1>4
    <3>2. PICK one, B : one = 1 /\ B = buffer
      OBVIOUS
    <3>3. B \in Seq(S) /\ one \in Nat \ {0} /\ m \in Nat /\ m <= Len(B)
      BY <1>1, <1>3, <3>1, <3>2
    <3>4. /\ SubSeq(B, one, m) \in Seq(S) /\ Len(SubSeq(B, one, m)) = IF one <= m THEN m - one + 1 ELSE 0
          /\ DOMAIN SubSeq(B, one, m) = 1..Len(SubSeq(B, one, m))
          /\ \A i \in DOMAIN SubSeq(B, one, m) :
               i \in Nat \ {0} /\ one + i - 1 \in one..m /\ one + i - 1 \in DOMAIN B /\ SubSeq(B, one, m)[i] = B[one + i - 1]
          /\ \A x \in Range(SubSeq(B, one, m)) : \E j \in one..m : j \in DOMAIN B /\ x = B[j]
      BY <3>3, Part
    <3>5. SubSeq(B, one, m) = c
      BY <1>1, <3>2
    <3>6. c \in Seq(S) /\ Len(c) = (IF one <= m THEN m - one + 1 ELSE 0) /\ DOMAIN c = 1..Len(c)
      BY <3>4, <3>5, Zenon
    <3>7. ASSUME NEW i \in DOMAIN c PROVE one + i - 1 \in DOMAIN B /\ c[i] = B[one + i - 1]
      BY <3>4, <3>5, Zenon
    <3>8. \A x \in Range(c) : \E j \in one..m : j \in DOMAIN B /\ x = B[j]
      BY <3>4, <3>5, Zenon
    <3>9. Len(c) = m
      BY <3>1, <3>2, <3>6
    <3>10. \A i \in DOMAIN c : 1 + i - 1 \in DOMAIN buffer /\ c[i] = buffer[1 + i - 1]
      BY <3>2, <3>7, Zenon
    <3>11. \A x \in Range(c) : \E j \in 1..m : j \in DOMAIN buffer /\ x = buffer[j]
      BY <3>2, <3>8, Zenon
    <3> QED
      BY <3>6, <3>9, <3>10, <3>11, Zenon
  <2>2. \A i \in 1..m : 1 + i - 1 = i
    BY <1>4
  <2> QED
    BY <2>1, <2>2
<1>6. /\ b \in Seq(S) /\ Len(b) <= n
      /\ \A i \in DOMAIN b : /\ i \in Nat \ {0} /\ BatchSize + i \in DOMAIN buffer /\ b[i] = buffer[BatchSize + i]
      /\ \A x \in Range(b) : \E j \in (BatchSize + 1)..n : j \in DOMAIN buffer /\ x = buffer[j]
  <2>1. BatchSize + 1 \in Nat \ {0} /\ n \in Nat /\ n <= Len(buffer)
    BY <1>1, <1>3
  <2>2. /\ b \in Seq(S) /\ Len(b) <= n
        /\ \A i \in DOMAIN b : /\ i \in Nat \ {0} /\ BatchSize + 1 + i - 1 \in DOMAIN buffer
                               /\ b[i] = buffer[BatchSize + 1 + i - 1]
        /\ \A x \in Range(b) : \E j \in (BatchSize + 1)..n : j \in DOMAIN buffer /\ x = buffer[j]
    <3>1. PICK a, B : a = BatchSize + 1 /\ B = buffer
      OBVIOUS
    <3>2. B \in Seq(S) /\ a \in Nat \ {0} /\ n \in Nat /\ n <= Len(B) /\ Len(B) = n
      BY <1>1, <1>3, <2>1, <3>1
    <3>3. /\ SubSeq(B, a, n) \in Seq(S) /\ Len(SubSeq(B, a, n)) <= Len(B)
          /\ \A i \in DOMAIN SubSeq(B, a, n) :
               i \in Nat \ {0} /\ a + i - 1 \in a..n /\ a + i - 1 \in DOMAIN B /\ SubSeq(B, a, n)[i] = B[a + i - 1]
          /\ \A x \in Range(SubSeq(B, a, n)) : \E j \in a..n : j \in DOMAIN B /\ x = B[j]
      BY <3>2, Part, SMTT(30)
    <3>4. SubSeq(B, a, n) = b
      BY <1>1, <3>1
    <3>5. /\ b \in Seq(S) /\ Len(b) <= n
          /\ \A i \in DOMAIN b : i \in Nat \ {0} /\ a + i - 1 \in DOMAIN B /\ b[i] = B[a + i - 1]
          /\ \A x \in Range(b) : \E j \in a..n : j \in DOMAIN B /\ x = B[j]
      BY <3>2, <3>3, <3>4
    <3> QED
      BY <3>1, <3>5, Zenon
  <2>3. \A i \in Nat : BatchSize + 1 + i - 1 = BatchSize + i
    BY <1>3
  <2> QED
    BY <2>2, <2>3
<1>7. IsInjective(buffer) /\ Range(buffer) = {buffer[i] : i \in DOMAIN buffer}
  BY BufferOnce DEF Range
<1>8. IsInjective(c)
  BY <1>5, <1>7, Zenon DEF IsInjective
<1>9. Range(b) \cap Range(c) = {}
  <2>1. ASSUME NEW x, x \in Range(b), x \in Range(c) PROVE FALSE
    <3>1. PICK i \in (BatchSize + 1)..n : i \in DOMAIN buffer /\ x = buffer[i]
      BY <1>6, <2>1
    <3>2. PICK j \in 1..m : j \in DOMAIN buffer /\ x = buffer[j]
      BY <1>5, <2>1
    <3>3. i = j
      BY <1>7, <3>1, <3>2 DEF IsInjective
    <3> QED
      BY <1>3, <1>4, <3>1, <3>2, <3>3
  <2> QED
    BY <2>1
<1>10. Range(b) \subseteq Range(buffer) /\ Range(c) \subseteq Range(buffer)
  BY <1>5, <1>6, <1>7
<1>11. Served(buffer)'
  <2>1. ASSUME NEW i \in DOMAIN b, NEW j \in DOMAIN b, i < j PROVE Precedes(b[i], b[j])
    <3>1. BatchSize + i < BatchSize + j
      BY <1>3, <1>6, <2>1
    <3> QED
      BY <1>3, <1>6, <2>1, <3>1 DEF Served
  <2> QED
    BY <1>2, <2>1 DEF Served, Precedes
<1>12. batch' # <<>>
  BY <1>2, <1>4, <1>5
<1>13. StreamPlaced'
  <2>1. Len(b) <= MaxBuffer
    <3>1. Len(b) \in Nat
      BY <1>6
    <3> QED
      BY <1>3, <1>6, <3>1
  <2> QED
    BY <1>1, <1>2, <1>3, <1>5, <1>6, <1>8, <1>9, <1>11, <2>1 DEF StreamPlaced
<1> QED
  BY <1>2, <1>10, <1>12, <1>13

(* Nothing more is to come of an event than before.                        *)
LEMMA ComingLess ==
  ASSUME StreamInv, UNCHANGED <<streamed, streamHistory>>, DOMAIN passes' \subseteq DOMAIN passes \cup {0},
         Range(buffer') \cup Range(batch') \subseteq Range(buffer) \cup Range(batch),
         batch' # <<>> <=> 0 \in DOMAIN passes'
  PROVE  PassesTrue'
<1>1. ASSUME NEW e \in DOMAIN streamed PROVE Times(streamHistory, e) + Coming(e)' <= 2
  <2>1. e # 0
    BY StreamFacts
  <2>2. e \in DOMAIN passes' => e \in DOMAIN passes
    BY <2>1
  <2>3. e \in Range(buffer') \cup Range(batch') => e \in Range(buffer) \cup Range(batch)
    OBVIOUS
  <2>4. Coming(e)' <= Coming(e) /\ Coming(e)' \in Nat /\ Coming(e) \in Nat
    BY <2>2, <2>3 DEF Coming
  <2>5. Times(streamHistory, e) + Coming(e) <= 2
    BY DEF StreamInv, PassesTrue
  <2>6. Times(streamHistory, e) \in Nat
    BY TimesAppended DEF StreamInv, PassesTrue
  <2> QED
    BY <2>4, <2>5, <2>6
<1>2. \A e : Times(streamHistory, e)' = Times(streamHistory, e)
  BY DEF Times
<1> QED
  BY <1>1, <1>2 DEF StreamInv, PassesTrue

LEMMA PassEndsTrue ==
  ASSUME StreamInv, NEW p \in 0..MaxStreamed, PassEnds(p)
  PROVE  StreamPlaced' /\ PassesTrue'
<1>1. PICK S, x, h, g : /\ S = DOMAIN streamed /\ x = Carries(p) /\ h = streamHistory
                        /\ g = IF Len(h) = MaxStreamHistory THEN Tail(h) ELSE h
  OBVIOUS
<1>2. /\ p \in DOMAIN passes /\ streamHistory' = Append(g, x)
      /\ batch' = (IF p = 0 THEN Tail(batch) ELSE batch)
      /\ passes' = (IF p = 0 /\ Len(batch) > 1 THEN With(0) ELSE Without(p))
      /\ UNCHANGED <<streamed, buffer>>
  BY <1>1 DEF PassEnds
<1>3. /\ DOMAIN passes \subseteq {0} \cup S /\ (batch # <<>> <=> 0 \in DOMAIN passes) /\ h \in Seq(S)
      /\ \A e \in S : Times(h, e) + Coming(e) <= 2
      /\ batch \in Seq(S) /\ 0 \notin S /\ MaxStreamHistory \in Nat \ {0}
  BY <1>1, StreamFacts DEF StreamInv, PassesTrue, StreamPlaced
<1>4. p = 0 => batch # <<>>
  BY <1>2, <1>3
<1>5. /\ StreamPlaced' /\ Range(buffer') \cup Range(batch') \subseteq Range(buffer) \cup Range(batch)
      /\ p = 0 => Head(batch) \notin Range(buffer') \cup Range(batch') /\ Head(batch) \in Range(batch)
  <2>1. UNCHANGED streamed /\ buffer' \in {buffer, <<>>}
    BY <1>2
  <2>2. CASE p = 0
    BY <1>2, <1>4, <2>1, <2>2, PlacedStay
  <2>3. CASE p # 0
    BY <1>2, <2>1, <2>3, PlacedStay
  <2> QED
    BY <2>2, <2>3
<1>6. x \in S /\ (p # 0 => x = p) /\ (p = 0 => x = Head(batch))
  <2>1. p = 0 => Head(batch) \in S
    BY <1>3, <1>4, Shortened
  <2> QED
    BY <1>1, <1>2, <1>3, <2>1 DEF Carries
<1>7. g \in Seq(S) /\ \A e \in S : Times(g, e) <= Times(h, e) /\ Times(g, e) \in Nat /\ Times(h, e) \in Nat
  <2>1. \A e \in S : Times(h, e) \in Nat
    BY <1>3, <1>6, TimesAppended
  <2>2. CASE Len(h) = MaxStreamHistory
    <3>1. h # <<>>
      BY <1>3, <2>2
    <3>2. g = Tail(h) /\ Tail(h) \in Seq(S)
      BY <1>1, <1>3, <2>2, <3>1, Shortened
    <3>3. \A e : Times(Tail(h), e) \in Nat /\ Times(h, e) \in Nat /\ Times(Tail(h), e) <= Times(h, e)
      BY <1>3, <3>1, TimesTail
    <3> QED
      BY <3>2, <3>3
  <2>3. CASE Len(h) # MaxStreamHistory
    <3>1. g = h
      BY <1>1, <2>3
    <3>2. \A e \in S : Times(h, e) <= Times(h, e)
      BY <2>1
    <3> QED
      BY <1>3, <2>1, <3>1, <3>2
  <2> QED
    BY <2>2, <2>3
<1>8. streamHistory' \in Seq(S) /\ \A e : Times(streamHistory', e) = Times(g, e) + (IF e = x THEN 1 ELSE 0)
  BY <1>2, <1>6, <1>7, Appended, TimesAppended
<1>9. DOMAIN passes' = (IF p = 0 /\ Len(batch) > 1 THEN DOMAIN passes \cup {0} ELSE DOMAIN passes \ {p})
  BY <1>2 DEF With, Without
<1>10. batch' # <<>> <=> 0 \in DOMAIN passes'
  <2>1. CASE p = 0
    <3>1. Len(batch') = Len(batch) - 1 /\ Len(batch) \in Nat \ {0} /\ batch' \in Seq(S)
      BY <1>2, <1>3, <1>4, <2>1, Shortened
    <3>2. batch' # <<>> <=> Len(batch) > 1
      BY <3>1
    <3> QED
      BY <1>9, <2>1, <3>2
  <2>2. CASE p # 0
    BY <1>2, <1>3, <1>9, <2>2
  <2> QED
    BY <2>1, <2>2
<1>11. ASSUME NEW e \in S PROVE Times(streamHistory', e) + Coming(e)' <= 2
  <2>1. e # 0
    BY <1>3
  <2>2. e \in DOMAIN passes' <=> e \in DOMAIN passes /\ e # p
    BY <1>9, <2>1
  <2>3. e \in Range(buffer') \cup Range(batch') => e \in Range(buffer) \cup Range(batch)
    BY <1>5
  <2>4. CASE e = x
    <3>1. Coming(e)' + 1 <= Coming(e) /\ Coming(e)' \in Nat /\ Coming(e) \in Nat
      <4>1. CASE p = 0
        <5>1. e \notin Range(buffer') \cup Range(batch') /\ e \in Range(buffer) \cup Range(batch)
          BY <1>5, <1>6, <2>4, <4>1
        <5>2. e \in DOMAIN passes' <=> e \in DOMAIN passes
          BY <2>1, <2>2, <4>1
        <5> QED
          BY <5>1, <5>2 DEF Coming
      <4>2. CASE p # 0
        <5>1. e \in DOMAIN passes /\ e \notin DOMAIN passes'
          BY <1>2, <1>6, <2>2, <2>4, <4>2
        <5> QED
          BY <2>3, <5>1 DEF Coming
      <4> QED
        BY <4>1, <4>2
    <3> QED
      BY <1>3, <1>7, <1>8, <2>4, <3>1
  <2>5. CASE e # x
    <3>1. Coming(e)' <= Coming(e) /\ Coming(e)' \in Nat /\ Coming(e) \in Nat
      BY <2>2, <2>3 DEF Coming
    <3> QED
      BY <1>3, <1>7, <1>8, <2>5, <3>1
  <2> QED
    BY <2>4, <2>5
<1>12. PassesTrue'
  <2>1. DOMAIN passes' \subseteq {0} \cup S
    BY <1>3, <1>9
  <2>2. \A e : Times(streamHistory, e)' = Times(streamHistory', e)
    BY DEF Times
  <2> QED
    BY <1>1, <1>2, <1>8, <1>10, <1>11, <2>1, <2>2 DEF PassesTrue
<1> QED
  BY <1>5, <1>12

LEMMA EmitTrue ==
  ASSUME StreamInv, NEW priority \in Priorities, EmitUpdate(priority)
  PROVE  PassesTrue'
<1>1. PICK S, T, e, h : S = DOMAIN streamed /\ T = DOMAIN streamed' /\ e = Len(streamed) + 1 /\ h = streamHistory
  OBVIOUS
<1>2. UNCHANGED <<streamHistory, batch>> /\ DOMAIN passes' = DOMAIN passes \cup {e}
  BY <1>1 DEF EmitUpdate, With
<1>3. /\ T = S \cup {e} /\ e \notin S
      /\ Range(buffer') \subseteq Range(buffer) \cup {e}
  BY <1>1, EmitPlaces, KeptIs
<1>4. /\ DOMAIN passes \subseteq {0} \cup S /\ (batch # <<>> <=> 0 \in DOMAIN passes) /\ h \in Seq(S)
      /\ \A d \in S : Times(h, d) + Coming(d) <= 2
      /\ 0 \notin S
  BY <1>1, StreamFacts DEF StreamInv, PassesTrue
<1>5. e # 0
  BY <1>1, StreamFacts
<1>6. h \in Seq(T)
  BY <1>3, <1>4, SeqMonotonic
<1>7. \A d : Times(h, d) \in Nat
  BY <1>3, <1>6, TimesAppended
<1>8. ASSUME NEW d \in S PROVE Times(h, d) + Coming(d)' <= 2
  <2>1. d # e
    BY <1>3
  <2>2. /\ d \in DOMAIN passes' <=> d \in DOMAIN passes
        /\ d \in Range(buffer') \cup Range(batch') => d \in Range(buffer) \cup Range(batch)
    BY <1>2, <1>3, <2>1
  <2>3. Coming(d)' <= Coming(d) /\ Coming(d)' \in Nat /\ Coming(d) \in Nat
    BY <2>2 DEF Coming
  <2> QED
    BY <1>4, <1>7, <2>3
<1>9. Times(h, e) + Coming(e)' <= 2
  <2>1. \A k \in DOMAIN h : h[k] # e
    <3>1. \A k \in DOMAIN h : h[k] \in S
      BY <1>4
    <3> QED
      BY <1>3, <3>1
  <2>2. {k \in DOMAIN h : h[k] = e} = {}
    BY <2>1
  <2>3. Times(h, e) = 0
    BY <2>2, FS_EmptySet, Zenon DEF Times
  <2>4. Coming(e)' <= 2 /\ Coming(e)' \in Nat
    BY DEF Coming
  <2> QED
    BY <2>3, <2>4
<1>10. \A d : Times(streamHistory, d)' = Times(h, d)
  BY <1>1, <1>2 DEF Times
<1> QED
  BY <1>1, <1>2, <1>3, <1>4, <1>5, <1>6, <1>8, <1>9, <1>10 DEF PassesTrue

LEMMA CallsStay ==
  ASSUME CallsTrue, UNCHANGED subscriberList,
         \A p \in DOMAIN passes' : passes'[p] = NewPass \/ (p \in DOMAIN passes /\ passes'[p] = passes[p])
  PROVE  CallsTrue'
<1>1. PICK L : L = subscriberList
  OBVIOUS
<1>2. L \in Seq(StreamSubscribers) /\ Len(L) \in Nat /\ SubSeq(L, 1, 0) = <<>>
  BY <1>1, ListDomain, Beginnings DEF CallsTrue
<1>3. /\ NewPass \in [next : Nat \ {0}, calls : Seq(StreamSubscribers), left : BOOLEAN]
      /\ NewPass.next <= Len(L) + 1 /\ NewPass.calls = SubSeq(L, 1, NewPass.next - 1)
  <2>1. <<>> \in Seq(StreamSubscribers) /\ 1 - 1 = 0 /\ 1 <= Len(L) + 1
    BY <1>2
  <2> QED
    BY <1>2, <2>1 DEF NewPass
<1>4. \A p \in DOMAIN passes' :
        /\ passes'[p] \in [next : Nat \ {0}, calls : Seq(StreamSubscribers), left : BOOLEAN]
        /\ ~passes'[p].left => passes'[p].next <= Len(L) + 1 /\ passes'[p].calls = SubSeq(L, 1, passes'[p].next - 1)
  BY <1>1, <1>3 DEF CallsTrue
<1> QED
  BY <1>1, <1>2, <1>4 DEF CallsTrue

LEMMA SubscribersKeep ==
  ASSUME StreamInv,
         \/ \E s \in StreamSubscribers : SubscribeStream(s) \/ UnsubscribeStream(s)
         \/ \E p \in 0..MaxStreamed : CallSubscriber(p)
  PROVE  StreamInv'
<1>1. /\ UNCHANGED <<streamed, buffer, streamHistory, batch>> /\ DOMAIN passes' = DOMAIN passes
  BY DEF SubscribeStream, UnsubscribeStream, CallSubscriber
<1>2. StreamPlaced' /\ PassesTrue'
  <2>1. Range(buffer') \cup Range(batch') \subseteq Range(buffer) \cup Range(batch)
    BY <1>1
  <2>2. DOMAIN passes' \subseteq DOMAIN passes \cup {0} /\ (batch' # <<>> <=> 0 \in DOMAIN passes')
    BY <1>1 DEF StreamInv, PassesTrue
  <2>3. StreamPlaced'
    BY <1>1, PlacedStay
  <2> QED
    BY <1>1, <2>1, <2>2, <2>3, ComingLess
<1>3. PICK L, n : L = subscriberList /\ n = Len(L)
  OBVIOUS
<1>4. /\ L \in Seq(StreamSubscribers) /\ n \in Nat /\ DOMAIN L = 1..n
      /\ \A p \in DOMAIN passes :
           /\ passes[p] \in [next : Nat \ {0}, calls : Seq(StreamSubscribers), left : BOOLEAN]
           /\ ~passes[p].left => passes[p].next <= n + 1 /\ passes[p].calls = SubSeq(L, 1, passes[p].next - 1)
  BY <1>3, ListDomain DEF StreamInv, CallsTrue
<1>5. ASSUME NEW s \in StreamSubscribers, SubscribeStream(s) PROVE CallsTrue'
  <2>1. subscriberList' = Append(L, s) /\ UNCHANGED passes
    BY <1>3, <1>5 DEF SubscribeStream
  <2>2. /\ Append(L, s) \in Seq(StreamSubscribers) /\ Len(Append(L, s)) = n + 1
        /\ \A k \in 0..n : SubSeq(Append(L, s), 1, k) = SubSeq(L, 1, k)
    BY <1>3, <1>4, Appended, Beginnings
  <2>3. ASSUME NEW p \in DOMAIN passes, ~passes[p].left
        PROVE  passes[p].next <= n + 1 + 1 /\ passes[p].calls = SubSeq(Append(L, s), 1, passes[p].next - 1)
    <3>1. PICK k : k = passes[p].next - 1
      OBVIOUS
    <3>2. k \in 0..n /\ passes[p].next <= n + 1 + 1
      BY <1>4, <2>3, <3>1
    <3> QED
      BY <1>4, <2>2, <2>3, <3>1, <3>2
  <2> QED
    BY <1>4, <2>1, <2>2, <2>3 DEF CallsTrue
<1>6. ASSUME NEW s \in StreamSubscribers, UnsubscribeStream(s) PROVE CallsTrue'
  <2>1. PICK k : k = CHOOSE i \in DOMAIN L : L[i] = s
    OBVIOUS
  <2>2. k \in DOMAIN L
    <3>1. \E i \in DOMAIN L : L[i] = s
      BY <1>3, <1>6, ZenonT(60) DEF UnsubscribeStream, Range
    <3> QED
      BY <2>1, <3>1
  <2>3. /\ subscriberList' = Dropped(L, k)
        /\ passes' = [p \in DOMAIN passes |-> [passes[p] EXCEPT !.left = TRUE, !.calls = <<>>]]
    BY <1>3, <1>6, <2>1 DEF UnsubscribeStream, RemoveAt, Dropped
  <2>4. Dropped(L, k) \in Seq(StreamSubscribers)
    BY <1>4, <2>2, RemovedAt
  <2>5. \A p \in DOMAIN passes : /\ passes'[p] \in [next : Nat \ {0}, calls : Seq(StreamSubscribers), left : BOOLEAN]
                                 /\ passes'[p].left
    <3>1. <<>> \in Seq(StreamSubscribers)
      OBVIOUS
    <3> QED
      BY <1>4, <2>3, <3>1
  <2> QED
    BY <1>1, <2>3, <2>4, <2>5 DEF CallsTrue
<1>7. ASSUME NEW p \in 0..MaxStreamed, CallSubscriber(p) PROVE CallsTrue'
  <2>1. PICK o, k : o = passes[p] /\ k = o.next
    OBVIOUS
  <2>2. PICK c, r : /\ c = IF o.left THEN o.calls ELSE Append(o.calls, L[k])
                    /\ r = [next |-> k + 1, left |-> o.left, calls |-> c]
    OBVIOUS
  <2>3. /\ p \in DOMAIN passes /\ k \in DOMAIN L /\ UNCHANGED subscriberList
        /\ passes' = [passes EXCEPT ![p] = r]
    BY <1>3, <1>7, <2>1, <2>2 DEF CallSubscriber
  <2>4. o \in [next : Nat \ {0}, calls : Seq(StreamSubscribers), left : BOOLEAN] /\ k \in 1..n /\ L[k] \in StreamSubscribers
    <3>1. L[k] \in StreamSubscribers
      <4>1. L \in Seq(StreamSubscribers)
        BY <1>4
      <4> QED
        BY <2>3, <4>1
    <3> QED
      BY <1>4, <2>1, <2>3, <3>1
  <2>5. /\ r \in [next : Nat \ {0}, calls : Seq(StreamSubscribers), left : BOOLEAN]
        /\ r.next = k + 1 /\ r.left = o.left /\ (~o.left => r.calls = Append(o.calls, L[k]))
    <3>1. c \in Seq(StreamSubscribers) /\ (~o.left => c = Append(o.calls, L[k]))
      BY <2>2, <2>4
    <3>2. o.left \in BOOLEAN /\ k + 1 \in Nat \ {0}
      BY <2>4
    <3> QED
      BY <2>2, <3>1, <3>2
  <2>6. ~r.left => r.next <= n + 1 /\ r.calls = SubSeq(L, 1, r.next - 1)
    <3>1. ASSUME ~r.left PROVE r.next <= n + 1 /\ r.calls = SubSeq(L, 1, r.next - 1)
      <4>1. o.calls = SubSeq(L, 1, k - 1)
        BY <1>4, <2>1, <2>3, <2>5, <3>1
      <4>2. Append(SubSeq(L, 1, k - 1), L[k]) = SubSeq(L, 1, k)
        BY <1>3, <1>4, <2>4, Beginnings
      <4>3. r.next - 1 = k /\ r.next <= n + 1
        BY <1>4, <2>4, <2>5
      <4> QED
        BY <2>5, <3>1, <4>1, <4>2, <4>3
    <3> QED
      BY <3>1
  <2>7. \A q \in DOMAIN passes : passes'[q] = IF q = p THEN r ELSE passes[q]
    BY <2>3
  <2> QED
    BY <1>1, <1>3, <1>4, <2>3, <2>5, <2>6, <2>7 DEF CallsTrue
<1> QED
  BY <1>2, <1>5, <1>6, <1>7 DEF StreamInv

LEMMA StreamBegin == StreamInit => StreamInv
<1> SUFFICES ASSUME StreamInit PROVE StreamInv
  OBVIOUS
<1>1. /\ streamed = <<>> /\ buffer = <<>> /\ streamHistory = <<>> /\ subscriberList = <<>>
      /\ batch = <<>> /\ DOMAIN passes = {}
  BY DEF StreamInit
<1>2. 0 <= MaxBuffer
  BY StreamAssumption DEF StreamAssumption
<1>3. Range(<<>>) = {} /\ IsInjective(<<>>) /\ Served(<<>>)
  <2>1. PICK e : e = <<>>
    OBVIOUS
  <2>2. DOMAIN e = {}
    BY <2>1
  <2>3. Range(e) = {} /\ IsInjective(e) /\ Served(e)
    BY <2>2, Zenon DEF Range, IsInjective, Served
  <2> QED
    BY <2>1, <2>3
<1>4. StreamPlaced
  BY <1>1, <1>2, <1>3 DEF StreamPlaced
<1>5. PassesTrue
  BY <1>1 DEF PassesTrue
<1>6. CallsTrue
  BY <1>1 DEF CallsTrue
<1> QED
  BY <1>4, <1>5, <1>6 DEF StreamInv

(* Of the steps that only drop passes, the first in the batch or what the  *)
(* buffer holds.                                                           *)
LEMMA DropsKeep ==
  ASSUME StreamInv,
         \/ \E p \in 0..MaxStreamed : EmitterCancelled(p)
         \/ StartStreaming
         \/ StopStreaming
         \/ FlushBuffer
         \/ UNCHANGED streamVars
  PROVE  StreamInv'
<1>1. /\ UNCHANGED <<streamed, streamHistory, subscriberList>>
      /\ buffer' \in {buffer, <<>>} /\ batch' \in {batch, <<>>}
      /\ DOMAIN passes' \subseteq DOMAIN passes
      /\ \A p \in DOMAIN passes' : passes'[p] = passes[p]
      /\ (batch' = batch /\ (0 \in DOMAIN passes' <=> 0 \in DOMAIN passes)) \/ (batch' = <<>> /\ 0 \notin DOMAIN passes')
  <2>1. CASE \E p \in 0..MaxStreamed : EmitterCancelled(p)
    BY <2>1 DEF EmitterCancelled, Without
  <2>2. CASE StopStreaming
    BY <2>2 DEF StopStreaming, Without
  <2>3. CASE StartStreaming \/ FlushBuffer \/ UNCHANGED streamVars
    BY <2>3 DEF StartStreaming, FlushBuffer, streamVars
  <2> QED
    BY <2>1, <2>2, <2>3
<1>2. /\ StreamPlaced' /\ Range(buffer') \cup Range(batch') \subseteq Range(buffer) \cup Range(batch)
  <2>1. batch' = batch \/ batch' = <<>>
    BY <1>1
  <2> QED
    BY <1>1, <2>1, PlacedStay
<1>3. batch' # <<>> <=> 0 \in DOMAIN passes'
  BY <1>1 DEF StreamInv, PassesTrue
<1>4. PassesTrue'
  BY <1>1, <1>2, <1>3, ComingLess
<1>5. CallsTrue'
  BY <1>1, CallsStay DEF StreamInv
<1> QED
  BY <1>2, <1>4, <1>5 DEF StreamInv

LEMMA StreamNextInv ==
  ASSUME StreamInv, [StreamNext]_streamVars
  PROVE  StreamInv'
<1>1. ASSUME NEW priority \in Priorities, EmitUpdate(priority) PROVE StreamInv'
  <2>1. CallsTrue'
    <3>1. /\ UNCHANGED subscriberList
          /\ \A p \in DOMAIN passes' : passes'[p] = NewPass \/ (p \in DOMAIN passes /\ passes'[p] = passes[p])
      BY <1>1 DEF EmitUpdate, With
    <3> QED
      BY <3>1, CallsStay DEF StreamInv
  <2> QED
    BY <1>1, <2>1, EmitPlaces, EmitTrue DEF StreamInv
<1>2. ASSUME NEW p \in 0..MaxStreamed, PassEnds(p) PROVE StreamInv'
  <2>1. CallsTrue'
    <3>1. /\ UNCHANGED subscriberList
          /\ \A q \in DOMAIN passes' : passes'[q] = NewPass \/ (q \in DOMAIN passes /\ passes'[q] = passes[q])
      BY <1>2 DEF PassEnds, With, Without
    <3> QED
      BY <3>1, CallsStay DEF StreamInv
  <2> QED
    BY <1>2, <2>1, PassEndsTrue DEF StreamInv
<1>3. ASSUME TakeBatch PROVE StreamInv'
  <2>1. /\ UNCHANGED <<streamed, streamHistory, subscriberList>> /\ passes' = With(0)
    BY <1>3 DEF TakeBatch
  <2>2. /\ DOMAIN passes' = DOMAIN passes \cup {0}
        /\ \A p \in DOMAIN passes' : passes'[p] = NewPass \/ (p \in DOMAIN passes /\ passes'[p] = passes[p])
    BY <2>1 DEF With
  <2>3. CallsTrue'
    BY <2>1, <2>2, CallsStay DEF StreamInv
  <2>4. /\ StreamPlaced' /\ Range(buffer') \cup Range(batch') \subseteq Range(buffer) \cup Range(batch)
        /\ batch' # <<>>
    BY <1>3, BatchTaken
  <2>5. PassesTrue'
    <3>1. DOMAIN passes' \subseteq DOMAIN passes \cup {0} /\ (batch' # <<>> <=> 0 \in DOMAIN passes')
      BY <2>2, <2>4
    <3> QED
      BY <2>1, <2>4, <3>1, ComingLess
  <2> QED
    BY <2>3, <2>4, <2>5 DEF StreamInv
<1>4. CASE \/ \E s \in StreamSubscribers : SubscribeStream(s) \/ UnsubscribeStream(s)
           \/ \E p \in 0..MaxStreamed : CallSubscriber(p)
  BY <1>4, SubscribersKeep
<1>5. CASE \/ \E p \in 0..MaxStreamed : EmitterCancelled(p)
           \/ StartStreaming
           \/ StopStreaming
           \/ FlushBuffer
           \/ UNCHANGED streamVars
  BY <1>5, DropsKeep
<1> QED
  BY <1>1, <1>2, <1>3, <1>4, <1>5 DEF StreamNext

LEMMA StreamTyped == StreamInv => StreamTypeOK
BY DEF StreamInv, StreamPlaced, PassesTrue, CallsTrue, StreamTypeOK

(* What the property counts is what was and what is still to come.         *)
LEMMA StreamCounted == StreamInv => StreamOrdered
<1> SUFFICES ASSUME StreamInv PROVE StreamOrdered
  OBVIOUS
<1>1. /\ Len(buffer) <= MaxBuffer /\ Served(buffer) /\ Range(buffer) \cap Range(batch) = {}
      /\ (batch # <<>> <=> 0 \in DOMAIN passes)
      /\ batch \in Seq(DOMAIN streamed) /\ 0 \notin DOMAIN streamed
      /\ streamHistory \in Seq(DOMAIN streamed)
      /\ \A e \in DOMAIN streamed : Times(streamHistory, e) + Coming(e) <= 2
  BY StreamFacts DEF StreamInv, StreamPlaced, PassesTrue
<1>2. ASSUME NEW e \in DOMAIN streamed
      PROVE  Times(streamHistory, e) + Cardinality({p \in DOMAIN passes : Carries(p) = e})
               + (IF e \in Range(buffer) \cup Range(batch) /\ ~(0 \in DOMAIN passes /\ Carries(0) = e)
                  THEN 1 ELSE 0) <= 2
  <2>1. PICK P, Q, R : /\ P = {p \in DOMAIN passes : Carries(p) = e}
                       /\ Q = (IF e \in DOMAIN passes THEN {e} ELSE {})
                       /\ R = (IF 0 \in DOMAIN passes /\ Carries(0) = e THEN {0} ELSE {})
    OBVIOUS
  <2>2. e # 0
    BY <1>1
  <2>3. P = Q \cup R
    <3>1. \A p \in DOMAIN passes : p # 0 => Carries(p) = p
      BY DEF Carries
    <3> QED
      BY <2>1, <2>2, <3>1
  <2>4. R = {0} => e \in Range(buffer) \cup Range(batch)
    <3>1. ASSUME R = {0} PROVE e \in Range(batch)
      <4>1. 0 \in DOMAIN passes /\ Carries(0) = e
        BY <2>1, <3>1
      <4>2. batch # <<>> /\ Head(batch) = e
        BY <1>1, <4>1 DEF Carries
      <4>3. Range(batch) = Range(Tail(batch)) \cup {Head(batch)}
        BY <1>1, <4>2, Shortened
      <4> QED
        BY <4>2, <4>3
    <3> QED
      BY <3>1
  <2>5. Cardinality(P) = (IF Q = {e} THEN 1 ELSE 0) + (IF R = {0} THEN 1 ELSE 0)
    <3>1. Cardinality({}) = 0 /\ Cardinality({e}) = 1 /\ Cardinality({0}) = 1 /\ IsFiniteSet({0})
      BY FS_EmptySet, FS_Singleton
    <3>2. Cardinality({0} \cup {e}) = 2
      BY <2>2, <3>1, FS_AddElement
    <3>3. {0} \cup {e} = {e} \cup {0} /\ {e} \cup {} = {e} /\ {} \cup {0} = {0} /\ {} \cup {} = {}
      OBVIOUS
    <3>4. /\ Q = {e} \/ Q = {}
          /\ R = {0} \/ R = {}
          /\ {e} # {} /\ {0} # {}
      BY <2>1
    <3>5. CASE Q = {e} /\ R = {0}
      <4>1. Cardinality(P) = 2
        BY <2>3, <3>2, <3>3, <3>5, Zenon
      <4> QED
        BY <3>5, <4>1
    <3>6. CASE Q = {e} /\ R = {}
      <4>1. Cardinality(P) = 1
        BY <2>3, <3>1, <3>3, <3>6, Zenon
      <4> QED
        BY <3>4, <3>6, <4>1
    <3>7. CASE Q = {} /\ R = {0}
      <4>1. Cardinality(P) = 1
        BY <2>3, <3>1, <3>3, <3>7, Zenon
      <4> QED
        BY <3>4, <3>7, <4>1
    <3>8. CASE Q = {} /\ R = {}
      <4>1. Cardinality(P) = 0
        BY <2>3, <3>1, <3>3, <3>8, Zenon
      <4> QED
        BY <3>4, <3>8, <4>1
    <3> QED
      BY <3>4, <3>5, <3>6, <3>7, <3>8
  <2>6. /\ Q = {e} <=> e \in DOMAIN passes
        /\ R = {0} <=> 0 \in DOMAIN passes /\ Carries(0) = e
    BY <2>1
  <2>7. Times(streamHistory, e) \in Nat /\ Times(streamHistory, e) + Coming(e) <= 2
    BY <1>1, TimesAppended
  <2>8. Cardinality(P) + (IF e \in Range(buffer) \cup Range(batch) /\ R # {0} THEN 1 ELSE 0) = Coming(e) /\ Coming(e) \in Nat
    BY <2>4, <2>5, <2>6 DEF Coming
  <2>9. Cardinality(P) \in Nat
    BY <2>5
  <2> QED
    BY <2>1, <2>6, <2>7, <2>8, <2>9
<1>3. ASSUME NEW p \in DOMAIN passes, passes[p].next > Len(subscriberList), ~passes[p].left
      PROVE  passes[p].calls = subscriberList
  <2>1. PICK L, k : L = subscriberList /\ k = passes[p].next - 1
    OBVIOUS
  <2>2. /\ L \in Seq(StreamSubscribers) /\ Len(L) \in Nat /\ k = Len(L)
        /\ passes[p].calls = SubSeq(L, 1, k)
    <3>1. L \in Seq(StreamSubscribers) /\ passes[p].next \in Nat /\ passes[p].next <= Len(L) + 1
          /\ passes[p].calls = SubSeq(L, 1, k)
      BY <1>3, <2>1 DEF StreamInv, CallsTrue
    <3>2. Len(L) \in Nat
      BY <3>1, ListDomain
    <3> QED
      BY <1>3, <2>1, <3>1, <3>2
  <2>3. SubSeq(L, 1, Len(L)) = L
    BY <2>2, Beginnings
  <2> QED
    BY <2>1, <2>2, <2>3
<1>4. \A e \in DOMAIN streamed :
        Cardinality({k \in DOMAIN streamHistory : streamHistory[k] = e})
          + Cardinality({p \in DOMAIN passes : Carries(p) = e})
          + (IF e \in Range(buffer) \cup Range(batch) /\ ~(0 \in DOMAIN passes /\ Carries(0) = e)
             THEN 1 ELSE 0) <= 2
  BY <1>2 DEF Times
<1>5. \A i, j \in DOMAIN buffer : i < j =>
        \/ streamed[buffer[i]] > streamed[buffer[j]]
        \/ streamed[buffer[i]] = streamed[buffer[j]] /\ buffer[i] < buffer[j]
  BY <1>1 DEF Served, Precedes
<1> QED
  BY <1>1, <1>3, <1>4, <1>5 DEF StreamOrdered
-----------------------------------------------------------------------------
(* The parts together. Each disjunct of Next changes the state of one part *)
(* and leaves the others alone, but for the alerts, whose steps broadcast  *)
(* over the connections.                                                   *)
PartsInv == ConnInv /\ WalkInv /\ AlertInv /\ HooksInv /\ ItemsInv /\ StreamInv

LEMMA PartsBegin == Init => PartsInv
<1>1. ConnInit => WalkInv
  BY DEF ConnInit, WalkInv
<1> QED
  BY <1>1, ConnInitInv, AlertsBegin, HooksBegin, ItemsBegin, StreamBegin DEF Init, PartsInv

(* Others may use the connections while an alert's broadcast is under way. *)
LEMMA AlertsKeptAside ==
  ASSUME WalkInv, AlertInv, [ConnNext]_connVars, UNCHANGED alertVars
  PROVE  AlertInv'
<1>1. DOMAIN broadcasts \subseteq DOMAIN broadcasts'
  BY BroadcastsStay
<1>2. AlertsPlaced'
  BY <1>1 DEF AlertInv, AlertsPlaced, InHand, Idle, alertVars
<1>3. HistoryInv'
  BY DEF AlertInv, HistoryInv, Made, alertVars
<1>4. ListenersInv'
  BY DEF AlertInv, ListenersInv, alertVars
<1> QED
  BY <1>2, <1>3, <1>4 DEF AlertInv

LEMMA StepOfOne ==
  ASSUME [Next]_vars
  PROVE  /\ [HooksNext]_hookVars /\ [DeliveryNext]_deliveryVars /\ [StreamNext]_streamVars
         /\ \/ [AlertNext]_pushVars
            \/ ConnNext /\ UNCHANGED alertVars
BY DEF Next, AlertsPushed, ConnectionsUsed, WebhooksSent, AlertsDelivered, EventsStreamed, vars

LEMMA ConnectionsStep ==
  ASSUME PartsInv, [Next]_vars
  PROVE  [ConnNext]_connVars
<1>1. AlertsPlaced
  BY DEF PartsInv, AlertInv
<1>2. CASE [AlertNext]_pushVars
  BY <1>1, <1>2, AlertsConnect DEF pushVars
<1>3. CASE ConnNext
  BY <1>3
<1> QED
  BY <1>2, <1>3, StepOfOne

LEMMA PartsStep ==
  ASSUME PartsInv, [Next]_vars
  PROVE  PartsInv' /\ KeepsUrgent /\ KeepsHighest
<1>1. ConnInv' /\ WalkInv'
  BY ConnectionsStep, ConnNextInv, WalkNextInv DEF PartsInv
<1>2. AlertInv' /\ KeepsUrgent
  <2>1. CASE [AlertNext]_pushVars
    BY <2>1, AlertNextInv, UrgentKept DEF PartsInv
  <2>2. CASE ConnNext /\ UNCHANGED alertVars
    <3>1. AlertInv'
      BY <2>2, AlertsKeptAside DEF PartsInv
    <3>2. KeepsUrgent
      BY <2>2 DEF KeepsUrgent, alertVars, PartsInv, AlertInv, AlertsPlaced
    <3> QED
      BY <3>1, <3>2
  <2> QED
    BY <2>1, <2>2, StepOfOne
<1>3. HooksInv' /\ ItemsInv' /\ StreamInv' /\ KeepsHighest
  BY StepOfOne, HooksNextInv, ItemsNextInv, StreamNextInv, HighestKept DEF PartsInv
<1> QED
  BY <1>1, <1>2, <1>3 DEF PartsInv

LEMMA PartsAlways == Spec => []PartsInv
BY PartsBegin, PartsStep, PTL DEF Spec

(* Every variable of every path keeps its type.                            *)
THEOREM AlwaysTyped == Spec => []TypeOK
<1>1. PartsInv => TypeOK
  BY ConnTyped, AlertsTyped, HooksTyped, ItemsTyped, StreamTyped DEF PartsInv, TypeOK
<1> QED
  BY <1>1, PartsAlways, PTL

(* Whatever is to be delivered, an alert, a webhook's delivery, an item of *)
(* a channel or an event of a stream, is always in one place, and is tried *)
(* no more often than the code promises.                                   *)
THEOREM NothingEverAstray == Spec => []NothingAstray
<1>1. PartsInv => NothingAstray
  BY AlertsCounted, HooksCounted, ItemsCounted, StreamCounted DEF PartsInv, NothingAstray
<1> QED
  BY <1>1, PartsAlways, PTL

(* A queue of alerts and a buffer of events that are full give up the      *)
(* entry they should.                                                      *)
THEOREM LimitsAlwaysSpareUrgent == Spec => LimitsSpareUrgent
<1>1. PartsInv /\ [Next]_vars => [KeepsUrgent /\ KeepsHighest]_vars
  BY PartsStep
<1> QED
  BY <1>1, PartsAlways, PTL DEF Spec, LimitsSpareUrgent

(* The indexes of the connections agree also when alerts are broadcast.    *)
THEOREM IndexesAgreeThroughout == Spec => []IndexesAgree
<1>1. PartsInv => IndexesAgree
  BY DEF PartsInv, ConnInv
<1> QED
  BY <1>1, PartsAlways, PTL

(* And so does a broadcast that nobody disturbed, an alert's or another's. *)
THEOREM BroadcastsCompleteThroughout == Spec => BroadcastsComplete
<1>1. PartsInv /\ [Next]_vars => [\A n \in DOMAIN broadcasts : Completes(n)]_connVars
  BY ConnectionsStep, EndingCompletes DEF PartsInv
<1> QED
  BY <1>1, PartsAlways, PTL DEF Spec, BroadcastsComplete
=============================================================================
