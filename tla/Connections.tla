---------------------------- MODULE Connections ----------------------------
(***************************************************************************)
(* ConnectionManager and the client handler of WebSocketManager, of        *)
(* core/infrastructure/websocket: the open connections, the indexes the    *)
(* broadcasts read, and broadcasts that iterate over a live index while    *)
(* they await every send. Groups are the users and the companies, Topics   *)
(* the metrics and the KPIs: the code treats the two of each alike.        *)
(***************************************************************************)
EXTENDS Naturals, Sequences, SequencesExt, FiniteSets, FiniteSetsExt

CONSTANTS
  Clients,        \* client ids: fresh for every connection, so each connects once
  Groups,         \* users and companies
  GroupsOf(_),    \* those a client connected with
  Topics,         \* metrics and KPIs
  Everybody,      \* the target of broadcast()
  MaxBroadcasts   \* bound: broadcasts started

ASSUME ConnectionsAssumption ==
  /\ \A c \in Clients : GroupsOf(c) \subseteq Groups
  /\ Everybody \notin Groups \cup Topics
  /\ Groups \cap Topics = {}

VARIABLES
  active,      \* keys of active_connections
  subscribed,  \* client -> topics kept in its ClientConnection
  byGroup,     \* connections_by_user, connections_by_company
  byTopic,     \* connections_by_metric, connections_by_kpi
  handler,     \* handle_client_connection of each client: "none", "open", "over"
  broken,      \* clients whose socket fails on every send
  broadcasts   \* every broadcast so far, see Broadcast

connVars == <<active, subscribed, byGroup, byTopic, handler, broken, broadcasts>>

Targets == Groups \cup Topics \cup {Everybody}

Audience(t) ==
  IF t \in Groups THEN byGroup[t] ELSE IF t \in Topics THEN byTopic[t] ELSE active
AudienceAfter(t) ==
  IF t \in Groups THEN byGroup'[t] ELSE IF t \in Topics THEN byTopic'[t] ELSE active'

ConnInit ==
  /\ active = {}
  /\ subscribed = [c \in Clients |-> {}]
  /\ byGroup = [g \in Groups |-> {}]
  /\ byTopic = [t \in Topics |-> {}]
  /\ handler = [c \in Clients |-> "none"]
  /\ broken = {}
  /\ broadcasts = <<>>

(* History: which broadcasts under way, other than those in `own`, see    *)
(* their audience change in this step.                                     *)
Disturbing(bs, own) ==
  [n \in DOMAIN bs |->
     IF n \notin own /\ bs[n].state = "sending" /\ AudienceAfter(bs[n].target) # Audience(bs[n].target)
     THEN [bs[n] EXCEPT !.disturbed = TRUE] ELSE bs[n]]

Connect(c) ==
  /\ handler[c] = "none"
  /\ handler' = [handler EXCEPT ![c] = "open"]
  /\ active' = active \cup {c}
  /\ byGroup' = [g \in Groups |-> IF g \in GroupsOf(c) THEN byGroup[g] \cup {c} ELSE byGroup[g]]
  /\ UNCHANGED <<subscribed, byTopic, broken>>
  /\ broadcasts' = Disturbing(broadcasts, {})

(* The messages subscribe and unsubscribe; the manager refuses a client   *)
(* that is no longer connected.                                            *)
SubscribeTo(c, t) ==
  /\ handler[c] = "open" /\ c \in active /\ t \notin subscribed[c]
  /\ subscribed' = [subscribed EXCEPT ![c] = @ \cup {t}]
  /\ byTopic' = [byTopic EXCEPT ![t] = @ \cup {c}]
  /\ UNCHANGED <<active, byGroup, handler, broken>>
  /\ broadcasts' = Disturbing(broadcasts, {})

UnsubscribeFrom(c, t) ==
  /\ handler[c] = "open" /\ c \in active /\ t \in subscribed[c]
  /\ subscribed' = [subscribed EXCEPT ![c] = @ \ {t}]
  /\ byTopic' = [byTopic EXCEPT ![t] = @ \ {c}]
  /\ UNCHANGED <<active, byGroup, handler, broken>>
  /\ broadcasts' = Disturbing(broadcasts, {})

SocketBreaks(c) ==
  /\ handler[c] = "open" /\ c \notin broken
  /\ broken' = broken \cup {c}
  /\ UNCHANGED <<active, subscribed, byGroup, byTopic, handler, broadcasts>>

(* Mutated form: disconnect forgetting the subscriptions. *)
DisconnectKeepingTopics(cs) ==
  /\ active' = active \ cs
  /\ byGroup' = [g \in Groups |-> byGroup[g] \ {c \in cs \cap active : g \in GroupsOf(c)}]
  /\ subscribed' = [c \in Clients |-> IF c \in cs THEN {} ELSE subscribed[c]]
  /\ UNCHANGED byTopic

(* disconnect of several clients one after the other, without a pause.    *)
Disconnect(cs) ==
  /\ active' = active \ cs
  /\ byGroup' = [g \in Groups |-> byGroup[g] \ {c \in cs \cap active : g \in GroupsOf(c)}]
  /\ byTopic' = [t \in Topics |-> byTopic[t] \ {c \in cs \cap active : t \in subscribed[c]}]
  /\ subscribed' = [c \in Clients |-> IF c \in cs THEN {} ELSE subscribed[c]]

(* The receive loop ends, in the client's leaving or on a broken socket;  *)
(* what is cleaned up may have been so before.                             *)
HandlerEnds(c) ==
  /\ handler[c] = "open"
  /\ handler' = [handler EXCEPT ![c] = "over"]
  /\ Disconnect({c})
  /\ broken' = broken \ {c}
  /\ broadcasts' = Disturbing(broadcasts, {})

(* Any clients may have been idle for longer than the timeout.            *)
CleanupInactive(cs) ==
  /\ cs # {} /\ Disconnect(cs)
  /\ UNCHANGED <<handler, broken>>
  /\ broadcasts' = Disturbing(broadcasts, {})

-----------------------------------------------------------------------------
(* A broadcast with the audience it started on (`due`), those it has sent *)
(* to or tried (`visited`, `failed`), and, as history, whether anything    *)
(* but itself changed the audience.                                        *)
Broadcast(t) == [target |-> t, due |-> Audience(t), visited |-> {}, failed |-> {},
                 state |-> "sending", disturbed |-> FALSE]

(* Python refuses to go on with an iteration over a dict or a set whose   *)
(* size has changed, also at its end.                                      *)
Resized(b) == Cardinality(Audience(b.target)) # Cardinality(b.due)

(* The step of the loop after which it waits for the send to c.            *)
Tried(b, c) == [b EXCEPT !.visited = @ \cup {c}, !.failed = IF c \in broken THEN @ \cup {c} ELSE @]

Left(b) == Audience(b.target) \ b.visited

StartBroadcast(t) ==
  /\ Len(broadcasts) < MaxBroadcasts
  /\ broadcasts' = Append(broadcasts, Broadcast(t))
  /\ UNCHANGED <<active, subscribed, byGroup, byTopic, handler, broken>>

(* Mutated form: the failed client is disconnected in the loop. *)
SendDisconnecting(n, c) ==
  /\ broadcasts[n].state = "sending" /\ ~Resized(broadcasts[n]) /\ c \in Left(broadcasts[n])
  /\ Disconnect({c} \cap broken)
  /\ broadcasts' = Disturbing([broadcasts EXCEPT ![n] = Tried(@, c)], {n})
  /\ UNCHANGED <<handler, broken>>

Send(n, c) ==
  /\ broadcasts[n].state = "sending" /\ ~Resized(broadcasts[n]) /\ c \in Left(broadcasts[n])
  /\ broadcasts' = [broadcasts EXCEPT ![n] = Tried(@, c)]
  /\ UNCHANGED <<active, subscribed, byGroup, byTopic, handler, broken>>

(* Of a broadcast that is over, only how it ended is kept.                 *)
Over(b, how) == [b EXCEPT !.state = how, !.due = {}, !.visited = {}, !.failed = {}]

(* RuntimeError: who failed so far is not disconnected.                    *)
Raises(n) ==
  /\ broadcasts[n].state = "sending" /\ Resized(broadcasts[n])
  /\ broadcasts' = [broadcasts EXCEPT ![n] = Over(@, "raised")]
  /\ UNCHANGED <<active, subscribed, byGroup, byTopic, handler, broken>>

(* The loop ends when nobody is left; with an audience of the same size   *)
(* but other members, the order of the set may also hide those who came.   *)
Returns(n) ==
  /\ broadcasts[n].state = "sending" /\ ~Resized(broadcasts[n])
  /\ Left(broadcasts[n]) = {} \/ broadcasts[n].disturbed
  /\ Disconnect(broadcasts[n].failed)
  /\ UNCHANGED <<handler, broken>>
  /\ broadcasts' = Disturbing([broadcasts EXCEPT ![n] = Over(@, "returned")], {n})

(* The task that broadcasts is cancelled at a send.                        *)
Cancelled(n) ==
  /\ broadcasts[n].state = "sending"
  /\ broadcasts' = [broadcasts EXCEPT ![n] = Over(@, "cancelled")]
  /\ UNCHANGED <<active, subscribed, byGroup, byTopic, handler, broken>>

Broadcasting(n) == (\E c \in Clients : Send(n, c)) \/ Raises(n) \/ Returns(n)

ClientSteps ==
  \/ \E c \in Clients : Connect(c) \/ SocketBreaks(c) \/ HandlerEnds(c)
  \/ \E c \in Clients, t \in Topics : SubscribeTo(c, t) \/ UnsubscribeFrom(c, t)
  \/ \E cs \in SUBSET active : CleanupInactive(cs)

ConnNext ==
  \/ ClientSteps
  \/ \E t \in Targets : StartBroadcast(t)
  \/ \E n \in DOMAIN broadcasts : Broadcasting(n) \/ Cancelled(n)

ConnSpec == ConnInit /\ [][ConnNext]_connVars

-----------------------------------------------------------------------------
ConnTypeOK ==
  /\ active \subseteq Clients /\ broken \subseteq Clients
  /\ subscribed \in [Clients -> SUBSET Topics]
  /\ byGroup \in [Groups -> SUBSET Clients]
  /\ byTopic \in [Topics -> SUBSET Clients]
  /\ handler \in [Clients -> {"none", "open", "over"}]
  /\ \A n \in DOMAIN broadcasts :
        /\ broadcasts[n].target \in Targets
        /\ broadcasts[n].failed \subseteq broadcasts[n].visited
        /\ broadcasts[n].visited \subseteq Clients

(* The indexes hold exactly the connected clients, under the user and     *)
(* company they came with and under the topics they are subscribed to,     *)
(* although a client can be dropped by its handler, by the clean-up and by *)
(* a broadcast that failed to reach it, and its handler may go on and      *)
(* process a subscription after that.                                      *)
IndexesAgree ==
  /\ \A g \in Groups : byGroup[g] = {c \in active : g \in GroupsOf(c)}
  /\ \A t \in Topics : byTopic[t] = {c \in active : t \in subscribed[c]}
  /\ \A c \in active : handler[c] = "open"

(* Unless cancelled, a broadcast that nobody disturbed returns, having    *)
(* tried each client of its audience, and every client it failed to reach  *)
(* is disconnected then: it never trips over its own cleaning up.          *)
Completes(n) ==
  LET b == broadcasts[n] IN
  b.state = "sending" /\ broadcasts'[n].state \in {"returned", "raised"} /\ ~b.disturbed
    => /\ broadcasts'[n].state = "returned"
       /\ b.visited = b.due /\ b.failed \cap active' = {}

BroadcastsComplete == [][\A n \in DOMAIN broadcasts : Completes(n)]_connVars
=============================================================================
