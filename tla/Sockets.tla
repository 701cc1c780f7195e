------------------------------- MODULE Sockets -------------------------------
(***************************************************************************)
(* ConnectionManager, WebSocketHandler, EventBroadcaster and the receivers *)
(* of core/interfaces/websocket: connection.py and routes.py.              *)
(*                                                                         *)
(* A route keys its sockets by path and client. The list of a key is       *)
(* deleted with its last socket and made anew by the next, and a broadcast *)
(* walks the list it found while it awaits every send: `socketLists` holds *)
(* every list there has been, `table` the one of each key.                 *)
(***************************************************************************)
EXTENDS Naturals, SequencesExt, FiniteSetsExt, Functions, Lists

CONSTANTS
  Sockets,       \* each connects once
  ChannelOf(_),  \* the key of active_connections its route gives a socket
  Channels,      \* the keys, and the names EventBroadcaster broadcasts to
  MaxWalks       \* bound: broadcasts, errors and answers

ASSUME SocketsAssumption ==
  /\ \A s \in Sockets : ChannelOf(s) \in Channels
  /\ MaxWalks \in Nat

VARIABLES
  socketLists,  \* the lists there have been, oldest first
  table,        \* active_connections: the number of the list of each channel, 0 for none
  receiver,     \* websocket_receiver of each socket: none, open, answering, over
  walks         \* broadcasts and send_to_clients, see Walk

socketVars == <<socketLists, table, receiver, walks>>

(* One walk: `list` is the list under the for, `to` the socket it awaits, *)
(* `at` its place, `rest` the clients broadcast_error has still to serve. *)
(* History: `due`, the members when it began, `tried`, those it sent to,  *)
(* and `left`, how many sockets left the list meanwhile.                   *)
Walk(kind, owner, channel, rest) ==
  [kind |-> kind, owner |-> owner, rest |-> rest, channel |-> channel,
   list |-> table[channel], at |-> 1, failed |-> <<>>, tried |-> <<>>,
   to |-> Head(socketLists[table[channel]]),
   due |-> Range(socketLists[table[channel]]), left |-> 0, state |-> "sending"]

SocketsInit ==
  /\ socketLists = <<>>
  /\ table = [c \in Channels |-> 0]
  /\ receiver = [s \in Sockets |-> "none"]
  /\ walks = <<>>

Connect(s) ==
  LET c == ChannelOf(s) IN
  /\ receiver[s] = "none"
  /\ receiver' = [receiver EXCEPT ![s] = "open"]
  /\ IF table[c] = 0
     THEN /\ socketLists' = Append(socketLists, <<s>>)
          /\ table' = [table EXCEPT ![c] = Len(socketLists')]
     ELSE /\ socketLists' = [socketLists EXCEPT ![table[c]] = Append(@, s)]
          /\ UNCHANGED table
  /\ UNCHANGED walks

(* Python's list.remove: the first of them goes. *)
FirstTaken(list, s) == RemoveAt(list, Min({i \in DOMAIN list : list[i] = s}))

(* Mutated form: the key of an empty list is kept. *)
UnlistedOnly(t, c, s) ==
  LET n == t.table[c] IN
  IF t.raised \/ n = 0 THEN t
  ELSE IF s \notin Range(t.lists[n]) THEN [t EXCEPT !.raised = TRUE]
  ELSE [t EXCEPT !.lists[n] = FirstTaken(@, s)]

(* disconnect(channel, s) on `t`, a pair of lists and table: `raised` when *)
(* the list of the channel no longer holds s.                              *)
Unlisted(t, c, s) ==
  LET n == t.table[c] left == FirstTaken(t.lists[n], s) IN
  IF t.raised \/ n = 0 THEN t
  ELSE IF s \notin Range(t.lists[n]) THEN [lists |-> t.lists, table |-> t.table, raised |-> TRUE]
  ELSE [lists |-> [t.lists EXCEPT ![n] = left],
        table |-> [t.table EXCEPT ![c] = IF left = <<>> THEN 0 ELSE @], raised |-> FALSE]

UnlistedAll(t, c, ss) == FoldLeft(LAMBDA acc, s : Unlisted(acc, c, s), t, ss)

Now == [lists |-> socketLists, table |-> table, raised |-> FALSE]

(* The walks `ws` once the lists are those of `t`. *)
Noticed(ws, t) ==
  [n \in DOMAIN ws |->
     IF ws[n].state # "sending" THEN ws[n]
     ELSE [ws[n] EXCEPT !.left = @ + Len(socketLists[ws[n].list]) - Len(t.lists[ws[n].list])]]

(* receive_json raises: the client left, or sent what is no JSON. A       *)
(* ValueError of disconnect ends in the route.                             *)
Leave(s) ==
  LET t == Unlisted(Now, ChannelOf(s), s) IN
  /\ receiver[s] = "open"
  /\ receiver' = [receiver EXCEPT ![s] = "over"]
  /\ socketLists' = t.lists /\ table' = t.table
  /\ walks' = Noticed(walks, t)

Broadcast(c) ==
  /\ Len(walks) < MaxWalks /\ table[c] # 0
  /\ walks' = Append(walks, Walk("broadcast", 0, c, <<>>))
  /\ UNCHANGED <<socketLists, table, receiver>>

(* broadcast_error without a channel: over a copy of the keys. *)
BroadcastError ==
  LET keys == SetToSeq({c \in Channels : table[c] # 0}) IN
  /\ Len(walks) < MaxWalks /\ keys # <<>>
  /\ walks' = Append(walks, Walk("error", 0, Head(keys), Tail(keys)))
  /\ UNCHANGED <<socketLists, table, receiver>>

(* A message with a handler that answers, or that raised: send_to_client  *)
(* to every socket of the client, from the receiver of one of them.        *)
AnswerMessage(s) ==
  /\ receiver[s] = "open" /\ Len(walks) < MaxWalks /\ table[ChannelOf(s)] # 0
  /\ receiver' = [receiver EXCEPT ![s] = "answering"]
  /\ walks' = Append(walks, Walk("answer", s, ChannelOf(s), <<>>))
  /\ UNCHANGED <<socketLists, table>>

(* The send of walk n is over, and `failed` tells how; another follows. *)
Tried(w, failed) ==
  [w EXCEPT !.tried = Append(@, w.to), !.failed = IF failed THEN Append(@, w.to) ELSE @]

SendsNext(n) ==
  \E failed \in BOOLEAN :
    LET w == Tried(walks[n], failed) members == socketLists[w.list] IN
    /\ w.state = "sending" /\ w.at < Len(members)
    /\ walks' = [walks EXCEPT ![n] = [w EXCEPT !.at = w.at + 1, !.to = members[w.at + 1]]]
    /\ UNCHANGED <<socketLists, table, receiver>>

(* The list is at its end: broadcast disconnects those that failed, one   *)
(* after the other until a disconnect raises; broadcast_error goes on to   *)
(* the next client that is still there.                                    *)
EndsList(n) ==
  \E failed \in BOOLEAN :
    LET w     == Tried(walks[n], failed)
        later == Only(w.rest, {c \in Channels : table[c] # 0})
        t     == IF w.kind # "broadcast" THEN Now
                 ELSE UnlistedAll(Now, w.channel, w.failed)
        ended == [w EXCEPT !.state = IF t.raised THEN "raised" ELSE "over"]
    IN
    /\ w.state = "sending" /\ w.at >= Len(socketLists[w.list])
    /\ IF later = <<>>
       THEN /\ walks' = Noticed([walks EXCEPT ![n] = ended], t)
            /\ receiver' = [s \in Sockets |-> IF w.kind = "answer" /\ s = w.owner
                                              THEN "open" ELSE receiver[s]]
       ELSE /\ walks' = [walks EXCEPT ![n] = Walk("error", 0, Head(later), Tail(later))]
            /\ UNCHANGED receiver
    /\ socketLists' = t.lists /\ table' = t.table

SocketsNext ==
  \/ \E s \in Sockets : Connect(s) \/ Leave(s) \/ AnswerMessage(s)
  \/ \E c \in Channels : Broadcast(c)
  \/ BroadcastError
  \/ \E n \in DOMAIN walks : SendsNext(n) \/ EndsList(n)
-----------------------------------------------------------------------------
SocketsTypeOK ==
  /\ Range(socketLists) \subseteq Seq(Sockets)
  /\ \A c \in Channels : table[c] \in 0 .. Len(socketLists)
  /\ \A s \in Sockets : receiver[s] \in {"none", "open", "answering", "over"}
  /\ \A w \in Range(walks) : w.state \in {"sending", "over", "raised"} /\ w.to \in Sockets

(* The table lists what is connected: a listed channel has a socket,      *)
(* every socket stands under its own channel only, once, and none whose    *)
(* receiver is over, whoever removed it and however often.                 *)
TableTells ==
  \A c \in Channels :
    table[c] # 0 =>
      /\ socketLists[table[c]] # <<>> /\ IsInjective(socketLists[table[c]])
      /\ \A s \in Range(socketLists[table[c]]) :
           ChannelOf(s) = c /\ receiver[s] \in {"open", "answering"}

(* A walk over a list that others change under it sends to nobody twice,  *)
(* and of the sockets it found it misses no more than have left the list:  *)
(* one that leaves costs itself or the one the walk then steps over. A     *)
(* broadcast that ended has disconnected every socket that failed.         *)
WalksReach ==
  \A w \in Range(walks) :
    /\ IsInjective(w.tried)
    /\ w.state = "over" => Cardinality(w.due \ Range(w.tried)) <= w.left
    /\ w.state = "over" /\ w.kind = "broadcast" =>
         \A c \in Channels : table[c] # 0 =>
           Range(w.failed) \cap Range(socketLists[table[c]]) = {}
=============================================================================
