--------------------------- MODULE RabbitMQBroker ---------------------------
(***************************************************************************)
(* RabbitMQBroker of core/infrastructure/messaging/broker.py, beside the   *)
(* part of pika and of the server that it relies on (external): one queue, *)
(* a connection that may be lost, deliveries that the server holds until   *)
(* they are acknowledged and queues again when the channel ends.           *)
(*                                                                         *)
(* Every method blocks for the whole of its call, so each is one step. The *)
(* consumers are called when somebody lets the connection process its      *)
(* events: no code of the repository does, so it is the environment here.  *)
(***************************************************************************)
EXTENDS Naturals, SequencesExt, FiniteSetsExt, Functions, Lists

CONSTANTS
  RabbitMessages,  \* a caller publishes again what was not sent
  Prefetch,        \* prefetch_count
  MaxSubscribes,   \* bound: calls of subscribe
  MaxRabbitCalls   \* bound: connections, callbacks that raise, failures before a publish

ASSUME RabbitAssumption ==
  /\ IsFiniteSet(RabbitMessages)
  /\ Prefetch \in Nat \ {0}
  /\ {MaxSubscribes, MaxRabbitCalls} \subseteq Nat

VARIABLES
  enableAck,   \* config.enable_ack
  channel,     \* _channel: none, open, lost (and nobody has noticed), closed
  subscribed,  \* _subscriptions: the numbers of the calls that made them
  rabbitStats, \* stats
  sentAs,      \* each message's status
  inbox,       \* deliveries that pika holds for the consumers
  server,      \* the server: queue, bound, ready, unacked, consumers
  settled,     \* history: messages acknowledged, dropped, and taken into the queue
  handled,     \* history: how often each message's callback returned
  mishaps      \* history: calls of connect and subscribe, raises, channels lost, strays

rabbitVars == <<enableAck, channel, subscribed, rabbitStats, sentAs, inbox, server, settled, handled, mishaps>>

RabbitInit ==
  /\ enableAck \in BOOLEAN
  /\ channel = "none" /\ subscribed = {} /\ inbox = <<>>
  /\ rabbitStats = [published |-> 0, consumed |-> 0, failed |-> 0, acknowledged |-> 0]
  /\ sentAs = [m \in RabbitMessages |-> "pending"]
  /\ server = [queue |-> "none", bound |-> FALSE, ready |-> <<>>, unacked |-> <<>>, consumers |-> {}]
  /\ settled = [acked |-> {}, dropped |-> {}, routed |-> {}]
  /\ handled = [m \in RabbitMessages |-> 0]
  /\ mishaps = [connects |-> 0, subscribes |-> 0, raises |-> 0, ends |-> 0, stray |-> FALSE]

Tallied(field) == [rabbitStats EXCEPT ![field] = @ + 1]

(* The server lets go of a channel: what it held for it is ready again.    *)
Released ==
  [server EXCEPT !.ready = [i \in DOMAIN server.unacked |-> server.unacked[i].m] \o @,
                 !.unacked = <<>>, !.consumers = {}]
Ended == [mishaps EXCEPT !.ends = @ + 1, !.stray = @ \/ server.consumers # {}]

(* The channel is closed, by an error that a call of it raises.            *)
ChannelFails ==
  /\ channel' = IF channel = "none" THEN "none" ELSE "closed"
  /\ inbox' = <<>>
  /\ server' = Released

-----------------------------------------------------------------------------
(* connect; when it raises, nothing has changed.                           *)
RabbitConnect ==
  /\ mishaps.connects < MaxRabbitCalls
  /\ mishaps' = [IF channel = "open" THEN Ended ELSE mishaps EXCEPT !.connects = @ + 1]
  /\ channel' = "open" /\ inbox' = <<>>
  /\ server' = Released
  /\ UNCHANGED <<enableAck, subscribed, rabbitStats, sentAs, settled, handled>>

RabbitDisconnect ==
  /\ channel \in {"open", "lost"}
  /\ ChannelFails
  /\ mishaps' = Ended
  /\ UNCHANGED <<enableAck, subscribed, rabbitStats, sentAs, settled, handled>>

(* The network or the heartbeat: the server lets go, pika has not noticed. *)
LoseConnection ==
  /\ channel = "open"
  /\ channel' = "lost"
  /\ server' = Released
  /\ mishaps' = Ended
  /\ UNCHANGED <<enableAck, subscribed, rabbitStats, sentAs, inbox, settled, handled>>

(* publish: False without a channel, and nothing is noted; with one that   *)
(* raises the message is failed; sent means handed over, no more.          *)
RabbitPublish(m) ==
  /\ sentAs[m] # "sent" /\ rabbitStats.failed < MaxRabbitCalls
  /\ \/ channel = "none" /\ UNCHANGED <<channel, inbox, server, rabbitStats, sentAs, settled>>
     \/ /\ channel \in {"closed", "lost"}
        /\ ChannelFails
        /\ rabbitStats' = Tallied("failed")
        /\ sentAs' = [sentAs EXCEPT ![m] = "failed"]
        /\ UNCHANGED settled
     \/ /\ channel \in {"open", "lost"}
        /\ rabbitStats' = Tallied("published")
        /\ sentAs' = [sentAs EXCEPT ![m] = "sent"]
        /\ IF channel = "open" /\ server.bound
           THEN /\ server' = [server EXCEPT !.ready = Append(@, m)]
                /\ settled' = [settled EXCEPT !.routed = @ \cup {m}]
           ELSE UNCHANGED <<server, settled>>
        /\ UNCHANGED <<channel, inbox>>
  /\ UNCHANGED <<enableAck, subscribed, handled, mishaps>>

(* declare_queue, bind_queue and purge_queue raise without a channel; the  *)
(* server closes the channel over a queue declared otherwise before, or    *)
(* not at all.                                                             *)
OnQueue(fits, after) ==
  /\ \/ /\ channel = "open" /\ fits
        /\ server' = after
        /\ UNCHANGED <<channel, inbox, mishaps>>
     \/ /\ ~(channel = "open" /\ fits)
        /\ ChannelFails
        /\ mishaps' = IF channel = "open" THEN Ended ELSE mishaps
  /\ UNCHANGED <<enableAck, subscribed, rabbitStats, sentAs, handled>>

DeclareQueue(kind) ==
  OnQueue(server.queue \in {"none", kind}, [server EXCEPT !.queue = kind]) /\ UNCHANGED settled

BindQueue == OnQueue(server.queue # "none", [server EXCEPT !.bound = TRUE]) /\ UNCHANGED settled

PurgeQueue ==
  /\ OnQueue(server.queue # "none", [server EXCEPT !.ready = <<>>])
  /\ settled' = IF channel = "open" /\ server.queue # "none"
                THEN [settled EXCEPT !.dropped = @ \cup ToSet(server.ready)] ELSE settled

(* The time to live that publish or declare_queue gave is over for the     *)
(* message at the head: the server drops it, handled or not. (A dead       *)
(* letter exchange that takes it is another queue's business.)             *)
RabbitExpires ==
  /\ server.ready # <<>>
  /\ server' = [server EXCEPT !.ready = Tail(@)]
  /\ settled' = [settled EXCEPT !.dropped = @ \cup {Head(server.ready)}]
  /\ UNCHANGED <<enableAck, channel, subscribed, rabbitStats, sentAs, inbox, handled, mishaps>>

(* subscribe: the callback is kept before the server is asked.             *)
RabbitSubscribe ==
  LET s == mishaps.subscribes + 1
      open == channel = "open" /\ server.queue # "none"
      called == [mishaps EXCEPT !.subscribes = s, !.stray = @ \/ ~open]
  IN  /\ s <= MaxSubscribes
      /\ subscribed' = subscribed \cup {s}
      /\ IF open
         THEN /\ server' = [server EXCEPT !.consumers = @ \cup {s}]
              /\ mishaps' = called
              /\ UNCHANGED <<channel, inbox>>
         ELSE /\ ChannelFails
              /\ mishaps' = [called EXCEPT !.ends = @ + IF channel = "open" THEN 1 ELSE 0]
      /\ UNCHANGED <<enableAck, rabbitStats, sentAs, settled, handled>>

(* unsubscribe forgets the callback; the consumer holds it still.          *)
RabbitUnsubscribe(s) ==
  /\ s \in subscribed
  /\ subscribed' = subscribed \ {s}
  /\ mishaps' = [mishaps EXCEPT !.stray = TRUE]
  /\ UNCHANGED <<enableAck, channel, rabbitStats, sentAs, inbox, server, settled, handled>>

-----------------------------------------------------------------------------
HeldFor(s) == Cardinality({i \in DOMAIN server.unacked : server.unacked[i].s = s})

UnackedBut(d) == Only(server.unacked, Range(server.unacked) \ {d})

Deliver(s) ==
  /\ channel = "open" /\ s \in server.consumers
  /\ server.ready # <<>> /\ HeldFor(s) < Prefetch
  /\ LET d == [m |-> Head(server.ready), s |-> s]
     IN  /\ server' = [server EXCEPT !.ready = Tail(@), !.unacked = Append(@, d)]
         /\ inbox' = Append(inbox, d)
  /\ UNCHANGED <<enableAck, channel, subscribed, rabbitStats, sentAs, settled, handled, mishaps>>

(* basic_ack and basic_nack: on a lost channel they raise, or nobody knows.*)
Acks(d) ==
  \/ /\ channel = "open"
     /\ server' = [server EXCEPT !.unacked = UnackedBut(d)]
     /\ settled' = [settled EXCEPT !.acked = @ \cup {d.m}]
     /\ UNCHANGED channel
  \/ channel = "lost" /\ UNCHANGED <<channel, server, settled>>

Nacks(d) ==
  /\ server' = IF channel = "open"
               THEN [server EXCEPT !.unacked = UnackedBut(d), !.ready = <<d.m>> \o @]
               ELSE server
  /\ UNCHANGED <<channel, settled>>

(* consumer_callback, where the callback returns: it is counted as         *)
(* acknowledged before basic_ack, and whether or not there is one; when    *)
(* basic_ack raises it is failed too, and basic_nack raises to the caller. *)
Consumed ==
  LET d == Head(inbox)
      tallied == [rabbitStats EXCEPT !.consumed = @ + 1, !.acknowledged = @ + 1]
  IN  /\ inbox # <<>>
      /\ handled' = [handled EXCEPT ![d.m] = @ + 1]
      /\ \/ /\ IF enableAck THEN Acks(d) ELSE UNCHANGED <<channel, server, settled>>
            /\ rabbitStats' = tallied
            /\ inbox' = Tail(inbox)
         \/ /\ enableAck /\ channel = "lost"
            /\ rabbitStats' = [tallied EXCEPT !.failed = @ + 1]
            /\ ChannelFails
            /\ UNCHANGED settled
      /\ UNCHANGED <<enableAck, subscribed, sentAs, mishaps>>

(* consumer_callback, where the body is not JSON or the callback raises.   *)
CallbackRaises ==
  LET d == Head(inbox)
  IN  /\ inbox # <<>> /\ mishaps.raises < MaxRabbitCalls
      /\ mishaps' = [mishaps EXCEPT !.raises = @ + 1]
      /\ rabbitStats' = Tallied("failed")
      /\ \/ Nacks(d) /\ inbox' = Tail(inbox)
         \/ channel = "lost" /\ ChannelFails /\ UNCHANGED settled
      /\ UNCHANGED <<enableAck, subscribed, sentAs, handled>>

RabbitNext ==
  \/ RabbitConnect \/ RabbitDisconnect \/ LoseConnection
  \/ \E m \in RabbitMessages : RabbitPublish(m)
  \/ \E kind \in {"durable", "transient"} : DeclareQueue(kind)
  \/ BindQueue \/ PurgeQueue \/ RabbitExpires
  \/ RabbitSubscribe
  \/ \E s \in 1..MaxSubscribes : RabbitUnsubscribe(s) \/ Deliver(s)
  \/ Consumed \/ CallbackRaises

-----------------------------------------------------------------------------
RabbitTypeOK ==
  /\ subscribed \subseteq 1..MaxSubscribes /\ server.consumers \subseteq 1..MaxSubscribes
  /\ channel = "none" => inbox = <<>> /\ server.consumers = {}
  /\ \A s \in 1..MaxSubscribes : HeldFor(s) <= Prefetch

Places(m) ==
  Cardinality({i \in DOMAIN server.ready : server.ready[i] = m})
    + Cardinality({i \in DOMAIN server.unacked : server.unacked[i].m = m})
    + Cardinality({x \in {"acked", "dropped"} : m \in settled[x]})

(* A message that got into the queue is ready, held for a consumer,        *)
(* acknowledged, or dropped by a purge or for its time to live, and one of *)
(* them only: a raise or a lost channel alone never loses it. It is acknowledged only once handled, and handled twice *)
(* only when a channel ended. Without enable_ack nothing is acknowledged,  *)
(* and a channel's consumers stop at prefetch_count messages each. Until a *)
(* subscription fails, is dropped or outlives its channel the consumers    *)
(* that get_stats counts are those there are.                              *)
RabbitAccounts ==
  /\ \A m \in RabbitMessages :
       /\ Places(m) = (IF m \in settled.routed THEN 1 ELSE 0)
       /\ m \in settled.acked => handled[m] > 0 /\ enableAck
       /\ handled[m] > 1 => mishaps.ends > 0
  /\ rabbitStats.consumed = FoldFunction(LAMBDA x, rest : rest + x, 0, handled)
  /\ rabbitStats.published = Cardinality({m \in RabbitMessages : sentAs[m] = "sent"})
  /\ mishaps.ends = 0 /\ ~enableAck => rabbitStats.consumed <= Prefetch * MaxSubscribes
  /\ enableAck /\ mishaps.ends = 0 => rabbitStats.acknowledged = Cardinality(settled.acked)
  /\ ~mishaps.stray => subscribed = server.consumers
=============================================================================
