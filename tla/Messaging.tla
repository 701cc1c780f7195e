----------------------------- MODULE Messaging -----------------------------
(***************************************************************************)
(* The three ways messages travel inside the process: the event bus, the   *)
(* message router and the in-memory broker. They share no state and do not *)
(* call each other, so a behaviour that uses one of them stands for all:   *)
(* `channel` says which.                                                   *)
(***************************************************************************)
EXTENDS EventBus, MessageRouter

CONSTANTS
  Queues, BindingKeys, Callbacks, MaxLen, MaxBindings,
  MaxPublished, MaxSubscribed                           \* of InMemoryBroker

VARIABLES
  channel,
  queues, bindings, subscribers, consumers, brokerStats, routed

(* A callable is no subscription id.                                       *)
ASSUME BrokerAssumption ==
  /\ MaxLen \in Nat /\ MaxSubscribed \in Nat /\ IsFiniteSet(Queues)
  /\ \A c \in Callbacks : \A id \in 1..MaxSubscribed : c # id

Broker == INSTANCE InMemoryBroker

brokerVars == <<queues, bindings, subscribers, consumers, brokerStats, routed>>

Init ==
  /\ channel \in {"bus", "router", "broker"}
  /\ BusInit /\ RouterInit /\ Broker!BrokerInit

BusUsed ==
  /\ channel = "bus" /\ BusNext
  /\ UNCHANGED <<channel, routerVars, brokerVars>>

RouterUsed ==
  /\ channel = "router" /\ RouterNext
  /\ UNCHANGED <<channel, busVars, brokerVars>>

BrokerUsed ==
  /\ channel = "broker" /\ Broker!BrokerNext
  /\ UNCHANGED <<channel, busVars, routerVars>>

vars == <<channel, busVars, routerVars, brokerVars>>

Spec == Init /\ [][BusUsed \/ RouterUsed \/ BrokerUsed]_vars

-----------------------------------------------------------------------------
TypeOK == BusTypeOK /\ RouterTypeOK /\ Broker!BrokerTypeOK

(* As stated in MessageRouter and InMemoryBroker: what the cache, the      *)
(* order of the rules and the statistics promise around add_rule and       *)
(* remove_rule; what the queues hold, and their high-water mark.           *)
RulesAndQueues == Consistent /\ Broker!QueuesHoldTheLatest
=============================================================================
