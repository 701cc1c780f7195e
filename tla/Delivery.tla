------------------------------ MODULE Delivery ------------------------------
(***************************************************************************)
(* The ways the engine notifies people: alerts pushed over the websocket   *)
(* connections, the connections used by everybody else, webhooks, alert    *)
(* delivery by channel, and the streams. Except for the alerts and the     *)
(* connections, which AlertService composes, they share no state and do    *)
(* not call each other; `path` says which one a behaviour uses.            *)
(***************************************************************************)
EXTENDS AlertService, WebhookManager, AlertDelivery, StreamingService

VARIABLE path

pushVars == <<connVars, alertVars>>

Init ==
  /\ path \in {"alerts", "connections", "webhooks", "channels", "streams"}
  /\ ConnInit /\ AlertInit /\ HooksInit /\ DeliveryInit /\ StreamInit

AlertsPushed ==
  /\ path = "alerts" /\ AlertNext
  /\ UNCHANGED <<path, hookVars, deliveryVars, streamVars>>

ConnectionsUsed ==
  /\ path = "connections" /\ ConnNext
  /\ UNCHANGED <<path, alertVars, hookVars, deliveryVars, streamVars>>

WebhooksSent ==
  /\ path = "webhooks" /\ HooksNext
  /\ UNCHANGED <<path, pushVars, deliveryVars, streamVars>>

AlertsDelivered ==
  /\ path = "channels" /\ DeliveryNext
  /\ UNCHANGED <<path, pushVars, hookVars, streamVars>>

EventsStreamed ==
  /\ path = "streams" /\ StreamNext
  /\ UNCHANGED <<path, pushVars, hookVars, deliveryVars>>

vars == <<path, pushVars, hookVars, deliveryVars, streamVars>>

Next == AlertsPushed \/ ConnectionsUsed \/ WebhooksSent \/ AlertsDelivered \/ EventsStreamed

Spec == Init /\ [][Next]_vars

-----------------------------------------------------------------------------
TypeOK ==
  /\ ConnTypeOK /\ AlertTypeOK
  /\ HooksTypeOK /\ DeliveryTypeOK /\ StreamTypeOK

(* As stated in the modules: what is to be delivered is in one place, and *)
(* is not tried more often than the code promises, through every failure, *)
(* stop and restart.                                                       *)
NothingAstray ==
  /\ AlertsAccounted /\ HooksAccounted /\ ItemsAccounted /\ StreamOrdered

(* As stated in AlertService and StreamingService: which entry a queue at *)
(* its limit gives up.                                                     *)
LimitsSpareUrgent == [][KeepsUrgent /\ KeepsHighest]_vars
=============================================================================
