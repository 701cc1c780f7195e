---------------------------- MODULE AlertService ----------------------------
(***************************************************************************)
(* AlertService and AlertQueue of core/application/services, on top of the *)
(* connections it broadcasts to. Alerts are numbered as they are created,  *)
(* by create_alert or by a rule, and all belong to one company. The locks  *)
(* of the queue never wait: nothing is awaited inside them.                *)
(***************************************************************************)
EXTENDS Connections

CONSTANTS
  Company,        \* the target of every alert
  AlertClients,   \* bound: clients that come and go while alerts are processed
  Rules,          \* AlertRules, registered and enabled
  Listeners,      \* callbacks
  MaxQueue,       \* AlertQueue.max_size, 1000 in the code
  MaxPerSource,   \* max_history_per_source, 100 in the code
  MaxAlerts       \* bound: alerts

ASSUME AlertsAssumption ==
  /\ Company \in Groups /\ AlertClients \subseteq Clients
  /\ MaxQueue \in Nat \ {0} /\ MaxPerSource \in Nat \ {0}

VARIABLES
  alerts,       \* every alert so far: [critical, rule]
  queue,        \* AlertQueue.alerts
  history,      \* alert_history of the one source of create_alert
  resolved,     \* alerts of the history with is_resolved
  recent,       \* recent_alerts: rules still in their throttle window
  listeners,    \* listeners, called in this order
  running,      \* _is_running
  task,         \* _process_alerts: the alert in hand, its broadcast, the next listener
  settled,      \* history variable: alert -> "processed", "lost" or "evicted"
  told          \* history variable: listeners called for the alert in hand, until
                \* one has left meanwhile

alertVars == <<alerts, queue, history, resolved, recent, listeners, running, task, settled, told>>

Idle == [alert |-> 0, broadcast |-> 0, next |-> 0]
Quiet == [calls |-> <<>>, left |-> FALSE]

AlertInit ==
  /\ alerts = <<>> /\ queue = <<>> /\ history = <<>>
  /\ resolved = {} /\ recent = {}
  /\ listeners = <<>>
  /\ running = FALSE /\ task = Idle
  /\ settled = <<>> /\ told = Quiet

-----------------------------------------------------------------------------
(* The two sorts of enqueue, for alerts as in `as`. *)
Older(as, a, b)  == IF as[a].critical # as[b].critical THEN as[b].critical ELSE a < b
Before(as, a, b) == IF as[a].critical # as[b].critical THEN as[b].critical ELSE a > b

(* Mutated form: a full queue gives up the alert at its head. *)
VictimUnsorted(as) == Head(queue)

(* The lowest of a full queue: an alert that is not critical if there is   *)
(* one, the oldest of its kind.                                            *)
Victim(as) == CHOOSE a \in Range(queue) : \A b \in Range(queue) \ {a} : Older(as, a, b)

(* The sort of the queue, once the newest is in it. *)
Sorted(S, as) ==
  CHOOSE s \in [1..Cardinality(S) -> S] :
    \A i, j \in 1..Cardinality(S) : i < j => Before(as, s[i], s[j])

(* A full queue makes room whatever the new alert is. The queue is then    *)
(* sorted in reverse: the newest first, critical ones behind all others.   *)
Enqueue(a, as) ==
  LET full == Len(queue) >= MaxQueue
      gone == IF full THEN {Victim(as)} ELSE {}
  IN
  /\ alerts' = as
  /\ queue' = Sorted((Range(queue) \ gone) \cup {a}, as)
  /\ settled' = [x \in DOMAIN settled \cup gone |-> IF x \in gone THEN "evicted" ELSE settled[x]]

Remembered(a) == IF Len(history) = MaxPerSource THEN Append(Tail(history), a) ELSE Append(history, a)

CreateAlert(critical) ==
  LET a == Len(alerts) + 1 IN
  /\ a <= MaxAlerts
  /\ Enqueue(a, Append(alerts, [critical |-> critical, rule |-> FALSE]))
  /\ history' = Remembered(a)
  /\ resolved' = resolved \cap Range(history')
  /\ UNCHANGED <<recent, listeners, running, task, told>>

(* evaluate_rules for one rule whose condition holds; its severity is that *)
(* it was last registered with. What a rule creates is not put into the    *)
(* history.                                                                *)
RuleFires(r, critical) ==
  LET a == Len(alerts) + 1 IN
  /\ a <= MaxAlerts /\ r \notin recent
  /\ Enqueue(a, Append(alerts, [critical |-> critical, rule |-> TRUE]))
  /\ recent' = recent \cup {r}
  /\ UNCHANGED <<history, resolved, listeners, running, task, told>>

ThrottleEnds(r) ==
  /\ r \in recent /\ recent' = recent \ {r}
  /\ UNCHANGED <<alerts, queue, history, resolved, listeners, running, task, settled, told>>

(* Found only while the alert is in the history.                          *)
ResolveAlert(a) ==
  /\ a \in Range(history) /\ a \notin resolved /\ resolved' = resolved \cup {a}
  /\ UNCHANGED <<alerts, queue, history, recent, listeners, running, task, settled, told>>

(* list.remove: a listener is in the list once. *)
WithoutListener(l) == RemoveAt(listeners, CHOOSE i \in DOMAIN listeners : listeners[i] = l)

SubscribeListener(l) ==
  /\ l \notin Range(listeners) /\ listeners' = Append(listeners, l)
  /\ UNCHANGED <<alerts, queue, history, resolved, recent, running, task, settled, told>>

UnsubscribeListener(l) ==
  /\ l \in Range(listeners) /\ listeners' = WithoutListener(l)
  /\ told' = IF task.next > 0 THEN [calls |-> <<>>, left |-> TRUE] ELSE told
  /\ UNCHANGED <<alerts, queue, history, resolved, recent, running, task, settled>>

Requests ==
  \/ \E critical \in BOOLEAN : CreateAlert(critical) \/ \E r \in Rules : RuleFires(r, critical)
  \/ \E r \in Rules : ThrottleEnds(r)
  \/ \E a \in DOMAIN alerts : ResolveAlert(a)
  \/ \E l \in Listeners : SubscribeListener(l) \/ UnsubscribeListener(l)

-----------------------------------------------------------------------------
StartService ==
  /\ ~running /\ running' = TRUE
  /\ UNCHANGED <<alerts, queue, history, resolved, recent, listeners, task, settled, told>>
  /\ UNCHANGED connVars

Settle(how) ==
  /\ settled' = [x \in DOMAIN settled \cup {task.alert} |->
                   IF x = task.alert THEN how ELSE settled[x]]
  /\ task' = Idle /\ told' = Quiet

(* stop cancels the task at its await: the alert in hand is dropped.      *)
StopService ==
  /\ running /\ running' = FALSE
  /\ UNCHANGED <<alerts, queue, history, resolved, recent, listeners>>
  /\ IF task = Idle THEN UNCHANGED <<task, settled, told>> /\ UNCHANGED connVars
     ELSE /\ Settle("lost")
          /\ IF task.next = 0 /\ broadcasts[task.broadcast].state = "sending"
             THEN Cancelled(task.broadcast) ELSE UNCHANGED connVars

Dequeue ==
  /\ running /\ task = Idle /\ queue # <<>>
  /\ StartBroadcast(Company)
  /\ task' = [alert |-> Head(queue), broadcast |-> Len(broadcasts) + 1, next |-> 0]
  /\ queue' = Tail(queue)
  /\ UNCHANGED <<alerts, history, resolved, recent, listeners, running, settled, told>>

(* The broadcast of the alert in hand has returned, or it has raised and  *)
(* the alert is given up before the listeners hear of it.                  *)
BroadcastDone ==
  /\ task # Idle /\ task.next = 0
  /\ \/ broadcasts[task.broadcast].state = "returned"
        /\ task' = [task EXCEPT !.next = 1] /\ UNCHANGED <<settled, told>>
     \/ broadcasts[task.broadcast].state = "raised" /\ Settle("lost")
  /\ UNCHANGED <<alerts, queue, history, resolved, recent, listeners, running>>
  /\ UNCHANGED connVars

(* The listeners are a live list, walked by position; what one raises is  *)
(* swallowed.                                                              *)
NextListener ==
  /\ task.next \in DOMAIN listeners
  /\ told' = [told EXCEPT !.calls = IF told.left THEN @ ELSE Append(@, listeners[task.next])]
  /\ task' = [task EXCEPT !.next = @ + 1]
  /\ UNCHANGED <<alerts, queue, history, resolved, recent, listeners, running, settled>>
  /\ UNCHANGED connVars

ListenersDone ==
  /\ task # Idle /\ task.next > Len(listeners)
  /\ Settle("processed")
  /\ UNCHANGED <<alerts, queue, history, resolved, recent, listeners, running>>
  /\ UNCHANGED connVars

Processing == Dequeue \/ BroadcastDone \/ NextListener \/ ListenersDone

AlertNext ==
  \/ Requests /\ UNCHANGED connVars
  \/ StartService \/ StopService \/ Processing
  \/ (\E c \in AlertClients : Connect(c) \/ SocketBreaks(c) \/ HandlerEnds(c)) /\ UNCHANGED alertVars
  \/ (\E n \in DOMAIN broadcasts : Broadcasting(n)) /\ UNCHANGED alertVars

-----------------------------------------------------------------------------
InHand == {task.alert} \ {0}

AlertTypeOK ==
  /\ queue \in Seq(DOMAIN alerts) /\ history \in Seq(DOMAIN alerts)
  /\ resolved \subseteq DOMAIN alerts /\ recent \subseteq Rules
  /\ listeners \in Seq(Listeners)
  /\ task.alert \in DOMAIN alerts \cup {0}

(* Every alert is queued, in hand, or settled, and only one of the three; *)
(* the history names the latest that create_alert made; and without an     *)
(* unsubscribe in the meantime, whoever listens when an alert has been     *)
(* processed has heard of it once.                                         *)
AlertsAccounted ==
  LET made == {a \in DOMAIN alerts : ~alerts[a].rule} IN
  /\ Len(queue) <= MaxQueue
  /\ Range(queue) \cup InHand \cup DOMAIN settled = DOMAIN alerts
  /\ Len(queue) + Cardinality(InHand) + Cardinality(DOMAIN settled) = Len(alerts)
  /\ Range(history) = {a \in made : Cardinality({b \in made : b > a}) < MaxPerSource}
  /\ task.next > Len(listeners) /\ ~told.left => told.calls = listeners

(* A full queue gives up a critical alert only when it holds no other     *)
(* kind, and of the same kind always the oldest.                           *)
KeepsUrgent ==
  \A a \in Range(queue), b \in Range(queue) :
    a \in DOMAIN settled' /\ settled'[a] = "evicted" /\ a # b
      => IF alerts[a].critical THEN alerts[b].critical /\ a < b
         ELSE alerts[b].critical \/ a < b

(* The comment in enqueue says "Sort by severity (critical first)": no     *)
(* alert is taken from the queue before a critical one.                    *)
CriticalFirst ==
  [][\A a \in Range(queue) :
       task = Idle /\ task' # Idle /\ alerts[a].critical => alerts[task'.alert].critical]_alertVars
=============================================================================
