--------------------------- MODULE WebhookManager ---------------------------
(***************************************************************************)
(* WebhookManager of core/infrastructure/webhooks: registrations, the      *)
(* queue of deliveries, and the one worker that sends and retries them.    *)
(* Webhooks are numbered as they are registered, deliveries as they are    *)
(* triggered. next_retry is computed and never read: a retry waits behind  *)
(* what is queued and for nothing else.                                    *)
(***************************************************************************)
EXTENDS Integers, Sequences, SequencesExt, FiniteSets, FiniteSetsExt

CONSTANTS
  EventTypes,      \* WebhookEvent
  HookListeners,   \* callbacks of subscribe
  MaxAttempts,     \* max_retries of a webhook, 3 in the code
  MaxRecords,      \* max_delivery_history, 10000 in the code
  MaxWebhooks,     \* bound: webhooks registered
  MaxDeliveries    \* bound: deliveries triggered

ASSUME HooksAssumption == MaxAttempts \in Nat \ {0} /\ MaxRecords \in Nat

VARIABLES
  registered,     \* how many webhooks there have been
  webhooks,       \* those that exist: [events, active, successes, failures]
  deliveries,     \* every WebhookDelivery: [webhook, attempt, success, completed]
  retryQueue,     \* retry_queue
  records,        \* deliveries of the manager: one entry per attempt
  hookListeners,  \* listeners
  hookRunning,    \* _is_running
  worker,         \* the delivery in hand, whether its webhook existed, the next listener
  dropped         \* history variable: deliveries a stop has dropped

hookVars == <<registered, webhooks, deliveries, retryQueue, records, hookListeners,
              hookRunning, worker, dropped>>

AtRest == [delivery |-> 0, known |-> FALSE, next |-> 0]

HooksInit ==
  /\ registered = 0 /\ webhooks = <<>> /\ deliveries = <<>>
  /\ retryQueue = <<>> /\ records = <<>> /\ hookListeners = <<>>
  /\ hookRunning = FALSE /\ worker = AtRest /\ dropped = {}

RegisterWebhook(es) ==
  /\ registered < MaxWebhooks /\ registered' = registered + 1
  /\ webhooks' = [w \in DOMAIN webhooks \cup {registered + 1} |->
                    IF w \in DOMAIN webhooks THEN webhooks[w]
                    ELSE [events |-> es, active |-> TRUE, successes |-> 0, failures |-> 0]]
  /\ UNCHANGED <<deliveries, retryQueue, records, hookListeners, hookRunning, worker, dropped>>

(* An empty list of events leaves the old one.                             *)
UpdateWebhook(w, es, on) ==
  /\ webhooks' = [webhooks EXCEPT ![w].events = IF es = {} THEN @ ELSE es, ![w].active = on]
  /\ UNCHANGED <<registered, deliveries, retryQueue, records, hookListeners, hookRunning,
                 worker, dropped>>

DeleteWebhook(w) ==
  /\ webhooks' = [v \in DOMAIN webhooks \ {w} |-> webhooks[v]]
  /\ UNCHANGED <<registered, deliveries, retryQueue, records, hookListeners, hookRunning,
                 worker, dropped>>

Concerned(e) == {w \in DOMAIN webhooks : webhooks[w].active /\ e \in webhooks[w].events}

(* A dictionary is walked in the order of its insertions. *)
Walk(ws) ==
  CHOOSE s \in [1..Cardinality(ws) -> ws] : \A i, j \in 1..Cardinality(ws) : i < j => s[i] < s[j]

TriggerEvent(e) ==
  LET due  == Walk(Concerned(e))
      made == [i \in DOMAIN due |-> [webhook |-> due[i], attempt |-> 1,
                                     success |-> FALSE, completed |-> FALSE]]
  IN
  /\ due # <<>> /\ Len(deliveries) + Len(due) <= MaxDeliveries
  /\ deliveries' = deliveries \o made
  /\ retryQueue' = retryQueue \o [i \in DOMAIN due |-> Len(deliveries) + i]
  /\ UNCHANGED <<registered, webhooks, records, hookListeners, hookRunning, worker, dropped>>

HookSubscribe(l) ==
  /\ l \notin Range(hookListeners) /\ hookListeners' = Append(hookListeners, l)
  /\ UNCHANGED <<registered, webhooks, deliveries, retryQueue, records, hookRunning, worker, dropped>>

HookUnsubscribe(l) ==
  /\ l \in Range(hookListeners)
  /\ hookListeners' = RemoveAt(hookListeners, CHOOSE i \in DOMAIN hookListeners : hookListeners[i] = l)
  /\ UNCHANGED <<registered, webhooks, deliveries, retryQueue, records, hookRunning, worker, dropped>>

-----------------------------------------------------------------------------
StartWorker ==
  /\ ~hookRunning /\ hookRunning' = TRUE
  /\ UNCHANGED <<registered, webhooks, deliveries, retryQueue, records, hookListeners, worker, dropped>>

Sending == worker.delivery # 0 /\ worker.next = 0

(* stop cancels the worker where it waits: a delivery being sent is in no *)
(* list any more.                                                          *)
StopWorker ==
  /\ hookRunning /\ hookRunning' = FALSE
  /\ dropped' = IF Sending THEN dropped \cup {worker.delivery} ELSE dropped
  /\ worker' = AtRest
  /\ UNCHANGED <<registered, webhooks, deliveries, retryQueue, records, hookListeners>>

TakeDelivery ==
  /\ hookRunning /\ worker = AtRest /\ retryQueue # <<>>
  /\ worker' = [delivery |-> Head(retryQueue), next |-> 0,
                known |-> deliveries[Head(retryQueue)].webhook \in DOMAIN webhooks]
  /\ retryQueue' = Tail(retryQueue)
  /\ UNCHANGED <<registered, webhooks, deliveries, records, hookListeners, hookRunning, dropped>>

(* success_count and failure_count of a webhook that still exists.        *)
Counted(w, ok) ==
  IF w \notin DOMAIN webhooks THEN webhooks
  ELSE [webhooks EXCEPT ![w].successes = IF ok THEN @ + 1 ELSE @,
                        ![w].failures  = IF ok THEN @ ELSE @ + 1]

StoreDelivery(d) ==
  LET all == Append(records, d) IN
  IF Len(all) > MaxRecords THEN SubSeq(all, Len(all) - MaxRecords + 1, Len(all)) ELSE all

(* Mutated form: the attempt is compared before it is counted. *)
RetriesLate(d) == deliveries[d].attempt <= MaxAttempts

Retries(d) == deliveries[d].attempt + 1 <= MaxAttempts

(* The answer of the receiver; a webhook that is gone fails at once, and  *)
(* each failure is retried until the attempts are used up.                 *)
Answered(ok) ==
  LET d == worker.delivery IN
  /\ Sending /\ (ok => worker.known)
  /\ webhooks' = Counted(deliveries[d].webhook, ok)
  /\ deliveries' = [deliveries EXCEPT ![d].success = ok, ![d].completed = ok \/ ~Retries(d),
                                      ![d].attempt = IF ok THEN @ ELSE @ + 1]
  /\ retryQueue' = IF ~ok /\ Retries(d) THEN Append(retryQueue, d) ELSE retryQueue
  /\ records' = StoreDelivery(d)
  /\ worker' = [worker EXCEPT !.next = 1]
  /\ UNCHANGED <<registered, hookListeners, hookRunning, dropped>>

NotifyListener ==
  /\ worker.next \in DOMAIN hookListeners
  /\ worker' = [worker EXCEPT !.next = @ + 1]
  /\ UNCHANGED <<registered, webhooks, deliveries, retryQueue, records, hookListeners,
                 hookRunning, dropped>>

DeliveryDone ==
  /\ worker # AtRest /\ worker.next > Len(hookListeners)
  /\ worker' = AtRest
  /\ UNCHANGED <<registered, webhooks, deliveries, retryQueue, records, hookListeners,
                 hookRunning, dropped>>

HooksNext ==
  \/ \E es \in SUBSET EventTypes : RegisterWebhook(es)
  \/ \E w \in DOMAIN webhooks, es \in SUBSET EventTypes, on \in BOOLEAN :
       UpdateWebhook(w, es, on)
  \/ \E w \in DOMAIN webhooks : DeleteWebhook(w)
  \/ \E e \in EventTypes : TriggerEvent(e)
  \/ \E l \in HookListeners : HookSubscribe(l) \/ HookUnsubscribe(l)
  \/ StartWorker \/ StopWorker \/ TakeDelivery
  \/ \E ok \in BOOLEAN : Answered(ok)
  \/ NotifyListener \/ DeliveryDone

-----------------------------------------------------------------------------
HooksTypeOK ==
  /\ DOMAIN webhooks \subseteq 1..registered
  /\ retryQueue \in Seq(DOMAIN deliveries) /\ records \in Seq(DOMAIN deliveries)
  /\ worker.delivery \in DOMAIN deliveries \cup {0}
  /\ \A d \in DOMAIN deliveries : deliveries[d].webhook \in 1..registered

Places(d) == {p \in {"queued", "sending", "completed", "dropped"} :
                \/ p = "queued"    /\ d \in Range(retryQueue)
                \/ p = "sending"   /\ Sending /\ d = worker.delivery
                \/ p = "completed" /\ deliveries[d].completed
                \/ p = "dropped"   /\ d \in dropped}

Tries(d) == deliveries[d].attempt - (IF deliveries[d].success THEN 0 ELSE 1)

(* A delivery waits once, or is being sent, or is completed, or was        *)
(* dropped by a stop; it is tried at most MaxAttempts times and only      *)
(* completed by a success or by the last of them. What a webhook counts    *)
(* are the tries of its deliveries, and its successes their successes,     *)
(* whatever was deleted, deactivated or stopped meanwhile.                 *)
HooksAccounted ==
  /\ Len(retryQueue) = Cardinality(Range(retryQueue))
  /\ \A d \in DOMAIN deliveries :
       /\ Cardinality(Places(d)) = 1
       /\ Tries(d) <= MaxAttempts
       /\ deliveries[d].completed <=> deliveries[d].success \/ Tries(d) = MaxAttempts
  /\ \A w \in DOMAIN webhooks :
       LET own == {d \in DOMAIN deliveries : deliveries[d].webhook = w} IN
       /\ webhooks[w].successes + webhooks[w].failures = FoldSet(LAMBDA d, n : n + Tries(d), 0, own)
       /\ webhooks[w].successes = Cardinality({d \in own : deliveries[d].success})
=============================================================================
