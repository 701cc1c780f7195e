--------------------------- MODULE AlertDelivery ---------------------------
(***************************************************************************)
(* AlertDeliveryManager of core/infrastructure/alerts: send_alert tries    *)
(* every recipient of every channel and queues the failures for the retry  *)
(* worker. The delivery of one alert on one channel to one recipient is an *)
(* "item"; ItemsOf says which a call has, channel by channel.              *)
(***************************************************************************)
EXTENDS Naturals, Sequences, SequencesExt, FiniteSets

CONSTANTS
  Calls,            \* calls of send_alert, each with an alert of its own
  Channels,
  Items,
  ItemsOf(_),       \* call -> Seq(Items), those of one channel together
  ChannelOf(_),     \* item -> its channel
  MaxItemRetries,   \* the literal 3 of _queue_retry and _retry_worker
  MaxItemRecords    \* max_records, 10000 in the code

ASSUME ItemsAssumption ==
  /\ \A n \in Calls : ItemsOf(n) \in Seq(Items)
  /\ \A m, n \in Calls : \A i \in DOMAIN ItemsOf(m), j \in DOMAIN ItemsOf(n) :
       ItemsOf(m)[i] = ItemsOf(n)[j] => m = n /\ i = j
  /\ "none" \notin Items
  /\ MaxItemRetries \in Nat /\ MaxItemRecords \in Nat

VARIABLES
  providers,    \* channels with a registered provider
  called,       \* calls made so far
  todo,         \* call -> items left, the first of them being sent
  itemQueue,    \* retry_queue: [item, count]
  itemRecords,  \* delivery_records: <<item, success>>
  retrying,     \* _is_running
  retry,        \* what the worker is sending, [item, count]
  outcome       \* history variable: per item, the answers it got and its end

deliveryVars == <<providers, called, todo, itemQueue, itemRecords, retrying, retry, outcome>>

Nothing == [item |-> "none", count |-> 0]

DeliveryInit ==
  /\ providers = {} /\ called = {} /\ todo = [n \in Calls |-> <<>>]
  /\ itemQueue = <<>> /\ itemRecords = <<>>
  /\ retrying = FALSE /\ retry = Nothing
  /\ outcome = [i \in Items |-> [tries |-> 0, end |-> "none"]]

RegisterProvider(c) ==
  /\ c \notin providers /\ providers' = providers \cup {c}
  /\ UNCHANGED <<called, todo, itemQueue, itemRecords, retrying, retry, outcome>>

(* What is left from the first channel that has a provider.               *)
Ahead(is) ==
  LET served == {k \in DOMAIN is : ChannelOf(is[k]) \in providers} IN
  IF served = {} THEN <<>>
  ELSE SubSeq(is, CHOOSE k \in served : \A j \in served : k <= j, Len(is))

SendAlert(n) ==
  /\ n \notin called /\ called' = called \cup {n}
  /\ todo' = [todo EXCEPT ![n] = Ahead(ItemsOf(n))]
  /\ UNCHANGED <<providers, itemQueue, itemRecords, retrying, retry, outcome>>

Stored(i, ok) ==
  LET all == Append(itemRecords, <<i, ok>>) IN
  IF Len(all) > MaxItemRecords THEN Tail(all) ELSE all

(* The history of an item after one more answer.                           *)
Noted(i, ok) ==
  [outcome EXCEPT ![i] = [tries |-> @.tries + 1, end |-> IF ok THEN "delivered" ELSE @.end]]

(* Mutated form: one comparison off by one. *)
QueueRetryOnceMore(i, count) ==
  IF count <= MaxItemRetries THEN Append(itemQueue, [item |-> i, count |-> count + 1]) ELSE itemQueue

(* _queue_retry, called with the count so far.                             *)
QueueRetry(i, count) ==
  IF count < MaxItemRetries THEN Append(itemQueue, [item |-> i, count |-> count + 1]) ELSE itemQueue

ProviderAnswers(n, ok) ==
  /\ todo[n] # <<>>
  /\ LET i == Head(todo[n]) IN
     /\ itemRecords' = Stored(i, ok)
     /\ itemQueue' = IF ok THEN itemQueue ELSE QueueRetry(i, 0)
     /\ outcome' = Noted(i, ok)
     /\ todo' = [todo EXCEPT ![n] = Ahead(Tail(@))]
  /\ UNCHANGED <<providers, called, retrying, retry>>

(* The provider raises, or the caller is cancelled: the recipients that   *)
(* were left are never tried.                                              *)
SendAlertAborted(n) ==
  /\ todo[n] # <<>> /\ todo' = [todo EXCEPT ![n] = <<>>]
  /\ outcome' = [outcome EXCEPT ![Head(todo[n])].end = "aborted"]
  /\ UNCHANGED <<providers, called, itemQueue, itemRecords, retrying, retry>>

-----------------------------------------------------------------------------
StartRetryWorker ==
  /\ ~retrying /\ retrying' = TRUE
  /\ UNCHANGED <<providers, called, todo, itemQueue, itemRecords, retry, outcome>>

GivenUp(how) == [outcome EXCEPT ![retry.item].end = how]

StopRetryWorker ==
  /\ retrying /\ retrying' = FALSE
  /\ outcome' = IF retry = Nothing THEN outcome ELSE GivenUp("aborted")
  /\ retry' = Nothing
  /\ UNCHANGED <<providers, called, todo, itemQueue, itemRecords>>

TakeRetry ==
  /\ retrying /\ retry = Nothing /\ itemQueue # <<>>
  /\ retry' = Head(itemQueue) /\ itemQueue' = Tail(itemQueue)
  /\ UNCHANGED <<providers, called, todo, itemRecords, retrying, outcome>>

RetryAnswered(ok) ==
  /\ retry # Nothing
  /\ itemRecords' = Stored(retry.item, ok)
  /\ itemQueue' = IF ok THEN itemQueue ELSE QueueRetry(retry.item, retry.count)
  /\ outcome' = Noted(retry.item, ok)
  /\ retry' = Nothing
  /\ UNCHANGED <<providers, called, todo, retrying>>

(* The worker logs the exception and goes on with the next entry.         *)
RetryRaises ==
  /\ retry # Nothing /\ retry' = Nothing
  /\ outcome' = GivenUp("aborted")
  /\ UNCHANGED <<providers, called, todo, itemQueue, itemRecords, retrying>>

DeliveryNext ==
  \/ \E c \in Channels : RegisterProvider(c)
  \/ \E n \in Calls : SendAlert(n) \/ SendAlertAborted(n)
  \/ \E n \in Calls, ok \in BOOLEAN : ProviderAnswers(n, ok)
  \/ StartRetryWorker \/ StopRetryWorker \/ TakeRetry \/ RetryRaises
  \/ \E ok \in BOOLEAN : RetryAnswered(ok)

-----------------------------------------------------------------------------
DeliveryTypeOK ==
  /\ providers \subseteq Channels /\ called \subseteq Calls
  /\ \A n \in Calls : todo[n] \in Seq(Items)
  /\ itemQueue \in Seq([item : Items, count : 1..MaxItemRetries])
  /\ itemRecords \in Seq(Items \X BOOLEAN)

Waiting(i) == {k \in DOMAIN itemQueue : itemQueue[k].item = i}

(* An item that failed is queued or being retried, once, until it was     *)
(* delivered, aborted or tried MaxItemRetries times more; nothing follows  *)
(* a success, and the records are of the latest answers.                   *)
ItemsAccounted ==
  /\ \A i \in Items :
       LET held == Cardinality(Waiting(i)) + (IF retry.item = i THEN 1 ELSE 0)
           o    == outcome[i]
       IN
       /\ o.tries <= MaxItemRetries + 1
       /\ held = IF o.tries \in 1..MaxItemRetries /\ o.end = "none" THEN 1 ELSE 0
       /\ \A k \in Waiting(i) : itemQueue[k].count = o.tries
       /\ o.end = "delivered" => \A k \in DOMAIN itemRecords :
            itemRecords[k] = <<i, TRUE>> => \A j \in DOMAIN itemRecords : j > k => itemRecords[j][1] # i
  /\ Len(itemRecords) <= MaxItemRecords
=============================================================================
