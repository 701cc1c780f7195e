-------------------------- MODULE StreamingService --------------------------
(***************************************************************************)
(* StreamingService and StreamBuffer of core/application/services, for the *)
(* events of one stream type. An event is handed to the subscribers twice: *)
(* by the task that emits it, and once more by the processing task that    *)
(* takes it out of the buffer. Each hand-over is a "pass" over the live    *)
(* list of subscribers. The locks of the buffer never wait.                *)
(***************************************************************************)
EXTENDS Naturals, Sequences, SequencesExt, FiniteSets

CONSTANTS
  StreamSubscribers,   \* callbacks
  Priorities,          \* a set of numbers, higher is more important
  MaxBuffer,           \* StreamBuffer.max_size, 1000 in the code
  BatchSize,           \* 10 in the code
  MaxStreamHistory,    \* max_history_per_stream, 100 in the code
  MaxStreamed          \* bound: events

ASSUME StreamAssumption ==
  /\ Priorities \subseteq Nat
  /\ MaxBuffer \in Nat \ {0} /\ BatchSize \in Nat \ {0} /\ MaxStreamHistory \in Nat \ {0}

VARIABLES
  streamed,        \* every event so far: its priority
  buffer,          \* StreamBuffer.events
  streamHistory,   \* event_history of the stream
  subscriberList,  \* subscribers of the stream
  streaming,       \* _is_running
  batch,           \* events the processing task has yet to hand over, the first under way
  passes           \* passes under way, by whom: [next, calls, left]

streamVars == <<streamed, buffer, streamHistory, subscriberList, streaming, batch, passes>>

(* Passes are named by the event its emitter hands over; 0 is that of the *)
(* processing task. `calls` and `left` are history: who was called, until  *)
(* somebody unsubscribed meanwhile.                                        *)
NewPass == [next |-> 1, calls |-> <<>>, left |-> FALSE]
Carries(p) == IF p = 0 THEN Head(batch) ELSE p

StreamInit ==
  /\ streamed = <<>> /\ buffer = <<>> /\ streamHistory = <<>> /\ subscriberList = <<>>
  /\ streaming = FALSE /\ batch = <<>>
  /\ passes = [p \in {} |-> NewPass]

With(p)    == [q \in DOMAIN passes \cup {p} |-> IF q = p THEN NewPass ELSE passes[q]]
Without(p) == [q \in DOMAIN passes \ {p} |-> passes[q]]

(* Python's sort is stable: among equals the order of the list remains.   *)
Lowest == CHOOSE i \in DOMAIN buffer : \A j \in DOMAIN buffer :
            \/ streamed[buffer[i]] < streamed[buffer[j]]
            \/ streamed[buffer[i]] = streamed[buffer[j]] /\ i <= j

(* A full buffer gives up its lowest event, whatever the new one is.      *)
Kept == IF Len(buffer) < MaxBuffer THEN buffer ELSE RemoveAt(buffer, Lowest)

(* The new event goes behind those of its own priority, before the first  *)
(* of a lower one.                                                         *)
Entry(priority) ==
  CHOOSE p \in 1..(Len(Kept) + 1) :
    /\ \A i \in 1..(p - 1) : streamed[Kept[i]] >= priority
    /\ p <= Len(Kept) => streamed[Kept[p]] < priority

EmitUpdate(priority) ==
  LET e == Len(streamed) + 1 IN
  /\ e <= MaxStreamed
  /\ streamed' = Append(streamed, priority)
  /\ buffer' = InsertAt(Kept, Entry(priority), e)
  /\ passes' = With(e)
  /\ UNCHANGED <<streamHistory, subscriberList, streaming, batch>>

SubscribeStream(s) ==
  /\ s \notin Range(subscriberList) /\ subscriberList' = Append(subscriberList, s)
  /\ UNCHANGED <<streamed, buffer, streamHistory, streaming, batch, passes>>

UnsubscribeStream(s) ==
  /\ s \in Range(subscriberList)
  /\ subscriberList' = RemoveAt(subscriberList, CHOOSE i \in DOMAIN subscriberList : subscriberList[i] = s)
  /\ passes' = [p \in DOMAIN passes |-> [passes[p] EXCEPT !.left = TRUE, !.calls = <<>>]]
  /\ UNCHANGED <<streamed, buffer, streamHistory, streaming, batch>>

(* The next callback is awaited; what it raises is swallowed.             *)
CallSubscriber(p) ==
  LET o == passes[p] IN
  /\ p \in DOMAIN passes /\ o.next \in DOMAIN subscriberList
  /\ passes' = [passes EXCEPT ![p] =
       [next |-> o.next + 1, left |-> o.left,
        calls |-> IF o.left THEN o.calls ELSE Append(o.calls, subscriberList[o.next])]]
  /\ UNCHANGED <<streamed, buffer, streamHistory, subscriberList, streaming, batch>>

(* At its end the pass puts its event into the history; the processing    *)
(* task goes on with its batch.                                            *)
PassEnds(p) ==
  /\ p \in DOMAIN passes /\ passes[p].next > Len(subscriberList)
  /\ streamHistory' = IF Len(streamHistory) = MaxStreamHistory
                      THEN Append(Tail(streamHistory), Carries(p))
                      ELSE Append(streamHistory, Carries(p))
  /\ batch' = IF p = 0 THEN Tail(batch) ELSE batch
  /\ passes' = IF p = 0 /\ Len(batch) > 1 THEN With(0) ELSE Without(p)
  /\ UNCHANGED <<streamed, buffer, subscriberList, streaming>>

(* The emitter's task is cancelled.                                        *)
EmitterCancelled(p) ==
  /\ p \in DOMAIN passes \ {0} /\ passes' = Without(p)
  /\ UNCHANGED <<streamed, buffer, streamHistory, subscriberList, streaming, batch>>

TakeBatch ==
  /\ streaming /\ batch = <<>> /\ buffer # <<>>
  /\ batch' = SubSeq(buffer, 1, IF Len(buffer) < BatchSize THEN Len(buffer) ELSE BatchSize)
  /\ buffer' = SubSeq(buffer, BatchSize + 1, Len(buffer))
  /\ passes' = With(0)
  /\ UNCHANGED <<streamed, streamHistory, subscriberList, streaming>>

StartStreaming ==
  /\ ~streaming /\ streaming' = TRUE
  /\ UNCHANGED <<streamed, buffer, streamHistory, subscriberList, batch, passes>>

(* The rest of the batch is handed over by nobody.                         *)
StopStreaming ==
  /\ streaming /\ streaming' = FALSE
  /\ batch' = <<>> /\ passes' = Without(0)
  /\ UNCHANGED <<streamed, buffer, streamHistory, subscriberList>>

FlushBuffer ==
  /\ buffer # <<>> /\ buffer' = <<>>
  /\ UNCHANGED <<streamed, streamHistory, subscriberList, streaming, batch, passes>>

StreamNext ==
  \/ \E priority \in Priorities : EmitUpdate(priority)
  \/ \E s \in StreamSubscribers : SubscribeStream(s) \/ UnsubscribeStream(s)
  \/ \E p \in 0..MaxStreamed : CallSubscriber(p) \/ PassEnds(p) \/ EmitterCancelled(p)
  \/ TakeBatch \/ StartStreaming \/ StopStreaming \/ FlushBuffer

-----------------------------------------------------------------------------
StreamTypeOK ==
  /\ buffer \in Seq(DOMAIN streamed) /\ batch \in Seq(DOMAIN streamed)
  /\ streamHistory \in Seq(DOMAIN streamed)
  /\ subscriberList \in Seq(StreamSubscribers)
  /\ DOMAIN passes \subseteq {0} \cup DOMAIN streamed

(* The buffer serves by priority and equals in their order, an event is   *)
(* held once, in the buffer or in the batch, and is handed over at most    *)
(* twice; a pass nobody left during reaches every subscriber once.         *)
StreamOrdered ==
  /\ Len(buffer) <= MaxBuffer
  /\ \A i, j \in DOMAIN buffer : i < j =>
       \/ streamed[buffer[i]] > streamed[buffer[j]]
       \/ streamed[buffer[i]] = streamed[buffer[j]] /\ buffer[i] < buffer[j]
  /\ Range(buffer) \cap Range(batch) = {} /\ (batch # <<>> <=> 0 \in DOMAIN passes)
  /\ \A e \in DOMAIN streamed :
       Cardinality({k \in DOMAIN streamHistory : streamHistory[k] = e})
         + Cardinality({p \in DOMAIN passes : Carries(p) = e})
         + (IF e \in Range(buffer) \cup Range(batch) /\ ~(0 \in DOMAIN passes /\ Carries(0) = e)
            THEN 1 ELSE 0) <= 2
  /\ \A p \in DOMAIN passes :
       passes[p].next > Len(subscriberList) /\ ~passes[p].left => passes[p].calls = subscriberList

(* A full buffer gives up an event none of its others is lower than, and  *)
(* of the lowest the oldest.                                               *)
KeepsHighest ==
  \A i, j \in DOMAIN buffer :
    Len(streamed') > Len(streamed) /\ buffer[i] \notin Range(buffer') /\ i # j =>
      /\ buffer[j] \in Range(buffer')
      /\ \/ streamed[buffer[i]] < streamed[buffer[j]]
         \/ streamed[buffer[i]] = streamed[buffer[j]] /\ buffer[i] < buffer[j]
=============================================================================
