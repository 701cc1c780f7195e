--------------------------- MODULE MultiTierCache ---------------------------
(***************************************************************************)
(* MultiTierCache of core/infrastructure/advanced_caching/multi_tier.py    *)
(* for one key: get, set under each coherence protocol, delete, and the    *)
(* task that writes queued values back. Every await of a tier is a step of *)
(* its own, since another coroutine may run before it returns; the lock is *)
(* never held across an await and so delays nobody. Values are numbered by *)
(* the sets that wrote them; 0 is None.                                    *)
(***************************************************************************)
EXTENDS Naturals, FiniteSets

CONSTANTS
  Coroutines,   \* coroutines that use the cache
  Protocols,    \* CacheCoherence members to consider
  MaxAttempts,  \* WriteBackEntry.max_attempts
  MaxSets       \* bound: calls of set

ASSUME CacheAssumption ==
  /\ Protocols \subseteq {"write_through", "write_back", "write_around", "invalidate"}
  /\ MaxAttempts \in Nat \ {0}
  /\ MaxSets \in Nat

None == 0

VARIABLES
  coherence,   \* self.coherence, fixed
  l1, l2,      \* what the tiers hold for the key
  queue,       \* _write_back_queue[key]: value and attempts, value None if absent
  processor,   \* _writeback_task: off, asleep, writing, written
  entry,       \* the WriteBackEntry it works on
  syncErrors,  \* metrics.sync_errors
  at, value,   \* per client: the await it is at, the value it carries
  sets,        \* calls of set so far
  latest,      \* history variable: the value of the last set or delete begun
  calm,        \* history variable: no operation overlapped another, and nothing
               \* expired from L1 with its write-back still queued
  failed       \* history variable: a call on L2 failed

tiers      == <<l1, l2>>
processing == <<processor, entry, syncErrors>>
vars == <<coherence, tiers, queue, processing, at, value, sets, latest, calm, failed>>

NoEntry == [value |-> None, attempts |-> 0]

Init ==
  /\ coherence \in Protocols
  /\ l1 = None /\ l2 = None
  /\ queue = NoEntry
  /\ processor = "off" /\ entry = NoEntry /\ syncErrors = 0
  /\ at = [c \in Coroutines |-> "idle"] /\ value = [c \in Coroutines |-> None]
  /\ sets = 0 /\ latest = None
  /\ calm = TRUE /\ failed = FALSE

Quiet == (\A c \in Coroutines : at[c] = "idle") /\ processor \in {"off", "asleep"}

Move(c, from, to) == at[c] = from /\ at' = [at EXCEPT ![c] = to]

Begins(c, to) == Move(c, "idle", to) /\ calm' = (calm /\ Quiet)

-----------------------------------------------------------------------------
(* The first call of each protocol on a tier, and the second one.          *)
Set(c) ==
  /\ sets < MaxSets
  /\ sets' = sets + 1 /\ latest' = sets' /\ value' = [value EXCEPT ![c] = sets']
  /\ \/ coherence = "write_through" /\ Begins(c, "storing")  /\ l1' = sets' /\ l2' = l2
     \/ coherence = "write_back"    /\ Begins(c, "queueing") /\ l1' = sets' /\ l2' = l2
     \/ coherence = "write_around"  /\ Begins(c, "dropping") /\ l2' = sets' /\ l1' = l1
     \/ coherence = "invalidate"    /\ Begins(c, "storing")  /\ l1' = None  /\ l2' = l2
  /\ UNCHANGED <<coherence, queue, processing, failed>>

(* l2.set returns False, as RedisCache.set does on an error: set does not  *)
(* look at the result.                                                     *)
Store(c) ==
  /\ Move(c, "storing", "idle")
  /\ \/ l2' = value[c] /\ UNCHANGED failed
     \/ l2' = l2 /\ failed' = TRUE
  /\ UNCHANGED <<coherence, l1, queue, processing, value, sets, latest, calm>>

Enqueue(c) ==
  /\ Move(c, "queueing", "idle")
  /\ queue' = [value |-> value[c], attempts |-> 0]
  /\ UNCHANGED <<coherence, tiers, processing, value, sets, latest, calm, failed>>

(* Mutated form: write-around that leaves L1 alone.                        *)
KeepL1(c) ==
  /\ Move(c, "dropping", "idle")
  /\ UNCHANGED <<coherence, tiers, queue, processing, value, sets, latest, calm, failed>>

DropL1(c) ==
  /\ Move(c, "dropping", "idle")
  /\ l1' = None
  /\ UNCHANGED <<coherence, l2, queue, processing, value, sets, latest, calm, failed>>

(* get: a hit in L1 is the answer; after a miss L2 is asked, and L1 filled *)
(* with what it had.                                                       *)
Get(c) ==
  /\ Begins(c, IF l1 # None THEN "idle" ELSE "missed")
  /\ UNCHANGED <<coherence, tiers, queue, processing, value, sets, latest, failed>>

LookupL2(c) ==
  /\ Move(c, "missed", IF l2 # None THEN "filling" ELSE "idle")
  /\ value' = [value EXCEPT ![c] = l2]
  /\ UNCHANGED <<coherence, tiers, queue, processing, sets, latest, calm, failed>>

FillL1(c) ==
  /\ Move(c, "filling", "idle")
  /\ l1' = value[c]
  /\ UNCHANGED <<coherence, l2, queue, processing, value, sets, latest, calm, failed>>

Delete(c) ==
  /\ Begins(c, "deleting")
  /\ l1' = None /\ latest' = None
  /\ UNCHANGED <<coherence, l2, queue, processing, value, sets, failed>>

DeleteL2(c) ==
  /\ Move(c, "deleting", "forgetting")
  /\ l2' = None
  /\ UNCHANGED <<coherence, l1, queue, processing, value, sets, latest, calm, failed>>

Forget(c) ==
  /\ Move(c, "forgetting", "idle")
  /\ queue' = NoEntry
  /\ UNCHANGED <<coherence, tiers, processing, value, sets, latest, calm, failed>>

(* L1 forgets the key: its ttl ran out.                                    *)
Expire ==
  /\ l1 # None
  /\ l1' = None
  /\ calm' = (calm /\ queue = NoEntry /\ Quiet)
  /\ UNCHANGED <<coherence, l2, queue, processing, at, value, sets, latest, failed>>

-----------------------------------------------------------------------------
Start ==
  /\ coherence = "write_back" /\ processor = "off"
  /\ processor' = "asleep"
  /\ UNCHANGED <<coherence, tiers, queue, entry, syncErrors, at, value, sets, latest, calm, failed>>

(* stop cancels the task at the await it is at.                            *)
Stop ==
  /\ processor # "off"
  /\ processor' = "off" /\ entry' = NoEntry
  /\ calm' = (calm /\ processor = "asleep")
  /\ UNCHANGED <<coherence, tiers, queue, syncErrors, at, value, sets, latest, failed>>

(* A pass of _process_writebacks copies the entries and writes them.       *)
Snapshot ==
  /\ processor = "asleep" /\ queue # NoEntry
  /\ processor' = "writing" /\ entry' = queue
  /\ calm' = (calm /\ Quiet)
  /\ UNCHANGED <<coherence, tiers, queue, syncErrors, at, value, sets, latest, failed>>

WriteReturns ==
  /\ processor = "writing" /\ processor' = "written"
  /\ \/ l2' = entry.value /\ UNCHANGED failed
     \/ l2' = l2 /\ failed' = TRUE
  /\ UNCHANGED <<coherence, l1, queue, entry, syncErrors, at, value, sets, latest, calm>>

(* Mutated form: the attempt is not counted.                               *)
WriteRaisesUncounted ==
  /\ processor = "writing" /\ processor' = "asleep" /\ entry' = NoEntry
  /\ failed' = TRUE
  /\ UNCHANGED <<coherence, tiers, queue, syncErrors, at, value, sets, latest, calm>>

(* The attempt is counted in the entry, which may still be the one on the  *)
(* queue; the last one takes whatever is queued for the key off it.        *)
WriteRaises ==
  LET tried == [entry EXCEPT !.attempts = @ + 1] IN
  /\ processor = "writing" /\ processor' = "asleep" /\ entry' = NoEntry
  /\ IF tried.attempts >= MaxAttempts
     THEN queue' = NoEntry /\ syncErrors' = syncErrors + 1
     ELSE /\ queue' = IF queue.value = entry.value THEN tried ELSE queue
          /\ UNCHANGED syncErrors
  /\ failed' = TRUE
  /\ UNCHANGED <<coherence, tiers, at, value, sets, latest, calm>>

(* pop(entry.key): the key, whichever entry is queued for it now.          *)
Pop ==
  /\ processor = "written" /\ processor' = "asleep" /\ entry' = NoEntry
  /\ queue' = NoEntry
  /\ UNCHANGED <<coherence, tiers, syncErrors, at, value, sets, latest, calm, failed>>

-----------------------------------------------------------------------------
Next ==
  \/ \E c \in Coroutines :
       \/ Set(c) \/ Store(c) \/ Enqueue(c) \/ DropL1(c)
       \/ Get(c) \/ LookupL2(c) \/ FillL1(c)
       \/ Delete(c) \/ DeleteL2(c) \/ Forget(c)
  \/ Expire \/ Start \/ Stop \/ Snapshot \/ WriteReturns \/ WriteRaises \/ Pop

Spec == Init /\ [][Next]_vars

(* The event loop runs the task, and a call on L2 ends one way or another. *)
WriteBackFair ==
  WF_vars(Snapshot) /\ WF_vars(WriteReturns \/ WriteRaises) /\ WF_vars(Pop)

-----------------------------------------------------------------------------
Versions == 0..MaxSets

TypeOK ==
  /\ coherence \in Protocols
  /\ l1 \in Versions /\ l2 \in Versions /\ latest \in Versions /\ sets \in Versions
  /\ queue \in [value : Versions, attempts : Nat]
  /\ entry \in [value : Versions, attempts : Nat]
  /\ processor \in {"off", "asleep", "writing", "written"} /\ syncErrors \in Nat
  /\ at \in [Coroutines -> {"idle", "storing", "queueing", "dropping", "missed", "filling",
                         "deleting", "forgetting"}]
  /\ value \in [Coroutines -> Versions]
  /\ calm \in BOOLEAN /\ failed \in BOOLEAN

(* As long as operations come one after the other and succeed, whatever the protocol    *)
(* and whenever L1 expires or the write-back runs: between operations a get *)
(* finds the latest value, which L2 holds or is queued to receive, and no   *)
(* tier holds an older one that would come back.                            *)
Settled ==
  /\ l1 \in {None, latest}
  /\ IF queue # NoEntry THEN queue.value = latest /\ l1 = latest ELSE l2 = latest

Coherent == calm /\ ~failed /\ Quiet => Settled

(* What the proof carries from step to step: who is under way alone, and   *)
(* how far from settled it leaves the tiers at each await.                 *)
Alone ==
  /\ \A c, d \in Coroutines : at[c] # "idle" /\ at[d] # "idle" => c = d
  /\ \A c \in Coroutines : at[c] # "idle" => processor \in {"off", "asleep"}

ClientWay(c) ==
  /\ at[c] = "storing"    => value[c] = latest /\ l1 \in {None, latest} /\ queue = NoEntry
  /\ at[c] = "queueing"   => value[c] = latest /\ l1 = latest
  /\ at[c] = "dropping"   => l2 = latest /\ queue = NoEntry
  /\ at[c] = "missed"     => l1 = None /\ l2 = latest /\ queue = NoEntry
  /\ at[c] = "filling"    => l1 = None /\ l2 = latest /\ queue = NoEntry /\ value[c] = latest
  /\ at[c] = "deleting"   => l1 = None /\ latest = None
  /\ at[c] = "forgetting" => l1 = None /\ latest = None /\ l2 = None

ProcessorWay ==
  processor \in {"writing", "written"} =>
    /\ entry = queue /\ queue.value = latest /\ l1 = latest
    /\ processor = "written" => l2 = latest

QueueUse ==
  /\ queue # NoEntry => queue.value # None
  /\ processor \in {"writing", "written"} => entry.value # None
  /\ coherence # "write_back" => queue = NoEntry
  /\ \A c \in Coroutines : at[c] = "queueing" => coherence = "write_back" /\ value[c] # None

CacheInv ==
  /\ TypeOK /\ QueueUse
  /\ calm /\ ~failed =>
       Alone /\ ProcessorWay /\ (Quiet => Settled) /\ \A c \in Coroutines : ClientWay(c)

(* A queued value leaves the queue while the task runs: written, given up   *)
(* after max_attempts failures, or replaced.                                *)
PendingDrains ==
  \A v \in 1..MaxSets : queue.value = v ~> queue.value # v \/ processor = "off"

(* "Write to L1, async to L2": when the queue is empty and nothing is under *)
(* way, L2 has the latest value, unless a call on L2 failed.                *)
LastWriteKept ==
  coherence = "write_back" /\ Quiet /\ queue = NoEntry /\ ~failed => l2 = latest
=============================================================================
