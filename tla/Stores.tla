------------------------------- MODULE Stores -------------------------------
(***************************************************************************)
(* The caches beside the tiers: core/infrastructure/caching/cache.py,      *)
(* optimization/query.py, and the CacheWarmer and CacheCoherencyManager of *)
(* advanced_caching/multi_tier.py.                                         *)
(*                                                                         *)
(* InMemoryCache and the classes of query.py hold a lock for the whole of  *)
(* a call and never suspend in it: a call is one step. A RedisCache        *)
(* suspends in every call of the server, a CacheWarmer in the fetch and in *)
(* each set. Values and statistics of the server are left out, and that    *)
(* the time to live of an entry is over is a step of its own.              *)
(***************************************************************************)
EXTENDS Naturals, SequencesExt, FiniteSetsExt, Functions, Lists

CONSTANTS
  Keys, Tags,     \* keys and tags of the InMemoryCache
  RedisClients,   \* coroutines that use the RedisCache
  RedisKeys,      \* keys of the RedisCache, all set with one tag
  Ttls,           \* times to live they are set with
  SqlQueries,     \* queries: records of name, star, where
  MaxEntries,     \* max_entries of the QueryCache
  Warmings,       \* warming strategies
  WarmItems,      \* items a fetch_function gives
  Nodes,          \* nodes that synchronize
  MaxStored       \* bound: calls of set, put, analyze and synchronize

ASSUME StoresAssumption ==
  /\ MaxEntries \in Nat \ {0} /\ {WarmItems, MaxStored} \subseteq Nat
  /\ Ttls \subseteq Nat \ {0}

VARIABLES
  entries,   \* InMemoryCache._entries: expired and tags, by key
  tagIndex,  \* _tag_index
  stats,     \* stats, and silent: entries replaced, or dropped by exists
  redis,     \* the server: what is left of each key's life (0: it is gone), the members
             \* of the tag's key and what is left of its life (0: no end was set)
  client,    \* what each client of the RedisCache is doing, and with which keys
  torn,      \* history: keys being set while others were deleted, or whose set failed
  uneven,    \* history: the tag was given less than a member has left, or time passed
             \* between a key and its tag
  plans,     \* QueryCache: query, accesses and whether it expired, in order of _access_count
  history,   \* QueryAnalyzer: whether each query was slow; and the length of slow_queries
  indexes,   \* IndexOptimizer.indexes: the cardinality of each
  warmers,   \* CacheWarmer: what the task of each strategy does
  warmed,    \* _warming_stats
  late,      \* history: items the cache took for a strategy that was removed
  syncing,   \* synchronize calls under way: key's pending nodes of each
  pending, synced,  \* _pending_syncs[key], _syncs_completed
  cutShort,  \* history: the last synchronize to end was cancelled
  storeCalls     \* history: calls of set, put, analyze and synchronize

localVars == <<entries, tagIndex, stats>>
redisVars == <<redis, client, torn, uneven>>
queryVars == <<plans, history, indexes>>
warmVars  == <<warmers, warmed, late, syncing, pending, synced, cutShort>>
storeVars == <<localVars, redisVars, queryVars, warmVars, storeCalls>>

AtRest == [at |-> "idle", keys |-> {}, ttl |-> 0, tag |-> FALSE]
Still == [at |-> "none", startup |-> FALSE, left |-> 0, done |-> 0, sent |-> FALSE]

StoresInit ==
  /\ entries = <<>> /\ tagIndex = <<>>
  /\ stats = [gets |-> 0, hits |-> 0, misses |-> 0, sets |-> 0, deletes |-> 0, evicted |-> 0,
              expired |-> 0, active |-> 0, silent |-> 0]
  /\ redis = [life |-> [k \in RedisKeys |-> 0], members |-> {}, tagLife |-> 0]
  /\ client = [c \in RedisClients |-> AtRest] /\ torn = {} /\ uneven = FALSE
  /\ plans = <<>> /\ history = [all |-> <<>>, slow |-> 0] /\ indexes = <<>>
  /\ warmers = [s \in Warmings |-> Still] /\ warmed = <<>> /\ late = [s \in Warmings |-> 0]
  /\ syncing = <<>> /\ pending = {} /\ synced = 0 /\ cutShort = FALSE /\ storeCalls = 0

Counted == storeCalls < MaxStored /\ storeCalls' = storeCalls + 1
Without(d, k) == Restrict(d, DOMAIN d \ {k})

-----------------------------------------------------------------------------
CacheGet(k) ==
  /\ Counted
  /\ CASE k \notin DOMAIN entries ->
            /\ stats' = [stats EXCEPT !.gets = @ + 1, !.misses = @ + 1]
            /\ UNCHANGED entries
       [] k \in DOMAIN entries /\ entries[k].expired ->
            /\ stats' = [stats EXCEPT !.gets = @ + 1, !.misses = @ + 1, !.expired = @ + 1]
            /\ entries' = Without(entries, k)
       [] OTHER ->
            /\ stats' = [stats EXCEPT !.gets = @ + 1, !.hits = @ + 1]
            /\ UNCHANGED entries
  /\ UNCHANGED tagIndex

(* The key joins the index of its new tags and leaves that of no old one.  *)
Indexed(k, tags) ==
  [t \in DOMAIN tagIndex \cup tags |->
     (IF t \in tags THEN {k} ELSE {}) \cup (IF t \in DOMAIN tagIndex THEN tagIndex[t] ELSE {})]

CacheSet(k, tags) ==
  /\ Counted
  /\ entries' = [x \in DOMAIN entries \cup {k} |->
                   IF x = k THEN [expired |-> FALSE, tags |-> tags] ELSE entries[x]]
  /\ tagIndex' = Indexed(k, tags)
  /\ stats' = [stats EXCEPT !.sets = @ + 1, !.active = Cardinality(DOMAIN entries'),
                            !.silent = @ + (IF k \in DOMAIN entries THEN 1 ELSE 0)]

CacheDelete(k) ==
  /\ k \in DOMAIN entries
  /\ entries' = Without(entries, k)
  /\ stats' = [stats EXCEPT !.deletes = @ + 1, !.active = Cardinality(DOMAIN entries')]
  /\ UNCHANGED <<tagIndex, storeCalls>>

(* exists drops an expired entry and counts nothing.                       *)
CacheExists(k) ==
  /\ k \in DOMAIN entries /\ entries[k].expired
  /\ entries' = Without(entries, k)
  /\ stats' = [stats EXCEPT !.silent = @ + 1]
  /\ UNCHANGED <<tagIndex, storeCalls>>

(* delete_by_tag: every key of the tag's index, with the tag or without.   *)
DeleteByTag(t) ==
  /\ t \in DOMAIN tagIndex
  /\ entries' = Restrict(entries, DOMAIN entries \ tagIndex[t])
  /\ tagIndex' = Without(tagIndex, t)
  /\ stats' = [stats EXCEPT !.evicted = @ + Cardinality(DOMAIN entries \cap tagIndex[t]),
                            !.active = Cardinality(DOMAIN entries')]
  /\ UNCHANGED storeCalls

CacheClear ==
  /\ entries # <<>>
  /\ entries' = <<>> /\ tagIndex' = <<>>
  /\ stats' = [stats EXCEPT !.evicted = @ + Cardinality(DOMAIN entries), !.active = 0]
  /\ UNCHANGED storeCalls

EntryExpires(k) ==
  /\ k \in DOMAIN entries /\ ~entries[k].expired
  /\ entries' = [entries EXCEPT ![k].expired = TRUE]
  /\ UNCHANGED <<tagIndex, stats, storeCalls>>

LocalNext ==
  \/ \E k \in Keys : \/ CacheGet(k) \/ CacheDelete(k) \/ CacheExists(k) \/ EntryExpires(k)
                     \/ \E tags \in SUBSET Tags : CacheSet(k, tags)
  \/ \E t \in Tags : DeleteByTag(t)
  \/ CacheClear

-----------------------------------------------------------------------------
(* The RedisCache. A call does one thing at the server in each step. A key *)
(* is being set until its tag has it; delete_by_tag and clear are deleting *)
(* from the first call to the last.                                        *)
BeingSet(k) == \E c \in RedisClients : client[c].at \in {"set", "sadd"} /\ k \in client[c].keys
Deleting == \E c \in RedisClients : client[c].at \in {"tag", "remove", "untag", "keys", "wipe"}

RedisBegins(c, at, keys, ttl) ==
  /\ client[c].at = "idle" /\ Counted
  /\ client' = [client EXCEPT ![c] = [AtRest EXCEPT !.at = at, !.keys = keys, !.ttl = ttl]]
  /\ UNCHANGED <<redis, uneven>>

BeginSet(c, k, ttl) ==
  RedisBegins(c, "set", {k}, ttl) /\ torn' = IF Deleting THEN torn \cup {k} ELSE torn \ {k}
BeginDelete(c, k) == RedisBegins(c, "delete", {k}, 0) /\ UNCHANGED torn
BeginDeletes(c, at) ==
  at \in {"tag", "keys"} /\ RedisBegins(c, at, {}, 0) /\ torn' = torn \cup {k \in RedisKeys : BeingSet(k)}

RedisGoes(c, from, to) ==
  /\ client[c].at = from
  /\ client' = [client EXCEPT ![c] = IF to = "idle" THEN AtRest ELSE [@ EXCEPT !.at = to]]
  /\ UNCHANGED <<torn, storeCalls>>

Live == {k \in RedisKeys : redis.life[k] > 0}
Lives(keys, n) == [k \in RedisKeys |-> IF k \in keys THEN n ELSE redis.life[k]]

(* set: setex, sadd, and expire of the tag's key, which then has the time  *)
(* to live of this key, whatever its members have left.                    *)
SetEx(c) ==
  /\ RedisGoes(c, "set", "sadd") /\ UNCHANGED uneven
  /\ redis' = [redis EXCEPT !.life = Lives(client[c].keys, client[c].ttl)]
SAdd(c) ==
  /\ RedisGoes(c, "sadd", "expire") /\ UNCHANGED uneven
  /\ redis' = [redis EXCEPT !.members = @ \cup client[c].keys]
Expire(c) ==
  /\ RedisGoes(c, "expire", "idle")
  /\ redis' = IF redis.members = {} THEN redis ELSE [redis EXCEPT !.tagLife = client[c].ttl]
  /\ uneven' = (uneven \/ \E k \in redis.members : redis.life[k] > client[c].ttl)

(* delete, which leaves the tag's key as it is.                            *)
RedisDelete(c) ==
  /\ RedisGoes(c, "delete", "idle") /\ UNCHANGED uneven
  /\ redis' = [redis EXCEPT !.life = Lives(client[c].keys, 0)]

(* delete_by_tag: the members, their deletion, that of the tag's key.      *)
Members(c) ==
  /\ client[c].at = "tag"
  /\ client' = [client EXCEPT ![c] = IF redis.members = {} THEN AtRest
                                     ELSE [@ EXCEPT !.at = "remove", !.keys = redis.members]]
  /\ UNCHANGED <<redis, torn, uneven, storeCalls>>
DeleteMembers(c) ==
  /\ RedisGoes(c, "remove", "untag") /\ UNCHANGED uneven
  /\ redis' = [redis EXCEPT !.life = Lives(client[c].keys, 0)]
Untag(c) ==
  /\ RedisGoes(c, "untag", "idle") /\ UNCHANGED uneven
  /\ redis' = [redis EXCEPT !.members = {}, !.tagLife = 0]

(* clear: the keys that are there, the tag's among them, and their deletion*)
AllKeys(c) ==
  /\ client[c].at = "keys"
  /\ client' = [client EXCEPT ![c] = IF Live = {} /\ redis.members = {} THEN AtRest
                ELSE [@ EXCEPT !.at = "wipe", !.keys = Live, !.tag = (redis.members # {})]]
  /\ UNCHANGED <<redis, torn, uneven, storeCalls>>
Wipe(c) ==
  /\ RedisGoes(c, "wipe", "idle") /\ UNCHANGED uneven
  /\ redis' = [life    |-> Lives(client[c].keys, 0),
               members |-> IF client[c].tag THEN {} ELSE redis.members,
               tagLife |-> IF client[c].tag THEN 0 ELSE redis.tagLife]

(* A call fails: it answers False or 0, and what it has done stays done.   *)
RedisFails(c) ==
  /\ client[c].at # "idle"
  /\ client' = [client EXCEPT ![c] = AtRest]
  /\ torn' = torn \cup {k \in RedisKeys : client[c].at \in {"set", "sadd", "expire"} /\ k \in client[c].keys}
  /\ UNCHANGED <<redis, uneven, storeCalls>>

(* Time passes for every key, and the tag's goes by its own time to live.  *)
RedisTicks ==
  /\ Live # {} \/ redis.tagLife > 0
  /\ redis' = [life    |-> [k \in RedisKeys |-> IF redis.life[k] > 0 THEN redis.life[k] - 1 ELSE 0],
               members |-> IF redis.tagLife = 1 THEN {} ELSE redis.members,
               tagLife |-> IF redis.tagLife > 0 THEN redis.tagLife - 1 ELSE 0]
  /\ uneven' = (uneven \/ \E c \in RedisClients : client[c].at \in {"sadd", "expire"})
  /\ UNCHANGED <<client, torn, storeCalls>>

RedisNext ==
  \/ \E c \in RedisClients :
       \/ \E k \in RedisKeys : BeginDelete(c, k) \/ \E ttl \in Ttls : BeginSet(c, k, ttl)
       \/ BeginDeletes(c, "tag") \/ BeginDeletes(c, "keys")
       \/ SetEx(c) \/ SAdd(c) \/ Expire(c) \/ RedisDelete(c) \/ Members(c) \/ DeleteMembers(c) \/ Untag(c)
       \/ AllKeys(c) \/ Wipe(c) \/ RedisFails(c)
  \/ RedisTicks

-----------------------------------------------------------------------------
PlanAt(q) == {i \in DOMAIN plans : plans[i].query = q}
OtherPlans(q) == Only(plans, {p \in ToSet(plans) : p.query # q})

(* QueryCache.get: one more access, or an expired one goes.                *)
Looked(q) ==
  CASE PlanAt(q) = {} -> plans
    [] \E i \in PlanAt(q) : plans[i].expired -> OtherPlans(q)
    [] OTHER -> [i \in DOMAIN plans |-> IF i \in PlanAt(q) THEN [plans[i] EXCEPT !.uses = @ + 1] ELSE plans[i]]

(* Mutated form: the query itself is not counted among the entries.        *)
EvictedLate(all) ==
  IF Len(all) <= MaxEntries THEN all
  ELSE LET least == Min({all[i].uses : i \in DOMAIN all})
       IN  RemoveAt(all, Min({i \in DOMAIN all : all[i].uses = least}))

(* put: of a full cache the first of the least used goes, also when the    *)
(* query that is put is in the cache.                                      *)
Evicted(all) ==
  IF Len(all) < MaxEntries THEN all
  ELSE LET least == Min({all[i].uses : i \in DOMAIN all})
       IN  RemoveAt(all, Min({i \in DOMAIN all : all[i].uses = least}))

Put(all, q) ==
  LET kept == Evicted(all)
      fresh == [query |-> q, uses |-> 0, expired |-> FALSE]
  IN  IF \E i \in DOMAIN kept : kept[i].query = q
      THEN [i \in DOMAIN kept |-> IF kept[i].query = q THEN fresh ELSE kept[i]]
      ELSE Append(kept, fresh)

(* optimize_query: the plan that is cached, or a new one, which is put.    *)
OptimizeQuery(q) ==
  /\ Counted
  /\ plans' = LET after == Looked(q)
              IN  IF \E i \in DOMAIN after : after[i].query = q THEN after ELSE Put(after, q)
  /\ UNCHANGED <<history, indexes>>

(* QueryCache.put by a client, and invalidate with a part of the query.    *)
PutResult(q) == Counted /\ plans' = Put(plans, q) /\ UNCHANGED <<history, indexes>>
InvalidatePlans(q) ==
  /\ PlanAt(q) # {} /\ plans' = OtherPlans(q)
  /\ UNCHANGED <<history, indexes, storeCalls>>
PlanExpires(i) ==
  /\ ~plans[i].expired /\ plans' = [plans EXCEPT ![i].expired = TRUE]
  /\ UNCHANGED <<history, indexes, storeCalls>>

(* The scan that optimize_query plans, and the one analyze sees.           *)
PlannedScan(q) == IF q.star THEN "full_scan" ELSE "index_seek"
AnalyzedScan(q) == IF q.where THEN "index_seek" ELSE "full_scan"

(* QueryAnalyzer.analyze and clear_history.                                *)
Analyze(slow) ==
  /\ Counted
  /\ history' = [all |-> Append(history.all, slow), slow |-> history.slow + (IF slow THEN 1 ELSE 0)]
  /\ UNCHANGED <<plans, indexes>>
ClearHistory ==
  /\ history.all # <<>> /\ history' = [all |-> <<>>, slow |-> 0]
  /\ UNCHANGED <<plans, indexes, storeCalls>>

(* get_slow_queries: the slowest of the history, slow or not.              *)
SlowAnswer(limit) ==
  SubSeq(Only(history.all, {TRUE}) \o Only(history.all, {FALSE}), 1, Min({limit, Len(history.all)}))

(* add_index, and remove_unused_indexes by cardinality.                    *)
AddIndex(q, cardinality) ==
  /\ Counted
  /\ indexes' = [x \in DOMAIN indexes \cup {q} |-> IF x = q THEN cardinality ELSE indexes[x]]
  /\ UNCHANGED <<plans, history>>
RemoveUnused(threshold) ==
  /\ indexes' = Restrict(indexes, {x \in DOMAIN indexes : indexes[x] >= threshold})
  /\ UNCHANGED <<plans, history, storeCalls>>

(* recommend_indexes for a column that so many filters name.               *)
Recommended(frequency) == frequency > 5
Priority(frequency) == Min({5, Max({1, frequency \div 2})})

QueryNext ==
  \/ \E q \in SqlQueries :
       OptimizeQuery(q) \/ PutResult(q) \/ InvalidatePlans(q) \/ \E n \in 0..1 : AddIndex(q, n)
  \/ \E i \in DOMAIN plans : PlanExpires(i)
  \/ \E slow \in BOOLEAN : Analyze(slow)
  \/ ClearHistory \/ RemoveUnused(1)

-----------------------------------------------------------------------------
(* add_warming_strategy, of an enabled one: warms at once when it is to on *)
(* startup, and only then has an id, and a task that warms now and then.   *)
CountedFromZero(s) == [x \in DOMAIN warmed \cup {s} |-> IF x = s THEN 0 ELSE warmed[x]]
AddWarmer(s, startup) ==
  /\ warmers[s].at = "none"
  /\ warmers' = [warmers EXCEPT ![s] = [Still EXCEPT !.at = "fetch", !.startup = startup]]
  /\ warmed' = IF startup THEN warmed ELSE CountedFromZero(s)
  /\ UNCHANGED <<late, syncing, pending, synced, cutShort, storeCalls>>

(* _warm_cache ends, with so many items set: what the task counts; or the  *)
(* strategy is registered and its task warms for the first time.           *)
PassEnds(s, done) ==
  IF warmers[s].startup
  THEN /\ warmers' = [warmers EXCEPT ![s] = [Still EXCEPT !.at = "fetch"]]
       /\ warmed' = CountedFromZero(s)
  ELSE /\ warmers' = [warmers EXCEPT ![s] = [Still EXCEPT !.at = "asleep"]]
       /\ warmed' = [warmed EXCEPT ![s] = done]

(* The fetch gives so many items, or fails; the first is sent to the cache.*)
ItemsFetched(s, n) ==
  /\ warmers[s].at = "fetch"
  /\ IF n = 0 THEN PassEnds(s, 0)
     ELSE /\ warmers' = [warmers EXCEPT ![s].at = "set", ![s].left = n, ![s].sent = TRUE]
          /\ UNCHANGED warmed
  /\ UNCHANGED <<late, syncing, pending, synced, cutShort, storeCalls>>

(* The cache takes the item that was sent, also of a task cancelled since. *)
ItemTaken(s) ==
  /\ warmers[s].sent
  /\ warmers' = [warmers EXCEPT ![s].sent = FALSE]
  /\ late' = IF warmers[s].at = "gone" THEN [late EXCEPT ![s] = @ + 1] ELSE late
  /\ UNCHANGED <<warmed, syncing, pending, synced, cutShort, storeCalls>>

(* The await of a set is over; an error ends the pass.                     *)
ItemSet(s, ok) ==
  LET w == warmers[s]
  IN  /\ w.at = "set" /\ (ok => ~w.sent)
      /\ IF ok /\ w.left > 1
         THEN /\ warmers' = [warmers EXCEPT ![s].left = @ - 1, ![s].done = @ + 1, ![s].sent = TRUE]
              /\ UNCHANGED warmed
         ELSE PassEnds(s, IF ok THEN w.done + 1 ELSE w.done)
      /\ UNCHANGED <<late, syncing, pending, synced, cutShort, storeCalls>>

WarmAgain(s) ==
  /\ warmers[s].at = "asleep" /\ warmers' = [warmers EXCEPT ![s].at = "fetch"]
  /\ UNCHANGED <<warmed, late, syncing, pending, synced, cutShort, storeCalls>>

(* remove_strategy: its task is cancelled wherever it is. A caller that is *)
(* cancelled in add_warming_strategy cuts the pass on startup short.       *)
RemovedTask(s) == [warmers EXCEPT ![s].at = "gone"]
RemoveStrategy(s) ==
  /\ s \in DOMAIN warmed
  /\ warmers' = RemovedTask(s) /\ warmed' = Without(warmed, s)
  /\ UNCHANGED <<late, syncing, pending, synced, cutShort, storeCalls>>
CancelStartup(s) ==
  /\ warmers[s].startup /\ warmers[s].at # "gone"
  /\ warmers' = [warmers EXCEPT ![s].at = "gone"]
  /\ UNCHANGED <<warmed, late, syncing, pending, synced, cutShort, storeCalls>>

(* synchronize of one key: its nodes are pending while it sleeps. Of two   *)
(* at a time the first to wake up ends the pending of both; one that is    *)
(* cancelled leaves it.                                                    *)
Synchronize(nodes) ==
  /\ Counted /\ syncing' = Append(syncing, nodes) /\ pending' = nodes
  /\ UNCHANGED <<warmers, warmed, late, synced, cutShort>>
Synchronized ==
  /\ syncing # <<>> /\ syncing' = Tail(syncing)
  /\ pending' = {} /\ synced' = synced + 1 /\ cutShort' = FALSE
  /\ UNCHANGED <<warmers, warmed, late, storeCalls>>
CancelSynchronize(i) ==
  /\ syncing' = RemoveAt(syncing, i) /\ cutShort' = TRUE
  /\ UNCHANGED <<warmers, warmed, late, pending, synced, storeCalls>>

WarmNext ==
  \/ \E s \in Warmings :
       \/ \E startup \in BOOLEAN : AddWarmer(s, startup)
       \/ \E n \in 0..WarmItems : ItemsFetched(s, n)
       \/ \E ok \in BOOLEAN : ItemSet(s, ok)
       \/ ItemTaken(s) \/ WarmAgain(s) \/ RemoveStrategy(s) \/ CancelStartup(s)
  \/ \E nodes \in SUBSET Nodes \ {{}} : Synchronize(nodes)
  \/ Synchronized
  \/ \E i \in DOMAIN syncing : CancelSynchronize(i)

-----------------------------------------------------------------------------
StoresTypeOK ==
  /\ DOMAIN entries \subseteq Keys /\ DOMAIN tagIndex \subseteq Tags
  /\ Len(plans) <= MaxEntries
  /\ DOMAIN warmed \subseteq Warmings

(* delete_by_tag finds every entry that has the tag. Every entry that was  *)
(* set is still there or accounted for, and active_keys is never below the *)
(* number of entries: it is above while an expired one was dropped unseen. *)
LocalAccounts ==
  /\ \A k \in DOMAIN entries : \A t \in entries[k].tags : t \in DOMAIN tagIndex /\ k \in tagIndex[t]
  /\ stats.sets = Cardinality(DOMAIN entries) + stats.deletes + stats.evicted + stats.expired + stats.silent
  /\ stats.gets = stats.hits + stats.misses
  /\ stats.active >= Cardinality(DOMAIN entries)

(* delete_by_tag reaches every key that is there, whatever calls overlap   *)
(* and fail, but a key that was itself being set during another deletion   *)
(* or whose set failed; unless the tag's key was given less time to live   *)
(* than a member of it has left, or time passed between a key and its tag. *)
TagReaches ==
  \A k \in Live : k \in torn \/ uneven \/ BeingSet(k) \/ k \in redis.members

(* The QueryCache never has two entries of a query;                        *)
(* slow_queries are the slow ones of the history, and get_slow_queries     *)
(* gives those first. A recommended index has a priority of 3 at least.    *)
QueriesBounded ==
  /\ IsInjective([i \in DOMAIN plans |-> plans[i].query])
  /\ history.slow = Cardinality({i \in DOMAIN history.all : history.all[i]})
  /\ \A i \in 1..Min({history.slow, 2}) : SlowAnswer(2)[i]
  /\ \A f \in 0..20 : Recommended(f) => Priority(f) >= 3
  /\ \A q \in SqlQueries : q.star => PlannedScan(q) = AnalyzedScan(q) \/ q.where

(* Of a strategy that was removed the cache takes no item but the one that *)
(* was on its way, and there are statistics of those only that have their  *)
(* task. A key's nodes stay pending only after a synchronize was cancelled.*)
WarmingStops ==
  /\ \A s \in Warmings : late[s] <= 1
  /\ DOMAIN warmed = {s \in Warmings : warmers[s].at \in {"fetch", "set", "asleep"} /\ ~warmers[s].startup}
  /\ syncing = <<>> /\ pending # {} => cutShort
=============================================================================
