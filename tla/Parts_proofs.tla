---------------------------- MODULE Parts_proofs ----------------------------
(***************************************************************************)
(* Proofs about parts of the Platform: the Stores, the Sockets, the        *)
(* RabbitMQBroker, Monitoring, the Domain and Learning. For each there is  *)
(* an invariant that its steps keep, and what follows from it; that they   *)
(* hold in PlatformSpec is concluded in Platform_proofs.                   *)
(***************************************************************************)
EXTENDS Stores, Sockets, RabbitMQBroker, Monitoring, Domain, Learning, Lemmas

(* What the community modules' operators are.                              *)
LEMMA MaxIs ==
  ASSUME NEW S, NEW x \in S, x \in Int, \A y \in S : y \in Int /\ y <= x
  PROVE  Max(S) = x
<1>1. \E z \in S : \A y \in S : z >= y
  OBVIOUS
<1>2. Max(S) \in S /\ \A y \in S : Max(S) >= y
  BY <1>1 DEF Max
<1>3. PICK m : m = Max(S)
  OBVIOUS
<1>4. m \in S /\ m >= x /\ m \in Int /\ m <= x
  BY <1>2, <1>3
<1> QED
  BY <1>3, <1>4

LEMMA MinIs ==
  ASSUME NEW S, NEW x \in S, x \in Int, \A y \in S : y \in Int /\ x <= y
  PROVE  Min(S) = x
<1>1. \E z \in S : \A y \in S : z <= y
  OBVIOUS
<1>2. Min(S) \in S /\ \A y \in S : Min(S) <= y
  BY <1>1 DEF Min
<1>3. PICK m : m = Min(S)
  OBVIOUS
<1>4. m \in S /\ m <= x /\ m \in Int /\ x <= m
  BY <1>2, <1>3
<1> QED
  BY <1>3, <1>4

LEMMA OfTwo ==
  ASSUME NEW a \in Int, NEW b \in Int
  PROVE  /\ Max({a, b}) = IF a >= b THEN a ELSE b
         /\ Min({a, b}) = IF a <= b THEN a ELSE b
<1>1. CASE a >= b
  <2>1. Max({a, b}) = a /\ Min({a, b}) = b
    BY <1>1, MaxIs, MinIs
  <2> QED
    BY <1>1, <2>1
<1>2. CASE a < b
  <2>1. Max({a, b}) = b /\ Min({a, b}) = a
    BY <1>2, MaxIs, MinIs
  <2> QED
    BY <1>2, <2>1
<1> QED
  BY <1>1, <1>2

LEMMA MaxUpTo ==
  ASSUME NEW n \in Nat, NEW S \in SUBSET (1..n), S # {}
  PROVE  Max(S) \in S /\ \A y \in S : y <= Max(S)
<1> DEFINE T == {k \in Nat : \A s \in SUBSET (1..k) : s # {} => \E x \in s : \A y \in s : y <= x}
<1>1. T \in SUBSET Nat /\ 0 \in T
  <2>1. \A s \in SUBSET (1..0) : s = {}
    OBVIOUS
  <2> QED
    BY <2>1
<1>2. ASSUME NEW k \in T PROVE k + 1 \in T
  <2>1. SUFFICES ASSUME NEW s \in SUBSET (1..(k + 1)), s # {} PROVE \E x \in s : \A y \in s : y <= x
    OBVIOUS
  <2>2. CASE k + 1 \in s
    BY <2>2
  <2>3. CASE k + 1 \notin s
    <3>1. s \in SUBSET (1..k)
      BY <2>3
    <3> QED
      BY <2>1, <3>1
  <2> QED
    BY <2>2, <2>3
<1> HIDE DEF T
<1>3. T = Nat
  BY <1>1, <1>2, SetInduction
<1>4. \E x \in S : \A y \in S : y <= x
  BY <1>3 DEF T
<1>5. \E x \in S : \A y \in S : x >= y
  BY <1>4
<1>6. Max(S) \in S /\ \A y \in S : Max(S) >= y
  BY <1>5 DEF Max
<1> QED
  BY <1>6

LEMMA LeastIs ==
  ASSUME NEW S \in SUBSET Nat, S # {}
  PROVE  Min(S) \in S /\ \A y \in S : Min(S) <= y
<1>1. PICK x \in S : \A y \in S : x <= y
  BY LeastElement
<1>2. x \in Int /\ \A y \in S : y \in Int /\ x <= y
  BY <1>1
<1>3. Min(S) = x
  BY <1>2, MinIs
<1> QED
  BY <1>1, <1>3

(* The InMemoryCache.                                                      *)
StatFields == {"gets", "hits", "misses", "sets", "deletes", "evicted", "expired", "active", "silent"}
EntrySet == [expired : BOOLEAN, tags : SUBSET Tags]
TagsTold(e, index) == \A k \in DOMAIN e : \A t \in e[k].tags : t \in DOMAIN index /\ k \in index[t]
AddsUp(st, n) ==
  /\ st.sets = n + st.deletes + st.evicted + st.expired + st.silent
  /\ st.gets = st.hits + st.misses /\ st.active >= n
LocalInv ==
  /\ DOMAIN entries \subseteq Keys /\ IsFiniteSet(DOMAIN entries)
  /\ \A k \in DOMAIN entries : entries[k] \in EntrySet
  /\ DOMAIN tagIndex \subseteq Tags /\ TagsTold(entries, tagIndex)
  /\ DOMAIN stats = StatFields /\ \A x \in StatFields : stats[x] \in Nat
  /\ AddsUp(stats, Cardinality(DOMAIN entries))

LEMMA WithoutIs ==
  ASSUME NEW d, IsFiniteSet(DOMAIN d), NEW k \in DOMAIN d
  PROVE  /\ DOMAIN Without(d, k) = DOMAIN d \ {k} /\ IsFiniteSet(DOMAIN Without(d, k))
         /\ \A x \in DOMAIN Without(d, k) : Without(d, k)[x] = d[x]
         /\ Cardinality(DOMAIN d) = Cardinality(DOMAIN Without(d, k)) + 1
         /\ Cardinality(DOMAIN Without(d, k)) \in Nat
<1>1. Without(d, k) = [x \in DOMAIN d \ {k} |-> d[x]]
  BY DEF Without, Restrict
<1>2. IsFiniteSet(DOMAIN d \ {k}) /\ Cardinality(DOMAIN d \ {k}) = Cardinality(DOMAIN d) - 1
  BY FS_RemoveElement
<1>3. Cardinality(DOMAIN d) \in Nat /\ Cardinality(DOMAIN d \ {k}) \in Nat
  BY <1>2, FS_CardinalityType
<1> QED
  BY <1>1, <1>2, <1>3

LEMMA LocalStarts == StoresInit => LocalInv
<1>1. SUFFICES ASSUME StoresInit PROVE LocalInv
  OBVIOUS
<1>2. entries = <<>> /\ tagIndex = <<>> /\ DOMAIN <<>> = {}
  BY <1>1 DEF StoresInit
<1>3. stats = [gets |-> 0, hits |-> 0, misses |-> 0, sets |-> 0, deletes |-> 0, evicted |-> 0,
              expired |-> 0, active |-> 0, silent |-> 0]
  BY <1>1 DEF StoresInit
<1>4. DOMAIN stats = StatFields /\ \A x \in StatFields : stats[x] \in Nat
  BY <1>3 DEF StatFields
<1>5. AddsUp(stats, 0)
  BY <1>3 DEF AddsUp
<1>6. IsFiniteSet({}) /\ Cardinality({}) = 0
  BY FS_EmptySet
<1>7. TagsTold(entries, tagIndex)
  BY <1>2 DEF TagsTold
<1> QED
  BY <1>2, <1>4, <1>5, <1>6, <1>7 DEF LocalInv

(* Some of the entries go, and what is counted for them.                   *)
LEMMA EntriesGo ==
  ASSUME LocalInv, NEW K, K \subseteq DOMAIN entries, entries' = [x \in K |-> entries[x]],
         DOMAIN tagIndex' \subseteq Tags,
         \A k \in K : \A t \in entries[k].tags : t \in DOMAIN tagIndex' /\ k \in tagIndex'[t],
         DOMAIN stats' = StatFields, \A x \in StatFields : stats'[x] \in Nat,
         AddsUp(stats', Cardinality(K))
  PROVE  LocalInv'
<1>1. DOMAIN entries' = K /\ \A x \in K : entries'[x] = entries[x]
  OBVIOUS
<1>2. IsFiniteSet(K)
  BY FS_Subset DEF LocalInv
<1>3. TagsTold(entries', tagIndex')
  BY <1>1 DEF TagsTold
<1> QED
  BY <1>1, <1>2, <1>3 DEF LocalInv

LEMMA LocalFacts ==
  ASSUME LocalInv
  PROVE  /\ DOMAIN stats = StatFields /\ (\A x \in StatFields : stats[x] \in Nat)
         /\ AddsUp(stats, Cardinality(DOMAIN entries)) /\ IsFiniteSet(DOMAIN entries)
         /\ Cardinality(DOMAIN entries) \in Nat /\ TagsTold(entries, tagIndex)
         /\ DOMAIN tagIndex \subseteq Tags
BY FS_CardinalityType DEF LocalInv

LEMMA CacheGetKeeps ==
  ASSUME LocalInv, NEW k, CacheGet(k) PROVE LocalInv'
<1>1. tagIndex' = tagIndex
  BY DEF CacheGet
<1>2. PICK n : n = Cardinality(DOMAIN entries)
  OBVIOUS
<1>3. /\ DOMAIN stats = StatFields /\ (\A x \in StatFields : stats[x] \in Nat)
      /\ AddsUp(stats, n) /\ n \in Nat /\ IsFiniteSet(DOMAIN entries) /\ TagsTold(entries, tagIndex)
  BY <1>2, LocalFacts
<1>4. CASE k \notin DOMAIN entries
  <2>1. stats' = [stats EXCEPT !.gets = @ + 1, !.misses = @ + 1] /\ entries' = entries
    BY <1>4 DEF CacheGet
  <2>2. DOMAIN stats' = StatFields /\ (\A x \in StatFields : stats'[x] \in Nat)
    BY <1>3, <2>1 DEF StatFields
  <2>3. AddsUp(stats', n)
    BY <1>3, <2>1 DEF StatFields, AddsUp
  <2> QED
    BY <1>1, <1>2, <2>1, <2>2, <2>3 DEF LocalInv
<1>5. CASE k \in DOMAIN entries /\ entries[k].expired
  <2>1. stats' = [stats EXCEPT !.gets = @ + 1, !.misses = @ + 1, !.expired = @ + 1] /\ entries' = Without(entries, k)
    BY <1>5 DEF CacheGet
  <2>2. DOMAIN stats' = StatFields /\ (\A x \in StatFields : stats'[x] \in Nat)
    BY <1>3, <2>1 DEF StatFields
  <2>3. PICK m : m = Cardinality(DOMAIN entries \ {k})
    OBVIOUS
  <2>4. n = m + 1 /\ m \in Nat
    BY <1>2, <1>3, <1>5, <2>3, WithoutIs
  <2>5. AddsUp(stats', m)
    BY <1>3, <2>1, <2>4 DEF StatFields, AddsUp
  <2>6. entries' = [x \in DOMAIN entries \ {k} |-> entries[x]]
    BY <2>1 DEF Without, Restrict
  <2> QED
    BY <1>1, <1>3, <2>2, <2>3, <2>5, <2>6, EntriesGo, LocalFacts DEF TagsTold
<1>6. CASE k \in DOMAIN entries /\ ~entries[k].expired
  <2>1. stats' = [stats EXCEPT !.gets = @ + 1, !.hits = @ + 1] /\ entries' = entries
    BY <1>6 DEF CacheGet
  <2>2. DOMAIN stats' = StatFields /\ (\A x \in StatFields : stats'[x] \in Nat)
    BY <1>3, <2>1 DEF StatFields
  <2>3. AddsUp(stats', n)
    BY <1>3, <2>1 DEF StatFields, AddsUp
  <2> QED
    BY <1>1, <1>2, <2>1, <2>2, <2>3 DEF LocalInv
<1> QED
  BY <1>4, <1>5, <1>6

LEMMA CacheSetKeeps ==
  ASSUME LocalInv, NEW k \in Keys, NEW tags \in SUBSET Tags, CacheSet(k, tags) PROVE LocalInv'
<1>1. PICK n, m : n = Cardinality(DOMAIN entries) /\ m = Cardinality(DOMAIN entries')
  OBVIOUS
<1>2. /\ entries' = [x \in DOMAIN entries \cup {k} |->
                   IF x = k THEN [expired |-> FALSE, tags |-> tags] ELSE entries[x]]
      /\ tagIndex' = Indexed(k, tags)
      /\ stats' = [stats EXCEPT !.sets = @ + 1, !.active = m,
                                !.silent = @ + (IF k \in DOMAIN entries THEN 1 ELSE 0)]
  BY <1>1 DEF CacheSet
<1>3. /\ DOMAIN stats = StatFields /\ (\A x \in StatFields : stats[x] \in Nat)
      /\ AddsUp(stats, n) /\ n \in Nat /\ IsFiniteSet(DOMAIN entries) /\ TagsTold(entries, tagIndex)
      /\ DOMAIN tagIndex \subseteq Tags
  BY <1>1, LocalFacts
<1>4. DOMAIN entries' = DOMAIN entries \cup {k} /\ IsFiniteSet(DOMAIN entries')
      /\ m = (IF k \in DOMAIN entries THEN n ELSE n + 1) /\ m \in Nat
  <2>1. DOMAIN entries' = DOMAIN entries \cup {k}
    BY <1>2
  <2>2. IsFiniteSet(DOMAIN entries \cup {k})
        /\ Cardinality(DOMAIN entries \cup {k}) = IF k \in DOMAIN entries THEN n ELSE n + 1
    BY <1>1, <1>3, FS_AddElement
  <2> QED
    BY <1>1, <1>3, <2>1, <2>2
<1>5. PICK s : s = IF k \in DOMAIN entries THEN 1 ELSE 0
  OBVIOUS
<1>6. stats' = [stats EXCEPT !.sets = @ + 1, !.active = m, !.silent = @ + s] /\ s \in Nat /\ n + 1 = m + s
  BY <1>2, <1>3, <1>4, <1>5
<1>7. DOMAIN stats' = StatFields /\ (\A x \in StatFields : stats'[x] \in Nat)
  BY <1>3, <1>4, <1>6 DEF StatFields
<1>8. AddsUp(stats', m)
  <2>1. /\ stats'.sets = stats.sets + 1 /\ stats'.active = m /\ stats'.silent = stats.silent + s
        /\ stats'.deletes = stats.deletes /\ stats'.evicted = stats.evicted /\ stats'.expired = stats.expired
        /\ stats'.gets = stats.gets /\ stats'.hits = stats.hits /\ stats'.misses = stats.misses
    BY <1>3, <1>6 DEF StatFields
  <2>2. /\ stats.sets \in Nat /\ stats.silent \in Nat /\ stats.deletes \in Nat /\ stats.evicted \in Nat
        /\ stats.expired \in Nat
    BY <1>3 DEF StatFields
  <2>3. stats.sets = n + stats.deletes + stats.evicted + stats.expired + stats.silent
        /\ stats.gets = stats.hits + stats.misses
    BY <1>3 DEF AddsUp
  <2>4. stats'.sets = m + stats'.deletes + stats'.evicted + stats'.expired + stats'.silent
    BY <1>3, <1>4, <1>6, <2>1, <2>2, <2>3
  <2> QED
    BY <1>4, <2>1, <2>3, <2>4 DEF AddsUp
<1>9. /\ DOMAIN tagIndex' = DOMAIN tagIndex \cup tags /\ (\A t \in tags : k \in tagIndex'[t])
      /\ \A t \in DOMAIN tagIndex : tagIndex[t] \subseteq tagIndex'[t]
  BY <1>2 DEF Indexed
<1>10. TagsTold(entries', tagIndex')
  <2>1. SUFFICES ASSUME NEW x \in DOMAIN entries', NEW t \in entries'[x].tags
                 PROVE  t \in DOMAIN tagIndex' /\ x \in tagIndex'[t]
    BY DEF TagsTold
  <2>2. CASE x = k
    <3>1. entries'[x].tags = tags
      BY <1>2, <1>4, <2>2
    <3> QED
      BY <1>9, <2>1, <2>2, <3>1
  <2>3. CASE x # k
    <3>1. x \in DOMAIN entries /\ entries'[x] = entries[x]
      BY <1>2, <1>4, <2>1, <2>3
    <3>2. t \in DOMAIN tagIndex /\ x \in tagIndex[t]
      BY <1>3, <2>1, <3>1 DEF TagsTold
    <3> QED
      BY <1>9, <3>2
  <2> QED
    BY <2>2, <2>3
<1>11. \A x \in DOMAIN entries' : entries'[x] \in EntrySet
  BY <1>2 DEF EntrySet, LocalInv
<1> QED
  BY <1>1, <1>3, <1>4, <1>7, <1>8, <1>9, <1>10, <1>11 DEF LocalInv

LEMMA CacheDeleteKeeps ==
  ASSUME LocalInv, NEW k, CacheDelete(k) \/ CacheExists(k) PROVE LocalInv'
<1>1. PICK n, m : n = Cardinality(DOMAIN entries) /\ m = Cardinality(DOMAIN entries \ {k})
  OBVIOUS
<1>2. /\ DOMAIN stats = StatFields /\ (\A x \in StatFields : stats[x] \in Nat)
      /\ AddsUp(stats, n) /\ n \in Nat /\ IsFiniteSet(DOMAIN entries) /\ TagsTold(entries, tagIndex)
      /\ DOMAIN tagIndex \subseteq Tags
  BY <1>1, LocalFacts
<1>3. k \in DOMAIN entries /\ entries' = Without(entries, k) /\ tagIndex' = tagIndex
  BY DEF CacheDelete, CacheExists
<1>4. n = m + 1 /\ m \in Nat /\ DOMAIN entries' = DOMAIN entries \ {k}
  BY <1>1, <1>2, <1>3, WithoutIs
<1>5. \/ stats' = [stats EXCEPT !.deletes = @ + 1, !.active = m]
      \/ stats' = [stats EXCEPT !.silent = @ + 1]
  <2>1. CASE CacheDelete(k)
    <3>1. stats' = [stats EXCEPT !.deletes = @ + 1, !.active = Cardinality(DOMAIN entries')]
      BY <2>1 DEF CacheDelete
    <3> QED
      BY <1>1, <1>4, <3>1
  <2>2. CASE CacheExists(k)
    BY <2>2 DEF CacheExists
  <2> QED
    BY <2>1, <2>2
<1>6. DOMAIN stats' = StatFields /\ (\A x \in StatFields : stats'[x] \in Nat) /\ AddsUp(stats', m)
  <2>1. CASE stats' = [stats EXCEPT !.deletes = @ + 1, !.active = m]
    <3>1. DOMAIN stats' = StatFields /\ (\A x \in StatFields : stats'[x] \in Nat)
      BY <1>2, <1>4, <2>1 DEF StatFields
    <3>2. AddsUp(stats', m)
      BY <1>2, <1>4, <2>1 DEF StatFields, AddsUp
    <3> QED
      BY <3>1, <3>2
  <2>2. CASE stats' = [stats EXCEPT !.silent = @ + 1]
    <3>1. DOMAIN stats' = StatFields /\ (\A x \in StatFields : stats'[x] \in Nat)
      BY <1>2, <1>4, <2>2 DEF StatFields
    <3>2. AddsUp(stats', m)
      BY <1>2, <1>4, <2>2 DEF StatFields, AddsUp
    <3> QED
      BY <3>1, <3>2
  <2> QED
    BY <1>5, <2>1, <2>2
<1>7. entries' = [x \in DOMAIN entries \ {k} |-> entries[x]]
  BY <1>3 DEF Without, Restrict
<1> QED
  BY <1>1, <1>2, <1>3, <1>6, <1>7, EntriesGo DEF TagsTold

LEMMA DeleteByTagKeeps ==
  ASSUME LocalInv, NEW t, DeleteByTag(t) PROVE LocalInv'
<1>1. PICK K, R : K = DOMAIN entries \ tagIndex[t] /\ R = DOMAIN entries \cap tagIndex[t]
  OBVIOUS
<1>2. PICK n, m, r : n = Cardinality(DOMAIN entries) /\ m = Cardinality(K) /\ r = Cardinality(R)
  OBVIOUS
<1>3. /\ DOMAIN stats = StatFields /\ (\A x \in StatFields : stats[x] \in Nat)
      /\ AddsUp(stats, n) /\ n \in Nat /\ IsFiniteSet(DOMAIN entries) /\ TagsTold(entries, tagIndex)
      /\ DOMAIN tagIndex \subseteq Tags
  BY <1>2, LocalFacts
<1>4. /\ t \in DOMAIN tagIndex /\ entries' = [x \in K |-> entries[x]]
      /\ tagIndex' = [x \in DOMAIN tagIndex \ {t} |-> tagIndex[x]]
  BY <1>1 DEF DeleteByTag, Without, Restrict
<1>5. stats' = [stats EXCEPT !.evicted = @ + r, !.active = m]
  <2>1. stats' = [stats EXCEPT !.evicted = @ + Cardinality(DOMAIN entries \cap tagIndex[t]),
                               !.active = Cardinality(DOMAIN entries')]
    BY DEF DeleteByTag
  <2>2. DOMAIN entries' = K
    BY <1>4
  <2> QED
    BY <1>1, <1>2, <2>1, <2>2
<1>6. n = m + r /\ m \in Nat /\ r \in Nat
  <2>1. IsFiniteSet(K) /\ IsFiniteSet(R) /\ K \cap R = {} /\ K \cup R = DOMAIN entries
    BY <1>1, <1>3, FS_Subset
  <2>2. Cardinality(K \cup R) = Cardinality(K) + Cardinality(R) - Cardinality(K \cap R)
    BY <2>1, FS_Union
  <2>3. Cardinality(K \cap R) = 0
    BY <2>1, FS_EmptySet
  <2>4. m \in Nat /\ r \in Nat
    BY <1>2, <2>1, FS_CardinalityType
  <2>5. Cardinality(K \cup R) = n
    BY <1>2, <2>1
  <2>6. n = m + r - 0
    BY <1>2, <2>2, <2>3, <2>5
  <2> QED
    BY <1>3, <2>4, <2>6
<1>7. DOMAIN stats' = StatFields /\ (\A x \in StatFields : stats'[x] \in Nat)
  BY <1>3, <1>5, <1>6 DEF StatFields
<1>8. AddsUp(stats', m)
  BY <1>3, <1>5, <1>6 DEF StatFields, AddsUp
<1>9. \A k \in K : \A x \in entries[k].tags : x \in DOMAIN tagIndex' /\ k \in tagIndex'[x]
  <2>1. SUFFICES ASSUME NEW k \in K, NEW x \in entries[k].tags
                 PROVE  x \in DOMAIN tagIndex' /\ k \in tagIndex'[x]
    OBVIOUS
  <2>2. k \in DOMAIN entries /\ k \notin tagIndex[t]
    BY <1>1
  <2>3. x \in DOMAIN tagIndex /\ k \in tagIndex[x]
    BY <1>3, <2>2 DEF TagsTold
  <2>4. x # t
    BY <2>2, <2>3
  <2> QED
    BY <1>4, <2>3, <2>4
<1>10. DOMAIN tagIndex' \subseteq Tags /\ K \subseteq DOMAIN entries
  BY <1>1, <1>3, <1>4
<1> QED
  BY <1>2, <1>4, <1>7, <1>8, <1>9, <1>10, EntriesGo

LEMMA CacheClearKeeps ==
  ASSUME LocalInv, CacheClear PROVE LocalInv'
<1>1. PICK n : n = Cardinality(DOMAIN entries)
  OBVIOUS
<1>2. /\ DOMAIN stats = StatFields /\ (\A x \in StatFields : stats[x] \in Nat)
      /\ AddsUp(stats, n) /\ n \in Nat
  BY <1>1, LocalFacts
<1>3. /\ entries' = <<>> /\ tagIndex' = <<>> /\ stats' = [stats EXCEPT !.evicted = @ + n, !.active = 0]
  BY <1>1 DEF CacheClear
<1>4. DOMAIN stats' = StatFields /\ (\A x \in StatFields : stats'[x] \in Nat)
  BY <1>2, <1>3 DEF StatFields
<1>5. AddsUp(stats', 0)
  BY <1>2, <1>3 DEF StatFields, AddsUp
<1>6. DOMAIN entries' = {} /\ DOMAIN tagIndex' = {}
  BY <1>3
<1>7. IsFiniteSet({}) /\ Cardinality({}) = 0
  BY FS_EmptySet
<1>8. TagsTold(entries', tagIndex')
  BY <1>6 DEF TagsTold
<1> QED
  BY <1>4, <1>5, <1>6, <1>7, <1>8 DEF LocalInv

LEMMA LocalSteps ==
  ASSUME LocalInv, [LocalNext]_localVars PROVE LocalInv'
<1>1. ASSUME NEW k \in Keys, CacheGet(k) PROVE LocalInv'
  BY <1>1, CacheGetKeeps
<1>2. ASSUME NEW k \in Keys, CacheDelete(k) \/ CacheExists(k) PROVE LocalInv'
  BY <1>2, CacheDeleteKeeps
<1>3. ASSUME NEW k \in Keys, EntryExpires(k) PROVE LocalInv'
  <2>1. /\ k \in DOMAIN entries /\ entries' = [entries EXCEPT ![k].expired = TRUE]
        /\ tagIndex' = tagIndex /\ stats' = stats
    BY <1>3 DEF EntryExpires
  <2>2. DOMAIN entries' = DOMAIN entries /\ \A x \in DOMAIN entries : entries'[x].tags = entries[x].tags
        /\ entries'[x] \in EntrySet
    <3>1. \A x \in DOMAIN entries : entries[x] \in EntrySet
      BY DEF LocalInv
    <3>2. [entries[k] EXCEPT !.expired = TRUE].tags = entries[k].tags
          /\ [entries[k] EXCEPT !.expired = TRUE] \in EntrySet
      BY <2>1, <3>1 DEF EntrySet
    <3> QED
      BY <2>1, <3>1, <3>2
  <2>3. TagsTold(entries', tagIndex')
    BY <2>1, <2>2 DEF LocalInv, TagsTold
  <2> QED
    BY <2>1, <2>2, <2>3 DEF LocalInv
<1>4. ASSUME NEW k \in Keys, NEW tags \in SUBSET Tags, CacheSet(k, tags) PROVE LocalInv'
  BY <1>4, CacheSetKeeps
<1>5. ASSUME NEW t \in Tags, DeleteByTag(t) PROVE LocalInv'
  BY <1>5, DeleteByTagKeeps
<1>6. ASSUME CacheClear PROVE LocalInv'
  BY <1>6, CacheClearKeeps
<1>7. ASSUME UNCHANGED localVars PROVE LocalInv'
  <2>1. entries' = entries /\ tagIndex' = tagIndex /\ stats' = stats
    BY <1>7 DEF localVars
  <2> QED
    BY <2>1 DEF LocalInv
<1> QED
  BY <1>1, <1>2, <1>3, <1>4, <1>5, <1>6, <1>7 DEF LocalNext

LEMMA LocalHolds ==
  ASSUME LocalInv PROVE LocalAccounts /\ DOMAIN entries \subseteq Keys /\ DOMAIN tagIndex \subseteq Tags
BY DEF LocalInv, LocalAccounts, TagsTold, AddsUp

-----------------------------------------------------------------------------
(* The RedisCache: what is true of a key that is not torn. While others    *)
(* are deleting it is not being set, so each of them finds it.             *)
RedisPlaces == {"idle", "set", "sadd", "expire", "delete", "tag", "remove", "untag", "keys", "wipe"}
Deletions == {"tag", "remove", "untag", "keys", "wipe"}
RedisCalls == [at : RedisPlaces, keys : SUBSET RedisKeys, ttl : Nat, tag : BOOLEAN]
Setter(cl, k, places) == \E c \in RedisClients : cl[c].at \in places /\ k \in cl[c].keys
Deletes(cl) == \E c \in RedisClients : cl[c].at \in Deletions

KeyOK(k, life, members, tagLife, cl, odd) ==
  /\ ~odd /\ life[k] > 0 => k \in members \/ Setter(cl, k, {"set", "sadd"})
  /\ ~odd /\ k \in members => life[k] <= tagLife \/ Setter(cl, k, {"set", "sadd", "expire"})
  /\ Deletes(cl) => ~Setter(cl, k, {"set", "sadd"})
  /\ \A c \in RedisClients :
       /\ cl[c].at = "remove" /\ k \in members => k \in cl[c].keys
       /\ cl[c].at = "untag" /\ k \in members => life[k] = 0
       /\ cl[c].at = "wipe" /\ life[k] > 0 => k \in cl[c].keys

RedisInv ==
  /\ client \in [RedisClients -> RedisCalls]
  /\ redis \in [life : [RedisKeys -> Nat], members : SUBSET RedisKeys, tagLife : Nat]
  /\ \A k \in RedisKeys : k \notin torn => KeyOK(k, redis.life, redis.members, redis.tagLife, client, uneven)

LEMMA IdleCalls == AtRest \in RedisCalls /\ AtRest.at = "idle" /\ AtRest.keys = {}
<1>1. /\ AtRest = [at |-> "idle", keys |-> {}, ttl |-> 0, tag |-> FALSE] /\ "idle" \in RedisPlaces /\ {} \in SUBSET RedisKeys
      /\ 0 \in Nat /\ FALSE \in BOOLEAN
  BY DEF AtRest, RedisPlaces
<1>2. AtRest.at = "idle" /\ AtRest.keys = {}
  BY DEF AtRest
<1> QED
  BY <1>1, <1>2 DEF RedisCalls

LEMMA RedisStarts == StoresInit => RedisInv
<1>1. SUFFICES ASSUME StoresInit PROVE RedisInv
  OBVIOUS
<1>2. /\ redis = [life |-> [k \in RedisKeys |-> 0], members |-> {}, tagLife |-> 0]
      /\ client = [c \in RedisClients |-> AtRest]
  BY <1>1 DEF StoresInit
<1>3. client \in [RedisClients -> RedisCalls] /\ \A c \in RedisClients : client[c].at = "idle" /\ client[c].keys = {}
  BY <1>2, IdleCalls
<1>4. /\ redis.life = [k \in RedisKeys |-> 0] /\ redis.members = {} /\ redis.tagLife = 0
      /\ redis \in [life : [RedisKeys -> Nat], members : SUBSET RedisKeys, tagLife : Nat]
  BY <1>2
<1>5. ASSUME NEW k \in RedisKeys PROVE KeyOK(k, redis.life, redis.members, redis.tagLife, client, uneven)
  <2>1. ~(redis.life[k] > 0) /\ k \notin redis.members
    BY <1>4
  <2> QED
    BY <1>3, <2>1 DEF KeyOK, Setter, Deletes, Deletions
<1> QED
  BY <1>3, <1>4, <1>5 DEF RedisInv

(* One call goes to another place; what may change of a key meanwhile.     *)
Vanished(cl, cl2, c, q) ==
  /\ cl2[c] = q /\ \A d \in RedisClients \ {c} : cl2[d] = cl[d]

LEMMA CallChanges ==
  ASSUME client \in [RedisClients -> RedisCalls], NEW c \in RedisClients, NEW q \in RedisCalls,
         client' = [client EXCEPT ![c] = q]
  PROVE  client' \in [RedisClients -> RedisCalls] /\ Vanished(client, client', c, q)
BY DEF Vanished

LEMMA PlaceChanges ==
  ASSUME NEW p \in RedisCalls, NEW to \in RedisPlaces, NEW q, q = IF to = "idle" THEN AtRest ELSE [p EXCEPT !.at = to]
  PROVE  q \in RedisCalls /\ q.at = to /\ q.keys = (IF to = "idle" THEN {} ELSE p.keys)
<1>1. CASE to = "idle"
  BY <1>1, IdleCalls
<1>2. CASE to # "idle"
  BY <1>2 DEF RedisCalls
<1> QED
  BY <1>1, <1>2

LEMMA CallGoes ==
  ASSUME RedisInv, NEW c \in RedisClients, NEW from, NEW to \in RedisPlaces, RedisGoes(c, from, to)
  PROVE  /\ client[c].at = from /\ torn' = torn /\ client' \in [RedisClients -> RedisCalls]
         /\ \E q : /\ q.at = to /\ q.keys = (IF to = "idle" THEN {} ELSE client[c].keys)
                  /\ Vanished(client, client', c, q)
<1>1. PICK q : q = IF to = "idle" THEN AtRest ELSE [client[c] EXCEPT !.at = to]
  OBVIOUS
<1>2. client[c].at = from /\ torn' = torn /\ client' = [client EXCEPT ![c] = q]
  BY <1>1 DEF RedisGoes
<1>3. client \in [RedisClients -> RedisCalls] /\ client[c] \in RedisCalls
  BY DEF RedisInv
<1>4. q \in RedisCalls /\ q.at = to /\ q.keys = (IF to = "idle" THEN {} ELSE client[c].keys)
  BY <1>1, <1>3, PlaceChanges
<1>5. client' \in [RedisClients -> RedisCalls] /\ Vanished(client, client', c, q)
  BY <1>2, <1>3, <1>4, CallChanges
<1> QED
  BY <1>2, <1>4, <1>5

LEMMA LivesAre ==
  ASSUME RedisInv, NEW keys, NEW n \in Nat
  PROVE  /\ Lives(keys, n) \in [RedisKeys -> Nat]
         /\ \A k \in RedisKeys : Lives(keys, n)[k] = IF k \in keys THEN n ELSE redis.life[k]
BY DEF RedisInv, Lives

(* What a call does at the server, by its place.                           *)
LEMMA SetExKeeps ==
  ASSUME RedisInv, NEW c \in RedisClients, SetEx(c) PROVE RedisInv'
<1>1. RedisGoes(c, "set", "sadd") /\ uneven' = uneven /\ redis' = [redis EXCEPT !.life = Lives(client[c].keys, client[c].ttl)]
  BY DEF SetEx
<1>2. PICK q : /\ client[c].at = "set" /\ torn' = torn /\ client' \in [RedisClients -> RedisCalls]
              /\ q.at = "sadd" /\ q.keys = client[c].keys /\ Vanished(client, client', c, q)
  BY <1>1, CallGoes DEF RedisPlaces
<1>3. client[c].ttl \in Nat
  BY DEF RedisInv, RedisCalls
<1>4. PICK l2 : l2 = Lives(client[c].keys, client[c].ttl)
  OBVIOUS
<1>5. l2 \in [RedisKeys -> Nat] /\ \A k \in RedisKeys : k \notin client[c].keys => l2[k] = redis.life[k]
  BY <1>3, <1>4, LivesAre
<1>6. /\ redis' \in [life : [RedisKeys -> Nat], members : SUBSET RedisKeys, tagLife : Nat]
      /\ redis'.life = l2 /\ redis'.members = redis.members /\ redis'.tagLife = redis.tagLife
  BY <1>1, <1>4, <1>5 DEF RedisInv
<1>7. ASSUME NEW k \in RedisKeys, KeyOK(k, redis.life, redis.members, redis.tagLife, client, uneven)
      PROVE  KeyOK(k, l2, redis.members, redis.tagLife, client', uneven)
  <2>1. CASE k \notin client[c].keys
    <3>1. l2[k] = redis.life[k]
      BY <1>5, <2>1
    <3> QED
      BY <1>2, <1>7, <2>1, <3>1 DEF KeyOK, Setter, Deletes, Deletions, Vanished
  <2>2. CASE k \in client[c].keys
    <3>1. Setter(client, k, {"set", "sadd"})
      BY <1>2, <2>2 DEF Setter
    <3>2. ~Deletes(client)
      BY <1>7, <3>1 DEF KeyOK
    <3>3. ~Deletes(client')
      BY <1>2, <3>2 DEF Deletes, Deletions, Vanished
    <3>4. Setter(client', k, {"set", "sadd"}) /\ Setter(client', k, {"set", "sadd", "expire"})
      BY <1>2, <2>2 DEF Setter, Vanished
    <3>5. \A d \in RedisClients : client'[d].at # "remove" /\ client'[d].at # "untag" /\ client'[d].at # "wipe"
      BY <3>3 DEF Deletes, Deletions
    <3> QED
      BY <3>3, <3>4, <3>5 DEF KeyOK
  <2> QED
    BY <2>1, <2>2
<1> QED
  BY <1>1, <1>2, <1>6, <1>7 DEF RedisInv

LEMMA SAddKeeps ==
  ASSUME RedisInv, NEW c \in RedisClients, SAdd(c) PROVE RedisInv'
<1>1. RedisGoes(c, "sadd", "expire") /\ uneven' = uneven /\ redis' = [redis EXCEPT !.members = @ \cup client[c].keys]
  BY DEF SAdd
<1>2. PICK q : /\ client[c].at = "sadd" /\ torn' = torn /\ client' \in [RedisClients -> RedisCalls]
              /\ q.at = "expire" /\ q.keys = client[c].keys /\ Vanished(client, client', c, q)
  BY <1>1, CallGoes DEF RedisPlaces
<1>3. client[c].keys \in SUBSET RedisKeys
  BY DEF RedisInv, RedisCalls
<1>4. /\ redis' \in [life : [RedisKeys -> Nat], members : SUBSET RedisKeys, tagLife : Nat]
      /\ redis'.life = redis.life /\ redis'.members = redis.members \cup client[c].keys /\ redis'.tagLife = redis.tagLife
  BY <1>1, <1>3 DEF RedisInv
<1>5. ASSUME NEW k \in RedisKeys, KeyOK(k, redis.life, redis.members, redis.tagLife, client, uneven)
      PROVE  KeyOK(k, redis.life, redis'.members, redis.tagLife, client', uneven)
  <2>1. CASE k \notin client[c].keys
    <3>1. k \in redis'.members <=> k \in redis.members
      BY <1>4, <2>1
    <3> QED
      BY <1>2, <1>5, <2>1, <3>1 DEF KeyOK, Setter, Deletes, Deletions, Vanished
  <2>2. CASE k \in client[c].keys
    <3>1. Setter(client, k, {"set", "sadd"})
      BY <1>2, <2>2 DEF Setter
    <3>2. ~Deletes(client)
      BY <1>5, <3>1 DEF KeyOK
    <3>3. ~Deletes(client')
      BY <1>2, <3>2 DEF Deletes, Deletions, Vanished
    <3>4. Setter(client', k, {"set", "sadd", "expire"}) /\ k \in redis'.members
      BY <1>2, <1>4, <2>2 DEF Setter, Vanished
    <3>5. \A d \in RedisClients : client'[d].at # "remove" /\ client'[d].at # "untag" /\ client'[d].at # "wipe"
      BY <3>3 DEF Deletes, Deletions
    <3> QED
      BY <3>3, <3>4, <3>5 DEF KeyOK
  <2> QED
    BY <2>1, <2>2
<1> QED
  BY <1>1, <1>2, <1>4, <1>5 DEF RedisInv

LEMMA ExpireKeeps ==
  ASSUME RedisInv, NEW c \in RedisClients, Expire(c) PROVE RedisInv'
<1>1. /\ RedisGoes(c, "expire", "idle")
      /\ redis' = (IF redis.members = {} THEN redis ELSE [redis EXCEPT !.tagLife = client[c].ttl])
      /\ uneven' = (uneven \/ \E k \in redis.members : redis.life[k] > client[c].ttl)
  BY DEF Expire
<1>2. PICK q : /\ client[c].at = "expire" /\ torn' = torn /\ client' \in [RedisClients -> RedisCalls]
              /\ q.at = "idle" /\ q.keys = {} /\ Vanished(client, client', c, q)
  BY <1>1, CallGoes DEF RedisPlaces
<1>3. client[c].ttl \in Nat /\ redis.life \in [RedisKeys -> Nat] /\ redis.members \subseteq RedisKeys
  BY DEF RedisInv, RedisCalls
<1>4. /\ redis' \in [life : [RedisKeys -> Nat], members : SUBSET RedisKeys, tagLife : Nat]
      /\ redis'.life = redis.life /\ redis'.members = redis.members
      /\ redis'.tagLife = (IF redis.members = {} THEN redis.tagLife ELSE client[c].ttl)
  BY <1>1, <1>3 DEF RedisInv
<1>5. ASSUME NEW k \in RedisKeys, KeyOK(k, redis.life, redis.members, redis.tagLife, client, uneven)
      PROVE  KeyOK(k, redis.life, redis.members, redis'.tagLife, client', uneven')
  <2>1. uneven => uneven'
    BY <1>1
  <2>2. ~uneven' /\ k \in redis.members => redis.life[k] <= redis'.tagLife
    <3>1. SUFFICES ASSUME ~uneven', k \in redis.members PROVE redis.life[k] <= redis'.tagLife
      OBVIOUS
    <3>2. ~(redis.life[k] > client[c].ttl) /\ redis'.tagLife = client[c].ttl
      BY <1>1, <1>4, <3>1
    <3> QED
      BY <1>3, <3>2
  <2>3. Setter(client', k, {"set", "sadd"}) <=> Setter(client, k, {"set", "sadd"})
    BY <1>2 DEF Setter, Vanished
  <2>4. Deletes(client') => Deletes(client)
    BY <1>2 DEF Deletes, Deletions, Vanished
  <2>5. \A d \in RedisClients : client'[d].at \in {"remove", "untag", "wipe"} => client'[d] = client[d]
    BY <1>2 DEF Vanished
  <2> QED
    BY <1>5, <2>1, <2>2, <2>3, <2>4, <2>5 DEF KeyOK
<1> QED
  BY <1>2, <1>4, <1>5 DEF RedisInv

(* Keys are deleted, and with them the tag's or not.                       *)
LEMMA KeysGo ==
  ASSUME RedisInv, NEW c \in RedisClients, NEW from \in {"delete", "remove", "wipe"}, NEW to \in {"idle", "untag"},
         to = "untag" => from = "remove",
         RedisGoes(c, from, to), uneven' = uneven, DOMAIN redis' = {"life", "members", "tagLife"},
         redis' \in [life : [RedisKeys -> Nat], members : SUBSET RedisKeys, tagLife : Nat],
         redis'.life = Lives(client[c].keys, 0),
         \/ redis'.members = redis.members /\ redis'.tagLife = redis.tagLife
         \/ from = "wipe" /\ redis'.members = {}
  PROVE  RedisInv'
<1>1. PICK q : /\ client[c].at = from /\ torn' = torn /\ client' \in [RedisClients -> RedisCalls]
              /\ q.at = to /\ q.keys = (IF to = "idle" THEN {} ELSE client[c].keys) /\ Vanished(client, client', c, q)
  <2>1. to \in RedisPlaces
    BY DEF RedisPlaces
  <2> QED
    BY <2>1, CallGoes, Zenon
<1>2. \A k \in RedisKeys : redis'.life[k] = (IF k \in client[c].keys THEN 0 ELSE redis.life[k])
  BY LivesAre
<1>3. redis.life \in [RedisKeys -> Nat] /\ redis.tagLife \in Nat
  BY DEF RedisInv
<1>4. ASSUME NEW k \in RedisKeys, KeyOK(k, redis.life, redis.members, redis.tagLife, client, uneven)
      PROVE  KeyOK(k, redis'.life, redis'.members, redis'.tagLife, client', uneven)
  <2>1. PICK l, l2, m, m2 : /\ l = redis.life[k] /\ l2 = redis'.life[k] /\ (m <=> k \in redis.members) /\ (m2 <=> k \in redis'.members)
    OBVIOUS
  <2>2. l \in Nat /\ l2 = (IF k \in client[c].keys THEN 0 ELSE l) /\ (m2 => m)
    BY <1>2, <1>3, <2>1
  <2>3. Setter(client', k, {"set", "sadd"}) <=> Setter(client, k, {"set", "sadd"})
    BY <1>1 DEF Setter, Vanished
  <2>4. Setter(client', k, {"set", "sadd", "expire"}) <=> Setter(client, k, {"set", "sadd", "expire"})
    BY <1>1 DEF Setter, Vanished
  <2>5. Deletes(client') => Deletes(client)
    BY <1>1 DEF Deletes, Deletions, Vanished
  <2>6. \A d \in RedisClients : d # c => client'[d] = client[d]
    BY <1>1 DEF Vanished
  <2>7. ~uneven /\ l2 > 0 => m2 \/ Setter(client', k, {"set", "sadd"})
    <3>1. l2 > 0 => l2 = l /\ k \notin client[c].keys
      BY <2>2
    <3>2. from = "wipe" => ~(l2 > 0)
      <4>1. from = "wipe" /\ l > 0 => k \in client[c].keys
        BY <1>1, <1>4, <2>1 DEF KeyOK
      <4> QED
        BY <3>1, <4>1
    <3>3. from # "wipe" => (m2 <=> m)
      BY <2>1
    <3> QED
      BY <1>4, <2>1, <2>3, <3>1, <3>2, <3>3 DEF KeyOK
  <2>8. ~uneven /\ m2 => l2 <= redis'.tagLife \/ Setter(client', k, {"set", "sadd", "expire"})
    <3>1. m2 => redis'.tagLife = redis.tagLife
      BY <2>1
    <3>2. ~uneven /\ m => l <= redis.tagLife \/ Setter(client, k, {"set", "sadd", "expire"})
      BY <1>4, <2>1 DEF KeyOK
    <3>3. l <= redis.tagLife => l2 <= redis.tagLife
      BY <1>3, <2>2
    <3> QED
      BY <2>2, <2>4, <3>1, <3>2, <3>3
  <2>9. ASSUME NEW d \in RedisClients
        PROVE  /\ client'[d].at = "remove" /\ m2 => k \in client'[d].keys
               /\ client'[d].at = "untag" /\ m2 => l2 = 0
               /\ client'[d].at = "wipe" /\ l2 > 0 => k \in client'[d].keys
    <3>1. CASE d # c
      <4>1. l2 > 0 => l > 0
        BY <2>2
      <4>2. l = 0 => l2 = 0
        BY <2>2
      <4> QED
        BY <1>4, <2>1, <2>2, <2>6, <3>1, <4>1, <4>2 DEF KeyOK
    <3>2. CASE d = c
      <4>1. client'[c].at = to /\ to # "remove" /\ to # "wipe"
        BY <1>1 DEF Vanished
      <4>2. to = "untag" /\ m => k \in client[c].keys
        BY <1>1, <1>4, <2>1 DEF KeyOK
      <4> QED
        BY <2>2, <3>2, <4>1, <4>2
    <3> QED
      BY <3>1, <3>2
  <2>10. Deletes(client') => ~Setter(client', k, {"set", "sadd"})
    BY <1>4, <2>3, <2>5 DEF KeyOK
  <2> QED
    BY <2>1, <2>7, <2>8, <2>9, <2>10 DEF KeyOK
<1> QED
  BY <1>1, <1>4 DEF RedisInv

LEMMA UntagKeeps ==
  ASSUME RedisInv, NEW c \in RedisClients, Untag(c) PROVE RedisInv'
<1>1. RedisGoes(c, "untag", "idle") /\ uneven' = uneven /\ redis' = [redis EXCEPT !.members = {}, !.tagLife = 0]
  BY DEF Untag
<1>2. PICK q : /\ client[c].at = "untag" /\ torn' = torn /\ client' \in [RedisClients -> RedisCalls]
              /\ q.at = "idle" /\ q.keys = {} /\ Vanished(client, client', c, q)
  BY <1>1, CallGoes DEF RedisPlaces
<1>3. /\ redis' \in [life : [RedisKeys -> Nat], members : SUBSET RedisKeys, tagLife : Nat]
      /\ redis'.life = redis.life /\ redis'.members = {}
  BY <1>1 DEF RedisInv
<1>4. ASSUME NEW k \in RedisKeys, KeyOK(k, redis.life, redis.members, redis.tagLife, client, uneven)
      PROVE  KeyOK(k, redis.life, {}, redis'.tagLife, client', uneven)
  <2>1. Deletes(client)
    BY <1>2 DEF Deletes, Deletions
  <2>2. ~Setter(client, k, {"set", "sadd"})
    BY <1>4, <2>1 DEF KeyOK
  <2>3. ~uneven => ~(redis.life[k] > 0)
    <3>1. SUFFICES ASSUME ~uneven, redis.life[k] > 0 PROVE FALSE
      OBVIOUS
    <3>2. k \in redis.members
      BY <1>4, <2>2, <3>1 DEF KeyOK
    <3>3. redis.life[k] = 0
      BY <1>2, <1>4, <3>2 DEF KeyOK
    <3> QED
      BY <3>1, <3>3
  <2>4. ~Setter(client', k, {"set", "sadd"})
    BY <1>2, <2>2 DEF Setter, Vanished
  <2>5. \A d \in RedisClients : client'[d].at = "wipe" => client'[d] = client[d]
    BY <1>2 DEF Vanished
  <2> QED
    BY <1>4, <2>3, <2>4, <2>5 DEF KeyOK
<1> QED
  BY <1>1, <1>2, <1>3, <1>4 DEF RedisInv

(* A call begins, ends, or takes down what is to be deleted: at the server *)
(* nothing changes.                                                        *)
LEMMA ServerKept ==
  ASSUME RedisInv, NEW c \in RedisClients, NEW q \in RedisCalls, client' = [client EXCEPT ![c] = q],
         redis' = redis, uneven' = uneven,
         \A k \in RedisKeys : k \notin torn' =>
           \/ /\ k \notin torn
              /\ client[c].at \in {"set", "sadd", "expire"} => k \notin client[c].keys
              /\ q.at \in {"set", "sadd"} => k \notin q.keys
              /\ q.at \in Deletions => ~Setter(client, k, {"set", "sadd"})
              /\ q.at = "remove" /\ k \in redis.members => k \in q.keys
              /\ q.at # "untag"
              /\ q.at = "wipe" /\ redis.life[k] > 0 => k \in q.keys
           \/ client[c].at = "idle" /\ q.at = "set" /\ k \in q.keys /\ ~Deletes(client)
  PROVE  RedisInv'
<1>1. client \in [RedisClients -> RedisCalls] /\ redis.life \in [RedisKeys -> Nat]
  BY DEF RedisInv
<1>2. client' \in [RedisClients -> RedisCalls] /\ Vanished(client, client', c, q)
  BY <1>1, CallChanges
<1>3. ASSUME NEW k \in RedisKeys, k \notin torn'
      PROVE  KeyOK(k, redis.life, redis.members, redis.tagLife, client', uneven)
  <2>1. CASE /\ k \notin torn
             /\ client[c].at \in {"set", "sadd", "expire"} => k \notin client[c].keys
             /\ q.at \in {"set", "sadd"} => k \notin q.keys
             /\ q.at \in Deletions => ~Setter(client, k, {"set", "sadd"})
             /\ q.at = "remove" /\ k \in redis.members => k \in q.keys
             /\ q.at # "untag"
             /\ q.at = "wipe" /\ redis.life[k] > 0 => k \in q.keys
    <3>1. KeyOK(k, redis.life, redis.members, redis.tagLife, client, uneven)
      BY <2>1 DEF RedisInv
    <3>2. Setter(client', k, {"set", "sadd"}) <=> Setter(client, k, {"set", "sadd"})
      BY <1>2, <2>1 DEF Setter, Vanished
    <3>3. Setter(client, k, {"set", "sadd", "expire"}) => Setter(client', k, {"set", "sadd", "expire"})
      BY <1>2, <2>1 DEF Setter, Vanished
    <3>4. Deletes(client') => Deletes(client) \/ q.at \in Deletions
      BY <1>2 DEF Deletes, Vanished
    <3>5. Deletes(client') => ~Setter(client', k, {"set", "sadd"})
      BY <2>1, <3>1, <3>2, <3>4 DEF KeyOK
    <3>6. ASSUME NEW d \in RedisClients
          PROVE  /\ client'[d].at = "remove" /\ k \in redis.members => k \in client'[d].keys
                 /\ client'[d].at = "untag" /\ k \in redis.members => redis.life[k] = 0
                 /\ client'[d].at = "wipe" /\ redis.life[k] > 0 => k \in client'[d].keys
      <4>1. CASE d = c
        BY <1>2, <2>1, <4>1 DEF Vanished
      <4>2. CASE d # c
        BY <1>2, <3>1, <4>2 DEF Vanished, KeyOK
      <4> QED
        BY <4>1, <4>2
    <3> QED
      BY <3>1, <3>2, <3>3, <3>5, <3>6 DEF KeyOK
  <2>2. CASE client[c].at = "idle" /\ q.at = "set" /\ k \in q.keys /\ ~Deletes(client)
    <3>1. Setter(client', k, {"set", "sadd"}) /\ Setter(client', k, {"set", "sadd", "expire"})
      BY <1>2, <2>2 DEF Setter, Vanished
    <3>2. ~Deletes(client')
      BY <1>2, <2>2 DEF Deletes, Deletions, Vanished
    <3>3. \A d \in RedisClients : client'[d].at # "remove" /\ client'[d].at # "untag" /\ client'[d].at # "wipe"
      BY <3>2 DEF Deletes, Deletions
    <3> QED
      BY <3>1, <3>2, <3>3 DEF KeyOK
  <2> QED
    BY <1>3, <2>1, <2>2
<1> QED
  BY <1>2, <1>3 DEF RedisInv

(* A call that has begun, with what it is going to do.                     *)
Begun(c, at, keys) ==
  \E q \in RedisCalls :
    /\ client[c].at = "idle" /\ redis' = redis /\ uneven' = uneven
    /\ q.at = at /\ q.keys = keys /\ client' = [client EXCEPT ![c] = q]

LEMMA CallBegins ==
  ASSUME RedisInv, NEW c \in RedisClients, NEW at \in {"set", "delete", "tag", "keys"}, NEW keys \in SUBSET RedisKeys,
         NEW ttl \in Nat, RedisBegins(c, at, keys, ttl)
  PROVE  Begun(c, at, keys)
<1>5. PICK q1 : q1 = [AtRest EXCEPT !.at = at]
  OBVIOUS
<1>6. PICK q2 : q2 = [q1 EXCEPT !.keys = keys]
  OBVIOUS
<1>7. PICK q : q = [q2 EXCEPT !.ttl = ttl]
  OBVIOUS
<1>1. q = [at |-> at, keys |-> keys, ttl |-> ttl, tag |-> FALSE]
  <2>1. q1 = [at |-> at, keys |-> {}, ttl |-> 0, tag |-> FALSE]
    BY <1>5 DEF AtRest
  <2>2. q2 = [at |-> at, keys |-> keys, ttl |-> 0, tag |-> FALSE]
    BY <1>6, <2>1
  <2> QED
    BY <1>7, <2>2
<1>2. q = [AtRest EXCEPT !.at = at, !.keys = keys, !.ttl = ttl]
  BY <1>5, <1>6, <1>7, Zenon
<1>3. at \in RedisPlaces
  BY DEF RedisPlaces
<1>4. q \in RedisCalls /\ q.at = at /\ q.keys = keys
  BY <1>1, <1>3 DEF RedisCalls
<1>8. client[c].at = "idle" /\ redis' = redis /\ uneven' = uneven /\ client' = [client EXCEPT ![c] = q]
  BY <1>2, <1>4 DEF RedisBegins
<1> QED
  BY <1>4, <1>8 DEF Begun

LEMMA BeginsKeep ==
  ASSUME RedisInv, NEW c \in RedisClients,
         \/ \E k \in RedisKeys : BeginDelete(c, k) \/ \E ttl \in Ttls : BeginSet(c, k, ttl)
         \/ \E at \in {"tag", "keys"} : BeginDeletes(c, at)
  PROVE  RedisInv'
<1>1. ASSUME NEW k \in RedisKeys, NEW ttl \in Ttls, BeginSet(c, k, ttl) PROVE RedisInv'
  <2>1. ttl \in Nat
    BY StoresAssumption
  <2>2. RedisBegins(c, "set", {k}, ttl) /\ torn' = (IF Deleting THEN torn \cup {k} ELSE torn \ {k})
    BY <1>1 DEF BeginSet
  <2>6. "set" \in {"set", "delete", "tag", "keys"} /\ {k} \in SUBSET RedisKeys
    OBVIOUS
  <2>7. Begun(c, "set", {k})
    BY <2>1, <2>2, <2>6, CallBegins
  <2>3. PICK q \in RedisCalls : /\ client[c].at = "idle" /\ redis' = redis /\ uneven' = uneven
                               /\ q.at = "set" /\ q.keys = {k} /\ client' = [client EXCEPT ![c] = q]
    BY <2>7 DEF Begun
  <2>4. Deletes(client) <=> Deleting
    BY DEF Deletes, Deletions, Deleting
  <2>5. \A x \in RedisKeys : x \notin torn' => (x # k /\ x \notin torn) \/ (x = k /\ ~Deletes(client))
    BY <2>2, <2>4
  <2> QED
    BY <2>3, <2>5, ServerKept DEF Deletions
<1>2. ASSUME NEW k \in RedisKeys, BeginDelete(c, k) PROVE RedisInv'
  <2>1. RedisBegins(c, "delete", {k}, 0) /\ torn' = torn /\ 0 \in Nat
    BY <1>2 DEF BeginDelete
  <2>6. "delete" \in {"set", "delete", "tag", "keys"} /\ {k} \in SUBSET RedisKeys
    OBVIOUS
  <2>7. Begun(c, "delete", {k})
    BY <2>1, <2>6, CallBegins
  <2>2. PICK q \in RedisCalls : /\ client[c].at = "idle" /\ redis' = redis /\ uneven' = uneven
                               /\ q.at = "delete" /\ q.keys = {k} /\ client' = [client EXCEPT ![c] = q]
    BY <2>7 DEF Begun
  <2> QED
    BY <2>1, <2>2, ServerKept DEF Deletions
<1>3. ASSUME NEW at \in {"tag", "keys"}, BeginDeletes(c, at) PROVE RedisInv'
  <2>1. RedisBegins(c, at, {}, 0) /\ torn' = torn \cup {k \in RedisKeys : BeingSet(k)} /\ 0 \in Nat
    BY <1>3 DEF BeginDeletes
  <2>6. at \in {"set", "delete", "tag", "keys"} /\ {} \in SUBSET RedisKeys
    OBVIOUS
  <2>7. Begun(c, at, {})
    BY <2>1, <2>6, CallBegins
  <2>2. PICK q \in RedisCalls : /\ client[c].at = "idle" /\ redis' = redis /\ uneven' = uneven
                               /\ q.at = at /\ q.keys = {} /\ client' = [client EXCEPT ![c] = q]
    BY <2>7 DEF Begun
  <2>3. \A k \in RedisKeys : BeingSet(k) <=> Setter(client, k, {"set", "sadd"})
    BY DEF BeingSet, Setter
  <2>4. \A k \in RedisKeys : k \notin torn' => k \notin torn /\ ~Setter(client, k, {"set", "sadd"})
    BY <2>1, <2>3
  <2>5. q.at # "set" /\ q.at # "sadd" /\ q.at # "remove" /\ q.at # "untag" /\ q.at # "wipe"
    BY <2>2
  <2> QED
    BY <2>2, <2>4, <2>5, ServerKept
<1> QED
  BY <1>1, <1>2, <1>3

LEMMA LookupsKeep ==
  ASSUME RedisInv, NEW c \in RedisClients, Members(c) \/ AllKeys(c) \/ RedisFails(c) PROVE RedisInv'
<1>1. client \in [RedisClients -> RedisCalls] /\ client[c] \in RedisCalls /\ redis.members \in SUBSET RedisKeys
  BY DEF RedisInv
<1>2. CASE Members(c)
  <2>1. PICK q : q = (IF redis.members = {} THEN AtRest ELSE [client[c] EXCEPT !.at = "remove", !.keys = redis.members])
    OBVIOUS
  <2>2. client[c].at = "tag" /\ redis' = redis /\ torn' = torn /\ uneven' = uneven /\ client' = [client EXCEPT ![c] = q]
    BY <1>2, <2>1 DEF Members
  <2>3. q \in RedisCalls /\ q.at \in {"idle", "remove"} /\ (q.at = "remove" => q.keys = redis.members)
    <3>1. CASE redis.members = {}
      BY <2>1, <3>1, IdleCalls
    <3>2. CASE redis.members # {}
      BY <1>1, <2>1, <3>2 DEF RedisCalls, RedisPlaces
    <3> QED
      BY <3>1, <3>2
  <2>4. ASSUME NEW k \in RedisKeys, k \notin torn' PROVE ~Setter(client, k, {"set", "sadd"})
    <3>1. Deletes(client)
      BY <2>2 DEF Deletes, Deletions
    <3> QED
      BY <2>2, <2>4, <3>1 DEF RedisInv, KeyOK
  <2>5. /\ client[c].at \notin {"set", "sadd", "expire"} /\ q.at \notin {"set", "sadd"} /\ q.at # "untag" /\ q.at # "wipe"
    BY <2>2, <2>3
  <2> QED
    BY <2>2, <2>3, <2>4, <2>5, ServerKept
<1>3. CASE AllKeys(c)
  <2>0. PICK t \in BOOLEAN : t = (redis.members # {})
    OBVIOUS
  <2>1. PICK q : q = (IF Live = {} /\ redis.members = {} THEN AtRest ELSE [client[c] EXCEPT !.at = "wipe", !.keys = Live, !.tag = t])
    OBVIOUS
  <2>2. client[c].at = "keys" /\ redis' = redis /\ torn' = torn /\ uneven' = uneven /\ client' = [client EXCEPT ![c] = q]
    BY <1>3, <2>0, <2>1 DEF AllKeys
  <2>3. Live \in SUBSET RedisKeys
    BY DEF Live
  <2>4. q \in RedisCalls /\ q.at \in {"idle", "wipe"} /\ (q.at = "wipe" => q.keys = Live)
    <3>1. CASE Live = {} /\ redis.members = {}
      BY <2>1, <3>1, IdleCalls
    <3>2. CASE ~(Live = {} /\ redis.members = {})
      BY <1>1, <2>1, <2>3, <3>2 DEF RedisCalls, RedisPlaces
    <3> QED
      BY <3>1, <3>2
  <2>5. ASSUME NEW k \in RedisKeys, k \notin torn' PROVE ~Setter(client, k, {"set", "sadd"})
    <3>1. Deletes(client)
      BY <2>2 DEF Deletes, Deletions
    <3> QED
      BY <2>2, <2>5, <3>1 DEF RedisInv, KeyOK
  <2>6. /\ client[c].at \notin {"set", "sadd", "expire"} /\ q.at \notin {"set", "sadd"} /\ q.at # "untag" /\ q.at # "remove"
    BY <2>2, <2>4
  <2>7. \A k \in RedisKeys : redis.life[k] > 0 => k \in Live
    BY DEF Live
  <2> QED
    BY <2>2, <2>4, <2>5, <2>6, <2>7, ServerKept
<1>4. CASE RedisFails(c)
  <2>1. /\ client' = [client EXCEPT ![c] = AtRest] /\ redis' = redis /\ uneven' = uneven
        /\ torn' = torn \cup {k \in RedisKeys : client[c].at \in {"set", "sadd", "expire"} /\ k \in client[c].keys}
    BY <1>4 DEF RedisFails
  <2>2. \A k \in RedisKeys : k \notin torn' =>
          k \notin torn /\ (client[c].at \in {"set", "sadd", "expire"} => k \notin client[c].keys)
    BY <2>1
  <2>3. PICK q : q = AtRest
    OBVIOUS
  <2>4. q \in RedisCalls /\ q.at = "idle"
    BY <2>3, IdleCalls
  <2>5. q.at \notin {"set", "sadd"} /\ q.at \notin Deletions /\ q.at # "remove" /\ q.at # "untag" /\ q.at # "wipe"
    BY <2>4 DEF Deletions
  <2> QED
    BY <2>1, <2>2, <2>3, <2>4, <2>5, ServerKept
<1> QED
  BY <1>2, <1>3, <1>4

LEMMA TicksKeep == ASSUME RedisInv, RedisTicks PROVE RedisInv'
<1>1. PICK l2, m2, t2 :
        /\ l2 = [k \in RedisKeys |-> IF redis.life[k] > 0 THEN redis.life[k] - 1 ELSE 0]
        /\ m2 = (IF redis.tagLife = 1 THEN {} ELSE redis.members)
        /\ t2 = (IF redis.tagLife > 0 THEN redis.tagLife - 1 ELSE 0)
  OBVIOUS
<1>2. /\ redis' = [life |-> l2, members |-> m2, tagLife |-> t2] /\ client' = client /\ torn' = torn
      /\ uneven' = (uneven \/ \E c \in RedisClients : client[c].at \in {"sadd", "expire"})
  BY <1>1 DEF RedisTicks
<1>3. redis.life \in [RedisKeys -> Nat] /\ redis.tagLife \in Nat /\ redis.members \in SUBSET RedisKeys
  BY DEF RedisInv
<1>4. l2 \in [RedisKeys -> Nat] /\ m2 \in SUBSET RedisKeys /\ t2 \in Nat
  BY <1>1, <1>3
<1>5. /\ redis' \in [life : [RedisKeys -> Nat], members : SUBSET RedisKeys, tagLife : Nat]
      /\ redis'.life = l2 /\ redis'.members = m2 /\ redis'.tagLife = t2
  BY <1>2, <1>4
<1>6. ASSUME NEW k \in RedisKeys, KeyOK(k, redis.life, redis.members, redis.tagLife, client, uneven)
      PROVE  KeyOK(k, l2, m2, t2, client, uneven')
  <2>1. PICK l, n : l = redis.life[k] /\ n = l2[k]
    OBVIOUS
  <2>2. l \in Nat /\ n \in Nat /\ n <= l /\ (n > 0 => n = l - 1) /\ (l > 0 => n = l - 1)
    BY <1>1, <1>3, <2>1
  <2>3. k \in m2 => k \in redis.members
    BY <1>1
  <2>10. (~uneven') => (~uneven)
    BY <1>2
  <2>11. (~uneven') => ~Setter(client, k, {"sadd", "expire"})
    BY <1>2 DEF Setter
  <2>12. Setter(client, k, {"set", "sadd", "expire"}) =>
           Setter(client, k, {"set", "sadd"}) \/ Setter(client, k, {"sadd", "expire"})
    BY DEF Setter
  <2>9. /\ ~uneven /\ redis.life[k] > 0 => k \in redis.members \/ Setter(client, k, {"set", "sadd"})
        /\ ~uneven /\ k \in redis.members =>
             redis.life[k] <= redis.tagLife \/ Setter(client, k, {"set", "sadd", "expire"})
    BY <1>6, Zenon DEF KeyOK
  <2>5. ~uneven' /\ n > 0 => k \in m2 \/ Setter(client, k, {"set", "sadd"})
    <3>1. SUFFICES ASSUME ~uneven', n > 0, ~Setter(client, k, {"set", "sadd"}) PROVE k \in m2
      OBVIOUS
    <3>4. redis.life[k] > 0
      BY <2>1, <2>2, <3>1
    <3>5. ~uneven /\ ~Setter(client, k, {"set", "sadd", "expire"})
      BY <2>10, <2>11, <2>12, <3>1
    <3>6. k \in redis.members /\ redis.life[k] <= redis.tagLife
      BY <2>9, <3>1, <3>4, <3>5, Zenon
    <3>2. k \in redis.members /\ l <= redis.tagLife
      BY <2>1, <3>6
    <3>3. redis.tagLife # 1
      BY <1>3, <2>2, <3>1, <3>2
    <3> QED
      BY <1>1, <3>2, <3>3
  <2>6. ~uneven' /\ k \in m2 => n <= t2 \/ Setter(client, k, {"set", "sadd", "expire"})
    <3>1. SUFFICES ASSUME ~uneven', k \in m2, ~Setter(client, k, {"set", "sadd", "expire"}) PROVE n <= t2
      OBVIOUS
    <3>3. ~uneven /\ k \in redis.members
      BY <2>3, <2>10, <3>1
    <3>4. redis.life[k] <= redis.tagLife
      BY <2>9, <3>1, <3>3, Zenon
    <3>2. l <= redis.tagLife
      BY <2>1, <3>4
    <3> QED
      BY <1>1, <1>3, <2>2, <3>2
  <2>7. ASSUME NEW d \in RedisClients
        PROVE  /\ client[d].at = "remove" /\ k \in m2 => k \in client[d].keys
               /\ client[d].at = "untag" /\ k \in m2 => n = 0
               /\ client[d].at = "wipe" /\ n > 0 => k \in client[d].keys
    <3>1. n > 0 => l > 0
      BY <2>2
    <3>2. l = 0 => n = 0
      BY <2>2
    <3> QED
      BY <1>6, <2>1, <2>3, <3>1, <3>2 DEF KeyOK
  <2>8. Deletes(client) => ~Setter(client, k, {"set", "sadd"})
    BY <1>6 DEF KeyOK
  <2> QED
    BY <2>1, <2>5, <2>6, <2>7, <2>8 DEF KeyOK
<1> QED
  BY <1>2, <1>5, <1>6 DEF RedisInv

LEMMA RedisSteps ==
  ASSUME RedisInv, [RedisNext]_redisVars PROVE RedisInv'
<1>0. redis.life \in [RedisKeys -> Nat] /\ redis.members \in SUBSET RedisKeys /\ redis.tagLife \in Nat
      /\ redis \in [life : [RedisKeys -> Nat], members : SUBSET RedisKeys, tagLife : Nat]
  BY DEF RedisInv
<1>1. ASSUME NEW c \in RedisClients, RedisDelete(c) \/ DeleteMembers(c) PROVE RedisInv'
  <2>1. PICK l2 : l2 = Lives(client[c].keys, 0)
    OBVIOUS
  <2>2. l2 \in [RedisKeys -> Nat]
    BY <2>1, LivesAre
  <2>3. redis' = [redis EXCEPT !.life = l2] /\ uneven' = uneven
    BY <1>1, <2>1 DEF RedisDelete, DeleteMembers
  <2>4. /\ redis' \in [life : [RedisKeys -> Nat], members : SUBSET RedisKeys, tagLife : Nat]
        /\ DOMAIN redis' = {"life", "members", "tagLife"}
        /\ redis'.life = l2 /\ redis'.members = redis.members /\ redis'.tagLife = redis.tagLife
    BY <1>0, <2>2, <2>3
  <2>5. CASE RedisGoes(c, "delete", "idle")
    BY <2>1, <2>3, <2>4, <2>5, KeysGo
  <2>6. CASE RedisGoes(c, "remove", "untag")
    BY <2>1, <2>3, <2>4, <2>6, KeysGo
  <2> QED
    BY <1>1, <2>5, <2>6 DEF RedisDelete, DeleteMembers
<1>2. ASSUME NEW c \in RedisClients, Wipe(c) PROVE RedisInv'
  <2>1. PICK l2, m2, t2 : /\ l2 = Lives(client[c].keys, 0) /\ m2 = (IF client[c].tag THEN {} ELSE redis.members)
                          /\ t2 = (IF client[c].tag THEN 0 ELSE redis.tagLife)
    OBVIOUS
  <2>2. l2 \in [RedisKeys -> Nat] /\ m2 \in SUBSET RedisKeys /\ t2 \in Nat
    BY <1>0, <2>1, LivesAre
  <2>3. redis' = [life |-> l2, members |-> m2, tagLife |-> t2] /\ uneven' = uneven /\ RedisGoes(c, "wipe", "idle")
    BY <1>2, <2>1 DEF Wipe
  <2>4. /\ redis' \in [life : [RedisKeys -> Nat], members : SUBSET RedisKeys, tagLife : Nat]
        /\ DOMAIN redis' = {"life", "members", "tagLife"}
        /\ redis'.life = l2 /\ redis'.members = m2 /\ redis'.tagLife = t2
    BY <2>2, <2>3
  <2>5. (m2 = redis.members /\ t2 = redis.tagLife) \/ m2 = {}
    BY <2>1
  <2> QED
    BY <2>1, <2>3, <2>4, <2>5, KeysGo
<1>3. CASE UNCHANGED redisVars
  <2>1. client' = client /\ redis' = redis /\ torn' = torn /\ uneven' = uneven
    BY <1>3 DEF redisVars
  <2> QED
    BY <2>1 DEF RedisInv
<1>4. CASE RedisNext
  <2>1. CASE RedisTicks
    BY <2>1, TicksKeep
  <2>2. ASSUME NEW c \in RedisClients,
               \/ \E k \in RedisKeys : BeginDelete(c, k) \/ \E ttl \in Ttls : BeginSet(c, k, ttl)
               \/ BeginDeletes(c, "tag") \/ BeginDeletes(c, "keys")
        PROVE  RedisInv'
    BY <2>2, BeginsKeep
  <2>3. ASSUME NEW c \in RedisClients,
               SetEx(c) \/ SAdd(c) \/ Expire(c) \/ RedisDelete(c) \/ Members(c) \/ DeleteMembers(c) \/ Untag(c)
               \/ AllKeys(c) \/ Wipe(c) \/ RedisFails(c)
        PROVE  RedisInv'
    BY <1>1, <1>2, <2>3, SetExKeeps, SAddKeeps, ExpireKeeps, UntagKeeps, LookupsKeep
  <2> QED
    BY <1>4, <2>1, <2>2, <2>3, Zenon DEF RedisNext
<1> QED
  BY <1>3, <1>4

LEMMA RedisHolds == RedisInv => TagReaches
<1>1. SUFFICES ASSUME RedisInv, NEW k \in Live, k \notin torn, ~uneven, ~BeingSet(k) PROVE k \in redis.members
  BY DEF TagReaches
<1>2. k \in RedisKeys /\ redis.life[k] > 0
  BY <1>1 DEF Live
<1>3. ~Setter(client, k, {"set", "sadd"})
  BY <1>1 DEF BeingSet, Setter
<1> QED
  BY <1>1, <1>2, <1>3 DEF RedisInv, KeyOK

-----------------------------------------------------------------------------
(* The CacheWarmer and the CacheCoherencyManager. An item is on its way to *)
(* the cache only while a set is awaited, or of a task that was cancelled; *)
(* that one may be late.                                                   *)
WarmPlaces == {"none", "fetch", "set", "asleep", "gone"}
WarmTasks == [at : WarmPlaces, startup : BOOLEAN, left : Nat, done : Nat, sent : BOOLEAN]
WarmRuns(w) == w.at \in {"fetch", "set", "asleep"} /\ ~w.startup
WarmerOK(w, n) ==
  /\ w.at \notin {"set", "gone"} => ~w.sent
  /\ n + (IF w.sent THEN 1 ELSE 0) <= 1
  /\ w.at # "gone" => n = 0

WarmInv ==
  /\ warmers \in [Warmings -> WarmTasks] /\ late \in [Warmings -> Nat]
  /\ DOMAIN warmed = {s \in Warmings : WarmRuns(warmers[s])}
  /\ \A s \in Warmings : WarmerOK(warmers[s], late[s])
  /\ syncing \in Seq(SUBSET Nodes) /\ (syncing = <<>> /\ pending # {} => cutShort)

LEMMA StillIs ==
  ASSUME NEW at \in WarmPlaces, NEW b \in BOOLEAN
  PROVE  LET w == [Still EXCEPT !.at = at, !.startup = b]
         IN  w \in WarmTasks /\ w.at = at /\ (w.startup <=> b) /\ ~w.sent /\ w.left = 0 /\ w.done = 0
<1>5. PICK w1 : w1 = [Still EXCEPT !.at = at]
  OBVIOUS
<1>6. PICK w : w = [w1 EXCEPT !.startup = b]
  OBVIOUS
<1>1. w = [at |-> at, startup |-> b, left |-> 0, done |-> 0, sent |-> FALSE]
  <2>1. w1 = [at |-> at, startup |-> FALSE, left |-> 0, done |-> 0, sent |-> FALSE]
    BY <1>5 DEF Still
  <2> QED
    BY <1>6, <2>1
<1>2. w = [Still EXCEPT !.at = at, !.startup = b]
  BY <1>5, <1>6, Zenon
<1>3. w \in WarmTasks
  BY <1>1 DEF WarmTasks
<1>4. w.at = at /\ (w.startup <=> b) /\ ~w.sent /\ w.left = 0 /\ w.done = 0
  BY <1>1
<1> QED
  BY <1>2, <1>3, <1>4

LEMMA WarmStarts == StoresInit => WarmInv
<1>1. SUFFICES ASSUME StoresInit PROVE WarmInv
  OBVIOUS
<1>2. <<>> \in Seq(SUBSET Nodes) /\ DOMAIN <<>> = {}
  OBVIOUS
<1>3. Still \in WarmTasks /\ Still.at = "none" /\ ~Still.sent
  BY DEF Still, WarmTasks, WarmPlaces
<1>4. /\ warmers = [s \in Warmings |-> Still] /\ late = [s \in Warmings |-> 0] /\ warmed = <<>>
      /\ syncing = <<>> /\ pending = {}
  BY <1>1 DEF StoresInit
<1>5. warmers \in [Warmings -> WarmTasks] /\ late \in [Warmings -> Nat]
  BY <1>3, <1>4
<1>6. ASSUME NEW s \in Warmings PROVE WarmerOK(warmers[s], late[s]) /\ ~WarmRuns(warmers[s])
  BY <1>3, <1>4 DEF WarmerOK, WarmRuns
<1> QED
  BY <1>2, <1>4, <1>5, <1>6 DEF WarmInv

(* One task goes on, and is registered while it runs.                      *)
LEMMA WarmTurn ==
  ASSUME WarmInv, NEW s \in Warmings, NEW w \in WarmTasks, NEW n \in Nat,
         warmers' = [warmers EXCEPT ![s] = w], late' = [late EXCEPT ![s] = n], WarmerOK(w, n),
         DOMAIN warmed' = IF WarmRuns(w) THEN DOMAIN warmed \cup {s} ELSE DOMAIN warmed \ {s},
         syncing' = syncing, pending' = pending, cutShort' = cutShort
  PROVE  WarmInv'
<1>1. warmers \in [Warmings -> WarmTasks] /\ late \in [Warmings -> Nat] /\ DOMAIN warmed = {x \in Warmings : WarmRuns(warmers[x])}
  BY DEF WarmInv
<1>2. warmers' \in [Warmings -> WarmTasks] /\ warmers'[s] = w /\ \A x \in Warmings : x # s => warmers'[x] = warmers[x]
  BY <1>1
<1>3. late' \in [Warmings -> Nat] /\ late'[s] = n /\ \A x \in Warmings : x # s => late'[x] = late[x]
  BY <1>1
<1>4. \A x \in Warmings : WarmerOK(warmers'[x], late'[x])
  BY <1>2, <1>3 DEF WarmInv
<1>5. \A x \in Warmings : x # s => (WarmRuns(warmers'[x]) <=> WarmRuns(warmers[x]))
  BY <1>2
<1>6. \A x : x \in DOMAIN warmed' <=> x \in Warmings /\ WarmRuns(warmers'[x])
  BY <1>1, <1>2, <1>5
<1>7. DOMAIN warmed' = {x \in Warmings : WarmRuns(warmers'[x])}
  BY <1>6
<1> QED
  BY <1>2, <1>3, <1>4, <1>7 DEF WarmInv, WarmRuns

LEMMA PassKeeps ==
  ASSUME WarmInv, NEW s \in Warmings, NEW done, warmers[s].at \in {"fetch", "set"}, PassEnds(s, done),
         late' = late, syncing' = syncing, pending' = pending, cutShort' = cutShort
  PROVE  WarmInv'
<1>1. /\ warmers \in [Warmings -> WarmTasks] /\ late \in [Warmings -> Nat] /\ late[s] \in Nat
      /\ WarmerOK(warmers[s], late[s]) /\ DOMAIN warmed = {x \in Warmings : WarmRuns(warmers[x])}
  BY DEF WarmInv
<1>2. late[s] = 0
  BY <1>1 DEF WarmerOK
<1>3. late' = [late EXCEPT ![s] = late[s]]
  BY <1>1
<1>4. PICK at : at \in {"fetch", "asleep"} /\ at = IF warmers[s].startup THEN "fetch" ELSE "asleep"
  OBVIOUS
<1>6. PICK w : w = [Still EXCEPT !.at = at]
  OBVIOUS
<1>5. w = [at |-> at, startup |-> FALSE, left |-> 0, done |-> 0, sent |-> FALSE]
  BY <1>6 DEF Still
<1>7. w \in WarmTasks /\ w.at = at /\ ~w.startup /\ ~w.sent
  BY <1>4, <1>5 DEF WarmPlaces, WarmTasks
<1>8. WarmerOK(w, 0) /\ WarmRuns(w)
  BY <1>4, <1>7 DEF WarmerOK, WarmRuns
<1>9. CASE warmers[s].startup
  <2>1. warmers' = [warmers EXCEPT ![s] = w] /\ DOMAIN warmed' = DOMAIN warmed \cup {s}
    BY <1>4, <1>6, <1>9 DEF PassEnds, CountedFromZero
  <2> QED
    BY <1>1, <1>2, <1>3, <1>7, <1>8, <2>1, WarmTurn
<1>10. CASE ~warmers[s].startup
  <2>1. warmers' = [warmers EXCEPT ![s] = w] /\ DOMAIN warmed' = DOMAIN warmed
    BY <1>4, <1>6, <1>10 DEF PassEnds
  <2>2. WarmRuns(warmers[s])
    BY <1>10 DEF WarmRuns
  <2>3. s \in DOMAIN warmed
    BY <1>1, <2>2
  <2>4. DOMAIN warmed' = DOMAIN warmed \cup {s}
    BY <2>1, <2>3
  <2> QED
    BY <1>1, <1>2, <1>3, <1>7, <1>8, <2>1, <2>4, WarmTurn
<1> QED
  BY <1>9, <1>10

LEMMA WarmSteps ==
  ASSUME WarmInv, [WarmNext]_warmVars PROVE WarmInv'
<1>1. /\ warmers \in [Warmings -> WarmTasks] /\ late \in [Warmings -> Nat]
      /\ DOMAIN warmed = {x \in Warmings : WarmRuns(warmers[x])} /\ syncing \in Seq(SUBSET Nodes)
      /\ \A s \in Warmings : WarmerOK(warmers[s], late[s])
  BY DEF WarmInv
<1>2. \A s \in Warmings : late = [late EXCEPT ![s] = late[s]] /\ late[s] \in Nat
  BY <1>1
<1>3. ASSUME NEW s \in Warmings, NEW startup \in BOOLEAN, AddWarmer(s, startup) PROVE WarmInv'
  <2>1. PICK w : w = [Still EXCEPT !.at = "fetch", !.startup = startup]
    OBVIOUS
  <2>2. /\ warmers[s].at = "none" /\ warmers' = [warmers EXCEPT ![s] = w]
        /\ late' = late /\ syncing' = syncing /\ pending' = pending /\ cutShort' = cutShort
        /\ DOMAIN warmed' = IF startup THEN DOMAIN warmed ELSE DOMAIN warmed \cup {s}
    BY <1>3, <2>1 DEF AddWarmer, CountedFromZero
  <2>3. w \in WarmTasks /\ w.at = "fetch" /\ (w.startup <=> startup) /\ ~w.sent
    BY <2>1, StillIs DEF WarmPlaces
  <2>4. late[s] = 0 /\ ~WarmRuns(warmers[s])
    BY <1>1, <2>2 DEF WarmerOK, WarmRuns
  <2>5. WarmerOK(w, 0) /\ (WarmRuns(w) <=> ~startup)
    BY <2>3 DEF WarmerOK, WarmRuns
  <2>6. s \notin DOMAIN warmed
    BY <1>1, <2>4
  <2>7. DOMAIN warmed' = IF WarmRuns(w) THEN DOMAIN warmed \cup {s} ELSE DOMAIN warmed \ {s}
    BY <2>2, <2>5, <2>6
  <2> QED
    BY <1>2, <2>2, <2>3, <2>4, <2>5, <2>7, WarmTurn
<1>4. ASSUME NEW s \in Warmings, NEW n \in 0..WarmItems, ItemsFetched(s, n) PROVE WarmInv'
  <2>1. /\ warmers[s].at = "fetch" /\ late' = late /\ syncing' = syncing /\ pending' = pending /\ cutShort' = cutShort
    BY <1>4 DEF ItemsFetched
  <2>2. CASE n = 0
    BY <1>4, <2>1, <2>2, PassKeeps DEF ItemsFetched
  <2>3. CASE n # 0
    <3>1. PICK w : w = [warmers[s] EXCEPT !.at = "set", !.left = n, !.sent = TRUE]
      OBVIOUS
    <3>2. warmers' = [warmers EXCEPT ![s] = w] /\ warmed' = warmed
      BY <1>1, <1>4, <2>3, <3>1 DEF ItemsFetched
    <3>3. /\ w \in WarmTasks /\ w.at = "set" /\ w.startup = warmers[s].startup /\ w.sent
      <4>1. PICK w0, w1, w2 : w0 = warmers[s] /\ w1 = [w0 EXCEPT !.at = "set"] /\ w2 = [w1 EXCEPT !.left = n]
        OBVIOUS
      <4>2. w0 \in WarmTasks /\ n \in Nat /\ w = [w2 EXCEPT !.sent = TRUE]
        BY <1>1, <3>1, <4>1, StoresAssumption
      <4>3. w1 \in WarmTasks /\ w1.at = "set" /\ w1.startup = w0.startup
        BY <4>1, <4>2 DEF WarmTasks, WarmPlaces
      <4>4. w2 \in WarmTasks /\ w2.at = "set" /\ w2.startup = w0.startup
        BY <4>1, <4>2, <4>3 DEF WarmTasks
      <4> QED
        BY <4>1, <4>2, <4>4 DEF WarmTasks
    <3>4. late[s] = 0
      BY <1>1, <2>1 DEF WarmerOK
    <3>5. WarmerOK(w, 0) /\ (WarmRuns(w) <=> WarmRuns(warmers[s]))
      BY <2>1, <3>3 DEF WarmerOK, WarmRuns
    <3>6. DOMAIN warmed' = IF WarmRuns(w) THEN DOMAIN warmed \cup {s} ELSE DOMAIN warmed \ {s}
      BY <1>1, <3>2, <3>5
    <3> QED
      BY <1>2, <2>1, <3>2, <3>3, <3>4, <3>5, <3>6, WarmTurn
  <2> QED
    BY <2>2, <2>3
<1>5. ASSUME NEW s \in Warmings, ItemTaken(s) PROVE WarmInv'
  <2>1. PICK w, n : w = [warmers[s] EXCEPT !.sent = FALSE] /\ n = (IF warmers[s].at = "gone" THEN late[s] + 1 ELSE late[s])
    OBVIOUS
  <2>2. /\ warmers[s].sent /\ warmers' = [warmers EXCEPT ![s] = w] /\ warmed' = warmed
        /\ late' = (IF warmers[s].at = "gone" THEN [late EXCEPT ![s] = late[s] + 1] ELSE late)
        /\ syncing' = syncing /\ pending' = pending /\ cutShort' = cutShort
    BY <1>5, <2>1 DEF ItemTaken
  <2>3. late' = [late EXCEPT ![s] = n] /\ n \in Nat
    <3>1. CASE warmers[s].at = "gone"
      BY <1>2, <2>1, <2>2, <3>1
    <3>2. CASE warmers[s].at # "gone"
      BY <1>2, <2>1, <2>2, <3>2
    <3> QED
      BY <3>1, <3>2
  <2>4. w \in WarmTasks /\ w.at = warmers[s].at /\ w.startup = warmers[s].startup /\ ~w.sent
    BY <1>1, <2>1 DEF WarmTasks
  <2>5. late[s] = 0 /\ n <= 1 /\ (w.at # "gone" => n = 0)
    <3>1. late[s] + 1 <= 1
      BY <1>1, <2>2 DEF WarmerOK
    <3> QED
      BY <1>2, <2>1, <2>4, <3>1
  <2>6. WarmerOK(w, n)
    BY <2>3, <2>4, <2>5 DEF WarmerOK
  <2>7. WarmRuns(w) <=> WarmRuns(warmers[s])
    BY <2>4 DEF WarmRuns
  <2>8. DOMAIN warmed' = IF WarmRuns(w) THEN DOMAIN warmed \cup {s} ELSE DOMAIN warmed \ {s}
    BY <1>1, <2>2, <2>7
  <2> QED
    BY <2>2, <2>3, <2>4, <2>6, <2>8, WarmTurn
<1>6. ASSUME NEW s \in Warmings, NEW ok \in BOOLEAN, ItemSet(s, ok) PROVE WarmInv'
  <2>1. /\ warmers[s].at = "set" /\ (ok => ~warmers[s].sent)
        /\ late' = late /\ syncing' = syncing /\ pending' = pending /\ cutShort' = cutShort
    BY <1>6 DEF ItemSet
  <2>2. CASE ok /\ warmers[s].left > 1
    <3>1. PICK w : w = [warmers[s] EXCEPT !.left = @ - 1, !.done = @ + 1, !.sent = TRUE]
      OBVIOUS
    <3>2. warmers' = [warmers EXCEPT ![s] = w] /\ warmed' = warmed
      BY <1>1, <1>6, <2>2, <3>1 DEF ItemSet
    <3>3. warmers[s] \in WarmTasks /\ warmers[s].left \in Nat /\ warmers[s].done \in Nat
      BY <1>1 DEF WarmTasks
    <3>4. warmers[s].left - 1 \in Nat /\ warmers[s].done + 1 \in Nat
      BY <2>2, <3>3
    <3>5. /\ w \in WarmTasks /\ w.at = "set" /\ w.startup = warmers[s].startup /\ w.sent
      BY <2>1, <3>1, <3>3, <3>4 DEF WarmTasks, WarmPlaces
    <3>6. late[s] = 0
      BY <1>1, <2>1 DEF WarmerOK
    <3>7. WarmerOK(w, 0) /\ (WarmRuns(w) <=> WarmRuns(warmers[s]))
      BY <2>1, <3>5 DEF WarmerOK, WarmRuns
    <3>8. DOMAIN warmed' = IF WarmRuns(w) THEN DOMAIN warmed \cup {s} ELSE DOMAIN warmed \ {s}
      BY <1>1, <3>2, <3>7
    <3> QED
      BY <1>2, <2>1, <3>2, <3>5, <3>6, <3>7, <3>8, WarmTurn
  <2>3. CASE ~(ok /\ warmers[s].left > 1)
    <3>1. PICK done : PassEnds(s, done)
      BY <1>6, <2>3 DEF ItemSet
    <3> QED
      BY <2>1, <3>1, PassKeeps
  <2> QED
    BY <2>2, <2>3
<1>7. ASSUME NEW s \in Warmings, NEW last \in {"fetch", "gone"}, warmers' = [warmers EXCEPT ![s].at = last],
             last = "fetch" => warmers[s].at = "asleep" /\ warmed' = warmed,
             last = "gone" => DOMAIN warmed' = DOMAIN warmed \ {s} /\ warmers[s].at # "gone",
             late' = late, syncing' = syncing, pending' = pending, cutShort' = cutShort
      PROVE  WarmInv'
  <2>1. PICK w : w = [warmers[s] EXCEPT !.at = last]
    OBVIOUS
  <2>2. warmers' = [warmers EXCEPT ![s] = w]
    BY <1>1, <1>7, <2>1
  <2>3. w \in WarmTasks /\ w.at = last /\ w.startup = warmers[s].startup /\ w.sent = warmers[s].sent
    BY <1>1, <2>1 DEF WarmTasks, WarmPlaces
  <2>4. WarmerOK(w, late[s])
    BY <1>1, <1>7, <2>3 DEF WarmerOK
  <2>5. last = "fetch" => (WarmRuns(w) <=> WarmRuns(warmers[s]))
    BY <1>7, <2>3 DEF WarmRuns
  <2>6. last = "gone" => ~WarmRuns(w)
    BY <2>3 DEF WarmRuns
  <2>7. DOMAIN warmed' = IF WarmRuns(w) THEN DOMAIN warmed \cup {s} ELSE DOMAIN warmed \ {s}
    BY <1>1, <1>7, <2>5, <2>6
  <2> QED
    BY <1>2, <1>7, <2>2, <2>3, <2>4, <2>7, WarmTurn
<1>8. ASSUME NEW s \in Warmings, WarmAgain(s) PROVE WarmInv'
  <2>1. /\ warmers[s].at = "asleep" /\ warmers' = [warmers EXCEPT ![s].at = "fetch"] /\ warmed' = warmed
        /\ late' = late /\ syncing' = syncing /\ pending' = pending /\ cutShort' = cutShort
    BY <1>8 DEF WarmAgain
  <2> QED
    BY <1>7, <2>1
<1>9. ASSUME NEW s \in Warmings, RemoveStrategy(s) PROVE WarmInv'
  <2>1. /\ s \in DOMAIN warmed /\ warmers' = [warmers EXCEPT ![s].at = "gone"] /\ DOMAIN warmed' = DOMAIN warmed \ {s}
        /\ late' = late /\ syncing' = syncing /\ pending' = pending /\ cutShort' = cutShort
    BY <1>9 DEF RemoveStrategy, RemovedTask, Without, Restrict
  <2>2. warmers[s].at # "gone"
    BY <1>1, <2>1 DEF WarmRuns
  <2> QED
    BY <1>7, <2>1, <2>2
<1>10. ASSUME NEW s \in Warmings, CancelStartup(s) PROVE WarmInv'
  <2>1. /\ warmers[s].startup /\ warmers[s].at # "gone" /\ warmers' = [warmers EXCEPT ![s].at = "gone"] /\ warmed' = warmed
        /\ late' = late /\ syncing' = syncing /\ pending' = pending /\ cutShort' = cutShort
    BY <1>10 DEF CancelStartup
  <2>2. s \notin DOMAIN warmed
    BY <1>1, <2>1 DEF WarmRuns
  <2> QED
    BY <1>7, <2>1, <2>2
<1>11. ASSUME warmers' = warmers, warmed' = warmed, late' = late, syncing' \in Seq(SUBSET Nodes),
              syncing' = <<>> /\ pending' # {} => cutShort'
       PROVE  WarmInv'
  BY <1>11 DEF WarmInv
<1>12. ASSUME NEW nodes \in SUBSET Nodes, Synchronize(nodes) PROVE WarmInv'
  <2>1. syncing' = Append(syncing, nodes) /\ warmers' = warmers /\ warmed' = warmed /\ late' = late
    BY <1>12 DEF Synchronize
  <2>2. syncing' \in Seq(SUBSET Nodes) /\ syncing' # <<>>
    BY <1>1, <2>1
  <2> QED
    BY <1>11, <2>1, <2>2
<1>13. ASSUME Synchronized PROVE WarmInv'
  <2>1. /\ syncing # <<>> /\ syncing' = Tail(syncing) /\ pending' = {}
        /\ warmers' = warmers /\ warmed' = warmed /\ late' = late
    BY <1>13 DEF Synchronized
  <2>2. syncing' \in Seq(SUBSET Nodes)
    BY <1>1, <2>1
  <2> QED
    BY <1>11, <2>1, <2>2
<1>14. ASSUME NEW i \in DOMAIN syncing, CancelSynchronize(i) PROVE WarmInv'
  <2>1. /\ syncing' = RemoveAt(syncing, i) /\ cutShort' /\ warmers' = warmers /\ warmed' = warmed /\ late' = late
    BY <1>14 DEF CancelSynchronize
  <2>3. PICK t : t = Dropped(syncing, i)
    OBVIOUS
  <2>4. t \in Seq(SUBSET Nodes)
    BY <1>1, <1>14, <2>3, RemovedAt
  <2>2. syncing' \in Seq(SUBSET Nodes)
    BY <2>1, <2>3, <2>4 DEF RemoveAt, Dropped
  <2> QED
    BY <1>11, <2>1, <2>2
<1>15. CASE UNCHANGED warmVars
  <2>1. /\ warmers' = warmers /\ warmed' = warmed /\ late' = late /\ syncing' = syncing /\ pending' = pending
        /\ cutShort' = cutShort
    BY <1>15 DEF warmVars
  <2> QED
    BY <1>11, <2>1 DEF WarmInv
<1>16. CASE WarmNext
  BY <1>3, <1>4, <1>5, <1>6, <1>8, <1>9, <1>10, <1>12, <1>13, <1>14, <1>16 DEF WarmNext
<1> QED
  BY <1>15, <1>16

LEMMA WarmHolds == WarmInv => WarmingStops /\ DOMAIN warmed \subseteq Warmings
<1>1. SUFFICES ASSUME WarmInv PROVE WarmingStops /\ DOMAIN warmed \subseteq Warmings
  OBVIOUS
<1>2. ASSUME NEW s \in Warmings PROVE late[s] <= 1
  <2>1. late[s] \in Nat /\ late[s] + (IF warmers[s].sent THEN 1 ELSE 0) <= 1
    BY <1>1 DEF WarmInv, WarmerOK
  <2> QED
    BY <2>1
<1> QED
  BY <1>1, <1>2 DEF WarmInv, WarmingStops, WarmRuns

-----------------------------------------------------------------------------
(* The QueryCache, the QueryAnalyzer and the recommended indexes.          *)
PlanSet == [query : SqlQueries, uses : Nat, expired : BOOLEAN]
QueryOnce(all) == \A i, j \in DOMAIN all : all[i].query = all[j].query => i = j
PlansTell(all) == all \in Seq(PlanSet) /\ QueryOnce(all)
Slow == Only(history.all, {TRUE})
NotSlow == Only(history.all, {FALSE})
QueryInv ==
  /\ PlansTell(plans) /\ Len(plans) <= MaxEntries
  /\ history = [all |-> history.all, slow |-> history.slow]
  /\ history.all \in Seq(BOOLEAN) /\ history.slow = Times(history.all, TRUE)
  /\ Len(Slow) = history.slow /\ Len(Slow) + Len(NotSlow) = Len(history.all)

LEMMA OthersTell ==
  ASSUME PlansTell(plans), NEW q
  PROVE  /\ PlansTell(OtherPlans(q)) /\ Len(OtherPlans(q)) <= Len(plans)
<1>1. PICK P : P = {p \in ToSet(plans) : p.query # q}
  OBVIOUS
<1>2. PICK t : t = Only(plans, P)
  OBVIOUS
<1>3. plans \in Seq(PlanSet) /\ QueryOnce(plans) /\ DOMAIN plans = 1..Len(plans) /\ Len(plans) \in Nat
  BY DEF PlansTell
<1>4. t \in Seq(PlanSet) /\ Leaves(t, plans, Len(plans), P)
  BY <1>2, <1>3, OnlyLeaves
<1>5. Len(t) <= Len(plans)
  BY <1>2, <1>3, OnlyLength
<1>6. DOMAIN t = 1..Len(t) /\ Len(t) \in Nat
  BY <1>4
<1>7. ASSUME NEW i \in DOMAIN t, NEW j \in DOMAIN t, i < j PROVE t[i].query # t[j].query
  <2>1. PICK a \in 1..Len(plans), c \in 1..Len(plans) : a < c /\ t[i] = plans[a] /\ t[j] = plans[c]
    BY <1>4, <1>7 DEF Leaves
  <2>2. a # c /\ a \in DOMAIN plans /\ c \in DOMAIN plans
    BY <1>3, <2>1
  <2> QED
    BY <1>3, <2>1, <2>2 DEF QueryOnce
<1>8. \A i, j \in DOMAIN t : i < j \/ j < i \/ i = j
  BY <1>6
<1>9. QueryOnce(t)
  BY <1>7, <1>8 DEF QueryOnce
<1> QED
  BY <1>1, <1>2, <1>4, <1>5, <1>9 DEF OtherPlans, PlansTell

(* Entries that are written in place keep their queries.                   *)
LEMMA ChangedTell ==
  ASSUME NEW all, PlansTell(all), NEW t, t = [i \in DOMAIN all |-> t[i]],
         \A i \in DOMAIN all : t[i] \in PlanSet /\ t[i].query = all[i].query
  PROVE  PlansTell(t) /\ Len(t) = Len(all)
<1>1. all \in Seq(PlanSet) /\ DOMAIN all = 1..Len(all) /\ Len(all) \in Nat /\ QueryOnce(all)
  BY DEF PlansTell
<1>2. DOMAIN t = 1..Len(all)
  BY <1>1
<1>3. t \in Seq(PlanSet) /\ Len(t) = Len(all)
  BY <1>1, <1>2
<1>4. QueryOnce(t)
  BY <1>1, <1>2 DEF QueryOnce
<1> QED
  BY <1>3, <1>4 DEF PlansTell

LEMMA LookedTell ==
  ASSUME PlansTell(plans), NEW q
  PROVE  PlansTell(Looked(q)) /\ Len(Looked(q)) <= Len(plans)
<1>1. plans \in Seq(PlanSet) /\ Len(plans) \in Nat /\ DOMAIN plans = 1..Len(plans)
  BY DEF PlansTell
<1>2. CASE PlanAt(q) = {}
  <2>1. Looked(q) = plans
    BY <1>2 DEF Looked
  <2> QED
    BY <1>1, <2>1
<1>3. CASE PlanAt(q) # {} /\ \E i \in PlanAt(q) : plans[i].expired
  <2>1. Looked(q) = OtherPlans(q)
    BY <1>3 DEF Looked
  <2> QED
    BY <2>1, OthersTell
<1>4. CASE PlanAt(q) # {} /\ ~\E i \in PlanAt(q) : plans[i].expired
  <2>1. PICK t : t = [i \in DOMAIN plans |-> IF i \in PlanAt(q) THEN [plans[i] EXCEPT !.uses = @ + 1] ELSE plans[i]]
    OBVIOUS
  <2>2. Looked(q) = t
    BY <1>4, <2>1 DEF Looked
  <2>3. ASSUME NEW i \in DOMAIN plans PROVE t[i] \in PlanSet /\ t[i].query = plans[i].query
    <3>1. plans[i] \in PlanSet
      BY <1>1
    <3> QED
      BY <2>1, <3>1 DEF PlanSet
  <2>4. t = [i \in DOMAIN plans |-> t[i]]
    BY <2>1
  <2>5. PlansTell(t) /\ Len(t) = Len(plans)
    BY <2>3, <2>4, ChangedTell
  <2> QED
    BY <1>1, <2>2, <2>5
<1> QED
  BY <1>2, <1>3, <1>4

LEMMA EvictedTell ==
  ASSUME NEW all, PlansTell(all), Len(all) <= MaxEntries
  PROVE  PlansTell(Evicted(all)) /\ Len(Evicted(all)) < MaxEntries
<1>1. all \in Seq(PlanSet) /\ Len(all) \in Nat /\ DOMAIN all = 1..Len(all) /\ QueryOnce(all)
      /\ MaxEntries \in Nat \ {0}
  BY StoresAssumption DEF PlansTell
<1>2. CASE Len(all) < MaxEntries
  <2>1. Evicted(all) = all
    BY <1>2 DEF Evicted
  <2> QED
    BY <1>2, <2>1
<1>3. CASE ~(Len(all) < MaxEntries)
  <2>1. PICK U : U = {all[i].uses : i \in DOMAIN all}
    OBVIOUS
  <2>2. PICK least : least = Min(U)
    OBVIOUS
  <2>3. PICK L : L = {i \in DOMAIN all : all[i].uses = least}
    OBVIOUS
  <2>4. PICK k : k = Min(L)
    OBVIOUS
  <2>5. Evicted(all) = RemoveAt(all, k)
    BY <1>3, <2>1, <2>2, <2>3, <2>4 DEF Evicted
  <2>6. U \in SUBSET Nat /\ U # {}
    <3>1. ASSUME NEW i \in DOMAIN all PROVE all[i].uses \in Nat
      <4>1. all[i] \in PlanSet
        BY <1>1
      <4> QED
        BY <4>1 DEF PlanSet
    <3>2. 1 \in DOMAIN all
      BY <1>1, <1>3
    <3> QED
      BY <2>1, <3>1, <3>2
  <2>7. least \in U
    BY <2>2, <2>6, LeastIs
  <2>8. L \in SUBSET Nat /\ L # {}
    BY <1>1, <2>1, <2>3, <2>7
  <2>9. k \in DOMAIN all
    BY <2>3, <2>4, <2>8, LeastIs
  <2>10. PICK t : t = Dropped(all, k)
    OBVIOUS
  <2>11. /\ t \in Seq(PlanSet) /\ Len(t) = Len(all) - 1 /\ DOMAIN t = 1..(Len(all) - 1)
         /\ \A i \in 1..(Len(all) - 1) : t[i] = all[IF i < k THEN i ELSE i + 1]
    BY <1>1, <2>9, <2>10, RemovedAt
  <2>12. ASSUME NEW i \in DOMAIN t, NEW j \in DOMAIN t, t[i].query = t[j].query PROVE i = j
    <3>1. PICK a, c : a = (IF i < k THEN i ELSE i + 1) /\ c = (IF j < k THEN j ELSE j + 1)
      OBVIOUS
    <3>2. a \in DOMAIN all /\ c \in DOMAIN all /\ t[i] = all[a] /\ t[j] = all[c]
      BY <1>1, <2>9, <2>11, <3>1
    <3>3. a = c
      BY <1>1, <2>12, <3>2 DEF QueryOnce
    <3> QED
      BY <1>1, <2>9, <2>11, <3>1, <3>3
  <2>13. QueryOnce(t)
    BY <2>12 DEF QueryOnce
  <2>14. Evicted(all) = t
    BY <2>5, <2>10 DEF RemoveAt, Dropped
  <2>15. Len(t) < MaxEntries
    BY <1>1, <2>11
  <2> QED
    BY <2>11, <2>13, <2>14, <2>15 DEF PlansTell
<1> QED
  BY <1>2, <1>3

LEMMA PutTell ==
  ASSUME NEW all, PlansTell(all), Len(all) <= MaxEntries, NEW q \in SqlQueries
  PROVE  PlansTell(Put(all, q)) /\ Len(Put(all, q)) <= MaxEntries
<1>1. PICK stay, fresh : stay = Evicted(all) /\ fresh = [query |-> q, uses |-> 0, expired |-> FALSE]
  OBVIOUS
<1>2. PlansTell(stay) /\ Len(stay) < MaxEntries
  BY <1>1, EvictedTell
<1>3. stay \in Seq(PlanSet) /\ Len(stay) \in Nat /\ DOMAIN stay = 1..Len(stay) /\ QueryOnce(stay)
      /\ MaxEntries \in Nat
  BY <1>2, StoresAssumption DEF PlansTell
<1>4. fresh \in PlanSet /\ fresh.query = q
  BY <1>1 DEF PlanSet
<1>5. CASE \E i \in DOMAIN stay : stay[i].query = q
  <2>1. PICK t : t = [i \in DOMAIN stay |-> IF stay[i].query = q THEN fresh ELSE stay[i]]
    OBVIOUS
  <2>2. Put(all, q) = t
    BY <1>1, <1>5, <2>1 DEF Put
  <2>3. \A i \in DOMAIN stay : t[i] \in PlanSet /\ t[i].query = stay[i].query
    BY <1>3, <1>4, <2>1
  <2>4. t = [i \in DOMAIN stay |-> t[i]]
    BY <2>1
  <2>5. PlansTell(t) /\ Len(t) = Len(stay)
    BY <1>2, <2>3, <2>4, ChangedTell
  <2> QED
    BY <1>2, <1>3, <2>2, <2>5
<1>6. CASE ~\E i \in DOMAIN stay : stay[i].query = q
  <2>1. Put(all, q) = Append(stay, fresh)
    BY <1>1, <1>6 DEF Put
  <2>2. PICK t : t = Append(stay, fresh)
    OBVIOUS
  <2>3. /\ t \in Seq(PlanSet) /\ Len(t) = Len(stay) + 1 /\ DOMAIN t = 1..(Len(stay) + 1)
        /\ (\A i \in 1..Len(stay) : t[i] = stay[i]) /\ t[Len(stay) + 1] = fresh
    BY <1>3, <1>4, <2>2, Appended
  <2>4. ASSUME NEW i \in DOMAIN t, NEW j \in DOMAIN t, t[i].query = t[j].query PROVE i = j
    <3>1. (i \in DOMAIN stay \/ i = Len(stay) + 1) /\ (j \in DOMAIN stay \/ j = Len(stay) + 1)
      BY <1>3, <2>3
    <3>2. CASE i \in DOMAIN stay /\ j \in DOMAIN stay
      BY <1>3, <2>3, <2>4, <3>2 DEF QueryOnce
    <3>3. CASE i \in DOMAIN stay /\ j = Len(stay) + 1
      BY <1>3, <1>4, <1>6, <2>3, <2>4, <3>3
    <3>4. CASE i = Len(stay) + 1 /\ j \in DOMAIN stay
      BY <1>3, <1>4, <1>6, <2>3, <2>4, <3>4
    <3> QED
      BY <3>1, <3>2, <3>3, <3>4
  <2>5. QueryOnce(t)
    BY <2>4 DEF QueryOnce
  <2>6. Len(t) <= MaxEntries
    BY <1>2, <1>3, <2>3
  <2> QED
    BY <2>1, <2>2, <2>3, <2>5, <2>6 DEF PlansTell
<1> QED
  BY <1>5, <1>6

LEMMA QueryStarts == StoresInit => QueryInv
<1>1. SUFFICES ASSUME StoresInit PROVE QueryInv
  OBVIOUS
<1>2. plans = <<>> /\ history = [all |-> <<>>, slow |-> 0]
  BY <1>1 DEF StoresInit
<1>3. PlansTell(plans) /\ Len(plans) <= MaxEntries
  <2>1. <<>> \in Seq(PlanSet) /\ DOMAIN <<>> = {} /\ Len(<<>>) = 0
    OBVIOUS
  <2> QED
    BY <1>2, <2>1, StoresAssumption DEF PlansTell, QueryOnce
<1>4. history.all = <<>> /\ history.slow = 0
  BY <1>2
<1>5. Slow = <<>> /\ NotSlow = <<>>
  BY <1>4, OnlyEmpty DEF Slow, NotSlow
<1>6. Times(<<>>, TRUE) = 0
  <2>1. {k \in DOMAIN <<>> : <<>>[k] = TRUE} = {}
    OBVIOUS
  <2> QED
    BY <2>1, FS_EmptySet DEF Times
<1>7. <<>> \in Seq(BOOLEAN) /\ Len(<<>>) = 0
  OBVIOUS
<1>8. history = [all |-> history.all, slow |-> history.slow]
  BY <1>2, <1>4
<1>9. Len(Slow) = history.slow /\ Len(Slow) + Len(NotSlow) = Len(history.all)
  BY <1>4, <1>5, <1>7
<1> QED
  BY <1>3, <1>4, <1>6, <1>7, <1>8, <1>9 DEF QueryInv

LEMMA HistoryKept ==
  ASSUME QueryInv, history' = history, PlansTell(plans'), Len(plans') <= MaxEntries PROVE QueryInv'
BY DEF QueryInv, Slow, NotSlow

LEMMA AnalyzeKeeps ==
  ASSUME QueryInv, NEW slow \in BOOLEAN, Analyze(slow) PROVE QueryInv'
<1>1. PICK B, s, n : B = BOOLEAN /\ s = history.all /\ n = history.slow
  OBVIOUS
<1>2. PICK t : t = Append(s, slow)
  OBVIOUS
<1>3. history' = [all |-> t, slow |-> n + (IF slow THEN 1 ELSE 0)] /\ plans' = plans
  BY <1>1, <1>2 DEF Analyze
<1>4. /\ s \in Seq(B) /\ slow \in B /\ n = Times(s, TRUE)
      /\ Len(Only(s, {TRUE})) = n /\ Len(Only(s, {TRUE})) + Len(Only(s, {FALSE})) = Len(s)
  BY <1>1 DEF QueryInv, Slow, NotSlow
<1>5. t \in Seq(B) /\ Len(t) = Len(s) + 1 /\ Len(s) \in Nat
  BY <1>2, <1>4, Appended
<1>6. PICK yes, no : yes = TRUE /\ no = FALSE
  OBVIOUS
<1>7. yes # no /\ (slow = yes \/ slow = no) /\ (slow <=> slow = yes)
  BY <1>6, Zenon
<1>8. n \in Nat /\ Times(t, yes) = n + (IF yes = slow THEN 1 ELSE 0)
  <2>1. \A x : Times(s, x) \in Nat /\ Times(Append(s, slow), x) = Times(s, x) + (IF x = slow THEN 1 ELSE 0)
    BY <1>4, TimesAppended
  <2>2. Times(s, yes) = n
    BY <1>4, <1>6
  <2> QED
    BY <1>2, <2>1, <2>2
<1>9. PICK p, u : p = Only(s, {yes}) /\ u = Only(s, {no})
  OBVIOUS
<1>10. /\ Only(t, {yes}) = (IF slow \in {yes} THEN Append(p, slow) ELSE p)
       /\ Only(t, {no}) = (IF slow \in {no} THEN Append(u, slow) ELSE u)
  BY <1>2, <1>4, <1>9, OnlyAppended
<1>11. p \in Seq(B) /\ u \in Seq(B) /\ Len(p) = n /\ Len(p) + Len(u) = Len(s)
  BY <1>4, <1>6, <1>9, OnlyLeaves
<1>12. Len(Append(p, slow)) = Len(p) + 1 /\ Len(Append(u, slow)) = Len(u) + 1 /\ Len(p) \in Nat /\ Len(u) \in Nat
  <2>1. slow \in B
    BY <1>4
  <2>2. Len(Append(p, slow)) = Len(p) + 1 /\ Len(p) \in Nat
    BY <1>11, <2>1, Appended
  <2>3. Len(Append(u, slow)) = Len(u) + 1 /\ Len(u) \in Nat
    BY <1>11, <2>1, Appended
  <2> QED
    BY <2>2, <2>3
<1>14. PICK m : m = n + (IF slow THEN 1 ELSE 0)
  OBVIOUS
<1>15. history'.all = t /\ history'.slow = m /\ history' = [all |-> t, slow |-> m]
  BY <1>3, <1>14
<1>16. Times(t, yes) = m /\ Len(Only(t, {yes})) = m
       /\ Len(Only(t, {yes})) + Len(Only(t, {no})) = Len(t)
  <2>1. CASE slow = yes
    <3>1. m = n + 1 /\ Only(t, {yes}) = Append(p, slow) /\ Only(t, {no}) = u /\ Times(t, yes) = n + 1
      BY <1>7, <1>8, <1>10, <1>14, <2>1
    <3> QED
      BY <1>5, <1>8, <1>11, <1>12, <3>1
  <2>2. CASE slow = no
    <3>1. m = n + 0 /\ Only(t, {yes}) = p /\ Only(t, {no}) = Append(u, slow) /\ Times(t, yes) = n + 0
      BY <1>7, <1>8, <1>10, <1>14, <2>2
    <3> QED
      BY <1>5, <1>8, <1>11, <1>12, <3>1
  <2> QED
    BY <1>7, <2>1, <2>2
<1>13. PlansTell(plans') /\ Len(plans') <= MaxEntries
  BY <1>3 DEF QueryInv
<1> QED
  BY <1>1, <1>5, <1>6, <1>13, <1>15, <1>16 DEF QueryInv, Slow, NotSlow

LEMMA QuerySteps ==
  ASSUME QueryInv, [QueryNext]_queryVars PROVE QueryInv'
<1>1. PlansTell(plans) /\ Len(plans) <= MaxEntries /\ Len(plans) \in Nat /\ MaxEntries \in Nat
  BY StoresAssumption DEF QueryInv, PlansTell
<1>2. ASSUME NEW q \in SqlQueries, OptimizeQuery(q) PROVE QueryInv'
  <2>1. PICK after : after = Looked(q)
    OBVIOUS
  <2>2. PlansTell(after) /\ Len(after) <= Len(plans) /\ Len(after) \in Nat
    <3>1. PlansTell(after) /\ Len(after) <= Len(plans)
      BY <1>1, <2>1, LookedTell
    <3> QED
      BY <3>1 DEF PlansTell
  <2>3. plans' = (IF \E i \in DOMAIN after : after[i].query = q THEN after ELSE Put(after, q)) /\ history' = history
    BY <1>2, <2>1 DEF OptimizeQuery
  <2>4. Len(after) <= MaxEntries
    BY <1>1, <2>2
  <2>5. PlansTell(Put(after, q)) /\ Len(Put(after, q)) <= MaxEntries
    BY <2>2, <2>4, PutTell
  <2> QED
    BY <2>2, <2>3, <2>4, <2>5, HistoryKept
<1>3. ASSUME NEW q \in SqlQueries, PutResult(q) PROVE QueryInv'
  <2>1. plans' = Put(plans, q) /\ history' = history
    BY <1>3 DEF PutResult
  <2>2. PlansTell(Put(plans, q)) /\ Len(Put(plans, q)) <= MaxEntries
    BY <1>1, PutTell
  <2> QED
    BY <2>1, <2>2, HistoryKept
<1>4. ASSUME NEW q \in SqlQueries, InvalidatePlans(q) PROVE QueryInv'
  <2>1. plans' = OtherPlans(q) /\ history' = history
    BY <1>4 DEF InvalidatePlans
  <2>2. PlansTell(OtherPlans(q)) /\ Len(OtherPlans(q)) <= Len(plans)
    BY <1>1, OthersTell
  <2>3. Len(OtherPlans(q)) \in Nat
    BY <2>2 DEF PlansTell
  <2>4. Len(OtherPlans(q)) <= MaxEntries
    BY <1>1, <2>2, <2>3
  <2> QED
    BY <2>1, <2>2, <2>4, HistoryKept
<1>5. ASSUME NEW i \in DOMAIN plans, PlanExpires(i) PROVE QueryInv'
  <2>1. plans' = [plans EXCEPT ![i].expired = TRUE] /\ history' = history
    BY <1>5 DEF PlanExpires
  <2>2. PICK t : t = plans'
    OBVIOUS
  <2>3. ASSUME NEW j \in DOMAIN plans PROVE t[j] \in PlanSet /\ t[j].query = plans[j].query
    <3>1. plans[j] \in PlanSet
      BY <1>1 DEF PlansTell
    <3> QED
      BY <2>1, <2>2, <3>1 DEF PlanSet
  <2>4. t = [j \in DOMAIN plans |-> t[j]]
    BY <2>1, <2>2
  <2>5. PlansTell(t) /\ Len(t) = Len(plans)
    BY <1>1, <2>3, <2>4, ChangedTell
  <2> QED
    BY <1>1, <2>1, <2>2, <2>5, HistoryKept
<1>6. ASSUME NEW q \in SqlQueries, NEW n, AddIndex(q, n) PROVE QueryInv'
  <2>1. plans' = plans /\ history' = history
    BY <1>6 DEF AddIndex
  <2> QED
    BY <1>1, <2>1, HistoryKept
<1>7. ASSUME NEW slow \in BOOLEAN, Analyze(slow) PROVE QueryInv'
  BY <1>7, AnalyzeKeeps
<1>8. ASSUME ClearHistory PROVE QueryInv'
  <2>1. plans' = plans /\ history' = [all |-> <<>>, slow |-> 0]
    BY <1>8 DEF ClearHistory
  <2>2. history'.all = <<>> /\ history'.slow = 0
    BY <2>1
  <2>3. Slow' = <<>> /\ NotSlow' = <<>>
    BY <2>2, OnlyEmpty DEF Slow, NotSlow
  <2>4. Times(<<>>, TRUE) = 0
    <3>1. {k \in DOMAIN <<>> : <<>>[k] = TRUE} = {}
      OBVIOUS
    <3> QED
      BY <3>1, FS_EmptySet DEF Times
  <2>5. <<>> \in Seq(BOOLEAN) /\ Len(<<>>) = 0
    OBVIOUS
  <2>6. history' = [all |-> history'.all, slow |-> history'.slow]
    BY <2>1, <2>2
  <2>7. Len(Slow') = history'.slow /\ Len(Slow') + Len(NotSlow') = Len(history'.all)
    BY <2>2, <2>3, <2>5
  <2> QED
    BY <1>1, <2>1, <2>2, <2>4, <2>5, <2>6, <2>7 DEF QueryInv
<1>9. ASSUME RemoveUnused(1) PROVE QueryInv'
  <2>1. plans' = plans /\ history' = history
    BY <1>9 DEF RemoveUnused
  <2> QED
    BY <1>1, <2>1, HistoryKept
<1>10. ASSUME UNCHANGED queryVars PROVE QueryInv'
  <2>1. plans' = plans /\ history' = history
    BY <1>10 DEF queryVars
  <2> QED
    BY <1>1, <2>1, HistoryKept
<1> QED
  BY <1>2, <1>3, <1>4, <1>5, <1>6, <1>7, <1>8, <1>9, <1>10 DEF QueryNext

(* get_slow_queries gives the slow ones first.                             *)
LEMMA SlowFirst ==
  ASSUME QueryInv PROVE \A i \in 1..Min({history.slow, 2}) : SlowAnswer(2)[i]
<1>1. PICK s, n, t, f : s = history.all /\ n = history.slow /\ t = Only(s, {TRUE}) /\ f = Only(s, {FALSE})
  OBVIOUS
<1>2. PICK B : B = BOOLEAN
  OBVIOUS
<1>3. s \in Seq(B) /\ Len(t) = n /\ Len(t) + Len(f) = Len(s)
  BY <1>1, <1>2 DEF QueryInv, Slow, NotSlow
<1>4. t \in Seq(B) /\ Leaves(t, s, Len(s), {TRUE}) /\ f \in Seq(B)
  BY <1>1, <1>3, OnlyLeaves
<1>5. Len(t) \in Nat /\ Len(f) \in Nat /\ Len(s) \in Nat /\ DOMAIN t = 1..Len(t)
  BY <1>3, <1>4
<1>6. PICK all : all = t \o f
  OBVIOUS
<1>7. all \in Seq(B) /\ Len(all) = Len(s) /\ \A i \in 1..Len(t) : all[i] = t[i]
  BY <1>3, <1>4, <1>5, <1>6
<1>8. PICK m : m = Min({2, Len(s)})
  OBVIOUS
<1>9. m = (IF 2 <= Len(s) THEN 2 ELSE Len(s)) /\ m \in 0..Len(s)
  <2>1. 2 \in Int /\ Len(s) \in Int
    BY <1>5
  <2>2. m = IF 2 <= Len(s) THEN 2 ELSE Len(s)
    BY <1>8, <2>1, OfTwo
  <2> QED
    BY <1>5, <2>2
<1>10. SlowAnswer(2) = SubSeq(all, 1, m)
  BY <1>1, <1>6, <1>8 DEF SlowAnswer
<1>11. \A i \in 1..m : SubSeq(all, 1, m)[i] = all[i]
  BY <1>5, <1>7, <1>9
<1>12. Min({n, 2}) = IF n <= 2 THEN n ELSE 2
  <2>1. 2 \in Int /\ n \in Int
    BY <1>3, <1>5
  <2> QED
    BY <2>1, OfTwo
<1>13. ASSUME NEW i \in 1..Min({n, 2}) PROVE SlowAnswer(2)[i]
  <2>1. i \in 1..Len(t) /\ i \in 1..m
    BY <1>3, <1>5, <1>9, <1>12
  <2>2. t[i] \in {TRUE}
    BY <1>4, <1>5, <2>1 DEF Leaves
  <2>3. SlowAnswer(2)[i] = TRUE
    BY <1>7, <1>10, <1>11, <2>1, <2>2
  <2> QED
    BY <2>3
<1> QED
  BY <1>1, <1>13

LEMMA QueriesHold ==
  ASSUME QueryInv PROVE QueriesBounded /\ Len(plans) <= MaxEntries
<1>1. IsInjective([i \in DOMAIN plans |-> plans[i].query])
  BY DEF QueryInv, PlansTell, QueryOnce, IsInjective
<1>2. history.slow = Cardinality({i \in DOMAIN history.all : history.all[i]})
  <2>1. history.all \in Seq(BOOLEAN) /\ history.slow = Times(history.all, TRUE)
    BY DEF QueryInv
  <2>2. \A i \in DOMAIN history.all : history.all[i] \in BOOLEAN
    BY <2>1
  <2>3. {i \in DOMAIN history.all : history.all[i]} = {i \in DOMAIN history.all : history.all[i] = TRUE}
    BY <2>2, Zenon
  <2> QED
    BY <2>1, <2>3 DEF Times
<1>3. ASSUME NEW f \in 0..20, Recommended(f) PROVE Priority(f) >= 3
  <2>1. PICK d : d = f \div 2
    OBVIOUS
  <2>2. f > 5 /\ f \in Nat
    BY <1>3 DEF Recommended
  <2>3. d \in Nat /\ d >= 3
    BY <2>1, <2>2
  <2>4. Max({1, d}) = d
    BY <2>3, OfTwo
  <2>5. Min({5, d}) = IF 5 <= d THEN 5 ELSE d
    BY <2>3, OfTwo
  <2>6. Priority(f) = Min({5, d})
    BY <2>1, <2>4 DEF Priority
  <2> QED
    BY <2>3, <2>5, <2>6
<1>4. \A q \in SqlQueries : q.star => PlannedScan(q) = AnalyzedScan(q) \/ q.where
  BY DEF PlannedScan, AnalyzedScan
<1> QED
  BY <1>1, <1>2, <1>3, <1>4, SlowFirst DEF QueriesBounded, QueryInv

(***************************************************************************)
(* Sockets. A list that others change under a walk only loses members, or  *)
(* gets a new one at its end: Later(old, new) is what a member's place     *)
(* becomes while some leave.                                               *)
(***************************************************************************)
Later(old, new) ==
  /\ new \in Seq(Sockets) /\ IsInjective(new) /\ Len(new) <= Len(old)
  /\ \A p \in DOMAIN new : \E q \in DOMAIN old : q >= p /\ new[p] = old[q]
  /\ Len(new) = Len(old) => new = old

Listed(t) == {c \in Channels : t[c] # 0}

(* What the lists and the table are to each other, whoever is connected.   *)
Books(l, t) ==
  /\ l \in Seq(Seq(Sockets)) /\ t \in [Channels -> Nat] /\ IsFiniteSet(Listed(t))
  /\ \A n \in DOMAIN l : IsInjective(l[n]) /\ (l[n] # <<>> => \E c \in Channels : t[c] = n)
  /\ \A c \in Listed(t) : /\ t[c] \in DOMAIN l /\ l[t[c]] # <<>>
                          /\ \A s \in Range(l[t[c]]) : ChannelOf(s) = c

(* The members' receivers run.                                             *)
AllRun(l, rec) == \A n \in DOMAIN l : \A s \in Range(l[n]) : rec[s] \in {"open", "answering"}

WalkFields == {"kind", "owner", "rest", "channel", "list", "at", "failed", "tried", "to", "due", "left", "state"}

(* The members a walk has not come to.                                     *)
Ahead(w, l) == {l[w.list][p] : p \in {q \in DOMAIN l[w.list] : q > w.at}}

(* Those it found and will not come to.                                    *)
Missed(w, l) == w.due \ (Range(w.tried) \cup {w.to} \cup Ahead(w, l))

WalkTyped(w, rec) ==
  /\ DOMAIN w = WalkFields
  /\ w.kind = "broadcast" => w.rest = <<>>
  /\ w.rest \in Seq(Channels) /\ w.left \in Nat /\ IsFiniteSet(w.due)
  /\ w.tried \in Seq(Sockets) /\ w.failed \in Seq(Sockets) /\ w.to \in Sockets
  /\ w.state \in {"sending", "over", "raised"}
  /\ IsInjective(w.tried) /\ Range(w.failed) \subseteq Range(w.tried)
  /\ \A s \in Range(w.tried) : rec[s] # "none" /\ ChannelOf(s) = w.channel
  /\ w.channel \in {ChannelOf(s) : s \in Sockets}

(* A walk under way: whoever it comes to next it has not tried, and of     *)
(* those it found it misses no more than have left.                        *)
WalkSends(w, l, t, rec) ==
  /\ w.list \in DOMAIN l /\ w.at \in Nat /\ (l[w.list] = <<>> \/ t[w.channel] = w.list)
  /\ w.to \notin Range(w.tried) /\ rec[w.to] # "none" /\ ChannelOf(w.to) = w.channel
  /\ \A s \in Ahead(w, l) : s \notin Range(w.tried) /\ s # w.to
  /\ Cardinality(Missed(w, l)) <= w.left

WalkOver(w, l, t) ==
  /\ Cardinality(w.due \ Range(w.tried)) <= w.left
  /\ w.kind = "broadcast" => \A c \in Listed(t) : Range(w.failed) \cap Range(l[t[c]]) = {}

WalkOK(w, l, t, rec) ==
  /\ WalkTyped(w, rec)
  /\ w.list \in DOMAIN l
  /\ w.state = "sending" => WalkSends(w, l, t, rec)
  /\ w.state = "over" => WalkOver(w, l, t)

SocketsInv ==
  /\ Books(socketLists, table) /\ AllRun(socketLists, receiver)
  /\ receiver \in [Sockets -> {"none", "open", "answering", "over"}]
  /\ \E W : walks \in Seq(W)
  /\ \A n \in DOMAIN walks : WalkOK(walks[n], socketLists, table, receiver)

LEMMA TakenIs ==
  ASSUME NEW list \in Seq(Sockets), IsInjective(list), NEW s \in Range(list)
  PROVE  Later(list, FirstTaken(list, s)) /\ s \notin Range(FirstTaken(list, s)) /\ Len(FirstTaken(list, s)) = Len(list) - 1
<1>1. PICK K, k : K = {i \in DOMAIN list : list[i] = s} /\ k = Min(K)
  OBVIOUS
<1>2. DOMAIN list = 1..Len(list) /\ Len(list) \in Nat
  OBVIOUS
<1>3. K \in SUBSET Nat /\ K # {}
  BY <1>1, <1>2 DEF Range
<1>4. k \in DOMAIN list /\ list[k] = s
  <2>1. k \in K
    BY <1>1, <1>3, LeastIs
  <2> QED
    BY <1>1, <2>1
<1>5. PICK t : t = FirstTaken(list, s)
  OBVIOUS
<1>6. t = Dropped(list, k)
  BY <1>1, <1>5 DEF FirstTaken, RemoveAt, Dropped
<1>7. /\ t \in Seq(Sockets) /\ Len(t) = Len(list) - 1 /\ DOMAIN t = 1..(Len(list) - 1) /\ Len(list) \in Nat \ {0}
      /\ \A i \in 1..(Len(list) - 1) : t[i] = list[IF i < k THEN i ELSE i + 1]
  BY <1>4, <1>6, RemovedAt
<1>8. IsInjective(t)
  <2>1. SUFFICES ASSUME NEW i \in DOMAIN t, NEW j \in DOMAIN t, t[i] = t[j] PROVE i = j
    BY DEF IsInjective
  <2>2. PICK a, b : a = (IF i < k THEN i ELSE i + 1) /\ b = (IF j < k THEN j ELSE j + 1)
    OBVIOUS
  <2>3. a \in DOMAIN list /\ b \in DOMAIN list /\ t[i] = list[a] /\ t[j] = list[b]
    BY <1>2, <1>4, <1>7, <2>2
  <2>4. a = b
    BY <2>1, <2>3 DEF IsInjective
  <2> QED
    BY <1>2, <1>4, <1>7, <2>2, <2>4
<1>9. ASSUME NEW p \in DOMAIN t PROVE /\ t[p] # s /\ \E q \in DOMAIN list : q >= p /\ t[p] = list[q]
  <2>1. PICK a : a = IF p < k THEN p ELSE p + 1
    OBVIOUS
  <2>2. a \in DOMAIN list /\ a # k /\ a >= p /\ t[p] = list[a]
    BY <1>2, <1>4, <1>7, <2>1
  <2>3. t[p] # s
    BY <1>4, <2>2 DEF IsInjective
  <2> QED
    BY <2>2, <2>3
<1>10. s \notin Range(t)
  BY <1>9 DEF Range
<1>11. Len(t) <= Len(list) /\ Len(t) # Len(list)
  BY <1>7
<1> QED
  BY <1>5, <1>7, <1>8, <1>9, <1>10, <1>11 DEF Later

LEMMA LaterKnown ==
  ASSUME NEW old \in Seq(Sockets), NEW new, Later(old, new) PROVE Range(new) \subseteq Range(old)
BY DEF Later, Range

LEMMA LaterSelf ==
  ASSUME NEW old \in Seq(Sockets), IsInjective(old) PROVE Later(old, old)
<1>1. DOMAIN old = 1..Len(old) /\ Len(old) \in Nat
  OBVIOUS
<1>2. \A p \in DOMAIN old : p \in DOMAIN old /\ p >= p /\ old[p] = old[p]
  BY <1>1
<1> QED
  BY <1>1, <1>2 DEF Later

LEMMA LaterStill ==
  ASSUME NEW a \in Seq(Sockets), NEW b, NEW d, Later(a, b), Later(b, d) PROVE Later(a, d)
<1>1. b \in Seq(Sockets) /\ d \in Seq(Sockets) /\ IsInjective(d) /\ Len(b) <= Len(a) /\ Len(d) <= Len(b)
  BY DEF Later
<1>2. DOMAIN a = 1..Len(a) /\ DOMAIN b = 1..Len(b) /\ DOMAIN d = 1..Len(d) /\ Len(a) \in Nat /\ Len(b) \in Nat /\ Len(d) \in Nat
  BY <1>1
<1>3. ASSUME NEW p \in DOMAIN d PROVE \E q \in DOMAIN a : q >= p /\ d[p] = a[q]
  <2>1. PICK r \in DOMAIN b : r >= p /\ d[p] = b[r]
    BY DEF Later
  <2>2. PICK q \in DOMAIN a : q >= r /\ b[r] = a[q]
    BY DEF Later
  <2>3. q >= p
    BY <1>2, <2>1, <2>2
  <2> QED
    BY <2>1, <2>2, <2>3
<1>4. Len(d) <= Len(a) /\ (Len(d) = Len(a) => Len(d) = Len(b) /\ Len(b) = Len(a))
  <2>1. PICK i, j, k : i = Len(a) /\ j = Len(b) /\ k = Len(d)
    OBVIOUS
  <2>2. i \in Nat /\ j \in Nat /\ k \in Nat /\ j <= i /\ k <= j
    BY <1>1, <1>2, <2>1
  <2>3. k <= i /\ (k = i => k = j /\ j = i)
    BY <2>2
  <2> QED
    BY <2>1, <2>3
<1>5. Len(d) = Len(a) => d = a
  BY <1>4 DEF Later
<1> QED
  BY <1>1, <1>3, <1>4, <1>5 DEF Later

-----------------------------------------------------------------------------
(* Members leave: lists become shorter, and an empty one is in no table.   *)
Thins(l, t, l2, t2) ==
  /\ Len(l2) = Len(l) /\ \A n \in DOMAIN l : Later(l[n], l2[n])
  /\ \A c \in Channels : t2[c] = t[c] \/ (t[c] # 0 /\ t2[c] = 0 /\ l2[t[c]] = <<>>)

Gone(s, c, l, t) == t[c] = 0 \/ s \notin Range(l[t[c]])

LEMMA BooksAre ==
  ASSUME NEW l, NEW t, Books(l, t)
  PROVE  /\ l \in Seq(Seq(Sockets)) /\ DOMAIN l = 1..Len(l) /\ Len(l) \in Nat
         /\ \A n \in DOMAIN l : l[n] \in Seq(Sockets) /\ IsInjective(l[n])
         /\ t \in [Channels -> Nat]
         /\ \A c \in Channels : t[c] # 0 => /\ t[c] \in DOMAIN l /\ l[t[c]] # <<>>
                                            /\ \A s \in Range(l[t[c]]) : ChannelOf(s) = c
         /\ \A n \in DOMAIN l : l[n] # <<>> => \E c \in Channels : t[c] = n
<1>1. l \in Seq(Seq(Sockets)) /\ t \in [Channels -> Nat]
  BY DEF Books
<1>2. DOMAIN l = 1..Len(l) /\ Len(l) \in Nat /\ \A n \in DOMAIN l : l[n] \in Seq(Sockets)
  BY <1>1
<1> QED
  BY <1>1, <1>2 DEF Books, Listed

LEMMA ThinsSelf ==
  ASSUME NEW l, NEW t, Books(l, t) PROVE Thins(l, t, l, t)
BY BooksAre, LaterSelf DEF Thins

LEMMA ThinsStill ==
  ASSUME NEW l, NEW t, Books(l, t), NEW l2, NEW t2, Books(l2, t2), Thins(l, t, l2, t2),
         NEW l3, NEW t3, Thins(l2, t2, l3, t3)
  PROVE  Thins(l, t, l3, t3)
<1>1. DOMAIN l = 1..Len(l) /\ DOMAIN l2 = 1..Len(l2) /\ Len(l2) = Len(l) /\ Len(l3) = Len(l2)
      /\ (\A n \in DOMAIN l : l[n] \in Seq(Sockets)) /\ \A c \in Channels : t[c] # 0 => t[c] \in DOMAIN l
  BY BooksAre DEF Thins
<1>2. ASSUME NEW n \in DOMAIN l PROVE Later(l[n], l3[n])
  <2>1. Later(l[n], l2[n]) /\ Later(l2[n], l3[n]) /\ l[n] \in Seq(Sockets)
    BY <1>1 DEF Thins
  <2> QED
    BY <2>1, LaterStill
<1>3. ASSUME NEW c \in Channels PROVE t3[c] = t[c] \/ (t[c] # 0 /\ t3[c] = 0 /\ l3[t[c]] = <<>>)
  <2>1. (t2[c] = t[c] \/ (t[c] # 0 /\ t2[c] = 0 /\ l2[t[c]] = <<>>)) /\ (t3[c] = t2[c] \/ (t2[c] # 0 /\ t3[c] = 0 /\ l3[t2[c]] = <<>>))
    BY DEF Thins
  <2>2. CASE t2[c] = t[c]
    BY <2>1, <2>2
  <2>3. CASE t[c] # 0 /\ t2[c] = 0 /\ l2[t[c]] = <<>>
    <3>1. t3[c] = 0 /\ Later(l2[t[c]], l3[t[c]]) /\ t[c] \in DOMAIN l
      BY <1>1, <2>1, <2>3 DEF Thins
    <3>2. l3[t[c]] \in Seq(Sockets) /\ Len(l3[t[c]]) <= Len(<<>>)
      BY <2>3, <3>1 DEF Later
    <3>3. l3[t[c]] = <<>>
      BY <3>2
    <3> QED
      BY <2>3, <3>1, <3>3
  <2> QED
    BY <2>1, <2>2, <2>3
<1> QED
  BY <1>1, <1>2, <1>3 DEF Thins

LEMMA GoneStays ==
  ASSUME NEW l, NEW t, Books(l, t), NEW l2, NEW t2, Thins(l, t, l2, t2), NEW s, NEW c \in Channels, Gone(s, c, l, t)
  PROVE  Gone(s, c, l2, t2)
<1>1. CASE t2[c] = 0
  BY <1>1 DEF Gone
<1>2. CASE t2[c] # 0
  <2>1. t2[c] = t[c] /\ t[c] # 0
    BY <1>2 DEF Thins
  <2>2. t[c] \in DOMAIN l /\ l[t[c]] \in Seq(Sockets)
    BY <2>1, BooksAre
  <2>3. Later(l[t[c]], l2[t[c]])
    BY <2>2 DEF Thins
  <2>4. Range(l2[t[c]]) \subseteq Range(l[t[c]])
    BY <2>2, <2>3, LaterKnown
  <2> QED
    BY <2>1, <2>4 DEF Gone
<1> QED
  BY <1>1, <1>2

LEMMA UnlistedThins ==
  ASSUME NEW l, NEW t, Books(l, t), NEW r \in BOOLEAN, NEW c \in Channels, NEW s
  PROVE  \E l2, t2 : \E r2 \in BOOLEAN :
           /\ Unlisted([lists |-> l, table |-> t, raised |-> r], c, s) = [lists |-> l2, table |-> t2, raised |-> r2]
           /\ Books(l2, t2) /\ Thins(l, t, l2, t2) /\ (r => r2) /\ (~r => Gone(s, c, l2, t2))
<1>1. PICK acc : acc = [lists |-> l, table |-> t, raised |-> r]
  OBVIOUS
<1>2. acc.lists = l /\ acc.table = t /\ acc.raised = r
  BY <1>1
<1>3. Thins(l, t, l, t)
  BY ThinsSelf
<1>4. CASE r \/ t[c] = 0
  <2>1. Unlisted(acc, c, s) = acc
    BY <1>2, <1>4 DEF Unlisted
  <2>2. ~r => Gone(s, c, l, t)
    BY <1>4 DEF Gone
  <2> QED
    BY <1>1, <1>3, <2>1, <2>2
<1>5. CASE ~(r \/ t[c] = 0) /\ s \notin Range(l[t[c]])
  <2>1. Unlisted(acc, c, s) = [lists |-> l, table |-> t, raised |-> TRUE]
    BY <1>2, <1>5 DEF Unlisted
  <2>2. Gone(s, c, l, t)
    BY <1>5 DEF Gone
  <2> QED
    BY <1>1, <1>3, <2>1, <2>2
<1>6. CASE ~(r \/ t[c] = 0) /\ s \in Range(l[t[c]])
  <2>1. PICK n, left : n = t[c] /\ left = FirstTaken(l[n], s)
    OBVIOUS
  <2>2. PICK l2, t2 : l2 = [l EXCEPT ![n] = left] /\ t2 = [t EXCEPT ![c] = IF left = <<>> THEN 0 ELSE @]
    OBVIOUS
  <2>3. Unlisted(acc, c, s) = [lists |-> l2, table |-> t2, raised |-> FALSE]
    BY <1>2, <1>6, <2>1, <2>2 DEF Unlisted
  <2>4. /\ l \in Seq(Seq(Sockets)) /\ DOMAIN l = 1..Len(l) /\ Len(l) \in Nat
        /\ \A m \in DOMAIN l : l[m] \in Seq(Sockets) /\ IsInjective(l[m])
        /\ t \in [Channels -> Nat]
        /\ \A d \in Channels : t[d] # 0 => /\ t[d] \in DOMAIN l /\ l[t[d]] # <<>>
                                           /\ \A x \in Range(l[t[d]]) : ChannelOf(x) = d
        /\ \A m \in DOMAIN l : l[m] # <<>> => \E d \in Channels : t[d] = m
    BY BooksAre
  <2>5. n \in DOMAIN l /\ n # 0 /\ l[n] \in Seq(Sockets) /\ IsInjective(l[n]) /\ s \in Range(l[n])
    BY <1>6, <2>1, <2>4
  <2>6. Later(l[n], left) /\ s \notin Range(left)
    BY <2>1, <2>5, TakenIs
  <2>7. left \in Seq(Sockets) /\ IsInjective(left) /\ Range(left) \subseteq Range(l[n])
    BY <2>5, <2>6, LaterKnown DEF Later
  <2>8. /\ DOMAIN l2 = DOMAIN l /\ l2[n] = left /\ \A m \in DOMAIN l \ {n} : l2[m] = l[m]
    BY <2>2, <2>5
  <2>9. l2 \in Seq(Seq(Sockets)) /\ Len(l2) = Len(l)
    BY <2>2, <2>4, <2>5, <2>7
  <2>10. /\ t2[c] = (IF left = <<>> THEN 0 ELSE n) /\ \A d \in Channels \ {c} : t2[d] = t[d]
         /\ t2 \in [Channels -> Nat]
    BY <2>1, <2>2, <2>4
  <2>11. \A d \in Channels \ {c} : t[d] # n
    <3>1. SUFFICES ASSUME NEW d \in Channels \ {c}, t[d] = n PROVE FALSE
      OBVIOUS
    <3>2. ChannelOf(s) = c /\ ChannelOf(s) = d
      BY <2>1, <2>4, <2>5, <3>1
    <3> QED
      BY <3>1, <3>2
  <2>12. IsFiniteSet(Listed(t2))
    <3>1. Listed(t2) \subseteq Listed(t)
      BY <2>1, <2>5, <2>10 DEF Listed
    <3> QED
      BY <3>1, FS_Subset DEF Books
  <2>13. Books(l2, t2)
    <3>1. ASSUME NEW m \in DOMAIN l2 PROVE IsInjective(l2[m]) /\ (l2[m] # <<>> => \E d \in Channels : t2[d] = m)
      <4>1. CASE m = n
        BY <2>7, <2>8, <2>10, <4>1
      <4>2. CASE m # n
        <5>1. l2[m] = l[m] /\ m \in DOMAIN l
          BY <2>8, <4>2
        <5>2. ASSUME l[m] # <<>> PROVE \E d \in Channels : t2[d] = m
          <6>1. PICK d \in Channels : t[d] = m
            BY <2>4, <5>1, <5>2
          <6>2. d # c
            BY <2>1, <4>2, <6>1
          <6> QED
            BY <2>10, <6>1, <6>2
        <5> QED
          BY <2>4, <5>1, <5>2
      <4> QED
        BY <4>1, <4>2
    <3>2. ASSUME NEW d \in Listed(t2)
          PROVE  t2[d] \in DOMAIN l2 /\ l2[t2[d]] # <<>> /\ \A x \in Range(l2[t2[d]]) : ChannelOf(x) = d
      <4>1. d \in Channels /\ t2[d] # 0
        BY DEF Listed
      <4>2. CASE d = c
        <5>1. t2[d] = n /\ left # <<>>
          BY <2>10, <4>1, <4>2
        <5>2. \A x \in Range(l[n]) : ChannelOf(x) = d
          BY <2>1, <2>4, <2>5, <4>2
        <5> QED
          BY <2>5, <2>7, <2>8, <5>1, <5>2
      <4>3. CASE d # c
        <5>1. t2[d] = t[d] /\ t[d] # n
          BY <2>10, <2>11, <4>1, <4>3
        <5>2. t[d] \in DOMAIN l /\ l2[t[d]] = l[t[d]]
          BY <2>4, <2>8, <4>1, <5>1
        <5> QED
          BY <2>4, <2>8, <4>1, <5>1, <5>2
      <4> QED
        BY <4>2, <4>3
    <3> QED
      BY <2>9, <2>10, <2>12, <3>1, <3>2 DEF Books
  <2>14. Thins(l, t, l2, t2)
    <3>1. ASSUME NEW m \in DOMAIN l PROVE Later(l[m], l2[m])
      <4>1. CASE m = n
        BY <2>6, <2>8, <4>1
      <4>2. CASE m # n
        <5>1. l2[m] = l[m] /\ Later(l[m], l[m])
          BY <2>4, <2>8, <4>2, LaterSelf
        <5> QED
          BY <5>1
      <4> QED
        BY <4>1, <4>2
    <3>2. \A d \in Channels : t2[d] = t[d] \/ (t[d] # 0 /\ t2[d] = 0 /\ l2[t[d]] = <<>>)
      BY <2>1, <2>5, <2>8, <2>10
    <3> QED
      BY <2>9, <3>1, <3>2 DEF Thins
  <2>15. Gone(s, c, l2, t2)
    BY <2>5, <2>6, <2>8, <2>10 DEF Gone
  <2> QED
    BY <1>1, <1>6, <2>3, <2>13, <2>14, <2>15
<1> QED
  BY <1>4, <1>5, <1>6

(* disconnect of several, one after the other.                             *)
UnlistsTo(f, t, c, ss) ==
  /\ f[0] = t
  /\ \A k \in 1..Len(ss) : f[k] = Unlisted(f[k - 1], c, ss[k])

LEMMA UnlistedInTurn ==
  ASSUME NEW ss, ss \in Seq(Sockets), NEW c, NEW t
  PROVE  \E f : UnlistsTo(f, t, c, ss) /\ UnlistedAll(t, c, ss) = f[Len(ss)]
<1> DEFINE Is(n, h) == h = [s \in SUBSET (1..n) |->
                              IF s = {} THEN t ELSE Unlisted(h[s \ {Max(s)}], c, ss[Max(s)])]
           T == {n \in Nat : \E h : Is(n, h)}
<1>1. 0 \in T
  <2>1. SUBSET (1..0) = {{}}
    OBVIOUS
  <2>2. Is(0, [s \in {{}} |-> t])
    BY <2>1
  <2> QED
    BY <2>2
<1>2. ASSUME NEW n \in T PROVE n + 1 \in T
  <2>0. n \in Nat /\ n + 1 \in 1..(n + 1) /\ 1..n \subseteq 1..(n + 1) /\ n + 1 \notin 1..n
    BY DEF T
  <2>1. PICK h : Is(n, h)
    OBVIOUS
  <2> DEFINE g == [s \in SUBSET (1..(n + 1)) |->
                     IF n + 1 \in s THEN Unlisted(h[s \ {n + 1}], c, ss[n + 1]) ELSE h[s]]
  <2>2. ASSUME NEW s \in SUBSET (1..(n + 1))
        PROVE  g[s] = IF s = {} THEN t ELSE Unlisted(g[s \ {Max(s)}], c, ss[Max(s)])
    <3>1. CASE n + 1 \in s
      <4>0. \A y \in s : y \in Int /\ y <= n + 1
        BY <2>0
      <4>1. Max(s) = n + 1
        BY <2>0, <3>1, <4>0, MaxIs
      <4>2. g[s \ {n + 1}] = h[s \ {n + 1}]
        BY <2>0
      <4>3. g[s] = Unlisted(h[s \ {n + 1}], c, ss[n + 1])
        BY <3>1
      <4> HIDE DEF g
      <4> QED
        BY <3>1, <4>1, <4>2, <4>3
    <3>2. CASE n + 1 \notin s /\ s # {}
      <4>1. s \in SUBSET (1..n)
        BY <2>0, <3>2
      <4>2. Max(s) \in s
        BY <2>0, <3>2, <4>1, MaxUpTo
      <4>3. g[s] = h[s] /\ g[s \ {Max(s)}] = h[s \ {Max(s)}]
        BY <2>0, <3>2
      <4>4. h[s] = Unlisted(h[s \ {Max(s)}], c, ss[Max(s)])
        BY <2>1, <3>2, <4>1
      <4> HIDE DEF g
      <4> QED
        BY <3>2, <4>3, <4>4
    <3>3. CASE s = {}
      <4>1. g[s] = h[s] /\ h[s] = t
        BY <2>0, <2>1, <3>3
      <4> HIDE DEF g
      <4> QED
        BY <3>3, <4>1
    <3> QED
      BY <3>1, <3>2, <3>3
  <2>3. g = [s \in SUBSET (1..(n + 1)) |-> g[s]]
    OBVIOUS
  <2> HIDE DEF g
  <2>4. Is(n + 1, g)
    BY <2>2, <2>3
  <2> HIDE DEF Is
  <2>5. n + 1 \in Nat /\ \E q : Is(n + 1, q)
    BY <2>0, <2>4
  <2> QED
    BY <2>5 DEF T
<1> HIDE DEF T
<1>3. T = Nat
  BY <1>1, <1>2, SetInduction DEF T
<1>4. Len(ss) \in Nat /\ DOMAIN ss = 1..Len(ss)
  OBVIOUS
<1> DEFINE it == CHOOSE h : Is(Len(ss), h)
<1>5. UnlistedAll(t, c, ss) = it[1..Len(ss)]
  BY <1>4 DEF UnlistedAll, FoldLeft, MapThenFoldSet
<1>6. Is(Len(ss), it)
  BY <1>3, <1>4 DEF T
<1> HIDE DEF it
<1> DEFINE f == [k \in 0..Len(ss) |-> it[1..k]]
<1>7. f[0] = t
  <2>1. 1..0 = {} /\ 1..0 \in SUBSET (1..Len(ss))
    OBVIOUS
  <2>2. it[1..0] = t
    BY <1>6, <2>1
  <2> QED
    BY <1>4, <2>2
<1>8. ASSUME NEW k \in 1..Len(ss) PROVE f[k] = Unlisted(f[k - 1], c, ss[k])
  <2>1. 1..k \in SUBSET (1..Len(ss)) /\ k \in 1..k /\ k \in Int /\ k - 1 \in 0..Len(ss) /\ k \in 0..Len(ss)
    BY <1>4
  <2>2. Max(1..k) = k
    <3>1. \A y \in 1..k : y \in Int /\ y <= k
      BY <2>1
    <3> QED
      BY <2>1, <3>1, MaxIs
  <2>3. (1..k) \ {k} = 1..(k - 1)
    BY <2>1
  <2>4. it[1..k] = Unlisted(it[(1..k) \ {Max(1..k)}], c, ss[Max(1..k)])
    BY <1>6, <2>1
  <2>5. f[k] = it[1..k] /\ f[k - 1] = it[1..(k - 1)]
    BY <2>1
  <2> HIDE DEF f
  <2> QED
    BY <2>2, <2>3, <2>4, <2>5
<1>9. f[Len(ss)] = it[1..Len(ss)]
  BY <1>4
<1>10. UnlistsTo(f, t, c, ss)
  <2> HIDE DEF f
  <2> QED
    BY <1>7, <1>8 DEF UnlistsTo
<1> HIDE DEF f
<1> QED
  BY <1>5, <1>9, <1>10

LEMMA AllUnlisted ==
  ASSUME NEW l, NEW t, Books(l, t), NEW c \in Channels, NEW ss, ss \in Seq(Sockets)
  PROVE  \E l2, t2 : \E r2 \in BOOLEAN :
           /\ UnlistedAll([lists |-> l, table |-> t, raised |-> FALSE], c, ss) = [lists |-> l2, table |-> t2, raised |-> r2]
           /\ Books(l2, t2) /\ Thins(l, t, l2, t2) /\ (~r2 => \A s \in Range(ss) : Gone(s, c, l2, t2))
<1>1. PICK base : base = [lists |-> l, table |-> t, raised |-> FALSE]
  OBVIOUS
<1>2. PICK f : UnlistsTo(f, base, c, ss) /\ UnlistedAll(base, c, ss) = f[Len(ss)]
  BY UnlistedInTurn
<1>3. Len(ss) \in Nat /\ DOMAIN ss = 1..Len(ss)
  OBVIOUS
<1> DEFINE Good(k) == \E l2, t2 : \E r2 \in BOOLEAN :
                        /\ f[k] = [lists |-> l2, table |-> t2, raised |-> r2]
                        /\ Books(l2, t2) /\ Thins(l, t, l2, t2) /\ (~r2 => \A i \in 1..k : Gone(ss[i], c, l2, t2))
           T == {k \in Nat : k <= Len(ss) => Good(k)}
<1>4. T \in SUBSET Nat /\ 0 \in T
  <2>1. Thins(l, t, l, t)
    BY ThinsSelf
  <2>2. f[0] = [lists |-> l, table |-> t, raised |-> FALSE]
    BY <1>1, <1>2 DEF UnlistsTo
  <2>3. \A i \in 1..0 : Gone(ss[i], c, l, t)
    OBVIOUS
  <2>4. Good(0)
    BY <2>1, <2>2, <2>3
  <2> HIDE DEF Good
  <2> QED
    BY <2>4
<1> HIDE DEF Good
<1>5. ASSUME NEW k \in T PROVE k + 1 \in T
  <2>1. SUFFICES ASSUME k + 1 <= Len(ss) PROVE Good(k + 1)
    OBVIOUS
  <2>2. k \in Nat /\ k + 1 \in 1..Len(ss) /\ (k + 1) - 1 = k /\ k <= Len(ss)
    BY <1>3, <2>1
  <2>3. Good(k)
    BY <2>2
  <2>4. PICK l2, t2 : \E r2 \in BOOLEAN :
                        /\ f[k] = [lists |-> l2, table |-> t2, raised |-> r2]
                        /\ Books(l2, t2) /\ Thins(l, t, l2, t2) /\ (~r2 => \A i \in 1..k : Gone(ss[i], c, l2, t2))
    BY <2>3 DEF Good
  <2>5. PICK r2 \in BOOLEAN : /\ f[k] = [lists |-> l2, table |-> t2, raised |-> r2]
                              /\ Books(l2, t2) /\ Thins(l, t, l2, t2) /\ (~r2 => \A i \in 1..k : Gone(ss[i], c, l2, t2))
    BY <2>4
  <2>6. f[k + 1] = Unlisted(f[k], c, ss[k + 1])
    BY <1>2, <2>2 DEF UnlistsTo
  <2>7. PICK l3, t3 : \E r3 \in BOOLEAN :
           /\ Unlisted([lists |-> l2, table |-> t2, raised |-> r2], c, ss[k + 1]) = [lists |-> l3, table |-> t3, raised |-> r3]
           /\ Books(l3, t3) /\ Thins(l2, t2, l3, t3) /\ (r2 => r3) /\ (~r2 => Gone(ss[k + 1], c, l3, t3))
    <3>1. Books(l2, t2)
      BY <2>5
    <3>2. PICK x : x = ss[k + 1]
      OBVIOUS
    <3>3. \E l3, t3 : \E r3 \in BOOLEAN :
           /\ Unlisted([lists |-> l2, table |-> t2, raised |-> r2], c, x) = [lists |-> l3, table |-> t3, raised |-> r3]
           /\ Books(l3, t3) /\ Thins(l2, t2, l3, t3) /\ (r2 => r3) /\ (~r2 => Gone(x, c, l3, t3))
      BY <3>1, UnlistedThins
    <3> QED
      BY <3>2, <3>3
  <2>8. PICK r3 \in BOOLEAN :
           /\ Unlisted([lists |-> l2, table |-> t2, raised |-> r2], c, ss[k + 1]) = [lists |-> l3, table |-> t3, raised |-> r3]
           /\ Books(l3, t3) /\ Thins(l2, t2, l3, t3) /\ (r2 => r3) /\ (~r2 => Gone(ss[k + 1], c, l3, t3))
    BY <2>7
  <2>9. Thins(l, t, l3, t3)
    BY <2>5, <2>8, ThinsStill
  <2>10. ASSUME ~r3, NEW i \in 1..(k + 1) PROVE Gone(ss[i], c, l3, t3)
    <3>1. CASE i = k + 1
      BY <2>8, <2>10, <3>1
    <3>2. CASE i # k + 1
      <4>1. i \in 1..k
        BY <2>2, <3>2
      <4>2. Gone(ss[i], c, l2, t2)
        BY <2>5, <2>8, <2>10, <4>1
      <4> QED
        BY <2>5, <2>8, <4>2, GoneStays
    <3> QED
      BY <3>1, <3>2
  <2>11. f[k + 1] = [lists |-> l3, table |-> t3, raised |-> r3]
    BY <2>5, <2>6, <2>8
  <2> QED
    BY <2>8, <2>9, <2>10, <2>11 DEF Good
<1>6. T = Nat
  <2> HIDE DEF T
  <2> QED
    BY <1>4, <1>5, SetInduction
<1>7. Good(Len(ss))
  BY <1>3, <1>6
<1>8. \A s \in Range(ss) : \E i \in 1..Len(ss) : s = ss[i]
  BY <1>3 DEF Range
<1> QED
  BY <1>1, <1>2, <1>7, <1>8 DEF Good

-----------------------------------------------------------------------------
(* What lies ahead in a list, and how much of it goes with its members.    *)
LEMMA AheadCount ==
  ASSUME NEW list \in Seq(Sockets), IsInjective(list), NEW a \in Nat, NEW A,
         A = {list[p] : p \in {q \in DOMAIN list : q > a}}
  PROVE  /\ IsFiniteSet(A) /\ Cardinality(A) \in Nat
         /\ Cardinality(A) = (IF a < Len(list) THEN Len(list) - a ELSE 0)
<1>1. PICK n, S : n = Len(list) /\ S = (a + 1)..n
  OBVIOUS
<1>2. DOMAIN list = 1..n /\ n \in Nat /\ \A q \in 1..n, r \in 1..n : list[q] = list[r] => q = r
  BY <1>1 DEF IsInjective
<1>3. \A q : q \in S <=> (q \in 1..n /\ q > a)
  BY <1>1, <1>2
<1>4. A = {list[p] : p \in S}
  <2>1. {q \in DOMAIN list : q > a} = S
    BY <1>2, <1>3
  <2> QED
    BY <2>1
<1>5. PICK f : f = [p \in S |-> list[p]]
  OBVIOUS
<1>6. f \in Surjection(S, A)
  BY <1>4, <1>5 DEF Surjection
<1>7. f \in Injection(S, A)
  BY <1>2, <1>3, <1>4, <1>5 DEF Injection, IsInjective
<1>8. IsFiniteSet(S) /\ Cardinality(S) = (IF a < n THEN n - a ELSE 0) /\ Cardinality(S) \in Nat
  <2>1. a + 1 \in Int /\ n \in Int
    BY <1>2
  <2>2. IsFiniteSet(S) /\ Cardinality(S) = IF a + 1 > n THEN 0 ELSE n - (a + 1) + 1
    BY <1>1, <2>1, FS_Interval
  <2> QED
    BY <1>2, <2>2
<1>9. IsFiniteSet(A) /\ Cardinality(A) = Cardinality(S)
  BY <1>6, <1>7, <1>8, FS_Surjection
<1> QED
  BY <1>1, <1>8, <1>9

LEMMA AheadLess ==
  ASSUME NEW list \in Seq(Sockets), IsInjective(list), NEW list2 \in Seq(Sockets), IsInjective(list2),
         Len(list2) <= Len(list), NEW a \in Nat, NEW A, NEW A2,
         A = {list[p] : p \in {q \in DOMAIN list : q > a}}, A2 = {list2[p] : p \in {q \in DOMAIN list2 : q > a}},
         A2 \subseteq A
  PROVE  /\ IsFiniteSet(A \ A2) /\ Cardinality(A \ A2) \in Nat
         /\ Cardinality(A \ A2) <= Len(list) - Len(list2)
<1>1. /\ IsFiniteSet(A) /\ Cardinality(A) \in Nat
      /\ Cardinality(A) = (IF a < Len(list) THEN Len(list) - a ELSE 0)
  BY AheadCount
<1>2. /\ Cardinality(A2) \in Nat
      /\ Cardinality(A2) = (IF a < Len(list2) THEN Len(list2) - a ELSE 0)
  BY AheadCount
<1>3. A \cap A2 = A2
  OBVIOUS
<1>4. IsFiniteSet(A \ A2) /\ Cardinality(A \ A2) = Cardinality(A) - Cardinality(A2)
  <2>1. IsFiniteSet(A \ A2) /\ Cardinality(A \ A2) = Cardinality(A) - Cardinality(A \cap A2)
    BY <1>1, FS_Difference
  <2> QED
    BY <1>3, <2>1
<1>5. Cardinality(A \ A2) \in Nat
  BY <1>4, FS_CardinalityType
<1>6. PICK m, n : m = Len(list) /\ n = Len(list2) /\ m \in Nat /\ n \in Nat /\ n <= m
  OBVIOUS
<1>7. PICK x, y : x = Cardinality(A) /\ y = Cardinality(A2)
  OBVIOUS
<1>8. x = (IF a < m THEN m - a ELSE 0) /\ y = (IF a < n THEN n - a ELSE 0)
  BY <1>1, <1>2, <1>6, <1>7
<1>9. x - y <= m - n
  BY <1>6, <1>8
<1> QED
  BY <1>4, <1>5, <1>6, <1>7, <1>9

(* The list loses as many members as the walk misses more.                 *)
LEMMA MissesMore ==
  ASSUME NEW due, IsFiniteSet(due), NEW old, NEW new, old \subseteq due, new \subseteq due,
         NEW more, IsFiniteSet(more), new \subseteq old \cup more, NEW n \in Nat, NEW k \in Nat,
         Cardinality(old) <= n, Cardinality(more) <= k
  PROVE  Cardinality(new) <= n + k
<1>1. IsFiniteSet(old) /\ IsFiniteSet(old \cup more)
  BY FS_Subset, FS_Union
<1>2. /\ Cardinality(old) \in Nat /\ Cardinality(more) \in Nat /\ Cardinality(old \cup more) \in Nat
      /\ Cardinality(old \cap more) \in Nat /\ Cardinality(new) \in Nat
  <2>1. IsFiniteSet(old \cap more) /\ IsFiniteSet(new)
    BY <1>1, FS_Intersection, FS_Subset
  <2> QED
    BY <1>1, <2>1, FS_CardinalityType
<1>3. Cardinality(old \cup more) = Cardinality(old) + Cardinality(more) - Cardinality(old \cap more)
  BY <1>1, FS_Union
<1>4. Cardinality(new) <= Cardinality(old \cup more)
  BY <1>1, FS_Subset
<1> QED
  BY <1>2, <1>3, <1>4

-----------------------------------------------------------------------------
(* A walk whose list others thin out.                                      *)
OnceRun(rec, rec2) == \A s \in Sockets : rec[s] # "none" => rec2[s] # "none"

Alike(w, w2) ==
  DOMAIN w2 = WalkFields /\ (\A x \in WalkFields \ {"left"} : w2[x] = w[x]) /\ w2.left \in Nat

LEMMA AlikeTyped ==
  ASSUME NEW w, NEW w2, NEW rec, NEW rec2, WalkTyped(w, rec), Alike(w, w2), OnceRun(rec, rec2)
  PROVE  /\ WalkTyped(w2, rec2)
         /\ w2.kind = w.kind /\ w2.channel = w.channel /\ w2.list = w.list /\ w2.at = w.at /\ w2.failed = w.failed
         /\ w2.tried = w.tried /\ w2.to = w.to /\ w2.due = w.due /\ w2.state = w.state
<1>1. /\ w2.kind = w.kind /\ w2.rest = w.rest /\ w2.channel = w.channel /\ w2.list = w.list /\ w2.at = w.at
      /\ w2.failed = w.failed /\ w2.tried = w.tried /\ w2.to = w.to /\ w2.due = w.due /\ w2.state = w.state
  BY DEF Alike, WalkFields
<1>2. DOMAIN w2 = WalkFields /\ w2.left \in Nat
  BY DEF Alike
<1>3. \A s \in Range(w.tried) : rec2[s] # "none" /\ ChannelOf(s) = w.channel
  <2>1. w.tried \in Seq(Sockets)
    BY DEF WalkTyped
  <2>2. Range(w.tried) \subseteq Sockets
    BY <2>1 DEF Range
  <2> QED
    BY <2>2 DEF WalkTyped, OnceRun
<1> QED
  BY <1>1, <1>2, <1>3 DEF WalkTyped

ThinnedTo(w, l, l2, w2) ==
  w2 = IF w.state # "sending" THEN w ELSE [w EXCEPT !.left = @ + Len(l[w.list]) - Len(l2[w.list])]

LEMMA WalkThins ==
  ASSUME NEW l, NEW t, Books(l, t), NEW l2, NEW t2, Thins(l, t, l2, t2), NEW rec, NEW rec2, OnceRun(rec, rec2),
         NEW w, WalkOK(w, l, t, rec), NEW w2, ThinnedTo(w, l, l2, w2)
  PROVE  WalkOK(w2, l2, t2, rec2)
<1>1. WalkTyped(w, rec) /\ w.list \in DOMAIN l /\ DOMAIN w = WalkFields
  BY DEF WalkOK, WalkTyped
<1>5. DOMAIN l2 = DOMAIN l /\ Later(l[w.list], l2[w.list]) /\ l[w.list] \in Seq(Sockets)
  <2>1. DOMAIN l = 1..Len(l) /\ l[w.list] \in Seq(Sockets)
    BY <1>1, BooksAre
  <2>2. Later(l[w.list], l2[w.list])
    BY <1>1 DEF Thins
  <2>3. DOMAIN l2 = 1..Len(l2)
    BY DEF Thins, Books
  <2> QED
    BY <2>1, <2>2, <2>3 DEF Thins
<1>8. PICK i, j : i = Len(l[w.list]) /\ j = Len(l2[w.list]) /\ i \in Nat /\ j \in Nat /\ j <= i
  BY <1>5 DEF Later
<1>2. /\ DOMAIN w2 = WalkFields /\ w2.left \in Nat /\ (\A x \in WalkFields \ {"left"} : w2[x] = w[x])
      /\ w2.left = (IF w.state # "sending" THEN w.left ELSE w.left + (i - j))
  <2>1. CASE w.state # "sending"
    BY <1>1, <2>1 DEF WalkTyped, ThinnedTo
  <2>2. CASE w.state = "sending"
    <3>1. PICK left : left = w.left + i - j
      OBVIOUS
    <3>4. PICK old : old = w.left /\ old \in Nat
      BY <1>1 DEF WalkTyped
    <3>5. i \in Nat /\ j \in Nat /\ j <= i
      BY <1>8
    <3>6. left = old + i - j
      BY <3>1, <3>4
    <3>7. left \in Nat /\ left = old + (i - j)
      BY <3>4, <3>5, <3>6
    <3>2. left \in Nat /\ left = w.left + (i - j)
      BY <3>4, <3>7
    <3>3. w2 = [w EXCEPT !.left = left]
      BY <1>8, <2>2, <3>1 DEF ThinnedTo
    <3> QED
      BY <1>1, <2>2, <3>2, <3>3 DEF WalkFields
  <2> QED
    BY <2>1, <2>2
<1>3. Alike(w, w2)
  BY <1>2 DEF Alike
<1>4. /\ WalkTyped(w2, rec2)
      /\ w2.kind = w.kind /\ w2.channel = w.channel /\ w2.list = w.list /\ w2.at = w.at /\ w2.failed = w.failed
      /\ w2.tried = w.tried /\ w2.to = w.to /\ w2.due = w.due /\ w2.state = w.state
  BY <1>1, <1>3, AlikeTyped
<1>6. ASSUME w.state = "sending" PROVE WalkSends(w2, l2, t2, rec2)
  <2>1. WalkSends(w, l, t, rec)
    BY <1>6 DEF WalkOK
  <2>2. /\ w.at \in Nat /\ (l[w.list] = <<>> \/ t[w.channel] = w.list)
        /\ w.to \notin Range(w.tried) /\ rec[w.to] # "none" /\ ChannelOf(w.to) = w.channel
        /\ (\A s \in Ahead(w, l) : s \notin Range(w.tried) /\ s # w.to)
        /\ Cardinality(Missed(w, l)) <= w.left
    BY <2>1 DEF WalkSends
  <2>3. Ahead(w2, l2) \subseteq Ahead(w, l)
    <3>1. SUFFICES ASSUME NEW p \in DOMAIN l2[w.list], p > w.at PROVE l2[w.list][p] \in Ahead(w, l)
      BY <1>4 DEF Ahead
    <3>2. PICK q \in DOMAIN l[w.list] : q >= p /\ l2[w.list][p] = l[w.list][q]
      BY <1>5 DEF Later
    <3>3. p \in Nat /\ q \in Nat
      BY <1>5 DEF Later
    <3>4. q > w.at
      BY <2>2, <3>1, <3>2, <3>3
    <3> QED
      BY <3>2, <3>4 DEF Ahead
  <2>4. l2[w.list] = <<>> \/ t2[w.channel] = w.list
    <3>1. CASE l[w.list] = <<>>
      <4>1. l2[w.list] \in Seq(Sockets) /\ Len(l2[w.list]) <= 0
        BY <1>5, <3>1 DEF Later
      <4> QED
        BY <4>1
    <3>2. CASE t[w.channel] = w.list
      <4>1. w.channel \in Channels
        BY <1>1, SocketsAssumption DEF WalkTyped
      <4> QED
        BY <3>2, <4>1 DEF Thins
    <3> QED
      BY <2>2, <3>1, <3>2
  <2>5. rec2[w.to] # "none"
    <3>1. w.to \in Sockets
      BY <1>1 DEF WalkTyped
    <3> QED
      BY <2>2, <3>1 DEF OnceRun
  <2>6. Cardinality(Missed(w2, l2)) <= w2.left
    <3>1. PICK A, A2, a : A = Ahead(w, l) /\ A2 = Ahead(w2, l2) /\ a = w.at
      OBVIOUS
    <3>2. /\ A = {l[w.list][p] : p \in {q \in DOMAIN l[w.list] : q > a}}
          /\ A2 = {l2[w.list][p] : p \in {q \in DOMAIN l2[w.list] : q > a}} /\ A2 \subseteq A /\ a \in Nat
      BY <1>4, <2>2, <2>3, <3>1 DEF Ahead
    <3>3. l2[w.list] \in Seq(Sockets) /\ IsInjective(l2[w.list]) /\ Len(l2[w.list]) <= Len(l[w.list])
      BY <1>5 DEF Later
    <3>4. IsInjective(l[w.list])
      BY <1>1, BooksAre
    <3>5. IsFiniteSet(A \ A2) /\ Cardinality(A \ A2) <= i - j
      <4>1. IsFiniteSet(A \ A2) /\ Cardinality(A \ A2) <= Len(l[w.list]) - Len(l2[w.list])
        BY <1>5, <3>2, <3>3, <3>4, AheadLess
      <4> QED
        BY <1>8, <4>1
    <3>6. PICK old, new, due : old = Missed(w, l) /\ new = Missed(w2, l2) /\ due = w.due
      OBVIOUS
    <3>7. old \subseteq due /\ new \subseteq due /\ new \subseteq old \cup (A \ A2)
      BY <1>4, <3>1, <3>6 DEF Missed
    <3>8. IsFiniteSet(due) /\ w.left \in Nat /\ i - j \in Nat /\ Cardinality(old) <= w.left
      BY <1>1, <1>8, <2>2, <3>6 DEF WalkTyped
    <3>9. Cardinality(new) <= w.left + (i - j)
      BY <3>5, <3>7, <3>8, MissesMore
    <3> QED
      BY <1>2, <1>6, <3>6, <3>9
  <2> QED
    BY <1>1, <1>4, <1>5, <2>2, <2>3, <2>4, <2>5, <2>6 DEF WalkSends
<1>7. ASSUME w.state = "over" PROVE WalkOver(w2, l2, t2)
  <2>1. WalkOver(w, l, t)
    BY <1>7 DEF WalkOK
  <2>2. ASSUME w.kind = "broadcast", NEW c \in Listed(t2) PROVE Range(w.failed) \cap Range(l2[t2[c]]) = {}
    <3>1. c \in Channels /\ t2[c] # 0
      BY DEF Listed
    <3>2. t2[c] = t[c] /\ c \in Listed(t)
      BY <3>1 DEF Thins, Listed
    <3>3. t[c] \in DOMAIN l /\ l[t[c]] \in Seq(Sockets)
      BY <3>1, <3>2, BooksAre
    <3>4. Later(l[t[c]], l2[t[c]])
      BY <3>3 DEF Thins
    <3>5. Range(l2[t[c]]) \subseteq Range(l[t[c]])
      BY <3>3, <3>4, LaterKnown
    <3>6. Range(w.failed) \cap Range(l[t[c]]) = {}
      BY <2>1, <2>2, <3>2 DEF WalkOver
    <3> QED
      BY <3>2, <3>5, <3>6
  <2>3. Cardinality(w.due \ Range(w.tried)) <= w2.left
    BY <1>2, <1>7, <2>1 DEF WalkOver
  <2> QED
    BY <1>4, <2>2, <2>3 DEF WalkOver
<1> QED
  BY <1>1, <1>4, <1>5, <1>6, <1>7 DEF WalkOK

(* The lists stay, and so does the walk.                                   *)
LEMMA WalkStays ==
  ASSUME NEW l, NEW t, NEW rec, NEW rec2, OnceRun(rec, rec2), NEW w, WalkOK(w, l, t, rec)
  PROVE  WalkOK(w, l, t, rec2)
<1>1. WalkTyped(w, rec) /\ DOMAIN w = WalkFields /\ w.left \in Nat /\ w.to \in Sockets
  BY DEF WalkOK, WalkTyped
<1>2. Alike(w, w)
  BY <1>1 DEF Alike
<1>3. WalkTyped(w, rec2)
  BY <1>1, <1>2, AlikeTyped
<1>4. w.state = "sending" => WalkSends(w, l, t, rec2)
  BY <1>1 DEF WalkOK, WalkSends, OnceRun
<1> QED
  BY <1>3, <1>4 DEF WalkOK

LEMMA WalkBegins ==
  ASSUME SocketsInv, NEW kind, NEW owner, NEW c \in Listed(table), NEW rest \in Seq(Channels),
         kind = "broadcast" => rest = <<>>
  PROVE  WalkOK(Walk(kind, owner, c, rest), socketLists, table, receiver)
<1>1. PICK w, l, t : w = Walk(kind, owner, c, rest) /\ l = socketLists /\ t = table
  OBVIOUS
<1>2. PICK list : list = l[t[c]]
  OBVIOUS
<1>3. c \in Channels /\ t[c] # 0 /\ Books(l, t) /\ AllRun(l, receiver)
  BY <1>1 DEF Listed, SocketsInv
<1>4. /\ t[c] \in DOMAIN l /\ list # <<>> /\ list \in Seq(Sockets) /\ IsInjective(list)
      /\ \A s \in Range(list) : ChannelOf(s) = c
  BY <1>2, <1>3, BooksAre
<1>5. /\ w.kind = kind /\ w.rest = rest /\ w.channel = c /\ w.list = t[c] /\ w.at = 1 /\ w.failed = <<>>
      /\ w.tried = <<>> /\ w.to = Head(list) /\ w.due = Range(list) /\ w.left = 0 /\ w.state = "sending"
      /\ DOMAIN w = WalkFields
  BY <1>1, <1>2 DEF Walk, WalkFields
<1>6. Head(list) = list[1] /\ Head(list) \in Sockets /\ 1 \in DOMAIN list /\ DOMAIN list = 1..Len(list) /\ Len(list) \in Nat
      /\ Head(list) \in Range(list)
  BY <1>4 DEF Range
<1>7. receiver[Head(list)] # "none" /\ ChannelOf(Head(list)) = c
  BY <1>2, <1>3, <1>4, <1>6 DEF AllRun
<1>8. Range(<<>>) = {} /\ <<>> \in Seq(Sockets) /\ IsInjective(<<>>)
  BY DEF Range, IsInjective
<1>13. IsFiniteSet(Range(list))
  <2>1. PICK f, S : f = [p \in S |-> list[p]] /\ S = 1..Len(list)
    OBVIOUS
  <2>2. f \in Surjection(S, Range(list)) /\ IsFiniteSet(S)
    <3>1. f \in Surjection(S, Range(list))
      BY <1>6, <2>1 DEF Surjection, Range
    <3>2. 1 \in Int /\ Len(list) \in Int
      BY <1>6
    <3> QED
      BY <2>1, <3>1, <3>2, FS_Interval
  <2> QED
    BY <2>2, FS_Surjection
<1>9. WalkTyped(w, receiver)
  BY <1>5, <1>6, <1>7, <1>8, <1>13 DEF WalkTyped
<1>10. ASSUME NEW s \in Ahead(w, l) PROVE s # Head(list)
  <2>1. PICK p \in DOMAIN list : p > 1 /\ s = list[p]
    BY <1>2, <1>5 DEF Ahead
  <2> QED
    BY <1>4, <1>6, <2>1 DEF IsInjective
<1>11. Range(list) \subseteq {Head(list)} \cup Ahead(w, l)
  <2>1. SUFFICES ASSUME NEW p \in DOMAIN list, p # 1 PROVE list[p] \in Ahead(w, l)
    BY <1>6 DEF Range
  <2>2. p > 1
    BY <1>6, <2>1
  <2> QED
    BY <1>2, <1>5, <2>2 DEF Ahead
<1>14. Cardinality(Missed(w, l)) <= w.left
  <2>1. Missed(w, l) = {}
    BY <1>5, <1>11 DEF Missed
  <2>2. Cardinality({}) = 0
    BY FS_EmptySet
  <2> QED
    BY <1>5, <2>1, <2>2
<1>12. WalkSends(w, l, t, receiver)
  BY <1>4, <1>5, <1>7, <1>8, <1>10, <1>14 DEF WalkSends
<1> QED
  BY <1>1, <1>4, <1>5, <1>9, <1>12 DEF WalkOK

-----------------------------------------------------------------------------
LEMMA SocketsStart == SocketsInit => SocketsInv
<1>1. SUFFICES ASSUME SocketsInit PROVE SocketsInv
  OBVIOUS
<1>2. socketLists = <<>> /\ walks = <<>> /\ table = [c \in Channels |-> 0] /\ receiver = [s \in Sockets |-> "none"]
  BY <1>1 DEF SocketsInit
<1>3. <<>> \in Seq(Seq(Sockets)) /\ DOMAIN <<>> = {} /\ Len(<<>>) = 0 /\ 1..0 = {}
  OBVIOUS
<1>4. Listed(table) = {}
  BY <1>2 DEF Listed
<1>5. Books(socketLists, table)
  BY <1>2, <1>3, <1>4, FS_EmptySet DEF Books
<1>6. AllRun(socketLists, receiver)
  BY <1>2, <1>3 DEF AllRun
<1>7. \E W : walks \in Seq(W)
  BY <1>2, <1>3
<1> QED
  BY <1>2, <1>3, <1>5, <1>6, <1>7 DEF SocketsInv

(* A new socket joins at the end of a list, or begins one.                 *)
Joins(l, l2, s) ==
  \A n \in DOMAIN l : n \in DOMAIN l2 /\ (l2[n] = l[n] \/ (l[n] # <<>> /\ l2[n] = Append(l[n], s)))

LEMMA WalkJoined ==
  ASSUME NEW l, NEW t, Books(l, t), NEW l2, NEW t2, NEW s \in Sockets, Joins(l, l2, s),
         NEW rec, NEW rec2, OnceRun(rec, rec2), rec[s] = "none",
         \A c \in Channels : t2[c] = t[c] \/ (t[c] = 0 /\ l2[t2[c]] = <<s>>),
         NEW w, WalkOK(w, l, t, rec)
  PROVE  WalkOK(w, l2, t2, rec2)
<1>1. WalkTyped(w, rec) /\ w.list \in DOMAIN l /\ DOMAIN w = WalkFields /\ w.left \in Nat /\ w.to \in Sockets
  BY DEF WalkOK, WalkTyped
<1>2. WalkTyped(w, rec2)
  <2>1. Alike(w, w)
    BY <1>1 DEF Alike
  <2> QED
    BY <1>1, <2>1, AlikeTyped
<1>3. w.list \in DOMAIN l2
  BY <1>1 DEF Joins
<1>4. s \notin Range(w.tried)
  BY <1>1 DEF WalkTyped
<1>5. l[w.list] \in Seq(Sockets)
  BY <1>1, BooksAre
<1>6. ASSUME w.state = "sending" PROVE WalkSends(w, l2, t2, rec2)
  <2>1. /\ w.at \in Nat /\ (l[w.list] = <<>> \/ t[w.channel] = w.list)
        /\ w.to \notin Range(w.tried) /\ rec[w.to] # "none" /\ ChannelOf(w.to) = w.channel
        /\ (\A x \in Ahead(w, l) : x \notin Range(w.tried) /\ x # w.to)
        /\ Cardinality(Missed(w, l)) <= w.left
    BY <1>6 DEF WalkOK, WalkSends
  <2>2. Ahead(w, l) \subseteq Ahead(w, l2) /\ Ahead(w, l2) \subseteq Ahead(w, l) \cup {s}
    <3>1. CASE l2[w.list] = l[w.list]
      BY <3>1 DEF Ahead
    <3>2. CASE l2[w.list] = Append(l[w.list], s)
      <4>1. PICK a, b : a = l[w.list] /\ b = l2[w.list]
        OBVIOUS
      <4>2. /\ DOMAIN b = 1..(Len(a) + 1) /\ DOMAIN a = 1..Len(a) /\ Len(a) \in Nat
            /\ (\A i \in 1..Len(a) : b[i] = a[i]) /\ b[Len(a) + 1] = s
        BY <1>5, <3>2, <4>1, Appended
      <4>3. ASSUME NEW q \in DOMAIN a, q > w.at PROVE q \in DOMAIN b /\ b[q] = a[q]
        BY <4>2
      <4>4. ASSUME NEW q \in DOMAIN b, q > w.at PROVE (q \in DOMAIN a /\ b[q] = a[q]) \/ b[q] = s
        BY <4>2
      <4> QED
        BY <4>1, <4>3, <4>4 DEF Ahead
    <3> QED
      BY <1>1, <3>1, <3>2 DEF Joins
  <2>3. l2[w.list] = <<>> \/ t2[w.channel] = w.list
    <3>1. CASE l[w.list] = <<>>
      BY <1>1, <3>1 DEF Joins
    <3>2. CASE l[w.list] # <<>> /\ t[w.channel] = w.list
      <4>1. w.channel \in Channels
        BY <1>1, SocketsAssumption DEF WalkTyped
      <4>2. t[w.channel] # 0
        <5>1. DOMAIN l = 1..Len(l) /\ Len(l) \in Nat
          BY BooksAre
        <5> QED
          BY <1>1, <3>2, <5>1
      <4> QED
        BY <3>2, <4>1, <4>2
    <3> QED
      BY <2>1, <3>1, <3>2
  <2>4. s # w.to /\ rec2[w.to] # "none"
    BY <1>1, <2>1 DEF OnceRun
  <2>5. \A x \in Ahead(w, l2) : x \notin Range(w.tried) /\ x # w.to
    BY <1>4, <2>1, <2>2, <2>4
  <2>6. Cardinality(Missed(w, l2)) <= w.left
    <3>1. Missed(w, l2) \subseteq Missed(w, l) /\ Missed(w, l) \subseteq w.due
      BY <2>2 DEF Missed
    <3>2. IsFiniteSet(Missed(w, l)) /\ IsFiniteSet(Missed(w, l2))
      <4>1. IsFiniteSet(w.due)
        BY <1>1 DEF WalkTyped
      <4> QED
        BY <3>1, <4>1, FS_Subset
    <3>3. /\ Cardinality(Missed(w, l2)) <= Cardinality(Missed(w, l))
          /\ Cardinality(Missed(w, l)) \in Nat /\ Cardinality(Missed(w, l2)) \in Nat
      BY <3>1, <3>2, FS_Subset, FS_CardinalityType
    <3> QED
      BY <1>1, <2>1, <3>3
  <2> QED
    BY <1>3, <2>1, <2>3, <2>4, <2>5, <2>6 DEF WalkSends
<1>7. ASSUME w.state = "over" PROVE WalkOver(w, l2, t2)
  <2>1. WalkOver(w, l, t)
    BY <1>7 DEF WalkOK
  <2>2. ASSUME w.kind = "broadcast", NEW c \in Listed(t2) PROVE Range(w.failed) \cap Range(l2[t2[c]]) = {}
    <3>1. c \in Channels /\ t2[c] # 0 /\ s \notin Range(w.failed)
      BY <1>1, <1>4 DEF Listed, WalkTyped
    <3>2. CASE t2[c] = t[c]
      <4>1. c \in Listed(t) /\ t[c] \in DOMAIN l /\ l[t[c]] \in Seq(Sockets)
        BY <3>1, <3>2, BooksAre DEF Listed
      <4>2. Range(w.failed) \cap Range(l[t[c]]) = {}
        BY <2>1, <2>2, <4>1 DEF WalkOver
      <4>3. Range(l2[t[c]]) \subseteq Range(l[t[c]]) \cup {s}
        <5>1. l2[t[c]] = l[t[c]] \/ l2[t[c]] = Append(l[t[c]], s)
          BY <4>1 DEF Joins
        <5>2. Range(Append(l[t[c]], s)) = Range(l[t[c]]) \cup {s}
          BY <4>1, Appended
        <5> QED
          BY <5>1, <5>2
      <4> QED
        BY <3>1, <3>2, <4>2, <4>3
    <3>3. CASE l2[t2[c]] = <<s>>
      <4>1. Range(<<s>>) = {s}
        BY DEF Range
      <4> QED
        BY <3>1, <3>3, <4>1
    <3> QED
      BY <3>1, <3>2, <3>3
  <2> QED
    BY <2>1, <2>2 DEF WalkOver
<1> QED
  BY <1>2, <1>3, <1>6, <1>7 DEF WalkOK

LEMMA ConnectKeeps ==
  ASSUME SocketsInv, NEW s \in Sockets, Connect(s) PROVE SocketsInv'
<1>1. PICK l, t, l2, t2, c : l = socketLists /\ t = table /\ l2 = socketLists' /\ t2 = table' /\ c = ChannelOf(s)
  OBVIOUS
<1>2. /\ receiver[s] = "none" /\ receiver' = [receiver EXCEPT ![s] = "open"] /\ walks' = walks
      /\ IF t[c] = 0 THEN l2 = Append(l, <<s>>) /\ t2 = [t EXCEPT ![c] = Len(l2)]
                     ELSE l2 = [l EXCEPT ![t[c]] = Append(@, s)] /\ t2 = t
  BY <1>1 DEF Connect
<1>3. /\ Books(l, t) /\ AllRun(l, receiver) /\ receiver \in [Sockets -> {"none", "open", "answering", "over"}]
      /\ (\E W : walks \in Seq(W)) /\ (\A n \in DOMAIN walks : WalkOK(walks[n], l, t, receiver))
      /\ c \in Channels
  BY <1>1, SocketsAssumption DEF SocketsInv
<1>4. /\ l \in Seq(Seq(Sockets)) /\ DOMAIN l = 1..Len(l) /\ Len(l) \in Nat
      /\ \A n \in DOMAIN l : l[n] \in Seq(Sockets) /\ IsInjective(l[n])
      /\ t \in [Channels -> Nat]
      /\ \A d \in Channels : t[d] # 0 => /\ t[d] \in DOMAIN l /\ l[t[d]] # <<>>
                                         /\ \A x \in Range(l[t[d]]) : ChannelOf(x) = d
      /\ \A n \in DOMAIN l : l[n] # <<>> => \E d \in Channels : t[d] = n
  BY <1>3, BooksAre
<1>5. /\ receiver' \in [Sockets -> {"none", "open", "answering", "over"}] /\ OnceRun(receiver, receiver')
      /\ receiver'[s] = "open" /\ \A x \in Sockets \ {s} : receiver'[x] = receiver[x]
  BY <1>2, <1>3 DEF OnceRun
<1>6. \A n \in DOMAIN l : s \notin Range(l[n])
  BY <1>2, <1>3 DEF AllRun
<1>7. <<s>> \in Seq(Sockets) /\ <<s>> # <<>> /\ Range(<<s>>) = {s} /\ IsInjective(<<s>>)
  BY DEF Range, IsInjective
<1>8. Books(l2, t2) /\ AllRun(l2, receiver') /\ Joins(l, l2, s)
      /\ \A d \in Channels : t2[d] = t[d] \/ (t[d] = 0 /\ l2[t2[d]] = <<s>>)
  <2>1. CASE t[c] = 0
    <3>1. PICK m : m = Len(l) + 1
      OBVIOUS
    <3>2. /\ l2 \in Seq(Seq(Sockets)) /\ Len(l2) = m /\ DOMAIN l2 = 1..m
          /\ (\A n \in DOMAIN l : l2[n] = l[n]) /\ l2[m] = <<s>>
      <4>1. l2 = Append(l, <<s>>)
        BY <1>2, <2>1
      <4> QED
        BY <1>4, <1>7, <3>1, <4>1, Appended
    <3>3. m \in Nat /\ m # 0 /\ m \notin DOMAIN l /\ DOMAIN l2 = DOMAIN l \cup {m}
      BY <1>4, <3>1, <3>2
    <3>4. t2 \in [Channels -> Nat] /\ t2[c] = m /\ \A d \in Channels \ {c} : t2[d] = t[d]
      BY <1>2, <1>3, <1>4, <2>1, <3>2, <3>3
    <3>5. IsFiniteSet(Listed(t2))
      <4>1. Listed(t2) \subseteq Listed(t) \cup {c}
        BY <3>4 DEF Listed
      <4>2. IsFiniteSet(Listed(t) \cup {c})
        BY <1>3, FS_AddElement DEF Books
      <4> QED
        BY <4>1, <4>2, FS_Subset
    <3>6. ASSUME NEW n \in DOMAIN l2 PROVE IsInjective(l2[n]) /\ (l2[n] # <<>> => \E d \in Channels : t2[d] = n)
      <4>1. CASE n = m
        BY <1>3, <1>7, <3>2, <3>4, <4>1
      <4>2. CASE n # m
        <5>1. n \in DOMAIN l /\ l2[n] = l[n]
          BY <3>2, <3>3, <4>2
        <5>2. ASSUME l[n] # <<>> PROVE \E d \in Channels : t2[d] = n
          <6>1. PICK d \in Channels : t[d] = n
            BY <1>4, <5>1, <5>2
          <6>2. d # c
            BY <1>4, <2>1, <5>1, <6>1
          <6> QED
            BY <3>4, <6>1, <6>2
        <5> QED
          BY <1>4, <5>1, <5>2
      <4> QED
        BY <4>1, <4>2
    <3>7. ASSUME NEW d \in Listed(t2)
          PROVE  t2[d] \in DOMAIN l2 /\ l2[t2[d]] # <<>> /\ \A x \in Range(l2[t2[d]]) : ChannelOf(x) = d
      <4>1. d \in Channels /\ t2[d] # 0
        BY DEF Listed
      <4>2. CASE d = c
        BY <1>1, <1>7, <3>2, <3>3, <3>4, <4>2
      <4>3. CASE d # c
        BY <1>4, <3>2, <3>3, <3>4, <4>1, <4>3
      <4> QED
        BY <4>2, <4>3
    <3>8. AllRun(l2, receiver')
      <4>1. SUFFICES ASSUME NEW n \in DOMAIN l2, NEW x \in Range(l2[n]) PROVE receiver'[x] \in {"open", "answering"}
        BY DEF AllRun
      <4>2. CASE n = m
        BY <1>5, <1>7, <3>2, <4>1, <4>2
      <4>3. CASE n # m
        <5>1. n \in DOMAIN l /\ x \in Range(l[n])
          BY <3>2, <3>3, <4>1, <4>3
        <5>2. x \in Sockets /\ x # s
          BY <1>4, <1>6, <5>1 DEF Range
        <5> QED
          BY <1>3, <1>5, <5>1, <5>2 DEF AllRun
      <4> QED
        BY <4>2, <4>3
    <3>9. Joins(l, l2, s)
      BY <3>2, <3>3 DEF Joins
    <3> QED
      BY <2>1, <3>2, <3>4, <3>5, <3>6, <3>7, <3>8, <3>9 DEF Books
  <2>2. CASE t[c] # 0
    <3>1. PICK m, b : m = t[c] /\ b = Append(l[m], s)
      OBVIOUS
    <3>2. m \in DOMAIN l /\ l[m] # <<>> /\ l[m] \in Seq(Sockets) /\ IsInjective(l[m]) /\ s \notin Range(l[m])
          /\ \A x \in Range(l[m]) : ChannelOf(x) = c
      BY <1>3, <1>4, <1>6, <2>2, <3>1
    <3>3. b \in Seq(Sockets) /\ Len(b) = Len(l[m]) + 1 /\ Range(b) = Range(l[m]) \cup {s} /\ Len(l[m]) \in Nat
      BY <3>1, <3>2, Appended
    <3>4. IsInjective(b)
      BY <3>1, <3>2, AppendedOnce
    <3>5. l2 = [l EXCEPT ![m] = b] /\ t2 = t
      BY <1>2, <2>2, <3>1
    <3>6. /\ l2 \in Seq(Seq(Sockets)) /\ DOMAIN l2 = DOMAIN l /\ l2[m] = b /\ b # <<>>
          /\ \A n \in DOMAIN l \ {m} : l2[n] = l[n]
      <4>1. b # <<>>
        BY <3>3
      <4> QED
        BY <1>4, <3>2, <3>3, <3>5, <4>1
    <3>7. ASSUME NEW n \in DOMAIN l2 PROVE IsInjective(l2[n]) /\ (l2[n] # <<>> => \E d \in Channels : t2[d] = n)
      <4>1. CASE n = m
        BY <1>3, <3>1, <3>4, <3>5, <3>6, <4>1
      <4>2. CASE n # m
        BY <1>4, <3>5, <3>6, <4>2
      <4> QED
        BY <4>1, <4>2
    <3>8. ASSUME NEW d \in Listed(t2)
          PROVE  t2[d] \in DOMAIN l2 /\ l2[t2[d]] # <<>> /\ \A x \in Range(l2[t2[d]]) : ChannelOf(x) = d
      <4>1. d \in Channels /\ t2[d] # 0
        BY DEF Listed
      <4>2. CASE t[d] = m
        <5>1. \A x \in Range(l[m]) : ChannelOf(x) = d
          BY <1>4, <3>5, <4>1, <4>2
        <5>2. \E x : x \in Range(l[m])
          <6>1. l[m][1] \in Range(l[m])
            BY <3>2 DEF Range
          <6> QED
            BY <6>1
        <5>3. d = c
          BY <3>2, <5>1, <5>2
        <5> QED
          BY <1>1, <3>2, <3>3, <3>5, <3>6, <4>2, <5>1, <5>3
      <4>3. CASE t[d] # m
        BY <1>4, <3>5, <3>6, <4>1, <4>3
      <4> QED
        BY <4>2, <4>3
    <3>9. AllRun(l2, receiver')
      <4>1. SUFFICES ASSUME NEW n \in DOMAIN l2, NEW x \in Range(l2[n]) PROVE receiver'[x] \in {"open", "answering"}
        BY DEF AllRun
      <4>2. CASE x = s
        BY <1>5, <4>2
      <4>3. CASE x # s
        <5>1. n \in DOMAIN l /\ x \in Range(l[n])
          BY <3>3, <3>6, <4>1, <4>3
        <5>2. x \in Sockets
          BY <1>4, <5>1 DEF Range
        <5> QED
          BY <1>3, <1>5, <4>3, <5>1, <5>2 DEF AllRun
      <4> QED
        BY <4>2, <4>3
    <3>10. Joins(l, l2, s)
      BY <3>1, <3>2, <3>6 DEF Joins
    <3>11. Books(l2, t2)
      BY <1>3, <1>4, <3>5, <3>6, <3>7, <3>8 DEF Books
    <3> QED
      BY <3>5, <3>9, <3>10, <3>11
  <2> QED
    BY <2>1, <2>2
<1>9. ASSUME NEW n \in DOMAIN walks PROVE WalkOK(walks[n], l2, t2, receiver')
  BY <1>2, <1>3, <1>5, <1>8, WalkJoined
<1> QED
  BY <1>1, <1>2, <1>3, <1>5, <1>8, <1>9 DEF SocketsInv

LEMMA NoticedListed ==
  ASSUME NEW ws, NEW W, ws \in Seq(W), NEW u PROVE \E V : Noticed(ws, u) \in Seq(V)
<1>1. PICK v : v = Noticed(ws, u)
  OBVIOUS
<1>2. v = [n \in 1..Len(ws) |-> v[n]] /\ Len(ws) \in Nat
  BY <1>1 DEF Noticed
<1>3. PICK V : V = {v[n] : n \in 1..Len(ws)}
  OBVIOUS
<1>4. v \in [1..Len(ws) -> V]
  BY <1>2, <1>3
<1>5. v \in Seq(V)
  BY <1>2, <1>4
<1> QED
  BY <1>1, <1>5

LEMMA LeaveKeeps ==
  ASSUME SocketsInv, NEW s \in Sockets, Leave(s) PROVE SocketsInv'
<1>1. PICK l, t, c : l = socketLists /\ t = table /\ c = ChannelOf(s)
  OBVIOUS
<1>2. /\ Books(l, t) /\ AllRun(l, receiver) /\ receiver \in [Sockets -> {"none", "open", "answering", "over"}]
      /\ (\E W : walks \in Seq(W)) /\ (\A n \in DOMAIN walks : WalkOK(walks[n], l, t, receiver))
      /\ c \in Channels
  BY <1>1, SocketsAssumption DEF SocketsInv
<1>3. PICK l2, t2 : \E r2 \in BOOLEAN :
           /\ Unlisted([lists |-> l, table |-> t, raised |-> FALSE], c, s) = [lists |-> l2, table |-> t2, raised |-> r2]
           /\ Books(l2, t2) /\ Thins(l, t, l2, t2) /\ (FALSE => r2) /\ (~FALSE => Gone(s, c, l2, t2))
  BY <1>2, UnlistedThins
<1>4. PICK r2 \in BOOLEAN :
           /\ Unlisted([lists |-> l, table |-> t, raised |-> FALSE], c, s) = [lists |-> l2, table |-> t2, raised |-> r2]
           /\ Books(l2, t2) /\ Thins(l, t, l2, t2) /\ Gone(s, c, l2, t2)
  BY <1>3
<1>5. PICK u : u = [lists |-> l2, table |-> t2, raised |-> r2]
  OBVIOUS
<1>6. /\ receiver[s] = "open" /\ receiver' = [receiver EXCEPT ![s] = "over"]
      /\ socketLists' = l2 /\ table' = t2 /\ walks' = Noticed(walks, u)
  <2>1. Unlisted(Now, ChannelOf(s), s) = u
    BY <1>1, <1>4, <1>5 DEF Now
  <2>2. u.lists = l2 /\ u.table = t2
    BY <1>5
  <2> QED
    BY <2>1, <2>2 DEF Leave
<1>7. /\ receiver' \in [Sockets -> {"none", "open", "answering", "over"}] /\ OnceRun(receiver, receiver')
      /\ \A x \in Sockets \ {s} : receiver'[x] = receiver[x]
  BY <1>2, <1>6 DEF OnceRun
<1>8. /\ DOMAIN l = DOMAIN l2 /\ DOMAIN l = 1..Len(l) /\ (\A n \in DOMAIN l : l[n] \in Seq(Sockets))
  <2>1. DOMAIN l2 = 1..Len(l2) /\ DOMAIN l = 1..Len(l) /\ \A n \in DOMAIN l : l[n] \in Seq(Sockets)
    BY <1>2, <1>4, BooksAre
  <2> QED
    BY <1>4, <2>1 DEF Thins
<1>9. AllRun(l2, receiver')
  <2>1. SUFFICES ASSUME NEW n \in DOMAIN l2, NEW x \in Range(l2[n]) PROVE receiver'[x] \in {"open", "answering"}
    BY DEF AllRun
  <2>2. Later(l[n], l2[n]) /\ l[n] \in Seq(Sockets)
    BY <1>4, <1>8 DEF Thins
  <2>3. x \in Range(l[n])
    BY <2>1, <2>2, LaterKnown
  <2>4. x \in Sockets
    BY <2>2, <2>3 DEF Range
  <2>5. x # s
    <3>1. SUFFICES ASSUME x = s PROVE FALSE
      OBVIOUS
    <3>2. l2[n] # <<>>
      BY <2>1 DEF Range
    <3>3. /\ (\A d \in Channels : t2[d] # 0 => \A y \in Range(l2[t2[d]]) : ChannelOf(y) = d)
          /\ \A m \in DOMAIN l2 : l2[m] # <<>> => \E d \in Channels : t2[d] = m
      BY <1>4, BooksAre
    <3>4. PICK d \in Channels : t2[d] = n
      BY <3>2, <3>3
    <3>5. n # 0
      BY <1>8
    <3>6. d = c
      BY <1>1, <2>1, <3>1, <3>3, <3>4, <3>5
    <3> QED
      BY <1>4, <2>1, <3>1, <3>4, <3>5, <3>6 DEF Gone
  <2> QED
    BY <1>2, <1>7, <1>8, <2>3, <2>4, <2>5 DEF AllRun
<1>10. DOMAIN walks' = DOMAIN walks
  BY <1>6 DEF Noticed
<1>11. ASSUME NEW n \in DOMAIN walks PROVE WalkOK(walks'[n], l2, t2, receiver')
  <2>1. u.lists = l2
    BY <1>5
  <2>2. walks'[n] = IF walks[n].state # "sending" THEN walks[n]
                  ELSE [walks[n] EXCEPT !.left = @ + Len(l[walks[n].list]) - Len(l2[walks[n].list])]
    BY <1>1, <1>6, <2>1 DEF Noticed
  <2>3. PICK w, w2, rec : w = walks[n] /\ w2 = walks'[n] /\ rec = receiver /\ WalkOK(w, l, t, rec)
    BY <1>2
  <2>4. ThinnedTo(w, l, l2, w2)
    BY <2>2, <2>3 DEF ThinnedTo
  <2>5. OnceRun(rec, receiver')
    BY <1>7, <2>3
  <2>6. WalkOK(w2, l2, t2, receiver')
    BY <1>2, <1>4, <2>3, <2>4, <2>5, WalkThins
  <2> QED
    BY <2>3, <2>6
<1>12. \E W : walks' \in Seq(W)
  BY <1>2, <1>6, NoticedListed
<1> QED
  BY <1>4, <1>6, <1>7, <1>9, <1>10, <1>11, <1>12 DEF SocketsInv

(* A walk begins; at most the receiver of a socket that is connected       *)
(* answers from now on.                                                    *)
LEMMA WalkAdded ==
  ASSUME SocketsInv, NEW w, WalkOK(w, socketLists, table, receiver), walks' = Append(walks, w),
         socketLists' = socketLists, table' = table,
         receiver' \in [Sockets -> {"none", "open", "answering", "over"}],
         \A s \in Sockets : receiver'[s] = receiver[s] \/ (receiver[s] = "open" /\ receiver'[s] = "answering")
  PROVE  SocketsInv'
<1>1. /\ Books(socketLists, table) /\ AllRun(socketLists, receiver)
      /\ (\A n \in DOMAIN walks : WalkOK(walks[n], socketLists, table, receiver))
  BY DEF SocketsInv
<1>2. OnceRun(receiver, receiver')
  BY DEF OnceRun
<1>3. AllRun(socketLists, receiver')
  <2>1. \A n \in DOMAIN socketLists : socketLists[n] \in Seq(Sockets)
    BY <1>1, BooksAre
  <2>2. \A n \in DOMAIN socketLists : Range(socketLists[n]) \subseteq Sockets
    BY <2>1 DEF Range
  <2> QED
    BY <1>1, <2>2 DEF AllRun
<1>4. PICK W, k : walks \in Seq(W) /\ k = Len(walks)
  BY DEF SocketsInv
<1>5. PICK V : V = W \cup {w}
  OBVIOUS
<1>6. walks \in Seq(V) /\ w \in V
  BY <1>4, <1>5
<1>7. /\ walks' \in Seq(V) /\ DOMAIN walks' = 1..(k + 1) /\ walks'[k + 1] = w /\ k \in Nat
      /\ \A n \in 1..k : walks'[n] = walks[n] /\ n \in DOMAIN walks
  BY <1>4, <1>6, Appended
<1>8. ASSUME NEW n \in DOMAIN walks' PROVE WalkOK(walks'[n], socketLists, table, receiver')
  <2>1. WalkOK(walks'[n], socketLists, table, receiver)
    BY <1>1, <1>7
  <2> QED
    BY <1>2, <2>1, WalkStays
<1> QED
  BY <1>1, <1>3, <1>7, <1>8 DEF SocketsInv

LEMMA BroadcastKeeps ==
  ASSUME SocketsInv, NEW c \in Channels, Broadcast(c) PROVE SocketsInv'
<1>1. c \in Listed(table) /\ walks' = Append(walks, Walk("broadcast", 0, c, <<>>))
      /\ socketLists' = socketLists /\ table' = table /\ receiver' = receiver
  BY DEF Broadcast, Listed
<1>2. <<>> \in Seq(Channels)
  OBVIOUS
<1>3. WalkOK(Walk("broadcast", 0, c, <<>>), socketLists, table, receiver)
  BY <1>1, <1>2, WalkBegins
<1>4. receiver \in [Sockets -> {"none", "open", "answering", "over"}]
  BY DEF SocketsInv
<1> QED
  BY <1>1, <1>3, <1>4, WalkAdded

LEMMA SetListed ==
  ASSUME NEW S, IsFiniteSet(S) PROVE SetToSeq(S) \in Seq(S)
<1>1. Cardinality(S) \in Nat /\ ExistsBijection(1..Cardinality(S), S)
  BY FS_CardinalityType
<1>2. \E f \in [1..Cardinality(S) -> S] : IsInjective(f)
  BY <1>1 DEF ExistsBijection, Bijection, Injection, IsInjective
<1>3. SetToSeq(S) \in [1..Cardinality(S) -> S]
  BY <1>2 DEF SetToSeq
<1> QED
  BY <1>1, <1>3

LEMMA BroadcastErrorKeeps ==
  ASSUME SocketsInv, BroadcastError PROVE SocketsInv'
<1>1. PICK keys : keys = SetToSeq(Listed(table))
  OBVIOUS
<1>2. /\ keys # <<>> /\ walks' = Append(walks, Walk("error", 0, Head(keys), Tail(keys)))
      /\ socketLists' = socketLists /\ table' = table /\ receiver' = receiver
  BY <1>1 DEF BroadcastError, Listed
<1>3. keys \in Seq(Listed(table))
  BY <1>1, SetListed DEF SocketsInv, Books
<1>4. Head(keys) \in Listed(table) /\ Tail(keys) \in Seq(Listed(table))
  BY <1>2, <1>3
<1>5. Listed(table) \subseteq Channels
  BY DEF Listed
<1>6. Tail(keys) \in Seq(Channels)
  BY <1>4, <1>5
<1>7. WalkOK(Walk("error", 0, Head(keys), Tail(keys)), socketLists, table, receiver)
  BY <1>4, <1>6, WalkBegins
<1>8. receiver \in [Sockets -> {"none", "open", "answering", "over"}]
  BY DEF SocketsInv
<1> QED
  BY <1>2, <1>7, <1>8, WalkAdded

LEMMA AnswerMessageKeeps ==
  ASSUME SocketsInv, NEW s \in Sockets, AnswerMessage(s) PROVE SocketsInv'
<1>1. PICK c : c = ChannelOf(s)
  OBVIOUS
<1>2. /\ receiver[s] = "open" /\ c \in Listed(table) /\ receiver' = [receiver EXCEPT ![s] = "answering"]
      /\ walks' = Append(walks, Walk("answer", s, c, <<>>)) /\ socketLists' = socketLists /\ table' = table
  BY <1>1, SocketsAssumption DEF AnswerMessage, Listed
<1>3. <<>> \in Seq(Channels)
  OBVIOUS
<1>4. WalkOK(Walk("answer", s, c, <<>>), socketLists, table, receiver)
  BY <1>2, <1>3, WalkBegins
<1>5. receiver \in [Sockets -> {"none", "open", "answering", "over"}]
  BY DEF SocketsInv
<1>6. /\ receiver' \in [Sockets -> {"none", "open", "answering", "over"}]
      /\ \A x \in Sockets : receiver'[x] = receiver[x] \/ (receiver[x] = "open" /\ receiver'[x] = "answering")
  BY <1>2, <1>5
<1> QED
  BY <1>2, <1>4, <1>6, WalkAdded

-----------------------------------------------------------------------------
(* The send of a walk is over.                                             *)
LEMMA TriedIs ==
  ASSUME NEW w, NEW rec, WalkTyped(w, rec), NEW failed \in BOOLEAN, NEW v, v = Tried(w, failed),
         w.to \notin Range(w.tried), rec[w.to] # "none", ChannelOf(w.to) = w.channel
  PROVE  /\ WalkTyped(v, rec) /\ Range(v.tried) = Range(w.tried) \cup {w.to}
         /\ v.kind = w.kind /\ v.owner = w.owner /\ v.rest = w.rest /\ v.channel = w.channel /\ v.list = w.list
         /\ v.at = w.at /\ v.to = w.to /\ v.due = w.due /\ v.left = w.left /\ v.state = w.state
<1>1. DOMAIN w = WalkFields /\ w.tried \in Seq(Sockets) /\ w.failed \in Seq(Sockets) /\ w.to \in Sockets
  BY DEF WalkTyped
<1>2. PICK a, b : a = Append(w.tried, w.to) /\ b = (IF failed THEN Append(w.failed, w.to) ELSE w.failed)
  OBVIOUS
<1>3. v = [w EXCEPT !.tried = a, !.failed = b]
  BY <1>2 DEF Tried
<1>4. /\ DOMAIN v = WalkFields /\ v.tried = a /\ v.failed = b
      /\ v.kind = w.kind /\ v.owner = w.owner /\ v.rest = w.rest /\ v.channel = w.channel /\ v.list = w.list
      /\ v.at = w.at /\ v.to = w.to /\ v.due = w.due /\ v.left = w.left /\ v.state = w.state
  BY <1>1, <1>3 DEF WalkFields
<1>5. a \in Seq(Sockets) /\ Range(a) = Range(w.tried) \cup {w.to} /\ IsInjective(a)
  <2>1. a \in Seq(Sockets) /\ Range(a) = Range(w.tried) \cup {w.to}
    BY <1>1, <1>2, Appended
  <2>2. IsInjective(a)
    BY <1>1, <1>2, AppendedOnce DEF WalkTyped
  <2> QED
    BY <2>1, <2>2
<1>6. b \in Seq(Sockets) /\ Range(b) \subseteq Range(w.failed) \cup {w.to}
  <2>1. Append(w.failed, w.to) \in Seq(Sockets) /\ Range(Append(w.failed, w.to)) = Range(w.failed) \cup {w.to}
    BY <1>1, Appended
  <2> QED
    BY <1>1, <1>2, <2>1
<1>7. Range(b) \subseteq Range(a)
  BY <1>5, <1>6 DEF WalkTyped
<1> QED
  BY <1>1, <1>4, <1>5, <1>6, <1>7 DEF WalkTyped

(* What a walk under way knows of its list.                                *)
LEMMA SendingKnows ==
  ASSUME SocketsInv, NEW n \in DOMAIN walks, walks[n].state = "sending"
  PROVE  /\ WalkTyped(walks[n], receiver) /\ WalkSends(walks[n], socketLists, table, receiver)
         /\ walks[n].to \notin Range(walks[n].tried) /\ receiver[walks[n].to] # "none"
         /\ ChannelOf(walks[n].to) = walks[n].channel /\ walks[n].at \in Nat
         /\ walks[n].list \in DOMAIN socketLists
         /\ socketLists[walks[n].list] \in Seq(Sockets) /\ IsInjective(socketLists[walks[n].list])
         /\ \A s \in Range(socketLists[walks[n].list]) : ChannelOf(s) = walks[n].channel /\ receiver[s] # "none"
<1>1. PICK w, l, t : w = walks[n] /\ l = socketLists /\ t = table
  OBVIOUS
<1>2. WalkOK(w, l, t, receiver) /\ Books(l, t) /\ AllRun(l, receiver)
  BY <1>1 DEF SocketsInv
<1>3. WalkTyped(w, receiver) /\ WalkSends(w, l, t, receiver)
  BY <1>1, <1>2 DEF WalkOK
<1>4. /\ w.list \in DOMAIN l /\ w.at \in Nat /\ (l[w.list] = <<>> \/ t[w.channel] = w.list)
      /\ w.to \notin Range(w.tried) /\ receiver[w.to] # "none" /\ ChannelOf(w.to) = w.channel
  BY <1>3 DEF WalkSends
<1>5. l[w.list] \in Seq(Sockets) /\ IsInjective(l[w.list]) /\ DOMAIN l = 1..Len(l)
  BY <1>2, <1>4, BooksAre
<1>6. ASSUME NEW s \in Range(l[w.list]) PROVE ChannelOf(s) = w.channel /\ receiver[s] # "none"
  <2>1. l[w.list] # <<>>
    BY <1>6 DEF Range
  <2>2. t[w.channel] = w.list /\ w.list # 0
    BY <1>4, <1>5, <2>1
  <2>3. w.channel \in Channels
    BY <1>3, SocketsAssumption DEF WalkTyped
  <2>4. ChannelOf(s) = w.channel
    BY <1>2, <1>6, <2>2, <2>3, BooksAre
  <2> QED
    BY <1>2, <1>4, <1>6, <2>4 DEF AllRun
<1> QED
  BY <1>1, <1>3, <1>4, <1>5, <1>6

LEMMA SendsNextKeeps ==
  ASSUME SocketsInv, NEW n \in DOMAIN walks, SendsNext(n) PROVE SocketsInv'
<1>1. PICK failed \in BOOLEAN :
        LET w == Tried(walks[n], failed) members == socketLists[w.list] IN
        /\ w.state = "sending" /\ w.at < Len(members)
        /\ walks' = [walks EXCEPT ![n] = [w EXCEPT !.at = w.at + 1, !.to = members[w.at + 1]]]
        /\ UNCHANGED <<socketLists, table, receiver>>
  BY DEF SendsNext
<1>2. PICK w, v, u, l, t : /\ w = walks[n] /\ v = Tried(w, failed) /\ l = socketLists /\ t = table
                           /\ u = [v EXCEPT !.at = v.at + 1, !.to = l[v.list][v.at + 1]]
  OBVIOUS
<1>3. v.state = "sending" /\ v.at < Len(l[v.list]) /\ walks' = [walks EXCEPT ![n] = u]
      /\ socketLists' = l /\ table' = t /\ receiver' = receiver
  BY <1>1, <1>2
<1>4. WalkTyped(w, receiver) /\ DOMAIN w = WalkFields /\ w.state = v.state
  <2>1. WalkTyped(w, receiver)
    BY <1>2 DEF SocketsInv, WalkOK
  <2>2. DOMAIN w = WalkFields
    BY <2>1 DEF WalkTyped
  <2> QED
    BY <1>2, <2>1, <2>2 DEF Tried, WalkFields
<1>5. /\ WalkSends(w, l, t, receiver) /\ w.to \notin Range(w.tried) /\ receiver[w.to] # "none"
      /\ ChannelOf(w.to) = w.channel /\ w.at \in Nat /\ w.list \in DOMAIN l
      /\ l[w.list] \in Seq(Sockets) /\ IsInjective(l[w.list])
      /\ \A s \in Range(l[w.list]) : ChannelOf(s) = w.channel /\ receiver[s] # "none"
  BY <1>2, <1>3, <1>4, SendingKnows
<1>6. /\ WalkTyped(v, receiver) /\ Range(v.tried) = Range(w.tried) \cup {w.to}
      /\ v.kind = w.kind /\ v.rest = w.rest /\ v.channel = w.channel /\ v.list = w.list
      /\ v.at = w.at /\ v.to = w.to /\ v.due = w.due /\ v.left = w.left /\ v.state = w.state
  BY <1>2, <1>4, <1>5, TriedIs
<1>7. PICK list, k, x : list = l[w.list] /\ k = w.at + 1 /\ x = list[k]
  OBVIOUS
<1>8. k \in DOMAIN list /\ k > w.at /\ k \in Nat /\ DOMAIN list = 1..Len(list) /\ Len(list) \in Nat
  BY <1>3, <1>5, <1>6, <1>7
<1>9. x \in Range(list) /\ x \in Sockets /\ x \in Ahead(w, l)
  BY <1>5, <1>7, <1>8 DEF Range, Ahead
<1>10. /\ DOMAIN u = WalkFields /\ u.at = k /\ u.to = x
       /\ u.kind = v.kind /\ u.rest = v.rest /\ u.channel = v.channel /\ u.list = v.list /\ u.failed = v.failed
       /\ u.tried = v.tried /\ u.due = v.due /\ u.left = v.left /\ u.state = v.state
  <2>1. DOMAIN v = WalkFields
    BY <1>6 DEF WalkTyped
  <2> QED
    BY <1>2, <1>6, <1>7, <2>1 DEF WalkFields
<1>11. WalkTyped(u, receiver)
  BY <1>6, <1>9, <1>10 DEF WalkTyped
<1>12. /\ (\A s \in Ahead(w, l) : s \notin Range(w.tried) /\ s # w.to)
       /\ Cardinality(Missed(w, l)) <= w.left
       /\ (l[w.list] = <<>> \/ t[w.channel] = w.list)
  BY <1>5 DEF WalkSends
<1>13. Ahead(w, l) = Ahead(u, l) \cup {x} /\ x \notin Ahead(u, l)
  <2>1. Ahead(u, l) = {list[p] : p \in {q \in DOMAIN list : q > k}} /\ Ahead(w, l) = {list[p] : p \in {q \in DOMAIN list : q > w.at}}
    BY <1>6, <1>7, <1>10 DEF Ahead
  <2>2. \A q \in DOMAIN list : q > w.at <=> (q > k \/ q = k)
    BY <1>5, <1>7, <1>8
  <2>3. \A q \in DOMAIN list : q > k => list[q] # x
    BY <1>5, <1>7, <1>8 DEF IsInjective
  <2> QED
    BY <1>7, <1>8, <2>1, <2>2, <2>3
<1>14. WalkSends(u, l, t, receiver)
  <2>1. u.list \in DOMAIN l /\ u.at \in Nat /\ (l[u.list] = <<>> \/ t[u.channel] = u.list)
    BY <1>5, <1>6, <1>8, <1>10, <1>12
  <2>2. u.to \notin Range(u.tried) /\ receiver[u.to] # "none" /\ ChannelOf(u.to) = u.channel
    BY <1>5, <1>6, <1>7, <1>9, <1>10, <1>12
  <2>3. \A s \in Ahead(u, l) : s \notin Range(u.tried) /\ s # u.to
    BY <1>6, <1>10, <1>12, <1>13
  <2>4. Cardinality(Missed(u, l)) <= u.left
    <3>1. Missed(u, l) = Missed(w, l)
      BY <1>6, <1>10, <1>13 DEF Missed
    <3> QED
      BY <1>6, <1>10, <1>12, <3>1
  <2> QED
    BY <2>1, <2>2, <2>3, <2>4 DEF WalkSends
<1>15. u.state = "sending" /\ u.list \in DOMAIN l
  BY <1>3, <1>5, <1>6, <1>10
<1>16. WalkOK(u, l, t, receiver)
  BY <1>11, <1>14, <1>15 DEF WalkOK
<1>17. DOMAIN walks' = DOMAIN walks /\ \A m \in DOMAIN walks : walks'[m] = IF m = n THEN u ELSE walks[m]
  BY <1>3
<1>18. \E W : walks' \in Seq(W)
  <2>1. PICK W : walks \in Seq(W)
    BY DEF SocketsInv
  <2>2. walks' \in Seq(W \cup {u})
    BY <1>3, <2>1
  <2> QED
    BY <2>2
<1>20. \A m \in DOMAIN walks' : WalkOK(walks'[m], l, t, receiver)
  BY <1>2, <1>16, <1>17 DEF SocketsInv
<1> QED
  BY <1>2, <1>3, <1>18, <1>20 DEF SocketsInv

(* A walk is at the end of its list and over, or raised; those it could    *)
(* not send to, a broadcast disconnected.                                  *)
LEMMA WalkEnds ==
  ASSUME SocketsInv, NEW n \in DOMAIN walks, walks[n].state = "sending", NEW failed \in BOOLEAN,
         walks[n].at >= Len(socketLists[walks[n].list]),
         NEW l2, NEW t2, Books(l2, t2), Len(l2) = Len(socketLists), NEW state \in {"over", "raised"},
         state = "over" /\ walks[n].kind = "broadcast" =>
           \A s \in Range(Tried(walks[n], failed).failed) : Gone(s, walks[n].channel, l2, t2),
         NEW rec, OnceRun(receiver, rec),
         NEW e, e = [Tried(walks[n], failed) EXCEPT !.state = state]
  PROVE  WalkOK(e, l2, t2, rec)
<1>1. PICK w, v, l, t : /\ w = walks[n] /\ v = Tried(w, failed) /\ l = socketLists /\ t = table
                        /\ e = [v EXCEPT !.state = state]
  OBVIOUS
<1>2. /\ WalkTyped(w, receiver) /\ WalkSends(w, l, t, receiver)
      /\ w.to \notin Range(w.tried) /\ receiver[w.to] # "none"
      /\ ChannelOf(w.to) = w.channel /\ w.at \in Nat /\ w.list \in DOMAIN l /\ l[w.list] \in Seq(Sockets)
  BY <1>1, SendingKnows
<1>3. /\ WalkTyped(v, receiver) /\ Range(v.tried) = Range(w.tried) \cup {w.to}
      /\ v.kind = w.kind /\ v.rest = w.rest /\ v.channel = w.channel /\ v.list = w.list
      /\ v.at = w.at /\ v.to = w.to /\ v.due = w.due /\ v.left = w.left /\ v.state = w.state
  BY <1>1, <1>2, TriedIs
<1>4. DOMAIN v = WalkFields
  BY <1>3 DEF WalkTyped
<1>5. /\ DOMAIN e = WalkFields /\ e.state = state
      /\ e.kind = v.kind /\ e.rest = v.rest /\ e.channel = v.channel /\ e.list = v.list /\ e.failed = v.failed
      /\ e.tried = v.tried /\ e.due = v.due /\ e.left = v.left /\ e.to = v.to /\ e.at = v.at
  BY <1>1, <1>4 DEF WalkFields
<1>6. WalkTyped(e, receiver)
  BY <1>3, <1>5 DEF WalkTyped
<1>10. WalkTyped(e, rec)
  <2>1. Alike(e, e)
    BY <1>5, <1>6 DEF Alike, WalkTyped
  <2>2. PICK r1, r2 : r1 = receiver /\ r2 = rec
    OBVIOUS
  <2>3. WalkTyped(e, r1) /\ OnceRun(r1, r2)
    BY <1>6, <2>2
  <2>4. WalkTyped(e, r2)
    BY <2>1, <2>3, AlikeTyped
  <2> QED
    BY <2>2, <2>4
<1>11. Ahead(w, l) = {}
  <2>1. DOMAIN l[w.list] = 1..Len(l[w.list]) /\ Len(l[w.list]) \in Nat
    BY <1>2
  <2>2. \A p \in DOMAIN l[w.list] : ~(p > w.at)
    BY <1>1, <1>2, <2>1
  <2> QED
    BY <2>2 DEF Ahead
<1>12. Cardinality(e.due \ Range(e.tried)) <= e.left
  <2>1. Missed(w, l) = e.due \ Range(e.tried)
    BY <1>3, <1>5, <1>11 DEF Missed
  <2>2. Cardinality(Missed(w, l)) <= w.left
    BY <1>2 DEF WalkSends
  <2> QED
    BY <1>3, <1>5, <2>1, <2>2
<1>13. ASSUME state = "over", e.kind = "broadcast", NEW c \in Listed(t2)
       PROVE  Range(e.failed) \cap Range(l2[t2[c]]) = {}
  <2>1. SUFFICES ASSUME NEW s \in Range(v.failed), s \in Range(l2[t2[c]]) PROVE FALSE
    BY <1>5, <1>10
  <2>2. Gone(s, w.channel, l2, t2)
    BY <1>1, <1>3, <1>5, <1>10, <1>13, <2>1
  <2>3. ChannelOf(s) = w.channel
    BY <1>3, <2>1 DEF WalkTyped
  <2>4. c \in Channels /\ t2[c] # 0
    BY DEF Listed
  <2>5. ChannelOf(s) = c
    BY <2>1, <2>4, BooksAre
  <2> QED
    BY <2>1, <2>2, <2>3, <2>4, <2>5 DEF Gone
<1>14. e.state = "over" => WalkOver(e, l2, t2)
  BY <1>5, <1>10, <1>12, <1>13 DEF WalkOver
<1>15. e.list \in DOMAIN l2
  <2>1. DOMAIN l2 = 1..Len(l2) /\ DOMAIN l = 1..Len(l)
    BY <1>1, BooksAre DEF SocketsInv
  <2> QED
    BY <1>1, <1>2, <1>3, <1>5, <1>10, <2>1
<1>16. e.state # "sending"
  BY <1>5, <1>10
<1> QED
  BY <1>10, <1>14, <1>15, <1>16 DEF WalkOK

(* What disconnecting the failed leaves.                                   *)
LEMMA EndsWith ==
  ASSUME SocketsInv, NEW v, v.failed \in Seq(Sockets), v.channel \in Channels, NEW u,
         u = IF v.kind # "broadcast" THEN Now ELSE UnlistedAll(Now, v.channel, v.failed)
  PROVE  \E l2, t2 : \E r2 \in BOOLEAN :
           /\ u = [lists |-> l2, table |-> t2, raised |-> r2]
           /\ Books(l2, t2) /\ Thins(socketLists, table, l2, t2)
           /\ v.kind # "broadcast" => ~r2 /\ l2 = socketLists /\ t2 = table
           /\ ~r2 /\ v.kind = "broadcast" => \A s \in Range(v.failed) : Gone(s, v.channel, l2, t2)
<1>1. PICK l, t, c, ss : l = socketLists /\ t = table /\ c = v.channel /\ ss = v.failed
  OBVIOUS
<1>2. Books(l, t) /\ ss \in Seq(Sockets) /\ c \in Channels /\ Now = [lists |-> l, table |-> t, raised |-> FALSE]
  BY <1>1 DEF SocketsInv, Now
<1>3. CASE v.kind # "broadcast"
  <2>1. Thins(l, t, l, t)
    BY <1>2, ThinsSelf
  <2>2. u = [lists |-> l, table |-> t, raised |-> FALSE]
    BY <1>2, <1>3
  <2> QED
    BY <1>1, <1>2, <1>3, <2>1, <2>2
<1>4. CASE v.kind = "broadcast"
  <2>1. \E l2, t2 : \E r2 \in BOOLEAN :
           /\ UnlistedAll([lists |-> l, table |-> t, raised |-> FALSE], c, ss) = [lists |-> l2, table |-> t2, raised |-> r2]
           /\ Books(l2, t2) /\ Thins(l, t, l2, t2) /\ (~r2 => \A s \in Range(ss) : Gone(s, c, l2, t2))
    BY <1>2, AllUnlisted
  <2>2. u = UnlistedAll([lists |-> l, table |-> t, raised |-> FALSE], c, ss)
    BY <1>1, <1>2, <1>4
  <2> QED
    BY <1>1, <1>4, <2>1, <2>2
<1> QED
  BY <1>3, <1>4

LEMMA ThinnedRun ==
  ASSUME NEW l, NEW t, Books(l, t), NEW l2, NEW t2, Books(l2, t2), Thins(l, t, l2, t2),
         NEW rec, NEW rec2, AllRun(l, rec),
         \A s \in Sockets : rec2[s] = rec[s] \/ rec2[s] = "open"
  PROVE  AllRun(l2, rec2)
<1>1. SUFFICES ASSUME NEW n \in DOMAIN l2, NEW x \in Range(l2[n]) PROVE rec2[x] \in {"open", "answering"}
  BY DEF AllRun
<1>2. DOMAIN l = DOMAIN l2
  <2>1. DOMAIN l2 = 1..Len(l2) /\ DOMAIN l = 1..Len(l)
    BY BooksAre
  <2> QED
    BY <2>1 DEF Thins
<1>3. Later(l[n], l2[n]) /\ l[n] \in Seq(Sockets)
  <2>1. l[n] \in Seq(Sockets)
    BY <1>2, BooksAre
  <2> QED
    BY <1>2, <2>1 DEF Thins
<1>4. x \in Range(l[n])
  BY <1>1, <1>3, LaterKnown
<1>5. x \in Sockets
  BY <1>3, <1>4 DEF Range
<1> QED
  BY <1>2, <1>4, <1>5 DEF AllRun

LEMMA EndsOver ==
  ASSUME SocketsInv, NEW n \in DOMAIN walks, walks[n].state = "sending", NEW failed \in BOOLEAN,
         walks[n].at >= Len(socketLists[walks[n].list]),
         NEW l2, NEW t2, NEW r2 \in BOOLEAN, NEW u, u = [lists |-> l2, table |-> t2, raised |-> r2],
         Books(l2, t2), Thins(socketLists, table, l2, t2),
         ~r2 /\ walks[n].kind = "broadcast" =>
           \A s \in Range(Tried(walks[n], failed).failed) : Gone(s, walks[n].channel, l2, t2),
         NEW e, e = [Tried(walks[n], failed) EXCEPT !.state = IF r2 THEN "raised" ELSE "over"],
         walks' = Noticed([walks EXCEPT ![n] = e], u), socketLists' = l2, table' = t2,
         NEW rec2, rec2 \in [Sockets -> {"none", "open", "answering", "over"}], receiver' = rec2,
         \A s \in Sockets : rec2[s] = receiver[s] \/ rec2[s] = "open"
  PROVE  SocketsInv'
<1>1. PICK l, t, rec : l = socketLists /\ t = table /\ rec = receiver
  OBVIOUS
<1>2. /\ Books(l, t) /\ AllRun(l, rec) /\ rec \in [Sockets -> {"none", "open", "answering", "over"}]
      /\ (\E W : walks \in Seq(W)) /\ (\A m \in DOMAIN walks : WalkOK(walks[m], l, t, rec))
      /\ Thins(l, t, l2, t2)
  BY <1>1 DEF SocketsInv
<1>3. OnceRun(rec, rec2)
  BY <1>1 DEF OnceRun
<1>4. AllRun(l2, rec2)
  BY <1>1, <1>2, ThinnedRun
<1>5. Len(l2) = Len(l)
  BY <1>2 DEF Thins
<1>6. PICK ws : ws = [walks EXCEPT ![n] = e]
  OBVIOUS
<1>7. DOMAIN ws = DOMAIN walks /\ ws[n] = e /\ \A m \in DOMAIN walks \ {n} : ws[m] = walks[m]
  BY <1>6
<1>8. /\ DOMAIN walks' = DOMAIN walks
      /\ \A m \in DOMAIN walks :
           walks'[m] = IF ws[m].state # "sending" THEN ws[m]
                       ELSE [ws[m] EXCEPT !.left = @ + Len(l[ws[m].list]) - Len(l2[ws[m].list])]
  BY <1>1, <1>6, <1>7 DEF Noticed
<1>9. \E W : walks' \in Seq(W)
  <2>1. PICK W : walks \in Seq(W)
    BY <1>2
  <2>2. ws \in Seq(W \cup {e})
    BY <1>6, <2>1
  <2> QED
    BY <1>6, <2>2, NoticedListed
<1>10. ASSUME NEW m \in DOMAIN walks, m # n PROVE WalkOK(walks'[m], l2, t2, rec2)
  <2>1. walks'[m] = IF walks[m].state # "sending" THEN walks[m]
                  ELSE [walks[m] EXCEPT !.left = @ + Len(l[walks[m].list]) - Len(l2[walks[m].list])]
    BY <1>7, <1>8, <1>10
  <2>2. PICK w, w2 : w = walks[m] /\ w2 = walks'[m] /\ WalkOK(w, l, t, rec)
    BY <1>2
  <2>3. ThinnedTo(w, l, l2, w2)
    BY <2>1, <2>2 DEF ThinnedTo
  <2>4. WalkOK(w2, l2, t2, rec2)
    BY <1>2, <1>3, <2>2, <2>3, WalkThins
  <2> QED
    BY <2>2, <2>4
<1>11. WalkOK(walks'[n], l2, t2, rec2)
  <2>1. PICK state : state = IF r2 THEN "raised" ELSE "over"
    OBVIOUS
  <2>2. e = [Tried(walks[n], failed) EXCEPT !.state = state]
    BY <2>1
  <2>3. /\ state \in {"over", "raised"} /\ OnceRun(receiver, rec2) /\ Len(l2) = Len(socketLists)
        /\ state = "over" /\ walks[n].kind = "broadcast" =>
             \A s \in Range(Tried(walks[n], failed).failed) : Gone(s, walks[n].channel, l2, t2)
    BY <1>1, <1>3, <1>5, <2>1
  <2>4. WalkOK(e, l2, t2, rec2)
    BY <2>2, <2>3, WalkEnds
  <2>5. e.state # "sending"
    <3>1. WalkTyped(walks[n], receiver)
      BY <1>1, <1>2 DEF WalkOK
    <3>2. DOMAIN Tried(walks[n], failed) = WalkFields
      BY <3>1 DEF WalkTyped, Tried
    <3> QED
      BY <2>2, <2>3, <3>2 DEF WalkFields
  <2> QED
    BY <1>7, <1>8, <2>4, <2>5
<1>12. \A m \in DOMAIN walks' : WalkOK(walks'[m], l2, t2, rec2)
  BY <1>8, <1>10, <1>11
<1> QED
  BY <1>4, <1>9, <1>12 DEF SocketsInv

(* broadcast_error goes on with the next client.                           *)
LEMMA EndsNext ==
  ASSUME SocketsInv, NEW n \in DOMAIN walks, NEW rest \in Seq(Channels), rest # <<>>, Head(rest) \in Listed(table),
         walks' = [walks EXCEPT ![n] = Walk("error", 0, Head(rest), Tail(rest))],
         socketLists' = socketLists, table' = table, receiver' = receiver
  PROVE  SocketsInv'
<1>1. PICK w, l, t : w = Walk("error", 0, Head(rest), Tail(rest)) /\ l = socketLists /\ t = table
  OBVIOUS
<1>2. WalkOK(w, l, t, receiver)
  <2>1. Tail(rest) \in Seq(Channels)
    OBVIOUS
  <2>2. PICK c, r : c = Head(rest) /\ r = Tail(rest)
    OBVIOUS
  <2>3. WalkOK(Walk("error", 0, c, r), socketLists, table, receiver)
    BY <2>1, <2>2, WalkBegins
  <2> QED
    BY <1>1, <2>2, <2>3
<1>3. walks' = [walks EXCEPT ![n] = w]
  BY <1>1
<1>4. \E W : walks' \in Seq(W)
  <2>1. PICK W : walks \in Seq(W)
    BY DEF SocketsInv
  <2>2. walks' \in Seq(W \cup {w})
    BY <1>3, <2>1
  <2> QED
    BY <2>2
<1>5. \A m \in DOMAIN walks' : WalkOK(walks'[m], l, t, receiver)
  <2>1. \A m \in DOMAIN walks : WalkOK(walks[m], l, t, receiver)
    BY <1>1 DEF SocketsInv
  <2>2. DOMAIN walks' = DOMAIN walks /\ \A m \in DOMAIN walks : walks'[m] = IF m = n THEN w ELSE walks[m]
    BY <1>3
  <2> QED
    BY <1>2, <2>1, <2>2
<1> QED
  BY <1>1, <1>4, <1>5 DEF SocketsInv

LEMMA EndsListKeeps ==
  ASSUME SocketsInv, NEW n \in DOMAIN walks, EndsList(n) PROVE SocketsInv'
<1>1. PICK failed \in BOOLEAN :
        LET w     == Tried(walks[n], failed)
            later == Only(w.rest, {c \in Channels : table[c] # 0})
            t     == IF w.kind # "broadcast" THEN Now
                     ELSE UnlistedAll(Now, w.channel, w.failed)
            ended == [w EXCEPT !.state = IF t.raised THEN "raised" ELSE "over"]
        IN
        /\ w.state = "sending" /\ w.at >= Len(socketLists[w.list])
        /\ IF later = <<>>
           THEN /\ walks' = Noticed([walks EXCEPT ![n] = ended], t)
                /\ receiver' = [s \in Sockets |-> IF w.kind = "answer" /\ s = w.owner
                                                  THEN "open" ELSE receiver[s]]
           ELSE /\ walks' = [walks EXCEPT ![n] = Walk("error", 0, Head(later), Tail(later))]
                /\ UNCHANGED receiver
        /\ socketLists' = t.lists /\ table' = t.table
  BY DEF EndsList
<1>2. PICK w, v, rest, u, e : /\ w = walks[n] /\ v = Tried(w, failed) /\ rest = Only(v.rest, Listed(table))
                              /\ u = (IF v.kind # "broadcast" THEN Now ELSE UnlistedAll(Now, v.channel, v.failed))
                              /\ e = [v EXCEPT !.state = IF u.raised THEN "raised" ELSE "over"]
  OBVIOUS
<1>3. /\ v.state = "sending" /\ v.at >= Len(socketLists[v.list])
      /\ IF rest = <<>>
         THEN /\ walks' = Noticed([walks EXCEPT ![n] = e], u)
              /\ receiver' = [s \in Sockets |-> IF v.kind = "answer" /\ s = v.owner THEN "open" ELSE receiver[s]]
         ELSE /\ walks' = [walks EXCEPT ![n] = Walk("error", 0, Head(rest), Tail(rest))]
              /\ UNCHANGED receiver
      /\ socketLists' = u.lists /\ table' = u.table
  BY <1>1, <1>2 DEF Listed
<1>4. WalkTyped(w, receiver) /\ DOMAIN w = WalkFields /\ w.state = v.state
  <2>1. WalkTyped(w, receiver)
    BY <1>2 DEF SocketsInv, WalkOK
  <2>2. DOMAIN w = WalkFields
    BY <2>1 DEF WalkTyped
  <2> QED
    BY <1>2, <2>1, <2>2 DEF Tried, WalkFields
<1>5. w.to \notin Range(w.tried) /\ receiver[w.to] # "none" /\ ChannelOf(w.to) = w.channel
  BY <1>2, <1>3, <1>4, SendingKnows
<1>6. /\ WalkTyped(v, receiver) /\ v.kind = w.kind /\ v.rest = w.rest /\ v.channel = w.channel /\ v.list = w.list
      /\ v.at = w.at
  BY <1>2, <1>4, <1>5, TriedIs
<1>7. /\ v.failed \in Seq(Sockets) /\ v.channel \in Channels /\ v.rest \in Seq(Channels)
      /\ (v.kind = "broadcast" => v.rest = <<>>)
  BY <1>6, SocketsAssumption DEF WalkTyped
<1>8. PICK l2, t2 : \E r2 \in BOOLEAN :
           /\ u = [lists |-> l2, table |-> t2, raised |-> r2]
           /\ Books(l2, t2) /\ Thins(socketLists, table, l2, t2)
           /\ v.kind # "broadcast" => ~r2 /\ l2 = socketLists /\ t2 = table
           /\ ~r2 /\ v.kind = "broadcast" => \A s \in Range(v.failed) : Gone(s, v.channel, l2, t2)
  BY <1>2, <1>7, EndsWith
<1>9. PICK r2 \in BOOLEAN :
           /\ u = [lists |-> l2, table |-> t2, raised |-> r2]
           /\ Books(l2, t2) /\ Thins(socketLists, table, l2, t2)
           /\ v.kind # "broadcast" => ~r2 /\ l2 = socketLists /\ t2 = table
           /\ ~r2 /\ v.kind = "broadcast" => \A s \in Range(v.failed) : Gone(s, v.channel, l2, t2)
  BY <1>8
<1>10. u.lists = l2 /\ u.table = t2 /\ u.raised = r2
  BY <1>9
<1>11. socketLists' = l2 /\ table' = t2
  BY <1>3, <1>10
<1>12. CASE rest = <<>>
  <2>1. PICK rec2 : rec2 = [s \in Sockets |-> IF v.kind = "answer" /\ s = v.owner THEN "open" ELSE receiver[s]]
    OBVIOUS
  <2>2. receiver' = rec2 /\ walks' = Noticed([walks EXCEPT ![n] = e], u)
    BY <1>3, <1>12, <2>1
  <2>3. receiver \in [Sockets -> {"none", "open", "answering", "over"}]
    BY DEF SocketsInv
  <2>4. rec2 \in [Sockets -> {"none", "open", "answering", "over"}] /\ \A s \in Sockets : rec2[s] = receiver[s] \/ rec2[s] = "open"
    BY <2>1, <2>3
  <2>5. e = [Tried(walks[n], failed) EXCEPT !.state = IF r2 THEN "raised" ELSE "over"]
    BY <1>2, <1>10
  <2>6. walks[n].state = "sending" /\ walks[n].at >= Len(socketLists[walks[n].list])
    BY <1>2, <1>3, <1>4, <1>6
  <2>7. ~r2 /\ walks[n].kind = "broadcast" =>
           \A s \in Range(Tried(walks[n], failed).failed) : Gone(s, walks[n].channel, l2, t2)
    BY <1>2, <1>6, <1>9
  <2> QED
    BY <1>9, <1>11, <2>2, <2>4, <2>5, <2>6, <2>7, EndsOver
<1>13. CASE rest # <<>>
  <2>1. /\ walks' = [walks EXCEPT ![n] = Walk("error", 0, Head(rest), Tail(rest))] /\ receiver' = receiver
    BY <1>3, <1>13
  <2>2. v.kind # "broadcast"
    <3>1. SUFFICES ASSUME v.kind = "broadcast" PROVE FALSE
      OBVIOUS
    <3>2. v.rest = <<>>
      BY <1>7, <3>1
    <3> QED
      BY <1>2, <1>7, <1>13, <3>2, OnlyEmpty
  <2>3. socketLists' = socketLists /\ table' = table
    BY <1>9, <1>11, <2>2
  <2>4. rest \in Seq(Channels) /\ Range(rest) \subseteq Listed(table)
    BY <1>2, <1>7, OnlyRange
  <2>5. Head(rest) \in Listed(table)
    BY <1>13, <2>4 DEF Range
  <2> QED
    BY <1>13, <2>1, <2>3, <2>4, <2>5, EndsNext
<1> QED
  BY <1>12, <1>13

LEMMA SocketsSteps ==
  ASSUME SocketsInv, [SocketsNext]_socketVars PROVE SocketsInv'
<1>1. ASSUME NEW s \in Sockets, Connect(s) PROVE SocketsInv'
  BY <1>1, ConnectKeeps
<1>2. ASSUME NEW s \in Sockets, Leave(s) PROVE SocketsInv'
  BY <1>2, LeaveKeeps
<1>3. ASSUME NEW s \in Sockets, AnswerMessage(s) PROVE SocketsInv'
  BY <1>3, AnswerMessageKeeps
<1>4. ASSUME NEW c \in Channels, Broadcast(c) PROVE SocketsInv'
  BY <1>4, BroadcastKeeps
<1>5. CASE BroadcastError
  BY <1>5, BroadcastErrorKeeps
<1>6. ASSUME NEW n \in DOMAIN walks, SendsNext(n) PROVE SocketsInv'
  BY <1>6, SendsNextKeeps
<1>7. ASSUME NEW n \in DOMAIN walks, EndsList(n) PROVE SocketsInv'
  BY <1>7, EndsListKeeps
<1>8. CASE UNCHANGED socketVars
  <2>1. socketLists' = socketLists /\ table' = table /\ receiver' = receiver /\ walks' = walks
    BY <1>8 DEF socketVars
  <2> QED
    BY <2>1 DEF SocketsInv
<1> QED
  BY <1>1, <1>2, <1>3, <1>4, <1>5, <1>6, <1>7, <1>8 DEF SocketsNext

LEMMA SocketsHold ==
  ASSUME SocketsInv PROVE TableTells /\ WalksReach /\ SocketsTypeOK
<1>1. PICK l, t : l = socketLists /\ t = table
  OBVIOUS
<1>2. /\ Books(l, t) /\ AllRun(l, receiver) /\ receiver \in [Sockets -> {"none", "open", "answering", "over"}]
      /\ (\E W : walks \in Seq(W)) /\ (\A m \in DOMAIN walks : WalkOK(walks[m], l, t, receiver))
  BY <1>1 DEF SocketsInv
<1>3. /\ l \in Seq(Seq(Sockets)) /\ DOMAIN l = 1..Len(l) /\ Len(l) \in Nat
      /\ \A n \in DOMAIN l : l[n] \in Seq(Sockets) /\ IsInjective(l[n])
      /\ t \in [Channels -> Nat]
      /\ \A d \in Channels : t[d] # 0 => /\ t[d] \in DOMAIN l /\ l[t[d]] # <<>>
                                         /\ \A x \in Range(l[t[d]]) : ChannelOf(x) = d
  BY <1>2, BooksAre
<1>4. \A w \in Range(walks) : /\ WalkTyped(w, receiver) /\ (w.state = "over" => WalkOver(w, l, t))
  BY <1>2 DEF Range, WalkOK
<1>5. TableTells
  <2>1. ASSUME NEW c \in Channels, t[c] # 0
        PROVE  /\ l[t[c]] # <<>> /\ IsInjective(l[t[c]])
               /\ \A s \in Range(l[t[c]]) : ChannelOf(s) = c /\ receiver[s] \in {"open", "answering"}
    BY <1>2, <1>3, <2>1 DEF AllRun
  <2> QED
    BY <1>1, <2>1 DEF TableTells
<1>6. WalksReach
  <2>1. SUFFICES ASSUME NEW w \in Range(walks)
                 PROVE  /\ IsInjective(w.tried)
                        /\ (w.state = "over" => Cardinality(w.due \ Range(w.tried)) <= w.left)
                        /\ (w.state = "over" /\ w.kind = "broadcast" =>
                              \A c \in Channels : t[c] # 0 => Range(w.failed) \cap Range(l[t[c]]) = {})
    BY <1>1 DEF WalksReach
  <2>2. WalkTyped(w, receiver) /\ (w.state = "over" => WalkOver(w, l, t))
    BY <1>4
  <2>3. IsInjective(w.tried)
    BY <2>2 DEF WalkTyped
  <2> QED
    BY <2>2, <2>3 DEF WalkOver, Listed
<1>7. SocketsTypeOK
  <2>1. Range(l) \subseteq Seq(Sockets)
    BY <1>3 DEF Range
  <2>2. \A c \in Channels : t[c] \in 0 .. Len(l)
    <3>1. SUFFICES ASSUME NEW c \in Channels PROVE t[c] \in 0..Len(l)
      OBVIOUS
    <3>2. CASE t[c] = 0
      BY <1>3, <3>2
    <3>3. CASE t[c] # 0
      BY <1>3, <3>3
    <3> QED
      BY <3>2, <3>3
  <2>3. \A s \in Sockets : receiver[s] \in {"none", "open", "answering", "over"}
    BY <1>2
  <2>4. \A w \in Range(walks) : w.state \in {"sending", "over", "raised"} /\ w.to \in Sockets
    BY <1>4 DEF WalkTyped
  <2> QED
    BY <1>1, <2>1, <2>2, <2>3, <2>4 DEF SocketsTypeOK
<1> QED
  BY <1>5, <1>6, <1>7

(***************************************************************************)
(* RabbitMQBroker. A message in the queue is in one place: QueueOK says so *)
(* with sets, each list holding a message once.                            *)
(***************************************************************************)
Parcels == [m : RabbitMessages, s : 1..MaxSubscribes]
About(l) == {x.m : x \in Range(l)}
OfConsumer(l, s) == {x \in Range(l) : x.s = s}

ServerFields == {"queue", "bound", "ready", "unacked", "consumers"}
MishapFields == {"connects", "subscribes", "raises", "ends", "stray"}
TallyFields == {"published", "consumed", "failed", "acknowledged"}

ServerTyped(v) ==
  /\ DOMAIN v = ServerFields
  /\ v.ready \in Seq(RabbitMessages) /\ v.unacked \in Seq(Parcels) /\ v.consumers \subseteq 1..MaxSubscribes

MishapsTyped(h) == DOMAIN h = MishapFields /\ h.subscribes \in Nat /\ h.ends \in Nat

TallyTyped(r) == DOMAIN r = TallyFields /\ \A x \in TallyFields : r[x] \in Nat

RabbitTyped ==
  /\ subscribed \subseteq 1..MaxSubscribes
  /\ TallyTyped(rabbitStats) /\ MishapsTyped(mishaps) /\ ServerTyped(server)
  /\ sentAs \in [RabbitMessages -> {"pending", "sent", "failed"}]
  /\ inbox \in Seq(Parcels) /\ handled \in [RabbitMessages -> Nat]
  /\ DOMAIN settled = {"acked", "dropped", "routed"}

QueueOK(v, g) ==
  /\ IsInjective(v.ready) /\ IsInjective(v.unacked)
  /\ \A x, y \in Range(v.unacked) : x.m = y.m => x = y
  /\ g.routed = Range(v.ready) \cup About(v.unacked) \cup g.acked \cup g.dropped
  /\ g.routed \subseteq RabbitMessages
  /\ Range(v.ready) \cap (About(v.unacked) \cup g.acked \cup g.dropped) = {}
  /\ About(v.unacked) \cap (g.acked \cup g.dropped) = {} /\ g.acked \cap g.dropped = {}
  /\ v.bound => v.queue # "none"
  /\ ~v.bound => g.routed = {}
  /\ \A s \in 1..MaxSubscribes : Cardinality(OfConsumer(v.unacked, s)) <= Prefetch

(* What pika holds of an open channel the server holds too.                *)
ChannelOK(c, v, box, h, g, subs) ==
  /\ c \in {"none", "open", "lost", "closed"} /\ IsInjective(box)
  /\ c # "open" => v.unacked = <<>> /\ v.consumers = {}
  /\ c = "open" => Range(box) \subseteq Range(v.unacked)
  /\ c \in {"none", "closed"} => box = <<>>
  /\ About(box) \subseteq g.routed
  /\ c \in {"lost", "closed"} => h.ends > 0
  /\ ~h.stray => subs = v.consumers

(* Until a channel ends each message is handled once.                      *)
CountsOK(r, v, box, h, g, hd, sent) ==
  /\ \A m \in g.routed : sent[m] = "sent"
  /\ \A m \in g.acked : hd[m] > 0 /\ enableAck
  /\ \A m \in RabbitMessages : hd[m] > 0 => m \in g.routed
  /\ h.ends = 0 => \A m \in RabbitMessages : hd[m] <= 1 /\ (hd[m] > 0 => m \notin About(box) /\ m \notin Range(v.ready))
  /\ r.consumed = SumOf(RabbitMessages, hd)
  /\ r.published = Cardinality({m \in RabbitMessages : sent[m] = "sent"})
  /\ h.ends = 0 /\ ~enableAck => r.consumed + Len(box) = Len(v.unacked)
  /\ enableAck /\ h.ends = 0 => r.acknowledged = Cardinality(g.acked)

RabbitInv ==
  /\ RabbitTyped /\ QueueOK(server, settled)
  /\ ChannelOK(channel, server, inbox, mishaps, settled, subscribed)
  /\ CountsOK(rabbitStats, server, inbox, mishaps, settled, handled, sentAs)

LEMMA EmptyList ==
  ASSUME NEW S PROVE <<>> \in Seq(S) /\ IsInjective(<<>>) /\ Range(<<>>) = {} /\ About(<<>>) = {} /\ Len(<<>>) = 0
BY DEF IsInjective, Range, About

LEMMA NoneHeld == \A s \in 1..MaxSubscribes : Cardinality(OfConsumer(<<>>, s)) <= Prefetch
<1>1. ASSUME NEW s \in 1..MaxSubscribes PROVE Cardinality(OfConsumer(<<>>, s)) <= Prefetch
  <2>1. OfConsumer(<<>>, s) = {}
    BY DEF OfConsumer, Range
  <2>2. Cardinality({}) = 0
    BY FS_EmptySet
  <2>3. Prefetch \in Nat
    BY RabbitAssumption
  <2>4. Cardinality(OfConsumer(<<>>, s)) = 0
    BY <2>1, <2>2, Zenon
  <2> QED
    BY <2>3, <2>4
<1> QED
  BY <1>1

LEMMA RabbitStarts == RabbitInit => RabbitInv
<1> SUFFICES ASSUME RabbitInit PROVE RabbitInv
  OBVIOUS
<1>1. /\ subscribed = {} /\ inbox = <<>> /\ channel = "none"
      /\ rabbitStats = [published |-> 0, consumed |-> 0, failed |-> 0, acknowledged |-> 0]
      /\ sentAs = [m \in RabbitMessages |-> "pending"]
      /\ server = [queue |-> "none", bound |-> FALSE, ready |-> <<>>, unacked |-> <<>>, consumers |-> {}]
      /\ settled = [acked |-> {}, dropped |-> {}, routed |-> {}]
      /\ handled = [m \in RabbitMessages |-> 0]
      /\ mishaps = [connects |-> 0, subscribes |-> 0, raises |-> 0, ends |-> 0, stray |-> FALSE]
  BY DEF RabbitInit
<1>2. /\ DOMAIN server = ServerFields /\ server.queue = "none" /\ server.bound = FALSE /\ server.ready = <<>>
      /\ server.unacked = <<>> /\ server.consumers = {}
  BY <1>1 DEF ServerFields
<1>3. DOMAIN mishaps = MishapFields /\ mishaps.subscribes = 0 /\ mishaps.ends = 0 /\ mishaps.stray = FALSE
  BY <1>1 DEF MishapFields
<1>4. /\ DOMAIN rabbitStats = TallyFields /\ \A x \in TallyFields : rabbitStats[x] = 0
      /\ rabbitStats.consumed = 0 /\ rabbitStats.published = 0 /\ rabbitStats.acknowledged = 0
  BY <1>1 DEF TallyFields
<1>5. DOMAIN settled = {"acked", "dropped", "routed"} /\ settled.acked = {} /\ settled.dropped = {} /\ settled.routed = {}
  BY <1>1
<1>6. <<>> \in Seq(Parcels) /\ <<>> \in Seq(RabbitMessages)
  OBVIOUS
<1>7. RabbitTyped
  BY <1>1, <1>2, <1>3, <1>4, <1>5, <1>6 DEF RabbitTyped, ServerTyped, MishapsTyped, TallyTyped
<1>8. /\ IsInjective(<<>>) /\ Range(<<>>) = {} /\ About(<<>>) = {} /\ Len(<<>>) = 0
  BY EmptyList
<1>9. QueueOK(server, settled)
  <2>2. \A s \in 1..MaxSubscribes : Cardinality(OfConsumer(server.unacked, s)) <= Prefetch
    BY <1>2, NoneHeld
  <2> QED
    BY <1>2, <1>5, <1>8, <2>2 DEF QueueOK
<1>10. ChannelOK(channel, server, inbox, mishaps, settled, subscribed)
  BY <1>1, <1>2, <1>3, <1>5, <1>8 DEF ChannelOK
<1>11. SumOf(RabbitMessages, handled) = 0
  <2>1. PICK w : w = [x \in {} |-> 0]
    OBVIOUS
  <2>2. w \in [{} -> Int] /\ handled \in [RabbitMessages -> Int] /\ IsFiniteSet(RabbitMessages) /\ {} \in SUBSET RabbitMessages
    BY <1>1, <2>1, RabbitAssumption
  <2>3. (\A x \in {} : w[x] = handled[x]) /\ \A x \in RabbitMessages \ {} : handled[x] = 0
    BY <1>1
  <2>4. PICK S, T, hd : S = RabbitMessages /\ T = {} /\ hd = handled
    OBVIOUS
  <2>5. SumOf(S, hd) = SumOf(T, w)
    <3>1. IsFiniteSet(S) /\ T \in SUBSET S /\ hd \in [S -> Int] /\ w \in [T -> Int]
      BY <2>2, <2>4
    <3>2. (\A x \in T : w[x] = hd[x]) /\ \A x \in S \ T : hd[x] = 0
      BY <2>3, <2>4
    <3> QED
      BY <3>1, <3>2, SumWithZeros
  <2> QED
    BY <2>4, <2>5, EmptySum
<1>12. {m \in RabbitMessages : sentAs[m] = "sent"} = {} /\ Cardinality({}) = 0
  BY <1>1, FS_EmptySet
<1>13. CountsOK(rabbitStats, server, inbox, mishaps, settled, handled, sentAs)
  <2>1. /\ rabbitStats.consumed = SumOf(RabbitMessages, handled)
        /\ rabbitStats.published = Cardinality({m \in RabbitMessages : sentAs[m] = "sent"})
        /\ rabbitStats.acknowledged = Cardinality(settled.acked)
    BY <1>4, <1>5, <1>11, <1>12
  <2>2. \A m \in RabbitMessages : handled[m] <= 1 /\ ~(handled[m] > 0)
    BY <1>1
  <2>3. rabbitStats.consumed + Len(inbox) = Len(server.unacked)
    BY <1>1, <1>2, <1>4, <1>8
  <2> QED
    BY <1>5, <2>1, <2>2, <2>3 DEF CountsOK
<1> QED
  BY <1>7, <1>9, <1>10, <1>13 DEF RabbitInv

-----------------------------------------------------------------------------
(* The server lets go of a channel.                                        *)
LEMMA ReleasedIs ==
  ASSUME RabbitTyped, QueueOK(server, settled), NEW v, v = Released
  PROVE  /\ ServerTyped(v) /\ v.queue = server.queue /\ v.bound = server.bound
         /\ v.unacked = <<>> /\ v.consumers = {}
         /\ Range(v.ready) = Range(server.ready) \cup About(server.unacked)
         /\ (server.unacked = <<>> => Range(v.ready) = Range(server.ready))
         /\ QueueOK(v, settled)
<1>1. PICK u, r, us : u = server.unacked /\ r = server.ready /\ us = [i \in DOMAIN u |-> u[i].m]
  OBVIOUS
<1>2. /\ DOMAIN server = ServerFields /\ r \in Seq(RabbitMessages) /\ u \in Seq(Parcels)
  BY <1>1 DEF RabbitTyped, ServerTyped
<1>3. v = [server EXCEPT !.ready = us \o @, !.unacked = <<>>, !.consumers = {}]
  BY <1>1 DEF Released
<1>4. /\ DOMAIN v = ServerFields /\ v.ready = us \o r /\ v.unacked = <<>> /\ v.consumers = {}
      /\ v.queue = server.queue /\ v.bound = server.bound
  BY <1>1, <1>2, <1>3 DEF ServerFields
<1>5. DOMAIN u = 1..Len(u) /\ Len(u) \in Nat /\ \A i \in DOMAIN u : u[i] \in Parcels /\ u[i].m \in RabbitMessages
  <2>1. DOMAIN u = 1..Len(u) /\ Len(u) \in Nat /\ \A i \in DOMAIN u : u[i] \in Parcels
    BY <1>2
  <2>2. \A x \in Parcels : x.m \in RabbitMessages
    BY DEF Parcels
  <2> QED
    BY <2>1, <2>2
<1>6. us \in [1..Len(u) -> RabbitMessages]
  BY <1>1, <1>5
<1>7. us \in Seq(RabbitMessages)
  BY <1>5, <1>6
<1>8. Range(us) = About(u)
  BY <1>1 DEF Range, About
<1>9. /\ IsInjective(r) /\ IsInjective(u)
      /\ (\A x, y \in Range(u) : x.m = y.m => x = y)
      /\ Range(r) \cap About(u) = {}
  BY <1>1 DEF QueueOK
<1>10. IsInjective(us)
  <2>1. SUFFICES ASSUME NEW i \in DOMAIN us, NEW j \in DOMAIN us, us[i] = us[j] PROVE i = j
    BY DEF IsInjective
  <2>2. i \in DOMAIN u /\ j \in DOMAIN u /\ u[i] \in Range(u) /\ u[j] \in Range(u) /\ u[i].m = u[j].m
    BY <1>1, <2>1 DEF Range
  <2>3. u[i] = u[j]
    BY <1>9, <2>2
  <2> QED
    BY <1>9, <2>2, <2>3 DEF IsInjective
<1>11. /\ v.ready \in Seq(RabbitMessages) /\ Range(v.ready) = Range(r) \cup About(u)
  BY <1>2, <1>4, <1>7, <1>8, Joined
<1>12. IsInjective(v.ready)
  BY <1>2, <1>4, <1>7, <1>8, <1>9, <1>10, JoinedOnce
<1>13. ServerTyped(v)
  <2>1. <<>> \in Seq(Parcels)
    OBVIOUS
  <2> QED
    BY <1>4, <1>11, <2>1 DEF ServerTyped
<1>14. /\ IsInjective(<<>>) /\ Range(<<>>) = {} /\ About(<<>>) = {}
  BY EmptyList
<1>15. u = <<>> => Range(v.ready) = Range(r)
  BY <1>11, <1>14
<1>16. QueueOK(v, settled)
  <2>1. \A s \in 1..MaxSubscribes : Cardinality(OfConsumer(v.unacked, s)) <= Prefetch
    BY <1>4, NoneHeld
  <2>2. /\ settled.routed = Range(r) \cup About(u) \cup settled.acked \cup settled.dropped
        /\ settled.routed \subseteq RabbitMessages
        /\ Range(r) \cap (About(u) \cup settled.acked \cup settled.dropped) = {}
        /\ About(u) \cap (settled.acked \cup settled.dropped) = {} /\ settled.acked \cap settled.dropped = {}
        /\ (server.bound => server.queue # "none")
        /\ (~server.bound => settled.routed = {})
    BY <1>1 DEF QueueOK
  <2>3. /\ settled.routed = Range(v.ready) \cup {} \cup settled.acked \cup settled.dropped
        /\ Range(v.ready) \cap ({} \cup settled.acked \cup settled.dropped) = {}
    BY <1>11, <2>2
  <2> QED
    BY <1>4, <1>12, <1>14, <2>1, <2>2, <2>3 DEF QueueOK
<1> QED
  BY <1>1, <1>4, <1>11, <1>13, <1>15, <1>16

LEMMA EndedIs ==
  ASSUME MishapsTyped(mishaps), NEW h, h = Ended
  PROVE  /\ MishapsTyped(h) /\ h.subscribes = mishaps.subscribes /\ h.ends = mishaps.ends + 1
         /\ (~h.stray => ~mishaps.stray /\ server.consumers = {})
<1>1. DOMAIN mishaps = MishapFields /\ mishaps.subscribes \in Nat /\ mishaps.ends \in Nat
  BY DEF MishapsTyped
<1>2. h = [mishaps EXCEPT !.ends = @ + 1, !.stray = @ \/ server.consumers # {}]
  BY DEF Ended
<1>3. /\ DOMAIN h = MishapFields /\ h.subscribes = mishaps.subscribes /\ h.ends = mishaps.ends + 1
      /\ h.stray = (mishaps.stray \/ server.consumers # {})
  BY <1>1, <1>2 DEF MishapFields
<1>4. ~h.stray => ~mishaps.stray /\ server.consumers = {}
  BY <1>3
<1> QED
  BY <1>1, <1>3, <1>4 DEF MishapsTyped

(* What a step that releases a channel does to the counts: unless it ended *)
(* a channel, none was open.                                               *)
LEMMA ReleaseKeeps ==
  ASSUME RabbitInv, server' = Released, NEW box, inbox' = box,
         NEW c \in {"none", "open", "lost", "closed"}, channel' = c,
         box = <<>> \/ (box = inbox /\ c = "lost"),
         NEW h, mishaps' = h, MishapsTyped(h), h.ends >= mishaps.ends, channel = "open" => h.ends > 0,
         c \in {"lost", "closed"} => h.ends > 0,
         NEW subs, subscribed' = subs, subs \subseteq 1..MaxSubscribes, ~h.stray => subs = {},
         NEW r, rabbitStats' = r, TallyTyped(r), r.consumed = rabbitStats.consumed, r.published = rabbitStats.published,
         r.acknowledged = rabbitStats.acknowledged,
         NEW sent, sentAs' = sent, sent \in [RabbitMessages -> {"pending", "sent", "failed"}],
         \A m \in RabbitMessages : sent[m] = "sent" <=> sentAs[m] = "sent",
         enableAck' = enableAck, settled' = settled, handled' = handled
  PROVE  RabbitInv'
<1>1. PICK v : v = Released
  OBVIOUS
<1>2. /\ ServerTyped(v) /\ v.unacked = <<>> /\ v.consumers = {} /\ QueueOK(v, settled)
      /\ Range(v.ready) = Range(server.ready) \cup About(server.unacked)
      /\ (server.unacked = <<>> => Range(v.ready) = Range(server.ready))
  BY <1>1, ReleasedIs DEF RabbitInv
<1>3. RabbitTyped /\ ChannelOK(channel, server, inbox, mishaps, settled, subscribed)
      /\ CountsOK(rabbitStats, server, inbox, mishaps, settled, handled, sentAs)
  BY DEF RabbitInv
<1>4. /\ IsInjective(<<>>) /\ Range(<<>>) = {} /\ About(<<>>) = {} /\ Len(<<>>) = 0 /\ <<>> \in Seq(Parcels)
  BY EmptyList
<1>5. box \in Seq(Parcels) /\ IsInjective(box) /\ About(box) \subseteq settled.routed
  <2>1. inbox \in Seq(Parcels) /\ IsInjective(inbox) /\ About(inbox) \subseteq settled.routed
    BY <1>3 DEF RabbitTyped, ChannelOK
  <2> QED
    BY <1>4, <2>1
<1>6. RabbitTyped'
  <2>1. handled \in [RabbitMessages -> Nat] /\ DOMAIN settled = {"acked", "dropped", "routed"}
    BY <1>3 DEF RabbitTyped
  <2> QED
    BY <1>1, <1>2, <1>5, <2>1 DEF RabbitTyped
<1>7. ChannelOK(c, v, box, h, settled, subs)
  <2>1. c \in {"none", "open", "closed"} => box = <<>>
    OBVIOUS
  <2>2. c = "open" => Range(box) \subseteq Range(v.unacked)
    BY <1>4, <2>1
  <2> QED
    BY <1>2, <1>5, <2>1, <2>2 DEF ChannelOK
<1>8. CountsOK(r, v, box, h, settled, handled, sent)
  <2>1. /\ (\A m \in settled.routed : sentAs[m] = "sent")
        /\ (\A m \in settled.acked : handled[m] > 0 /\ enableAck)
        /\ (\A m \in RabbitMessages : handled[m] > 0 => m \in settled.routed)
        /\ (mishaps.ends = 0 => \A m \in RabbitMessages : handled[m] <= 1 /\ (handled[m] > 0 => m \notin About(inbox) /\ m \notin Range(server.ready)))
        /\ rabbitStats.consumed = SumOf(RabbitMessages, handled)
        /\ rabbitStats.published = Cardinality({m \in RabbitMessages : sentAs[m] = "sent"})
        /\ (mishaps.ends = 0 /\ ~enableAck => rabbitStats.consumed + Len(inbox) = Len(server.unacked))
        /\ (enableAck /\ mishaps.ends = 0 => rabbitStats.acknowledged = Cardinality(settled.acked))
    BY <1>3 DEF CountsOK
  <2>2. ASSUME h.ends = 0
        PROVE  mishaps.ends = 0 /\ channel = "none" /\ inbox = <<>> /\ box = <<>> /\ server.unacked = <<>>
    <3>1. mishaps.ends \in Nat /\ h.ends \in Nat
      BY <1>3 DEF RabbitTyped, MishapsTyped
    <3>2. mishaps.ends = 0 /\ channel # "open"
      BY <2>2, <3>1
    <3>3. channel = "none"
      BY <1>3, <3>2 DEF ChannelOK
    <3> QED
      BY <1>3, <3>2, <3>3 DEF ChannelOK
  <2>3. h.ends = 0 => \A m \in RabbitMessages : handled[m] <= 1 /\ (handled[m] > 0 => m \notin About(box) /\ m \notin Range(v.ready))
    BY <1>2, <1>4, <2>1, <2>2
  <2>4. h.ends = 0 /\ ~enableAck => r.consumed + Len(box) = Len(v.unacked)
    BY <1>2, <2>1, <2>2
  <2>5. \A m \in settled.routed : sent[m] = "sent"
    BY <1>2, <2>1 DEF QueueOK
  <2>6. {m \in RabbitMessages : sentAs[m] = "sent"} = {m \in RabbitMessages : sent[m] = "sent"}
    OBVIOUS
  <2>7. enableAck /\ h.ends = 0 => r.acknowledged = Cardinality(settled.acked)
    BY <2>1, <2>2
  <2> QED
    BY <2>1, <2>3, <2>4, <2>5, <2>6, <2>7 DEF CountsOK
<1> QED
  BY <1>1, <1>2, <1>6, <1>7, <1>8 DEF RabbitInv, CountsOK

LEMMA NobodySubscribed ==
  ASSUME RabbitInv, ~mishaps.stray, server.consumers = {} \/ channel # "open" PROVE subscribed = {}
<1>1. ChannelOK(channel, server, inbox, mishaps, settled, subscribed)
  BY DEF RabbitInv
<1> QED
  BY <1>1 DEF ChannelOK

LEMMA RabbitKnows ==
  ASSUME RabbitInv
  PROVE  /\ TallyTyped(rabbitStats) /\ MishapsTyped(mishaps) /\ ServerTyped(server)
         /\ sentAs \in [RabbitMessages -> {"pending", "sent", "failed"}] /\ handled \in [RabbitMessages -> Nat]
         /\ subscribed \subseteq 1..MaxSubscribes /\ inbox \in Seq(Parcels)
         /\ channel \in {"none", "open", "lost", "closed"}
         /\ (channel \in {"lost", "closed"} => mishaps.ends > 0)
         /\ (inbox # <<>> => channel \in {"open", "lost"})
         /\ mishaps.ends \in Nat
         /\ DOMAIN settled = {"acked", "dropped", "routed"}
BY DEF RabbitInv, RabbitTyped, ChannelOK, MishapsTyped

LEMMA RabbitConnectKeeps ==
  ASSUME RabbitInv, RabbitConnect PROVE RabbitInv'
<1>1. PICK h, b : h = mishaps' /\ b = IF channel = "open" THEN Ended ELSE mishaps
  OBVIOUS
<1>2. h = [b EXCEPT !.connects = @ + 1]
  BY <1>1 DEF RabbitConnect
<1>3. MishapsTyped(mishaps) /\ mishaps.ends \in Nat /\ channel \in {"none", "open", "lost", "closed"}
  BY RabbitKnows
<1>4. MishapsTyped(b) /\ b.ends >= mishaps.ends /\ (channel = "open" => b.ends > 0) /\ (~b.stray => subscribed = {})
  <2>1. CASE channel = "open"
    <3>1. b = Ended
      BY <1>1, <2>1
    <3>2. MishapsTyped(b) /\ b.ends = mishaps.ends + 1 /\ (~b.stray => ~mishaps.stray /\ server.consumers = {})
      BY <1>3, <3>1, EndedIs
    <3> QED
      BY <1>3, <2>1, <3>2, NobodySubscribed
  <2>2. CASE channel # "open"
    <3>1. b = mishaps
      BY <1>1, <2>2
    <3> QED
      BY <1>3, <2>2, <3>1, NobodySubscribed
  <2> QED
    BY <2>1, <2>2
<1>5. MishapsTyped(h) /\ h.ends = b.ends /\ h.stray = b.stray
  <2>1. DOMAIN b = MishapFields /\ b.subscribes \in Nat /\ b.ends \in Nat
    BY <1>4 DEF MishapsTyped
  <2>2. DOMAIN h = MishapFields /\ h.subscribes = b.subscribes /\ h.ends = b.ends /\ h.stray = b.stray
    BY <1>2, <2>1 DEF MishapFields
  <2> QED
    BY <2>1, <2>2 DEF MishapsTyped
<1>6. /\ channel' = "open" /\ inbox' = <<>> /\ server' = Released /\ subscribed' = subscribed /\ rabbitStats' = rabbitStats
      /\ sentAs' = sentAs /\ enableAck' = enableAck /\ settled' = settled /\ handled' = handled
  BY DEF RabbitConnect
<1>7. PICK subs, r, sent : subs = subscribed /\ r = rabbitStats /\ sent = sentAs
  OBVIOUS
<1>8. /\ subs \subseteq 1..MaxSubscribes /\ TallyTyped(r) /\ sent \in [RabbitMessages -> {"pending", "sent", "failed"}]
  BY <1>7, RabbitKnows
<1>9. h.ends >= mishaps.ends /\ (channel = "open" => h.ends > 0) /\ (~h.stray => subs = {})
  BY <1>4, <1>5, <1>7
<1>10. <<>> = <<>> \/ (<<>> = inbox /\ "open" = "lost")
  OBVIOUS
<1> QED
  BY <1>1, <1>5, <1>6, <1>7, <1>8, <1>9, ReleaseKeeps

(* The channel ends while it was open or lost.                             *)
LEMMA EndKeeps ==
  ASSUME RabbitInv, server' = Released, NEW box, inbox' = box, NEW c \in {"lost", "closed"}, channel' = c,
         box = <<>> \/ (box = inbox /\ c = "lost"), mishaps' = Ended,
         subscribed' = subscribed, rabbitStats' = rabbitStats, sentAs' = sentAs, enableAck' = enableAck,
         settled' = settled, handled' = handled
  PROVE  RabbitInv'
<1>1. PICK h : h = Ended
  OBVIOUS
<1>2. MishapsTyped(mishaps) /\ mishaps.ends \in Nat
  BY RabbitKnows
<1>3. MishapsTyped(h) /\ h.ends = mishaps.ends + 1 /\ (~h.stray => ~mishaps.stray /\ server.consumers = {})
  BY <1>1, <1>2, EndedIs
<1>4. h.ends >= mishaps.ends /\ h.ends > 0 /\ (~h.stray => subscribed = {})
  BY <1>2, <1>3, NobodySubscribed
<1>5. PICK subs, r, sent : subs = subscribed /\ r = rabbitStats /\ sent = sentAs
  OBVIOUS
<1>6. /\ subs \subseteq 1..MaxSubscribes /\ TallyTyped(r) /\ sent \in [RabbitMessages -> {"pending", "sent", "failed"}]
  BY <1>5, RabbitKnows
<1> QED
  BY <1>1, <1>3, <1>4, <1>5, <1>6, ReleaseKeeps

(* A call fails: the channel is closed, if there is one.                   *)
LEMMA FailKeeps ==
  ASSUME RabbitInv, ChannelFails, mishaps.ends > 0 \/ channel = "none", channel # "open",
         mishaps' = mishaps, subscribed' = subscribed,
         NEW r, rabbitStats' = r, TallyTyped(r), r.consumed = rabbitStats.consumed, r.published = rabbitStats.published,
         r.acknowledged = rabbitStats.acknowledged,
         NEW sent, sentAs' = sent, sent \in [RabbitMessages -> {"pending", "sent", "failed"}],
         \A m \in RabbitMessages : sent[m] = "sent" <=> sentAs[m] = "sent",
         enableAck' = enableAck, settled' = settled, handled' = handled
  PROVE  RabbitInv'
<1>1. PICK c, h, subs : c = channel' /\ h = mishaps /\ subs = subscribed
  OBVIOUS
<1>2. /\ server' = Released /\ inbox' = <<>> /\ c \in {"none", "closed"} /\ (c = "closed" => mishaps.ends > 0)
  BY <1>1 DEF ChannelFails
<1>3. MishapsTyped(h) /\ h.ends \in Nat /\ subs \subseteq 1..MaxSubscribes
  BY <1>1, RabbitKnows
<1>4. h.ends >= mishaps.ends /\ (~h.stray => subs = {}) /\ (c \in {"lost", "closed"} => h.ends > 0)
  BY <1>1, <1>2, <1>3, NobodySubscribed
<1>5. c \in {"none", "open", "lost", "closed"}
  BY <1>2
<1> QED
  BY <1>1, <1>2, <1>3, <1>4, <1>5, ReleaseKeeps

LEMMA DisconnectKeeps ==
  ASSUME RabbitInv, RabbitDisconnect PROVE RabbitInv'
<1>1. /\ server' = Released /\ inbox' = <<>> /\ channel' = "closed" /\ mishaps' = Ended /\ subscribed' = subscribed
      /\ rabbitStats' = rabbitStats /\ sentAs' = sentAs /\ enableAck' = enableAck /\ settled' = settled /\ handled' = handled
  BY DEF RabbitDisconnect, ChannelFails
<1> QED
  BY <1>1, EndKeeps

LEMMA LoseKeeps ==
  ASSUME RabbitInv, LoseConnection PROVE RabbitInv'
<1>1. /\ server' = Released /\ inbox' = inbox /\ channel' = "lost" /\ mishaps' = Ended /\ subscribed' = subscribed
      /\ rabbitStats' = rabbitStats /\ sentAs' = sentAs /\ enableAck' = enableAck /\ settled' = settled /\ handled' = handled
  BY DEF LoseConnection
<1>2. PICK box : box = inbox
  OBVIOUS
<1> QED
  BY <1>1, <1>2, EndKeeps

LEMMA TalliedIs ==
  ASSUME TallyTyped(rabbitStats), NEW x \in TallyFields, NEW r, r = Tallied(x)
  PROVE  TallyTyped(r) /\ r[x] = rabbitStats[x] + 1 /\ \A y \in TallyFields \ {x} : r[y] = rabbitStats[y]
<1>1. DOMAIN rabbitStats = TallyFields /\ \A y \in TallyFields : rabbitStats[y] \in Nat
  BY DEF TallyTyped
<1>2. DOMAIN r = TallyFields /\ r[x] = rabbitStats[x] + 1 /\ \A y \in TallyFields \ {x} : r[y] = rabbitStats[y]
  BY <1>1 DEF Tallied
<1> QED
  BY <1>1, <1>2 DEF TallyTyped

LEMMA RabbitPublishKeeps ==
  ASSUME RabbitInv, NEW m \in RabbitMessages, RabbitPublish(m) PROVE RabbitInv'
<1>1. /\ sentAs[m] # "sent" /\ enableAck' = enableAck /\ subscribed' = subscribed /\ handled' = handled /\ mishaps' = mishaps
  BY DEF RabbitPublish
<1>2. /\ TallyTyped(rabbitStats) /\ MishapsTyped(mishaps) /\ ServerTyped(server)
      /\ sentAs \in [RabbitMessages -> {"pending", "sent", "failed"}] /\ handled \in [RabbitMessages -> Nat]
      /\ channel \in {"none", "open", "lost", "closed"}
      /\ (channel \in {"lost", "closed"} => mishaps.ends > 0)
  BY RabbitKnows
<1>3. CASE channel = "none" /\ UNCHANGED <<channel, inbox, server, rabbitStats, sentAs, settled>>
  BY <1>1, <1>3 DEF RabbitInv, RabbitTyped, CountsOK
<1>4. CASE channel \in {"closed", "lost"} /\ ChannelFails /\ rabbitStats' = Tallied("failed")
           /\ sentAs' = [sentAs EXCEPT ![m] = "failed"] /\ UNCHANGED settled
  <2>1. PICK r, sent : r = Tallied("failed") /\ sent = [sentAs EXCEPT ![m] = "failed"]
    OBVIOUS
  <2>2. TallyTyped(r) /\ \A y \in TallyFields \ {"failed"} : r[y] = rabbitStats[y]
    BY <1>2, <2>1, TalliedIs DEF TallyFields
  <2>3. r.consumed = rabbitStats.consumed /\ r.published = rabbitStats.published /\ r.acknowledged = rabbitStats.acknowledged
    BY <2>2 DEF TallyFields
  <2>4. sent \in [RabbitMessages -> {"pending", "sent", "failed"}] /\ \A x \in RabbitMessages : sent[x] = "sent" <=> sentAs[x] = "sent"
    BY <1>1, <1>2, <2>1
  <2>5. rabbitStats' = r /\ sentAs' = sent /\ settled' = settled /\ mishaps.ends > 0 /\ channel # "open" /\ ChannelFails
    BY <1>2, <1>4, <2>1
  <2> QED
    BY <1>1, <2>2, <2>3, <2>4, <2>5, FailKeeps
<1>5. CASE /\ channel \in {"open", "lost"} /\ rabbitStats' = Tallied("published") /\ sentAs' = [sentAs EXCEPT ![m] = "sent"]
           /\ IF channel = "open" /\ server.bound
              THEN /\ server' = [server EXCEPT !.ready = Append(@, m)]
                   /\ settled' = [settled EXCEPT !.routed = @ \cup {m}]
              ELSE UNCHANGED <<server, settled>>
           /\ UNCHANGED <<channel, inbox>>
  <2>1. PICK r, sent, v, g, routed : /\ r = rabbitStats' /\ sent = sentAs' /\ v = server' /\ g = settled'
                                     /\ routed = (channel = "open" /\ server.bound)
    OBVIOUS
  <2>2. TallyTyped(r) /\ r.published = rabbitStats.published + 1 /\ \A y \in TallyFields \ {"published"} : r[y] = rabbitStats[y]
    <3>1. "published" \in TallyFields /\ r = Tallied("published")
      BY <1>5, <2>1 DEF TallyFields
    <3> QED
      BY <1>2, <3>1, TalliedIs
  <2>3. r.consumed = rabbitStats.consumed /\ r.acknowledged = rabbitStats.acknowledged
    BY <2>2 DEF TallyFields
  <2>4. /\ sent \in [RabbitMessages -> {"pending", "sent", "failed"}] /\ sent[m] = "sent"
        /\ \A x \in RabbitMessages \ {m} : sent[x] = sentAs[x]
    BY <1>2, <1>5, <2>1
  <2>5. QueueOK(server, settled) /\ ChannelOK(channel, server, inbox, mishaps, settled, subscribed)
        /\ CountsOK(rabbitStats, server, inbox, mishaps, settled, handled, sentAs) /\ RabbitTyped
    BY DEF RabbitInv
  <2>6. m \notin settled.routed
    BY <1>1, <2>5 DEF CountsOK
  <2>7. handled[m] = 0
    BY <1>2, <2>5, <2>6 DEF CountsOK
  <2>8. r.published = Cardinality({x \in RabbitMessages : sent[x] = "sent"})
    <3>1. PICK A : A = {x \in RabbitMessages : sentAs[x] = "sent"}
      OBVIOUS
    <3>2. IsFiniteSet(A) /\ m \notin A
      <4>1. A \subseteq RabbitMessages
        BY <3>1
      <4> QED
        BY <1>1, <3>1, <4>1, FS_Subset, RabbitAssumption
    <3>3. Cardinality(A \cup {m}) = Cardinality(A) + 1
      BY <3>2, FS_AddElement
    <3>4. {x \in RabbitMessages : sent[x] = "sent"} = A \cup {m}
      BY <2>4, <3>1
    <3>5. rabbitStats.published = Cardinality(A)
      BY <2>5, <3>1 DEF CountsOK
    <3> QED
      BY <2>2, <3>3, <3>4, <3>5
  <2>9. /\ ServerTyped(v) /\ v.unacked = server.unacked /\ v.consumers = server.consumers /\ QueueOK(v, g)
        /\ DOMAIN g = {"acked", "dropped", "routed"} /\ g.acked = settled.acked /\ g.dropped = settled.dropped
        /\ settled.routed \subseteq g.routed /\ g.routed \subseteq settled.routed \cup {m}
        /\ Range(v.ready) \subseteq Range(server.ready) \cup {m}
    <3>1. DOMAIN settled = {"acked", "dropped", "routed"} /\ DOMAIN server = ServerFields /\ server.ready \in Seq(RabbitMessages)
      BY <1>2, <2>5 DEF RabbitTyped, ServerTyped
    <3>2. CASE channel = "open" /\ server.bound
      <4>1. v = [server EXCEPT !.ready = Append(@, m)] /\ g = [settled EXCEPT !.routed = @ \cup {m}]
        BY <1>5, <2>1, <3>2
      <4>2. /\ DOMAIN v = ServerFields /\ v.ready = Append(server.ready, m) /\ v.unacked = server.unacked
            /\ v.consumers = server.consumers /\ v.queue = server.queue /\ v.bound = server.bound
        BY <3>1, <4>1 DEF ServerFields
      <4>3. /\ DOMAIN g = {"acked", "dropped", "routed"} /\ g.acked = settled.acked /\ g.dropped = settled.dropped
            /\ g.routed = settled.routed \cup {m}
        BY <3>1, <4>1
      <4>4. v.ready \in Seq(RabbitMessages) /\ Range(v.ready) = Range(server.ready) \cup {m}
        BY <3>1, <4>2, Appended
      <4>5. ServerTyped(v)
        BY <1>2, <4>2, <4>4 DEF ServerTyped
      <4>6. m \notin Range(server.ready) \cup About(server.unacked) \cup settled.acked \cup settled.dropped
        BY <2>5, <2>6 DEF QueueOK
      <4>7. IsInjective(v.ready)
        BY <2>5, <3>1, <4>2, <4>6, AppendedOnce DEF QueueOK
      <4>8. QueueOK(v, g)
        BY <2>5, <3>2, <4>2, <4>3, <4>4, <4>6, <4>7 DEF QueueOK
      <4> QED
        BY <4>2, <4>3, <4>4, <4>5, <4>8
    <3>3. CASE ~(channel = "open" /\ server.bound)
      <4>1. v = server /\ g = settled
        BY <1>5, <2>1, <3>3
      <4> QED
        BY <1>2, <2>5, <3>1, <4>1
    <3> QED
      BY <3>2, <3>3
  <2>10. ChannelOK(channel, v, inbox, mishaps, g, subscribed)
    BY <2>5, <2>9 DEF ChannelOK
  <2>11. CountsOK(r, v, inbox, mishaps, g, handled, sent)
    <3>1. \A x \in g.routed : sent[x] = "sent"
      <4>1. \A x \in settled.routed : sentAs[x] = "sent" /\ x \in RabbitMessages
        BY <2>5 DEF CountsOK, QueueOK
      <4> QED
        BY <2>4, <2>9, <4>1
    <3>2. mishaps.ends = 0 => \A x \in RabbitMessages : handled[x] <= 1 /\ (handled[x] > 0 => x \notin About(inbox) /\ x \notin Range(v.ready))
      BY <2>5, <2>7, <2>9 DEF CountsOK
    <3>3. /\ (\A x \in g.acked : handled[x] > 0 /\ enableAck)
          /\ (\A x \in RabbitMessages : handled[x] > 0 => x \in g.routed)
          /\ r.consumed = SumOf(RabbitMessages, handled)
          /\ (mishaps.ends = 0 /\ ~enableAck => r.consumed + Len(inbox) = Len(v.unacked))
          /\ (enableAck /\ mishaps.ends = 0 => r.acknowledged = Cardinality(g.acked))
      BY <2>3, <2>5, <2>9 DEF CountsOK
    <3> QED
      BY <2>8, <3>1, <3>2, <3>3 DEF CountsOK
  <2>12. RabbitTyped'
    BY <1>1, <1>5, <2>1, <2>2, <2>4, <2>5, <2>9 DEF RabbitTyped
  <2> QED
    BY <1>1, <1>5, <2>1, <2>9, <2>10, <2>11, <2>12 DEF RabbitInv, CountsOK
<1> QED
  BY <1>3, <1>4, <1>5 DEF RabbitPublish

LEMMA QueueFails ==
  ASSUME RabbitInv, ChannelFails, mishaps' = IF channel = "open" THEN Ended ELSE mishaps,
         subscribed' = subscribed, rabbitStats' = rabbitStats, sentAs' = sentAs, enableAck' = enableAck,
         settled' = settled, handled' = handled
  PROVE  RabbitInv'
<1>1. channel \in {"none", "open", "lost", "closed"} /\ (channel \in {"lost", "closed"} => mishaps.ends > 0)
  BY RabbitKnows
<1>2. CASE channel = "open"
  <2>1. server' = Released /\ inbox' = <<>> /\ channel' = "closed" /\ mishaps' = Ended
    BY <1>2 DEF ChannelFails
  <2> QED
    BY <2>1, EndKeeps
<1>3. CASE channel # "open"
  <2>1. mishaps.ends > 0 \/ channel = "none"
    BY <1>1, <1>3
  <2>2. mishaps' = mishaps
    BY <1>3
  <2>3. PICK r, sent : r = rabbitStats /\ sent = sentAs
    OBVIOUS
  <2>4. TallyTyped(r) /\ sent \in [RabbitMessages -> {"pending", "sent", "failed"}]
    BY <2>3, RabbitKnows
  <2> QED
    BY <1>3, <2>1, <2>2, <2>3, <2>4, FailKeeps
<1> QED
  BY <1>2, <1>3

(* The queue is declared or bound: what it holds stays.                    *)
LEMMA QueueKept ==
  ASSUME RabbitInv, NEW v, server' = v, DOMAIN v = ServerFields, v.ready = server.ready, v.unacked = server.unacked,
         v.consumers = server.consumers, v.bound => v.queue # "none", ~v.bound => ~server.bound,
         channel' = channel, inbox' = inbox, mishaps' = mishaps,
         subscribed' = subscribed, rabbitStats' = rabbitStats, sentAs' = sentAs, enableAck' = enableAck,
         settled' = settled, handled' = handled
  PROVE  RabbitInv'
<1>1. QueueOK(server, settled) /\ ChannelOK(channel, server, inbox, mishaps, settled, subscribed)
      /\ CountsOK(rabbitStats, server, inbox, mishaps, settled, handled, sentAs) /\ RabbitTyped
  BY DEF RabbitInv
<1>2. ServerTyped(v) /\ QueueOK(v, settled)
  BY <1>1 DEF RabbitTyped, ServerTyped, QueueOK
<1>3. ChannelOK(channel, v, inbox, mishaps, settled, subscribed)
  BY <1>1 DEF ChannelOK
<1>4. CountsOK(rabbitStats, v, inbox, mishaps, settled, handled, sentAs)
  BY <1>1 DEF CountsOK
<1>5. RabbitTyped'
  BY <1>1, <1>2 DEF RabbitTyped
<1> QED
  BY <1>2, <1>3, <1>4, <1>5 DEF RabbitInv, CountsOK

LEMMA DeclareKeeps ==
  ASSUME RabbitInv, NEW kind \in {"durable", "transient"}, DeclareQueue(kind) PROVE RabbitInv'
<1>1. PICK v : v = [server EXCEPT !.queue = kind]
  OBVIOUS
<1>2. /\ \/ channel = "open" /\ server' = v /\ channel' = channel /\ inbox' = inbox /\ mishaps' = mishaps
         \/ ChannelFails /\ mishaps' = IF channel = "open" THEN Ended ELSE mishaps
      /\ subscribed' = subscribed /\ rabbitStats' = rabbitStats /\ sentAs' = sentAs /\ enableAck' = enableAck
      /\ settled' = settled /\ handled' = handled
  BY <1>1 DEF DeclareQueue, OnQueue
<1>3. DOMAIN server = ServerFields /\ QueueOK(server, settled)
  BY DEF RabbitInv, RabbitTyped, ServerTyped
<1>4. /\ DOMAIN v = ServerFields /\ v.ready = server.ready /\ v.unacked = server.unacked
      /\ v.consumers = server.consumers /\ v.bound = server.bound /\ v.queue = kind
  BY <1>1, <1>3 DEF ServerFields
<1>5. CASE channel = "open" /\ server' = v /\ channel' = channel /\ inbox' = inbox /\ mishaps' = mishaps
  BY <1>2, <1>4, <1>5, QueueKept
<1>6. CASE ChannelFails /\ mishaps' = IF channel = "open" THEN Ended ELSE mishaps
  BY <1>2, <1>6, QueueFails
<1> QED
  BY <1>2, <1>5, <1>6

LEMMA BindKeeps ==
  ASSUME RabbitInv, BindQueue PROVE RabbitInv'
<1>1. PICK v : v = [server EXCEPT !.bound = TRUE]
  OBVIOUS
<1>2. /\ \/ server.queue # "none" /\ server' = v /\ channel' = channel /\ inbox' = inbox /\ mishaps' = mishaps
         \/ ChannelFails /\ mishaps' = IF channel = "open" THEN Ended ELSE mishaps
      /\ subscribed' = subscribed /\ rabbitStats' = rabbitStats /\ sentAs' = sentAs /\ enableAck' = enableAck
      /\ settled' = settled /\ handled' = handled
  BY <1>1 DEF BindQueue, OnQueue
<1>3. DOMAIN server = ServerFields
  BY DEF RabbitInv, RabbitTyped, ServerTyped
<1>4. /\ DOMAIN v = ServerFields /\ v.ready = server.ready /\ v.unacked = server.unacked
      /\ v.consumers = server.consumers /\ v.bound = TRUE /\ v.queue = server.queue
  BY <1>1, <1>3 DEF ServerFields
<1>5. CASE server.queue # "none" /\ server' = v /\ channel' = channel /\ inbox' = inbox /\ mishaps' = mishaps
  BY <1>2, <1>4, <1>5, QueueKept
<1>6. CASE ChannelFails /\ mishaps' = IF channel = "open" THEN Ended ELSE mishaps
  BY <1>2, <1>6, QueueFails
<1> QED
  BY <1>2, <1>5, <1>6

LEMMA PurgeKeeps ==
  ASSUME RabbitInv, PurgeQueue PROVE RabbitInv'
<1>1. PICK v, g : v = server' /\ g = settled'
  OBVIOUS
<1>2. /\ \/ /\ channel = "open" /\ server.queue # "none" /\ v = [server EXCEPT !.ready = <<>>]
            /\ channel' = channel /\ inbox' = inbox /\ mishaps' = mishaps
         \/ /\ ~(channel = "open" /\ server.queue # "none")
            /\ ChannelFails /\ mishaps' = IF channel = "open" THEN Ended ELSE mishaps
      /\ subscribed' = subscribed /\ rabbitStats' = rabbitStats /\ sentAs' = sentAs /\ enableAck' = enableAck
      /\ handled' = handled
      /\ g = IF channel = "open" /\ server.queue # "none"
             THEN [settled EXCEPT !.dropped = @ \cup ToSet(server.ready)] ELSE settled
  BY <1>1 DEF PurgeQueue, OnQueue
<1>3. CASE ~(channel = "open" /\ server.queue # "none")
  BY <1>1, <1>2, <1>3, QueueFails
<1>4. CASE channel = "open" /\ server.queue # "none"
  <2>1. /\ v = [server EXCEPT !.ready = <<>>] /\ channel' = channel /\ inbox' = inbox /\ mishaps' = mishaps
        /\ g = [settled EXCEPT !.dropped = @ \cup Range(server.ready)]
    BY <1>2, <1>4 DEF ToSet, Range
  <2>2. QueueOK(server, settled) /\ ChannelOK(channel, server, inbox, mishaps, settled, subscribed)
        /\ CountsOK(rabbitStats, server, inbox, mishaps, settled, handled, sentAs) /\ RabbitTyped
    BY DEF RabbitInv
  <2>3. DOMAIN server = ServerFields /\ DOMAIN settled = {"acked", "dropped", "routed"} /\ ServerTyped(server)
    BY <2>2 DEF RabbitTyped, ServerTyped
  <2>4. /\ DOMAIN v = ServerFields /\ v.ready = <<>> /\ v.unacked = server.unacked
        /\ v.consumers = server.consumers /\ v.queue = server.queue /\ v.bound = server.bound
    BY <2>1, <2>3 DEF ServerFields
  <2>5. /\ DOMAIN g = {"acked", "dropped", "routed"} /\ g.acked = settled.acked /\ g.routed = settled.routed
        /\ g.dropped = settled.dropped \cup Range(server.ready)
    BY <2>1, <2>3
  <2>6. <<>> \in Seq(RabbitMessages) /\ IsInjective(<<>>) /\ Range(<<>>) = {}
    BY EmptyList
  <2>7. ServerTyped(v)
    BY <2>3, <2>4, <2>6 DEF ServerTyped
  <2>8. QueueOK(v, g)
    <3>1. /\ settled.routed = Range(server.ready) \cup About(server.unacked) \cup settled.acked \cup settled.dropped
          /\ Range(server.ready) \cap (About(server.unacked) \cup settled.acked \cup settled.dropped) = {}
          /\ About(server.unacked) \cap (settled.acked \cup settled.dropped) = {} /\ settled.acked \cap settled.dropped = {}
      BY <2>2 DEF QueueOK
    <3>2. /\ g.routed = {} \cup About(v.unacked) \cup g.acked \cup g.dropped
          /\ About(v.unacked) \cap (g.acked \cup g.dropped) = {} /\ g.acked \cap g.dropped = {}
      BY <2>4, <2>5, <3>1
    <3> QED
      BY <2>2, <2>4, <2>5, <2>6, <3>2 DEF QueueOK
  <2>9. ChannelOK(channel, v, inbox, mishaps, g, subscribed)
    BY <2>2, <2>4, <2>5 DEF ChannelOK
  <2>10. CountsOK(rabbitStats, v, inbox, mishaps, g, handled, sentAs)
    BY <2>2, <2>4, <2>5, <2>6 DEF CountsOK
  <2>11. RabbitTyped'
    BY <1>1, <1>2, <2>1, <2>2, <2>5, <2>7 DEF RabbitTyped
  <2> QED
    BY <1>1, <1>2, <2>1, <2>8, <2>9, <2>10, <2>11 DEF RabbitInv, CountsOK
<1> QED
  BY <1>3, <1>4

LEMMA RabbitSubscribeKeeps ==
  ASSUME RabbitInv, RabbitSubscribe PROVE RabbitInv'
<1>1. PICK s, yes, called : /\ s = mishaps.subscribes + 1 /\ yes = (channel = "open" /\ server.queue # "none")
                            /\ called = [mishaps EXCEPT !.subscribes = s, !.stray = @ \/ ~yes]
  OBVIOUS
<1>2. /\ s <= MaxSubscribes /\ subscribed' = subscribed \cup {s}
      /\ rabbitStats' = rabbitStats /\ sentAs' = sentAs /\ enableAck' = enableAck /\ settled' = settled /\ handled' = handled
      /\ IF channel = "open" /\ server.queue # "none"
         THEN /\ server' = [server EXCEPT !.consumers = @ \cup {s}]
              /\ mishaps' = called /\ channel' = channel /\ inbox' = inbox
         ELSE /\ ChannelFails
              /\ mishaps' = [called EXCEPT !.ends = @ + IF channel = "open" THEN 1 ELSE 0]
  BY <1>1 DEF RabbitSubscribe
<1>3. DOMAIN mishaps = MishapFields /\ mishaps.subscribes \in Nat /\ mishaps.ends \in Nat
      /\ channel \in {"none", "open", "lost", "closed"} /\ (channel \in {"lost", "closed"} => mishaps.ends > 0)
      /\ subscribed \subseteq 1..MaxSubscribes
  BY RabbitKnows DEF MishapsTyped
<1>4. s \in 1..MaxSubscribes /\ subscribed \cup {s} \subseteq 1..MaxSubscribes /\ s \in Nat
  BY <1>1, <1>2, <1>3, RabbitAssumption
<1>5. /\ DOMAIN called = MishapFields /\ called.subscribes = s /\ called.ends = mishaps.ends
      /\ called.stray = (mishaps.stray \/ ~yes)
  BY <1>1, <1>3 DEF MishapFields
<1>6. CASE channel = "open" /\ server.queue # "none"
  <2>1. PICK v : v = [server EXCEPT !.consumers = @ \cup {s}]
    OBVIOUS
  <2>2. server' = v /\ mishaps' = called /\ channel' = channel /\ inbox' = inbox
    BY <1>2, <1>6, <2>1
  <2>3. QueueOK(server, settled) /\ ChannelOK(channel, server, inbox, mishaps, settled, subscribed)
        /\ CountsOK(rabbitStats, server, inbox, mishaps, settled, handled, sentAs) /\ RabbitTyped
    BY DEF RabbitInv
  <2>4. DOMAIN server = ServerFields /\ ServerTyped(server)
    BY <2>3 DEF RabbitTyped, ServerTyped
  <2>5. /\ DOMAIN v = ServerFields /\ v.ready = server.ready /\ v.unacked = server.unacked
        /\ v.consumers = server.consumers \cup {s} /\ v.queue = server.queue /\ v.bound = server.bound
    BY <2>1, <2>4 DEF ServerFields
  <2>6. ServerTyped(v) /\ QueueOK(v, settled)
    <3>1. ServerTyped(v)
      BY <1>4, <2>4, <2>5 DEF ServerTyped
    <3>2. QueueOK(v, settled)
      BY <2>3, <2>5 DEF QueueOK
    <3> QED
      BY <3>1, <3>2
  <2>7. ~called.stray => ~mishaps.stray
    BY <1>5
  <2>8. ChannelOK(channel, v, inbox, called, settled, subscribed \cup {s})
    BY <1>5, <1>6, <2>3, <2>5, <2>7 DEF ChannelOK
  <2>9. CountsOK(rabbitStats, v, inbox, called, settled, handled, sentAs)
    BY <1>5, <2>3, <2>5 DEF CountsOK
  <2>10. MishapsTyped(called)
    BY <1>3, <1>4, <1>5 DEF MishapsTyped
  <2>11. RabbitTyped'
    BY <1>2, <1>4, <2>2, <2>3, <2>6, <2>10 DEF RabbitTyped
  <2> QED
    BY <1>2, <2>2, <2>6, <2>8, <2>9, <2>11 DEF RabbitInv, CountsOK
<1>7. CASE ~(channel = "open" /\ server.queue # "none")
  <2>1. PICK h, c, subs, r, sent : /\ h = [called EXCEPT !.ends = @ + IF channel = "open" THEN 1 ELSE 0]
                                   /\ c = channel' /\ subs = subscribed \cup {s} /\ r = rabbitStats /\ sent = sentAs
    OBVIOUS
  <2>2. ChannelFails /\ mishaps' = h
    BY <1>2, <1>7, <2>1
  <2>3. /\ DOMAIN h = MishapFields /\ h.subscribes = s /\ h.stray = called.stray
        /\ h.ends = mishaps.ends + IF channel = "open" THEN 1 ELSE 0
    BY <1>5, <2>1 DEF MishapFields
  <2>4. h.stray = TRUE
    BY <1>1, <1>5, <1>7, <2>3
  <2>5. server' = Released /\ inbox' = <<>> /\ c \in {"none", "open", "lost", "closed"} /\ c = IF channel = "none" THEN "none" ELSE "closed"
    BY <2>1, <2>2 DEF ChannelFails
  <2>6. /\ h.ends \in Nat /\ h.ends >= mishaps.ends /\ (channel = "open" => h.ends > 0) /\ (c \in {"lost", "closed"} => h.ends > 0)
    BY <1>3, <2>3, <2>5
  <2>7. MishapsTyped(h)
    BY <1>4, <2>3, <2>6 DEF MishapsTyped
  <2>8. TallyTyped(r) /\ sent \in [RabbitMessages -> {"pending", "sent", "failed"}]
    BY <2>1, RabbitKnows
  <2>9. subs \subseteq 1..MaxSubscribes /\ (~h.stray => subs = {}) /\ subscribed' = subs /\ rabbitStats' = r /\ sentAs' = sent
        /\ r.consumed = rabbitStats.consumed /\ r.published = rabbitStats.published /\ r.acknowledged = rabbitStats.acknowledged
        /\ \A m \in RabbitMessages : sent[m] = "sent" <=> sentAs[m] = "sent"
    BY <1>2, <1>4, <2>1, <2>4
  <2>10. channel' = c /\ enableAck' = enableAck /\ settled' = settled /\ handled' = handled
    BY <1>2, <2>1
  <2> QED
    BY <2>2, <2>5, <2>6, <2>7, <2>8, <2>9, <2>10, ReleaseKeeps
<1> QED
  BY <1>6, <1>7

LEMMA RabbitUnsubscribeKeeps ==
  ASSUME RabbitInv, NEW s, RabbitUnsubscribe(s) PROVE RabbitInv'
<1>1. PICK h, subs : h = [mishaps EXCEPT !.stray = TRUE] /\ subs = subscribed \ {s}
  OBVIOUS
<1>2. /\ mishaps' = h /\ subscribed' = subs /\ channel' = channel /\ server' = server /\ inbox' = inbox
      /\ rabbitStats' = rabbitStats /\ sentAs' = sentAs /\ enableAck' = enableAck /\ settled' = settled /\ handled' = handled
  BY <1>1 DEF RabbitUnsubscribe
<1>3. QueueOK(server, settled) /\ ChannelOK(channel, server, inbox, mishaps, settled, subscribed)
      /\ CountsOK(rabbitStats, server, inbox, mishaps, settled, handled, sentAs) /\ RabbitTyped
  BY DEF RabbitInv
<1>4. DOMAIN mishaps = MishapFields /\ mishaps.subscribes \in Nat /\ mishaps.ends \in Nat
  BY <1>3 DEF RabbitTyped, MishapsTyped
<1>5. DOMAIN h = MishapFields /\ h.subscribes = mishaps.subscribes /\ h.ends = mishaps.ends /\ h.stray = TRUE
  BY <1>1, <1>4 DEF MishapFields
<1>6. ChannelOK(channel, server, inbox, h, settled, subs)
  BY <1>3, <1>5 DEF ChannelOK
<1>7. CountsOK(rabbitStats, server, inbox, h, settled, handled, sentAs)
  BY <1>3, <1>5 DEF CountsOK
<1>8. RabbitTyped'
  BY <1>1, <1>2, <1>3, <1>4, <1>5 DEF RabbitTyped, MishapsTyped
<1> QED
  BY <1>2, <1>3, <1>6, <1>7, <1>8 DEF RabbitInv, CountsOK

-----------------------------------------------------------------------------
(* What is delivered, and what a consumer does with it.                    *)
LEMMA HeldCounts ==
  ASSUME NEW u \in Seq(Parcels), IsInjective(u), NEW s
  PROVE  /\ Cardinality({i \in DOMAIN u : u[i].s = s}) = Cardinality(OfConsumer(u, s))
         /\ IsFiniteSet(OfConsumer(u, s)) /\ Cardinality(OfConsumer(u, s)) \in Nat
<1>1. DOMAIN u = 1..Len(u) /\ Len(u) \in Nat
  OBVIOUS
<1>2. PICK A, B, f : A = {i \in DOMAIN u : u[i].s = s} /\ B = OfConsumer(u, s) /\ f = [i \in A |-> u[i]]
  OBVIOUS
<1>3. IsFiniteSet(A)
  <2>1. IsFiniteSet(1..Len(u))
    BY <1>1, FS_Interval
  <2> QED
    BY <1>1, <1>2, <2>1, FS_Subset
<1>4. f \in Bijection(A, B)
  <2>1. \A i \in A : f[i] \in B
    BY <1>2 DEF OfConsumer, Range
  <2>2. \A x \in B : \E i \in A : f[i] = x
    BY <1>2 DEF OfConsumer, Range
  <2>3. \A i, j \in A : f[i] = f[j] => i = j
    BY <1>2 DEF IsInjective
  <2>4. f \in [A -> B]
    BY <1>2, <2>1
  <2> QED
    BY <2>2, <2>3, <2>4 DEF Bijection, Injection, Surjection, IsInjective
<1>5. ExistsBijection(A, B)
  BY <1>4 DEF ExistsBijection
<1>6. IsFiniteSet(B) /\ Cardinality(B) = Cardinality(A)
  BY <1>3, <1>5, FS_Bijection
<1> QED
  BY <1>2, <1>6, FS_CardinalityType

LEMMA Withheld ==
  ASSUME NEW u \in Seq(Parcels), IsInjective(u), \A x, y \in Range(u) : x.m = y.m => x = y, NEW d \in Range(u),
         NEW w, w = Only(u, Range(u) \ {d})
  PROVE  /\ w \in Seq(Parcels) /\ IsInjective(w) /\ Range(w) = Range(u) \ {d} /\ Len(w) = Len(u) - 1
         /\ About(w) = About(u) \ {d.m} /\ d.m \in About(u)
         /\ \A s : OfConsumer(w, s) \subseteq OfConsumer(u, s)
<1>1. w \in Seq(Parcels) /\ Range(w) = Range(u) \cap (Range(u) \ {d})
  BY OnlyRange
<1>2. IsInjective(w)
  BY OnlyOnce
<1>3. Range(w) = Range(u) \ {d}
  BY <1>1
<1>4. Len(w) = Len(u) - 1
  <2>1. /\ IsFiniteSet(Range(u)) /\ Cardinality(Range(u)) = Len(u)
    BY RangeCounts
  <2>2. Cardinality(Range(w)) = Len(w)
    BY <1>1, <1>2, RangeCounts
  <2>3. Cardinality(Range(u) \ {d}) = Cardinality(Range(u)) - 1
    BY <2>1, FS_RemoveElement
  <2> QED
    BY <1>3, <2>1, <2>2, <2>3
<1>5. About(w) = About(u) \ {d.m}
  BY <1>3 DEF About
<1>6. d.m \in About(u)
  BY DEF About
<1>7. \A s : OfConsumer(w, s) \subseteq OfConsumer(u, s)
  BY <1>3 DEF OfConsumer
<1> QED
  BY <1>1, <1>2, <1>3, <1>4, <1>5, <1>6, <1>7

LEMMA DeliverKeeps ==
  ASSUME RabbitInv, NEW s \in 1..MaxSubscribes, Deliver(s) PROVE RabbitInv'
<1>1. PICK d, u, r : d = [m |-> Head(server.ready), s |-> s] /\ u = server.unacked /\ r = server.ready
  OBVIOUS
<1>2. /\ channel = "open" /\ r # <<>> /\ HeldFor(s) < Prefetch
      /\ server' = [server EXCEPT !.ready = Tail(@), !.unacked = Append(@, d)] /\ inbox' = Append(inbox, d)
      /\ channel' = channel /\ mishaps' = mishaps /\ subscribed' = subscribed /\ rabbitStats' = rabbitStats
      /\ sentAs' = sentAs /\ enableAck' = enableAck /\ settled' = settled /\ handled' = handled
  BY <1>1 DEF Deliver
<1>3. QueueOK(server, settled) /\ ChannelOK(channel, server, inbox, mishaps, settled, subscribed)
      /\ CountsOK(rabbitStats, server, inbox, mishaps, settled, handled, sentAs) /\ RabbitTyped
  BY DEF RabbitInv
<1>4. /\ DOMAIN server = ServerFields /\ ServerTyped(server) /\ r \in Seq(RabbitMessages) /\ u \in Seq(Parcels)
      /\ inbox \in Seq(Parcels)
  BY <1>1, <1>3 DEF RabbitTyped, ServerTyped
<1>5. PICK v, box, m : v = server' /\ box = inbox' /\ m = Head(r)
  OBVIOUS
<1>6. /\ DOMAIN v = ServerFields /\ v.ready = Tail(r) /\ v.unacked = Append(u, d)
      /\ v.consumers = server.consumers /\ v.queue = server.queue /\ v.bound = server.bound
  BY <1>1, <1>2, <1>4, <1>5 DEF ServerFields
<1>7. /\ IsInjective(r) /\ IsInjective(u) /\ (\A x, y \in Range(u) : x.m = y.m => x = y)
      /\ settled.routed = Range(r) \cup About(u) \cup settled.acked \cup settled.dropped
      /\ settled.routed \subseteq RabbitMessages
      /\ Range(r) \cap (About(u) \cup settled.acked \cup settled.dropped) = {}
      /\ About(u) \cap (settled.acked \cup settled.dropped) = {} /\ settled.acked \cap settled.dropped = {}
  BY <1>1, <1>3 DEF QueueOK
<1>8. /\ Tail(r) \in Seq(RabbitMessages) /\ IsInjective(Tail(r)) /\ Range(Tail(r)) = Range(r) \ {m} /\ m \in RabbitMessages
      /\ m \in Range(r)
  BY <1>2, <1>4, <1>5, <1>7, Shortened, TailOnce
<1>9. d \in Parcels /\ d.m = m /\ d.s = s
  BY <1>1, <1>5, <1>8 DEF Parcels
<1>10. m \notin About(u) /\ d \notin Range(u)
  <2>1. m \notin About(u)
    BY <1>7, <1>8
  <2> QED
    BY <1>9, <2>1 DEF About
<1>11. /\ v.unacked \in Seq(Parcels) /\ Range(v.unacked) = Range(u) \cup {d} /\ Len(v.unacked) = Len(u) + 1
       /\ IsInjective(v.unacked)
  BY <1>4, <1>6, <1>7, <1>9, <1>10, Appended, AppendedOnce
<1>12. /\ IsInjective(inbox) /\ Range(inbox) \subseteq Range(u)
  BY <1>1, <1>2, <1>3 DEF ChannelOK
<1>13. /\ box \in Seq(Parcels) /\ Range(box) = Range(inbox) \cup {d} /\ Len(box) = Len(inbox) + 1
       /\ IsInjective(box)
  <2>1. d \notin Range(inbox)
    BY <1>10, <1>12
  <2> QED
    BY <1>2, <1>4, <1>5, <1>9, <1>12, <2>1, Appended, AppendedOnce
<1>14. About(v.unacked) = About(u) \cup {m} /\ About(box) = About(inbox) \cup {m}
  BY <1>9, <1>11, <1>13 DEF About
<1>15. \A x, y \in Range(v.unacked) : x.m = y.m => x = y
  <2>1. \A x \in Range(u) : x.m # m
    BY <1>10 DEF About
  <2> QED
    BY <1>7, <1>9, <1>11, <2>1
<1>16. \A z \in 1..MaxSubscribes : Cardinality(OfConsumer(v.unacked, z)) <= Prefetch
  <2>1. SUFFICES ASSUME NEW z \in 1..MaxSubscribes PROVE Cardinality(OfConsumer(v.unacked, z)) <= Prefetch
    OBVIOUS
  <2>2. IsFiniteSet(OfConsumer(u, z)) /\ Cardinality(OfConsumer(u, z)) \in Nat /\ Cardinality(OfConsumer(u, z)) <= Prefetch
    <3>1. IsFiniteSet(OfConsumer(u, z)) /\ Cardinality(OfConsumer(u, z)) \in Nat
      BY <1>4, <1>7, HeldCounts
    <3> QED
      BY <1>1, <1>3, <3>1 DEF QueueOK
  <2>3. CASE z = s
    <3>1. HeldFor(s) = Cardinality(OfConsumer(u, s))
      <4>1. Cardinality({i \in DOMAIN u : u[i].s = s}) = Cardinality(OfConsumer(u, s))
        BY <1>4, <1>7, HeldCounts
      <4> QED
        BY <1>1, <4>1 DEF HeldFor
    <3>2. OfConsumer(v.unacked, z) = OfConsumer(u, z) \cup {d}
      BY <1>9, <1>11, <2>3 DEF OfConsumer
    <3>3. Cardinality(OfConsumer(u, z) \cup {d}) <= Cardinality(OfConsumer(u, z)) + 1
      BY <2>2, FS_AddElement
    <3>4. Cardinality(OfConsumer(u, z)) < Prefetch /\ Prefetch \in Nat
      BY <1>2, <2>3, <3>1, RabbitAssumption
    <3>5. Cardinality(OfConsumer(u, z) \cup {d}) \in Nat
      BY <2>2, FS_AddElement, FS_CardinalityType
    <3> QED
      BY <2>2, <3>2, <3>3, <3>4, <3>5
  <2>4. CASE z # s
    <3>1. OfConsumer(v.unacked, z) = OfConsumer(u, z)
      BY <1>9, <1>11, <2>4 DEF OfConsumer
    <3> QED
      BY <2>2, <3>1
  <2> QED
    BY <2>3, <2>4
<1>17. QueueOK(v, settled)
  <2>1. /\ settled.routed = Range(v.ready) \cup About(v.unacked) \cup settled.acked \cup settled.dropped
        /\ Range(v.ready) \cap (About(v.unacked) \cup settled.acked \cup settled.dropped) = {}
        /\ About(v.unacked) \cap (settled.acked \cup settled.dropped) = {}
    BY <1>6, <1>7, <1>8, <1>14
  <2>2. (v.bound => v.queue # "none") /\ (~v.bound => settled.routed = {})
    BY <1>3, <1>6 DEF QueueOK
  <2> QED
    BY <1>6, <1>7, <1>8, <1>11, <1>15, <1>16, <2>1, <2>2 DEF QueueOK
<1>18. ChannelOK(channel, v, box, mishaps, settled, subscribed)
  <2>1. m \in settled.routed
    BY <1>7, <1>8
  <2> QED
    BY <1>2, <1>3, <1>6, <1>11, <1>12, <1>13, <1>14, <2>1 DEF ChannelOK
<1>19. CountsOK(rabbitStats, v, box, mishaps, settled, handled, sentAs)
  <2>1. /\ (\A x \in settled.routed : sentAs[x] = "sent")
        /\ (\A x \in settled.acked : handled[x] > 0 /\ enableAck)
        /\ (\A x \in RabbitMessages : handled[x] > 0 => x \in settled.routed)
        /\ rabbitStats.consumed = SumOf(RabbitMessages, handled)
        /\ rabbitStats.published = Cardinality({x \in RabbitMessages : sentAs[x] = "sent"})
        /\ (enableAck /\ mishaps.ends = 0 => rabbitStats.acknowledged = Cardinality(settled.acked))
    BY <1>3 DEF CountsOK
  <2>2. mishaps.ends = 0 => \A x \in RabbitMessages : handled[x] <= 1 /\ (handled[x] > 0 => x \notin About(box) /\ x \notin Range(v.ready))
    BY <1>1, <1>3, <1>6, <1>8, <1>14 DEF CountsOK
  <2>3. mishaps.ends = 0 /\ ~enableAck => rabbitStats.consumed + Len(box) = Len(v.unacked)
    <3>1. PICK i, j, k : i = rabbitStats.consumed /\ j = Len(inbox) /\ k = Len(u)
      OBVIOUS
    <3>2. i \in Nat /\ j \in Nat /\ k \in Nat
      BY <1>3, <1>4, <3>1 DEF RabbitTyped, TallyTyped, TallyFields
    <3>3. mishaps.ends = 0 /\ ~enableAck => i + j = k
      BY <1>1, <1>3, <3>1 DEF CountsOK
    <3>4. mishaps.ends = 0 /\ ~enableAck => i + (j + 1) = k + 1
      BY <3>2, <3>3
    <3> QED
      BY <1>11, <1>13, <3>1, <3>4
  <2> QED
    BY <2>1, <2>2, <2>3 DEF CountsOK
<1>20. ServerTyped(v)
  BY <1>4, <1>6, <1>8, <1>11 DEF ServerTyped
<1>21. RabbitTyped'
  BY <1>2, <1>3, <1>5, <1>13, <1>20 DEF RabbitTyped
<1> QED
  BY <1>2, <1>5, <1>17, <1>18, <1>19, <1>21 DEF RabbitInv, CountsOK

(* The time to live of the message at the head is over.                    *)
LEMMA ExpiresKeeps ==
  ASSUME RabbitInv, RabbitExpires PROVE RabbitInv'
<1>1. PICK v, g, r, m : v = server' /\ g = settled' /\ r = server.ready /\ m = Head(server.ready)
  OBVIOUS
<1>2. /\ r # <<>> /\ v = [server EXCEPT !.ready = Tail(@)] /\ g = [settled EXCEPT !.dropped = @ \cup {m}]
      /\ channel' = channel /\ mishaps' = mishaps /\ subscribed' = subscribed /\ rabbitStats' = rabbitStats
      /\ sentAs' = sentAs /\ enableAck' = enableAck /\ inbox' = inbox /\ handled' = handled
  BY <1>1 DEF RabbitExpires
<1>3. QueueOK(server, settled) /\ ChannelOK(channel, server, inbox, mishaps, settled, subscribed)
      /\ CountsOK(rabbitStats, server, inbox, mishaps, settled, handled, sentAs) /\ RabbitTyped
  BY DEF RabbitInv
<1>4. /\ DOMAIN server = ServerFields /\ ServerTyped(server) /\ r \in Seq(RabbitMessages)
      /\ DOMAIN settled = {"acked", "dropped", "routed"}
  BY <1>1, <1>3 DEF RabbitTyped, ServerTyped
<1>5. /\ DOMAIN v = ServerFields /\ v.ready = Tail(r) /\ v.unacked = server.unacked
      /\ v.consumers = server.consumers /\ v.queue = server.queue /\ v.bound = server.bound
  BY <1>1, <1>2, <1>4 DEF ServerFields
<1>6. /\ DOMAIN g = {"acked", "dropped", "routed"} /\ g.acked = settled.acked /\ g.routed = settled.routed
      /\ g.dropped = settled.dropped \cup {m}
  BY <1>2, <1>4
<1>7. /\ IsInjective(r)
      /\ settled.routed = Range(r) \cup About(server.unacked) \cup settled.acked \cup settled.dropped
      /\ Range(r) \cap (About(server.unacked) \cup settled.acked \cup settled.dropped) = {}
      /\ About(server.unacked) \cap (settled.acked \cup settled.dropped) = {} /\ settled.acked \cap settled.dropped = {}
  BY <1>1, <1>3 DEF QueueOK
<1>8. /\ Tail(r) \in Seq(RabbitMessages) /\ IsInjective(Tail(r)) /\ Range(Tail(r)) = Range(r) \ {m} /\ m \in Range(r)
  BY <1>1, <1>2, <1>4, <1>7, Shortened, TailOnce
<1>9. ServerTyped(v)
  BY <1>4, <1>5, <1>8 DEF ServerTyped
<1>10. QueueOK(v, g)
  <2>1. /\ g.routed = Range(v.ready) \cup About(v.unacked) \cup g.acked \cup g.dropped
        /\ Range(v.ready) \cap (About(v.unacked) \cup g.acked \cup g.dropped) = {}
        /\ About(v.unacked) \cap (g.acked \cup g.dropped) = {} /\ g.acked \cap g.dropped = {}
    BY <1>5, <1>6, <1>7, <1>8
  <2> QED
    BY <1>3, <1>5, <1>6, <1>8, <2>1 DEF QueueOK
<1>11. ChannelOK(channel, v, inbox, mishaps, g, subscribed)
  BY <1>3, <1>5, <1>6 DEF ChannelOK
<1>12. CountsOK(rabbitStats, v, inbox, mishaps, g, handled, sentAs)
  <2>1. Range(v.ready) \subseteq Range(server.ready)
    BY <1>1, <1>5, <1>8
  <2> QED
    BY <1>3, <1>5, <1>6, <2>1 DEF CountsOK
<1>13. RabbitTyped'
  BY <1>1, <1>2, <1>3, <1>6, <1>9 DEF RabbitTyped
<1> QED
  BY <1>1, <1>2, <1>10, <1>11, <1>12, <1>13 DEF RabbitInv, CountsOK

LEMMA InboxHead ==
  ASSUME RabbitInv, inbox # <<>>, NEW d, d = Head(inbox), NEW rest, rest = Tail(inbox)
  PROVE  /\ d \in Parcels /\ d.m \in RabbitMessages /\ d.m \in settled.routed
         /\ rest \in Seq(Parcels) /\ IsInjective(rest) /\ Len(rest) = Len(inbox) - 1 /\ Len(inbox) \in Nat
         /\ Range(rest) = Range(inbox) \ {d} /\ About(rest) \subseteq About(inbox)
         /\ channel \in {"open", "lost"} /\ (channel = "lost" => mishaps.ends > 0 /\ server.unacked = <<>>)
         /\ (channel = "open" => /\ d \in Range(server.unacked) /\ Range(inbox) \subseteq Range(server.unacked)
                                 /\ d.m \notin About(rest) /\ d.m \in About(server.unacked)
                                 /\ d.m \notin Range(server.ready) /\ d.m \notin settled.acked)
         /\ (mishaps.ends = 0 => handled[d.m] = 0)
<1>1. QueueOK(server, settled) /\ ChannelOK(channel, server, inbox, mishaps, settled, subscribed)
      /\ CountsOK(rabbitStats, server, inbox, mishaps, settled, handled, sentAs) /\ RabbitTyped
  BY DEF RabbitInv
<1>2. inbox \in Seq(Parcels) /\ IsInjective(inbox) /\ Len(inbox) \in Nat
  BY <1>1 DEF RabbitTyped, ChannelOK
<1>3. /\ rest \in Seq(Parcels) /\ IsInjective(rest) /\ Range(rest) = Range(inbox) \ {d} /\ d \in Parcels
      /\ Len(rest) = Len(inbox) - 1 /\ d \in Range(inbox) /\ d \notin Range(rest)
  BY <1>2, Shortened, TailOnce
<1>4. d.m \in About(inbox) /\ About(rest) \subseteq About(inbox)
  BY <1>3 DEF About
<1>5. d.m \in settled.routed /\ d.m \in RabbitMessages
  BY <1>1, <1>4 DEF ChannelOK, QueueOK
<1>6. channel \in {"open", "lost"} /\ (channel = "lost" => mishaps.ends > 0 /\ server.unacked = <<>>)
  BY <1>1 DEF ChannelOK
<1>7. ASSUME channel = "open"
      PROVE  /\ d \in Range(server.unacked) /\ Range(inbox) \subseteq Range(server.unacked)
             /\ d.m \notin About(rest) /\ d.m \in About(server.unacked)
             /\ d.m \notin Range(server.ready) /\ d.m \notin settled.acked
  <2>1. Range(inbox) \subseteq Range(server.unacked) /\ d \in Range(server.unacked)
    BY <1>1, <1>3, <1>7 DEF ChannelOK
  <2>2. d.m \in About(server.unacked)
    BY <2>1 DEF About
  <2>3. d.m \notin About(rest)
    <3>1. SUFFICES ASSUME NEW x \in Range(rest), x.m = d.m PROVE FALSE
      BY DEF About
    <3>2. x \in Range(server.unacked)
      BY <1>3, <2>1, <3>1
    <3>3. x = d
      BY <1>1, <2>1, <3>1, <3>2 DEF QueueOK
    <3> QED
      BY <1>3, <3>1, <3>3
  <2>4. d.m \notin Range(server.ready) /\ d.m \notin settled.acked
    BY <1>1, <2>2 DEF QueueOK
  <2> QED
    BY <2>1, <2>2, <2>3, <2>4
<1>8. mishaps.ends = 0 => handled[d.m] = 0
  <2>1. handled[d.m] \in Nat
    BY <1>1, <1>5 DEF RabbitTyped
  <2> QED
    BY <1>1, <1>4, <1>5, <2>1 DEF CountsOK
<1> QED
  BY <1>2, <1>3, <1>4, <1>5, <1>6, <1>7, <1>8

(* A callback returned: it is counted.                                     *)
LEMMA Handles ==
  ASSUME RabbitInv, NEW m \in RabbitMessages, NEW hd, hd = [handled EXCEPT ![m] = @ + 1],
         NEW r, DOMAIN r = TallyFields, r.failed \in Nat, r.consumed = rabbitStats.consumed + 1,
         r.acknowledged = rabbitStats.acknowledged + 1, r.published = rabbitStats.published
  PROVE  /\ hd \in [RabbitMessages -> Nat] /\ hd[m] = handled[m] + 1 /\ handled[m] \in Nat
         /\ \A x \in RabbitMessages \ {m} : hd[x] = handled[x]
         /\ TallyTyped(r) /\ r.consumed = SumOf(RabbitMessages, hd) /\ r.consumed = rabbitStats.consumed + 1
         /\ r.acknowledged = rabbitStats.acknowledged + 1 /\ r.published = rabbitStats.published
         /\ rabbitStats.consumed \in Nat /\ rabbitStats.acknowledged \in Nat
<1>1. TallyTyped(rabbitStats) /\ handled \in [RabbitMessages -> Nat] /\ rabbitStats.consumed = SumOf(RabbitMessages, handled)
  BY DEF RabbitInv, RabbitTyped, CountsOK
<1>2. DOMAIN rabbitStats = TallyFields /\ \A x \in TallyFields : rabbitStats[x] \in Nat
  BY <1>1 DEF TallyTyped
<1>3. /\ hd \in [RabbitMessages -> Nat] /\ hd[m] = handled[m] + 1 /\ handled[m] \in Nat
      /\ \A x \in RabbitMessages \ {m} : hd[x] = handled[x]
  BY <1>1
<1>6. rabbitStats.consumed \in Nat /\ rabbitStats.acknowledged \in Nat /\ rabbitStats.failed \in Nat /\ rabbitStats.published \in Nat
  BY <1>2 DEF TallyFields
<1>7. TallyTyped(r)
  <2>1. r.consumed \in Nat /\ r.acknowledged \in Nat /\ r.published \in Nat
    BY <1>6
  <2> QED
    BY <2>1 DEF TallyTyped, TallyFields
<1>8. SumOf(RabbitMessages, hd) = SumOf(RabbitMessages, handled) + 1
  <2>1. PICK S, f : S = RabbitMessages /\ f = handled
    OBVIOUS
  <2>2. IsFiniteSet(S) /\ f \in [S -> Int] /\ hd \in [S -> Int] /\ m \in S /\ \A x \in S \ {m} : hd[x] = f[x]
    BY <1>1, <1>3, <2>1, RabbitAssumption
  <2>3. SumOf(S, f) \in Int /\ SumOf(S, hd) = SumOf(S, f) + (hd[m] - f[m])
    <3>1. PICK v : v = hd
      OBVIOUS
    <3>2. v \in [S -> Int] /\ \A x \in S \ {m} : v[x] = f[x]
      BY <2>2, <3>1
    <3>3. SumOf(S, f) \in Int /\ SumOf(S, v) = SumOf(S, f) + (v[m] - f[m])
      BY <2>2, <3>2, SumChanges
    <3> QED
      BY <3>1, <3>3
  <2>4. hd[m] - f[m] = 1
    BY <1>3, <2>1
  <2> QED
    BY <2>1, <2>3, <2>4
<1> QED
  BY <1>1, <1>3, <1>6, <1>7, <1>8

LEMMA ConsumedKeeps ==
  ASSUME RabbitInv, Consumed PROVE RabbitInv'
<1>1. PICK d, rest, hd, r : /\ d = Head(inbox) /\ rest = Tail(inbox) /\ hd = [handled EXCEPT ![d.m] = @ + 1]
                            /\ r = rabbitStats'
  OBVIOUS
<1>2. PICK tallied : tallied = [rabbitStats EXCEPT !.consumed = @ + 1, !.acknowledged = @ + 1]
  OBVIOUS
<1>3. /\ inbox # <<>> /\ handled' = hd
      /\ \/ /\ IF enableAck THEN Acks(d) ELSE UNCHANGED <<channel, server, settled>>
            /\ r = tallied /\ inbox' = rest
         \/ /\ enableAck /\ channel = "lost" /\ r = [tallied EXCEPT !.failed = @ + 1]
            /\ ChannelFails /\ settled' = settled
      /\ enableAck' = enableAck /\ subscribed' = subscribed /\ sentAs' = sentAs /\ mishaps' = mishaps
  BY <1>1, <1>2 DEF Consumed
<1>4. QueueOK(server, settled) /\ ChannelOK(channel, server, inbox, mishaps, settled, subscribed)
      /\ CountsOK(rabbitStats, server, inbox, mishaps, settled, handled, sentAs) /\ RabbitTyped
  BY DEF RabbitInv
<1>5. PICK m : m = d.m
  OBVIOUS
<1>6. /\ d \in Parcels /\ m \in RabbitMessages /\ m \in settled.routed
      /\ rest \in Seq(Parcels) /\ IsInjective(rest) /\ Len(rest) = Len(inbox) - 1 /\ Len(inbox) \in Nat
      /\ Range(rest) = Range(inbox) \ {d} /\ About(rest) \subseteq About(inbox)
      /\ channel \in {"open", "lost"} /\ (channel = "lost" => mishaps.ends > 0 /\ server.unacked = <<>>)
      /\ (channel = "open" => /\ d \in Range(server.unacked) /\ Range(inbox) \subseteq Range(server.unacked)
                              /\ m \notin About(rest) /\ m \in About(server.unacked)
                              /\ m \notin Range(server.ready) /\ m \notin settled.acked)
      /\ (mishaps.ends = 0 => handled[m] = 0)
  BY <1>1, <1>3, <1>5, InboxHead
<1>7. /\ DOMAIN r = TallyFields /\ r.failed \in Nat /\ r.consumed = rabbitStats.consumed + 1
      /\ r.acknowledged = rabbitStats.acknowledged + 1 /\ r.published = rabbitStats.published
  <2>1. DOMAIN rabbitStats = TallyFields /\ rabbitStats.failed \in Nat
    BY <1>4 DEF RabbitTyped, TallyTyped, TallyFields
  <2>2. /\ DOMAIN tallied = TallyFields /\ tallied.failed = rabbitStats.failed /\ tallied.consumed = rabbitStats.consumed + 1
        /\ tallied.acknowledged = rabbitStats.acknowledged + 1 /\ tallied.published = rabbitStats.published
    BY <1>2, <2>1 DEF TallyFields
  <2>3. CASE r = tallied
    BY <2>1, <2>2, <2>3
  <2>4. CASE r = [tallied EXCEPT !.failed = @ + 1]
    BY <2>1, <2>2, <2>4 DEF TallyFields
  <2> QED
    BY <1>3, <2>3, <2>4
<1>8. /\ hd \in [RabbitMessages -> Nat] /\ hd[m] = handled[m] + 1 /\ handled[m] \in Nat
      /\ \A x \in RabbitMessages \ {m} : hd[x] = handled[x]
      /\ TallyTyped(r) /\ r.consumed = SumOf(RabbitMessages, hd) /\ r.consumed = rabbitStats.consumed + 1
      /\ r.acknowledged = rabbitStats.acknowledged + 1 /\ r.published = rabbitStats.published
      /\ rabbitStats.consumed \in Nat /\ rabbitStats.acknowledged \in Nat
  <2>1. hd = [handled EXCEPT ![m] = @ + 1]
    BY <1>1, <1>5
  <2>2. m \in RabbitMessages
    BY <1>6
  <2>3. PICK q : q = r
    OBVIOUS
  <2>4. /\ DOMAIN q = TallyFields /\ q.failed \in Nat /\ q.consumed = rabbitStats.consumed + 1
        /\ q.acknowledged = rabbitStats.acknowledged + 1 /\ q.published = rabbitStats.published
    BY <1>7, <2>3
  <2>5. /\ hd \in [RabbitMessages -> Nat] /\ hd[m] = handled[m] + 1 /\ handled[m] \in Nat
        /\ \A x \in RabbitMessages \ {m} : hd[x] = handled[x]
        /\ rabbitStats.consumed \in Nat /\ rabbitStats.acknowledged \in Nat
    BY <2>1, <2>2, <2>4, Handles
  <2>6. TallyTyped(q) /\ q.consumed = SumOf(RabbitMessages, hd)
    BY <2>1, <2>2, <2>4, Handles
  <2> QED
    BY <1>7, <2>3, <2>5, <2>6
<1>9. /\ (\A x \in settled.routed : sentAs[x] = "sent")
      /\ (\A x \in settled.acked : hd[x] > 0 /\ enableAck)
      /\ (\A x \in RabbitMessages : hd[x] > 0 => x \in settled.routed)
      /\ r.published = Cardinality({x \in RabbitMessages : sentAs[x] = "sent"})
      /\ hd[m] > 0
  <2>1. hd[m] > 0
    BY <1>8
  <2>2. \A x \in settled.acked : hd[x] > 0 /\ enableAck
    <3>1. \A x \in settled.acked : x \in RabbitMessages /\ handled[x] > 0 /\ enableAck
      BY <1>4 DEF QueueOK, CountsOK
    <3> QED
      BY <1>8, <2>1, <3>1
  <2> QED
    BY <1>4, <1>6, <1>8, <2>1, <2>2 DEF CountsOK
<1>10. mishaps.ends = 0 => \A x \in RabbitMessages : hd[x] <= 1 /\ (hd[x] > 0 => x \notin About(rest) /\ x \notin Range(server.ready))
  <2>1. SUFFICES ASSUME mishaps.ends = 0, NEW x \in RabbitMessages
                 PROVE  hd[x] <= 1 /\ (hd[x] > 0 => x \notin About(rest) /\ x \notin Range(server.ready))
    OBVIOUS
  <2>2. CASE x = m
    <3>1. channel = "open" /\ hd[m] = 1
      BY <1>6, <1>8, <2>1
    <3> QED
      BY <1>6, <2>2, <3>1
  <2>3. CASE x # m
    BY <1>4, <1>6, <1>8, <2>1, <2>3 DEF CountsOK
  <2> QED
    BY <2>2, <2>3
<1>11. CASE server' = server /\ settled' = settled /\ channel' = channel /\ inbox' = rest /\ (enableAck => mishaps.ends > 0)
  <2>1. ChannelOK(channel, server, rest, mishaps, settled, subscribed)
    <3>1. channel = "open" => Range(rest) \subseteq Range(server.unacked)
      BY <1>6
    <3>2. About(rest) \subseteq settled.routed
      BY <1>4, <1>6 DEF ChannelOK
    <3>3. channel \notin {"none", "closed"}
      BY <1>6
    <3> QED
      BY <1>4, <1>6, <3>1, <3>2, <3>3 DEF ChannelOK
  <2>2. mishaps.ends = 0 /\ ~enableAck => r.consumed + Len(rest) = Len(server.unacked)
    <3>1. PICK i, j, k : i = rabbitStats.consumed /\ j = Len(inbox) /\ k = Len(server.unacked)
      OBVIOUS
    <3>2. i \in Nat /\ j \in Nat /\ (mishaps.ends = 0 /\ ~enableAck => i + j = k)
      BY <1>4, <1>6, <1>8, <3>1 DEF CountsOK
    <3>3. (i + 1) + (j - 1) = i + j
      BY <3>2
    <3> QED
      BY <1>6, <1>8, <3>1, <3>2, <3>3
  <2>3. CountsOK(r, server, rest, mishaps, settled, hd, sentAs)
    <3>1. ~(enableAck /\ mishaps.ends = 0)
      BY <1>11
    <3> QED
      BY <1>8, <1>9, <1>10, <2>2, <3>1 DEF CountsOK
  <2>4. RabbitTyped'
    BY <1>1, <1>3, <1>4, <1>6, <1>8, <1>11 DEF RabbitTyped
  <2> QED
    BY <1>1, <1>3, <1>4, <1>11, <2>1, <2>3, <2>4 DEF RabbitInv, CountsOK
<1>12. CASE /\ enableAck /\ channel = "open" /\ channel' = channel /\ inbox' = rest
            /\ server' = [server EXCEPT !.unacked = UnackedBut(d)]
            /\ settled' = [settled EXCEPT !.acked = @ \cup {d.m}]
  <2>1. PICK v, g, u : v = server' /\ g = settled' /\ u = server.unacked
    OBVIOUS
  <2>2. DOMAIN server = ServerFields /\ ServerTyped(server) /\ DOMAIN settled = {"acked", "dropped", "routed"} /\ u \in Seq(Parcels)
    BY <1>4, <2>1 DEF RabbitTyped, ServerTyped
  <2>3. /\ DOMAIN v = ServerFields /\ v.ready = server.ready /\ v.unacked = UnackedBut(d)
        /\ v.consumers = server.consumers /\ v.queue = server.queue /\ v.bound = server.bound
    BY <1>12, <2>1, <2>2 DEF ServerFields
  <2>4. /\ DOMAIN g = {"acked", "dropped", "routed"} /\ g.acked = settled.acked \cup {m} /\ g.routed = settled.routed
        /\ g.dropped = settled.dropped
    BY <1>5, <1>12, <2>1, <2>2
  <2>5. /\ v.unacked \in Seq(Parcels) /\ IsInjective(v.unacked) /\ Range(v.unacked) = Range(u) \ {d}
        /\ About(v.unacked) = About(u) \ {m} /\ m \in About(u)
        /\ \A s : OfConsumer(v.unacked, s) \subseteq OfConsumer(u, s)
    <3>1. IsInjective(u) /\ (\A x, y \in Range(u) : x.m = y.m => x = y) /\ d \in Range(u)
      BY <1>4, <1>6, <1>12, <2>1 DEF QueueOK
    <3>2. v.unacked = Only(u, Range(u) \ {d})
      BY <2>1, <2>3 DEF UnackedBut
    <3> QED
      BY <1>5, <2>2, <3>1, <3>2, Withheld
  <2>6. QueueOK(v, g)
    <3>1. /\ settled.routed = Range(server.ready) \cup About(u) \cup settled.acked \cup settled.dropped
          /\ Range(server.ready) \cap (About(u) \cup settled.acked \cup settled.dropped) = {}
          /\ About(u) \cap (settled.acked \cup settled.dropped) = {} /\ settled.acked \cap settled.dropped = {}
          /\ settled.routed \subseteq RabbitMessages /\ IsInjective(server.ready)
          /\ (server.bound => server.queue # "none") /\ (~server.bound => settled.routed = {})
          /\ \A x, y \in Range(u) : x.m = y.m => x = y
      BY <1>4, <2>1 DEF QueueOK
    <3>2. /\ g.routed = Range(v.ready) \cup About(v.unacked) \cup g.acked \cup g.dropped
          /\ Range(v.ready) \cap (About(v.unacked) \cup g.acked \cup g.dropped) = {}
          /\ About(v.unacked) \cap (g.acked \cup g.dropped) = {} /\ g.acked \cap g.dropped = {}
      BY <2>3, <2>4, <2>5, <3>1
    <3>3. ASSUME NEW s \in 1..MaxSubscribes PROVE Cardinality(OfConsumer(v.unacked, s)) <= Prefetch
      <4>1. PICK A, B : A = OfConsumer(u, s) /\ B = OfConsumer(v.unacked, s)
        OBVIOUS
      <4>2. IsFiniteSet(A) /\ Cardinality(A) \in Nat
        <5>1. IsInjective(u)
          BY <1>4, <2>1 DEF QueueOK
        <5> QED
          BY <2>2, <4>1, <5>1, HeldCounts
      <4>3. Cardinality(A) <= Prefetch
        BY <1>4, <2>1, <4>1 DEF QueueOK
      <4>4. B \subseteq A
        BY <2>5, <4>1
      <4>5. Cardinality(B) <= Cardinality(A) /\ Cardinality(B) \in Nat
        BY <4>2, <4>4, FS_Subset, FS_CardinalityType
      <4> QED
        BY <4>1, <4>2, <4>3, <4>5, RabbitAssumption
    <3> QED
      BY <2>3, <2>4, <2>5, <3>1, <3>2, <3>3 DEF QueueOK
  <2>7. ChannelOK(channel, v, rest, mishaps, g, subscribed)
    <3>1. Range(rest) \subseteq Range(v.unacked)
      BY <1>6, <1>12, <2>1, <2>5
    <3>2. About(rest) \subseteq g.routed
      BY <1>4, <1>6, <2>4 DEF ChannelOK
    <3> QED
      BY <1>4, <1>6, <1>12, <2>3, <3>1, <3>2 DEF ChannelOK
  <2>8. mishaps.ends = 0 => r.acknowledged = Cardinality(g.acked)
    <3>1. IsFiniteSet(settled.acked) /\ m \notin settled.acked
      <4>1. settled.acked \subseteq RabbitMessages
        BY <1>4 DEF QueueOK
      <4> QED
        BY <1>6, <1>12, <4>1, FS_Subset, RabbitAssumption
    <3>2. Cardinality(settled.acked \cup {m}) = Cardinality(settled.acked) + 1
      BY <3>1, FS_AddElement
    <3> QED
      BY <1>4, <1>8, <1>12, <2>4, <3>2 DEF CountsOK
  <2>9. CountsOK(r, v, rest, mishaps, g, hd, sentAs)
    BY <1>8, <1>9, <1>10, <1>12, <2>3, <2>4, <2>8 DEF CountsOK
  <2>10. ServerTyped(v)
    BY <2>2, <2>3, <2>5 DEF ServerTyped
  <2>11. RabbitTyped'
    BY <1>1, <1>3, <1>4, <1>6, <1>8, <1>12, <2>1, <2>4, <2>10 DEF RabbitTyped
  <2> QED
    BY <1>1, <1>3, <1>12, <2>1, <2>6, <2>7, <2>9, <2>11 DEF RabbitInv, CountsOK
<1>13. CASE enableAck /\ channel = "lost" /\ ChannelFails /\ settled' = settled
  <2>1. server' = Released /\ inbox' = <<>> /\ channel' = "closed"
    BY <1>13 DEF ChannelFails
  <2>2. PICK v : v = Released
    OBVIOUS
  <2>3. /\ ServerTyped(v) /\ v.unacked = <<>> /\ v.consumers = {} /\ QueueOK(v, settled)
    BY <1>4, <2>2, ReleasedIs
  <2>4. /\ IsInjective(<<>>) /\ Range(<<>>) = {} /\ About(<<>>) = {} /\ <<>> \in Seq(Parcels)
    BY EmptyList
  <2>5. mishaps.ends > 0 /\ (~mishaps.stray => subscribed = {})
    BY <1>4, <1>6, <1>13 DEF ChannelOK
  <2>6. ChannelOK("closed", v, <<>>, mishaps, settled, subscribed)
    BY <2>3, <2>4, <2>5 DEF ChannelOK
  <2>7. mishaps.ends # 0
    BY <1>4, <2>5 DEF RabbitTyped, MishapsTyped
  <2>8. CountsOK(r, v, <<>>, mishaps, settled, hd, sentAs)
    BY <1>8, <1>9, <2>7 DEF CountsOK
  <2>9. RabbitTyped'
    BY <1>1, <1>3, <1>4, <1>8, <1>13, <2>1, <2>2, <2>3, <2>4 DEF RabbitTyped
  <2> QED
    BY <1>1, <1>3, <1>13, <2>1, <2>2, <2>3, <2>6, <2>8, <2>9 DEF RabbitInv, CountsOK
<1>14. CASE inbox' = rest /\ (IF enableAck THEN Acks(d) ELSE UNCHANGED <<channel, server, settled>>)
  <2>1. CASE ~enableAck
    BY <1>11, <1>14, <2>1
  <2>2. CASE enableAck /\ channel = "lost" /\ UNCHANGED <<channel, server, settled>>
    BY <1>6, <1>11, <1>14, <2>2
  <2>3. CASE enableAck /\ channel = "open"
    BY <1>12, <1>14, <2>3 DEF Acks
  <2> QED
    BY <1>6, <1>14, <2>1, <2>2, <2>3 DEF Acks
<1> QED
  BY <1>3, <1>13, <1>14

LEMMA RaisesKeeps ==
  ASSUME RabbitInv, CallbackRaises PROVE RabbitInv'
<1>1. PICK d, rest, r, h : d = Head(inbox) /\ rest = Tail(inbox) /\ r = Tallied("failed") /\ h = [mishaps EXCEPT !.raises = @ + 1]
  OBVIOUS
<1>2. /\ inbox # <<>> /\ mishaps' = h /\ rabbitStats' = r
      /\ \/ Nacks(d) /\ inbox' = rest
         \/ channel = "lost" /\ ChannelFails /\ settled' = settled
      /\ enableAck' = enableAck /\ subscribed' = subscribed /\ sentAs' = sentAs /\ handled' = handled
  BY <1>1 DEF CallbackRaises
<1>3. QueueOK(server, settled) /\ ChannelOK(channel, server, inbox, mishaps, settled, subscribed)
      /\ CountsOK(rabbitStats, server, inbox, mishaps, settled, handled, sentAs) /\ RabbitTyped
  BY DEF RabbitInv
<1>4. DOMAIN mishaps = MishapFields /\ mishaps.subscribes \in Nat /\ mishaps.ends \in Nat /\ TallyTyped(rabbitStats)
  BY <1>3 DEF RabbitTyped, MishapsTyped
<1>5. DOMAIN h = MishapFields /\ h.subscribes = mishaps.subscribes /\ h.ends = mishaps.ends /\ h.stray = mishaps.stray
  BY <1>1, <1>4 DEF MishapFields
<1>6. MishapsTyped(h)
  BY <1>4, <1>5 DEF MishapsTyped
<1>7. TallyTyped(r) /\ r.consumed = rabbitStats.consumed /\ r.published = rabbitStats.published /\ r.acknowledged = rabbitStats.acknowledged
  <2>1. TallyTyped(r) /\ \A y \in TallyFields \ {"failed"} : r[y] = rabbitStats[y]
    BY <1>1, <1>4, TalliedIs DEF TallyFields
  <2> QED
    BY <2>1 DEF TallyFields
<1>8. PICK m : m = d.m
  OBVIOUS
<1>9. /\ d \in Parcels /\ m \in RabbitMessages /\ m \in settled.routed
      /\ rest \in Seq(Parcels) /\ IsInjective(rest) /\ Len(rest) = Len(inbox) - 1 /\ Len(inbox) \in Nat
      /\ Range(rest) = Range(inbox) \ {d} /\ About(rest) \subseteq About(inbox)
      /\ channel \in {"open", "lost"} /\ (channel = "lost" => mishaps.ends > 0 /\ server.unacked = <<>>)
      /\ (channel = "open" => /\ d \in Range(server.unacked) /\ Range(inbox) \subseteq Range(server.unacked)
                              /\ m \notin About(rest) /\ m \in About(server.unacked)
                              /\ m \notin Range(server.ready) /\ m \notin settled.acked)
      /\ (mishaps.ends = 0 => handled[m] = 0)
  BY <1>1, <1>2, <1>8, InboxHead
<1>10. About(rest) \subseteq settled.routed
  BY <1>3, <1>9 DEF ChannelOK
<1>11. CASE channel = "lost" /\ ChannelFails /\ settled' = settled
  <2>1. server' = Released /\ inbox' = <<>> /\ channel' = "closed"
    BY <1>11 DEF ChannelFails
  <2>2. PICK subs, sent : subs = subscribed /\ sent = sentAs
    OBVIOUS
  <2>3. subs \subseteq 1..MaxSubscribes /\ sent \in [RabbitMessages -> {"pending", "sent", "failed"}]
    BY <2>2, RabbitKnows
  <2>4. ~h.stray => subs = {}
    BY <1>5, <1>11, <2>2, NobodySubscribed
  <2>5. h.ends >= mishaps.ends /\ h.ends > 0 /\ channel # "open"
    BY <1>4, <1>5, <1>9, <1>11
  <2> QED
    BY <1>2, <1>6, <1>7, <1>11, <2>1, <2>2, <2>3, <2>4, <2>5, ReleaseKeeps
<1>12. CASE Nacks(d) /\ inbox' = rest /\ channel = "lost"
  <2>1. server' = server /\ settled' = settled /\ channel' = channel
    BY <1>12 DEF Nacks
  <2>2. ChannelOK(channel, server, rest, h, settled, subscribed)
    BY <1>3, <1>5, <1>9, <1>10, <1>12 DEF ChannelOK
  <2>3. CountsOK(r, server, rest, h, settled, handled, sentAs)
    <3>1. h.ends # 0
      BY <1>4, <1>5, <1>9, <1>12
    <3> QED
      BY <1>3, <1>7, <3>1 DEF CountsOK
  <2>4. RabbitTyped'
    BY <1>2, <1>3, <1>6, <1>7, <1>9, <1>12, <2>1 DEF RabbitTyped
  <2> QED
    BY <1>2, <1>3, <1>12, <2>1, <2>2, <2>3, <2>4 DEF RabbitInv, CountsOK
<1>13. CASE Nacks(d) /\ inbox' = rest /\ channel = "open"
  <2>1. PICK v, u : v = server' /\ u = server.unacked
    OBVIOUS
  <2>2. settled' = settled /\ channel' = channel /\ v = [server EXCEPT !.unacked = UnackedBut(d), !.ready = <<d.m>> \o @]
    BY <1>13, <2>1 DEF Nacks
  <2>3. DOMAIN server = ServerFields /\ ServerTyped(server) /\ u \in Seq(Parcels) /\ server.ready \in Seq(RabbitMessages)
    BY <1>3, <2>1 DEF RabbitTyped, ServerTyped
  <2>4. /\ DOMAIN v = ServerFields /\ v.ready = <<m>> \o server.ready /\ v.unacked = UnackedBut(d)
        /\ v.consumers = server.consumers /\ v.queue = server.queue /\ v.bound = server.bound
    BY <1>8, <2>2, <2>3 DEF ServerFields
  <2>5. /\ v.unacked \in Seq(Parcels) /\ IsInjective(v.unacked) /\ Range(v.unacked) = Range(u) \ {d}
        /\ About(v.unacked) = About(u) \ {m} /\ m \in About(u) /\ Len(v.unacked) = Len(u) - 1
        /\ \A s : OfConsumer(v.unacked, s) \subseteq OfConsumer(u, s)
    <3>1. IsInjective(u) /\ (\A x, y \in Range(u) : x.m = y.m => x = y) /\ d \in Range(u)
      BY <1>3, <1>9, <1>13, <2>1 DEF QueueOK
    <3>2. v.unacked = Only(u, Range(u) \ {d})
      BY <2>1, <2>4 DEF UnackedBut
    <3> QED
      BY <1>8, <2>3, <3>1, <3>2, Withheld
  <2>6. v.ready \in Seq(RabbitMessages) /\ Range(v.ready) = Range(server.ready) \cup {m} /\ IsInjective(v.ready)
    <3>1. <<m>> \in Seq(RabbitMessages) /\ Range(<<m>>) = {m} /\ IsInjective(<<m>>)
      BY <1>9 DEF Range, IsInjective
    <3>2. Range(<<m>>) \cap Range(server.ready) = {} /\ IsInjective(server.ready)
      BY <1>3, <1>9, <1>13, <3>1 DEF QueueOK
    <3>3. PICK a, b : a = <<m>> /\ b = server.ready
      OBVIOUS
    <3>4. /\ a \in Seq(RabbitMessages) /\ b \in Seq(RabbitMessages) /\ IsInjective(a) /\ IsInjective(b)
          /\ Range(a) \cap Range(b) = {} /\ Range(a) = {m}
      BY <2>3, <3>1, <3>2, <3>3
    <3>5. a \o b \in Seq(RabbitMessages) /\ Range(a \o b) = Range(a) \cup Range(b)
      BY <3>4, Joined
    <3>6. IsInjective(a \o b)
      BY <3>4, JoinedOnce
    <3> QED
      BY <2>4, <3>3, <3>4, <3>5, <3>6
  <2>7. QueueOK(v, settled)
    <3>1. /\ settled.routed = Range(server.ready) \cup About(u) \cup settled.acked \cup settled.dropped
          /\ Range(server.ready) \cap (About(u) \cup settled.acked \cup settled.dropped) = {}
          /\ About(u) \cap (settled.acked \cup settled.dropped) = {} /\ settled.acked \cap settled.dropped = {}
          /\ settled.routed \subseteq RabbitMessages
          /\ (server.bound => server.queue # "none") /\ (~server.bound => settled.routed = {})
          /\ \A x, y \in Range(u) : x.m = y.m => x = y
      BY <1>3, <2>1 DEF QueueOK
    <3>2. /\ settled.routed = Range(v.ready) \cup About(v.unacked) \cup settled.acked \cup settled.dropped
          /\ Range(v.ready) \cap (About(v.unacked) \cup settled.acked \cup settled.dropped) = {}
          /\ About(v.unacked) \cap (settled.acked \cup settled.dropped) = {}
      BY <2>5, <2>6, <3>1
    <3>3. ASSUME NEW s \in 1..MaxSubscribes PROVE Cardinality(OfConsumer(v.unacked, s)) <= Prefetch
      <4>1. PICK A, B : A = OfConsumer(u, s) /\ B = OfConsumer(v.unacked, s)
        OBVIOUS
      <4>2. IsFiniteSet(A) /\ Cardinality(A) \in Nat
        <5>1. IsInjective(u)
          BY <1>3, <2>1 DEF QueueOK
        <5> QED
          BY <2>3, <4>1, <5>1, HeldCounts
      <4>3. Cardinality(A) <= Prefetch
        BY <1>3, <2>1, <4>1 DEF QueueOK
      <4>4. B \subseteq A
        BY <2>5, <4>1
      <4>5. Cardinality(B) <= Cardinality(A) /\ Cardinality(B) \in Nat
        BY <4>2, <4>4, FS_Subset, FS_CardinalityType
      <4> QED
        BY <4>1, <4>2, <4>3, <4>5, RabbitAssumption
    <3> QED
      BY <2>4, <2>5, <2>6, <3>1, <3>2, <3>3 DEF QueueOK
  <2>8. ChannelOK(channel, v, rest, h, settled, subscribed)
    <3>1. Range(rest) \subseteq Range(v.unacked)
      BY <1>9, <1>13, <2>1, <2>5
    <3> QED
      BY <1>3, <1>5, <1>9, <1>10, <1>13, <2>4, <3>1 DEF ChannelOK
  <2>9. CountsOK(r, v, rest, h, settled, handled, sentAs)
    <3>1. mishaps.ends = 0 => \A x \in RabbitMessages : handled[x] <= 1 /\ (handled[x] > 0 => x \notin About(rest) /\ x \notin Range(v.ready))
      <4>1. mishaps.ends = 0 => ~(handled[m] > 0)
        BY <1>9
      <4> QED
        BY <1>3, <1>9, <2>6, <4>1 DEF CountsOK
    <3>2. mishaps.ends = 0 /\ ~enableAck => r.consumed + Len(rest) = Len(v.unacked)
      <4>1. PICK i, j, k : i = rabbitStats.consumed /\ j = Len(inbox) /\ k = Len(u)
        OBVIOUS
      <4>2. i \in Nat /\ j \in Nat /\ k \in Nat /\ (mishaps.ends = 0 /\ ~enableAck => i + j = k)
        BY <1>3, <1>4, <1>9, <2>1, <2>3, <4>1 DEF CountsOK, TallyTyped, TallyFields
      <4>3. i + j = k => i + (j - 1) = k - 1
        BY <4>2
      <4> QED
        BY <1>7, <1>9, <2>5, <4>1, <4>2, <4>3
    <3> QED
      BY <1>3, <1>5, <1>7, <3>1, <3>2 DEF CountsOK
  <2>10. ServerTyped(v)
    BY <2>3, <2>4, <2>5, <2>6 DEF ServerTyped
  <2>11. RabbitTyped'
    BY <1>2, <1>3, <1>6, <1>7, <1>9, <1>13, <2>1, <2>2, <2>10 DEF RabbitTyped
  <2> QED
    BY <1>2, <1>13, <2>1, <2>2, <2>7, <2>8, <2>9, <2>11 DEF RabbitInv, CountsOK
<1> QED
  BY <1>2, <1>9, <1>11, <1>12, <1>13

LEMMA RabbitSteps ==
  ASSUME RabbitInv, [RabbitNext]_rabbitVars PROVE RabbitInv'
<1>1. CASE RabbitConnect
  BY <1>1, RabbitConnectKeeps
<1>2. CASE RabbitDisconnect
  BY <1>2, DisconnectKeeps
<1>3. CASE LoseConnection
  BY <1>3, LoseKeeps
<1>4. ASSUME NEW m \in RabbitMessages, RabbitPublish(m) PROVE RabbitInv'
  BY <1>4, RabbitPublishKeeps
<1>5. ASSUME NEW kind \in {"durable", "transient"}, DeclareQueue(kind) PROVE RabbitInv'
  BY <1>5, DeclareKeeps
<1>6. CASE BindQueue
  BY <1>6, BindKeeps
<1>7. CASE PurgeQueue
  BY <1>7, PurgeKeeps
<1>8. CASE RabbitSubscribe
  BY <1>8, RabbitSubscribeKeeps
<1>9. ASSUME NEW s \in 1..MaxSubscribes, RabbitUnsubscribe(s) PROVE RabbitInv'
  BY <1>9, RabbitUnsubscribeKeeps
<1>10. ASSUME NEW s \in 1..MaxSubscribes, Deliver(s) PROVE RabbitInv'
  BY <1>10, DeliverKeeps
<1>11. CASE Consumed
  BY <1>11, ConsumedKeeps
<1>12. CASE CallbackRaises
  BY <1>12, RaisesKeeps
<1>13. CASE UNCHANGED rabbitVars
  <2>1. /\ enableAck' = enableAck /\ channel' = channel /\ subscribed' = subscribed /\ rabbitStats' = rabbitStats
        /\ sentAs' = sentAs /\ inbox' = inbox /\ server' = server /\ settled' = settled /\ handled' = handled /\ mishaps' = mishaps
    BY <1>13 DEF rabbitVars
  <2> QED
    BY <2>1 DEF RabbitInv, RabbitTyped, CountsOK
<1>14. CASE RabbitExpires
  BY <1>14, ExpiresKeeps
<1> QED
  BY <1>1, <1>2, <1>3, <1>4, <1>5, <1>6, <1>7, <1>8, <1>9, <1>10, <1>11, <1>12, <1>13, <1>14 DEF RabbitNext

-----------------------------------------------------------------------------
LEMMA HandledSum ==
  ASSUME NEW w \in [RabbitMessages -> Int]
  PROVE  FoldFunction(LAMBDA x, rest : rest + x, 0, w) = SumOf(RabbitMessages, w)
<1> DEFINE S == RabbitMessages
           Folded(f) == f = [s \in SUBSET S |->
                               IF s = {} THEN 0
                               ELSE f[s \ {CHOOSE x \in s : TRUE}] + w[CHOOSE x \in s : TRUE]]
<1>1. FoldFunction(LAMBDA x, rest : rest + x, 0, w) = (CHOOSE f : Folded(f))[S]
  <2>1. DOMAIN w = S
    OBVIOUS
  <2> QED
    BY <2>1 DEF FoldFunction, FoldFunctionOnSet, MapThenFoldSet
<1>2. \A f : Folded(f) <=> Adding(f, S, w)
  BY Zenon DEF Adding, Chosen
<1> HIDE DEF Folded
<1>3. IsFiniteSet(S)
  BY RabbitAssumption
<1>4. PICK f : Adding(f, S, w)
  BY <1>3, SumExists
<1>5. PICK g : g = CHOOSE h : Folded(h)
  OBVIOUS
<1>6. Folded(g)
  BY <1>2, <1>4, <1>5, Zenon
<1>7. SumOf(S, w) = g[S]
  <2>1. Adding(g, S, w)
    BY <1>2, <1>6
  <2> QED
    BY <1>3, <2>1, SumIs
<1> QED
  BY <1>1, <1>5, <1>7

(* No more is held than prefetch_count for each consumer.                  *)
LEMMA HeldInAll ==
  ASSUME NEW u \in Seq(Parcels), IsInjective(u), \A s \in 1..MaxSubscribes : Cardinality(OfConsumer(u, s)) <= Prefetch
  PROVE  Len(u) <= Prefetch * MaxSubscribes /\ Prefetch * MaxSubscribes \in Nat
<1> DEFINE Upto(k) == {x \in Range(u) : x.s \in 1..k}
           T == {k \in Nat : k <= MaxSubscribes => IsFiniteSet(Upto(k)) /\ Cardinality(Upto(k)) <= Prefetch * k}
<1>1. Prefetch \in Nat /\ MaxSubscribes \in Nat
  BY RabbitAssumption
<1>2. IsFiniteSet(Range(u)) /\ Cardinality(Range(u)) = Len(u) /\ \A k : IsFiniteSet(Upto(k)) /\ Cardinality(Upto(k)) \in Nat
  <2>1. IsFiniteSet(Range(u)) /\ Cardinality(Range(u)) = Len(u)
    BY RangeCounts
  <2>2. ASSUME NEW k PROVE IsFiniteSet(Upto(k)) /\ Cardinality(Upto(k)) \in Nat
    <3>1. Upto(k) \subseteq Range(u)
      OBVIOUS
    <3> HIDE DEF Upto
    <3>2. IsFiniteSet(Upto(k))
      BY <2>1, <3>1, FS_Subset
    <3> QED
      BY <3>2, FS_CardinalityType
  <2> QED
    BY <2>1, <2>2
<1>3. T \in SUBSET Nat /\ 0 \in T
  <2>1. Upto(0) = {}
    OBVIOUS
  <2>2. Cardinality({}) = 0 /\ Prefetch * 0 = 0
    BY <1>1, FS_EmptySet
  <2> HIDE DEF Upto
  <2>3. IsFiniteSet(Upto(0)) /\ Cardinality(Upto(0)) <= Prefetch * 0
    <3>1. IsFiniteSet({})
      BY FS_EmptySet
    <3>2. IsFiniteSet(Upto(0)) /\ Cardinality(Upto(0)) = 0
      BY <2>1, <2>2, <3>1, Zenon
    <3> QED
      BY <2>2, <3>2
  <2> QED
    BY <2>3
<1>4. ASSUME NEW k \in T PROVE k + 1 \in T
  <2>1. k \in Nat /\ k + 1 \in Nat
    OBVIOUS
  <2>2. SUFFICES ASSUME k + 1 <= MaxSubscribes PROVE IsFiniteSet(Upto(k + 1)) /\ Cardinality(Upto(k + 1)) <= Prefetch * (k + 1)
    BY <2>1
  <2>3. k + 1 \in 1..MaxSubscribes /\ k <= MaxSubscribes /\ 1..(k + 1) = 1..k \cup {k + 1}
    BY <1>1, <2>1, <2>2
  <2>4. Upto(k + 1) = Upto(k) \cup OfConsumer(u, k + 1)
    BY <2>3 DEF OfConsumer
  <2>5. Cardinality(Upto(k)) <= Prefetch * k
    BY <2>3
  <2> HIDE DEF Upto
  <2>6. PICK A, B : A = Upto(k) /\ B = OfConsumer(u, k + 1)
    OBVIOUS
  <2>7. IsFiniteSet(B) /\ Cardinality(B) \in Nat /\ Cardinality(B) <= Prefetch
    BY <2>3, <2>6, HeldCounts
  <2>8. IsFiniteSet(A) /\ Cardinality(A) \in Nat
    BY <1>2, <2>6
  <2>9. Cardinality(A \cup B) = Cardinality(A) + Cardinality(B) - Cardinality(A \cap B) /\ IsFiniteSet(A \cup B)
    BY <2>7, <2>8, FS_Union
  <2>10. Cardinality(A \cap B) \in Nat
    <3>1. IsFiniteSet(A \cap B)
      BY <2>8, FS_Subset
    <3> QED
      BY <3>1, FS_CardinalityType
  <2>11. PICK a, b, c, p, n : /\ a = Cardinality(A) /\ b = Cardinality(B) /\ c = Cardinality(A \cap B) /\ p = Prefetch * k
                              /\ n = Prefetch * (k + 1)
    OBVIOUS
  <2>12. p \in Nat /\ n = p + Prefetch
    BY <1>1, <2>1, <2>11
  <2>13. a + b - c <= p + Prefetch
    BY <1>1, <2>5, <2>6, <2>7, <2>8, <2>10, <2>11, <2>12
  <2> QED
    BY <2>4, <2>6, <2>9, <2>11, <2>12, <2>13
<1> HIDE DEF T
<1>5. T = Nat
  BY <1>3, <1>4, SetInduction
<1>6. Cardinality(Upto(MaxSubscribes)) <= Prefetch * MaxSubscribes
  <2> HIDE DEF Upto
  <2>1. MaxSubscribes \in T /\ MaxSubscribes <= MaxSubscribes
    BY <1>1, <1>5
  <2> QED
    BY <2>1 DEF T
<1>7. Upto(MaxSubscribes) = Range(u)
  <2>1. Range(u) \subseteq Parcels
    BY DEF Range
  <2>2. \A x \in Parcels : x.s \in 1..MaxSubscribes
    BY DEF Parcels
  <2> QED
    BY <2>1, <2>2
<1> HIDE DEF Upto
<1> QED
  BY <1>1, <1>2, <1>6, <1>7

(* A list that holds each message once holds one message once, or not.     *)
LEMMA OnceAt ==
  ASSUME NEW D, IsFiniteSet(D), NEW f, \A i, j \in D : f[i] = f[j] => i = j, NEW m
  PROVE  Cardinality({i \in D : f[i] = m}) = IF \E i \in D : f[i] = m THEN 1 ELSE 0
<1>1. CASE \E i \in D : f[i] = m
  <2>1. PICK i \in D : f[i] = m
    BY <1>1
  <2>2. {j \in D : f[j] = m} = {i}
    BY <2>1
  <2>3. Cardinality({i}) = 1
    BY FS_Singleton
  <2> QED
    BY <1>1, <2>2, <2>3
<1>2. CASE ~\E i \in D : f[i] = m
  <2>1. {j \in D : f[j] = m} = {}
    BY <1>2
  <2> QED
    BY <1>2, <2>1, FS_EmptySet
<1> QED
  BY <1>1, <1>2

LEMMA PlacesCount ==
  ASSUME RabbitInv, NEW m \in RabbitMessages
  PROVE  Places(m) = IF m \in settled.routed THEN 1 ELSE 0
<1>1. QueueOK(server, settled) /\ RabbitTyped
  BY DEF RabbitInv
<1>2. PICK r, u : r = server.ready /\ u = server.unacked
  OBVIOUS
<1>3. r \in Seq(RabbitMessages) /\ u \in Seq(Parcels)
  BY <1>1, <1>2 DEF RabbitTyped, ServerTyped
<1>4. /\ DOMAIN r = 1..Len(r) /\ Len(r) \in Nat /\ DOMAIN u = 1..Len(u) /\ Len(u) \in Nat
  BY <1>3
<1>5. IsFiniteSet(DOMAIN r) /\ IsFiniteSet(DOMAIN u)
  BY <1>4, FS_Interval
<1>6. Cardinality({i \in DOMAIN r : r[i] = m}) = IF m \in Range(r) THEN 1 ELSE 0
  <2>1. \A i, j \in DOMAIN r : r[i] = r[j] => i = j
    BY <1>1, <1>2 DEF QueueOK, IsInjective
  <2>2. Cardinality({i \in DOMAIN r : r[i] = m}) = IF \E i \in DOMAIN r : r[i] = m THEN 1 ELSE 0
    BY <1>5, <2>1, OnceAt
  <2> QED
    BY <2>2 DEF Range
<1>7. Cardinality({i \in DOMAIN u : u[i].m = m}) = IF m \in About(u) THEN 1 ELSE 0
  <2>1. PICK f : f = [i \in DOMAIN u |-> u[i].m]
    OBVIOUS
  <2>2. \A i, j \in DOMAIN u : f[i] = f[j] => i = j
    <3>1. SUFFICES ASSUME NEW i \in DOMAIN u, NEW j \in DOMAIN u, f[i] = f[j] PROVE i = j
      OBVIOUS
    <3>2. u[i].m = u[j].m /\ u[i] \in Range(u) /\ u[j] \in Range(u)
      BY <2>1, <3>1 DEF Range
    <3>3. u[i] = u[j]
      BY <1>1, <1>2, <3>2 DEF QueueOK
    <3> QED
      BY <1>1, <1>2, <3>3 DEF QueueOK, IsInjective
  <2>3. Cardinality({i \in DOMAIN u : f[i] = m}) = IF \E i \in DOMAIN u : f[i] = m THEN 1 ELSE 0
    BY <1>5, <2>2, OnceAt
  <2>4. {i \in DOMAIN u : f[i] = m} = {i \in DOMAIN u : u[i].m = m}
    BY <2>1
  <2>5. (\E i \in DOMAIN u : f[i] = m) <=> m \in About(u)
    BY <2>1 DEF About, Range
  <2> QED
    BY <2>3, <2>4, <2>5
<1>8. /\ settled.routed = Range(r) \cup About(u) \cup settled.acked \cup settled.dropped
      /\ Range(r) \cap (About(u) \cup settled.acked \cup settled.dropped) = {}
      /\ About(u) \cap (settled.acked \cup settled.dropped) = {} /\ settled.acked \cap settled.dropped = {}
  BY <1>1, <1>2 DEF QueueOK
<1>9. Cardinality({x \in {"acked", "dropped"} : m \in settled[x]}) = IF m \in settled.acked \cup settled.dropped THEN 1 ELSE 0
  <2>1. CASE m \in settled.acked
    <3>1. {x \in {"acked", "dropped"} : m \in settled[x]} = {"acked"}
      BY <1>8, <2>1
    <3>2. Cardinality({"acked"}) = 1
      BY FS_Singleton
    <3> QED
      BY <2>1, <3>1, <3>2
  <2>2. CASE m \in settled.dropped
    <3>1. {x \in {"acked", "dropped"} : m \in settled[x]} = {"dropped"}
      BY <1>8, <2>2
    <3>2. Cardinality({"dropped"}) = 1
      BY FS_Singleton
    <3> QED
      BY <2>2, <3>1, <3>2
  <2>3. CASE m \notin settled.acked \cup settled.dropped
    <3>1. {x \in {"acked", "dropped"} : m \in settled[x]} = {}
      BY <2>3
    <3> QED
      BY <2>3, <3>1, FS_EmptySet
  <2> QED
    BY <2>1, <2>2, <2>3
<1>10. Places(m) = Cardinality({i \in DOMAIN r : r[i] = m}) + Cardinality({i \in DOMAIN u : u[i].m = m})
                     + Cardinality({x \in {"acked", "dropped"} : m \in settled[x]})
  BY <1>2 DEF Places
<1> QED
  BY <1>6, <1>7, <1>8, <1>9, <1>10

LEMMA RabbitHolds ==
  ASSUME RabbitInv PROVE RabbitAccounts /\ RabbitTypeOK
<1>1. QueueOK(server, settled) /\ ChannelOK(channel, server, inbox, mishaps, settled, subscribed)
      /\ CountsOK(rabbitStats, server, inbox, mishaps, settled, handled, sentAs) /\ RabbitTyped
  BY DEF RabbitInv
<1>2. PICK u : u = server.unacked
  OBVIOUS
<1>3. u \in Seq(Parcels) /\ IsInjective(u) /\ server.consumers \subseteq 1..MaxSubscribes /\ subscribed \subseteq 1..MaxSubscribes
      /\ handled \in [RabbitMessages -> Nat] /\ mishaps.ends \in Nat /\ rabbitStats.consumed \in Nat /\ inbox \in Seq(Parcels)
  BY <1>1, <1>2 DEF RabbitTyped, ServerTyped, QueueOK, MishapsTyped, TallyTyped, TallyFields
<1>4. \A m \in RabbitMessages :
        /\ Places(m) = (IF m \in settled.routed THEN 1 ELSE 0)
        /\ (m \in settled.acked => handled[m] > 0 /\ enableAck)
        /\ (handled[m] > 1 => mishaps.ends > 0)
  <2>1. SUFFICES ASSUME NEW m \in RabbitMessages
                 PROVE  /\ Places(m) = (IF m \in settled.routed THEN 1 ELSE 0)
                        /\ (m \in settled.acked => handled[m] > 0 /\ enableAck)
                        /\ (handled[m] > 1 => mishaps.ends > 0)
    OBVIOUS
  <2>2. Places(m) = (IF m \in settled.routed THEN 1 ELSE 0)
    BY PlacesCount
  <2>3. handled[m] \in Nat /\ (mishaps.ends = 0 => handled[m] <= 1)
    BY <1>1, <1>3 DEF CountsOK
  <2>4. handled[m] > 1 => mishaps.ends > 0
    BY <1>3, <2>3
  <2> QED
    BY <1>1, <2>2, <2>4 DEF CountsOK
<1>5. rabbitStats.consumed = FoldFunction(LAMBDA x, rest : rest + x, 0, handled)
  <2>1. PICK hd : hd = handled
    OBVIOUS
  <2>2. hd \in [RabbitMessages -> Int]
    BY <1>3, <2>1
  <2>3. FoldFunction(LAMBDA x, rest : rest + x, 0, hd) = SumOf(RabbitMessages, hd)
    BY <2>2, HandledSum
  <2> QED
    BY <1>1, <2>1, <2>3 DEF CountsOK
<1>6. mishaps.ends = 0 /\ ~enableAck => rabbitStats.consumed <= Prefetch * MaxSubscribes
  <2>1. PICK i, j, k, n : i = rabbitStats.consumed /\ j = Len(inbox) /\ k = Len(u) /\ n = Prefetch * MaxSubscribes
    OBVIOUS
  <2>2. \A s \in 1..MaxSubscribes : Cardinality(OfConsumer(u, s)) <= Prefetch
    BY <1>1, <1>2 DEF QueueOK
  <2>3. k <= n /\ n \in Nat
    BY <1>3, <2>1, <2>2, HeldInAll
  <2>4. i \in Nat /\ j \in Nat /\ k \in Nat
    BY <1>3, <2>1
  <2>5. mishaps.ends = 0 /\ ~enableAck => i + j = k
    BY <1>1, <1>2, <2>1 DEF CountsOK
  <2>6. i + j = k => i <= n
    BY <2>3, <2>4
  <2> QED
    BY <2>1, <2>5, <2>6
<1>7. RabbitAccounts
  BY <1>1, <1>4, <1>5, <1>6 DEF RabbitAccounts, CountsOK, ChannelOK
<1>8. RabbitTypeOK
  <2>1. channel = "none" => inbox = <<>> /\ server.consumers = {}
    BY <1>1 DEF ChannelOK
  <2>2. ASSUME NEW s \in 1..MaxSubscribes PROVE HeldFor(s) <= Prefetch
    <3>1. Cardinality({i \in DOMAIN u : u[i].s = s}) = Cardinality(OfConsumer(u, s))
      BY <1>3, HeldCounts
    <3>2. Cardinality(OfConsumer(u, s)) <= Prefetch
      BY <1>1, <1>2 DEF QueueOK
    <3> QED
      BY <1>2, <3>1, <3>2 DEF HeldFor
  <2> QED
    BY <1>3, <2>1, <2>2 DEF RabbitTypeOK
<1> QED
  BY <1>7, <1>8

(***************************************************************************)
(* Monitoring: the one manager of the health checks.                       *)
(***************************************************************************)
Served == {q \in HealthRequests : thread[q].at \in {"returning", "ready", "done"}}
NoneMaking == \A o \in HealthRequests : thread[o].at # "making"

ThreadOK(t, one, count) ==
  /\ DOMAIN t = {"at", "m", "sure"} /\ t.sure \in BOOLEAN
  /\ t.at \in {"idle", "making", "returning", "ready", "done"}
  /\ t.at = "returning" => one # 0
  /\ t.at = "ready" => t.m \in 1..count

ManagersOK ==
  /\ manager \in 0..Len(managers)
  /\ \E S : managers \in Seq(S)
  /\ \A m \in 1..Len(managers) : DOMAIN managers[m] = {"checks", "results"}

(* Once a thread is given its manager while none is made, that manager     *)
(* stays the one there is.                                                 *)
Settled ==
  /\ \A q \in HealthRequests : thread[q].at = "ready" /\ thread[q].sure =>
       thread[q].m = manager /\ manager # 0 /\ NoneMaking
  /\ promised # {} => manager # 0 /\ NoneMaking /\ promised \subseteq managers[manager].checks

HealthInv ==
  /\ ManagersOK /\ Settled
  /\ DOMAIN thread = HealthRequests /\ \A q \in HealthRequests : ThreadOK(thread[q], manager, Len(managers))
  /\ Len(managers) <= Cardinality(Served)

LEMMA HealthStarts == MonitoringInit => HealthInv
<1> SUFFICES ASSUME MonitoringInit PROVE HealthInv
  OBVIOUS
<1>1. /\ thread = [q \in HealthRequests |-> [at |-> "idle", m |-> 0, sure |-> FALSE]]
      /\ manager = 0 /\ managers = <<>> /\ promised = {}
  BY DEF MonitoringInit
<1>2. managers \in Seq({}) /\ Len(managers) = 0
  BY <1>1
<1>3. IsFiniteSet(Served)
  BY MonitoringAssumption, FS_Subset DEF Served
<1>4. Cardinality(Served) \in Nat
  BY <1>3, FS_CardinalityType
<1>5. ManagersOK /\ Settled
  BY <1>1, <1>2 DEF ManagersOK, Settled
<1>6. \A q \in HealthRequests : ThreadOK(thread[q], manager, Len(managers))
  BY <1>1 DEF ThreadOK
<1> QED
  BY <1>1, <1>2, <1>4, <1>5, <1>6 DEF HealthInv

(* A thread that moves on is one of those served, or still is not.         *)
LEMMA ServedStay ==
  ASSUME HealthInv, NEW q \in HealthRequests, NEW x, thread' = [thread EXCEPT ![q] = x],
         thread[q].at \in {"idle", "making"} \/ x.at \in {"returning", "ready", "done"}
  PROVE  /\ Cardinality(Served') \in Nat /\ Cardinality(Served) \in Nat /\ Cardinality(Served) <= Cardinality(Served')
         /\ thread[q].at \in {"idle", "making"} /\ x.at \in {"returning", "ready", "done"} =>
              Cardinality(Served') = Cardinality(Served) + 1
<1>1. thread'[q] = x /\ \A p \in HealthRequests : p # q => thread'[p] = thread[p]
  BY DEF HealthInv
<1>2. IsFiniteSet(Served) /\ IsFiniteSet(Served')
  BY MonitoringAssumption, FS_Subset DEF Served
<1>3. Served \subseteq Served'
  BY <1>1 DEF Served
<1>4. thread[q].at \in {"idle", "making"} /\ x.at \in {"returning", "ready", "done"}
        => q \notin Served /\ Served' = Served \cup {q}
  BY <1>1 DEF Served
<1>5. Cardinality(Served') \in Nat /\ Cardinality(Served) \in Nat /\ Cardinality(Served) <= Cardinality(Served')
  BY <1>2, <1>3, FS_Subset, FS_CardinalityType
<1>6. Cardinality(Served \cup {q}) = IF q \in Served THEN Cardinality(Served) ELSE Cardinality(Served) + 1
  BY <1>2, FS_AddElement
<1> QED
  BY <1>4, <1>5, <1>6

LEMMA ManyManagers == ASSUME HealthInv PROVE Len(managers) \in Nat /\ manager \in 0..Len(managers)
<1>1. PICK S : managers \in Seq(S)
  BY DEF HealthInv, ManagersOK
<1> QED
  BY <1>1 DEF HealthInv, ManagersOK

(* A thread that looks up the manager, or reads it again.                  *)
LEMMA MoveKeeps ==
  ASSUME HealthInv, NEW q \in HealthRequests, NEW x, thread' = [thread EXCEPT ![q] = x], ThreadOK(x, manager, Len(managers)),
         thread[q].at = "idle" \/ (thread[q].at = "returning" /\ x.at = "ready"),
         x.at = "making" => manager = 0,
         x.at = "ready" /\ x.sure => x.m = manager /\ manager # 0 /\ NoneMaking,
         UNCHANGED <<manager, managers, promised>>
  PROVE  HealthInv'
<1>1. thread'[q] = x /\ (\A p \in HealthRequests : p # q => thread'[p] = thread[p]) /\ DOMAIN thread' = HealthRequests
  BY DEF HealthInv
<1>2. Cardinality(Served') \in Nat /\ Cardinality(Served) \in Nat /\ Cardinality(Served) <= Cardinality(Served')
  BY ServedStay
<1>3. Len(managers) <= Cardinality(Served) /\ Len(managers) \in Nat
  BY ManyManagers DEF HealthInv
<1>4. ManagersOK'
  BY DEF HealthInv, ManagersOK
<1>5. \A p \in HealthRequests : ThreadOK(thread'[p], manager', Len(managers'))
  BY <1>1 DEF HealthInv, ThreadOK
<1>6. manager # 0 /\ NoneMaking => NoneMaking'
  BY <1>1 DEF NoneMaking
<1>7. Settled'
  BY <1>1, <1>6 DEF HealthInv, Settled
<1> QED
  BY <1>1, <1>2, <1>3, <1>4, <1>5, <1>7 DEF HealthInv

LEMMA LooksUpKeeps ==
  ASSUME HealthInv, NEW q \in HealthRequests, LooksUp(q) PROVE HealthInv'
<1>1. PICK w, x : w = (IF manager = 0 THEN "making" ELSE "returning") /\ x = [thread[q] EXCEPT !.at = w]
  OBVIOUS
<1>2. /\ thread[q].at = "idle" /\ thread' = [thread EXCEPT ![q] = x]
      /\ UNCHANGED <<manager, managers, promised>>
  BY <1>1 DEF LooksUp
<1>3. ThreadOK(x, manager, Len(managers)) /\ x.at = w
  BY <1>1 DEF HealthInv, ThreadOK
<1>4. x.at # "ready" /\ (x.at = "making" => manager = 0)
  BY <1>1, <1>3
<1>5. /\ thread' = [thread EXCEPT ![q] = x] /\ ThreadOK(x, manager, Len(managers))
      /\ thread[q].at = "idle" \/ (thread[q].at = "returning" /\ x.at = "ready")
      /\ x.at = "making" => manager = 0
      /\ x.at = "ready" /\ x.sure => x.m = manager /\ manager # 0 /\ NoneMaking
      /\ UNCHANGED <<manager, managers, promised>>
  BY <1>2, <1>3, <1>4
<1> QED
  BY <1>5, MoveKeeps, Zenon

LEMMA ReturnsKeeps ==
  ASSUME HealthInv, NEW q \in HealthRequests, Returns(q) PROVE HealthInv'
<1>1. PICK ok \in BOOLEAN : ok = NoneMaking
  BY DEF NoneMaking
<1>2. PICK x : x = [at |-> "ready", m |-> manager, sure |-> ok]
  OBVIOUS
<1>3. /\ thread[q].at = "returning" /\ thread' = [thread EXCEPT ![q] = x]
      /\ UNCHANGED <<manager, managers, promised>>
  BY <1>1, <1>2 DEF Returns, NoneMaking
<1>4. manager # 0
  BY <1>3 DEF HealthInv, ThreadOK
<1>5. manager \in 1..Len(managers)
  BY <1>4, ManyManagers
<1>6. x.at = "ready" /\ x.m = manager /\ x.sure = ok /\ DOMAIN x = {"at", "m", "sure"}
  BY <1>2
<1>7. ThreadOK(x, manager, Len(managers))
  BY <1>5, <1>6 DEF ThreadOK
<1>8. /\ thread' = [thread EXCEPT ![q] = x] /\ ThreadOK(x, manager, Len(managers))
      /\ thread[q].at = "idle" \/ (thread[q].at = "returning" /\ x.at = "ready")
      /\ x.at = "making" => manager = 0
      /\ x.at = "ready" /\ x.sure => x.m = manager /\ manager # 0 /\ NoneMaking
      /\ UNCHANGED <<manager, managers, promised>>
  BY <1>1, <1>3, <1>4, <1>6, <1>7
<1> QED
  BY <1>8, MoveKeeps, Zenon

LEMMA MakesKeeps ==
  ASSUME HealthInv, NEW q \in HealthRequests, Makes(q) PROVE HealthInv'
<1>1. PICK k, x, y : k = Len(managers) /\ x = [thread[q] EXCEPT !.at = "returning"] /\ y = [checks |-> {}, results |-> <<>>]
  OBVIOUS
<1>2. /\ thread[q].at = "making" /\ thread' = [thread EXCEPT ![q] = x]
      /\ managers' = Append(managers, y) /\ manager' = k + 1 /\ promised' = promised
  BY <1>1 DEF Makes
<1>3. thread'[q] = x /\ (\A p \in HealthRequests : p # q => thread'[p] = thread[p]) /\ DOMAIN thread' = HealthRequests
  BY <1>2 DEF HealthInv
<1>4. DOMAIN x = {"at", "m", "sure"} /\ x.at = "returning" /\ x.sure \in BOOLEAN /\ DOMAIN y = {"checks", "results"}
  BY <1>1 DEF HealthInv, ThreadOK
<1>5. /\ Cardinality(Served') \in Nat /\ Cardinality(Served) \in Nat
      /\ Cardinality(Served') = Cardinality(Served) + 1
  BY <1>2, <1>4, ServedStay
<1>6. PICK S : managers \in Seq(S)
  BY DEF HealthInv, ManagersOK
<1>7. managers \in Seq(S \cup {y})
  BY <1>6
<1>8. /\ managers' \in Seq(S \cup {y}) /\ Len(managers') = k + 1 /\ k \in Nat
      /\ (\A i \in 1..k : managers'[i] = managers[i]) /\ managers'[k + 1] = y
  BY <1>1, <1>2, <1>7, Appended
<1>9. \A i \in 1..(k + 1) : i \in 1..k \/ i = k + 1
  BY <1>8
<1>10. ManagersOK'
  <2>1. manager' \in 0..Len(managers')
    BY <1>2, <1>8
  <2>2. \A m \in 1..Len(managers') : DOMAIN managers'[m] = {"checks", "results"}
    BY <1>1, <1>4, <1>8, <1>9 DEF HealthInv, ManagersOK
  <2> QED
    BY <1>8, <2>1, <2>2 DEF ManagersOK
<1>11. ASSUME NEW p \in HealthRequests PROVE ThreadOK(thread'[p], manager', Len(managers'))
  <2>1. manager' # 0 /\ 1..k \subseteq 1..Len(managers')
    BY <1>2, <1>8
  <2>2. CASE p = q
    BY <1>3, <1>4, <2>1, <2>2 DEF ThreadOK
  <2>3. CASE p # q
    BY <1>1, <1>3, <2>1, <2>3 DEF HealthInv, ThreadOK
  <2> QED
    BY <2>2, <2>3
<1>12. Settled'
  <2>1. ~NoneMaking
    BY <1>2 DEF NoneMaking
  <2>2. promised = {} /\ \A p \in HealthRequests : ~(thread[p].at = "ready" /\ thread[p].sure)
    BY <2>1 DEF HealthInv, Settled
  <2> QED
    BY <1>2, <1>3, <1>4, <2>2 DEF Settled
<1>13. Len(managers') <= Cardinality(Served')
  <2>1. k <= Cardinality(Served)
    BY <1>1 DEF HealthInv
  <2> QED
    BY <1>5, <1>8, <2>1
<1> QED
  BY <1>3, <1>10, <1>11, <1>12, <1>13 DEF HealthInv

(* A thread that is done has changed its manager's checks or its results.  *)
LEMMA DoneKeeps ==
  ASSUME HealthInv, NEW q \in HealthRequests, thread[q].at = "ready", NEW m, m = thread[q].m,
         NEW y, managers' = [managers EXCEPT ![m] = y], DOMAIN y = {"checks", "results"},
         thread' = [thread EXCEPT ![q].at = "done"], manager' = manager,
         managers[m].checks \subseteq y.checks,
         \/ promised' = promised
         \/ thread[q].sure /\ \E c \in y.checks : promised' = promised \cup {c}
  PROVE  HealthInv'
<1>1. PICK x : x = [thread[q] EXCEPT !.at = "done"]
  OBVIOUS
<1>2. DOMAIN x = {"at", "m", "sure"} /\ x.at = "done" /\ x.sure \in BOOLEAN /\ thread' = [thread EXCEPT ![q] = x]
  BY <1>1 DEF HealthInv, ThreadOK
<1>3. thread'[q] = x /\ (\A p \in HealthRequests : p # q => thread'[p] = thread[p]) /\ DOMAIN thread' = HealthRequests
  BY <1>2 DEF HealthInv
<1>4. Cardinality(Served') \in Nat /\ Cardinality(Served) \in Nat /\ Cardinality(Served) <= Cardinality(Served')
  BY <1>2, ServedStay
<1>5. PICK S : managers \in Seq(S)
  BY DEF HealthInv, ManagersOK
<1>6. m \in 1..Len(managers) /\ Len(managers) \in Nat
  BY <1>5 DEF HealthInv, ThreadOK
<1>7. managers \in Seq(S \cup {y})
  BY <1>5
<1>8. /\ managers' \in Seq(S \cup {y}) /\ Len(managers') = Len(managers)
      /\ (\A i \in 1..Len(managers) : i # m => managers'[i] = managers[i]) /\ managers'[m] = y
  BY <1>6, <1>7
<1>9. ManagersOK'
  BY <1>8 DEF HealthInv, ManagersOK
<1>10. \A p \in HealthRequests : ThreadOK(thread'[p], manager', Len(managers'))
  BY <1>2, <1>3, <1>8 DEF HealthInv, ThreadOK
<1>11. NoneMaking => NoneMaking'
  BY <1>2, <1>3 DEF NoneMaking
<1>12. Settled'
  <2>1. \A p \in HealthRequests : thread'[p].at = "ready" /\ thread'[p].sure =>
          thread'[p].m = manager' /\ manager' # 0 /\ NoneMaking'
    BY <1>2, <1>3, <1>11 DEF HealthInv, Settled
  <2>2. manager \in 1..Len(managers) => managers[manager].checks \subseteq managers'[manager].checks
    BY <1>6, <1>8
  <2>3. manager # 0 => manager \in 1..Len(managers)
    BY ManyManagers
  <2>4. thread[q].sure => m = manager /\ manager # 0 /\ NoneMaking
    BY DEF HealthInv, Settled
  <2>5. CASE promised' = promised
    BY <1>11, <2>1, <2>2, <2>3, <2>5 DEF HealthInv, Settled
  <2>6. CASE thread[q].sure /\ \E c \in y.checks : promised' = promised \cup {c}
    <3>1. promised \subseteq managers[m].checks
      BY <2>4, <2>6 DEF HealthInv, Settled
    <3>2. promised' \subseteq y.checks
      BY <2>6, <3>1
    <3> QED
      BY <1>8, <1>11, <2>1, <2>4, <2>6, <3>2 DEF Settled
  <2> QED
    BY <2>5, <2>6
<1>13. Len(managers) <= Cardinality(Served)
  BY DEF HealthInv
<1> QED
  BY <1>3, <1>4, <1>6, <1>8, <1>9, <1>10, <1>12, <1>13 DEF HealthInv

LEMMA HealthSteps == HealthInv /\ [HealthNext]_healthVars => HealthInv'
<1> SUFFICES ASSUME HealthInv, [HealthNext]_healthVars PROVE HealthInv'
  OBVIOUS
<1>1. ASSUME NEW q \in HealthRequests, NEW c \in Parts, RegisterCheck(q, c) PROVE HealthInv'
  <2>1. PICK m, y : m = thread[q].m /\ y = [managers[m] EXCEPT !.checks = @ \cup {c}]
    OBVIOUS
  <2>2. /\ thread[q].at = "ready" /\ managers' = [managers EXCEPT ![m] = y]
        /\ thread' = [thread EXCEPT ![q].at = "done"] /\ manager' = manager
        /\ promised' = IF thread[q].sure THEN promised \cup {c} ELSE promised
    BY <1>1, <2>1 DEF RegisterCheck
  <2>3. m \in 1..Len(managers)
    BY <2>1, <2>2 DEF HealthInv, ThreadOK
  <2>4. DOMAIN y = {"checks", "results"} /\ y.checks = managers[m].checks \cup {c}
    BY <2>1, <2>3 DEF HealthInv, ManagersOK
  <2>5. managers[m].checks \subseteq y.checks /\ c \in y.checks
    BY <2>4
  <2> QED
    BY <2>1, <2>2, <2>4, <2>5, DoneKeeps
<1>2. ASSUME NEW q \in HealthRequests, NEW outcome, RunAllChecks(q, outcome) PROVE HealthInv'
  <2>1. PICK m, z, y : m = thread[q].m /\ z = [c \in managers[m].checks |-> outcome[c]]
                       /\ y = [managers[m] EXCEPT !.results = z]
    OBVIOUS
  <2>2. /\ thread[q].at = "ready" /\ managers' = [managers EXCEPT ![m] = y]
        /\ thread' = [thread EXCEPT ![q].at = "done"] /\ promised' = promised /\ manager' = manager
    BY <1>2, <2>1 DEF RunAllChecks
  <2>3. m \in 1..Len(managers)
    BY <2>1, <2>2 DEF HealthInv, ThreadOK
  <2>4. DOMAIN y = {"checks", "results"} /\ y.checks = managers[m].checks
    BY <2>1, <2>3 DEF HealthInv, ManagersOK
  <2> QED
    BY <2>1, <2>2, <2>4, DoneKeeps
<1>3. CASE UNCHANGED healthVars
  BY <1>3 DEF healthVars, HealthInv, ThreadOK, ManagersOK, Settled, NoneMaking, Served
<1> QED
  BY <1>1, <1>2, <1>3, LooksUpKeeps, MakesKeeps, ReturnsKeeps DEF HealthNext

LEMMA HealthHolds ==
  ASSUME HealthInv
  PROVE  manager \in 0..Len(managers) /\ Len(managers) <= Cardinality(HealthRequests) /\ ChecksKept
<1>1. Len(managers) <= Cardinality(HealthRequests)
  <2>1. Cardinality(Served) <= Cardinality(HealthRequests) /\ Cardinality(Served) \in Nat /\ Cardinality(HealthRequests) \in Nat
    BY MonitoringAssumption, FS_Subset, FS_CardinalityType DEF Served
  <2>2. Len(managers) \in Nat /\ Len(managers) <= Cardinality(Served)
    BY ManyManagers DEF HealthInv
  <2> QED
    BY <2>1, <2>2
<1>2. ChecksKept
  BY DEF HealthInv, Settled, ChecksKept
<1> QED
  BY <1>1, <1>2, ManyManagers

(***************************************************************************)
(* Monitoring: counters and the series they are recorded in.               *)
(***************************************************************************)
Measure == [kind : {"counter", "gauge", "histogram"}, key : MetricKeys, value : Nat]
OfCounter(k) == {x \in Measure : x.kind = "counter" /\ x.key = k}

Rising(own) == \A i \in 1..(Len(own) - 1) : own[i].value <= own[i + 1].value

CounterTold(own, k, d) ==
  own # <<>> => k \in DOMAIN d /\ own[Len(own)].value = d[k] /\ Rising(own)

MetricsInv ==
  /\ DOMAIN counters \subseteq MetricKeys
  /\ \A k \in DOMAIN counters : counters[k] \in Nat
  /\ \A n \in DOMAIN series : series[n] \in Seq(Measure) /\ Len(series[n]) \in 1..SeriesKept
  /\ \A k \in MetricKeys : CounterTold(Only(ValueOf(series, k.name, <<>>), OfCounter(k)), k, counters)

LEMMA ToldAppended ==
  ASSUME NEW own \in Seq(Measure), NEW e \in Measure, NEW k, NEW d, NEW b, CounterTold(own, k, d),
         k \in DOMAIN b, b[k] = e.value, own # <<>> => d[k] <= b[k]
  PROVE  CounterTold(Append(own, e), k, b)
<1>1. PICK n, t : n = Len(own) /\ t = Append(own, e)
  OBVIOUS
<1>2. /\ t \in Seq(Measure) /\ Len(t) = n + 1 /\ n \in Nat /\ (\A i \in 1..n : t[i] = own[i]) /\ t[n + 1] = e
      /\ DOMAIN own = 1..n
  BY <1>1, Appended
<1>3. ASSUME NEW i \in 1..(Len(t) - 1) PROVE t[i].value <= t[i + 1].value
  <2>1. i \in 1..n /\ n # 0
    BY <1>2
  <2>2. own # <<>>
    BY <1>1, <2>1
  <2>3. CASE i = n
    <3>1. own[n].value = d[k]
      BY <1>1, <2>2 DEF CounterTold
    <3> QED
      BY <1>2, <2>1, <2>2, <2>3, <3>1
  <2>4. CASE i < n
    <3>1. i \in 1..(n - 1) /\ i + 1 \in 1..n
      BY <1>2, <2>1, <2>4
    <3> QED
      BY <1>1, <1>2, <2>1, <2>2, <3>1 DEF CounterTold, Rising
  <2> QED
    BY <1>2, <2>1, <2>3, <2>4
<1> QED
  BY <1>1, <1>2, <1>3 DEF CounterTold, Rising

LEMMA ToldTail ==
  ASSUME NEW own \in Seq(Measure), own # <<>>, NEW k, NEW d, CounterTold(own, k, d)
  PROVE  CounterTold(Tail(own), k, d)
<1>1. PICK n, t : n = Len(own) /\ t = Tail(own)
  OBVIOUS
<1>2. n \in Nat \ {0} /\ Len(t) = n - 1 /\ (\A i \in 1..(n - 1) : t[i] = own[i + 1]) /\ t \in Seq(Measure)
  BY <1>1, Shortened
<1>3. SUFFICES ASSUME t # <<>> PROVE k \in DOMAIN d /\ t[n - 1].value = d[k] /\ Rising(t)
  BY <1>1, <1>2 DEF CounterTold
<1>4. n - 1 # 0
  BY <1>2, <1>3
<1>5. n - 1 \in 1..(n - 1) /\ (n - 1) + 1 = n
  BY <1>2, <1>4
<1>6. t[n - 1] = own[n]
  BY <1>2, <1>5
<1>7. ASSUME NEW i \in 1..(Len(t) - 1) PROVE t[i].value <= t[i + 1].value
  <2>1. i \in 1..(n - 1) /\ i + 1 \in 1..(n - 1) /\ i + 1 \in 1..(n - 1)
    BY <1>2
  <2>2. t[i] = own[i + 1] /\ t[i + 1] = own[(i + 1) + 1]
    BY <1>2, <2>1
  <2> QED
    BY <1>1, <2>1, <2>2 DEF CounterTold, Rising
<1> QED
  BY <1>1, <1>6, <1>7 DEF CounterTold, Rising

(* A list that is cut to its last SeriesKept, and what it leaves of a test.*)
LEMMA LatestTyped ==
  ASSUME NEW S, NEW s \in Seq(S), NEW e \in S, Len(s) <= SeriesKept
  PROVE  Latest(Append(s, e)) \in Seq(S) /\ Len(Latest(Append(s, e))) \in 1..SeriesKept
<1>1. PICK n, t : n = Len(s) /\ t = Append(s, e)
  OBVIOUS
<1>2. t \in Seq(S) /\ Len(t) = n + 1 /\ n \in Nat /\ t # <<>>
  BY <1>1, Appended
<1>3. SeriesKept \in Nat \ {0}
  BY MonitoringAssumption
<1>4. CASE Len(t) > SeriesKept
  <2>1. Latest(t) = Tail(t)
    BY <1>4 DEF Latest
  <2>2. Tail(t) \in Seq(S) /\ Len(Tail(t)) = n
    BY <1>2
  <2>3. n \in 1..SeriesKept
    BY <1>1, <1>2, <1>3, <1>4
  <2> QED
    BY <1>1, <2>1, <2>2, <2>3
<1>5. CASE ~(Len(t) > SeriesKept)
  <2>1. Latest(t) = t
    BY <1>5 DEF Latest
  <2>2. n + 1 \in 1..SeriesKept
    BY <1>2, <1>3, <1>5
  <2> QED
    BY <1>1, <1>2, <2>1, <2>2
<1> QED
  BY <1>4, <1>5

LEMMA LatestOnly ==
  ASSUME NEW S, NEW t \in Seq(S), t # <<>>, NEW P
  PROVE  \/ Only(Latest(t), P) = Only(t, P)
         \/ Only(t, P) # <<>> /\ Only(Latest(t), P) = Tail(Only(t, P))
<1>1. CASE Len(t) > SeriesKept
  <2>1. Latest(t) = Tail(t)
    BY <1>1 DEF Latest
  <2> QED
    BY <2>1, OnlyTail
<1>2. CASE ~(Len(t) > SeriesKept)
  <2>1. Latest(t) = t
    BY <1>2 DEF Latest
  <2> QED
    BY <2>1
<1> QED
  BY <1>1, <1>2

LEMMA ExtendedKeeps ==
  ASSUME MetricsInv, NEW kind \in {"counter", "gauge", "histogram"}, NEW k \in MetricKeys, NEW v \in Nat,
         Extended(kind, k, v), DOMAIN counters' \subseteq MetricKeys,
         \A j \in DOMAIN counters' : counters'[j] \in Nat,
         \A j \in DOMAIN counters : j \in DOMAIN counters' /\ ((j = k /\ kind = "counter") \/ counters'[j] = counters[j]),
         kind = "counter" => k \in DOMAIN counters' /\ counters'[k] = v /\ (k \in DOMAIN counters => counters[k] <= v)
  PROVE  MetricsInv'
<1>1. PICK s, e, t : s = ValueOf(series, k.name, <<>>) /\ e = [kind |-> kind, key |-> k, value |-> v]
                     /\ t = Latest(Append(s, e))
  OBVIOUS
<1>2. series' = Assigned(series, k.name, t)
  BY <1>1 DEF Extended
<1>3. e \in Measure /\ e.kind = kind /\ e.key = k /\ e.value = v
  BY <1>1 DEF Measure
<1>4. s \in Seq(Measure) /\ Len(s) <= SeriesKept
  <2>1. CASE k.name \in DOMAIN series
    <3>1. s = series[k.name]
      BY <1>1, <2>1 DEF ValueOf
    <3>2. s \in Seq(Measure) /\ Len(s) \in 1..SeriesKept
      BY <2>1, <3>1 DEF MetricsInv
    <3> QED
      BY <3>2, MonitoringAssumption
  <2>2. CASE k.name \notin DOMAIN series
    <3>1. s = <<>>
      BY <1>1, <2>2 DEF ValueOf
    <3> QED
      BY <3>1, MonitoringAssumption
  <2> QED
    BY <2>1, <2>2
<1>5. t \in Seq(Measure) /\ Len(t) \in 1..SeriesKept
  BY <1>1, <1>3, <1>4, LatestTyped
<1>6. /\ DOMAIN series' = DOMAIN series \cup {k.name} /\ series'[k.name] = t
      /\ (\A n \in DOMAIN series : n # k.name => series'[n] = series[n])
      /\ (\A n : n # k.name => ValueOf(series', n, <<>>) = ValueOf(series, n, <<>>))
      /\ ValueOf(series', k.name, <<>>) = t
  <2>1. PICK d, n, b : d = series /\ n = k.name /\ b = Assigned(d, n, t)
    OBVIOUS
  <2>2. /\ DOMAIN b = DOMAIN d \cup {n} /\ b[n] = t
        /\ (\A m \in DOMAIN d : m # n => b[m] = d[m])
        /\ (\A m, x : m # n => ValueOf(b, m, x) = ValueOf(d, m, x))
        /\ \A x : ValueOf(b, n, x) = t
    BY <2>1 DEF Assigned, ValueOf
  <2>3. series' = b
    BY <1>2, <2>1
  <2> QED
    BY <2>1, <2>2, <2>3
<1>7. \A n \in DOMAIN series' : series'[n] \in Seq(Measure) /\ Len(series'[n]) \in 1..SeriesKept
  BY <1>5, <1>6 DEF MetricsInv
<1>8. ASSUME NEW j \in MetricKeys
      PROVE  CounterTold(Only(ValueOf(series', j.name, <<>>), OfCounter(j)), j, counters')
  <2>1. PICK own : own = Only(ValueOf(series, j.name, <<>>), OfCounter(j))
    OBVIOUS
  <2>2. CounterTold(own, j, counters)
    BY <2>1 DEF MetricsInv
  <2>3. e \in OfCounter(j) <=> kind = "counter" /\ j = k
    BY <1>3 DEF OfCounter
  <2>4. j \in DOMAIN counters /\ ~(j = k /\ kind = "counter") => j \in DOMAIN counters' /\ counters'[j] = counters[j]
    OBVIOUS
  <2>5. CASE j.name # k.name
    <3>1. Only(ValueOf(series', j.name, <<>>), OfCounter(j)) = own
      BY <1>6, <2>1, <2>5
    <3>2. CounterTold(own, j, counters')
      BY <2>2, <2>4, <2>5 DEF CounterTold
    <3> QED
      BY <3>1, <3>2
  <2>6. CASE j.name = k.name
    <3>1. own = Only(s, OfCounter(j)) /\ ValueOf(series', j.name, <<>>) = t
      BY <1>1, <1>6, <2>1, <2>6
    <3>2. PICK u : /\ u = IF e \in OfCounter(j) THEN Append(own, e) ELSE own
                   /\ u \in Seq(Measure)
                   /\ Only(t, OfCounter(j)) = u \/ (u # <<>> /\ Only(t, OfCounter(j)) = Tail(u))
      <4>1. PICK P, l : P = OfCounter(j) /\ l = Append(s, e)
        OBVIOUS
      <4>2. l \in Seq(Measure) /\ l # <<>>
        BY <1>3, <1>4, <4>1
      <4>3. PICK u : u = Only(l, P)
        OBVIOUS
      <4>4. u = Only(Latest(l), P) \/ (u # <<>> /\ Only(Latest(l), P) = Tail(u))
        BY <4>2, <4>3, LatestOnly
      <4>5. u \in Seq(Measure)
        BY <4>2, <4>3, OnlyRange
      <4>6. u = IF e \in P THEN Append(Only(s, P), e) ELSE Only(s, P)
        BY <1>3, <1>4, <4>1, <4>3, OnlyAppended
      <4> QED
        BY <1>1, <3>1, <4>1, <4>4, <4>5, <4>6
    <3>3. own \in Seq(Measure)
      BY <1>4, <3>1, OnlyRange
    <3>4. CounterTold(u, j, counters')
      <4>1. CASE e \in OfCounter(j)
        <5>1. j = k /\ kind = "counter" /\ u = Append(own, e)
          BY <2>3, <3>2, <4>1
        <5>2. j \in DOMAIN counters' /\ counters'[j] = e.value
          BY <1>3, <5>1
        <5>3. own # <<>> => counters[j] <= counters'[j]
          BY <2>2, <5>1 DEF CounterTold
        <5>4. CounterTold(Append(own, e), j, counters')
          BY <1>3, <2>2, <3>3, <5>2, <5>3, ToldAppended
        <5> QED
          BY <5>1, <5>4
      <4>2. CASE e \notin OfCounter(j)
        BY <2>2, <2>3, <2>4, <3>2, <4>2 DEF CounterTold
      <4> QED
        BY <4>1, <4>2
    <3>5. u # <<>> => CounterTold(Tail(u), j, counters')
      BY <3>2, <3>4, ToldTail
    <3> QED
      BY <3>1, <3>2, <3>4, <3>5
  <2> QED
    BY <2>5, <2>6
<1> QED
  BY <1>7, <1>8 DEF MetricsInv

LEMMA MetricsStart == MonitoringInit => MetricsInv
<1> SUFFICES ASSUME MonitoringInit PROVE MetricsInv
  OBVIOUS
<1>1. counters = <<>> /\ series = <<>> /\ DOMAIN counters = {} /\ DOMAIN series = {}
  BY DEF MonitoringInit
<1>2. \A k \in MetricKeys : ValueOf(series, k.name, <<>>) = <<>>
  BY <1>1 DEF ValueOf
<1>3. \A k \in MetricKeys : Only(<<>>, OfCounter(k)) = <<>>
  BY OnlyEmpty
<1> QED
  BY <1>1, <1>2, <1>3 DEF MetricsInv, CounterTold

LEMMA MetricsSteps == MetricsInv /\ [MetricsNext]_metricVars => MetricsInv'
<1> SUFFICES ASSUME MetricsInv, [MetricsNext]_metricVars PROVE MetricsInv'
  OBVIOUS
<1>1. \A v \in Values : v \in Nat
  BY MonitoringAssumption
<1>2. ASSUME NEW k \in MetricKeys, NEW v \in Values, IncrementCounter(k, v) PROVE MetricsInv'
  <2>1. PICK w : w = ValueOf(counters, k, 0) + v
    OBVIOUS
  <2>2. counters' = Assigned(counters, k, w) /\ Extended("counter", k, w)
    BY <1>2, <2>1 DEF IncrementCounter
  <2>3. w \in Nat /\ (k \in DOMAIN counters => counters[k] <= w)
    BY <1>1, <2>1 DEF ValueOf, MetricsInv
  <2>4. /\ DOMAIN counters' = DOMAIN counters \cup {k} /\ counters'[k] = w
        /\ \A j \in DOMAIN counters : j # k => counters'[j] = counters[j]
    <3>1. PICK d, b : d = counters /\ b = Assigned(d, k, w)
      OBVIOUS
    <3>2. DOMAIN b = DOMAIN d \cup {k} /\ b[k] = w /\ \A j \in DOMAIN d : j # k => b[j] = d[j]
      BY <3>1 DEF Assigned
    <3>3. counters' = b
      BY <2>2, <3>1
    <3> QED
      BY <3>1, <3>2, <3>3
  <2>5. DOMAIN counters' \subseteq MetricKeys /\ \A j \in DOMAIN counters' : counters'[j] \in Nat
    BY <2>3, <2>4 DEF MetricsInv
  <2>6. \A j \in DOMAIN counters : j \in DOMAIN counters' /\ ((j = k /\ "counter" = "counter") \/ counters'[j] = counters[j])
    BY <2>4
  <2>7. k \in DOMAIN counters' /\ counters'[k] = w /\ (k \in DOMAIN counters => counters[k] <= w)
    BY <2>3, <2>4
  <2> QED
    BY <2>2, <2>3, <2>5, <2>6, <2>7, ExtendedKeeps
<1>3. ASSUME counters' = counters, NEW k \in MetricKeys, NEW v \in Values,
             NEW kind \in {"gauge", "histogram"}, Extended(kind, k, v)
      PROVE  MetricsInv'
  <2>1. v \in Nat /\ kind \in {"counter", "gauge", "histogram"} /\ kind # "counter"
    BY <1>1
  <2>2. DOMAIN counters' \subseteq MetricKeys /\ \A j \in DOMAIN counters' : counters'[j] \in Nat
    BY <1>3 DEF MetricsInv
  <2>3. \A j \in DOMAIN counters : j \in DOMAIN counters' /\ ((j = k /\ kind = "counter") \/ counters'[j] = counters[j])
    BY <1>3
  <2> QED
    BY <1>3, <2>1, <2>2, <2>3, ExtendedKeeps
<1>4. ASSUME NEW k \in MetricKeys, NEW v \in Values, SetGauge(k, v) \/ RecordHistogram(k, v) PROVE MetricsInv'
  <2>1. counters' = counters /\ \E kind \in {"gauge", "histogram"} : Extended(kind, k, v)
    BY <1>4 DEF SetGauge, RecordHistogram
  <2> QED
    BY <1>3, <2>1
<1>5. CASE ResetMetrics
  <2>1. counters' = <<>> /\ series' = <<>> /\ DOMAIN counters' = {} /\ DOMAIN series' = {}
    BY <1>5 DEF ResetMetrics
  <2>2. \A k \in MetricKeys : ValueOf(series', k.name, <<>>) = <<>>
    BY <2>1 DEF ValueOf
  <2>3. \A k \in MetricKeys : Only(<<>>, OfCounter(k)) = <<>>
    BY OnlyEmpty
  <2> QED
    BY <2>1, <2>2, <2>3 DEF MetricsInv, CounterTold
<1>6. CASE UNCHANGED metricVars
  BY <1>6 DEF metricVars, MetricsInv
<1> QED
  BY <1>2, <1>4, <1>5, <1>6 DEF MetricsNext

LEMMA MetricsHold ==
  ASSUME MetricsInv
  PROVE  (\A n \in DOMAIN series : Len(series[n]) \in 1..SeriesKept) /\ CounterSeries
<1>1. ASSUME NEW k \in DOMAIN counters,
             NEW all, all = ValueOf(series, k.name, <<>>),
             NEW own, own = Only(all, {x \in ToSet(all) : x.kind = "counter" /\ x.key = k}), own # <<>>
      PROVE  Last(own).value = counters[k] /\ \A i \in 1..(Len(own) - 1) : own[i].value <= own[i + 1].value
  <2>1. k \in MetricKeys
    BY DEF MetricsInv
  <2>2. all \in Seq(Measure)
    BY <1>1 DEF ValueOf, MetricsInv
  <2>3. PICK P : P = {x \in ToSet(all) : x.kind = "counter" /\ x.key = k}
    OBVIOUS
  <2>4. \A x \in Range(all) : x \in P <=> x \in OfCounter(k)
    BY <2>2, <2>3 DEF Range, ToSet, OfCounter
  <2>5. Only(all, P) = Only(all, OfCounter(k))
    BY <2>2, <2>4, OnlyAgrees
  <2>6. CounterTold(own, k, counters)
    BY <1>1, <2>1, <2>3, <2>5 DEF MetricsInv
  <2> QED
    BY <1>1, <2>6 DEF CounterTold, Rising, Last
<1>2. CounterSeries
  BY <1>1, Zenon DEF CounterSeries
<1> QED
  BY <1>2 DEF MetricsInv

(***************************************************************************)
(* Monitoring: the AlertManager's alerts.                                  *)
(***************************************************************************)
OnExactly(a, v, on) == on <=> v >= 0 /\ ShouldTrigger(a, v)
Balanced(n, on) == n.up \in Int /\ n.down \in Int /\ n.up = n.down + (IF on THEN 1 ELSE 0)

AlertsInv ==
  /\ Range(alerts) \subseteq AlertObjects /\ triggered \subseteq AlertObjects
  /\ \A a \in AlertObjects : /\ lastSeen[a] \in Nat \cup {-1}
                             /\ OnExactly(a, lastSeen[a], a \in triggered)
                             /\ Balanced(rounds[a], a \in triggered)

LEMMA AlertsStart == MonitoringInit => AlertsInv
<1> SUFFICES ASSUME MonitoringInit PROVE AlertsInv
  OBVIOUS
<1>1. /\ alerts = <<>> /\ triggered = {}
      /\ lastSeen = [a \in AlertObjects |-> -1]
      /\ rounds = [a \in AlertObjects |-> [up |-> 0, down |-> 0]]
  BY DEF MonitoringInit
<1>2. Range(alerts) = {}
  BY <1>1 DEF Range
<1>3. ASSUME NEW a \in AlertObjects
      PROVE  /\ lastSeen[a] \in Nat \cup {-1} /\ OnExactly(a, lastSeen[a], a \in triggered)
             /\ Balanced(rounds[a], a \in triggered)
  <2>1. lastSeen[a] = -1 /\ a \notin triggered /\ rounds[a].up = 0 /\ rounds[a].down = 0
    BY <1>1
  <2> QED
    BY <2>1 DEF OnExactly, Balanced
<1> QED
  BY <1>1, <1>2, <1>3 DEF AlertsInv

LEMMA RegisterAlertKeeps ==
  ASSUME AlertsInv, NEW a \in AlertObjects, RegisterAlert(a) PROVE AlertsInv'
<1>1. /\ triggered' = triggered /\ lastSeen' = lastSeen /\ rounds' = rounds
      /\ \A i \in DOMAIN alerts' : alerts'[i] = a \/ (i \in DOMAIN alerts /\ alerts'[i] = alerts[i])
  BY DEF RegisterAlert, Assigned
<1>2. Range(alerts') \subseteq AlertObjects
  BY <1>1 DEF AlertsInv, Range
<1> QED
  BY <1>1, <1>2 DEF AlertsInv

LEMMA CheckMetricKeeps ==
  ASSUME AlertsInv, NEW metric, NEW v \in Values, CheckMetric(metric, v) PROVE AlertsInv'
<1>1. PICK F, on : F = AlertsOn(metric) /\ on = {a \in F : ShouldTrigger(a, v)}
  OBVIOUS
<1>2. v \in Nat /\ F \subseteq AlertObjects
  BY <1>1, MonitoringAssumption DEF AlertsInv, AlertsOn
<1>3. /\ alerts' = alerts /\ triggered' = (triggered \ F) \cup on
      /\ lastSeen' = [a \in AlertObjects |-> IF a \in F THEN v ELSE lastSeen[a]]
      /\ rounds' = [a \in AlertObjects |->
           [up   |-> rounds[a].up   + IF a \in on \ triggered THEN 1 ELSE 0,
            down |-> rounds[a].down + IF a \in (triggered \cap F) \ on THEN 1 ELSE 0]]
  BY <1>1 DEF CheckMetric
<1>4. on \subseteq F /\ triggered' \subseteq AlertObjects /\ Range(alerts') \subseteq AlertObjects
  BY <1>1, <1>2, <1>3 DEF AlertsInv
<1>5. ASSUME NEW a \in AlertObjects
      PROVE  /\ lastSeen'[a] \in Nat \cup {-1} /\ OnExactly(a, lastSeen'[a], a \in triggered')
             /\ Balanced(rounds'[a], a \in triggered')
  <2>1. /\ lastSeen[a] \in Nat \cup {-1} /\ OnExactly(a, lastSeen[a], a \in triggered)
        /\ Balanced(rounds[a], a \in triggered)
    BY DEF AlertsInv
  <2>2. PICK b \in BOOLEAN, c \in BOOLEAN : (b <=> a \in triggered) /\ (c <=> a \in triggered')
    OBVIOUS
  <2>3. PICK z : z = [up   |-> rounds[a].up   + IF a \in on \ triggered THEN 1 ELSE 0,
                      down |-> rounds[a].down + IF a \in (triggered \cap F) \ on THEN 1 ELSE 0]
    OBVIOUS
  <2>4. rounds'[a] = z /\ lastSeen'[a] = IF a \in F THEN v ELSE lastSeen[a]
    BY <1>3, <2>3
  <2>5. CASE a \notin F
    <3>1. c = b /\ a \notin on \ triggered /\ a \notin (triggered \cap F) \ on
      BY <1>3, <1>4, <2>2, <2>5
    <3>2. z.up = rounds[a].up /\ z.down = rounds[a].down /\ lastSeen'[a] = lastSeen[a]
      BY <2>1, <2>3, <2>4, <2>5, <3>1 DEF Balanced
    <3> QED
      BY <2>1, <2>2, <2>4, <3>1, <3>2 DEF OnExactly, Balanced
  <2>6. CASE a \in F
    <3>1. c = (a \in on) /\ (a \in on <=> ShouldTrigger(a, v))
      BY <1>1, <1>3, <2>2, <2>6
    <3>2. lastSeen'[a] = v /\ v >= 0
      BY <1>2, <2>4, <2>6
    <3>3. OnExactly(a, lastSeen'[a], a \in triggered')
      BY <2>2, <3>1, <3>2 DEF OnExactly
    <3>4. (a \in on \ triggered <=> c /\ ~b) /\ (a \in (triggered \cap F) \ on <=> b /\ ~c)
      BY <2>2, <2>6, <3>1
    <3>5. rounds[a].up \in Int /\ rounds[a].down \in Int /\ rounds[a].up = rounds[a].down + (IF b THEN 1 ELSE 0)
      BY <2>1, <2>2 DEF Balanced
    <3>6. z.up = rounds[a].up + (IF c /\ ~b THEN 1 ELSE 0) /\ z.down = rounds[a].down + (IF b /\ ~c THEN 1 ELSE 0)
      BY <2>3, <3>4
    <3>7. z.up \in Int /\ z.down \in Int /\ z.up = z.down + (IF c THEN 1 ELSE 0)
      BY <3>5, <3>6
    <3>8. Balanced(z, a \in triggered')
      BY <2>2, <3>7 DEF Balanced
    <3> QED
      BY <1>2, <2>4, <3>2, <3>3, <3>8
  <2> QED
    BY <2>5, <2>6
<1> QED
  BY <1>4, <1>5 DEF AlertsInv

LEMMA AlertsSteps == AlertsInv /\ [AlertsNext]_alertVars => AlertsInv'
<1> SUFFICES ASSUME AlertsInv, [AlertsNext]_alertVars PROVE AlertsInv'
  OBVIOUS
<1>1. CASE UNCHANGED alertVars
  BY <1>1 DEF alertVars, AlertsInv
<1> QED
  BY <1>1, RegisterAlertKeeps, CheckMetricKeeps DEF AlertsNext

LEMMA AlertsHold ==
  ASSUME AlertsInv
  PROVE  Range(alerts) \subseteq AlertObjects /\ triggered \subseteq AlertObjects /\ AlertTellsLast
BY DEF AlertsInv, AlertTellsLast, OnExactly, Balanced

(***************************************************************************)
(* Monitoring: the engine's rules, its objective and its percentiles.      *)
(***************************************************************************)
LEMMA LargestOf ==
  ASSUME NEW s \in Seq(Nat), NEW A \in SUBSET (DOMAIN s), A # {}
  PROVE  \E i \in A : \A j \in A : s[j] <= s[i]
<1> DEFINE T == {k \in Nat : \A B \in SUBSET (DOMAIN s) : B \subseteq 1..k /\ B # {} => \E i \in B : \A j \in B : s[j] <= s[i]}
<1>1. T \in SUBSET Nat /\ 0 \in T
  <2>1. 1..0 = {}
    OBVIOUS
  <2> QED
    BY <2>1
<1>2. \A i \in DOMAIN s : s[i] \in Nat
  OBVIOUS
<1>3. ASSUME NEW k \in T PROVE k + 1 \in T
  <2>1. SUFFICES ASSUME NEW B \in SUBSET (DOMAIN s), B \subseteq 1..(k + 1), B # {}
                 PROVE  \E i \in B : \A j \in B : s[j] <= s[i]
    <3>1. k + 1 \in Nat
      OBVIOUS
    <3> QED
      BY <3>1
  <2>2. k \in Nat /\ \A C \in SUBSET (DOMAIN s) : C \subseteq 1..k /\ C # {} => \E i \in C : \A j \in C : s[j] <= s[i]
    OBVIOUS
  <2> HIDE DEF T
  <2>3. PICK C : C = B \ {k + 1}
    OBVIOUS
  <2>4. C \in SUBSET (DOMAIN s) /\ C \subseteq 1..k
    BY <2>1, <2>2, <2>3
  <2>5. CASE C = {}
    <3>1. B = {k + 1}
      BY <2>1, <2>3, <2>5
    <3> QED
      BY <1>2, <2>1, <3>1
  <2>6. CASE C # {}
    <3>1. PICK i \in C : \A j \in C : s[j] <= s[i]
      BY <2>2, <2>4, <2>6
    <3>2. CASE k + 1 \in B /\ s[i] <= s[k + 1]
      <4>1. \A j \in B : j = k + 1 \/ j \in C
        BY <2>3
      <4>2. k + 1 \in DOMAIN s /\ i \in DOMAIN s /\ \A j \in C : j \in DOMAIN s
        BY <2>1, <2>4, <3>1, <3>2
      <4>3. \A j \in B : s[j] <= s[k + 1]
        BY <1>2, <3>1, <3>2, <4>1, <4>2
      <4> QED
        BY <3>2, <4>3
    <3>3. CASE ~(k + 1 \in B /\ s[i] <= s[k + 1])
      <4>1. \A j \in B : (j = k + 1 /\ ~(s[i] <= s[k + 1])) \/ j \in C
        BY <2>3, <3>3
      <4>2. i \in B /\ i \in DOMAIN s /\ \A j \in B : j \in DOMAIN s
        BY <2>1, <2>3, <2>4, <3>1
      <4>3. \A j \in B : s[j] <= s[i]
        BY <1>2, <3>1, <4>1, <4>2
      <4> QED
        BY <4>2, <4>3
    <3> QED
      BY <3>2, <3>3
  <2> QED
    BY <2>5, <2>6
<1> HIDE DEF T
<1>4. T = Nat
  BY <1>1, <1>3, SetInduction
<1>5. A \subseteq 1..Len(s) /\ Len(s) \in Nat
  BY ListDomain
<1> QED
  BY <1>4, <1>5 DEF T

(* How many of a list lie below v and up to it.                            *)
LowerThan(s, v) == Cardinality({i \in DOMAIN s : s[i] < v})
UpTo(s, v)  == Cardinality({i \in DOMAIN s : s[i] <= v})

LEMMA RankCounts ==
  ASSUME NEW s \in Seq(Nat), NEW v, NEW w
  PROVE  /\ LowerThan(s, v) \in Nat /\ UpTo(s, v) \in Nat
         /\ {i \in DOMAIN s : s[i] <= w} \subseteq {i \in DOMAIN s : s[i] < v} => UpTo(s, w) <= LowerThan(s, v)
<1>1. IsFiniteSet(DOMAIN s)
  BY ListDomain, FS_Interval
<1>2. IsFiniteSet({i \in DOMAIN s : s[i] < v}) /\ IsFiniteSet({i \in DOMAIN s : s[i] <= v}) /\ IsFiniteSet({i \in DOMAIN s : s[i] <= w})
  BY <1>1, FS_Subset
<1> QED
  BY <1>2, FS_Subset, FS_CardinalityType DEF LowerThan, UpTo

LEMMA RankedIs ==
  ASSUME NEW s \in Seq(Nat), NEW n \in 1..Len(s)
  PROVE  Ranked(s, n) \in ToSet(s) /\ Ranked(s, n) \in Nat /\ LowerThan(s, Ranked(s, n)) < n /\ n <= UpTo(s, Ranked(s, n))
<1>1. /\ DOMAIN s = 1..Len(s) /\ Len(s) \in Nat /\ \A i \in DOMAIN s : s[i] \in Nat
  BY ListDomain
<1>2. PICK V : V = {v \in ToSet(s) : n <= UpTo(s, v)}
  OBVIOUS
<1>3. \A v \in ToSet(s) : v \in Nat /\ \E i \in DOMAIN s : v = s[i]
  BY <1>1 DEF ToSet
<1>4. V \in SUBSET Nat
  BY <1>2, <1>3
<1>5. V # {}
  <2>1. DOMAIN s \in SUBSET (DOMAIN s) /\ DOMAIN s # {}
    BY <1>1
  <2>2. PICK i \in DOMAIN s : \A j \in DOMAIN s : s[j] <= s[i]
    BY <2>1, LargestOf
  <2>3. {j \in DOMAIN s : s[j] <= s[i]} = 1..Len(s)
    BY <1>1, <2>2
  <2>4. UpTo(s, s[i]) = Len(s)
    <3>1. Cardinality(1..Len(s)) = Len(s)
      <4>1. PICK k \in Nat : k = Len(s)
        BY <1>1
      <4>2. Cardinality(1..k) = k
        BY FS_Interval
      <4> QED
        BY <4>1, <4>2
    <3> QED
      BY <2>3, <3>1 DEF UpTo
  <2>5. s[i] \in ToSet(s) /\ n <= Len(s)
    BY <1>1 DEF ToSet
  <2> QED
    BY <1>2, <2>4, <2>5
<1>6. PICK v \in V : \A w \in V : v <= w
  BY <1>4, <1>5, LeastElement
<1>7. LowerThan(s, v) < n
  <2>1. SUFFICES ASSUME ~(LowerThan(s, v) < n) PROVE FALSE
    OBVIOUS
  <2>2. PICK A : A = {i \in DOMAIN s : s[i] < v}
    OBVIOUS
  <2>3. A # {}
    <3>1. SUFFICES ASSUME A = {} PROVE FALSE
      OBVIOUS
    <3>2. Cardinality({}) = 0
      BY FS_EmptySet
    <3>3. LowerThan(s, v) = 0
      BY <2>2, <3>1, <3>2 DEF LowerThan
    <3> QED
      BY <1>1, <2>1, <3>3
  <2>4. A \in SUBSET (DOMAIN s)
    BY <2>2
  <2>5. PICK i \in A : \A j \in A : s[j] <= s[i]
    BY <2>3, <2>4, LargestOf
  <2>6. v \in Nat /\ s[i] \in Nat /\ i \in DOMAIN s /\ s[i] < v /\ s[i] \in ToSet(s)
    BY <1>1, <1>4, <2>2, <2>5 DEF ToSet
  <2>7. \A j \in DOMAIN s : s[j] <= s[i] <=> s[j] < v
    BY <1>1, <2>2, <2>5, <2>6
  <2>8. UpTo(s, s[i]) = LowerThan(s, v)
    <3>1. {j \in DOMAIN s : s[j] <= s[i]} = {j \in DOMAIN s : s[j] < v}
      BY <2>7
    <3> QED
      BY <3>1 DEF UpTo, LowerThan
  <2>9. LowerThan(s, v) \in Nat
    BY RankCounts
  <2>10. n <= UpTo(s, s[i])
    BY <1>1, <2>1, <2>8, <2>9
  <2>11. s[i] \in V
    BY <1>2, <2>6, <2>10
  <2> QED
    BY <1>6, <2>6, <2>11
<1>8. v \in ToSet(s) /\ n <= UpTo(s, v)
  BY <1>2
<1>9. \E u \in ToSet(s) : Cardinality({i \in DOMAIN s : s[i] < u}) < n /\ n <= Cardinality({i \in DOMAIN s : s[i] <= u})
  BY <1>7, <1>8 DEF LowerThan, UpTo
<1>10. PICK r : r = Ranked(s, n)
  OBVIOUS
<1>11. r \in ToSet(s) /\ Cardinality({i \in DOMAIN s : s[i] < r}) < n /\ n <= Cardinality({i \in DOMAIN s : s[i] <= r})
  BY <1>9, <1>10 DEF Ranked, ToSet
<1> QED
  BY <1>3, <1>10, <1>11 DEF LowerThan, UpTo

LEMMA RankedInOrder ==
  ASSUME NEW s \in Seq(Nat), NEW n \in 1..Len(s), NEW k \in 1..Len(s), n <= k
  PROVE  Ranked(s, n) <= Ranked(s, k)
<1>1. PICK v, w : v = Ranked(s, n) /\ w = Ranked(s, k)
  OBVIOUS
<1>2. v \in Nat /\ w \in Nat /\ LowerThan(s, v) < n /\ k <= UpTo(s, w)
  BY <1>1, RankedIs
<1>3. SUFFICES ASSUME w < v PROVE FALSE
  BY <1>1, <1>2
<1>4. {i \in DOMAIN s : s[i] <= w} \subseteq {i \in DOMAIN s : s[i] < v}
  BY <1>2, <1>3
<1>5. UpTo(s, w) <= LowerThan(s, v) /\ UpTo(s, w) \in Nat /\ LowerThan(s, v) \in Nat
  BY <1>4, RankCounts
<1> QED
  BY <1>2, <1>5

(* The alert of a rule whose condition has held for n passes in a row.     *)
JudgedSo(s, n, duration) ==
  /\ n \in Nat
  /\ n = 0 => s.state = "none"
  /\ n > 0 /\ n < duration + 2 => s.state = "pending" /\ s.age = n - 2
  /\ n >= duration + 2 => s.state = "firing"

(* What is pending or firing has held for as many passes as it says.       *)
Backed(s, n, duration) ==
  /\ n \in Nat /\ s.state \in {"none", "pending", "firing"}
  /\ s.state = "pending" => s.age \in Int /\ s.age >= -1 /\ s.age + 2 <= n
  /\ s.state = "firing" => n >= duration + 2

(* The conditions that are judged as they are written.                     *)
Exact(r) == r.condition \in {">", "<", "=="}

EngineInv ==
  /\ observed \in Seq(Nat)
  /\ DOMAIN engine = {r.id : r \in Rules} /\ DOMAIN persisted = Rules
  /\ \A r \in Rules : Backed(engine[r.id], persisted[r], r.for)
  /\ \A r \in Rules : Exact(r) => JudgedSo(engine[r.id], persisted[r], r.for)
  /\ slo.good \in Nat /\ slo.total \in Nat /\ slo.good <= slo.total /\ slo.total <= ReadBack

LEMMA EngineStarts == MonitoringInit => EngineInv
<1> SUFFICES ASSUME MonitoringInit PROVE EngineInv
  OBVIOUS
<1>1. /\ observed = <<>> /\ persisted = [r \in Rules |-> 0] /\ slo = [good |-> 0, total |-> 0]
      /\ engine = [i \in {r.id : r \in Rules} |-> [state |-> "none", age |-> -1]]
  BY DEF MonitoringInit
<1>2. observed \in Seq(Nat)
  BY <1>1
<1>3. slo.good = 0 /\ slo.total = 0 /\ ReadBack \in Nat
  BY <1>1, MonitoringAssumption
<1>4. ASSUME NEW r \in Rules
      PROVE  Backed(engine[r.id], persisted[r], r.for) /\ JudgedSo(engine[r.id], persisted[r], r.for)
  <2>1. engine[r.id].state = "none" /\ persisted[r] = 0
    BY <1>1
  <2>2. r.for \in Nat
    BY MonitoringAssumption
  <2> QED
    BY <2>1, <2>2 DEF JudgedSo, Backed
<1> QED
  BY <1>1, <1>2, <1>3, <1>4 DEF EngineInv

LEMMA RecordKeeps ==
  ASSUME EngineInv, NEW v \in Values, Record(v) PROVE EngineInv'
<1>1. PICK t : t = Append(observed, v)
  OBVIOUS
<1>2. t \in Seq(Nat) /\ t # <<>>
  BY <1>1, MonitoringAssumption DEF EngineInv
<1>3. Latest(t) \in Seq(Nat)
  BY <1>2 DEF Latest
<1>4. observed' \in Seq(Nat)
  BY <1>1, <1>3 DEF Record
<1> QED
  BY <1>4 DEF Record, engineVars, EngineInv

LEMMA JudgedOnce ==
  ASSUME EngineInv, NEW r \in Rules, Exact(r), NEW v, NEW n,
         n = IF Triggers(r, v) THEN persisted[r] + 1 ELSE 0
  PROVE  JudgedSo(Judged(r, v), n, r.for)
<1>1. PICK old, f, m : old = engine[r.id] /\ f = r.for /\ m = persisted[r]
  OBVIOUS
<1>2. f \in Nat /\ JudgedSo(old, m, f) /\ m \in Nat
  BY <1>1, MonitoringAssumption DEF EngineInv, JudgedSo
<1>3. CASE ~Triggers(r, v)
  <2>1. Judged(r, v).state = "none" /\ n = 0
    BY <1>3 DEF Judged
  <2> QED
    BY <1>1, <1>2, <2>1 DEF JudgedSo
<1>4. CASE Triggers(r, v)
  <2>1. n = m + 1
    BY <1>1, <1>4
  <2>2. CASE m = 0
    <3>1. Judged(r, v) = [state |-> "pending", age |-> -1]
      BY <1>1, <1>2, <1>4, <2>2 DEF Judged, JudgedSo
    <3> QED
      BY <1>1, <1>2, <2>1, <2>2, <3>1 DEF JudgedSo
  <2>3. CASE m >= f + 2
    <3>1. Judged(r, v) = old /\ old.state = "firing"
      BY <1>1, <1>2, <1>4, <2>3 DEF Judged, JudgedSo
    <3> QED
      BY <1>1, <1>2, <2>1, <2>3, <3>1 DEF JudgedSo
  <2>4. CASE m > 0 /\ m < f + 2
    <3>1. old.state = "pending" /\ old.age = m - 2
      BY <1>2, <2>4 DEF JudgedSo
    <3>2. Judged(r, v) = [state |-> IF (m - 2) + 1 >= f THEN "firing" ELSE "pending", age |-> (m - 2) + 1]
      BY <1>1, <1>4, <3>1 DEF Judged
    <3>3. Judged(r, v).state = (IF (m - 2) + 1 >= f THEN "firing" ELSE "pending") /\ Judged(r, v).age = (m - 2) + 1
      BY <3>2
    <3> QED
      BY <1>1, <1>2, <2>1, <2>4, <3>3 DEF JudgedSo
  <2> QED
    BY <1>2, <2>2, <2>3, <2>4
<1> QED
  BY <1>3, <1>4

LEMMA BackedStill ==
  ASSUME EngineInv, NEW r \in Rules, NEW v, NEW n,
         n = IF Satisfies(r, v) THEN persisted[r] + 1 ELSE 0
  PROVE  Backed(Judged(r, v), n, r.for)
<1>1. PICK old, f, m : old = engine[r.id] /\ f = r.for /\ m = persisted[r]
  OBVIOUS
<1>2. f \in Nat /\ Backed(old, m, f) /\ m \in Nat
  BY <1>1, MonitoringAssumption DEF EngineInv, Backed
<1>3. n \in Nat
  BY <1>1, <1>2
<1>4. CASE ~Triggers(r, v)
  <2>1. Judged(r, v).state = "none"
    BY <1>4 DEF Judged
  <2> QED
    BY <1>3, <2>1 DEF Backed
<1>5. CASE Triggers(r, v)
  <2>1. n = m + 1
    <3>1. Satisfies(r, v)
      BY <1>5 DEF Triggers, Satisfies
    <3> QED
      BY <1>1, <3>1
  <2>2. CASE old.state = "none"
    <3>1. Judged(r, v) = [state |-> "pending", age |-> -1]
      BY <1>1, <1>5, <2>2 DEF Judged
    <3> QED
      BY <1>1, <1>2, <1>3, <2>1, <3>1 DEF Backed
  <2>3. CASE old.state = "firing"
    <3>1. Judged(r, v) = old
      BY <1>1, <1>5, <2>3 DEF Judged
    <3> QED
      BY <1>1, <1>2, <1>3, <2>1, <2>3, <3>1 DEF Backed
  <2>4. CASE old.state = "pending"
    <3>1. PICK g : g = old.age
      OBVIOUS
    <3>2. g \in Int /\ g >= -1 /\ g + 2 <= m
      BY <1>2, <2>4, <3>1 DEF Backed
    <3>3. Judged(r, v).state = (IF g + 1 >= f THEN "firing" ELSE "pending") /\ Judged(r, v).age = g + 1
      BY <1>1, <1>5, <2>4, <3>1 DEF Judged
    <3> QED
      BY <1>1, <1>2, <1>3, <2>1, <3>2, <3>3 DEF Backed
  <2> QED
    BY <1>2, <2>2, <2>3, <2>4 DEF Backed
<1> QED
  BY <1>4, <1>5

LEMMA NewestLength ==
  ASSUME NEW s \in Seq(Nat), NEW n \in Nat
  PROVE  Newest(s, n) \in Seq(Nat) /\ Len(Newest(s, n)) <= n /\ Len(Newest(s, n)) \in Nat
<1>1. PICK l, a : l = Len(s) /\ a = Max({1, l - n + 1})
  OBVIOUS
<1>2. l \in Nat /\ l - n + 1 \in Int
  BY <1>1
<1>3. a \in Nat /\ a >= 1 /\ a >= l - n + 1
  BY <1>1, <1>2, OfTwo
<1>4. Newest(s, n) = SubSeq(s, a, l)
  BY <1>1 DEF Newest
<1>5. SubSeq(s, a, l) \in Seq(Nat) /\ Len(SubSeq(s, a, l)) = IF a <= l THEN l - a + 1 ELSE 0
  <2>1. \A i \in a..l : s[i] \in Nat
    BY <1>1, <1>2, <1>3
  <2> QED
    BY <1>2, <1>3, <2>1, SubSeqProperties
<1> QED
  BY <1>2, <1>3, <1>4, <1>5

LEMMA EvaluateKeeps ==
  ASSUME EngineInv, Evaluate PROVE EngineInv'
<1>1. PICK v : v = Last(observed)
  OBVIOUS
<1>2. /\ engine' = [i \in DOMAIN engine |-> Judged(CHOOSE r \in Rules : r.id = i, v)]
      /\ persisted' = [r \in Rules |-> IF Satisfies(r, v) THEN persisted[r] + 1 ELSE 0]
      /\ slo' = Evaluated /\ observed' = observed
  BY <1>1 DEF Evaluate
<1>3. DOMAIN engine' = {r.id : r \in Rules} /\ DOMAIN persisted' = Rules
  BY <1>2 DEF EngineInv
<1>4. ASSUME NEW r \in Rules
      PROVE  /\ Backed(engine'[r.id], persisted'[r], r.for)
             /\ Exact(r) => JudgedSo(engine'[r.id], persisted'[r], r.for)
  <2>1. (CHOOSE q \in Rules : q.id = r.id) = r
    <3>1. \E q \in Rules : q.id = r.id
      OBVIOUS
    <3>2. PICK c : c = CHOOSE q \in Rules : q.id = r.id
      OBVIOUS
    <3>3. c \in Rules /\ c.id = r.id
      BY <3>1, <3>2
    <3> QED
      BY <3>2, <3>3, MonitoringAssumption
  <2>2. r.id \in DOMAIN engine
    BY DEF EngineInv
  <2>3. engine'[r.id] = Judged(r, v)
    BY <1>2, <2>1, <2>2
  <2>4. persisted'[r] = IF Satisfies(r, v) THEN persisted[r] + 1 ELSE 0
    BY <1>2
  <2>5. PICK n : n = IF Satisfies(r, v) THEN persisted[r] + 1 ELSE 0
    OBVIOUS
  <2>6. Backed(Judged(r, v), n, r.for)
    BY <2>5, BackedStill
  <2>7. ASSUME Exact(r) PROVE JudgedSo(Judged(r, v), n, r.for)
    <3>1. Satisfies(r, v) <=> Triggers(r, v)
      BY <2>7 DEF Exact, Satisfies, Triggers
    <3>2. n = IF Triggers(r, v) THEN persisted[r] + 1 ELSE 0
      BY <2>5, <3>1
    <3> QED
      BY <2>7, <3>2, JudgedOnce
  <2> QED
    BY <2>3, <2>4, <2>5, <2>6, <2>7
<1>5. slo'.good \in Nat /\ slo'.total \in Nat /\ slo'.good <= slo'.total /\ slo'.total <= ReadBack
  <2>1. PICK P, read : P = {x \in Values : x > 0} /\ read = Newest(observed, ReadBack)
    OBVIOUS
  <2>2. slo'.good = Len(Only(read, P)) /\ slo'.total = Len(read)
    BY <1>2, <2>1 DEF Evaluated
  <2>3. observed \in Seq(Nat) /\ ReadBack \in Nat
    BY MonitoringAssumption DEF EngineInv
  <2>4. read \in Seq(Nat) /\ Len(read) <= ReadBack /\ Len(read) \in Nat
    BY <2>1, <2>3, NewestLength
  <2>5. Len(Only(read, P)) \in Nat /\ Len(Only(read, P)) <= Len(read)
    BY <2>4, OnlyLength
  <2> QED
    BY <2>2, <2>4, <2>5
<1>6. observed' \in Seq(Nat)
  BY <1>2 DEF EngineInv
<1> QED
  BY <1>3, <1>4, <1>5, <1>6 DEF EngineInv

LEMMA EngineSteps == EngineInv /\ [EngineNext]_engineVars => EngineInv'
<1> SUFFICES ASSUME EngineInv, [EngineNext]_engineVars PROVE EngineInv'
  OBVIOUS
<1>1. CASE UNCHANGED engineVars
  BY <1>1 DEF engineVars, EngineInv
<1> QED
  BY <1>1, RecordKeeps, EvaluateKeeps DEF EngineNext

LEMMA EngineHolds ==
  ASSUME EngineInv PROVE slo.good <= slo.total /\ slo.total <= ReadBack /\ FiresAfterDuration
<1>1. ASSUME NEW r \in Rules
      PROVE  /\ engine[r.id].state = "firing" => persisted[r] >= r.for + 2
             /\ r.condition \in {">", "<", "=="} /\ persisted[r] >= r.for + 2 => engine[r.id].state = "firing"
  <2>1. /\ Backed(engine[r.id], persisted[r], r.for) /\ r.for \in Nat
        /\ Exact(r) => JudgedSo(engine[r.id], persisted[r], r.for)
    BY MonitoringAssumption DEF EngineInv
  <2> QED
    BY <2>1 DEF JudgedSo, Backed, Exact
<1> QED
  BY <1>1 DEF EngineInv, FiresAfterDuration

(***************************************************************************)
(* Monitoring: the logs. A log has the end of what it was told.            *)
(***************************************************************************)
LogEntry ==
  [log : {"structured", "audit"}, key : {"INFO", "ERROR", "ann"}, at : Nat]
    \cup [log : {"performance"}, key : Parts, at : Nat]
    \cup [log : {"system"}, key : {"cpu"}, at : Nat]
Journals == {"structured", "audit", "performance", "system"}
OfLog(x) == {e \in LogEntry : e.log = x}

InTime(s) == \A i, j \in 1..Len(s) : i <= j => s[i].at <= s[j].at

(* Of all that was logged the log has forgotten old, and has s.            *)
KeptOf(all, old, s) ==
  /\ old \in Seq(LogEntry) /\ s \in Seq(LogEntry) /\ all = old \o s
  /\ Len(s) <= SeriesKept /\ (old # <<>> => Len(s) = SeriesKept)

JournalsInv ==
  /\ journaled \in Seq(LogEntry) /\ minute \in Nat /\ InTime(journaled)
  /\ \A i \in 1..Len(journaled) : journaled[i].at <= minute
  /\ DOMAIN journals = Journals
  /\ \A x \in Journals : \E old : KeptOf(Only(journaled, OfLog(x)), old, journals[x])

LEMMA EntryFields ==
  ASSUME NEW e \in LogEntry
  PROVE  /\ e.log \in Journals /\ e.at \in Nat
         /\ e.log = "performance" => e.key \in Parts
         /\ e.log = "system" => e.key = "cpu"
BY DEF LogEntry, Journals

LEMMA TimeAppended ==
  ASSUME NEW s \in Seq(LogEntry), NEW e \in LogEntry, NEW m \in Nat, InTime(s),
         \A i \in 1..Len(s) : s[i].at <= m, e.at = m
  PROVE  InTime(Append(s, e)) /\ \A i \in 1..Len(Append(s, e)) : Append(s, e)[i].at <= m
<1>1. PICK n, t : n = Len(s) /\ t = Append(s, e)
  OBVIOUS
<1>2. Len(t) = n + 1 /\ n \in Nat /\ (\A i \in 1..n : t[i] = s[i]) /\ t[n + 1] = e
  BY <1>1, Appended
<1>3. ASSUME NEW i \in 1..(n + 1) PROVE t[i].at <= m
  <2>1. CASE i = n + 1
    BY <1>2, <2>1
  <2>2. CASE i # n + 1
    <3>1. i \in 1..n
      BY <1>2, <2>2
    <3> QED
      BY <1>1, <1>2, <3>1
  <2> QED
    BY <2>1, <2>2
<1>4. ASSUME NEW i \in 1..(n + 1), NEW j \in 1..(n + 1), i <= j PROVE t[i].at <= t[j].at
  <2>1. CASE j = n + 1
    BY <1>2, <1>3, <2>1
  <2>2. CASE j # n + 1
    <3>1. i \in 1..n /\ j \in 1..n
      BY <1>2, <1>4, <2>2
    <3> QED
      BY <1>1, <1>2, <1>4, <3>1 DEF InTime
  <2> QED
    BY <2>1, <2>2
<1> QED
  BY <1>1, <1>2, <1>3, <1>4 DEF InTime

LEMMA OnlyInTime ==
  ASSUME NEW s \in Seq(LogEntry), InTime(s), NEW P PROVE InTime(Only(s, P))
<1>1. PICK t : t = Only(s, P)
  OBVIOUS
<1>2. t \in Seq(LogEntry) /\ Leaves(t, s, Len(s), P)
  BY <1>1, OnlyLeaves
<1>3. DOMAIN t = 1..Len(t) /\ Len(t) \in Nat /\ DOMAIN s = 1..Len(s)
  BY <1>2, ListDomain
<1>4. ASSUME NEW i \in 1..Len(t), NEW j \in 1..Len(t), i <= j PROVE t[i].at <= t[j].at
  <2>1. CASE i = j
    <3>1. t[i].at \in Nat
      BY <1>2, <1>3, EntryFields
    <3> QED
      BY <2>1, <3>1
  <2>2. CASE i < j
    <3>1. PICK a \in 1..Len(s), c \in 1..Len(s) : a < c /\ t[i] = s[a] /\ t[j] = s[c]
      <4>1. i \in DOMAIN t /\ j \in DOMAIN t
        BY <1>3
      <4> QED
        BY <1>2, <2>2, <4>1 DEF Leaves
    <3>2. a <= c
      BY <3>1
    <3> QED
      BY <3>1, <3>2 DEF InTime
  <2> QED
    BY <1>3, <1>4, <2>1, <2>2
<1> QED
  BY <1>1, <1>4 DEF InTime

LEMMA KeptAppended ==
  ASSUME NEW all, NEW old, NEW s, KeptOf(all, old, s), NEW e \in LogEntry
  PROVE  \E o : KeptOf(Append(all, e), o, Latest(Append(s, e)))
<1>1. old \in Seq(LogEntry) /\ s \in Seq(LogEntry) /\ all = old \o s /\ Len(s) <= SeriesKept
      /\ (old # <<>> => Len(s) = SeriesKept)
  BY DEF KeptOf
<1>2. PICK n, t, b : n = Len(s) /\ t = Append(s, e) /\ b = Append(all, e)
  OBVIOUS
<1>3. t \in Seq(LogEntry) /\ Len(t) = n + 1 /\ n \in Nat /\ t # <<>>
  BY <1>1, <1>2, Appended
<1>4. b = old \o t
  <2>1. old \o Append(s, e) = Append(old \o s, e)
    BY <1>1, JoinedAppended
  <2> QED
    BY <1>1, <1>2, <2>1
<1>5. SeriesKept \in Nat \ {0}
  BY MonitoringAssumption
<1>6. CASE n = SeriesKept
  <2>1. Latest(t) = Tail(t) /\ Len(Tail(t)) = n /\ Tail(t) \in Seq(LogEntry)
    BY <1>3, <1>5, <1>6 DEF Latest
  <2>2. PICK x, u, h, o : x = Head(t) /\ u = Tail(t) /\ h = <<x>> /\ o = Append(old, x)
    OBVIOUS
  <2>3. x \in LogEntry /\ u \in Seq(LogEntry) /\ h \in Seq(LogEntry) /\ t = h \o u
    BY <1>3, <2>2
  <2>4. o \in Seq(LogEntry)
    BY <1>1, <2>2, <2>3
  <2>5. o = old \o h
    <3>1. <<>> \in Seq(LogEntry) /\ h = Append(<<>>, x) /\ old \o <<>> = old
      BY <1>1, <2>2
    <3>2. old \o Append(<<>>, x) = Append(old \o <<>>, x)
      BY <1>1, <2>3, <3>1, JoinedAppended
    <3> QED
      BY <2>2, <3>1, <3>2
  <2>6. o \o u = old \o (h \o u)
    <3>1. \A p \in Seq(LogEntry), q \in Seq(LogEntry), r \in Seq(LogEntry) : (p \o q) \o r = p \o (q \o r)
      OBVIOUS
    <3> QED
      BY <1>1, <2>3, <2>5, <3>1
  <2>7. b = o \o u
    BY <1>4, <2>3, <2>6
  <2>8. KeptOf(b, o, u)
    <3>1. Len(u) = SeriesKept /\ Len(u) <= SeriesKept
      BY <1>5, <1>6, <2>1, <2>2
    <3> QED
      BY <2>3, <2>4, <2>7, <3>1 DEF KeptOf
  <2> QED
    BY <1>2, <2>1, <2>2, <2>8
<1>7. CASE n # SeriesKept
  <2>1. old = <<>> /\ n + 1 <= SeriesKept
    BY <1>1, <1>2, <1>3, <1>5, <1>7
  <2>2. Latest(t) = t
    BY <1>3, <1>5, <2>1 DEF Latest
  <2>3. KeptOf(b, old, t)
    BY <1>1, <1>3, <1>4, <2>1 DEF KeptOf
  <2> QED
    BY <1>2, <2>2, <2>3
<1> QED
  BY <1>6, <1>7

(* What is forgotten was logged before what is not.                        *)
LEMMA KeptLater ==
  ASSUME NEW all, NEW old, NEW s, KeptOf(all, old, s), InTime(all), NEW x \in Range(old), NEW y \in Range(s)
  PROVE  x.at <= y.at /\ x.at \in Nat /\ y.at \in Nat
<1>1. old \in Seq(LogEntry) /\ s \in Seq(LogEntry) /\ all = old \o s
  BY DEF KeptOf
<1>2. PICK n, m : n = Len(old) /\ m = Len(s)
  OBVIOUS
<1>3. /\ n \in Nat /\ m \in Nat /\ Len(all) = n + m /\ DOMAIN old = 1..n /\ DOMAIN s = 1..m
      /\ (\A i \in 1..n : all[i] = old[i]) /\ (\A i \in 1..m : all[n + i] = s[i])
  BY <1>1, <1>2, Joined
<1>4. PICK i \in 1..n : x = old[i]
  BY <1>3 DEF Range
<1>5. PICK j \in 1..m : y = s[j]
  BY <1>3 DEF Range
<1>6. i \in 1..(n + m) /\ n + j \in 1..(n + m) /\ i <= n + j
  BY <1>3
<1>7. all[i].at <= all[n + j].at
  BY <1>3, <1>6 DEF InTime
<1>8. x \in LogEntry /\ y \in LogEntry
  BY <1>1, <1>3, <1>4, <1>5
<1> QED
  BY <1>3, <1>4, <1>5, <1>7, <1>8, EntryFields

LEMMA JournalsStart == MonitoringInit => JournalsInv
<1> SUFFICES ASSUME MonitoringInit PROVE JournalsInv
  OBVIOUS
<1>1. /\ journals = [x \in Journals |-> <<>>] /\ journaled = <<>> /\ minute = 0
  BY DEF MonitoringInit, Journals
<1>2. <<>> \in Seq(LogEntry) /\ Len(<<>>) = 0 /\ <<>> \o <<>> = <<>>
  OBVIOUS
<1>3. \A x \in Journals : KeptOf(Only(<<>>, OfLog(x)), <<>>, <<>>)
  BY <1>2, OnlyEmpty, MonitoringAssumption DEF KeptOf
<1>4. \A x \in Journals : \E old : KeptOf(Only(journaled, OfLog(x)), old, journals[x])
  BY <1>1, <1>3
<1>5. InTime(journaled) /\ \A i \in 1..Len(journaled) : journaled[i].at <= minute
  BY <1>1, <1>2 DEF InTime
<1> QED
  BY <1>1, <1>2, <1>4, <1>5 DEF JournalsInv

LEMMA LoggedKeeps ==
  ASSUME JournalsInv, NEW x \in Journals, NEW e \in LogEntry, e.log = x, e.at = minute, Logged(x, e)
  PROVE  JournalsInv'
<1>1. PICK js, n, t, s : js = journaled /\ n = minute /\ t = Append(js, e) /\ s = Latest(Append(journals[x], e))
  OBVIOUS
<1>2. /\ js \in Seq(LogEntry) /\ n \in Nat /\ InTime(js) /\ \A i \in 1..Len(js) : js[i].at <= n
  BY <1>1 DEF JournalsInv
<1>3. journaled' = t /\ journals' = [journals EXCEPT ![x] = s] /\ minute' = n
  BY <1>1 DEF Logged
<1>4. t \in Seq(LogEntry)
  BY <1>1, <1>2
<1>5. InTime(t) /\ \A i \in 1..Len(t) : t[i].at <= n
  BY <1>1, <1>2, TimeAppended
<1>6. DOMAIN journals' = Journals /\ journals'[x] = s /\ \A y \in Journals : y # x => journals'[y] = journals[y]
  BY <1>3 DEF JournalsInv
<1>7. ASSUME NEW y \in Journals PROVE \E old : KeptOf(Only(t, OfLog(y)), old, journals'[y])
  <2>1. PICK old : KeptOf(Only(js, OfLog(y)), old, journals[y])
    BY <1>1 DEF JournalsInv
  <2>2. e \in OfLog(y) <=> y = x
    BY DEF OfLog
  <2>3. PICK P, all : P = OfLog(y) /\ all = Only(js, P)
    OBVIOUS
  <2>4. Only(t, P) = IF e \in P THEN Append(all, e) ELSE all
    BY <1>1, <1>2, <2>3, OnlyAppended
  <2>5. CASE y = x
    <3>1. PICK k : k = journals[x]
      OBVIOUS
    <3>2. KeptOf(all, old, k)
      BY <2>1, <2>3, <2>5, <3>1
    <3>3. \E o : KeptOf(Append(all, e), o, Latest(Append(k, e)))
      BY <3>2, KeptAppended
    <3> QED
      BY <1>1, <1>6, <2>2, <2>3, <2>4, <2>5, <3>1, <3>3
  <2>6. CASE y # x
    BY <1>6, <2>1, <2>2, <2>3, <2>4, <2>6
  <2> QED
    BY <2>5, <2>6
<1> QED
  BY <1>2, <1>3, <1>4, <1>5, <1>6, <1>7 DEF JournalsInv

LEMMA JournalsSteps == JournalsInv /\ [JournalsNext]_journalVars => JournalsInv'
<1> SUFFICES ASSUME JournalsInv, [JournalsNext]_journalVars PROVE JournalsInv'
  OBVIOUS
<1>1. minute \in Nat
  BY DEF JournalsInv
<1>2. ASSUME NEW level \in {"INFO", "ERROR"}, LogMessage(level) PROVE JournalsInv'
  <2>1. PICK x, e : x = "structured" /\ e = [log |-> "structured", key |-> level, at |-> minute]
    OBVIOUS
  <2>2. x \in Journals /\ e \in LogEntry /\ e.log = x /\ e.at = minute
    BY <1>1, <2>1 DEF LogEntry, Journals
  <2>3. Logged(x, e)
    BY <1>2, <2>1 DEF LogMessage
  <2> QED
    BY <2>2, <2>3, LoggedKeeps
<1>3. ASSUME NEW user \in {"ann"}, LogEvent(user) PROVE JournalsInv'
  <2>1. PICK x, e : x = "audit" /\ e = [log |-> "audit", key |-> user, at |-> minute]
    OBVIOUS
  <2>2. x \in Journals /\ e \in LogEntry /\ e.log = x /\ e.at = minute
    BY <1>1, <2>1 DEF LogEntry, Journals
  <2>3. Logged(x, e)
    BY <1>3, <2>1 DEF LogEvent
  <2> QED
    BY <2>2, <2>3, LoggedKeeps
<1>4. ASSUME NEW c \in Parts, LogOperation(c) PROVE JournalsInv'
  <2>1. PICK x, e : x = "performance" /\ e = [log |-> "performance", key |-> c, at |-> minute]
    OBVIOUS
  <2>2. x \in Journals /\ e \in LogEntry /\ e.log = x /\ e.at = minute
    BY <1>1, <2>1 DEF LogEntry, Journals
  <2>3. Logged(x, e)
    BY <1>4, <2>1 DEF LogOperation
  <2> QED
    BY <2>2, <2>3, LoggedKeeps
<1>5. CASE Collect
  <2>1. PICK x, e : x = "system" /\ e = [log |-> "system", key |-> "cpu", at |-> minute]
    OBVIOUS
  <2>2. x \in Journals /\ e \in LogEntry /\ e.log = x /\ e.at = minute
    BY <1>1, <2>1 DEF LogEntry, Journals
  <2>3. Logged(x, e)
    BY <1>5, <2>1 DEF Collect
  <2> QED
    BY <2>2, <2>3, LoggedKeeps
<1>6. CASE MinutePasses
  <2>1. minute' = minute + 1 /\ journals' = journals /\ journaled' = journaled
    BY <1>6 DEF MinutePasses
  <2>2. \A i \in 1..Len(journaled') : journaled'[i].at <= minute'
    <3>1. ASSUME NEW i \in 1..Len(journaled) PROVE journaled[i].at <= minute + 1
      <4>1. journaled[i].at <= minute /\ journaled[i].at \in Nat
        <5>1. journaled[i] \in LogEntry
          BY DEF JournalsInv
        <5> QED
          BY <5>1, EntryFields DEF JournalsInv
      <4> QED
        BY <1>1, <4>1
    <3> QED
      BY <2>1, <3>1
  <2> QED
    BY <1>1, <2>1, <2>2 DEF JournalsInv, InTime
<1>7. CASE UNCHANGED journalVars
  BY <1>7 DEF journalVars, JournalsInv, InTime
<1> QED
  BY <1>2, <1>3, <1>4, <1>5, <1>6, <1>7 DEF JournalsNext

-----------------------------------------------------------------------------
LEMMA NewestOne ==
  ASSUME NEW S, NEW s \in Seq(S)
  PROVE  /\ s = <<>> => Newest(s, 1) = <<>>
         /\ s # <<>> => Newest(s, 1) = <<s[Len(s)]>>
<1>1. PICK n : n = Len(s)
  OBVIOUS
<1>2. n \in Nat /\ (s = <<>> <=> n = 0)
  BY <1>1
<1>3. Max({1, (n - 1) + 1}) = IF 1 >= n THEN 1 ELSE n
  <2>1. PICK m : m = (n - 1) + 1
    OBVIOUS
  <2>2. m \in Int /\ m = n
    BY <1>2, <2>1
  <2>3. Max({1, m}) = IF 1 >= m THEN 1 ELSE m
    BY <2>2, OfTwo
  <2> QED
    BY <2>1, <2>2, <2>3
<1>4. CASE n = 0
  <2>1. Newest(s, 1) = SubSeq(s, 1, 0)
    BY <1>1, <1>2, <1>3, <1>4 DEF Newest
  <2>2. SubSeq(s, 1, 0) = <<>>
    BY SubSeqProperties
  <2> QED
    BY <1>2, <1>4, <2>1, <2>2
<1>5. CASE n # 0
  <2>1. Newest(s, 1) = SubSeq(s, n, n)
    <3>1. (IF 1 >= n THEN 1 ELSE n) = n
      BY <1>2, <1>5
    <3> QED
      BY <1>1, <1>3, <3>1 DEF Newest
  <2>2. \A i \in n..n : s[i] \in S
    BY <1>1, <1>2, <1>5
  <2>3. PICK t : t = SubSeq(s, n, n)
    OBVIOUS
  <2>4. t \in Seq(S) /\ Len(t) = 1 /\ t[1] = s[n]
    <3>1. t \in Seq(S) /\ Len(t) = (IF n <= n THEN n - n + 1 ELSE 0) /\ \A i \in 1..(n - n + 1) : t[i] = s[n + i - 1]
      BY <1>2, <2>2, <2>3, SubSeqProperties
    <3>2. n - n + 1 = 1 /\ 1 \in 1..1 /\ n + 1 - 1 = n
      BY <1>2
    <3> QED
      BY <1>2, <3>1, <3>2
  <2>5. t = <<s[n]>>
    BY <2>4
  <2> QED
    BY <1>1, <1>2, <1>5, <2>1, <2>3, <2>5
<1> QED
  BY <1>4, <1>5

LEMMA LogIs ==
  ASSUME JournalsInv, NEW x \in Journals, NEW all, all = Only(journaled, {e \in ToSet(journaled) : e.log = x})
  PROVE  /\ \E old : KeptOf(all, old, journals[x])
         /\ InTime(all) /\ Range(all) \subseteq ToSet(journaled) /\ Range(all) \subseteq OfLog(x)
<1>1. PICK js, P : js = journaled /\ P = {e \in ToSet(js) : e.log = x}
  OBVIOUS
<1>2. js \in Seq(LogEntry) /\ InTime(js) /\ all = Only(js, P)
  BY <1>1 DEF JournalsInv
<1>3. \A e \in Range(js) : e \in P <=> e \in OfLog(x)
  BY <1>1, <1>2 DEF Range, ToSet, OfLog
<1>4. all = Only(js, OfLog(x))
  BY <1>2, <1>3, OnlyAgrees
<1>5. \E old : KeptOf(all, old, journals[x])
  BY <1>1, <1>4 DEF JournalsInv
<1>6. InTime(all)
  BY <1>2, OnlyInTime
<1>7. Range(all) = Range(js) \cap P
  BY <1>2, OnlyRange
<1>8. Range(all) \subseteq ToSet(journaled) /\ Range(all) \subseteq OfLog(x)
  BY <1>1, <1>3, <1>7
<1> QED
  BY <1>5, <1>6, <1>8

LEMMA NewestIsLast ==
  ASSUME JournalsInv, NEW x \in Journals, NEW k, NEW all, all = Only(journaled, {e \in ToSet(journaled) : e.log = x}),
         GetLogs(x, {k}, 1) # <<>>
  PROVE  GetLogs(x, {k}, 1) = Newest(Only(all, {f \in ToSet(journaled) : f.key = k}), 1)
<1>1. PICK old : KeptOf(all, old, journals[x])
  BY LogIs
<1>2. PICK s, F : s = journals[x] /\ F = ToSet(journaled)
  OBVIOUS
<1>3. KeptOf(all, old, s) /\ Range(all) \subseteq F
  BY <1>1, <1>2, LogIs
<1>4. PICK P, Q : P = {e \in ToSet(s) : e.key \in {k}} /\ Q = {f \in F : f.key = k}
  OBVIOUS
<1>5. GetLogs(x, {k}, 1) = Newest(Only(s, P), 1)
  BY <1>2, <1>4 DEF GetLogs
<1>6. Newest(Only(s, P), 1) # <<>>
  BY <1>5
<1>7. Newest(Only(s, P), 1) = Newest(Only(all, Q), 1)
  <2>1. old \in Seq(LogEntry) /\ s \in Seq(LogEntry) /\ all = old \o s
    BY <1>3 DEF KeptOf
  <2>2. PICK K : K = {f \in LogEntry : f.key = k}
    OBVIOUS
  <2>3. all \in Seq(LogEntry)
    <3>1. old \o s \in Seq(LogEntry)
      BY <2>1
    <3> QED
      BY <2>1, <3>1, Zenon
  <2>4. Only(s, P) = Only(s, K)
    <3>1. \A r \in Range(s) : r \in P <=> r \in K
      BY <1>4, <2>1, <2>2 DEF Range, ToSet
    <3> QED
      BY <2>1, <3>1, OnlyAgrees
  <2>5. Only(all, Q) = Only(all, K)
    <3>1. \A r \in Range(all) : r \in LogEntry
      BY <2>3 DEF Range
    <3>2. \A r \in Range(all) : r \in Q <=> r \in K
      BY <1>3, <1>4, <2>2, <3>1
    <3> QED
      BY <2>3, <3>2, OnlyAgrees
  <2>6. PICK a, b, u : a = Only(old, K) /\ b = Only(s, K) /\ u = Only(all, K)
    OBVIOUS
  <2>7. a \in Seq(LogEntry) /\ b \in Seq(LogEntry) /\ u = a \o b
    <3>1. Only(old \o s, K) = Only(old, K) \o Only(s, K)
      BY <2>1, OnlyJoined
    <3>2. a \in Seq(LogEntry) /\ b \in Seq(LogEntry)
      BY <2>1, <2>6, OnlyRange
    <3> QED
      BY <2>1, <2>6, <3>1, <3>2
  <2>8. b # <<>>
    BY <1>6, <2>4, <2>6, <2>7, NewestOne
  <2>9. PICK m, n : m = Len(a) /\ n = Len(b)
    OBVIOUS
  <2>10. n \in 1..n /\ m \in Nat /\ Len(u) = m + n /\ u # <<>> /\ u \in Seq(LogEntry) /\ \A i \in 1..n : u[m + i] = b[i]
    <3>1. n \in Nat \ {0} /\ m \in Nat
      BY <2>7, <2>8, <2>9
    <3>2. /\ u \in Seq(LogEntry) /\ Len(u) = m + n /\ \A i \in 1..n : u[m + i] = b[i]
      BY <2>7, <2>9, Joined
    <3>3. u # <<>>
      BY <3>1, <3>2
    <3> QED
      BY <3>1, <3>2, <3>3
  <2>11. u[Len(u)] = b[Len(b)]
    BY <2>9, <2>10
  <2>12. Newest(b, 1) = <<b[Len(b)]>>
    BY <2>7, <2>8, NewestOne
  <2>13. Newest(u, 1) = <<u[Len(u)]>>
    BY <2>10, NewestOne
  <2> QED
    BY <2>4, <2>5, <2>6, <2>11, <2>12, <2>13
<1> QED
  BY <1>2, <1>4, <1>5, <1>7

LEMMA StatisticsTell ==
  ASSUME JournalsInv, NEW x \in {"performance", "system"}, NEW c, NEW n \in Nat,
         NEW all, all = Only(journaled, {e \in ToSet(journaled) : e.log = x}),
         NEW owed, owed = Only(all, {e \in ToSet(journaled) : e.key = c /\ e.at + n >= minute}),
         Len(Considered(x, {c}, n)) < Len(owed)
  PROVE  Len(Considered(x, Parts \cup {"cpu"}, n)) = SeriesKept
<1>1. PICK m, s, F : m = minute /\ s = journals[x] /\ F = ToSet(journaled)
  OBVIOUS
<1>2. x \in Journals /\ m \in Nat /\ n \in Nat
  BY <1>1 DEF Journals, JournalsInv
<1>3. all = Only(journaled, {e \in ToSet(journaled) : e.log = x})
  BY <1>1
<1>4. PICK old : KeptOf(all, old, s)
  BY <1>1, <1>2, <1>3, LogIs
<1>5. InTime(all) /\ Range(all) \subseteq F /\ Range(all) \subseteq OfLog(x)
  BY <1>1, <1>2, <1>3, LogIs
<1>6. PICK P, Q : P = {e \in ToSet(s) : e.at + n >= m /\ e.key \in {c}} /\ Q = {e \in F : e.key = c /\ e.at + n >= m}
  OBVIOUS
<1>7. PICK logs : logs = Only(s, P)
  OBVIOUS
<1>8. Considered(x, {c}, n) = logs /\ owed = Only(all, Q)
  BY <1>1, <1>6, <1>7 DEF Considered
<1>9. PICK a \in Seq(LogEntry) : /\ Only(all, Q) = a \o Only(s, P)
                                 /\ a # <<>> => Len(s) = SeriesKept /\ \A y \in Range(s) : y.at + n >= m
  <2>1. old \in Seq(LogEntry) /\ s \in Seq(LogEntry) /\ all = old \o s /\ (old # <<>> => Len(s) = SeriesKept)
    BY <1>4 DEF KeptOf
  <2>2. PICK K : K = {e \in LogEntry : e.key = c /\ e.at + n >= m}
    OBVIOUS
  <2>3. all \in Seq(LogEntry)
    <3>1. old \o s \in Seq(LogEntry)
      BY <2>1
    <3> QED
      BY <2>1, <3>1, Zenon
  <2>4. Only(s, P) = Only(s, K)
    <3>1. \A r \in Range(s) : r \in P <=> r \in K
      BY <1>6, <2>1, <2>2 DEF Range, ToSet
    <3> QED
      BY <2>1, <3>1, OnlyAgrees
  <2>5. Only(all, Q) = Only(all, K)
    <3>1. \A r \in Range(all) : r \in LogEntry
      BY <2>3 DEF Range
    <3>2. \A r \in Range(all) : r \in Q <=> r \in K
      BY <1>5, <1>6, <2>2, <3>1
    <3> QED
      BY <2>3, <3>2, OnlyAgrees
  <2>6. PICK a, b : a = Only(old, K) /\ b = Only(s, K)
    OBVIOUS
  <2>7. a \in Seq(LogEntry) /\ Only(all, K) = a \o b /\ Range(a) = Range(old) \cap K
    <3>1. Only(old \o s, K) = Only(old, K) \o Only(s, K)
      BY <2>1, OnlyJoined
    <3>2. a \in Seq(LogEntry) /\ Range(a) = Range(old) \cap K
      BY <2>1, <2>6, OnlyRange
    <3> QED
      BY <2>1, <2>6, <3>1, <3>2
  <2>8. ASSUME a # <<>> PROVE Len(s) = SeriesKept /\ \A y \in Range(s) : y.at + n >= m
    <3>1. a[1] \in Range(a)
      BY <2>7, <2>8 DEF Range
    <3>2. PICK r : r \in Range(old) /\ r \in K
      BY <2>7, <3>1
    <3>3. old # <<>>
      BY <3>2 DEF Range
    <3>4. r.at + n >= m
      BY <2>2, <3>2
    <3>5. ASSUME NEW y \in Range(s) PROVE y.at + n >= m
      <4>1. r.at <= y.at /\ r.at \in Nat /\ y.at \in Nat
        BY <1>4, <1>5, <3>2, KeptLater
      <4> QED
        BY <1>2, <3>4, <4>1
    <3> QED
      BY <2>1, <3>3, <3>5
  <2> QED
    BY <2>4, <2>5, <2>6, <2>7, <2>8
<1>10. s \in Seq(LogEntry) /\ old \in Seq(LogEntry) /\ all = old \o s
  BY <1>4 DEF KeptOf
<1>11. Range(s) \subseteq OfLog(x)
  <2>1. Range(all) = Range(old) \cup Range(s)
    BY <1>10, Joined
  <2> QED
    BY <1>5, <2>1
<1>12. logs \in Seq(LogEntry) /\ Range(logs) = Range(s) \cap P
  BY <1>7, <1>10, OnlyRange
<1>13. \A y \in Range(s) : y \in LogEntry /\ y.key \in Parts \cup {"cpu"}
  <2>1. \A y \in Range(s) : y \in LogEntry /\ y.log \in {"performance", "system"}
    BY <1>11 DEF OfLog
  <2> QED
    BY <2>1, EntryFields
<1>23. owed = a \o logs
  BY <1>7, <1>8, <1>9
<1>24. Len(Considered(x, Parts \cup {"cpu"}, n)) = SeriesKept
  <2>1. a # <<>>
    <3>1. SUFFICES ASSUME a = <<>> PROVE FALSE
      OBVIOUS
    <3>2. <<>> \o logs = logs
      BY <1>12
    <3>3. Len(owed) = Len(logs) /\ Len(logs) \in Nat
      BY <1>12, <1>23, <3>1, <3>2
    <3> QED
      BY <1>8, <3>3
  <2>2. PICK B : B = {e \in ToSet(s) : e.at + n >= m /\ e.key \in Parts \cup {"cpu"}}
    OBVIOUS
  <2>3. \A y \in Range(s) : y \in B
    BY <1>9, <1>13, <2>1, <2>2 DEF Range, ToSet
  <2>4. Only(s, B) = s
    BY <1>10, <2>3, OnlyAll
  <2>5. Considered(x, Parts \cup {"cpu"}, n) = Only(s, B)
    BY <1>1, <2>2 DEF Considered
  <2> QED
    BY <1>9, <2>1, <2>4, <2>5
<1> QED
  BY <1>24

LEMMA JournalsHold == ASSUME JournalsInv PROVE LogsTellLast
<1>1. ASSUME NEW x \in DOMAIN journals, NEW e \in ToSet(journaled), x = e.log, GetLogs(x, {e.key}, 1) # <<>>
      PROVE  GetLogs(x, {e.key}, 1) =
               Newest(Only(Only(journaled, {f \in ToSet(journaled) : f.log = x}), {f \in ToSet(journaled) : f.key = e.key}), 1)
  <2>1. x \in Journals
    BY DEF JournalsInv
  <2>2. PICK k, all : k = e.key /\ all = Only(journaled, {f \in ToSet(journaled) : f.log = x})
    OBVIOUS
  <2>3. GetLogs(x, {k}, 1) = Newest(Only(all, {f \in ToSet(journaled) : f.key = k}), 1)
    BY <1>1, <2>1, <2>2, NewestIsLast
  <2> QED
    BY <2>2, <2>3
<1>2. ASSUME NEW x \in {"performance", "system"}, NEW n \in 0..MaxLogged, NEW c \in Parts \cup {"cpu"},
             Len(Considered(x, {c}, n)) <
               Len(Only(Only(journaled, {e \in ToSet(journaled) : e.log = x}),
                        {e \in ToSet(journaled) : e.key = c /\ e.at + n >= minute}))
      PROVE  Len(Considered(x, Parts \cup {"cpu"}, n)) = SeriesKept
  <2>1. n \in Nat
    BY MonitoringAssumption
  <2>2. PICK all, owed : /\ all = Only(journaled, {e \in ToSet(journaled) : e.log = x})
                         /\ owed = Only(all, {e \in ToSet(journaled) : e.key = c /\ e.at + n >= minute})
    OBVIOUS
  <2>3. Len(Considered(x, {c}, n)) < Len(owed)
    BY <1>2, <2>2
  <2> QED
    BY <2>1, <2>2, <2>3, StatisticsTell
<1> QED
  BY <1>1, <1>2, Zenon DEF LogsTellLast

-----------------------------------------------------------------------------
LEMMA LargestNumber ==
  ASSUME NEW n \in Nat, NEW S \in SUBSET (0..n), S # {} PROVE \E b \in S : \A y \in S : y <= b
<1> DEFINE T == {n - y : y \in S}
<1>1. T \in SUBSET Nat /\ T # {}
  <2>1. \A y \in S : n - y \in Nat
    OBVIOUS
  <2>2. PICK y : y \in S
    OBVIOUS
  <2>3. n - y \in T
    BY <2>2
  <2> QED
    BY <2>1, <2>3
<1>2. PICK t \in T : \A u \in T : t <= u
  BY <1>1, LeastElement
<1>3. PICK b \in S : t = n - b
  OBVIOUS
<1>4. ASSUME NEW y \in S PROVE y <= b
  <2>1. t <= n - y /\ b \in 0..n /\ y \in 0..n
    BY <1>2
  <2> QED
    BY <1>3, <2>1
<1> QED
  BY <1>4

(* Domain: the policy. A use that succeeds takes its score a tenth of the  *)
(* way to 100, so that after k of them it is at most BestAfter(k).         *)
BestAfter(k) ==
  IF k = 0 THEN 50 ELSE IF k = 1 THEN 55 ELSE IF k = 2 THEN 59 ELSE IF k = 3 THEN 63
  ELSE IF k = 4 THEN 66 ELSE IF k = 5 THEN 69 ELSE 91

NamedOnce(s) == \A i, j \in DOMAIN s : s[i].name = s[j].name => i = j

PolicyInv ==
  /\ DOMAIN policy = {"effectiveness", "uses", "strategies", "failed", "status"}
  /\ policy.uses \in Nat /\ wins \in Nat
  /\ policy.effectiveness \in Nat /\ policy.effectiveness <= BestAfter(wins)
  /\ policy.strategies \in Seq(Strategies)
  /\ NamedOnce(policy.strategies)

LEMMA AveragedBest ==
  ASSUME NEW e \in Nat, NEW k \in Nat, e <= BestAfter(k)
  PROVE  /\ Averaged(e, TRUE) \in Nat /\ Averaged(e, TRUE) <= BestAfter(k + 1)
         /\ Averaged(e, FALSE) \in Nat /\ Averaged(e, FALSE) <= BestAfter(k)
<1>1. PICK x, y : x = Averaged(e, TRUE) /\ y = Averaged(e, FALSE)
  OBVIOUS
<1>2. x = (9 * e + 100) \div 10 /\ y = (9 * e + 0) \div 10
  BY <1>1 DEF Averaged
<1>3. x \in Nat /\ y \in Nat /\ 10 * x <= 9 * e + 100 /\ 10 * y <= 9 * e
  BY <1>2
<1>4. BestAfter(k) \in Nat
  BY DEF BestAfter
<1>5. y <= BestAfter(k)
  BY <1>3, <1>4
<1>6. x <= BestAfter(k + 1)
  BY <1>3 DEF BestAfter
<1> QED
  BY <1>1, <1>3, <1>5, <1>6

LEMMA PolicyStarts == DomainInit => PolicyInv
<1> SUFFICES ASSUME DomainInit PROVE PolicyInv
  OBVIOUS
<1>1. /\ DOMAIN policy = {"effectiveness", "uses", "strategies", "failed", "status"}
      /\ policy.uses = 0 /\ wins = 0 /\ policy.effectiveness = 50 /\ policy.strategies = <<>>
  BY DEF DomainInit, NewPolicy
<1>2. DOMAIN <<>> = {} /\ <<>> \in Seq(Strategies)
  OBVIOUS
<1> QED
  BY <1>1, <1>2 DEF PolicyInv, BestAfter, NamedOnce

LEMMA StrategyAdded ==
  ASSUME NEW s \in Seq(Strategies), NEW x \in Strategies, NamedOnce(s)
  PROVE  LET n == Append(Only(s, {t \in Strategies : t.name # x.name}), x)
         IN  n \in Seq(Strategies) /\ NamedOnce(n)
<1>p. PICK P : P = {t \in Strategies : t.name # x.name}
  OBVIOUS
<1>o. PICK o, n : o = Only(s, P) /\ n = Append(o, x)
  OBVIOUS
<1>1. o \in Seq(Strategies) /\ Leaves(o, s, Len(s), P)
  BY <1>o, OnlyLeaves
<1>2. \A i \in DOMAIN o : o[i].name # x.name
  BY <1>p, <1>1 DEF Leaves
<1>3. ASSUME NEW i \in DOMAIN o, NEW j \in DOMAIN o, o[i].name = o[j].name PROVE ~ (i < j)
  <2>1. SUFFICES ASSUME i < j PROVE FALSE
    OBVIOUS
  <2>2. PICK a, c \in 1..Len(s) : a < c /\ o[i] = s[a] /\ o[j] = s[c]
    BY <1>1, <2>1 DEF Leaves
  <2>3. a \in DOMAIN s /\ c \in DOMAIN s /\ s[a].name = s[c].name
    BY <1>3, <2>2, ListDomain, Zenon
  <2> QED
    BY <2>2, <2>3 DEF NamedOnce
<1>4. /\ n \in Seq(Strategies) /\ DOMAIN n = 1..(Len(o) + 1) /\ DOMAIN o = 1..Len(o) /\ Len(o) \in Nat
      /\ (\A i \in 1..Len(o) : n[i] = o[i]) /\ n[Len(o) + 1] = x
  BY <1>o, <1>1, Appended, ListDomain
<1>5. ASSUME NEW i \in DOMAIN n, NEW j \in DOMAIN n, n[i].name = n[j].name PROVE i = j
  <2>1. CASE i = Len(o) + 1 \/ j = Len(o) + 1
    BY <1>2, <1>4, <1>5, <2>1
  <2>2. CASE i # Len(o) + 1 /\ j # Len(o) + 1
    <3>1. i \in DOMAIN o /\ j \in DOMAIN o /\ n[i] = o[i] /\ n[j] = o[j] /\ i \in Int /\ j \in Int
      BY <1>4, <2>2
    <3>2. ~ (i < j) /\ ~ (j < i)
      BY <1>3, <1>5, <3>1
    <3> QED
      BY <3>1, <3>2
  <2> QED
    BY <2>1, <2>2
<1>6. n \in Seq(Strategies) /\ NamedOnce(n)
  BY <1>4, <1>5 DEF NamedOnce
<1> QED
  BY <1>p, <1>o, <1>6

LEMMA PolicySteps ==
  ASSUME PolicyInv, [PolicyNext]_policyVars PROVE PolicyInv'
<1>1. ASSUME NEW ok \in BOOLEAN, RecordUsage(ok) PROVE PolicyInv'
  <2>1. /\ policy' = [policy EXCEPT !.effectiveness = Averaged(policy.effectiveness, ok), !.uses = policy.uses + 1]
        /\ wins' = wins + (IF ok THEN 1 ELSE 0)
    BY <1>1 DEF RecordUsage
  <2>2. /\ DOMAIN policy' = DOMAIN policy /\ policy'.uses = policy.uses + 1
        /\ policy'.effectiveness = Averaged(policy.effectiveness, ok) /\ policy'.strategies = policy.strategies
    BY <2>1 DEF PolicyInv
  <2>3. wins' \in Nat /\ policy'.effectiveness \in Nat /\ policy'.effectiveness <= BestAfter(wins')
    <3>1. PICK e, k : e = policy.effectiveness /\ k = wins
      OBVIOUS
    <3>2. e \in Nat /\ k \in Nat /\ e <= BestAfter(k)
      BY <3>1 DEF PolicyInv
    <3>3. /\ Averaged(e, TRUE) \in Nat /\ Averaged(e, TRUE) <= BestAfter(k + 1)
          /\ Averaged(e, FALSE) \in Nat /\ Averaged(e, FALSE) <= BestAfter(k)
      BY <3>2, AveragedBest
    <3>4. CASE ok = TRUE
      <4>1. policy'.effectiveness = Averaged(e, TRUE)
        BY <2>2, <3>1, <3>4, Zenon
      <4>2. wins' = k + 1
        BY <2>1, <3>1, <3>4
      <4>3. PICK a : a = Averaged(e, TRUE)
        OBVIOUS
      <4>4. a \in Nat /\ a <= BestAfter(k + 1) /\ policy'.effectiveness = a
        BY <3>3, <4>1, <4>3
      <4> QED
        BY <3>2, <4>2, <4>4
    <3>5. CASE ok = FALSE
      <4>1. policy'.effectiveness = Averaged(e, FALSE)
        BY <2>2, <3>1, <3>5, Zenon
      <4>2. wins' = k
        BY <2>1, <3>1, <3>2, <3>5
      <4>3. PICK a : a = Averaged(e, FALSE)
        OBVIOUS
      <4>4. a \in Nat /\ a <= BestAfter(k) /\ policy'.effectiveness = a
        BY <3>3, <4>1, <4>3
      <4> QED
        BY <3>2, <4>2, <4>4
    <3> QED
      BY <3>4, <3>5
  <2> QED
    BY <2>2, <2>3 DEF PolicyInv
<1>2. ASSUME NEW s \in Strategies, AddStrategy(s) PROVE PolicyInv'
  <2>1. PICK o : o = Only(policy.strategies, {t \in Strategies : t.name # s.name})
    OBVIOUS
  <2>2. policy' = [policy EXCEPT !.strategies = Append(o, s)] /\ wins' = wins
    BY <1>2, <2>1 DEF AddStrategy
  <2>3. /\ DOMAIN policy' = DOMAIN policy /\ policy'.uses = policy.uses
        /\ policy'.effectiveness = policy.effectiveness /\ policy'.strategies = Append(o, s)
    BY <2>2 DEF PolicyInv
  <2>4. PICK old : old = policy.strategies
    OBVIOUS
  <2>5. old \in Seq(Strategies) /\ NamedOnce(old)
    BY <2>4 DEF PolicyInv
  <2>6. Append(o, s) \in Seq(Strategies) /\ NamedOnce(Append(o, s))
    BY <2>1, <2>4, <2>5, StrategyAdded
  <2> QED
    BY <2>2, <2>3, <2>6 DEF PolicyInv
<1>3. ASSUME NEW x, AddFailedApproach(x) \/ WithPolicyStatus(x) PROVE PolicyInv'
  <2>1. /\ DOMAIN policy' = DOMAIN policy /\ policy'.uses = policy.uses /\ wins' = wins
        /\ policy'.effectiveness = policy.effectiveness /\ policy'.strategies = policy.strategies
    BY <1>3 DEF PolicyInv, AddFailedApproach, WithPolicyStatus
  <2> QED
    BY <2>1 DEF PolicyInv
<1>4. CASE UNCHANGED policyVars
  <2>1. policy' = policy /\ wins' = wins
    BY <1>4 DEF policyVars
  <2> QED
    BY <2>1 DEF PolicyInv
<1> QED
  BY <1>1, <1>2, <1>3, <1>4 DEF PolicyNext

(* The first of the best is as good as any.                                *)
LEMMA TopIsBest ==
  ASSUME policy.strategies \in Seq(Strategies), policy.strategies # <<>>
  PROVE  \A s \in ToSet(policy.strategies) : s.rate <= TopStrategy.rate
<1> DEFINE all == policy.strategies
           rates == {all[i].rate : i \in DOMAIN all}
           best == Max(rates)
           places == {i \in DOMAIN all : all[i].rate = best}
<1>1. DOMAIN all = 1..Len(all) /\ Len(all) \in Nat /\ Len(all) # 0 /\ \A i \in DOMAIN all : all[i] \in Strategies
  BY ListDomain
<1>2. \A i \in DOMAIN all : all[i].rate \in 0..100
  BY <1>1, DomainAssumption
<1>3. rates \in SUBSET (0..100) /\ rates # {}
  <2>1. 1 \in DOMAIN all
    BY <1>1
  <2> QED
    BY <1>2, <2>1
<1>4. PICK b \in rates : \A r \in rates : r <= b
  BY <1>3, LargestNumber
<1>5. best = b
  <2> HIDE DEF rates
  <2>1. b \in Int /\ \A r \in rates : r \in Int /\ r <= b
    BY <1>3, <1>4
  <2> QED
    BY <1>4, <2>1, MaxIs
<1>6. places \in SUBSET Nat /\ places # {}
  <2>1. PICK i \in DOMAIN all : b = all[i].rate
    BY <1>4
  <2>2. i \in places
    BY <1>5, <2>1
  <2>3. places \subseteq DOMAIN all
    OBVIOUS
  <2> HIDE DEF places, best
  <2> QED
    BY <1>1, <2>2, <2>3
<1>7. Min(places) \in places
  BY <1>6, LeastIs
<1>8. TopStrategy.rate = best
  BY <1>7 DEF TopStrategy
<1> QED
  BY <1>3, <1>4, <1>5, <1>8 DEF ToSet

LEMMA PolicyTyped == PolicyInv => PolicyLearns
<1> SUFFICES ASSUME PolicyInv PROVE PolicyLearns
  OBVIOUS
<1>1. policy.effectiveness \in 0..91 /\ (policy.effectiveness >= 70 => wins >= 6)
  <2>1. PICK e, k : e = policy.effectiveness /\ k = wins
    OBVIOUS
  <2>2. e \in Nat /\ k \in Nat /\ e <= BestAfter(k)
    BY <2>1 DEF PolicyInv
  <2>3. e \in 0..91 /\ (e >= 70 => k >= 6)
    BY <2>2 DEF BestAfter
  <2> QED
    BY <2>1, <2>3
<1>2. IsInjective([i \in DOMAIN policy.strategies |-> policy.strategies[i].name])
  BY DEF PolicyInv, IsInjective, NamedOnce
<1>3. policy.strategies # <<>> => \A s \in ToSet(policy.strategies) : s.rate <= TopStrategy.rate
  BY TopIsBest DEF PolicyInv
<1> QED
  BY <1>1, <1>2, <1>3 DEF PolicyLearns

-----------------------------------------------------------------------------
(* The records: of these the report has a history.                         *)
RecordsInv ==
  /\ DOMAIN report = {"status", "generated", "file", "companies"}
  /\ now \in Nat /\ firstDone \in Nat \cup {None}
  /\ report.generated = firstDone
  /\ report.status = "completed" \/ report.file = TRUE => firstDone # None

LEMMA RecordsStart == DomainInit => RecordsInv
<1> SUFFICES ASSUME DomainInit PROVE RecordsInv
  OBVIOUS
<1>1. /\ DOMAIN report = {"status", "generated", "file", "companies"}
      /\ report.generated = None /\ report.status = "draft"
  BY DEF DomainInit, NewReport
<1>2. report.file = FALSE
  <2>1. report = [status |-> "draft", generated |-> None, file |-> FALSE, companies |-> {}]
    BY DEF DomainInit, NewReport
  <2> QED
    BY <2>1, Zenon
<1>3. now = 0 /\ firstDone = None
  BY DEF DomainInit
<1> QED
  BY <1>1, <1>2, <1>3 DEF RecordsInv

LEMMA ReportDone ==
  ASSUME RecordsInv, NEW s,
         \/ WithStatus(s)
         \/ WithFilePath
  PROVE  RecordsInv'
<1>1. now' = now
  BY DEF WithStatus, WithFilePath
<1>2. CASE WithStatus(s)
  <2>1. /\ report' = [report EXCEPT !.status = s,
                        !.generated = IF s = "completed" /\ report.generated = None THEN now ELSE report.generated]
        /\ firstDone' = IF firstDone = None /\ report'.status = "completed" THEN now ELSE firstDone
    BY <1>2 DEF WithStatus, Completes
  <2>2. /\ DOMAIN report' = DOMAIN report /\ report'.status = s
        /\ report'.file = report.file
        /\ report'.generated = IF s = "completed" /\ report.generated = None THEN now ELSE report.generated
    BY <2>1 DEF RecordsInv
  <2>3. report'.generated = firstDone' /\ firstDone' \in Nat \cup {None}
        /\ (s = "completed" => firstDone' # None) /\ (firstDone # None => firstDone' # None)
    BY <2>1, <2>2 DEF RecordsInv, None
  <2>4. report'.status = "completed" \/ report'.file = TRUE => firstDone' # None
    <3>1. CASE s = "completed"
      BY <2>3, <3>1
    <3>2. CASE s # "completed" /\ report.file = TRUE
      BY <2>3, <3>2 DEF RecordsInv
    <3>3. CASE s # "completed" /\ report.file # TRUE
      <4>1. report'.status # "completed" /\ report'.file # TRUE
        BY <2>2, <3>3, Zenon
      <4> QED
        BY <4>1
    <3> QED
      BY <3>1, <3>2, <3>3
  <2> QED
    BY <1>1, <2>2, <2>3, <2>4, Zenon DEF RecordsInv
<1>3. CASE WithFilePath
  <2>1. /\ report' = [report EXCEPT !.status = "completed", !.file = TRUE,
                        !.generated = IF report.generated = None THEN now ELSE report.generated]
        /\ firstDone' = IF firstDone = None /\ report'.status = "completed" THEN now ELSE firstDone
    BY <1>3 DEF WithFilePath, Completes
  <2>2. /\ DOMAIN report' = DOMAIN report /\ report'.status = "completed"
        /\ report'.generated = IF report.generated = None THEN now ELSE report.generated
    BY <2>1 DEF RecordsInv
  <2>3. firstDone' = report'.generated /\ firstDone' \in Nat
    BY <2>1, <2>2 DEF RecordsInv, None
  <2>4. firstDone' \in Nat \cup {None} /\ firstDone' # None
    BY <2>3 DEF None
  <2> QED
    BY <1>1, <2>2, <2>3, <2>4, Zenon DEF RecordsInv
<1> QED
  BY <1>2, <1>3

LEMMA RecordsSteps ==
  ASSUME RecordsInv, [RecordsNext]_recordVars PROVE RecordsInv'
<1>1. ASSUME NEW s, WithStatus(s) \/ WithFilePath PROVE RecordsInv'
  BY <1>1, ReportDone
<1>2. ASSUME NEW c, AddCompany(c) PROVE RecordsInv'
  <2>1. /\ DOMAIN report' = DOMAIN report /\ report'.status = report.status
        /\ report'.file = report.file /\ report'.generated = report.generated
        /\ UNCHANGED <<now, firstDone>>
    BY <1>2 DEF RecordsInv, AddCompany
  <2> QED
    BY <2>1 DEF RecordsInv
<1>3. ASSUME \/ \E t \in 0..LastNow : MarkEnded(t)
             \/ \E x \in {"a"} : AddRelatedSignal(x)
             \/ \E score \in Scores : WithImpactScore(score)
             \/ AddOpportunity \/ VerifySignal \/ UNCHANGED recordVars
      PROVE  RecordsInv'
  <2>1. UNCHANGED <<now, report, firstDone>>
    BY <1>3 DEF recordVars, MarkEnded, AddOpportunity, AddRelatedSignal, WithImpactScore, VerifySignal
  <2> QED
    BY <2>1 DEF RecordsInv
<1>4. CASE ClockGoes
  <2>1. now' \in Nat /\ UNCHANGED <<report, firstDone>>
    BY <1>4 DEF RecordsInv, ClockGoes
  <2> QED
    BY <2>1 DEF RecordsInv
<1> QED
  BY <1>1, <1>2, <1>3, <1>4 DEF RecordsNext

LEMMA RecordsTyped == RecordsInv => RecordsHold
<1> SUFFICES ASSUME RecordsInv PROVE RecordsHold
  OBVIOUS
<1>1. report.status = "completed" \/ report.file => firstDone # None
  BY Zenon DEF RecordsInv
<1> QED
  BY <1>1 DEF RecordsHold, RecordsInv

-----------------------------------------------------------------------------
(* The values. A confidence is what from_score makes of its score, a date  *)
(* is one of the calendar, and no money is owed.                           *)
Believable(c) == c = FromScore(c.score) /\ c.score \in 0..95
Dated(t) == t = [y |-> t.y, m |-> t.m, d |-> t.d] /\ t.y \in Int /\ IsDate(t)

ValuesInv ==
  /\ Believable(belief)
  /\ Dated(date)
  /\ DOMAIN purse = {"currency", "amount"} /\ purse.amount \in Nat

LEMMA NamedAre ==
  ASSUME NEW c \in Named PROVE c.score \in 0..95 /\ c.level = LevelOf(c.score)
BY DEF Named, LevelOf

LEMMA CombinedIs ==
  ASSUME NEW a, NEW b, a.score \in 0..95, b.score \in 0..95
  PROVE  /\ Believable(Combined(a, b)) /\ Combined(a, b) = Combined(b, a)
         /\ Combined(a, b).score <= Max({a.score, b.score})
<1>1. PICK x, y : x = a.score /\ y = b.score
  OBVIOUS
<1>2. PICK m, n, h : m = (x + y) \div 2 /\ n = (m * 7) \div 10 /\ h = Max({x, y})
  OBVIOUS
<1>3. x \in 0..95 /\ y \in 0..95
  BY <1>1
<1>4. h = IF x >= y THEN x ELSE y
  BY <1>2, <1>3, OfTwo
<1>5. m \in 0..95 /\ m <= h /\ n \in 0..95 /\ n <= h /\ h \in 0..95
  BY <1>2, <1>3, <1>4
<1>6. PICK s : /\ s = IF IsHigh(a) /\ IsHigh(b) THEN h ELSE IF IsLow(a) \/ IsLow(b) THEN n ELSE m
  OBVIOUS
<1>7. s \in 0..95 /\ s <= h
  BY <1>5, <1>6
<1>8. Combined(a, b) = FromScore(s)
  BY <1>1, <1>2, <1>6 DEF Combined
<1>9. Combined(b, a) = FromScore(s)
  <2>1. {y, x} = {x, y} /\ y + x = x + y
    BY <1>3
  <2>2. s = IF IsHigh(b) /\ IsHigh(a) THEN h ELSE IF IsLow(b) \/ IsLow(a) THEN n ELSE m
    BY <1>6, Zenon
  <2> QED
    BY <1>1, <1>2, <2>1, <2>2 DEF Combined
<1>10. FromScore(s).score = s
  BY DEF FromScore
<1> QED
  BY <1>1, <1>2, <1>7, <1>8, <1>9, <1>10 DEF Believable

LEMMA MovedIs ==
  ASSUME NEW c, c.score \in 0..95
  PROVE  /\ Believable(Boosted(c)) /\ c.score <= Boosted(c).score
         /\ Believable(Reduced(c)) /\ (c.score >= 5 => Reduced(c).score <= c.score)
<1>1. PICK x, u, v : x = c.score /\ u = (x * 11) \div 10 /\ v = (x * 9) \div 10
  OBVIOUS
<1>2. PICK s, t : s = Min({u, 95}) /\ t = Max({v, 5})
  OBVIOUS
<1>3. x \in 0..95 /\ u \in Int /\ v \in Int /\ u >= x /\ v <= x /\ v >= 0
  BY <1>1
<1>4. s \in 0..95 /\ x <= s /\ t \in 0..95 /\ (x >= 5 => t <= x)
  <2>1. s = (IF u <= 95 THEN u ELSE 95) /\ t = (IF v >= 5 THEN v ELSE 5)
    BY <1>2, <1>3, OfTwo
  <2> QED
    BY <1>3, <2>1
<1>5. Boosted(c) = FromScore(s) /\ Reduced(c) = FromScore(t)
  BY <1>1, <1>2 DEF Boosted, Reduced
<1>6. FromScore(s).score = s /\ FromScore(t).score = t
  BY DEF FromScore
<1> QED
  BY <1>1, <1>4, <1>5, <1>6 DEF Believable

LEMMA MonthLengths ==
  ASSUME NEW y, NEW m PROVE DaysIn(y, m) \in 28..31
BY DEF DaysIn

(* A month before the one before is a month after it.                      *)
LEMMA DaysBackAndForth ==
  ASSUME NEW t, Dated(t), NEW n \in -28..28
  PROVE  Dated(PlusDays(t, n)) /\ PlusDays(PlusDays(t, n), -n) = t
<1>1. PICK y, m, d : y = t.y /\ m = t.m /\ d = t.d
  OBVIOUS
<1>2. t = [y |-> y, m |-> m, d |-> d] /\ y \in Int /\ m \in 1..12 /\ d \in 1..DaysIn(y, m)
  BY <1>1 DEF Dated, IsDate
<1>3. PICK k : k = DaysIn(y, m)
  OBVIOUS
<1>4. k \in 28..31
  BY <1>3, MonthLengths
<1>5. CASE d + n < 1
  <2>1. PICK a, b : a = (IF m = 1 THEN y - 1 ELSE y) /\ b = (IF m = 1 THEN 12 ELSE m - 1)
    OBVIOUS
  <2>2. PICK l : l = DaysIn(a, b)
    OBVIOUS
  <2>3. l \in 28..31 /\ a \in Int /\ b \in 1..12
    BY <1>2, <2>1, <2>2, MonthLengths
  <2>4. PlusDays(t, n) = [y |-> a, m |-> b, d |-> d + n + l]
    BY <1>2, <1>5, <2>1, <2>2 DEF PlusDays
  <2>5. PICK e : e = d + n + l
    OBVIOUS
  <2>6. e \in 1..l /\ e - n > l /\ e - n - l = d
    BY <1>2, <1>3, <1>4, <1>5, <2>3, <2>5
  <2>7. PICK r : r = [y |-> a, m |-> b, d |-> e]
    OBVIOUS
  <2>8. r.y = a /\ r.m = b /\ r.d = e
    BY <2>7
  <2>9. Dated(r)
    BY <2>2, <2>3, <2>6, <2>7, <2>8 DEF Dated, IsDate
  <2>10. (IF b = 12 THEN a + 1 ELSE a) = y /\ (IF b = 12 THEN 1 ELSE b + 1) = m
    BY <1>2, <2>1
  <2>11. PlusDays(r, -n) = [y |-> y, m |-> m, d |-> d]
    <3>1. e + (-n) = e - n /\ ~ (e + (-n) < 1) /\ e + (-n) > l /\ e + (-n) - l = d
      BY <2>3, <2>6
    <3>2. CASE b = 12
      BY <2>2, <2>3, <2>6, <2>8, <2>10, <3>1, <3>2 DEF PlusDays
    <3>3. CASE b # 12
      BY <2>2, <2>3, <2>6, <2>8, <2>10, <3>1, <3>3 DEF PlusDays
    <3> QED
      BY <3>2, <3>3
  <2> QED
    BY <1>2, <2>4, <2>5, <2>7, <2>9, <2>11
<1>6. CASE d + n > k
  <2>1. PICK a, b : a = (IF m = 12 THEN y + 1 ELSE y) /\ b = (IF m = 12 THEN 1 ELSE m + 1)
    OBVIOUS
  <2>2. PICK l : l = DaysIn(a, b)
    OBVIOUS
  <2>3. l \in 28..31 /\ a \in Int /\ b \in 1..12
    BY <1>2, <2>1, <2>2, MonthLengths
  <2>4. ~ (d + n < 1)
    BY <1>2, <1>4, <1>6
  <2>5. PlusDays(t, n) = [y |-> a, m |-> b, d |-> d + n - k]
    <3>1. CASE m = 12
      BY <1>1, <1>2, <1>3, <1>4, <1>6, <2>1, <2>4, <3>1 DEF PlusDays
    <3>2. CASE m # 12
      BY <1>1, <1>2, <1>3, <1>4, <1>6, <2>1, <2>4, <3>2 DEF PlusDays
    <3> QED
      BY <3>1, <3>2
  <2>6. PICK e : e = d + n - k
    OBVIOUS
  <2>7. e \in 1..l /\ e - n < 1 /\ e - n + k = d
    BY <1>2, <1>3, <1>4, <1>6, <2>3, <2>6
  <2>8. PICK r : r = [y |-> a, m |-> b, d |-> e]
    OBVIOUS
  <2>9. r.y = a /\ r.m = b /\ r.d = e
    BY <2>8
  <2>10. Dated(r)
    BY <2>2, <2>3, <2>7, <2>8, <2>9 DEF Dated, IsDate
  <2>11. (IF b = 1 THEN a - 1 ELSE a) = y /\ (IF b = 1 THEN 12 ELSE b - 1) = m
    BY <1>2, <2>1
  <2>12. PlusDays(r, -n) = [y |-> y, m |-> m, d |-> d]
    <3>1. e + (-n) < 1 /\ e + (-n) + k = d
      BY <1>2, <1>4, <2>3, <2>7
    <3> QED
      BY <1>3, <2>9, <2>11, <3>1 DEF PlusDays
  <2> QED
    BY <1>2, <2>5, <2>6, <2>8, <2>10, <2>12
<1>7. CASE ~ (d + n < 1) /\ ~ (d + n > k)
  <2>1. PlusDays(t, n) = [t EXCEPT !.d = d + n]
    BY <1>1, <1>3, <1>7 DEF PlusDays
  <2>2. PICK e : e = d + n
    OBVIOUS
  <2>3. PICK r : r = [y |-> y, m |-> m, d |-> e]
    OBVIOUS
  <2>4. PlusDays(t, n) = r /\ r.y = y /\ r.m = m /\ r.d = e
    BY <1>2, <2>1, <2>2, <2>3
  <2>5. e \in 1..k /\ e + (-n) = d
    BY <1>2, <1>3, <1>4, <1>7, <2>2
  <2>6. Dated(r)
    BY <1>2, <1>3, <2>3, <2>4, <2>5 DEF Dated, IsDate
  <2>7. PlusDays(r, -n) = [r EXCEPT !.d = d]
    <3>1. ~ (d < 1) /\ ~ (d > k)
      BY <1>2, <1>3, <1>4
    <3> QED
      BY <1>3, <2>4, <2>5, <3>1 DEF PlusDays
  <2>8. [r EXCEPT !.d = d] = t
    BY <1>2, <2>3
  <2> QED
    BY <2>4, <2>6, <2>7, <2>8
<1> QED
  BY <1>5, <1>6, <1>7

LEMMA MonthsBackAndForth ==
  ASSUME NEW t, Dated(t), NEW n \in Int
  PROVE  PlusMonths(PlusMonths(t, n), -n) = t
<1>1. PICK y, m, d : y = t.y /\ m = t.m /\ d = t.d
  OBVIOUS
<1>2. t = [y |-> y, m |-> m, d |-> d] /\ y \in Int /\ m \in 1..12
  BY <1>1 DEF Dated, IsDate
<1>3. PICK a, b : a = (m + n - 1) \div 12 /\ b = (m + n - 1) % 12
  OBVIOUS
<1>4. a \in Int /\ b \in 0..11 /\ m + n - 1 = 12 * a + b
  BY <1>2, <1>3
<1>5. PICK e, f : e = y + a /\ f = b + 1
  OBVIOUS
<1>6. e \in Int /\ f \in 1..12
  BY <1>2, <1>4, <1>5
<1>7. PlusMonths(t, n) = [t EXCEPT !.y = y + a, !.m = b + 1]
  BY <1>1, <1>3 DEF PlusMonths
<1>8. PICK r : r = [y |-> e, m |-> f, d |-> d]
  OBVIOUS
<1>9. PlusMonths(t, n) = r /\ r.y = e /\ r.m = f
  BY <1>2, <1>5, <1>7, <1>8
<1>10. PICK g, h : g = (f + (-n) - 1) \div 12 /\ h = (f + (-n) - 1) % 12
  OBVIOUS
<1>11. g \in Int /\ h \in 0..11 /\ f + (-n) - 1 = 12 * g + h
  BY <1>6, <1>10
<1>12. g = -a /\ h = m - 1
  BY <1>2, <1>4, <1>5, <1>11
<1>13. PlusMonths(r, -n) = [r EXCEPT !.y = e + g, !.m = h + 1]
  BY <1>9, <1>10 DEF PlusMonths
<1>14. e + g = y /\ h + 1 = m
  BY <1>2, <1>4, <1>5, <1>12
<1>15. [r EXCEPT !.y = y, !.m = m] = t
  <2>1. PICK v : v = [r EXCEPT !.y = y, !.m = m]
    OBVIOUS
  <2>2. DOMAIN v = {"y", "m", "d"} /\ v.y = y /\ v.m = m /\ v.d = d
    BY <1>8, <2>1
  <2>3. v = [k \in {"y", "m", "d"} |-> v[k]]
    BY <2>1, <2>2, <1>8
  <2>4. v = [y |-> y, m |-> m, d |-> d]
    BY <2>2, <2>3
  <2> QED
    BY <1>2, <2>1, <2>4
<1> QED
  BY <1>9, <1>13, <1>14, <1>15

LEMMA ValuesStart == DomainInit => ValuesInv
<1> SUFFICES ASSUME DomainInit PROVE ValuesInv
  OBVIOUS
<1>1. Believable(belief)
  BY DEF DomainInit, Believable, FromScore
<1>2. Dated(date)
  BY FirstDateAssumption DEF DomainInit, Dated
<1>3. DOMAIN purse = {"currency", "amount"} /\ purse.amount \in Nat
  BY DEF DomainInit
<1> QED
  BY <1>1, <1>2, <1>3 DEF ValuesInv

LEMMA ValuesStep ==
  ASSUME ValuesInv, Believes \/ DateMoves \/ Spends \/ UNCHANGED valueVars PROVE ValuesInv'
<1>1. CASE Believes
  <2>1. \A c \in Named : c.score \in 0..95
    BY NamedAre
  <2>2. belief.score \in 0..95
    BY DEF ValuesInv, Believable
  <2>3. \A c \in Named : Believable(Combined(belief, c))
    BY <2>1, <2>2, CombinedIs
  <2>4. Believable(Boosted(belief)) /\ Believable(Reduced(belief))
    BY <2>2, MovedIs
  <2>5. (belief' \in {Combined(belief, c) : c \in Named} \cup {Boosted(belief), Reduced(belief)})
        /\ date' = date /\ purse' = purse
    BY <1>1 DEF Believes
  <2>6. PICK b : b = belief'
    OBVIOUS
  <2>7. Believable(b)
    BY <2>3, <2>4, <2>5, <2>6
  <2> QED
    BY <2>5, <2>6, <2>7 DEF ValuesInv
<1>2. CASE DateMoves
  <2>1. PICK n \in Shifts : date' \in Shifted(date, n)
    BY <1>2 DEF DateMoves
  <2>2. belief' = belief /\ purse' = purse
    BY <1>2 DEF DateMoves
  <2>3. n \in -28..28 /\ n \in Int
    BY DomainAssumption
  <2>4. PICK t, u : t = date /\ u = date'
    OBVIOUS
  <2>5. Dated(t)
    BY <2>4 DEF ValuesInv
  <2>6. u = PlusDays(t, n) \/ (u \in {PlusYears(t, n), PlusMonths(t, n)} /\ IsDate(u))
    BY <2>1, <2>4 DEF Shifted
  <2>7. CASE u = PlusDays(t, n)
    <3>1. Dated(u)
      BY <2>3, <2>5, <2>7, DaysBackAndForth
    <3> QED
      BY <2>2, <2>4, <3>1 DEF ValuesInv
  <2>8. CASE u = PlusYears(t, n) /\ IsDate(u)
    <3>1. u = [t EXCEPT !.y = t.y + n] /\ t = [y |-> t.y, m |-> t.m, d |-> t.d] /\ t.y \in Int
      BY <2>5, <2>8 DEF PlusYears, Dated
    <3>2. u = [y |-> u.y, m |-> u.m, d |-> u.d] /\ u.y \in Int
      BY <2>3, <3>1
    <3>3. Dated(u)
      BY <2>8, <3>2 DEF Dated
    <3> QED
      BY <2>2, <2>4, <3>3 DEF ValuesInv
  <2>9. CASE u = PlusMonths(t, n) /\ IsDate(u)
    <3>1. PICK a, b : a = t.y + (t.m + n - 1) \div 12 /\ b = ((t.m + n - 1) % 12) + 1
      OBVIOUS
    <3>2. u = [t EXCEPT !.y = a, !.m = b] /\ t = [y |-> t.y, m |-> t.m, d |-> t.d]
      BY <2>5, <2>9, <3>1 DEF PlusMonths, Dated
    <3>3. a \in Int
      BY <2>3, <2>5, <3>1 DEF Dated, IsDate
    <3>4. u = [y |-> u.y, m |-> u.m, d |-> u.d] /\ u.y \in Int
      BY <3>2, <3>3
    <3>5. Dated(u)
      BY <2>9, <3>4 DEF Dated
    <3> QED
      BY <2>2, <2>4, <3>5 DEF ValuesInv
  <2> QED
    BY <2>6, <2>7, <2>8, <2>9
<1>3. CASE Spends
  <2>1. PICK n \in Amounts : purse' \in Taken(purse, n) \cup Added(purse, n) \cup Doubled(purse) \cup Halved(purse)
    BY <1>3 DEF Spends
  <2>2. belief' = belief /\ date' = date
    BY <1>3 DEF Spends
  <2>3. PICK p, q, x : p = purse /\ q = purse' /\ x = purse.amount
    OBVIOUS
  <2>4. DOMAIN p = {"currency", "amount"} /\ x \in Nat /\ n \in Nat /\ p.amount = x
    BY <2>3, DomainAssumption DEF ValuesInv
  <2>5. DOMAIN q = DOMAIN p /\ q.amount \in Nat
    <3>1. CASE q \in Taken(p, n)
      <4>1. ~ (x < n) /\ q = [p EXCEPT !.amount = x - n]
        BY <2>4, <3>1 DEF Taken
      <4> QED
        BY <2>4, <4>1
    <3>2. CASE q \in Added(p, n)
      BY <2>4, <3>2 DEF Added
    <3>3. CASE q \in Doubled(p)
      BY <2>4, <3>3 DEF Doubled
    <3>4. CASE q \in Halved(p)
      <4>1. q = [p EXCEPT !.amount = x \div 2]
        BY <2>4, <3>4 DEF Halved
      <4> QED
        BY <2>4, <4>1
    <3> QED
      BY <2>1, <2>3, <3>1, <3>2, <3>3, <3>4
  <2> QED
    BY <2>2, <2>3, <2>4, <2>5 DEF ValuesInv
<1>4. CASE UNCHANGED valueVars
  <2>1. belief' = belief /\ date' = date /\ purse' = purse
    BY <1>4 DEF valueVars
  <2> QED
    BY <2>1 DEF ValuesInv
<1> QED
  BY <1>1, <1>2, <1>3, <1>4

LEMMA ValuesTyped == ValuesInv => ValuesHold
<1> SUFFICES ASSUME ValuesInv PROVE ValuesHold
  OBVIOUS
<1>1. belief.level = LevelOf(belief.score) /\ belief.score \in 0..95
  BY DEF ValuesInv, Believable, FromScore
<1>2. belief.score <= Boosted(belief).score /\ (belief.score >= 5 => Reduced(belief).score <= belief.score)
  BY <1>1, MovedIs
<1>3. ASSUME NEW c \in Named
      PROVE  Combined(belief, c) = Combined(c, belief) /\ Combined(belief, c).score <= Max({belief.score, c.score})
  <2>1. c.score \in 0..95
    BY NamedAre
  <2> QED
    BY <1>1, <2>1, CombinedIs
<1>4. IsDate(date) /\ Dated(date)
  BY DEF ValuesInv, Dated
<1>5. ASSUME NEW n \in Shifts
      PROVE  PlusMonths(PlusMonths(date, n), -n) = date /\ PlusDays(PlusDays(date, n), -n) = date
  <2>1. n \in -28..28 /\ n \in Int
    BY DomainAssumption
  <2> QED
    BY <1>4, <2>1, MonthsBackAndForth, DaysBackAndForth
<1>6. purse.amount >= 0 /\ 2 * (8 * InCents(purse.amount) - purse.amount) \in -7..8
  <2>1. PICK x, c : x = purse.amount /\ c = (x + 4) \div 8
    OBVIOUS
  <2>2. x \in Nat
    BY <2>1 DEF ValuesInv
  <2>3. c \in Int /\ 8 * c <= x + 4 /\ x + 4 < 8 * c + 8
    BY <2>1, <2>2
  <2>4. 2 * (8 * c - x) \in -7..8
    BY <2>2, <2>3
  <2> QED
    BY <2>1, <2>2, <2>4 DEF InCents
<1> QED
  BY <1>1, <1>2, <1>3, <1>4, <1>5, <1>6 DEF ValuesHold

-----------------------------------------------------------------------------
(* Learning: what its folds add up.                                        *)
Squared(s) == [i \in DOMAIN s |-> s[i] * s[i]]
Apart(s, x) == [i \in DOMAIN s |-> Distance(s[i], x)]

LEMMA TotalIs ==
  ASSUME NEW s \in Seq(Int) PROVE Total(s) = SumOf(DOMAIN s, s) /\ SumOf(DOMAIN s, s) \in Int
<1> DEFINE S == DOMAIN s
           Folded(f) == f = [r \in SUBSET S |->
                               IF r = {} THEN 0
                               ELSE f[r \ {CHOOSE x \in r : TRUE}] + s[CHOOSE x \in r : TRUE]]
<1>1. Total(s) = (CHOOSE f : Folded(f))[S]
  BY DEF Total, FoldSeq, FoldFunction, FoldFunctionOnSet, MapThenFoldSet
<1>2. \A f : Folded(f) <=> Adding(f, S, s)
  BY Zenon DEF Adding, Chosen
<1> HIDE DEF Folded
<1>3. IsFiniteSet(S) /\ s \in [S -> Int]
  <2>1. S = 1..Len(s) /\ Len(s) \in Nat /\ s \in [1..Len(s) -> Int]
    BY ListDomain
  <2> HIDE DEF S
  <2> QED
    BY <2>1, FS_Interval
<1>4. PICK f : Adding(f, S, s)
  BY <1>3, SumExists
<1>5. PICK g : g = CHOOSE h : Folded(h)
  OBVIOUS
<1>6. Folded(g)
  BY <1>2, <1>4, <1>5, Zenon
<1>7. Adding(g, S, s)
  BY <1>2, <1>6
<1>8. SumOf(S, s) = g[S] /\ g[S] \in Int
  BY <1>3, <1>7, SumIs, SumAnyOrder
<1> QED
  BY <1>1, <1>5, <1>8

LEMMA SquaresIs ==
  ASSUME NEW s \in Seq(Int)
  PROVE  Squares(s) = SumOf(DOMAIN s, Squared(s)) /\ SumOf(DOMAIN s, Squared(s)) \in Int
<1> DEFINE S == DOMAIN s
           w == Squared(s)
           Folded(f) == f = [r \in SUBSET S |->
                               IF r = {} THEN 0
                               ELSE f[r \ {CHOOSE x \in r : TRUE}] + s[CHOOSE x \in r : TRUE] * s[CHOOSE x \in r : TRUE]]
<1>1. Squares(s) = (CHOOSE f : Folded(f))[S]
  BY DEF Squares, FoldSeq, FoldFunction, FoldFunctionOnSet, MapThenFoldSet
<1>2. \A r \in SUBSET S : r # {} => w[Chosen(r)] = s[Chosen(r)] * s[Chosen(r)]
  BY DEF Chosen, Squared
<1>3. \A f : Folded(f) <=> Adding(f, S, w)
  <2> HIDE DEF w
  <2> QED
    BY <1>2 DEF Adding, Chosen
<1>4. IsFiniteSet(S) /\ w \in [S -> Int]
  <2>1. \A i \in S : s[i] \in Int /\ s[i] * s[i] \in Int
    OBVIOUS
  <2>2. IsFiniteSet(S)
    BY ListDomain, FS_Interval
  <2> QED
    BY <2>1, <2>2 DEF Squared
<1> HIDE DEF Folded, w
<1>5. PICK f : Adding(f, S, w)
  BY <1>4, SumExists
<1>6. PICK g : g = CHOOSE h : Folded(h)
  OBVIOUS
<1>7. Folded(g)
  BY <1>3, <1>5, <1>6, Zenon
<1>8. Adding(g, S, w)
  BY <1>3, <1>7
<1>9. SumOf(S, w) = g[S] /\ g[S] \in Int
  BY <1>4, <1>8, SumIs, SumAnyOrder
<1> QED
  BY <1>1, <1>6, <1>9 DEF w

LEMMA DistanceIs ==
  ASSUME NEW a \in Int, NEW b \in Int PROVE Distance(a, b) \in Nat
BY DEF Distance

LEMMA ApartIs ==
  ASSUME NEW s \in Seq(Int), NEW y \in Int
  PROVE  /\ FoldSeq(LAMBDA t, sum : sum + Distance(t, y), 0, s) = SumOf(DOMAIN s, Apart(s, y))
         /\ Apart(s, y) \in [DOMAIN s -> Nat] /\ IsFiniteSet(DOMAIN s)
<1> DEFINE S == DOMAIN s
           w == Apart(s, y)
           Folded(f) == f = [r \in SUBSET S |->
                               IF r = {} THEN 0
                               ELSE f[r \ {CHOOSE x \in r : TRUE}] + Distance(s[CHOOSE x \in r : TRUE], y)]
<1>1. FoldSeq(LAMBDA t, sum : sum + Distance(t, y), 0, s) = (CHOOSE f : Folded(f))[S]
  BY DEF FoldSeq, FoldFunction, FoldFunctionOnSet, MapThenFoldSet
<1>2. \A r \in SUBSET S : r # {} => w[Chosen(r)] = Distance(s[Chosen(r)], y)
  BY DEF Chosen, Apart
<1>3. \A f : Folded(f) <=> Adding(f, S, w)
  <2> HIDE DEF w
  <2> QED
    BY <1>2 DEF Adding, Chosen
<1>4. IsFiniteSet(S) /\ w \in [S -> Nat] /\ w \in [S -> Int]
  <2>1. \A i \in S : Distance(s[i], y) \in Nat
    <3>1. \A i \in S : s[i] \in Int
      OBVIOUS
    <3> QED
      BY <3>1, DistanceIs
  <2>2. IsFiniteSet(S)
    BY ListDomain, FS_Interval
  <2> QED
    BY <2>1, <2>2 DEF Apart
<1> HIDE DEF Folded, w
<1>5. PICK f : Adding(f, S, w)
  BY <1>4, SumExists
<1>6. PICK g : g = CHOOSE h : Folded(h)
  OBVIOUS
<1>7. Folded(g)
  BY <1>3, <1>5, <1>6, Zenon
<1>8. Adding(g, S, w)
  BY <1>3, <1>7
<1>9. SumOf(S, w) = g[S]
  BY <1>4, <1>8, SumIs
<1> QED
  BY <1>1, <1>4, <1>6, <1>9 DEF w

(* A sum of as many numbers is at least that many times a lower bound.     *)
LEMMA AtLeastTimes ==
  ASSUME NEW S, IsFiniteSet(S), NEW w \in [S -> Int], NEW b \in Int, \A x \in S : b <= w[x]
  PROVE  SumOf(S, w) \in Int /\ Cardinality(S) * b <= SumOf(S, w)
<1>1. PICK f : Adding(f, S, w)
  BY SumExists
<1>2. \A s \in SUBSET S : f[s] \in Int /\ \A y \in s : f[s] = f[s \ {y}] + w[y]
  BY <1>1, SumAnyOrder
<1>3. PICK G : G = {s \in SUBSET S : Cardinality(s) * b <= f[s]}
  OBVIOUS
<1>4. f[{}] = 0
  BY <1>1 DEF Adding
<1>5. ASSUME NEW T \in SUBSET S, \A R \in SUBSET T : R # T => R \in G PROVE T \in G
  <2>1. CASE T = {}
    <3>1. Cardinality(T) * b = 0
      BY <2>1, FS_EmptySet
    <3> QED
      BY <1>3, <1>4, <2>1, <3>1
  <2>2. CASE T # {}
    <3>1. PICK y \in T : TRUE
      BY <2>2
    <3>2. PICK n : n = Cardinality(T \ {y})
      OBVIOUS
    <3>3. IsFiniteSet(T) /\ n \in Nat /\ Cardinality(T) = n + 1
      BY <3>1, <3>2, FS_Subset, FS_RemoveElement, FS_CardinalityType
    <3>4. PICK p : p = n * b
      OBVIOUS
    <3>5. p \in Int /\ (n + 1) * b = p + b
      BY <3>3, <3>4
    <3>6. p <= f[T \ {y}] /\ f[T \ {y}] \in Int
      BY <1>2, <1>3, <1>5, <3>1, <3>2, <3>4
    <3>7. f[T] = f[T \ {y}] + w[y] /\ w[y] \in Int /\ b <= w[y]
      BY <1>2, <3>1
    <3>8. Cardinality(T) * b <= f[T]
      BY <3>3, <3>5, <3>6, <3>7
    <3> QED
      BY <1>3, <3>8
  <2> QED
    BY <2>1, <2>2
<1>6. S \in G
  BY <1>5, SubsetInduction
<1> QED
  BY <1>1, <1>2, <1>3, <1>6, SumIs

LEMMA OneMoreSquared ==
  ASSUME NEW n \in 0..5, NEW a \in Int, NEW q \in Int, NEW x \in Int, q >= 0, a * a <= n * q
  PROVE  (a + x) * (a + x) <= (n + 1) * (q + x * x)
<1>1. PICK aa, ax, xx : aa = a * a /\ ax = a * x /\ xx = x * x
  OBVIOUS
<1>2. aa \in Int /\ ax \in Int /\ xx \in Int
  BY <1>1
<1>3. (a + x) * (a + x) = aa + 2 * ax + xx
  BY <1>1
<1>4. PICK d : d = a - n * x
  OBVIOUS
<1>5. d \in Int /\ d * d >= 0
  BY <1>4
<1>6. aa <= n * q
  BY <1>1
<1>7. CASE n = 0
  <2>1. a * a <= 0
    BY <1>7
  <2>2. a = 0
    BY <2>1
  <2>3. aa = 0 /\ ax = 0
    BY <1>1, <2>2
  <2>4. (n + 1) * (q + x * x) = q + xx
    BY <1>1, <1>2, <1>7
  <2> QED
    BY <1>2, <1>3, <2>3, <2>4
<1>8. ASSUME NEW k \in 1..5, n = k PROVE q + k * xx >= 2 * ax
  <2>1. d * d = (a - k * x) * (a - k * x)
    BY <1>4, <1>8
  <2>2. (a - k * x) * (a - k * x) = aa - 2 * (k * ax) + k * (k * xx)
    BY <1>1
  <2>3. aa <= k * q
    BY <1>6, <1>8
  <2>4. k * q - 2 * (k * ax) + k * (k * xx) >= 0
    BY <1>2, <1>5, <2>1, <2>2, <2>3
  <2> QED
    BY <1>2, <2>4
<1>9. CASE n # 0
  <2>1. q + n * xx >= 2 * ax
    BY <1>8, <1>9
  <2>2. (n + 1) * (q + x * x) = n * q + q + n * xx + xx
    BY <1>1
  <2> QED
    BY <1>2, <1>3, <1>6, <2>1, <2>2
<1> QED
  BY <1>7, <1>9

(* A number among n is not further from their mean than n - 1 times what   *)
(* they deviate on the whole (Samuelson): of up to seven none deviates.    *)
LEMMA Samuelson ==
  ASSUME NEW n \in 0..6, NEW x \in Int, NEW a \in Int, NEW q \in Int, a * a <= n * q,
         NEW t, t = a + x, NEW u, u = q + x * x
  PROVE  ((n + 1) * x - t) * ((n + 1) * x - t) <= n * ((n + 1) * u - t * t)
<1>1. PICK aa, ax, xx : aa = a * a /\ ax = a * x /\ xx = x * x
  OBVIOUS
<1>2. aa \in Int /\ ax \in Int /\ xx \in Int /\ aa <= n * q
  BY <1>1
<1>3. ASSUME NEW k \in 0..6, n = k
      PROVE  ((n + 1) * x - t) * ((n + 1) * x - t) <= n * ((n + 1) * u - t * t)
  <2>1. (n + 1) * x - t = k * x - a
    BY <1>3
  <2>2. (k * x - a) * (k * x - a) = k * (k * xx) - 2 * (k * ax) + aa
    BY <1>1
  <2>3. t * t = aa + 2 * ax + xx
    BY <1>1
  <2>4. n * ((n + 1) * u - t * t) = k * ((k + 1) * (q + xx) - (aa + 2 * ax + xx))
    BY <1>1, <1>3, <2>3
  <2>5. k * (k * xx) - 2 * (k * ax) + aa <= k * ((k + 1) * (q + xx) - (aa + 2 * ax + xx))
    <3>1. aa <= k * q
      BY <1>2, <1>3
    <3> QED
      BY <1>2, <3>1
  <2> QED
    BY <2>1, <2>2, <2>4, <2>5
<1> QED
  BY <1>3

LEMMA SquareOfTotal ==
  ASSUME NEW S, IsFiniteSet(S), NEW w \in [S -> Int], NEW v \in [S -> Int],
         \A x \in S : v[x] = w[x] * w[x], Cardinality(S) <= 6
  PROVE  /\ SumOf(S, w) \in Int /\ SumOf(S, v) \in Int
         /\ SumOf(S, w) * SumOf(S, w) <= Cardinality(S) * SumOf(S, v)
<1>1. PICK f : Adding(f, S, w)
  BY SumExists
<1>2. \A s \in SUBSET S : f[s] \in Int /\ \A y \in s : f[s] = f[s \ {y}] + w[y]
  BY <1>1, SumAnyOrder
<1>3. PICK g : Adding(g, S, v)
  BY SumExists
<1>4. \A s \in SUBSET S : g[s] \in Int /\ \A y \in s : g[s] = g[s \ {y}] + v[y]
  BY <1>3, SumAnyOrder
<1>5. PICK G : G = {s \in SUBSET S : g[s] >= 0 /\ f[s] * f[s] <= Cardinality(s) * g[s]}
  OBVIOUS
<1>6. f[{}] = 0 /\ g[{}] = 0
  BY <1>1, <1>3 DEF Adding
<1>7. ASSUME NEW T \in SUBSET S, \A R \in SUBSET T : R # T => R \in G PROVE T \in G
  <2>1. CASE T = {}
    <3>1. f[T] * f[T] = 0 /\ Cardinality(T) * g[T] = 0
      BY <1>6, <2>1, FS_EmptySet
    <3> QED
      BY <1>5, <1>6, <2>1, <3>1
  <2>2. CASE T # {}
    <3>1. PICK y \in T : TRUE
      BY <2>2
    <3>2. PICK n : n = Cardinality(T \ {y})
      OBVIOUS
    <3>3. IsFiniteSet(T) /\ n \in 0..5 /\ Cardinality(T) = n + 1
      <4>1. IsFiniteSet(T) /\ Cardinality(T) <= Cardinality(S) /\ Cardinality(T) \in Nat /\ Cardinality(S) \in Nat
        BY FS_Subset, FS_CardinalityType
      <4>2. IsFiniteSet(T \ {y}) /\ n \in Nat /\ n = Cardinality(T) - 1
        BY <3>1, <3>2, <4>1, FS_RemoveElement, FS_CardinalityType
      <4>3. PICK c, e : c = Cardinality(T) /\ e = Cardinality(S)
        OBVIOUS
      <4>4. c \in Nat /\ e \in Nat /\ c <= e /\ e <= 6 /\ n = c - 1
        BY <4>1, <4>2, <4>3
      <4> QED
        BY <4>1, <4>2, <4>3, <4>4
    <3>4. PICK a, q, x : a = f[T \ {y}] /\ q = g[T \ {y}] /\ x = w[y]
      OBVIOUS
    <3>5. a \in Int /\ q \in Int /\ x \in Int /\ f[T] = a + x /\ g[T] = q + x * x
      <4>1. y \in S /\ T \ {y} \in SUBSET S
        BY <3>1
      <4> QED
        BY <1>2, <1>4, <3>1, <3>4, <4>1
    <3>6. q >= 0 /\ a * a <= n * q
      BY <1>5, <1>7, <3>1, <3>2, <3>4
    <3>7. (a + x) * (a + x) <= (n + 1) * (q + x * x)
      BY <3>3, <3>5, <3>6, OneMoreSquared
    <3>8. q + x * x >= 0
      <4>1. PICK xx : xx = x * x
        OBVIOUS
      <4>2. xx \in Int /\ xx >= 0
        <5>1. x \in Int
          BY <3>5
        <5> QED
          BY <4>1, <5>1
      <4>3. q + xx >= 0
        <5>1. q \in Int
          BY <3>5
        <5> QED
          BY <3>6, <4>2, <5>1
      <4> QED
        BY <4>1, <4>3
    <3> QED
      BY <1>5, <3>3, <3>5, <3>7, <3>8
  <2> QED
    BY <2>1, <2>2
<1>8. S \in G
  BY <1>7, SubsetInduction
<1> QED
  BY <1>1, <1>2, <1>3, <1>4, <1>5, <1>8, SumIs

LEMMA NoneDeviates ==
  ASSUME NEW s \in Seq(Int), Len(s) <= 7, NEW i \in DOMAIN s
  PROVE  /\ Total(s) \in Int /\ Squares(s) \in Int
         /\ (Len(s) * s[i] - Total(s)) * (Len(s) * s[i] - Total(s))
              <= (Len(s) - 1) * (Len(s) * Squares(s) - Total(s) * Total(s))
<1> DEFINE S == DOMAIN s
           R == S \ {i}
           w == [k \in R |-> s[k]]
           v == [k \in R |-> s[k] * s[k]]
<1>1. /\ S = 1..Len(s) /\ Len(s) \in Nat /\ i \in S /\ s[i] \in Int /\ s \in [S -> Int]
      /\ \A k \in S : s[k] \in Int /\ s[k] * s[k] \in Int
  BY ListDomain
<1>2. IsFiniteSet(S) /\ Cardinality(S) = Len(s)
  <2>1. PICK n : n = Len(s)
    OBVIOUS
  <2>2. n \in Nat /\ S = 1..n
    BY <1>1, <2>1
  <2>3. IsFiniteSet(1..n) /\ Cardinality(1..n) = n
    BY <2>2, FS_Interval
  <2> QED
    BY <2>1, <2>2, <2>3, Zenon
<1>3. IsFiniteSet(R) /\ Cardinality(R) = Len(s) - 1
  BY <1>1, <1>2, FS_RemoveElement
<1>4. Squared(s) \in [S -> Int] /\ Squared(s)[i] = s[i] * s[i] /\ w \in [R -> Int] /\ v \in [R -> Int]
      /\ (\A k \in R : w[k] = s[k] /\ v[k] = w[k] * w[k] /\ v[k] = Squared(s)[k])
  BY <1>1 DEF Squared
<1> HIDE DEF S, R, w, v
<1>5. Total(s) = SumOf(R, w) + s[i] /\ SumOf(R, w) \in Int
  <2>1. w \in [S \ {i} -> Int] /\ \A k \in S \ {i} : w[k] = s[k]
    BY <1>4 DEF R
  <2>2. SumOf(S, s) = SumOf(S \ {i}, w) + s[i] /\ SumOf(S \ {i}, w) \in Int
    <3>1. PICK D, a, b : D = S /\ a = s /\ b = w
      OBVIOUS
    <3>2. /\ IsFiniteSet(D) /\ a \in [D -> Int] /\ i \in D /\ b \in [D \ {i} -> Int]
          /\ \A x \in D \ {i} : b[x] = a[x]
      BY <1>1, <1>2, <2>1, <3>1
    <3>3. SumOf(D, a) = SumOf(D \ {i}, b) + a[i] /\ SumOf(D \ {i}, b) \in Int
      BY <3>2, SumSplit
    <3> QED
      BY <3>1, <3>3
  <2> QED
    BY <2>2, TotalIs DEF R, S
<1>6. Squares(s) = SumOf(R, v) + s[i] * s[i] /\ SumOf(R, v) \in Int
  <2>1. PICK z : z = Squared(s)
    OBVIOUS
  <2>2. z \in [S -> Int] /\ v \in [S \ {i} -> Int] /\ \A k \in S \ {i} : v[k] = z[k]
    BY <1>4, <2>1 DEF R
  <2>3. SumOf(S, z) = SumOf(S \ {i}, v) + z[i] /\ SumOf(S \ {i}, v) \in Int
    <3>1. PICK D, b : D = S /\ b = v
      OBVIOUS
    <3>2. /\ IsFiniteSet(D) /\ z \in [D -> Int] /\ i \in D /\ b \in [D \ {i} -> Int]
          /\ \A x \in D \ {i} : b[x] = z[x]
      BY <1>1, <1>2, <2>2, <3>1
    <3>3. SumOf(D, z) = SumOf(D \ {i}, b) + z[i] /\ SumOf(D \ {i}, b) \in Int
      BY <3>2, SumSplit
    <3> QED
      BY <3>1, <3>3
  <2> QED
    BY <1>4, <2>1, <2>3, SquaresIs DEF R, S
<1>7. PICK n, x, a, q : n = Len(s) - 1 /\ x = s[i] /\ a = SumOf(R, w) /\ q = SumOf(R, v)
  OBVIOUS
<1>8. n \in 0..6 /\ x \in Int /\ a \in Int /\ q \in Int
  <2>1. PICK l : l = Len(s)
    OBVIOUS
  <2>2. l \in Nat /\ l >= 1 /\ l <= 7 /\ n = l - 1
    BY <1>1, <1>7, <2>1
  <2>3. n \in 0..6
    BY <2>2
  <2> QED
    BY <1>1, <1>5, <1>6, <1>7, <2>3
<1>9. a * a <= n * q
  <2>1. IsFiniteSet(R) /\ Cardinality(R) = n /\ Cardinality(R) <= 6
    BY <1>3, <1>7, <1>8
  <2>2. SumOf(R, w) * SumOf(R, w) <= Cardinality(R) * SumOf(R, v)
    BY <1>4, <2>1, SquareOfTotal
  <2> QED
    BY <1>7, <2>1, <2>2
<1>10. PICK t, u : t = a + x /\ u = q + x * x
  OBVIOUS
<1>11. t \in Int /\ u \in Int /\ Total(s) = t /\ Squares(s) = u /\ Len(s) = n + 1
  BY <1>1, <1>5, <1>6, <1>7, <1>8, <1>10
<1>12. ((n + 1) * x - t) * ((n + 1) * x - t) <= n * ((n + 1) * u - t * t)
  BY <1>8, <1>9, <1>10, Samuelson
<1> QED
  BY <1>7, <1>8, <1>11, <1>12
-----------------------------------------------------------------------------
(* The detector. The score that is compared with is a fraction of numbers  *)
(* that are not negative.                                                  *)
Fraction(f) == f[1] \in Nat /\ f[2] \in Nat

DetectorInv ==
  /\ baseline \in Seq(Nat) /\ training \in Seq(Nat)
  /\ lastScore # <<>> => Fraction(lastScore)

LEMMA DetectorStarts == LearningInit => DetectorInv
<1> SUFFICES ASSUME LearningInit PROVE DetectorInv
  OBVIOUS
<1>1. baseline = <<>> /\ training = <<>> /\ lastScore = <<>> /\ <<>> \in Seq(Nat)
  BY DEF LearningInit
<1> QED
  BY <1>1 DEF DetectorInv

(* The least distance is 0 from what was trained on.                       *)
LEMMA ScoreIs ==
  ASSUME training \in Seq(Nat), NEW x \in Nat
  PROVE  /\ Fraction(IsolationScore(x))
         /\ \A i \in DOMAIN training : training[i] = x => IsolationScore(x)[1] = 0
<1>1. training \in Seq(Int) /\ DOMAIN training = 1..Len(training) /\ Len(training) \in Nat
  BY ListDomain
<1>2. PICK w : w = Apart(training, x)
  OBVIOUS
<1>3. PICK sum : sum = FoldSeq(LAMBDA t, s : s + Distance(t, x), 0, training)
  OBVIOUS
<1>4. x \in Int
  OBVIOUS
<1>5. sum = SumOf(DOMAIN training, w) /\ w \in [DOMAIN training -> Nat] /\ IsFiniteSet(DOMAIN training)
  BY <1>1, <1>2, <1>3, <1>4, ApartIs
<1>6. PICK m : m = Min({Distance(training[i], x) : i \in DOMAIN training})
  OBVIOUS
<1>7. CASE training = <<>> \/ sum = 0
  <2>1. IsolationScore(x) = <<0, 1>>
    BY <1>3, <1>7 DEF IsolationScore
  <2> QED
    BY <2>1 DEF Fraction
<1>8. CASE training # <<>> /\ sum # 0
  <2>1. PICK A : A = {Distance(training[i], x) : i \in DOMAIN training}
    OBVIOUS
  <2>2. \A i \in DOMAIN training : Distance(training[i], x) = w[i] /\ w[i] \in Nat
    BY <1>2, <1>5 DEF Apart
  <2>3. A \in SUBSET Nat /\ A # {}
    <3>1. 1 \in DOMAIN training
      BY <1>1, <1>8
    <3> QED
      BY <2>1, <2>2, <3>1
  <2>4. m \in Nat /\ \A i \in DOMAIN training : m <= w[i]
    <3>1. m \in A /\ \A y \in A : m <= y
      BY <1>6, <2>1, <2>3, LeastIs
    <3> QED
      BY <2>1, <2>2, <2>3, <3>1
  <2>5. PICK n : n = Len(training)
    OBVIOUS
  <2>6. n \in Nat /\ Cardinality(DOMAIN training) = n
    <3>1. n \in Nat /\ DOMAIN training = 1..n
      BY <1>1, <2>5
    <3>2. Cardinality(1..n) = n
      BY <3>1, FS_Interval
    <3> QED
      BY <3>1, <3>2, Zenon
  <2>7. n * m <= sum /\ sum \in Int
    <3>1. PICK D : D = DOMAIN training
      OBVIOUS
    <3>2. w \in [D -> Int] /\ IsFiniteSet(D) /\ m \in Int /\ \A i \in D : m <= w[i]
      BY <1>5, <2>4, <3>1
    <3>3. SumOf(D, w) \in Int /\ Cardinality(D) * m <= SumOf(D, w)
      BY <3>2, AtLeastTimes
    <3> QED
      BY <1>5, <2>6, <3>1, <3>3
  <2>8. IsolationScore(x) = <<n * m, sum>>
    BY <1>3, <1>6, <1>8, <2>5 DEF IsolationScore
  <2>9. n * m \in Nat
    BY <2>4, <2>6
  <2>10. ASSUME NEW i \in DOMAIN training, training[i] = x PROVE n * m = 0
    <3>1. w[i] = 0
      BY <1>4, <2>2, <2>10 DEF Distance
    <3>2. m = 0
      BY <2>4, <3>1
    <3> QED
      BY <2>6, <3>2
  <2> QED
    BY <2>7, <2>8, <2>9, <2>10 DEF Fraction
<1> QED
  BY <1>7, <1>8

LEMMA DetectorSteps ==
  ASSUME DetectorInv, [DetectorNext]_detectorVars PROVE DetectorInv'
<1>1. ASSUME NEW data \in Baselines, NEW features \in Trainings, Setup(data, features) PROVE DetectorInv'
  <2>1. /\ lastScore' = lastScore
        /\ baseline' = (IF Len(data) < 2 THEN baseline ELSE data)
        /\ training' = (IF features = <<>> THEN training ELSE features)
    BY <1>1 DEF Setup
  <2>2. data \in Seq(Nat) /\ features \in Seq(Nat)
    BY LearningAssumption
  <2>3. baseline' \in Seq(Nat) /\ training' \in Seq(Nat)
    BY <2>1, <2>2 DEF DetectorInv
  <2> QED
    BY <2>1, <2>3 DEF DetectorInv
<1>2. ASSUME NEW x \in Observations, Detect(x) PROVE DetectorInv'
  <2>1. PICK sc : sc = IsolationScore(x)
    OBVIOUS
  <2>2. x \in Nat
    BY LearningAssumption
  <2>3. Fraction(sc)
    BY <2>1, <2>2, ScoreIs DEF DetectorInv
  <2>4. lastScore' = (IF training = <<>> THEN lastScore ELSE sc) /\ baseline' = baseline /\ training' = training
    BY <1>2, <2>1 DEF Detect
  <2>5. lastScore' # <<>> => Fraction(lastScore')
    BY <2>3, <2>4 DEF DetectorInv
  <2> QED
    BY <2>4, <2>5 DEF DetectorInv
<1>3. CASE UNCHANGED detectorVars
  <2>1. UNCHANGED <<baseline, training, lastScore>>
    BY <1>3 DEF detectorVars
  <2> QED
    BY <2>1 DEF DetectorInv
<1> QED
  BY <1>1, <1>2, <1>3 DEF DetectorNext

LEMMA DetectorTyped == DetectorInv => DetectorKnows
<1> SUFFICES ASSUME DetectorInv PROVE DetectorKnows
  OBVIOUS
<1>1. ASSUME NEW i \in DOMAIN training PROVE ~ Isolated(training[i])
  <2>1. PICK x, sc, last : x = training[i] /\ sc = IsolationScore(x)
                           /\ last = (IF lastScore = <<>> THEN <<1, 1>> ELSE lastScore)
    OBVIOUS
  <2>2. training \in Seq(Nat) /\ x \in Nat
    BY <2>1, ListDomain DEF DetectorInv
  <2>3. Fraction(sc) /\ sc[1] = 0
    BY <1>1, <2>1, <2>2, ScoreIs
  <2>4. Fraction(last)
    <3>1. Fraction(<<1, 1>>)
      BY DEF Fraction
    <3> QED
      BY <2>1, <3>1 DEF DetectorInv
  <2>5. last[1] * sc[2] >= 0 /\ sc[1] * last[2] = 0
    BY <2>3, <2>4 DEF Fraction
  <2>6. last[1] * sc[2] \in Int
    BY <2>3, <2>4 DEF Fraction
  <2>7. ~ Exceeds(sc, last)
    BY <2>5, <2>6 DEF Exceeds
  <2> QED
    BY <2>1, <2>7 DEF Isolated
<1>2. ASSUME Len(baseline) <= 7, NEW i \in DOMAIN baseline PROVE ~ Deviates(baseline[i], 5)
  <2>1. PICK n, t, q, x : n = Len(baseline) /\ t = Total(baseline) /\ q = Squares(baseline) /\ x = baseline[i]
    OBVIOUS
  <2>2. baseline \in Seq(Int) /\ n \in 0..7 /\ n # 0 /\ x \in Int
    <3>1. baseline \in Seq(Nat) /\ DOMAIN baseline = 1..Len(baseline) /\ Len(baseline) \in Nat
      BY ListDomain DEF DetectorInv
    <3>2. baseline \in Seq(Int)
      BY <3>1
    <3>3. n \in Nat /\ n <= 7 /\ DOMAIN baseline = 1..n /\ x \in Nat
      BY <1>2, <2>1, <3>1
    <3>4. n # 0
      BY <1>2, <3>3
    <3> QED
      BY <3>2, <3>3, <3>4
  <2>3. t \in Int /\ q \in Int /\ (n * x - t) * (n * x - t) <= (n - 1) * (n * q - t * t)
    BY <1>2, <2>1, <2>2, NoneDeviates
  <2>4. PICK sp, d : sp = n * q - t * t /\ d = (n * x - t) * (n * x - t)
    OBVIOUS
  <2>5. sp \in Int /\ d \in Int /\ d <= (n - 1) * sp
    BY <2>2, <2>3, <2>4
  <2>6. SUFFICES ASSUME sp > 0, 4 * d > 25 * sp PROVE FALSE
    <3>1. 4 * (n * x - t) * (n * x - t) = 4 * d /\ 5 * 5 * sp = 25 * sp
      BY <2>2, <2>3, <2>4
    <3> QED
      BY <2>1, <2>4, <3>1 DEF Deviates
  <2>7. ASSUME NEW k \in 0..6, n - 1 = k PROVE d <= 6 * sp
    BY <2>5, <2>6, <2>7
  <2>8. n - 1 \in 0..6
    BY <2>2
  <2> QED
    BY <2>5, <2>6, <2>7, <2>8
<1> QED
  BY <1>1, <1>2 DEF DetectorKnows
-----------------------------------------------------------------------------
(* The predictor. `fitted` is the last call that fitted the forecaster.    *)
Forecasts == [n : Nat, of : Nat]

IsCall(s, k) ==
  /\ s[k].n > 1 => s[k].of \in {0, k}
  /\ s[k].of \notin {0, k} => /\ s[k].of \in 1..(k - 1) /\ s[k].n < 2 /\ s[s[k].of].of = s[k].of
                              /\ \A j \in (s[k].of + 1)..k : s[j].of # j

PredictorInv ==
  /\ forecasts \in Seq(Forecasts)
  /\ \A k \in DOMAIN forecasts : IsCall(forecasts, k)
  /\ fitted \in 0..Len(forecasts)
  /\ fitted # 0 => forecasts[fitted].of = fitted
  /\ \A j \in (fitted + 1)..Len(forecasts) : forecasts[j].of # j

LEMMA PredictorStarts == LearningInit => PredictorInv
<1> SUFFICES ASSUME LearningInit PROVE PredictorInv
  OBVIOUS
<1>1. forecasts = <<>> /\ fitted = 0
  BY DEF LearningInit
<1>2. <<>> \in Seq(Forecasts) /\ Len(<<>>) = 0 /\ DOMAIN <<>> = {}
  OBVIOUS
<1> QED
  BY <1>1, <1>2 DEF PredictorInv

LEMMA PredictorSteps ==
  ASSUME PredictorInv, [PredictorNext]_predictorVars PROVE PredictorInv'
<1>1. ASSUME NEW what, NEW n \in {0, 1, 2, 5}, Predict(what, n) PROVE PredictorInv'
  <2>1. PICK asks : asks = (n >= Wanted(what))
    OBVIOUS
  <2>2. PICK s, call : s = forecasts /\ call = Len(s) + 1
    OBVIOUS
  <2>3. PICK f : f = fitted'
    OBVIOUS
  <2>4. PICK o : o = [n |-> n, of |-> IF asks THEN f ELSE 0]
    OBVIOUS
  <2>5. PICK t : t = Append(s, o)
    OBVIOUS
  <2>6. f = (IF asks THEN (IF n < 2 THEN fitted ELSE call) ELSE fitted) /\ forecasts' = t
    BY <1>1, <2>1, <2>2, <2>3, <2>4, <2>5 DEF Predict, Fitted
  <2>7. s \in Seq(Forecasts) /\ Len(s) \in Nat /\ call \in Nat \ {0} /\ fitted \in 0..Len(s)
    BY <2>2, ListDomain DEF PredictorInv
  <2>8. f \in 0..call /\ o \in Forecasts /\ o.n = n /\ o.of = (IF asks THEN f ELSE 0)
    BY <2>2, <2>4, <2>6, <2>7 DEF Forecasts
  <2>9. /\ t \in Seq(Forecasts) /\ Len(t) = call /\ DOMAIN t = 1..call /\ DOMAIN s = 1..(call - 1)
        /\ (\A i \in 1..(call - 1) : t[i] = s[i]) /\ t[call] = o
    BY <2>2, <2>5, <2>7, <2>8, Appended
  <2>10. fitted # 0 => fitted \in 1..(call - 1) /\ t[fitted].of = fitted
    BY <2>2, <2>7, <2>9 DEF PredictorInv
  <2>11. \A j \in (fitted + 1)..(call - 1) : t[j].of # j
    BY <2>2, <2>7, <2>9 DEF PredictorInv
  <2>12. f = call => o.of = call
    BY <2>2, <2>6, <2>7, <2>8
  <2>13. f # call => f = fitted /\ o.of # call
    BY <2>2, <2>6, <2>7, <2>8
  <2>14. f # 0 => t[f].of = f
    BY <2>9, <2>10, <2>12, <2>13
  <2>15. \A j \in (f + 1)..call : t[j].of # j
    <3>1. CASE f = call
      BY <2>7, <3>1
    <3>2. CASE f # call
      <4>1. \A j \in (f + 1)..call : j = call \/ j \in (fitted + 1)..(call - 1)
        BY <2>7, <2>13, <3>2
      <4> QED
        BY <2>9, <2>11, <2>13, <3>2, <4>1
    <3> QED
      BY <3>1, <3>2
  <2>16. IsCall(t, call)
    <3>1. o.n > 1 => o.of \in {0, call}
      BY <2>6, <2>8
    <3>2. ASSUME o.of \notin {0, call}
          PROVE  o.of \in 1..(call - 1) /\ o.n < 2 /\ t[o.of].of = o.of /\ \A j \in (o.of + 1)..call : t[j].of # j
      <4>1. o.of = f /\ f # 0 /\ f # call /\ asks
        BY <2>8, <3>2
      <4>2. f \in 1..(call - 1) /\ o.n < 2
        BY <2>6, <2>7, <2>8, <4>1
      <4> QED
        BY <2>14, <2>15, <4>1, <4>2
    <3> QED
      BY <2>9, <3>1, <3>2 DEF IsCall
  <2>17. ASSUME NEW k \in DOMAIN t PROVE IsCall(t, k)
    <3>1. CASE k = call
      BY <2>16, <3>1
    <3>2. CASE k # call
      <4>1. k \in 1..(call - 1) /\ k \in DOMAIN s /\ IsCall(s, k) /\ \A i \in 1..k : t[i] = s[i]
        BY <2>2, <2>7, <2>9, <3>2 DEF PredictorInv
      <4>2. s[k].of \in Nat
        <5>1. s[k] \in Forecasts
          BY <2>7, <4>1
        <5> QED
          BY <5>1 DEF Forecasts
      <4> QED
        BY <4>1, <4>2 DEF IsCall
    <3> QED
      BY <3>1, <3>2
  <2> QED
    BY <2>3, <2>6, <2>8, <2>9, <2>14, <2>15, <2>17 DEF PredictorInv
<1>2. CASE UNCHANGED predictorVars
  <2>1. UNCHANGED <<fitted, forecasts>>
    BY <1>2 DEF predictorVars
  <2> QED
    BY <2>1 DEF PredictorInv
<1> QED
  BY <1>1, <1>2 DEF PredictorNext

LEMMA PredictorTyped == PredictorInv => PredictsFromOwn
BY DEF PredictorInv, IsCall, PredictsFromOwn
-----------------------------------------------------------------------------
(* The market. A segment that is made again replaces one, whose size stays *)
(* in the total.                                                           *)
Sizes(m) == [i \in DOMAIN m |-> m[i].size]

SegmentOK(g) ==
  /\ DOMAIN g = {"size", "listed", "share"} /\ g.size \in Nat /\ g.listed \in Nat
  /\ IsFiniteSet(DOMAIN g.share) /\ Cardinality(DOMAIN g.share) <= g.listed

Own(s, c) == Len(Only(s, {c}))

ProfileOK(p, own) ==
  /\ DOMAIN p = {"share", "position", "activities", "threat"} /\ p.activities \in Nat /\ p.activities <= own
  /\ p.threat = IF p.activities = 0 THEN 0 ELSE ThreatLevel(p)

MarketInv ==
  /\ segmentsMade \in Seq(Segments) /\ moves \in Seq(Competitors)
  /\ DOMAIN segments = Range(segmentsMade) /\ IsFiniteSet(DOMAIN segments)
  /\ \A i \in DOMAIN segments : SegmentOK(segments[i])
  /\ totalSize \in Nat /\ totalSize >= SumOf(DOMAIN segments, Sizes(segments))
  /\ IsInjective(segmentsMade) => totalSize = SumOf(DOMAIN segments, Sizes(segments))
  /\ \A c \in DOMAIN profiles : ProfileOK(profiles[c], Own(moves, c))

LEMMA SizesAre ==
  ASSUME NEW m, \A i \in DOMAIN m : m[i].size \in Nat, IsFiniteSet(DOMAIN m)
  PROVE  /\ FoldFunction(LAMBDA x, sum : sum + x, 0, [i \in DOMAIN m |-> m[i].size]) = SumOf(DOMAIN m, Sizes(m))
         /\ Sizes(m) \in [DOMAIN m -> Int] /\ SumOf(DOMAIN m, Sizes(m)) \in Int
<1> DEFINE S == DOMAIN m
           w == Sizes(m)
           Folded(f) == f = [s \in SUBSET S |->
                               IF s = {} THEN 0
                               ELSE f[s \ {CHOOSE x \in s : TRUE}] + w[CHOOSE x \in s : TRUE]]
<1>1. w \in [S -> Int] /\ DOMAIN w = S /\ w = [i \in DOMAIN m |-> m[i].size]
  BY DEF Sizes
<1> HIDE DEF w
<1>2. FoldFunction(LAMBDA x, sum : sum + x, 0, w) = (CHOOSE f : Folded(f))[S]
  BY <1>1 DEF FoldFunction, FoldFunctionOnSet, MapThenFoldSet
<1>3. \A f : Folded(f) <=> Adding(f, S, w)
  BY Zenon DEF Adding, Chosen
<1> HIDE DEF Folded
<1>4. PICK f : Adding(f, S, w)
  BY <1>1, SumExists
<1>5. PICK g : g = CHOOSE h : Folded(h)
  OBVIOUS
<1>6. Folded(g)
  BY <1>3, <1>4, <1>5, Zenon
<1>7. Adding(g, S, w)
  BY <1>3, <1>6
<1>8. SumOf(S, w) = g[S] /\ g[S] \in Int
  BY <1>1, <1>7, SumIs, SumAnyOrder
<1> QED
  BY <1>1, <1>2, <1>5, <1>8 DEF w

LEMMA MarketStarts == LearningInit => MarketInv
<1> SUFFICES ASSUME LearningInit PROVE MarketInv
  OBVIOUS
<1>1. segments = <<>> /\ totalSize = 0 /\ segmentsMade = <<>> /\ profiles = <<>> /\ moves = <<>>
  BY DEF LearningInit
<1>2. <<>> \in Seq(Segments) /\ <<>> \in Seq(Competitors) /\ DOMAIN <<>> = {} /\ Range(<<>>) = {} /\ IsFiniteSet({})
  BY FS_EmptySet DEF Range
<1>3. \A w : SumOf({}, w) = 0
  BY EmptySum
<1> QED
  BY <1>1, <1>2, <1>3 DEF MarketInv

(* What a segment adds to the sum of the sizes.                            *)
LEMMA SizeAdded ==
  ASSUME NEW m, IsFiniteSet(DOMAIN m), \A x \in DOMAIN m : m[x].size \in Nat, NEW i, NEW g, g.size \in Nat,
         NEW n, DOMAIN n = DOMAIN m \cup {i}, n[i] = g, \A x \in DOMAIN m : x # i => n[x] = m[x]
  PROVE  /\ i \notin DOMAIN m => SumOf(DOMAIN n, Sizes(n)) = SumOf(DOMAIN m, Sizes(m)) + g.size
         /\ SumOf(DOMAIN n, Sizes(n)) <= SumOf(DOMAIN m, Sizes(m)) + g.size
         /\ SumOf(DOMAIN n, Sizes(n)) \in Int /\ IsFiniteSet(DOMAIN n)
<1>1. PICK D, v, w : D = DOMAIN m /\ v = Sizes(m) /\ w = Sizes(n)
  OBVIOUS
<1>2. IsFiniteSet(D \cup {i}) /\ IsFiniteSet(D)
  BY <1>1, FS_AddElement
<1>3. /\ v \in [D -> Int] /\ w \in [D \cup {i} -> Int] /\ w[i] = g.size
      /\ \A x \in D : v[x] \in Nat /\ (x # i => w[x] = v[x])
  <2>1. v = [x \in D |-> m[x].size] /\ w = [x \in D \cup {i} |-> n[x].size]
    BY <1>1 DEF Sizes
  <2>2. \A x \in D \cup {i} : n[x].size \in Nat
    BY <1>1
  <2> QED
    BY <1>1, <2>1, <2>2
<1>4. PICK e : e = g.size
  OBVIOUS
<1>5. CASE i \notin D
  <2>1. PICK E : E = D \cup {i}
    OBVIOUS
  <2>2. E \ {i} = D /\ i \in E
    BY <1>5, <2>1
  <2>3. SumOf(E, w) \in Int /\ SumOf(E \ {i}, v) \in Int /\ SumOf(E, w) = SumOf(E \ {i}, v) + w[i]
    <3>1. v \in [E \ {i} -> Int] /\ \A x \in E \ {i} : v[x] = w[x]
      BY <1>3, <1>5, <2>2
    <3>2. IsFiniteSet(E) /\ w \in [E -> Int]
      BY <1>2, <1>3, <2>1
    <3> QED
      BY <2>2, <3>1, <3>2, SumSplit
  <2> QED
    BY <1>1, <1>2, <1>3, <1>5, <2>1, <2>2, <2>3
<1>6. CASE i \in D
  <2>1. D \cup {i} = D
    BY <1>6
  <2>2. SumOf(D, v) \in Int /\ SumOf(D, w) = SumOf(D, v) + (w[i] - v[i])
    BY <1>2, <1>3, <1>6, <2>1, SumChanges
  <2> QED
    BY <1>1, <1>2, <1>3, <1>4, <1>6, <2>1, <2>2
<1> QED
  BY <1>5, <1>6

LEMMA SegmentMade ==
  ASSUME MarketInv, NEW i \in Segments, NEW size \in Nat, CreateSegment(i, size) PROVE MarketInv'
<1>1. PICK s, t, m, g, n : /\ s = segmentsMade /\ t = Append(s, i) /\ m = segments
                           /\ g = [size |-> size, listed |-> 0, share |-> <<>>] /\ n = With(m, i, g)
  OBVIOUS
<1>2. /\ segmentsMade' = t /\ segments' = n /\ totalSize' = totalSize + size
      /\ UNCHANGED <<profiles, moves>>
  BY <1>1 DEF CreateSegment
<1>3. SegmentOK(g) /\ g.size = size
  <2>1. DOMAIN g = {"size", "listed", "share"} /\ g.size = size /\ g.listed = 0 /\ DOMAIN g.share = {}
    BY <1>1
  <2> QED
    BY <2>1, FS_EmptySet DEF SegmentOK
<1>4. DOMAIN n = DOMAIN m \cup {i} /\ n[i] = g /\ \A x \in DOMAIN m : x # i => n[x] = m[x]
  BY <1>1 DEF With
<1>5. /\ s \in Seq(Segments) /\ DOMAIN m = Range(s) /\ IsFiniteSet(DOMAIN m)
      /\ (\A x \in DOMAIN m : SegmentOK(m[x])) /\ totalSize \in Nat
      /\ totalSize >= SumOf(DOMAIN m, Sizes(m)) /\ (IsInjective(s) => totalSize = SumOf(DOMAIN m, Sizes(m)))
  BY <1>1 DEF MarketInv
<1>6. \A x \in DOMAIN m : m[x].size \in Nat
  BY <1>5 DEF SegmentOK
<1>7. /\ i \notin DOMAIN m => SumOf(DOMAIN n, Sizes(n)) = SumOf(DOMAIN m, Sizes(m)) + size
      /\ SumOf(DOMAIN n, Sizes(n)) <= SumOf(DOMAIN m, Sizes(m)) + size
      /\ SumOf(DOMAIN n, Sizes(n)) \in Int /\ IsFiniteSet(DOMAIN n)
  BY <1>3, <1>4, <1>5, <1>6, SizeAdded
<1>8. SumOf(DOMAIN m, Sizes(m)) \in Int
  BY <1>5, <1>6, SizesAre
<1>9. t \in Seq(Segments) /\ Range(t) = Range(s) \cup {i}
  BY <1>1, <1>5, Appended
<1>10. \A x \in DOMAIN n : SegmentOK(n[x])
  BY <1>3, <1>4, <1>5
<1>11. IsInjective(t) => totalSize' = SumOf(DOMAIN n, Sizes(n))
  <2>1. SUFFICES ASSUME IsInjective(t) PROVE totalSize' = SumOf(DOMAIN n, Sizes(n))
    OBVIOUS
  <2>2. /\ Len(s) \in Nat /\ DOMAIN s = 1..Len(s) /\ DOMAIN t = 1..(Len(s) + 1)
        /\ (\A k \in 1..Len(s) : t[k] = s[k]) /\ t[Len(s) + 1] = i
    BY <1>1, <1>5, Appended
  <2>3. IsInjective(s)
    BY <2>1, <2>2 DEF IsInjective
  <2>4. i \notin Range(s)
    <3>1. SUFFICES ASSUME NEW k \in DOMAIN s, s[k] = i PROVE FALSE
      BY DEF Range
    <3>2. k \in DOMAIN t /\ Len(s) + 1 \in DOMAIN t /\ t[k] = t[Len(s) + 1] /\ k # Len(s) + 1
      BY <2>2, <3>1
    <3> QED
      BY <2>1, <3>2 DEF IsInjective
  <2> QED
    BY <1>2, <1>5, <1>7, <1>8, <2>3, <2>4
<1>12. totalSize' \in Nat /\ totalSize' >= SumOf(DOMAIN n, Sizes(n))
  BY <1>2, <1>5, <1>7, <1>8
<1>13. DOMAIN n = Range(t)
  BY <1>4, <1>5, <1>9
<1> QED
  BY <1>2, <1>7, <1>9, <1>10, <1>11, <1>12, <1>13 DEF MarketInv

LEMMA CompetitorAdded ==
  ASSUME MarketInv, NEW i, NEW c, NEW share, AddCompetitor(i, c, share) PROVE MarketInv'
<1>1. PICK m, g, h : /\ m = segments /\ g = segments[i]
                     /\ h = [g EXCEPT !.listed = g.listed + 1, !.share = With(g.share, c, share)]
  OBVIOUS
<1>2. /\ i \in DOMAIN m /\ segments' = [m EXCEPT ![i] = h]
      /\ UNCHANGED <<totalSize, segmentsMade, profiles, moves>>
  BY <1>1 DEF AddCompetitor
<1>3. SegmentOK(g)
  BY <1>1, <1>2 DEF MarketInv
<1>4. /\ DOMAIN h = {"size", "listed", "share"} /\ h.size = g.size /\ h.listed = g.listed + 1
      /\ h.share = With(g.share, c, share)
  BY <1>1, <1>3 DEF SegmentOK
<1>5. SegmentOK(h)
  <2>1. PICK D : D = DOMAIN g.share
    OBVIOUS
  <2>2. DOMAIN h.share = D \cup {c}
    BY <1>4, <2>1 DEF With
  <2>3. IsFiniteSet(D) /\ Cardinality(D) \in Nat /\ g.listed \in Nat /\ Cardinality(D) <= g.listed
    BY <1>3, <2>1, FS_CardinalityType DEF SegmentOK
  <2>4. IsFiniteSet(D \cup {c}) /\ Cardinality(D \cup {c}) <= Cardinality(D) + 1 /\ Cardinality(D \cup {c}) \in Nat
    BY <2>3, FS_AddElement
  <2> QED
    BY <1>3, <1>4, <2>2, <2>3, <2>4 DEF SegmentOK
<1>6. PICK n : n = segments'
  OBVIOUS
<1>7. DOMAIN n = DOMAIN m /\ n[i] = h /\ \A x \in DOMAIN m : x # i => n[x] = m[x]
  BY <1>2, <1>6
<1>8. Sizes(n) = Sizes(m)
  BY <1>1, <1>4, <1>7 DEF Sizes
<1>9. \A x \in DOMAIN n : SegmentOK(n[x])
  BY <1>1, <1>5, <1>7 DEF MarketInv
<1> QED
  BY <1>1, <1>2, <1>6, <1>7, <1>8, <1>9 DEF MarketInv

LEMMA OwnMoves ==
  ASSUME NEW s \in Seq(Competitors), NEW c \in Competitors, NEW d
  PROVE  /\ Own(s, d) \in Nat
         /\ Own(Append(s, c), d) = Own(s, d) + (IF c = d THEN 1 ELSE 0)
<1>1. PICK P : P = {d}
  OBVIOUS
<1>2. Only(Append(s, c), P) = IF c \in P THEN Append(Only(s, P), c) ELSE Only(s, P)
  BY OnlyAppended
<1>3. Only(s, P) \in Seq(Competitors)
  BY OnlyLeaves
<1>4. PICK o : o = Only(s, P)
  OBVIOUS
<1>5. Len(o) \in Nat /\ Len(Append(o, c)) = Len(o) + 1
  BY <1>3, <1>4, Appended, ListDomain
<1>6. CASE c = d
  BY <1>1, <1>2, <1>4, <1>5, <1>6 DEF Own
<1>7. CASE c # d
  BY <1>1, <1>2, <1>4, <1>5, <1>7 DEF Own
<1> QED
  BY <1>6, <1>7

LEMMA CompetitorRegistered ==
  ASSUME MarketInv, NEW c, NEW share, NEW position, RegisterCompetitor(c, share, position) PROVE MarketInv'
<1>1. PICK p : p = [share |-> share, position |-> position, activities |-> 0, threat |-> 0]
  OBVIOUS
<1>2. profiles' = With(profiles, c, p) /\ UNCHANGED <<segments, totalSize, segmentsMade, moves>>
  BY <1>1 DEF RegisterCompetitor
<1>3. moves \in Seq(Competitors) /\ \A d \in DOMAIN profiles : ProfileOK(profiles[d], Own(moves, d))
  BY DEF MarketInv
<1>4. PICK o : o = Own(moves, c)
  OBVIOUS
<1>5. o \in Nat
  BY <1>3, <1>4, OnlyLength DEF Own
<1>6. ProfileOK(p, o)
  BY <1>1, <1>5 DEF ProfileOK
<1>7. ASSUME NEW d \in DOMAIN profiles' PROVE ProfileOK(profiles'[d], Own(moves, d))
  <2>1. CASE d = c
    BY <1>2, <1>4, <1>6, <2>1 DEF With
  <2>2. CASE d # c
    <3>1. d \in DOMAIN profiles /\ profiles'[d] = profiles[d]
      BY <1>2, <1>7, <2>2 DEF With
    <3> QED
      BY <1>3, <3>1
  <2> QED
    BY <2>1, <2>2
<1> QED
  BY <1>2, <1>7 DEF MarketInv

LEMMA MoveRecorded ==
  ASSUME MarketInv, NEW c \in Competitors, RecordMove(c) PROVE MarketInv'
<1>1. PICK s, t : s = moves /\ t = Append(moves, c)
  OBVIOUS
<1>2. moves' = t /\ UNCHANGED <<segments, totalSize, segmentsMade>>
  BY <1>1 DEF RecordMove
<1>3. s \in Seq(Competitors) /\ t \in Seq(Competitors)
        /\ \A d \in DOMAIN profiles : ProfileOK(profiles[d], Own(s, d))
  BY <1>1, Appended DEF MarketInv
<1>4. \A d : /\ Own(s, d) \in Nat
             /\ Own(t, d) = Own(s, d) + (IF c = d THEN 1 ELSE 0)
  BY <1>1, <1>3, OwnMoves
<1>5. ASSUME NEW d \in DOMAIN profiles, c # d PROVE ProfileOK(profiles[d], Own(t, d))
  <2>1. Own(t, d) = Own(s, d)
    BY <1>4, <1>5
  <2> QED
    BY <1>3, <2>1
<1>6. CASE c \notin DOMAIN profiles
  <2>1. profiles' = profiles
    BY <1>6 DEF RecordMove
  <2> QED
    BY <1>2, <1>3, <1>5, <1>6, <2>1 DEF MarketInv
<1>7. CASE c \in DOMAIN profiles
  <2>1. PICK q, p, r : /\ q = profiles[c] /\ p = [q EXCEPT !.activities = q.activities + 1]
                       /\ r = [p EXCEPT !.threat = ThreatLevel(p)]
    OBVIOUS
  <2>2. profiles' = [profiles EXCEPT ![c] = r]
    BY <1>7, <2>1 DEF RecordMove
  <2>3. ProfileOK(q, Own(s, c))
    BY <1>3, <1>7, <2>1
  <2>4. /\ DOMAIN r = {"share", "position", "activities", "threat"} /\ r.activities = q.activities + 1
        /\ r.threat = ThreatLevel(p) /\ r.share = p.share /\ r.position = p.position /\ r.activities = p.activities
    BY <2>1, <2>3 DEF ProfileOK
  <2>5. ThreatLevel(r) = ThreatLevel(p)
    BY <2>4 DEF ThreatLevel
  <2>6. Own(t, c) = Own(s, c) + 1 /\ Own(s, c) \in Nat
    BY <1>4
  <2>7. ProfileOK(r, Own(t, c))
    BY <2>3, <2>4, <2>5, <2>6 DEF ProfileOK
  <2>8. \A d \in DOMAIN profiles' : ProfileOK(profiles'[d], Own(t, d))
    BY <1>5, <1>7, <2>2, <2>7
  <2> QED
    BY <1>2, <1>3, <2>8 DEF MarketInv
<1> QED
  BY <1>6, <1>7

LEMMA MarketSteps ==
  ASSUME MarketInv, [MarketNext]_marketVars PROVE MarketInv'
<1>1. ASSUME NEW i \in Segments, NEW size \in Shares, CreateSegment(i, size) PROVE MarketInv'
  <2>1. size \in Nat
    BY LearningAssumption
  <2> QED
    BY <1>1, <2>1, SegmentMade
<1>2. ASSUME NEW i, NEW c, NEW share, AddCompetitor(i, c, share) PROVE MarketInv'
  BY <1>2, CompetitorAdded
<1>3. ASSUME NEW c, NEW share, NEW p, RegisterCompetitor(c, share, p) PROVE MarketInv'
  BY <1>3, CompetitorRegistered
<1>4. ASSUME NEW c \in Competitors, RecordMove(c) PROVE MarketInv'
  BY <1>4, MoveRecorded
<1>5. CASE UNCHANGED marketVars
  <2>1. UNCHANGED <<segments, totalSize, segmentsMade, profiles, moves>>
    BY <1>5 DEF marketVars
  <2> QED
    BY <2>1 DEF MarketInv
<1> QED
  BY <1>1, <1>2, <1>3, <1>4, <1>5 DEF MarketNext

LEMMA MarketTyped == MarketInv => MarketAddsUp
<1> SUFFICES ASSUME MarketInv PROVE MarketAddsUp
  OBVIOUS
<1>1. \A i \in DOMAIN segments : segments[i].size \in Nat /\ Cardinality(DOMAIN segments[i].share) <= segments[i].listed
  BY DEF MarketInv, SegmentOK
<1>2. FoldFunction(LAMBDA x, sum : sum + x, 0, [i \in DOMAIN segments |-> segments[i].size])
        = SumOf(DOMAIN segments, Sizes(segments))
  BY <1>1, SizesAre DEF MarketInv
<1>3. \A c \in DOMAIN profiles :
        /\ profiles[c].activities <= Own(moves, c)
        /\ profiles[c].threat = IF profiles[c].activities = 0 THEN 0 ELSE ThreatLevel(profiles[c])
  BY DEF MarketInv, ProfileOK
<1> QED
  BY <1>1, <1>2, <1>3, Zenon DEF MarketInv, MarketAddsUp, Own
=============================================================================
