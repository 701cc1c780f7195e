---------------------------- MODULE Guards_proofs ----------------------------
(***************************************************************************)
(* Proofs about Guards: every guard keeps its part of GuardsInv, and the   *)
(* guards share no state. Of each part: limits and quotas (LimitsInv), the *)
(* audit log, the roles and the tokens (SecurityInv), the middleware       *)
(* (RequestsInv), consents, requirements and configuration                 *)
(* (ComplianceInv), and the MultiTierCache (CacheInv).                     *)
(***************************************************************************)
EXTENDS Guards, Lemmas, FiniteSetTheorems

(***************************************************************************)
(* Limits and quotas.                                                      *)
(***************************************************************************)
W(log, a, b) == {g \in log : a <= g[1] /\ g[1] <= b}

(* A log with all its grants of one interval among those of another's.     *)
LEMMA Fewer ==
  ASSUME NEW l, NEW m, IsFiniteSet(m), NEW a, NEW b, NEW c, NEW d, W(l, a, b) \subseteq W(m, c, d)
  PROVE  /\ Granted(l, a, b) <= Granted(m, c, d)
         /\ Granted(l, a, b) \in Nat /\ Granted(m, c, d) \in Nat
<1>1. W(m, c, d) \subseteq m
  BY DEF W
<1>2. IsFiniteSet(W(m, c, d))
  BY <1>1, FS_Subset
<1>3. IsFiniteSet(W(l, a, b)) /\ Cardinality(W(l, a, b)) <= Cardinality(W(m, c, d))
  BY <1>2, FS_Subset
<1>4. Cardinality(W(l, a, b)) \in Nat /\ Cardinality(W(m, c, d)) \in Nat
  BY <1>2, <1>3, FS_CardinalityType
<1>5. Granted(l, a, b) = Cardinality(W(l, a, b)) /\ Granted(m, c, d) = Cardinality(W(m, c, d))
  BY DEF Granted, W
<1> QED
  BY <1>3, <1>4, <1>5

LEMMA SameCount ==
  ASSUME NEW l, NEW m, NEW a, NEW b, NEW c, NEW d, W(l, a, b) = W(m, c, d)
  PROVE  Granted(l, a, b) = Granted(m, c, d)
BY DEF W, Granted

LEMMA CountIsNat ==
  ASSUME NEW l, IsFiniteSet(l), NEW a, NEW b
  PROVE  Granted(l, a, b) \in Nat
BY Fewer

(* One grant more.                                                         *)
LEMMA OneMore ==
  ASSUME NEW l, IsFiniteSet(l), NEW e, NEW a, NEW b
  PROVE  /\ Granted(l \cup {e}, a, b) <= Granted(l, a, b) + 1
         /\ ~(a <= e[1] /\ e[1] <= b) => Granted(l \cup {e}, a, b) = Granted(l, a, b)
         /\ Granted(l \cup {e}, a, b) \in Nat /\ Granted(l, a, b) \in Nat
<1>1. IsFiniteSet(l \cup {e})
  BY FS_AddElement
<1>2. Granted(l \cup {e}, a, b) \in Nat /\ Granted(l, a, b) \in Nat
  BY <1>1, CountIsNat
<1>3. CASE ~(a <= e[1] /\ e[1] <= b)
  <2>1. W(l \cup {e}, a, b) = W(l, a, b)
    BY <1>3 DEF W
  <2> QED
    BY <1>2, <2>1, SameCount
<1>4. CASE a <= e[1] /\ e[1] <= b
  <2>1. W(l \cup {e}, a, b) = W(l, a, b) \cup {e} /\ W(l, a, b) \subseteq l
    BY <1>4 DEF W
  <2>2. IsFiniteSet(W(l, a, b))
    BY <2>1, FS_Subset
  <2>3. Cardinality(W(l, a, b) \cup {e}) <= Cardinality(W(l, a, b)) + 1
    <3>1. Cardinality(W(l, a, b)) \in Nat
      BY <2>2, FS_CardinalityType
    <3> DEFINE S == W(l, a, b)
    <3>2. Cardinality(S \cup {e}) = IF e \in S THEN Cardinality(S) ELSE Cardinality(S) + 1
      BY <2>2, FS_AddElement
    <3> HIDE DEF S
    <3>3. Cardinality(S \cup {e}) <= Cardinality(S) + 1
      BY <3>1, <3>2 DEF S
    <3> QED
      BY <3>3 DEF S
  <2> QED
    BY <1>2, <1>4, <2>1, <2>3 DEF Granted, W
<1> QED
  BY <1>3, <1>4

(* A log that has pairs of bounded numbers only is finite.                 *)
LEMMA LogFinite ==
  ASSUME NEW n \in Nat, NEW m \in Nat, NEW l, l \subseteq (0..n) \X (1..m)
  PROVE  IsFiniteSet(l) /\ \A g \in l : g[1] \in 0..n /\ g[2] \in 1..m
<1>1. IsFiniteSet((0..n) \X (1..m))
  <2>1. IsFiniteSet(0..n) /\ IsFiniteSet(1..m)
    BY FS_Interval
  <2> QED
    BY <2>1, FS_Product
<1> QED
  BY <1>1, FS_Subset

(* The refill, without its Min.                                            *)
LEMMA RefilledIs ==
  ASSUME tokens \in Nat, now \in Nat, lastRefill \in 0..now
  PROVE  /\ (now - lastRefill) * Rate \in Nat /\ Refilled \in 0..Capacity
         /\ Refilled <= tokens + (now - lastRefill) * Rate
<1>1. Rate \in Nat /\ Capacity \in Nat /\ now - lastRefill \in Nat
  BY LimiterAssumption DEF LimiterAssumption, Rate, Capacity, Cost
<1>2. (now - lastRefill) * Rate \in Nat
  BY <1>1
<1>3. PICK r : r = tokens + (now - lastRefill) * Rate
  OBVIOUS
<1>4. r \in Nat /\ Refilled = Min({Capacity, r})
  BY <1>2, <1>3 DEF Refilled
<1>5. Refilled = IF Capacity <= r THEN Capacity ELSE r
  BY <1>1, <1>4 DEF Min
<1> QED
  BY <1>1, <1>2, <1>3, <1>4, <1>5

LEMMA Multiples ==
  ASSUME NEW k \in Int, NEW m \in Int, NEW r \in Nat
  PROVE  /\ (k + m) * r = k * r + m * r /\ k * r \in Int /\ m * r \in Int
         /\ k <= m => k * r <= m * r
<1>1. (k + m) * r = k * r + m * r /\ k * r \in Int /\ m * r \in Int
  OBVIOUS
<1>2. ASSUME k <= m PROVE k * r <= m * r
  <2>1. (m - k) * r \in Nat /\ m - k \in Nat
    BY <1>2
  <2>2. m * r = (m - k) * r + k * r
    OBVIOUS
  <2> QED
    BY <1>1, <2>1, <2>2
<1> QED
  BY <1>1, <1>2

(* The limits' finite logs.                                                *)
LEMMA LogShapes ==
  ASSUME LogsOK
  PROVE  /\ IsFiniteSet(secondLog) /\ IsFiniteSet(minuteLog) /\ IsFiniteSet(times) /\ IsFiniteSet(acceptedLog)
         /\ \A g \in secondLog : g[1] \in 0..now /\ g[2] \in 1..MaxPerTick
         /\ \A g \in minuteLog : g[1] \in 0..now /\ g[2] \in 1..MaxPerTick
         /\ \A g \in times : g[1] \in 0..now /\ g[2] \in 1..MaxPerTick
         /\ now \in Nat /\ asked \in Nat /\ MaxPerTick \in Nat /\ MaxTime \in Nat
<1>1. now \in Nat /\ asked \in Nat /\ MaxPerTick \in Nat /\ MaxTime \in Nat
  BY LimiterAssumption DEF LimiterAssumption, LogsOK
<1>2. /\ secondLog \subseteq (0..now) \X (1..MaxPerTick) /\ minuteLog \subseteq (0..now) \X (1..MaxPerTick)
      /\ times \subseteq (0..now) \X (1..MaxPerTick) /\ acceptedLog \subseteq secondLog
  BY DEF LogsOK
<1>3. IsFiniteSet(secondLog) /\ \A g \in secondLog : g[1] \in 0..now /\ g[2] \in 1..MaxPerTick
  BY <1>1, <1>2, LogFinite
<1>4. IsFiniteSet(minuteLog) /\ \A g \in minuteLog : g[1] \in 0..now /\ g[2] \in 1..MaxPerTick
  BY <1>1, <1>2, LogFinite
<1>5. IsFiniteSet(times) /\ \A g \in times : g[1] \in 0..now /\ g[2] \in 1..MaxPerTick
  BY <1>1, <1>2, LogFinite
<1>6. IsFiniteSet(acceptedLog)
  BY <1>2, <1>3, FS_Subset
<1> QED
  BY <1>1, <1>3, <1>4, <1>5, <1>6

(* What a check appends is new, and the logs keep their shape.             *)
LEMMA CheckKeepsLogs ==
  ASSUME LogsOK, CheckLimit
  PROVE  LogsOK'
<1> DEFINE e == <<now, asked + 1>>
           Places == (0..now) \X (1..MaxPerTick)
<1>1. /\ now \in Nat /\ asked \in Nat /\ MaxPerTick \in Nat /\ asked < MaxPerTick
      /\ now' = now /\ asked' = asked + 1 /\ now \in 0..MaxTime
  BY LogShapes DEF LogsOK, CheckLimit, Ask
<1>2. e \in Places /\ e[1] = now' /\ e[2] = asked'
  BY <1>1
<1>3. /\ secondLog' \in {secondLog, secondLog \cup {e}} /\ minuteLog' \in {minuteLog, minuteLog \cup {e}}
      /\ times' \in {Retained, Retained \cup {e}} /\ Retained \subseteq times
  BY DEF CheckLimit, LogIf, Retained
<1>4. acceptedLog' \subseteq secondLog' \cap minuteLog'
  <2>1. acceptedLog \subseteq secondLog \cap minuteLog
    BY DEF LogsOK
  <2> QED
    BY <2>1 DEF CheckLimit, LogIf
<1> DEFINE all == secondLog \cup minuteLog \cup times
<1>5. all' \subseteq all \cup {e}
  BY <1>3
<1>6. all \subseteq Places /\ \A g \in all : g[1] = now => g[2] <= asked
  BY DEF LogsOK
<1>7. \A g \in all : g[2] \in Nat
  BY <1>6
<1> HIDE DEF all, e
<1>8. all' \subseteq Places /\ \A g \in all' : g[1] = now' => g[2] <= asked'
  BY <1>1, <1>2, <1>5, <1>6, <1>7
<1> QED
  BY <1>1, <1>4, <1>8 DEF LogsOK, all

(* What the bucket has granted since an instant and what it holds.         *)
LEMMA CheckKeepsBucket ==
  ASSUME LogsOK, BucketInv, BucketEnvelope, CheckLimit
  PROVE  BucketInv' /\ BucketEnvelope'
<1> DEFINE e == <<now, asked + 1>>
<1>1. /\ now \in Nat /\ lastRefill \in 0..now /\ tokens \in Nat /\ tokens <= Capacity
      /\ Capacity \in Nat /\ Cost \in Nat /\ Rate \in Nat /\ Cost > 0
      /\ now' = now /\ lastRefill' = now /\ IsFiniteSet(secondLog)
  <2>1. Capacity \in Nat /\ Cost \in Nat /\ Rate \in Nat /\ Cost > 0
    BY LimiterAssumption DEF LimiterAssumption, Capacity, Cost, Rate
  <2> QED
    BY <2>1, LogShapes DEF BucketInv, CheckLimit, Ask
<1>2. /\ (now - lastRefill) * Rate \in Nat /\ Refilled \in 0..Capacity
      /\ Refilled <= tokens + (now - lastRefill) * Rate
  BY <1>1, RefilledIs
<1>3. \/ Refilled >= Cost /\ tokens' = Refilled - Cost /\ secondLog' = secondLog \cup {e}
      \/ Refilled < Cost /\ tokens' = Refilled /\ secondLog' = secondLog
  BY <1>1, <1>2 DEF CheckLimit, LogIf
<1>4. tokens' \in 0..Capacity
  BY <1>1, <1>2, <1>3
<1>5. \A g \in secondLog' : g[1] <= now
  <2>1. \A g \in secondLog : g[1] \in 0..now
    BY LogShapes
  <2> QED
    BY <1>1, <1>3, <2>1
<1>6. ASSUME NEW a \in 0..now
      PROVE  Granted(secondLog', a, now) * Cost + tokens' <= Capacity + (now - a) * Rate
  <2>1. PICK n, m : n = Granted(secondLog, a, now) /\ m = Granted(secondLog', a, now)
    OBVIOUS
  <2>2. /\ n \in Nat /\ m \in Nat
        /\ \/ m <= n + 1 /\ tokens' = Refilled - Cost
           \/ m = n /\ tokens' = Refilled
    BY <1>1, <1>3, <2>1, OneMore, CountIsNat
  <2>3. m * Cost + tokens' <= n * Cost + Refilled /\ n * Cost \in Nat /\ m * Cost \in Nat
    <3>1. (n + 1) * Cost = n * Cost + Cost /\ n * Cost \in Nat /\ m * Cost \in Nat
      BY <1>1, <2>2
    <3>2. m <= n + 1 => m * Cost <= (n + 1) * Cost
      BY <1>1, <2>2, Multiples
    <3> QED
      BY <1>1, <1>2, <2>2, <3>1, <3>2
  <2>4. (now - a) * Rate \in Nat
    BY <1>1
  <2>5. CASE a <= lastRefill
    <3>1. n * Cost + tokens <= Capacity + (lastRefill - a) * Rate
      BY <1>1, <2>1, <2>5 DEF BucketInv
    <3>2. (now - a) * Rate = (now - lastRefill) * Rate + (lastRefill - a) * Rate /\ (lastRefill - a) * Rate \in Int
      <4>1. now - a = (now - lastRefill) + (lastRefill - a)
        BY <1>1
      <4> QED
        BY <1>1, <4>1, Multiples
    <3> QED
      BY <1>1, <1>2, <1>4, <2>1, <2>3, <2>4, <3>1, <3>2
  <2>6. CASE a > lastRefill
    <3>1. W(secondLog, a, now) = {}
      <4>1. \A g \in secondLog : g[1] <= lastRefill /\ g[1] \in 0..now
        BY LogShapes DEF BucketInv
      <4> QED
        BY <1>1, <2>6, <4>1 DEF W
    <3>2. n = 0
      BY <2>1, <3>1, FS_EmptySet DEF W, Granted
    <3>3. n * Cost = 0
      BY <1>1, <3>2
    <3> QED
      BY <1>1, <1>2, <1>4, <2>1, <2>3, <2>4, <3>3
  <2> QED
    BY <1>1, <2>5, <2>6
<1>7. BucketInv'
  BY <1>1, <1>4, <1>5, <1>6 DEF BucketInv, Capacity, Cost, Rate, Granted
<1>8. ASSUME NEW a \in 0..now, NEW b \in 0..now, a <= b
      PROVE  Granted(secondLog', a, b) * Cost <= Capacity + (b - a) * Rate
  <2>1. CASE b = now
    <3>1. Granted(secondLog', a, now) * Cost \in Int /\ (now - a) * Rate \in Int
      <4>1. Granted(secondLog', a, now) \in Nat
        BY <1>1, <1>3, OneMore, CountIsNat
      <4> QED
        BY <1>1, <4>1
    <3> QED
      BY <1>1, <1>4, <1>6, <2>1, <3>1
  <2>2. CASE b < now
    <3>1. ~(a <= e[1] /\ e[1] <= b)
      BY <1>1, <2>2
    <3> HIDE DEF e
    <3>2. Granted(secondLog', a, b) = Granted(secondLog, a, b)
      BY <1>1, <1>3, <3>1, OneMore
    <3> QED
      BY <1>8, <3>2 DEF BucketEnvelope
  <2> QED
    BY <1>1, <2>1, <2>2
<1>9. BucketEnvelope'
  BY <1>1, <1>8 DEF BucketEnvelope, Capacity, Cost, Rate, Granted
<1> QED
  BY <1>7, <1>9

(* The window lets one in only where there is room for it.                 *)
LEMMA CheckKeepsWindow ==
  ASSUME LogsOK, WindowInv, MinuteEnvelope, CheckLimit
  PROVE  WindowInv' /\ MinuteEnvelope'
<1> DEFINE e == <<now, asked + 1>>
<1>1. /\ now \in Nat /\ now' = now /\ IsFiniteSet(minuteLog) /\ IsFiniteSet(times)
      /\ Minute \in Nat /\ Minute > 0 /\ PerMinute \in Nat
      /\ \A g \in minuteLog : g[1] \in 0..now
  <2>1. Minute \in Nat /\ Minute > 0 /\ PerMinute \in Nat
    BY LimiterAssumption DEF LimiterAssumption
  <2> QED
    BY <2>1, LogShapes DEF CheckLimit, Ask
<1>2. IsFiniteSet(Retained) /\ Cardinality(Retained) \in Nat
  <2>1. Retained \subseteq times
    BY DEF Retained
  <2> QED
    BY <1>1, <2>1, FS_Subset, FS_CardinalityType
<1>3. \/ /\ Cardinality(Retained) < PerMinute
         /\ minuteLog' = minuteLog \cup {e} /\ times' = Retained \cup {e}
      \/ minuteLog' = minuteLog /\ times' = Retained
  BY DEF CheckLimit, LogIf
<1>4. WindowInv'
  <2>1. ASSUME NEW g \in minuteLog', g[1] + Minute > now PROVE g \in times'
    BY <1>3, <2>1 DEF WindowInv, Retained
  <2> QED
    BY <1>1, <2>1 DEF WindowInv
<1>5. ASSUME NEW a \in 0..now PROVE Granted(minuteLog', a, a + Minute - 1) <= PerMinute
  <2>1. Granted(minuteLog, a, a + Minute - 1) <= PerMinute /\ Granted(minuteLog, a, a + Minute - 1) \in Nat
    BY <1>1, CountIsNat DEF MinuteEnvelope
  <2>2. CASE minuteLog' = minuteLog
    BY <2>1, <2>2
  <2>3. CASE a + Minute - 1 < now /\ minuteLog' = minuteLog \cup {e}
    <3>1. PICK b : b = a + Minute - 1
      OBVIOUS
    <3>2. ~(a <= e[1] /\ e[1] <= b)
      BY <1>1, <2>3, <3>1
    <3>3. Granted(minuteLog \cup {e}, a, b) = Granted(minuteLog, a, b)
      <4> HIDE DEF e
      <4> QED
        BY <1>1, <3>2, OneMore
    <3> QED
      BY <2>1, <2>3, <3>1, <3>3
  <2>4. CASE /\ a + Minute - 1 >= now /\ minuteLog' = minuteLog \cup {e}
             /\ Cardinality(Retained) < PerMinute
    <3>1. W(minuteLog, a, a + Minute - 1) \subseteq Retained
      BY <1>1, <2>4 DEF W, Retained, WindowInv
    <3>2. Granted(minuteLog, a, a + Minute - 1) <= Cardinality(Retained)
      BY <1>2, <3>1, FS_Subset DEF W, Granted
    <3>3. Granted(minuteLog', a, a + Minute - 1) <= Granted(minuteLog, a, a + Minute - 1) + 1
          /\ Granted(minuteLog', a, a + Minute - 1) \in Nat
      BY <1>1, <2>4, OneMore
    <3> QED
      BY <1>1, <1>2, <2>1, <2>4, <3>2, <3>3
  <2> QED
    BY <1>1, <1>3, <2>2, <2>3, <2>4
<1>6. MinuteEnvelope'
  BY <1>1, <1>5 DEF MinuteEnvelope, Granted
<1> QED
  BY <1>4, <1>6

LEMMA NothingGranted ==
  ASSUME NEW l, NEW a, NEW b, W(l, a, b) = {}
  PROVE  Granted(l, a, b) = 0
BY FS_EmptySet DEF W, Granted

(* An interval that falls in two.                                          *)
LEMMA Halves ==
  ASSUME NEW l, IsFiniteSet(l), \A g \in l : g[1] \in Int, NEW a \in Int, NEW s \in Int, NEW b \in Int
  PROVE  Granted(l, a, b) <= Granted(l, a, s - 1) + Granted(l, s, b)
<1> DEFINE L == W(l, a, s - 1)
           R == W(l, s, b)
<1>1. W(l, a, b) \subseteq L \cup R
  BY DEF W
<1>2. L \subseteq l /\ R \subseteq l
  BY DEF W
<1>3. IsFiniteSet(L) /\ IsFiniteSet(R) /\ IsFiniteSet(L \cap R) /\ IsFiniteSet(L \cup R)
  <2>1. IsFiniteSet(L) /\ IsFiniteSet(R)
    BY <1>2, FS_Subset
  <2> QED
    BY <2>1, FS_Intersection, FS_Union
<1>4. Cardinality(L \cup R) = Cardinality(L) + Cardinality(R) - Cardinality(L \cap R)
  BY <1>3, FS_Union
<1>5. Cardinality(W(l, a, b)) <= Cardinality(L \cup R) /\ IsFiniteSet(W(l, a, b))
  BY <1>1, <1>3, FS_Subset
<1>6. /\ Cardinality(L) \in Nat /\ Cardinality(R) \in Nat /\ Cardinality(L \cap R) \in Nat
      /\ Cardinality(L \cup R) \in Nat /\ Cardinality(W(l, a, b)) \in Nat
  BY <1>3, <1>5, FS_CardinalityType
<1>7. /\ Granted(l, a, b) = Cardinality(W(l, a, b)) /\ Granted(l, a, s - 1) = Cardinality(L)
      /\ Granted(l, s, b) = Cardinality(R)
  BY DEF Granted, W
<1> QED
  BY <1>4, <1>5, <1>6, <1>7

LEMMA Quotient ==
  ASSUME NEW d \in Nat, NEW p \in Nat \ {0}
  PROVE  d \div p \in Nat /\ d \div p <= d /\ d < (d \div p + 1) * p
<1>1. PICK q : q = d \div p
  OBVIOUS
<1>2. q \in Nat /\ q * p <= d /\ d < q * p + p
  BY <1>1
<1>3. (q + 1) * p = q * p + p
  BY <1>2
<1>4. q <= q * p
  BY <1>2
<1> QED
  BY <1>1, <1>2, <1>3, <1>4

(* The periods before the current one and the current one.                 *)
LEMMA PeriodsAdd ==
  ASSUME NEW n \in 0..MaxTime, NEW l, l \subseteq (0..n) \X (1..MaxUsage),
         NEW s \in 0..n, NEW u \in 0..MaxUsage, u = Granted(l, s, n),
         \A a \in 0..s, k \in 0..(MaxTime + 1) : s - a <= k * Period => Granted(l, a, s - 1) <= k * MaxUsage,
         NEW a \in 0..n
  PROVE  Granted(l, a, n) <= ((n - a) \div Period + 2) * MaxUsage
<1>1. MaxTime \in Nat /\ MaxUsage \in Nat /\ Period \in Nat \ {0}
  BY LimiterAssumption DEF LimiterAssumption
<1>2. n \in Nat /\ s \in Nat /\ a \in Nat /\ n - a \in Nat
  BY <1>1
<1>3. IsFiniteSet(l) /\ \A g \in l : g[1] \in Int
  BY <1>1, <1>2, LogFinite
<1>4. PICK q : q = (n - a) \div Period
  OBVIOUS
<1>5. q \in Nat /\ q <= n - a /\ n - a < (q + 1) * Period
  BY <1>1, <1>2, <1>4, Quotient
<1>6. (q + 2) * MaxUsage = (q + 1) * MaxUsage + MaxUsage /\ (q + 1) * MaxUsage \in Nat
  BY <1>1, <1>5
<1>7. /\ Granted(l, a, n) \in Nat /\ Granted(l, s, n) \in Nat /\ Granted(l, a, s - 1) \in Nat
  BY <1>3, CountIsNat
<1>8. CASE a <= s
  <2>1. q + 1 \in 0..(MaxTime + 1) /\ s - a <= (q + 1) * Period /\ a \in 0..s
    <3>1. (q + 1) * Period \in Int
      BY <1>1, <1>5
    <3> QED
      BY <1>1, <1>2, <1>5, <1>8, <3>1
  <2>2. Granted(l, a, s - 1) <= (q + 1) * MaxUsage
    BY <2>1
  <2>3. Granted(l, a, n) <= Granted(l, a, s - 1) + Granted(l, s, n)
    BY <1>2, <1>3, Halves
  <2> QED
    BY <1>1, <1>4, <1>6, <1>7, <2>2, <2>3
<1>9. CASE a > s
  <2>1. W(l, a, n) \subseteq W(l, s, n)
    BY <1>2, <1>3, <1>9 DEF W
  <2>2. Granted(l, a, n) <= Granted(l, s, n)
    BY <1>3, <2>1, Fewer
  <2> QED
    BY <1>1, <1>4, <1>6, <1>7, <2>2
<1> QED
  BY <1>2, <1>8, <1>9

(* The quota's log is finite.                                              *)
LEMMA QuotaLogFinite ==
  ASSUME LogsOK, QuotaInv
  PROVE  /\ IsFiniteSet(quotaLog) /\ \A g \in quotaLog : g[1] \in 0..now /\ g[2] \in 1..MaxUsage
         /\ now \in Nat /\ MaxUsage \in Nat /\ Period \in Nat /\ Period > 0 /\ MaxTime \in Nat /\ start \in Nat
         /\ used \in Nat
<1>1. now \in Nat /\ MaxUsage \in Nat /\ Period \in Nat /\ Period > 0 /\ MaxTime \in Nat
  BY LimiterAssumption DEF LimiterAssumption, LogsOK
<1>2. quotaLog \subseteq (0..now) \X (1..MaxUsage) /\ start \in Nat /\ used \in Nat
  BY <1>1 DEF QuotaInv
<1> QED
  BY <1>1, <1>2, LogFinite

(* The shape of a step of consume: after a new period, or within the old.  *)
LEMMA ConsumeKeepsQuota ==
  ASSUME LogsOK, QuotaInv, LongRun, NEW amount \in Nat \ {0}, Consume(amount), now' = now, known' = known
  PROVE  QuotaInv' /\ LongRun'
<1>1. /\ IsFiniteSet(quotaLog) /\ \A g \in quotaLog : g[1] \in 0..now /\ g[2] \in 1..MaxUsage
      /\ now \in Nat /\ MaxUsage \in Nat /\ Period \in Nat /\ Period > 0 /\ MaxTime \in Nat /\ start \in Nat
      /\ used \in Nat /\ used <= MaxUsage /\ start <= now /\ start \in 0..now /\ now \in 0..MaxTime
      /\ known \in BOOLEAN /\ amount \in Nat /\ amount > 0
  BY QuotaLogFinite DEF QuotaInv, LogsOK
<1> DEFINE expired == now - start >= Period
<1>2. PICK before :
        /\ before = IF expired THEN 0 ELSE used
        /\ start' = IF expired THEN now ELSE start
        /\ \/ /\ before + amount <= MaxUsage /\ used' = before + amount
              /\ quotaLog' = quotaLog \cup ({now} \X (before + 1 .. before + amount))
           \/ used' = before /\ quotaLog' = quotaLog
  BY DEF Consume
<1>3. PICK U, n : /\ U \subseteq {now} \X (before + 1 .. before + n) /\ IsFiniteSet(U) /\ Cardinality(U) = n
                  /\ n \in Nat /\ before + n <= MaxUsage
                  /\ quotaLog' = quotaLog \cup U /\ used' = before + n
  <2>1. before \in Nat /\ before <= MaxUsage
    BY <1>1, <1>2
  <2>2. CASE used' = before /\ quotaLog' = quotaLog
    <3>1. {} \subseteq {now} \X (before + 1 .. before + 0) /\ IsFiniteSet({}) /\ Cardinality({}) = 0
      BY FS_EmptySet
    <3> QED
      BY <1>1, <2>1, <2>2, <3>1
  <2>3. CASE /\ before + amount <= MaxUsage /\ used' = before + amount
             /\ quotaLog' = quotaLog \cup ({now} \X (before + 1 .. before + amount))
    <3> DEFINE J == before + 1 .. before + amount
    <3>1. IsFiniteSet(J) /\ Cardinality(J) = amount
      <4>1. before + 1 \in Int /\ before + amount \in Int /\ ~(before + 1 > before + amount)
            /\ (before + amount) - (before + 1) + 1 = amount
        BY <1>1, <2>1
      <4> QED
        BY <4>1, FS_Interval
    <3>2. IsFiniteSet({now}) /\ Cardinality({now}) = 1
      BY FS_Singleton
    <3> HIDE DEF J
    <3>3. IsFiniteSet({now} \X J) /\ Cardinality({now} \X J) = 1 * amount
      BY <3>1, <3>2, FS_Product
    <3>4. 1 * amount = amount
      BY <1>1
    <3> QED
      BY <1>1, <2>3, <3>3, <3>4 DEF J
  <2> QED
    BY <1>2, <2>2, <2>3
<1>4. before \in Nat /\ \A g \in U : g[1] = now /\ g[2] \in 1..(before + n) /\ g[2] > before
  <2>1. before \in Nat
    BY <1>1, <1>2
  <2> QED
    BY <1>3, <2>1
<1>a. \A g \in U : g[1] = now
  BY <1>4
<1>5. ASSUME NEW g \in quotaLog, g[1] >= start' PROVE g[2] <= before /\ g[1] < start' + Period
  <2>1. g[1] \in 0..now /\ g[2] \in 1..MaxUsage
    BY <1>1
  <2>2. g[1] >= start => g[2] <= used /\ g[1] < start + Period
    BY DEF QuotaInv
  <2>3. CASE expired
    BY <1>1, <1>2, <1>5, <2>1, <2>2, <2>3
  <2>4. CASE ~expired
    BY <1>1, <1>2, <1>5, <2>1, <2>2, <2>4
  <2> QED
    BY <2>3, <2>4
<1>6. start' \in 0..now /\ start' \in Nat /\ now < start' + Period
  BY <1>1, <1>2
<1>7. \A g \in quotaLog' : g[1] >= start' => g[2] <= used' /\ g[1] < start' + Period
  <2>1. \A g \in quotaLog : g[2] \in Nat
    BY <1>1
  <2> QED
    BY <1>3, <1>4, <1>5, <1>6, <2>1
<1>8. quotaLog' \subseteq (0..now) \X (1..MaxUsage) /\ used' \in 0..MaxUsage
  <2>1. {now} \X (before + 1 .. before + n) \subseteq (0..now) \X (1..MaxUsage)
    BY <1>1, <1>3, <1>4
  <2>2. quotaLog \subseteq (0..now) \X (1..MaxUsage)
    BY DEF QuotaInv
  <2> QED
    BY <1>1, <1>3, <1>4, <2>1, <2>2
\* what the new period has granted
<1>9. before = Granted(quotaLog, start', now)
  <2>1. CASE expired
    <3>1. W(quotaLog, now, now) = {}
      <4>1. \A g \in quotaLog : g[1] \in 0..now /\ (g[1] >= start => g[1] < start + Period)
        BY <1>1 DEF QuotaInv
      <4> QED
        BY <1>1, <1>2, <2>1, <4>1 DEF W
    <3> QED
      BY <1>2, <2>1, <3>1, NothingGranted
  <2>2. CASE ~expired
    BY <1>2, <2>2 DEF LongRun
  <2> QED
    BY <2>1, <2>2
<1>10. used' = Granted(quotaLog', start', now)
  <2> DEFINE V == W(quotaLog, start', now)
  <2>1. V \cap U = {}
    <3>1. \A g \in V : g \in quotaLog /\ g[1] >= start'
      BY DEF W
    <3>2. \A g \in V : g[2] <= before /\ g[2] \in Nat
      BY <1>1, <1>5, <3>1
    <3> QED
      BY <1>4, <3>2
  <2>2. W(quotaLog', start', now) = V \cup U
    <3>1. start' <= now
      BY <1>6, <1>1
    <3> QED
      BY <1>1, <1>3, <1>4, <3>1 DEF W
  <2>3. IsFiniteSet(V) /\ Cardinality(V) = before
    <3>1. V \subseteq quotaLog
      BY DEF W
    <3> QED
      BY <1>1, <1>9, <3>1, FS_Subset DEF W, Granted
  <2>4. Cardinality(V \cup U) = Cardinality(V) + Cardinality(U) - Cardinality(V \cap U)
    BY <1>3, <2>3, FS_Union
  <2>5. Cardinality(V \cap U) = 0
    BY <2>1, FS_EmptySet
  <2>6. Cardinality(V \cup U) = before + n
    BY <1>3, <1>4, <2>3, <2>4, <2>5
  <2>7. Granted(quotaLog', start', now) = Cardinality(W(quotaLog', start', now))
    BY DEF W, Granted
  <2> QED
    BY <1>3, <2>2, <2>6, <2>7
\* what the earlier periods have granted
<1>11. ASSUME NEW a \in 0..start', NEW k \in 0..(MaxTime + 1), start' - a <= k * Period
       PROVE  Granted(quotaLog', a, start' - 1) <= k * MaxUsage
  <2>1. Granted(quotaLog', a, start' - 1) = Granted(quotaLog, a, start' - 1)
    <3>1. PICK s, b : s = start' /\ b = s - 1
      OBVIOUS
    <3>2. now \in Nat /\ s \in Nat /\ s <= now /\ b = s - 1
      BY <1>1, <1>6, <3>1
    <3>3. ~(now <= b)
      BY <3>2
    <3>4. W(quotaLog \cup U, a, b) = W(quotaLog, a, b)
      BY <1>a, <3>3 DEF W
    <3> QED
      BY <1>3, <3>1, <3>4, SameCount
  <2>2. k \in Nat /\ k * Period \in Nat /\ k * MaxUsage \in Nat /\ a \in Nat
    BY <1>1, <1>6
  <2>3. CASE ~expired
    <3>1. start' = start
      BY <1>2, <2>3
    <3>2. Granted(quotaLog, a, start - 1) <= k * MaxUsage
      BY <1>11, <3>1 DEF QuotaInv
    <3> QED
      BY <2>1, <3>1, <3>2
  <2>4. CASE expired /\ k = 0
    <3>1. a = start' /\ start' = now
      BY <1>1, <1>2, <1>11, <2>2, <2>4
    <3>2. W(quotaLog, now, now - 1) = {}
      BY <1>1 DEF W
    <3>3. Granted(quotaLog, a, start' - 1) = 0
      BY <3>1, <3>2, NothingGranted
    <3> QED
      BY <2>1, <2>2, <3>3
  <2>5. CASE expired /\ k > 0
    <3>1. /\ k - 1 \in 0..(MaxTime + 1) /\ k - 1 \in Nat
          /\ k * Period = (k - 1) * Period + Period /\ (k - 1) * Period \in Nat
          /\ k * MaxUsage = (k - 1) * MaxUsage + MaxUsage /\ (k - 1) * MaxUsage \in Nat
      BY <1>1, <2>2, <2>5
    <3>2. start' = now /\ now - start >= Period
      BY <1>2, <2>5
    <3>3. /\ Granted(quotaLog, start, now - 1) <= used
          /\ Granted(quotaLog, start, now - 1) \in Nat
      <4>1. W(quotaLog, start, now - 1) \subseteq W(quotaLog, start, now)
        BY <1>1 DEF W
      <4> QED
        BY <1>1, <4>1, Fewer DEF LongRun
    <3>4. CASE a <= start
      <4>1. start - a <= (k - 1) * Period /\ a \in 0..start
        BY <1>1, <1>11, <2>2, <3>1, <3>2, <3>4
      <4>2. Granted(quotaLog, a, start - 1) <= (k - 1) * MaxUsage /\ Granted(quotaLog, a, start - 1) \in Nat
        BY <1>1, <3>1, <4>1, CountIsNat DEF QuotaInv
      <4>3. Granted(quotaLog, a, now - 1) <= Granted(quotaLog, a, start - 1) + Granted(quotaLog, start, now - 1)
        <5>1. a \in Int /\ now - 1 \in Int /\ start \in Int /\ \A g \in quotaLog : g[1] \in Int
          BY <1>1, <2>2
        <5> QED
          BY <1>1, <5>1, Halves
      <4>4. Granted(quotaLog, a, now - 1) \in Nat
        BY <1>1, CountIsNat
      <4> QED
        BY <1>1, <2>1, <3>1, <3>2, <3>3, <4>2, <4>3, <4>4
    <3>5. CASE a > start
      <4>1. W(quotaLog, a, now - 1) \subseteq W(quotaLog, start, now - 1)
        BY <1>1, <2>2, <3>5 DEF W
      <4>2. Granted(quotaLog, a, now - 1) <= Granted(quotaLog, start, now - 1) /\ Granted(quotaLog, a, now - 1) \in Nat
        BY <1>1, <4>1, Fewer
      <4> QED
        BY <1>1, <2>1, <3>1, <3>2, <3>3, <4>2
    <3> QED
      BY <1>1, <2>2, <3>4, <3>5
  <2> QED
    BY <2>2, <2>3, <2>4, <2>5
<1>12. QuotaInv'
  BY <1>1, <1>6, <1>7, <1>8, <1>11 DEF QuotaInv, Granted
<1>13. ASSUME NEW a \in 0..now, NEW b \in 0..now, a <= b
       PROVE  Granted(quotaLog', a, b) <= ((b - a) \div Period + 2) * MaxUsage
  <2>1. CASE b = now
    BY <1>1, <1>6, <1>8, <1>10, <1>11, <2>1, PeriodsAdd
  <2>2. CASE b < now
    <3>1. ~(a <= now /\ now <= b)
      BY <1>1, <2>2
    <3>2. W(quotaLog \cup U, a, b) = W(quotaLog, a, b)
      BY <1>a, <3>1 DEF W
    <3> QED
      BY <1>3, <1>13, <3>2, SameCount DEF LongRun
  <2> QED
    BY <1>1, <2>1, <2>2
<1>14. LongRun'
  BY <1>1, <1>10, <1>13 DEF LongRun, Granted
<1> QED
  BY <1>12, <1>14

LEMMA TimeKeepsLimits ==
  ASSUME LimitsInv, TimePasses
  PROVE  LimitsInv'
<1>1. /\ now \in Nat /\ now < MaxTime /\ MaxTime \in Nat /\ now' = now + 1 /\ asked' = 0 /\ MaxPerTick \in Nat
      /\ tokens' = tokens /\ lastRefill' = lastRefill /\ times' = times
      /\ secondLog' = secondLog /\ minuteLog' = minuteLog /\ acceptedLog' = acceptedLog
      /\ known' = known /\ used' = used /\ start' = start /\ quotaLog' = quotaLog
  BY LogShapes DEF LimitsInv, TimePasses, bucketVars, windowVars, quotaVars
<1>2. /\ IsFiniteSet(secondLog) /\ IsFiniteSet(minuteLog)
      /\ \A g \in secondLog : g[1] \in 0..now
      /\ \A g \in minuteLog : g[1] \in 0..now
      /\ \A g \in times : g[1] \in 0..now
      /\ \A g \in quotaLog : g[1] \in 0..now
  BY LogShapes, QuotaLogFinite DEF LimitsInv
<1>3. 0..now \subseteq 0..(now + 1) /\ now + 1 \in 0..MaxTime /\ ~(now + 1 \in 0..now)
  BY <1>1
<1>4. LogsOK'
  <2>1. secondLog \cup minuteLog \cup times \subseteq (0..(now + 1)) \X (1..MaxPerTick)
    BY <1>3 DEF LimitsInv, LogsOK
  <2>2. \A g \in secondLog \cup minuteLog \cup times : g[1] # now + 1
    BY <1>2, <1>3
  <2>3. 0 \in 0..MaxPerTick
    BY <1>1
  <2> QED
    BY <1>1, <1>3, <2>1, <2>2, <2>3 DEF LimitsInv, LogsOK
<1>5. ASSUME NEW l, IsFiniteSet(l), \A g \in l : g[1] \in 0..now, NEW a
      PROVE  Granted(l, a, now + 1) = Granted(l, a, now)
  <2>1. W(l, a, now + 1) = W(l, a, now)
    BY <1>1, <1>5 DEF W
  <2> QED
    BY <2>1, SameCount
<1>6. /\ lastRefill \in 0..now /\ tokens \in Nat /\ Capacity \in Nat /\ Rate \in Nat /\ Cost \in Nat
      /\ tokens <= Capacity
  <2>1. Capacity \in Nat /\ Cost \in Nat /\ Rate \in Nat
    BY LimiterAssumption DEF LimiterAssumption, Capacity, Cost, Rate
  <2> QED
    BY <2>1 DEF LimitsInv, BucketInv
<1>7. BucketInv'
  <2>1. lastRefill \in 0..(now + 1) /\ tokens \in 0..Capacity
    BY <1>3, <1>6
  <2>2. \A a \in 0..lastRefill :
          Granted(secondLog, a, now + 1) * Cost + tokens <= Capacity + (lastRefill - a) * Rate
    BY <1>2, <1>5 DEF LimitsInv, BucketInv
  <2>3. \A g \in secondLog : g[1] <= lastRefill
    BY DEF LimitsInv, BucketInv
  <2> QED
    BY <1>1, <2>1, <2>2, <2>3 DEF BucketInv, Granted, Capacity, Cost, Rate
<1>8. WindowInv'
  BY <1>1, <1>2, LimiterAssumption DEF LimitsInv, WindowInv, LimiterAssumption
<1>9. BucketEnvelope'
  <2>1. ASSUME NEW a \in 0..(now + 1), NEW b \in 0..(now + 1), a <= b
        PROVE  Granted(secondLog, a, b) * Cost <= Capacity + (b - a) * Rate
    <3>1. a \in Nat /\ b \in Nat /\ (b - a) * Rate \in Nat /\ b - a \in Nat
      BY <1>1, <1>6, <2>1
    <3>2. CASE b <= now
      BY <1>1, <2>1, <3>1, <3>2 DEF LimitsInv, BucketEnvelope
    <3>3. CASE b = now + 1 /\ a <= now
      <4>1. Granted(secondLog, a, b) = Granted(secondLog, a, now)
        BY <1>2, <1>5, <3>3
      <4>2. Granted(secondLog, a, now) * Cost <= Capacity + (now - a) * Rate
        BY <1>1, <3>1, <3>3 DEF LimitsInv, BucketEnvelope
      <4>3. (now - a) * Rate <= (b - a) * Rate /\ (now - a) * Rate \in Int
        BY <1>1, <1>6, <3>1, <3>3, Multiples
      <4>4. Granted(secondLog, a, now) * Cost \in Nat
        <5>1. Granted(secondLog, a, now) \in Nat
          BY <1>2, CountIsNat
        <5> QED
          BY <1>6, <5>1
      <4> QED
        BY <1>6, <3>1, <4>1, <4>2, <4>3, <4>4
    <3>4. CASE b = now + 1 /\ a = now + 1
      <4>1. W(secondLog, a, b) = {}
        BY <1>1, <1>2, <3>4 DEF W
      <4>2. Granted(secondLog, a, b) = 0
        BY <4>1, NothingGranted
      <4>3. Granted(secondLog, a, b) * Cost = 0
        BY <1>6, <4>2
      <4> QED
        BY <1>6, <3>1, <4>3
    <3> QED
      BY <1>1, <2>1, <3>1, <3>2, <3>3, <3>4
  <2> QED
    BY <1>1, <2>1 DEF BucketEnvelope, Granted, Capacity, Cost, Rate
<1>10. MinuteEnvelope'
  <2>1. ASSUME NEW a \in 0..(now + 1) PROVE Granted(minuteLog, a, a + Minute - 1) <= PerMinute
    <3>1. CASE a \in 0..now
      BY <3>1 DEF LimitsInv, MinuteEnvelope
    <3>2. CASE a = now + 1
      <4>1. W(minuteLog, a, a + Minute - 1) = {}
        BY <1>1, <1>2, <3>2 DEF W
      <4> QED
        BY <4>1, NothingGranted, LimiterAssumption DEF LimiterAssumption
    <3> QED
      BY <1>1, <3>1, <3>2
  <2> QED
    BY <1>1, <2>1 DEF MinuteEnvelope, Granted
<1>11. QuotaInv'
  <2>1. start \in 0..(now + 1) /\ quotaLog \subseteq (0..(now + 1)) \X (1..MaxUsage)
    BY <1>1, <1>3 DEF LimitsInv, QuotaInv
  <2> QED
    BY <1>1, <2>1 DEF LimitsInv, QuotaInv, Granted
<1>12. LongRun'
  <2>1. used = Granted(quotaLog, start, now + 1)
    <3>1. IsFiniteSet(quotaLog)
      BY QuotaLogFinite DEF LimitsInv
    <3> QED
      BY <1>2, <1>5, <3>1 DEF LimitsInv, LongRun
  <2>2. ASSUME NEW a \in 0..(now + 1), NEW b \in 0..(now + 1), a <= b
        PROVE  Granted(quotaLog, a, b) <= ((b - a) \div Period + 2) * MaxUsage
    <3>1. CASE b <= now
      <4>1. a \in 0..now /\ b \in 0..now
        BY <1>1, <2>2, <3>1
      <4> QED
        BY <2>2, <4>1 DEF LimitsInv, LongRun
    <3>2. CASE b = now + 1
      <4>1. /\ start \in 0..(now + 1) /\ quotaLog \subseteq (0..(now + 1)) \X (1..MaxUsage)
            /\ used \in 0..MaxUsage
            /\ \A x \in 0..start, k \in 0..(MaxTime + 1) :
                 start - x <= k * Period => Granted(quotaLog, x, start - 1) <= k * MaxUsage
        BY <1>1, <1>3 DEF LimitsInv, QuotaInv
      <4> QED
        BY <1>3, <2>1, <2>2, <3>2, <4>1, PeriodsAdd
    <3> QED
      BY <1>1, <3>1, <3>2
  <2> QED
    BY <1>1, <2>1, <2>2 DEF LongRun, Granted
<1> QED
  BY <1>4, <1>7, <1>8, <1>9, <1>10, <1>11, <1>12 DEF LimitsInv

LEMMA CheckKeepsLimits ==
  ASSUME LimitsInv, CheckLimit
  PROVE  LimitsInv'
<1>1. LogsOK' /\ BucketInv' /\ WindowInv' /\ BucketEnvelope' /\ MinuteEnvelope'
  BY CheckKeepsLogs, CheckKeepsBucket, CheckKeepsWindow DEF LimitsInv
<1>2. now' = now /\ known' = known /\ used' = used /\ start' = start /\ quotaLog' = quotaLog
  BY DEF CheckLimit, Ask, quotaVars
<1>3. QuotaInv' /\ LongRun'
  BY <1>2 DEF LimitsInv, QuotaInv, LongRun, Granted
<1> QED
  BY <1>1, <1>3 DEF LimitsInv

(* The steps of the quota leave the limiters alone.                        *)
LEMMA LimitersStay ==
  ASSUME LimitsInv, now' = now, asked' \in 0..MaxPerTick, asked <= asked', UNCHANGED <<bucketVars, windowVars>>
  PROVE  LogsOK' /\ BucketInv' /\ WindowInv' /\ BucketEnvelope' /\ MinuteEnvelope'
<1>1. /\ tokens' = tokens /\ lastRefill' = lastRefill /\ times' = times
      /\ secondLog' = secondLog /\ minuteLog' = minuteLog /\ acceptedLog' = acceptedLog
  BY DEF bucketVars, windowVars
<1>2. BucketInv' /\ WindowInv' /\ BucketEnvelope' /\ MinuteEnvelope'
  BY <1>1 DEF LimitsInv, BucketInv, WindowInv, BucketEnvelope, MinuteEnvelope, Granted, Capacity, Cost, Rate
<1>3. LogsOK'
  <2>1. ASSUME NEW g \in secondLog \cup minuteLog \cup times, g[1] = now PROVE g[2] <= asked'
    <3>1. g[2] <= asked /\ g[2] \in Nat /\ asked \in Nat /\ asked' \in Nat
      <4>1. g[2] \in 1..MaxPerTick /\ g[2] <= asked
        BY <2>1 DEF LimitsInv, LogsOK
      <4> QED
        BY <4>1, LimiterAssumption DEF LimitsInv, LogsOK, LimiterAssumption
    <3> QED
      BY <3>1
  <2> QED
    BY <1>1, <2>1 DEF LimitsInv, LogsOK
<1> QED
  BY <1>2, <1>3

LEMMA AskedOnce ==
  ASSUME LimitsInv, Ask
  PROVE  now' = now /\ asked' \in 0..MaxPerTick /\ asked <= asked'
BY LimiterAssumption DEF LimitsInv, LogsOK, Ask, LimiterAssumption

LEMMA QuotasKeepLimits ==
  ASSUME LimitsInv, QuotaNext
  PROVE  LimitsInv'
<1>1. /\ used \in Nat /\ MaxUsage \in Nat /\ now \in Nat /\ start \in Nat /\ MaxTime \in Nat /\ now \in 0..MaxTime
      /\ asked \in 0..MaxPerTick
  BY QuotaLogFinite DEF LimitsInv, LogsOK
<1>2. CASE AddQuota
  <2>1. /\ now' = now /\ asked' \in 0..MaxPerTick /\ asked <= asked' /\ UNCHANGED <<bucketVars, windowVars>>
        /\ known' = TRUE /\ used' = 0 /\ start' = now /\ quotaLog' = {}
    BY <1>2, AskedOnce DEF AddQuota
  <2>2. LogsOK' /\ BucketInv' /\ WindowInv' /\ BucketEnvelope' /\ MinuteEnvelope'
    BY <2>1, LimitersStay
  <2>3. ASSUME NEW a, NEW b PROVE Granted({}, a, b) = 0
    BY NothingGranted DEF W
  <2>4. QuotaInv'
    <3>1. \A k \in 0..(MaxTime + 1) : 0 <= k * MaxUsage
      BY <1>1
    <3>2. 0 \in 0..MaxUsage /\ now \in 0..now
      BY <1>1
    <3> QED
      BY <2>1, <2>3, <3>1, <3>2 DEF QuotaInv, Granted
  <2>5. LongRun'
    <3>1. ASSUME NEW a \in 0..now, NEW b \in 0..now, a <= b PROVE 0 <= ((b - a) \div Period + 2) * MaxUsage
      <4>1. (b - a) \div Period \in Nat
        <5>1. b - a \in Nat /\ Period \in Nat \ {0}
          BY <1>1, <3>1, LimiterAssumption DEF LimiterAssumption
        <5> QED
          BY <5>1, Quotient
      <4> QED
        BY <1>1, <4>1
    <3> QED
      BY <2>1, <2>3, <3>1 DEF LongRun, Granted
  <2> QED
    BY <2>2, <2>4, <2>5 DEF LimitsInv
<1>3. CASE RemoveQuota
  <2>1. /\ now' = now /\ asked' \in 0..MaxPerTick /\ asked <= asked' /\ UNCHANGED <<bucketVars, windowVars>>
        /\ known' = FALSE /\ used' = used /\ start' = start /\ quotaLog' = quotaLog
    BY <1>1, <1>3 DEF RemoveQuota
  <2>2. LogsOK' /\ BucketInv' /\ WindowInv' /\ BucketEnvelope' /\ MinuteEnvelope'
    BY <2>1, LimitersStay
  <2>3. QuotaInv' /\ LongRun'
    BY <2>1 DEF LimitsInv, QuotaInv, LongRun, Granted
  <2> QED
    BY <2>2, <2>3 DEF LimitsInv
<1>4. ASSUME NEW amount \in Asks, CheckQuota(amount) PROVE LimitsInv'
  <2>1. /\ now' = now /\ asked' \in 0..MaxPerTick /\ asked <= asked' /\ UNCHANGED <<bucketVars, windowVars>>
        /\ known' = known /\ (Consume(amount) \/ UNCHANGED <<used, start, quotaLog>>)
    BY <1>4, AskedOnce DEF CheckQuota
  <2>2. LogsOK' /\ BucketInv' /\ WindowInv' /\ BucketEnvelope' /\ MinuteEnvelope'
    BY <2>1, LimitersStay
  <2>3. CASE Consume(amount)
    <3>1. amount \in Nat \ {0}
      BY LimiterAssumption DEF LimiterAssumption
    <3>2. QuotaInv' /\ LongRun'
      BY <2>1, <2>3, <3>1, ConsumeKeepsQuota DEF LimitsInv
    <3> QED
      BY <2>2, <3>2 DEF LimitsInv
  <2>4. CASE UNCHANGED <<used, start, quotaLog>>
    <3>1. QuotaInv' /\ LongRun'
      BY <2>1, <2>4 DEF LimitsInv, QuotaInv, LongRun, Granted
    <3> QED
      BY <2>2, <3>1 DEF LimitsInv
  <2> QED
    BY <2>1, <2>3, <2>4
<1> QED
  BY <1>2, <1>3, <1>4, TimeKeepsLimits DEF QuotaNext

LEMMA LimitsStart ==
  ASSUME LimitsInit
  PROVE  LimitsInv
<1>1. /\ now = 0 /\ asked = 0 /\ tokens = Capacity /\ lastRefill = 0 /\ times = {} /\ secondLog = {}
      /\ minuteLog = {} /\ acceptedLog = {} /\ known = FALSE /\ used = 0 /\ start = 0 /\ quotaLog = {}
  BY DEF LimitsInit
<1>2. /\ MaxTime \in Nat /\ MaxPerTick \in Nat /\ Capacity \in Nat /\ Rate \in Nat /\ Cost \in Nat
      /\ MaxUsage \in Nat /\ PerMinute \in Nat /\ Period \in Nat \ {0}
  BY LimiterAssumption DEF LimiterAssumption, Capacity, Cost, Rate
<1>3. ASSUME NEW a, NEW b PROVE Granted({}, a, b) = 0
  BY NothingGranted DEF W
<1>4. LogsOK /\ WindowInv
  BY <1>1, <1>2 DEF LogsOK, WindowInv
<1>5. BucketInv
  <2>1. \A a \in 0..0 : 0 * Cost + Capacity <= Capacity + (0 - a) * Rate
    BY <1>2
  <2> QED
    BY <1>1, <1>2, <1>3, <2>1 DEF BucketInv
<1>6. BucketEnvelope /\ MinuteEnvelope
  <2>1. \A a, b \in 0..0 : 0 * Cost <= Capacity + (b - a) * Rate
    BY <1>2
  <2> QED
    BY <1>1, <1>2, <1>3, <2>1 DEF BucketEnvelope, MinuteEnvelope
<1>7. QuotaInv
  <2>1. \A k \in 0..(MaxTime + 1) : 0 <= k * MaxUsage
    BY <1>2
  <2>2. \A a, b : Granted(quotaLog, a, b) = 0
    BY <1>1, <1>3
  <2>3. /\ known \in BOOLEAN /\ used \in 0..MaxUsage /\ start \in 0..now
        /\ quotaLog \subseteq (0..now) \X (1..MaxUsage)
        /\ \A g \in quotaLog : g[1] >= start => g[2] <= used /\ g[1] < start + Period
    <3>1. known \in BOOLEAN
      BY <1>1
    <3>2. used \in 0..MaxUsage /\ start \in 0..now
      BY <1>1, <1>2
    <3>3. \A g : ~(g \in quotaLog)
      BY <1>1
    <3> QED
      BY <3>1, <3>2, <3>3
  <2> QED
    BY <2>1, <2>2, <2>3, Zenon DEF QuotaInv
<1>8. LongRun
  <2>1. ASSUME NEW a \in 0..0, NEW b \in 0..0 PROVE 0 <= ((b - a) \div Period + 2) * MaxUsage
    <3>1. (b - a) \div Period \in Nat
      BY <1>2, Quotient
    <3> QED
      BY <1>2, <3>1
  <2> QED
    BY <1>1, <1>3, <2>1 DEF LongRun
<1> QED
  BY <1>4, <1>5, <1>6, <1>7, <1>8 DEF LimitsInv

(* Both limits bound what passes both.                                     *)
LEMMA BothLimit ==
  ASSUME LimitsInv
  PROVE  AcceptedWithinBoth
<1>1. /\ acceptedLog \subseteq secondLog /\ acceptedLog \subseteq minuteLog
      /\ IsFiniteSet(secondLog) /\ IsFiniteSet(minuteLog) /\ now \in Nat
      /\ \A g \in minuteLog : g[1] \in 0..now
  BY LogShapes DEF LimitsInv, LogsOK
<1>2. /\ Capacity \in Nat /\ Rate \in Nat /\ Cost \in Nat /\ Minute \in Nat /\ PerMinute \in Nat
  BY LimiterAssumption DEF LimiterAssumption, Capacity, Cost, Rate
<1>3. SUFFICES ASSUME NEW a \in 0..now, NEW b \in 0..now, a <= b
               PROVE  /\ Granted(acceptedLog, a, b) * Cost <= Capacity + (b - a) * Rate
                      /\ b - a < Minute => Granted(acceptedLog, a, b) <= PerMinute
  BY DEF AcceptedWithinBoth
<1>4. Granted(acceptedLog, a, b) * Cost <= Capacity + (b - a) * Rate
  <2>1. W(acceptedLog, a, b) \subseteq W(secondLog, a, b)
    BY <1>1 DEF W
  <2>2. /\ Granted(acceptedLog, a, b) <= Granted(secondLog, a, b)
        /\ Granted(acceptedLog, a, b) \in Nat /\ Granted(secondLog, a, b) \in Nat
    BY <1>1, <2>1, Fewer
  <2>3. /\ Granted(acceptedLog, a, b) * Cost <= Granted(secondLog, a, b) * Cost
        /\ Granted(acceptedLog, a, b) * Cost \in Int /\ Granted(secondLog, a, b) * Cost \in Int
    BY <1>2, <2>2, Multiples
  <2>4. Granted(secondLog, a, b) * Cost <= Capacity + (b - a) * Rate
    BY <1>3 DEF LimitsInv, BucketEnvelope
  <2>5. Capacity + (b - a) * Rate \in Int
    BY <1>1, <1>2
  <2> QED
    BY <2>3, <2>4, <2>5
<1>5. ASSUME b - a < Minute PROVE Granted(acceptedLog, a, b) <= PerMinute
  <2>1. W(acceptedLog, a, b) \subseteq W(minuteLog, a, a + Minute - 1)
    BY <1>1, <1>2, <1>5 DEF W
  <2>2. Granted(acceptedLog, a, b) <= Granted(minuteLog, a, a + Minute - 1)
        /\ Granted(acceptedLog, a, b) \in Nat /\ Granted(minuteLog, a, a + Minute - 1) \in Nat
    BY <1>1, <2>1, Fewer
  <2>3. Granted(minuteLog, a, a + Minute - 1) <= PerMinute
    BY DEF LimitsInv, MinuteEnvelope
  <2> QED
    BY <1>2, <2>2, <2>3
<1> QED
  BY <1>4, <1>5

(***************************************************************************)
(* The audit log.                                                          *)
(***************************************************************************)
(* Sifting a list in which whatever follows a kept element is kept too     *)
(* leaves its end.                                                         *)
Upward(s, P) == \A i, j \in 1..Len(s) : i <= j /\ s[i] \in P => s[j] \in P

LEMMA SiftedEnd ==
  ASSUME NEW S, NEW s \in Seq(S), NEW P, Upward(s, P), NEW f, Sifts(f, s, P)
  PROVE  \E m \in 0..Len(s) : f[Len(s)] = SubSeq(s, m + 1, Len(s))
<1>1. Len(s) \in Nat /\ \A i \in 1..Len(s) : s[i] \in S
  OBVIOUS
<1> DEFINE Ends(n) == \E m \in 0..n : f[n] = SubSeq(s, m + 1, n) /\ (m < n => s[m + 1] \in P)
           T == {n \in Nat : n <= Len(s) => Ends(n)}
<1>2. 0 \in T
  <2>1. SubSeq(s, 0 + 1, 0) = <<>> /\ f[0] = <<>>
    BY SubSeqEmpty DEF Sifts
  <2>2. 0 \in 0..0 /\ ~(0 < 0) /\ 0 \in Nat
    OBVIOUS
  <2>3. Ends(0)
    BY <2>1, <2>2
  <2> HIDE DEF Ends
  <2> QED
    BY <2>2, <2>3
<1>3. ASSUME NEW n \in T PROVE n + 1 \in T
  <2> SUFFICES ASSUME n + 1 <= Len(s) PROVE Ends(n + 1)
    <3> HIDE DEF Ends
    <3> QED
      BY <1>3
  <2>1. n + 1 <= Len(s)
    OBVIOUS
  <2>2. n \in Nat /\ n <= Len(s) /\ n + 1 \in 1..Len(s) /\ (n + 1) - 1 = n
    BY <1>1, <2>1
  <2>3. PICK m \in 0..n : f[n] = SubSeq(s, m + 1, n) /\ (m < n => s[m + 1] \in P)
    BY <2>2
  <2>4. f[n + 1] = IF s[n + 1] \in P THEN Append(f[n], s[n + 1]) ELSE f[n]
    BY <2>2 DEF Sifts
  <2>5. CASE s[n + 1] \in P
    <3>1. Append(SubSeq(s, m + 1, n), s[n + 1]) = SubSeq(s, m + 1, n + 1)
      <4>1. m + 1 \in 1..Len(s) /\ n + 1 \in (m + 1)..Len(s) /\ (n + 1) - 1 = n
        BY <2>2, <1>1
      <4>2. SubSeq(s, m + 1, n + 1) = SubSeq(s, m + 1, n) \o <<s[n + 1]>>
        <5>1. SubSeq(s, m + 1, n + 1) = SubSeq(s, m + 1, (n + 1) - 1) \o <<s[n + 1]>>
          BY <4>1, SubSeqRecursiveSecond, Zenon
        <5> QED
          BY <4>1, <5>1
      <4>3. SubSeq(s, m + 1, n) \in Seq(S)
        <5>1. m + 1 \in Int /\ n \in Int /\ \A i \in (m + 1)..n : s[i] \in S
          BY <1>1, <2>2
        <5> QED
          BY <5>1, SubSeqProperties
      <4>4. Append(SubSeq(s, m + 1, n), s[n + 1]) = SubSeq(s, m + 1, n) \o <<s[n + 1]>>
        BY <1>1, <2>2, <4>3, AppendIsConcat
      <4> QED
        BY <4>2, <4>4
    <3>2. m < n + 1 => s[m + 1] \in P
      BY <2>3, <2>5, <2>2
    <3>3. m \in 0..(n + 1)
      BY <2>2
    <3> QED
      BY <2>3, <2>4, <2>5, <3>1, <3>2, <3>3
  <2>6. CASE s[n + 1] \notin P
    <3>1. ~(m < n)
      <4>1. SUFFICES ASSUME m < n PROVE FALSE
        OBVIOUS
      <4>2. m + 1 \in 1..Len(s) /\ m + 1 <= n + 1
        BY <1>1, <2>2, <4>1
      <4> QED
        BY <2>2, <2>3, <2>6, <4>1, <4>2 DEF Upward
    <3>2. SubSeq(s, m + 1, n) = <<>>
      BY <2>2, <3>1, SubSeqEmpty
    <3>3. SubSeq(s, (n + 1) + 1, n + 1) = <<>>
      BY <2>2, SubSeqEmpty
    <3>4. n + 1 \in 0..(n + 1) /\ ~(n + 1 < n + 1)
      BY <2>2
    <3> QED
      BY <2>3, <2>4, <2>6, <3>2, <3>3, <3>4
  <2> QED
    BY <2>5, <2>6
<1>4. T = Nat
  <2>1. T \in SUBSET Nat
    OBVIOUS
  <2> HIDE DEF T
  <2> QED
    BY <2>1, <1>2, <1>3, SetInduction
<1> QED
  BY <1>1, <1>4

(***************************************************************************)
(* Users, roles, tokens and the audit log.                                 *)
(***************************************************************************)
LEMMA EventAppended ==
  ASSUME NEW s, NEW k \in Nat, NEW t \in Nat, InOrder(s, k, t)
  PROVE  /\ InOrder(Append(s, [n |-> k + 1, at |-> t]), k + 1, t)
         /\ Len(Append(s, [n |-> k + 1, at |-> t])) = Len(s) + 1
<1> DEFINE e == [n |-> k + 1, at |-> t]
           u == Append(s, e)
<1>1. s \in Seq(Events) /\ Len(s) \in Nat /\ Len(s) <= k
  BY DEF InOrder
<1>2. e \in Events /\ e.n = k + 1 /\ e.at = t
  BY DEF Events
<1>3. u \in Seq(Events) /\ Len(u) = Len(s) + 1 /\ u[Len(s) + 1] = e /\ \A i \in 1..Len(s) : u[i] = s[i]
  <2> HIDE DEF e
  <2> QED
    BY <1>1, <1>2, AppendProperties
<1> HIDE DEF e, u
<1>4. ASSUME NEW i \in 1..Len(u) PROVE u[i].n = (k + 1) - Len(u) + i /\ u[i].at <= t /\ (i <= Len(s) => u[i] = s[i])
  <2>1. CASE i \in 1..Len(s)
    <3>1. u[i] = s[i] /\ s[i].n = k - Len(s) + i /\ s[i].at <= t
      BY <1>3, <2>1 DEF InOrder
    <3>2. k - Len(s) + i = (k + 1) - Len(u) + i
      BY <1>1, <1>3, <2>1
    <3> QED
      BY <3>1, <3>2
  <2>2. CASE i = Len(s) + 1
    BY <1>1, <1>2, <1>3, <2>2
  <2> QED
    BY <1>1, <1>3, <2>1, <2>2
<1>5. ASSUME NEW i \in 1..Len(u), NEW j \in 1..Len(u), i <= j PROVE u[i].at <= u[j].at
  <2>1. CASE j \in 1..Len(s)
    <3>1. i \in 1..Len(s)
      BY <1>1, <1>5, <2>1
    <3>2. s[i].at <= s[j].at
      BY <1>5, <2>1, <3>1 DEF InOrder
    <3> QED
      BY <1>3, <2>1, <3>1, <3>2
  <2>2. CASE j = Len(s) + 1
    BY <1>2, <1>3, <1>4, <2>2
  <2> QED
    BY <1>1, <1>3, <2>1, <2>2
<1>6. InOrder(u, k + 1, t)
  BY <1>1, <1>3, <1>4, <1>5 DEF InOrder
<1> QED
  BY <1>3, <1>6 DEF u, e

LEMMA EndInOrder ==
  ASSUME NEW s, NEW k \in Nat, NEW t \in Nat, InOrder(s, k, t), NEW m \in 0..Len(s)
  PROVE  InOrder(SubSeq(s, m + 1, Len(s)), k, t) /\ Len(SubSeq(s, m + 1, Len(s))) = Len(s) - m
<1> DEFINE u == SubSeq(s, m + 1, Len(s))
<1>1. s \in Seq(Events) /\ Len(s) \in Nat /\ Len(s) <= k /\ m \in Nat /\ m <= Len(s)
  BY DEF InOrder
<1>2. u \in Seq(Events) /\ Len(u) = Len(s) - m /\ \A i \in 1..(Len(s) - m) : u[i] = s[m + i]
  <2>1. m + 1 \in Int /\ Len(s) \in Int /\ \A i \in (m + 1)..Len(s) : s[i] \in Events
    BY <1>1
  <2>2. /\ u \in Seq(Events) /\ Len(u) = IF m + 1 <= Len(s) THEN Len(s) - (m + 1) + 1 ELSE 0
        /\ \A i \in 1..(Len(s) - (m + 1) + 1) : u[i] = s[(m + 1) + i - 1]
    BY <2>1, SubSeqProperties
  <2>3. Len(s) - (m + 1) + 1 = Len(s) - m /\ \A i \in Int : (m + 1) + i - 1 = m + i
    BY <1>1
  <2> HIDE DEF u
  <2>4. Len(u) = Len(s) - m
    <3>1. Len(u) = IF m + 1 <= Len(s) THEN Len(s) - (m + 1) + 1 ELSE 0
      BY <2>2
    <3>2. Len(s) \in Nat /\ m \in Nat /\ m <= Len(s)
      BY <1>1
    <3>3. CASE m < Len(s)
      <4>1. m + 1 <= Len(s) /\ Len(s) - (m + 1) + 1 = Len(s) - m
        BY <3>2, <3>3
      <4> QED
        BY <3>1, <4>1
    <3>4. CASE m = Len(s)
      <4>1. ~(m + 1 <= Len(s)) /\ Len(s) - m = 0
        BY <3>2, <3>4
      <4> QED
        BY <3>1, <4>1
    <3> QED
      BY <3>2, <3>3, <3>4
  <2>5. ASSUME NEW i \in 1..(Len(s) - m) PROVE u[i] = s[m + i]
    <3>1. i \in 1..(Len(s) - (m + 1) + 1) /\ (m + 1) + i - 1 = m + i
      BY <1>1, <2>3
    <3> QED
      BY <2>2, <3>1
  <2> QED
    BY <2>2, <2>4, <2>5
<1> HIDE DEF u
<1>3. ASSUME NEW i \in 1..Len(u)
      PROVE  u[i].n = k - Len(u) + i /\ u[i].at <= t /\ m + i \in 1..Len(s) /\ u[i] = s[m + i]
  <2>1. m + i \in 1..Len(s) /\ u[i] = s[m + i]
    BY <1>1, <1>2
  <2>2. s[m + i].n = k - Len(s) + (m + i) /\ s[m + i].at <= t
    BY <2>1 DEF InOrder
  <2> QED
    BY <1>1, <1>2, <2>1, <2>2
<1>4. ASSUME NEW i \in 1..Len(u), NEW j \in 1..Len(u), i <= j PROVE u[i].at <= u[j].at
  <2>1. m + i <= m + j
    BY <1>1, <1>2, <1>4
  <2> QED
    BY <1>3, <2>1 DEF InOrder
<1>5. Len(u) <= k
  BY <1>1, <1>2
<1>6. InOrder(u, k, t)
  BY <1>2, <1>3, <1>4, <1>5 DEF InOrder
<1> QED
  BY <1>2, <1>6 DEF u

LEMMA OldestFirst ==
  ASSUME NEW k \in Nat, tick \in Nat, InOrder(trail, k, tick)
  PROVE  \E m \in 0..Len(trail) : Kept = SubSeq(trail, m + 1, Len(trail))
<1> DEFINE P == {e \in Events : e.at + Retention >= tick}
           Is(f) == f = [i \in 0..Len(trail) |->
                           IF i = 0 THEN <<>>
                           ELSE IF trail[i].at + Retention >= tick THEN Append(f[i - 1], trail[i]) ELSE f[i - 1]]
           kept == CHOOSE f : Is(f)
<1>1. Kept = kept[Len(trail)]
  BY DEF Kept
<1>2. trail \in Seq(Events) /\ Len(trail) \in Nat /\ \A i \in 1..Len(trail) : trail[i] \in Events
  BY DEF InOrder
<1>3. \A i \in 1..Len(trail) : trail[i].at + Retention >= tick <=> trail[i] \in P
  BY <1>2
<1>4. PICK f : f = [i \in 0..Len(trail) |-> IF i = 0 THEN <<>> ELSE
                       IF trail[i] \in P THEN Append(f[i - 1], trail[i]) ELSE f[i - 1]]
  <2> HIDE DEF P
  <2> QED
    BY <1>2, SiftExists
<1>5. Is(f)
  <2>1. \A i \in 0..Len(trail) : i = 0 \/ (trail[i].at + Retention >= tick <=> trail[i] \in P)
    BY <1>2, <1>3
  <2> HIDE DEF P
  <2>2. ASSUME NEW i \in 0..Len(trail)
        PROVE  f[i] = IF i = 0 THEN <<>>
                      ELSE IF trail[i].at + Retention >= tick THEN Append(f[i - 1], trail[i]) ELSE f[i - 1]
    BY <1>4, <2>1
  <2>3. f = [i \in 0..Len(trail) |-> f[i]]
    BY <1>4
  <2> QED
    BY <2>2, <2>3
<1>6. Is(kept)
  BY <1>5
<1> HIDE DEF kept
<1>7. ASSUME NEW i \in 0..Len(trail)
      PROVE  kept[i] = IF i = 0 THEN <<>>
                       ELSE IF trail[i].at + Retention >= tick THEN Append(kept[i - 1], trail[i]) ELSE kept[i - 1]
  BY <1>6
<1>8. kept[0] = <<>>
  BY <1>2, <1>7
<1>9. ASSUME NEW i \in 1..Len(trail)
      PROVE  kept[i] = IF trail[i] \in P THEN Append(kept[i - 1], trail[i]) ELSE kept[i - 1]
  BY <1>2, <1>3, <1>7
<1>10. \A i, j \in 1..Len(trail) : i <= j /\ trail[i] \in P => trail[j] \in P
  <2>1. ASSUME NEW i \in 1..Len(trail), NEW j \in 1..Len(trail), i <= j, trail[i] \in P PROVE trail[j] \in P
    <3>1. trail[i].at <= trail[j].at /\ trail[j] \in Events /\ trail[i].at + Retention >= tick
      BY <1>2, <2>1 DEF InOrder
    <3>2. trail[i].at \in Nat /\ trail[j].at \in Nat /\ Retention \in Nat
      BY <1>2, SecurityAssumption DEF Events, SecurityAssumption
    <3> QED
      BY <3>1, <3>2
  <2> QED
    BY <2>1
<1> HIDE DEF P
<1>11. Upward(trail, P) /\ Sifts(kept, trail, P)
  BY <1>8, <1>9, <1>10 DEF Upward, Sifts
<1>12. \E m \in 0..Len(trail) : kept[Len(trail)] = SubSeq(trail, m + 1, Len(trail))
  BY <1>2, <1>11, SiftedEnd
<1> QED
  BY <1>1, <1>12

LEMMA EventLogged ==
  ASSUME TrailInv, tick \in Nat, LogEvent, tick' = tick
  PROVE  TrailInv'
<1> DEFINE u == Append(trail, [n |-> logged + 1, at |-> tick])
<1>1. /\ logged \in Nat /\ Len(trail) <= MaxHistory /\ InOrder(trail, logged, tick)
      /\ logged' = logged + 1 /\ trail' = LastEvents(u, MaxHistory) /\ MaxHistory \in Nat /\ MaxHistory > 0
  BY SecurityAssumption DEF TrailInv, LogEvent, SecurityAssumption
<1>2. InOrder(u, logged + 1, tick) /\ Len(u) = Len(trail) + 1 /\ Len(trail) \in Nat
  <2>1. trail \in Seq(Events) /\ Len(trail) \in Nat
    BY <1>1 DEF InOrder
  <2>2. InOrder(u, logged + 1, tick)
    BY <1>1, EventAppended
  <2>3. [n |-> logged + 1, at |-> tick] \in Events
    <3>1. logged + 1 \in Nat
      BY <1>1
    <3> QED
      BY <3>1 DEF Events
  <2>4. Len(u) = Len(trail) + 1
    BY <2>1, <2>3, Appended
  <2> QED
    BY <2>1, <2>2, <2>4
<1> HIDE DEF u
<1>3. CASE Len(u) > MaxHistory
  <2>1. PICK m : m = Len(u) - MaxHistory
    OBVIOUS
  <2>2. m \in 0..Len(u) /\ Len(u) - MaxHistory + 1 = m + 1 /\ Len(u) - m = MaxHistory
    BY <1>1, <1>2, <1>3, <2>1
  <2>3. trail' = SubSeq(u, m + 1, Len(u))
    BY <1>1, <1>3, <2>2 DEF LastEvents
  <2>5. logged + 1 \in Nat
    BY <1>1
  <2>4. InOrder(trail', logged + 1, tick) /\ Len(trail') = Len(u) - m
    BY <1>1, <1>2, <2>2, <2>3, <2>5, EndInOrder
  <2> QED
    BY <1>1, <2>2, <2>4 DEF TrailInv
<1>4. CASE ~(Len(u) > MaxHistory)
  <2>1. trail' = u /\ Len(u) <= MaxHistory
    BY <1>1, <1>2, <1>4 DEF LastEvents
  <2> QED
    BY <1>1, <1>2, <2>1 DEF TrailInv
<1> QED
  BY <1>3, <1>4

LEMMA OldCleared ==
  ASSUME TrailInv, tick \in Nat, ClearOldEvents
  PROVE  TrailInv'
<1>1. /\ logged \in Nat /\ Len(trail) <= MaxHistory /\ InOrder(trail, logged, tick)
      /\ logged' = logged /\ tick' = tick /\ trail' = Kept /\ MaxHistory \in Nat /\ Len(trail) \in Nat
  BY SecurityAssumption DEF TrailInv, ClearOldEvents, SecurityAssumption, InOrder
<1>2. PICK m \in 0..Len(trail) : Kept = SubSeq(trail, m + 1, Len(trail))
  BY <1>1, OldestFirst
<1>3. InOrder(Kept, logged, tick) /\ Len(Kept) = Len(trail) - m
  BY <1>1, <1>2, EndInOrder
<1> QED
  BY <1>1, <1>3 DEF TrailInv

LEMMA LaterInOrder ==
  ASSUME TrailInv, tick \in Nat, tick' \in Nat, tick <= tick', trail' = trail, logged' = logged
  PROVE  TrailInv'
<1>1. trail \in Seq(Events)
  BY DEF TrailInv, InOrder
<1>2. ASSUME NEW i \in 1..Len(trail) PROVE trail[i].at \in Nat
  <2>1. trail[i] \in Events
    BY <1>1
  <2> QED
    BY <2>1 DEF Events
<1> QED
  BY <1>1, <1>2 DEF TrailInv, InOrder

LEMMA TrailStep ==
  ASSUME TrailInv, tick \in Nat, SecurityNext
  PROVE  TrailInv'
<1>1. /\ tick' = tick \/ tick' = tick + 1
      /\ \/ LogEvent /\ tick' = tick
         \/ ClearOldEvents
         \/ trail' = trail /\ logged' = logged
  BY DEF SecurityNext, Login, LoginFails, Logout, RevokeUserTokens, CleanupExpiredTokens, CreateRole, DeleteRole,
         CreateUser, DeleteUser, AssignRole, RemoveRole, GrantPermission, ClearOldEvents, ClockTicks
<1> QED
  BY <1>1, EventLogged, OldCleared, LaterInOrder

(***************************************************************************)
(* Roles.                                                                  *)
(***************************************************************************)
LEMMA RolesStep ==
  ASSUME RolesInv, SecurityNext
  PROVE  RolesInv'
<1>1. CASE UNCHANGED <<rbacRoles, rbacUsers>>
  BY <1>1 DEF RolesInv
<1>2. ASSUME NEW r \in CustomRoles, NEW ps \in SUBSET Perms, CreateRole(r, ps) PROVE RolesInv'
  BY <1>2 DEF RolesInv, CreateRole, With
<1>3. ASSUME NEW r \in CustomRoles, DeleteRole(r) PROVE RolesInv'
  <2>1. rbacUsers' = [u \in DOMAIN rbacUsers |-> rbacUsers[u] \ {r}] /\ rbacRoles' = Without(rbacRoles, {r})
    BY <1>3 DEF DeleteRole
  <2> QED
    BY <2>1 DEF RolesInv, Without
<1>4. ASSUME NEW u \in Users, NEW rs, CreateUser(u, rs) PROVE RolesInv'
  BY <1>4 DEF RolesInv, CreateUser, With
<1>5. ASSUME NEW u \in Users, DeleteUser(u) PROVE RolesInv'
  BY <1>5 DEF RolesInv, DeleteUser, Without
<1>6. ASSUME NEW u \in Users, NEW r, AssignRole(u, r) PROVE RolesInv'
  BY <1>6 DEF RolesInv, AssignRole
<1>7. ASSUME NEW u \in Users, NEW r, RemoveRole(u, r) PROVE RolesInv'
  BY <1>7 DEF RolesInv, RemoveRole
<1>8. ASSUME NEW r, NEW p \in Perms, GrantPermission(r, p) PROVE RolesInv'
  BY <1>8 DEF RolesInv, GrantPermission
<1>9. \/ UNCHANGED <<rbacRoles, rbacUsers>>
      \/ \E r \in CustomRoles : DeleteRole(r) \/ \E ps \in SUBSET Perms : CreateRole(r, ps)
      \/ \E u \in Users : \/ \E rs : CreateUser(u, rs)
                          \/ DeleteUser(u)
                          \/ \E r : AssignRole(u, r) \/ RemoveRole(u, r)
      \/ \E r, p : p \in Perms /\ GrantPermission(r, p)
  <2>1. /\ \A u : Login(u) \/ LoginFails(u) \/ RevokeUserTokens(u) => UNCHANGED <<rbacRoles, rbacUsers>>
        /\ \A t : Logout(t) => UNCHANGED <<rbacRoles, rbacUsers>>
        /\ CleanupExpiredTokens \/ ClearOldEvents \/ ClockTicks => UNCHANGED <<rbacRoles, rbacUsers>>
    BY DEF Login, LoginFails, RevokeUserTokens, Logout, CleanupExpiredTokens, ClearOldEvents, ClockTicks
  <2> QED
    BY <2>1 DEF SecurityNext
<1> QED
  BY <1>1, <1>2, <1>3, <1>4, <1>5, <1>6, <1>7, <1>8, <1>9

(***************************************************************************)
(* Tokens.                                                                 *)
(***************************************************************************)
(* Tokens are only added, entries keep their expiry, what is revoked stays *)
(* revoked, and what is forgotten is past its expiry.                      *)
LEMMA TokensMove ==
  ASSUME TokensInv, issued' \in Seq(Claims), Len(issued) <= Len(issued'), \A t \in Tokens : issued'[t] = issued[t],
         tick' \in Nat, tick <= tick', zone' = zone, tick' = tick \/ registry' = registry,
         DOMAIN registry' \subseteq 1..Len(issued'),
         \A t \in DOMAIN registry' : registry'[t] \in Entries /\ registry'[t].expires = issued'[t].expires,
         revoked \subseteq revoked', revoked' \subseteq 1..Len(issued'),
         \A t \in DOMAIN registry' : registry'[t].revoked <=> t \in revoked',
         \A t \in DOMAIN registry : t \in DOMAIN registry' \/ registry[t].expires < tick',
         \A t \in 1..Len(issued') :
           t \in Tokens \/ (t \in DOMAIN registry' /\ issued'[t].exp <= issued'[t].expires + zone
                                                   /\ issued'[t].iat <= tick' + zone)
  PROVE  TokensInv' /\ RefusedForGood
<1>1. /\ tick \in Nat /\ Len(issued) \in Nat /\ Len(issued') \in Nat /\ zone \in Int
      /\ issued \in Seq(Claims) /\ Tokens = 1..Len(issued) /\ Tokens' = 1..Len(issued')
      /\ \A t \in Tokens : issued[t].exp <= issued[t].expires + zone /\ issued[t].iat <= tick + zone
      /\ \A t \in Tokens : t \in DOMAIN registry \/ issued[t].expires < tick
      /\ \A t \in DOMAIN registry : registry[t].revoked <=> t \in revoked
      /\ \A t \in DOMAIN registry : registry[t].expires = issued[t].expires
  BY DEF TokensInv, Tokens
<1>2. ASSUME NEW t \in Tokens
      PROVE  /\ issued[t].expires \in Nat /\ issued[t].exp \in Int /\ issued[t].iat \in Int
             /\ issued'[t] = issued[t] /\ issued[t].iat <= tick' + zone
             /\ t \in DOMAIN registry' \/ issued[t].expires < tick'
  <2>1. issued[t] \in Claims
    BY <1>1
  <2>2. issued[t].expires \in Nat /\ issued[t].exp \in Int /\ issued[t].iat \in Int
    BY <2>1 DEF Claims
  <2>3. t \in DOMAIN registry' \/ issued[t].expires < tick'
    <3>1. CASE t \in DOMAIN registry
      BY <1>1, <3>1
    <3>2. CASE t \notin DOMAIN registry
      BY <1>1, <2>2, <3>2
    <3> QED
      BY <3>1, <3>2
  <2> QED
    BY <1>1, <2>2, <2>3
<1>3. TokensInv'
  <2>1. ASSUME NEW t \in 1..Len(issued')
        PROVE  /\ issued'[t].exp <= issued'[t].expires + zone /\ issued'[t].iat <= tick' + zone
               /\ t \in DOMAIN registry' \/ issued'[t].expires < tick'
    <3>1. CASE t \in Tokens
      BY <1>1, <1>2, <3>1
    <3>2. CASE t \notin Tokens
      BY <2>1, <3>2
    <3> QED
      BY <3>1, <3>2
  <2> QED
    BY <1>1, <2>1 DEF TokensInv
<1>4. ASSUME NEW t \in Tokens, ~Verifies(t), Verifies(t)'
      PROVE  zone > 0 /\ (Immature(t) \/ (t \in revoked /\ issued[t].expires < tick))
  <2>1. ~(issued[t].exp <= tick')
    BY <1>2, <1>4 DEF Verifies, Expired
  <2>2. ~Expired(t)
    BY <1>1, <1>2, <2>1 DEF Expired
  <2>3. CASE Immature(t)
    BY <1>1, <1>2, <2>3 DEF Immature
  <2>4. CASE t \in DOMAIN registry /\ registry[t].revoked
    <3>1. t \in revoked /\ t \in revoked'
      BY <1>1, <2>4
    <3>2. t \notin DOMAIN registry'
      BY <1>4, <3>1 DEF Verifies
    <3>3. issued[t].expires < tick'
      BY <1>2, <3>2
    <3>4. zone > 0
      BY <1>1, <1>2, <2>1, <3>3
    <3>5. tick' = tick
      BY <2>4, <3>2
    <3> QED
      BY <3>1, <3>3, <3>4, <3>5
  <2> QED
    BY <1>4, <2>2, <2>3, <2>4 DEF Verifies
<1> QED
  BY <1>3, <1>4 DEF RefusedForGood

LEMMA TwoIssued ==
  ASSUME NEW S, NEW s \in Seq(S), NEW a \in S, NEW b \in S
  PROVE  /\ s \o <<a, b>> \in Seq(S) /\ Len(s \o <<a, b>>) = Len(s) + 2 /\ Len(s) \in Nat
         /\ \A t \in 1..Len(s) : (s \o <<a, b>>)[t] = s[t]
         /\ (s \o <<a, b>>)[Len(s) + 1] = a /\ (s \o <<a, b>>)[Len(s) + 2] = b
<1>1. <<a, b>> \in Seq(S) /\ Len(<<a, b>>) = 2 /\ <<a, b>>[1] = a /\ <<a, b>>[2] = b
  OBVIOUS
<1>2. PICK u : u = <<a, b>>
  OBVIOUS
<1>3. u \in Seq(S) /\ Len(u) = 2 /\ u[1] = a /\ u[2] = b /\ Len(s) \in Nat
  BY <1>1, <1>2
<1>4. /\ s \o u \in Seq(S) /\ Len(s \o u) = Len(s) + 2
      /\ \A i \in 1..(Len(s) + 2) : (s \o u)[i] = IF i <= Len(s) THEN s[i] ELSE u[i - Len(s)]
  <2>1. /\ s \o u \in Seq(S) /\ Len(s \o u) = Len(s) + Len(u)
        /\ \A i \in 1..(Len(s) + Len(u)) : (s \o u)[i] = IF i <= Len(s) THEN s[i] ELSE u[i - Len(s)]
    BY <1>3, ConcatProperties
  <2> QED
    BY <1>3, <2>1
<1>5. (s \o u)[Len(s) + 1] = u[1] /\ (s \o u)[Len(s) + 2] = u[2]
  <2>1. Len(s) + 1 \in 1..(Len(s) + 2) /\ ~(Len(s) + 1 <= Len(s)) /\ (Len(s) + 1) - Len(s) = 1
    BY <1>3
  <2>2. Len(s) + 2 \in 1..(Len(s) + 2) /\ ~(Len(s) + 2 <= Len(s)) /\ (Len(s) + 2) - Len(s) = 2
    BY <1>3
  <2> QED
    BY <1>4, <2>1, <2>2
<1>6. \A t \in 1..Len(s) : (s \o u)[t] = s[t]
  BY <1>3, <1>4
<1> QED
  BY <1>2, <1>3, <1>4, <1>5, <1>6

LEMMA ClaimsAre ==
  ASSUME tick \in Nat, zone \in Int, NEW life \in Nat, NEW u \in Users,
         NEW rs \in SUBSET (SystemRoles \cup CustomRoles), NEW ps \in SUBSET Perms
  PROVE  /\ Claimed(u, rs, ps, life) \in Claims /\ Claimed(u, rs, ps, life).expires = tick + life
         /\ Claimed(u, rs, ps, life).exp <= tick + life + zone
         /\ Claimed(u, rs, ps, life).iat <= tick + zone
<1>1. ASSUME NEW t \in Nat PROVE Timestamp(t) \in Int /\ Timestamp(t) <= t + zone
  <2>1. PICK x \in Int : x = t + zone
    BY <1>1
  <2>2. (x \div 2) * 2 \in Int /\ (x \div 2) * 2 <= x
    OBVIOUS
  <2> QED
    BY <2>1, <2>2 DEF Timestamp
<1>2. tick + life \in Nat
  OBVIOUS
<1>3. PICK a, b : a = Timestamp(tick) /\ b = Timestamp(tick + life)
  OBVIOUS
<1>4. Claimed(u, rs, ps, life) =
        [user |-> u, roles |-> rs, perms |-> ps, iat |-> a, exp |-> b, expires |-> tick + life]
  BY <1>3 DEF Claimed
<1>5. a \in Int /\ b \in Int /\ a <= tick + zone /\ b <= tick + life + zone
  BY <1>1, <1>2, <1>3
<1> QED
  BY <1>2, <1>4, <1>5 DEF Claims

LEMMA LoginKeepsTokens ==
  ASSUME RolesInv, TokensInv, NEW u \in Users, Login(u)
  PROVE  TokensInv' /\ RefusedForGood
<1> DEFINE a == Claimed(u, rbacUsers[u], PermissionsOf(u), AccessLife)
           b == Claimed(u, {}, {}, RefreshLife)
           n == Len(issued)
<1>1. /\ issued \in Seq(Claims) /\ n \in Nat /\ tick \in Nat /\ AccessLife \in Nat /\ RefreshLife \in Nat
      /\ DOMAIN registry \subseteq 1..n /\ revoked \subseteq 1..n /\ zone \in Int
      /\ \A t \in DOMAIN registry : registry[t] \in Entries /\ registry[t].expires = issued[t].expires
      /\ \A t \in DOMAIN registry : registry[t].revoked <=> t \in revoked
  BY SecurityAssumption DEF TokensInv, Tokens, SecurityAssumption
<1>2. /\ issued' = issued \o <<a, b>> /\ tick' = tick /\ zone' = zone /\ revoked' = revoked
      /\ registry' = With(With(registry, n + 1, Registered(u, tick + AccessLife)),
                          n + 2, Registered(u, tick + RefreshLife))
      /\ u \in DOMAIN rbacUsers
  BY DEF Login
<1>3. /\ a \in Claims /\ b \in Claims /\ a.expires = tick + AccessLife /\ b.expires = tick + RefreshLife
      /\ a.exp <= a.expires + zone /\ b.exp <= b.expires + zone
      /\ a.iat <= tick + zone /\ b.iat <= tick + zone
  <2>1. rbacUsers[u] \subseteq DOMAIN rbacRoles /\ PermissionsOf(u) \subseteq Perms
    BY <1>2 DEF RolesInv, PermissionsOf
  <2>2. rbacUsers[u] \subseteq SystemRoles \cup CustomRoles
    BY <2>1 DEF RolesInv
  <2>3. /\ a \in Claims /\ a.expires = tick + AccessLife /\ a.exp <= tick + AccessLife + zone
        /\ a.iat <= tick + zone
    BY <1>1, <2>1, <2>2, ClaimsAre
  <2>4. /\ b \in Claims /\ b.expires = tick + RefreshLife /\ b.exp <= tick + RefreshLife + zone
        /\ b.iat <= tick + zone
    BY <1>1, ClaimsAre
  <2> QED
    BY <2>3, <2>4
<1> HIDE DEF a, b
<1>4. /\ issued' \in Seq(Claims) /\ Len(issued') = n + 2
      /\ \A t \in 1..n : issued'[t] = issued[t]
      /\ issued'[n + 1] = a /\ issued'[n + 2] = b
  BY <1>1, <1>2, <1>3, TwoIssued
<1>5. /\ DOMAIN registry' = DOMAIN registry \cup {n + 1, n + 2}
      /\ \A t \in DOMAIN registry : registry'[t] = registry[t]
      /\ registry'[n + 1] = Registered(u, tick + AccessLife) /\ registry'[n + 2] = Registered(u, tick + RefreshLife)
  <2>1. n + 1 # n + 2 /\ ~(n + 1 \in DOMAIN registry) /\ ~(n + 2 \in DOMAIN registry)
    BY <1>1
  <2> HIDE DEF n
  <2> QED
    BY <1>2, <2>1 DEF With
<1>6. /\ Registered(u, tick + AccessLife) \in Entries /\ Registered(u, tick + AccessLife).expires = a.expires
      /\ Registered(u, tick + RefreshLife) \in Entries /\ Registered(u, tick + RefreshLife).expires = b.expires
      /\ ~Registered(u, tick + AccessLife).revoked /\ ~Registered(u, tick + RefreshLife).revoked
  <2>1. tick + AccessLife \in Nat /\ tick + RefreshLife \in Nat
    BY <1>1
  <2> QED
    BY <1>3, <2>1 DEF Registered, Entries
<1>7. DOMAIN registry' \subseteq 1..Len(issued') /\ revoked' \subseteq 1..Len(issued')
  BY <1>1, <1>2, <1>4, <1>5
<1>8. \A t \in DOMAIN registry' : registry'[t] \in Entries /\ registry'[t].expires = issued'[t].expires
  BY <1>1, <1>4, <1>5, <1>6
<1>9. \A t \in DOMAIN registry' : registry'[t].revoked <=> t \in revoked'
  <2>1. n + 1 \notin revoked /\ n + 2 \notin revoked
    BY <1>1
  <2> QED
    BY <1>1, <1>2, <1>5, <1>6, <2>1
<1>10. \A t \in 1..Len(issued') :
         t \in Tokens \/ (t \in DOMAIN registry' /\ issued'[t].exp <= issued'[t].expires + zone
                                                 /\ issued'[t].iat <= tick' + zone)
  <2>1. ASSUME NEW t \in 1..Len(issued') PROVE t \in 1..n \/ t = n + 1 \/ t = n + 2
    BY <1>1, <1>4
  <2>2. Tokens = 1..n /\ n + 1 \in DOMAIN registry' /\ n + 2 \in DOMAIN registry' /\ tick' = tick
    BY <1>2, <1>5 DEF Tokens
  <2> HIDE DEF n
  <2>3. /\ issued'[n + 1].exp <= issued'[n + 1].expires + zone /\ issued'[n + 1].iat <= tick' + zone
        /\ issued'[n + 2].exp <= issued'[n + 2].expires + zone /\ issued'[n + 2].iat <= tick' + zone
    BY <1>3, <1>4, <2>2
  <2> QED
    BY <2>1, <2>2, <2>3
<1>11. Len(issued) <= Len(issued') /\ tick' \in Nat /\ tick <= tick' /\ \A t \in Tokens : issued'[t] = issued[t]
  BY <1>1, <1>2, <1>4 DEF Tokens
<1>12. \A t \in DOMAIN registry : t \in DOMAIN registry'
  BY <1>5
<1> QED
  BY <1>2, <1>4, <1>7, <1>8, <1>9, <1>10, <1>11, <1>12, TokensMove

LEMMA TokensStep ==
  ASSUME RolesInv, TokensInv, SecurityNext
  PROVE  TokensInv' /\ RefusedForGood
<1>1. /\ issued \in Seq(Claims) /\ Len(issued) \in Nat /\ tick \in Nat
      /\ DOMAIN registry \subseteq Tokens /\ revoked \subseteq Tokens /\ Tokens = 1..Len(issued)
      /\ \A t \in DOMAIN registry : registry[t] \in Entries /\ registry[t].expires = issued[t].expires
      /\ \A t \in DOMAIN registry : registry[t].revoked <=> t \in revoked
  BY DEF TokensInv, Tokens
<1>2. ASSUME issued' = issued, zone' = zone, tick' = tick \/ (tick' = tick + 1 /\ registry' = registry),
             DOMAIN registry' \subseteq DOMAIN registry, revoked \subseteq revoked', revoked' \subseteq Tokens,
             \A t \in DOMAIN registry' : /\ registry'[t] \in Entries /\ registry'[t].expires = registry[t].expires
                                         /\ registry'[t].revoked <=> t \in revoked',
             \A t \in DOMAIN registry : t \in DOMAIN registry' \/ registry[t].expires < tick'
      PROVE  TokensInv' /\ RefusedForGood
  <2>1. tick' \in Nat /\ tick <= tick' /\ Len(issued) <= Len(issued') /\ (tick' = tick \/ registry' = registry)
    BY <1>1, <1>2
  <2> QED
    BY <1>1, <1>2, <2>1, TokensMove
<1>3. ASSUME UNCHANGED <<issued, zone, revoked, registry>>, tick' = tick \/ tick' = tick + 1
      PROVE  TokensInv' /\ RefusedForGood
  BY <1>1, <1>2, <1>3
<1>4. ASSUME NEW t \in DOMAIN registry PROVE [registry[t] EXCEPT !.revoked = TRUE] \in Entries
                                             /\ [registry[t] EXCEPT !.revoked = TRUE].expires = registry[t].expires
                                             /\ [registry[t] EXCEPT !.revoked = TRUE].revoked
  BY <1>1 DEF Entries
<1>5. ASSUME NEW t \in Tokens, Logout(t) PROVE TokensInv' /\ RefusedForGood
  <2>1. issued' = issued /\ tick' = tick /\ zone' = zone /\ revoked' = revoked \cup ({t} \cap DOMAIN registry)
    BY <1>5 DEF Logout
  <2>2. CASE t \notin DOMAIN registry
    <3>1. revoked' = revoked /\ registry' = registry
      BY <1>5, <2>1, <2>2 DEF Logout
    <3> QED
      BY <1>3, <2>1, <3>1
  <2>3. CASE t \in DOMAIN registry
    <3>1. registry' = [registry EXCEPT ![t] = [registry[t] EXCEPT !.revoked = TRUE]]
      BY <1>5, <2>3 DEF Logout, Revoked
    <3>2. /\ DOMAIN registry' = DOMAIN registry
          /\ \A x \in DOMAIN registry :
               registry'[x] = IF x = t THEN [registry[t] EXCEPT !.revoked = TRUE] ELSE registry[x]
      BY <3>1
    <3>3. revoked' = revoked \cup {t}
      BY <2>1, <2>3
    <3>4. \A x \in DOMAIN registry' : /\ registry'[x] \in Entries /\ registry'[x].expires = registry[x].expires
                                      /\ registry'[x].revoked <=> x \in revoked'
      BY <1>1, <1>4, <2>3, <3>2, <3>3
    <3> QED
      BY <1>1, <1>2, <2>1, <3>2, <3>3, <3>4
  <2> QED
    BY <2>2, <2>3
<1>6. ASSUME NEW u \in Users, RevokeUserTokens(u) PROVE TokensInv' /\ RefusedForGood
  <2>1. /\ issued' = issued /\ tick' = tick /\ zone' = zone /\ DOMAIN registry' = DOMAIN registry
        /\ \A x \in DOMAIN registry :
             registry'[x] = IF registry[x].user = u THEN [registry[x] EXCEPT !.revoked = TRUE] ELSE registry[x]
        /\ revoked' = revoked \cup {t \in DOMAIN registry : registry[t].user = u}
    BY <1>6 DEF RevokeUserTokens
  <2>2. \A x \in DOMAIN registry : /\ registry'[x] \in Entries /\ registry'[x].expires = registry[x].expires
                                   /\ registry'[x].revoked <=> x \in revoked'
    BY <1>1, <1>4, <2>1
  <2>3. revoked \subseteq revoked' /\ revoked' \subseteq Tokens
    BY <1>1, <2>1
  <2> QED
    BY <1>2, <2>1, <2>2, <2>3
<1>7. CASE CleanupExpiredTokens
  <2>1. /\ issued' = issued /\ tick' = tick /\ zone' = zone /\ revoked' = revoked
        /\ DOMAIN registry' \subseteq DOMAIN registry
        /\ \A x \in DOMAIN registry' : registry'[x] = registry[x]
        /\ \A x \in DOMAIN registry : x \in DOMAIN registry' \/ registry[x].expires < tick
    BY <1>7 DEF CleanupExpiredTokens, Without
  <2> QED
    BY <1>1, <1>2, <2>1
<1>8. \/ \E u \in Users : Login(u) \/ RevokeUserTokens(u)
      \/ \E t \in Tokens : Logout(t)
      \/ CleanupExpiredTokens
      \/ UNCHANGED <<issued, zone, revoked, registry>> /\ (tick' = tick \/ tick' = tick + 1)
  BY DEF SecurityNext, LoginFails, CreateRole, DeleteRole, CreateUser, DeleteUser, AssignRole, RemoveRole,
         GrantPermission, ClearOldEvents, ClockTicks, tokenVars
<1> QED
  BY <1>3, <1>5, <1>6, <1>7, <1>8, LoginKeepsTokens

(***************************************************************************)
(* Users, roles, tokens and audit log together.                            *)
(***************************************************************************)
LEMMA SecurityStart ==
  ASSUME SecurityInit
  PROVE  SecurityInv
<1>1. rbacRoles = DefaultRoles /\ rbacUsers = <<>> /\ registry = <<>> /\ trail = <<>> /\ tick = 0 /\ issued = <<>>
      /\ logged = 0 /\ revoked = {} /\ zone \in Int
  BY SecurityAssumption DEF SecurityInit, SecurityAssumption
<1>2. RolesInv
  BY <1>1 DEF RolesInv, DefaultRoles
<1>3. TokensInv
  BY <1>1 DEF TokensInv, Tokens
<1>4. TrailInv
  BY <1>1, SecurityAssumption DEF TrailInv, InOrder, SecurityAssumption
<1> QED
  BY <1>2, <1>3, <1>4 DEF SecurityInv

LEMMA SecurityStep ==
  ASSUME SecurityInv, SecurityNext
  PROVE  SecurityInv' /\ RefusedForGood
BY TrailStep, RolesStep, TokensStep DEF SecurityInv, TokensInv

LEMMA SecurityStays ==
  ASSUME SecurityInv, UNCHANGED securityVars
  PROVE  SecurityInv' /\ RefusedForGood
<1>1. /\ rbacRoles' = rbacRoles /\ rbacUsers' = rbacUsers /\ registry' = registry /\ trail' = trail /\ tick' = tick
      /\ issued' = issued /\ logged' = logged /\ zone' = zone /\ revoked' = revoked
  BY DEF securityVars, tokenVars
<1>2. RolesInv' /\ TrailInv'
  BY <1>1 DEF SecurityInv, RolesInv, TrailInv, InOrder
<1>3. TokensInv' /\ RefusedForGood
  BY <1>1 DEF SecurityInv, TokensInv, Tokens, Expired, Immature, RefusedForGood, Verifies
<1> QED
  BY <1>2, <1>3 DEF SecurityInv

(* What the runs check follows.                                            *)
LEMMA SecurityHolds ==
  ASSUME SecurityInv
  PROVE  SecurityTypeOK /\ RolesExist /\ TrailUnbroken /\ RevocationsHold
<1>1. SecurityTypeOK
  BY DEF SecurityInv, RolesInv, TokensInv, TrailInv, InOrder, SecurityTypeOK
<1>2. RolesExist
  BY DEF SecurityInv, RolesInv, RolesExist, CheckPermission, PermissionsOf
<1>3. TrailUnbroken
  BY DEF SecurityInv, TrailInv, InOrder, TrailUnbroken
<1>4. RevocationsHold
  <2>1. /\ tick \in Nat /\ zone \in Int /\ issued \in Seq(Claims) /\ Tokens = 1..Len(issued)
        /\ revoked \subseteq Tokens
        /\ \A t \in Tokens : issued[t].exp <= issued[t].expires + zone
        /\ \A t \in Tokens : t \in DOMAIN registry \/ issued[t].expires < tick
        /\ \A t \in DOMAIN registry : registry[t].revoked <=> t \in revoked
    BY DEF SecurityInv, TokensInv, Tokens
  <2>2. ASSUME NEW t \in revoked, tick <= issued[t].expires \/ zone <= 0 PROVE ~Verifies(t)
    <3>1. CASE t \in DOMAIN registry
      BY <2>1, <3>1 DEF Verifies
    <3>2. CASE t \notin DOMAIN registry
      <4>1. issued[t] \in Claims
        BY <2>1
      <4>2. issued[t].expires \in Nat /\ issued[t].exp \in Int
        BY <4>1 DEF Claims
      <4>3. issued[t].expires < tick /\ issued[t].exp <= issued[t].expires + zone
        BY <2>1, <3>2
      <4>4. issued[t].exp <= tick
        BY <2>1, <2>2, <4>2, <4>3
      <4> QED
        BY <4>4 DEF Verifies, Expired
    <3> QED
      BY <3>1, <3>2
  <2> QED
    BY <2>2 DEF RevocationsHold
<1> QED
  BY <1>1, <1>2, <1>3, <1>4

(***************************************************************************)
(* Requests and their middleware.                                          *)
(***************************************************************************)
Of(A, c, from, to) == {a \in A : a[2] = c /\ from <= a[3] /\ a[3] <= to}

(* Admissions of one client that are each in a list.                       *)
LEMMA Listed ==
  ASSUME NEW A, NEW n, A \subseteq Requests \X Clients \X (0..n), NEW c, NEW from, NEW to,
         NEW R, IsFiniteSet(R), \A a \in Of(A, c, from, to) : <<a[1], a[3]>> \in R
  PROVE  /\ IsFiniteSet(Of(A, c, from, to)) /\ Cardinality(Of(A, c, from, to)) \in Nat
         /\ Cardinality(Of(A, c, from, to)) <= Cardinality(R)
<1> DEFINE O == Of(A, c, from, to)
           f == [a \in O |-> <<a[1], a[3]>>]
<1>1. \A a \in O : a \in Requests \X Clients \X (0..n) /\ a[2] = c
  BY DEF Of
<1> HIDE DEF O
<1>2. f \in [O -> R]
  BY DEF O
<1>3. ASSUME NEW a \in O, NEW b \in O, f[a] = f[b] PROVE a = b
  <2>1. a = <<a[1], a[2], a[3]>> /\ b = <<b[1], b[2], b[3]>>
    BY <1>1
  <2>2. <<a[1], a[3]>> = <<b[1], b[3]>> /\ a[2] = b[2]
    BY <1>1, <1>3
  <2>3. a[1] = b[1] /\ a[3] = b[3]
    BY <2>2
  <2> QED
    BY <2>1, <2>2, <2>3
<1> HIDE DEF f
<1>4. f \in Injection(O, R)
  BY <1>2, <1>3 DEF Injection, IsInjective
<1>5. IsFiniteSet(O) /\ Cardinality(O) <= Cardinality(R)
  BY <1>4, FS_Injection
<1> QED
  BY <1>5, FS_CardinalityType DEF O

Envelopes(n, A) ==
  \A c \in Clients, t \in 0..n :
    /\ Cardinality(Of(A, c, t, t + MinuteSpan - 1)) <= ClientPerMinute
    /\ Cardinality(Of(A, c, t, t + HourSpan - 1)) <= ClientPerHour

LEMMA EnvelopesAre == ClientEnvelopes <=> Envelopes(clock, admissions)
BY DEF ClientEnvelopes, Envelopes, AdmittedIn, Of

LEMMA EnvelopesNext == ClientEnvelopes' <=> Envelopes(clock', admissions')
BY DEF ClientEnvelopes, Envelopes, AdmittedIn, Of

LEMMA RequestSizes ==
  /\ MinuteSpan \in Nat /\ HourSpan \in Nat /\ MinuteSpan > 0 /\ HourSpan > 0 /\ MinuteSpan <= HourSpan
  /\ ClientPerMinute \in Nat /\ ClientPerHour \in Nat
BY RequestsAssumption DEF RequestsAssumption

LEMMA ListFinite ==
  ASSUME NEW n \in Nat, NEW R, R \subseteq Requests \X (0..n)
  PROVE  IsFiniteSet(R) /\ Cardinality(R) \in Nat
<1>1. IsFiniteSet(Requests \X (0..n))
  <2>1. IsFiniteSet(0..n)
    BY FS_Interval
  <2>2. IsFiniteSet(Requests)
    BY RequestsAssumption DEF RequestsAssumption
  <2> QED
    BY <2>1, <2>2, FS_Product
<1> QED
  BY <1>1, FS_Subset, FS_CardinalityType

LEMMA RecentFinite ==
  ASSUME clock \in Nat, ListsInv, NEW c \in Clients, NEW span
  PROVE  /\ Recent(c, span) \subseteq admittedAt[c] /\ Recent(c, span) \subseteq Requests \X (0..clock)
         /\ IsFiniteSet(Recent(c, span)) /\ Cardinality(Recent(c, span)) \in Nat
         /\ Cardinality(Recent(c, span)) <= Cardinality(admittedAt[c]) /\ Cardinality(admittedAt[c]) \in Nat
<1>1. admittedAt[c] \subseteq Requests \X (0..clock)
  BY DEF ListsInv
<1>2. Recent(c, span) \subseteq admittedAt[c]
  BY DEF Recent
<1>3. IsFiniteSet(admittedAt[c])
  BY <1>1, ListFinite
<1> QED
  BY <1>1, <1>2, <1>3, ListFinite, FS_Subset

(* One request more, while fewer than the limit are recent.                *)
LEMMA OneMoreAdmitted ==
  ASSUME clock \in Nat, ListsInv, NEW q \in Requests, NEW c \in Clients, NEW span \in Nat, span > 0, span <= HourSpan,
         NEW limit \in Nat, Cardinality(Recent(c, span)) < limit, NEW t \in 0..clock,
         clock <= t + span - 1
  PROVE  Cardinality(Of(admissions \cup {<<q, c, clock>>}, c, t, t + span - 1)) <= limit
<1> DEFINE O == Of(admissions, c, t, t + span - 1)
           e == <<q, c, clock>>
<1>1. admissions \subseteq Requests \X Clients \X (0..clock)
  BY DEF ListsInv
<1>2. ASSUME NEW a \in O PROVE <<a[1], a[3]>> \in Recent(c, span)
  <2>1. a \in admissions /\ a[2] = c /\ t <= a[3] /\ a[3] \in 0..clock
    BY <1>1 DEF Of
  <2>2. a[3] + span > clock /\ a[3] + HourSpan > clock
    BY <2>1, RequestSizes
  <2>3. <<a[1], a[3]>> \in admittedAt[c]
    BY <2>1, <2>2 DEF ListsInv
  <2> QED
    BY <2>2, <2>3 DEF Recent
<1>3. IsFiniteSet(O) /\ Cardinality(O) <= Cardinality(Recent(c, span)) /\ Cardinality(O) \in Nat
  <2> HIDE DEF O
  <2>1. IsFiniteSet(Recent(c, span))
    BY RecentFinite
  <2> QED
    BY <1>1, <1>2, <2>1, Listed DEF O
<1>4. Of(admissions \cup {e}, c, t, t + span - 1) \subseteq O \cup {e}
  BY DEF Of
<1> HIDE DEF O, e
<1>5. IsFiniteSet(O \cup {e}) /\ Cardinality(O \cup {e}) <= Cardinality(O) + 1 /\ Cardinality(O \cup {e}) \in Nat
  <2>1. /\ IsFiniteSet(O \cup {e})
        /\ Cardinality(O \cup {e}) = IF e \in O THEN Cardinality(O) ELSE Cardinality(O) + 1
    BY <1>3, FS_AddElement
  <2> QED
    BY <1>3, <2>1
<1>6. /\ Cardinality(Of(admissions \cup {e}, c, t, t + span - 1)) <= Cardinality(O \cup {e})
      /\ Cardinality(Of(admissions \cup {e}, c, t, t + span - 1)) \in Nat
  BY <1>4, <1>5, FS_Subset, FS_CardinalityType
<1>7. Cardinality(Recent(c, span)) \in Nat
  BY RecentFinite
<1> QED
  BY <1>3, <1>5, <1>6, <1>7 DEF e

LEMMA AdmitKeepsEnvelopes ==
  ASSUME clock \in Nat, ListsInv, ClientEnvelopes, NEW q \in Requests, NEW c \in Clients, Admit(q, c)
  PROVE  ClientEnvelopes'
<1>1. clock' = clock /\ admissions' = admissions \cup {<<q, c, clock>>} /\ ~OverLimit(c)
  BY DEF Admit
<1>2. Cardinality(Recent(c, MinuteSpan)) < ClientPerMinute /\ Cardinality(Recent(c, HourSpan)) < ClientPerHour
  BY <1>1, RequestSizes, RecentFinite DEF OverLimit
<1>3. ASSUME NEW d \in Clients, NEW t \in 0..clock, NEW span \in Nat, span > 0, span <= HourSpan, NEW limit \in Nat,
             Cardinality(Of(admissions, d, t, t + span - 1)) <= limit, Cardinality(Recent(c, span)) < limit
      PROVE  Cardinality(Of(admissions', d, t, t + span - 1)) <= limit
  <2>1. CASE d = c /\ clock <= t + span - 1
    BY <1>1, <1>3, <2>1, OneMoreAdmitted
  <2>2. CASE ~(d = c /\ clock <= t + span - 1)
    <3>1. Of(admissions', d, t, t + span - 1) = Of(admissions, d, t, t + span - 1)
      BY <1>1, <2>2 DEF Of
    <3> QED
      BY <1>3, <3>1
  <2> QED
    BY <2>1, <2>2
<1>4. Envelopes(clock, admissions)
  BY EnvelopesAre
<1>5. Envelopes(clock', admissions')
  <2>1. ASSUME NEW d \in Clients, NEW t \in 0..clock
        PROVE  /\ Cardinality(Of(admissions', d, t, t + MinuteSpan - 1)) <= ClientPerMinute
               /\ Cardinality(Of(admissions', d, t, t + HourSpan - 1)) <= ClientPerHour
    <3>1. /\ Cardinality(Of(admissions, d, t, t + MinuteSpan - 1)) <= ClientPerMinute
          /\ Cardinality(Of(admissions, d, t, t + HourSpan - 1)) <= ClientPerHour
      BY <1>4 DEF Envelopes
    <3> QED
      BY <1>2, <1>3, <3>1, RequestSizes
  <2> QED
    BY <1>1, <2>1 DEF Envelopes
<1> QED
  BY <1>5, EnvelopesNext

LEMMA TimeKeepsEnvelopes ==
  ASSUME clock \in Nat, ListsInv, ClientEnvelopes, TimeFlows
  PROVE  ClientEnvelopes'
<1>1. clock' = clock + 1 /\ admissions' = admissions
  BY DEF TimeFlows
<1>2. ASSUME NEW d, NEW to PROVE Cardinality(Of(admissions, d, clock + 1, to)) = 0
  <2>1. \A a \in admissions : a[3] \in 0..clock
    BY DEF ListsInv
  <2>2. Of(admissions, d, clock + 1, to) = {}
    BY <2>1 DEF Of
  <2> QED
    BY <2>2, FS_EmptySet
<1>3. Envelopes(clock, admissions)
  BY EnvelopesAre
<1>4. Envelopes(clock', admissions')
  <2>1. 0..(clock + 1) = (0..clock) \cup {clock + 1}
    OBVIOUS
  <2>2. ASSUME NEW d \in Clients, NEW t \in 0..(clock + 1)
        PROVE  /\ Cardinality(Of(admissions, d, t, t + MinuteSpan - 1)) <= ClientPerMinute
               /\ Cardinality(Of(admissions, d, t, t + HourSpan - 1)) <= ClientPerHour
    <3>1. CASE t \in 0..clock
      BY <1>3, <3>1 DEF Envelopes
    <3>2. CASE t = clock + 1
      BY <1>2, <3>2, RequestSizes
    <3> QED
      BY <2>1, <3>1, <3>2
  <2> QED
    BY <1>1, <2>2 DEF Envelopes
<1> QED
  BY <1>4, EnvelopesNext

LEMMA SameEnvelopes ==
  ASSUME ClientEnvelopes, clock' = clock, admissions' = admissions
  PROVE  ClientEnvelopes'
BY EnvelopesAre, EnvelopesNext

LEMMA AdmitKeepsRequests ==
  ASSUME RequestsInv, NEW q \in Requests, NEW c \in Clients, Admit(q, c)
  PROVE  RequestsInv'
<1>1. /\ clock \in Nat /\ ListsInv /\ RequestsTypeOK /\ ClientEnvelopes /\ BlocksHold
      /\ \A x \in DOMAIN blockedUntil : blockedUntil[x] \in Nat
  BY DEF RequestsInv, RequestsHold
<1>2. /\ clock' = clock /\ blockedUntil' = Unblocked(c)
      /\ admittedAt' = [admittedAt EXCEPT ![c] = Recent(c, HourSpan) \cup {<<q, clock>>}]
      /\ admissions' = admissions \cup {<<q, c, clock>>}
      /\ stage' = [stage EXCEPT ![q] = "handling"] /\ ~OverLimit(c)
  BY DEF Admit, StageOf
<1>3. /\ admittedAt \in [Clients -> SUBSET (Requests \X (0..clock))]
      /\ admissions \subseteq Requests \X Clients \X (0..clock)
      /\ \A a \in admissions : a[3] + HourSpan > clock => <<a[1], a[3]>> \in admittedAt[a[2]]
  BY <1>1 DEF ListsInv
<1>4. /\ DOMAIN blockedUntil' = DOMAIN blockedUntil \ {c}
      /\ \A x \in DOMAIN blockedUntil' : blockedUntil'[x] = blockedUntil[x]
  BY <1>2 DEF Unblocked
<1>5. /\ Recent(c, HourSpan) \subseteq Requests \X (0..clock) /\ IsFiniteSet(Recent(c, HourSpan))
      /\ Recent(c, HourSpan) = {a \in admittedAt[c] : a[2] + HourSpan > clock}
      /\ Cardinality(Recent(c, HourSpan)) < ClientPerHour
  <2>1. /\ Recent(c, HourSpan) \subseteq Requests \X (0..clock) /\ IsFiniteSet(Recent(c, HourSpan))
        /\ Cardinality(Recent(c, HourSpan)) \in Nat
    BY <1>1, RecentFinite
  <2> QED
    BY <1>2, <2>1, RequestSizes DEF OverLimit, Recent
<1>6. ASSUME NEW d \in Clients
      PROVE  /\ admittedAt'[d] \subseteq Requests \X (0..clock)
             /\ Cardinality(admittedAt'[d]) <= ClientPerHour
             /\ \A a \in admittedAt[d] : a[2] + HourSpan > clock => a \in admittedAt'[d]
             /\ d = c => <<q, clock>> \in admittedAt'[d]
  <2>1. CASE d = c
    <3>1. admittedAt'[d] = Recent(c, HourSpan) \cup {<<q, clock>>}
      BY <1>2, <1>3, <2>1
    <3>2. <<q, clock>> \in Requests \X (0..clock)
      BY <1>1
    <3>3. PICK R, e : R = Recent(c, HourSpan) /\ e = <<q, clock>>
      OBVIOUS
    <3>4. Cardinality(R \cup {e}) <= ClientPerHour
      <4>1. Cardinality(R \cup {e}) = IF e \in R THEN Cardinality(R) ELSE Cardinality(R) + 1
        BY <1>5, <3>3, FS_AddElement
      <4>2. Cardinality(R) \in Nat /\ Cardinality(R) < ClientPerHour /\ ClientPerHour \in Nat
        BY <1>5, <3>3, FS_CardinalityType, RequestSizes
      <4> QED
        BY <4>1, <4>2
    <3> QED
      BY <1>5, <2>1, <3>1, <3>2, <3>3, <3>4
  <2>2. CASE d # c
    <3>1. admittedAt'[d] = admittedAt[d]
      BY <1>2, <1>3, <2>2
    <3> QED
      BY <1>1, <1>3, <2>2, <3>1 DEF RequestsTypeOK
  <2> QED
    BY <2>1, <2>2
<1>7. RequestsTypeOK'
  BY <1>1, <1>2, <1>4, <1>6 DEF RequestsTypeOK
<1>8. ListsInv'
  <2>1. admittedAt' \in [Clients -> SUBSET (Requests \X (0..clock'))]
    BY <1>2, <1>3, <1>6
  <2>2. admissions' \subseteq Requests \X Clients \X (0..clock')
    BY <1>1, <1>2, <1>3
  <2>3. ASSUME NEW a \in admissions', a[3] + HourSpan > clock PROVE <<a[1], a[3]>> \in admittedAt'[a[2]]
    <3>1. CASE a \in admissions
      <4>1. a[2] \in Clients /\ <<a[1], a[3]>> \in admittedAt[a[2]] /\ <<a[1], a[3]>>[2] = a[3]
        BY <1>3, <2>3, <3>1
      <4> QED
        BY <1>6, <2>3, <4>1
    <3>2. CASE a = <<q, c, clock>>
      BY <1>6, <3>2
    <3> QED
      BY <1>2, <3>1, <3>2
  <2> QED
    BY <1>2, <2>1, <2>2, <2>3 DEF ListsInv
<1>9. ClientEnvelopes'
  BY <1>1, AdmitKeepsEnvelopes
<1>10. BlocksHold'
  BY <1>1, <1>2, <1>4 DEF BlocksHold
<1> QED
  BY <1>1, <1>2, <1>4, <1>7, <1>8, <1>9, <1>10 DEF RequestsInv, RequestsHold

LEMMA RefuseKeepsRequests ==
  ASSUME RequestsInv, NEW q \in Requests, NEW c \in Clients, Refuse(q, c)
  PROVE  RequestsInv'
<1>1. /\ clock \in Nat /\ ListsInv /\ RequestsTypeOK /\ ClientEnvelopes /\ BlocksHold
      /\ \A x \in DOMAIN blockedUntil : blockedUntil[x] \in Nat
  BY DEF RequestsInv, RequestsHold
<1>2. /\ clock' = clock /\ admissions' = admissions
      /\ stage' = [stage EXCEPT ![q] = "refused"]
  BY DEF Refuse, StageOf
<1>3. /\ admittedAt \in [Clients -> SUBSET (Requests \X (0..clock))]
      /\ admissions \subseteq Requests \X Clients \X (0..clock)
      /\ \A a \in admissions : a[3] + HourSpan > clock => <<a[1], a[3]>> \in admittedAt[a[2]]
  BY <1>1 DEF ListsInv
<1>4. \/ UNCHANGED <<admittedAt, blockedUntil>>
      \/ /\ admittedAt' = [admittedAt EXCEPT ![c] = Recent(c, HourSpan)]
         /\ blockedUntil' = [x \in DOMAIN blockedUntil \cup {c} |->
                               IF x = c THEN clock + HourSpan ELSE blockedUntil[x]]
  BY DEF Refuse
<1>5. /\ Recent(c, HourSpan) = {a \in admittedAt[c] : a[2] + HourSpan > clock}
      /\ Cardinality(Recent(c, HourSpan)) <= Cardinality(admittedAt[c])
      /\ Cardinality(Recent(c, HourSpan)) \in Nat /\ Cardinality(admittedAt[c]) \in Nat
  BY <1>1, RecentFinite DEF Recent
<1>6. ASSUME NEW d \in Clients
      PROVE  /\ admittedAt'[d] \subseteq Requests \X (0..clock)
             /\ Cardinality(admittedAt'[d]) <= ClientPerHour
             /\ \A a \in admittedAt[d] : a[2] + HourSpan > clock => a \in admittedAt'[d]
  <2>1. CASE admittedAt'[d] = admittedAt[d]
    BY <1>1, <1>3, <2>1 DEF RequestsTypeOK
  <2>2. CASE d = c /\ admittedAt'[d] = Recent(c, HourSpan)
    <3>1. Cardinality(admittedAt[c]) <= ClientPerHour
      BY <1>1 DEF RequestsTypeOK
    <3> QED
      BY <1>3, <1>5, <2>2, <3>1, RequestSizes
  <2> QED
    BY <1>3, <1>4, <2>1, <2>2
<1>7. /\ DOMAIN blockedUntil' \subseteq Clients
      /\ \A x \in DOMAIN blockedUntil' : blockedUntil'[x] \in Nat
      /\ \A x \in DOMAIN blockedUntil' : \/ x \in DOMAIN blockedUntil /\ blockedUntil'[x] = blockedUntil[x]
                                         \/ blockedUntil'[x] = clock + HourSpan
  <2>1. clock + HourSpan \in Nat
    BY <1>1, RequestSizes
  <2> QED
    BY <1>1, <1>4, <2>1 DEF RequestsTypeOK
<1>8. RequestsTypeOK'
  BY <1>1, <1>2, <1>6, <1>7 DEF RequestsTypeOK
<1>9. ListsInv'
  <2>1. admittedAt' \in [Clients -> SUBSET (Requests \X (0..clock'))]
    <3>1. admittedAt' = [d \in Clients |-> admittedAt'[d]]
      BY <1>3, <1>4
    <3> QED
      BY <1>2, <1>6, <3>1
  <2>2. ASSUME NEW a \in admissions, a[3] + HourSpan > clock PROVE <<a[1], a[3]>> \in admittedAt'[a[2]]
    <3>1. a[2] \in Clients /\ <<a[1], a[3]>> \in admittedAt[a[2]] /\ <<a[1], a[3]>>[2] = a[3]
      BY <1>3, <2>2
    <3> QED
      BY <1>6, <2>2, <3>1
  <2> QED
    BY <1>2, <1>3, <2>1, <2>2 DEF ListsInv
<1>10. ClientEnvelopes'
  BY <1>1, <1>2, SameEnvelopes
<1>11. BlocksHold'
  <2>1. ASSUME NEW x \in DOMAIN blockedUntil', NEW a \in admissions, a[2] = x
        PROVE  a[3] + HourSpan <= blockedUntil'[x]
    <3>1. a[3] \in 0..clock
      BY <1>3
    <3>2. a[3] + HourSpan <= clock + HourSpan
      BY <1>1, <3>1, RequestSizes
    <3> QED
      BY <1>1, <1>7, <2>1, <3>2 DEF BlocksHold
  <2> QED
    BY <1>2, <2>1 DEF BlocksHold
<1> QED
  BY <1>1, <1>2, <1>7, <1>8, <1>9, <1>10, <1>11 DEF RequestsInv, RequestsHold

(* The steps that touch no list.                                           *)
LEMMA StageKeepsRequests ==
  ASSUME RequestsInv, UNCHANGED <<admittedAt, blockedUntil, admissions>>,
         \/ TimeFlows
         \/ clock' = clock /\ \E q \in Requests : Filtered(q) \/ Handle(q) \/ Answer(q)
         \/ UNCHANGED requestVars
  PROVE  RequestsInv'
<1>1. /\ clock \in Nat /\ ListsInv /\ RequestsTypeOK /\ ClientEnvelopes /\ BlocksHold
      /\ \A x \in DOMAIN blockedUntil : blockedUntil[x] \in Nat
  BY DEF RequestsInv, RequestsHold
<1>2. clock' \in Nat /\ clock <= clock'
  BY <1>1 DEF TimeFlows, requestVars
<1>3. ClientEnvelopes'
  <2>1. TimeFlows \/ clock' = clock
    BY DEF requestVars
  <2> QED
    BY <1>1, <2>1, TimeKeepsEnvelopes, SameEnvelopes
<1>4. ListsInv'
  <2>1. 0..clock \subseteq 0..clock'
    BY <1>1, <1>2
  <2>2. /\ admittedAt \in [Clients -> SUBSET (Requests \X (0..clock))]
        /\ admissions \subseteq Requests \X Clients \X (0..clock)
        /\ \A a \in admissions : a[3] + HourSpan > clock => <<a[1], a[3]>> \in admittedAt[a[2]]
    BY <1>1 DEF ListsInv
  <2>3. Requests \X (0..clock) \subseteq Requests \X (0..clock')
    BY <2>1
  <2>4. Requests \X Clients \X (0..clock) \subseteq Requests \X Clients \X (0..clock')
    BY <2>1
  <2>5. \A a \in admissions : a[3] + HourSpan > clock' => a[3] + HourSpan > clock
    BY <1>1, <1>2, <2>2, RequestSizes
  <2> QED
    BY <2>2, <2>3, <2>4, <2>5 DEF ListsInv
<1>5. BlocksHold'
  BY <1>1 DEF BlocksHold
<1>6. stage' \in [Requests -> {"new", "refused", "handling", "done", "slow", "raised", "answered", "failed"}]
  <2>1. CASE stage' = stage
    BY <1>1, <2>1 DEF RequestsTypeOK
  <2>2. ASSUME NEW q \in Requests, Filtered(q) \/ Handle(q) \/ Answer(q) PROVE <1>6
    BY <1>1, <2>2 DEF RequestsTypeOK, Filtered, Handle, Answer, StageOf
  <2> QED
    BY <2>1, <2>2 DEF TimeFlows, requestVars
<1>7. RequestsTypeOK'
  BY <1>1, <1>6 DEF RequestsTypeOK
<1> QED
  BY <1>1, <1>2, <1>3, <1>4, <1>5, <1>7 DEF RequestsInv, RequestsHold

LEMMA RequestsStep ==
  ASSUME RequestsInv, RequestsNext
  PROVE  RequestsInv'
<1>1. ASSUME NEW q \in Requests, Filtered(q) \/ Handle(q) \/ Answer(q) PROVE RequestsInv'
  <2>1. UNCHANGED <<admittedAt, blockedUntil, admissions>> /\ clock' = clock
    BY <1>1 DEF Filtered, Handle, Answer
  <2> QED
    BY <1>1, <2>1, StageKeepsRequests
<1>2. CASE TimeFlows
  <2>1. UNCHANGED <<admittedAt, blockedUntil, admissions>>
    BY <1>2 DEF TimeFlows
  <2> QED
    BY <1>2, <2>1, StageKeepsRequests
<1> QED
  BY <1>1, <1>2, AdmitKeepsRequests, RefuseKeepsRequests DEF RequestsNext

LEMMA RequestsStay ==
  ASSUME RequestsInv, UNCHANGED requestVars
  PROVE  RequestsInv'
<1>1. UNCHANGED <<admittedAt, blockedUntil, admissions>>
  BY DEF requestVars
<1> QED
  BY <1>1, StageKeepsRequests

LEMMA RequestsStart ==
  ASSUME RequestsInit
  PROVE  RequestsInv
<1>1. /\ clock = 0 /\ admittedAt = [c \in Clients |-> {}] /\ blockedUntil = <<>>
      /\ stage = [q \in Requests |-> "new"] /\ admissions = {}
  BY DEF RequestsInit
<1>2. ListsInv
  BY <1>1 DEF ListsInv
<1>3. RequestsTypeOK
  BY <1>1, FS_EmptySet, RequestSizes DEF RequestsTypeOK
<1>4. ClientEnvelopes
  <2>1. \A c, from, to : Of(admissions, c, from, to) = {}
    BY <1>1 DEF Of
  <2> QED
    BY <2>1, EnvelopesAre, FS_EmptySet, RequestSizes DEF Envelopes
<1>5. BlocksHold
  BY <1>1 DEF BlocksHold
<1> QED
  BY <1>1, <1>2, <1>3, <1>4, <1>5 DEF RequestsInv, RequestsHold

(***************************************************************************)
(* Consents.                                                               *)
(***************************************************************************)
DistinctIds(s) == \A i, j \in 1..Len(s) : s[i].id = s[j].id => i = j

LEMMA FewConsents ==
  ASSUME NEW s \in Seq(Consents), DistinctIds(s)
  PROVE  Len(s) <= Cardinality(ConsentIds)
<1> DEFINE f == [i \in 1..Len(s) |-> s[i].id]
<1>1. Len(s) \in Nat
  OBVIOUS
<1>2. ASSUME NEW i \in 1..Len(s) PROVE s[i].id \in ConsentIds
  <2>1. s[i] \in Consents
    BY <1>2
  <2> QED
    BY <2>1 DEF Consents
<1>3. f \in Injection(1..Len(s), ConsentIds)
  BY <1>2 DEF Injection, IsInjective, DistinctIds
<1>4. IsFiniteSet(ConsentIds)
  BY ComplianceAssumption DEF ComplianceAssumption
<1> HIDE DEF f
<1>5. Cardinality(1..Len(s)) <= Cardinality(ConsentIds)
  BY <1>3, <1>4, FS_Injection
<1>6. Cardinality(1..Len(s)) = Len(s)
  <2>1. Cardinality(1..Len(s)) = IF 1 > Len(s) THEN 0 ELSE Len(s) - 1 + 1
    BY <1>1, FS_Interval
  <2> QED
    BY <1>1, <2>1
<1> QED
  BY <1>5, <1>6

LEMMA AListOf ==
  ASSUME NEW S, NEW n \in Nat, NEW f, f = [i \in 1..n |-> f[i]], \A i \in 1..n : f[i] \in S
  PROVE  f \in Seq(S) /\ Len(f) = n
<1>1. f \in [1..n -> S]
  OBVIOUS
<1> QED
  BY <1>1

LEMMA RecordKeeps ==
  ASSUME ConsentInv, NEW id \in ConsentIds, NEW type \in ConsentTypes, NEW given \in BOOLEAN,
         NEW expires \in 0..LastDay + 1, RecordConsent(id, type, given, expires)
  PROVE  ConsentInv'
<1> DEFINE c == [id |-> id, type |-> type, given |-> given, expires |-> expires, withdrawn |-> FALSE]
<1>1. consents \in Seq(Consents) /\ today \in Nat /\ recorded \in Nat /\ DistinctIds(consents) /\ Len(consents) \in Nat
  BY DEF ConsentInv, DistinctIds
<1>2. c \in Consents /\ c.id = id
  <2>1. expires \in Nat
    BY ComplianceAssumption DEF ComplianceAssumption
  <2> QED
    BY <2>1 DEF Consents
<1>3. recorded' \in Nat /\ today' \in Nat /\ (consents' = consents \/ consents' = Stored(c))
  BY <1>1 DEF RecordConsent
<1> HIDE DEF c
<1>4. Stored(c) \in Seq(Consents) /\ DistinctIds(Stored(c))
  <2>1. CASE Place(id) = {}
    <3>1. Stored(c) = Append(consents, c)
      BY <1>2, <2>1 DEF Stored
    <3>2. /\ Append(consents, c) \in Seq(Consents) /\ Len(Append(consents, c)) = Len(consents) + 1
          /\ \A i \in 1..Len(consents) : Append(consents, c)[i] = consents[i]
          /\ Append(consents, c)[Len(consents) + 1] = c
      BY <1>1, <1>2, Appended
    <3>3. 1..(Len(consents) + 1) = 1..Len(consents) \cup {Len(consents) + 1}
      BY <1>1
    <3>4. \A i \in 1..Len(consents) : consents[i].id # id
      BY <2>1 DEF Place
    <3>5. PICK u, n : u = Append(consents, c) /\ n = Len(consents)
      OBVIOUS
    <3>6. DistinctIds(u)
      BY <1>1, <1>2, <3>2, <3>3, <3>4, <3>5 DEF DistinctIds
    <3> QED
      BY <3>1, <3>2, <3>5, <3>6
  <2>2. CASE Place(id) # {}
    <3>1. Stored(c) = [i \in 1..Len(consents) |-> IF i \in Place(id) THEN c ELSE consents[i]]
      BY <1>2, <2>2 DEF Stored
    <3>2. PICK u : u = Stored(c)
      OBVIOUS
    <3>3. \A i \in 1..Len(consents) : u[i] = IF i \in Place(id) THEN c ELSE consents[i]
      BY <3>1, <3>2
    <3>4. \A i \in 1..Len(consents) : u[i] \in Consents /\ u[i].id = consents[i].id
      <4>1. ASSUME NEW i \in 1..Len(consents) PROVE u[i] \in Consents /\ u[i].id = consents[i].id
        <5>1. CASE i \in Place(id)
          BY <1>2, <3>3, <5>1 DEF Place
        <5>2. CASE i \notin Place(id)
          BY <1>1, <3>3, <5>2
        <5> QED
          BY <5>1, <5>2
      <4> QED
        BY <4>1
    <3>5. u \in Seq(Consents) /\ Len(u) = Len(consents)
      <4>1. u = [i \in 1..Len(consents) |-> u[i]]
        BY <3>1, <3>2
      <4> QED
        BY <1>1, <3>4, <4>1, AListOf
    <3> QED
      BY <1>1, <3>2, <3>4, <3>5 DEF DistinctIds
  <2> QED
    BY <2>1, <2>2
<1> QED
  BY <1>1, <1>3, <1>4 DEF ConsentInv, DistinctIds

Valid(c, day) == c.given /\ ~c.withdrawn /\ day < c.expires

LEMMA ChecksAre ==
  ASSUME NEW type
  PROVE  /\ CheckUserConsent(type) <=> \E i \in Found(type) : Valid(consents[i], today)
         /\ CheckUserConsent(type)' <=> \E i \in Found(type)' : Valid(consents'[i], today')
BY DEF CheckUserConsent, IsValid, Valid

LEMMA WithdrawKeeps ==
  ASSUME ConsentInv, NEW id \in ConsentIds, Withdraw(id)
  PROVE  ConsentInv' /\ ConsentNotRevived
<1>1. consents \in Seq(Consents) /\ today \in Nat /\ recorded \in Nat /\ Len(consents) \in Nat
  BY DEF ConsentInv
<1>2. /\ today' = today /\ recorded' = recorded
      /\ consents' = [i \in 1..Len(consents) |->
                        IF i \in Place(id) THEN [consents[i] EXCEPT !.withdrawn = TRUE] ELSE consents[i]]
  BY DEF Withdraw
<1>3. ASSUME NEW i \in 1..Len(consents)
      PROVE  /\ consents'[i] \in Consents /\ consents'[i].id = consents[i].id
             /\ consents'[i].type = consents[i].type
             /\ Valid(consents'[i], today') => Valid(consents[i], today)
  <2>1. consents[i] \in Consents
    BY <1>1
  <2>2. consents'[i] = [consents[i] EXCEPT !.withdrawn = TRUE] \/ consents'[i] = consents[i]
    BY <1>2
  <2>3. /\ consents'[i] \in Consents /\ consents'[i].id = consents[i].id /\ consents'[i].type = consents[i].type
        /\ consents'[i].given = consents[i].given /\ consents'[i].expires = consents[i].expires
        /\ ~consents'[i].withdrawn => ~consents[i].withdrawn
    BY <2>1, <2>2 DEF Consents
  <2> QED
    BY <1>2, <2>3 DEF Valid
<1>4. consents' \in Seq(Consents) /\ Len(consents') = Len(consents)
  <2>1. consents' = [i \in 1..Len(consents) |-> consents'[i]]
    BY <1>2
  <2> QED
    BY <1>1, <1>3, <2>1, AListOf
<1>5. ConsentInv'
  BY <1>1, <1>2, <1>3, <1>4 DEF ConsentInv
<1>6. \A type : Found(type)' = Found(type)
  BY <1>3, <1>4 DEF Found
<1>7. \A type : CheckUserConsent(type)' => CheckUserConsent(type)
  <2>1. ASSUME NEW type, NEW i \in Found(type), Valid(consents'[i], today') PROVE Valid(consents[i], today)
    <3>1. i \in 1..Len(consents)
      BY DEF Found
    <3> QED
      BY <1>3, <2>1, <3>1
  <2> QED
    BY <1>6, <2>1, ChecksAre
<1> QED
  BY <1>5, <1>7 DEF ConsentNotRevived

(* The day, and every step that leaves the consents alone.                 *)
LEMMA LaterConsents ==
  ASSUME ConsentInv, consents' = consents, recorded' = recorded, today' = today \/ today' = today + 1
  PROVE  ConsentInv' /\ ConsentNotRevived
<1>1. consents \in Seq(Consents) /\ today \in Nat /\ recorded \in Nat /\ Len(consents) \in Nat
  BY DEF ConsentInv
<1>2. ConsentInv'
  BY <1>1 DEF ConsentInv
<1>3. ASSUME NEW i \in 1..Len(consents), Valid(consents'[i], today') PROVE Valid(consents[i], today)
  <2>1. consents[i] \in Consents
    BY <1>1
  <2>2. consents[i].expires \in Nat
    BY <2>1 DEF Consents
  <2> QED
    BY <1>1, <1>3, <2>2 DEF Valid
<1>4. \A type : CheckUserConsent(type)' => CheckUserConsent(type)
  <2>1. \A type : Found(type)' = Found(type) /\ Found(type) \subseteq 1..Len(consents)
    BY DEF Found
  <2> QED
    BY <1>3, <2>1, ChecksAre
<1> QED
  BY <1>2, <1>4 DEF ConsentNotRevived

LEMMA ConsentStep ==
  ASSUME ConsentInv, ConsentNext
  PROVE  ConsentInv' /\ ConsentNotRevived
<1>1. ASSUME NEW id \in ConsentIds, NEW type \in ConsentTypes, NEW given \in BOOLEAN,
             NEW expires \in 0..LastDay + 1, RecordConsent(id, type, given, expires)
      PROVE  ConsentInv' /\ ConsentNotRevived
  <2>1. recorded' = recorded + 1
    BY <1>1 DEF RecordConsent
  <2> QED
    BY <1>1, <2>1, RecordKeeps DEF ConsentNotRevived
<1>2. ASSUME DayPasses PROVE ConsentInv' /\ ConsentNotRevived
  BY <1>2, LaterConsents DEF DayPasses
<1> QED
  BY <1>1, <1>2, WithdrawKeeps DEF ConsentNext

(***************************************************************************)
(* Requirements and percentages.                                           *)
(***************************************************************************)
(* The pair that Overall is, of v requirements verified of r, none of them *)
(* where none, and g checks of gdpr_data.                                  *)
Share(none, v, r, g) ==
  CASE none /\ g = -1 -> <<0, 1>>
    [] none -> <<100 * g, GdprChecks>>
    [] g = -1 -> <<100 * v, r>>
    [] OTHER -> <<100 * g * r + 100 * v * GdprChecks, 2 * GdprChecks * r>>

LEMMA OverallIs ==
  /\ Overall = Share(verified = {}, Cardinality(verified), Cardinality(registered), gdpr)
  /\ Overall' = Share(verified' = {}, Cardinality(verified'), Cardinality(registered'), gdpr')
BY DEF Overall, RequirementShare, GdprShare, Share

LEMMA ShareBelow ==
  ASSUME NEW none \in BOOLEAN, NEW v \in Nat, NEW r \in Nat, v <= r, NEW g \in -1..GdprChecks
  PROVE  Share(none, v, r, g)[1] <= 100 * Share(none, v, r, g)[2]
<1>1. PICK G : G = GdprChecks
  OBVIOUS
<1>2. G \in Nat /\ g \in Int /\ g <= G
  BY <1>1, ComplianceAssumption DEF ComplianceAssumption
<1>3. g * r <= G * r /\ v * G <= r * G
  BY <1>2, Multiples
<1>4. 100 * g * r + 100 * v * G <= 100 * (2 * G * r)
  BY <1>2, <1>3
<1>5. CASE none /\ g = -1
  BY <1>5 DEF Share
<1>6. CASE none /\ g # -1
  BY <1>1, <1>2, <1>6 DEF Share
<1>7. CASE ~none /\ g = -1
  BY <1>7 DEF Share
<1>8. CASE ~none /\ g # -1
  <2>1. Share(none, v, r, g) = <<100 * g * r + 100 * v * G, 2 * G * r>>
    BY <1>1, <1>8 DEF Share
  <2> QED
    BY <1>4, <2>1
<1> QED
  BY <1>5, <1>6, <1>7, <1>8

LEMMA Countable ==
  ASSUME NEW R \in SUBSET Requirements, NEW V \in SUBSET R
  PROVE  Cardinality(V) \in Nat /\ Cardinality(R) \in Nat /\ Cardinality(V) <= Cardinality(R) /\ IsFiniteSet(R)
<1>1. IsFiniteSet(R)
  BY ComplianceAssumption, FS_Subset DEF ComplianceAssumption
<1> QED
  BY <1>1, FS_Subset, FS_CardinalityType

LEMMA PercentageGrows ==
  ASSUME verified \subseteq registered, registered \subseteq Requirements, gdpr \in -1..GdprChecks,
         verified' \subseteq registered'
  PROVE  OverallGrows
<1> SUFFICES ASSUME verified # {}, verified \subseteq verified', registered' = registered, gdpr' = gdpr
             PROVE  Overall[1] * Overall'[2] <= Overall'[1] * Overall[2]
  <2>1. Overall[1] <= 100 * Overall[2]
    BY OverallIs, Countable, ShareBelow
  <2> QED
    BY <2>1 DEF OverallGrows
<1>1. PICK v, w, r, g, G : /\ v = Cardinality(verified) /\ w = Cardinality(verified') /\ r = Cardinality(registered)
                           /\ g = gdpr /\ G = GdprChecks
  OBVIOUS
<1>2. v \in Nat /\ w \in Nat /\ r \in Nat /\ v <= w /\ G \in Nat /\ g \in Int
  <2>1. IsFiniteSet(registered) /\ v \in Nat /\ w \in Nat /\ r \in Nat
    BY <1>1, Countable
  <2>2. IsFiniteSet(verified')
    BY <2>1, FS_Subset
  <2>3. v <= w
    BY <1>1, <2>2, FS_Subset
  <2> QED
    BY <1>1, <2>1, <2>3, ComplianceAssumption DEF ComplianceAssumption
<1>3. /\ Overall = IF g = -1 THEN <<100 * v, r>> ELSE <<100 * g * r + 100 * v * G, 2 * G * r>>
      /\ Overall' = IF g = -1 THEN <<100 * w, r>> ELSE <<100 * g * r + 100 * w * G, 2 * G * r>>
  BY <1>1, OverallIs DEF Share
<1>4. CASE g = -1
  <2>1. (100 * v) * r <= (100 * w) * r
    <3>1. 100 * v \in Int /\ 100 * w \in Int /\ 100 * v <= 100 * w
      BY <1>2
    <3> QED
      BY <1>2, <3>1, Multiples
  <2> QED
    BY <1>3, <1>4, <2>1
<1>5. CASE g # -1
  <2>1. PICK n, m, d : n = 100 * g * r + 100 * v * G /\ m = 100 * g * r + 100 * w * G /\ d = 2 * G * r
    OBVIOUS
  <2>2. v * G <= w * G
    BY <1>2, Multiples
  <2>3. n \in Int /\ m \in Int /\ d \in Nat /\ n <= m
    BY <1>2, <2>1, <2>2
  <2>4. n * d <= m * d
    BY <2>3, Multiples
  <2>5. Overall = <<n, d>> /\ Overall' = <<m, d>>
    BY <1>3, <1>5, <2>1
  <2> QED
    BY <2>4, <2>5
<1> QED
  BY <1>4, <1>5

StatusOK == verified \subseteq registered /\ gdpr \in -1..GdprChecks /\ StatusInv

LEMMA StatusStep ==
  ASSUME StatusOK, StatusNext \/ UNCHANGED statusVars
  PROVE  StatusOK' /\ OverallGrows
<1>1. verified \subseteq registered /\ registered \subseteq Requirements /\ gdpr \in -1..GdprChecks
  BY DEF StatusOK, StatusInv
<1>2. verified' \subseteq registered' /\ registered' \subseteq Requirements /\ gdpr' \in -1..GdprChecks
  <2>1. \A n \in 0..GdprChecks : n \in -1..GdprChecks
    BY ComplianceAssumption DEF ComplianceAssumption
  <2>2. CASE UNCHANGED statusVars
    BY <1>1, <2>2 DEF statusVars
  <2>3. CASE \E r \in Requirements : AddRequirement(r)
    BY <1>1, <2>3 DEF AddRequirement
  <2>4. CASE \E r \in Requirements : UpdateRequirementStatus(r)
    BY <1>1, <2>4 DEF UpdateRequirementStatus
  <2>5. CASE \E n \in 0..GdprChecks : RegisterGdprCompliance(n)
    BY <1>1, <2>1, <2>5 DEF RegisterGdprCompliance
  <2> QED
    BY <2>2, <2>3, <2>4, <2>5 DEF StatusNext
<1>3. OverallGrows
  BY <1>1, <1>2, PercentageGrows
<1>4. Overall'[1] <= 100 * Overall'[2]
  BY <1>2, OverallIs, Countable, ShareBelow
<1> QED
  BY <1>2, <1>3, <1>4 DEF StatusOK, StatusInv

(***************************************************************************)
(* Configuration.                                                          *)
(***************************************************************************)
Latest(s, k, kind) ==
  {s[i].value : i \in
     {i \in 1..Len(s) :
        /\ s[i].key = k /\ s[i].kind = kind
        /\ \A j \in 1..Len(s) : s[j].key = k /\ s[j].kind = kind => j <= i}}

LEMMA LatestIs ==
  /\ \A k, kind : LatestOf(k, kind) = Latest(settings, k, kind)
  /\ \A k, kind : LatestOf(k, kind)' = Latest(settings', k, kind)
BY DEF LatestOf, Latest

LEMMA LatestAfter ==
  ASSUME NEW s \in Seq(Settings), NEW x \in Settings
  PROVE  \A k, kind : Latest(Append(s, x), k, kind) = IF k = x.key /\ kind = x.kind THEN {x.value} ELSE Latest(s, k, kind)
<1>1. PICK u, n : u = Append(s, x) /\ n = Len(s)
  OBVIOUS
<1>2. /\ Len(u) = n + 1 /\ n \in Nat /\ u[n + 1] = x
      /\ \A i \in 1..n : u[i] = s[i]
  BY <1>1, Appended
<1>3. 1..(n + 1) = 1..n \cup {n + 1} /\ \A i \in 1..n : i <= n + 1 /\ ~(n + 1 <= i)
  BY <1>2
<1>4. ASSUME NEW k, NEW kind, k = x.key /\ kind = x.kind PROVE Latest(u, k, kind) = {x.value}
  <2>1. {i \in 1..(n + 1) : /\ u[i].key = k /\ u[i].kind = kind
                            /\ \A j \in 1..(n + 1) : u[j].key = k /\ u[j].kind = kind => j <= i} = {n + 1}
    BY <1>2, <1>3, <1>4
  <2> QED
    BY <1>2, <2>1 DEF Latest
<1>5. ASSUME NEW k, NEW kind, ~(k = x.key /\ kind = x.kind) PROVE Latest(u, k, kind) = Latest(s, k, kind)
  <2>1. {i \in 1..(n + 1) : /\ u[i].key = k /\ u[i].kind = kind
                            /\ \A j \in 1..(n + 1) : u[j].key = k /\ u[j].kind = kind => j <= i}
        = {i \in 1..n : /\ s[i].key = k /\ s[i].kind = kind
                        /\ \A j \in 1..n : s[j].key = k /\ s[j].kind = kind => j <= i}
    BY <1>2, <1>3, <1>5
  <2>2. PICK I : I = {i \in 1..n : /\ s[i].key = k /\ s[i].kind = kind
                                   /\ \A j \in 1..n : s[j].key = k /\ s[j].kind = kind => j <= i}
    OBVIOUS
  <2>3. Latest(u, k, kind) = {u[i].value : i \in I} /\ Latest(s, k, kind) = {s[i].value : i \in I}
    BY <1>1, <1>2, <2>1, <2>2 DEF Latest
  <2> QED
    BY <1>2, <2>2, <2>3
<1> QED
  BY <1>1, <1>4, <1>5

LEMMA ConfigIs ==
  ASSUME \A k \in ConfigKeys : LatestOf(k, "secret") = At(secrets, k) /\ LatestOf(k, "plain") = At(config, k)
  PROVE  SecretsShadow
BY DEF SecretsShadow, GetConfig, At

ConfigOK == DOMAIN config \cup DOMAIN secrets \subseteq ConfigKeys /\ ConfigInv

LEMMA SetKeeps ==
  ASSUME ConfigOK, NEW k \in ConfigKeys, NEW v \in ConfigValues, NEW encrypt \in BOOLEAN, SetConfig(k, v, encrypt)
  PROVE  ConfigOK'
<1> DEFINE kind == IF encrypt THEN "secret" ELSE "plain"
           x == [key |-> k, value |-> v, kind |-> kind]
<1>1. /\ settings \in Seq(Settings)
      /\ \A c \in ConfigKeys : Latest(settings, c, "secret") = At(secrets, c) /\ Latest(settings, c, "plain") = At(config, c)
  BY LatestIs DEF ConfigOK, ConfigInv
<1>2. x \in Settings /\ x.key = k /\ x.value = v /\ x.kind = kind /\ kind # "deleted"
  BY DEF Settings
<1>3. /\ settings' = Append(settings, x)
      /\ secrets' = IF encrypt THEN Put(secrets, k, v) ELSE secrets
      /\ config' = IF encrypt THEN config ELSE Put(config, k, v)
  BY DEF SetConfig
<1>4. settings' \in Seq(Settings)
  <2> HIDE DEF x
  <2> QED BY <1>1, <1>2, <1>3, Appended
<1>5. DOMAIN config' \cup DOMAIN secrets' \subseteq ConfigKeys
  BY <1>3 DEF ConfigOK, Put
<1>6. \A f, c : At(Put(f, k, v), c) = IF c = k THEN {v} ELSE At(f, c)
  BY DEF At, Put
<1>7. \A c, n : Latest(settings', c, n) = IF c = k /\ n = kind THEN {v} ELSE Latest(settings, c, n)
  <2> HIDE DEF x, kind
  <2> QED BY <1>1, <1>2, <1>3, LatestAfter
<1>8. ASSUME NEW c \in ConfigKeys
      PROVE  Latest(settings', c, "secret") = At(secrets', c) /\ Latest(settings', c, "plain") = At(config', c)
  <2>1. CASE encrypt
    BY <1>1, <1>3, <1>6, <1>7, <2>1
  <2>2. CASE ~encrypt
    BY <1>1, <1>3, <1>6, <1>7, <2>2
  <2> QED
    BY <2>1, <2>2
<1>9. \A c \in ConfigKeys : LatestOf(c, "secret")' = At(secrets, c)' /\ LatestOf(c, "plain")' = At(config, c)'
  BY <1>8, LatestIs DEF At
<1>10. SecretsShadow'
  BY <1>9 DEF SecretsShadow, GetConfig, At
<1> QED
  BY <1>4, <1>5, <1>9, <1>10 DEF ConfigOK, ConfigInv

LEMMA DeleteKeeps ==
  ASSUME ConfigOK, NEW ks \in SUBSET ConfigKeys, DeleteSecrets(ks)
  PROVE  ConfigOK'
<1>1. /\ settings \in Seq(Settings) /\ Len(settings) \in Nat
      /\ \A c \in ConfigKeys : Latest(settings, c, "secret") = At(secrets, c) /\ Latest(settings, c, "plain") = At(config, c)
  BY LatestIs DEF ConfigOK, ConfigInv
<1>2. /\ ks \subseteq DOMAIN secrets /\ config' = config
      /\ secrets' = [c \in DOMAIN secrets \ ks |-> secrets[c]]
      /\ settings' = [i \in 1..Len(settings) |->
                        IF settings[i].key \in ks /\ settings[i].kind = "secret"
                        THEN [settings[i] EXCEPT !.kind = "deleted"] ELSE settings[i]]
  <2>1. secrets' = Restrict(secrets, DOMAIN secrets \ ks)
    BY DEF DeleteSecrets
  <2> QED
    BY <2>1 DEF DeleteSecrets, Restrict
<1>3. ASSUME NEW i \in 1..Len(settings)
      PROVE  /\ settings'[i] \in Settings /\ settings'[i].key = settings[i].key /\ settings'[i].value = settings[i].value
             /\ settings'[i].kind = IF settings[i].key \in ks /\ settings[i].kind = "secret"
                                    THEN "deleted" ELSE settings[i].kind
  <2>1. settings[i] \in Settings
    BY <1>1
  <2>2. settings'[i] = IF settings[i].key \in ks /\ settings[i].kind = "secret"
                       THEN [settings[i] EXCEPT !.kind = "deleted"] ELSE settings[i]
    BY <1>2
  <2> QED
    BY <2>1, <2>2 DEF Settings
<1>4. settings' \in Seq(Settings) /\ Len(settings') = Len(settings)
  <2>1. settings' = [i \in 1..Len(settings) |-> settings'[i]]
    BY <1>2
  <2> QED
    BY <1>1, <1>3, <2>1, AListOf
<1>5. ASSUME NEW c \in ConfigKeys, NEW kind \in {"secret", "plain"}
      PROVE  Latest(settings', c, kind) = IF kind = "secret" /\ c \in ks THEN {} ELSE Latest(settings, c, kind)
  <2>1. CASE kind = "secret" /\ c \in ks
    BY <1>3, <1>4, <2>1 DEF Latest
  <2>2. CASE ~(kind = "secret" /\ c \in ks)
    <3>1. \A i \in 1..Len(settings) : (settings'[i].key = c /\ settings'[i].kind = kind)
                                      <=> (settings[i].key = c /\ settings[i].kind = kind)
      BY <1>3, <1>5, <2>2
    <3> QED
      BY <1>3, <1>4, <3>1 DEF Latest
  <2> QED
    BY <2>1, <2>2
<1>6. \A c : At(secrets', c) = IF c \in ks THEN {} ELSE At(secrets, c)
  BY <1>2 DEF At
<1>7. \A c \in ConfigKeys : Latest(settings', c, "secret") = At(secrets', c) /\ Latest(settings', c, "plain") = At(config', c)
  BY <1>1, <1>2, <1>5, <1>6
<1>8. \A c \in ConfigKeys : LatestOf(c, "secret")' = At(secrets, c)' /\ LatestOf(c, "plain")' = At(config, c)'
  BY <1>7, LatestIs DEF At
<1>9. SecretsShadow'
  BY <1>8 DEF SecretsShadow, GetConfig, At
<1>10. DOMAIN config' \cup DOMAIN secrets' \subseteq ConfigKeys
  BY <1>2 DEF ConfigOK
<1> QED
  BY <1>4, <1>8, <1>9, <1>10 DEF ConfigOK, ConfigInv

LEMMA ConfigStep ==
  ASSUME ConfigOK, ConfigNext \/ UNCHANGED configVars
  PROVE  ConfigOK'
<1>1. CASE UNCHANGED configVars
  <2>1. \A k, kind : LatestOf(k, kind)' = LatestOf(k, kind)
    BY <1>1 DEF configVars, LatestOf
  <2>2. SecretsShadow'
    BY <1>1, <2>1 DEF configVars, ConfigOK, ConfigInv, SecretsShadow, GetConfig
  <2> QED
    BY <1>1, <2>1, <2>2 DEF configVars, ConfigOK, ConfigInv, At
<1> QED
  BY <1>1, SetKeeps, DeleteKeeps DEF ConfigNext

-----------------------------------------------------------------------------
LEMMA ComplianceParts ==
  /\ ComplianceInv <=> ConsentInv /\ StatusOK /\ ConfigOK
  /\ ComplianceInv' <=> ConsentInv' /\ StatusOK' /\ ConfigOK'
<1>1. ConsentInv => Len(consents) <= Cardinality(ConsentIds)
  BY FewConsents DEF ConsentInv, DistinctIds
<1>2. ConsentInv' => Len(consents') <= Cardinality(ConsentIds)
  BY FewConsents DEF ConsentInv, DistinctIds
<1> QED
  BY <1>1, <1>2 DEF ComplianceInv, ComplianceTypeOK, StatusOK, ConfigOK

LEMMA ComplianceStep ==
  ASSUME ComplianceInv,
         \/ ConsentNext /\ UNCHANGED <<statusVars, configVars>>
         \/ StatusNext  /\ UNCHANGED <<consentVars, configVars>>
         \/ ConfigNext  /\ UNCHANGED <<consentVars, statusVars>>
         \/ UNCHANGED <<consentVars, statusVars, configVars>>
  PROVE  ComplianceInv' /\ ConsentNotRevived /\ OverallGrows
<1>1. ConsentInv /\ StatusOK /\ ConfigOK
  BY ComplianceParts
<1>2. ConsentInv' /\ ConsentNotRevived
  <2>1. UNCHANGED consentVars => consents' = consents /\ recorded' = recorded /\ today' = today
    BY DEF consentVars
  <2> QED
    BY <1>1, <2>1, ConsentStep, LaterConsents
<1>3. StatusOK' /\ OverallGrows
  BY <1>1, StatusStep
<1>4. ConfigOK'
  BY <1>1, ConfigStep
<1> QED
  BY <1>2, <1>3, <1>4, ComplianceParts

LEMMA ComplianceStart ==
  ASSUME ComplianceInit
  PROVE  ComplianceInv
<1>1. /\ consents = <<>> /\ today = 0 /\ recorded = 0 /\ verified = {} /\ registered = {} /\ gdpr = -1
      /\ config = <<>> /\ secrets = <<>> /\ settings = <<>>
  BY DEF ComplianceInit
<1>2. ConsentInv
  BY <1>1 DEF ConsentInv
<1>3. StatusOK
  <2>1. verified \subseteq registered /\ registered \subseteq Requirements /\ gdpr \in -1..GdprChecks
    BY <1>1, ComplianceAssumption DEF ComplianceAssumption
  <2>2. Overall[1] <= 100 * Overall[2]
    BY <2>1, OverallIs, Countable, ShareBelow
  <2> QED
    BY <2>1, <2>2 DEF StatusOK, StatusInv
<1>4. ConfigOK
  <2>1. \A k \in ConfigKeys : LatestOf(k, "secret") = At(secrets, k) /\ LatestOf(k, "plain") = At(config, k)
    BY <1>1 DEF LatestOf, At
  <2> QED
    BY <1>1, <2>1, ConfigIs DEF ConfigOK, ConfigInv
<1> QED
  BY <1>2, <1>3, <1>4, ComplianceParts

(***************************************************************************)
(* The tiers are coherent between operations that do not overlap, for any  *)
(* number of coroutines, any of the protocols and any moment of expiry and *)
(* write-back. CacheInv says in addition what an operation under way       *)
(* leaves to be done at each of its awaits.                                *)
(***************************************************************************)
USE CacheAssumption DEF None

(* In the initial state nothing is cached or under way.                    *)
LEMMA InitCache == Init => CacheInv
<1> SUFFICES ASSUME Init PROVE CacheInv
  OBVIOUS
<1>1. TypeOK
  <2>1. 0 \in Versions
    BY DEF Versions
  <2>2. calm \in BOOLEAN /\ failed \in BOOLEAN
    BY DEF Init
  <2> QED
    BY <2>1, <2>2 DEF Init, TypeOK, NoEntry
<1>2. QueueUse
  BY DEF Init, QueueUse
<1>3. Alone /\ ProcessorWay /\ Settled /\ \A c \in Coroutines : ClientWay(c)
  BY DEF Init, Alone, ProcessorWay, Settled, ClientWay
<1> QED
  BY <1>1, <1>2, <1>3 DEF CacheInv

(* Types are kept by every step.                                           *)
LEMMA TypeKept == TypeOK /\ [Next]_vars => TypeOK'
<1> SUFFICES ASSUME TypeOK, [Next]_vars PROVE TypeOK'
  OBVIOUS
<1>0. calm' \in BOOLEAN /\ failed' \in BOOLEAN
  <2> calm \in BOOLEAN /\ failed \in BOOLEAN
    BY DEF TypeOK
  <2>1. ASSUME NEW c \in Coroutines, Set(c) \/ Get(c) \/ Delete(c)
        PROVE  calm' \in BOOLEAN /\ failed' \in BOOLEAN
    BY <2>1 DEF Set, Get, Delete, Begins
  <2>2. ASSUME NEW c \in Coroutines,
               \/ Store(c) \/ Enqueue(c) \/ DropL1(c) \/ LookupL2(c) \/ FillL1(c)
               \/ DeleteL2(c) \/ Forget(c)
        PROVE  calm' \in BOOLEAN /\ failed' \in BOOLEAN
    BY <2>2 DEF Store, Enqueue, DropL1, LookupL2, FillL1, DeleteL2, Forget
  <2>3. ASSUME Expire \/ Start \/ Stop \/ Snapshot
        PROVE  calm' \in BOOLEAN /\ failed' \in BOOLEAN
    BY <2>3 DEF Expire, Start, Stop, Snapshot
  <2>4. ASSUME WriteReturns \/ WriteRaises \/ Pop
        PROVE  calm' \in BOOLEAN /\ failed' \in BOOLEAN
    BY <2>4 DEF WriteReturns, WriteRaises, Pop
  <2> QED
    BY <2>1, <2>2, <2>3, <2>4 DEF Next, vars
<1> DEFINE Rest ==
  /\ coherence \in Protocols
  /\ l1 \in Versions /\ l2 \in Versions /\ latest \in Versions /\ sets \in Versions
  /\ queue \in [value : Versions, attempts : Nat]
  /\ entry \in [value : Versions, attempts : Nat]
  /\ processor \in {"off", "asleep", "writing", "written"} /\ syncErrors \in Nat
  /\ at \in [Coroutines -> {"idle", "storing", "queueing", "dropping", "missed", "filling",
                         "deleting", "forgetting"}]
  /\ value \in [Coroutines -> Versions]
<1>r. Rest
  BY DEF TypeOK
<1> SUFFICES Rest'
  BY <1>0 DEF TypeOK
<1> USE <1>r DEF Versions, NoEntry
<1>1. ASSUME NEW c \in Coroutines, Set(c) PROVE Rest'
  BY <1>1 DEF Set, Begins, Move, processing
<1>2. ASSUME NEW c \in Coroutines, Store(c) \/ Enqueue(c) \/ DropL1(c) PROVE Rest'
  BY <1>2 DEF Store, Enqueue, DropL1, Move, processing, tiers
<1>3. ASSUME NEW c \in Coroutines, Get(c) \/ LookupL2(c) \/ FillL1(c) PROVE Rest'
  BY <1>3 DEF Get, LookupL2, FillL1, Begins, Move, processing, tiers
<1>4. ASSUME NEW c \in Coroutines, Delete(c) \/ DeleteL2(c) \/ Forget(c) PROVE Rest'
  BY <1>4 DEF Delete, DeleteL2, Forget, Begins, Move, processing, tiers
<1>5. ASSUME Expire \/ Start \/ Stop \/ Snapshot PROVE Rest'
  BY <1>5 DEF Expire, Start, Stop, Snapshot, processing, tiers
<1>6. ASSUME WriteReturns \/ Pop PROVE Rest'
  BY <1>6 DEF WriteReturns, Pop, processing, tiers
<1>7. ASSUME WriteRaises PROVE Rest'
  BY <1>7 DEF WriteRaises, processing, tiers
<1>8. ASSUME UNCHANGED vars PROVE Rest'
  BY <1>8 DEF vars, processing, tiers
<1> QED
  BY <1>1, <1>2, <1>3, <1>4, <1>5, <1>6, <1>7, <1>8 DEF Next

(* Only write-back queues anything, and what it queues is a value.         *)
LEMMA QueueUseKept == TypeOK /\ QueueUse /\ [Next]_vars => QueueUse'
<1> SUFFICES ASSUME TypeOK, QueueUse, [Next]_vars PROVE QueueUse'
  OBVIOUS
<1> USE DEF TypeOK, Versions, NoEntry, QueueUse
<1>1. ASSUME NEW c \in Coroutines, Set(c) PROVE QueueUse'
  BY <1>1 DEF Set, Begins, Move, processing
<1>2. ASSUME NEW c \in Coroutines, Store(c) \/ Enqueue(c) \/ DropL1(c) PROVE QueueUse'
  BY <1>2 DEF Store, Enqueue, DropL1, Move, processing, tiers
<1>3. ASSUME NEW c \in Coroutines, Get(c) \/ LookupL2(c) \/ FillL1(c) PROVE QueueUse'
  BY <1>3 DEF Get, LookupL2, FillL1, Begins, Move, processing, tiers
<1>4. ASSUME NEW c \in Coroutines, Delete(c) \/ DeleteL2(c) \/ Forget(c) PROVE QueueUse'
  BY <1>4 DEF Delete, DeleteL2, Forget, Begins, Move, processing, tiers
<1>5. ASSUME Expire \/ Start \/ Stop \/ Snapshot \/ WriteReturns \/ Pop PROVE QueueUse'
  BY <1>5 DEF Expire, Start, Stop, Snapshot, WriteReturns, Pop, processing, tiers
<1>6. ASSUME WriteRaises PROVE QueueUse'
  BY <1>6 DEF WriteRaises, processing, tiers
<1>7. ASSUME UNCHANGED vars PROVE QueueUse'
  BY <1>7 DEF vars, processing, tiers
<1> QED
  BY <1>1, <1>2, <1>3, <1>4, <1>5, <1>6, <1>7 DEF Next

(* In a calm state where client c is at an await, nothing else is under way.*)
CalmInv ==
  calm /\ ~failed =>
    Alone /\ ProcessorWay /\ (Quiet => Settled) /\ \A c \in Coroutines : ClientWay(c)

(* An operation that begins in a settled state is alone, and leaves to be  *)
(* done what ClientWay says.                                               *)
LEMMA BeginningKeeps ==
  ASSUME CacheInv, NEW c \in Coroutines, Set(c) \/ Get(c) \/ Delete(c)
  PROVE  CalmInv'
<1> SUFFICES ASSUME calm', ~failed' PROVE (Alone /\ ProcessorWay /\ (Quiet => Settled)
                                            /\ \A d \in Coroutines : ClientWay(d))'
  BY DEF CalmInv
<1>1. calm /\ ~failed /\ Quiet /\ Settled
  <2>1. calm \in BOOLEAN /\ failed \in BOOLEAN
    BY DEF CacheInv, TypeOK
  <2>2. calm /\ ~failed /\ Quiet
    BY <2>1 DEF Set, Get, Delete, Begins
  <2> QED
    BY <2>2 DEF CacheInv
<1>2. /\ processor \in {"off", "asleep"} /\ processor' = processor
      /\ \A d \in Coroutines : at[d] = "idle"
      /\ at \in [Coroutines -> {"idle", "storing", "queueing", "dropping", "missed", "filling",
                             "deleting", "forgetting"}]
      /\ value \in [Coroutines -> Versions]
  BY <1>1 DEF Quiet, CacheInv, TypeOK, Set, Get, Delete, processing
<1>3. \A d \in Coroutines \ {c} : at'[d] = "idle"
  BY <1>2 DEF Set, Get, Delete, Begins, Move
<1>4. Alone' /\ ProcessorWay'
  BY <1>2, <1>3 DEF Alone, ProcessorWay
<1>5. \A d \in Coroutines \ {c} : ClientWay(d)'
  BY <1>3 DEF ClientWay
<1>6. CASE Set(c)
  <2>1. /\ sets' \in Nat \ {0} /\ latest' = sets' /\ value'[c] = sets'
        /\ queue' = queue /\ coherence' = coherence
    BY <1>2, <1>6 DEF Set, CacheInv, TypeOK, Versions
  <2>2. at'[c] \in {"storing", "queueing", "dropping"}
    BY <1>2, <1>6 DEF Set, Begins, Move
  <2>3. ClientWay(c)'
    BY <1>1, <1>2, <1>6, <2>1 DEF ClientWay, Set, Begins, Move, CacheInv, QueueUse
  <2> QED
    BY <1>4, <1>5, <2>2, <2>3 DEF Quiet
<1>7. CASE Get(c)
  <2>1. ClientWay(c)'
    BY <1>1, <1>2, <1>7 DEF ClientWay, Get, Begins, Move, Settled, tiers, CacheInv, QueueUse,
       NoEntry
  <2>2. Settled'
    BY <1>1, <1>7 DEF Settled, Get, tiers, NoEntry
  <2> QED
    BY <1>4, <1>5, <2>1, <2>2
<1>8. CASE Delete(c)
  <2>1. at'[c] = "deleting"
    BY <1>2, <1>8 DEF Delete, Begins, Move
  <2>2. ClientWay(c)'
    BY <2>1, <1>8 DEF ClientWay, Delete
  <2> QED
    BY <1>4, <1>5, <2>1, <2>2 DEF Quiet
<1> QED
  BY <1>6, <1>7, <1>8

(* A client under way is alone: its next step takes it to the next await,  *)
(* or leaves the tiers settled.                                            *)
LEMMA ContinuingKeeps ==
  ASSUME CacheInv, NEW c \in Coroutines,
         \/ Store(c) \/ Enqueue(c) \/ DropL1(c) \/ LookupL2(c) \/ FillL1(c)
         \/ DeleteL2(c) \/ Forget(c)
  PROVE  CalmInv'
<1> SUFFICES ASSUME calm', ~failed' PROVE (Alone /\ ProcessorWay /\ (Quiet => Settled)
                                            /\ \A d \in Coroutines : ClientWay(d))'
  BY DEF CalmInv
<1>1. calm /\ ~failed /\ at[c] # "idle"
  <2>1. calm \in BOOLEAN /\ failed \in BOOLEAN
    BY DEF CacheInv, TypeOK
  <2> QED
    BY <2>1 DEF Store, Enqueue, DropL1, LookupL2, FillL1, DeleteL2, Forget, Move
<1>2. Alone /\ ClientWay(c)
  BY <1>1 DEF CacheInv
<1>3. /\ processor \in {"off", "asleep"} /\ processor' = processor
      /\ \A d \in Coroutines \ {c} : at[d] = "idle"
      /\ at \in [Coroutines -> {"idle", "storing", "queueing", "dropping", "missed", "filling",
                             "deleting", "forgetting"}]
      /\ value \in [Coroutines -> Versions]
  BY <1>1, <1>2 DEF Alone, CacheInv, TypeOK, Store, Enqueue, DropL1, LookupL2, FillL1,
     DeleteL2, Forget, processing
<1>4. \A d \in Coroutines \ {c} : at'[d] = "idle"
  BY <1>3 DEF Store, Enqueue, DropL1, LookupL2, FillL1, DeleteL2, Forget, Move
<1>5. Alone' /\ ProcessorWay'
  BY <1>3, <1>4 DEF Alone, ProcessorWay
<1>6. \A d \in Coroutines \ {c} : ClientWay(d)'
  BY <1>4 DEF ClientWay
<1>7. (Quiet => Settled)' /\ ClientWay(c)'
  <2>1. CASE Store(c) \/ Enqueue(c) \/ DropL1(c)
    BY <1>1, <1>2, <1>3, <2>1 DEF Store, Enqueue, DropL1, Move, ClientWay, Settled, NoEntry,
       tiers, CacheInv, QueueUse
  <2>2. CASE LookupL2(c) \/ FillL1(c)
    BY <1>1, <1>2, <1>3, <2>2 DEF LookupL2, FillL1, Move, ClientWay, Settled, NoEntry, tiers,
       Quiet
  <2>3. CASE DeleteL2(c) \/ Forget(c)
    BY <1>1, <1>2, <1>3, <2>3 DEF DeleteL2, Forget, Move, ClientWay, Settled, NoEntry, tiers,
       Quiet
  <2> QED
    BY <2>1, <2>2, <2>3
<1> QED
  BY <1>5, <1>6, <1>7

(* The write-back is alone too, and ends with its entry in L2.             *)
LEMMA ProcessorKeeps ==
  ASSUME CacheInv, Expire \/ Start \/ Stop \/ Snapshot \/ WriteReturns \/ WriteRaises \/ Pop
  PROVE  CalmInv'
<1> SUFFICES ASSUME calm', ~failed' PROVE (Alone /\ ProcessorWay /\ (Quiet => Settled)
                                            /\ \A d \in Coroutines : ClientWay(d))'
  BY DEF CalmInv
<1>1. calm /\ ~failed /\ at' = at /\ value' = value
  <2>1. calm \in BOOLEAN /\ failed \in BOOLEAN
    BY DEF CacheInv, TypeOK
  <2>2. CASE Expire \/ Start \/ Stop \/ Snapshot
    BY <2>1, <2>2 DEF Expire, Start, Stop, Snapshot
  <2>3. CASE WriteReturns \/ WriteRaises \/ Pop
    BY <2>1, <2>3 DEF WriteReturns, WriteRaises, Pop
  <2> QED
    BY <2>2, <2>3
<1>2. Alone /\ ProcessorWay /\ (Quiet => Settled) /\ \A d \in Coroutines : ClientWay(d)
  BY <1>1 DEF CacheInv
<1>3. CASE Expire
  BY <1>1, <1>2, <1>3 DEF Expire, Alone, ProcessorWay, Settled, ClientWay, Quiet, processing,
     NoEntry
<1>4. CASE Start \/ Stop
  BY <1>1, <1>2, <1>4 DEF Start, Stop, Alone, ProcessorWay, Settled, ClientWay, Quiet, tiers,
     NoEntry
<1>5. CASE Snapshot
  BY <1>1, <1>2, <1>5 DEF Snapshot, Alone, ProcessorWay, Settled, ClientWay, Quiet, tiers,
     NoEntry
<1>6. CASE WriteReturns \/ Pop
  <2>1. /\ processor \in {"writing", "written"}
        /\ \A d \in Coroutines : at[d] = "idle"
    BY <1>2, <1>6 DEF WriteReturns, Pop, Alone
  <2>2. \A d \in Coroutines : ClientWay(d)'
    BY <1>1, <2>1 DEF ClientWay
  <2>3. entry = queue /\ queue.value = latest /\ l1 = latest
    BY <1>2, <2>1 DEF ProcessorWay
  <2>4. CASE WriteReturns
    BY <1>1, <1>2, <2>1, <2>2, <2>3, <2>4 DEF WriteReturns, Alone, ProcessorWay, Quiet
  <2>5. CASE Pop
    <3>1. l2' = latest' /\ l1' = latest' /\ queue' = NoEntry /\ processor' = "asleep"
      BY <1>2, <2>3, <2>5 DEF Pop, ProcessorWay, tiers
    <3> QED
      BY <1>1, <2>1, <2>2, <3>1 DEF Alone, ProcessorWay, Settled, Quiet, NoEntry
  <2> QED
    BY <1>6, <2>4, <2>5
<1>7. CASE WriteRaises
  BY <1>7 DEF WriteRaises
<1> QED
  BY <1>3, <1>4, <1>5, <1>6, <1>7

LEMMA CacheStep ==
  ASSUME CacheInv, [Next]_vars
  PROVE  CacheInv'
<1>1. TypeOK' /\ QueueUse'
  BY TypeKept, QueueUseKept DEF CacheInv
<1>2. CalmInv'
  <2>1. CASE \E c \in Coroutines : Set(c) \/ Get(c) \/ Delete(c)
    BY <2>1, BeginningKeeps
  <2>2. CASE \E c \in Coroutines :
               \/ Store(c) \/ Enqueue(c) \/ DropL1(c) \/ LookupL2(c) \/ FillL1(c)
               \/ DeleteL2(c) \/ Forget(c)
    BY <2>2, ContinuingKeeps
  <2>3. CASE Expire \/ Start \/ Stop \/ Snapshot \/ WriteReturns \/ WriteRaises \/ Pop
    BY <2>3, ProcessorKeeps
  <2>4. CASE UNCHANGED vars
    BY <2>4 DEF CacheInv, CalmInv, vars, tiers, processing, Alone, ProcessorWay,
       Settled, ClientWay, Quiet, NoEntry
  <2> QED
    BY <2>1, <2>2, <2>3, <2>4 DEF Next
<1> QED
  BY <1>1, <1>2 DEF CacheInv, CalmInv

-----------------------------------------------------------------------------
(* Behaviours.                                                             *)

LEMMA LimitsStay ==
  ASSUME LimitsInv, UNCHANGED limitVars
  PROVE  LimitsInv'
<1>1. UNCHANGED <<now, asked, tokens, lastRefill, times, secondLog, minuteLog, acceptedLog, known, used, start, quotaLog>>
  BY DEF limitVars, bucketVars, windowVars, quotaVars
<1>2. LogsOK' /\ BucketInv' /\ WindowInv' /\ BucketEnvelope' /\ MinuteEnvelope'
  <2>1. asked' \in 0..MaxPerTick /\ asked <= asked'
    BY <1>1 DEF LimitsInv, LogsOK
  <2>2. UNCHANGED <<bucketVars, windowVars>>
    BY <1>1 DEF bucketVars, windowVars
  <2> QED
    BY <1>1, <2>1, <2>2, LimitersStay
<1>3. QuotaInv' /\ LongRun'
  BY <1>1 DEF LimitsInv, QuotaInv, LongRun, Granted
<1> QED
  BY <1>2, <1>3 DEF LimitsInv

LEMMA LimitsStep ==
  ASSUME LimitsInv, LimitsNext \/ QuotaNext
  PROVE  LimitsInv'
BY CheckKeepsLimits, TimeKeepsLimits, QuotasKeepLimits DEF LimitsNext

LEMMA GuardsStep ==
  ASSUME GuardsInv, [GuardsNext]_guardsVars
  PROVE  GuardsInv' /\ RefusedForGood /\ ConsentNotRevived /\ OverallGrows
<1>1. LimitsInv /\ SecurityInv /\ RequestsInv /\ ComplianceInv /\ CacheInv
  BY DEF GuardsInv
<1>2. LimitsInv'
  <2>1. LimitsNext \/ QuotaNext \/ UNCHANGED limitVars
    BY DEF GuardsNext, LimitsUsed, AccessUsed, RequestsServed, ComplianceUsed, CacheUsed, guardsVars
  <2> QED
    BY <1>1, <2>1, LimitsStep, LimitsStay
<1>3. SecurityInv' /\ RefusedForGood
  <2>1. SecurityNext \/ UNCHANGED securityVars
    BY DEF GuardsNext, LimitsUsed, AccessUsed, RequestsServed, ComplianceUsed, CacheUsed, guardsVars
  <2> QED
    BY <1>1, <2>1, SecurityStep, SecurityStays
<1>4. RequestsInv'
  <2>1. RequestsNext \/ UNCHANGED requestVars
    BY DEF GuardsNext, LimitsUsed, AccessUsed, RequestsServed, ComplianceUsed, CacheUsed, guardsVars
  <2> QED
    BY <1>1, <2>1, RequestsStep, RequestsStay
<1>5. ComplianceInv' /\ ConsentNotRevived /\ OverallGrows
  <2>1. \/ ConsentNext /\ UNCHANGED <<statusVars, configVars>>
        \/ StatusNext  /\ UNCHANGED <<consentVars, configVars>>
        \/ ConfigNext  /\ UNCHANGED <<consentVars, statusVars>>
        \/ UNCHANGED <<consentVars, statusVars, configVars>>
    BY DEF GuardsNext, LimitsUsed, AccessUsed, RequestsServed, ComplianceUsed, CacheUsed, guardsVars, complianceVars
  <2> QED
    BY <1>1, <2>1, ComplianceStep
<1>6. CacheInv'
  <2>1. [Next]_vars
    BY DEF GuardsNext, LimitsUsed, AccessUsed, RequestsServed, ComplianceUsed, CacheUsed, guardsVars
  <2> QED
    BY <1>1, <2>1, CacheStep
<1> QED
  BY <1>2, <1>3, <1>4, <1>5, <1>6 DEF GuardsInv

(* What holds in every state of every guard, for all limits and sizes.     *)
THEOREM GuardsCorrect == GuardsSpec => []GuardsInv
<1>1. GuardsInit => GuardsInv
  BY LimitsStart, SecurityStart, RequestsStart, ComplianceStart, InitCache DEF GuardsInit, GuardsInv
<1>2. GuardsInv /\ [GuardsNext]_guardsVars => GuardsInv'
  BY GuardsStep
<1> QED
  BY <1>1, <1>2, PTL DEF GuardsSpec

(* The shape of the state.                                                 *)
THEOREM GuardsTyped == GuardsSpec => []GuardsTypeOK
<1>1. GuardsInv => GuardsTypeOK
  BY SecurityHolds DEF GuardsInv, GuardsTypeOK, RequestsInv, ComplianceInv, CacheInv
<1> QED
  BY <1>1, GuardsCorrect, PTL

(* Every limit bounds what it lets through in every span of time.          *)
THEOREM EveryLimitHolds == GuardsSpec => []LimitsHold
<1>1. GuardsInv => LimitsHold
  <2>1. LimitsInv => BucketEnvelope /\ MinuteEnvelope /\ LongRun
    BY DEF LimitsInv
  <2> QED
    BY <2>1, BothLimit DEF GuardsInv, LimitsHold, RequestsInv
<1> QED
  BY <1>1, GuardsCorrect, PTL

(* Roles looked up exist, the audit log is unbroken, a revocation holds as *)
(* long as the token was to live (for good, unless local time is behind    *)
(* UTC), and a secret hides every plain value under its key.               *)
THEOREM AccessIsConsistent == GuardsSpec => []AccessConsistent
<1>1. GuardsInv => AccessConsistent
  BY SecurityHolds DEF GuardsInv, AccessConsistent, ComplianceInv, ConfigInv
<1> QED
  BY <1>1, GuardsCorrect, PTL

(* A refused token passes again in no other case than the two that         *)
(* RefusedForGood names, an ended consent never does, and the overall      *)
(* percentage does not fall for a requirement that is met.                 *)
THEOREM NothingComesBack == GuardsSpec => NothingRevived
<1>1. GuardsInv /\ [GuardsNext]_guardsVars => [RefusedForGood /\ ConsentNotRevived /\ OverallGrows]_guardsVars
  BY GuardsStep
<1> QED
  BY <1>1, GuardsCorrect, PTL DEF GuardsSpec, NothingRevived
(* Between operations that did not overlap and did not fail, a get finds   *)
(* the latest value, and no tier holds an older one.                       *)
THEOREM CacheCoherent == GuardsSpec => []Coherent
<1>1. GuardsInv => Coherent
  BY DEF GuardsInv, CacheInv, Coherent
<1> QED
  BY <1>1, GuardsCorrect, PTL
=============================================================================
