--------------------------- MODULE Platform_proofs ---------------------------
(***************************************************************************)
(* Proofs about the other parts of the Platform: for each an invariant     *)
(* that its steps keep, and what follows from it; at the end what all of   *)
(* them say of PlatformSpec, for every value of the constants.             *)
(***************************************************************************)
EXTENDS Platform, Parts_proofs

(* A pass, policy by policy.                                               *)
PassesTo(f) ==
  /\ f[0] = Orchestrated
  /\ \A k \in 1..Len(policies) : f[k] = Turn(f[k - 1], policies[k])

LEMMA PassSteps ==
  ASSUME policies \in Seq(Policies)
  PROVE  \E f : PassesTo(f) /\ FoldLeft(Turn, Orchestrated, policies) = f[Len(policies)]
<1> DEFINE Is(n, h) == h = [s \in SUBSET (1..n) |->
                              IF s = {} THEN Orchestrated ELSE Turn(h[s \ {Max(s)}], policies[Max(s)])]
           T == {n \in Nat : \E h : Is(n, h)}
<1>1. 0 \in T
  <2>1. SUBSET (1..0) = {{}}
    OBVIOUS
  <2>2. Is(0, [s \in {{}} |-> Orchestrated])
    BY <2>1
  <2> QED
    BY <2>2
<1>2. ASSUME NEW n \in T PROVE n + 1 \in T
  <2>0. n \in Nat /\ n + 1 \in 1..(n + 1) /\ 1..n \subseteq 1..(n + 1) /\ n + 1 \notin 1..n
    BY DEF T
  <2>1. PICK h : Is(n, h)
    OBVIOUS
  <2> DEFINE g == [s \in SUBSET (1..(n + 1)) |->
                     IF n + 1 \in s THEN Turn(h[s \ {n + 1}], policies[n + 1]) ELSE h[s]]
  <2>2. ASSUME NEW s \in SUBSET (1..(n + 1))
        PROVE  g[s] = IF s = {} THEN Orchestrated ELSE Turn(g[s \ {Max(s)}], policies[Max(s)])
    <3>1. CASE n + 1 \in s
      <4>0. \A y \in s : y \in Int /\ y <= n + 1
        BY <2>0
      <4>1. Max(s) = n + 1
        BY <2>0, <3>1, <4>0, MaxIs
      <4>2. g[s \ {n + 1}] = h[s \ {n + 1}]
        BY <2>0
      <4>3. g[s] = Turn(h[s \ {n + 1}], policies[n + 1])
        BY <3>1
      <4> HIDE DEF g
      <4> QED
        BY <3>1, <4>1, <4>2, <4>3
    <3>2. CASE n + 1 \notin s /\ s # {}
      <4>1. s \in SUBSET (1..n)
        BY <2>0, <3>2
      <4>2. Max(s) \in s
        BY <2>0, <3>2, <4>1, MaxUpTo
      <4>3. g[s] = h[s] /\ g[s \ {Max(s)}] = h[s \ {Max(s)}]
        BY <2>0, <3>2
      <4>4. h[s] = Turn(h[s \ {Max(s)}], policies[Max(s)])
        BY <2>1, <3>2, <4>1
      <4> HIDE DEF g
      <4> QED
        BY <3>2, <4>3, <4>4
    <3>3. CASE s = {}
      <4>1. g[s] = h[s] /\ h[s] = Orchestrated
        BY <2>0, <2>1, <3>3
      <4> HIDE DEF g
      <4> QED
        BY <3>3, <4>1
    <3> QED
      BY <3>1, <3>2, <3>3
  <2>3. g = [s \in SUBSET (1..(n + 1)) |-> g[s]]
    OBVIOUS
  <2> HIDE DEF g
  <2>4. Is(n + 1, g)
    BY <2>2, <2>3
  <2> HIDE DEF Is
  <2>5. n + 1 \in Nat /\ \E q : Is(n + 1, q)
    BY <2>0, <2>4
  <2> QED
    BY <2>5 DEF T
<1> HIDE DEF T
<1>3. T = Nat
  BY <1>1, <1>2, SetInduction DEF T
<1>4. Len(policies) \in Nat /\ DOMAIN policies = 1..Len(policies)
  OBVIOUS
<1> DEFINE it == CHOOSE h : Is(Len(policies), h)
<1>5. FoldLeft(Turn, Orchestrated, policies) = it[1..Len(policies)]
  BY <1>4 DEF FoldLeft, MapThenFoldSet
<1>6. Is(Len(policies), it)
  BY <1>3, <1>4 DEF T
<1> HIDE DEF it
<1> DEFINE f == [k \in 0..Len(policies) |-> it[1..k]]
<1>7. f[0] = Orchestrated
  <2>1. 1..0 = {} /\ 1..0 \in SUBSET (1..Len(policies))
    OBVIOUS
  <2>2. it[1..0] = Orchestrated
    BY <1>6, <2>1
  <2> QED
    BY <1>4, <2>2
<1>8. ASSUME NEW k \in 1..Len(policies) PROVE f[k] = Turn(f[k - 1], policies[k])
  <2>1. 1..k \in SUBSET (1..Len(policies)) /\ k \in 1..k /\ k \in Int /\ k - 1 \in 0..Len(policies) /\ k \in 0..Len(policies)
    BY <1>4
  <2>2. Max(1..k) = k
    <3>1. \A y \in 1..k : y \in Int /\ y <= k
      BY <2>1
    <3> QED
      BY <2>1, <3>1, MaxIs
  <2>3. (1..k) \ {k} = 1..(k - 1)
    BY <2>1
  <2>4. it[1..k] = Turn(it[(1..k) \ {Max(1..k)}], policies[Max(1..k)])
    BY <1>6, <2>1
  <2>5. f[k] = it[1..k] /\ f[k - 1] = it[1..(k - 1)]
    BY <2>1
  <2> HIDE DEF f
  <2> QED
    BY <2>2, <2>3, <2>4, <2>5
<1>9. f[Len(policies)] = it[1..Len(policies)]
  BY <1>4
<1>10. PassesTo(f)
  <2> HIDE DEF f
  <2> QED
    BY <1>7, <1>8 DEF PassesTo
<1> HIDE DEF f
<1> QED
  BY <1>5, <1>9, <1>10

(* A dict with an entry set.                                               *)
LEMMA EntryIs ==
  ASSUME NEW d, NEW k, NEW v
  PROVE  /\ DOMAIN Entry(d, k, v) = DOMAIN d \cup {k}
         /\ Entry(d, k, v)[k] = v
         /\ \A x \in DOMAIN d : x # k => Entry(d, k, v)[x] = d[x]
BY DEF Entry

(* The orchestrator's books.                                               *)
ScaleEvents == ScaledServices \X Nat \X Nat
ScalingInv ==
  /\ policies \in Seq(Policies)
  /\ DOMAIN instances \subseteq ScaledServices /\ DOMAIN deployed \subseteq ScaledServices
  /\ DOMAIN lastScaled \subseteq ScaledServices /\ DOMAIN metrics \subseteq ScaledServices
  /\ \A s \in DOMAIN instances : instances[s] \in Nat
  /\ \A s \in DOMAIN lastScaled : lastScaled[s] \in 0..LongestCooldown
  /\ \A s \in DOMAIN metrics : metrics[s] \in Seq(Readings) /\ Len(metrics[s]) <= MaxMetrics
  /\ scaleEvents \in Seq(ScaleEvents)
  /\ CountsAgree

LEMMA PolicyIs ==
  ASSUME NEW p \in Policies
  PROVE  /\ p.min \in Nat /\ p.max \in Nat /\ p.step \in Nat /\ p.min <= p.max
         /\ p.periods \in 1..MaxMetrics /\ MaxMetrics \in Nat \ {0}
         /\ p.service \in ScaledServices
BY ScalingAssumption DEF ScalingAssumption, ScaledServices

LEMMA GoverningIs ==
  ASSUME policies \in Seq(Policies), NEW s, NEW q \in Range(policies), q.service = s
  PROVE  Governing(s) \in Policies /\ Governing(s).service = s /\ Governing(s) \in Range(policies)
<1> DEFINE P == {p \in Policies : p.service = s}
<1>1. Only(policies, P) \in Seq(Policies) /\ Range(Only(policies, P)) = Range(policies) \cap P
  <2> HIDE DEF P
  <2> QED
    BY OnlyRange
<1>2. q \in Policies
  BY DEF Range
<1>3. q \in Range(Only(policies, P))
  BY <1>1, <1>2
<1>4. PICK own : own = Only(policies, P)
  OBVIOUS
<1>5. own \in Seq(Policies) /\ own # <<>>
  BY <1>1, <1>3, <1>4 DEF Range
<1>6. own[1] \in Range(own) /\ own[1] \in Policies
  BY <1>5 DEF Range
<1>7. Governing(s) = own[1]
  BY <1>4 DEF Governing
<1> QED
  BY <1>1, <1>4, <1>6, <1>7

LEMMA ClampedIs ==
  ASSUME NEW p \in Policies, NEW n \in Nat
  PROVE  /\ Clamped(p, n) \in Nat /\ Clamped(p, n) \in p.min..p.max
         /\ n > p.max => Clamped(p, n) = p.max
         /\ n < p.min => Clamped(p, n) = p.min
         /\ n \in p.min..p.max => Clamped(p, n) = n
<1>1. p.min \in Nat /\ p.max \in Nat /\ p.min <= p.max
  BY PolicyIs
<1>2. Min({n, p.max}) = IF n <= p.max THEN n ELSE p.max
  <2>1. n \in Int /\ p.max \in Int
    BY <1>1
  <2> QED
    BY <2>1, OfTwo
<1>3. PICK m : m = Min({n, p.max})
  OBVIOUS
<1>4. m \in Nat /\ m = IF n <= p.max THEN n ELSE p.max
  BY <1>1, <1>2, <1>3
<1>5. Max({p.min, m}) = IF p.min >= m THEN p.min ELSE m
  <2>1. m \in Int /\ p.min \in Int
    BY <1>1, <1>4
  <2> QED
    BY <2>1, OfTwo
<1>6. Clamped(p, n) = IF p.min >= m THEN p.min ELSE m
  BY <1>3, <1>5 DEF Clamped
<1> QED
  BY <1>1, <1>4, <1>6

(* In a pass a service has been left alone so far, or was scaled once.     *)
NewOf(st, s) == {i \in (Len(scaleEvents) + 1)..Len(st.events) : st.events[i][1] = s}
Owned(s) == {p \in ToSet(policies) : p.service = s /\ p.enabled /\ Rested(Orchestrated, p)}
LoadSays(s, n) ==
  s \in DOMAIN instances =>
    /\ n > instances[s] => \/ \E p \in Owned(s) : Above(p) \/ (Below(p) /\ instances[s] < p.min)
                           \/ instances[s] < Governing(s).min
    /\ n < instances[s] => \/ \E p \in Owned(s) : Below(p) \/ (Above(p) /\ instances[s] > p.max)
                           \/ instances[s] > Governing(s).max
PassState(st) ==
  /\ DOMAIN st.instances \subseteq ScaledServices /\ DOMAIN st.deployed \subseteq ScaledServices
  /\ DOMAIN st.lastScaled \subseteq ScaledServices
  /\ DOMAIN instances \subseteq DOMAIN st.instances
  /\ \A s \in DOMAIN st.instances : st.instances[s] \in Nat
  /\ \A s \in DOMAIN st.lastScaled : st.lastScaled[s] \in 0..LongestCooldown
  /\ st.events \in Seq(ScaleEvents) /\ Len(st.events) >= Len(scaleEvents)
Untouched(st, s) ==
  /\ NewOf(st, s) = {}
  /\ s \in DOMAIN st.instances <=> s \in DOMAIN instances
  /\ s \in DOMAIN st.deployed <=> s \in DOMAIN deployed
  /\ s \in DOMAIN st.lastScaled <=> s \in DOMAIN lastScaled
  /\ s \in DOMAIN instances => st.instances[s] = instances[s]
  /\ s \in DOMAIN deployed => st.deployed[s] = deployed[s]
  /\ s \in DOMAIN lastScaled => st.lastScaled[s] = lastScaled[s]
Touched(st, s) ==
  /\ \E i : NewOf(st, s) = {i}
  /\ s \in DOMAIN st.instances /\ s \in DOMAIN st.deployed /\ s \in DOMAIN st.lastScaled
  /\ st.deployed[s] = st.instances[s] /\ st.lastScaled[s] = 0
PassInv(st) == PassState(st) /\ \A s \in ScaledServices : Untouched(st, s) \/ Touched(st, s)
Justified(st) ==
  \A s \in ScaledServices :
    Touched(st, s) => Owned(s) # {} /\ LoadSays(s, st.instances[s])

LEMMA RescaledKeeps ==
  ASSUME ScalingInv, NEW st, PassInv(st), NEW q \in Range(policies), NEW s, s = q.service, NEW target \in Nat,
         Untouched(st, s)
  PROVE  LET r == Rescaled(st, s, target)
         IN  /\ PassInv(r) /\ Touched(r, s) /\ r.instances[s] = Clamped(Governing(s), target)
             /\ \A x \in ScaledServices : x # s =>
                  /\ Touched(r, x) => Touched(st, x) /\ r.instances[x] = st.instances[x]
<1>1. PICK n, r : n = Clamped(Governing(s), target) /\ r = Rescaled(st, s, target)
  OBVIOUS
<1>2. Governing(s) \in Policies /\ q \in Policies
  BY GoverningIs DEF ScalingInv, Range
<1>3. n \in Nat /\ s \in ScaledServices /\ LongestCooldown \in Nat \ {0}
  BY <1>1, <1>2, ClampedIs, PolicyIs, ScalingAssumption DEF ScalingAssumption
<1>4. PICK b : b = LookUp(st.instances, s, 0)
  OBVIOUS
<1>5. PassState(st) /\ \A x \in ScaledServices : Untouched(st, x) \/ Touched(st, x)
  BY DEF PassInv
<1>6. b \in Nat
  BY <1>4, <1>5 DEF PassState, LookUp
<1>7. /\ r.instances = Entry(st.instances, s, n) /\ r.deployed = Entry(st.deployed, s, n)
      /\ r.lastScaled = Entry(st.lastScaled, s, 0) /\ r.events = Append(st.events, <<s, b, n>>)
  BY <1>1, <1>4 DEF Rescaled
<1>8. /\ DOMAIN r.instances = DOMAIN st.instances \cup {s} /\ r.instances[s] = n
      /\ \A x \in DOMAIN st.instances : x # s => r.instances[x] = st.instances[x]
  BY <1>7 DEF Entry
<1>d. /\ DOMAIN r.deployed = DOMAIN st.deployed \cup {s} /\ r.deployed[s] = n
      /\ \A x \in DOMAIN st.deployed : x # s => r.deployed[x] = st.deployed[x]
  BY <1>7 DEF Entry
<1>l. /\ DOMAIN r.lastScaled = DOMAIN st.lastScaled \cup {s} /\ r.lastScaled[s] = 0
      /\ \A x \in DOMAIN st.lastScaled : x # s => r.lastScaled[x] = st.lastScaled[x]
  BY <1>7 DEF Entry
<1>9. <<s, b, n>> \in ScaleEvents
  BY <1>3, <1>6 DEF ScaleEvents
<1>10. /\ st.events \in Seq(ScaleEvents) /\ Len(st.events) >= Len(scaleEvents)
       /\ Len(scaleEvents) \in Nat /\ Len(st.events) \in Nat
  BY <1>5 DEF PassState, ScalingInv
<1>11. /\ r.events \in Seq(ScaleEvents) /\ Len(r.events) = Len(st.events) + 1
       /\ \A i \in 1..Len(st.events) : r.events[i] = st.events[i]
       /\ r.events[Len(st.events) + 1] = <<s, b, n>>
  <2>1. PICK e, x : e = st.events /\ x = <<s, b, n>>
    OBVIOUS
  <2>2. /\ Append(e, x) \in Seq(ScaleEvents) /\ Len(Append(e, x)) = Len(e) + 1
        /\ \A i \in 1..Len(e) : Append(e, x)[i] = e[i]
        /\ Append(e, x)[Len(e) + 1] = x
    BY <1>9, <1>10, <2>1, Appended
  <2> QED
    BY <1>7, <2>1, <2>2
<1>12. NewOf(r, s) = {Len(st.events) + 1}
  <2>1. \A i \in (Len(scaleEvents) + 1)..Len(st.events) : st.events[i][1] # s
    BY DEF Untouched, NewOf
  <2>2. ASSUME NEW i \in (Len(scaleEvents) + 1)..Len(r.events), r.events[i][1] = s
        PROVE  i = Len(st.events) + 1
    <3>1. CASE i <= Len(st.events)
      <4>1. i \in 1..Len(st.events) /\ i \in (Len(scaleEvents) + 1)..Len(st.events)
        BY <1>10, <2>2, <3>1
      <4> QED
        BY <1>11, <2>1, <2>2, <4>1
    <3> QED
      BY <1>10, <1>11, <2>2, <3>1
  <2>3. Len(st.events) + 1 \in (Len(scaleEvents) + 1)..Len(r.events) /\ <<s, b, n>>[1] = s
    BY <1>10, <1>11
  <2> QED
    BY <1>11, <2>2, <2>3 DEF NewOf
<1>13. ASSUME NEW x \in ScaledServices, x # s PROVE NewOf(r, x) = NewOf(st, x)
  <2>1. ASSUME NEW i \in NewOf(r, x) PROVE i \in NewOf(st, x)
    <3>1. i \in (Len(scaleEvents) + 1)..Len(r.events) /\ r.events[i][1] = x
      BY DEF NewOf
    <3>2. i # Len(st.events) + 1
      BY <1>11, <1>13, <3>1
    <3>3. i \in (Len(scaleEvents) + 1)..Len(st.events) /\ i \in 1..Len(st.events)
      BY <1>10, <1>11, <3>1, <3>2
    <3> QED
      BY <1>11, <3>1, <3>3 DEF NewOf
  <2>2. ASSUME NEW i \in NewOf(st, x) PROVE i \in NewOf(r, x)
    <3>1. i \in (Len(scaleEvents) + 1)..Len(st.events) /\ st.events[i][1] = x
      BY DEF NewOf
    <3>2. i \in (Len(scaleEvents) + 1)..Len(r.events) /\ i \in 1..Len(st.events)
      BY <1>10, <1>11, <3>1
    <3> QED
      BY <1>11, <3>1, <3>2 DEF NewOf
  <2> QED
    BY <2>1, <2>2
<1>14. PassState(r)
  <2>1. /\ DOMAIN st.instances \subseteq ScaledServices /\ DOMAIN st.deployed \subseteq ScaledServices
        /\ DOMAIN st.lastScaled \subseteq ScaledServices /\ DOMAIN instances \subseteq DOMAIN st.instances
        /\ \A x \in DOMAIN st.instances : st.instances[x] \in Nat
        /\ \A x \in DOMAIN st.lastScaled : st.lastScaled[x] \in 0..LongestCooldown
    BY <1>5 DEF PassState
  <2>2. \A x \in DOMAIN r.instances : r.instances[x] \in Nat
    BY <1>3, <1>8, <1>d, <1>l, <2>1
  <2>3. \A x \in DOMAIN r.lastScaled : r.lastScaled[x] \in 0..LongestCooldown
    BY <1>3, <1>8, <1>d, <1>l, <2>1
  <2>4. Len(r.events) >= Len(scaleEvents)
    BY <1>10, <1>11
  <2> QED
    BY <1>3, <1>8, <1>d, <1>l, <1>11, <2>1, <2>2, <2>3, <2>4 DEF PassState
<1>15. Touched(r, s)
  BY <1>3, <1>8, <1>d, <1>l, <1>12 DEF Touched
<1>16. ASSUME NEW x \in ScaledServices, x # s
       PROVE  /\ Untouched(r, x) \/ Touched(r, x)
              /\ Touched(r, x) => Touched(st, x) /\ r.instances[x] = st.instances[x]
  <2>1. /\ x \in DOMAIN r.instances <=> x \in DOMAIN st.instances
        /\ x \in DOMAIN r.deployed <=> x \in DOMAIN st.deployed
        /\ x \in DOMAIN r.lastScaled <=> x \in DOMAIN st.lastScaled
        /\ x \in DOMAIN st.instances => r.instances[x] = st.instances[x]
        /\ x \in DOMAIN st.deployed => r.deployed[x] = st.deployed[x]
        /\ x \in DOMAIN st.lastScaled => r.lastScaled[x] = st.lastScaled[x]
        /\ NewOf(r, x) = NewOf(st, x)
    BY <1>8, <1>d, <1>l, <1>13, <1>16
  <2>2. Untouched(st, x) => Untouched(r, x)
    BY <2>1 DEF Untouched
  <2>3. Touched(st, x) => Touched(r, x)
    BY <2>1 DEF Touched
  <2>4. Touched(r, x) => Touched(st, x)
    <3>1. SUFFICES ASSUME Touched(r, x), Untouched(st, x) PROVE FALSE
      BY <1>5
    <3>2. NewOf(st, x) = {} /\ \E i : NewOf(r, x) = {i}
      BY <3>1 DEF Touched, Untouched
    <3> QED
      BY <2>1, <3>2
  <2>5. Touched(r, x) => r.instances[x] = st.instances[x]
    BY <2>1 DEF Touched
  <2> QED
    BY <1>5, <2>2, <2>3, <2>4, <2>5
<1>17. PassInv(r)
  BY <1>14, <1>15, <1>16 DEF PassInv
<1> QED
  BY <1>1, <1>8, <1>15, <1>16, <1>17

LEMMA TurnKeeps ==
  ASSUME ScalingInv, NEW st, PassInv(st), Justified(st), NEW q \in Range(policies)
  PROVE  PassInv(Turn(st, q)) /\ Justified(Turn(st, q))
<1>1. PICK s, n : s = q.service /\ n = LookUp(st.instances, s, q.min)
  OBVIOUS
<1>2. q \in Policies
  BY DEF ScalingInv, Range
<1>3. s \in ScaledServices /\ q.min \in Nat /\ q.max \in Nat /\ q.step \in Nat /\ q.min <= q.max
      /\ q.cooldown \in Nat \ {0}
  BY <1>1, <1>2, PolicyIs, ScalingAssumption DEF ScalingAssumption
<1>4. n \in Nat
  BY <1>1, <1>3 DEF LookUp, PassInv, PassState
<1>5. PICK up, down : up = Min({n + q.step, q.max}) /\ down = Max({n - q.step, q.min})
  OBVIOUS
<1>6. /\ up = IF n + q.step <= q.max THEN n + q.step ELSE q.max
      /\ down = IF n - q.step >= q.min THEN n - q.step ELSE q.min
  <2>1. n + q.step \in Int /\ n - q.step \in Int /\ q.max \in Int /\ q.min \in Int
    BY <1>3, <1>4
  <2> QED
    BY <1>5, <2>1, OfTwo
<1>7. up \in Nat /\ down \in Nat
  BY <1>3, <1>4, <1>6
<1>8. Turn(st, q) = IF ~q.enabled \/ ~Rested(st, q) THEN st
                    ELSE IF Above(q) THEN Rescaled(st, s, up)
                    ELSE IF Below(q) THEN Rescaled(st, s, down)
                    ELSE st
  BY <1>1, <1>5 DEF Turn
<1>9. CASE ~q.enabled \/ ~Rested(st, q)
  BY <1>8, <1>9
<1>10. CASE q.enabled /\ Rested(st, q)
  <2>1. Untouched(st, s)
    <3>1. ~Touched(st, s)
      BY <1>1, <1>3, <1>10 DEF Touched, LookUp, Rested
    <3> QED
      BY <1>3, <3>1 DEF PassInv
  <2>2. Rested(Orchestrated, q)
    <3>1. LookUp(lastScaled, s, q.cooldown) = LookUp(st.lastScaled, s, q.cooldown)
      BY <2>1 DEF Untouched, LookUp
    <3>2. Orchestrated.lastScaled = lastScaled
      BY DEF Orchestrated
    <3> QED
      BY <1>1, <1>10, <3>1, <3>2 DEF Rested
  <2>3. s \in DOMAIN instances => n = instances[s]
    BY <1>1, <2>1 DEF Untouched, LookUp
  <2>4. q \in Owned(s)
    BY <1>1, <1>10, <2>2 DEF Owned, ToSet, Range
  <2>5. policies \in Seq(Policies)
    BY DEF ScalingInv
  <2>6. PICK g : g = Governing(s)
    OBVIOUS
  <2>7. g \in Policies
    BY <1>1, <2>5, <2>6, GoverningIs
  <2>8. g.min \in Nat /\ g.max \in Nat /\ g.min <= g.max
    BY <2>7, PolicyIs
  <2>9. CASE Above(q)
    <3>1. PICK m : m = Clamped(g, up)
      OBVIOUS
    <3>2. /\ m \in Nat /\ m >= g.min /\ m <= g.max /\ (up > g.max => m = g.max)
          /\ (up < g.min => m = g.min) /\ (up \in g.min..g.max => m = up)
      BY <1>7, <2>7, <2>8, <3>1, ClampedIs
    <3>3. s \in DOMAIN instances /\ m < instances[s] => instances[s] > q.max \/ instances[s] > g.max
      BY <1>3, <1>4, <1>6, <1>7, <2>3, <2>8, <3>2
    <3>4. LoadSays(s, m)
      BY <2>4, <2>6, <2>9, <3>3 DEF LoadSays
    <3>5. PassInv(Rescaled(st, s, up)) /\ Justified(Rescaled(st, s, up))
      <4>1. PICK r : r = Rescaled(st, s, up)
        OBVIOUS
      <4>2. /\ PassInv(r) /\ Touched(r, s) /\ r.instances[s] = m
            /\ \A x \in ScaledServices : x # s =>
                 /\ Touched(r, x) => Touched(st, x) /\ r.instances[x] = st.instances[x]
        BY <1>1, <1>7, <2>1, <2>6, <3>1, <4>1, RescaledKeeps
      <4>4. Justified(r)
        BY <2>4, <3>4, <4>2 DEF Justified
      <4> QED
        BY <4>1, <4>2, <4>4
    <3> QED
      BY <1>8, <1>10, <2>9, <3>5
  <2>10. CASE ~Above(q) /\ Below(q)
    <3>1. PICK m : m = Clamped(g, down)
      OBVIOUS
    <3>2. /\ m \in Nat /\ m >= g.min /\ m <= g.max /\ (down > g.max => m = g.max)
          /\ (down < g.min => m = g.min) /\ (down \in g.min..g.max => m = down)
      BY <1>7, <2>7, <2>8, <3>1, ClampedIs
    <3>3. s \in DOMAIN instances /\ m > instances[s] => instances[s] < q.min \/ instances[s] < g.min
      BY <1>3, <1>4, <1>6, <1>7, <2>3, <2>8, <3>2
    <3>4. LoadSays(s, m)
      BY <2>4, <2>6, <2>10, <3>3 DEF LoadSays
    <3>5. PassInv(Rescaled(st, s, down)) /\ Justified(Rescaled(st, s, down))
      <4>1. PICK r : r = Rescaled(st, s, down)
        OBVIOUS
      <4>2. /\ PassInv(r) /\ Touched(r, s) /\ r.instances[s] = m
            /\ \A x \in ScaledServices : x # s =>
                 /\ Touched(r, x) => Touched(st, x) /\ r.instances[x] = st.instances[x]
        BY <1>1, <1>7, <2>1, <2>6, <3>1, <4>1, RescaledKeeps
      <4>4. Justified(r)
        BY <2>4, <3>4, <4>2 DEF Justified
      <4> QED
        BY <4>1, <4>2, <4>4
    <3> QED
      BY <1>8, <1>10, <2>10, <3>5
  <2>11. CASE ~Above(q) /\ ~Below(q)
    BY <1>8, <1>10, <2>11
  <2> QED
    BY <2>9, <2>10, <2>11
<1> QED
  BY <1>9, <1>10

LEMMA PassStarts ==
  ASSUME ScalingInv
  PROVE  PassInv(Orchestrated) /\ Justified(Orchestrated)
         /\ \A s \in ScaledServices : Untouched(Orchestrated, s)
<1>1. /\ Orchestrated.instances = instances /\ Orchestrated.deployed = deployed
      /\ Orchestrated.lastScaled = lastScaled /\ Orchestrated.events = scaleEvents
  BY DEF Orchestrated
<1>2. PICK st : st = Orchestrated
  OBVIOUS
<1>3. Len(scaleEvents) \in Nat
  BY DEF ScalingInv
<1>4. PassState(st)
  BY <1>1, <1>2, <1>3 DEF PassState, ScalingInv
<1>5. ASSUME NEW s PROVE NewOf(st, s) = {}
  BY <1>1, <1>2, <1>3 DEF NewOf
<1>6. ASSUME NEW s \in ScaledServices PROVE Untouched(st, s) /\ ~Touched(st, s)
  BY <1>1, <1>2, <1>5 DEF Untouched, Touched
<1> QED
  BY <1>2, <1>4, <1>6 DEF PassInv, Justified

LEMMA PassReaches ==
  ASSUME ScalingInv
  PROVE  PassInv(FoldLeft(Turn, Orchestrated, policies)) /\ Justified(FoldLeft(Turn, Orchestrated, policies))
<1>0. policies \in Seq(Policies) /\ Len(policies) \in Nat
  BY DEF ScalingInv
<1>1. PICK f : PassesTo(f) /\ FoldLeft(Turn, Orchestrated, policies) = f[Len(policies)]
  BY <1>0, PassSteps
<1> DEFINE T == {k \in Nat : k <= Len(policies) => PassInv(f[k]) /\ Justified(f[k])}
<1>2. 0 \in T
  BY <1>1, PassStarts DEF PassesTo
<1>3. ASSUME NEW k \in T PROVE k + 1 \in T
  <2>1. SUFFICES ASSUME k + 1 <= Len(policies) PROVE PassInv(f[k + 1]) /\ Justified(f[k + 1])
    OBVIOUS
  <2>2. PassInv(f[k]) /\ Justified(f[k]) /\ k + 1 \in 1..Len(policies) /\ (k + 1) - 1 = k
    BY <1>0, <2>1
  <2>3. f[k + 1] = Turn(f[k], policies[k + 1])
    BY <1>1, <2>2 DEF PassesTo
  <2>4. policies[k + 1] \in Range(policies)
    BY <1>0, <2>2 DEF Range
  <2> QED
    BY <2>2, <2>3, <2>4, TurnKeeps
<1> HIDE DEF T
<1>4. T = Nat
  <2>1. T \in SUBSET Nat
    BY DEF T
  <2> QED
    BY <1>2, <1>3, <2>1, SetInduction
<1> QED
  BY <1>0, <1>1, <1>4 DEF T

LEMMA BecomesKeeps ==
  ASSUME ScalingInv, NEW st, PassInv(st), Becomes(st), UNCHANGED <<policies, metrics>>
  PROVE  ScalingInv'
<1>1. /\ instances' = st.instances /\ deployed' = st.deployed
      /\ lastScaled' = st.lastScaled /\ scaleEvents' = st.events
  BY DEF Becomes
<1>2. PassState(st)
  BY DEF PassInv
<1>3. policies' = policies /\ metrics' = metrics
  OBVIOUS
<1>4. ASSUME NEW s \in DOMAIN st.instances, s \notin reset'
      PROVE  LookUp(st.deployed, s, 0) = st.instances[s]
  <2>1. s \in ScaledServices
    BY <1>2 DEF PassState
  <2>2. CASE Untouched(st, s)
    <3>1. s \in DOMAIN instances
      BY <2>2 DEF Untouched
    <3>2. ASSUME s \in reset PROVE FALSE
      <4>1. PICK i \in DOMAIN SubSeq(st.events, Len(scaleEvents) + 1, Len(st.events)) :
              s = SubSeq(st.events, Len(scaleEvents) + 1, Len(st.events))[i][1]
        BY <1>4, <3>2 DEF Becomes, ToSet
      <4>2. st.events \in Seq(ScaleEvents) /\ Len(scaleEvents) \in Nat /\ Len(st.events) \in Nat
        BY <1>2 DEF PassState, ScalingInv
      <4>3. PICK t, a, b : t = st.events /\ a = Len(scaleEvents) + 1 /\ b = Len(st.events)
        OBVIOUS
      <4>4. t \in Seq(ScaleEvents) /\ a \in Nat \ {0} /\ b \in Nat /\ b <= Len(t)
        BY <4>2, <4>3
      <4>5. PICK j : j = a + i - 1
        OBVIOUS
      <4>6. i \in DOMAIN SubSeq(t, a, b) /\ s = SubSeq(t, a, b)[i][1]
        BY <4>1, <4>3
      <4>7. j \in a..b /\ SubSeq(t, a, b)[i] = t[j]
        BY <4>4, <4>5, <4>6, Part
      <4>8. j \in NewOf(st, s)
        BY <4>3, <4>6, <4>7 DEF NewOf
      <4> QED
        BY <2>2, <4>8 DEF Untouched
    <3>3. LookUp(deployed, s, 0) = instances[s]
      BY <3>1, <3>2 DEF ScalingInv, CountsAgree
    <3> QED
      BY <2>2, <3>1, <3>3 DEF Untouched, LookUp
  <2>3. CASE Touched(st, s)
    BY <2>3 DEF Touched, LookUp
  <2> QED
    BY <2>1, <2>2, <2>3 DEF PassInv
<1>5. CountsAgree'
  BY <1>1, <1>4 DEF CountsAgree, LookUp
<1>6. /\ DOMAIN instances' \subseteq ScaledServices /\ DOMAIN deployed' \subseteq ScaledServices
      /\ DOMAIN lastScaled' \subseteq ScaledServices
      /\ \A s \in DOMAIN instances' : instances'[s] \in Nat
      /\ \A s \in DOMAIN lastScaled' : lastScaled'[s] \in 0..LongestCooldown
      /\ scaleEvents' \in Seq(ScaleEvents)
  BY <1>1, <1>2 DEF PassState
<1>7. /\ policies' \in Seq(Policies) /\ DOMAIN metrics' \subseteq ScaledServices
      /\ \A s \in DOMAIN metrics' : metrics'[s] \in Seq(Readings) /\ Len(metrics'[s]) <= MaxMetrics
  BY <1>3 DEF ScalingInv
<1> QED
  BY <1>5, <1>6, <1>7 DEF ScalingInv

LEMMA StoredIs ==
  ASSUME policies \in Seq(Policies), NEW p \in Policies
  PROVE  Stored(p) \in Seq(Policies)
<1>1. CASE PolicyAt(p) = {}
  BY <1>1 DEF Stored
<1>2. CASE PolicyAt(p) # {}
  <2>1. PICK i : i = CHOOSE x \in PolicyAt(p) : TRUE
    OBVIOUS
  <2>2. i \in DOMAIN policies
    BY <1>2, <2>1 DEF PolicyAt
  <2>3. Stored(p) = [policies EXCEPT ![i] = p]
    BY <1>2, <2>1 DEF Stored
  <2> QED
    BY <2>2, <2>3
<1> QED
  BY <1>1, <1>2

LEMMA ScalingStarts == ScalingInit => ScalingInv
<1>1. SUFFICES ASSUME ScalingInit PROVE ScalingInv
  OBVIOUS
<1>2. /\ policies = <<>> /\ instances = <<>> /\ deployed = <<>> /\ lastScaled = <<>>
      /\ metrics = <<>> /\ scaleEvents = <<>>
  BY <1>1 DEF ScalingInit
<1>3. DOMAIN <<>> = {} /\ <<>> \in Seq(Policies) /\ <<>> \in Seq(ScaleEvents)
  OBVIOUS
<1> QED
  BY <1>2, <1>3 DEF ScalingInv, CountsAgree

(* Every step of the orchestrator keeps its books.                         *)
LEMMA ScalingSteps ==
  ASSUME ScalingInv, [ScalingNext]_scalingVars
  PROVE  ScalingInv'
<1>0. /\ policies \in Seq(Policies)
      /\ DOMAIN instances \subseteq ScaledServices /\ DOMAIN deployed \subseteq ScaledServices
      /\ DOMAIN lastScaled \subseteq ScaledServices /\ DOMAIN metrics \subseteq ScaledServices
      /\ \A s \in DOMAIN instances : instances[s] \in Nat
      /\ \A s \in DOMAIN lastScaled : lastScaled[s] \in 0..LongestCooldown
      /\ \A s \in DOMAIN metrics : metrics[s] \in Seq(Readings) /\ Len(metrics[s]) <= MaxMetrics
      /\ scaleEvents \in Seq(ScaleEvents)
      /\ CountsAgree
  BY DEF ScalingInv
<1>1. ASSUME NEW p \in Policies, AddPolicy(p) PROVE ScalingInv'
  <2>1. /\ policies' = Stored(p) /\ instances' = Entry(instances, p.service, p.min)
        /\ metrics' = Entry(metrics, p.service, <<>>) /\ reset' = reset \cup {p.service}
        /\ deployed' = deployed /\ lastScaled' = lastScaled /\ scaleEvents' = scaleEvents
    BY <1>1 DEF AddPolicy
  <2>2. p.service \in ScaledServices /\ p.min \in Nat /\ MaxMetrics \in Nat
    BY PolicyIs
  <2>3. /\ DOMAIN instances' = DOMAIN instances \cup {p.service} /\ instances'[p.service] = p.min
        /\ \A x \in DOMAIN instances : x # p.service => instances'[x] = instances[x]
    BY <2>1 DEF Entry
  <2>4. /\ DOMAIN metrics' = DOMAIN metrics \cup {p.service} /\ metrics'[p.service] = <<>>
        /\ \A x \in DOMAIN metrics : x # p.service => metrics'[x] = metrics[x]
    BY <2>1 DEF Entry
  <2>5. <<>> \in Seq(Readings) /\ Len(<<>>) = 0
    OBVIOUS
  <2>6. policies' \in Seq(Policies)
    BY <1>0, <2>1, StoredIs
  <2>7. CountsAgree'
    BY <1>0, <2>1, <2>3 DEF CountsAgree, LookUp
  <2>8. \A s \in DOMAIN metrics' : metrics'[s] \in Seq(Readings) /\ Len(metrics'[s]) <= MaxMetrics
    <3>1. metrics'[p.service] \in Seq(Readings) /\ Len(metrics'[p.service]) <= MaxMetrics
      BY <2>2, <2>4, <2>5
    <3> QED
      BY <1>0, <2>4, <3>1
  <2>9. \A s \in DOMAIN instances' : instances'[s] \in Nat
    BY <1>0, <2>2, <2>3
  <2>10. DOMAIN instances' \subseteq ScaledServices /\ DOMAIN metrics' \subseteq ScaledServices
    BY <1>0, <2>2, <2>3, <2>4
  <2> QED
    BY <1>0, <2>1, <2>6, <2>7, <2>8, <2>9, <2>10 DEF ScalingInv
<1>2. ASSUME NEW p \in Policies, UpdatePolicy(p) PROVE ScalingInv'
  <2>1. policies' = Stored(p) /\ UNCHANGED <<instances, deployed, lastScaled, metrics, scaleEvents, reset>>
    BY <1>2 DEF UpdatePolicy
  <2>2. policies' \in Seq(Policies)
    BY <1>0, <2>1, StoredIs
  <2> QED
    BY <1>0, <2>1, <2>2 DEF ScalingInv, CountsAgree
<1>3. ASSUME NEW i \in DOMAIN policies, RemovePolicy(i) PROVE ScalingInv'
  <2>1. policies' = RemoveAt(policies, i) /\ UNCHANGED <<instances, deployed, lastScaled, metrics, scaleEvents, reset>>
    BY <1>3 DEF RemovePolicy
  <2>2. policies' \in Seq(Policies)
    <3>1. Dropped(policies, i) \in Seq(Policies)
      BY <1>0, RemovedAt
    <3> QED
      BY <2>1, <3>1 DEF Dropped, RemoveAt
  <2> QED
    BY <1>0, <2>1, <2>2 DEF ScalingInv, CountsAgree
<1>4. ASSUME NEW s \in ScaledServices, NEW v \in Readings, RecordMetric(s, v) PROVE ScalingInv'
  <2>1. PICK all : all = Append(LookUp(metrics, s, <<>>), v)
    OBVIOUS
  <2>2. PICK own : own = IF Len(all) > MaxMetrics THEN Tail(all) ELSE all
    OBVIOUS
  <2>3. /\ metrics' = Entry(metrics, s, own)
        /\ UNCHANGED <<policies, instances, deployed, lastScaled, scaleEvents, reset>>
    BY <1>4, <2>1, <2>2 DEF RecordMetric
  <2>4. MaxMetrics \in Nat \ {0}
    BY ScalingAssumption DEF ScalingAssumption
  <2>5. LookUp(metrics, s, <<>>) \in Seq(Readings) /\ Len(LookUp(metrics, s, <<>>)) <= MaxMetrics
    BY <1>0, <2>4 DEF LookUp
  <2>6. all \in Seq(Readings) /\ Len(all) <= MaxMetrics + 1 /\ Len(all) \in Nat
    <3>1. PICK old : old = LookUp(metrics, s, <<>>)
      OBVIOUS
    <3>2. old \in Seq(Readings) /\ Len(old) <= MaxMetrics /\ all = Append(old, v)
      BY <2>1, <2>5, <3>1
    <3>3. all \in Seq(Readings) /\ Len(all) = Len(old) + 1 /\ Len(old) \in Nat
      BY <3>2, Appended
    <3> QED
      BY <2>4, <3>2, <3>3
  <2>7. own \in Seq(Readings) /\ Len(own) <= MaxMetrics
    BY <2>2, <2>4, <2>6
  <2>8. /\ DOMAIN metrics' = DOMAIN metrics \cup {s} /\ metrics'[s] = own
        /\ \A x \in DOMAIN metrics : x # s => metrics'[x] = metrics[x]
    BY <2>3 DEF Entry
  <2>9. \A x \in DOMAIN metrics' : metrics'[x] \in Seq(Readings) /\ Len(metrics'[x]) <= MaxMetrics
    BY <1>0, <2>7, <2>8
  <2> QED
    BY <1>0, <2>3, <2>8, <2>9 DEF ScalingInv, CountsAgree
<1>5. ASSUME NEW s \in ScaledServices, NEW n \in Targets, ScaleService(s, n) PROVE ScalingInv'
  <2>1. /\ Governed(s) /\ Becomes(Rescaled(Orchestrated, s, n)) /\ UNCHANGED <<policies, metrics>>
    BY <1>5 DEF ScaleService
  <2>2. PICK i \in DOMAIN policies : policies[i].service = s
    BY <2>1 DEF Governed
  <2>3. PICK q : q = policies[i]
    OBVIOUS
  <2>4. q \in Range(policies) /\ s = q.service
    BY <2>2, <2>3 DEF Range
  <2>5. n \in Nat
    BY ScalingAssumption DEF ScalingAssumption
  <2>6. PassInv(Rescaled(Orchestrated, s, n))
    BY <2>4, <2>5, PassStarts, RescaledKeeps
  <2> QED
    BY <2>1, <2>6, BecomesKeeps
<1>6. CASE ScalingPass
  <2>1. Becomes(FoldLeft(Turn, Orchestrated, policies)) /\ UNCHANGED <<policies, metrics>>
    BY <1>6 DEF ScalingPass
  <2> QED
    BY <2>1, PassReaches, BecomesKeeps
<1>7. CASE CooldownPasses
  <2>1. /\ lastScaled' = [s \in DOMAIN lastScaled |-> Min({lastScaled[s] + 1, LongestCooldown})]
        /\ UNCHANGED <<policies, instances, deployed, metrics, scaleEvents, reset>>
    BY <1>7 DEF CooldownPasses
  <2>2. LongestCooldown \in Nat
    BY ScalingAssumption DEF ScalingAssumption
  <2>3. ASSUME NEW s \in DOMAIN lastScaled PROVE lastScaled'[s] \in 0..LongestCooldown
    <3>1. lastScaled[s] \in Int /\ lastScaled[s] + 1 \in Int /\ lastScaled[s] + 1 >= 0
      BY <1>0, <2>2
    <3>2. LongestCooldown \in Int
      BY <2>2
    <3>3. PICK a : a = lastScaled[s] + 1
      OBVIOUS
    <3>4. Min({a, LongestCooldown}) = IF a <= LongestCooldown THEN a ELSE LongestCooldown
      BY <3>1, <3>2, <3>3, OfTwo
    <3>5. Min({a, LongestCooldown}) \in 0..LongestCooldown
      BY <2>2, <3>1, <3>3, <3>4
    <3> QED
      BY <2>1, <3>3, <3>5
  <2>4. DOMAIN lastScaled' = DOMAIN lastScaled
    BY <2>1
  <2> QED
    BY <1>0, <2>1, <2>3, <2>4 DEF ScalingInv, CountsAgree
<1>8. CASE UNCHANGED scalingVars
  <2>1. /\ policies' = policies /\ instances' = instances /\ deployed' = deployed /\ lastScaled' = lastScaled
        /\ metrics' = metrics /\ scaleEvents' = scaleEvents /\ reset' = reset
    BY <1>8 DEF scalingVars
  <2> QED
    BY <2>1 DEF ScalingInv, CountsAgree
<1> QED
  BY <1>1, <1>2, <1>3, <1>4, <1>5, <1>6, <1>7, <1>8 DEF ScalingNext

LEMMA ScalingTyped ==
  ASSUME ScalingInv PROVE ScalingTypeOK /\ CountsAgree
BY DEF ScalingInv, ScalingTypeOK

(* A pass scales a service at most once, and only by its load.             *)
LEMMA PassesOnce ==
  ASSUME ScalingInv PROVE OncePerCooldown /\ LoadDecides
<1>1. SUFFICES ASSUME ScalingPass PROVE OncePerCooldown /\ LoadDecides
  BY DEF OncePerCooldown, LoadDecides
<1>2. PICK st : st = FoldLeft(Turn, Orchestrated, policies)
  OBVIOUS
<1>3. instances' = st.instances /\ scaleEvents' = st.events
  BY <1>1, <1>2 DEF ScalingPass, Becomes
<1>4. PassInv(st) /\ Justified(st)
  BY <1>2, PassReaches
<1>5. ASSUME NEW s \in ScaledServices
      PROVE  Cardinality(NewOf(st, s)) <= 1
             /\ (NewOf(st, s) # {} => \E p \in ToSet(policies) : p.service = s /\ Rested(Orchestrated, p))
  <2>1. CASE Untouched(st, s)
    <3>1. NewOf(st, s) = {}
      BY <2>1 DEF Untouched
    <3> QED
      BY <3>1, FS_EmptySet
  <2>2. CASE Touched(st, s)
    <3>1. PICK i : NewOf(st, s) = {i}
      BY <2>2 DEF Touched
    <3>2. Cardinality({i}) = 1
      BY FS_Singleton
    <3>3. Owned(s) # {}
      BY <1>4, <2>2 DEF Justified
    <3> QED
      BY <3>1, <3>2, <3>3 DEF Owned
  <2> QED
    BY <1>4, <2>1, <2>2 DEF PassInv
<1>6. OncePerCooldown
  BY <1>3, <1>5 DEF OncePerCooldown, NewOf
<1>7. ASSUME NEW s \in DOMAIN instances PROVE LoadSays(s, st.instances[s])
  <2>1. s \in ScaledServices /\ instances[s] \in Nat
    BY DEF ScalingInv
  <2>2. CASE Untouched(st, s)
    BY <2>1, <2>2 DEF Untouched, LoadSays
  <2>3. CASE Touched(st, s)
    BY <1>4, <2>1, <2>3 DEF Justified
  <2> QED
    BY <1>4, <2>1, <2>2, <2>3 DEF PassInv
<1>8. LoadDecides
  BY <1>3, <1>7 DEF LoadDecides, LoadSays, Owned
<1> QED
  BY <1>6, <1>8

(* Places chosen one after another, each of 1..k once a round.             *)
Cyclic(s, k) ==
  /\ s \in Seq(Nat) /\ Len(s) <= k
  /\ \A i \in DOMAIN s : s[i] \in 1..k
  /\ \A i, j \in DOMAIN s : i <= j => s[j] = s[i] + (j - i) \/ s[j] = s[i] + (j - i) - k

LEMMA CyclicOnce ==
  ASSUME NEW k \in Nat, NEW s, Cyclic(s, k)
  PROVE  IsInjective(s)
<1>1. DOMAIN s = 1..Len(s) /\ Len(s) \in Nat /\ Len(s) <= k
  BY DEF Cyclic
<1>2. ASSUME NEW i \in DOMAIN s, NEW j \in DOMAIN s, i < j PROVE s[i] # s[j]
  <2>1. s[i] \in 1..k /\ s[j] \in 1..k /\ j - i \in 1..(k - 1)
    BY <1>1, <1>2 DEF Cyclic
  <2>2. s[j] = s[i] + (j - i) \/ s[j] = s[i] + (j - i) - k
    BY <1>1, <1>2 DEF Cyclic
  <2> QED
    BY <1>1, <2>1, <2>2
<1>3. \A i, j \in DOMAIN s : i < j \/ j < i \/ i = j
  BY <1>1
<1> QED
  BY <1>2, <1>3 DEF IsInjective

LEMMA CyclicTail ==
  ASSUME NEW k \in Nat, NEW s, Cyclic(s, k), s # <<>>
  PROVE  Cyclic(Tail(s), k) /\ Len(Tail(s)) = Len(s) - 1
         /\ (Tail(s) # <<>> => Tail(s)[Len(Tail(s))] = s[Len(s)])
<1>1. s \in Seq(Nat) /\ Len(s) <= k /\ DOMAIN s = 1..Len(s)
  BY DEF Cyclic
<1>2. PICK t : t = Tail(s)
  OBVIOUS
<1>3. /\ t \in Seq(Nat) /\ Len(t) = Len(s) - 1 /\ Len(s) \in Nat \ {0}
      /\ DOMAIN t = 1..(Len(s) - 1) /\ \A i \in 1..(Len(s) - 1) : t[i] = s[i + 1]
  BY <1>1, <1>2, Shortened
<1>4. \A i \in DOMAIN t : i \in Nat /\ i + 1 \in DOMAIN s /\ t[i] = s[i + 1]
  BY <1>1, <1>3
<1>5. \A i \in DOMAIN t : t[i] \in 1..k
  BY <1>4 DEF Cyclic
<1>6. ASSUME NEW i \in DOMAIN t, NEW j \in DOMAIN t, i <= j
      PROVE  t[j] = t[i] + (j - i) \/ t[j] = t[i] + (j - i) - k
  <2>1. i + 1 <= j + 1 /\ (j + 1) - (i + 1) = j - i
    BY <1>4, <1>6
  <2>2. s[j + 1] = s[i + 1] + ((j + 1) - (i + 1)) \/ s[j + 1] = s[i + 1] + ((j + 1) - (i + 1)) - k
    BY <1>4, <2>1 DEF Cyclic
  <2> QED
    BY <1>4, <2>1, <2>2
<1>7. Cyclic(t, k)
  BY <1>1, <1>3, <1>5, <1>6 DEF Cyclic
<1>8. t # <<>> => t[Len(t)] = s[Len(s)]
  <2>1. SUFFICES ASSUME t # <<>> PROVE t[Len(t)] = s[Len(s)]
    OBVIOUS
  <2>2. Len(t) \in Nat \ {0}
    BY <1>3, <2>1
  <2>3. Len(t) \in 1..(Len(s) - 1) /\ Len(t) + 1 = Len(s)
    BY <1>3, <2>2
  <2> QED
    BY <1>3, <2>3
<1> QED
  BY <1>2, <1>3, <1>7, <1>8

LEMMA CyclicAppended ==
  ASSUME NEW k \in Nat, NEW s, Cyclic(s, k), Len(s) < k, NEW p \in 1..k,
         s # <<>> => p = IF s[Len(s)] = k THEN 1 ELSE s[Len(s)] + 1
  PROVE  Cyclic(Append(s, p), k)
<1>1. s \in Seq(Nat) /\ DOMAIN s = 1..Len(s) /\ Len(s) \in Nat /\ p \in Nat
  BY DEF Cyclic
<1>2. PICK t : t = Append(s, p)
  OBVIOUS
<1>3. /\ t \in Seq(Nat) /\ Len(t) = Len(s) + 1 /\ DOMAIN t = 1..(Len(s) + 1)
      /\ (\A i \in 1..Len(s) : t[i] = s[i]) /\ t[Len(s) + 1] = p
  BY <1>1, <1>2, Appended
<1>4. \A i \in DOMAIN t : i \in DOMAIN s \/ i = Len(s) + 1
  BY <1>1, <1>3
<1>5. \A i \in DOMAIN t : t[i] \in 1..k
  BY <1>1, <1>3, <1>4 DEF Cyclic
<1>6. ASSUME NEW i \in DOMAIN t, NEW j \in DOMAIN t, i <= j
      PROVE  t[j] = t[i] + (j - i) \/ t[j] = t[i] + (j - i) - k
  <2>1. CASE j \in DOMAIN s
    <3>1. i \in DOMAIN s
      BY <1>1, <1>3, <1>6, <2>1
    <3> QED
      BY <1>1, <1>3, <1>6, <2>1, <3>1 DEF Cyclic
  <2>2. CASE i \in DOMAIN s /\ j = Len(s) + 1
    <3>1. Len(s) \in DOMAIN s /\ s # <<>> /\ i <= Len(s)
      BY <1>1, <2>2
    <3>2. PICK l, a : l = Len(s) /\ a = s[Len(s)]
      OBVIOUS
    <3>3. a = s[i] + (l - i) \/ a = s[i] + (l - i) - k
      BY <3>1, <3>2, <2>2 DEF Cyclic
    <3>4. a \in 1..k /\ s[i] \in 1..k /\ l \in Nat /\ i \in 1..l /\ l < k
      BY <1>1, <2>2, <3>1, <3>2 DEF Cyclic
    <3>5. p = IF a = k THEN 1 ELSE a + 1
      BY <3>1, <3>2
    <3>6. PICK b : b = s[i]
      OBVIOUS
    <3>7. b \in 1..k /\ (a = b + (l - i) \/ a = b + (l - i) - k)
      BY <3>3, <3>4, <3>6
    <3>8. p = b + ((l + 1) - i) \/ p = b + ((l + 1) - i) - k
      <4>1. CASE a = k
        BY <3>4, <3>5, <3>7, <4>1
      <4>2. CASE a # k
        <5>1. p = a + 1 /\ a \in Int /\ b \in Int /\ l \in Int /\ i \in Int /\ k \in Int
          BY <3>4, <3>5, <3>7, <4>2
        <5>2. a = b + (l - i) => p = b + ((l + 1) - i)
          BY <5>1
        <5>3. a = b + (l - i) - k => p = b + ((l + 1) - i) - k
          BY <5>1
        <5> QED
          BY <3>7, <5>2, <5>3
      <4> QED
        BY <4>1, <4>2
    <3> QED
      BY <1>1, <1>3, <2>2, <3>2, <3>6, <3>8
  <2>3. CASE i = Len(s) + 1 /\ j = Len(s) + 1
    BY <1>1, <1>3, <2>3
  <2> QED
    BY <1>1, <1>3, <1>4, <1>6, <2>1, <2>2, <2>3
<1>7. Len(t) <= k
  BY <1>1, <1>3
<1> QED
  BY <1>2, <1>3, <1>5, <1>6, <1>7 DEF Cyclic

(* One more, around k.                                                     *)
LEMMA NextAround ==
  ASSUME NEW a \in Nat, NEW k \in Nat \ {0}
  PROVE  /\ a % k \in 0..(k - 1) /\ (a + 1) % k = IF a % k = k - 1 THEN 0 ELSE (a % k) + 1
         /\ a < k => a % k = a
<1>1. PICK q, r : q = a \div k /\ r = a % k
  OBVIOUS
<1>2. q \in Int /\ r \in 0..(k - 1) /\ a = k * q + r
  BY <1>1
<1>3. PICK q2, r2 : q2 = (a + 1) \div k /\ r2 = (a + 1) % k
  OBVIOUS
<1>4. q2 \in Int /\ r2 \in 0..(k - 1) /\ a + 1 = k * q2 + r2
  BY <1>3
<1>5. k * (q2 - q) = r + 1 - r2
  BY <1>2, <1>4
<1>6. PICK d : d = q2 - q
  OBVIOUS
<1>7. d \in Int /\ k * d = r + 1 - r2
  BY <1>2, <1>4, <1>5, <1>6
<1>8. d = 0 \/ d = 1
  <2>1. d >= 2 => k * d >= 2 * k
    BY <1>7
  <2>2. d <= -1 => k * d <= -k
    BY <1>7
  <2> QED
    BY <1>2, <1>4, <1>7, <2>1, <2>2
<1>9. d = 0 => r2 = r + 1
  BY <1>2, <1>4, <1>7
<1>10. d = 1 => r2 = r + 1 - k
  BY <1>2, <1>4, <1>7
<1>11. r2 = IF r = k - 1 THEN 0 ELSE r + 1
  BY <1>2, <1>4, <1>8, <1>9, <1>10
<1>12. a < k => r = a
  <2>1. SUFFICES ASSUME a < k PROVE q = 0
    BY <1>2
  <2>2. q >= 1 => k * q >= k
    BY <1>2
  <2>3. q <= -1 => k * q <= -k
    BY <1>2
  <2> QED
    BY <1>2, <2>1, <2>2, <2>3
<1> QED
  BY <1>1, <1>2, <1>3, <1>11, <1>12

(* The registry, the balancer and the checker.                             *)
Ids == {b.id : b \in Backends}
After(place, k) == IF place = k THEN 0 ELSE place
TurnsAround(n) ==
  /\ turns[n].from \in Seq(Backends)
  /\ Cyclic(turns[n].places, Len(turns[n].from))
  /\ turns[n].places # <<>> =>
       nextIndex[n] = After(turns[n].places[Len(turns[n].places)], Len(turns[n].from))
IdsApart == \A i, j \in DOMAIN byId : byId[i].id = byId[j].id => i = j
BalancingInv ==
  /\ listed \in [Names -> Seq(Backends)] /\ byId \in Seq(Backends) /\ IdsApart
  /\ healthy \in [Backends -> BOOLEAN] /\ beat \in [Backends -> Nat]
  /\ nextIndex \in [Names -> Nat] /\ failures \in [Ids -> 0..Threshold]
  /\ toCheck \in Seq(Backends)
  /\ DOMAIN affinity = Names \X LBClients
  /\ DOMAIN turns = Names /\ \A n \in Names : TurnsAround(n)
  /\ StrayMoved

LEMMA BackendIs ==
  ASSUME NEW b \in Backends PROVE b.id \in Ids /\ b.name \in Names
BY DEF Ids, Names

LEMMA HolderIs ==
  ASSUME byId \in Seq(Backends), NEW i, Known(i) # {}
  PROVE  Holder(i) \in Backends /\ Holder(i).id = i /\ Holder(i) \in Range(byId)
<1>1. PICK k : k = CHOOSE x \in Known(i) : TRUE
  OBVIOUS
<1>2. k \in Known(i)
  BY <1>1
<1>3. k \in DOMAIN byId /\ byId[k].id = i
  BY <1>2 DEF Known
<1>4. Holder(i) = byId[k]
  BY <1>1 DEF Holder
<1> QED
  BY <1>3, <1>4 DEF Range

LEMMA BalancingStarts == BalancingInit => BalancingInv
<1>1. SUFFICES ASSUME BalancingInit PROVE BalancingInv
  OBVIOUS
<1>2. /\ listed = [n \in Names |-> <<>>] /\ byId = <<>>
      /\ healthy = [b \in Backends |-> FALSE] /\ beat = [b \in Backends |-> 0]
      /\ nextIndex = [n \in Names |-> 0]
      /\ affinity = [k \in Names \X LBClients |-> "none"]
      /\ failures = [i \in Ids |-> 0] /\ toCheck = <<>>
      /\ turns = [n \in Names |-> [from |-> <<>>, places |-> <<>>]]
  BY <1>1 DEF BalancingInit, Ids
<1>3. /\ <<>> \in Seq(Backends) /\ <<>> \in Seq(Nat) /\ DOMAIN <<>> = {} /\ Len(<<>>) = 0
      /\ Threshold \in Nat
  BY BalancingAssumption DEF BalancingAssumption
<1>4. ASSUME NEW n \in Names PROVE TurnsAround(n)
  <2>1. turns[n].from = <<>> /\ turns[n].places = <<>>
    BY <1>2
  <2> QED
    BY <1>3, <2>1 DEF TurnsAround, Cyclic
<1>5. StrayMoved
  <2>1. \A n \in Names : listed[n] = <<>>
    BY <1>2
  <2> QED
    BY <2>1 DEF StrayMoved, ToSet
<1>6. IdsApart
  BY <1>2, <1>3 DEF IdsApart
<1>7. failures \in [Ids -> 0..Threshold] /\ DOMAIN affinity = Names \X LBClients /\ DOMAIN turns = Names
  BY <1>2, <1>3
<1>8. /\ listed \in [Names -> Seq(Backends)] /\ byId \in Seq(Backends) /\ toCheck \in Seq(Backends)
      /\ healthy \in [Backends -> BOOLEAN] /\ beat \in [Backends -> Nat] /\ nextIndex \in [Names -> Nat]
  BY <1>2, <1>3
<1> QED
  BY <1>4, <1>5, <1>6, <1>7, <1>8 DEF BalancingInv

LEMMA OfferedIs ==
  ASSUME BalancingInv, NEW n \in Names
  PROVE  Offered(n) \in Seq(Backends) /\ Range(Offered(n)) \subseteq Range(listed[n])
<1>1. listed[n] \in Seq(Backends)
  BY DEF BalancingInv
<1> QED
  BY <1>1, OnlyRange DEF Offered

LEMMA RegisterKeeps ==
  ASSUME BalancingInv, NEW b \in Backends, Register(b)
  PROVE  BalancingInv'
<1>0. /\ listed \in [Names -> Seq(Backends)] /\ byId \in Seq(Backends) /\ IdsApart /\ StrayMoved
  BY DEF BalancingInv
<1>1. /\ byId' = IF Known(b.id) = {} THEN Append(byId, b)
                  ELSE [byId EXCEPT ![CHOOSE k \in Known(b.id) : TRUE] = b]
      /\ listed' = [listed EXCEPT ![b.name] = Append(@, b)]
      /\ UNCHANGED <<algorithm, healthy, beat, nextIndex, affinity, failures, toCheck, turns>>
  BY DEF Register
<1>2. b.name \in Names /\ listed[b.name] \in Seq(Backends)
  BY <1>0, BackendIs
<1>3. /\ listed' \in [Names -> Seq(Backends)] /\ listed'[b.name] = Append(listed[b.name], b)
      /\ \A n \in Names : n # b.name => listed'[n] = listed[n]
  BY <1>0, <1>1, <1>2
<1>4. /\ byId' \in Seq(Backends) /\ IdsApart'
      /\ \A i : Known(i) # {} => Known(i)' # {}
      /\ Known(b.id)' # {}
  <2>1. CASE Known(b.id) = {}
    <3>1. PICK q : q = Append(byId, b)
      OBVIOUS
    <3>2. /\ q \in Seq(Backends) /\ DOMAIN q = 1..(Len(byId) + 1) /\ DOMAIN byId = 1..Len(byId)
          /\ (\A i \in 1..Len(byId) : q[i] = byId[i]) /\ q[Len(byId) + 1] = b
      BY <1>0, <3>1, Appended
    <3>3. byId' = q /\ Len(byId) \in Nat
      BY <1>0, <1>1, <2>1, <3>1
    <3>4. \A i \in DOMAIN q : i \in DOMAIN byId \/ i = Len(byId) + 1
      BY <3>2, <3>3
    <3>5. \A i \in DOMAIN byId : byId[i].id # b.id /\ q[i] = byId[i] /\ i \in DOMAIN q
      BY <2>1, <3>2, <3>3 DEF Known
    <3>6. ASSUME NEW i \in DOMAIN q, NEW j \in DOMAIN q, q[i].id = q[j].id PROVE i = j
      BY <1>0, <3>2, <3>4, <3>5, <3>6 DEF IdsApart
    <3>7. IdsApart'
      BY <3>3, <3>6 DEF IdsApart
    <3>8. \A i : Known(i) # {} => Known(i)' # {}
      BY <3>3, <3>5 DEF Known
    <3>9. Known(b.id)' # {}
      <4>1. Len(byId) + 1 \in DOMAIN q
        BY <3>2, <3>3
      <4> QED
        BY <3>2, <3>3, <4>1 DEF Known
    <3> QED
      BY <3>2, <3>3, <3>7, <3>8, <3>9
  <2>2. CASE Known(b.id) # {}
    <3>1. PICK k : k = CHOOSE x \in Known(b.id) : TRUE
      OBVIOUS
    <3>2. k \in DOMAIN byId /\ byId[k].id = b.id
      BY <2>2, <3>1 DEF Known
    <3>3. byId' = [byId EXCEPT ![k] = b]
      BY <1>1, <2>2, <3>1
    <3>4. byId' \in Seq(Backends) /\ DOMAIN byId' = DOMAIN byId /\ byId'[k] = b
          /\ \A i \in DOMAIN byId : i # k => byId'[i] = byId[i]
      BY <1>0, <3>2, <3>3
    <3>5. \A i \in DOMAIN byId : byId'[i].id = byId[i].id
      BY <3>2, <3>4
    <3>6. IdsApart'
      BY <1>0, <3>4, <3>5 DEF IdsApart
    <3>7. \A i : Known(i) # {} => Known(i)' # {}
      BY <3>4, <3>5 DEF Known
    <3> QED
      BY <2>2, <3>4, <3>6, <3>7
  <2> QED
    BY <2>1, <2>2
<1>5. StrayMoved'
  <2>1. SUFFICES ASSUME NEW n \in Names, NEW x \in ToSet(listed'[n]), Known(x.id)' = {}
                 PROVE  \E a \in Backends : a.id = x.id /\ a.name # n
    BY DEF StrayMoved
  <2>2. Known(x.id) = {} /\ x # b
    BY <1>4, <2>1
  <2>3. x \in ToSet(listed[n])
    <3>1. CASE n = b.name
      <4>1. Range(Append(listed[b.name], b)) = Range(listed[b.name]) \cup {b}
        BY <1>2, Appended
      <4> QED
        BY <1>3, <2>1, <2>2, <3>1, <4>1 DEF ToSet, Range
    <3>2. CASE n # b.name
      BY <1>3, <2>1, <3>2
    <3> QED
      BY <3>1, <3>2
  <2> QED
    BY <1>0, <2>2, <2>3 DEF StrayMoved
<1>6. /\ healthy' = healthy /\ beat' = beat /\ nextIndex' = nextIndex /\ affinity' = affinity
      /\ failures' = failures /\ toCheck' = toCheck /\ turns' = turns
  BY <1>1
<1>7. \A n \in Names : TurnsAround(n)'
  BY <1>6 DEF TurnsAround, BalancingInv
<1> QED
  BY <1>3, <1>4, <1>5, <1>6, <1>7 DEF BalancingInv

LEMMA DeregisterKeeps ==
  ASSUME BalancingInv, NEW i \in Ids, Deregister(i)
  PROVE  BalancingInv'
<1>0. /\ listed \in [Names -> Seq(Backends)] /\ byId \in Seq(Backends) /\ IdsApart /\ StrayMoved
  BY DEF BalancingInv
<1>1. PICK h, P : h = Holder(i) /\ P = {b \in Backends : b.id # i}
  OBVIOUS
<1>2. /\ byId' = Only(byId, P) /\ listed' = [listed EXCEPT ![h.name] = Only(@, P)]
      /\ UNCHANGED <<algorithm, healthy, beat, nextIndex, affinity, failures, toCheck, registered, turns>>
      /\ Known(i) # {}
  BY <1>1 DEF Deregister
<1>3. h \in Backends /\ h.id = i /\ h.name \in Names
  BY <1>0, <1>1, <1>2, HolderIs, BackendIs
<1>4. listed[h.name] \in Seq(Backends)
  BY <1>0, <1>3
<1>5. /\ Only(listed[h.name], P) \in Seq(Backends)
      /\ Range(Only(listed[h.name], P)) = Range(listed[h.name]) \cap P
  BY <1>4, OnlyRange
<1>6. /\ listed' \in [Names -> Seq(Backends)] /\ listed'[h.name] = Only(listed[h.name], P)
      /\ \A n \in Names : n # h.name => listed'[n] = listed[n]
  BY <1>0, <1>2, <1>3, <1>5
<1>7. PICK q : q = byId'
  OBVIOUS
<1>8. q \in Seq(Backends) /\ Leaves(q, byId, Len(byId), P) /\ Range(q) = Range(byId) \cap P
  BY <1>0, <1>2, <1>7, OnlyLeaves, OnlyRange
<1>9. IdsApart'
  <2>1. DOMAIN q = 1..Len(q) /\ Len(q) \in Nat /\ DOMAIN byId = 1..Len(byId) /\ Len(byId) \in Nat
    BY <1>0, <1>8
  <2>2. ASSUME NEW x \in DOMAIN q, NEW y \in DOMAIN q, x < y PROVE q[x].id # q[y].id
    <3>1. PICK a \in 1..Len(byId), c \in 1..Len(byId) : a < c /\ q[x] = byId[a] /\ q[y] = byId[c]
      BY <1>8, <2>2 DEF Leaves
    <3> QED
      BY <1>0, <2>1, <3>1 DEF IdsApart
  <2>3. \A x, y \in DOMAIN q : x < y \/ y < x \/ x = y
    BY <2>1
  <2> QED
    BY <1>7, <2>2, <2>3 DEF IdsApart
<1>10. ASSUME NEW j, j # i, Known(j) # {} PROVE Known(j)' # {}
  <2>1. PICK k \in DOMAIN byId : byId[k].id = j
    BY <1>10 DEF Known
  <2>2. byId[k] \in Range(byId) /\ byId[k] \in Backends
    BY <1>0 DEF Range
  <2>3. byId[k] \in Range(q)
    BY <1>1, <1>8, <1>10, <2>1, <2>2
  <2> QED
    BY <1>7, <2>1, <2>3 DEF Known, Range
<1>11. StrayMoved'
  <2>1. SUFFICES ASSUME NEW n \in Names, NEW x \in ToSet(listed'[n]), Known(x.id)' = {}
                 PROVE  \E a \in Backends : a.id = x.id /\ a.name # n
    BY DEF StrayMoved
  <2>2. CASE n = h.name
    <3>1. x \in Range(listed[n]) /\ x \in P
      BY <1>5, <1>6, <2>1, <2>2 DEF ToSet, Range
    <3>2. x.id # i
      BY <1>1, <3>1
    <3>3. Known(x.id) = {} /\ x \in ToSet(listed[n])
      BY <1>10, <2>1, <3>1, <3>2 DEF ToSet, Range
    <3> QED
      BY <1>0, <3>3 DEF StrayMoved
  <2>3. CASE n # h.name /\ x.id = i
    BY <1>3, <2>3
  <2>4. CASE n # h.name /\ x.id # i
    <3>1. Known(x.id) = {} /\ x \in ToSet(listed[n])
      BY <1>6, <1>10, <2>1, <2>4
    <3> QED
      BY <1>0, <3>1 DEF StrayMoved
  <2> QED
    BY <2>2, <2>3, <2>4
<1>12. /\ healthy' = healthy /\ beat' = beat /\ nextIndex' = nextIndex /\ affinity' = affinity
      /\ failures' = failures /\ toCheck' = toCheck /\ turns' = turns
  BY <1>2
<1>13. \A n \in Names : TurnsAround(n)'
  BY <1>12 DEF TurnsAround, BalancingInv
<1>14. byId' \in Seq(Backends)
  BY <1>7, <1>8
<1> QED
  BY <1>6, <1>9, <1>11, <1>12, <1>13, <1>14 DEF BalancingInv

LEMMA RoundRobinKeeps ==
  ASSUME BalancingInv, NEW n \in Names, Offered(n) # <<>>, RoundRobin(n)
  PROVE  /\ nextIndex' \in [Names -> Nat] /\ DOMAIN turns' = Names
         /\ \A x \in Names : TurnsAround(x)'
<1>0. /\ nextIndex \in [Names -> Nat] /\ DOMAIN turns = Names /\ \A x \in Names : TurnsAround(x)
  BY DEF BalancingInv
<1>1. PICK from, old : from = Offered(n) /\ old = turns[n]
  OBVIOUS
<1>2. PICK k, idx : k = Len(from) /\ idx = nextIndex[n]
  OBVIOUS
<1>3. PICK place : place = (idx % k) + 1
  OBVIOUS
<1>4. PICK before : before = IF old.from = from THEN old.places ELSE <<>>
  OBVIOUS
<1>5. PICK recent : recent = IF Len(before) < Len(from) THEN before ELSE Tail(before)
  OBVIOUS
<1>6. /\ nextIndex' = [nextIndex EXCEPT ![n] = (idx + 1) % k]
      /\ turns' = [turns EXCEPT ![n] = [from |-> from, places |-> Append(recent, place)]]
  BY <1>1, <1>2, <1>3, <1>4, <1>5 DEF RoundRobin
<1>7. from \in Seq(Backends) /\ k \in Nat \ {0} /\ idx \in Nat
  BY <1>0, <1>1, <1>2, OfferedIs
<1>8. /\ idx % k \in 0..(k - 1) /\ (idx + 1) % k = IF idx % k = k - 1 THEN 0 ELSE (idx % k) + 1
      /\ idx < k => idx % k = idx
  BY <1>7, NextAround
<1>9. place \in 1..k /\ place \in Nat /\ (idx + 1) % k = After(place, k) /\ (idx + 1) % k \in Nat
  BY <1>3, <1>7, <1>8 DEF After
<1>10. Cyclic(<<>>, k)
  BY <1>7 DEF Cyclic
<1>11. /\ Cyclic(before, k)
       /\ before # <<>> => idx = After(before[Len(before)], k)
  <2>1. CASE old.from = from
    BY <1>0, <1>1, <1>2, <1>4, <2>1 DEF TurnsAround
  <2>2. CASE old.from # from
    BY <1>4, <1>10, <2>2
  <2> QED
    BY <2>1, <2>2
<1>12. before # <<>> => place = IF before[Len(before)] = k THEN 1 ELSE before[Len(before)] + 1
  <2>1. SUFFICES ASSUME before # <<>>
                 PROVE  place = IF before[Len(before)] = k THEN 1 ELSE before[Len(before)] + 1
    OBVIOUS
  <2>2. PICK a : a = before[Len(before)]
    OBVIOUS
  <2>3. a \in 1..k
    <3>1. before \in Seq(Nat) /\ DOMAIN before = 1..Len(before) /\ Len(before) \in Nat \ {0}
      BY <1>11, <2>1 DEF Cyclic
    <3>2. Len(before) \in DOMAIN before
      BY <3>1
    <3> QED
      BY <1>11, <2>2, <3>2 DEF Cyclic
  <2>4. idx = After(a, k)
    BY <1>11, <2>1, <2>2
  <2>5. CASE a = k
    BY <1>3, <1>7, <1>8, <2>2, <2>4, <2>5 DEF After
  <2>6. CASE a # k
    <3>1. idx = a /\ a < k
      BY <1>7, <2>3, <2>4, <2>6 DEF After
    <3> QED
      BY <1>3, <1>8, <2>2, <2>6, <3>1
  <2> QED
    BY <2>5, <2>6
<1>13. /\ Cyclic(recent, k) /\ Len(recent) < k
       /\ recent # <<>> => place = IF recent[Len(recent)] = k THEN 1 ELSE recent[Len(recent)] + 1
  <2>1. Len(before) \in Nat /\ Len(before) <= k
    BY <1>11 DEF Cyclic
  <2>2. CASE Len(before) < k
    <3>1. recent = before
      BY <1>2, <1>5, <2>2
    <3> QED
      BY <1>11, <1>12, <2>2, <3>1
  <2>3. CASE ~(Len(before) < k)
    <3>1. recent = Tail(before) /\ Len(before) = k /\ before # <<>>
      BY <1>2, <1>5, <1>7, <2>1, <2>3
    <3>2. /\ Cyclic(Tail(before), k) /\ Len(Tail(before)) = Len(before) - 1
          /\ (Tail(before) # <<>> => Tail(before)[Len(Tail(before))] = before[Len(before)])
      BY <1>7, <1>11, <3>1, CyclicTail
    <3>3. Len(recent) < k
      BY <1>7, <3>1, <3>2
    <3> QED
      BY <1>12, <3>1, <3>2, <3>3
  <2> QED
    BY <2>2, <2>3
<1>14. Cyclic(Append(recent, place), k)
  BY <1>7, <1>9, <1>13, CyclicAppended
<1>15. PICK all : all = Append(recent, place)
  OBVIOUS
<1>16. all # <<>> /\ all[Len(all)] = place
  BY <1>9, <1>13, <1>15, Appended DEF Cyclic
<1>17. /\ nextIndex' \in [Names -> Nat] /\ nextIndex'[n] = (idx + 1) % k
       /\ \A x \in Names : x # n => nextIndex'[x] = nextIndex[x]
  BY <1>0, <1>6, <1>9
<1>18. /\ DOMAIN turns' = Names /\ turns'[n] = [from |-> from, places |-> all]
       /\ \A x \in Names : x # n => turns'[x] = turns[x]
  BY <1>0, <1>6, <1>15
<1>19. TurnsAround(n)'
  <2>1. turns'[n].from = from /\ turns'[n].places = all
    BY <1>18
  <2> QED
    BY <1>2, <1>7, <1>9, <1>14, <1>15, <1>16, <1>17, <2>1 DEF TurnsAround
<1>20. ASSUME NEW x \in Names, x # n PROVE TurnsAround(x)'
  BY <1>0, <1>17, <1>18, <1>20 DEF TurnsAround
<1> QED
  BY <1>17, <1>18, <1>19, <1>20

(* Steps that leave the lists and the turns alone.                         *)
LEMMA ListsStay ==
  ASSUME BalancingInv, UNCHANGED <<listed, byId, nextIndex, turns>>,
         healthy' \in [Backends -> BOOLEAN], beat' \in [Backends -> Nat],
         failures' \in [Ids -> 0..Threshold], toCheck' \in Seq(Backends),
         DOMAIN affinity' = Names \X LBClients
  PROVE  BalancingInv'
<1>1. listed' = listed /\ byId' = byId /\ nextIndex' = nextIndex /\ turns' = turns
  OBVIOUS
<1>2. \A n \in Names : TurnsAround(n)'
  BY <1>1 DEF TurnsAround, BalancingInv
<1>3. IdsApart' /\ StrayMoved'
  <2>1. IdsApart /\ StrayMoved
    BY DEF BalancingInv
  <2>2. IdsApart'
    BY <1>1, <2>1 DEF IdsApart
  <2>3. \A x : Known(x)' = Known(x)
    BY <1>1 DEF Known
  <2>4. StrayMoved'
    BY <1>1, <2>1, <2>3 DEF StrayMoved
  <2> QED
    BY <2>2, <2>4
<1> QED
  BY <1>1, <1>2, <1>3 DEF BalancingInv

LEMMA SelectKeeps ==
  ASSUME BalancingInv, NEW n \in Names, NEW c \in LBClients, Select(n, c)
  PROVE  BalancingInv'
<1>1. /\ Offered(n) # <<>>
      /\ \/ RoundRobin(n) /\ UNCHANGED affinity
         \/ Sticky(n, c) /\ UNCHANGED <<nextIndex, turns>>
      /\ UNCHANGED <<algorithm, listed, byId, healthy, beat, failures, toCheck, registered>>
  BY DEF Select
<1>2. /\ listed' = listed /\ byId' = byId /\ healthy' = healthy /\ beat' = beat
      /\ failures' = failures /\ toCheck' = toCheck
  BY <1>1
<1>3. CASE RoundRobin(n) /\ UNCHANGED affinity
  <2>1. /\ nextIndex' \in [Names -> Nat] /\ DOMAIN turns' = Names
        /\ \A x \in Names : TurnsAround(x)'
    BY <1>1, <1>3, RoundRobinKeeps
  <2>2. IdsApart' /\ StrayMoved'
    <3>1. IdsApart /\ StrayMoved
      BY DEF BalancingInv
    <3>2. IdsApart'
      BY <1>2, <3>1 DEF IdsApart
    <3>3. \A x : Known(x)' = Known(x)
      BY <1>2 DEF Known
    <3>4. StrayMoved'
      BY <1>2, <3>1, <3>3 DEF StrayMoved
    <3> QED
      BY <3>2, <3>4
  <2> QED
    BY <1>2, <1>3, <2>1, <2>2 DEF BalancingInv
<1>4. CASE Sticky(n, c) /\ UNCHANGED <<nextIndex, turns>>
  <2>1. PICK i : affinity' = [affinity EXCEPT ![<<n, c>>] = i]
    BY <1>4 DEF Sticky
  <2>2. DOMAIN affinity' = Names \X LBClients
    BY <2>1 DEF BalancingInv
  <2> QED
    BY <1>2, <1>4, <2>2, ListsStay DEF BalancingInv
<1> QED
  BY <1>1, <1>3, <1>4

LEMMA CheckFailsKeeps ==
  ASSUME BalancingInv, CheckFails
  PROVE  BalancingInv'
<1>1. PICK i, fails, marks :
        /\ i = Head(toCheck).id /\ fails = Min({failures[i] + 1, Threshold})
        /\ marks = (fails = Threshold /\ Known(i) # {})
  OBVIOUS
<1>2. /\ toCheck # <<>> /\ toCheck' = Tail(toCheck)
      /\ failures' = [failures EXCEPT ![i] = fails]
      /\ healthy' = IF marks THEN [healthy EXCEPT ![Holder(i)] = FALSE] ELSE healthy
      /\ beat' = IF marks THEN [beat EXCEPT ![Holder(i)] = 0] ELSE beat
      /\ UNCHANGED <<algorithm, listed, byId, nextIndex, affinity, registered, turns>>
  BY <1>1 DEF CheckFails
<1>3. /\ toCheck \in Seq(Backends) /\ byId \in Seq(Backends) /\ failures \in [Ids -> 0..Threshold]
      /\ healthy \in [Backends -> BOOLEAN] /\ beat \in [Backends -> Nat]
      /\ DOMAIN affinity = Names \X LBClients /\ Threshold \in Nat \ {0}
  BY BalancingAssumption DEF BalancingInv, BalancingAssumption
<1>4. toCheck' \in Seq(Backends) /\ i \in Ids
  BY <1>1, <1>2, <1>3, Shortened, BackendIs
<1>5. fails \in 0..Threshold
  <2>1. PICK a : a = failures[i]
    OBVIOUS
  <2>2. a \in 0..Threshold
    BY <1>3, <1>4, <2>1
  <2>3. a + 1 \in Int /\ Threshold \in Int
    BY <1>3, <2>2
  <2>4. fails = IF a + 1 <= Threshold THEN a + 1 ELSE Threshold
    BY <1>1, <2>1, <2>3, OfTwo
  <2> QED
    BY <1>3, <2>2, <2>4
<1>6. failures' \in [Ids -> 0..Threshold]
  BY <1>2, <1>3, <1>4, <1>5
<1>7. healthy' \in [Backends -> BOOLEAN] /\ beat' \in [Backends -> Nat]
  <2>1. CASE marks
    <3>1. Holder(i) \in Backends
      BY <1>1, <1>3, <2>1, HolderIs
    <3> QED
      BY <1>2, <1>3, <2>1, <3>1
  <2>2. CASE ~marks
    BY <1>2, <1>3, <2>2
  <2> QED
    BY <2>1, <2>2
<1> QED
  BY <1>2, <1>3, <1>4, <1>6, <1>7, ListsStay

LEMMA BalancingSteps ==
  ASSUME BalancingInv, [BalancingNext]_balancingVars PROVE BalancingInv'
<1>0. /\ toCheck \in Seq(Backends) /\ byId \in Seq(Backends) /\ failures \in [Ids -> 0..Threshold]
      /\ healthy \in [Backends -> BOOLEAN] /\ beat \in [Backends -> Nat]
      /\ DOMAIN affinity = Names \X LBClients
  BY DEF BalancingInv
<1>1. ASSUME NEW b \in Backends, Register(b) PROVE BalancingInv'
  BY <1>1, RegisterKeeps
<1>2. ASSUME NEW i \in DOMAIN failures, Deregister(i) PROVE BalancingInv'
  BY <1>0, <1>2, DeregisterKeeps
<1>3. ASSUME NEW i \in DOMAIN failures, NEW s \in BOOLEAN, UpdateHealth(i, s) PROVE BalancingInv'
  <2>1. /\ Known(i) # {} /\ healthy' = [healthy EXCEPT ![Holder(i)] = s]
        /\ beat' = [beat EXCEPT ![Holder(i)] = 0]
        /\ UNCHANGED <<algorithm, listed, byId, nextIndex, affinity, failures, toCheck, registered, turns>>
    BY <1>3 DEF UpdateHealth
  <2>2. Holder(i) \in Backends
    BY <1>0, <2>1, HolderIs
  <2>3. healthy' \in [Backends -> BOOLEAN] /\ beat' \in [Backends -> Nat]
    BY <1>0, <2>1, <2>2
  <2> QED
    BY <1>0, <2>1, <2>3, ListsStay
<1>4. ASSUME NEW n \in Names, NEW c \in LBClients, Select(n, c) PROVE BalancingInv'
  BY <1>4, SelectKeeps
<1>5. ASSUME TimeSinceBeats PROVE BalancingInv'
  <2>1. /\ beat' = [b \in Backends |-> Min({beat[b] + 1, AliveFor})]
        /\ UNCHANGED <<algorithm, listed, byId, healthy, nextIndex, affinity, failures, toCheck, registered, turns>>
    BY <1>5 DEF TimeSinceBeats
  <2>2. ASSUME NEW b \in Backends PROVE Min({beat[b] + 1, AliveFor}) \in Nat
    <3>1. AliveFor \in Nat
      BY BalancingAssumption DEF BalancingAssumption
    <3>2. PICK a : a = beat[b] + 1
      OBVIOUS
    <3>3. a \in Nat
      BY <1>0, <3>2
    <3>4. a \in Int /\ AliveFor \in Int
      BY <3>1, <3>3
    <3>5. Min({a, AliveFor}) = IF a <= AliveFor THEN a ELSE AliveFor
      BY <3>4, OfTwo
    <3> QED
      BY <3>1, <3>2, <3>3, <3>5
  <2>3. beat' \in [Backends -> Nat]
    BY <2>1, <2>2
  <2> QED
    BY <1>0, <2>1, <2>3, ListsStay
<1>6. ASSUME ChecksStart PROVE BalancingInv'
  BY <1>0, <1>6, ListsStay DEF ChecksStart
<1>7. ASSUME CheckFails PROVE BalancingInv'
  BY <1>7, CheckFailsKeeps
<1>8. ASSUME UNCHANGED balancingVars PROVE BalancingInv'
  BY <1>0, <1>8, ListsStay DEF balancingVars
<1> QED
  BY <1>1, <1>2, <1>3, <1>4, <1>5, <1>6, <1>7, <1>8 DEF BalancingNext

LEMMA BalancingTyped ==
  ASSUME BalancingInv PROVE BalancingTypeOK /\ RoundRobinFair /\ StrayMoved
<1>1. Cardinality({b.id : b \in ToSet(byId)}) = Len(byId)
  <2>1. byId \in Seq(Backends) /\ IdsApart
    BY DEF BalancingInv
  <2> DEFINE names == [k \in 1..Len(byId) |-> byId[k].id]
  <2>2. DOMAIN byId = 1..Len(byId) /\ Len(byId) \in Nat /\ \A k \in DOMAIN byId : byId[k] \in Backends
    BY <2>1
  <2>3. names \in Seq(Ids) /\ DOMAIN names = DOMAIN byId /\ Len(names) = Len(byId)
    BY <2>2, BackendIs
  <2>4. IsInjective(names)
    BY <2>1, <2>2, <2>3 DEF IdsApart, IsInjective
  <2>5. Range(names) = {b.id : b \in ToSet(byId)}
    BY <2>2, <2>3 DEF Range, ToSet
  <2> HIDE DEF names
  <2> QED
    BY <2>3, <2>4, <2>5, RangeCounts
<1>2. BalancingTypeOK
  <2>1. /\ listed \in [Names -> Seq(Backends)] /\ byId \in Seq(Backends) /\ failures \in [Ids -> 0..Threshold]
    BY DEF BalancingInv
  <2>2. failures \in [DOMAIN failures -> 0..Threshold]
    BY <2>1
  <2> QED
    BY <1>1, <2>1, <2>2 DEF BalancingTypeOK
<1>3. ASSUME NEW n \in Names
      PROVE  /\ IsInjective(turns[n].places)
             /\ turns[n].from = Offered(n) /\ turns[n].places # <<>> => nextIndex[n] < Len(Offered(n))
  <2>1. PICK from, places, k : from = turns[n].from /\ places = turns[n].places /\ k = Len(from)
    OBVIOUS
  <2>2. /\ from \in Seq(Backends) /\ Cyclic(places, k) /\ k \in Nat
        /\ places # <<>> => nextIndex[n] = After(places[Len(places)], k)
    BY <2>1 DEF BalancingInv, TurnsAround
  <2>3. IsInjective(places)
    BY <2>2, CyclicOnce
  <2>4. ASSUME places # <<>> PROVE nextIndex[n] < k
    <3>1. places \in Seq(Nat) /\ DOMAIN places = 1..Len(places) /\ Len(places) \in Nat \ {0}
      BY <2>2, <2>4 DEF Cyclic
    <3>2. PICK a : a = places[Len(places)]
      OBVIOUS
    <3>3. a \in 1..k
      BY <2>2, <3>1, <3>2 DEF Cyclic
    <3> QED
      BY <2>2, <2>4, <3>2, <3>3 DEF After
  <2> QED
    BY <2>1, <2>3, <2>4
<1> QED
  BY <1>2, <1>3 DEF BalancingInv, RoundRobinFair

LEMMA StickyStays ==
  ASSUME BalancingInv, [BalancingNext]_balancingVars PROVE StickyKept
<1>1. CASE UNCHANGED affinity
  BY <1>1 DEF StickyKept
<1>2. ASSUME NEW n \in Names, NEW c \in LBClients, Select(n, c), ~UNCHANGED affinity PROVE StickyKept
  <2>1. Sticky(n, c)
    BY <1>2 DEF Select
  <2>2. PICK i : /\ affinity[<<n, c>>] \in {b.id : b \in ToSet(Offered(n))} => i = affinity[<<n, c>>]
                 /\ affinity' = [affinity EXCEPT ![<<n, c>>] = i]
    BY <2>1 DEF Sticky
  <2>3. DOMAIN affinity = Names \X LBClients
    BY DEF BalancingInv
  <2>4. ASSUME NEW m \in Names, NEW d \in LBClients,
               affinity[<<m, d>>] \in {b.id : b \in ToSet(Offered(m))}
        PROVE  affinity'[<<m, d>>] = affinity[<<m, d>>]
    <3>1. <<m, d>> \in DOMAIN affinity
      BY <2>3
    <3>2. CASE <<m, d>> = <<n, c>>
      <4>1. m = n /\ d = c
        BY <3>2
      <4> QED
        BY <2>2, <2>4, <3>1, <4>1
    <3>3. CASE <<m, d>> # <<n, c>>
      BY <2>2, <3>1, <3>3
    <3> QED
      BY <3>2, <3>3
  <2> QED
    BY <2>4 DEF StickyKept
<1>3. (\E n \in Names, c \in LBClients : Select(n, c)) \/ UNCHANGED affinity
  BY DEF BalancingNext, Register, Deregister, UpdateHealth, TimeSinceBeats, ChecksStart, CheckFails, balancingVars
<1> QED
  BY <1>1, <1>2, <1>3

Statuses == {"pending", "completed", "failed", "rolled_back"}
DeploymentsOf(I) == [id : I, of : Nat, status : Statuses, stages : Seq(BOOLEAN)]
DeploymentInv ==
  /\ \E I : made \in Seq(DeploymentsOf(I))
  /\ pipeline \in Nat /\ current = Len(made)
  /\ kept \in Seq(Nat) /\ Len(kept) <= KeptDeployments
  /\ \A d \in DOMAIN made : pipeline = 0 => made[d].stages = <<>>
  /\ DOMAIN canaries \subseteq DeploymentIds /\ \A c \in DOMAIN canaries : canaries[c] \in Nat
  /\ StatusTellsStages

(* What one deployment has to show.                                        *)
Tells(m, d) ==
  /\ m[d].status = "completed" => m[d].stages = <<>> \/ Last(m[d].stages)
  /\ m[d].status = "failed" => m[d].stages # <<>> /\ ~Last(m[d].stages)
  /\ m[d].status = "rolled_back" => \E r \in DOMAIN m : m[r].of = d /\ m[r].status # "pending"

LEMMA DeploymentStarts == DeploymentInit => DeploymentInv
<1>1. SUFFICES ASSUME DeploymentInit PROVE DeploymentInv
  OBVIOUS
<1>2. made = <<>> /\ pipeline = 0 /\ current = 0 /\ kept = <<>> /\ canaries = <<>>
  BY <1>1 DEF DeploymentInit
<1>3. <<>> \in Seq(DeploymentsOf({})) /\ <<>> \in Seq(Nat) /\ DOMAIN <<>> = {} /\ Len(<<>>) = 0
      /\ KeptDeployments \in Nat
  BY DeploymentAssumption DEF DeploymentAssumption
<1>4. StatusTellsStages
  BY <1>2, <1>3 DEF StatusTellsStages
<1> QED
  BY <1>2, <1>3, <1>4 DEF DeploymentInv

LEMMA MoreIds ==
  ASSUME NEW I, NEW J, I \subseteq J, NEW s \in Seq(DeploymentsOf(I))
  PROVE  s \in Seq(DeploymentsOf(J))
<1>1. \A i \in DOMAIN s : s[i] \in DeploymentsOf(I)
  OBVIOUS
<1>2. DeploymentsOf(I) \subseteq DeploymentsOf(J)
  BY DEF DeploymentsOf
<1> QED
  BY <1>1, <1>2, Retyped

LEMMA KeptIs ==
  ASSUME DeploymentInv
  PROVE  Noted \in Seq(Nat) /\ Len(Noted) <= KeptDeployments
<1>1. kept \in Seq(Nat) /\ Len(kept) <= KeptDeployments /\ KeptDeployments \in Nat \ {0} /\ Len(made) + 1 \in Nat
  BY DeploymentAssumption DEF DeploymentInv, DeploymentAssumption
<1>2. PICK all : all = Append(kept, Len(made) + 1)
  OBVIOUS
<1>3. all \in Seq(Nat) /\ Len(all) = Len(kept) + 1 /\ all # <<>> /\ Len(kept) \in Nat
  BY <1>1, <1>2, Appended
<1>4. Tail(all) \in Seq(Nat) /\ Len(Tail(all)) = Len(all) - 1
  BY <1>3, Shortened
<1>5. Noted = IF Len(all) > KeptDeployments THEN Tail(all) ELSE all
  BY <1>2 DEF Noted
<1> QED
  BY <1>1, <1>3, <1>4, <1>5

LEMMA TriggeredIs ==
  ASSUME NEW I, NEW m, m = made, m \in Seq(DeploymentsOf(I)), NEW id \in I, NEW d \in Nat,
         NEW t, t = Triggered(id, d)
  PROVE  /\ t \in Seq(DeploymentsOf(I)) /\ DOMAIN t = 1..(Len(m) + 1) /\ Len(t) = Len(m) + 1
         /\ DOMAIN m = 1..Len(m) /\ Len(m) \in Nat
         /\ \A x \in DOMAIN m : x \in DOMAIN t /\ t[x] = m[x]
         /\ t[Len(m) + 1] = [id |-> id, of |-> d, status |-> "pending", stages |-> <<>>]
<1>1. PICK r : r = [id |-> id, of |-> d, status |-> "pending", stages |-> <<>>]
  OBVIOUS
<1>2. r \in DeploymentsOf(I)
  BY <1>1 DEF DeploymentsOf, Statuses
<1>3. t = Append(m, r)
  BY <1>1 DEF Triggered
<1> QED
  BY <1>1, <1>2, <1>3, Appended

LEMMA ExecutedIs ==
  ASSUME NEW I, NEW m \in Seq(DeploymentsOf(I)), NEW d \in DOMAIN m, pipeline \in Nat, NEW n \in 0..pipeline,
         NEW e, e = Executed(m, d, n), pipeline = 0 => m[d].stages = <<>>
  PROVE  /\ e \in Seq(DeploymentsOf(I)) /\ DOMAIN e = DOMAIN m /\ Len(e) = Len(m)
         /\ \A x \in DOMAIN m : x # d => e[x] = m[x]
         /\ e[d].of = m[d].of /\ e[d].status = IF n = pipeline THEN "completed" ELSE "failed"
         /\ pipeline = 0 => e[d].stages = <<>>
         /\ Tells(e, d)
<1>1. PICK run : run = [i \in 1..Min({n + 1, pipeline}) |-> i <= n]
  OBVIOUS
<1>2. PICK status_, old : status_ = (IF n = pipeline THEN "completed" ELSE "failed") /\ old = m[d]
  OBVIOUS
<1>3. e = [m EXCEPT ![d].stages = @ \o run, ![d].status = status_]
  BY <1>1, <1>2 DEF Executed
<1>4. old \in DeploymentsOf(I) /\ old.stages \in Seq(BOOLEAN) /\ old.of \in Nat /\ old.id \in I
  <2>1. old \in DeploymentsOf(I)
    BY <1>2
  <2> QED
    BY <2>1 DEF DeploymentsOf
<1>5. PICK k : k = IF n = pipeline THEN pipeline ELSE n + 1
  OBVIOUS
<1>6. k \in Nat /\ Min({n + 1, pipeline}) = k /\ k <= pipeline /\ (k = 0 <=> pipeline = 0)
      /\ (k # 0 => (k <= n <=> n = pipeline))
  <2>1. n + 1 \in Int /\ pipeline \in Int /\ n \in Nat /\ n <= pipeline
    OBVIOUS
  <2>2. Min({n + 1, pipeline}) = IF n + 1 <= pipeline THEN n + 1 ELSE pipeline
    BY <2>1, OfTwo
  <2> QED
    BY <1>5, <2>1, <2>2
<1>7. run \in Seq(BOOLEAN) /\ Len(run) = k /\ DOMAIN run = 1..k /\ (k # 0 => run[k] = (n = pipeline))
  <2>1. run = [i \in 1..k |-> i <= n]
    BY <1>1, <1>6
  <2>2. run \in [1..k -> BOOLEAN]
    BY <2>1
  <2>3. k # 0 => run[k] = (k <= n)
    BY <1>6, <2>1
  <2>4. run \in Seq(BOOLEAN) /\ Len(run) = k /\ DOMAIN run = 1..k
    BY <1>6, <2>2
  <2> QED
    BY <1>6, <2>3, <2>4
<1>8. PICK all : all = old.stages \o run
  OBVIOUS
<1>9. /\ all \in Seq(BOOLEAN) /\ Len(all) = Len(old.stages) + k /\ Len(old.stages) \in Nat
      /\ \A i \in 1..k : all[Len(old.stages) + i] = run[i]
  <2>1. PICK a : a = old.stages
    OBVIOUS
  <2>2. a \in Seq(BOOLEAN) /\ all = a \o run /\ Len(run) = k
    BY <1>4, <1>7, <1>8, <2>1
  <2>3. /\ all \in Seq(BOOLEAN) /\ Len(all) = Len(a) + Len(run) /\ Len(a) \in Nat
        /\ \A i \in 1..Len(run) : all[Len(a) + i] = run[i]
    <3>1. PICK B : B = BOOLEAN
      OBVIOUS
    <3>2. a \in Seq(B) /\ run \in Seq(B)
      BY <1>7, <2>2, <3>1
    <3>3. a \o run \in Seq(B) /\ Len(a \o run) = Len(a) + Len(run) /\ Len(a) \in Nat
          /\ \A i \in 1..Len(run) : (a \o run)[Len(a) + i] = run[i]
      BY <3>2, Joined
    <3> QED
      BY <2>2, <3>1, <3>3
  <2> QED
    BY <2>1, <2>2, <2>3, Zenon
<1>10. PICK new : new = [id |-> old.id, of |-> old.of, status |-> status_, stages |-> all]
  OBVIOUS
<1>11. e = [m EXCEPT ![d] = new]
  <2>1. old = [id |-> old.id, of |-> old.of, status |-> old.status, stages |-> old.stages]
    BY <1>4 DEF DeploymentsOf
  <2>2. [old EXCEPT !.stages = all, !.status = status_] = new
    <3>1. PICK a, b, c, z : a = old.id /\ b = old.of /\ c = old.status /\ z = old.stages
      OBVIOUS
    <3>2. old = [id |-> a, of |-> b, status |-> c, stages |-> z]
      BY <2>1, <3>1, Zenon
    <3>3. new = [id |-> a, of |-> b, status |-> status_, stages |-> all]
      BY <1>10, <3>1, Zenon
    <3>4. PICK mid : mid = [id |-> a, of |-> b, status |-> c, stages |-> all]
      OBVIOUS
    <3>5. [old EXCEPT !.stages = all] = mid
      BY <3>2, <3>4
    <3>6. [mid EXCEPT !.status = status_] = new
      BY <3>3, <3>4
    <3> QED
      BY <3>5, <3>6, Zenon
  <2>3. e = [m EXCEPT ![d] = [old EXCEPT !.stages = all, !.status = status_]]
    BY <1>2, <1>3, <1>8
  <2> QED
    BY <2>2, <2>3
<1>12. new \in DeploymentsOf(I) /\ e[d] = new
  BY <1>2, <1>4, <1>9, <1>10, <1>11 DEF DeploymentsOf, Statuses
<1>13. e \in Seq(DeploymentsOf(I)) /\ DOMAIN e = DOMAIN m /\ Len(e) = Len(m)
       /\ \A x \in DOMAIN m : x # d => e[x] = m[x]
  BY <1>11, <1>12
<1>14. pipeline = 0 => all = <<>>
  BY <1>2, <1>4, <1>6, <1>9
<1>15. k # 0 => all # <<>> /\ Last(all) = (n = pipeline)
  <2>1. SUFFICES ASSUME k # 0 PROVE all # <<>> /\ Last(all) = (n = pipeline)
    OBVIOUS
  <2>2. k \in 1..k /\ Len(all) = Len(old.stages) + k /\ Len(all) # 0
    BY <1>6, <1>9, <2>1
  <2>3. all[Len(all)] = run[k]
    BY <1>9, <2>2
  <2>4. all # <<>>
    BY <2>2
  <2> QED
    BY <1>7, <2>1, <2>3, <2>4 DEF Last
<1>16. Tells(e, d)
  <2>1. e[d].status = status_ /\ e[d].stages = all /\ e[d].of = old.of
    BY <1>10, <1>12
  <2>2. CASE n = pipeline
    BY <1>2, <1>6, <1>14, <1>15, <2>1, <2>2 DEF Tells
  <2>3. CASE n # pipeline
    <3>1. k # 0
      BY <1>5, <2>3
    <3> QED
      BY <1>2, <1>15, <2>1, <2>3, <3>1 DEF Tells
  <2> QED
    BY <2>2, <2>3
<1> QED
  BY <1>2, <1>10, <1>12, <1>13, <1>14, <1>16

(* What a deployment tells lasts while it and those of it keep what they   *)
(* are and are not pending again.                                          *)
LEMMA TellsOn ==
  ASSUME NEW m, NEW t, NEW d, Tells(m, d), t[d] = m[d],
         \A r \in DOMAIN m : /\ r \in DOMAIN t /\ t[r].of = m[r].of
                             /\ m[r].status # "pending" => t[r].status # "pending"
  PROVE  Tells(t, d)
BY DEF Tells

LEMMA TriggerKeeps ==
  ASSUME DeploymentInv, NEW id, Trigger(id) PROVE DeploymentInv'
<1>1. made' = Triggered(id, 0) /\ kept' = Noted /\ current' = Len(made) + 1
      /\ pipeline' = pipeline /\ canaries' = canaries
  BY DEF Trigger
<1>2. PICK I : made \in Seq(DeploymentsOf(I))
  BY DEF DeploymentInv
<1>3. PICK J : J = I \cup {id}
  OBVIOUS
<1>4. made \in Seq(DeploymentsOf(J)) /\ id \in J
  BY <1>2, <1>3, MoreIds
<1>5. PICK m, t : m = made /\ t = made'
  OBVIOUS
<1>6. /\ t \in Seq(DeploymentsOf(J)) /\ DOMAIN t = 1..(Len(m) + 1) /\ Len(t) = Len(m) + 1
      /\ DOMAIN m = 1..Len(m) /\ Len(m) \in Nat
      /\ \A x \in DOMAIN m : x \in DOMAIN t /\ t[x] = m[x]
      /\ t[Len(m) + 1] = [id |-> id, of |-> 0, status |-> "pending", stages |-> <<>>]
  BY <1>1, <1>4, <1>5, TriggeredIs
<1>7. \A x \in DOMAIN t : x \in DOMAIN m \/ x = Len(m) + 1
  BY <1>6
<1>8. \A d \in DOMAIN m : Tells(m, d)
  BY <1>5 DEF DeploymentInv, StatusTellsStages, Tells
<1>9. ASSUME NEW d \in DOMAIN t PROVE Tells(t, d)
  <2>1. CASE d \in DOMAIN m
    BY <1>6, <1>8, <2>1, TellsOn
  <2>2. CASE d = Len(m) + 1
    BY <1>6, <2>2 DEF Tells
  <2> QED
    BY <1>7, <2>1, <2>2
<1>10. StatusTellsStages'
  BY <1>5, <1>9 DEF StatusTellsStages, Tells
<1>11. \A d \in DOMAIN t : pipeline = 0 => t[d].stages = <<>>
  BY <1>5, <1>6, <1>7 DEF DeploymentInv
<1> QED
  BY <1>1, <1>5, <1>6, <1>10, <1>11, KeptIs DEF DeploymentInv

LEMMA ExecuteKeeps ==
  ASSUME DeploymentInv, NEW d \in DOMAIN made, NEW n \in 0..pipeline, Execute(d, n) PROVE DeploymentInv'
<1>1. made' = Executed(made, d, n) /\ kept' = kept /\ current' = current
      /\ pipeline' = pipeline /\ canaries' = canaries
  BY DEF Execute
<1>2. PICK I : made \in Seq(DeploymentsOf(I))
  BY DEF DeploymentInv
<1>3. PICK m, e : m = made /\ e = made'
  OBVIOUS
<1>4. /\ e \in Seq(DeploymentsOf(I)) /\ DOMAIN e = DOMAIN m /\ Len(e) = Len(m)
      /\ \A x \in DOMAIN m : x # d => e[x] = m[x]
      /\ e[d].of = m[d].of /\ e[d].status = IF n = pipeline THEN "completed" ELSE "failed"
      /\ pipeline = 0 => e[d].stages = <<>>
      /\ Tells(e, d)
  <2>1. m \in Seq(DeploymentsOf(I)) /\ d \in DOMAIN m /\ e = Executed(m, d, n)
    BY <1>1, <1>2, <1>3
  <2>2. pipeline \in Nat /\ (pipeline = 0 => m[d].stages = <<>>)
    BY <1>3 DEF DeploymentInv
  <2> QED
    BY <2>1, <2>2, ExecutedIs
<1>5. \A x \in DOMAIN m : Tells(m, x)
  BY <1>3 DEF DeploymentInv, StatusTellsStages, Tells
<1>6. \A r \in DOMAIN m : /\ r \in DOMAIN e /\ e[r].of = m[r].of
                          /\ m[r].status # "pending" => e[r].status # "pending"
  <2>1. e[d].status # "pending"
    BY <1>4
  <2> QED
    BY <1>4, <2>1
<1>7. ASSUME NEW x \in DOMAIN e PROVE Tells(e, x)
  BY <1>4, <1>5, <1>6, <1>7, TellsOn
<1>8. StatusTellsStages'
  BY <1>3, <1>7 DEF StatusTellsStages, Tells
<1>9. \A x \in DOMAIN e : pipeline = 0 => e[x].stages = <<>>
  BY <1>3, <1>4 DEF DeploymentInv
<1> QED
  BY <1>1, <1>3, <1>4, <1>8, <1>9 DEF DeploymentInv

LEMMA RollbackKeeps ==
  ASSUME DeploymentInv, NEW d \in DOMAIN made, NEW n \in 0..pipeline, Rollback(d, n) PROVE DeploymentInv'
<1>1. PICK id, r : id = <<made[d].id, "rollback">> /\ r = Len(made) + 1
  OBVIOUS
<1>2. PICK t, e : t = Triggered(id, d) /\ e = Executed(t, r, n)
  OBVIOUS
<1>3. made' = (IF n = pipeline THEN [e EXCEPT ![d].status = "rolled_back"] ELSE e)
      /\ kept' = Noted /\ current' = Len(made) + 1 /\ pipeline' = pipeline /\ canaries' = canaries
  BY <1>1, <1>2 DEF Rollback
<1>4. PICK I : made \in Seq(DeploymentsOf(I))
  BY DEF DeploymentInv
<1>5. PICK J : J = I \cup {id}
  OBVIOUS
<1>6. made \in Seq(DeploymentsOf(J)) /\ id \in J /\ d \in Nat
  BY <1>4, <1>5, MoreIds
<1>7. PICK m : m = made
  OBVIOUS
<1>8. /\ t \in Seq(DeploymentsOf(J)) /\ DOMAIN t = 1..(Len(m) + 1) /\ Len(t) = Len(m) + 1
      /\ DOMAIN m = 1..Len(m) /\ Len(m) \in Nat
      /\ \A x \in DOMAIN m : x \in DOMAIN t /\ t[x] = m[x]
      /\ t[r] = [id |-> id, of |-> d, status |-> "pending", stages |-> <<>>]
  <2>1. m \in Seq(DeploymentsOf(J)) /\ t = Triggered(id, d) /\ r = Len(m) + 1
    BY <1>1, <1>2, <1>6, <1>7
  <2> QED
    BY <1>6, <1>7, <2>1, TriggeredIs
<1>9. pipeline \in Nat /\ r \in DOMAIN t /\ d # r /\ r \notin DOMAIN m
  BY <1>1, <1>7, <1>8 DEF DeploymentInv
<1>10. /\ e \in Seq(DeploymentsOf(J)) /\ DOMAIN e = DOMAIN t /\ Len(e) = Len(t)
       /\ \A x \in DOMAIN t : x # r => e[x] = t[x]
       /\ e[r].of = t[r].of /\ e[r].status = IF n = pipeline THEN "completed" ELSE "failed"
       /\ pipeline = 0 => e[r].stages = <<>>
       /\ Tells(e, r)
  BY <1>2, <1>8, <1>9, ExecutedIs
<1>11. \A x \in DOMAIN t : x \in DOMAIN m \/ x = r
  BY <1>1, <1>7, <1>8
<1>12. \A x \in DOMAIN m : Tells(m, x)
  BY <1>7 DEF DeploymentInv, StatusTellsStages, Tells
<1>13. \A x \in DOMAIN m : x \in DOMAIN e /\ e[x] = m[x]
  BY <1>8, <1>9, <1>10
<1>14. ASSUME NEW x \in DOMAIN e PROVE Tells(e, x)
  <2>1. CASE x \in DOMAIN m
    BY <1>12, <1>13, <2>1, TellsOn
  <2>2. CASE x = r
    BY <1>10, <2>2
  <2> QED
    BY <1>10, <1>11, <2>1, <2>2
<1>15. \A x \in DOMAIN e : pipeline = 0 => e[x].stages = <<>>
  BY <1>7, <1>10, <1>11, <1>13 DEF DeploymentInv
<1>16. PICK q : q = made'
  OBVIOUS
<1>17. /\ q \in Seq(DeploymentsOf(J)) /\ Len(q) = Len(m) + 1
       /\ \A x \in DOMAIN q : Tells(q, x) /\ (pipeline = 0 => q[x].stages = <<>>)
  <2>1. CASE n # pipeline
    <3>1. q = e
      BY <1>3, <1>16, <2>1
    <3> QED
      BY <1>8, <1>10, <1>14, <1>15, <3>1
  <2>2. CASE n = pipeline
    <3>1. PICK old : old = e[d]
      OBVIOUS
    <3>2. d \in DOMAIN e /\ old \in DeploymentsOf(J)
      BY <1>7, <1>10, <1>13, <3>1
    <3>3. PICK new : new = [id |-> old.id, of |-> old.of, status |-> "rolled_back", stages |-> old.stages]
      OBVIOUS
    <3>4. q = [e EXCEPT ![d] = new]
      <4>1. [old EXCEPT !.status = "rolled_back"] = new
        BY <3>2, <3>3 DEF DeploymentsOf
      <4> QED
        BY <1>3, <1>16, <2>2, <3>1, <4>1
    <3>5. new \in DeploymentsOf(J)
      BY <3>2, <3>3 DEF DeploymentsOf, Statuses
    <3>6. /\ q \in Seq(DeploymentsOf(J)) /\ Len(q) = Len(e) /\ DOMAIN q = DOMAIN e /\ q[d] = new
          /\ \A x \in DOMAIN e : x # d => q[x] = e[x]
      BY <1>10, <3>2, <3>4, <3>5
    <3>7. q[d].of = e[d].of /\ q[d].status = "rolled_back" /\ q[d].stages = e[d].stages
      BY <3>1, <3>3, <3>6
    <3>8. \A x \in DOMAIN e : /\ x \in DOMAIN q /\ q[x].of = e[x].of
                              /\ e[x].status # "pending" => q[x].status # "pending"
      BY <3>6, <3>7
    <3>9. q[r] = e[r] /\ e[r].of = d /\ e[r].status # "pending" /\ r \in DOMAIN q
      BY <1>8, <1>9, <1>10, <3>6
    <3>10. Tells(q, d)
      BY <3>7, <3>9 DEF Tells
    <3>11. \A x \in DOMAIN e : x # d => Tells(q, x)
      BY <1>14, <3>6, <3>8, TellsOn
    <3> QED
      BY <1>8, <1>10, <1>15, <3>6, <3>7, <3>10, <3>11
  <2> QED
    BY <2>1, <2>2
<1>18. StatusTellsStages'
  BY <1>16, <1>17 DEF StatusTellsStages, Tells
<1> QED
  BY <1>3, <1>7, <1>16, <1>17, <1>18, KeptIs DEF DeploymentInv

(* Steps that leave the deployments alone.                                 *)
LEMMA DeploymentsStay ==
  ASSUME DeploymentInv, UNCHANGED <<made, kept, current>>, pipeline' = pipeline \/ pipeline' = pipeline + 1,
         DOMAIN canaries' \subseteq DeploymentIds, \A c \in DOMAIN canaries' : canaries'[c] \in Nat
  PROVE  DeploymentInv'
<1>1. made' = made /\ kept' = kept /\ current' = current
  OBVIOUS
<1>2. pipeline' \in Nat /\ (pipeline' = 0 => pipeline = 0)
  BY DEF DeploymentInv
<1>3. StatusTellsStages'
  BY <1>1 DEF DeploymentInv, StatusTellsStages
<1> QED
  BY <1>1, <1>2, <1>3 DEF DeploymentInv

LEMMA DeploymentSteps ==
  ASSUME DeploymentInv, [DeploymentNext]_deploymentVars PROVE DeploymentInv'
<1>0. DOMAIN canaries \subseteq DeploymentIds /\ (\A c \in DOMAIN canaries : canaries[c] \in Nat)
      /\ Percentages \subseteq Nat
  BY DeploymentAssumption DEF DeploymentInv, DeploymentAssumption
<1>1. ASSUME AddStep PROVE DeploymentInv'
  BY <1>0, <1>1, DeploymentsStay DEF AddStep
<1>2. ASSUME NEW id \in DeploymentIds, Trigger(id) PROVE DeploymentInv'
  BY <1>2, TriggerKeeps
<1>3. ASSUME NEW id \in DeploymentIds, AbortCanary(id) PROVE DeploymentInv'
  BY <1>0, <1>3, DeploymentsStay DEF AbortCanary, WithoutCanary
<1>4. ASSUME NEW id \in DeploymentIds, NEW p \in Percentages, StartCanary(id, p) PROVE DeploymentInv'
  BY <1>0, <1>4, DeploymentsStay DEF StartCanary
<1>5. ASSUME NEW id \in DeploymentIds, NEW p \in Percentages, IncrementCanary(id, p) PROVE DeploymentInv'
  <2>1. CASE canaries[id] + p >= 100
    BY <1>0, <1>5, <2>1, DeploymentsStay DEF IncrementCanary, WithoutCanary
  <2>2. CASE ~(canaries[id] + p >= 100)
    <3>1. id \in DOMAIN canaries /\ canaries' = [canaries EXCEPT ![id] = canaries[id] + p]
      BY <1>5, <2>2 DEF IncrementCanary
    <3>2. canaries[id] + p \in Nat
      BY <1>0, <2>2, <3>1
    <3>3. DOMAIN canaries' \subseteq DeploymentIds /\ \A c \in DOMAIN canaries' : canaries'[c] \in Nat
      BY <1>0, <3>1, <3>2
    <3> QED
      BY <1>5, <3>3, DeploymentsStay DEF IncrementCanary
  <2> QED
    BY <2>1, <2>2
<1>6. ASSUME NEW d \in DOMAIN made, NEW n \in 0..pipeline, Execute(d, n) PROVE DeploymentInv'
  BY <1>6, ExecuteKeeps
<1>7. ASSUME NEW d \in DOMAIN made, NEW n \in 0..pipeline, Rollback(d, n) PROVE DeploymentInv'
  BY <1>7, RollbackKeeps
<1>8. ASSUME NEW d \in DOMAIN made, NEW failing \in SUBSET healthChecks, Verify(d, failing) PROVE DeploymentInv'
  BY <1>0, <1>8, DeploymentsStay DEF Verify
<1>9. ASSUME NEW h \in HealthChecks, RegisterHealthCheck(h) PROVE DeploymentInv'
  BY <1>0, <1>9, DeploymentsStay DEF RegisterHealthCheck
<1>10. ASSUME UNCHANGED deploymentVars PROVE DeploymentInv'
  BY <1>0, <1>10, DeploymentsStay DEF deploymentVars
<1> QED
  BY <1>1, <1>2, <1>3, <1>4, <1>5, <1>6, <1>7, <1>8, <1>9, <1>10 DEF DeploymentNext

LEMMA DeploymentTyped ==
  ASSUME DeploymentInv PROVE DeploymentTypeOK /\ StatusTellsStages
<1>1. \A d \in DOMAIN made : made[d].status \in Statuses
  <2>1. PICK I : made \in Seq(DeploymentsOf(I))
    BY DEF DeploymentInv
  <2>2. \A d \in DOMAIN made : made[d] \in DeploymentsOf(I)
    BY <2>1
  <2> QED
    BY <2>2 DEF DeploymentsOf
<1> QED
  BY <1>1 DEF DeploymentInv, DeploymentTypeOK, Statuses

CallPlaces == {"testing", "connecting", "fetching", "confirming", "closing", "syncing", "resolving", "sending"}
CallKinds == {"create", "activate", "deactivate", "remove", "sync", "send"}
CallSet == [n : Nat, what : CallKinds, a : Adapters, s : Nat, at : CallPlaces, rest : SUBSET Adapters]

(* A call under way.                                                       *)
CallOK(c) ==
  /\ c \in CallSet /\ c.rest \subseteq WithSecrets
  /\ c.at # "testing" => c.a \in WithSecrets

(* An activation that waits for its second answer on an earlier session    *)
(* has a later one open, or was overtaken.                                 *)
NewestCall(c) ==
  c.at = "confirming" =>
    c.s = session[c.a] \/ <<c.a, session[c.a]>> \in openOnes \/ c.a \in overtaken

Settling(x) == \E c \in calls : c.a = x /\ c.at \in {"closing", "confirming"}
ActiveAt(x) ==
  x \notin overtaken /\ status[x] = "active" => <<x, session[x]>> \in openOnes \/ Settling(x)

SessionsOK ==
  /\ session \in [Adapters -> Nat]
  /\ \A s \in openOnes : s[1] \in Adapters /\ s[2] \in 1..session[s[1]]
CountedOK ==
  /\ counted \in [Adapters -> [ok : Nat, bad : Nat]]
  /\ \A x \in Adapters : x \notin WithSecrets => counted[x].ok = 0
HeldOK == \A i \in DOMAIN held : held[i] \in WithSecrets /\ IntegrationOf[held[i]] = i

IntegrationsInv ==
  /\ SessionsOK /\ CountedOK /\ HeldOK
  /\ DOMAIN status = Adapters /\ started \in Nat
  /\ \A c \in calls : CallOK(c) /\ NewestCall(c)
  /\ \A x \in Adapters : ActiveAt(x)

(* A step that concerns adapter b, and may bring a call d.                 *)
LEMMA StepKeeps ==
  ASSUME IntegrationsInv, NEW b \in Adapters, NEW d,
         SessionsOK', CountedOK', HeldOK', DOMAIN status' = Adapters, started' \in Nat,
         \A x \in Adapters : x # b =>
            /\ session'[x] = session[x] /\ status'[x] = status[x] /\ (x \in overtaken' <=> x \in overtaken)
            /\ <<x, session[x]>> \in openOnes => <<x, session[x]>> \in openOnes',
         calls' \subseteq calls \cup {d}, \A c \in calls : c.a # b => c \in calls',
         CallOK(d), d.a = b \/ d.at # "confirming",
         \A c \in calls' : c.a = b => NewestCall(c)',
         ActiveAt(b)'
  PROVE  IntegrationsInv'
<1>1. ASSUME NEW c \in calls' PROVE CallOK(c)' /\ NewestCall(c)'
  <2>1. CallOK(c)
    BY DEF IntegrationsInv
  <2>2. CallOK(c)'
    BY <2>1 DEF CallOK
  <2>3. NewestCall(c)'
    <3>1. CASE c.a = b
      BY <3>1
    <3>2. CASE c.a # b /\ c \in calls
      <4>1. NewestCall(c) /\ c.a \in Adapters
        BY <2>1, <3>2 DEF IntegrationsInv, CallOK, CallSet
      <4> QED
        BY <3>2, <4>1 DEF NewestCall
    <3>3. CASE c.a # b /\ c = d
      BY <3>3 DEF NewestCall
    <3> QED
      BY <3>1, <3>2, <3>3
  <2> QED
    BY <2>2, <2>3
<1>2. ASSUME NEW x \in Adapters PROVE ActiveAt(x)'
  <2>1. CASE x = b
    BY <2>1
  <2>2. CASE x # b
    <3>1. ActiveAt(x)
      BY DEF IntegrationsInv
    <3>2. Settling(x) => Settling(x)'
      BY <2>2 DEF Settling
    <3>3. /\ session'[x] = session[x] /\ status'[x] = status[x] /\ (x \in overtaken' <=> x \in overtaken)
          /\ <<x, session[x]>> \in openOnes => <<x, session[x]>> \in openOnes'
      BY <2>2
    <3> QED
      BY <3>1, <3>2, <3>3 DEF ActiveAt
  <2> QED
    BY <2>1, <2>2
<1> QED
  BY <1>1, <1>2 DEF IntegrationsInv

LEMMA BeginIs ==
  ASSUME NEW what \in CallKinds, NEW a \in Adapters, NEW where \in CallPlaces, NEW s \in Nat,
         NEW rest \in SUBSET WithSecrets, started \in Nat, Begin(what, a, where, s, rest),
         where # "testing" => a \in WithSecrets
  PROVE  /\ started' \in Nat
         /\ \E d : CallOK(d) /\ d.a = a /\ d.at = where /\ d.s = s /\ calls' = calls \cup {d}
<1>1. PICK d : d = [n |-> started', what |-> what, a |-> a, s |-> s, at |-> where, rest |-> rest]
  OBVIOUS
<1>2. started' = started + 1 /\ calls' = calls \cup {d}
  BY <1>1 DEF Begin
<1>3. rest \subseteq Adapters
  BY IntegrationsAssumption DEF IntegrationsAssumption
<1>4. started' \in Nat
  BY <1>2
<1>5. d \in CallSet /\ d.a = a /\ d.at = where /\ d.s = s /\ d.rest = rest
  BY <1>1, <1>3, <1>4 DEF CallSet
<1> QED
  BY <1>2, <1>4, <1>5 DEF CallOK

LEMMA RecordIs ==
  ASSUME NEW c \in CallSet
  PROVE  c = [n |-> c.n, what |-> c.what, a |-> c.a, s |-> c.s, at |-> c.at, rest |-> c.rest]
         /\ c.n \in Nat /\ c.what \in CallKinds /\ c.a \in Adapters /\ c.s \in Nat /\ c.at \in CallPlaces
         /\ c.rest \in SUBSET Adapters
BY DEF CallSet

LEMMA GoesIs ==
  ASSUME IntegrationsInv, NEW c \in calls, NEW where \in CallPlaces, c.a \in WithSecrets, Goes(c, where)
  PROVE  /\ started' = started
         /\ \E d : CallOK(d) /\ d.a = c.a /\ d.at = where /\ d.s = session[c.a] /\ calls' = (calls \ {c}) \cup {d}
<1>1. PICK d, t : d = [c EXCEPT !.at = where, !.s = t] /\ t = session[c.a]
  OBVIOUS
<1>2. started' = started /\ calls' = (calls \ {c}) \cup {d}
  BY <1>1 DEF Goes
<1>3. c \in CallSet /\ c.rest \subseteq WithSecrets /\ session \in [Adapters -> Nat]
  BY DEF IntegrationsInv, CallOK, SessionsOK
<1>4. PICK v, w, x, y, z, u : /\ c = [n |-> v, what |-> w, a |-> x, s |-> y, at |-> z, rest |-> u]
                              /\ v \in Nat /\ w \in CallKinds /\ x \in Adapters /\ u \in SUBSET Adapters
  BY <1>3, RecordIs
<1>5. [c EXCEPT !.at = where] = [n |-> v, what |-> w, a |-> x, s |-> y, at |-> where, rest |-> u]
  BY <1>4
<1>6. PICK m : m = [n |-> v, what |-> w, a |-> x, s |-> y, at |-> where, rest |-> u]
  OBVIOUS
<1>7. [m EXCEPT !.s = t] = [n |-> v, what |-> w, a |-> x, s |-> t, at |-> where, rest |-> u]
  BY <1>6
<1>8. d = [n |-> v, what |-> w, a |-> x, s |-> t, at |-> where, rest |-> u]
  BY <1>1, <1>5, <1>6, <1>7, Zenon
<1>9. c.a = x /\ c.rest = u
  BY <1>4
<1>10. t \in Nat
  BY <1>1, <1>3, <1>4, <1>9
<1>11. d \in CallSet /\ d.a = c.a /\ d.at = where /\ d.s = t /\ d.rest = c.rest
  BY <1>4, <1>8, <1>9, <1>10 DEF CallSet
<1> QED
  BY <1>1, <1>2, <1>3, <1>11 DEF CallOK

LEMMA SyncsNextIs ==
  ASSUME IntegrationsInv, NEW c \in calls, c.at = "syncing", SyncsNext(c)
  PROVE  /\ started' = started
         /\ \E d : CallOK(d) /\ d.at = "syncing" /\ calls' \subseteq calls \cup {d} /\ calls \ {c} \subseteq calls'
<1>1. CallOK(c) /\ session \in [Adapters -> Nat]
  BY DEF IntegrationsInv, SessionsOK
<1>2. CASE c.rest = {}
  BY <1>1, <1>2 DEF SyncsNext, Ends
<1>3. CASE c.rest # {}
  <2>1. PICK b \in c.rest : calls' = (calls \ {c}) \cup {[c EXCEPT !.a = b, !.s = session[b], !.rest = c.rest \ {b}]}
    BY <1>3 DEF SyncsNext
  <2>2. PICK d, t, r : d = [c EXCEPT !.a = b, !.s = t, !.rest = r] /\ t = session[b] /\ r = c.rest \ {b}
    OBVIOUS
  <2>3. PICK v, w, x, y, z, u : /\ c = [n |-> v, what |-> w, a |-> x, s |-> y, at |-> z, rest |-> u]
                                /\ v \in Nat /\ w \in CallKinds /\ u \in SUBSET Adapters
    BY <1>1, RecordIs DEF CallOK
  <2>4. [c EXCEPT !.a = b] = [n |-> v, what |-> w, a |-> b, s |-> y, at |-> z, rest |-> u]
    BY <2>3
  <2>5. PICK m : m = [n |-> v, what |-> w, a |-> b, s |-> y, at |-> z, rest |-> u]
    OBVIOUS
  <2>6. [m EXCEPT !.s = t] = [n |-> v, what |-> w, a |-> b, s |-> t, at |-> z, rest |-> u]
    BY <2>5
  <2>7. PICK q : q = [n |-> v, what |-> w, a |-> b, s |-> t, at |-> z, rest |-> u]
    OBVIOUS
  <2>8. [q EXCEPT !.rest = r] = [n |-> v, what |-> w, a |-> b, s |-> t, at |-> z, rest |-> r]
    BY <2>7
  <2>9. d = [n |-> v, what |-> w, a |-> b, s |-> t, at |-> z, rest |-> r]
    BY <2>2, <2>4, <2>5, <2>6, <2>7, <2>8, Zenon
  <2>10. z = "syncing" /\ u = c.rest
    BY <2>3
  <2>11. b \in Adapters /\ b \in WithSecrets /\ t \in Nat /\ r \subseteq WithSecrets /\ r \in SUBSET Adapters
    BY <1>1, <2>2, <2>3, <2>10 DEF CallOK
  <2>12. "syncing" \in CallPlaces
    BY DEF CallPlaces
  <2>13. d \in CallSet /\ d.a = b /\ d.at = "syncing" /\ d.rest = r
    BY <2>3, <2>9, <2>10, <2>11, <2>12 DEF CallSet
  <2>14. CallOK(d)
    BY <2>11, <2>13 DEF CallOK
  <2>15. calls' = (calls \ {c}) \cup {d} /\ started' = started
    BY <1>3, <2>1, <2>2 DEF SyncsNext
  <2> QED
    BY <2>13, <2>14, <2>15
<1> QED
  BY <1>2, <1>3

LEMMA CountIs ==
  ASSUME CountedOK, NEW a \in WithSecrets, NEW ok \in BOOLEAN, Count(a, ok)
  PROVE  CountedOK'
<1>0. a \in Adapters
  BY IntegrationsAssumption DEF IntegrationsAssumption
<1>1. PICK y, z : counted[a] = [ok |-> y, bad |-> z] /\ y \in Nat /\ z \in Nat
  <2>1. counted[a] \in [ok : Nat, bad : Nat]
    BY <1>0 DEF CountedOK
  <2> QED
    BY <2>1
<1>2. PICK v : v = IF ok THEN [ok |-> y + 1, bad |-> z] ELSE [ok |-> y, bad |-> z + 1]
  OBVIOUS
<1>3. counted' = [counted EXCEPT ![a] = v]
  <2>1. counted' = [counted EXCEPT ![a] = IF ok THEN [ok |-> counted[a].ok + 1, bad |-> counted[a].bad]
                                          ELSE [ok |-> counted[a].ok, bad |-> counted[a].bad + 1]]
    BY DEF Count
  <2>2. counted[a].ok = y /\ counted[a].bad = z
    BY <1>1
  <2> QED
    BY <1>2, <2>1, <2>2
<1>4. v \in [ok : Nat, bad : Nat]
  BY <1>1, <1>2
<1> QED
  BY <1>0, <1>3, <1>4 DEF CountedOK

LEMMA SetsIs ==
  ASSUME DOMAIN status = Adapters, NEW a \in Adapters, NEW v, Sets(a, v)
  PROVE  /\ DOMAIN status' = Adapters /\ status'[a] = v
         /\ \A x \in Adapters : x # a => status'[x] = status[x]
BY DEF Sets

LEMMA HeldKnowSecrets ==
  ASSUME IntegrationsInv, NEW a, Holding(a) PROVE a \in WithSecrets
BY DEF IntegrationsInv, HeldOK, Holding, Registered

LEMMA CallIs ==
  ASSUME IntegrationsInv, NEW c \in calls
  PROVE  /\ c.a \in Adapters /\ (c.at # "testing" => c.a \in WithSecrets)
         /\ CallOK(c) /\ NewestCall(c)
BY DEF IntegrationsInv, CallOK, CallSet

LEMMA OpensIs ==
  ASSUME SessionsOK, NEW a \in Adapters, Opens(a)
  PROVE  /\ SessionsOK' /\ session'[a] = session[a] + 1 /\ session[a] \in Nat
         /\ \A x \in Adapters : x # a => session'[x] = session[x]
         /\ <<a, session'[a]>> \in openOnes' /\ openOnes \subseteq openOnes'
<1>1. /\ session \in [Adapters -> Nat] /\ \A s \in openOnes : s[1] \in Adapters /\ s[2] \in 1..session[s[1]]
  BY DEF SessionsOK
<1>2. PICK y : y = session[a]
  OBVIOUS
<1>3. session' = [session EXCEPT ![a] = y + 1] /\ openOnes' = openOnes \cup {<<a, y + 1>>} /\ y \in Nat
  BY <1>1, <1>2 DEF Opens
<1>4. /\ session' \in [Adapters -> Nat] /\ session'[a] = y + 1
      /\ \A x \in Adapters : x # a => session'[x] = session[x]
  BY <1>1, <1>3
<1>5. ASSUME NEW s \in openOnes' PROVE s[1] \in Adapters /\ s[2] \in 1..session'[s[1]]
  <2>1. CASE s \in openOnes
    <3>1. s[1] \in Adapters /\ s[2] \in 1..session[s[1]]
      BY <1>1, <2>1
    <3>2. PICK x, k : x = s[1] /\ k = s[2]
      OBVIOUS
    <3>3. session'[x] = session[x] \/ (session'[x] = session[x] + 1 /\ session[x] \in Nat)
      BY <1>2, <1>3, <1>4, <3>1, <3>2
    <3>4. x \in Adapters /\ k \in 1..session[x] /\ session[x] \in Nat
      BY <1>1, <3>1, <3>2
    <3>5. k \in 1..session'[x]
      BY <3>3, <3>4
    <3> QED
      BY <3>2, <3>4, <3>5
  <2>2. CASE s = <<a, y + 1>>
    <3>1. s[1] = a /\ s[2] = y + 1
      BY <2>2
    <3>2. y + 1 \in 1..session'[a]
      BY <1>3, <1>4
    <3> QED
      BY <3>1, <3>2
  <2> QED
    BY <1>3, <2>1, <2>2
<1> QED
  BY <1>2, <1>3, <1>4, <1>5 DEF SessionsOK

LEMMA OpeningKeeps ==
  ASSUME IntegrationsInv, NEW a \in Adapters, Create(a) \/ Activate(a) PROVE IntegrationsInv'
<1>0. SessionsOK /\ CountedOK /\ HeldOK /\ DOMAIN status = Adapters /\ started \in Nat
  BY DEF IntegrationsInv
<1>1. Opens(a) /\ held' = held /\ status' = status /\ counted' = counted
      /\ \A x \in Adapters : x # a => (x \in overtaken' <=> x \in overtaken)
  BY DEF Create, Activate
<1>2. /\ SessionsOK' /\ session'[a] = session[a] + 1 /\ session[a] \in Nat
      /\ \A x \in Adapters : x # a => session'[x] = session[x]
      /\ <<a, session'[a]>> \in openOnes' /\ openOnes \subseteq openOnes'
  BY <1>0, <1>1, OpensIs
<1>3. PICK k : k = session[a] + 1
  OBVIOUS
<1>4. k \in Nat
  BY <1>2, <1>3
<1>5. /\ started' \in Nat
      /\ \E d : CallOK(d) /\ d.a = a /\ calls' = calls \cup {d}
  <2>1. CASE Create(a)
    <3>1. Begin("create", a, "testing", 1, {})
      BY <2>1 DEF Create
    <3>2. "create" \in CallKinds /\ "testing" \in CallPlaces /\ {} \in SUBSET WithSecrets
      BY DEF CallKinds, CallPlaces
    <3> QED
      BY <1>0, <3>1, <3>2, BeginIs
  <2>2. CASE Activate(a)
    <3>1. a \in WithSecrets /\ Begin("activate", a, "connecting", k, {})
      BY <1>3, <2>2, HeldKnowSecrets DEF Activate
    <3>2. "activate" \in CallKinds /\ "connecting" \in CallPlaces /\ {} \in SUBSET WithSecrets
      BY DEF CallKinds, CallPlaces
    <3> QED
      BY <1>0, <1>4, <3>1, <3>2, BeginIs
  <2> QED
    BY <2>1, <2>2
<1>6. PICK d : CallOK(d) /\ d.a = a /\ calls' = calls \cup {d}
  BY <1>5
<1>7. CountedOK' /\ HeldOK'
  BY <1>0, <1>1 DEF CountedOK, HeldOK
<1>8. ActiveAt(a)'
  BY <1>2 DEF ActiveAt
<1>9. \A c \in calls' : c.a = a => NewestCall(c)'
  BY <1>2 DEF NewestCall
<1>10. \A x \in Adapters : x # a =>
          /\ session'[x] = session[x] /\ status'[x] = status[x] /\ (x \in overtaken' <=> x \in overtaken)
          /\ <<x, session[x]>> \in openOnes => <<x, session[x]>> \in openOnes'
  BY <1>1, <1>2
<1> QED
  BY <1>0, <1>1, <1>2, <1>5, <1>6, <1>7, <1>8, <1>9, <1>10, StepKeeps

(* A call that only begins.                                                *)
LEMMA AskingKeeps ==
  ASSUME IntegrationsInv, NEW a \in Adapters, NEW d, CallOK(d), d.a = a, d.at # "confirming",
         calls' = calls \cup {d}, started' \in Nat,
         UNCHANGED <<held, session, openOnes, status, counted, isActive, overtaken>>
  PROVE  IntegrationsInv'
<1>0. SessionsOK /\ CountedOK /\ HeldOK /\ DOMAIN status = Adapters /\ ActiveAt(a)
      /\ \A c \in calls : NewestCall(c)
  BY DEF IntegrationsInv
<1>1. /\ held' = held /\ session' = session /\ openOnes' = openOnes /\ status' = status
      /\ counted' = counted /\ overtaken' = overtaken
  OBVIOUS
<1>2. SessionsOK' /\ CountedOK' /\ HeldOK'
  BY <1>0, <1>1 DEF SessionsOK, CountedOK, HeldOK
<1>3. ActiveAt(a)'
  <2>1. Settling(a) => Settling(a)'
    BY DEF Settling
  <2> QED
    BY <1>0, <1>1, <2>1 DEF ActiveAt
<1>4. \A c \in calls' : NewestCall(c)'
  BY <1>0, <1>1 DEF NewestCall
<1> QED
  BY <1>0, <1>1, <1>2, <1>3, <1>4, StepKeeps

LEMMA SyncKeeps ==
  ASSUME IntegrationsInv, SyncAll PROVE IntegrationsInv'
<1> DEFINE active == {a \in Adapters : Holding(a) /\ status[a] = "active"}
<1>1. PICK a \in active : Begin("sync", a, "syncing", session[a], active \ {a})
  BY DEF SyncAll
<1>2. PICK k, r : k = session[a] /\ r = active \ {a}
  OBVIOUS
<1>3. a \in Adapters /\ a \in WithSecrets /\ r \in SUBSET WithSecrets
  BY <1>2, HeldKnowSecrets
<1>4. "sync" \in CallKinds /\ "syncing" \in CallPlaces /\ k \in Nat /\ started \in Nat
  BY <1>2, <1>3 DEF CallKinds, CallPlaces, IntegrationsInv, SessionsOK
<1>5. Begin("sync", a, "syncing", k, r)
  BY <1>1, <1>2
<1>6. /\ started' \in Nat
      /\ \E d : CallOK(d) /\ d.a = a /\ d.at = "syncing" /\ calls' = calls \cup {d}
  BY <1>3, <1>4, <1>5, BeginIs
<1>7. UNCHANGED <<held, session, openOnes, status, counted, isActive, overtaken>>
  BY DEF SyncAll
<1> QED
  BY <1>3, <1>6, <1>7, AskingKeeps

LEMMA SendKeeps ==
  ASSUME IntegrationsInv, NEW a \in Adapters, Send(a) PROVE IntegrationsInv'
<1>1. PICK where \in {"resolving", "sending"} : Begin("send", a, where, session[a], {})
  BY DEF Send
<1>2. PICK k : k = session[a]
  OBVIOUS
<1>3. a \in WithSecrets /\ "send" \in CallKinds /\ where \in CallPlaces /\ k \in Nat /\ started \in Nat
      /\ {} \in SUBSET WithSecrets
  BY <1>2, HeldKnowSecrets DEF Send, CallKinds, CallPlaces, IntegrationsInv, SessionsOK
<1>4. Begin("send", a, where, k, {})
  BY <1>1, <1>2
<1>5. /\ started' \in Nat
      /\ \E d : CallOK(d) /\ d.a = a /\ d.at = where /\ calls' = calls \cup {d}
  BY <1>3, <1>4, BeginIs
<1>6. UNCHANGED <<held, session, openOnes, status, counted, isActive, overtaken>>
  BY DEF Send
<1> QED
  BY <1>5, <1>6, AskingKeeps

LEMMA ActiveDisconnectKeeps ==
  ASSUME IntegrationsInv, NEW a \in Adapters, NEW what \in {"deactivate", "remove"}, Disconnect(a, what)
  PROVE  IntegrationsInv'
<1>0. SessionsOK /\ CountedOK /\ HeldOK /\ DOMAIN status = Adapters /\ started \in Nat
  BY DEF IntegrationsInv
<1>1. PICK k : k = session[a]
  OBVIOUS
<1>2. /\ held' = held /\ session' = session /\ status' = status /\ counted' = counted
      /\ openOnes' = openOnes \ {<<a, k>>} /\ Begin(what, a, "closing", k, {}) /\ a \in WithSecrets
      /\ overtaken' = IF \E c \in calls : c.a = a /\ c.at = "confirming" /\ c.s # session[a]
                      THEN overtaken \cup {a} ELSE overtaken
  BY <1>1, HeldKnowSecrets DEF Disconnect
<1>3. what \in CallKinds /\ "closing" \in CallPlaces /\ k \in Nat /\ {} \in SUBSET WithSecrets
  BY <1>0, <1>1 DEF CallKinds, CallPlaces, SessionsOK
<1>4. /\ started' \in Nat
      /\ \E d : CallOK(d) /\ d.a = a /\ d.at = "closing" /\ calls' = calls \cup {d}
  BY <1>0, <1>2, <1>3, BeginIs
<1>5. PICK d : CallOK(d) /\ d.a = a /\ d.at = "closing" /\ calls' = calls \cup {d}
  BY <1>4
<1>6. SessionsOK' /\ CountedOK' /\ HeldOK'
  BY <1>0, <1>2 DEF SessionsOK, CountedOK, HeldOK
<1>7. ActiveAt(a)'
  BY <1>5 DEF ActiveAt, Settling
<1>8. ASSUME NEW c \in calls', c.a = a PROVE NewestCall(c)'
  <2>1. CASE c = d
    BY <1>5, <2>1 DEF NewestCall
  <2>2. CASE c \in calls
    <3>1. SUFFICES ASSUME c.at = "confirming", c.s # session[a] PROVE a \in overtaken'
      BY <1>2, <1>8 DEF NewestCall
    <3> QED
      BY <1>2, <1>8, <2>2, <3>1
  <2> QED
    BY <1>5, <2>1, <2>2
<1>9. \A x \in Adapters : x # a =>
          /\ session'[x] = session[x] /\ status'[x] = status[x] /\ (x \in overtaken' <=> x \in overtaken)
          /\ <<x, session[x]>> \in openOnes => <<x, session[x]>> \in openOnes'
  BY <1>2
<1> QED
  BY <1>0, <1>2, <1>4, <1>5, <1>6, <1>7, <1>8, <1>9, StepKeeps

(* The step of a call c, which may go on as d.                             *)
LEMMA ActiveAnswerKeeps ==
  ASSUME IntegrationsInv, NEW c \in calls, NEW d, CallOK(d), d.a = c.a \/ d.at # "confirming",
         d.at = "confirming" => d.s = session[c.a],
         calls' \subseteq calls \cup {d}, calls \ {c} \subseteq calls', started' = started,
         session' = session, openOnes' = openOnes, overtaken' = overtaken,
         CountedOK', HeldOK', DOMAIN status' = Adapters,
         \A x \in Adapters : x # c.a => status'[x] = status[x],
         \/ status'[c.a] # "active" \/ c.a \in overtaken \/ <<c.a, session[c.a]>> \in openOnes
         \/ status'[c.a] = status[c.a] /\ c.at \notin {"closing", "confirming"}
         \/ d \in calls' /\ d.a = c.a /\ d.at = "confirming"
  PROVE  IntegrationsInv'
<1>0. SessionsOK /\ started \in Nat /\ c.a \in Adapters /\ ActiveAt(c.a) /\ \A e \in calls : NewestCall(e)
  BY CallIs DEF IntegrationsInv
<1>1. SessionsOK' /\ started' \in Nat
  BY <1>0 DEF SessionsOK
<1>2. ActiveAt(c.a)'
  <2>1. CASE status'[c.a] = status[c.a] /\ c.at \notin {"closing", "confirming"}
    <3>1. Settling(c.a) => Settling(c.a)'
      BY <2>1 DEF Settling
    <3> QED
      BY <1>0, <2>1, <3>1 DEF ActiveAt
  <2>2. CASE d \in calls' /\ d.a = c.a /\ d.at = "confirming"
    BY <2>2 DEF ActiveAt, Settling
  <2>3. CASE status'[c.a] # "active" \/ c.a \in overtaken \/ <<c.a, session[c.a]>> \in openOnes
    BY <2>3 DEF ActiveAt
  <2> QED
    BY <2>1, <2>2, <2>3
<1>3. \A e \in calls' : e.a = c.a => NewestCall(e)'
  BY <1>0 DEF NewestCall
<1> QED
  BY <1>0, <1>1, <1>2, <1>3, StepKeeps

LEMMA CreatedKeeps ==
  ASSUME IntegrationsInv, NEW c \in calls, Created(c) PROVE IntegrationsInv'
<1>0. CountedOK /\ HeldOK /\ DOMAIN status = Adapters
  BY DEF IntegrationsInv
<1>1. /\ c.at = "testing" /\ Ends(c) /\ session' = session /\ openOnes' = openOnes /\ status' = status
      /\ counted' = counted /\ overtaken' = overtaken
      /\ \E ok \in Answers(c) :
           held' = IF ~ok THEN held
                   ELSE [i \in DOMAIN held \cup {IntegrationOf[c.a]} |->
                           IF i = IntegrationOf[c.a] THEN c.a ELSE held[i]]
  BY DEF Created
<1>2. CallOK(c) /\ c.at # "confirming"
  BY <1>1, CallIs
<1>3. HeldOK'
  <2>1. PICK ok \in Answers(c) :
           held' = IF ~ok THEN held
                   ELSE [i \in DOMAIN held \cup {IntegrationOf[c.a]} |->
                           IF i = IntegrationOf[c.a] THEN c.a ELSE held[i]]
    BY <1>1
  <2>2. CASE ok
    <3>1. c.a \in WithSecrets
      BY <2>2 DEF Answers
    <3>2. held' = [i \in DOMAIN held \cup {IntegrationOf[c.a]} |->
                     IF i = IntegrationOf[c.a] THEN c.a ELSE held[i]]
      BY <2>1, <2>2
    <3> QED
      BY <1>0, <3>1, <3>2 DEF HeldOK
  <2>3. CASE ~ok
    BY <1>0, <2>1, <2>3 DEF HeldOK
  <2> QED
    BY <2>2, <2>3
<1>4. CountedOK' /\ calls' = calls \ {c} /\ started' = started
  BY <1>0, <1>1 DEF CountedOK, Ends
<1> QED
  BY <1>0, <1>1, <1>2, <1>3, <1>4, ActiveAnswerKeeps

LEMMA ConnectingKeeps ==
  ASSUME IntegrationsInv, NEW c \in calls, Connecting(c) PROVE IntegrationsInv'
<1>0. CountedOK /\ HeldOK /\ DOMAIN status = Adapters
  BY DEF IntegrationsInv
<1>1. /\ c.at = "connecting" /\ held' = held /\ session' = session /\ openOnes' = openOnes
      /\ counted' = counted /\ overtaken' = overtaken
      /\ \/ Goes(c, "fetching") /\ status' = status
         \/ Ends(c) /\ Sets(c.a, "error")
  BY DEF Connecting
<1>2. c.a \in Adapters /\ c.a \in WithSecrets /\ CallOK(c)
  BY <1>1, CallIs
<1>3. CountedOK' /\ HeldOK'
  BY <1>0, <1>1 DEF CountedOK, HeldOK
<1>4. CASE Ends(c) /\ Sets(c.a, "error")
  <2>1. DOMAIN status' = Adapters /\ status'[c.a] # "active" /\ \A x \in Adapters : x # c.a => status'[x] = status[x]
    BY <1>0, <1>2, <1>4, SetsIs
  <2>2. calls' = calls \ {c} /\ started' = started
    BY <1>4 DEF Ends
  <2> QED
    BY <1>1, <1>2, <1>3, <2>1, <2>2, ActiveAnswerKeeps
<1>5. CASE Goes(c, "fetching") /\ status' = status
  <2>1. "fetching" \in CallPlaces
    BY DEF CallPlaces
  <2>2. /\ started' = started
        /\ \E d : CallOK(d) /\ d.a = c.a /\ d.at = "fetching" /\ calls' = (calls \ {c}) \cup {d}
    BY <1>2, <1>5, <2>1, GoesIs
  <2> QED
    BY <1>0, <1>1, <1>2, <1>3, <1>5, <2>2, ActiveAnswerKeeps
<1> QED
  BY <1>1, <1>4, <1>5

LEMMA FetchedKeeps ==
  ASSUME IntegrationsInv, NEW c \in calls, Fetched(c) PROVE IntegrationsInv'
<1>0. CountedOK /\ HeldOK /\ DOMAIN status = Adapters
  BY DEF IntegrationsInv
<1>1. /\ c.at = "fetching" /\ Sets(c.a, "active") /\ Count(c.a, TRUE) /\ Goes(c, "confirming")
      /\ held' = held /\ session' = session /\ openOnes' = openOnes /\ overtaken' = overtaken
  BY DEF Fetched
<1>2. c.a \in Adapters /\ c.a \in WithSecrets
  BY <1>1, CallIs
<1>3. /\ DOMAIN status' = Adapters /\ \A x \in Adapters : x # c.a => status'[x] = status[x]
  BY <1>0, <1>1, <1>2, SetsIs
<1>4. CountedOK' /\ HeldOK'
  <2>1. CountedOK'
    BY <1>0, <1>1, <1>2, CountIs
  <2> QED
    BY <1>0, <1>1, <2>1 DEF HeldOK
<1>5. "confirming" \in CallPlaces
  BY DEF CallPlaces
<1>6. /\ started' = started
      /\ \E d : CallOK(d) /\ d.a = c.a /\ d.at = "confirming" /\ d.s = session[c.a] /\ calls' = (calls \ {c}) \cup {d}
  BY <1>1, <1>2, <1>5, GoesIs
<1>7. PICK d : CallOK(d) /\ d.a = c.a /\ d.at = "confirming" /\ d.s = session[c.a] /\ calls' = (calls \ {c}) \cup {d}
  BY <1>6
<1> QED
  BY <1>1, <1>2, <1>3, <1>4, <1>6, <1>7, ActiveAnswerKeeps

LEMMA ConfirmedKeeps ==
  ASSUME IntegrationsInv, NEW c \in calls, Confirmed(c) PROVE IntegrationsInv'
<1>0. CountedOK /\ HeldOK /\ DOMAIN status = Adapters
  BY DEF IntegrationsInv
<1>1. /\ c.at = "confirming" /\ Ends(c) /\ held' = held /\ session' = session /\ openOnes' = openOnes
      /\ counted' = counted /\ overtaken' = overtaken
      /\ \E ok \in Answers(c) : Sets(c.a, IF ok /\ Registered(c.a) THEN "active" ELSE "error")
  BY DEF Confirmed
<1>2. c.a \in Adapters /\ c.a \in WithSecrets /\ NewestCall(c)
  BY <1>1, CallIs
<1>3. PICK ok \in Answers(c) : Sets(c.a, IF ok /\ Registered(c.a) THEN "active" ELSE "error")
  BY <1>1
<1>4. ok => <<c.a, c.s>> \in openOnes
  BY DEF Answers
<1>5. /\ DOMAIN status' = Adapters /\ \A x \in Adapters : x # c.a => status'[x] = status[x]
      /\ ~ok => status'[c.a] # "active"
  <2>1. PICK v : v = IF ok /\ Registered(c.a) THEN "active" ELSE "error"
    OBVIOUS
  <2>2. DOMAIN status' = Adapters /\ status'[c.a] = v /\ \A x \in Adapters : x # c.a => status'[x] = status[x]
    BY <1>0, <1>2, <1>3, <2>1, SetsIs
  <2> QED
    BY <2>1, <2>2
<1>6. status'[c.a] # "active" \/ c.a \in overtaken \/ <<c.a, session[c.a]>> \in openOnes
  BY <1>1, <1>2, <1>4, <1>5 DEF NewestCall
<1>7. PICK d : CallOK(d) /\ d.at = "closing" /\ d.a = c.a
  <2>1. PICK d : d = [n |-> 0, what |-> "remove", a |-> c.a, s |-> 0, at |-> "closing", rest |-> {}]
    OBVIOUS
  <2>2. d \in CallSet /\ d.rest = {} /\ d.a = c.a /\ d.at = "closing"
    BY <1>2, <2>1 DEF CallSet, CallKinds, CallPlaces
  <2> QED
    BY <1>2, <2>2 DEF CallOK
<1>8. CountedOK' /\ HeldOK' /\ calls' = calls \ {c} /\ started' = started
  BY <1>0, <1>1 DEF CountedOK, HeldOK, Ends
<1> QED
  BY <1>1, <1>2, <1>5, <1>6, <1>7, <1>8, ActiveAnswerKeeps

LEMMA ClosedKeeps ==
  ASSUME IntegrationsInv, NEW c \in calls, Deactivated(c) \/ Removed(c) PROVE IntegrationsInv'
<1>0. CountedOK /\ HeldOK /\ DOMAIN status = Adapters
  BY DEF IntegrationsInv
<1>1. Sets(c.a, "inactive") \/ Sets(c.a, "disconnected")
  BY DEF Deactivated, Removed
<1>2. c.a \in Adapters /\ CallOK(c)
  BY CallIs
<1>4. DOMAIN status' = Adapters /\ status'[c.a] # "active" /\ \A x \in Adapters : x # c.a => status'[x] = status[x]
  BY <1>0, <1>2, <1>1, SetsIs
<1>5. HeldOK'
  <2>1. held' = held \/ held' = [i \in DOMAIN held \ {IntegrationOf[c.a]} |-> held[i]]
    BY DEF Deactivated, Removed
  <2> QED
    BY <1>0, <2>1 DEF HeldOK
<1>6. session' = session /\ openOnes' = openOnes /\ counted' = counted /\ overtaken' = overtaken
      /\ c.at = "closing" /\ Ends(c)
  BY DEF Deactivated, Removed
<1>7. CountedOK' /\ calls' = calls \ {c} /\ started' = started
  BY <1>0, <1>6 DEF CountedOK, Ends
<1> QED
  BY <1>2, <1>4, <1>5, <1>6, <1>7, ActiveAnswerKeeps

LEMMA CountedKeeps ==
  ASSUME IntegrationsInv, NEW c \in calls, Synced(c) \/ LookedUp(c) \/ Sent(c) PROVE IntegrationsInv'
<1>0. CountedOK /\ HeldOK /\ DOMAIN status = Adapters
  BY DEF IntegrationsInv
<1>1. /\ c.at \in {"syncing", "resolving", "sending"} /\ held' = held /\ session' = session
      /\ openOnes' = openOnes /\ status' = status /\ overtaken' = overtaken
  BY DEF Synced, LookedUp, Sent
<1>2. c.a \in Adapters /\ c.a \in WithSecrets /\ CallOK(c)
  BY <1>1, CallIs
<1>3. counted' = counted \/ \E b \in BOOLEAN : Count(c.a, b)
  BY DEF Synced, SlackSynced, JiraSynced, ServiceNowSynced, LookedUp, Sent, Answers
<1>4. CountedOK'
  <2>1. CASE counted' = counted
    BY <1>0, <2>1 DEF CountedOK
  <2>2. CASE \E b \in BOOLEAN : Count(c.a, b)
    BY <1>0, <1>2, <2>2, CountIs
  <2> QED
    BY <1>3, <2>1, <2>2
<1>5. HeldOK'
  BY <1>0, <1>1 DEF HeldOK
<1>6. /\ started' = started
      /\ \E d : CallOK(d) /\ d.at # "confirming" /\ calls' \subseteq calls \cup {d} /\ calls \ {c} \subseteq calls'
  <2>1. CASE Synced(c)
    <3>1. c.at = "syncing" /\ SyncsNext(c)
      BY <2>1 DEF Synced
    <3> QED
      BY <3>1, SyncsNextIs
  <2>2. CASE LookedUp(c)
    <3>1. Goes(c, "sending") \/ Ends(c)
      BY <2>2 DEF LookedUp
    <3>2. "sending" \in CallPlaces
      BY DEF CallPlaces
    <3>3. CASE Ends(c)
      BY <1>1, <1>2, <3>3 DEF Ends
    <3>4. CASE Goes(c, "sending")
      <4>1. /\ started' = started
            /\ \E d : CallOK(d) /\ d.at = "sending" /\ calls' = (calls \ {c}) \cup {d}
        BY <1>2, <3>2, <3>4, GoesIs
      <4> QED
        BY <4>1
    <3> QED
      BY <3>1, <3>3, <3>4
  <2>3. CASE Sent(c)
    BY <1>1, <1>2, <2>3 DEF Sent, Ends
  <2> QED
    BY <2>1, <2>2, <2>3
<1>7. PICK d : CallOK(d) /\ d.at # "confirming" /\ calls' \subseteq calls \cup {d} /\ calls \ {c} \subseteq calls'
  BY <1>6
<1>8. status'[c.a] = status[c.a] /\ c.at \notin {"closing", "confirming"} /\ DOMAIN status' = Adapters
  BY <1>0, <1>1
<1> QED
  BY <1>1, <1>2, <1>4, <1>5, <1>6, <1>7, <1>8, ActiveAnswerKeeps

LEMMA IntegrationsSteps ==
  ASSUME IntegrationsInv, [IntegrationsNext]_integrationVars PROVE IntegrationsInv'
<1>1. ASSUME NEW a \in Adapters, Create(a) \/ Activate(a) PROVE IntegrationsInv'
  BY <1>1, OpeningKeeps
<1>2. ASSUME NEW a \in Adapters, Send(a) \/ Disconnect(a, "deactivate") \/ Disconnect(a, "remove")
      PROVE  IntegrationsInv'
  BY <1>2, SendKeeps, ActiveDisconnectKeeps
<1>3. ASSUME NEW c \in calls, Created(c) PROVE IntegrationsInv'
  BY <1>3, CreatedKeeps
<1>4. ASSUME NEW c \in calls, Connecting(c) PROVE IntegrationsInv'
  BY <1>4, ConnectingKeeps
<1>5. ASSUME NEW c \in calls, Fetched(c) PROVE IntegrationsInv'
  BY <1>5, FetchedKeeps
<1>6. ASSUME NEW c \in calls, Confirmed(c) PROVE IntegrationsInv'
  BY <1>6, ConfirmedKeeps
<1>7. ASSUME NEW c \in calls, Deactivated(c) \/ Removed(c) PROVE IntegrationsInv'
  BY <1>7, ClosedKeeps
<1>8. ASSUME NEW c \in calls, Synced(c) \/ LookedUp(c) \/ Sent(c) PROVE IntegrationsInv'
  BY <1>8, CountedKeeps
<1>9. ASSUME UNCHANGED integrationVars PROVE IntegrationsInv'
  <2>1. /\ held' = held /\ session' = session /\ openOnes' = openOnes /\ status' = status
        /\ counted' = counted /\ calls' = calls /\ started' = started /\ overtaken' = overtaken
    BY <1>9 DEF integrationVars
  <2>2. \A c : (CallOK(c) <=> CallOK(c)') /\ (NewestCall(c) <=> NewestCall(c)')
    BY <2>1 DEF CallOK, NewestCall
  <2>3. \A x : ActiveAt(x) <=> ActiveAt(x)'
    BY <2>1 DEF ActiveAt, Settling
  <2>4. SessionsOK' /\ CountedOK' /\ HeldOK'
    BY <2>1 DEF IntegrationsInv, SessionsOK, CountedOK, HeldOK
  <2> QED
    BY <2>1, <2>2, <2>3, <2>4 DEF IntegrationsInv
<1>10. SyncAll => IntegrationsInv'
  BY SyncKeeps
<1> QED
  BY <1>1, <1>2, <1>3, <1>4, <1>5, <1>6, <1>7, <1>8, <1>9, <1>10 DEF IntegrationsNext

LEMMA IntegrationsStart == IntegrationsInit => IntegrationsInv
<1>1. SUFFICES ASSUME IntegrationsInit PROVE IntegrationsInv
  OBVIOUS
<1>2. /\ held = <<>> /\ session = [a \in Adapters |-> 0] /\ openOnes = {}
      /\ status = [a \in Adapters |-> "inactive"]
      /\ counted = [a \in Adapters |-> [ok |-> 0, bad |-> 0]] /\ calls = {} /\ started = 0
  BY <1>1 DEF IntegrationsInit
<1>3. DOMAIN held = {} /\ \A x \in Adapters : ActiveAt(x)
  BY <1>2 DEF ActiveAt
<1>4. SessionsOK /\ CountedOK /\ HeldOK
  BY <1>2, <1>3 DEF SessionsOK, CountedOK, HeldOK
<1> QED
  BY <1>2, <1>3, <1>4 DEF IntegrationsInv

LEMMA IntegrationsTyped ==
  ASSUME IntegrationsInv PROVE IntegrationsTypeOK /\ ActiveIsConnected /\ SecretsNeeded
<1>1. ActiveIsConnected
  <2>1. \A a : Idle(a) => ~Settling(a)
    BY DEF Idle, Settling
  <2> QED
    BY <2>1 DEF IntegrationsInv, ActiveAt, ActiveIsConnected
<1>2. SecretsNeeded
  <2>1. \A a \in Adapters \ WithSecrets : counted[a].ok = 0
    BY DEF IntegrationsInv, CountedOK
  <2> QED
    BY <2>1, HeldKnowSecrets DEF SecretsNeeded
<1>3. \A i \in DOMAIN held : held[i] \in Adapters /\ IntegrationOf[held[i]] = i
  BY IntegrationsAssumption DEF IntegrationsInv, HeldOK, IntegrationsAssumption
<1> QED
  BY <1>1, <1>2, <1>3 DEF IntegrationsTypeOK, IntegrationsInv, SessionsOK, CountedOK

(***************************************************************************)
(* Workflows, first the communicator: an agent without a channel was never *)
(* sent anything.                                                          *)
(***************************************************************************)
SentTo(k) == {i \in DOMAIN queue : queue[i] = k /\ i > cleared[k]}

CommunicatorInv ==
  /\ \E K : queue \in Seq(K)
  /\ \A k \in Kinds : cleared[k] \in Nat /\ cleared[k] <= Len(queue)
  /\ DOMAIN channels \subseteq Kinds /\ DOMAIN cleared = Kinds
  /\ ChannelsComplete
  /\ \A k \in Kinds \ DOMAIN channels : \A i \in DOMAIN queue : queue[i] # k

LEMMA NothingKept ==
  ASSUME NEW S, NEW s \in Seq(S), NEW P, Range(s) \cap P = {}
  PROVE  Only(s, P) = <<>>
<1>1. PICK t : t = Only(s, P)
  OBVIOUS
<1>2. t \in Seq(S) /\ Range(t) = {}
  BY <1>1, OnlyRange
<1>3. ~\E i : i \in DOMAIN t
  BY <1>2 DEF Range
<1>4. t = <<>>
  <2>1. Len(t) \in Nat /\ DOMAIN t = 1..Len(t)
    BY <1>2, ListDomain
  <2>2. 1 \notin 1..Len(t)
    BY <1>3, <2>1
  <2>3. Len(t) = 0
    BY <2>1, <2>2
  <2> QED
    BY <1>2, <2>3
<1> QED
  BY <1>1, <1>4

LEMMA CommunicatorStarts == WorkflowsInit => CommunicatorInv
<1> SUFFICES ASSUME WorkflowsInit PROVE CommunicatorInv
  OBVIOUS
<1>1. queue = <<>> /\ channels = <<>> /\ cleared = [k \in Kinds |-> 0]
  BY DEF WorkflowsInit
<1>2. <<>> \in Seq({}) /\ DOMAIN <<>> = {} /\ Len(<<>>) = 0
  OBVIOUS
<1> QED
  BY <1>1, <1>2 DEF CommunicatorInv, ChannelsComplete

LEMMA PlacesIs ==
  ASSUME NEW S, NEW s \in Seq(S), NEW x \in S
  PROVE  /\ [i \in DOMAIN s |-> i] \in Seq(Nat) /\ Range([i \in DOMAIN s |-> i]) = DOMAIN s
         /\ [i \in DOMAIN Append(s, x) |-> i] = Append([i \in DOMAIN s |-> i], Len(s) + 1)
<1>1. PICK n, t, u : n = Len(s) /\ t = [i \in DOMAIN s |-> i] /\ u = [i \in DOMAIN Append(s, x) |-> i]
  OBVIOUS
<1>2. n \in Nat /\ DOMAIN s = 1..n /\ DOMAIN Append(s, x) = 1..(n + 1)
  BY <1>1
<1>3. t \in Seq(Nat) /\ DOMAIN t = 1..n /\ Len(t) = n /\ \A i \in 1..n : t[i] = i
  BY <1>1, <1>2
<1>4. Range(t) = 1..n
  BY <1>3 DEF Range
<1>5. /\ DOMAIN Append(t, n + 1) = 1..(n + 1) /\ (\A i \in 1..n : Append(t, n + 1)[i] = i)
      /\ Append(t, n + 1)[n + 1] = n + 1
  BY <1>2, <1>3
<1>6. \A i \in 1..(n + 1) : Append(t, n + 1)[i] = i
  BY <1>2, <1>5
<1>7. u = Append(t, n + 1)
  BY <1>1, <1>2, <1>3, <1>5, <1>6
<1> QED
  BY <1>1, <1>2, <1>3, <1>4, <1>7

LEMMA CommunicatorSteps ==
  ASSUME CommunicatorInv, [CommunicatorNext]_communicatorVars PROVE CommunicatorInv'
<1>0. PICK K : queue \in Seq(K)
  BY DEF CommunicatorInv
<1>00. PICK n, all : n = Len(queue) /\ all = [i \in DOMAIN queue |-> i]
  OBVIOUS
<1>01. n \in Nat /\ DOMAIN queue = 1..n
  BY <1>0, <1>00
<1>02. \A a \in DOMAIN channels : channels[a] = Only(all, SentTo(a))
  BY <1>00 DEF CommunicatorInv, ChannelsComplete, SentTo
<1>1. ASSUME NEW k \in {"planner", "report"}, SendMessage(k) PROVE CommunicatorInv'
  <2>1. /\ queue' = Append(queue, k) /\ cleared' = cleared
        /\ channels' = [a \in DOMAIN channels \cup {k} |->
                          IF a # k THEN channels[a]
                          ELSE IF k \in DOMAIN channels THEN Append(channels[k], n + 1) ELSE <<n + 1>>]
    BY <1>1, <1>00 DEF SendMessage
  <2>2. PICK L : L = K \cup {k}
    OBVIOUS
  <2>3. queue \in Seq(L) /\ k \in L
    BY <1>0, <2>2
  <2>4. /\ queue' \in Seq(L) /\ Len(queue') = n + 1 /\ DOMAIN queue' = 1..(n + 1)
        /\ (\A i \in 1..n : queue'[i] = queue[i]) /\ queue'[n + 1] = k
    BY <1>00, <2>1, <2>3, Appended
  <2>5. all \in Seq(Nat) /\ Range(all) = 1..n /\ [i \in DOMAIN queue' |-> i] = Append(all, n + 1)
    BY <1>00, <1>01, <2>1, <2>3, PlacesIs
  <2>6. k \in Kinds
    BY DEF Kinds
  <2>7. ASSUME NEW a \in DOMAIN channels'
        PROVE  channels'[a] = Only(Append(all, n + 1), {i \in DOMAIN queue' : queue'[i] = a /\ i > cleared[a]})
    <3>1. PICK P, Q : P = SentTo(a) /\ Q = {i \in DOMAIN queue' : queue'[i] = a /\ i > cleared[a]}
      OBVIOUS
    <3>2. \A i \in Range(all) : i \in Q <=> i \in P
      BY <1>01, <2>4, <2>5, <3>1 DEF SentTo
    <3>3. PICK old : old = Only(all, Q)
      OBVIOUS
    <3>4. old = Only(all, P)
      BY <2>5, <3>2, <3>3, OnlyAgrees
    <3>5. Only(Append(all, n + 1), Q) = IF n + 1 \in Q THEN Append(old, n + 1) ELSE old
      <4>1. PICK m : m = n + 1
        OBVIOUS
      <4>2. m \in Nat
        BY <1>01, <4>1
      <4>3. Only(Append(all, m), Q) = IF m \in Q THEN Append(Only(all, Q), m) ELSE Only(all, Q)
        BY <2>5, <4>2, OnlyAppended
      <4> QED
        BY <3>3, <4>1, <4>3
    <3>6. a \in Kinds /\ cleared[a] \in Nat /\ cleared[a] <= n
      BY <1>00, <2>1, <2>6 DEF CommunicatorInv
    <3>7. n + 1 \in Q <=> a = k
      BY <1>01, <2>4, <3>1, <3>6
    <3>8. CASE a # k
      <4>1. a \in DOMAIN channels /\ channels'[a] = channels[a]
        BY <2>1, <3>8
      <4> QED
        BY <1>02, <3>1, <3>4, <3>5, <3>7, <3>8, <4>1
    <3>9. CASE a = k /\ k \in DOMAIN channels
      <4>1. channels'[a] = Append(channels[k], n + 1)
        BY <2>1, <3>9
      <4> QED
        BY <1>02, <3>1, <3>4, <3>5, <3>7, <3>9, <4>1
    <3>10. CASE a = k /\ k \notin DOMAIN channels
      <4>1. channels'[a] = <<n + 1>>
        BY <2>1, <3>10
      <4>2. P = {}
        BY <2>6, <3>1, <3>10 DEF CommunicatorInv, SentTo
      <4>3. old = <<>>
        BY <2>5, <3>4, <4>2, NothingKept
      <4>4. Append(<<>>, n + 1) = <<n + 1>>
        OBVIOUS
      <4> QED
        BY <3>1, <3>5, <3>7, <3>10, <4>1, <4>3, <4>4
    <3> QED
      BY <3>8, <3>9, <3>10
  <2>8. ChannelsComplete'
    <3>1. PICK both : both = [i \in DOMAIN queue' |-> i]
      OBVIOUS
    <3>2. \A a \in DOMAIN channels' : channels'[a] = Only(both, {i \in DOMAIN queue' : queue'[i] = a /\ i > cleared'[a]})
      <4>1. both = Append(all, n + 1)
        BY <2>5, <3>1
      <4>2. cleared' = cleared
        BY <2>1
      <4> QED
        BY <2>7, <4>1, <4>2, Zenon
    <3> QED
      BY <3>1, <3>2 DEF ChannelsComplete
  <2>9. \A a \in Kinds : cleared[a] \in Nat /\ cleared[a] <= Len(queue')
    BY <1>00, <1>01, <2>4 DEF CommunicatorInv
  <2>10. DOMAIN channels' = DOMAIN channels \cup {k}
    BY <2>1
  <2>11. ASSUME NEW a \in Kinds \ DOMAIN channels', NEW i \in DOMAIN queue' PROVE queue'[i] # a
    <3>1. a # k /\ a \in Kinds \ DOMAIN channels /\ (i \in 1..n \/ i = n + 1)
      BY <1>01, <2>4, <2>10
    <3> QED
      BY <1>01, <2>4, <3>1 DEF CommunicatorInv
  <2> QED
    BY <2>1, <2>4, <2>6, <2>8, <2>9, <2>10, <2>11 DEF CommunicatorInv
<1>2. ASSUME NEW k \in {"planner", "report"}, ClearMessages(k) PROVE CommunicatorInv'
  <2>1. /\ k \in DOMAIN channels /\ channels' = [channels EXCEPT ![k] = <<>>]
        /\ cleared' = [cleared EXCEPT ![k] = n] /\ queue' = queue
    BY <1>2, <1>00 DEF ClearMessages
  <2>2. DOMAIN channels' = DOMAIN channels /\ DOMAIN cleared' = Kinds /\ cleared'[k] = n
    BY <2>1 DEF CommunicatorInv
  <2>3. \A a \in Kinds : a # k => cleared'[a] = cleared[a]
    BY <2>1
  <2>4. ASSUME NEW a \in DOMAIN channels'
        PROVE  channels'[a] = Only(all, {i \in DOMAIN queue : queue[i] = a /\ i > cleared'[a]})
    <3>1. CASE a = k
      <4>1. channels'[a] = <<>>
        BY <2>1, <3>1
      <4>2. {i \in DOMAIN queue : queue[i] = a /\ i > cleared'[a]} = {}
        BY <1>01, <2>2, <3>1
      <4>3. all \in Seq(Nat)
        BY <1>00, <1>01
      <4> QED
        BY <4>1, <4>2, <4>3, NothingKept
    <3>2. CASE a # k
      <4>1. channels'[a] = channels[a] /\ a \in Kinds
        BY <2>1, <2>2, <3>2 DEF CommunicatorInv
      <4>2. {i \in DOMAIN queue : queue[i] = a /\ i > cleared'[a]} = SentTo(a)
        BY <2>3, <3>2, <4>1 DEF SentTo
      <4> QED
        BY <1>02, <2>2, <4>1, <4>2
    <3> QED
      BY <3>1, <3>2
  <2>5. ChannelsComplete'
    BY <1>00, <2>1, <2>4 DEF ChannelsComplete
  <2>6. \A a \in Kinds : cleared'[a] \in Nat /\ cleared'[a] <= n
    BY <1>00, <1>01, <2>2, <2>3 DEF CommunicatorInv
  <2> QED
    BY <1>00, <2>1, <2>2, <2>5, <2>6 DEF CommunicatorInv
<1>3. CASE UNCHANGED communicatorVars
  <2>1. queue' = queue /\ channels' = channels /\ cleared' = cleared
    BY <1>3 DEF communicatorVars
  <2> QED
    BY <2>1 DEF CommunicatorInv, ChannelsComplete
<1> QED
  BY <1>1, <1>2, <1>3 DEF CommunicatorNext

LEMMA CommunicatorHolds ==
  ASSUME CommunicatorInv
  PROVE  ChannelsComplete /\ \A k \in DOMAIN channels : ToSet(channels[k]) \subseteq DOMAIN queue
<1>1. PICK K : queue \in Seq(K)
  BY DEF CommunicatorInv
<1>2. ASSUME NEW k \in DOMAIN channels PROVE ToSet(channels[k]) \subseteq DOMAIN queue
  <2>1. PICK all : all = [i \in DOMAIN queue |-> i]
    OBVIOUS
  <2>2. all \in Seq(Nat)
    BY <1>1, <2>1
  <2>3. channels[k] = Only(all, SentTo(k))
    BY <2>1 DEF CommunicatorInv, ChannelsComplete, SentTo
  <2>4. Range(channels[k]) \subseteq SentTo(k)
    BY <2>2, <2>3, OnlyRange
  <2> QED
    BY <2>4 DEF ToSet, Range, SentTo
<1> QED
  BY <1>2 DEF CommunicatorInv

(***************************************************************************)
(* What a list has at its head it has once more than its tail.             *)
(***************************************************************************)
LEMMA TimesHead ==
  ASSUME NEW S, NEW s \in Seq(S), s # <<>>, NEW x
  PROVE  /\ Times(s, x) \in Nat /\ Times(Tail(s), x) \in Nat /\ Times(Tail(s), x) <= Times(s, x)
         /\ Times(s, x) <= Times(Tail(s), x) + (IF Head(s) = x THEN 1 ELSE 0)
<1>1. PICK n, t : n = Len(s) /\ t = Tail(s)
  OBVIOUS
<1>2. /\ n \in Nat \ {0} /\ DOMAIN s = 1..n /\ DOMAIN t = 1..(n - 1) /\ Head(s) = s[1]
      /\ \A k \in 1..(n - 1) : t[k] = s[k + 1]
  BY <1>1, Shortened
<1>3. PICK A, B, C : /\ A = {k \in 1..n : s[k] = x} /\ B = {k \in 1..(n - 1) : t[k] = x}
                     /\ C = A \ {1}
  OBVIOUS
<1>4. IsFiniteSet(B)
  <2>1. IsFiniteSet(1..(n - 1))
    BY <1>2, FS_Interval
  <2> QED
    BY <1>3, <2>1, FS_Subset
<1> DEFINE g == [b \in B |-> b + 1]
<1>5. g \in Surjection(B, C)
  <2>1. ASSUME NEW b \in B PROVE b + 1 \in C
    BY <1>2, <1>3
  <2>2. ASSUME NEW c \in C PROVE c - 1 \in B /\ (c - 1) + 1 = c
    <3>1. c - 1 \in 1..(n - 1) /\ (c - 1) + 1 = c
      BY <1>2, <1>3
    <3> QED
      BY <1>2, <1>3, <3>1
  <2> QED
    BY <2>1, <2>2 DEF Surjection
<1> HIDE DEF g
<1>6. /\ IsFiniteSet(C) /\ Cardinality(C) <= Cardinality(B) /\ Cardinality(B) \in Nat /\ Cardinality(C) \in Nat
  BY <1>4, <1>5, FS_Surjection, FS_CardinalityType
<1>7. Cardinality(A) \in Nat /\ Cardinality(A) <= Cardinality(C) + (IF s[1] = x THEN 1 ELSE 0)
  <2>1. CASE s[1] = x
    <3>1. A = C \cup {1} /\ 1 \notin C
      BY <1>2, <1>3, <2>1
    <3>2. Cardinality(A) = Cardinality(C) + 1
      BY <1>6, <3>1, FS_AddElement
    <3> QED
      BY <1>6, <2>1, <3>2
  <2>2. CASE s[1] # x
    <3>1. A = C
      BY <1>3, <2>2
    <3> QED
      BY <1>6, <2>2, <3>1
  <2> QED
    BY <2>1, <2>2
<1>8. Times(s, x) = Cardinality(A) /\ Times(t, x) = Cardinality(B)
  BY <1>2, <1>3 DEF Times
<1>9. Times(Tail(s), x) <= Times(s, x)
  BY TimesTail
<1> QED
  BY <1>1, <1>2, <1>6, <1>7, <1>8, <1>9

(***************************************************************************)
(* The plans, and the calls of each agent.                                 *)
(***************************************************************************)
PlanTasks(plan) ==
  IF plan = "intelligence" THEN IntelligencePlan ELSE IF plan = "market" THEN MarketPlan ELSE ClientTasks

NeedsService == {"analysis", "strategy", "report"}
AgentCalls    == {"think", "tool", "service", "llm"}

LEMMA TasksIs ==
  ASSUME NEW w, workflow[w].plan \in {"intelligence", "market", "client"}
  PROVE  Tasks(w) = PlanTasks(workflow[w].plan)
BY DEF Tasks, PlanTasks

LEMMA PlansAre ==
  /\ IntelligencePlan \in Seq(Range(IntelligencePlan)) /\ DOMAIN IntelligencePlan = 1..5 /\ Len(IntelligencePlan) = 5
  /\ MarketPlan \in Seq(Range(MarketPlan)) /\ DOMAIN MarketPlan = 1..4 /\ Len(MarketPlan) = 4
  /\ IntelligencePlan[2].kind = "analysis" /\ MarketPlan[3].kind = "analysis"
  /\ \A i \in 1..5 : IntelligencePlan[i].deps = IF i = 1 THEN {} ELSE {i - 1}
  /\ \A i \in 1..4 : MarketPlan[i].deps = IF i = 1 THEN {} ELSE {i - 1}
<1>1. PICK p : p = IntelligencePlan
  OBVIOUS
<1>2. PICK k : k = <<"research", "analysis", "strategy", "report", "critique">>
  OBVIOUS
<1>3. DOMAIN k = 1..5 /\ k[2] = "analysis"
  BY <1>2
<1>4. p = [i \in 1..5 |-> [kind |-> k[i], deps |-> IF i = 1 THEN {} ELSE {i - 1}]]
  BY <1>1, <1>2, <1>3 DEF IntelligencePlan, Chain
<1>5. p[2].kind = "analysis" /\ \A i \in 1..5 : p[i].deps = IF i = 1 THEN {} ELSE {i - 1}
  BY <1>3, <1>4
<1>6. p \in Seq(Range(p)) /\ DOMAIN p = 1..5 /\ Len(p) = 5
  BY <1>4 DEF Range
<1>7. PICK m : m = MarketPlan
  OBVIOUS
<1>8. PICK l : l = <<"planner", "research", "analysis", "report">>
  OBVIOUS
<1>9. DOMAIN l = 1..4 /\ l[3] = "analysis"
  BY <1>8
<1>10. m = [i \in 1..4 |-> [kind |-> l[i], deps |-> IF i = 1 THEN {} ELSE {i - 1}]]
  BY <1>7, <1>8, <1>9 DEF MarketPlan, Chain
<1>11. m[3].kind = "analysis" /\ \A i \in 1..4 : m[i].deps = IF i = 1 THEN {} ELSE {i - 1}
  BY <1>9, <1>10
<1>12. m \in Seq(Range(m)) /\ DOMAIN m = 1..4 /\ Len(m) = 4
  BY <1>10 DEF Range
<1> QED
  BY <1>1, <1>5, <1>6, <1>7, <1>11, <1>12

LEMMA FilledIs ==
  ASSUME NEW S, NEW x \in S, NEW m \in Nat
  PROVE  /\ [i \in 1..m |-> x] \in Seq(S) /\ <<x>> \in Seq(S) /\ Range(<<x>>) = {x}
         /\ Range([i \in 1..m |-> x]) \subseteq {x}
<1>1. [i \in 1..m |-> x] \in Seq(S)
  OBVIOUS
<1>2. <<x>> \in Seq(S) /\ DOMAIN <<x>> = {1} /\ <<x>>[1] = x
  OBVIOUS
<1> QED
  BY <1>1, <1>2 DEF Range

CallsLeft(c, k, sv) ==
  /\ c \in Seq(AgentCalls)
  /\ "tool" \in Range(c) => k = "research"
  /\ sv = {} /\ k \in NeedsService => "service" \in Range(c)
  /\ Times(c, "think") <= Times(Calls(k), "think")

LEMMA CallsAre ==
  ASSUME NEW k \in Kinds, NEW sv
  PROVE  CallsLeft(Calls(k), k, sv) /\ Times(Calls(k), "think") \in Nat
<1>1. PICK c : c = Calls(k)
  OBVIOUS
<1>2. /\ c \in Seq(AgentCalls) /\ ("tool" \in Range(c) => k = "research")
      /\ k \in NeedsService => "service" \in Range(c)
  <2>1. CASE k = "research"
    <3>1. PICK m, t : m = Min({3, Keywords}) /\ t = [i \in 1..m |-> "tool"]
      OBVIOUS
    <3>2. m \in Nat
      <4>1. Keywords \in Nat /\ Keywords \in Int /\ 3 \in Int
        BY WorkflowsAssumption
      <4>2. Min({3, Keywords}) = IF 3 <= Keywords THEN 3 ELSE Keywords
        BY <4>1, OfTwo
      <4> QED
        BY <3>1, <4>1, <4>2
    <3>3. <<"think">> \in Seq(AgentCalls) /\ t \in Seq(AgentCalls)
      <4>1. "think" \in AgentCalls /\ "tool" \in AgentCalls
        BY DEF AgentCalls
      <4> QED
        BY <3>1, <3>2, <4>1, FilledIs
    <3>4. c = (<<"think">> \o t) \o <<"think">>
      BY <1>1, <2>1, <3>1 DEF Calls, ResearchCalls
    <3>5. c \in Seq(AgentCalls)
      BY <3>3, <3>4
    <3> QED
      BY <2>1, <3>5 DEF NeedsService
  <2>2. CASE k = "analysis"
    <3>1. c = <<"think", "service", "think">>
      BY <1>1, <2>2 DEF Calls, AnalysisCalls
    <3>2. c \in Seq(AgentCalls) /\ DOMAIN c = 1..3 /\ c[1] = "think" /\ c[2] = "service" /\ c[3] = "think"
      BY <3>1 DEF AgentCalls
    <3>3. \A i \in DOMAIN c : i = 1 \/ i = 2 \/ i = 3
      BY <3>2
    <3> QED
      BY <3>2, <3>3 DEF Range
  <2>3. CASE k = "strategy"
    <3>1. c = <<"service", "think", "llm">>
      BY <1>1, <2>3 DEF Calls, StrategyCalls
    <3>2. c \in Seq(AgentCalls) /\ DOMAIN c = 1..3 /\ c[1] = "service" /\ c[2] = "think" /\ c[3] = "llm"
      BY <3>1 DEF AgentCalls
    <3>3. \A i \in DOMAIN c : i = 1 \/ i = 2 \/ i = 3
      BY <3>2
    <3> QED
      BY <3>2, <3>3 DEF Range
  <2>4. CASE k = "report"
    <3>1. PICK m, t, u : m = Min({5, Sections}) /\ t = [i \in 1..m |-> "llm"] /\ u = <<"service">>
      OBVIOUS
    <3>2. m \in Nat
      <4>1. Sections \in Nat /\ Sections \in Int /\ 5 \in Int
        BY WorkflowsAssumption
      <4>2. Min({5, Sections}) = IF 5 <= Sections THEN 5 ELSE Sections
        BY <4>1, OfTwo
      <4> QED
        BY <3>1, <4>1, <4>2
    <3>3. u \in Seq(AgentCalls) /\ t \in Seq(AgentCalls) /\ Range(u) = {"service"}
      <4>1. "service" \in AgentCalls /\ "llm" \in AgentCalls
        BY DEF AgentCalls
      <4>2. u \in Seq(AgentCalls) /\ Range(u) = {"service"}
        BY <3>1, <4>1, FilledIs
      <4>3. [i \in 1..m |-> "llm"] \in Seq(AgentCalls)
        BY <3>2, <4>1, FilledIs
      <4>4. t \in Seq(AgentCalls)
        BY <3>1, <4>3
      <4> QED
        BY <4>2, <4>4
    <3>4. c = u \o t
      BY <1>1, <2>4, <3>1 DEF Calls, ReportCalls
    <3>5. c \in Seq(AgentCalls) /\ Range(c) = Range(u) \cup Range(t)
      BY <3>3, <3>4, Joined
    <3>6. "tool" \notin Range(t)
      BY <3>1 DEF Range
    <3> QED
      BY <3>3, <3>5, <3>6
  <2>5. CASE k \in {"critique", "planner"}
    <3>1. c = <<"think", "llm">>
      BY <1>1, <2>5 DEF Calls, CritiqueCalls, PlannerCalls
    <3>2. c \in Seq(AgentCalls) /\ DOMAIN c = 1..2 /\ c[1] = "think" /\ c[2] = "llm"
      BY <3>1 DEF AgentCalls
    <3>3. \A i \in DOMAIN c : i = 1 \/ i = 2
      BY <3>2
    <3> QED
      BY <2>5, <3>2, <3>3 DEF Range, NeedsService
  <2> QED
    BY <2>1, <2>2, <2>3, <2>4, <2>5 DEF Kinds
<1>3. Times(c, "think") \in Nat
  <2>1. IsFiniteSet(1..Len(c)) /\ DOMAIN c = 1..Len(c)
    BY <1>2, FS_Interval, ListDomain
  <2> QED
    BY <2>1, FS_Subset, FS_CardinalityType DEF Times
<1> QED
  BY <1>1, <1>2, <1>3 DEF CallsLeft

LEMMA CallsTail ==
  ASSUME NEW c, NEW k \in Kinds, NEW sv, CallsLeft(c, k, sv), c # <<>>
  PROVE  /\ Head(c) = "service" /\ ~(sv = {} /\ k \in NeedsService) => CallsLeft(Tail(c), k, sv)
         /\ Head(c) # "service" => CallsLeft(Tail(c), k, sv)
         /\ Head(c) = "tool" => k = "research"
<1>1. /\ Tail(c) \in Seq(AgentCalls) /\ Range(c) = Range(Tail(c)) \cup {Head(c)}
  BY Shortened DEF CallsLeft
<1>2. Times(c, "think") \in Nat /\ Times(Tail(c), "think") \in Nat /\ Times(Tail(c), "think") <= Times(c, "think")
  BY TimesTail DEF CallsLeft
<1>3. Times(Calls(k), "think") \in Nat
  BY CallsAre
<1>4. Times(Tail(c), "think") <= Times(Calls(k), "think")
  BY <1>2, <1>3 DEF CallsLeft
<1> QED
  BY <1>1, <1>4 DEF CallsLeft

(***************************************************************************)
(* A workflow, whatever the others do: the tasks of a chain fail from the  *)
(* first that fails, one that runs has its dependency, and an agent that   *)
(* has no service does not come to its end.                                *)
(***************************************************************************)
WorkFields == {"plan", "id", "task", "at", "calls", "results", "tasks"}

KindAt(q, i) == PlanTasks(q.plan)[i].kind

ResultsOK(q, sv) ==
  /\ q.plan \in {"intelligence", "market", "client"}
  /\ q.results \in Seq(BOOLEAN) /\ q.task = Len(q.results) + 1
  /\ sv = {} => \A i \in DOMAIN q.results : KindAt(q, i) \in NeedsService => ~q.results[i]

RunsOK(q, sv) ==
  q.at = "running" =>
    /\ q.task \in DOMAIN PlanTasks(q.plan) /\ KindAt(q, q.task) \in Kinds
    /\ CallsLeft(q.calls, KindAt(q, q.task), sv)

ChainOK(q) ==
  q.plan # "client" =>
    /\ DOMAIN q.tasks = DOMAIN PlanTasks(q.plan)
    /\ \A i \in DOMAIN q.results : /\ i \in DOMAIN PlanTasks(q.plan)
                                   /\ q.tasks[i] = IF q.results[i] THEN "completed" ELSE "failed"
    /\ \A i \in 2..Len(q.results) : q.results[i] => q.results[i - 1]
    /\ q.at = "running" /\ q.task > 1 => q.results[q.task - 1]

WorkOK(q, sv) == DOMAIN q = WorkFields /\ ResultsOK(q, sv) /\ RunsOK(q, sv) /\ ChainOK(q)

(* A client's task that waits for one that comes after it, or for itself.  *)
Forward(i) == \E d \in ClientTasks[i].deps : d \in i..Len(ClientTasks)

Sole(w) == workflow[w].plan = "client" /\ \A v \in DOMAIN workflow \ {w} : workflow[v].plan # "client"

ForwardOK(q, marked) ==
  /\ \A d \in DOMAIN ClientTasks : d >= q.task => marked[d] # "completed"
  /\ \A i \in DOMAIN q.results : Forward(i) => ~q.results[i]
  /\ q.at = "running" => ~Forward(q.task)

WorkflowsInv ==
  /\ \E W : workflow \in Seq(W)
  /\ \A w \in DOMAIN workflow : WorkOK(workflow[w], served)
  /\ DOMAIN clientTask = DOMAIN ClientTasks
  /\ (\A w \in DOMAIN workflow : workflow[w].plan # "client") =>
       \A i \in DOMAIN ClientTasks : clientTask[i] = "pending"
  /\ \A w \in DOMAIN workflow : Sole(w) => ForwardOK(workflow[w], clientTask)
  /\ \A i \in DOMAIN finished : /\ finished[i] \in DOMAIN workflow
                                /\ workflow[finished[i]].at = "completed" /\ workflow[finished[i]].id = i

LEMMA WorkflowsStart == WorkflowsInit => WorkflowsInv
<1> SUFFICES ASSUME WorkflowsInit PROVE WorkflowsInv
  OBVIOUS
<1>1. workflow = <<>> /\ finished = <<>> /\ clientTask = [i \in DOMAIN ClientTasks |-> "pending"]
  BY DEF WorkflowsInit
<1>2. <<>> \in Seq({}) /\ DOMAIN <<>> = {}
  OBVIOUS
<1> QED
  BY <1>1, <1>2 DEF WorkflowsInv

LEMMA TurnsTo ==
  ASSUME NEW w \in DOMAIN workflow, NEW after, NEW marked, Turns(w, after, marked), DOMAIN after = WorkFields,
         after.plan = workflow[w].plan
  PROVE  \E q : /\ workflow' = [workflow EXCEPT ![w] = q] /\ DOMAIN q = WorkFields
                /\ q.plan = after.plan /\ q.id = after.id /\ q.task = after.task /\ q.at = after.at
                /\ q.calls = after.calls /\ q.results = after.results
                /\ q.plan = "client" => clientTask' = [clientTask EXCEPT ![workflow[w].task] = marked]
                /\ q.plan # "client" => /\ clientTask' = clientTask
                                        /\ q.tasks = [after.tasks EXCEPT ![workflow[w].task] = marked]
<1>1. PICK i : i = workflow[w].task
  OBVIOUS
<1>2. CASE workflow[w].plan = "client"
  <2>1. /\ clientTask' = [clientTask EXCEPT ![i] = marked]
        /\ workflow' = [workflow EXCEPT ![w] = after]
    BY <1>1, <1>2 DEF Turns
  <2> QED
    BY <1>1, <1>2, <2>1
<1>3. CASE workflow[w].plan # "client"
  <2>1. PICK t, q : t = [after.tasks EXCEPT ![i] = marked] /\ q = [after EXCEPT !.tasks = t]
    OBVIOUS
  <2>2. workflow' = [workflow EXCEPT ![w] = q] /\ clientTask' = clientTask
    BY <1>1, <1>3, <2>1 DEF Turns
  <2>3. /\ DOMAIN q = WorkFields /\ q.plan = after.plan /\ q.id = after.id /\ q.task = after.task /\ q.at = after.at
        /\ q.calls = after.calls /\ q.results = after.results /\ q.tasks = t
    BY <2>1 DEF WorkFields
  <2> QED
    BY <1>1, <1>3, <2>1, <2>2, <2>3
<1> QED
  BY <1>2, <1>3

LEMMA WorkTurn ==
  ASSUME WorkflowsInv, NEW w \in DOMAIN workflow, NEW q, workflow' = [workflow EXCEPT ![w] = q],
         served' = served, WorkOK(q, served), q.plan = workflow[w].plan, q.id = workflow[w].id,
         workflow[w].at # "completed", DOMAIN clientTask' = DOMAIN clientTask,
         q.plan # "client" => clientTask' = clientTask,
         Sole(w) => ForwardOK(q, clientTask'),
         \A i \in DOMAIN finished' : \/ i \in DOMAIN finished /\ finished'[i] = finished[i]
                                     \/ finished'[i] = w /\ q.at = "completed" /\ i = q.id
  PROVE  WorkflowsInv'
<1>1. PICK W, V : workflow \in Seq(W) /\ V = W \cup {q}
  BY DEF WorkflowsInv
<1>2. workflow' \in Seq(V)
  BY <1>1
<1>3. DOMAIN workflow' = DOMAIN workflow /\ workflow'[w] = q /\ \A v \in DOMAIN workflow : v # w => workflow'[v] = workflow[v]
  OBVIOUS
<1>4. \A v \in DOMAIN workflow : WorkOK(workflow'[v], served)
  BY <1>3 DEF WorkflowsInv
<1>5. \A v \in DOMAIN workflow : workflow'[v].plan = workflow[v].plan
  BY <1>3
<1>6. ASSUME \A v \in DOMAIN workflow : workflow'[v].plan # "client", NEW i \in DOMAIN ClientTasks
      PROVE  clientTask'[i] = "pending"
  <2>1. clientTask' = clientTask
    BY <1>3, <1>6
  <2> QED
    BY <1>5, <1>6, <2>1 DEF WorkflowsInv
<1>7. ASSUME NEW v \in DOMAIN workflow, workflow'[v].plan = "client",
             \A u \in DOMAIN workflow \ {v} : workflow'[u].plan # "client"
      PROVE  ForwardOK(workflow'[v], clientTask')
  <2>1. Sole(v)
    BY <1>5, <1>7 DEF Sole
  <2>2. CASE v = w
    BY <1>3, <2>1, <2>2
  <2>3. CASE v # w
    <3>1. clientTask' = clientTask /\ workflow'[v] = workflow[v]
      BY <1>3, <1>7, <2>3
    <3> QED
      BY <2>1, <3>1 DEF WorkflowsInv
  <2> QED
    BY <2>2, <2>3
<1>8. \A i \in DOMAIN finished' : /\ finished'[i] \in DOMAIN workflow
                                  /\ workflow'[finished'[i]].at = "completed" /\ workflow'[finished'[i]].id = i
  <2>1. SUFFICES ASSUME NEW i \in DOMAIN finished'
                 PROVE  /\ finished'[i] \in DOMAIN workflow
                        /\ workflow'[finished'[i]].at = "completed" /\ workflow'[finished'[i]].id = i
    OBVIOUS
  <2>2. CASE i \in DOMAIN finished /\ finished'[i] = finished[i]
    <3>1. /\ finished[i] \in DOMAIN workflow /\ workflow[finished[i]].at = "completed" /\ workflow[finished[i]].id = i
      BY <2>2 DEF WorkflowsInv
    <3>2. finished[i] # w
      BY <3>1
    <3> QED
      BY <1>3, <2>2, <3>1, <3>2
  <2>3. CASE finished'[i] = w /\ q.at = "completed" /\ i = q.id
    BY <1>3, <2>3
  <2> QED
    BY <2>2, <2>3
<1>9. /\ (\A v \in DOMAIN workflow' : workflow'[v].plan # "client") =>
           \A i \in DOMAIN ClientTasks : clientTask'[i] = "pending"
      /\ \A v \in DOMAIN workflow' : Sole(v)' => ForwardOK(workflow'[v], clientTask')
  BY <1>3, <1>6, <1>7 DEF Sole
<1> QED
  BY <1>2, <1>3, <1>4, <1>8, <1>9 DEF WorkflowsInv

(* A task gets its result, and the next one is in turn.                    *)
LEMMA Settles ==
  ASSUME WorkflowsInv, NEW w \in DOMAIN workflow, NEW ok, ok \in BOOLEAN, Resulted(w, ok),
         served' = served, finished' = finished, workflow[w].task \in DOMAIN PlanTasks(workflow[w].plan),
         workflow[w].at \in {"between", "running"}, ok => workflow[w].at = "running" /\ workflow[w].calls = <<>>
  PROVE  WorkflowsInv' /\ \E q : workflow' = [workflow EXCEPT ![w] = q] /\ q.at = "between"
<1>1. PICK p, n, B : p = workflow[w] /\ n = Len(p.results) /\ B = BOOLEAN
  OBVIOUS
<1>2. WorkOK(p, served)
  BY <1>1 DEF WorkflowsInv
<1>3. p.results \in Seq(B) /\ n \in Nat /\ p.task = n + 1 /\ DOMAIN p.results = 1..n /\ ok \in B
  BY <1>1, <1>2, ListDomain DEF WorkOK, ResultsOK
<1>4. PICK after, r : after = [p EXCEPT !.results = r, !.task = p.task + 1, !.at = "between"] /\ r = Append(p.results, ok)
  OBVIOUS
<1>5. Turns(w, after, IF ok THEN "completed" ELSE "failed")
  BY <1>1, <1>4 DEF Resulted
<1>6. /\ DOMAIN after = WorkFields /\ after.plan = p.plan /\ after.id = p.id /\ after.task = p.task + 1
      /\ after.at = "between" /\ after.results = r /\ after.tasks = p.tasks
  BY <1>2, <1>4 DEF WorkOK, WorkFields
<1>7. PICK st : st = IF ok THEN "completed" ELSE "failed"
  OBVIOUS
<1>8. PICK q : /\ workflow' = [workflow EXCEPT ![w] = q] /\ DOMAIN q = WorkFields
               /\ q.plan = p.plan /\ q.id = p.id /\ q.task = p.task + 1 /\ q.at = "between" /\ q.results = r
               /\ q.plan = "client" => clientTask' = [clientTask EXCEPT ![p.task] = st]
               /\ q.plan # "client" => /\ clientTask' = clientTask
                                       /\ q.tasks = [p.tasks EXCEPT ![p.task] = st]
  BY <1>1, <1>5, <1>6, <1>7, TurnsTo
<1>9. /\ r \in Seq(B) /\ Len(r) = n + 1 /\ DOMAIN r = 1..(n + 1) /\ r[n + 1] = ok
      /\ \A i \in 1..n : r[i] = p.results[i]
  BY <1>1, <1>3, <1>4, Appended
<1>10. /\ ok => p.at = "running" /\ p.calls = <<>> /\ ~(served = {} /\ KindAt(p, p.task) \in NeedsService)
       /\ ok /\ p.plan # "client" /\ n > 0 => p.results[n]
  <2>1. SUFFICES ASSUME ok
                 PROVE  /\ p.at = "running" /\ p.calls = <<>> /\ ~(served = {} /\ KindAt(p, p.task) \in NeedsService)
                        /\ p.plan # "client" /\ n > 0 => p.results[n]
    OBVIOUS
  <2>2. p.at = "running" /\ p.calls = <<>>
    BY <1>1, <2>1
  <2>3. CallsLeft(p.calls, KindAt(p, p.task), served)
    BY <1>2, <2>2 DEF WorkOK, RunsOK
  <2>4. Range(<<>>) = {}
    BY DEF Range
  <2>5. ~(served = {} /\ KindAt(p, p.task) \in NeedsService)
    BY <2>2, <2>3, <2>4 DEF CallsLeft
  <2>6. p.plan # "client" /\ n > 0 => p.results[n]
    <3>1. n > 0 => p.task > 1 /\ p.task - 1 = n
      BY <1>3
    <3> QED
      BY <1>2, <2>2, <3>1 DEF WorkOK, ChainOK
  <2> QED
    BY <2>2, <2>5, <2>6
<1>11. ResultsOK(q, served)
  <2>1. ASSUME served = {}, NEW i \in DOMAIN r, KindAt(q, i) \in NeedsService PROVE ~r[i]
    <3>1. i \in 1..n \/ i = n + 1
      BY <1>3, <1>9
    <3>2. KindAt(q, i) = KindAt(p, i)
      BY <1>8 DEF KindAt
    <3>3. CASE i \in 1..n
      BY <1>2, <1>3, <1>9, <2>1, <3>2, <3>3 DEF WorkOK, ResultsOK
    <3>4. CASE i = n + 1
      BY <1>3, <1>9, <1>10, <2>1, <3>2, <3>4
    <3> QED
      BY <3>1, <3>3, <3>4
  <2>2. q.plan \in {"intelligence", "market", "client"} /\ q.results \in Seq(BOOLEAN) /\ q.task = Len(q.results) + 1
    BY <1>1, <1>2, <1>3, <1>8, <1>9 DEF WorkOK, ResultsOK
  <2> QED
    BY <1>8, <2>1, <2>2 DEF ResultsOK
<1>12. ChainOK(q)
  <2>1. SUFFICES ASSUME q.plan # "client"
                 PROVE  /\ DOMAIN q.tasks = DOMAIN PlanTasks(q.plan)
                        /\ \A i \in DOMAIN r : /\ i \in DOMAIN PlanTasks(q.plan)
                                               /\ q.tasks[i] = IF r[i] THEN "completed" ELSE "failed"
                        /\ \A i \in 2..Len(r) : r[i] => r[i - 1]
    BY <1>8 DEF ChainOK
  <2>2. /\ DOMAIN p.tasks = DOMAIN PlanTasks(q.plan)
        /\ \A i \in 1..n : /\ i \in DOMAIN PlanTasks(q.plan)
                           /\ p.tasks[i] = IF p.results[i] THEN "completed" ELSE "failed"
        /\ \A i \in 2..n : p.results[i] => p.results[i - 1]
    BY <1>1, <1>2, <1>3, <1>8, <2>1 DEF WorkOK, ChainOK
  <2>3. /\ DOMAIN q.tasks = DOMAIN p.tasks /\ q.tasks[n + 1] = st /\ n + 1 \in DOMAIN PlanTasks(q.plan)
        /\ \A i \in 1..n : q.tasks[i] = p.tasks[i]
    BY <1>1, <1>3, <1>8, <2>1, <2>2
  <2>4. ASSUME NEW i \in DOMAIN r
        PROVE  i \in DOMAIN PlanTasks(q.plan) /\ q.tasks[i] = IF r[i] THEN "completed" ELSE "failed"
    <3>1. i \in 1..n \/ i = n + 1
      BY <1>3, <1>9
    <3> QED
      BY <1>7, <1>9, <2>2, <2>3, <3>1
  <2>5. ASSUME NEW i \in 2..Len(r), r[i] PROVE r[i - 1]
    <3>1. (i \in 2..n \/ i = n + 1) /\ i - 1 \in 1..n /\ i \in 1..(n + 1)
      BY <1>3, <1>9
    <3>2. CASE i \in 2..n
      <4>1. i \in 1..n
        BY <1>3, <3>2
      <4> QED
        BY <1>9, <2>2, <2>5, <3>1, <3>2, <4>1
    <3>3. CASE i = n + 1
      <4>1. ok /\ i - 1 = n /\ n > 0
        BY <1>3, <1>9, <2>5, <3>1, <3>3
      <4> QED
        BY <1>8, <1>9, <1>10, <2>1, <3>1, <4>1
    <3> QED
      BY <3>1, <3>2, <3>3
  <2> QED
    BY <2>2, <2>3, <2>4, <2>5
<1>13. WorkOK(q, served)
  BY <1>8, <1>11, <1>12 DEF WorkOK, RunsOK
<1>14. ASSUME Sole(w) PROVE ForwardOK(q, clientTask')
  <2>1. p.plan = "client" /\ ForwardOK(p, clientTask) /\ q.plan = "client"
    BY <1>1, <1>8, <1>14 DEF Sole, WorkflowsInv
  <2>2. clientTask' = [clientTask EXCEPT ![p.task] = st] /\ DOMAIN clientTask = DOMAIN ClientTasks
    BY <1>8, <2>1 DEF WorkflowsInv
  <2>3. ASSUME NEW d \in DOMAIN ClientTasks, d >= q.task PROVE clientTask'[d] # "completed"
    <3>1. d \in Nat
      BY WorkflowsAssumption
    <3>2. d >= p.task /\ d # p.task
      BY <1>3, <1>8, <2>3, <3>1
    <3> QED
      BY <2>1, <2>2, <3>2 DEF ForwardOK
  <2>4. ASSUME NEW i \in DOMAIN r, Forward(i) PROVE ~r[i]
    <3>1. i \in 1..n \/ i = n + 1
      BY <1>3, <1>9
    <3>2. CASE i \in 1..n
      BY <1>3, <1>9, <2>1, <2>4, <3>2 DEF ForwardOK
    <3>3. CASE i = n + 1
      BY <1>3, <1>9, <1>10, <2>1, <2>4, <3>3 DEF ForwardOK
    <3> QED
      BY <3>1, <3>2, <3>3
  <2> QED
    BY <1>8, <2>3, <2>4 DEF ForwardOK
<1>15. DOMAIN clientTask' = DOMAIN clientTask /\ (q.plan # "client" => clientTask' = clientTask)
  BY <1>8
<1>16. q.plan = workflow[w].plan /\ q.id = workflow[w].id /\ workflow[w].at # "completed"
  BY <1>1, <1>8
<1>17. WorkflowsInv'
  BY <1>8, <1>13, <1>14, <1>15, <1>16, WorkTurn
<1> QED
  BY <1>8, <1>17

LEMMA InTurnIs ==
  ASSUME WorkflowsInv, NEW w \in DOMAIN workflow, InTurn(w)
  PROVE  /\ workflow[w].task \in DOMAIN PlanTasks(workflow[w].plan) /\ Tasks(w) = PlanTasks(workflow[w].plan)
         /\ TaskInTurn(w) = PlanTasks(workflow[w].plan)[workflow[w].task]
<1>1. WorkOK(workflow[w], served)
  BY DEF WorkflowsInv
<1>2. Tasks(w) = PlanTasks(workflow[w].plan) /\ workflow[w].task \in Nat \ {0}
  <2>1. workflow[w].plan \in {"intelligence", "market", "client"}
    BY <1>1 DEF WorkOK, ResultsOK
  <2>2. Len(workflow[w].results) \in Nat
    BY <1>1 DEF WorkOK, ResultsOK
  <2> QED
    BY <1>1, <2>1, <2>2, TasksIs DEF WorkOK, ResultsOK
<1>3. PICK t : t = Tasks(w)
  OBVIOUS
<1>4. t \in Seq(Range(t))
  BY <1>2, <1>3, PlansAre, WorkflowsAssumption DEF PlanTasks
<1>5. DOMAIN t = 1..Len(t) /\ Len(t) \in Nat
  BY <1>4, ListDomain
<1> QED
  BY <1>2, <1>3, <1>5 DEF InTurn, TaskInTurn

LEMMA AgentIs ==
  ASSUME WorkflowsInv, NEW w \in DOMAIN workflow, Running(w)
  PROVE  /\ workflow[w].task \in DOMAIN PlanTasks(workflow[w].plan) /\ Agent(w) \in Kinds
         /\ Agent(w) = KindAt(workflow[w], workflow[w].task)
         /\ CallsLeft(workflow[w].calls, Agent(w), served)
<1>1. WorkOK(workflow[w], served)
  BY DEF WorkflowsInv
<1>2. Tasks(w) = PlanTasks(workflow[w].plan)
  BY <1>1, TasksIs DEF WorkOK, ResultsOK
<1> QED
  BY <1>1, <1>2 DEF WorkOK, RunsOK, Running, Agent, TaskInTurn, KindAt

LEMMA SkipKeeps ==
  ASSUME WorkflowsInv, NEW w \in DOMAIN workflow, SkipTask(w)
  PROVE  WorkflowsInv' /\ \E q : workflow' = [workflow EXCEPT ![w] = q] /\ q.at = "between"
<1>1. PICK ok : ~ok /\ ok \in BOOLEAN /\ Resulted(w, ok)
  BY DEF SkipTask
<1>2. served' = served /\ finished' = finished /\ workflow[w].at = "between"
  BY DEF SkipTask, InTurn
<1>3. workflow[w].task \in DOMAIN PlanTasks(workflow[w].plan)
  BY InTurnIs DEF SkipTask
<1> QED
  BY <1>1, <1>2, <1>3, Settles

LEMMA RunKeeps ==
  ASSUME WorkflowsInv, NEW w \in DOMAIN workflow, RunTask(w)
  PROVE  /\ WorkflowsInv'
         /\ \E q : /\ workflow' = [workflow EXCEPT ![w] = q] /\ q.at = "running" /\ q.plan = workflow[w].plan
                   /\ q.task = workflow[w].task /\ q.calls = Calls(KindAt(workflow[w], workflow[w].task))
<1>1. PICK p, n, k : p = workflow[w] /\ n = Len(p.results) /\ k = KindAt(p, p.task)
  OBVIOUS
<1>2. WorkOK(p, served) /\ InTurn(w) /\ p.at = "between"
  BY <1>1 DEF WorkflowsInv, RunTask, InTurn
<1>3. n \in Nat /\ p.task = n + 1 /\ DOMAIN p.results = 1..n
  BY <1>1, <1>2, ListDomain DEF WorkOK, ResultsOK
<1>4. /\ p.task \in DOMAIN PlanTasks(p.plan) /\ Tasks(w) = PlanTasks(p.plan) /\ TaskInTurn(w) = PlanTasks(p.plan)[p.task]
      /\ TaskInTurn(w).kind = k /\ k \in Kinds
  BY <1>1, <1>2, InTurnIs DEF RunTask, KindAt
<1>5. PICK after : after = [p EXCEPT !.at = "running", !.calls = Calls(k)]
  OBVIOUS
<1>6. Turns(w, after, "running") /\ served' = served /\ finished' = finished
  BY <1>1, <1>4, <1>5 DEF RunTask
<1>7. /\ DOMAIN after = WorkFields /\ after.plan = p.plan /\ after.id = p.id /\ after.task = p.task
      /\ after.at = "running" /\ after.results = p.results /\ after.tasks = p.tasks /\ after.calls = Calls(k)
  BY <1>2, <1>5 DEF WorkOK, WorkFields
<1>8. PICK q : /\ workflow' = [workflow EXCEPT ![w] = q] /\ DOMAIN q = WorkFields
               /\ q.plan = p.plan /\ q.id = p.id /\ q.task = p.task /\ q.at = "running" /\ q.results = p.results
               /\ q.calls = Calls(k)
               /\ q.plan = "client" => clientTask' = [clientTask EXCEPT ![p.task] = "running"]
               /\ q.plan # "client" => /\ clientTask' = clientTask
                                       /\ q.tasks = [p.tasks EXCEPT ![p.task] = "running"]
  BY <1>1, <1>6, <1>7, TurnsTo
<1>9. KindAt(q, q.task) = k /\ \A i : KindAt(q, i) = KindAt(p, i)
  BY <1>1, <1>8 DEF KindAt
<1>10. ResultsOK(q, served)
  BY <1>2, <1>8, <1>9 DEF WorkOK, ResultsOK
<1>11. RunsOK(q, served)
  <2>1. CallsLeft(Calls(k), k, served)
    BY <1>4, CallsAre
  <2> QED
    BY <1>4, <1>8, <1>9, <2>1 DEF RunsOK
<1>12. ChainOK(q)
  <2>1. SUFFICES ASSUME q.plan # "client"
                 PROVE  /\ DOMAIN q.tasks = DOMAIN PlanTasks(q.plan)
                        /\ \A i \in DOMAIN q.results : /\ i \in DOMAIN PlanTasks(q.plan)
                                                       /\ q.tasks[i] = IF q.results[i] THEN "completed" ELSE "failed"
                        /\ \A i \in 2..Len(q.results) : q.results[i] => q.results[i - 1]
                        /\ q.task > 1 => q.results[q.task - 1]
    BY DEF ChainOK
  <2>2. /\ DOMAIN p.tasks = DOMAIN PlanTasks(q.plan)
        /\ \A i \in 1..n : /\ i \in DOMAIN PlanTasks(q.plan)
                           /\ p.tasks[i] = IF p.results[i] THEN "completed" ELSE "failed"
        /\ \A i \in 2..n : p.results[i] => p.results[i - 1]
    BY <1>1, <1>2, <1>3, <1>8, <2>1 DEF WorkOK, ChainOK
  <2>3. DOMAIN q.tasks = DOMAIN p.tasks /\ \A i \in 1..n : q.tasks[i] = p.tasks[i]
    BY <1>3, <1>8, <2>1, <2>2
  <2>4. ASSUME q.task > 1 PROVE q.results[q.task - 1]
    <3>1. n \in 1..n /\ p.task - 1 = n /\ n + 1 # 1
      BY <1>3, <1>8, <2>4
    <3>2. PlanTasks(p.plan)[n + 1].deps = {n}
      <4>1. PlanTasks(p.plan) \in {IntelligencePlan, MarketPlan}
        BY <1>2, <1>8, <2>1 DEF PlanTasks, WorkOK, ResultsOK
      <4>2. CASE PlanTasks(p.plan) = IntelligencePlan
        <5>1. n + 1 \in 1..5 /\ (n + 1) - 1 = n
          BY <1>3, <1>4, <4>2, PlansAre
        <5> QED
          BY <3>1, <4>2, <5>1, PlansAre
      <4>3. CASE PlanTasks(p.plan) = MarketPlan
        <5>1. n + 1 \in 1..4 /\ (n + 1) - 1 = n
          BY <1>3, <1>4, <4>3, PlansAre
        <5> QED
          BY <3>1, <4>3, <5>1, PlansAre
      <4> QED
        BY <4>1, <4>2, <4>3
    <3>3. n \in DOMAIN Tasks(w)
      BY <1>4, <1>8, <2>2, <3>1
    <3>4. StatusOf(w, n) = "completed"
      BY <1>3, <1>4, <3>2, <3>3 DEF RunTask, Met
    <3>5. p.tasks[n] = "completed"
      BY <1>1, <1>8, <2>1, <3>4 DEF StatusOf
    <3>6. p.results[n]
      BY <2>2, <3>1, <3>5
    <3> QED
      BY <1>8, <3>1, <3>6
  <2> QED
    BY <1>1, <1>3, <1>8, <2>2, <2>3, <2>4
<1>13. WorkOK(q, served)
  BY <1>8, <1>10, <1>11, <1>12 DEF WorkOK
<1>14. ASSUME Sole(w) PROVE ForwardOK(q, clientTask')
  <2>1. p.plan = "client" /\ ForwardOK(p, clientTask) /\ q.plan = "client"
    BY <1>1, <1>8, <1>14 DEF Sole, WorkflowsInv
  <2>2. clientTask' = [clientTask EXCEPT ![p.task] = "running"] /\ DOMAIN clientTask = DOMAIN ClientTasks
    BY <1>8, <2>1 DEF WorkflowsInv
  <2>3. ASSUME NEW d \in DOMAIN ClientTasks, d >= q.task PROVE clientTask'[d] # "completed"
    BY <1>8, <2>1, <2>2, <2>3 DEF ForwardOK
  <2>4. ASSUME Forward(p.task) PROVE FALSE
    <3>1. PICK d \in ClientTasks[p.task].deps : d \in (p.task)..Len(ClientTasks)
      BY <2>4 DEF Forward
    <3>2. DOMAIN ClientTasks = 1..Len(ClientTasks) /\ Len(ClientTasks) \in Nat
      BY ListDomain, WorkflowsAssumption
    <3>3. d \in DOMAIN ClientTasks /\ d >= p.task
      BY <1>3, <3>1, <3>2
    <3>4. Tasks(w) = ClientTasks
      BY <1>4, <2>1 DEF PlanTasks
    <3>5. StatusOf(w, d) = "completed"
      BY <1>4, <3>1, <3>3, <3>4 DEF RunTask, Met
    <3> QED
      BY <1>1, <2>1, <3>3, <3>5 DEF StatusOf, ForwardOK
  <2> QED
    BY <1>8, <2>1, <2>3, <2>4 DEF ForwardOK
<1>15. DOMAIN clientTask' = DOMAIN clientTask /\ (q.plan # "client" => clientTask' = clientTask)
  BY <1>8
<1>16. q.plan = workflow[w].plan /\ q.id = workflow[w].id /\ workflow[w].at # "completed"
  BY <1>1, <1>2, <1>8
<1>17. WorkflowsInv'
  BY <1>6, <1>8, <1>13, <1>14, <1>15, <1>16, WorkTurn
<1> QED
  BY <1>1, <1>8, <1>17

(* A call less, nothing else.                                              *)
LEMMA CallKeeps ==
  ASSUME WorkflowsInv, NEW w \in DOMAIN workflow, Running(w), workflow[w].calls # <<>>,
         Head(workflow[w].calls) = "service" => Agent(w) \in served,
         workflow' = [workflow EXCEPT ![w].calls = Tail(@)],
         served' = served, finished' = finished, clientTask' = clientTask
  PROVE  /\ WorkflowsInv'
         /\ \E q : /\ workflow' = [workflow EXCEPT ![w] = q] /\ q.at = "running" /\ q.plan = workflow[w].plan
                   /\ q.task = workflow[w].task /\ q.calls = Tail(workflow[w].calls)
<1>1. PICK p, q : p = workflow[w] /\ q = [p EXCEPT !.calls = Tail(p.calls)]
  OBVIOUS
<1>2. WorkOK(p, served) /\ p.at = "running" /\ p.calls # <<>>
  BY <1>1 DEF WorkflowsInv, Running
<1>3. workflow' = [workflow EXCEPT ![w] = q]
  BY <1>1
<1>4. /\ DOMAIN q = WorkFields /\ q.plan = p.plan /\ q.id = p.id /\ q.task = p.task
      /\ q.at = "running" /\ q.results = p.results /\ q.tasks = p.tasks /\ q.calls = Tail(p.calls)
  BY <1>1, <1>2 DEF WorkOK, WorkFields
<1>5. \A i : KindAt(q, i) = KindAt(p, i)
  BY <1>4 DEF KindAt
<1>6. ResultsOK(q, served) /\ ChainOK(q)
  BY <1>2, <1>4, <1>5 DEF WorkOK, ResultsOK, ChainOK
<1>7. RunsOK(q, served)
  <2>1. PICK k : k = KindAt(p, p.task)
    OBVIOUS
  <2>2. p.task \in DOMAIN PlanTasks(p.plan) /\ k \in Kinds /\ CallsLeft(p.calls, k, served) /\ k = Agent(w)
    BY <1>1, <2>1, AgentIs
  <2>3. CallsLeft(Tail(p.calls), k, served)
    <3>1. Head(p.calls) = "service" => served # {}
      BY <1>1, <2>2
    <3> QED
      BY <1>2, <2>2, <3>1, CallsTail
  <2> QED
    BY <1>4, <1>5, <2>1, <2>2, <2>3 DEF RunsOK
<1>8. Sole(w) => ForwardOK(q, clientTask')
  <2>1. Sole(w) => ForwardOK(p, clientTask)
    BY <1>1 DEF WorkflowsInv
  <2> QED
    BY <1>2, <1>4, <2>1 DEF ForwardOK
<1>9. WorkOK(q, served) /\ q.plan = workflow[w].plan /\ q.id = workflow[w].id /\ workflow[w].at # "completed"
  BY <1>1, <1>2, <1>4, <1>6, <1>7 DEF WorkOK
<1>10. WorkflowsInv'
  BY <1>3, <1>8, <1>9, WorkTurn
<1> QED
  BY <1>1, <1>3, <1>4, <1>10

LEMMA AnswerKeeps ==
  ASSUME WorkflowsInv, NEW w \in DOMAIN workflow, CallAnswers(w)
  PROVE  /\ WorkflowsInv'
         /\ \E q : /\ workflow' = [workflow EXCEPT ![w] = q] /\ q.at = "running" /\ q.plan = workflow[w].plan
                   /\ q.task = workflow[w].task /\ q.calls = Tail(workflow[w].calls)
BY CallKeeps DEF CallAnswers

LEMMA RaiseKeeps ==
  ASSUME WorkflowsInv, NEW w \in DOMAIN workflow, CallRaises(w)
  PROVE  /\ WorkflowsInv'
         /\ \E q : /\ workflow' = [workflow EXCEPT ![w] = q]
                   /\ \/ q.at = "between"
                      \/ /\ q.at = "running" /\ q.plan = workflow[w].plan /\ q.task = workflow[w].task
                         /\ q.calls = Tail(workflow[w].calls) /\ Head(workflow[w].calls) = "tool"
<1>1. Running(w) /\ workflow[w].calls # <<>> /\ served' = served /\ finished' = finished
  BY DEF CallRaises
<1>2. CASE Head(workflow[w].calls) = "tool"
  <2>1. workflow' = [workflow EXCEPT ![w].calls = Tail(@)] /\ clientTask' = clientTask
    BY <1>2 DEF CallRaises
  <2> QED
    BY <1>1, <1>2, <2>1, CallKeeps
<1>3. CASE Head(workflow[w].calls) # "tool"
  <2>1. PICK ok : ~ok /\ ok \in BOOLEAN /\ Resulted(w, ok)
    BY <1>3 DEF CallRaises
  <2>2. workflow[w].task \in DOMAIN PlanTasks(workflow[w].plan) /\ workflow[w].at = "running"
    BY <1>1, AgentIs DEF Running
  <2> QED
    BY <1>1, <2>1, <2>2, Settles
<1> QED
  BY <1>2, <1>3

LEMMA SucceedKeeps ==
  ASSUME WorkflowsInv, NEW w \in DOMAIN workflow, AgentSucceeds(w)
  PROVE  WorkflowsInv' /\ \E q : workflow' = [workflow EXCEPT ![w] = q] /\ q.at = "between"
<1>1. Running(w) /\ workflow[w].calls = <<>> /\ served' = served /\ finished' = finished
  BY DEF AgentSucceeds
<1>2. PICK ok : ok /\ ok \in BOOLEAN /\ Resulted(w, ok)
  BY DEF AgentSucceeds
<1>3. workflow[w].task \in DOMAIN PlanTasks(workflow[w].plan) /\ workflow[w].at = "running"
  BY <1>1, AgentIs DEF Running
<1> QED
  BY <1>1, <1>2, <1>3, Settles

(* A workflow ends or is cancelled: it only is at another place.           *)
LEMMA FinishKeeps ==
  ASSUME WorkflowsInv, NEW w \in DOMAIN workflow, NEW at \in {"completed", "cancelled"},
         workflow' = [workflow EXCEPT ![w].at = at], workflow[w].at # "completed",
         served' = served, clientTask' = clientTask,
         \A i \in DOMAIN finished' : \/ i \in DOMAIN finished /\ finished'[i] = finished[i]
                                     \/ finished'[i] = w /\ at = "completed" /\ i = workflow[w].id
  PROVE  WorkflowsInv' /\ \E q : workflow' = [workflow EXCEPT ![w] = q] /\ q.at = at
<1>1. PICK p, q : p = workflow[w] /\ q = [p EXCEPT !.at = at]
  OBVIOUS
<1>2. WorkOK(p, served)
  BY <1>1 DEF WorkflowsInv
<1>3. workflow' = [workflow EXCEPT ![w] = q]
  BY <1>1
<1>4. /\ DOMAIN q = WorkFields /\ q.plan = p.plan /\ q.id = p.id /\ q.task = p.task
      /\ q.at = at /\ q.results = p.results /\ q.tasks = p.tasks
  BY <1>1, <1>2 DEF WorkOK, WorkFields
<1>5. \A i : KindAt(q, i) = KindAt(p, i)
  BY <1>4 DEF KindAt
<1>6. WorkOK(q, served)
  BY <1>2, <1>4, <1>5 DEF WorkOK, ResultsOK, ChainOK, RunsOK
<1>7. Sole(w) => ForwardOK(q, clientTask')
  <2>1. Sole(w) => ForwardOK(p, clientTask)
    BY <1>1 DEF WorkflowsInv
  <2> QED
    BY <1>4, <2>1 DEF ForwardOK
<1>8. \A i \in DOMAIN finished' : \/ i \in DOMAIN finished /\ finished'[i] = finished[i]
                                  \/ finished'[i] = w /\ q.at = "completed" /\ i = q.id
  BY <1>1, <1>4
<1>9. q.plan = workflow[w].plan /\ q.id = workflow[w].id
  BY <1>1, <1>4
<1>10. WorkflowsInv'
  BY <1>3, <1>6, <1>7, <1>8, <1>9, WorkTurn
<1> QED
  BY <1>3, <1>4, <1>10

LEMMA StartKeeps ==
  ASSUME WorkflowsInv, NEW plan \in {"intelligence", "market", "client"}, NEW id, StartWorkflow(plan, id)
  PROVE  /\ WorkflowsInv'
         /\ \E q : workflow' = Append(workflow, q) /\ q.at = "between"
<1>1. PICK q, t : /\ t = IF plan = "client" THEN <<>>
                         ELSE [i \in 1..(IF plan = "market" THEN Len(MarketPlan) ELSE Len(IntelligencePlan)) |-> "pending"]
                  /\ q = [plan |-> plan, id |-> id, task |-> 1, at |-> "between", calls |-> <<>>, results |-> <<>>,
                          tasks |-> t]
  OBVIOUS
<1>2. workflow' = Append(workflow, q) /\ served' = served /\ clientTask' = clientTask /\ finished' = finished
  BY <1>1 DEF StartWorkflow
<1>3. /\ DOMAIN q = WorkFields /\ q.plan = plan /\ q.id = id /\ q.task = 1 /\ q.at = "between"
      /\ q.results = <<>> /\ q.tasks = t
  BY <1>1 DEF WorkFields
<1>4. <<>> \in Seq(BOOLEAN) /\ Len(<<>>) = 0 /\ DOMAIN <<>> = {}
  OBVIOUS
<1>5. plan # "client" => DOMAIN t = DOMAIN PlanTasks(plan)
  BY <1>1, PlansAre DEF PlanTasks
<1>6. WorkOK(q, served)
  BY <1>3, <1>4, <1>5 DEF WorkOK, ResultsOK, RunsOK, ChainOK
<1>7. PICK W, V, n : workflow \in Seq(W) /\ V = W \cup {q} /\ n = Len(workflow)
  BY DEF WorkflowsInv
<1>8. workflow \in Seq(V) /\ q \in V
  BY <1>7
<1>9. /\ workflow' \in Seq(V) /\ DOMAIN workflow' = 1..(n + 1) /\ DOMAIN workflow = 1..n /\ n \in Nat
      /\ (\A v \in 1..n : workflow'[v] = workflow[v]) /\ workflow'[n + 1] = q
  BY <1>2, <1>7, <1>8, Appended
<1>10. DOMAIN workflow \subseteq DOMAIN workflow' /\ \A v \in DOMAIN workflow' : v \in DOMAIN workflow \/ v = n + 1
  BY <1>9
<1>11. \A v \in DOMAIN workflow' : WorkOK(workflow'[v], served)
  BY <1>6, <1>9, <1>10 DEF WorkflowsInv
<1>12. ASSUME \A v \in DOMAIN workflow' : workflow'[v].plan # "client", NEW i \in DOMAIN ClientTasks
       PROVE  clientTask[i] = "pending"
  <2>1. \A v \in DOMAIN workflow : workflow[v].plan # "client"
    BY <1>9, <1>10, <1>12
  <2> QED
    BY <2>1 DEF WorkflowsInv
<1>13. ASSUME NEW v \in DOMAIN workflow', workflow'[v].plan = "client",
              \A u \in DOMAIN workflow' \ {v} : workflow'[u].plan # "client"
       PROVE  ForwardOK(workflow'[v], clientTask)
  <2>1. CASE v \in DOMAIN workflow
    <3>1. workflow'[v] = workflow[v]
      BY <1>9, <2>1
    <3>2. Sole(v)
      BY <1>9, <1>10, <1>13, <2>1 DEF Sole
    <3> QED
      BY <2>1, <3>1, <3>2 DEF WorkflowsInv
  <2>2. CASE v = n + 1
    <3>1. \A u \in DOMAIN workflow : u # n + 1 /\ workflow[u].plan # "client"
      BY <1>9, <1>10, <1>13, <2>2
    <3>2. \A i \in DOMAIN ClientTasks : clientTask[i] = "pending"
      BY <3>1 DEF WorkflowsInv
    <3> QED
      BY <1>3, <1>4, <1>9, <2>2, <3>2 DEF ForwardOK
  <2> QED
    BY <1>10, <2>1, <2>2
<1>14. \A i \in DOMAIN finished : /\ finished[i] \in DOMAIN workflow'
                                 /\ workflow'[finished[i]].at = "completed" /\ workflow'[finished[i]].id = i
  BY <1>9, <1>10 DEF WorkflowsInv
<1>15. /\ (\A v \in DOMAIN workflow' : workflow'[v].plan # "client") =>
            \A i \in DOMAIN ClientTasks : clientTask'[i] = "pending"
       /\ \A v \in DOMAIN workflow' : Sole(v)' => ForwardOK(workflow'[v], clientTask')
  BY <1>2, <1>12, <1>13 DEF Sole
<1>16. WorkflowsInv'
  BY <1>2, <1>9, <1>11, <1>14, <1>15 DEF WorkflowsInv
<1> QED
  BY <1>2, <1>3, <1>16

LEMMA WorkflowsSteps ==
  ASSUME WorkflowsInv, [WorkflowsNext]_workflowVars PROVE WorkflowsInv'
<1>1. CASE StartWorkflow("intelligence", "ci") \/ StartWorkflow("market", "market_2") \/ StartWorkflow("client", "own")
  BY <1>1, StartKeeps
<1>2. ASSUME NEW w \in DOMAIN workflow, WorkflowEnds(w) PROVE WorkflowsInv'
  <2>1. /\ workflow' = [workflow EXCEPT ![w].at = "completed"] /\ workflow[w].at # "completed"
        /\ served' = served /\ clientTask' = clientTask
        /\ finished' = [i \in DOMAIN finished \cup {workflow[w].id} |-> IF i = workflow[w].id THEN w ELSE finished[i]]
    BY <1>2 DEF WorkflowEnds
  <2>2. \A i \in DOMAIN finished' : \/ i \in DOMAIN finished /\ finished'[i] = finished[i]
                                    \/ finished'[i] = w /\ i = workflow[w].id
    BY <2>1
  <2> QED
    BY <2>1, <2>2, FinishKeeps
<1>3. ASSUME NEW w \in DOMAIN workflow, WorkflowCancelled(w) PROVE WorkflowsInv'
  <2>1. /\ workflow' = [workflow EXCEPT ![w].at = "cancelled"] /\ workflow[w].at # "completed"
        /\ served' = served /\ clientTask' = clientTask /\ finished' = finished
    BY <1>3 DEF WorkflowCancelled, Running
  <2> QED
    BY <2>1, FinishKeeps
<1>4. ASSUME NEW w \in DOMAIN workflow,
             SkipTask(w) \/ RunTask(w) \/ CallAnswers(w) \/ CallRaises(w) \/ AgentSucceeds(w)
      PROVE  WorkflowsInv'
  BY <1>4, SkipKeeps, RunKeeps, AnswerKeeps, RaiseKeeps, SucceedKeeps
<1>5. CASE UNCHANGED workflowVars
  <2>1. workflow' = workflow /\ served' = served /\ clientTask' = clientTask /\ finished' = finished
    BY <1>5 DEF workflowVars
  <2> QED
    BY <2>1 DEF WorkflowsInv, Sole
<1> QED
  BY <1>1, <1>2, <1>3, <1>4, <1>5 DEF WorkflowsNext

LEMMA FewSuccesses ==
  ASSUME NEW r \in Seq(BOOLEAN), NEW m \in {1, 2}, \A i \in DOMAIN r : r[i] => i <= m
  PROVE  Cardinality({i \in DOMAIN r : r[i]}) <= m
<1>1. {i \in DOMAIN r : r[i]} \in SUBSET (1..m)
  <2>1. DOMAIN r = 1..Len(r)
    BY ListDomain
  <2> QED
    BY <2>1
<1>2. IsFiniteSet(1..m) /\ Cardinality(1..m) = m
  BY FS_Interval
<1> QED
  BY <1>1, <1>2, FS_Subset

LEMMA WorkflowsHold ==
  ASSUME WorkflowsInv
  PROVE  /\ ChainsStop /\ ForwardFails
         /\ \A w \in DOMAIN workflow : Len(workflow[w].results) = workflow[w].task - 1
         /\ \A i \in DOMAIN finished : workflow[finished[i]].at = "completed" /\ workflow[finished[i]].id = i
<1>1. \A w \in DOMAIN workflow : WorkOK(workflow[w], served)
  BY DEF WorkflowsInv
<1>2. ASSUME NEW w \in DOMAIN workflow PROVE Len(workflow[w].results) = workflow[w].task - 1
  <2>1. Len(workflow[w].results) \in Nat
    BY <1>1, ListDomain DEF WorkOK, ResultsOK
  <2> QED
    BY <1>1, <2>1 DEF WorkOK, ResultsOK
<1>3. ForwardFails
  BY DEF WorkflowsInv, Sole, ForwardOK, Forward, ForwardFails
<1>4. ASSUME NEW w \in DOMAIN workflow, workflow[w].plan # "client", served = {}
      PROVE  Successes(w) <= IF workflow[w].plan = "market" THEN 2 ELSE 1
  <2>1. PICK q, r, m : q = workflow[w] /\ r = q.results /\ m = IF q.plan = "market" THEN 2 ELSE 1
    OBVIOUS
  <2>2. /\ r \in Seq(BOOLEAN) /\ (\A i \in DOMAIN r : KindAt(q, i) \in NeedsService => ~r[i])
        /\ (\A i \in DOMAIN r : i \in DOMAIN PlanTasks(q.plan)) /\ (\A i \in 2..Len(r) : r[i] => r[i - 1])
        /\ q.plan \in {"intelligence", "market"}
    BY <1>1, <1>4, <2>1 DEF WorkOK, ResultsOK, ChainOK
  <2>3. DOMAIN r = 1..Len(r) /\ Len(r) \in Nat
    BY <2>2, ListDomain
  <2>4. m \in {1, 2} /\ (m + 1 \in DOMAIN r => ~r[m + 1]) /\ \A i \in DOMAIN r : i <= 5
    <3>1. KindAt(q, m + 1) = "analysis" /\ DOMAIN PlanTasks(q.plan) \subseteq 1..5
      <4>1. CASE q.plan = "market"
        BY <2>1, <4>1, PlansAre DEF KindAt, PlanTasks
      <4>2. CASE q.plan = "intelligence"
        BY <2>1, <4>2, PlansAre DEF KindAt, PlanTasks
      <4> QED
        BY <2>2, <4>1, <4>2
    <3> QED
      BY <2>1, <2>2, <3>1 DEF NeedsService
  <2>5. ASSUME NEW i \in DOMAIN r, r[i] PROVE i <= m
    <3>1. \A j \in 2..Len(r) : j > m + 1 /\ r[j] => r[j - 1] /\ j - 1 \in DOMAIN r
      BY <2>2, <2>3, <2>4
    <3>2. ~(i = m + 1)
      BY <2>4, <2>5
    <3>3. ~(i = m + 2)
      BY <2>3, <2>4, <2>5, <3>1
    <3>4. ~(i = m + 3)
      <4>1. ASSUME i = m + 3 PROVE FALSE
        <5>1. i \in 2..Len(r) /\ i > m + 1 /\ i - 1 = m + 2 /\ m + 2 \in 2..Len(r) /\ m + 2 > m + 1 /\ (m + 2) - 1 = m + 1
          BY <2>3, <2>4, <2>5, <4>1
        <5> QED
          BY <2>4, <2>5, <3>1, <5>1
      <4> QED
        BY <4>1
    <3>5. ~(i = m + 4)
      <4>1. ASSUME i = m + 4 PROVE FALSE
        <5>1. /\ i \in 2..Len(r) /\ i > m + 1 /\ i - 1 = m + 3 /\ m + 3 \in 2..Len(r) /\ m + 3 > m + 1 /\ (m + 3) - 1 = m + 2
              /\ m + 2 \in 2..Len(r) /\ m + 2 > m + 1 /\ (m + 2) - 1 = m + 1
          BY <2>3, <2>4, <2>5, <4>1
        <5> QED
          BY <2>4, <2>5, <3>1, <5>1
      <4> QED
        BY <4>1
    <3> QED
      BY <2>3, <2>4, <3>2, <3>3, <3>4, <3>5
  <2>6. Cardinality({i \in DOMAIN r : r[i]}) <= m
    BY <2>2, <2>4, <2>5, FewSuccesses
  <2> QED
    BY <2>1, <2>6 DEF Successes
<1>5. ChainsStop
  BY <1>1, <1>4 DEF ChainsStop, WorkOK, ChainOK
<1> QED
  BY <1>2, <1>3, <1>5 DEF WorkflowsInv

(***************************************************************************)
(* The memories. What an agent that is running has thought so far counts   *)
(* with the workflow it runs for, and stays when that comes to nothing.    *)
(***************************************************************************)
LEMMA SumOfNaturals ==
  ASSUME NEW S, IsFiniteSet(S), NEW w \in [S -> Int], \A x \in S : w[x] >= 0
  PROVE  SumOf(S, w) \in Int /\ SumOf(S, w) >= 0
<1>1. PICK f : Adding(f, S, w)
  BY SumExists
<1>2. \A s \in SUBSET S : f[s] \in Int /\ \A y \in s : f[s] = f[s \ {y}] + w[y]
  BY <1>1, SumAnyOrder
<1>3. PICK G : G = {s \in SUBSET S : f[s] >= 0}
  OBVIOUS
<1>4. f[{}] = 0
  BY <1>1 DEF Adding
<1>5. ASSUME NEW T \in SUBSET S, \A R \in SUBSET T : R # T => R \in G PROVE T \in G
  <2>1. CASE T = {}
    BY <1>3, <1>4, <2>1
  <2>2. CASE T # {}
    <3>1. PICK y \in T : TRUE
      BY <2>2
    <3>2. f[T \ {y}] >= 0 /\ f[T \ {y}] \in Int
      BY <1>2, <1>3, <1>5, <3>1
    <3>3. f[T] = f[T \ {y}] + w[y] /\ w[y] \in Int /\ w[y] >= 0
      BY <1>2, <3>1
    <3> QED
      BY <1>3, <3>2, <3>3
  <2> QED
    BY <2>1, <2>2
<1>6. S \in G
  BY <1>5, SubsetInduction
<1> QED
  BY <1>1, <1>2, <1>3, <1>6, SumIs

Thinks(k) == Times(Calls(k), "think")

Spent(q, k) ==
  IF q.at = "running" /\ KindAt(q, q.task) = k THEN Thinks(k) - Times(q.calls, "think") ELSE 0

Spending(k) == [w \in DOMAIN workflow |-> Spent(workflow[w], k)]

MemoryFields == {"thoughts", "findings", "tools"}

RemembersAll(m, n, k, spent) ==
  /\ DOMAIN m = MemoryFields /\ n \in Nat /\ m.findings = n /\ m.thoughts \in Nat /\ m.tools \in Nat
  /\ m.tools > 0 => k = "research"
  /\ m.thoughts >= Thinks(k) * n + spent

MemoryInv ==
  /\ DOMAIN memory = Kinds /\ DOMAIN succeeded = Kinds
  /\ \A k \in Kinds : RemembersAll(memory[k], succeeded[k], k, SumOf(DOMAIN workflow, Spending(k)))

LEMMA ThinksIs ==
  ASSUME NEW k \in Kinds PROVE Thinks(k) \in Nat
BY CallsAre DEF Thinks

LEMMA SpentIs ==
  ASSUME NEW q, NEW sv, WorkOK(q, sv), NEW k \in Kinds
  PROVE  Spent(q, k) \in Int /\ Spent(q, k) >= 0
<1>1. CASE q.at = "running" /\ KindAt(q, q.task) = k
  <2>1. CallsLeft(q.calls, k, sv)
    BY <1>1 DEF WorkOK, RunsOK
  <2>2. PICK n : n = Times(q.calls, "think")
    OBVIOUS
  <2>3. n \in Nat
    <3>1. IsFiniteSet(1..Len(q.calls)) /\ DOMAIN q.calls = 1..Len(q.calls)
      BY <2>1, FS_Interval, ListDomain DEF CallsLeft
    <3> QED
      BY <2>2, <3>1, FS_Subset, FS_CardinalityType DEF Times
  <2>4. n <= Thinks(k) /\ Thinks(k) \in Nat
    BY <2>1, <2>2, ThinksIs DEF CallsLeft, Thinks
  <2> QED
    BY <1>1, <2>2, <2>3, <2>4 DEF Spent
<1>2. CASE ~(q.at = "running" /\ KindAt(q, q.task) = k)
  BY <1>2 DEF Spent
<1> QED
  BY <1>1, <1>2

LEMMA SpendingIs ==
  ASSUME WorkflowsInv, NEW k \in Kinds
  PROVE  /\ IsFiniteSet(DOMAIN workflow) /\ Spending(k) \in [DOMAIN workflow -> Int]
         /\ \A w \in DOMAIN workflow : Spending(k)[w] = Spent(workflow[w], k) /\ Spending(k)[w] >= 0
<1>1. IsFiniteSet(DOMAIN workflow)
  <2>1. PICK W : workflow \in Seq(W)
    BY DEF WorkflowsInv
  <2> QED
    BY <2>1, FS_Interval, ListDomain
<1>2. ASSUME NEW w \in DOMAIN workflow PROVE Spent(workflow[w], k) \in Int /\ Spent(workflow[w], k) >= 0
  BY SpentIs DEF WorkflowsInv
<1> QED
  BY <1>1, <1>2 DEF Spending

LEMMA MemoryStarts == WorkflowsInit => MemoryInv
<1> SUFFICES ASSUME WorkflowsInit PROVE MemoryInv
  OBVIOUS
<1>1. /\ memory = [k \in Kinds |-> [thoughts |-> 0, findings |-> 0, tools |-> 0]] /\ workflow = <<>>
      /\ succeeded = [k \in Kinds |-> 0]
  BY DEF WorkflowsInit
<1>2. ASSUME NEW k \in Kinds PROVE RemembersAll(memory[k], succeeded[k], k, SumOf(DOMAIN workflow, Spending(k)))
  <2>1. DOMAIN workflow = {}
    BY <1>1
  <2>2. SumOf(DOMAIN workflow, Spending(k)) = 0
    BY <2>1, EmptySum
  <2>3. PICK m : m = [thoughts |-> 0, findings |-> 0, tools |-> 0]
    OBVIOUS
  <2>4. DOMAIN m = MemoryFields /\ m.findings = 0 /\ m.thoughts = 0 /\ m.tools = 0
    BY <2>3 DEF MemoryFields
  <2>5. memory[k] = m /\ succeeded[k] = 0
    BY <1>1, <2>3
  <2>6. Thinks(k) * 0 + 0 = 0
    BY ThinksIs
  <2>7. RemembersAll(m, 0, k, 0)
    BY <2>4, <2>6 DEF RemembersAll
  <2> QED
    BY <2>2, <2>5, <2>7
<1> QED
  BY <1>1, <1>2 DEF MemoryInv

(* One workflow's step, and what the agents learn by it.                   *)
LEMMA MemoryTurn ==
  ASSUME WorkflowsInv, WorkflowsInv', MemoryInv, NEW w \in DOMAIN workflow, NEW q,
         workflow' = [workflow EXCEPT ![w] = q], DOMAIN memory' = Kinds, DOMAIN succeeded' = Kinds,
         NEW k \in Kinds, DOMAIN memory'[k] = MemoryFields, succeeded'[k] \in Nat, memory'[k].findings = succeeded'[k],
         memory'[k].thoughts \in Nat, memory'[k].tools \in Nat, memory'[k].tools > 0 => k = "research",
         NEW a, NEW b, a = Thinks(k) * succeeded[k], b = Thinks(k) * succeeded'[k],
         memory'[k].thoughts + a + Spent(workflow[w], k) >= memory[k].thoughts + b + Spent(q, k)
  PROVE  RemembersAll(memory'[k], succeeded'[k], k, SumOf(DOMAIN workflow', Spending(k)'))
<1>1. PICK v : v = Spending(k)'
  OBVIOUS
<1>2. DOMAIN workflow' = DOMAIN workflow /\ workflow'[w] = q /\ \A x \in DOMAIN workflow \ {w} : workflow'[x] = workflow[x]
  OBVIOUS
<1>3. v = [x \in DOMAIN workflow |-> Spent(workflow'[x], k)]
  BY <1>1, <1>2 DEF Spending
<1>4. \A x \in DOMAIN workflow : Spent(workflow'[x], k) \in Int
  <2>1. \A x \in DOMAIN workflow : WorkOK(workflow'[x], served')
    BY <1>2 DEF WorkflowsInv
  <2> QED
    BY <2>1, SpentIs
<1>5. v \in [DOMAIN workflow -> Int] /\ v[w] = Spent(q, k) /\ \A x \in DOMAIN workflow \ {w} : v[x] = Spent(workflow[x], k)
  BY <1>2, <1>3, <1>4
<1>6. PICK u : u = Spending(k)
  OBVIOUS
<1>7. IsFiniteSet(DOMAIN workflow) /\ u \in [DOMAIN workflow -> Int] /\ \A x \in DOMAIN workflow : u[x] = Spent(workflow[x], k)
  BY <1>6, SpendingIs
<1>8. PICK i, j : i = SumOf(DOMAIN workflow, u) /\ j = SumOf(DOMAIN workflow, v)
  OBVIOUS
<1>9. i \in Int /\ j = i + (v[w] - u[w])
  BY <1>5, <1>7, <1>8, SumChanges
<1>10. PICK s, t : s = Spent(workflow[w], k) /\ t = Spent(q, k)
  OBVIOUS
<1>11. s \in Int /\ t \in Int /\ j = i + (t - s)
  BY <1>5, <1>7, <1>9, <1>10
<1>12. memory[k].thoughts >= a + i /\ memory[k].thoughts \in Nat /\ a \in Int /\ b \in Int
  <2>1. RemembersAll(memory[k], succeeded[k], k, i)
    BY <1>6, <1>8 DEF MemoryInv
  <2>2. Thinks(k) \in Nat /\ succeeded[k] \in Nat
    BY <2>1, ThinksIs DEF RemembersAll
  <2> QED
    BY <2>1, <2>2 DEF RemembersAll
<1>13. PICK m, n : m = memory[k].thoughts /\ n = memory'[k].thoughts
  OBVIOUS
<1>14. n + a + s >= m + b + t /\ m >= a + i /\ m \in Nat /\ n \in Nat
  BY <1>10, <1>12, <1>13
<1>15. n >= b + j
  BY <1>9, <1>11, <1>12, <1>14
<1>16. SumOf(DOMAIN workflow', Spending(k)') = j
  BY <1>1, <1>2, <1>8
<1> QED
  BY <1>13, <1>15, <1>16 DEF RemembersAll

(* An agent learns nothing: its part in the workflow can only become less. *)
LEMMA MemoryRests ==
  ASSUME WorkflowsInv, WorkflowsInv', MemoryInv, NEW w \in DOMAIN workflow, NEW q,
         workflow' = [workflow EXCEPT ![w] = q], memory' = memory, succeeded' = succeeded,
         \A k \in Kinds : Spent(workflow[w], k) >= Spent(q, k)
  PROVE  MemoryInv'
<1>1. ASSUME NEW k \in Kinds
      PROVE  RemembersAll(memory'[k], succeeded'[k], k, SumOf(DOMAIN workflow', Spending(k)'))
  <2>1. RemembersAll(memory[k], succeeded[k], k, SumOf(DOMAIN workflow, Spending(k)))
    BY DEF MemoryInv
  <2>2. PICK a : a = Thinks(k) * succeeded[k]
    OBVIOUS
  <2>3. a \in Int
    BY <2>1, <2>2, ThinksIs DEF RemembersAll
  <2>4. Spent(workflow[w], k) \in Int /\ Spent(q, k) \in Int
    <3>1. WorkOK(workflow[w], served) /\ WorkOK(workflow'[w], served') /\ workflow'[w] = q
      BY DEF WorkflowsInv
    <3> QED
      BY <3>1, SpentIs
  <2>5. memory'[k].thoughts + a + Spent(workflow[w], k) >= memory[k].thoughts + a + Spent(q, k)
    BY <2>1, <2>3, <2>4 DEF RemembersAll
  <2>6. a = Thinks(k) * succeeded'[k] /\ DOMAIN memory' = Kinds /\ DOMAIN succeeded' = Kinds
    BY <2>2 DEF MemoryInv
  <2>7. /\ DOMAIN memory'[k] = MemoryFields /\ succeeded'[k] \in Nat /\ memory'[k].findings = succeeded'[k]
        /\ memory'[k].thoughts \in Nat /\ memory'[k].tools \in Nat /\ (memory'[k].tools > 0 => k = "research")
    BY <2>1 DEF RemembersAll
  <2> QED
    BY <2>2, <2>5, <2>6, <2>7, MemoryTurn
<1>2. DOMAIN memory' = Kinds /\ DOMAIN succeeded' = Kinds
  BY DEF MemoryInv
<1> QED
  BY <1>1, <1>2 DEF MemoryInv

(* What an agent of a workflow that is not running has spent.              *)
LEMMA SpentNothing ==
  ASSUME NEW q, q.at # "running", NEW k PROVE Spent(q, k) = 0
BY DEF Spent

LEMMA MemoryStarted ==
  ASSUME WorkflowsInv, WorkflowsInv', MemoryInv, NEW q, workflow' = Append(workflow, q), q.at = "between",
         memory' = memory, succeeded' = succeeded
  PROVE  MemoryInv'
<1>1. PICK W, V, n : workflow \in Seq(W) /\ V = W \cup {q} /\ n = Len(workflow)
  BY DEF WorkflowsInv
<1>2. workflow \in Seq(V) /\ q \in V
  BY <1>1
<1>3. /\ DOMAIN workflow' = 1..(n + 1) /\ DOMAIN workflow = 1..n /\ n \in Nat
      /\ (\A v \in 1..n : workflow'[v] = workflow[v]) /\ workflow'[n + 1] = q
  BY <1>1, <1>2, Appended
<1>4. ASSUME NEW k \in Kinds
      PROVE  SumOf(DOMAIN workflow', Spending(k)') = SumOf(DOMAIN workflow, Spending(k))
  <2>1. PICK u, v : u = Spending(k) /\ v = Spending(k)'
    OBVIOUS
  <2>2. u \in [DOMAIN workflow -> Int] /\ \A x \in DOMAIN workflow : u[x] = Spent(workflow[x], k)
    BY <2>1, SpendingIs
  <2>3. v = [x \in DOMAIN workflow' |-> Spent(workflow'[x], k)]
    BY <2>1 DEF Spending
  <2>4. \A x \in DOMAIN workflow' : Spent(workflow'[x], k) \in Int
    <3>1. \A x \in DOMAIN workflow' : WorkOK(workflow'[x], served')
      BY DEF WorkflowsInv
    <3> QED
      BY <3>1, SpentIs
  <2>5. v \in [DOMAIN workflow' -> Int]
    BY <2>3, <2>4
  <2>6. \A x \in DOMAIN workflow : u[x] = v[x]
    BY <1>3, <2>2, <2>3
  <2>7. \A x \in DOMAIN workflow' \ DOMAIN workflow : v[x] = 0
    <3>1. Spent(q, k) = 0
      BY SpentNothing
    <3> QED
      BY <1>3, <2>3, <3>1
  <2>8. IsFiniteSet(DOMAIN workflow') /\ DOMAIN workflow \in SUBSET DOMAIN workflow'
    BY <1>3, FS_Interval
  <2> QED
    BY <2>1, <2>2, <2>5, <2>6, <2>7, <2>8, SumWithZeros
<1> QED
  BY <1>4 DEF MemoryInv

(* The head of an agent's calls is answered.                               *)
LEMMA SpentOnce ==
  ASSUME NEW p, NEW q, NEW c, p.calls = c, q.calls = Tail(c), c # <<>>, c \in Seq(AgentCalls), p.at = "running",
         q.at = "running", q.plan = p.plan, q.task = p.task, NEW k \in Kinds, Spent(p, k) \in Int, Spent(q, k) \in Int
  PROVE  /\ KindAt(p, p.task) # k => Spent(q, k) = Spent(p, k)
         /\ KindAt(p, p.task) = k =>
              Spent(q, k) <= Spent(p, k) + (IF Head(c) = "think" THEN 1 ELSE 0)
<1>1. KindAt(q, q.task) = KindAt(p, p.task)
  BY DEF KindAt
<1>2. PICK a, b, t : a = Times(c, "think") /\ b = Times(Tail(c), "think") /\ t = Thinks(k)
  OBVIOUS
<1>3. a \in Nat /\ b \in Nat /\ t \in Nat /\ a <= b + (IF Head(c) = "think" THEN 1 ELSE 0)
  BY <1>2, TimesHead, ThinksIs
<1>4. CASE KindAt(p, p.task) = k
  <2>1. Spent(p, k) = t - a /\ Spent(q, k) = t - b
    BY <1>1, <1>2, <1>4 DEF Spent
  <2> QED
    BY <1>3, <1>4, <2>1
<1>5. CASE KindAt(p, p.task) # k
  BY <1>1, <1>5 DEF Spent
<1> QED
  BY <1>4, <1>5

LEMMA MemoryAnswers ==
  ASSUME WorkflowsInv, WorkflowsInv', MemoryInv, NEW w \in DOMAIN workflow, CallAnswers(w)
  PROVE  MemoryInv'
<1>1. PICK q : /\ workflow' = [workflow EXCEPT ![w] = q] /\ q.at = "running" /\ q.plan = workflow[w].plan
               /\ q.task = workflow[w].task /\ q.calls = Tail(workflow[w].calls)
  BY AnswerKeeps
<1>2. PICK p, c, a : p = workflow[w] /\ c = p.calls /\ a = Agent(w)
  OBVIOUS
<1>3. /\ Running(w) /\ c # <<>> /\ succeeded' = succeeded
      /\ memory' = CASE Head(c) = "think" -> [memory EXCEPT ![a].thoughts = @ + 1]
                     [] Head(c) = "tool"  -> [memory EXCEPT ![a].tools = @ + 1]
                     [] OTHER -> memory
  BY <1>2 DEF CallAnswers
<1>4. /\ a \in Kinds /\ a = KindAt(p, p.task) /\ CallsLeft(c, a, served) /\ p.at = "running"
      /\ c \in Seq(AgentCalls)
  BY <1>2, <1>3, AgentIs DEF Running, CallsLeft
<1>5. Head(c) = "tool" => a = "research"
  BY <1>3, <1>4, CallsTail
<1>6. DOMAIN memory = Kinds /\ DOMAIN succeeded = Kinds
  BY DEF MemoryInv
<1>7. PICK m : m = memory[a]
  OBVIOUS
<1>8. DOMAIN m = MemoryFields /\ m.thoughts \in Nat /\ m.tools \in Nat
  BY <1>4, <1>7 DEF MemoryInv, RemembersAll
<1>9. /\ DOMAIN memory' = Kinds /\ (\A k \in Kinds : k # a => memory'[k] = memory[k])
      /\ DOMAIN memory'[a] = MemoryFields /\ memory'[a].findings = m.findings
      /\ memory'[a].thoughts = m.thoughts + (IF Head(c) = "think" THEN 1 ELSE 0)
      /\ memory'[a].tools \in Nat /\ (memory'[a].tools = m.tools \/ a = "research")
  <2>1. CASE Head(c) = "think"
    <3>1. PICK r : r = [m EXCEPT !.thoughts = m.thoughts + 1]
      OBVIOUS
    <3>2. memory' = [memory EXCEPT ![a] = r]
      BY <1>3, <1>7, <2>1, <3>1
    <3>3. /\ DOMAIN r = MemoryFields /\ r.findings = m.findings /\ r.thoughts = m.thoughts + 1 /\ r.tools = m.tools
      BY <1>8, <3>1 DEF MemoryFields
    <3> QED
      BY <1>4, <1>6, <1>8, <2>1, <3>2, <3>3
  <2>2. CASE Head(c) = "tool"
    <3>1. PICK r : r = [m EXCEPT !.tools = m.tools + 1]
      OBVIOUS
    <3>2. memory' = [memory EXCEPT ![a] = r]
      BY <1>3, <1>7, <2>2, <3>1
    <3>3. /\ DOMAIN r = MemoryFields /\ r.findings = m.findings /\ r.thoughts = m.thoughts /\ r.tools \in Nat
      BY <1>8, <3>1 DEF MemoryFields
    <3> QED
      BY <1>4, <1>5, <1>6, <1>8, <2>2, <3>2, <3>3
  <2>3. CASE Head(c) # "think" /\ Head(c) # "tool"
    <3>1. memory' = memory
      BY <1>3, <2>3
    <3> QED
      BY <1>4, <1>6, <1>7, <1>8, <2>3, <3>1
  <2> QED
    BY <2>1, <2>2, <2>3
<1>10. ASSUME NEW k \in Kinds
       PROVE  RemembersAll(memory'[k], succeeded'[k], k, SumOf(DOMAIN workflow', Spending(k)'))
  <2>1. RemembersAll(memory[k], succeeded[k], k, SumOf(DOMAIN workflow, Spending(k)))
    BY DEF MemoryInv
  <2>2. PICK b : b = Thinks(k) * succeeded[k]
    OBVIOUS
  <2>3. b \in Int
    BY <2>1, <2>2, ThinksIs DEF RemembersAll
  <2>4. Spent(p, k) \in Int /\ Spent(q, k) \in Int
    <3>1. WorkOK(p, served) /\ WorkOK(workflow'[w], served') /\ workflow'[w] = q
      BY <1>1, <1>2 DEF WorkflowsInv
    <3> QED
      BY <3>1, SpentIs
  <2>5. PICK s, t, o : s = Spent(p, k) /\ t = Spent(q, k) /\ o = IF Head(c) = "think" THEN 1 ELSE 0
    OBVIOUS
  <2>6. (k # a => t = s) /\ (k = a => t <= s + o)
    <3>1. q.plan = p.plan /\ q.task = p.task /\ q.calls = Tail(c) /\ p.calls = c
      BY <1>1, <1>2
    <3> QED
      BY <1>1, <1>3, <1>4, <2>4, <2>5, <3>1, SpentOnce
  <2>7. /\ memory[k].thoughts \in Nat /\ o \in Nat /\ s \in Int /\ t \in Int
        /\ (k # a => memory'[k].thoughts = memory[k].thoughts)
        /\ (k = a => memory'[k].thoughts = memory[k].thoughts + o)
    BY <1>7, <1>9, <2>1, <2>4, <2>5 DEF RemembersAll
  <2>8. PICK x, y : x = memory[k].thoughts /\ y = memory'[k].thoughts
    OBVIOUS
  <2>9. y \in Nat /\ y + b + s >= x + b + t
    BY <2>3, <2>6, <2>7, <2>8
  <2>10. memory'[k].thoughts \in Nat /\ memory'[k].thoughts + b + Spent(workflow[w], k) >= memory[k].thoughts + b + Spent(q, k)
    BY <1>2, <2>5, <2>8, <2>9
  <2>11. /\ DOMAIN memory'[k] = MemoryFields /\ succeeded'[k] \in Nat /\ memory'[k].findings = succeeded'[k]
         /\ memory'[k].tools \in Nat /\ (memory'[k].tools > 0 => k = "research")
    <3>1. CASE k = a
      BY <1>3, <1>7, <1>9, <2>1, <3>1 DEF RemembersAll
    <3>2. CASE k # a
      BY <1>3, <1>9, <2>1, <3>2 DEF RemembersAll
    <3> QED
      BY <3>1, <3>2
  <2>12. b = Thinks(k) * succeeded'[k] /\ DOMAIN memory' = Kinds /\ DOMAIN succeeded' = Kinds
    BY <1>3, <1>6, <1>9, <2>2
  <2>13. workflow' = [workflow EXCEPT ![w] = q]
    BY <1>1
  <2> QED
    BY <2>2, <2>10, <2>11, <2>12, <2>13, MemoryTurn
<1> QED
  BY <1>3, <1>6, <1>9, <1>10 DEF MemoryInv

LEMMA MemorySucceeds ==
  ASSUME WorkflowsInv, WorkflowsInv', MemoryInv, NEW w \in DOMAIN workflow, AgentSucceeds(w)
  PROVE  MemoryInv'
<1>1. PICK q : workflow' = [workflow EXCEPT ![w] = q] /\ q.at = "between"
  BY SucceedKeeps
<1>2. PICK p, a, m, n : p = workflow[w] /\ a = Agent(w) /\ m = memory[a] /\ n = succeeded[a]
  OBVIOUS
<1>3. /\ Running(w) /\ p.calls = <<>> /\ memory' = [memory EXCEPT ![a].findings = @ + 1]
      /\ succeeded' = [succeeded EXCEPT ![a] = n + 1]
  BY <1>2 DEF AgentSucceeds
<1>4. a \in Kinds /\ a = KindAt(p, p.task) /\ p.at = "running"
  BY <1>2, <1>3, AgentIs DEF Running
<1>5. DOMAIN memory = Kinds /\ DOMAIN succeeded = Kinds
  BY DEF MemoryInv
<1>6. DOMAIN m = MemoryFields /\ m.thoughts \in Nat /\ m.tools \in Nat /\ m.findings = n /\ n \in Nat
  BY <1>2, <1>4 DEF MemoryInv, RemembersAll
<1>7. PICK r : r = [m EXCEPT !.findings = n + 1]
  OBVIOUS
<1>8. memory' = [memory EXCEPT ![a] = r]
  BY <1>2, <1>3, <1>6, <1>7
<1>9. DOMAIN r = MemoryFields /\ r.findings = n + 1 /\ r.thoughts = m.thoughts /\ r.tools = m.tools
  BY <1>6, <1>7 DEF MemoryFields
<1>10. /\ DOMAIN memory' = Kinds /\ memory'[a] = r /\ (\A k \in Kinds : k # a => memory'[k] = memory[k])
       /\ DOMAIN succeeded' = Kinds /\ succeeded'[a] = n + 1 /\ (\A k \in Kinds : k # a => succeeded'[k] = succeeded[k])
  BY <1>3, <1>4, <1>5, <1>8
<1>11. ASSUME NEW k \in Kinds
       PROVE  RemembersAll(memory'[k], succeeded'[k], k, SumOf(DOMAIN workflow', Spending(k)'))
  <2>1. RemembersAll(memory[k], succeeded[k], k, SumOf(DOMAIN workflow, Spending(k)))
    BY DEF MemoryInv
  <2>2. PICK b, d, t : b = Thinks(k) * succeeded[k] /\ d = Thinks(k) * succeeded'[k] /\ t = Thinks(k)
    OBVIOUS
  <2>3. b \in Int /\ t \in Nat
    BY <2>1, <2>2, ThinksIs DEF RemembersAll
  <2>4. Spent(q, k) = 0 /\ (k = a => Spent(p, k) = t) /\ (k # a => Spent(p, k) = 0) /\ (k # a => d = b) /\ (k = a => d = b + t)
    <3>1. Spent(q, k) = 0
      BY <1>1, SpentNothing
    <3>2. Times(<<>>, "think") = 0
      <4>1. {i \in DOMAIN <<>> : <<>>[i] = "think"} = {}
        OBVIOUS
      <4> QED
        BY <4>1, FS_EmptySet DEF Times
    <3>3. Spent(p, k) = IF k = a THEN t - 0 ELSE 0
      BY <1>3, <1>4, <2>2, <3>2 DEF Spent
    <3>4. k = a => d = b + t
      <4>1. \A x, y \in Nat : x * (y + 1) = x * y + x
        OBVIOUS
      <4> QED
        BY <1>2, <1>6, <1>10, <2>2, <2>3, <4>1
    <3> QED
      BY <1>10, <2>2, <2>3, <3>1, <3>3, <3>4
  <2>5. memory'[k].thoughts = memory[k].thoughts /\ memory[k].thoughts \in Nat
    BY <1>2, <1>9, <1>10, <2>1 DEF RemembersAll
  <2>6. d \in Int /\ memory'[k].thoughts \in Nat
        /\ memory'[k].thoughts + b + Spent(p, k) >= memory[k].thoughts + d + Spent(q, k)
    <3>1. PICK x, s, z : x = memory[k].thoughts /\ s = Spent(p, k) /\ z = Spent(q, k)
      OBVIOUS
    <3>2. x \in Nat /\ z = 0 /\ ((s = t /\ d = b + t) \/ (s = 0 /\ d = b))
      BY <2>4, <2>5, <3>1
    <3>3. d \in Int /\ x + b + s >= x + d + z
      BY <2>3, <3>2
    <3> QED
      BY <2>5, <3>1, <3>3
  <2>7. /\ DOMAIN memory'[k] = MemoryFields /\ succeeded'[k] \in Nat /\ memory'[k].findings = succeeded'[k]
        /\ memory'[k].tools \in Nat /\ (memory'[k].tools > 0 => k = "research")
    <3>1. CASE k = a
      BY <1>2, <1>6, <1>9, <1>10, <2>1, <3>1 DEF RemembersAll
    <3>2. CASE k # a
      BY <1>10, <2>1, <3>2 DEF RemembersAll
    <3> QED
      BY <3>1, <3>2
  <2>8. memory'[k].thoughts + b + Spent(workflow[w], k) >= memory[k].thoughts + d + Spent(q, k)
    BY <1>2, <2>6
  <2>9. workflow' = [workflow EXCEPT ![w] = q] /\ DOMAIN memory' = Kinds /\ DOMAIN succeeded' = Kinds
    BY <1>1, <1>10
  <2> QED
    BY <2>2, <2>6, <2>7, <2>8, <2>9, MemoryTurn
<1> QED
  BY <1>10, <1>11 DEF MemoryInv

LEMMA MemorySteps ==
  ASSUME WorkflowsInv, WorkflowsInv', MemoryInv, [WorkflowsNext]_workflowVars
  PROVE  MemoryInv'
<1>1. CASE StartWorkflow("intelligence", "ci") \/ StartWorkflow("market", "market_2") \/ StartWorkflow("client", "own")
  <2>1. PICK q : workflow' = Append(workflow, q) /\ q.at = "between"
    BY <1>1, StartKeeps
  <2>2. memory' = memory /\ succeeded' = succeeded
    BY <1>1 DEF StartWorkflow
  <2> QED
    BY <2>1, <2>2, MemoryStarted
<1>2. ASSUME NEW w \in DOMAIN workflow PROVE \A k \in Kinds : Spent(workflow[w], k) >= 0 /\ Spent(workflow[w], k) \in Int
  BY SpentIs DEF WorkflowsInv
<1>3. ASSUME NEW w \in DOMAIN workflow, NEW q, workflow' = [workflow EXCEPT ![w] = q], q.at # "running",
             memory' = memory, succeeded' = succeeded
      PROVE  MemoryInv'
  <2>1. \A k \in Kinds : Spent(workflow[w], k) >= Spent(q, k)
    BY <1>2, <1>3, SpentNothing
  <2> QED
    BY <1>3, <2>1, MemoryRests
<1>4. ASSUME NEW w \in DOMAIN workflow, SkipTask(w) PROVE MemoryInv'
  BY <1>3, <1>4, SkipKeeps DEF SkipTask
<1>5. ASSUME NEW w \in DOMAIN workflow, RunTask(w) PROVE MemoryInv'
  <2>1. PICK q : /\ workflow' = [workflow EXCEPT ![w] = q] /\ q.at = "running" /\ q.plan = workflow[w].plan
                 /\ q.task = workflow[w].task /\ q.calls = Calls(KindAt(workflow[w], workflow[w].task))
    BY <1>5, RunKeeps
  <2>2. \A k \in Kinds : Spent(q, k) = 0
    <3>1. SUFFICES ASSUME NEW k \in Kinds PROVE Spent(q, k) = 0
      OBVIOUS
    <3>2. KindAt(q, q.task) = KindAt(workflow[w], workflow[w].task)
      BY <2>1 DEF KindAt
    <3>3. CASE KindAt(q, q.task) = k
      <4>1. Thinks(k) - Thinks(k) = 0
        BY ThinksIs
      <4>2. Times(q.calls, "think") = Thinks(k)
        BY <2>1, <3>2, <3>3 DEF Thinks
      <4> QED
        BY <4>1, <4>2 DEF Spent
    <3>4. CASE KindAt(q, q.task) # k
      BY <3>4 DEF Spent
    <3> QED
      BY <3>3, <3>4
  <2>3. \A k \in Kinds : Spent(workflow[w], k) >= Spent(q, k)
    BY <1>2, <2>2
  <2>4. memory' = memory /\ succeeded' = succeeded
    BY <1>5 DEF RunTask
  <2> QED
    BY <2>1, <2>3, <2>4, MemoryRests
<1>6. ASSUME NEW w \in DOMAIN workflow, CallRaises(w) PROVE MemoryInv'
  <2>1. memory' = memory /\ succeeded' = succeeded /\ Running(w) /\ workflow[w].calls # <<>>
    BY <1>6 DEF CallRaises
  <2>2. PICK q : /\ workflow' = [workflow EXCEPT ![w] = q]
                 /\ \/ q.at = "between"
                    \/ /\ q.at = "running" /\ q.plan = workflow[w].plan /\ q.task = workflow[w].task
                       /\ q.calls = Tail(workflow[w].calls) /\ Head(workflow[w].calls) = "tool"
    BY <1>6, RaiseKeeps
  <2>3. CASE q.at = "between"
    BY <1>3, <2>1, <2>2, <2>3
  <2>4. CASE /\ q.at = "running" /\ q.plan = workflow[w].plan /\ q.task = workflow[w].task
             /\ q.calls = Tail(workflow[w].calls) /\ Head(workflow[w].calls) = "tool"
    <3>1. PICK p, c : p = workflow[w] /\ c = p.calls
      OBVIOUS
    <3>2. c \in Seq(AgentCalls) /\ c # <<>> /\ p.at = "running" /\ Head(c) # "think"
      BY <2>1, <2>4, <3>1, AgentIs DEF CallsLeft, Running
    <3>3. q.plan = p.plan /\ q.task = p.task /\ q.calls = Tail(c) /\ p.calls = c /\ q.at = "running"
      BY <2>4, <3>1
    <3>4. \A k \in Kinds : Spent(p, k) >= Spent(q, k)
      <4>1. SUFFICES ASSUME NEW k \in Kinds PROVE Spent(p, k) >= Spent(q, k)
        OBVIOUS
      <4>2. Spent(p, k) \in Int /\ Spent(q, k) \in Int
        <5>1. WorkOK(workflow'[w], served') /\ workflow'[w] = q
          BY <2>2 DEF WorkflowsInv
        <5> QED
          BY <1>2, <3>1, <5>1, SpentIs
      <4>3. /\ KindAt(p, p.task) # k => Spent(q, k) = Spent(p, k)
            /\ KindAt(p, p.task) = k => Spent(q, k) <= Spent(p, k) + (IF Head(c) = "think" THEN 1 ELSE 0)
        BY <3>2, <3>3, <4>2, SpentOnce
      <4> QED
        BY <3>2, <4>2, <4>3
    <3> QED
      BY <2>1, <2>2, <3>1, <3>4, MemoryRests
  <2> QED
    BY <2>2, <2>3, <2>4
<1>7. ASSUME NEW w \in DOMAIN workflow, WorkflowEnds(w) \/ WorkflowCancelled(w) PROVE MemoryInv'
  <2>1. memory' = memory /\ succeeded' = succeeded
    BY <1>7 DEF WorkflowEnds, WorkflowCancelled
  <2>2. PICK at : at \in {"completed", "cancelled"} /\ workflow' = [workflow EXCEPT ![w].at = at]
    BY <1>7 DEF WorkflowEnds, WorkflowCancelled
  <2>3. PICK q : q = [workflow[w] EXCEPT !.at = at]
    OBVIOUS
  <2>4. WorkOK(workflow[w], served)
    BY DEF WorkflowsInv
  <2>5. workflow' = [workflow EXCEPT ![w] = q] /\ q.at # "running"
    BY <2>2, <2>3, <2>4 DEF WorkOK, WorkFields
  <2> QED
    BY <1>3, <2>1, <2>5
<1>8. ASSUME NEW w \in DOMAIN workflow, CallAnswers(w) \/ AgentSucceeds(w) PROVE MemoryInv'
  BY <1>8, MemoryAnswers, MemorySucceeds
<1>9. CASE UNCHANGED workflowVars
  <2>1. workflow' = workflow /\ memory' = memory /\ succeeded' = succeeded
    BY <1>9 DEF workflowVars
  <2> QED
    BY <2>1 DEF MemoryInv, Spending
<1> QED
  BY <1>1, <1>4, <1>5, <1>6, <1>7, <1>8, <1>9 DEF WorkflowsNext

LEMMA MemoryHolds ==
  ASSUME WorkflowsInv, MemoryInv PROVE MemoryTells
<1>1. SUFFICES ASSUME NEW k \in Kinds
               PROVE  /\ memory[k].findings = succeeded[k] /\ (memory[k].tools > 0 => k = "research")
                      /\ memory[k].thoughts >= Thinks(k) * succeeded[k]
  BY DEF MemoryTells, Thinks, Times
<1>2. PICK s : s = SumOf(DOMAIN workflow, Spending(k))
  OBVIOUS
<1>3. s \in Int /\ s >= 0
  <2>1. PICK u : u = Spending(k)
    OBVIOUS
  <2>2. IsFiniteSet(DOMAIN workflow) /\ u \in [DOMAIN workflow -> Int] /\ \A x \in DOMAIN workflow : u[x] >= 0
    BY <2>1, SpendingIs
  <2> QED
    BY <1>2, <2>1, <2>2, SumOfNaturals
<1>4. RemembersAll(memory[k], succeeded[k], k, s)
  BY <1>2 DEF MemoryInv
<1>5. PICK b : b = Thinks(k) * succeeded[k]
  OBVIOUS
<1>6. b \in Int
  BY <1>4, <1>5, ThinksIs DEF RemembersAll
<1> QED
  BY <1>3, <1>4, <1>5, <1>6 DEF RemembersAll

(***************************************************************************)
(* UseCases. What a search is given as relevant is fit to be answered, at  *)
(* whatever point it is. One that is alone has the browser's fields for    *)
(* itself while it has the browser in use, for no other one has it then.   *)
(***************************************************************************)
SearchFields == {"at", "stage", "left", "found", "min", "unverified", "relevant", "onClosed", "alone"}

Answerable(r, min, unverified) ==
  /\ r \in Seq(Titles)
  /\ IsInjective([i \in DOMAIN r |-> r[i].title])
  /\ \A i \in DOMAIN r : r[i].severity >= min
  /\ r # <<>> => unverified

SearchOK(q, w) ==
  /\ DOMAIN q = SearchFields
  /\ q.left \in Nat /\ q.onClosed \in Nat /\ q.left + q.onClosed <= Queries
  /\ q.found \in Seq(Titles)
  /\ q.at \notin {"failed", "cancelled"} => w
  /\ Answerable(q.relevant, q.min, q.unverified)
  /\ q.stage \in 0..3
  /\ q.at = "opening" => q.stage \in 0..2
  /\ q.at = "searching" => q.stage \in 1..3
  /\ q.at \in {"summarizing", "found"} => q.stage = 0

OwnedBy(q, s, O, H) ==
  q.alone =>
    /\ q.onClosed = 0
    /\ q.at \notin {"failed", "cancelled"} => \A k \in 1..3 : <<k, s>> \in O => k <= q.stage
    /\ q.at = "opening" => \A k \in 1..q.stage : H[k] = s
    /\ q.at = "searching" => \A k \in 1..3 : H[k] = s
    /\ q.at = "searching" /\ q.left > 0 => <<3, s>> \in O

(* No other one has the browser in use.                                    *)
NotBoth(q, r) == q.alone /\ InUse(q) => ~InUse(r)

SearchInv ==
  /\ \E Q : searches \in Seq(Q)
  /\ open \subseteq (1..3) \X DOMAIN searches /\ DOMAIN shared = 1..3
  /\ \A s \in DOMAIN searches : SearchOK(searches[s], wrapped) /\ OwnedBy(searches[s], s, open, shared)
  /\ \A s, i \in DOMAIN searches : s # i => NotBoth(searches[s], searches[i])

LEMMA NoneAnswerable ==
  ASSUME NEW min, NEW unverified PROVE Answerable(<<>>, min, unverified)
BY DEF Answerable, IsInjective

LEMMA FirstsOnce ==
  ASSUME NEW found \in Seq(Titles)
  PROVE  /\ Deduplicated(found) \in Seq(Titles)
         /\ \A i, j \in DOMAIN Deduplicated(found) :
              i # j => Deduplicated(found)[i].title # Deduplicated(found)[j].title
<1>1. DOMAIN found = 1..Len(found) /\ Len(found) \in Nat
  OBVIOUS
<1> DEFINE all == [i \in DOMAIN found |-> i]
           new == {i \in DOMAIN found : \A j \in 1..(i - 1) : found[j].title # found[i].title}
           firsts == Only(all, new)
<1>2. all \in Seq(Nat) /\ DOMAIN all = DOMAIN found /\ \A i \in DOMAIN all : all[i] = i
  BY <1>1
<1>3. IsInjective(all)
  BY <1>2 DEF IsInjective
<1>4. Range(all) = DOMAIN found
  BY <1>2 DEF Range
<1> HIDE DEF all
<1>5. firsts \in Seq(Nat) /\ IsInjective(firsts) /\ Range(firsts) = DOMAIN found \cap new
  BY <1>2, <1>3, <1>4, OnlyOnce, OnlyRange
<1> HIDE DEF firsts
<1>6. \A k \in DOMAIN firsts : firsts[k] \in DOMAIN found /\ firsts[k] \in new
  BY <1>5 DEF Range
<1>7. PICK d : d = [k \in DOMAIN firsts |-> found[firsts[k]]]
  OBVIOUS
<1>8. d = Deduplicated(found)
  BY <1>7 DEF Deduplicated, firsts, all
<1>9. DOMAIN d = 1..Len(firsts) /\ Len(firsts) \in Nat /\ DOMAIN firsts = 1..Len(firsts)
  BY <1>5, <1>7
<1>10. \A k \in DOMAIN d : d[k] \in Titles
  BY <1>1, <1>6, <1>7
<1>11. d \in Seq(Titles)
  BY <1>7, <1>9, <1>10
<1>12. ASSUME NEW i \in DOMAIN d, NEW j \in DOMAIN d, i # j PROVE d[i].title # d[j].title
  <2>1. PICK a, b : a = firsts[i] /\ b = firsts[j]
    OBVIOUS
  <2>2. /\ a \in 1..Len(found) /\ b \in 1..Len(found) /\ a # b /\ d[i] = found[a] /\ d[j] = found[b]
        /\ a \in new /\ b \in new
    BY <1>1, <1>5, <1>6, <1>7, <1>12, <2>1 DEF IsInjective
  <2>3. CASE a < b
    <3>1. a \in 1..(b - 1)
      BY <1>1, <2>2, <2>3
    <3> QED
      BY <2>2, <3>1
  <2>4. CASE b < a
    <3>1. b \in 1..(a - 1)
      BY <1>1, <2>2, <2>4
    <3> QED
      BY <2>2, <3>1
  <2> QED
    BY <1>1, <2>2, <2>3, <2>4
<1> QED
  BY <1>8, <1>11, <1>12

LEMMA RelevantAnswerable ==
  ASSUME NEW q, q.found \in Seq(Titles)
  PROVE  Answerable(Relevant(q), q.min, q.unverified)
<1>1. CASE q.unverified
  <2>1. PICK d, P, r : d = Deduplicated(q.found) /\ P = {t \in Titles : t.severity >= q.min} /\ r = Only(d, P)
    OBVIOUS
  <2>2. d \in Seq(Titles) /\ \A i, j \in DOMAIN d : i # j => d[i].title # d[j].title
    BY <2>1, FirstsOnce
  <2>3. IsInjective(d)
    BY <2>2 DEF IsInjective
  <2>4. r \in Seq(Titles) /\ IsInjective(r) /\ Range(r) = Range(d) \cap P
    BY <2>1, <2>2, <2>3, OnlyOnce, OnlyRange
  <2>5. \A i \in DOMAIN r : r[i] \in P /\ \E k \in DOMAIN d : r[i] = d[k]
    BY <2>4 DEF Range
  <2>6. \A i \in DOMAIN r : r[i].severity >= q.min
    BY <2>1, <2>5
  <2>7. ASSUME NEW i \in DOMAIN r, NEW j \in DOMAIN r, r[i].title = r[j].title PROVE i = j
    <3>1. PICK k \in DOMAIN d, l \in DOMAIN d : r[i] = d[k] /\ r[j] = d[l]
      BY <2>5
    <3>2. k = l
      BY <2>2, <2>7, <3>1
    <3> QED
      BY <2>4, <3>1, <3>2 DEF IsInjective
  <2>8. IsInjective([i \in DOMAIN r |-> r[i].title])
    BY <2>7 DEF IsInjective
  <2>9. Relevant(q) = r
    BY <1>1, <2>1 DEF Relevant
  <2> QED
    BY <1>1, <2>4, <2>6, <2>8, <2>9 DEF Answerable
<1>2. CASE ~q.unverified
  <2>1. Relevant(q) = <<>>
    BY <1>2 DEF Relevant
  <2> QED
    BY <2>1, NoneAnswerable
<1> QED
  BY <1>1, <1>2

LEMMA SearchStarts == UseCasesInit => SearchInv
<1> SUFFICES ASSUME UseCasesInit PROVE SearchInv
  OBVIOUS
<1>1. searches = <<>> /\ open = {} /\ shared = <<0, 0, 0>>
  BY DEF UseCasesInit
<1>2. searches \in Seq({}) /\ DOMAIN searches = {} /\ DOMAIN shared = 1..3
  BY <1>1
<1> QED
  BY <1>1, <1>2 DEF SearchInv

(* A step of one search: what it does to the browser it does only while it *)
(* has it in use, and it opens nothing but what is its own.                *)
LEMMA SearchTurn ==
  ASSUME SearchInv, NEW s \in DOMAIN searches, wrapped' = wrapped,
         NEW q, searches' = [searches EXCEPT ![s] = q],
         SearchOK(q, wrapped), OwnedBy(q, s, open', shared'),
         q.alone = searches[s].alone, InUse(q) => InUse(searches[s]),
         DOMAIN shared' = 1..3,
         \A k, i : <<k, i>> \in open' => <<k, i>> \in open \/ (k \in 1..3 /\ i = s),
         open' \subseteq open \cup ((1..3) \X {s}),
         InUse(searches[s]) \/ (open' = open /\ shared' = shared)
  PROVE  SearchInv'
<1>1. PICK Q : searches \in Seq(Q)
  BY DEF SearchInv
<1>2. DOMAIN searches' = DOMAIN searches /\ searches'[s] = q /\ \A i \in DOMAIN searches : i # s => searches'[i] = searches[i]
  OBVIOUS
<1>3. PICK R : R = Q \cup {q}
  OBVIOUS
<1>4. searches' \in Seq(R)
  BY <1>1, <1>3
<1>5. ASSUME NEW i \in DOMAIN searches PROVE SearchOK(searches'[i], wrapped) /\ OwnedBy(searches'[i], i, open', shared')
  <2>1. CASE i = s
    BY <1>2, <2>1
  <2>2. CASE i # s
    <3>1. SearchOK(searches[i], wrapped) /\ OwnedBy(searches[i], i, open, shared) /\ NotBoth(searches[i], searches[s])
      BY <2>2 DEF SearchInv
    <3>2. CASE InUse(searches[s])
      <4>1. searches[i].alone => searches[i].at # "opening" /\ searches[i].at # "searching"
        BY <3>1, <3>2 DEF NotBoth, InUse
      <4>2. \A k : <<k, i>> \in open' => <<k, i>> \in open
        BY <2>2
      <4>3. OwnedBy(searches[i], i, open', shared')
        BY <3>1, <4>1, <4>2 DEF OwnedBy
      <4> QED
        BY <1>2, <2>2, <3>1, <4>3
    <3>3. CASE open' = open /\ shared' = shared
      BY <1>2, <2>2, <3>1, <3>3
    <3> QED
      BY <3>2, <3>3
  <2> QED
    BY <2>1, <2>2
<1>6. ASSUME NEW a \in DOMAIN searches, NEW b \in DOMAIN searches, a # b PROVE NotBoth(searches'[a], searches'[b])
  <2>1. NotBoth(searches[a], searches[b])
    BY <1>6 DEF SearchInv
  <2>2. CASE a = s
    BY <1>2, <1>6, <2>1, <2>2 DEF NotBoth
  <2>3. CASE b = s
    BY <1>2, <1>6, <2>1, <2>3 DEF NotBoth
  <2>4. CASE a # s /\ b # s
    BY <1>2, <2>1, <2>4
  <2> QED
    BY <2>2, <2>3, <2>4
<1>7. open' \subseteq (1..3) \X DOMAIN searches
  BY DEF SearchInv
<1> QED
  BY <1>2, <1>4, <1>5, <1>6, <1>7 DEF SearchInv

LEMMA SearchSteps ==
  ASSUME SearchInv, [SearchNext]_<<wrapped, searchVars>> PROVE SearchInv'
<1>0. PICK Q : searches \in Seq(Q)
  BY DEF SearchInv
<1>00. DOMAIN searches = 1..Len(searches) /\ Len(searches) \in Nat
  BY <1>0
<1>01. \A s \in DOMAIN searches : SearchOK(searches[s], wrapped) /\ OwnedBy(searches[s], s, open, shared)
  BY DEF SearchInv
<1>1. ASSUME NEW min, NEW unverified, StartSearch(min, unverified) PROVE SearchInv'
  <2>1. PICK single : single <=> \A i \in DOMAIN searches : ~InUse(searches[i])
    OBVIOUS
  <2>2. PICK q : q = [at |-> IF wrapped THEN "opening" ELSE "failed", stage |-> 0, left |-> Queries, found |-> <<>>,
                      min |-> min, unverified |-> unverified, relevant |-> <<>>, onClosed |-> 0,
                      alone |-> \A i \in DOMAIN searches : ~InUse(searches[i])]
    OBVIOUS
  <2>3. PICK others : others = [i \in DOMAIN searches |->
                   [searches[i] EXCEPT !.alone = @ /\ ~(wrapped /\ InUse(searches[i]))]]
    OBVIOUS
  <2>4. searches' = Append(others, q) /\ wrapped' = wrapped /\ open' = open /\ shared' = shared
    BY <1>1, <2>2, <2>3 DEF StartSearch, browserVars
  <2>5. PICK n : n = Len(searches)
    OBVIOUS
  <2>6. n \in Nat /\ DOMAIN searches = 1..n
    BY <1>00, <2>5
  <2>7. ASSUME NEW i \in 1..n
        PROVE  /\ SearchOK(others[i], wrapped) /\ OwnedBy(others[i], i, open, shared) /\ ~(others[i].alone /\ InUse(others[i]))
               /\ InUse(others[i]) => InUse(searches[i]) /\ wrapped
    <3>1. PICK p, r : p = searches[i] /\ r = others[i]
      OBVIOUS
    <3>2. SearchOK(p, wrapped) /\ OwnedBy(p, i, open, shared)
      BY <1>01, <2>6, <3>1
    <3>3. r = [p EXCEPT !.alone = p.alone /\ ~(wrapped /\ InUse(p))]
      BY <2>3, <2>6, <3>1
    <3>4. /\ DOMAIN r = SearchFields /\ r.at = p.at /\ r.stage = p.stage /\ r.left = p.left /\ r.found = p.found /\ r.min = p.min
          /\ r.unverified = p.unverified /\ r.relevant = p.relevant /\ r.onClosed = p.onClosed
          /\ r.alone = (p.alone /\ ~(wrapped /\ InUse(p)))
      BY <3>2, <3>3, Zenon DEF SearchOK, SearchFields
    <3>5. SearchOK(r, wrapped)
      BY <3>2, <3>4 DEF SearchOK
    <3>6. r.alone => p.alone /\ ~(wrapped /\ InUse(p))
      BY <3>4
    <3>7. InUse(p) => wrapped
      BY <3>2 DEF SearchOK, InUse
    <3>8. OwnedBy(r, i, open, shared)
      BY <3>2, <3>4, <3>6 DEF OwnedBy
    <3>9. InUse(r) => InUse(p)
      BY <3>4 DEF InUse
    <3> QED
      BY <3>1, <3>5, <3>6, <3>7, <3>8, <3>9
  <2>8. PICK S : S = {others[i] : i \in 1..n} \cup {q}
    OBVIOUS
  <2>9. others \in Seq(S) /\ q \in S /\ Len(others) = n
    <3>1. others \in [1..n -> S]
      BY <2>3, <2>6, <2>8
    <3> QED
      BY <2>6, <2>8, <3>1
  <2>10. /\ searches' \in Seq(S) /\ DOMAIN searches' = 1..(n + 1)
         /\ (\A i \in 1..n : searches'[i] = others[i]) /\ searches'[n + 1] = q
    BY <2>4, <2>9, Appended
  <2>11. Queries \in Nat /\ <<>> \in Seq(Titles)
    BY UseCasesAssumption
  <2>12. DOMAIN q = SearchFields
    BY <2>2 DEF SearchFields
  <2>13. q.left = Queries /\ q.onClosed = 0 /\ q.stage = 0 /\ q.found = <<>> /\ q.relevant = <<>> /\ q.at \in {"opening", "failed"}
         /\ (q.at # "failed" => wrapped)
    BY <2>2
  <2>14. q.left + q.onClosed <= Queries /\ q.left \in Nat /\ q.onClosed \in Nat /\ q.stage \in 0..3 /\ q.stage \in 0..2
    BY <2>11, <2>13
  <2>15. SearchOK(q, wrapped)
    BY <2>11, <2>12, <2>13, <2>14, NoneAnswerable DEF SearchOK
  <2>16. \A k : <<k, n + 1>> \notin open
    BY <2>6 DEF SearchInv
  <2>17. OwnedBy(q, n + 1, open, shared)
    BY <2>13, <2>16 DEF OwnedBy
  <2>18. q.alone => \A i \in 1..n : ~InUse(searches[i])
    BY <2>2, <2>6
  <2>19. ASSUME NEW i \in 1..(n + 1) PROVE SearchOK(searches'[i], wrapped) /\ OwnedBy(searches'[i], i, open, shared)
    <3>1. CASE i = n + 1
      BY <2>10, <2>15, <2>17, <3>1
    <3>2. CASE i \in 1..n
      BY <2>7, <2>10, <3>2
    <3> QED
      BY <2>6, <3>1, <3>2
  <2>20. ASSUME NEW a \in 1..(n + 1), NEW b \in 1..(n + 1), a # b PROVE NotBoth(searches'[a], searches'[b])
    <3>1. CASE a \in 1..n
      BY <2>7, <2>10, <3>1 DEF NotBoth
    <3>2. CASE a = n + 1
      <4>1. b \in 1..n /\ searches'[b] = others[b] /\ searches'[a] = q
        BY <2>6, <2>10, <2>20, <3>2
      <4> QED
        BY <2>7, <2>18, <4>1 DEF NotBoth
    <3> QED
      BY <2>6, <3>1, <3>2
  <2>21. open \subseteq (1..3) \X (1..(n + 1)) /\ DOMAIN shared = 1..3
    BY <2>6 DEF SearchInv
  <2> QED
    BY <2>4, <2>10, <2>19, <2>20, <2>21 DEF SearchInv
<1>2. ASSUME NEW s \in DOMAIN searches, Query(s) PROVE SearchInv'
  <2>0. PICK there \in BOOLEAN : there <=> <<3, shared[3]>> \in open
    OBVIOUS
  <2>1. PICK results, q :
          /\ results \in {<<>>} \cup (IF there THEN {<<t>> : t \in Titles} ELSE {})
          /\ q = [searches[s] EXCEPT !.left = @ - 1, !.found = @ \o results, !.onClosed = @ + (IF there THEN 0 ELSE 1)]
          /\ searches' = [searches EXCEPT ![s] = q]
    BY <1>2, <2>0 DEF Query
  <2>2. searches[s].at = "searching" /\ searches[s].left > 0 /\ wrapped' = wrapped /\ open' = open /\ shared' = shared
    BY <1>2 DEF Query, browserVars
  <2>3. SearchOK(searches[s], wrapped) /\ OwnedBy(searches[s], s, open, shared)
    BY <1>01
  <2>4. results \in Seq(Titles)
    <3>1. <<>> \in Seq(Titles) /\ \A t \in Titles : <<t>> \in Seq(Titles)
      OBVIOUS
    <3>2. results = <<>> \/ \E t \in Titles : results = <<t>>
      BY <2>1
    <3> QED
      BY <3>1, <3>2
  <2>5. /\ DOMAIN q = SearchFields /\ q.at = searches[s].at /\ q.min = searches[s].min /\ q.unverified = searches[s].unverified
        /\ q.relevant = searches[s].relevant /\ q.stage = searches[s].stage /\ q.alone = searches[s].alone
        /\ q.left = searches[s].left - 1 /\ q.onClosed = searches[s].onClosed + (IF there THEN 0 ELSE 1)
        /\ q.found = searches[s].found \o results
    BY <2>1, <2>3 DEF SearchOK, SearchFields
  <2>6. q.found \in Seq(Titles)
    BY <2>3, <2>4, <2>5 DEF SearchOK
  <2>7. q.left \in Nat /\ q.onClosed \in Nat /\ q.left + q.onClosed <= Queries
    BY <2>2, <2>3, <2>5, UseCasesAssumption DEF SearchOK
  <2>8. SearchOK(q, wrapped)
    BY <2>2, <2>3, <2>5, <2>6, <2>7 DEF SearchOK
  <2>9. q.alone => there
    <3>1. q.alone => shared[3] = s /\ <<3, s>> \in open
      BY <2>2, <2>3, <2>5 DEF OwnedBy
    <3> QED
      BY <2>0, <3>1
  <2>10. q.alone => q.onClosed = 0
    BY <2>3, <2>5, <2>9 DEF OwnedBy
  <2>11. OwnedBy(q, s, open', shared')
    BY <2>2, <2>3, <2>5, <2>10 DEF OwnedBy
  <2>12. /\ DOMAIN shared' = 1..3 /\ (InUse(q) => InUse(searches[s]))
         /\ (\A k, i : <<k, i>> \in open' => <<k, i>> \in open \/ (k \in 1..3 /\ i = s))
         /\ open' \subseteq open \cup ((1..3) \X {s})
         /\ (InUse(searches[s]) \/ (open' = open /\ shared' = shared))
    BY <2>2, <2>5 DEF SearchInv, InUse
  <2> QED
    BY <2>1, <2>2, <2>5, <2>8, <2>11, <2>12, SearchTurn
<1>3. ASSUME NEW s \in DOMAIN searches, NEW ok \in BOOLEAN, Initialize(s, ok) PROVE SearchInv'
  <2>0. PICK n : n = searches[s].stage
    OBVIOUS
  <2>1. PICK q : /\ q = [searches[s] EXCEPT !.at = IF ~ok THEN "failed" ELSE IF n = 2 THEN "searching" ELSE "opening",
                                            !.stage = IF ok THEN n + 1 ELSE n]
                 /\ searches' = [searches EXCEPT ![s] = q]
    BY <1>3, <2>0 DEF Initialize
  <2>2. /\ searches[s].at = "opening" /\ wrapped' = wrapped
        /\ open' = (IF ok THEN open \cup {<<n + 1, s>>} ELSE open)
        /\ shared' = (IF ok THEN [shared EXCEPT ![n + 1] = s] ELSE shared)
    BY <1>3, <2>0 DEF Initialize
  <2>3. SearchOK(searches[s], wrapped) /\ OwnedBy(searches[s], s, open, shared)
    BY <1>01
  <2>4. /\ DOMAIN q = SearchFields /\ q.min = searches[s].min
        /\ q.at = (IF ~ok THEN "failed" ELSE IF n = 2 THEN "searching" ELSE "opening")
        /\ q.stage = (IF ok THEN n + 1 ELSE n)
        /\ q.unverified = searches[s].unverified /\ q.relevant = searches[s].relevant /\ q.alone = searches[s].alone
        /\ q.left = searches[s].left /\ q.onClosed = searches[s].onClosed /\ q.found = searches[s].found
    BY <2>1, <2>3 DEF SearchOK, SearchFields
  <2>5. n \in 0..2 /\ wrapped
    BY <2>0, <2>2, <2>3 DEF SearchOK
  <2>6. SearchOK(q, wrapped)
    BY <2>3, <2>4, <2>5 DEF SearchOK
  <2>7. DOMAIN shared = 1..3 /\ DOMAIN shared' = 1..3
    BY <2>2 DEF SearchInv
  <2>8. OwnedBy(q, s, open', shared')
    <3>1. SUFFICES ASSUME q.alone PROVE OwnedBy(q, s, open', shared')
      BY DEF OwnedBy
    <3>2. /\ q.onClosed = 0 /\ (\A k \in 1..3 : <<k, s>> \in open => k <= n) /\ (\A k \in 1..n : shared[k] = s)
      BY <2>0, <2>2, <2>3, <2>4, <3>1 DEF OwnedBy
    <3>3. CASE ok
      <4>1. \A k \in 1..3 : <<k, s>> \in open' => k <= n + 1
        BY <2>2, <2>5, <3>2, <3>3
      <4>2. \A k \in 1..(n + 1) : shared'[k] = s
        BY <2>2, <2>5, <2>7, <3>2, <3>3
      <4>3. <<n + 1, s>> \in open'
        BY <2>2, <3>3
      <4>4. q.at = "searching" => n + 1 = 3
        BY <2>4, <3>3
      <4>5. q.stage = n + 1
        BY <2>4, <3>3
      <4> QED
        BY <3>2, <4>1, <4>2, <4>3, <4>4, <4>5 DEF OwnedBy
    <3>4. CASE ~ok
      BY <2>4, <3>2, <3>4 DEF OwnedBy
    <3> QED
      BY <3>3, <3>4
  <2>9. (\A k, i : <<k, i>> \in open' => <<k, i>> \in open \/ (k \in 1..3 /\ i = s)) /\ open' \subseteq open \cup ((1..3) \X {s})
    <3>1. <<n + 1, s>> \in (1..3) \X {s} /\ n + 1 \in 1..3
      BY <2>5
    <3> QED
      BY <2>2, <3>1
  <2>10. InUse(searches[s])
    BY <2>2 DEF InUse
  <2> QED
    BY <2>1, <2>2, <2>4, <2>6, <2>7, <2>8, <2>9, <2>10, SearchTurn
<1>4. ASSUME NEW s \in DOMAIN searches, NEW ok \in BOOLEAN, CloseBrowser(s, ok) PROVE SearchInv'
  <2>0. PICK n, r : n = searches[s].stage /\ r = (IF ok /\ n = 1 THEN Relevant(searches[s]) ELSE <<>>)
    OBVIOUS
  <2>1. PICK q : /\ q = [searches[s] EXCEPT !.at = IF ~ok THEN "failed" ELSE IF n = 1 THEN "summarizing" ELSE "searching",
                                            !.stage = IF ok THEN n - 1 ELSE n, !.relevant = r]
                 /\ searches' = [searches EXCEPT ![s] = q]
    BY <1>4, <2>0 DEF CloseBrowser
  <2>2. /\ searches[s].at = "searching" /\ searches[s].left = 0 /\ wrapped' = wrapped /\ shared' = shared
        /\ open' = (IF ok THEN open \ {<<k, shared[n]>> : k \in n..3} ELSE open)
    BY <1>4, <2>0 DEF CloseBrowser
  <2>3. SearchOK(searches[s], wrapped) /\ OwnedBy(searches[s], s, open, shared)
    BY <1>01
  <2>4. /\ DOMAIN q = SearchFields /\ q.min = searches[s].min
        /\ q.at = (IF ~ok THEN "failed" ELSE IF n = 1 THEN "summarizing" ELSE "searching")
        /\ q.stage = (IF ok THEN n - 1 ELSE n)
        /\ q.unverified = searches[s].unverified /\ q.relevant = r /\ q.alone = searches[s].alone
        /\ q.left = searches[s].left /\ q.onClosed = searches[s].onClosed /\ q.found = searches[s].found
    BY <2>1, <2>3 DEF SearchOK, SearchFields
  <2>5. n \in 1..3 /\ wrapped
    BY <2>0, <2>2, <2>3 DEF SearchOK
  <2>6. Answerable(q.relevant, q.min, q.unverified)
    <3>1. Answerable(Relevant(searches[s]), q.min, q.unverified)
      BY <2>3, <2>4, RelevantAnswerable DEF SearchOK
    <3> QED
      BY <2>0, <2>4, <3>1, NoneAnswerable
  <2>7. q.stage \in 0..3 /\ (q.at = "searching" => q.stage \in 1..3) /\ (q.at \in {"summarizing", "found"} => q.stage = 0)
        /\ q.at # "opening"
    BY <2>4, <2>5
  <2>8. SearchOK(q, wrapped)
    BY <2>3, <2>4, <2>5, <2>6, <2>7 DEF SearchOK
  <2>9. OwnedBy(q, s, open', shared')
    <3>1. SUFFICES ASSUME q.alone PROVE OwnedBy(q, s, open', shared')
      BY DEF OwnedBy
    <3>2. /\ q.onClosed = 0 /\ (\A k \in 1..3 : <<k, s>> \in open => k <= n) /\ (\A k \in 1..3 : shared[k] = s)
          /\ ~(q.left > 0)
      BY <2>0, <2>2, <2>3, <2>4, <3>1 DEF OwnedBy
    <3>3. ASSUME ok, NEW k \in 1..3, <<k, s>> \in open' PROVE k <= n - 1
      <4>1. shared[n] = s /\ <<k, s>> \in open /\ k <= n
        BY <2>2, <2>5, <3>2, <3>3
      <4>2. k # n
        BY <2>2, <2>5, <3>3, <4>1
      <4> QED
        BY <2>5, <4>1, <4>2
    <3>4. q.at \notin {"failed", "cancelled"} => ok /\ q.stage = n - 1
      BY <2>4
    <3> QED
      BY <2>2, <2>7, <3>2, <3>3, <3>4 DEF OwnedBy
  <2>10. (\A k, i : <<k, i>> \in open' => <<k, i>> \in open \/ (k \in 1..3 /\ i = s)) /\ open' \subseteq open \cup ((1..3) \X {s})
    BY <2>2
  <2>11. InUse(searches[s]) /\ DOMAIN shared' = 1..3
    BY <2>2 DEF InUse, SearchInv
  <2> QED
    BY <2>1, <2>2, <2>4, <2>8, <2>9, <2>10, <2>11, SearchTurn
<1>5. ASSUME NEW s \in DOMAIN searches, NEW last \in {"found", "failed", "cancelled"},
             \/ searches[s].at = "summarizing" \/ last = "cancelled",
             searches' = [searches EXCEPT ![s].at = last], UNCHANGED <<wrapped, browserVars>>
      PROVE  SearchInv'
  <2>1. PICK q : q = [searches[s] EXCEPT !.at = last] /\ searches' = [searches EXCEPT ![s] = q]
    BY <1>5
  <2>2. wrapped' = wrapped /\ open' = open /\ shared' = shared
    BY <1>5 DEF browserVars
  <2>3. SearchOK(searches[s], wrapped) /\ OwnedBy(searches[s], s, open, shared)
    BY <1>01
  <2>4. /\ DOMAIN q = SearchFields /\ q.at = last /\ q.min = searches[s].min /\ q.stage = searches[s].stage
        /\ q.unverified = searches[s].unverified /\ q.relevant = searches[s].relevant /\ q.alone = searches[s].alone
        /\ q.left = searches[s].left /\ q.onClosed = searches[s].onClosed /\ q.found = searches[s].found
    BY <2>1, <2>3 DEF SearchOK, SearchFields
  <2>5. SearchOK(q, wrapped)
    BY <1>5, <2>3, <2>4 DEF SearchOK
  <2>6. OwnedBy(q, s, open', shared') /\ (InUse(q) => InUse(searches[s]))
    BY <1>5, <2>2, <2>3, <2>4 DEF OwnedBy, InUse
  <2>7. /\ DOMAIN shared' = 1..3
        /\ (\A k, i : <<k, i>> \in open' => <<k, i>> \in open \/ (k \in 1..3 /\ i = s))
        /\ open' \subseteq open \cup ((1..3) \X {s})
    BY <2>2 DEF SearchInv
  <2> QED
    BY <2>1, <2>2, <2>4, <2>5, <2>6, <2>7, SearchTurn
<1>6. ASSUME NEW s \in DOMAIN searches, NEW ok \in BOOLEAN, Summarize(s, ok) PROVE SearchInv'
  <2>1. PICK last : last = IF ok THEN "found" ELSE "failed"
    OBVIOUS
  <2>2. last \in {"found", "failed", "cancelled"}
    BY <2>1
  <2>3. /\ searches[s].at = "summarizing" /\ searches' = [searches EXCEPT ![s].at = last] /\ UNCHANGED <<wrapped, browserVars>>
    BY <1>6, <2>1 DEF Summarize
  <2> QED
    BY <1>5, <2>2, <2>3
<1>7. ASSUME NEW s \in DOMAIN searches, CancelSearch(s) PROVE SearchInv'
  <2>1. searches' = [searches EXCEPT ![s].at = "cancelled"] /\ UNCHANGED <<wrapped, browserVars>>
    BY <1>7 DEF CancelSearch
  <2> QED
    BY <1>5, <2>1
<1>8. CASE UNCHANGED <<wrapped, searchVars>>
  <2>1. wrapped' = wrapped /\ open' = open /\ shared' = shared /\ searches' = searches
    BY <1>8 DEF searchVars, browserVars
  <2> QED
    BY <2>1 DEF SearchInv
<1>9. CASE SearchNext
  BY <1>1, <1>2, <1>3, <1>4, <1>6, <1>7, <1>9 DEF SearchNext
<1> QED
  BY <1>8, <1>9

LEMMA SearchHolds ==
  ASSUME SearchInv
  PROVE  /\ BrowserOwned /\ SearchAnswers
         /\ \A s \in DOMAIN searches :
              searches[s].stage \in 0..3 /\ searches[s].left + searches[s].onClosed <= Queries
<1>1. \A s \in DOMAIN searches : SearchOK(searches[s], wrapped) /\ OwnedBy(searches[s], s, open, shared)
  BY DEF SearchInv
<1>2. BrowserOwned
  <2>1. SUFFICES ASSUME NEW s \in DOMAIN searches, searches[s].alone
                 PROVE  /\ searches[s].onClosed = 0
                        /\ searches[s].at \in {"summarizing", "found"} => \A k \in 1..3 : <<k, s>> \notin open
    BY DEF BrowserOwned
  <2>2. SearchOK(searches[s], wrapped) /\ OwnedBy(searches[s], s, open, shared)
    BY <1>1
  <2> QED
    BY <2>1, <2>2 DEF SearchOK, OwnedBy
<1>3. SearchAnswers
  BY <1>1 DEF SearchAnswers, SearchOK, Answerable
<1> QED
  BY <1>1, <1>2, <1>3 DEF SearchOK

(***************************************************************************)
(* The other use cases: what each says was made is what was.               *)
(***************************************************************************)
AnswersInv ==
  /\ told = saved /\ asked \in Nat /\ asked <= MaxAnswers
  /\ answer.what = "trends" /\ answer.ok => answer.n = answer.of

LEMMA AnswersStart == UseCasesInit => AnswersInv
<1> SUFFICES ASSUME UseCasesInit PROVE AnswersInv
  OBVIOUS
<1>1. told = saved /\ asked = 0 /\ answer.what = "none"
  BY DEF UseCasesInit
<1>2. 0 \in Nat /\ 0 <= MaxAnswers
  BY UseCasesAssumption
<1> QED
  BY <1>1, <1>2 DEF AnswersInv

LEMMA Responded ==
  ASSUME AnswersInv, NEW what, NEW ok, NEW n, NEW of, NEW created, Respond(what, ok, n, of, created, created),
         what = "trends" /\ ok => n = of
  PROVE  AnswersInv'
<1>1. asked < MaxAnswers /\ asked' = asked + 1 /\ asked \in Nat /\ MaxAnswers \in Nat
  BY UseCasesAssumption DEF Respond, AnswersInv
<1>2. told' = saved'
  BY DEF Respond, AnswersInv
<1>3. answer'.what = what /\ answer'.ok = ok /\ answer'.n = n /\ answer'.of = of
  BY DEF Respond
<1>4. asked' \in Nat /\ asked' <= MaxAnswers
  BY <1>1
<1> QED
  BY <1>2, <1>3, <1>4 DEF AnswersInv

LEMMA AnswersSteps ==
  ASSUME AnswersInv, [OthersNext]_<<wrapped, answerVars>> PROVE AnswersInv'
<1>1. ASSUME NEW works \in BOOLEAN, GenerateReport(works) PROVE AnswersInv'
  <2>1. PICK ok, created : Respond("report", ok, 0, 0, created, created)
    BY <1>1, Zenon DEF GenerateReport
  <2> QED
    BY <2>1, Responded
<1>2. ASSUME NEW works \in BOOLEAN, LearnFromFeedback(works) PROVE AnswersInv'
  <2>1. Respond("learn", works, 0, 0, Nothing, Nothing)
    BY <1>2 DEF LearnFromFeedback, Answer
  <2> QED
    BY <2>1, Responded
<1>3. ASSUME NEW n, NEW several, UpdateIntelligence(n, several) PROVE AnswersInv'
  <2>1. PICK created : Respond("update", TRUE, 0, n, created, created)
    BY <1>3, Zenon DEF UpdateIntelligence
  <2> QED
    BY <2>1, Responded
<1>4. ASSUME NEW n, GetIntelligence(n) PROVE AnswersInv'
  <2>1. Respond("intelligence", wrapped, n, n, Nothing, Nothing)
    BY <1>4 DEF GetIntelligence, Answer
  <2> QED
    BY <2>1, Responded
<1>5. ASSUME NEW n, TrackActivity(n) PROVE AnswersInv'
  <2>1. PICK ok : Respond("track", ok, n, n, Nothing, Nothing)
    BY <1>5, Zenon DEF TrackActivity, Answer
  <2> QED
    BY <2>1, Responded
<1>6. ASSUME NEW markets, NEW peopled, NEW answered, AnalyzeTrends(markets, peopled, answered) PROVE AnswersInv'
  <2>1. PICK ok, n : /\ n = (IF ok THEN markets ELSE 0)
                     /\ Respond("trends", ok, n, markets, Nothing, Nothing)
    BY <1>6, Zenon DEF AnalyzeTrends, Answer
  <2> QED
    BY <2>1, Responded
<1>7. ASSUME NEW competitors, NEW known, NEW work, BuildGraph(competitors, known, work) PROVE AnswersInv'
  <2>1. PICK done, tried, created : Respond("graph", TRUE, done, tried, created, created)
    BY <1>7, Zenon DEF BuildGraph
  <2> QED
    BY <2>1, Responded
<1>8. CASE UNCHANGED <<wrapped, answerVars>>
  BY <1>8 DEF AnswersInv, answerVars
<1>9. CASE OthersNext
  BY <1>1, <1>2, <1>3, <1>4, <1>5, <1>6, <1>7, <1>9 DEF OthersNext
<1> QED
  BY <1>8, <1>9

LEMMA AnswersHold ==
  ASSUME AnswersInv PROVE ToldIsSaved /\ asked <= MaxAnswers
BY DEF AnswersInv, ToldIsSaved

-----------------------------------------------------------------------------
(* Learning: the algorithms on a series. A sum is followed from element to *)
(* element: p[k] is the sum of the first k.                                *)
Runs(p, n, w) == p \in [0..n -> Int] /\ p[0] = 0 /\ \A k \in 1..n : p[k] = p[k - 1] + w[k]

LEMMA Climb ==
  ASSUME NEW n \in Nat, NEW G, 0 \in G, \A k \in 1..n : k - 1 \in G => k \in G
  PROVE  n \in G
<1> DEFINE T == {k \in Nat : k <= n => k \in G}
<1>1. T \in SUBSET Nat /\ 0 \in T
  OBVIOUS
<1>2. ASSUME NEW k \in T PROVE k + 1 \in T
  <2>1. k \in Nat /\ (k <= n => k \in G) /\ k + 1 - 1 = k
    OBVIOUS
  <2>2. k + 1 <= n => k + 1 \in 1..n /\ k \in G
    BY <2>1
  <2> QED
    BY <2>1, <2>2
<1> HIDE DEF T
<1>3. T = Nat
  BY <1>1, <1>2, SetInduction
<1> QED
  BY <1>3 DEF T

PartSums(f, S, w) ==
  /\ f[{}] = 0 /\ SumOf(S, w) = f[S]
  /\ \A s \in SUBSET S : f[s] \in Int /\ \A y \in s : f[s] = f[s \ {y}] + w[y]

LEMMA SumParts ==
  ASSUME NEW S, IsFiniteSet(S), NEW w \in [S -> Int]
  PROVE  \E f : PartSums(f, S, w)
<1>1. PICK f : Adding(f, S, w)
  BY SumExists
<1>2. ASSUME NEW s \in SUBSET S PROVE f[s] \in Int /\ \A y \in s : f[s] = f[s \ {y}] + w[y]
  <2>1. \A x \in S : w[x] <= w[x]
    OBVIOUS
  <2> QED
    BY <1>1, <2>1, SumAnyOrder
<1>3. \A s \in SUBSET S : f[s] \in Int /\ \A y \in s : f[s] = f[s \ {y}] + w[y]
  BY <1>2
<1>4. f[{}] = 0 /\ SumOf(S, w) = f[S]
  BY <1>1, SumIs DEF Adding
<1> QED
  BY <1>3, <1>4 DEF PartSums

LEMMA SumRuns ==
  ASSUME NEW n \in Nat, NEW w \in [1..n -> Int]
  PROVE  \E p : Runs(p, n, w) /\ SumOf(1..n, w) = p[n]
<1>1. IsFiniteSet(1..n)
  BY FS_Interval
<1>2. PICK S : S = 1..n
  OBVIOUS
<1>3. IsFiniteSet(S) /\ w \in [S -> Int]
  BY <1>1, <1>2
<1>a. PICK f : PartSums(f, S, w)
  BY <1>3, SumParts
<1>4. /\ f[{}] = 0 /\ SumOf(S, w) = f[S]
      /\ \A s \in SUBSET S : f[s] \in Int /\ \A y \in s : f[s] = f[s \ {y}] + w[y]
  BY <1>a DEF PartSums
<1> DEFINE p == [k \in 0..n |-> f[1..k]]
<1>7. \A k \in 0..n : 1..k \in SUBSET S
  BY <1>2
<1>8. p \in [0..n -> Int]
  BY <1>4, <1>7
<1>9. p[0] = 0
  <2>1. 1..0 = {}
    OBVIOUS
  <2> QED
    BY <1>4, <2>1
<1>10. ASSUME NEW k \in 1..n PROVE p[k] = p[k - 1] + w[k]
  <2>1. k \in 0..n /\ k - 1 \in 0..n /\ k \in 1..k /\ (1..k) \ {k} = 1..(k - 1)
    OBVIOUS
  <2>2. f[1..k] = f[(1..k) \ {k}] + w[k]
    BY <1>4, <1>7, <2>1
  <2> QED
    BY <2>1, <2>2
<1>11. p[n] = f[S]
  BY <1>2
<1> HIDE DEF p
<1>12. Runs(p, n, w) /\ SumOf(1..n, w) = p[n]
  BY <1>2, <1>4, <1>8, <1>9, <1>10, <1>11 DEF Runs
<1> QED
  BY <1>12

LEMMA ListedIs ==
  ASSUME NEW n \in Nat, NEW S, NEW w \in [1..n -> S]
  PROVE  w \in Seq(S) /\ Len(w) = n /\ DOMAIN w = 1..n
OBVIOUS

LEMMA TotalRuns ==
  ASSUME NEW n \in Nat, NEW w \in [1..n -> Int]
  PROVE  \E p : Runs(p, n, w) /\ Total(w) = p[n] /\ Total(w) \in Int
<1>1. w \in Seq(Int) /\ DOMAIN w = 1..n
  BY ListedIs
<1>2. Total(w) = SumOf(1..n, w) /\ Total(w) \in Int
  BY <1>1, TotalIs
<1>3. PICK p : Runs(p, n, w) /\ SumOf(1..n, w) = p[n]
  BY SumRuns, Zenon
<1> QED
  BY <1>2, <1>3

LEMMA SquaresRun ==
  ASSUME NEW n \in Nat, NEW w \in [1..n -> Int]
  PROVE  \E p : /\ Runs(p, n, Squared(w)) /\ Squares(w) = p[n] /\ Squares(w) \in Int
                /\ \A i \in 1..n : Squared(w)[i] = w[i] * w[i]
<1>1. w \in Seq(Int) /\ DOMAIN w = 1..n
  BY ListedIs
<1>2. Squares(w) = SumOf(1..n, Squared(w)) /\ Squares(w) \in Int
  BY <1>1, SquaresIs
<1>3. Squared(w) \in [1..n -> Int] /\ \A i \in 1..n : Squared(w)[i] = w[i] * w[i]
  BY <1>1 DEF Squared
<1>4. PICK p : Runs(p, n, Squared(w)) /\ SumOf(1..n, Squared(w)) = p[n]
  BY <1>3, SumRuns, Zenon
<1> QED
  BY <1>2, <1>3, <1>4

(* Halves and thirds that come out even.                                   *)
LEMMA Triangle ==
  ASSUME NEW n \in Nat
  PROVE  (n * (n - 1)) \div 2 \in Int /\ 2 * ((n * (n - 1)) \div 2) = n * (n - 1)
<1> DEFINE G == {k \in Nat : \E y \in Int : 2 * y = k * (k - 1)}
<1>1. 0 \in G
  <2>1. 2 * 0 = 0 * (0 - 1)
    OBVIOUS
  <2> QED
    BY <2>1
<1>2. ASSUME NEW k \in 1..n, k - 1 \in G PROVE k \in G
  <2>1. PICK y \in Int : 2 * y = (k - 1) * ((k - 1) - 1)
    BY <1>2
  <2>2. k \in Nat /\ y + (k - 1) \in Int /\ 2 * (y + (k - 1)) = k * (k - 1)
    BY <2>1
  <2> QED
    BY <2>2
<1> HIDE DEF G
<1>3. n \in G
  BY <1>1, <1>2, Climb
<1>4. PICK y \in Int : 2 * y = n * (n - 1)
  BY <1>3 DEF G
<1>5. (2 * y) \div 2 = y
  OBVIOUS
<1> QED
  BY <1>4, <1>5

LEMMA Pyramid ==
  ASSUME NEW n \in Nat
  PROVE  /\ (n * (n - 1) * (2 * n - 1)) \div 6 \in Int
         /\ 6 * ((n * (n - 1) * (2 * n - 1)) \div 6) = n * (n - 1) * (2 * n - 1)
<1> DEFINE G == {k \in Nat : \E y \in Int : 6 * y = k * (k - 1) * (2 * k - 1)}
<1>1. 0 \in G
  <2>1. 6 * 0 = 0 * (0 - 1) * (2 * 0 - 1)
    OBVIOUS
  <2> QED
    BY <2>1
<1>2. ASSUME NEW k \in 1..n, k - 1 \in G PROVE k \in G
  <2>1. PICK j \in Nat : k = j + 1
    <3>1. k - 1 \in Nat /\ k = (k - 1) + 1
      OBVIOUS
    <3> QED
      BY <3>1
  <2>2. PICK y \in Int : 6 * y = j * (j - 1) * (2 * j - 1)
    BY <1>2, <2>1
  <2>3. PICK jj, jjj : jj = j * j /\ jjj = j * jj
    OBVIOUS
  <2>4. jj \in Int /\ jjj \in Int
    BY <2>3
  <2>5. j * (j - 1) * (2 * j - 1) = 2 * jjj - 3 * jj + j
    BY <2>3
  <2>6. k * (k - 1) * (2 * k - 1) = 2 * jjj + 3 * jj + j
    BY <2>1, <2>3
  <2>7. k \in Nat /\ y + jj \in Int /\ 6 * (y + jj) = k * (k - 1) * (2 * k - 1)
    BY <2>2, <2>4, <2>5, <2>6
  <2> QED
    BY <2>7
<1> HIDE DEF G
<1>3. n \in G
  BY <1>1, <1>2, Climb
<1>4. PICK y \in Int : 6 * y = n * (n - 1) * (2 * n - 1)
  BY <1>3 DEF G
<1>5. (6 * y) \div 6 = y
  OBVIOUS
<1> QED
  BY <1>4, <1>5
-----------------------------------------------------------------------------
LEMMA LastAll ==
  ASSUME NEW S, NEW s \in Seq(S), NEW n \in Nat, Len(s) <= n
  PROVE  LastOf(s, n) = s
<1>1. PICK l, a : l = Len(s) /\ a = l - n + 1
  OBVIOUS
<1>2. l \in Nat /\ a \in Int /\ a <= 1
  BY <1>1
<1>3. Max({1, a}) = 1
  BY <1>2, OfTwo
<1>4. SubSeq(s, 1, l) = s
  BY <1>1, Beginnings
<1> QED
  BY <1>1, <1>3, <1>4 DEF LastOf

TurnsRound(v, w, n) == \A i \in 1..n : v[i] = w[n - i + 1]

LEMMA Turned ==
  ASSUME NEW S, NEW s \in Seq(S), NEW n, n = Len(s)
  PROVE  /\ n \in Nat /\ Reverse(s) \in Seq(S) /\ Len(Reverse(s)) = n
         /\ s \in [1..n -> S] /\ Reverse(s) \in [1..n -> S] /\ TurnsRound(Reverse(s), s, n)
<1>1. n \in Nat /\ DOMAIN s = 1..n /\ s \in [1..n -> S]
  BY ListDomain
<1>2. \A i \in 1..n : n - i + 1 \in 1..n
  BY <1>1
<1>3. PICK t : t = Reverse(s)
  OBVIOUS
<1>4. t = [i \in 1..n |-> s[(n - i) + 1]]
  BY <1>3 DEF Reverse
<1>5. t \in [1..n -> S] /\ \A i \in 1..n : t[i] = s[n - i + 1]
  BY <1>1, <1>2, <1>4
<1>6. t \in Seq(S) /\ Len(t) = n
  BY <1>1, <1>5, ListedIs
<1> QED
  BY <1>1, <1>3, <1>5, <1>6 DEF TurnsRound

(* A list turned round has the sum it had.                                 *)
RunsBack(q, p, n) == \A k \in 0..n : q[k] = p[n] - p[n - k]

LEMMA TurnedRuns ==
  ASSUME NEW n \in Nat, NEW w \in [1..n -> Int], NEW v \in [1..n -> Int], TurnsRound(v, w, n),
         NEW p, Runs(p, n, w), NEW q, Runs(q, n, v)
  PROVE  RunsBack(q, p, n)
<1> DEFINE G == {k \in 0..n : q[k] = p[n] - p[n - k]}
<1>1. /\ p \in [0..n -> Int] /\ p[0] = 0 /\ \A k \in 1..n : p[k] = p[k - 1] + w[k]
      /\ q \in [0..n -> Int] /\ q[0] = 0 /\ \A k \in 1..n : q[k] = q[k - 1] + v[k]
  BY DEF Runs
<1>2. 0 \in G
  BY <1>1
<1>3. ASSUME NEW k \in 1..n, k - 1 \in G PROVE k \in G
  <2>1. PICK j : j = n - k + 1
    OBVIOUS
  <2>2. j \in 1..n /\ j - 1 = n - k /\ n - (k - 1) = j /\ k \in 0..n
    BY <2>1
  <2>3. p[j] = p[n - k] + w[j] /\ v[k] = w[j] /\ q[k] = q[k - 1] + v[k]
    BY <1>1, <2>1, <2>2 DEF TurnsRound
  <2>4. q[k - 1] = p[n] - p[j]
    BY <1>3, <2>2
  <2>5. p[n] \in Int /\ p[j] \in Int /\ p[n - k] \in Int /\ w[j] \in Int
    BY <1>1, <2>2
  <2> QED
    BY <2>2, <2>3, <2>4, <2>5
<1> HIDE DEF G
<1>4. ASSUME NEW m \in 0..n PROVE m \in G
  <2>1. \A k \in 1..m : k \in 1..n
    OBVIOUS
  <2>2. \A k \in 1..m : k - 1 \in G => k \in G
    BY <1>3, <2>1
  <2> QED
    BY <1>2, <2>2, Climb
<1> QED
  BY <1>4 DEF G, RunsBack

LEMMA TotalTurned ==
  ASSUME NEW n \in Nat, NEW w \in [1..n -> Int], NEW v \in [1..n -> Int], TurnsRound(v, w, n)
  PROVE  Total(v) = Total(w) /\ Total(w) \in Int
<1>1. PICK p : Runs(p, n, w) /\ Total(w) = p[n] /\ Total(w) \in Int
  BY TotalRuns
<1>2. PICK q : Runs(q, n, v) /\ Total(v) = q[n] /\ Total(v) \in Int
  BY TotalRuns
<1>3. q[n] = p[n] - p[0]
  <2>1. n \in 0..n /\ n - n = 0
    OBVIOUS
  <2>2. RunsBack(q, p, n)
    BY <1>1, <1>2, TurnedRuns
  <2> QED
    BY <2>1, <2>2 DEF RunsBack
<1>4. p[0] = 0
  BY <1>1 DEF Runs
<1> QED
  BY <1>1, <1>2, <1>3, <1>4

AddsEach(u, w, v, n) == \A i \in 1..n : u[i] = w[i] + v[i]

LEMMA TotalAdded ==
  ASSUME NEW n \in Nat, NEW w \in [1..n -> Int], NEW v \in [1..n -> Int], NEW u \in [1..n -> Int], AddsEach(u, w, v, n)
  PROVE  Total(u) = Total(w) + Total(v) /\ Total(w) \in Int /\ Total(v) \in Int
<1>1. PICK p : Runs(p, n, w) /\ Total(w) = p[n] /\ Total(w) \in Int
  BY TotalRuns
<1>2. PICK q : Runs(q, n, v) /\ Total(v) = q[n] /\ Total(v) \in Int
  BY TotalRuns
<1>3. PICK r : Runs(r, n, u) /\ Total(u) = r[n] /\ Total(u) \in Int
  BY TotalRuns
<1> DEFINE G == {k \in 0..n : r[k] = p[k] + q[k]}
<1>4. /\ p \in [0..n -> Int] /\ p[0] = 0 /\ \A k \in 1..n : p[k] = p[k - 1] + w[k]
      /\ q \in [0..n -> Int] /\ q[0] = 0 /\ \A k \in 1..n : q[k] = q[k - 1] + v[k]
      /\ r \in [0..n -> Int] /\ r[0] = 0 /\ \A k \in 1..n : r[k] = r[k - 1] + u[k]
  BY <1>1, <1>2, <1>3 DEF Runs
<1>5. 0 \in G
  BY <1>4
<1>6. ASSUME NEW k \in 1..n, k - 1 \in G PROVE k \in G
  BY <1>4, <1>6 DEF AddsEach
<1> HIDE DEF G
<1>7. n \in G
  BY <1>5, <1>6, Climb
<1> QED
  BY <1>1, <1>2, <1>3, <1>7 DEF G

(* 0 + 1 + ... + (n - 1), and n times 1.                                   *)
LEMMA TotalCounts ==
  ASSUME NEW n \in Nat
  PROVE  /\ Total([i \in 1..n |-> 1]) = n
         /\ Total([i \in 1..n |-> i - 1]) = (n * (n - 1)) \div 2
<1>1. PICK w, v : w = [i \in 1..n |-> 1] /\ v = [i \in 1..n |-> i - 1]
  OBVIOUS
<1>2. w \in [1..n -> Int] /\ v \in [1..n -> Int] /\ \A i \in 1..n : w[i] = 1 /\ v[i] = i - 1
  BY <1>1
<1>3. PICK p : Runs(p, n, w) /\ Total(w) = p[n] /\ Total(w) \in Int
  BY <1>2, TotalRuns
<1>4. PICK q : Runs(q, n, v) /\ Total(v) = q[n] /\ Total(v) \in Int
  BY <1>2, TotalRuns
<1> DEFINE G == {k \in 0..n : p[k] = k /\ 2 * q[k] = k * (k - 1)}
<1>5. /\ p \in [0..n -> Int] /\ p[0] = 0 /\ \A k \in 1..n : p[k] = p[k - 1] + w[k]
      /\ q \in [0..n -> Int] /\ q[0] = 0 /\ \A k \in 1..n : q[k] = q[k - 1] + v[k]
  BY <1>3, <1>4 DEF Runs
<1>6. 0 \in G
  BY <1>5
<1>7. ASSUME NEW k \in 1..n, k - 1 \in G PROVE k \in G
  <2>1. k \in 0..n /\ k - 1 \in 0..n /\ k \in Int
    OBVIOUS
  <2>2. p[k - 1] = k - 1 /\ 2 * q[k - 1] = (k - 1) * ((k - 1) - 1) /\ q[k - 1] \in Int
    BY <1>5, <1>7, <2>1
  <2>3. p[k] = p[k - 1] + 1 /\ q[k] = q[k - 1] + (k - 1)
    BY <1>2, <1>5
  <2>4. (k - 1) * ((k - 1) - 1) + 2 * (k - 1) = k * (k - 1)
    OBVIOUS
  <2>5. p[k] = k /\ 2 * q[k] = k * (k - 1)
    BY <2>1, <2>2, <2>3, <2>4
  <2> QED
    BY <2>1, <2>5
<1> HIDE DEF G
<1>8. n \in G
  BY <1>6, <1>7, Climb
<1>9. p[n] = n /\ 2 * q[n] = n * (n - 1)
  BY <1>8 DEF G
<1>10. PICK y : y = (n * (n - 1)) \div 2
  OBVIOUS
<1>11. y \in Int /\ 2 * y = n * (n - 1)
  BY <1>10, Triangle
<1>12. q[n] = y
  BY <1>4, <1>9, <1>11
<1> QED
  BY <1>1, <1>3, <1>4, <1>9, <1>10, <1>12

(* polyfit: the slope of what is turned round is the opposite one; of what *)
(* is shifted it is the same. Its denominator is not negative.             *)
Placed(s) == [i \in DOMAIN s |-> (i - 1) * s[i]]

SlopesSo(s, n, xs) ==
         /\ xs \in Int /\ 2 * xs = n * (n - 1) /\ Placed(s) \in [1..n -> Int]
         /\ \A i \in 1..n : Placed(s)[i] = (i - 1) * s[i]
         /\ Total(s) \in Int /\ Total(Placed(s)) \in Int
         /\ Slope(s)[1] = n * Total(Placed(s)) - xs * Total(s)
         /\ Slope(s)[2] = n * ((n * (n - 1) * (2 * n - 1)) \div 6) - xs * xs
         /\ Slope(s)[1] \in Int /\ Slope(s)[2] \in Int /\ Slope(s)[2] >= 0

LEMMA SlopeIs ==
  ASSUME NEW n \in Nat, NEW s \in [1..n -> Int], NEW xs, xs = (n * (n - 1)) \div 2
  PROVE  SlopesSo(s, n, xs)
<1>1. xs \in Int /\ 2 * xs = n * (n - 1)
  BY Triangle
<1>2. DOMAIN s = 1..n /\ Len(s) = n
  BY ListedIs
<1>3. Placed(s) \in [1..n -> Int] /\ \A i \in 1..n : Placed(s)[i] = (i - 1) * s[i]
  <2>1. \A i \in 1..n : (i - 1) * s[i] \in Int
    OBVIOUS
  <2> QED
    BY <1>2, <2>1 DEF Placed
<1>4. Total(s) \in Int
  BY TotalRuns
<1>5. Total(Placed(s)) \in Int
  BY <1>3, TotalRuns
<1>6. PICK y : y = (n * (n - 1) * (2 * n - 1)) \div 6
  OBVIOUS
<1>7. y \in Int /\ 6 * y = n * (n - 1) * (2 * n - 1)
  BY <1>6, Pyramid
<1>8. Slope(s)[1] = n * Total(Placed(s)) - xs * Total(s) /\ Slope(s)[2] = n * y - xs * xs
  BY <1>2, <1>6 DEF Slope, Placed
<1>9. n * y - xs * xs >= 0
  <2>1. PICK m, a, b : m = n * n /\ a = n * y /\ b = xs * xs
    OBVIOUS
  <2>2. m \in Int /\ a \in Int /\ b \in Int /\ m >= n
    <3>1. n = 0 \/ n >= 1
      OBVIOUS
    <3> QED
      BY <1>1, <1>7, <2>1, <3>1
  <2>3. 4 * b = (2 * xs) * (2 * xs)
    BY <1>1, <2>1
  <2>4. 6 * a = n * (6 * y)
    BY <1>7, <2>1
  <2>5. 2 * xs = m - n
    BY <1>1, <2>1
  <2>6. 4 * b = (m - n) * (m - n)
    BY <2>3, <2>5
  <2>7. PICK mn, mm : mn = m * n /\ mm = m * m
    OBVIOUS
  <2>8. mn \in Int /\ mm \in Int /\ (m - n) * (m - n) = mm - 2 * mn + m
    BY <2>1, <2>2, <2>7
  <2>9. 6 * y = 2 * mn - 3 * m + n
    <3>1. n * (n - 1) * (2 * n - 1) = 2 * (m * n) - 3 * m + n
      BY <2>1
    <3> QED
      BY <1>7, <2>7, <3>1
  <2>10. n * (2 * mn - 3 * m + n) = 2 * mm - 3 * mn + m
    <3>1. n * mn = mm /\ n * m = mn /\ n * n = m
      BY <2>1, <2>7
    <3>2. n * (2 * mn - 3 * m + n) = 2 * (n * mn) - 3 * (n * m) + n * n
      BY <2>2, <2>8
    <3> QED
      BY <3>1, <3>2
  <2>11. 12 * (a - b) = mm - m
    BY <2>2, <2>4, <2>6, <2>8, <2>9, <2>10
  <2>12. mm >= m
    <3>1. m = 0 \/ m >= 1
      BY <2>2
    <3> QED
      BY <2>2, <2>7, <3>1
  <2> QED
    BY <2>1, <2>2, <2>8, <2>11, <2>12
<1>10. n * Total(Placed(s)) - xs * Total(s) \in Int /\ n * y - xs * xs \in Int
  BY <1>1, <1>4, <1>5, <1>7
<1> QED
  BY <1>1, <1>3, <1>4, <1>5, <1>6, <1>8, <1>9, <1>10 DEF SlopesSo

LEMMA SlopeTurned ==
  ASSUME NEW n \in Nat, NEW s \in [1..n -> Int], NEW t \in [1..n -> Int], TurnsRound(t, s, n)
  PROVE  Slope(t)[1] = -Slope(s)[1] /\ Slope(t)[2] = Slope(s)[2]
<1>1. PICK xs : xs = (n * (n - 1)) \div 2
  OBVIOUS
<1>a. SlopesSo(s, n, xs)
  BY <1>1, SlopeIs
<1>b. SlopesSo(t, n, xs)
  BY <1>1, SlopeIs
<1>2. /\ xs \in Int /\ 2 * xs = n * (n - 1) /\ Placed(s) \in [1..n -> Int]
      /\ \A i \in 1..n : Placed(s)[i] = (i - 1) * s[i]
      /\ Slope(s)[1] = n * Total(Placed(s)) - xs * Total(s)
      /\ Slope(s)[2] = n * ((n * (n - 1) * (2 * n - 1)) \div 6) - xs * xs
  BY <1>a DEF SlopesSo
<1>3. /\ Placed(t) \in [1..n -> Int] /\ \A i \in 1..n : Placed(t)[i] = (i - 1) * t[i]
      /\ Slope(t)[1] = n * Total(Placed(t)) - xs * Total(t)
      /\ Slope(t)[2] = n * ((n * (n - 1) * (2 * n - 1)) \div 6) - xs * xs
  BY <1>b DEF SlopesSo
<1>4. PICK w, v : w = Placed(s) /\ v = Placed(t)
  OBVIOUS
<1>5. /\ w \in [1..n -> Int] /\ \A i \in 1..n : w[i] = (i - 1) * s[i]
      /\ v \in [1..n -> Int] /\ \A i \in 1..n : v[i] = (i - 1) * t[i]
  BY <1>2, <1>3, <1>4
<1>6. PICK p : Runs(p, n, s) /\ Total(s) = p[n] /\ Total(s) \in Int
  BY TotalRuns
<1>7. PICK q : Runs(q, n, t) /\ Total(t) = q[n] /\ Total(t) \in Int
  BY TotalRuns
<1>8. PICK P : Runs(P, n, w) /\ Total(w) = P[n] /\ Total(w) \in Int
  BY <1>5, TotalRuns
<1>9. PICK Q : Runs(Q, n, v) /\ Total(v) = Q[n] /\ Total(v) \in Int
  BY <1>5, TotalRuns
<1>10. RunsBack(q, p, n)
  BY <1>6, <1>7, TurnedRuns
<1>11. /\ p \in [0..n -> Int] /\ p[0] = 0 /\ \A k \in 1..n : p[k] = p[k - 1] + s[k]
       /\ P \in [0..n -> Int] /\ P[0] = 0 /\ \A k \in 1..n : P[k] = P[k - 1] + w[k]
       /\ Q \in [0..n -> Int] /\ Q[0] = 0 /\ \A k \in 1..n : Q[k] = Q[k - 1] + v[k]
  BY <1>6, <1>8, <1>9 DEF Runs
<1> DEFINE G == {k \in 0..n : Q[k] = (n - 1) * (p[n] - p[n - k]) - (P[n] - P[n - k])}
<1>12. 0 \in G
  <2>1. n - 0 = n /\ p[n] - p[n] = 0 /\ P[n] - P[n] = 0 /\ (n - 1) * 0 = 0
    BY <1>11
  <2> QED
    BY <1>11, <2>1
<1>13. ASSUME NEW k \in 1..n, k - 1 \in G PROVE k \in G
  <2>1. PICK j, x : j = n - k + 1 /\ x = s[j]
    OBVIOUS
  <2>2. j \in 1..n /\ j - 1 = n - k /\ n - (k - 1) = j /\ k \in 0..n /\ x \in Int /\ n - k \in 0..n /\ j \in 0..n /\ n \in 0..n
    BY <2>1
  <2>3. PICK a, b, c, d, e : a = p[n - k] /\ b = p[n] /\ c = P[n - k] /\ d = P[n] /\ e = Q[k - 1]
    OBVIOUS
  <2>4. a \in Int /\ b \in Int /\ c \in Int /\ d \in Int /\ e \in Int
    <3>1. k - 1 \in 0..n
      OBVIOUS
    <3> QED
      BY <1>11, <2>2, <2>3, <3>1
  <2>5. p[j] = a + x /\ P[j] = c + (j - 1) * x
    BY <1>5, <1>11, <2>1, <2>2, <2>3
  <2>6. Q[k] = e + (k - 1) * x
    <3>1. t[k] = x
      BY <2>1 DEF TurnsRound
    <3> QED
      BY <1>5, <1>11, <2>3, <3>1
  <2>7. e = (n - 1) * (b - p[j]) - (d - P[j])
    BY <1>13, <2>2, <2>3
  <2>8. PICK nx, kx, r : nx = n * x /\ kx = k * x /\ r = (n - 1) * (b - a)
    OBVIOUS
  <2>9. nx \in Int /\ kx \in Int /\ r \in Int
    BY <2>2, <2>4, <2>8
  <2>10. (j - 1) * x = nx - kx /\ (k - 1) * x = kx - x /\ (n - 1) * (b - (a + x)) = r - nx + x
    <3>1. (n - k) * x = nx - kx /\ (k - 1) * x = kx - x /\ (n - 1) * (b - (a + x)) = (n - 1) * (b - a) - n * x + x
      BY <2>2, <2>4, <2>8
    <3> QED
      BY <2>2, <2>8, <3>1
  <2>11. Q[k] = r - (d - c)
    BY <2>2, <2>4, <2>5, <2>6, <2>7, <2>9, <2>10
  <2> QED
    BY <2>2, <2>3, <2>8, <2>11
<1> HIDE DEF G
<1>14. n \in G
  BY <1>12, <1>13, Climb
<1>15. PICK b, d : b = p[n] /\ d = P[n]
  OBVIOUS
<1>16. b \in Int /\ d \in Int
  BY <1>6, <1>8, <1>15
<1>17. q[n] = b /\ Q[n] = (n - 1) * b - d
  <2>1. n \in 0..n /\ n - n = 0
    OBVIOUS
  <2>2. q[n] = p[n] - p[n - n]
    BY <1>10, <2>1 DEF RunsBack
  <2>3. Q[n] = (n - 1) * (p[n] - p[n - n]) - (P[n] - P[n - n])
    BY <1>14 DEF G
  <2> QED
    BY <1>11, <1>15, <1>16, <2>1, <2>2, <2>3
<1>18. n * ((n - 1) * b - d) - xs * b = -(n * d - xs * b)
  <2>1. PICK nd, xb, nb, nnb : nd = n * d /\ xb = xs * b /\ nb = n * b /\ nnb = n * nb
    OBVIOUS
  <2>2. nd \in Int /\ xb \in Int /\ nb \in Int /\ nnb \in Int
    BY <1>2, <1>16, <2>1
  <2>3. n * ((n - 1) * b - d) = nnb - nb - nd
    BY <1>16, <2>1
  <2>4. 2 * xb = (2 * xs) * b
    BY <1>2, <1>16, <2>1
  <2>5. (n * (n - 1)) * b = nnb - nb
    BY <1>16, <2>1
  <2>6. 2 * xb = nnb - nb
    BY <1>2, <2>4, <2>5
  <2>7. n * ((n - 1) * b - d) - xb = -(nd - xb)
    BY <2>2, <2>3, <2>6
  <2> QED
    BY <2>1, <2>7
<1>19. Slope(t)[1] = n * Q[n] - xs * q[n] /\ Slope(s)[1] = n * d - xs * b
  BY <1>2, <1>3, <1>4, <1>6, <1>7, <1>8, <1>9, <1>15
<1> QED
  BY <1>2, <1>3, <1>17, <1>18, <1>19

LEMMA SlopeShifted ==
  ASSUME NEW n \in Nat, NEW s \in [1..n -> Int], NEW m \in [1..n -> Int], \A i \in 1..n : m[i] = s[i] + 1
  PROVE  Slope(m)[1] = Slope(s)[1] /\ Slope(m)[2] = Slope(s)[2]
<1>1. PICK xs : xs = (n * (n - 1)) \div 2
  OBVIOUS
<1>a. SlopesSo(s, n, xs)
  BY <1>1, SlopeIs
<1>b. SlopesSo(m, n, xs)
  BY <1>1, SlopeIs
<1>2. /\ xs \in Int /\ 2 * xs = n * (n - 1) /\ Placed(s) \in [1..n -> Int]
      /\ \A i \in 1..n : Placed(s)[i] = (i - 1) * s[i]
      /\ Slope(s)[1] = n * Total(Placed(s)) - xs * Total(s)
      /\ Slope(s)[2] = n * ((n * (n - 1) * (2 * n - 1)) \div 6) - xs * xs
  BY <1>a DEF SlopesSo
<1>3. /\ Placed(m) \in [1..n -> Int] /\ \A i \in 1..n : Placed(m)[i] = (i - 1) * m[i]
      /\ Slope(m)[1] = n * Total(Placed(m)) - xs * Total(m)
      /\ Slope(m)[2] = n * ((n * (n - 1) * (2 * n - 1)) \div 6) - xs * xs
  BY <1>b DEF SlopesSo
<1>4. PICK w, v, y, z : w = Placed(s) /\ v = Placed(m) /\ y = [i \in 1..n |-> i - 1] /\ z = [i \in 1..n |-> 1]
  OBVIOUS
<1>c. z \in [1..n -> Int] /\ AddsEach(m, s, z, n)
  BY <1>4 DEF AddsEach
<1>5. w \in [1..n -> Int] /\ v \in [1..n -> Int] /\ y \in [1..n -> Int]
  BY <1>2, <1>3, <1>4
<1>6. AddsEach(v, w, y, n)
  <2>1. ASSUME NEW i \in 1..n PROVE v[i] = w[i] + y[i]
    <3>1. v[i] = (i - 1) * (s[i] + 1) /\ w[i] = (i - 1) * s[i] /\ y[i] = i - 1 /\ s[i] \in Int
      BY <1>2, <1>3, <1>4
    <3> QED
      BY <3>1
  <2> QED
    BY <2>1 DEF AddsEach
<1>7. Total(y) = xs /\ Total(z) = n
  BY <1>1, <1>4, TotalCounts
<1>8. Total(m) = Total(s) + n /\ Total(s) \in Int
  <2>1. Total(m) = Total(s) + Total(z) /\ Total(s) \in Int
    BY <1>c, TotalAdded
  <2> QED
    BY <1>7, <2>1
<1>9. Total(v) = Total(w) + xs /\ Total(w) \in Int
  <2>1. Total(v) = Total(w) + Total(y) /\ Total(w) \in Int
    BY <1>5, <1>6, TotalAdded, Zenon
  <2> QED
    BY <1>7, <2>1
<1>10. PICK a, b : a = Total(w) /\ b = Total(s)
  OBVIOUS
<1>11. n * (a + xs) - xs * (b + n) = n * a - xs * b
  BY <1>2, <1>8, <1>9, <1>10
<1> QED
  BY <1>2, <1>3, <1>4, <1>8, <1>9, <1>10, <1>11

(* A rise is a fall when it is read from the end.                          *)
LEMMA TrendTurns ==
  ASSUME NEW s \in Seq(Nat), Len(s) \in 3..TrendWindow
  PROVE  Trend(s) = "upward" <=> Trend(Reverse(s)) = "downward"
<1>1. PICK n, t : n = Len(s) /\ t = Reverse(s)
  OBVIOUS
<1>2. /\ n \in Nat /\ t \in Seq(Nat) /\ Len(t) = n /\ s \in [1..n -> Nat] /\ t \in [1..n -> Nat]
      /\ TurnsRound(t, s, n)
  BY <1>1, Turned
<1>3. s \in [1..n -> Int] /\ t \in [1..n -> Int]
  BY <1>2
<1>4. PICK a, b : a = Slope(s)[1] /\ b = Slope(s)[2]
  OBVIOUS
<1>5. Slope(t)[1] = -a /\ Slope(t)[2] = b
  BY <1>2, <1>3, <1>4, SlopeTurned
<1>6. a \in Int /\ b \in Int /\ b >= 0
  <2>1. PICK xs : xs = (n * (n - 1)) \div 2
    OBVIOUS
  <2>2. SlopesSo(s, n, xs)
    BY <1>2, <1>3, <2>1, SlopeIs
  <2> QED
    BY <1>4, <2>2 DEF SlopesSo
<1>7. TrendWindow \in Nat /\ n <= TrendWindow /\ ~(n < 3)
  BY <1>1, LearningAssumption
<1>8. LastOf(s, TrendWindow) = s /\ LastOf(t, TrendWindow) = t
  BY <1>1, <1>2, <1>7, LastAll
<1>9. Trend(s) = IF 100 * a > b THEN "upward" ELSE IF 100 * a < -b THEN "downward" ELSE "stable"
  BY <1>1, <1>4, <1>7, <1>8 DEF Trend
<1>10. Trend(t) = IF 100 * (-a) > b THEN "upward" ELSE IF 100 * (-a) < -b THEN "downward" ELSE "stable"
  BY <1>2, <1>5, <1>7, <1>8 DEF Trend
<1>11. CASE 100 * a > b
  <2>1. ~(100 * (-a) > b) /\ 100 * (-a) < -b
    BY <1>6, <1>11
  <2> QED
    BY <1>1, <1>9, <1>10, <1>11, <2>1
<1>12. CASE ~(100 * a > b)
  <2>1. ~(100 * (-a) < -b)
    BY <1>6, <1>12
  <2>2. Trend(s) # "upward" /\ Trend(t) # "downward"
    BY <1>9, <1>10, <1>12, <2>1
  <2> QED
    BY <1>1, <2>2
<1> QED
  BY <1>11, <1>12

PartSo(r, s, f, l) ==
  r \in Seq(Int) /\ Len(r) = l /\ DOMAIN r = 1..l /\ \A i \in 1..l : f + i - 1 \in DOMAIN s /\ r[i] = s[f + i - 1]

LEMMA PartIs ==
  ASSUME NEW s \in Seq(Int), NEW f \in Nat \ {0}, NEW b \in Nat, f <= b + 1, b <= Len(s)
  PROVE  PartSo(SubSeq(s, f, b), s, f, b - f + 1)
<1>1. PICK r : r = SubSeq(s, f, b)
  OBVIOUS
<1>2. /\ r \in Seq(Int) /\ Len(r) = (IF f <= b THEN b - f + 1 ELSE 0) /\ DOMAIN r = 1..Len(r)
      /\ \A i \in DOMAIN r : f + i - 1 \in DOMAIN s /\ r[i] = s[f + i - 1]
  BY <1>1, Part
<1>3. Len(r) = b - f + 1
  BY <1>2
<1> QED
  BY <1>1, <1>2, <1>3 DEF PartSo

LEMMA ForecastShifts ==
  ASSUME NEW s \in Seq(Nat), s # <<>>
  PROVE  Forecast([i \in DOMAIN s |-> s[i] + 1])[1] = Forecast(s)[1] + Forecast(s)[2]
<1>1. PICK n, m : n = Len(s) /\ m = [i \in DOMAIN s |-> s[i] + 1]
  OBVIOUS
<1>2. n \in Nat \ {0} /\ DOMAIN s = 1..n /\ s \in [1..n -> Int]
  BY <1>1, ListDomain
<1>3. m \in [1..n -> Int] /\ \A i \in 1..n : m[i] = s[i] + 1
  BY <1>1, <1>2
<1>4. m \in Seq(Int) /\ Len(m) = n /\ s \in Seq(Int)
  BY <1>2, <1>3, ListedIs
<1>5. PICK a, b : a = Slope(s)[1] /\ b = Slope(s)[2]
  OBVIOUS
<1>6. Slope(m)[1] = a /\ Slope(m)[2] = b
  BY <1>2, <1>3, <1>5, SlopeShifted
<1>7. a \in Int /\ b \in Int
  <2>1. PICK xs : xs = (n * (n - 1)) \div 2
    OBVIOUS
  <2>2. SlopesSo(s, n, xs)
    BY <1>2, <2>1, SlopeIs
  <2> QED
    BY <1>5, <2>2 DEF SlopesSo
<1>8. PICK f : f = Max({1, n - 5 + 1})
  OBVIOUS
<1>9. f \in Nat \ {0} /\ f <= n
  BY <1>2, <1>8, OfTwo
<1>10. PICK r, q, l : r = SubSeq(s, f, n) /\ q = SubSeq(m, f, n) /\ l = n - f + 1
  OBVIOUS
<1>11. l \in Nat \ {0} /\ LastOf(s, 5) = r /\ LastOf(m, 5) = q
  <2>1. LastOf(s, 5) = SubSeq(s, Max({1, Len(s) - 5 + 1}), Len(s)) /\ LastOf(m, 5) = SubSeq(m, Max({1, Len(m) - 5 + 1}), Len(m))
    BY DEF LastOf
  <2>2. l \in Nat \ {0}
    BY <1>2, <1>9, <1>10
  <2> QED
    BY <1>1, <1>4, <1>8, <1>10, <2>1, <2>2, Zenon
<1>12. r \in Seq(Int) /\ Len(r) = l /\ DOMAIN r = 1..l /\ \A i \in 1..l : f + i - 1 \in 1..n /\ r[i] = s[f + i - 1]
  <2>1. n \in Nat /\ f <= n + 1 /\ n <= Len(s) /\ s \in Seq(Int)
    BY <1>1, <1>2, <1>4, <1>9
  <2>2. PartSo(SubSeq(s, f, n), s, f, n - f + 1)
    BY <1>9, <2>1, PartIs
  <2> QED
    BY <1>2, <1>10, <2>2 DEF PartSo
<1>13. q \in Seq(Int) /\ Len(q) = l /\ DOMAIN q = 1..l /\ \A i \in 1..l : q[i] = m[f + i - 1]
  <2>1. n \in Nat /\ f <= n + 1 /\ n <= Len(m) /\ m \in Seq(Int)
    BY <1>2, <1>4, <1>9
  <2>2. PartSo(SubSeq(m, f, n), m, f, n - f + 1)
    BY <1>9, <2>1, PartIs
  <2> QED
    BY <1>10, <2>2 DEF PartSo
<1>14. Total(q) = Total(r) + l /\ Total(r) \in Int
  <2>1. PICK z : z = [i \in 1..l |-> 1]
    OBVIOUS
  <2>2. z \in [1..l -> Int] /\ q \in [1..l -> Int] /\ r \in [1..l -> Int]
    BY <1>12, <1>13, <2>1
  <2>3. AddsEach(q, r, z, l)
    BY <1>3, <1>12, <1>13, <2>1 DEF AddsEach
  <2>4. Total(z) = l
    BY <1>11, <2>1, TotalCounts
  <2>5. Total(q) = Total(r) + Total(z) /\ Total(r) \in Int
    BY <1>11, <2>2, <2>3, TotalAdded
  <2> QED
    BY <2>4, <2>5
<1>15. PICK e, t : e = s[n] /\ t = Total(r)
  OBVIOUS
<1>16. Last(s) = e /\ Last(m) = e + 1 /\ e \in Int /\ t \in Int
  BY <1>1, <1>2, <1>3, <1>4, <1>14, <1>15 DEF Last
<1>17. /\ Forecast(s)[1] = b * (3 * e * l + 7 * t) + 10 * l * a
       /\ Forecast(s)[2] = 10 * l * b
  BY <1>5, <1>11, <1>12, <1>15, <1>16 DEF Forecast
<1>18. Forecast(m)[1] = b * (3 * (e + 1) * l + 7 * (t + l)) + 10 * l * a
  BY <1>6, <1>11, <1>13, <1>14, <1>15, <1>16 DEF Forecast
<1>19. b * (3 * (e + 1) * l + 7 * (t + l)) = b * (3 * e * l + 7 * t) + 10 * l * b
  <2>1. PICK el, bl : el = e * l /\ bl = b * l
    OBVIOUS
  <2>2. el \in Int /\ bl \in Int /\ 3 * e * l = 3 * el /\ 3 * (e + 1) * l = 3 * el + 3 * l /\ 10 * l * b = 10 * bl
    BY <1>7, <1>11, <1>16, <2>1
  <2>3. b * (3 * el + 3 * l + 7 * (t + l)) = b * (3 * el + 7 * t) + 10 * bl
    BY <1>7, <1>11, <1>16, <2>1, <2>2
  <2> QED
    BY <2>2, <2>3
<1>20. b * (3 * e * l + 7 * t) \in Int /\ 10 * l * a \in Int /\ 10 * l * b \in Int
  BY <1>7, <1>11, <1>16
<1> QED
  BY <1>1, <1>17, <1>18, <1>19, <1>20

(* What goes up in a list goes down in it turned round.                    *)
LEMMA RsiTurns ==
  ASSUME NEW s \in Seq(Nat), Len(s) = RsiPeriod + 1, NEW t, t = Reverse(s)
  PROVE  Rsi(s)[1] * Rsi(t)[2] + Rsi(t)[1] * Rsi(s)[2] = 100 * Rsi(s)[2] * Rsi(t)[2]
<1>1. PICK n, m : n = Len(s) /\ m = n - 1
  OBVIOUS
<1>2. n \in Nat /\ m \in Nat /\ RsiPeriod + 1 = n /\ n = m + 1
  BY <1>1, LearningAssumption
<1>3. t \in Seq(Nat) /\ Len(t) = n /\ s \in [1..n -> Nat] /\ t \in [1..n -> Nat] /\ TurnsRound(t, s, n)
  BY <1>1, Turned
<1>4. LastOf(s, RsiPeriod + 1) = s /\ LastOf(t, RsiPeriod + 1) = t
  BY <1>1, <1>2, <1>3, LastAll
<1>5. PICK u, v, x, y : /\ u = [i \in 1..m |-> Max({0, s[i + 1] - s[i]})] /\ v = [i \in 1..m |-> Max({0, s[i] - s[i + 1]})]
                        /\ x = [i \in 1..m |-> Max({0, t[i + 1] - t[i]})] /\ y = [i \in 1..m |-> Max({0, t[i] - t[i + 1]})]
  OBVIOUS
<1>6. \A a, b \in Nat : Max({0, a - b}) \in Int
  BY OfTwo
<1>7. ASSUME NEW i \in 1..m
      PROVE  /\ u[i] = Max({0, s[i + 1] - s[i]}) /\ v[i] = Max({0, s[i] - s[i + 1]})
             /\ x[i] = v[m - i + 1] /\ y[i] = u[m - i + 1]
             /\ u[i] \in Int /\ v[i] \in Int /\ x[i] \in Int /\ y[i] \in Int
  <2>1. PICK j : j = m - i + 1
    OBVIOUS
  <2>2. j \in 1..m /\ n - i + 1 = j + 1 /\ n - (i + 1) + 1 = j /\ i \in 1..n /\ i + 1 \in 1..n /\ j \in 1..n /\ j + 1 \in 1..n
    BY <1>2, <2>1
  <2>3. t[i] = s[j + 1] /\ t[i + 1] = s[j]
    BY <1>3, <2>2 DEF TurnsRound
  <2>4. s[i] \in Nat /\ s[i + 1] \in Nat /\ s[j] \in Nat /\ s[j + 1] \in Nat
    BY <1>3, <2>2
  <2>5. u[i] = Max({0, s[i + 1] - s[i]}) /\ v[i] = Max({0, s[i] - s[i + 1]})
    BY <1>5
  <2>6. x[i] = Max({0, s[j] - s[j + 1]}) /\ y[i] = Max({0, s[j + 1] - s[j]})
    BY <1>5, <2>3
  <2>7. u[j] = Max({0, s[j + 1] - s[j]}) /\ v[j] = Max({0, s[j] - s[j + 1]})
    BY <1>5, <2>2
  <2> QED
    BY <1>6, <2>1, <2>4, <2>5, <2>6, <2>7
<1>8. u \in [1..m -> Int] /\ v \in [1..m -> Int] /\ x \in [1..m -> Int] /\ y \in [1..m -> Int] /\ TurnsRound(x, v, m) /\ TurnsRound(y, u, m)
  <2>1. DOMAIN u = 1..m /\ DOMAIN v = 1..m /\ DOMAIN x = 1..m /\ DOMAIN y = 1..m
    BY <1>5
  <2>2. u = [i \in 1..m |-> u[i]] /\ v = [i \in 1..m |-> v[i]] /\ x = [i \in 1..m |-> x[i]] /\ y = [i \in 1..m |-> y[i]]
    BY <1>5
  <2> QED
    BY <1>7, <2>2 DEF TurnsRound
<1>9. PICK g, l : g = Total(u) /\ l = Total(v)
  OBVIOUS
<1>10. Total(x) = l /\ l \in Int
  BY <1>2, <1>8, <1>9, TotalTurned
<1>11. Total(y) = g /\ g \in Int
  BY <1>2, <1>8, <1>9, TotalTurned
<1>12. Rsi(s) = IF g + l = 0 THEN <<50, 1>> ELSE <<100 * g, g + l>>
  <2>1. Len(s) - 1 = m /\ ~(Len(s) < RsiPeriod + 1)
    BY <1>1, <1>2
  <2>2. /\ Total([i \in 1..(Len(s) - 1) |-> Max({0, s[i + 1] - s[i]})]) = g
        /\ Total([i \in 1..(Len(s) - 1) |-> Max({0, s[i] - s[i + 1]})]) = l
    BY <1>5, <1>9, <2>1
  <2> QED
    BY <1>4, <2>1, <2>2 DEF Rsi
<1>13. Rsi(t) = IF l + g = 0 THEN <<50, 1>> ELSE <<100 * l, l + g>>
  <2>1. Len(t) - 1 = m /\ ~(Len(t) < RsiPeriod + 1)
    BY <1>1, <1>2, <1>3
  <2>2. /\ Total([i \in 1..(Len(t) - 1) |-> Max({0, t[i + 1] - t[i]})]) = l
        /\ Total([i \in 1..(Len(t) - 1) |-> Max({0, t[i] - t[i + 1]})]) = g
    BY <1>5, <1>10, <1>11, <2>1
  <2> QED
    BY <1>4, <2>1, <2>2 DEF Rsi
<1>14. CASE g + l = 0
  BY <1>10, <1>11, <1>12, <1>13, <1>14
<1>15. CASE g + l # 0
  <2>1. Rsi(s)[1] = 100 * g /\ Rsi(s)[2] = g + l /\ Rsi(t)[1] = 100 * l /\ Rsi(t)[2] = g + l
    BY <1>10, <1>11, <1>12, <1>13, <1>15
  <2>2. (100 * g) * (g + l) + (100 * l) * (g + l) = 100 * (g + l) * (g + l)
    BY <1>10, <1>11
  <2> QED
    BY <2>1, <2>2
<1> QED
  BY <1>14, <1>15

-----------------------------------------------------------------------------

LEMMA SpikesApart ==
  ASSUME NEW s \in Seq(Nat), NEW i \in Spikes(s)
  PROVE  i + 1 \notin Spikes(s)
<1>1. SUFFICES ASSUME i + 1 \in Spikes(s) PROVE FALSE
  OBVIOUS
<1>2. i \in 2..(Len(s) - 1) /\ 10 * (s[i + 1] - s[i]) < -3 * s[i]
  BY DEF Spikes
<1>3. s[i + 1 - 1] > 0 /\ 2 * (s[i + 1] - s[i + 1 - 1]) > s[i + 1 - 1]
  BY <1>1 DEF Spikes
<1>4. Len(s) \in Nat /\ DOMAIN s = 1..Len(s)
  BY ListDomain
<1>5. i + 1 - 1 = i /\ s[i] \in Nat /\ s[i + 1] \in Nat
  BY <1>2, <1>4
<1> QED
  BY <1>2, <1>3, <1>5


LEMMA TotalNotNegative ==
  ASSUME NEW s \in Seq(Nat)
  PROVE  Total(s) \in Nat
<1>1. PICK n : n = Len(s)
  OBVIOUS
<1>2. n \in Nat /\ s \in [1..n -> Int] /\ \A i \in 1..n : s[i] \in Nat
  BY <1>1, ListDomain
<1>3. PICK p : Runs(p, n, s) /\ Total(s) = p[n] /\ Total(s) \in Int
  BY <1>2, TotalRuns
<1> DEFINE G == {k \in 0..n : p[k] \in Nat}
<1>4. p[0] = 0 /\ \A k \in 1..n : p[k] = p[k - 1] + s[k]
  BY <1>3 DEF Runs
<1>5. 0 \in G
  BY <1>2, <1>4
<1>6. ASSUME NEW k \in 1..n, k - 1 \in G PROVE k \in G
  BY <1>2, <1>4, <1>6
<1> HIDE DEF G
<1>7. n \in G
  BY <1>2, <1>5, <1>6, Climb
<1> QED
  BY <1>3, <1>7 DEF G

LEMMA PresentIs ==
  ASSUME NEW s \in Seq(Nat \cup {NoValue})
  PROVE  Present(s) \in Seq(Nat)
<1>1. PICK t, P : t = Only(s, P) /\ P = ToSet(s) \ {NoValue}
  OBVIOUS
<1>2. t \in Seq(Nat \cup {NoValue}) /\ Range(t) = Range(s) \cap P
  BY <1>1, OnlyRange
<1>3. ASSUME NEW i \in DOMAIN t PROVE t[i] \in Nat
  <2>1. t[i] \in Nat \cup {NoValue} /\ t[i] \in Range(t)
    BY <1>2 DEF Range
  <2>2. t[i] # NoValue
    BY <1>1, <1>2, <2>1
  <2> QED
    BY <2>1, <2>2
<1>4. t \in Seq(Nat)
  BY <1>2, <1>3
<1> QED
  BY <1>1, <1>4 DEF Present



(* As many are left as there are places with one to keep.                  *)
LEMMA OnlyCounts ==
  ASSUME NEW S, NEW s \in Seq(S), NEW P
  PROVE  Len(Only(s, P)) = Cardinality({i \in DOMAIN s : s[i] \in P})
<1>1. PICK f : Sifts(f, s, P) /\ Only(s, P) = f[Len(s)]
  BY OnlySteps
<1>2. PICK n : n = Len(s)
  OBVIOUS
<1>3. n \in Nat /\ DOMAIN s = 1..n
  BY <1>2, ListDomain
<1>4. f[0] = <<>> /\ \A k \in 1..n : f[k] = IF s[k] \in P THEN Append(f[k - 1], s[k]) ELSE f[k - 1]
  BY <1>1, <1>2 DEF Sifts
<1>5. \A k \in 0..n : f[k] \in Seq(S)
  BY <1>1, <1>2, SiftsTyped
<1> DEFINE At(k) == {i \in 1..k : s[i] \in P}
           G == {k \in 0..n : Len(f[k]) = Cardinality(At(k))}
<1>6. 0 \in G
  <2>1. At(0) = {} /\ Cardinality({}) = 0 /\ Len(f[0]) = 0
    BY <1>4, FS_EmptySet
  <2> QED
    BY <1>3, <2>1
<1>7. ASSUME NEW k \in 1..n, k - 1 \in G PROVE k \in G
  <2>1. k - 1 \in 0..n /\ k \in 0..n /\ s[k] \in S /\ \A i \in 1..k : i = k \/ i \in 1..(k - 1)
    BY <1>3
  <2>2. \A i \in 1..(k - 1) : i \in 1..k /\ i # k
    BY <1>3
  <2>3. IsFiniteSet(At(k - 1))
    <3>1. IsFiniteSet(1..(k - 1)) /\ At(k - 1) \in SUBSET (1..(k - 1))
      BY FS_Interval
    <3> QED
      BY <3>1, FS_Subset
  <2>4. Len(f[k - 1]) = Cardinality(At(k - 1)) /\ f[k - 1] \in Seq(S)
    BY <1>5, <1>7, <2>1
  <2>5. CASE s[k] \in P
    <3>1. At(k) = At(k - 1) \cup {k} /\ k \notin At(k - 1)
      BY <2>1, <2>2, <2>5
    <3>2. Cardinality(At(k)) = Cardinality(At(k - 1)) + 1
      BY <2>3, <3>1, FS_AddElement
    <3>3. Len(f[k]) = Len(f[k - 1]) + 1
      <4>1. PICK g, x : g = f[k - 1] /\ x = s[k]
        OBVIOUS
      <4>2. f[k] = Append(g, x) /\ g \in Seq(S) /\ x \in S
        BY <1>4, <2>1, <2>4, <2>5, <4>1
      <4> QED
        BY <4>1, <4>2
    <3> QED
      BY <2>1, <2>4, <3>2, <3>3
  <2>6. CASE s[k] \notin P
    <3>1. At(k) = At(k - 1)
      BY <2>1, <2>2, <2>6
    <3>2. f[k] = f[k - 1]
      BY <1>4, <2>6
    <3> QED
      BY <2>1, <2>4, <3>1, <3>2
  <2> QED
    BY <2>5, <2>6
<1> HIDE DEF G
<1>8. n \in G
  BY <1>3, <1>6, <1>7, Climb
<1> QED
  BY <1>1, <1>2, <1>3, <1>8 DEF G

(* What lies between two ranks.                                            *)
LEMMA RanksBetween ==
  ASSUME NEW s \in Seq(Nat), NEW j \in 1..Len(s), NEW k \in 1..Len(s), j <= k, NEW P,
         \A i \in DOMAIN s : Ranked(s, j) <= s[i] /\ s[i] <= Ranked(s, k) => s[i] \in P
  PROVE  Len(Only(s, P)) \in Nat /\ Len(Only(s, P)) >= k - j + 1
<1>1. PICK v, w : v = Ranked(s, j) /\ w = Ranked(s, k)
  OBVIOUS
<1>2. v \in Nat /\ LowerThan(s, v) < j
  BY <1>1, RankedIs
<1>3. w \in Nat /\ k <= UpTo(s, w)
  BY <1>1, RankedIs
<1>4. PICK L, U, I : /\ L = {i \in DOMAIN s : s[i] < v} /\ U = {i \in DOMAIN s : s[i] <= w}
                     /\ I = {i \in DOMAIN s : s[i] \in P}
  OBVIOUS
<1>5. \A i \in DOMAIN s : s[i] \in Nat
  OBVIOUS
<1>6. U \ L \subseteq I
  BY <1>1, <1>2, <1>4, <1>5
<1>7. IsFiniteSet(DOMAIN s)
  BY ListDomain, FS_Interval
<1>8. IsFiniteSet(L) /\ IsFiniteSet(U) /\ IsFiniteSet(I) /\ IsFiniteSet(U \cap L)
  <2>1. L \in SUBSET (DOMAIN s) /\ U \in SUBSET (DOMAIN s) /\ I \in SUBSET (DOMAIN s) /\ U \cap L \in SUBSET (DOMAIN s)
    BY <1>4
  <2> QED
    BY <1>7, <2>1, FS_Subset
<1>9. Cardinality(U \ L) = Cardinality(U) - Cardinality(U \cap L)
  BY <1>8, FS_Difference
<1>10. Cardinality(U \cap L) <= Cardinality(L)
  BY <1>8, FS_Subset
<1>11. Cardinality(U \ L) <= Cardinality(I)
  BY <1>6, <1>8, FS_Subset
<1>12. Cardinality(U) \in Nat /\ Cardinality(L) \in Nat /\ Cardinality(I) \in Nat /\ Cardinality(U \cap L) \in Nat
  BY <1>8, FS_CardinalityType
<1>13. Cardinality(L) < j /\ k <= Cardinality(U) /\ Len(Only(s, P)) = Cardinality(I)
  BY <1>2, <1>3, <1>4, OnlyCounts DEF LowerThan, UpTo
<1> QED
  BY <1>9, <1>10, <1>11, <1>12, <1>13

(* Of the values between the quartiles, and up to half of their range      *)
(* further, none is an outlier.                                            *)
LEMMA QuartersKept ==
  ASSUME NEW r \in 0..3, NEW A \in Nat, NEW B \in Nat, NEW C \in Nat, NEW D \in Nat,
         A <= B, A <= C, r # 0 => B <= C, C <= D,
         NEW l, l = (4 - r) * A + r * B,
         NEW u, u = (4 - ((3 * r) % 4)) * C + ((3 * r) % 4) * D
  PROVE  /\ 8 * (IF r = 3 THEN B ELSE A) >= 2 * l - 3 * (u - l)
         /\ 8 * (IF r \in {0, 3} THEN C ELSE D) <= 2 * u + 3 * (u - l)
<1>1. CASE r = 0
  BY <1>1
<1>2. CASE r = 1
  BY <1>2
<1>3. CASE r = 2
  BY <1>3
<1>4. CASE r = 3
  BY <1>4
<1> QED
  BY <1>1, <1>2, <1>3, <1>4

LEMMA OutliersAreFew ==
  ASSUME NEW s \in Seq(Nat)
  PROVE  2 * Len(WithoutOutliers(s)) >= Len(s)
<1>1. PICK n : n = Len(s)
  OBVIOUS
<1>2. n \in Nat
  BY <1>1
<1>3. CASE n < 4
  BY <1>1, <1>2, <1>3 DEF WithoutOutliers
<1>4. CASE n >= 4
  <2>1. PICK a, r : a = (n - 1) \div 4 /\ r = (n - 1) % 4
    OBVIOUS
  <2>2. a \in Nat /\ r \in 0..3 /\ n = 4 * a + r + 1
    BY <1>2, <1>4, <2>1
  <2>3. PICK b, q : b = (3 * (n - 1)) \div 4 /\ q = (3 * (n - 1)) % 4
    OBVIOUS
  <2>4. q = (3 * r) % 4 /\ b = 3 * a + ((3 * r) \div 4)
    BY <2>2, <2>3
  <2>5. /\ r = 0 => q = 0 /\ b = 3 * a
        /\ r = 1 => q = 3 /\ b = 3 * a
        /\ r = 2 => q = 2 /\ b = 3 * a + 1
        /\ r = 3 => q = 1 /\ b = 3 * a + 2
    BY <2>2, <2>4
  <2>6. /\ b \in Nat /\ q \in 0..3 /\ (r # 3 => a >= 1)
        /\ a + 1 \in 1..n /\ a + 2 \in 1..n /\ b + 1 \in 1..n /\ b + 2 \in 1..n
        /\ a + 1 <= b + 1 /\ (r # 0 => a + 2 <= b + 1)
    BY <1>4, <2>2, <2>5
  <2>7. PICK A, B, C, D : /\ A = Ranked(s, a + 1) /\ B = Ranked(s, a + 2)
                          /\ C = Ranked(s, b + 1) /\ D = Ranked(s, b + 2)
    OBVIOUS
  <2>8. A \in Nat /\ B \in Nat /\ C \in Nat /\ D \in Nat
    BY <1>1, <2>6, <2>7, RankedIs
  <2>9. A <= B /\ A <= C /\ (r # 0 => B <= C) /\ C <= D
    <3>0. a \in Int /\ b \in Int
      BY <2>2, <2>6
    <3>1. a + 1 <= a + 2 /\ b + 1 <= b + 2
      BY <3>0
    <3>2. A <= B
      BY <1>1, <2>6, <2>7, <3>1, RankedInOrder
    <3>3. A <= C
      BY <1>1, <2>6, <2>7, RankedInOrder
    <3>4. r # 0 => B <= C
      BY <1>1, <2>6, <2>7, RankedInOrder
    <3>5. C <= D
      BY <1>1, <2>6, <2>7, <3>1, RankedInOrder
    <3> QED
      BY <3>2, <3>3, <3>4, <3>5
  <2>10. PICK l, u : l = (4 - r) * A + r * B /\ u = (4 - q) * C + q * D
    OBVIOUS
  <2>11. Quartile(s, 1) = l /\ Quartile(s, 3) = u
    <3>0. ASSUME NEW e \in 1..n PROVE Min({e, n}) = e
      <4>1. e \in Int /\ n \in Int /\ e <= n
        BY <1>2
      <4> QED
        BY <4>1, OfTwo
    <3>1. Min({a + 2, n}) = a + 2 /\ Min({b + 2, n}) = b + 2
      BY <2>6, <3>0
    <3>2. 1 * (n - 1) = n - 1
      BY <1>2
    <3>3. Quartile(s, 1) = (4 - r) * A + r * B
      BY <1>1, <2>1, <2>7, <3>1, <3>2 DEF Quartile
    <3>4. Quartile(s, 3) = (4 - q) * C + q * D
      BY <1>1, <2>3, <2>7, <3>1 DEF Quartile
    <3> QED
      BY <2>10, <3>3, <3>4
  <2>12. PICK P : P = {x \in ToSet(s) : 8 * x >= 2 * l - 3 * (u - l) /\ 8 * x <= 2 * u + 3 * (u - l)}
    OBVIOUS
  <2>13. WithoutOutliers(s) = Only(s, P)
    <3>1. P = {x \in ToSet(s) : /\ 8 * x >= 2 * Quartile(s, 1) - 3 * (Quartile(s, 3) - Quartile(s, 1))
                                 /\ 8 * x <= 2 * Quartile(s, 3) + 3 * (Quartile(s, 3) - Quartile(s, 1))}
      BY <2>11, <2>12
    <3>2. ~(Len(s) < 4)
      BY <1>1, <1>2, <1>4
    <3> QED
      BY <3>1, <3>2, Zenon DEF WithoutOutliers
  <2>14. PICK j, k : j = (IF r = 3 THEN a + 2 ELSE a + 1) /\ k = (IF r \in {0, 3} THEN b + 1 ELSE b + 2)
    OBVIOUS
  <2>15. /\ Ranked(s, j) = (IF r = 3 THEN B ELSE A) /\ Ranked(s, k) = (IF r \in {0, 3} THEN C ELSE D)
         /\ j \in 1..n /\ k \in 1..n
    BY <2>6, <2>7, <2>14
  <2>16. j <= k /\ 2 * (k - j + 1) >= n
    BY <2>2, <2>5, <2>6, <2>14
  <2>17. l \in Int /\ u \in Int
    BY <2>2, <2>6, <2>8, <2>10
  <2>18. 8 * Ranked(s, j) >= 2 * l - 3 * (u - l) /\ 8 * Ranked(s, k) <= 2 * u + 3 * (u - l)
    BY <2>2, <2>4, <2>8, <2>9, <2>10, <2>15, QuartersKept
  <2>19. Ranked(s, j) \in Nat /\ Ranked(s, k) \in Nat
    BY <2>8, <2>15
  <2>20. \A i \in DOMAIN s : Ranked(s, j) <= s[i] /\ s[i] <= Ranked(s, k) => s[i] \in P
    <3>1. \A i \in DOMAIN s : s[i] \in Nat /\ s[i] \in ToSet(s)
      BY DEF ToSet
    <3> QED
      BY <2>12, <2>17, <2>18, <2>19, <3>1
  <2>21. Len(Only(s, P)) \in Nat /\ Len(Only(s, P)) >= k - j + 1
    BY <1>1, <2>15, <2>16, <2>20, RanksBetween
  <2>22. k - j + 1 \in Int
    BY <2>15
  <2> QED
    BY <1>1, <1>2, <2>13, <2>16, <2>21, <2>22
<1> QED
  BY <1>2, <1>3, <1>4

-----------------------------------------------------------------------------
(* Learning: what is measured on a series.                                 *)
LEMMA BoundsAre ==
  ASSUME NEW s \in Seq(Nat), s # <<>>, NEW a, a = Min(ToSet(s)), NEW b, b = Max(ToSet(s))
  PROVE  /\ a \in Nat /\ b \in Nat /\ a \in ToSet(s) /\ b \in ToSet(s)
         /\ \A i \in DOMAIN s : s[i] \in Nat /\ a <= s[i] /\ s[i] <= b
<1>1. DOMAIN s = 1..Len(s) /\ Len(s) \in Nat \ {0} /\ \A i \in DOMAIN s : s[i] \in Nat
  BY ListDomain
<1>2. PICK T : T = ToSet(s)
  OBVIOUS
<1>3. T = {s[i] : i \in DOMAIN s}
  BY <1>2 DEF ToSet
<1>4. 1 \in DOMAIN s
  BY <1>1
<1>5. T \in SUBSET Nat /\ T # {}
  BY <1>1, <1>3, <1>4
<1>6. a \in T /\ \A y \in T : a <= y
  BY <1>2, <1>5, LeastIs
<1>7. DOMAIN s # {} /\ DOMAIN s \in SUBSET (DOMAIN s)
  BY <1>4
<1>8. PICK i \in DOMAIN s : \A j \in DOMAIN s : s[j] <= s[i]
  BY <1>7, LargestOf
<1>9. s[i] \in T /\ s[i] \in Int /\ \A y \in T : y \in Int /\ y <= s[i]
  BY <1>1, <1>3, <1>8
<1>10. b = s[i]
  BY <1>2, <1>9, MaxIs
<1> QED
  BY <1>1, <1>2, <1>3, <1>5, <1>6, <1>8, <1>9, <1>10



(* The changes of a series add up to that from its first to its last.      *)
LEMMA ChangesAddUp ==
  ASSUME NEW s \in Seq(Nat), s # <<>>
  PROVE  MeanChange(s)[1] = Last(s) - s[1]
<1>1. PICK n, m : n = Len(s) /\ m = n - 1
  OBVIOUS
<1>2. n \in Nat \ {0} /\ m \in Nat /\ n = m + 1 /\ DOMAIN s = 1..n /\ \A i \in 1..n : s[i] \in Nat
  BY <1>1, ListDomain
<1>3. PICK w : w = [i \in 1..m |-> s[i + 1] - s[i]]
  OBVIOUS
<1>4. \A i \in 1..m : i \in 1..n /\ i + 1 \in 1..n
  BY <1>2
<1>5. w \in [1..m -> Int] /\ \A i \in 1..m : w[i] = s[i + 1] - s[i]
  BY <1>2, <1>3, <1>4
<1>6. PICK p : Runs(p, m, w) /\ Total(w) = p[m] /\ Total(w) \in Int
  BY <1>2, <1>5, TotalRuns
<1> DEFINE G == {k \in 0..m : p[k] = s[k + 1] - s[1]}
<1>7. p[0] = 0 /\ \A k \in 1..m : p[k] = p[k - 1] + w[k]
  BY <1>6 DEF Runs
<1>8. 0 \in G
  BY <1>2, <1>7
<1>9. ASSUME NEW k \in 1..m, k - 1 \in G PROVE k \in G
  <2>1. s[k] \in Int /\ s[k + 1] \in Int /\ s[1] \in Int /\ k - 1 + 1 = k /\ k \in 0..m
    BY <1>2, <1>4
  <2>2. p[k] = p[k - 1] + (s[k + 1] - s[k]) /\ p[k - 1] = s[k] - s[1]
    BY <1>5, <1>7, <1>9, <2>1
  <2> QED
    BY <2>1, <2>2
<1> HIDE DEF G
<1>10. m \in G
  BY <1>2, <1>8, <1>9, Climb
<1>11. MeanChange(s) = <<Total(w), n - 1>>
  BY <1>1, <1>3 DEF MeanChange
<1>12. Last(s) = s[n]
  BY <1>1 DEF Last
<1>13. p[m] = s[n] - s[1]
  BY <1>2, <1>10 DEF G
<1> QED
  BY <1>6, <1>11, <1>12, <1>13


(* A part of a list has as much as the sums at its ends are apart, and     *)
(* between so many times the least and so many times the greatest.         *)
LEMMA ListDomainIs ==
  ASSUME NEW S, NEW r \in Seq(S), NEW l, l = Len(r) PROVE r \in [1..l -> S]
OBVIOUS

PartsSum(p, n, s) ==
  \A f, b \in Nat : f <= b /\ b <= n => Total(SubSeq(s, f + 1, b)) = p[b] - p[f] /\ Len(SubSeq(s, f + 1, b)) = b - f

LEMMA PartsTotal ==
  ASSUME NEW n \in Nat, NEW s \in Seq(Int), Len(s) = n, NEW p, Runs(p, n, s)
  PROVE  PartsSum(p, n, s)
<1> SUFFICES ASSUME NEW f \in Nat, NEW b \in Nat, f <= b, b <= n
             PROVE  Total(SubSeq(s, f + 1, b)) = p[b] - p[f] /\ Len(SubSeq(s, f + 1, b)) = b - f
  BY DEF PartsSum
<1>0. PICK r : r = SubSeq(s, f + 1, b)
  OBVIOUS
<1>1. PICK l : l = b - f
  OBVIOUS
<1>2. l \in Nat /\ b - (f + 1) + 1 = l /\ f + 1 \in Nat \ {0} /\ f + 1 <= b + 1 /\ f + l = b
  BY <1>1
<1>3. PartSo(r, s, f + 1, l)
  BY <1>0, <1>2, PartIs
<1>a. r \in Seq(Int) /\ Len(r) = l /\ \A i \in 1..l : r[i] = s[f + 1 + i - 1]
  BY <1>3 DEF PartSo
<1>b. r \in [1..l -> Int]
  BY <1>a, ListDomainIs
<1>4. r \in Seq(Int) /\ Len(r) = l /\ r \in [1..l -> Int] /\ \A i \in 1..l : r[i] = s[f + 1 + i - 1]
  BY <1>a, <1>b
<1>5. PICK q : Runs(q, l, r) /\ Total(r) = q[l] /\ Total(r) \in Int
  BY <1>2, <1>4, TotalRuns
<1> DEFINE G == {k \in 0..l : q[k] = p[f + k] - p[f]}
<1>6. /\ p \in [0..n -> Int] /\ \A k \in 1..n : p[k] = p[k - 1] + s[k]
      /\ q[0] = 0 /\ \A k \in 1..l : q[k] = q[k - 1] + r[k]
  BY <1>5 DEF Runs
<1>7. 0 \in G
  <2>1. f \in 0..n /\ f + 0 = f
    OBVIOUS
  <2> QED
    BY <1>2, <1>6, <2>1
<1>8. ASSUME NEW k \in 1..l, k - 1 \in G PROVE k \in G
  <2>1. PICK j : j = f + k
    OBVIOUS
  <2>2. j \in 1..n /\ j - 1 = f + (k - 1) /\ f + 1 + k - 1 = j /\ k \in 0..l /\ j - 1 \in 0..n /\ f \in 0..n
    BY <1>2, <2>1
  <2>3. p[j] = p[j - 1] + s[j] /\ r[k] = s[j] /\ q[k] = q[k - 1] + r[k]
    BY <1>4, <1>6, <2>2
  <2>4. q[k - 1] = p[j - 1] - p[f]
    BY <1>8, <2>2
  <2>5. p[f] \in Int /\ p[j - 1] \in Int /\ s[j] \in Int
    BY <1>6, <2>2
  <2>6. q[k] = p[j] - p[f]
    BY <2>3, <2>4, <2>5
  <2> QED
    BY <2>1, <2>2, <2>6
<1> HIDE DEF G
<1>9. l \in G
  BY <1>2, <1>7, <1>8, Climb
<1> QED
  BY <1>0, <1>1, <1>2, <1>4, <1>5, <1>9 DEF G

Between(r, l, a, b) == \A i \in 1..l : a <= r[i] /\ r[i] <= b

LEMMA TotalBounds ==
  ASSUME NEW l \in Nat, NEW r \in [1..l -> Int], NEW a \in Int, NEW b \in Int, Between(r, l, a, b)
  PROVE  a * l <= Total(r) /\ Total(r) <= b * l /\ Total(r) \in Int
<1>1. PICK q : Runs(q, l, r) /\ Total(r) = q[l] /\ Total(r) \in Int
  BY TotalRuns
<1>2. q \in [0..l -> Int] /\ q[0] = 0 /\ \A k \in 1..l : q[k] = q[k - 1] + r[k]
  BY <1>1 DEF Runs
<1> DEFINE G == {k \in 0..l : a * k <= q[k] /\ q[k] <= b * k}
<1>3. 0 \in G
  BY <1>2
<1>4. ASSUME NEW k \in 1..l, k - 1 \in G PROVE k \in G
  <2>1. PICK ak, bk : ak = a * (k - 1) /\ bk = b * (k - 1)
    OBVIOUS
  <2>2. ak \in Int /\ bk \in Int /\ a * k = ak + a /\ b * k = bk + b
    BY <2>1
  <2>3. k \in 0..l /\ k - 1 \in 0..l /\ r[k] \in Int /\ q[k - 1] \in Int /\ a <= r[k] /\ r[k] <= b
    BY <1>2 DEF Between
  <2>4. q[k] = q[k - 1] + r[k] /\ ak <= q[k - 1] /\ q[k - 1] <= bk
    BY <1>2, <1>4, <2>1
  <2>5. a * k <= q[k] /\ q[k] <= b * k
    BY <2>2, <2>3, <2>4
  <2> QED
    BY <2>3, <2>5
<1> HIDE DEF G
<1>5. l \in G
  BY <1>3, <1>4, Climb
<1> QED
  BY <1>1, <1>5 DEF G

(* Where the i-th of the parts of m ends.                                  *)
EndOf(i, m, n) == Min({i * m, n})

EndsSo(m, n, c) ==
         /\ c \in Nat /\ EndOf(0, m, n) = 0 /\ EndOf(c, m, n) = n
         /\ \A i \in 1..c : /\ (i - 1) * m \in Nat /\ (i - 1) * m = EndOf(i - 1, m, n)
                            /\ EndOf(i, m, n) \in Nat /\ (i - 1) * m < EndOf(i, m, n) /\ EndOf(i, m, n) <= n

LEMMA EndsAre ==
  ASSUME NEW m \in 2..3, NEW n \in Nat \ {0}, NEW c, c = (n + m - 1) \div m
  PROVE  EndsSo(m, n, c)
<1>1. c \in Nat /\ c * m >= n /\ (c - 1) * m < n
  <2>1. CASE m = 2
    BY <2>1
  <2>2. CASE m = 3
    BY <2>2
  <2> QED
    BY <2>1, <2>2
<1>2. 0 * m = 0
  OBVIOUS
<1>3. EndOf(0, m, n) = 0
  BY <1>2, OfTwo DEF EndOf
<1>4. EndOf(c, m, n) = n
  <2>1. PICK e : e = c * m
    OBVIOUS
  <2>2. e \in Int /\ e >= n
    BY <1>1, <2>1
  <2>3. Min({e, n}) = n
    BY <2>2, OfTwo
  <2> QED
    BY <2>1, <2>3 DEF EndOf
<1>5. ASSUME NEW i \in 1..c
      PROVE  /\ (i - 1) * m \in Nat /\ (i - 1) * m = EndOf(i - 1, m, n)
             /\ EndOf(i, m, n) \in Nat /\ (i - 1) * m < EndOf(i, m, n) /\ EndOf(i, m, n) <= n
  <2>1. PICK d, e : d = (i - 1) * m /\ e = i * m
    OBVIOUS
  <2>2. d \in Nat /\ e \in Nat /\ d < e /\ d < n
    <3>1. CASE m = 2
      BY <1>1, <2>1, <3>1
    <3>2. CASE m = 3
      BY <1>1, <2>1, <3>2
    <3> QED
      BY <3>1, <3>2
  <2>a. d \in Int /\ e \in Int /\ n \in Int /\ d <= n
    BY <2>2
  <2>3. Min({d, n}) = d
    BY <2>a, OfTwo
  <2>4. Min({e, n}) = IF e <= n THEN e ELSE n
    BY <2>a, OfTwo
  <2>5. EndOf(i - 1, m, n) = d /\ EndOf(i, m, n) = IF e <= n THEN e ELSE n
    BY <2>1, <2>3, <2>4 DEF EndOf
  <2> QED
    BY <2>1, <2>2, <2>5
<1> QED
  BY <1>1, <1>3, <1>4, <1>5 DEF EndsSo

LEMMA ResampledAddsUp ==
  ASSUME NEW s \in Seq(Nat), s # <<>>, NEW m \in 2..3, NEW R, R = Resampled(s, m)
  PROVE  /\ Total([i \in DOMAIN R |-> R[i][1]]) = Total(s)
         /\ \A i \in DOMAIN R : ~Exceeds(R[i], <<Max(ToSet(s)), 1>>) /\ ~Exceeds(<<Min(ToSet(s)), 1>>, R[i])
<1>1. PICK n, c, a, b : n = Len(s) /\ c = (n + m - 1) \div m /\ a = Min(ToSet(s)) /\ b = Max(ToSet(s))
  OBVIOUS
<1>2. n \in Nat \ {0} /\ s \in Seq(Int) /\ DOMAIN s = 1..n /\ s \in [1..n -> Int]
  BY <1>1, ListDomain
<1>3. a \in Nat /\ b \in Nat /\ \A i \in DOMAIN s : a <= s[i] /\ s[i] <= b
  BY <1>1, BoundsAre
<1>a. EndsSo(m, n, c)
  BY <1>1, <1>2, EndsAre
<1>4. /\ c \in Nat /\ EndOf(0, m, n) = 0 /\ EndOf(c, m, n) = n
      /\ \A i \in 1..c : /\ (i - 1) * m \in Nat /\ (i - 1) * m = EndOf(i - 1, m, n)
                         /\ EndOf(i, m, n) \in Nat /\ (i - 1) * m < EndOf(i, m, n) /\ EndOf(i, m, n) <= n
  BY <1>a DEF EndsSo
<1>5. PICK p : Runs(p, n, s) /\ Total(s) = p[n] /\ Total(s) \in Int
  BY <1>2, TotalRuns
<1>b. PartsSum(p, n, s)
  BY <1>1, <1>2, <1>5, PartsTotal
<1>6. p \in [0..n -> Int] /\ p[0] = 0
  BY <1>5 DEF Runs
<1>7. R = [i \in 1..c |-> <<Total(SubSeq(s, (i - 1) * m + 1, EndOf(i, m, n))), Len(SubSeq(s, (i - 1) * m + 1, EndOf(i, m, n)))>>]
  BY <1>1 DEF Resampled, EndOf
<1>8. ASSUME NEW i \in 1..c
      PROVE  /\ R[i][1] = p[EndOf(i, m, n)] - p[EndOf(i - 1, m, n)] /\ R[i][1] \in Int /\ R[i][2] \in Int
             /\ a * R[i][2] <= R[i][1] /\ R[i][1] <= b * R[i][2]
  <2>1. PICK d, e, r : d = (i - 1) * m /\ e = EndOf(i, m, n) /\ r = SubSeq(s, d + 1, e)
    OBVIOUS
  <2>2. d \in Nat /\ e \in Nat /\ d < e /\ e <= n /\ d = EndOf(i - 1, m, n)
    BY <1>4, <2>1
  <2>3. Total(r) = p[e] - p[d] /\ Len(r) = e - d
    BY <1>b, <2>1, <2>2 DEF PartsSum
  <2>4. PartSo(r, s, d + 1, e - d)
    <3>0. d \in Nat /\ e \in Nat /\ d < e /\ e <= Len(s)
      BY <1>1, <2>2
    <3>1. d + 1 \in Nat \ {0} /\ d + 1 <= e + 1 /\ e <= Len(s) /\ e - (d + 1) + 1 = e - d
      BY <3>0
    <3> QED
      BY <1>2, <2>1, <2>2, <3>1, PartIs
  <2>5. PICK l : l = e - d
    OBVIOUS
  <2>6. l \in Nat /\ r \in [1..l -> Int] /\ Between(r, l, a, b)
    <3>1. l \in Nat
      BY <2>2, <2>5
    <3>2. r \in Seq(Int) /\ Len(r) = l /\ \A k \in 1..l : d + 1 + k - 1 \in DOMAIN s /\ r[k] = s[d + 1 + k - 1]
      BY <2>4, <2>5 DEF PartSo
    <3>3. r \in [1..l -> Int]
      BY <3>2, ListDomain
    <3>4. Between(r, l, a, b)
      BY <1>3, <3>2 DEF Between
    <3> QED
      BY <3>1, <3>3, <3>4
  <2>7. a * l <= Total(r) /\ Total(r) <= b * l /\ Total(r) \in Int
    <3>1. a \in Int /\ b \in Int
      BY <1>3
    <3> QED
      BY <2>6, <3>1, TotalBounds
  <2>8. R[i] = <<Total(r), Len(r)>>
    BY <1>7, <2>1
  <2>9. R[i][1] = Total(r) /\ R[i][2] = l
    BY <2>3, <2>5, <2>8
  <2>10. R[i][1] = p[e] - p[d] /\ EndOf(i, m, n) = e /\ EndOf(i - 1, m, n) = d
    BY <2>1, <2>2, <2>3, <2>9
  <2>11. R[i][2] \in Int /\ a * R[i][2] <= R[i][1] /\ R[i][1] <= b * R[i][2] /\ R[i][1] \in Int
    BY <2>6, <2>7, <2>9
  <2> QED
    BY <2>10, <2>11
<1>9. DOMAIN R = 1..c
  BY <1>7
<1>10. PICK w : w = [i \in DOMAIN R |-> R[i][1]]
  OBVIOUS
<1>11. w \in [1..c -> Int] /\ \A i \in 1..c : w[i] = p[EndOf(i, m, n)] - p[EndOf(i - 1, m, n)]
  BY <1>8, <1>9, <1>10
<1>12. PICK q : Runs(q, c, w) /\ Total(w) = q[c] /\ Total(w) \in Int
  BY <1>4, <1>11, TotalRuns
<1>13. q[0] = 0 /\ \A k \in 1..c : q[k] = q[k - 1] + w[k]
  BY <1>12 DEF Runs
<1> DEFINE G == {k \in 0..c : q[k] = p[EndOf(k, m, n)]}
<1>14. 0 \in G
  BY <1>4, <1>6, <1>13
<1>15. ASSUME NEW k \in 1..c, k - 1 \in G PROVE k \in G
  <2>1. PICK d, e : d = EndOf(k - 1, m, n) /\ e = EndOf(k, m, n)
    OBVIOUS
  <2>2. d \in 0..n /\ e \in 0..n /\ k \in 0..c
    BY <1>2, <1>4, <2>1
  <2>3. p[d] \in Int /\ p[e] \in Int
    BY <1>6, <2>2
  <2>4. q[k] = q[k - 1] + (p[e] - p[d]) /\ q[k - 1] = p[d]
    BY <1>11, <1>13, <1>15, <2>1
  <2> QED
    BY <2>1, <2>2, <2>3, <2>4
<1> HIDE DEF G
<1>16. c \in G
  BY <1>4, <1>14, <1>15, Climb
<1>17. Total(w) = Total(s)
  BY <1>4, <1>5, <1>12, <1>16 DEF G
<1>18. ASSUME NEW i \in DOMAIN R PROVE ~Exceeds(R[i], <<b, 1>>) /\ ~Exceeds(<<a, 1>>, R[i])
  <2>1. PICK x, y : x = R[i][1] /\ y = R[i][2]
    OBVIOUS
  <2>2. x \in Int /\ y \in Int /\ a * y <= x /\ x <= b * y
    BY <1>8, <1>9, <2>1
  <2>3. ~(x * 1 > b * y) /\ ~(a * y > x * 1)
    BY <1>3, <2>2
  <2> QED
    BY <2>1, <2>3 DEF Exceeds
<1> QED
  BY <1>1, <1>10, <1>17, <1>18







(* A market that consolidates loses competitors on the mean.               *)
LEMMA ConsolidatingFalls ==
  ASSUME NEW s \in Seq(Nat), s # <<>>, Consolidating(s)
  PROVE  MeanChange(s)[1] < 0
<1>1. MeanChange(s)[1] = Last(s) - s[1]
  BY ChangesAddUp
<1>2. s[1] \in Int /\ Last(s) \in Int
  BY DEF Last
<1>3. s[1] > 0 /\ 100 * (s[1] - Last(s)) > 5 * s[1]
  BY DEF Consolidating
<1> QED
  BY <1>1, <1>2, <1>3

-----------------------------------------------------------------------------
(* The series.                                                             *)
SeriesInv == points \in Seq(Nat \cup {NoValue})

LEMMA SeriesStarts == LearningInit => SeriesInv
BY DEF LearningInit, SeriesInv

LEMMA SeriesSteps == SeriesInv /\ (SeriesNext \/ UNCHANGED points) => SeriesInv'
<1>1. ASSUME SeriesInv, SeriesNext PROVE SeriesInv'
  <2>1. PICK v \in Points \cup {NoValue} : points' = Append(points, v)
    BY <1>1 DEF SeriesNext
  <2>2. v \in Nat \cup {NoValue}
    BY <2>1, LearningAssumption
  <2> QED
    BY <1>1, <2>1, <2>2 DEF SeriesInv
<1> QED
  BY <1>1 DEF SeriesInv

LEMMA SeriesAreHeld == SeriesInv => SeriesHold
<1> SUFFICES ASSUME SeriesInv PROVE SeriesHold
  OBVIOUS
<1>1. points \in Seq(Nat \cup {NoValue})
  BY DEF SeriesInv
<1>2. PICK s, turned, more : s = Present(points) /\ turned = Reverse(s) /\ more = [i \in DOMAIN s |-> s[i] + 1]
  OBVIOUS
<1>3. s \in Seq(Nat)
  BY <1>1, <1>2, PresentIs
<1>4. ASSUME Len(s) \in 3..TrendWindow
      PROVE  /\ Trend(s) = "upward" <=> Trend(turned) = "downward"
             /\ Forecast(more)[1] = Forecast(s)[1] + Forecast(s)[2]
  <2>1. s # <<>>
    BY <1>4, LearningAssumption
  <2>2. Trend(s) = "upward" <=> Trend(turned) = "downward"
    BY <1>2, <1>3, <1>4, TrendTurns
  <2>3. Forecast(more)[1] = Forecast(s)[1] + Forecast(s)[2]
    BY <1>2, <1>3, <2>1, ForecastShifts
  <2> QED
    BY <2>2, <2>3
<1>5. Len(s) = RsiPeriod + 1 => Rsi(s)[1] * Rsi(turned)[2] + Rsi(turned)[1] * Rsi(s)[2]
                                  = 100 * Rsi(s)[2] * Rsi(turned)[2]
  BY <1>2, <1>3, RsiTurns, Zenon
<1>7. \A i \in Spikes(s) : i + 1 \notin Spikes(s)
  BY <1>3, SpikesApart
<1>10. 2 * Len(WithoutOutliers(s)) >= Len(s)
  BY <1>3, OutliersAreFew
<1> QED
  BY <1>2, <1>4, <1>5, <1>7, <1>10, Zenon DEF SeriesHold

LEMMA SeriesAreMeasured == SeriesInv => SeriesMeasured
<1> SUFFICES ASSUME SeriesInv, Present(points) # <<>> PROVE SeriesMeasured
  BY Zenon DEF SeriesMeasured
<1>1. points \in Seq(Nat \cup {NoValue})
  BY DEF SeriesInv
<1>2. PICK s : s = Present(points)
  OBVIOUS
<1>3. s \in Seq(Nat) /\ s # <<>>
  BY <1>1, <1>2, PresentIs
<1>4. ASSUME NEW n \in 2..3
      PROVE  /\ Total([i \in DOMAIN Resampled(s, n) |-> Resampled(s, n)[i][1]]) = Total(s)
             /\ \A i \in DOMAIN Resampled(s, n) :
                  ~Exceeds(Resampled(s, n)[i], <<Max(ToSet(s)), 1>>) /\ ~Exceeds(<<Min(ToSet(s)), 1>>, Resampled(s, n)[i])
  BY <1>3, ResampledAddsUp, Zenon
<1>6. Len(s) > 1 /\ Consolidating(s) => MeanChange(s)[1] < 0
  BY <1>3, ConsolidatingFalls
<1> QED
  BY <1>2, <1>4, <1>6, Zenon DEF SeriesMeasured

LEMMA SeriesTyped == SeriesInv => SeriesHold /\ SeriesMeasured
BY SeriesAreHeld, SeriesAreMeasured

(***************************************************************************)
(* The parts together. A step of the platform is a step of one part, which *)
(* leaves the variables of the others as they are: each part's invariant   *)
(* holds whatever part is in use.                                          *)
(***************************************************************************)
LEMMA OperationSteps ==
  ASSUME [PlatformNext]_platformVars
  PROVE  /\ [ScalingNext]_scalingVars /\ [BalancingNext]_balancingVars
         /\ [DeploymentNext]_deploymentVars /\ [IntegrationsNext]_integrationVars
<1>1. CASE OperationUsed
  <2>1. CASE ScalingNext /\ UNCHANGED <<balancingVars, deploymentVars, integrationVars, monitoringVars>>
    BY <2>1
  <2>2. CASE BalancingNext /\ UNCHANGED <<scalingVars, deploymentVars, integrationVars, monitoringVars>>
    BY <2>2
  <2>3. CASE DeploymentNext /\ UNCHANGED <<scalingVars, balancingVars, integrationVars, monitoringVars>>
    BY <2>3
  <2>4. CASE IntegrationsNext /\ UNCHANGED <<scalingVars, balancingVars, deploymentVars, monitoringVars>>
    BY <2>4
  <2>5. CASE UNCHANGED <<scalingVars, balancingVars, deploymentVars, integrationVars>>
    BY <2>5
  <2> QED
    BY <1>1, <2>1, <2>2, <2>3, <2>4, <2>5 DEF OperationUsed
<1>2. CASE ValuesUsed \/ LearningUsed \/ ApplicationUsed \/ StorageUsed
  <2>1. UNCHANGED operationVars
    BY <1>2 DEF ValuesUsed, LearningUsed, ApplicationUsed, StorageUsed
  <2> QED
    BY <2>1 DEF operationVars
<1>3. CASE UNCHANGED platformVars
  BY <1>3 DEF platformVars, operationVars
<1> QED
  BY <1>1, <1>2, <1>3 DEF PlatformNext

OperationsInv == ScalingInv /\ BalancingInv /\ DeploymentInv /\ IntegrationsInv

LEMMA OperationsHold == PlatformSpec => []OperationsInv
<1>1. PlatformInit => OperationsInv
  BY ScalingStarts, BalancingStarts, DeploymentStarts, IntegrationsStart DEF PlatformInit, OperationsInv
<1>2. ASSUME OperationsInv, [PlatformNext]_platformVars PROVE OperationsInv'
  <2>1. /\ [ScalingNext]_scalingVars /\ [BalancingNext]_balancingVars
        /\ [DeploymentNext]_deploymentVars /\ [IntegrationsNext]_integrationVars
    BY <1>2, OperationSteps
  <2> QED
    BY <1>2, <2>1, ScalingSteps, BalancingSteps, DeploymentSteps, IntegrationsSteps DEF OperationsInv
<1> QED
  BY <1>1, <1>2, PTL DEF PlatformSpec

(* Whatever is asked of the orchestrator, the balancer, the pipeline and   *)
(* the adapters, their books agree with what they did.                     *)
THEOREM OperationsAlwaysSound == PlatformSpec => []OperationsSound
<1>1. OperationsInv => OperationsSound
  BY ScalingTyped, BalancingTyped, DeploymentTyped, IntegrationsTyped DEF OperationsInv, OperationsSound
<1> QED
  BY <1>1, OperationsHold, PTL

(* No pass of the orchestrator scales a service twice, within its cooldown *)
(* or against its load, and the balancer moves no client without need.     *)
THEOREM LoadAlwaysServed == PlatformSpec => LoadIsServed
<1>1. ASSUME OperationsInv, [PlatformNext]_platformVars
      PROVE  [ /\ part = "scaling"   => OncePerCooldown /\ LoadDecides
               /\ part = "balancing" => StickyKept ]_platformVars
  <2>1. [BalancingNext]_balancingVars
    BY <1>1, OperationSteps
  <2> QED
    BY <1>1, <2>1, PassesOnce, StickyStays DEF OperationsInv
<1> QED
  BY <1>1, OperationsHold, PTL DEF PlatformSpec, LoadIsServed

LEMMA StorageSteps ==
  ASSUME [PlatformNext]_platformVars
  PROVE  /\ [LocalNext]_localVars /\ [RedisNext]_redisVars /\ [QueryNext]_queryVars
         /\ [WarmNext]_warmVars /\ [SocketsNext]_socketVars /\ [RabbitNext]_rabbitVars
<1>1. CASE StorageUsed
  <2>1. CASE LocalNext /\ UNCHANGED <<redisVars, queryVars, warmVars, socketVars, rabbitVars>>
    BY <2>1
  <2>2. CASE RedisNext /\ UNCHANGED <<localVars, queryVars, warmVars, socketVars, rabbitVars>>
    BY <2>2
  <2>3. CASE QueryNext /\ UNCHANGED <<localVars, redisVars, warmVars, socketVars, rabbitVars>>
    BY <2>3
  <2>4. CASE WarmNext /\ UNCHANGED <<localVars, redisVars, queryVars, socketVars, rabbitVars>>
    BY <2>4
  <2>5. CASE SocketsNext /\ UNCHANGED <<storeVars, rabbitVars>>
    BY <2>5 DEF storeVars
  <2>6. CASE RabbitNext /\ UNCHANGED <<storeVars, socketVars>>
    BY <2>6 DEF storeVars
  <2> QED
    BY <1>1, <2>1, <2>2, <2>3, <2>4, <2>5, <2>6 DEF StorageUsed
<1>2. CASE OperationUsed \/ ValuesUsed \/ LearningUsed \/ ApplicationUsed
  <2>1. UNCHANGED storageVars
    BY <1>2 DEF ValuesUsed, LearningUsed, ApplicationUsed, OperationUsed
  <2> QED
    BY <2>1 DEF storageVars, storeVars
<1>3. CASE UNCHANGED platformVars
  BY <1>3 DEF platformVars, storageVars, storeVars
<1> QED
  BY <1>1, <1>2, <1>3 DEF PlatformNext

StorageInv == LocalInv /\ RedisInv /\ QueryInv /\ WarmInv /\ SocketsInv /\ RabbitInv

LEMMA StorageHold == PlatformSpec => []StorageInv
<1>1. PlatformInit => StorageInv
  BY LocalStarts, RedisStarts, QueryStarts, WarmStarts, SocketsStart, RabbitStarts DEF PlatformInit, StorageInv
<1>2. ASSUME StorageInv, [PlatformNext]_platformVars PROVE StorageInv'
  <2>1. /\ [LocalNext]_localVars /\ [RedisNext]_redisVars /\ [QueryNext]_queryVars
        /\ [WarmNext]_warmVars /\ [SocketsNext]_socketVars /\ [RabbitNext]_rabbitVars
    BY <1>2, StorageSteps
  <2> QED
    BY <1>2, <2>1, LocalSteps, RedisSteps, QuerySteps, WarmSteps, SocketsSteps, RabbitSteps DEF StorageInv
<1> QED
  BY <1>1, <1>2, PTL DEF PlatformSpec

(* The stores account for every entry they took, a tag reaches the keys   *)
(* it still names, a stopped warmer warms no more; the table of the        *)
(* sockets tells which connections are there, a walk over it misses no     *)
(* more of them than have left, and the broker loses no message but to a   *)
(* purge or to its time to live.                                           *)
THEOREM StorageAlwaysSound == PlatformSpec => []StorageSound
<1>1. StorageInv => StorageSound
  BY LocalHolds, RedisHolds, QueriesHold, WarmHolds, SocketsHold, RabbitHolds DEF StorageInv, StorageSound
<1> QED
  BY <1>1, StorageHold, PTL

LEMMA ApplicationSteps ==
  ASSUME [PlatformNext]_platformVars
  PROVE  /\ [WorkflowsNext]_workflowVars /\ [CommunicatorNext]_communicatorVars
         /\ [SearchNext]_<<wrapped, searchVars>> /\ [OthersNext]_<<wrapped, answerVars>>
<1>1. CASE ApplicationUsed
  <2>1. CASE WorkflowsNext /\ UNCHANGED useCaseVars
    <3>1. UNCHANGED communicatorVars
      BY <2>1 DEF WorkflowsNext, StartWorkflow, SkipTask, RunTask, CallAnswers, CallRaises, AgentSucceeds,
                  WorkflowEnds, WorkflowCancelled
    <3> QED
      BY <2>1, <3>1 DEF useCaseVars
  <2>2. CASE CommunicatorNext /\ UNCHANGED useCaseVars
    <3>1. UNCHANGED workflowVars
      BY <2>2 DEF CommunicatorNext, SendMessage, ClearMessages
    <3> QED
      BY <2>2, <3>1 DEF useCaseVars
  <2>3. CASE SearchNext /\ UNCHANGED <<workflowVars, communicatorVars>>
    <3>1. UNCHANGED <<wrapped, answerVars>>
      BY <2>3 DEF SearchNext, StartSearch, Query, CancelSearch, Initialize, CloseBrowser, Summarize
    <3> QED
      BY <2>3, <3>1
  <2>4. CASE OthersNext /\ UNCHANGED <<workflowVars, communicatorVars>>
    <3>1. UNCHANGED <<wrapped, searchVars>>
      BY <2>4 DEF OthersNext, Respond, Answer, GenerateReport, UpdateIntelligence, GetIntelligence, AnalyzeTrends,
                  TrackActivity, LearnFromFeedback, BuildGraph
    <3> QED
      BY <2>4, <3>1
  <2> QED
    BY <1>1, <2>1, <2>2, <2>3, <2>4 DEF ApplicationUsed
<1>2. CASE OperationUsed \/ ValuesUsed \/ LearningUsed \/ StorageUsed
  <2>1. UNCHANGED <<workflowVars, communicatorVars, useCaseVars>>
    BY <1>2 DEF OperationUsed, ValuesUsed, LearningUsed, StorageUsed, intelligenceVars
  <2> QED
    BY <2>1 DEF useCaseVars
<1>3. CASE UNCHANGED platformVars
  BY <1>3 DEF platformVars, intelligenceVars, useCaseVars
<1> QED
  BY <1>1, <1>2, <1>3 DEF PlatformNext

ApplicationInv ==
  WorkflowsInv /\ MemoryInv /\ CommunicatorInv /\ SearchInv /\ AnswersInv

LEMMA ApplicationHolds == PlatformSpec => []ApplicationInv
<1>1. PlatformInit => ApplicationInv
  BY WorkflowsStart, MemoryStarts, CommunicatorStarts, SearchStarts, AnswersStart
  DEF PlatformInit, ApplicationInv
<1>2. ASSUME ApplicationInv, [PlatformNext]_platformVars PROVE ApplicationInv'
  <2>1. /\ [WorkflowsNext]_workflowVars /\ [CommunicatorNext]_communicatorVars
        /\ [SearchNext]_<<wrapped, searchVars>> /\ [OthersNext]_<<wrapped, answerVars>>
    BY <1>2, ApplicationSteps
  <2>2. WorkflowsInv' /\ CommunicatorInv' /\ SearchInv' /\ AnswersInv'
    BY <1>2, <2>1, WorkflowsSteps, CommunicatorSteps, SearchSteps, AnswersSteps DEF ApplicationInv
  <2>3. MemoryInv'
    BY <1>2, <2>1, <2>2, MemorySteps DEF ApplicationInv
  <2> QED
    BY <2>2, <2>3 DEF ApplicationInv
<1> QED
  BY <1>1, <1>2, PTL DEF PlatformSpec

(* However workflows overlap, a chain of tasks stops at the first that     *)
(* fails and each agent's memory tells what it did; a search that had its  *)
(* browser to itself gives it back and keeps what it found; and a use case *)
(* tells its caller of what it saved, and of nothing else.                 *)
THEOREM AnswersAlwaysSound == PlatformSpec => []AnswersSound
<1>1. ApplicationInv => AnswersSound
  BY WorkflowsHold, MemoryHolds, CommunicatorHolds, SearchHolds, AnswersHold
  DEF ApplicationInv, AnswersSound
<1> QED
  BY <1>1, ApplicationHolds, PTL

(* A step of one part of monitoring leaves the others as they are.         *)
LEMMA MonitoringSteps ==
  ASSUME [PlatformNext]_platformVars
  PROVE  /\ [HealthNext]_healthVars /\ [MetricsNext]_metricVars /\ [AlertsNext]_alertVars
         /\ [EngineNext]_engineVars /\ [JournalsNext]_journalVars
<1>1. CASE UNCHANGED monitoringVars
  BY <1>1 DEF monitoringVars, measuredVars
<1>2. CASE HealthNext /\ UNCHANGED journalVars
  <2>1. UNCHANGED <<metricVars, alertVars, engineVars>>
    BY <1>2 DEF HealthNext, LooksUp, Makes, Returns, RegisterCheck, RunAllChecks
  <2> QED
    BY <1>2, <2>1
<1>3. CASE MetricsNext /\ UNCHANGED journalVars
  <2>1. UNCHANGED <<healthVars, alertVars, engineVars>>
    BY <1>3 DEF MetricsNext, IncrementCounter, SetGauge, RecordHistogram, ResetMetrics
  <2> QED
    BY <1>3, <2>1
<1>4. CASE AlertsNext /\ UNCHANGED journalVars
  <2>1. UNCHANGED <<healthVars, metricVars, engineVars>>
    BY <1>4 DEF AlertsNext, RegisterAlert, CheckMetric
  <2> QED
    BY <1>4, <2>1
<1>5. CASE EngineNext /\ UNCHANGED journalVars
  <2>1. UNCHANGED <<healthVars, metricVars, alertVars>>
    BY <1>5 DEF EngineNext, Record, Evaluate
  <2> QED
    BY <1>5, <2>1
<1>6. CASE JournalsNext /\ UNCHANGED measuredVars
  BY <1>6 DEF measuredVars
<1>7. CASE OperationUsed
  <2>1. \/ UNCHANGED monitoringVars
        \/ (HealthNext \/ MetricsNext \/ AlertsNext \/ EngineNext) /\ UNCHANGED journalVars
        \/ JournalsNext /\ UNCHANGED measuredVars
    BY <1>7 DEF OperationUsed
  <2> QED
    BY <1>1, <1>2, <1>3, <1>4, <1>5, <1>6, <2>1
<1>8. CASE ValuesUsed \/ LearningUsed \/ ApplicationUsed \/ StorageUsed
  <2>1. UNCHANGED operationVars
    BY <1>8 DEF ValuesUsed, LearningUsed, ApplicationUsed, StorageUsed
  <2>2. UNCHANGED monitoringVars
    BY <2>1 DEF operationVars
  <2> QED
    BY <1>1, <2>2
<1>9. CASE UNCHANGED platformVars
  <2>1. UNCHANGED monitoringVars
    BY <1>9 DEF platformVars, operationVars
  <2> QED
    BY <1>1, <2>1
<1> QED
  BY <1>7, <1>8, <1>9 DEF PlatformNext

MonitoringInv == HealthInv /\ MetricsInv /\ AlertsInv /\ EngineInv /\ JournalsInv

LEMMA MonitoringHolds == PlatformSpec => []MonitoringInv
<1>1. PlatformInit => MonitoringInv
  BY HealthStarts, MetricsStart, AlertsStart, EngineStarts, JournalsStart DEF PlatformInit, MonitoringInv
<1>2. ASSUME MonitoringInv, [PlatformNext]_platformVars PROVE MonitoringInv'
  <2>1. /\ [HealthNext]_healthVars /\ [MetricsNext]_metricVars /\ [AlertsNext]_alertVars
        /\ [EngineNext]_engineVars /\ [JournalsNext]_journalVars
    BY <1>2, MonitoringSteps
  <2> QED
    BY <1>2, <2>1, HealthSteps, MetricsSteps, AlertsSteps, EngineSteps, JournalsSteps DEF MonitoringInv
<1> QED
  BY <1>1, <1>2, PTL DEF PlatformSpec

(* No check registered with the manager of the process is lost; counters   *)
(* agree with their series, alerts with the last value checked, rules with how long their   *)
(* condition has held; and a log has the end of what it was told.          *)
THEOREM ObservedAlwaysReported == PlatformSpec => []ObservedIsReported
<1>1. MonitoringInv => ObservedIsReported
  BY HealthHolds, MetricsHold, AlertsHold, EngineHolds, JournalsHold DEF MonitoringInv, ObservedIsReported
<1> QED
  BY <1>1, MonitoringHolds, PTL

(* Every variable of every part has its type, and every part stays within  *)
(* the bounds of its queues, caches, windows and counts.                   *)
THEOREM PlatformTyped == PlatformSpec => []PlatformTypeOK
<1>1. OperationsInv => ScalingTypeOK /\ BalancingTypeOK /\ DeploymentTypeOK /\ IntegrationsTypeOK
  BY ScalingTyped, BalancingTyped, DeploymentTyped, IntegrationsTyped DEF OperationsInv
<1>2. MonitoringInv => MonitoringTypeOK
  BY HealthHolds, MetricsHold, AlertsHold, EngineHolds DEF MonitoringInv, MonitoringTypeOK
<1>3. ApplicationInv => WorkflowsTypeOK /\ UseCasesTypeOK
  BY WorkflowsHold, CommunicatorHolds, SearchHolds, AnswersHold DEF ApplicationInv, WorkflowsTypeOK, UseCasesTypeOK
<1>4. StorageInv => StoresTypeOK /\ SocketsTypeOK /\ RabbitTypeOK
  BY LocalHolds, QueriesHold, WarmHolds, SocketsHold, RabbitHolds DEF StorageInv, StoresTypeOK
<1>5. OperationsInv /\ MonitoringInv /\ ApplicationInv /\ StorageInv => PlatformTypeOK
  BY <1>1, <1>2, <1>3, <1>4 DEF PlatformTypeOK
<1> QED
  BY <1>5, OperationsHold, MonitoringHolds, ApplicationHolds, StorageHold, PTL

LEMMA KnowledgeSteps ==
  ASSUME [PlatformNext]_platformVars
  PROVE  /\ [PolicyNext]_policyVars /\ [RecordsNext]_recordVars
         /\ Believes \/ DateMoves \/ Spends \/ UNCHANGED valueVars
         /\ [DetectorNext]_detectorVars /\ [MarketNext]_marketVars /\ [PredictorNext]_predictorVars
         /\ SeriesNext \/ UNCHANGED points
<1>1. CASE UNCHANGED domainVars /\ UNCHANGED learningVars
  BY <1>1 DEF domainVars, learningVars
<1>2. CASE ValuesUsed
  <2>1. UNCHANGED <<detectorVars, marketVars, points, predictorVars>>
    BY <1>2 DEF ValuesUsed, learningVars
  <2>2. CASE PolicyNext /\ UNCHANGED <<recordVars, valueVars>>
    BY <2>1, <2>2
  <2>3. CASE RecordsNext /\ UNCHANGED <<policyVars, valueVars>>
    BY <2>1, <2>3
  <2>4. CASE (Believes \/ DateMoves \/ Spends) /\ UNCHANGED <<policyVars, recordVars>>
    BY <2>1, <2>4
  <2> QED
    BY <1>2, <2>2, <2>3, <2>4 DEF ValuesUsed
<1>3. CASE LearningUsed
  <2>1. UNCHANGED <<policyVars, recordVars, valueVars>>
    BY <1>3 DEF LearningUsed, domainVars
  <2>3. CASE DetectorNext /\ UNCHANGED <<marketVars, points, predictorVars>>
    BY <2>1, <2>3
  <2>4. CASE MarketNext /\ UNCHANGED <<detectorVars, points, predictorVars>>
    BY <2>1, <2>4
  <2>5. CASE SeriesNext /\ UNCHANGED <<detectorVars, marketVars, predictorVars>>
    BY <2>1, <2>5
  <2>6. CASE PredictorNext /\ UNCHANGED <<detectorVars, marketVars, points>>
    BY <2>1, <2>6
  <2> QED
    BY <1>3, <2>3, <2>4, <2>5, <2>6 DEF LearningUsed
<1>4. CASE OperationUsed \/ StorageUsed
  <2>1. UNCHANGED intelligenceVars
    BY <1>4 DEF OperationUsed, StorageUsed
  <2> QED
    BY <1>1, <2>1 DEF intelligenceVars
<1>5. CASE ApplicationUsed
  BY <1>1, <1>5 DEF ApplicationUsed
<1>6. CASE UNCHANGED platformVars
  BY <1>1, <1>6 DEF platformVars, intelligenceVars
<1> QED
  BY <1>2, <1>3, <1>4, <1>5, <1>6 DEF PlatformNext

KnowledgeInv == PolicyInv /\ RecordsInv /\ ValuesInv /\ DetectorInv /\ MarketInv /\ PredictorInv /\ SeriesInv

LEMMA KnowledgeHolds == PlatformSpec => []KnowledgeInv
<1>1. PlatformInit => KnowledgeInv
  BY PolicyStarts, RecordsStart, ValuesStart, DetectorStarts, MarketStarts, PredictorStarts,
     SeriesStarts
     DEF PlatformInit, KnowledgeInv
<1>2. ASSUME KnowledgeInv, [PlatformNext]_platformVars PROVE KnowledgeInv'
  <2>1. /\ [PolicyNext]_policyVars /\ [RecordsNext]_recordVars
        /\ Believes \/ DateMoves \/ Spends \/ UNCHANGED valueVars
        /\ [DetectorNext]_detectorVars /\ [MarketNext]_marketVars /\ [PredictorNext]_predictorVars
        /\ SeriesNext \/ UNCHANGED points
    BY <1>2, KnowledgeSteps
  <2> QED
    BY <1>2, <2>1, PolicySteps, RecordsSteps, ValuesStep, DetectorSteps, MarketSteps, PredictorSteps,
       SeriesSteps DEF KnowledgeInv
<1> QED
  BY <1>1, <1>2, PTL DEF PlatformSpec

(* Policies learn slowly, reports keep when they were first completed,     *)
(* confidences, dates and money stay what they can be; what is isolated,   *)
(* summed over segments and forecast is told by the calls there were. Of a *)
(* series, with values missing or not, the trend, the forecast and the     *)
(* index turn and move with it, resampling keeps its sum and its bounds,   *)
(* and taking outliers away leaves at least half of it.                    *)
THEOREM KnowledgeAlwaysSound == PlatformSpec => []KnowledgeSound
<1>1. KnowledgeInv => KnowledgeSound
  BY PolicyTyped, RecordsTyped, ValuesTyped, DetectorTyped, MarketTyped, PredictorTyped, SeriesTyped
     DEF KnowledgeInv, KnowledgeSound
<1> QED
  BY <1>1, KnowledgeHolds, PTL
=============================================================================
