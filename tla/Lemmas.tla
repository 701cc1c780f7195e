-------------------------------- MODULE Lemmas --------------------------------
(***************************************************************************)
(* What the proofs of several components need and no component is about:   *)
(* induction, functions defined by recursion, and lists as Python uses     *)
(* them.                                                                   *)
(***************************************************************************)
EXTENDS Integers, Sequences, Functions, FiniteSets, Lists, TLAPS,
        SequenceTheorems, FiniteSetTheorems, WellFoundedInduction

LEMMA LeastElement ==
  ASSUME NEW T \in SUBSET Nat, T # {}
  PROVE  \E x \in T : \A y \in T : x <= y
<1> DEFINE R == {ss \in Nat \X Nat : ss[1] < ss[2]}
<1>1. IsWellFoundedOn(R, Nat)
  BY NatLessThanWellFounded, Zenon DEF OpToRel
<1> HIDE DEF R
<1>2. PICK x \in T : \A y \in T : ~(<<y, x>> \in R)
  BY <1>1, WFMin
<1>3. \A y \in T : <<y, x>> \in R <=> y < x
  BY DEF R
<1>4. \A y \in T : ~(y < x)
  BY <1>2, <1>3
<1>5. \A y \in T : x \in Nat /\ y \in Nat
  OBVIOUS
<1> QED
  BY <1>4, <1>5

LEMMA SetInduction ==
  ASSUME NEW S \in SUBSET Nat, 0 \in S, \A n \in S : n + 1 \in S
  PROVE  S = Nat
<1>1. SUFFICES ASSUME Nat \ S # {} PROVE FALSE
  OBVIOUS
<1>2. PICK x \in Nat \ S : \A y \in Nat \ S : x <= y
  BY <1>1, LeastElement
<1>3. x # 0 /\ x - 1 \in Nat
  BY <1>2
<1>4. x - 1 \in S
  BY <1>2, <1>3
<1>5. QED
  BY <1>2, <1>3, <1>4

(* A function defined by recursion has the values its definition says.     *)
LEMMA Recursion ==
  ASSUME NEW V, NEW b \in V, NEW g \in [V -> V]
  PROVE  \E f \in [Nat -> V] : f[0] = b /\ \A n \in Nat : f[n + 1] = g[f[n]]
<1> DEFINE Good(n, h) == /\ h \in [0..n -> V] /\ h[0] = b
                         /\ \A k \in 0..n : k # n => h[k + 1] = g[h[k]]
<1>1. \A n \in Nat : \E h \in [0..n -> V] : Good(n, h)
  <2> DEFINE S == {n \in Nat : \E h \in [0..n -> V] : Good(n, h)}
  <2>1. 0 \in S
    <3> DEFINE h == [k \in 0..0 |-> b]
    <3>1. h \in [0..0 -> V] /\ Good(0, h)
      OBVIOUS
    <3> QED
      BY <3>1
  <2>2. ASSUME NEW n \in S PROVE n + 1 \in S
    <3>1. PICK h \in [0..n -> V] : Good(n, h)
      OBVIOUS
    <3> DEFINE i == [k \in 0..(n + 1) |-> IF k = n + 1 THEN g[h[n]] ELSE h[k]]
    <3>2. i \in [0..(n + 1) -> V]
      OBVIOUS
    <3>3. i[0] = b /\ \A k \in 0..(n + 1) : k # n + 1 => i[k + 1] = g[i[k]]
      BY <3>1
    <3>4. Good(n + 1, i) /\ n + 1 \in Nat
      BY <3>2, <3>3
    <3> HIDE DEF i, Good
    <3> QED
      BY <3>2, <3>4
  <2>3. S \in SUBSET Nat
    OBVIOUS
  <2> HIDE DEF S
  <2>4. S = Nat
    BY <2>1, <2>2, <2>3, SetInduction
  <2> QED
    BY <2>4 DEF S
<1>2. ASSUME NEW m \in Nat, NEW n \in Nat, NEW h, NEW i, Good(m, h), Good(n, i)
      PROVE  \A k \in Nat : k <= m /\ k <= n => h[k] = i[k]
  <2> DEFINE S == {k \in Nat : k <= m /\ k <= n => h[k] = i[k]}
  <2>1. 0 \in S /\ \A k \in S : k + 1 \in S
    BY <1>2
  <2>2. S \in SUBSET Nat
    OBVIOUS
  <2> HIDE DEF S
  <2>3. S = Nat
    BY <2>1, <2>2, SetInduction
  <2> QED
    BY <2>3 DEF S
<1> DEFINE part(n) == CHOOSE h \in [0..n -> V] : Good(n, h)
           f == [n \in Nat |-> part(n)[n]]
<1>3. \A n \in Nat : part(n) \in [0..n -> V] /\ Good(n, part(n))
  BY <1>1
<1> HIDE DEF part
<1>4. f \in [Nat -> V] /\ f[0] = b
  BY <1>3
<1>5. ASSUME NEW n \in Nat PROVE f[n + 1] = g[f[n]]
  <2>1. part(n + 1)[n + 1] = g[part(n + 1)[n]]
    BY <1>3
  <2>2. part(n + 1)[n] = part(n)[n]
    <3> HIDE DEF Good
    <3> QED BY <1>2, <1>3
  <2> QED
    BY <2>1, <2>2
<1> QED
  BY <1>4, <1>5

(* The same, for uses among facts about other functions.                   *)
Steps(V, b, g)      == b \in V /\ g \in [V -> V]
Unfolds(f, V, b, g) == f \in [Nat -> V] /\ f[0] = b /\ \A n \in Nat : f[n + 1] = g[f[n]]

LEMMA RecursiveFunction ==
  ASSUME NEW V, NEW b, NEW g, Steps(V, b, g) PROVE \E f : Unfolds(f, V, b, g)
<1>1. b \in V /\ g \in [V -> V]
  BY DEF Steps
<1>2. \E f \in [Nat -> V] : f[0] = b /\ \A n \in Nat : f[n + 1] = g[f[n]]
  BY <1>1, Recursion
<1> QED
  BY <1>2 DEF Unfolds

-----------------------------------------------------------------------------
(* Lists: what appending, taking the head and removing leave.              *)
LEMMA ListDomain ==
  ASSUME NEW S, NEW s \in Seq(S) PROVE DOMAIN s = 1..Len(s) /\ Len(s) \in Nat
OBVIOUS

LEMMA Retyped ==
  ASSUME NEW S, NEW T, NEW s \in Seq(S), \A i \in DOMAIN s : s[i] \in T
  PROVE  s \in Seq(T)
OBVIOUS

LEMMA Appended ==
  ASSUME NEW S, NEW s \in Seq(S), NEW x \in S
  PROVE  /\ Append(s, x) \in Seq(S) /\ Len(Append(s, x)) = Len(s) + 1
         /\ DOMAIN Append(s, x) = 1..(Len(s) + 1) /\ DOMAIN s = 1..Len(s)
         /\ \A i \in 1..Len(s) : Append(s, x)[i] = s[i]
         /\ Append(s, x)[Len(s) + 1] = x
         /\ Range(Append(s, x)) = Range(s) \cup {x}
<1>1. /\ Append(s, x) \in Seq(S) /\ Len(Append(s, x)) = Len(s) + 1
      /\ DOMAIN Append(s, x) = 1..(Len(s) + 1) /\ DOMAIN s = 1..Len(s)
      /\ \A i \in 1..Len(s) : Append(s, x)[i] = s[i]
      /\ Append(s, x)[Len(s) + 1] = x
  OBVIOUS
<1>2. Len(s) \in Nat /\ 1..(Len(s) + 1) = 1..Len(s) \cup {Len(s) + 1}
  OBVIOUS
<1>3. Range(Append(s, x)) = {Append(s, x)[i] : i \in 1..Len(s) \cup {Len(s) + 1}}
  BY <1>1, <1>2 DEF Range
<1>4. Range(s) = {s[i] : i \in 1..Len(s)}
  BY <1>1 DEF Range
<1> QED
  BY <1>1, <1>3, <1>4, <1>2

LEMMA Shortened ==
  ASSUME NEW S, NEW s \in Seq(S), s # <<>>
  PROVE  /\ Tail(s) \in Seq(S) /\ Len(Tail(s)) = Len(s) - 1 /\ Len(s) \in Nat \ {0}
         /\ DOMAIN Tail(s) = 1..(Len(s) - 1) /\ DOMAIN s = 1..Len(s)
         /\ \A i \in 1..(Len(s) - 1) : Tail(s)[i] = s[i + 1]
         /\ Head(s) = s[1] /\ Head(s) \in S
         /\ Range(s) = Range(Tail(s)) \cup {Head(s)}
<1>1. /\ Tail(s) \in Seq(S) /\ Len(Tail(s)) = Len(s) - 1 /\ Len(s) \in Nat \ {0}
      /\ DOMAIN Tail(s) = 1..(Len(s) - 1) /\ DOMAIN s = 1..Len(s)
      /\ \A i \in 1..(Len(s) - 1) : Tail(s)[i] = s[i + 1]
      /\ Head(s) = s[1] /\ Head(s) \in S
  OBVIOUS
<1>2. ASSUME NEW y \in Range(s) PROVE y \in Range(Tail(s)) \cup {Head(s)}
  <2>1. PICK i \in 1..Len(s) : y = s[i]
    BY <1>1 DEF Range
  <2>2. CASE i = 1
    BY <1>1, <2>1, <2>2
  <2>3. CASE i # 1
    <3>1. i - 1 \in 1..(Len(s) - 1) /\ s[(i - 1) + 1] = y
      BY <1>1, <2>1, <2>3
    <3> QED
      BY <1>1, <3>1 DEF Range
  <2> QED
    BY <2>2, <2>3
<1>3. ASSUME NEW y \in Range(Tail(s)) \cup {Head(s)} PROVE y \in Range(s)
  <2>1. CASE y = Head(s)
    BY <1>1, <2>1 DEF Range
  <2>2. CASE y \in Range(Tail(s))
    <3>1. PICK i \in 1..(Len(s) - 1) : y = Tail(s)[i]
      BY <1>1, <2>2 DEF Range
    <3>2. i + 1 \in 1..Len(s) /\ y = s[i + 1]
      BY <1>1, <3>1
    <3> QED
      BY <1>1, <3>2 DEF Range
  <2> QED
    BY <2>1, <2>2
<1> QED
  BY <1>1, <1>2, <1>3

(* A list without its k-th element.                                       *)
Dropped(s, k) == SubSeq(s, 1, k - 1) \o SubSeq(s, k + 1, Len(s))

LEMMA RemovedAt ==
  ASSUME NEW S, NEW s \in Seq(S), NEW k \in DOMAIN s
  PROVE  /\ Dropped(s, k) \in Seq(S) /\ Len(Dropped(s, k)) = Len(s) - 1
         /\ DOMAIN Dropped(s, k) = 1..(Len(s) - 1) /\ Len(s) \in Nat \ {0}
         /\ \A i \in 1..(Len(s) - 1) : Dropped(s, k)[i] = s[IF i < k THEN i ELSE i + 1]
<1>1. Len(s) \in Nat /\ k \in 1..Len(s) /\ DOMAIN s = 1..Len(s)
  OBVIOUS
<1>2. /\ SubSeq(s, 1, k - 1) \in Seq(S) /\ Len(SubSeq(s, 1, k - 1)) = k - 1
      /\ \A i \in 1..(k - 1) : SubSeq(s, 1, k - 1)[i] = s[i]
  BY <1>1
<1>3. /\ SubSeq(s, k + 1, Len(s)) \in Seq(S) /\ Len(SubSeq(s, k + 1, Len(s))) = Len(s) - k
      /\ \A i \in 1..(Len(s) - k) : SubSeq(s, k + 1, Len(s))[i] = s[k + i]
  BY <1>1
<1> DEFINE a == SubSeq(s, 1, k - 1)
           b == SubSeq(s, k + 1, Len(s))
<1>4. a \in Seq(S) /\ b \in Seq(S) /\ Len(a) = k - 1 /\ Len(b) = Len(s) - k
  BY <1>2, <1>3
<1>5. /\ \A i \in 1..(k - 1) : a[i] = s[i]
      /\ \A i \in 1..(Len(s) - k) : b[i] = s[k + i]
  BY <1>2, <1>3
<1>6. Dropped(s, k) = a \o b
  BY DEF Dropped
<1> HIDE DEF a, b
<1>7. /\ a \o b \in Seq(S) /\ Len(a \o b) = Len(s) - 1 /\ DOMAIN (a \o b) = 1..(Len(s) - 1)
  <2>1. a \o b \in Seq(S) /\ Len(a \o b) = Len(a) + Len(b)
    BY <1>4, ConcatProperties
  <2>2. Len(a \o b) = Len(s) - 1
    BY <1>1, <1>4, <2>1
  <2> QED
    BY <2>1, <2>2
<1>8. ASSUME NEW i \in 1..(Len(s) - 1) PROVE (a \o b)[i] = s[IF i < k THEN i ELSE i + 1]
  <2>1. CASE i < k
    BY <1>1, <1>4, <1>5, <2>1
  <2>2. CASE ~ (i < k)
    <3>1. (a \o b)[i] = b[i - (k - 1)] /\ i - (k - 1) \in 1..(Len(s) - k)
      BY <1>1, <1>4, <2>2
    <3>2. b[i - (k - 1)] = s[k + (i - (k - 1))] /\ k + (i - (k - 1)) = i + 1
      BY <1>1, <1>5, <3>1
    <3> QED
      BY <2>2, <3>1, <3>2
  <2> QED
    BY <2>1, <2>2
<1>9. Len(s) \in Nat \ {0}
  BY <1>1
<1> HIDE DEF a, b
<1> QED
  BY <1>6, <1>7, <1>8, <1>9

(* A list sifted by a set, element by element.                             *)
LEMMA SiftExists ==
  ASSUME NEW S, NEW s \in Seq(S), NEW P
  PROVE  \E f : f = [i \in 0..Len(s) |-> IF i = 0 THEN <<>> ELSE
                       IF s[i] \in P THEN Append(f[i - 1], s[i]) ELSE f[i - 1]]
<1> DEFINE V == Nat \X Seq(S)
           step(v) == <<v[1] + 1, IF v[1] + 1 \in DOMAIN s /\ s[v[1] + 1] \in P
                                  THEN Append(v[2], s[v[1] + 1]) ELSE v[2]>>
           advance == [v \in V |-> step(v)]
           start == <<0, <<>>>>
<1>1. start \in V /\ advance \in [V -> V]
  <2>1. ASSUME NEW v \in V PROVE step(v) \in V
    <3>1. v[1] + 1 \in Nat /\ v[2] \in Seq(S)
      OBVIOUS
    <3>2. ASSUME v[1] + 1 \in DOMAIN s PROVE Append(v[2], s[v[1] + 1]) \in Seq(S)
      BY <3>1, <3>2, Appended
    <3> QED
      BY <3>1, <3>2
  <2>2. start \in V
    BY EmptySeq
  <2> HIDE DEF step, V, start
  <2> QED
    BY <2>1, <2>2
<1>2. PICK h \in [Nat -> V] : h[0] = start /\ \A n \in Nat : h[n + 1] = advance[h[n]]
  <2>1. Steps(V, start, advance)
    <3> HIDE DEF V, start, advance
    <3> QED BY <1>1 DEF Steps
  <2> HIDE DEF step, V, start, advance
  <2>2. \E h : Unfolds(h, V, start, advance)
    BY <2>1, RecursiveFunction
  <2> QED
    BY <2>2 DEF Unfolds
<1>3. \A n \in Nat : h[n + 1] = step(h[n])
  <2> HIDE DEF step, V
  <2> QED BY <1>2
<1>4. \A n \in Nat : h[n][1] = n
  <2> DEFINE T == {n \in Nat : h[n][1] = n}
  <2>1. T \in SUBSET Nat /\ 0 \in T
    <3>1. h[0][1] = 0
      BY <1>2
    <3> QED
      BY <3>1
  <2>3. ASSUME NEW n \in T PROVE n + 1 \in T
    <3>1. step(h[n])[1] = h[n][1] + 1 /\ h[n + 1] = step(h[n]) /\ h[n][1] = n
      BY <1>3
    <3> QED
      BY <3>1
  <2> HIDE DEF T
  <2>2. T = Nat
    BY <2>1, <2>3, SetInduction
  <2> QED
    BY <2>2 DEF T
<1>5. h[0][2] = <<>>
  BY <1>2
<1>6. ASSUME NEW n \in Nat, n + 1 \in DOMAIN s
      PROVE  h[n + 1][2] = IF s[n + 1] \in P THEN Append(h[n][2], s[n + 1]) ELSE h[n][2]
  <2>1. h[n + 1][2] = step(h[n])[2] /\ h[n][1] = n
    BY <1>3, <1>4
  <2> QED
    BY <2>1, <1>6
<1> DEFINE f == [i \in 0..Len(s) |-> h[i][2]]
<1>7. ASSUME NEW i \in 0..Len(s)
      PROVE  f[i] = IF i = 0 THEN <<>> ELSE
                    IF s[i] \in P THEN Append(f[i - 1], s[i]) ELSE f[i - 1]
  <2>1. CASE i = 0
    BY <1>5, <2>1
  <2>2. CASE i # 0
    <3>0. Len(s) \in Nat /\ DOMAIN s = 1..Len(s)
      OBVIOUS
    <3>1. i - 1 \in Nat /\ (i - 1) + 1 = i /\ i - 1 \in 0..Len(s) /\ i \in DOMAIN s
      BY <2>2, <3>0
    <3>2. f[i - 1] = h[i - 1][2] /\ f[i] = h[i][2]
      BY <3>1
    <3>3. h[(i - 1) + 1][2] = IF s[(i - 1) + 1] \in P THEN Append(h[i - 1][2], s[(i - 1) + 1]) ELSE h[i - 1][2]
      BY <1>6, <3>1
    <3> HIDE DEF f
    <3> QED
      BY <2>2, <3>1, <3>2, <3>3
  <2> QED
    BY <2>1, <2>2
<1> QED
  <2>1. f = [i \in 0..Len(s) |-> f[i]]
    OBVIOUS
  <2> HIDE DEF f
  <2> QED
    BY <1>7, <2>1

(* What is left of the first n elements of s.                              *)
Leaves(t, s, n, P) ==
  /\ \A i, j \in DOMAIN t : i < j => \E a, c \in 1..n : a < c /\ t[i] = s[a] /\ t[j] = s[c]
  /\ \A i \in DOMAIN t : t[i] \in P /\ \E a \in 1..n : t[i] = s[a]
  /\ \A a \in 1..n : s[a] \in P => \E i \in DOMAIN t : t[i] = s[a]

LEMMA SiftStep ==
  ASSUME NEW S, NEW s \in Seq(S), NEW P, NEW t \in Seq(S), NEW n \in Nat,
         n + 1 \in DOMAIN s, Leaves(t, s, n, P)
  PROVE  /\ s[n + 1] \in P => Leaves(Append(t, s[n + 1]), s, n + 1, P)
         /\ s[n + 1] \notin P => Leaves(t, s, n + 1, P)
<1>1. /\ \A i, j \in DOMAIN t : i < j => \E a, c \in 1..n : a < c /\ t[i] = s[a] /\ t[j] = s[c]
      /\ \A i \in DOMAIN t : t[i] \in P /\ \E a \in 1..n : t[i] = s[a]
      /\ \A a \in 1..n : s[a] \in P => \E i \in DOMAIN t : t[i] = s[a]
  BY DEF Leaves
<1>2. 1..(n + 1) = 1..n \cup {n + 1} /\ \A a \in 1..n : a < n + 1
  OBVIOUS
<1>3. ASSUME s[n + 1] \in P PROVE Leaves(Append(t, s[n + 1]), s, n + 1, P)
  <2>1. s[n + 1] \in S
    OBVIOUS
  <2>2. PICK m, u : m = Len(t) /\ u = Append(t, s[n + 1])
    OBVIOUS
  <2>3. /\ DOMAIN u = 1..(m + 1) /\ DOMAIN t = 1..m /\ m \in Nat
        /\ \A i \in 1..m : u[i] = t[i]
        /\ u[m + 1] = s[n + 1]
    <3>1. Len(t) \in Nat
      OBVIOUS
    <3> QED
      BY <2>1, <2>2, <3>1, Appended
  <2>4. 1..(m + 1) = 1..m \cup {m + 1} /\ \A a \in 1..m : a < m + 1 /\ ~ (m + 1 < a)
    BY <2>3
  <2>5. ASSUME NEW i \in 1..(m + 1), NEW j \in 1..(m + 1), i < j
        PROVE  \E a, c \in 1..(n + 1) : a < c /\ u[i] = s[a] /\ u[j] = s[c]
    <3>1. i \in 1..m
      BY <2>3, <2>5
    <3>2. CASE j \in 1..m
      <4>1. i \in DOMAIN t /\ j \in DOMAIN t /\ u[i] = t[i] /\ u[j] = t[j]
        BY <2>3, <3>1, <3>2
      <4>2. PICK a \in 1..n, c \in 1..n : a < c /\ t[i] = s[a] /\ t[j] = s[c]
        BY <1>1, <2>5, <4>1
      <4> QED
        BY <1>2, <4>1, <4>2
    <3>3. CASE j = m + 1
      <4>1. PICK a \in 1..n : t[i] = s[a]
        BY <1>1, <2>3, <3>1
      <4> QED
        BY <1>2, <2>3, <3>1, <3>3, <4>1
    <3> QED
      BY <2>4, <3>2, <3>3
  <2>6. ASSUME NEW i \in 1..(m + 1) PROVE u[i] \in P /\ \E a \in 1..(n + 1) : u[i] = s[a]
    <3>1. CASE i \in 1..m
      <4>1. u[i] = t[i] /\ i \in DOMAIN t
        BY <2>3, <3>1
      <4>2. t[i] \in P /\ \E a \in 1..n : t[i] = s[a]
        BY <1>1, <4>1
      <4> QED
        BY <1>2, <4>1, <4>2
    <3>2. CASE i = m + 1
      BY <1>2, <1>3, <2>3, <3>2
    <3> QED
      BY <2>4, <3>1, <3>2
  <2>7. ASSUME NEW a \in 1..(n + 1), s[a] \in P PROVE \E i \in 1..(m + 1) : u[i] = s[a]
    <3>1. CASE a \in 1..n
      <4>1. PICK i \in DOMAIN t : t[i] = s[a]
        BY <1>1, <2>7, <3>1
      <4> QED
        BY <2>3, <2>4, <4>1
    <3>2. CASE a = n + 1
      BY <2>3, <2>4, <3>2
    <3> QED
      BY <1>2, <3>1, <3>2
  <2> DEFINE both(i, j) == \E a, c \in 1..(n + 1) : a < c /\ u[i] = s[a] /\ u[j] = s[c]
             one(i) == u[i] \in P /\ \E a \in 1..(n + 1) : u[i] = s[a]
             all(a) == s[a] \in P => \E i \in DOMAIN u : u[i] = s[a]
  <2>8. /\ \A i, j \in 1..(m + 1) : i < j => both(i, j)
        /\ \A i \in 1..(m + 1) : one(i)
        /\ \A a \in 1..(n + 1) : all(a)
    <3>1. \A a \in 1..(n + 1) : all(a)
      BY <2>3, <2>7
    <3>2. \A i, j \in 1..(m + 1) : i < j => both(i, j)
      BY <2>5
    <3>3. \A i \in 1..(m + 1) : one(i)
      BY <2>6
    <3> HIDE DEF both, one, all
    <3> QED
      BY <3>1, <3>2, <3>3
  <2>9. Leaves(u, s, n + 1, P)
    <3>1. /\ \A i, j \in DOMAIN u : i < j => both(i, j)
          /\ \A i \in DOMAIN u : one(i)
          /\ \A a \in 1..(n + 1) : all(a)
      <4> HIDE DEF both, one, all
      <4> QED
        BY <2>3, <2>8
    <3> QED
      BY <3>1, Zenon DEF Leaves
  <2> QED
    BY <2>2, <2>9
<1>4. ASSUME s[n + 1] \notin P PROVE Leaves(t, s, n + 1, P)
  BY <1>1, <1>2, <1>4 DEF Leaves
<1> QED
  BY <1>3, <1>4

LEMMA Sifted ==
  ASSUME NEW S, NEW s \in Seq(S), NEW P, NEW f, f[0] = <<>>,
         \A i \in 1..Len(s) : f[i] = IF s[i] \in P THEN Append(f[i - 1], s[i]) ELSE f[i - 1]
  PROVE  f[Len(s)] \in Seq(S) /\ Leaves(f[Len(s)], s, Len(s), P)
<1> DEFINE T == {n \in Nat : n <= Len(s) => f[n] \in Seq(S) /\ Leaves(f[n], s, n, P)}
<1>1. Len(s) \in Nat /\ DOMAIN s = 1..Len(s) /\ \A i \in 1..Len(s) : s[i] \in S
  OBVIOUS
<1>2. T \in SUBSET Nat /\ 0 \in T
  <2>1. <<>> \in Seq(S) /\ Leaves(<<>>, s, 0, P)
    BY DEF Leaves
  <2> QED
    BY <2>1
<1>3. ASSUME NEW n \in T, n + 1 <= Len(s)
      PROVE  f[n + 1] \in Seq(S) /\ Leaves(f[n + 1], s, n + 1, P)
  <2>1. /\ n \in Nat /\ f[n] \in Seq(S) /\ Leaves(f[n], s, n, P)
        /\ n + 1 \in DOMAIN s /\ (n + 1) - 1 = n /\ s[n + 1] \in S /\ n + 1 \in 1..Len(s)
    BY <1>1, <1>3
  <2>2. f[n + 1] = IF s[n + 1] \in P THEN Append(f[n], s[n + 1]) ELSE f[n]
    BY <2>1
  <2>3. Append(f[n], s[n + 1]) \in Seq(S)
    BY <2>1, Appended
  <2> QED
    BY <2>1, <2>2, <2>3, SiftStep
<1>4. \A n \in T : n + 1 \in T
  BY <1>3
<1>6. T = Nat
  <2> HIDE DEF T
  <2> QED BY <1>2, <1>4, SetInduction
<1> QED
  BY <1>1, <1>6

(* A list with x put before its k-th element.                              *)
PutBefore(s, k, x) == SubSeq(s, 1, k - 1) \o <<x>> \o SubSeq(s, k, Len(s))

LEMMA Insertion ==
  ASSUME NEW S, NEW s \in Seq(S), NEW x \in S, NEW k \in 1..(Len(s) + 1)
  PROVE  /\ PutBefore(s, k, x) \in Seq(S) /\ DOMAIN PutBefore(s, k, x) = 1..(Len(s) + 1) /\ Len(s) \in Nat
         /\ \A i \in 1..(Len(s) + 1) :
              PutBefore(s, k, x)[i] = IF i < k THEN s[i] ELSE IF i = k THEN x ELSE s[i - 1]
<1>1. Len(s) \in Nat /\ DOMAIN s = 1..Len(s) /\ k \in Nat
  OBVIOUS
<1>2. PICK a, b, c, n : /\ a = SubSeq(s, 1, k - 1) /\ b = <<x>> /\ c = SubSeq(s, k, Len(s)) /\ n = Len(s)
  OBVIOUS
<1>3. /\ a \in Seq(S) /\ Len(a) = k - 1 /\ \A i \in 1..(k - 1) : a[i] = s[i]
  BY <1>1, <1>2
<1>4. c \in Seq(S) /\ Len(c) = n - k + 1 /\ \A i \in 1..(n - k + 1) : c[i] = s[k + i - 1]
  BY <1>1, <1>2
<1>5. b \in Seq(S) /\ Len(b) = 1 /\ b[1] = x
  BY <1>2
<1>6. /\ a \o b \in Seq(S) /\ Len(a \o b) = k
      /\ \A i \in 1..k : (a \o b)[i] = IF i <= k - 1 THEN a[i] ELSE b[i - (k - 1)]
  <2>1. /\ a \o b \in Seq(S) /\ Len(a \o b) = Len(a) + Len(b)
        /\ \A i \in 1..Len(a) + Len(b) : (a \o b)[i] = IF i <= Len(a) THEN a[i] ELSE b[i - Len(a)]
    BY <1>3, <1>5, ConcatProperties
  <2>2. Len(a) + Len(b) = k
    BY <1>1, <1>3, <1>5
  <2> QED
    BY <1>3, <2>1, <2>2
<1>7. PICK u : u = a \o b
  OBVIOUS
<1>8. u \in Seq(S) /\ Len(u) = k /\ u[k] = x /\ \A i \in 1..(k - 1) : u[i] = s[i]
  <2>1. k \in 1..k /\ k - (k - 1) = 1 /\ ~ (k <= k - 1) /\ \A i \in 1..(k - 1) : i \in 1..k /\ i <= k - 1
    BY <1>1
  <2> QED
    BY <1>3, <1>5, <1>6, <1>7, <2>1
<1>9. /\ u \o c \in Seq(S) /\ Len(u \o c) = n + 1
      /\ \A i \in 1..(n + 1) : (u \o c)[i] = IF i <= k THEN u[i] ELSE c[i - k]
  <2>1. /\ u \o c \in Seq(S) /\ Len(u \o c) = Len(u) + Len(c)
        /\ \A i \in 1..Len(u) + Len(c) : (u \o c)[i] = IF i <= Len(u) THEN u[i] ELSE c[i - Len(u)]
    BY <1>4, <1>8, ConcatProperties
  <2>2. Len(u) + Len(c) = n + 1
    BY <1>1, <1>2, <1>4, <1>8
  <2> QED
    BY <1>8, <2>1, <2>2
<1>10. PutBefore(s, k, x) = u \o c
  BY <1>2, <1>7 DEF PutBefore
<1>11. PICK w : w = u \o c
  OBVIOUS
<1>12. ASSUME NEW i \in 1..(n + 1)
       PROVE  w[i] = IF i < k THEN s[i] ELSE IF i = k THEN x ELSE s[i - 1]
  <2>1. CASE i < k
    <3>1. i \in 1..(k - 1) /\ i <= k
      BY <1>1, <2>1
    <3> QED
      BY <1>8, <1>9, <1>11, <2>1, <3>1
  <2>2. CASE i = k
    <3>1. i <= k /\ ~ (i < k)
      BY <1>1, <2>2
    <3> QED
      BY <1>8, <1>9, <1>11, <2>2, <3>1
  <2>3. CASE i > k
    <3>1. i - k \in 1..(n - k + 1) /\ k + (i - k) - 1 = i - 1 /\ ~ (i <= k) /\ ~ (i < k) /\ i # k
      BY <1>1, <1>2, <2>3
    <3>2. c[i - k] = s[k + (i - k) - 1]
      BY <1>4, <3>1
    <3> QED
      BY <1>9, <1>11, <3>1, <3>2
  <2> QED
    BY <1>1, <1>2, <2>1, <2>2, <2>3
<1>13. w \in Seq(S) /\ DOMAIN w = 1..(n + 1)
  BY <1>9, <1>11
<1> QED
  BY <1>1, <1>2, <1>10, <1>11, <1>12, <1>13

(* The head of one list moved to the end of another.                       *)
LEMMA HandedOver ==
  ASSUME NEW S, NEW s \in Seq(S), NEW t \in Seq(S), t # <<>>
  PROVE  Append(s, Head(t)) \o Tail(t) = s \o t
<1>1. PICK a, b, u, n, m : a = Append(s, Head(t)) /\ b = Tail(t) /\ n = Len(s) /\ m = Len(t)
  OBVIOUS
<1>2. /\ n \in Nat /\ m \in Nat \ {0} /\ t[1] = Head(t) /\ b \in Seq(S) /\ Len(b) = m - 1
      /\ \A i \in 1..(m - 1) : b[i] = t[i + 1]
  BY <1>1, Shortened
<1>3. a \in Seq(S) /\ Len(a) = n + 1 /\ a[n + 1] = t[1] /\ \A i \in 1..n : a[i] = s[i]
  BY <1>1, <1>2, Appended
<1>4. PICK c, d : c = a \o b /\ d = s \o t
  OBVIOUS
<1>5. /\ c \in Seq(S) /\ Len(c) = n + m
      /\ \A i \in 1..(n + m) : c[i] = IF i <= n + 1 THEN a[i] ELSE b[i - (n + 1)]
  <2>1. /\ c \in Seq(S) /\ Len(c) = Len(a) + Len(b)
        /\ \A i \in 1..(Len(a) + Len(b)) : c[i] = IF i <= Len(a) THEN a[i] ELSE b[i - Len(a)]
    BY <1>2, <1>3, <1>4, ConcatProperties
  <2>2. Len(a) + Len(b) = n + m
    BY <1>2, <1>3
  <2> QED
    BY <1>3, <2>1, <2>2
<1>6. /\ d \in Seq(S) /\ Len(d) = n + m
      /\ \A i \in 1..(n + m) : d[i] = IF i <= n THEN s[i] ELSE t[i - n]
  BY <1>1, <1>4, ConcatProperties
<1>7. ASSUME NEW i \in 1..(n + m) PROVE c[i] = d[i]
  <2>1. CASE i <= n
    BY <1>2, <1>3, <1>5, <1>6, <2>1
  <2>2. CASE i = n + 1
    <3>1. i - n = 1 /\ ~ (i <= n)
      BY <1>2, <2>2
    <3> QED
      BY <1>3, <1>5, <1>6, <2>2, <3>1
  <2>3. CASE i > n + 1
    <3>1. i - (n + 1) \in 1..(m - 1) /\ (i - (n + 1)) + 1 = i - n /\ ~ (i <= n) /\ ~ (i <= n + 1)
      BY <1>2, <2>3
    <3>2. b[i - (n + 1)] = t[(i - (n + 1)) + 1]
      BY <1>2, <3>1
    <3> QED
      BY <1>5, <1>6, <3>1, <3>2
  <2> QED
    BY <1>2, <2>1, <2>2, <2>3
<1>8. c = d
  BY <1>2, <1>5, <1>6, <1>7, SeqEqual
<1> QED
  BY <1>1, <1>4, <1>8

-----------------------------------------------------------------------------
(* The first elements of a list.                                           *)
LEMMA Beginnings ==
  ASSUME NEW S, NEW s \in Seq(S)
  PROVE  /\ SubSeq(s, 1, 0) = <<>> /\ SubSeq(s, 1, Len(s)) = s
         /\ \A k \in 1..Len(s) : Append(SubSeq(s, 1, k - 1), s[k]) = SubSeq(s, 1, k)
         /\ \A x \in S, k \in 0..Len(s) : SubSeq(Append(s, x), 1, k) = SubSeq(s, 1, k)
<1>1. Len(s) \in Nat /\ DOMAIN s = 1..Len(s)
  OBVIOUS
<1>2. \A k \in 0..Len(s) : /\ SubSeq(s, 1, k) \in Seq(S) /\ Len(SubSeq(s, 1, k)) = k
                           /\ \A i \in 1..k : SubSeq(s, 1, k)[i] = s[i]
  BY <1>1
<1>3. SubSeq(s, 1, 0) = <<>>
  BY <1>1, <1>2
<1>4. SubSeq(s, 1, Len(s)) = s
  BY <1>1, <1>2, SeqEqual
<1>5. ASSUME NEW k \in 1..Len(s) PROVE Append(SubSeq(s, 1, k - 1), s[k]) = SubSeq(s, 1, k)
  <2>1. PICK t, u, v : t = SubSeq(s, 1, k - 1) /\ u = SubSeq(s, 1, k) /\ v = Append(t, s[k])
    OBVIOUS
  <2>2. /\ t \in Seq(S) /\ Len(t) = k - 1 /\ \A i \in 1..(k - 1) : t[i] = s[i]
        /\ u \in Seq(S) /\ Len(u) = k /\ \A i \in 1..k : u[i] = s[i]
        /\ s[k] \in S /\ k \in Nat /\ k - 1 + 1 = k
    BY <1>1, <1>2, <2>1
  <2>3. /\ v \in Seq(S) /\ Len(v) = k /\ v[k] = s[k]
        /\ \A i \in 1..(k - 1) : v[i] = t[i]
    <3>1. /\ Append(t, s[k]) \in Seq(S) /\ Len(Append(t, s[k])) = Len(t) + 1
          /\ \A i \in 1..Len(t) : Append(t, s[k])[i] = t[i]
          /\ Append(t, s[k])[Len(t) + 1] = s[k]
      BY <2>2, Appended
    <3> QED
      BY <2>1, <2>2, <3>1
  <2>4. \A i \in 1..k : v[i] = u[i]
    <3>1. \A i \in 1..k : i = k \/ i \in 1..(k - 1)
      BY <2>2
    <3> QED
      BY <2>2, <2>3, <3>1
  <2>5. v = u
    BY <2>2, <2>3, <2>4, SeqEqual
  <2> QED
    BY <2>1, <2>5
<1>6. ASSUME NEW x \in S, NEW k \in 0..Len(s) PROVE SubSeq(Append(s, x), 1, k) = SubSeq(s, 1, k)
  <2>1. PICK t, u, v, n : t = Append(s, x) /\ u = SubSeq(s, 1, k) /\ v = SubSeq(t, 1, k) /\ n = Len(s)
    OBVIOUS
  <2>2. t \in Seq(S) /\ Len(t) = n + 1 /\ n \in Nat /\ \A i \in 1..n : t[i] = s[i]
    BY <1>1, <2>1, Appended
  <2>3. k \in 0..n /\ k <= n + 1 /\ v \in Seq(S) /\ Len(v) = k /\ \A i \in 1..k : v[i] = t[i]
    BY <2>1, <2>2
  <2>4. u \in Seq(S) /\ Len(u) = k /\ \A i \in 1..k : u[i] = s[i]
    BY <1>2, <2>1
  <2>5. \A i \in 1..k : v[i] = u[i]
    <3>1. \A i \in 1..k : i \in 1..n
      BY <2>2, <2>3
    <3> QED
      BY <2>2, <2>3, <2>4, <3>1
  <2>6. v = u
    BY <2>3, <2>4, <2>5, SeqEqual
  <2> QED
    BY <2>1, <2>6
<1> QED
  BY <1>3, <1>4, <1>5, <1>6

(* Lists without repetitions.                                              *)
LEMMA AppendedOnce ==
  ASSUME NEW S, NEW s \in Seq(S), IsInjective(s), NEW x \in S, x \notin Range(s)
  PROVE  IsInjective(Append(s, x))
<1>1. PICK n, t : n = Len(s) /\ t = Append(s, x)
  OBVIOUS
<1>2. /\ DOMAIN t = 1..(n + 1) /\ DOMAIN s = 1..n /\ n \in Nat
      /\ \A i \in 1..n : t[i] = s[i]
      /\ t[n + 1] = x
  <2>1. Len(s) \in Nat
    OBVIOUS
  <2> QED
    BY <1>1, <2>1, Appended
<1>3. \A i \in 1..n : s[i] # x
  BY <1>2 DEF Range
<1>4. \A i, j \in 1..n : s[i] = s[j] => i = j
  BY <1>2 DEF IsInjective
<1>5. \A i \in 1..(n + 1) : i \in 1..n \/ i = n + 1
  BY <1>2
<1>6. \A i, j \in 1..(n + 1) : t[i] = t[j] => i = j
  BY <1>2, <1>3, <1>4, <1>5
<1> QED
  BY <1>1, <1>2, <1>6 DEF IsInjective

LEMMA TailOnce ==
  ASSUME NEW S, NEW s \in Seq(S), IsInjective(s), s # <<>>
  PROVE  /\ IsInjective(Tail(s)) /\ Head(s) \notin Range(Tail(s))
         /\ Range(Tail(s)) = Range(s) \ {Head(s)}
<1>1. PICK n, t : n = Len(s) /\ t = Tail(s)
  OBVIOUS
<1>2. /\ n \in Nat \ {0} /\ DOMAIN t = 1..(n - 1) /\ DOMAIN s = 1..n
      /\ \A i \in 1..(n - 1) : t[i] = s[i + 1]
      /\ Head(s) = s[1] /\ Range(s) = Range(t) \cup {Head(s)}
  BY <1>1, Shortened
<1>3. \A i, j \in 1..n : s[i] = s[j] => i = j
  BY <1>2 DEF IsInjective
<1>4. \A i \in 1..(n - 1) : i + 1 \in 1..n /\ i + 1 # 1 /\ 1 \in 1..n
  BY <1>2
<1>5. \A i, j \in 1..(n - 1) : t[i] = t[j] => i + 1 = j + 1
  BY <1>2, <1>3, <1>4
<1>6. \A i \in 1..(n - 1) : t[i] # s[1]
  BY <1>2, <1>3, <1>4
<1>7. Head(s) \notin Range(t)
  BY <1>2, <1>6 DEF Range
<1>8. \A i, j \in 1..(n - 1) : t[i] = t[j] => i = j
  BY <1>2, <1>5
<1> QED
  BY <1>1, <1>2, <1>7, <1>8 DEF IsInjective

LEMMA RemovedOnce ==
  ASSUME NEW S, NEW s \in Seq(S), IsInjective(s), NEW k \in DOMAIN s
  PROVE  IsInjective(Dropped(s, k)) /\ Range(Dropped(s, k)) = Range(s) \ {s[k]}
<1>1. PICK n, t : n = Len(s) /\ t = Dropped(s, k)
  OBVIOUS
<1>2. /\ n \in Nat \ {0} /\ DOMAIN t = 1..(n - 1) /\ DOMAIN s = 1..n
      /\ \A i \in 1..(n - 1) : t[i] = s[IF i < k THEN i ELSE i + 1]
  <2>1. DOMAIN s = 1..Len(s)
    OBVIOUS
  <2> QED
    BY <1>1, <2>1, RemovedAt
<1>3. \A i, j \in 1..n : s[i] = s[j] => i = j
  BY <1>2 DEF IsInjective
<1> DEFINE at(i) == IF i < k THEN i ELSE i + 1
<1>4. \A i, j \in 1..(n - 1) : at(i) \in 1..n /\ at(i) # k /\ (at(i) = at(j) => i = j)
  BY <1>2
<1>5. \A p \in 1..n : p # k => \E i \in 1..(n - 1) : at(i) = p
  <2>1. ASSUME NEW p \in 1..n, p # k PROVE \E i \in 1..(n - 1) : at(i) = p
    <3>1. CASE p < k
      <4>1. p \in 1..(n - 1) /\ at(p) = p
        BY <1>2, <3>1
      <4> QED
        BY <4>1
    <3>2. CASE p > k
      <4>1. p - 1 \in 1..(n - 1) /\ at(p - 1) = p
        BY <1>2, <3>2
      <4> QED
        BY <4>1
    <3> QED
      BY <1>2, <2>1, <3>1, <3>2
  <2> QED
    BY <2>1
<1>6. \A i \in 1..(n - 1) : t[i] = s[at(i)]
  BY <1>2
<1> HIDE DEF at
<1>7. \A i, j \in 1..(n - 1) : t[i] = t[j] => i = j
  BY <1>3, <1>4, <1>6
<1>8. \A i \in 1..(n - 1) : t[i] \in Range(s) \ {s[k]}
  BY <1>2, <1>3, <1>4, <1>6 DEF Range
<1>9. \A x \in Range(s) \ {s[k]} : \E i \in 1..(n - 1) : t[i] = x
  <2>1. ASSUME NEW x \in Range(s) \ {s[k]} PROVE \E i \in 1..(n - 1) : t[i] = x
    <3>1. PICK p \in 1..n : s[p] = x
      BY <1>2 DEF Range
    <3> QED
      BY <1>5, <1>6, <3>1
  <2> QED
    BY <2>1
<1>10. Range(t) = Range(s) \ {s[k]}
  <2>1. \A x \in Range(t) : \E i \in 1..(n - 1) : t[i] = x
    BY <1>2 DEF Range
  <2>2. \A i \in 1..(n - 1) : t[i] \in Range(t)
    BY <1>2 DEF Range
  <2> QED
    BY <1>8, <1>9, <2>1, <2>2
<1> QED
  BY <1>1, <1>2, <1>7, <1>10 DEF IsInjective
-----------------------------------------------------------------------------
(* Finite sets: how many elements a list without repetitions has, an       *)
(* extreme element, and the set put in order.                              *)
LEMMA RangeCounts ==
  ASSUME NEW S, NEW s \in Seq(S), IsInjective(s)
  PROVE  IsFiniteSet(Range(s)) /\ Cardinality(Range(s)) = Len(s)
<1>1. Len(s) \in Nat /\ DOMAIN s = 1..Len(s)
  OBVIOUS
<1>2. s \in Bijection(1..Len(s), Range(s))
  BY <1>1 DEF Bijection, Injection, Surjection, IsInjective, Range
<1>3. ExistsBijection(1..Len(s), Range(s))
  BY <1>2 DEF ExistsBijection
<1> QED
  BY <1>1, <1>3, FS_NatBijection, FS_CountingElements

(* R orders the elements of S, each two of them one way.                   *)
Orders(R, S) ==
  /\ \A x, y \in S : x # y => <<x, y>> \in R \/ <<y, x>> \in R
  /\ \A x, y, z \in S : <<x, y>> \in R /\ <<y, z>> \in R => <<x, z>> \in R

LEMMA LastElement ==
  ASSUME NEW S, IsFiniteSet(S), S # {}, NEW R, Orders(R, S)
  PROVE  \E x \in S : \A y \in S \ {x} : <<y, x>> \in R
<1> DEFINE Has(T) == \E x \in T : \A y \in T \ {x} : <<y, x>> \in R
           N == {n \in Nat : \A T \in SUBSET S : Cardinality(T) = n + 1 => Has(T)}
<1>0. \A T \in SUBSET S : IsFiniteSet(T) /\ Cardinality(T) \in Nat
  BY FS_Subset, FS_CardinalityType
<1>1. 0 \in N
  <2>1. ASSUME NEW T \in SUBSET S, Cardinality(T) = 0 + 1 PROVE Has(T)
    <3>0. IsFiniteSet(T) /\ Cardinality(T) = 1
      BY <1>0, <2>1
    <3>1. PICK x : T = {x}
      BY <3>0, FS_Singleton
    <3> QED
      BY <3>1
  <2> QED
    BY <2>1
<1>2. ASSUME NEW n \in N PROVE n + 1 \in N
  <2>1. ASSUME NEW T \in SUBSET S, Cardinality(T) = (n + 1) + 1 PROVE Has(T)
    <3>1. n \in Nat /\ Cardinality(T) # 0
      BY <2>1
    <3>2. PICK a \in T : TRUE
      BY <1>0, <3>1, FS_EmptySet
    <3>3. Cardinality(T \ {a}) = Cardinality(T) - 1 /\ T \ {a} \in SUBSET S
      BY <1>0, <3>2, FS_RemoveElement
    <3>4. Has(T \ {a})
      <4>1. Cardinality(T \ {a}) = n + 1
        BY <2>1, <3>1, <3>3
      <4> QED
        BY <3>3, <4>1
    <3>5. PICK x \in T \ {a} : \A y \in (T \ {a}) \ {x} : <<y, x>> \in R
      BY <3>4
    <3>6. CASE <<a, x>> \in R
      <4>1. \A y \in T \ {x} : <<y, x>> \in R
        BY <3>5, <3>6
      <4> QED
        BY <3>5, <4>1
    <3>7. CASE <<x, a>> \in R
      <4>1. ASSUME NEW y \in T \ {a} PROVE <<y, a>> \in R
        <5>1. x \in S /\ y \in S /\ a \in S
          BY <3>2, <3>5
        <5>2. y # x => <<y, x>> \in R
          BY <3>5
        <5> QED
          BY <3>7, <5>1, <5>2 DEF Orders
      <4> QED
        BY <3>2, <4>1
    <3> QED
      BY <3>2, <3>5, <3>6, <3>7 DEF Orders
  <2> HIDE DEF Has
  <2> QED
    BY <2>1
<1>3. N = Nat
  <2> HIDE DEF N
  <2>1. N \in SUBSET Nat
    BY DEF N
  <2> QED
    BY <1>1, <1>2, <2>1, SetInduction
<1>4. Cardinality(S) \in Nat /\ Cardinality(S) # 0
  BY FS_CardinalityType, FS_EmptySet
<1>5. Cardinality(S) - 1 \in N
  BY <1>3, <1>4
<1>6. Has(S)
  <2> HIDE DEF Has
  <2>1. (Cardinality(S) - 1) + 1 = Cardinality(S)
    BY <1>4
  <2> QED
    BY <1>5, <2>1
<1> QED
  BY <1>6

Ascending(s, n, R) == \A i, j \in 1..n : i < j => <<s[i], s[j]>> \in R

LEMMA SortExists ==
  ASSUME NEW S, IsFiniteSet(S), NEW R, Orders(R, S)
  PROVE  \E s \in [1..Cardinality(S) -> S] : Ascending(s, Cardinality(S), R)
<1> DEFINE Has(T, n) == \E s \in [1..n -> T] : Ascending(s, n, R)
           N == {n \in Nat : \A T \in SUBSET S : Cardinality(T) = n => Has(T, n)}
<1>0. \A T \in SUBSET S : IsFiniteSet(T) /\ Cardinality(T) \in Nat
  BY FS_Subset, FS_CardinalityType
<1>1. 0 \in N
  <2>1. ASSUME NEW T \in SUBSET S PROVE Has(T, 0)
    <3>1. [i \in 1..0 |-> i] \in [1..0 -> T] /\ Ascending([i \in 1..0 |-> i], 0, R)
      BY DEF Ascending
    <3> QED
      BY <3>1
  <2> QED
    BY <2>1
<1>2. ASSUME NEW n \in N PROVE n + 1 \in N
  <2>1. ASSUME NEW T \in SUBSET S, Cardinality(T) = n + 1 PROVE Has(T, n + 1)
    <3>1. n \in Nat /\ T # {}
      BY <1>0, <2>1, FS_EmptySet
    <3>2. Orders(R, T)
      BY DEF Orders
    <3>3. PICK x \in T : \A y \in T \ {x} : <<y, x>> \in R
      BY <1>0, <3>1, <3>2, LastElement
    <3>4. Cardinality(T \ {x}) = n /\ T \ {x} \in SUBSET S
      <4>1. Cardinality(T \ {x}) = Cardinality(T) - 1
        BY <1>0, <3>3, FS_RemoveElement
      <4> QED
        BY <2>1, <3>1, <4>1
    <3>5. PICK s \in [1..n -> T \ {x}] : Ascending(s, n, R)
      BY <3>4
    <3> DEFINE t == [i \in 1..(n + 1) |-> IF i = n + 1 THEN x ELSE s[i]]
    <3>6. t \in [1..(n + 1) -> T] /\ t[n + 1] = x /\ \A i \in 1..n : t[i] = s[i] /\ s[i] \in T \ {x}
      BY <3>1, <3>3, <3>5
    <3> HIDE DEF t
    <3>7. ASSUME NEW i \in 1..(n + 1), NEW j \in 1..(n + 1), i < j PROVE <<t[i], t[j]>> \in R
      <4>1. i \in 1..n
        BY <3>1, <3>7
      <4>2. CASE j = n + 1
        BY <3>3, <3>6, <4>1, <4>2
      <4>3. CASE j # n + 1
        <5>1. j \in 1..n
          BY <3>1, <4>3
        <5>2. <<s[i], s[j]>> \in R
          BY <3>5, <3>7, <4>1, <5>1 DEF Ascending
        <5> QED
          BY <3>6, <4>1, <5>1, <5>2
      <4> QED
        BY <4>2, <4>3
    <3>8. Ascending(t, n + 1, R)
      BY <3>7 DEF Ascending
    <3> QED
      BY <3>6, <3>8
  <2> HIDE DEF Has
  <2> QED
    BY <2>1
<1>3. N = Nat
  <2> HIDE DEF N
  <2>1. N \in SUBSET Nat
    BY DEF N
  <2> QED
    BY <1>1, <1>2, <2>1, SetInduction
<1>4. Cardinality(S) \in N
  BY <1>0, <1>3
<1>5. Has(S, Cardinality(S))
  <2> HIDE DEF Has
  <2> QED
    BY <1>4
<1> QED
  BY <1>5

(* A list of as many different elements as the set has is of all of them.  *)
LEMMA AllListed ==
  ASSUME NEW S, IsFiniteSet(S), NEW s \in [1..Cardinality(S) -> S],
         \A i, j \in 1..Cardinality(S) : i < j => s[i] # s[j]
  PROVE  /\ s \in Seq(S) /\ Len(s) = Cardinality(S) /\ DOMAIN s = 1..Len(s) /\ Len(s) \in Nat
         /\ Range(s) = S /\ IsInjective(s)
<1>1. Cardinality(S) \in Nat
  BY FS_CardinalityType
<1>2. s \in Seq(S) /\ Len(s) = Cardinality(S) /\ DOMAIN s = 1..Len(s) /\ Len(s) \in Nat
  BY <1>1
<1>3. \A i, j \in 1..Cardinality(S) : s[i] = s[j] => i = j
  <2>1. \A i, j \in 1..Cardinality(S) : i = j \/ i < j \/ j < i
    BY <1>1
  <2> QED
    BY <2>1
<1>4. IsInjective(s)
  BY <1>2, <1>3 DEF IsInjective
<1>5. IsFiniteSet(Range(s)) /\ Cardinality(Range(s)) = Cardinality(S)
  BY <1>2, <1>4, RangeCounts
<1>6. Range(s) \in SUBSET S
  BY <1>2 DEF Range
<1>7. Range(s) = S
  BY <1>5, <1>6, FS_Subset
<1> QED
  BY <1>2, <1>4, <1>7

-----------------------------------------------------------------------------
(* Sums over finite sets, as a fold computes them.                         *)
Chosen(s) == CHOOSE x \in s : TRUE

Adding(f, S, w) ==
  f = [s \in SUBSET S |-> IF s = {} THEN 0 ELSE f[s \ {Chosen(s)}] + w[Chosen(s)]]

SumOf(S, w) == (CHOOSE f : Adding(f, S, w))[S]

LEMMA SumExists ==
  ASSUME NEW S, IsFiniteSet(S), NEW w \in [S -> Int]
  PROVE  \E f : Adding(f, S, w)
<1> DEFINE V == [SUBSET S -> Int]
           more(h) == [s \in SUBSET S |-> IF s = {} THEN 0 ELSE h[s \ {Chosen(s)}] + w[Chosen(s)]]
           start == [s \in SUBSET S |-> 0]
           step == [h \in V |-> more(h)]
<1>0. \A s \in SUBSET S : s # {} => Chosen(s) \in s
  BY DEF Chosen
<1>1. start \in V /\ step \in [V -> V]
  <2>1. start \in V
    OBVIOUS
  <2>2. ASSUME NEW h \in V PROVE more(h) \in V
    <3>1. \A s \in SUBSET S : s # {} => s \ {Chosen(s)} \in SUBSET S /\ Chosen(s) \in S
      BY <1>0
    <3>2. \A s \in SUBSET S : s # {} => h[s \ {Chosen(s)}] + w[Chosen(s)] \in Int
      BY <3>1
    <3> QED
      BY <3>2
  <2> HIDE DEF V, more
  <2> QED
    BY <2>1, <2>2
<1> HIDE DEF V, start, step
<1>2. PICK h : Unfolds(h, V, start, step)
  BY <1>1, RecursiveFunction DEF Steps
<1>3. ASSUME NEW n \in Nat PROVE h[n] \in V /\ h[n + 1] = more(h[n])
  BY <1>2 DEF Unfolds, step
<1> DEFINE f == [s \in SUBSET S |-> h[Cardinality(s)][s]]
<1>4. ASSUME NEW s \in SUBSET S
      PROVE  f[s] = IF s = {} THEN 0 ELSE f[s \ {Chosen(s)}] + w[Chosen(s)]
  <2>0. IsFiniteSet(s) /\ Cardinality(s) \in Nat
    BY FS_Subset, FS_CardinalityType
  <2>1. CASE s = {}
    <3>1. f[s] = h[0][s]
      BY <2>1, FS_EmptySet
    <3>2. h[0] = start
      BY <1>2 DEF Unfolds
    <3> QED
      BY <2>1, <3>1, <3>2 DEF start
  <2>2. CASE s # {}
    <3>1. Chosen(s) \in s
      BY <1>0, <2>2
    <3>2. PICK r : r = s \ {Chosen(s)}
      OBVIOUS
    <3>3. Cardinality(r) = Cardinality(s) - 1 /\ r \in SUBSET S
      BY <2>0, <3>1, <3>2, FS_RemoveElement
    <3>4. IsFiniteSet(r) /\ Cardinality(r) \in Nat
      BY <3>3, FS_Subset, FS_CardinalityType
    <3>5. PICK n \in Nat : n = Cardinality(r) /\ n + 1 = Cardinality(s)
      BY <2>0, <3>3, <3>4
    <3>6. f[s] = h[n + 1][s] /\ f[r] = h[n][r]
      BY <3>3, <3>5
    <3>7. h[n + 1][s] = h[n][r] + w[Chosen(s)]
      BY <1>3, <2>2, <3>2
    <3> HIDE DEF f
    <3> QED
      BY <2>2, <3>2, <3>6, <3>7
  <2> QED
    BY <2>1, <2>2
<1>5. f = [s \in SUBSET S |-> f[s]]
  OBVIOUS
<1> HIDE DEF f
<1>6. f = [s \in SUBSET S |-> IF s = {} THEN 0 ELSE f[s \ {Chosen(s)}] + w[Chosen(s)]]
  BY <1>4, <1>5
<1> QED
  BY <1>6 DEF Adding

(* A property of all subsets, by induction on how many elements they have. *)
LEMMA SubsetInduction ==
  ASSUME NEW S, IsFiniteSet(S), NEW G,
         \A T \in SUBSET S : (\A R \in SUBSET T : R # T => R \in G) => T \in G
  PROVE  \A T \in SUBSET S : T \in G
<1> DEFINE N == {n \in Nat : \A T \in SUBSET S : Cardinality(T) <= n => T \in G}
<1>0. \A T \in SUBSET S : IsFiniteSet(T) /\ Cardinality(T) \in Nat
  BY FS_Subset, FS_CardinalityType
<1>1. \A T \in SUBSET S : \A R \in SUBSET T : R # T => R \in SUBSET S /\ Cardinality(R) < Cardinality(T)
  <2>1. ASSUME NEW T \in SUBSET S, NEW R \in SUBSET T, R # T
        PROVE  R \in SUBSET S /\ Cardinality(R) < Cardinality(T)
    <3>1. IsFiniteSet(T) /\ R \in SUBSET S
      BY <1>0
    <3>2. Cardinality(R) <= Cardinality(T) /\ Cardinality(R) # Cardinality(T)
      BY <2>1, <3>1, FS_Subset
    <3> QED
      BY <1>0, <3>1, <3>2
  <2> QED
    BY <2>1
<1>2. 0 \in N
  <2>1. ASSUME NEW T \in SUBSET S, Cardinality(T) <= 0 PROVE T \in G
    <3>1. \A R \in SUBSET T : R # T => FALSE
      <4>1. \A R \in SUBSET T : R # T => Cardinality(R) < Cardinality(T) /\ Cardinality(R) \in Nat
        BY <1>0, <1>1
      <4>2. Cardinality(T) \in Nat
        BY <1>0
      <4> QED
        BY <2>1, <4>1, <4>2
    <3> QED
      BY <3>1
  <2> QED
    BY <2>1
<1>3. ASSUME NEW n \in N PROVE n + 1 \in N
  <2>1. ASSUME NEW T \in SUBSET S, Cardinality(T) <= n + 1 PROVE T \in G
    <3>1. ASSUME NEW R \in SUBSET T, R # T PROVE R \in G
      <4>1. R \in SUBSET S /\ Cardinality(R) < Cardinality(T) /\ Cardinality(R) \in Nat /\ Cardinality(T) \in Nat
        BY <1>0, <1>1, <3>1
      <4>2. n \in Nat /\ Cardinality(R) <= n
        BY <2>1, <4>1
      <4> QED
        BY <4>1, <4>2
    <3> QED
      BY <3>1
  <2> QED
    BY <2>1
<1>4. N = Nat
  <2> HIDE DEF N
  <2>1. N \in SUBSET Nat
    BY DEF N
  <2> QED
    BY <1>2, <1>3, <2>1, SetInduction
<1>5. ASSUME NEW T \in SUBSET S PROVE T \in G
  <2>1. Cardinality(T) \in N /\ Cardinality(T) <= Cardinality(T)
    BY <1>0, <1>4
  <2> QED
    BY <2>1
<1> QED
  BY <1>5

(* The elements may be added in any order.                                 *)
LEMMA SumAnyOrder ==
  ASSUME NEW S, IsFiniteSet(S), NEW w \in [S -> Int], NEW f, Adding(f, S, w)
  PROVE  \A s \in SUBSET S : f[s] \in Int /\ \A y \in s : f[s] = f[s \ {y}] + w[y]
<1> DEFINE G == {s \in SUBSET S : f[s] \in Int /\ \A y \in s : f[s] = f[s \ {y}] + w[y]}
<1>1. ASSUME NEW s \in SUBSET S, \A r \in SUBSET s : r # s => r \in G PROVE s \in G
  <2>1. CASE s = {}
    <3>1. f[s] = 0
      BY <2>1 DEF Adding
    <3> QED
      BY <2>1, <3>1
  <2>2. CASE s # {}
    <3>1. PICK x \in s : x = Chosen(s)
      BY <2>2 DEF Chosen
    <3>2. f[s] = f[s \ {x}] + w[x]
      BY <2>2, <3>1 DEF Adding
    <3>3. s \ {x} \in G
      BY <1>1
    <3>4. f[s \ {x}] \in Int /\ w[x] \in Int
      BY <3>3
    <3>5. ASSUME NEW y \in s, y # x PROVE f[s] = f[s \ {y}] + w[y]
      <4>1. f[s \ {x}] = f[(s \ {x}) \ {y}] + w[y] /\ f[(s \ {x}) \ {y}] \in Int
        <5>1. y \in s \ {x} /\ (s \ {x}) \ {y} \in SUBSET s /\ (s \ {x}) \ {y} # s
          BY <3>5
        <5>2. (s \ {x}) \ {y} \in G
          BY <1>1, <5>1
        <5> QED
          BY <3>3, <5>1, <5>2
      <4>2. f[s \ {y}] = f[(s \ {y}) \ {x}] + w[x]
        <5>1. s \ {y} \in G /\ x \in s \ {y}
          BY <1>1, <3>5
        <5> QED
          BY <5>1
      <4>3. (s \ {x}) \ {y} = (s \ {y}) \ {x}
        OBVIOUS
      <4>4. w[y] \in Int
        OBVIOUS
      <4>5. PICK a \in Int, b \in Int : a = f[(s \ {x}) \ {y}] /\ b = f[s \ {y}]
        <5>1. s \ {y} \in G
          BY <1>1, <3>5
        <5> QED
          BY <4>1, <5>1
      <4>6. PICK p \in Int, q \in Int : p = w[x] /\ q = w[y]
        BY <3>4, <4>4
      <4>7. f[s] = (a + q) + p /\ b = a + p
        BY <3>2, <4>1, <4>2, <4>3, <4>5, <4>6
      <4> QED
        BY <4>5, <4>6, <4>7
    <3>6. f[s] \in Int
      BY <3>2, <3>4
    <3> QED
      BY <3>2, <3>5, <3>6
  <2> QED
    BY <2>1, <2>2
<1> HIDE DEF G
<1>2. \A s \in SUBSET S : s \in G
  BY <1>1, SubsetInduction
<1> QED
  BY <1>2 DEF G

(* The sum over a set depends on nothing outside it.                       *)
LEMMA SumAgrees ==
  ASSUME NEW S, IsFiniteSet(S), NEW w \in [S -> Int], NEW f, Adding(f, S, w),
         NEW T, IsFiniteSet(T), NEW v \in [T -> Int], NEW g, Adding(g, T, v),
         NEW R \in SUBSET S, R \in SUBSET T, \A x \in R : w[x] = v[x]
  PROVE  f[R] = g[R]
<1> DEFINE G == {r \in SUBSET R : f[r] = g[r]}
<1>1. ASSUME NEW r \in SUBSET R, \A q \in SUBSET r : q # r => q \in G PROVE r \in G
  <2>0. r \in SUBSET S /\ r \in SUBSET T
    OBVIOUS
  <2>1. CASE r = {}
    BY <2>0, <2>1 DEF Adding
  <2>2. CASE r # {}
    <3>1. PICK x \in r : x = Chosen(r)
      BY <2>2 DEF Chosen
    <3>2. f[r] = f[r \ {x}] + w[x]
      BY <2>0, <2>2, <3>1 DEF Adding
    <3>3. g[r] = g[r \ {x}] + v[x]
      BY <2>0, <2>2, <3>1 DEF Adding
    <3>4. r \ {x} \in G
      BY <1>1
    <3> QED
      BY <3>2, <3>3, <3>4
  <2> QED
    BY <2>1, <2>2
<1> HIDE DEF G
<1>2. IsFiniteSet(R)
  BY FS_Subset
<1>3. \A r \in SUBSET R : r \in G
  BY <1>1, <1>2, SubsetInduction
<1> QED
  BY <1>3 DEF G

LEMMA SumIs ==
  ASSUME NEW S, IsFiniteSet(S), NEW w \in [S -> Int], NEW f, Adding(f, S, w)
  PROVE  SumOf(S, w) = f[S]
<1> DEFINE g == CHOOSE g : Adding(g, S, w)
<1>1. Adding(g, S, w)
  BY Zenon
<1>2. SumOf(S, w) = g[S]
  BY DEF SumOf
<1> HIDE DEF g
<1>3. f[S] = g[S]
  BY <1>1, SumAgrees
<1> QED
  BY <1>2, <1>3

LEMMA EmptySum ==
  ASSUME NEW w PROVE SumOf({}, w) = 0
<1>1. \E f : Adding(f, {}, w)
  <2> DEFINE f == [s \in SUBSET {} |-> 0]
  <2>1. f = [s \in SUBSET {} |-> IF s = {} THEN 0 ELSE f[s \ {Chosen(s)}] + w[Chosen(s)]]
    OBVIOUS
  <2> HIDE DEF f
  <2> QED
    BY <2>1 DEF Adding
<1> DEFINE g == CHOOSE g : Adding(g, {}, w)
<1>2. Adding(g, {}, w)
  BY <1>1, Zenon
<1>3. SumOf({}, w) = g[{}]
  BY DEF SumOf
<1> HIDE DEF g
<1>4. g[{}] = 0
  BY <1>2 DEF Adding
<1> QED
  BY <1>3, <1>4

(* An element more.                                                        *)
LEMMA SumSplit ==
  ASSUME NEW S, IsFiniteSet(S), NEW w \in [S -> Int], NEW y \in S,
         NEW v \in [S \ {y} -> Int], \A x \in S \ {y} : v[x] = w[x]
  PROVE  SumOf(S, w) \in Int /\ SumOf(S \ {y}, v) \in Int
         /\ SumOf(S, w) = SumOf(S \ {y}, v) + w[y]
<1>1. PICK f : Adding(f, S, w)
  BY SumExists
<1>2. IsFiniteSet(S \ {y})
  BY FS_Subset
<1>3. PICK g : Adding(g, S \ {y}, v)
  BY <1>2, SumExists
<1>4. SumOf(S, w) = f[S] /\ SumOf(S \ {y}, v) = g[S \ {y}]
  BY <1>1, <1>2, <1>3, SumIs
<1>5. f[S] = f[S \ {y}] + w[y] /\ f[S] \in Int /\ f[S \ {y}] \in Int
  BY <1>1, SumAnyOrder
<1>6. f[S \ {y}] = g[S \ {y}]
  BY <1>1, <1>2, <1>3, SumAgrees
<1> QED
  BY <1>4, <1>5, <1>6

(* Elements with the same weights, one of them of a new weight.            *)
LEMMA SumChanges ==
  ASSUME NEW S, IsFiniteSet(S), NEW w \in [S -> Int], NEW v \in [S -> Int], NEW y \in S,
         \A x \in S \ {y} : v[x] = w[x]
  PROVE  SumOf(S, w) \in Int /\ SumOf(S, v) = SumOf(S, w) + (v[y] - w[y])
<1> DEFINE u == [x \in S \ {y} |-> w[x]]
<1>1. u \in [S \ {y} -> Int] /\ \A x \in S \ {y} : u[x] = w[x] /\ u[x] = v[x]
  OBVIOUS
<1> HIDE DEF u
<1>2. SumOf(S, w) \in Int /\ SumOf(S \ {y}, u) \in Int /\ SumOf(S, w) = SumOf(S \ {y}, u) + w[y]
  BY <1>1, SumSplit
<1>3. SumOf(S, v) = SumOf(S \ {y}, u) + v[y]
  BY <1>1, SumSplit
<1> QED
  BY <1>2, <1>3

(* Elements of weight zero more.                                           *)
LEMMA SumWithZeros ==
  ASSUME NEW S, IsFiniteSet(S), NEW T \in SUBSET S, NEW v \in [S -> Int], NEW w \in [T -> Int],
         \A x \in T : w[x] = v[x], \A x \in S \ T : v[x] = 0
  PROVE  SumOf(S, v) = SumOf(T, w)
<1>1. IsFiniteSet(T)
  BY FS_Subset
<1>2. PICK f : Adding(f, S, v)
  BY SumExists
<1>3. PICK g : Adding(g, T, w)
  BY <1>1, SumExists
<1>4. SumOf(S, v) = f[S] /\ SumOf(T, w) = g[T]
  BY <1>1, <1>2, <1>3, SumIs
<1> DEFINE G == {R \in SUBSET S : f[R] = f[R \cap T]}
<1>5. ASSUME NEW R \in SUBSET S, \A q \in SUBSET R : q # R => q \in G PROVE R \in G
  <2>1. CASE R \subseteq T
    <3>1. R \cap T = R
      BY <2>1
    <3> QED
      BY <3>1
  <2>2. CASE ~ (R \subseteq T)
    <3>1. PICK y \in R : y \notin T
      BY <2>2
    <3>2. f[R] = f[R \ {y}] + v[y] /\ v[y] = 0 /\ f[R \ {y}] \in Int
      BY <1>2, <3>1, SumAnyOrder
    <3>3. f[R \ {y}] = f[(R \ {y}) \cap T]
      BY <1>5
    <3>4. (R \ {y}) \cap T = R \cap T
      BY <3>1
    <3>5. f[R] = f[R \cap T]
      BY <3>2, <3>3, <3>4
    <3> QED
      BY <3>5
  <2> QED
    BY <2>1, <2>2
<1> HIDE DEF G
<1>6. S \in G
  BY <1>5, SubsetInduction
<1>7. f[S] = f[T]
  <2>1. f[S] = f[S \cap T] /\ S \cap T = T
    BY <1>6 DEF G
  <2> QED
    BY <2>1
<1>8. f[T] = g[T]
  BY <1>1, <1>2, <1>3, SumAgrees
<1> QED
  BY <1>4, <1>7, <1>8

(* The concatenation of two lists.                                         *)
LEMMA Joined ==
  ASSUME NEW S, NEW s \in Seq(S), NEW t \in Seq(S)
  PROVE  /\ s \o t \in Seq(S) /\ Len(s \o t) = Len(s) + Len(t) /\ Len(s) \in Nat /\ Len(t) \in Nat
         /\ DOMAIN (s \o t) = 1..(Len(s) + Len(t)) /\ DOMAIN s = 1..Len(s) /\ DOMAIN t = 1..Len(t)
         /\ \A i \in 1..Len(s) : (s \o t)[i] = s[i]
         /\ \A i \in 1..Len(t) : (s \o t)[Len(s) + i] = t[i]
         /\ Range(s \o t) = Range(s) \cup Range(t)
<1>1. /\ s \o t \in Seq(S) /\ Len(s \o t) = Len(s) + Len(t) /\ Len(s) \in Nat /\ Len(t) \in Nat
      /\ DOMAIN s = 1..Len(s) /\ DOMAIN t = 1..Len(t)
  BY ListDomain
<1>2. DOMAIN (s \o t) = 1..(Len(s) + Len(t))
  BY <1>1, ListDomain
<1>3. \A i \in 1..Len(s) : (s \o t)[i] = s[i]
  BY <1>1
<1>4. \A i \in 1..Len(t) : (s \o t)[Len(s) + i] = t[i]
  BY <1>1, SMTT(30)
<1>5. PICK m, n \in Nat : m = Len(s) /\ n = Len(t)
  BY <1>1
<1>6. \A i \in 1..(m + n) : i \in 1..m \/ \E j \in 1..n : i = m + j
  <2>1. ASSUME NEW i \in 1..(m + n), i \notin 1..m PROVE \E j \in 1..n : i = m + j
    <3>1. i - m \in 1..n /\ i = m + (i - m)
      BY <2>1
    <3> QED
      BY <3>1
  <2> QED
    BY <2>1
<1>7. 1..m \subseteq 1..(m + n) /\ \A j \in 1..n : m + j \in 1..(m + n)
  OBVIOUS
<1>8. PICK u : u = s \o t
  OBVIOUS
<1>9. /\ \A i \in 1..m : u[i] = s[i]
      /\ \A i \in 1..n : u[m + i] = t[i]
      /\ DOMAIN u = 1..(m + n) /\ DOMAIN s = 1..m /\ DOMAIN t = 1..n
  BY <1>1, <1>2, <1>3, <1>4, <1>5, <1>8
<1>10. Range(u) = Range(s) \cup Range(t)
  <2>1. ASSUME NEW i \in 1..(m + n) PROVE u[i] \in Range(s) \cup Range(t)
    BY <1>6, <1>9 DEF Range
  <2>2. \A i \in 1..m : s[i] \in Range(u)
    BY <1>7, <1>9 DEF Range
  <2>3. \A i \in 1..n : t[i] \in Range(u)
    <3>1. ASSUME NEW i \in 1..n PROVE t[i] \in Range(u)
      <4>1. m + i \in DOMAIN u /\ u[m + i] = t[i]
        BY <1>7, <1>9
      <4> QED
        BY <4>1, Zenon DEF Range
    <3> QED
      BY <3>1
  <2>4. \A x \in Range(u) : \E i \in 1..(m + n) : u[i] = x
    BY <1>9, Zenon DEF Range
  <2>5. \A x \in Range(s) : \E i \in 1..m : s[i] = x
    BY <1>9, Zenon DEF Range
  <2>6. \A x \in Range(t) : \E i \in 1..n : t[i] = x
    BY <1>9, Zenon DEF Range
  <2> QED
    BY <2>1, <2>2, <2>3, <2>4, <2>5, <2>6, Zenon
<1> QED
  BY <1>1, <1>2, <1>3, <1>4, <1>8, <1>10

LEMMA JoinedOnce ==
  ASSUME NEW S, NEW s \in Seq(S), NEW t \in Seq(S), IsInjective(s), IsInjective(t),
         Range(s) \cap Range(t) = {}
  PROVE  IsInjective(s \o t)
<1>1. PICK m, n \in Nat : m = Len(s) /\ n = Len(t)
  BY ListDomain
<1>2. PICK u : u = s \o t
  OBVIOUS
<1>3. /\ \A i \in 1..m : u[i] = s[i]
      /\ \A i \in 1..n : u[m + i] = t[i]
      /\ DOMAIN u = 1..(m + n) /\ DOMAIN s = 1..m /\ DOMAIN t = 1..n
  BY <1>1, <1>2, Joined
<1>4. ASSUME NEW i \in 1..(m + n), NEW j \in 1..(m + n), u[i] = u[j] PROVE i = j
  <2>1. \A k \in 1..(m + n) : k \notin 1..m => k - m \in 1..n /\ u[k] = t[k - m]
    <3>1. ASSUME NEW k \in 1..(m + n), k \notin 1..m PROVE k - m \in 1..n /\ m + (k - m) = k
      BY <3>1
    <3> QED
      BY <1>3, <3>1
  <2>2. CASE i \in 1..m /\ j \in 1..m
    BY <1>3, <1>4, <2>2 DEF IsInjective
  <2>3. CASE i \notin 1..m /\ j \notin 1..m
    <3>1. PICK a, b : a = i - m /\ b = j - m
      OBVIOUS
    <3>2. a \in DOMAIN t /\ b \in DOMAIN t /\ t[a] = t[b]
      BY <1>3, <1>4, <2>1, <2>3, <3>1
    <3>3. a = b
      BY <3>2, Zenon DEF IsInjective
    <3> QED
      BY <3>1, <3>3
  <2>4. CASE i \in 1..m /\ j \notin 1..m
    BY <1>3, <1>4, <2>1, <2>4, ZenonT(60) DEF Range
  <2>5. CASE i \notin 1..m /\ j \in 1..m
    BY <1>3, <1>4, <2>1, <2>5, ZenonT(60) DEF Range
  <2> QED
    BY <2>2, <2>3, <2>4, <2>5
<1> QED
  BY <1>2, <1>3, <1>4 DEF IsInjective

(* What is left of a list from one of its places.                          *)
LEMMA Endings ==
  ASSUME NEW S, NEW s \in Seq(S), IsInjective(s), NEW k \in DOMAIN s
  PROVE  /\ SubSeq(s, k, Len(s)) \in Seq(S) /\ IsInjective(SubSeq(s, k, Len(s)))
         /\ Range(SubSeq(s, k, Len(s))) \subseteq Range(s)
<1>1. PICK n : n = Len(s)
  OBVIOUS
<1>2. n \in Nat /\ DOMAIN s = 1..n /\ k \in 1..n
  BY <1>1, ListDomain
<1>3. PICK t : t = SubSeq(s, k, n)
  OBVIOUS
<1>4. /\ t \in Seq(S) /\ Len(t) = n - k + 1
      /\ \A i \in 1..(n - k + 1) : t[i] = s[k + i - 1]
  <2>1. \A i \in k..n : s[i] \in S
    BY <1>2
  <2> QED
    BY <1>1, <1>2, <1>3, <2>1, SubSeqProperties
<1>5. DOMAIN t = 1..(n - k + 1)
  BY <1>4, ListDomain
<1>6. \A i \in 1..(n - k + 1) : k + i - 1 \in 1..n
  BY <1>2
<1>7. \A i, j \in 1..(n - k + 1) : k + i - 1 = k + j - 1 => i = j
  BY <1>2
<1>8. IsInjective(t)
  BY <1>2, <1>4, <1>5, <1>6, <1>7, Zenon DEF IsInjective
<1>9. Range(t) \subseteq Range(s)
  <2>1. \A i \in DOMAIN t : t[i] = s[k + i - 1] /\ k + i - 1 \in DOMAIN s
    BY <1>2, <1>4, <1>5, <1>6
  <2> QED
    BY <2>1, Zenon DEF Range
<1> QED
  BY <1>1, <1>3, <1>4, <1>8, <1>9

(* A part of a list.                                                       *)
LEMMA Part ==
  ASSUME NEW S, NEW s \in Seq(S), NEW a \in Nat \ {0}, NEW b \in Nat, b <= Len(s)
  PROVE  /\ SubSeq(s, a, b) \in Seq(S) /\ Len(SubSeq(s, a, b)) <= Len(s)
         /\ Len(SubSeq(s, a, b)) = IF a <= b THEN b - a + 1 ELSE 0
         /\ DOMAIN SubSeq(s, a, b) = 1..Len(SubSeq(s, a, b))
         /\ \A i \in DOMAIN SubSeq(s, a, b) :
              i \in Nat \ {0} /\ a + i - 1 \in a..b /\ a + i - 1 \in DOMAIN s /\ SubSeq(s, a, b)[i] = s[a + i - 1]
         /\ \A x \in Range(SubSeq(s, a, b)) : \E j \in a..b : j \in DOMAIN s /\ x = s[j]
<1>1. PICK n : n = Len(s)
  OBVIOUS
<1>2. n \in Nat /\ DOMAIN s = 1..n
  BY <1>1, ListDomain
<1>3. PICK t, l : t = SubSeq(s, a, b) /\ l = Len(t)
  OBVIOUS
<1>4. /\ t \in Seq(S) /\ l = IF a <= b THEN b - a + 1 ELSE 0
      /\ \A i \in 1..(b - a + 1) : t[i] = s[a + i - 1]
  <2>1. \A i \in a..b : s[i] \in S
    BY <1>1, <1>2
  <2> QED
    BY <1>3, <2>1, SubSeqProperties
<1>5. DOMAIN t = 1..l /\ l <= n
  BY <1>1, <1>2, <1>3, <1>4, ListDomain
<1>6. \A i \in 1..l : i \in 1..(b - a + 1) /\ i \in Nat \ {0} /\ a + i - 1 \in a..b /\ a + i - 1 \in 1..n
  BY <1>1, <1>2, <1>4
<1>7. \A i \in DOMAIN t : i \in Nat \ {0} /\ a + i - 1 \in a..b /\ a + i - 1 \in DOMAIN s /\ t[i] = s[a + i - 1]
  BY <1>2, <1>4, <1>5, <1>6
<1>8. \A x \in Range(t) : \E j \in a..b : j \in DOMAIN s /\ x = s[j]
  BY <1>7, Zenon DEF Range
<1> QED
  BY <1>1, <1>3, <1>4, <1>5, <1>7, <1>8

(* How often an element is in a list that grows at its end, shrinks at its *)
(* beginning.                                                              *)
Times(s, x) == Cardinality({k \in DOMAIN s : s[k] = x})

LEMMA TimesAppended ==
  ASSUME NEW S, NEW s \in Seq(S), NEW y \in S
  PROVE  \A x : /\ Times(s, x) \in Nat
                /\ Times(Append(s, y), x) = Times(s, x) + (IF x = y THEN 1 ELSE 0)
<1>1. PICK n, t : n = Len(s) /\ t = Append(s, y)
  OBVIOUS
<1>2. /\ n \in Nat /\ DOMAIN s = 1..n /\ DOMAIN t = 1..(n + 1) /\ t[n + 1] = y
      /\ \A k \in 1..n : t[k] = s[k]
  BY <1>1, ListDomain, Appended
<1>3. ASSUME NEW x
      PROVE  Times(s, x) \in Nat /\ Times(t, x) = Times(s, x) + (IF x = y THEN 1 ELSE 0)
  <2>1. PICK A, B : A = {k \in 1..n : s[k] = x} /\ B = {k \in 1..(n + 1) : t[k] = x}
    OBVIOUS
  <2>2. IsFiniteSet(A) /\ Cardinality(A) \in Nat
    <3>1. IsFiniteSet(1..n)
      BY <1>2, FS_Interval
    <3> QED
      BY <2>1, <3>1, FS_Subset, FS_CardinalityType
  <2>3. n + 1 \notin A /\ (\A k \in 1..(n + 1) : k \in 1..n \/ k = n + 1) /\ 1..n \subseteq 1..(n + 1) /\ n + 1 \in 1..(n + 1)
    BY <1>2, <2>1
  <2>4. B = IF x = y THEN A \cup {n + 1} ELSE A
    BY <1>2, <2>1, <2>3
  <2>5. Cardinality(A \cup {n + 1}) = Cardinality(A) + 1
    BY <2>2, <2>3, FS_AddElement
  <2>6. Cardinality(B) = Cardinality(A) + (IF x = y THEN 1 ELSE 0)
    BY <2>2, <2>4, <2>5
  <2> QED
    BY <1>2, <2>1, <2>2, <2>6 DEF Times
<1> QED
  BY <1>1, <1>3

LEMMA TimesTail ==
  ASSUME NEW S, NEW s \in Seq(S), s # <<>>
  PROVE  \A x : Times(Tail(s), x) \in Nat /\ Times(s, x) \in Nat /\ Times(Tail(s), x) <= Times(s, x)
<1>1. PICK n, t : n = Len(s) /\ t = Tail(s)
  OBVIOUS
<1>2. /\ n \in Nat \ {0} /\ DOMAIN s = 1..n /\ DOMAIN t = 1..(n - 1)
      /\ \A k \in 1..(n - 1) : t[k] = s[k + 1]
  BY <1>1, Shortened
<1>3. ASSUME NEW x
      PROVE  Times(t, x) \in Nat /\ Times(s, x) \in Nat /\ Times(t, x) <= Times(s, x)
  <2>1. PICK A, B, C : /\ A = {k \in 1..n : s[k] = x} /\ B = {k \in 1..(n - 1) : t[k] = x}
                       /\ C = {k + 1 : k \in B}
    OBVIOUS
  <2>2. IsFiniteSet(A) /\ Cardinality(A) \in Nat
    <3>1. IsFiniteSet(1..n)
      BY <1>2, FS_Interval
    <3> QED
      BY <2>1, <3>1, FS_Subset, FS_CardinalityType
  <2>3. C \in SUBSET A
    <3>1. \A k \in 1..(n - 1) : k + 1 \in 1..n
      BY <1>2
    <3> QED
      BY <1>2, <2>1, <3>1
  <2>4. IsFiniteSet(C) /\ Cardinality(C) <= Cardinality(A)
    BY <2>2, <2>3, FS_Subset
  <2> DEFINE g == [c \in C |-> c - 1]
  <2>6. g \in Surjection(C, B)
    <3>1. \A k \in B : k \in Int /\ (k + 1) - 1 = k /\ k + 1 \in C
      BY <2>1
    <3>2. \A c \in C : c - 1 \in B
      BY <2>1, <3>1
    <3> QED
      BY <3>1, <3>2 DEF Surjection
  <2>7. IsFiniteSet(B) /\ Cardinality(B) <= Cardinality(C) /\ Cardinality(B) \in Nat /\ Cardinality(C) \in Nat
    <3> HIDE DEF g
    <3> QED
      BY <2>4, <2>6, FS_Surjection, FS_CardinalityType
  <2>8. Cardinality(B) <= Cardinality(A)
    BY <2>2, <2>4, <2>7
  <2> QED
    BY <1>2, <2>1, <2>2, <2>7, <2>8 DEF Times
<1> QED
  BY <1>1, <1>3

(* Only, element by element.                                               *)
Sifts(f, s, P) ==
  /\ f[0] = <<>>
  /\ \A i \in 1..Len(s) : f[i] = IF s[i] \in P THEN Append(f[i - 1], s[i]) ELSE f[i - 1]

LEMMA OnlySteps ==
  ASSUME NEW S, NEW s \in Seq(S), NEW P
  PROVE  \E f : Sifts(f, s, P) /\ Only(s, P) = f[Len(s)]
<1> DEFINE Is(f) == f = [i \in 0..Len(s) |-> IF i = 0 THEN <<>> ELSE
                           IF s[i] \in P THEN Append(f[i - 1], s[i]) ELSE f[i - 1]]
           kept == CHOOSE f : Is(f)
<1>1. Only(s, P) = kept[Len(s)]
  BY DEF Only
<1>2. \E f : Is(f)
  BY SiftExists
<1>3. Is(kept)
  BY <1>2
<1> HIDE DEF kept
<1>4. ASSUME NEW i \in 0..Len(s)
      PROVE  kept[i] = IF i = 0 THEN <<>> ELSE IF s[i] \in P THEN Append(kept[i - 1], s[i]) ELSE kept[i - 1]
  BY <1>3
<1> HIDE DEF Is
<1>5. Len(s) \in Nat
  OBVIOUS
<1>6. kept[0] = <<>>
  BY <1>4, <1>5
<1>7. \A i \in 1..Len(s) : i \in 0..Len(s) /\ i # 0
  BY <1>5
<1>8. Sifts(kept, s, P)
  BY <1>4, <1>6, <1>7 DEF Sifts
<1> QED
  BY <1>1, <1>8

LEMMA OnlyLeaves ==
  ASSUME NEW S, NEW s \in Seq(S), NEW P
  PROVE  Only(s, P) \in Seq(S) /\ Leaves(Only(s, P), s, Len(s), P)
<1>1. PICK f : Sifts(f, s, P) /\ Only(s, P) = f[Len(s)]
  BY OnlySteps
<1> QED
  BY <1>1, Sifted DEF Sifts

(* What is left are the elements of P.                                     *)
LEMMA OnlyRange ==
  ASSUME NEW S, NEW s \in Seq(S), NEW P
  PROVE  Only(s, P) \in Seq(S) /\ Range(Only(s, P)) = Range(s) \cap P
<1>1. Only(s, P) \in Seq(S) /\ Leaves(Only(s, P), s, Len(s), P)
  BY OnlyLeaves
<1>2. DOMAIN s = 1..Len(s)
  OBVIOUS
<1>3. ASSUME NEW x \in Range(Only(s, P)) PROVE x \in Range(s) \cap P
  <2>1. PICK i \in DOMAIN Only(s, P) : x = Only(s, P)[i]
    BY DEF Range
  <2>2. x \in P /\ \E a \in 1..Len(s) : x = s[a]
    BY <1>1, <2>1 DEF Leaves
  <2> QED
    BY <1>2, <2>2 DEF Range
<1>4. ASSUME NEW x \in Range(s) \cap P PROVE x \in Range(Only(s, P))
  <2>1. PICK a \in 1..Len(s) : x = s[a]
    BY <1>2 DEF Range
  <2>2. PICK i \in DOMAIN Only(s, P) : Only(s, P)[i] = s[a]
    BY <1>1, <2>1 DEF Leaves
  <2> QED
    BY <2>1, <2>2 DEF Range
<1> QED
  BY <1>1, <1>3, <1>4

(* Lists that agree so far leave the same so far.                          *)
LEMMA SiftsAgree ==
  ASSUME NEW S, NEW s \in Seq(S), NEW t \in Seq(S), NEW P, NEW Q, NEW f, NEW g,
         Sifts(f, s, P), Sifts(g, t, Q), NEW m \in Nat, m <= Len(s), m <= Len(t),
         \A i \in 1..m : s[i] = t[i] /\ (s[i] \in P <=> t[i] \in Q)
  PROVE  f[m] = g[m]
<1> DEFINE T == {n \in Nat : n <= m => f[n] = g[n]}
<1>1. T \in SUBSET Nat /\ 0 \in T
  BY DEF Sifts
<1>2. Len(s) \in Nat /\ Len(t) \in Nat
  OBVIOUS
<1>3. ASSUME NEW n \in T PROVE n + 1 \in T
  <2>1. SUFFICES ASSUME n + 1 <= m PROVE f[n + 1] = g[n + 1]
    OBVIOUS
  <2>2. f[n] = g[n] /\ n + 1 \in 1..Len(s) /\ n + 1 \in 1..Len(t) /\ (n + 1) - 1 = n /\ n + 1 \in 1..m
    BY <1>2, <2>1
  <2> HIDE DEF T
  <2>3. f[n + 1] = (IF s[n + 1] \in P THEN Append(f[n], s[n + 1]) ELSE f[n])
        /\ g[n + 1] = (IF t[n + 1] \in Q THEN Append(g[n], t[n + 1]) ELSE g[n])
    BY <2>2 DEF Sifts
  <2> QED
    BY <2>2, <2>3
<1> HIDE DEF T
<1>4. T = Nat
  BY <1>1, <1>3, SetInduction
<1> QED
  BY <1>4 DEF T

LEMMA OnlyAgrees ==
  ASSUME NEW S, NEW s \in Seq(S), NEW P, NEW Q, \A x \in Range(s) : x \in P <=> x \in Q
  PROVE  Only(s, P) = Only(s, Q)
<1>1. PICK f : Sifts(f, s, P) /\ Only(s, P) = f[Len(s)]
  BY OnlySteps
<1>2. PICK g : Sifts(g, s, Q) /\ Only(s, Q) = g[Len(s)]
  BY OnlySteps
<1>3. Len(s) \in Nat /\ \A i \in 1..Len(s) : s[i] = s[i] /\ (s[i] \in P <=> s[i] \in Q)
  BY DEF Range
<1>4. f[Len(s)] = g[Len(s)]
  BY <1>1, <1>2, <1>3, SiftsAgree
<1> QED
  BY <1>1, <1>2, <1>4

LEMMA OnlyAppended ==
  ASSUME NEW S, NEW s \in Seq(S), NEW x \in S, NEW P
  PROVE  Only(Append(s, x), P) = IF x \in P THEN Append(Only(s, P), x) ELSE Only(s, P)
<1>1. PICK t : t = Append(s, x)
  OBVIOUS
<1>2. t \in Seq(S) /\ Len(t) = Len(s) + 1 /\ Len(s) \in Nat
      /\ (\A i \in 1..Len(s) : t[i] = s[i]) /\ t[Len(s) + 1] = x
  BY <1>1, Appended
<1>3. PICK f : Sifts(f, s, P) /\ Only(s, P) = f[Len(s)]
  BY OnlySteps
<1>4. PICK g : Sifts(g, t, P) /\ Only(t, P) = g[Len(t)]
  BY <1>2, OnlySteps
<1>5. f[Len(s)] = g[Len(s)]
  <2>1. \A i \in 1..Len(s) : s[i] = t[i] /\ (s[i] \in P <=> t[i] \in P)
    BY <1>2
  <2>2. Len(s) <= Len(t) /\ Len(s) <= Len(s)
    BY <1>2
  <2> QED
    BY <1>2, <1>3, <1>4, <2>1, <2>2, SiftsAgree
<1>6. Len(s) + 1 \in 1..Len(t) /\ (Len(s) + 1) - 1 = Len(s)
  BY <1>2
<1>7. g[Len(s) + 1] = IF t[Len(s) + 1] \in P THEN Append(g[Len(s)], t[Len(s) + 1]) ELSE g[Len(s)]
  BY <1>4, <1>6 DEF Sifts
<1> QED
  BY <1>1, <1>2, <1>3, <1>4, <1>5, <1>7

LEMMA OnlyEmpty ==
  ASSUME NEW P PROVE Only(<<>>, P) = <<>>
<1>1. PICK f : Sifts(f, <<>>, P) /\ Only(<<>>, P) = f[Len(<<>>)]
  <2>1. <<>> \in Seq({})
    OBVIOUS
  <2> QED
    BY <2>1, OnlySteps
<1> QED
  BY <1>1 DEF Sifts

LEMMA OnlyOnce ==
  ASSUME NEW S, NEW s \in Seq(S), IsInjective(s), NEW P
  PROVE  Only(s, P) \in Seq(S) /\ IsInjective(Only(s, P))
<1>1. Only(s, P) \in Seq(S) /\ Leaves(Only(s, P), s, Len(s), P)
  BY OnlyLeaves
<1>2. DOMAIN s = 1..Len(s) /\ Len(s) \in Nat
  OBVIOUS
<1>3. PICK t : t = Only(s, P)
  OBVIOUS
<1>4. ASSUME NEW i \in DOMAIN t, NEW j \in DOMAIN t, i < j PROVE t[i] # t[j]
  <2>1. PICK a \in 1..Len(s), c \in 1..Len(s) : a < c /\ t[i] = s[a] /\ t[j] = s[c]
    BY <1>1, <1>3, <1>4 DEF Leaves
  <2> QED
    BY <1>2, <2>1 DEF IsInjective
<1>5. DOMAIN t = 1..Len(t) /\ Len(t) \in Nat
  BY <1>1, <1>3
<1>6. \A i, j \in DOMAIN t : i < j \/ j < i \/ i = j
  BY <1>5
<1>7. IsInjective(t)
  BY <1>4, <1>6 DEF IsInjective
<1> QED
  BY <1>1, <1>3, <1>7

(* Of several, as few or fewer are left.                                   *)
LEMMA OnlyLength ==
  ASSUME NEW S, NEW s \in Seq(S), NEW P
  PROVE  Len(Only(s, P)) \in Nat /\ Len(Only(s, P)) <= Len(s)
<1>1. PICK f : Sifts(f, s, P) /\ Only(s, P) = f[Len(s)]
  BY OnlySteps
<1> DEFINE T == {n \in Nat : n <= Len(s) => f[n] \in Seq(S) /\ Len(f[n]) \in Nat /\ Len(f[n]) <= n}
<1>2. T \in SUBSET Nat /\ 0 \in T
  <2>1. f[0] = <<>>
    BY <1>1 DEF Sifts
  <2>2. <<>> \in Seq(S) /\ Len(<<>>) = 0
    OBVIOUS
  <2>3. f[0] \in Seq(S) /\ Len(f[0]) \in Nat /\ Len(f[0]) <= 0
    BY <2>1, <2>2
  <2> QED
    BY <2>3
<1>3. Len(s) \in Nat
  OBVIOUS
<1>4. ASSUME NEW n \in T PROVE n + 1 \in T
  <2>1. SUFFICES ASSUME n + 1 <= Len(s) PROVE f[n + 1] \in Seq(S) /\ Len(f[n + 1]) \in Nat /\ Len(f[n + 1]) <= n + 1
    OBVIOUS
  <2>2. f[n] \in Seq(S) /\ Len(f[n]) \in Nat /\ Len(f[n]) <= n /\ n + 1 \in 1..Len(s) /\ (n + 1) - 1 = n /\ n \in Nat
    BY <1>3, <2>1
  <2> HIDE DEF T
  <2>3. f[n + 1] = IF s[n + 1] \in P THEN Append(f[n], s[n + 1]) ELSE f[n]
    BY <1>1, <2>2 DEF Sifts
  <2>4. s[n + 1] \in S
    BY <2>2
  <2>5. Append(f[n], s[n + 1]) \in Seq(S) /\ Len(Append(f[n], s[n + 1])) = Len(f[n]) + 1
    BY <2>2, <2>4, Appended
  <2> QED
    BY <2>2, <2>3, <2>5
<1> HIDE DEF T
<1>5. T = Nat
  BY <1>2, <1>4, SetInduction
<1> QED
  BY <1>1, <1>3, <1>5 DEF T

(* Every list that is sifted is one of the list.                           *)
LEMMA SiftsTyped ==
  ASSUME NEW S, NEW s \in Seq(S), NEW P, NEW f, Sifts(f, s, P)
  PROVE  \A n \in 0..Len(s) : f[n] \in Seq(S)
<1> DEFINE T == {n \in Nat : n <= Len(s) => f[n] \in Seq(S)}
<1>1. T \in SUBSET Nat /\ 0 \in T
  <2>1. <<>> \in Seq(S)
    OBVIOUS
  <2> QED
    BY <2>1 DEF Sifts
<1>2. Len(s) \in Nat
  OBVIOUS
<1>3. ASSUME NEW n \in T PROVE n + 1 \in T
  <2>1. SUFFICES ASSUME n + 1 <= Len(s) PROVE f[n + 1] \in Seq(S)
    OBVIOUS
  <2>2. f[n] \in Seq(S) /\ n + 1 \in 1..Len(s) /\ (n + 1) - 1 = n
    BY <1>2, <2>1
  <2> HIDE DEF T
  <2>3. f[n + 1] = IF s[n + 1] \in P THEN Append(f[n], s[n + 1]) ELSE f[n]
    BY <2>2 DEF Sifts
  <2>4. s[n + 1] \in S
    BY <2>2
  <2>5. Append(f[n], s[n + 1]) \in Seq(S)
    BY <2>2, <2>4, Appended
  <2> QED
    BY <2>2, <2>3, <2>5
<1> HIDE DEF T
<1>4. T = Nat
  BY <1>1, <1>3, SetInduction
<1> QED
  BY <1>2, <1>4 DEF T

(* Appended to the second is appended to both.                             *)
LEMMA JoinedAppended ==
  ASSUME NEW S, NEW a \in Seq(S), NEW b \in Seq(S), NEW x \in S
  PROVE  a \o Append(b, x) = Append(a \o b, x)
<1>1. PICK n, m, c, d, e : n = Len(a) /\ m = Len(b) /\ c = Append(b, x) /\ d = a \o c /\ e = a \o b
  OBVIOUS
<1>2. c \in Seq(S) /\ Len(c) = m + 1 /\ n \in Nat /\ m \in Nat /\ (\A i \in 1..m : c[i] = b[i]) /\ c[m + 1] = x
  BY <1>1, Appended
<1>3. /\ d \in Seq(S) /\ Len(d) = n + (m + 1) /\ (\A i \in 1..n : d[i] = a[i])
      /\ \A i \in 1..(m + 1) : d[n + i] = c[i]
  BY <1>1, <1>2, Joined
<1>4. /\ e \in Seq(S) /\ Len(e) = n + m /\ (\A i \in 1..n : e[i] = a[i])
      /\ \A i \in 1..m : e[n + i] = b[i]
  BY <1>1, <1>2, Joined
<1>5. PICK u : u = Append(e, x)
  OBVIOUS
<1>6. u \in Seq(S) /\ Len(u) = n + m + 1 /\ (\A i \in 1..(n + m) : u[i] = e[i]) /\ u[n + m + 1] = x
  BY <1>2, <1>4, <1>5, Appended
<1>7. ASSUME NEW i \in 1..(n + m + 1) PROVE u[i] = d[i]
  <2>1. CASE i \in 1..n
    <3>1. i \in 1..(n + m)
      BY <1>2, <2>1
    <3> QED
      BY <1>3, <1>4, <1>6, <2>1, <3>1
  <2>2. CASE i > n
    <3>1. PICK j : j = i - n
      OBVIOUS
    <3>2. j \in 1..(m + 1) /\ i = n + j
      BY <1>2, <2>2, <3>1
    <3>3. CASE j \in 1..m
      <4>1. i \in 1..(n + m)
        BY <1>2, <3>2, <3>3
      <4> QED
        BY <1>2, <1>3, <1>4, <1>6, <3>2, <3>3, <4>1
    <3>4. CASE j = m + 1
      BY <1>2, <1>3, <1>6, <3>2, <3>4
    <3> QED
      BY <1>2, <3>2, <3>3, <3>4
  <2> QED
    BY <1>2, <2>1, <2>2
<1>8. DOMAIN u = 1..(n + m + 1) /\ DOMAIN d = 1..(n + m + 1)
  BY <1>2, <1>3, <1>6
<1>9. u = d
  BY <1>3, <1>6, <1>7, <1>8
<1> QED
  BY <1>1, <1>5, <1>9

(* Of two lists, one after the other.                                      *)
LEMMA OnlyJoined ==
  ASSUME NEW S, NEW a \in Seq(S), NEW b \in Seq(S), NEW P
  PROVE  Only(a \o b, P) = Only(a, P) \o Only(b, P)
<1>1. PICK s, n : s = a \o b /\ n = Len(a)
  OBVIOUS
<1>2. /\ s \in Seq(S) /\ Len(s) = n + Len(b) /\ n \in Nat /\ Len(b) \in Nat
      /\ (\A i \in 1..n : s[i] = a[i]) /\ \A i \in 1..Len(b) : s[n + i] = b[i]
  BY <1>1, Joined
<1>3. PICK f : Sifts(f, s, P) /\ Only(s, P) = f[Len(s)]
  BY <1>2, OnlySteps
<1>4. PICK g : Sifts(g, b, P) /\ Only(b, P) = g[Len(b)]
  BY OnlySteps
<1>5. PICK h : Sifts(h, a, P) /\ Only(a, P) = h[n]
  BY <1>1, OnlySteps
<1>6. PICK u : u = Only(a, P)
  OBVIOUS
<1>7. u \in Seq(S)
  BY <1>6, OnlyRange
<1>8. f[n] = u
  <2>1. \A i \in 1..n : s[i] = a[i] /\ (s[i] \in P <=> a[i] \in P)
    BY <1>2
  <2>2. n <= Len(s) /\ n <= Len(a) /\ n \in Nat /\ s \in Seq(S)
    BY <1>1, <1>2
  <2>3. Sifts(f, s, P) /\ Sifts(h, a, P)
    BY <1>3, <1>5
  <2>4. f[n] = h[n]
    BY <2>1, <2>2, <2>3, SiftsAgree
  <2> QED
    BY <1>5, <1>6, <2>4
<1>9. \A m \in 0..Len(b) : g[m] \in Seq(S)
  BY <1>4, SiftsTyped
<1> DEFINE T == {m \in Nat : m <= Len(b) => f[n + m] = u \o g[m]}
<1>10. T \in SUBSET Nat /\ 0 \in T
  <2>1. g[0] = <<>>
    BY <1>4 DEF Sifts
  <2>2. u \o <<>> = u
    BY <1>7
  <2>3. n + 0 = n
    BY <1>2
  <2> QED
    BY <1>8, <2>1, <2>2, <2>3
<1>11. ASSUME NEW m \in T PROVE m + 1 \in T
  <2>1. SUFFICES ASSUME m + 1 <= Len(b) PROVE f[n + (m + 1)] = u \o g[m + 1]
    OBVIOUS
  <2>2. /\ f[n + m] = u \o g[m] /\ m + 1 \in 1..Len(b) /\ (m + 1) - 1 = m /\ m \in 0..Len(b)
        /\ n + (m + 1) \in 1..Len(s) /\ (n + (m + 1)) - 1 = n + m /\ s[n + (m + 1)] = b[m + 1]
    BY <1>2, <2>1
  <2> HIDE DEF T
  <2>3. PICK x, v : x = b[m + 1] /\ v = g[m]
    OBVIOUS
  <2>4. x \in S /\ v \in Seq(S)
    BY <1>9, <2>2, <2>3
  <2>5. f[n + (m + 1)] = (IF x \in P THEN Append(u \o v, x) ELSE u \o v)
    BY <1>3, <2>2, <2>3 DEF Sifts
  <2>6. g[m + 1] = (IF x \in P THEN Append(v, x) ELSE v)
    BY <1>4, <2>2, <2>3 DEF Sifts
  <2>7. u \o Append(v, x) = Append(u \o v, x)
    BY <1>7, <2>4, JoinedAppended
  <2> QED
    BY <2>5, <2>6, <2>7
<1> HIDE DEF T
<1>12. T = Nat
  BY <1>10, <1>11, SetInduction
<1>13. f[n + Len(b)] = u \o g[Len(b)]
  <2>1. Len(b) \in Nat /\ Len(b) <= Len(b)
    BY <1>2
  <2>2. Len(b) \in T
    BY <1>12, <2>1
  <2> QED
    BY <2>1, <2>2 DEF T
<1> QED
  BY <1>1, <1>2, <1>3, <1>4, <1>6, <1>13

(* What passes all leaves all.                                             *)
LEMMA OnlyAll ==
  ASSUME NEW S, NEW s \in Seq(S), NEW P, \A x \in Range(s) : x \in P
  PROVE  Only(s, P) = s
<1>1. PICK f : Sifts(f, s, P) /\ Only(s, P) = f[Len(s)]
  BY OnlySteps
<1>2. Len(s) \in Nat /\ \A i \in 1..Len(s) : s[i] \in P
  BY DEF Range
<1>3. /\ SubSeq(s, 1, 0) = <<>> /\ SubSeq(s, 1, Len(s)) = s
      /\ \A k \in 1..Len(s) : Append(SubSeq(s, 1, k - 1), s[k]) = SubSeq(s, 1, k)
  BY Beginnings
<1> DEFINE T == {n \in Nat : n <= Len(s) => f[n] = SubSeq(s, 1, n)}
<1>4. T \in SUBSET Nat /\ 0 \in T
  BY <1>1, <1>3 DEF Sifts
<1>5. ASSUME NEW n \in T PROVE n + 1 \in T
  <2>1. SUFFICES ASSUME n + 1 <= Len(s) PROVE f[n + 1] = SubSeq(s, 1, n + 1)
    OBVIOUS
  <2>2. f[n] = SubSeq(s, 1, n) /\ n + 1 \in 1..Len(s) /\ (n + 1) - 1 = n
    BY <1>2, <2>1
  <2> HIDE DEF T
  <2>3. f[n + 1] = Append(f[n], s[n + 1])
    BY <1>1, <1>2, <2>2 DEF Sifts
  <2>4. Append(SubSeq(s, 1, n), s[n + 1]) = SubSeq(s, 1, n + 1)
    BY <1>3, <2>2
  <2> QED
    BY <2>2, <2>3, <2>4
<1> HIDE DEF T
<1>6. T = Nat
  BY <1>4, <1>5, SetInduction
<1> QED
  BY <1>1, <1>2, <1>3, <1>6 DEF T

(* What passes a test and what does not are together as many as there are. *)
LEMMA OnlyParted ==
  ASSUME NEW S, NEW s \in Seq(S), NEW P, NEW Q, \A x \in Range(s) : x \in P <=> x \notin Q
  PROVE  Len(Only(s, P)) + Len(Only(s, Q)) = Len(s)
<1>1. PICK f : Sifts(f, s, P) /\ Only(s, P) = f[Len(s)]
  BY OnlySteps
<1>2. PICK g : Sifts(g, s, Q) /\ Only(s, Q) = g[Len(s)]
  BY OnlySteps
<1>3. Len(s) \in Nat /\ \A i \in 1..Len(s) : s[i] \in S /\ (s[i] \in P <=> s[i] \notin Q)
  BY DEF Range
<1>4. \A n \in 0..Len(s) : f[n] \in Seq(S) /\ g[n] \in Seq(S)
  BY <1>1, <1>2, SiftsTyped
<1>5. PICK c : c = [n \in 0..Len(s) |-> Len(f[n]) + Len(g[n])]
  OBVIOUS
<1>6. \A n \in 0..Len(s) : c[n] = Len(f[n]) + Len(g[n])
  BY <1>5
<1> DEFINE T == {n \in Nat : n <= Len(s) => c[n] = n}
<1>7. T \in SUBSET Nat /\ 0 \in T
  <2>1. f[0] = <<>> /\ g[0] = <<>> /\ Len(<<>>) = 0
    BY <1>1, <1>2 DEF Sifts
  <2>2. 0 \in 0..Len(s)
    BY <1>3
  <2>3. c[0] = Len(<<>>) + Len(<<>>)
    BY <1>6, <2>1, <2>2
  <2> QED
    BY <2>1, <2>3
<1>8. ASSUME NEW n \in T PROVE n + 1 \in T
  <2>1. SUFFICES ASSUME n + 1 <= Len(s) PROVE c[n + 1] = n + 1
    OBVIOUS
  <2>2. c[n] = n /\ n + 1 \in 1..Len(s) /\ (n + 1) - 1 = n /\ n \in 0..Len(s) /\ n \in Nat /\ n + 1 \in 0..Len(s)
    BY <1>3, <2>1
  <2> HIDE DEF T
  <2>3. PICK x, u, v : x = s[n + 1] /\ u = f[n] /\ v = g[n]
    OBVIOUS
  <2>4. u \in Seq(S) /\ v \in Seq(S) /\ x \in S /\ (x \in P <=> x \notin Q)
    BY <1>3, <1>4, <2>2, <2>3
  <2>5. f[n + 1] = (IF x \in P THEN Append(u, x) ELSE u) /\ g[n + 1] = (IF x \in Q THEN Append(v, x) ELSE v)
    BY <1>1, <1>2, <2>2, <2>3 DEF Sifts
  <2>6. Len(Append(u, x)) = Len(u) + 1 /\ Len(Append(v, x)) = Len(v) + 1
    BY <2>4, Appended
  <2>7. PICK i, j : i = Len(u) /\ j = Len(v)
    OBVIOUS
  <2>8. i \in Nat /\ j \in Nat
    BY <2>4, <2>7
  <2>9. i + j = n
    BY <1>6, <2>2, <2>3, <2>7
  <2>10. c[n + 1] = Len(f[n + 1]) + Len(g[n + 1])
    BY <1>6, <2>2
  <2>11. CASE x \in P
    <3>1. Len(f[n + 1]) = i + 1 /\ Len(g[n + 1]) = j
      BY <2>4, <2>5, <2>6, <2>7, <2>11
    <3> QED
      BY <2>8, <2>9, <2>10, <3>1
  <2>12. CASE x \notin P
    <3>1. Len(f[n + 1]) = i /\ Len(g[n + 1]) = j + 1
      BY <2>4, <2>5, <2>6, <2>7, <2>12
    <3> QED
      BY <2>8, <2>9, <2>10, <3>1
  <2> QED
    BY <2>11, <2>12
<1> HIDE DEF T
<1>9. T = Nat
  BY <1>7, <1>8, SetInduction
<1>10. c[Len(s)] = Len(s)
  BY <1>3, <1>9 DEF T
<1>11. PICK m : m = Len(s)
  OBVIOUS
<1>12. m \in 0..Len(s)
  BY <1>3, <1>11
<1>13. c[m] = Len(f[m]) + Len(g[m])
  BY <1>6, <1>12
<1> QED
  BY <1>1, <1>2, <1>10, <1>11, <1>13, Zenon

(* The head passes the test, or it is passed over.                         *)
LEMMA OnlyTail ==
  ASSUME NEW S, NEW s \in Seq(S), s # <<>>, NEW P
  PROVE  /\ Head(s) \in P => Only(s, P) # <<>> /\ Only(Tail(s), P) = Tail(Only(s, P))
         /\ Head(s) \notin P => Only(Tail(s), P) = Only(s, P)
<1>1. PICK x, t, h : x = Head(s) /\ t = Tail(s) /\ h = <<x>>
  OBVIOUS
<1>2. x \in S /\ t \in Seq(S) /\ h \in Seq(S) /\ s = h \o t
  BY <1>1
<1>3. Only(s, P) = Only(h, P) \o Only(t, P)
  BY <1>2, OnlyJoined
<1>4. Only(h, P) = IF x \in P THEN h ELSE <<>>
  <2>1. h = Append(<<>>, x) /\ <<>> \in Seq(S)
    BY <1>1
  <2>2. Only(Append(<<>>, x), P) = IF x \in P THEN Append(Only(<<>>, P), x) ELSE Only(<<>>, P)
    BY <1>2, <2>1, OnlyAppended
  <2> QED
    BY <2>1, <2>2, OnlyEmpty
<1>5. PICK u : u = Only(t, P)
  OBVIOUS
<1>6. u \in Seq(S)
  BY <1>2, <1>5, OnlyRange
<1>7. <<>> \o u = u /\ h \o u # <<>> /\ Tail(h \o u) = u
  <2>1. <<>> \o u = u
    BY <1>6
  <2>2. Len(h \o u) = 1 + Len(u) /\ Len(u) \in Nat
    BY <1>1, <1>2, <1>6
  <2>3. h \o u # <<>>
    BY <2>2
  <2>4. Tail(h \o u) = u
    BY <1>1, <1>2, <1>6
  <2> QED
    BY <2>1, <2>3, <2>4
<1> QED
  BY <1>1, <1>3, <1>4, <1>5, <1>7
=============================================================================
