-------------------------------- MODULE Lists --------------------------------
(***************************************************************************)
(* Python's list comprehension [x for x in s if ...] and sorted. They are  *)
(* SelectSeq with a set in place of the test, and an element of SortSeq:   *)
(* the provers know neither of these.                                      *)
(***************************************************************************)
EXTENDS Naturals, Sequences, FiniteSets

(* What a list comprehension leaves of s.                                  *)
Only(s, P) ==
  LET kept[i \in 0..Len(s)] ==
        IF i = 0 THEN <<>>
        ELSE IF s[i] \in P THEN Append(kept[i - 1], s[i]) ELSE kept[i - 1]
  IN  kept[Len(s)]

(* sorted(s)[n - 1]: what fewer than n of s are below, and n are up to.    *)
Ranked(s, n) ==
  CHOOSE v \in {s[i] : i \in DOMAIN s} : /\ Cardinality({i \in DOMAIN s : s[i] < v}) < n
                                        /\ n <= Cardinality({i \in DOMAIN s : s[i] <= v})
=============================================================================
