------------------------------ MODULE Isolation ------------------------------
(***************************************************************************)
(* What the bulkhead of core/infrastructure/resilience/patterns.py         *)
(* promises: a call is let in against one of Max permits, and its permit   *)
(* comes back when it leaves, or goes straight to another call.            *)
(***************************************************************************)
EXTENDS Naturals

CONSTANTS Callers, Max

VARIABLES
  inside,   \* the calls that own a permit
  permits   \* the permits nobody owns

LetIn(c) ==
  /\ permits > 0
  /\ c \notin inside
  /\ inside' = inside \cup {c}
  /\ permits' = permits - 1

LetOut(c) ==
  /\ c \in inside
  /\ inside' = inside \ {c}
  /\ permits' = permits + 1

Replace(c, d) ==
  /\ c \in inside /\ d \notin inside
  /\ inside' = (inside \ {c}) \cup {d}
  /\ UNCHANGED permits

IsolationNext ==
  \/ \E c \in Callers : LetIn(c) \/ LetOut(c)
  \/ \E c, d \in Callers : Replace(c, d)

IsolationSpec ==
  inside = {} /\ permits = Max /\ [][IsolationNext]_<<inside, permits>>

=============================================================================
