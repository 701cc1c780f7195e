-------------------------- MODULE Resilience_proofs --------------------------
(***************************************************************************)
(* The patterns of core/infrastructure/resilience, for every number of     *)
(* calls, every limit and every threshold: the bulkhead keeps its permits  *)
(* and their order, the breaker never opens and nothing passes a caller    *)
(* that is stuck in it, and the handler's retries and delays are bounded.  *)
(***************************************************************************)
EXTENDS Resilience, Lemmas, FiniteSetTheorems

(* The bulkhead: permits, metrics and the order of the waiters.            *)
Running == At("running")

(* The sets counted are finite.                                            *)
LEMMA OwnersFinite ==
  /\ IsFiniteSet(Owners) /\ Cardinality(Owners) \in Nat
  /\ IsFiniteSet(Running) /\ Cardinality(Running) \in Nat
<1>1. Owners \in SUBSET Callers /\ Running \in SUBSET Callers
  BY DEF Owners, Running, At
<1> QED
  BY <1>1, BulkheadAssumption, FS_Subset, FS_CardinalityType DEF BulkheadAssumption

LEMMA InitInv == Init => BulkheadInv
<1> SUFFICES ASSUME Init PROVE BulkheadInv
  OBVIOUS
<1>1. Owners = {} /\ At("running") = {}
  BY DEF Init, Owners, At
<1>2. Cardinality(Owners) = 0 /\ Cardinality(At("running")) = 0
  BY <1>1, FS_EmptySet
<1>3. TypeOK
  BY BulkheadAssumption DEF Init, TypeOK, BulkheadAssumption
<1>4. PermitsConserved
  BY <1>2, BulkheadAssumption DEF Init, PermitsConserved, BulkheadAssumption
<1>5. MetricsAddUp
  BY <1>2 DEF Init, MetricsAddUp
<1> QED
  BY <1>3, <1>4, <1>5 DEF BulkheadInv

(* How the owners of permits change: nobody, one out, one in, or one out   *)
(* and the next waiter in.                                                 *)
Same       == Owners' = Owners /\ value' = value
Departs(c)  == c \in Owners /\ Owners' = Owners \ {c} /\ value' = value + 1
Joins(c)   == c \in Callers \ Owners /\ Owners' = Owners \cup {c}
              /\ value > 0 /\ value' = value - 1
Passes(c, d) == /\ c \in Owners /\ d \in Callers \ Owners /\ value' = value
                /\ Owners' = (Owners \ {c}) \cup {d}
Change == \/ Same
          \/ \E c \in Callers : Departs(c) \/ Joins(c)
          \/ \E c, d \in Callers : Passes(c, d)

(* Whichever of these happens, the permits add up as before.               *)
LEMMA ChangeConserves ==
  ASSUME BulkheadInv, Change
  PROVE  value' \in Nat /\ value' + Cardinality(Owners)' = Max
<1>1. /\ value \in Nat /\ Cardinality(Owners) \in Nat /\ IsFiniteSet(Owners)
      /\ value + Cardinality(Owners) = Max
  BY OwnersFinite DEF BulkheadInv, TypeOK, PermitsConserved
<1>2. CASE Same
  BY <1>1, <1>2 DEF Same
<1>3. ASSUME NEW c \in Callers, Departs(c)
      PROVE  value' \in Nat /\ value' + Cardinality(Owners)' = Max
  <2>1. Cardinality(Owners)' = Cardinality(Owners) - 1 /\ value' = value + 1
    BY <1>1, <1>3, FS_RemoveElement DEF Departs
  <2>2. (value + 1) + (Cardinality(Owners) - 1) = Max
    BY <1>1
  <2> QED
    BY <1>1, <2>1, <2>2
<1>4. ASSUME NEW c \in Callers, Joins(c)
      PROVE  value' \in Nat /\ value' + Cardinality(Owners)' = Max
  <2>1. Cardinality(Owners)' = Cardinality(Owners) + 1 /\ value' = value - 1 /\ value > 0
    BY <1>1, <1>4, FS_AddElement DEF Joins
  <2>2. (value - 1) + (Cardinality(Owners) + 1) = Max
    BY <1>1
  <2> QED
    BY <1>1, <2>1, <2>2
<1>5. ASSUME NEW c \in Callers, NEW d \in Callers, Passes(c, d)
      PROVE  value' \in Nat /\ value' + Cardinality(Owners)' = Max
  <2>1. /\ IsFiniteSet(Owners \ {c})
        /\ Cardinality(Owners \ {c}) = Cardinality(Owners) - 1
        /\ d \notin Owners \ {c}
    BY <1>1, <1>5, FS_RemoveElement DEF Passes
  <2>2. Cardinality((Owners \ {c}) \cup {d}) = Cardinality(Owners \ {c}) + 1
    BY <2>1, FS_AddElement
  <2>3. Cardinality(Owners)' = Cardinality(Owners)
    BY <1>1, <1>5, <2>1, <2>2 DEF Passes
  <2> QED
    BY <1>1, <1>5, <2>3 DEF Passes
<1> QED
  BY <1>2, <1>3, <1>4, <1>5 DEF Change

(* Giving a permit back is one of them, and the caller is out.             *)
LEMMA GiveBackChanges ==
  ASSUME TypeOK, NEW c \in Owners, GiveBack(c, "idle")
  PROVE  /\ Change
         /\ pc' \in [Callers -> {"idle", "asking", "queued", "granted",
                                 "acquired", "running"}]
         /\ before' \subseteq Callers \X Callers
         /\ Running' = Running \ {c}
<1>1. c \in Callers
  BY DEF Owners
<1>2. before' \subseteq Callers \X Callers
  BY DEF GiveBack, Forget, TypeOK
<1>3. CASE /\ Queued \ {c} = {} /\ value' = value + 1
           /\ pc' = [pc EXCEPT ![c] = "idle"]
  <2>1. Departs(c)
    BY <1>1, <1>3 DEF Departs, Owners, TypeOK
  <2>2. Running' = Running \ {c}
    BY <1>1, <1>3 DEF Running, At, TypeOK
  <2> QED
    BY <1>1, <1>2, <1>3, <2>1, <2>2 DEF Change, TypeOK
<1>4. ASSUME NEW d \in Queued \ {c}, value' = value,
             pc' = [pc EXCEPT ![c] = "idle", ![d] = "granted"]
      PROVE  /\ Change
             /\ pc' \in [Callers -> {"idle", "asking", "queued", "granted",
                                     "acquired", "running"}]
             /\ Running' = Running \ {c}
  <2>1. d \in Callers /\ pc[d] = "queued" /\ d # c
    BY DEF Queued, At
  <2>2. Passes(c, d)
    BY <1>1, <1>4, <2>1 DEF Passes, Owners, TypeOK
  <2>3. Running' = Running \ {c}
    BY <1>1, <1>4, <2>1 DEF Running, At, TypeOK
  <2> QED
    BY <1>1, <1>4, <2>1, <2>2, <2>3 DEF Change, TypeOK
<1> QED
  BY <1>2, <1>3, <1>4 DEF GiveBack

(* The steps in which nobody starts or stops running.                      *)
LEMMA WaitingSteps ==
  ASSUME BulkheadInv, NEW c \in Callers, Execute(c) \/ Ask(c) \/ Resume(c)
  PROVE  /\ Change /\ Running' = Running
         /\ pc' \in [Callers -> {"idle", "asking", "queued", "granted",
                                 "acquired", "running"}]
         /\ before' \subseteq Callers \X Callers
         /\ metrics' = metrics /\ dropped' = dropped /\ calls' \in Nat
<1> USE DEF BulkheadInv, TypeOK
<1>1. CASE Execute(c)
  <2>1. Same /\ Running' = Running
    BY <1>1 DEF Execute, Same, Owners, Running, At
  <2> QED
    BY <1>1, <2>1 DEF Execute, Change
<1>2. CASE Ask(c)
  <2>1. before' \subseteq Callers \X Callers
    BY <1>2 DEF Ask, Queued, Granted, At
  <2>2. Running' = Running
    BY <1>2 DEF Ask, Running, At
  <2>3. Same \/ Joins(c)
    <3>1. CASE ~Locked
      BY <1>2, <3>1 DEF Ask, Locked, Joins, Owners
    <3>2. CASE Locked
      BY <1>2, <3>2 DEF Ask, Same, Owners
    <3> QED
      BY <3>1, <3>2
  <2> QED
    BY <1>2, <2>1, <2>2, <2>3 DEF Ask, Change
<1>3. CASE Resume(c)
  <2>1. before' \subseteq Callers \X Callers
    BY <1>3 DEF Resume, Forget
  <2>2. CASE value' = value /\ pc' = [pc EXCEPT ![c] = "acquired"]
    <3>1. Same /\ Running' = Running
      BY <1>3, <2>2 DEF Resume, Same, Owners, Running, At
    <3> QED
      BY <1>3, <2>1, <2>2, <3>1 DEF Resume, Change
  <2>3. ASSUME NEW d \in Queued, value > 0, value' = value - 1,
               pc' = [pc EXCEPT ![c] = "acquired", ![d] = "granted"]
        PROVE  /\ Change /\ Running' = Running
               /\ pc' \in [Callers -> {"idle", "asking", "queued", "granted",
                                       "acquired", "running"}]
    <3>1. d \in Callers /\ pc[d] = "queued" /\ pc[c] = "granted"
      BY <1>3 DEF Queued, At, Resume
    <3>2. Joins(d)
      BY <2>3, <3>1 DEF Joins, Owners
    <3>3. Running' = Running
      BY <2>3, <3>1 DEF Running, At
    <3> QED
      BY <2>3, <3>1, <3>2, <3>3 DEF Change
  <2> QED
    BY <1>3, <2>1, <2>2, <2>3 DEF Resume
<1> QED
  BY <1>1, <1>2, <1>3

(* The function starts.                                                    *)
LEMMA EnterStep ==
  ASSUME BulkheadInv, NEW c \in Callers, Enter(c)
  PROVE  /\ Change /\ MetricsAddUp'
         /\ pc' \in [Callers -> {"idle", "asking", "queued", "granted",
                                 "acquired", "running"}]
         /\ before' = before /\ active' \in Nat /\ total' \in Nat
         /\ UNCHANGED <<successful, failed, rejected, calls, dropped>>
<1> USE DEF BulkheadInv, TypeOK
<1>1. Same /\ Running' = Running \cup {c} /\ c \notin Running
  BY DEF Enter, Same, Owners, Running, At
<1>2. Cardinality(Running)' = Cardinality(Running) + 1
  BY <1>1, OwnersFinite, FS_AddElement
<1>3. MetricsAddUp'
  BY <1>2 DEF MetricsAddUp, Enter, Running
<1> QED
  BY <1>1, <1>3 DEF Enter, Change

(* The call ends, by a timeout, an outcome or a cancellation.              *)
LEMMA LeavingSteps ==
  ASSUME BulkheadInv, NEW c \in Callers, WaitTimesOut(c) \/ Finish(c) \/ Cancel(c)
  PROVE  /\ Change /\ MetricsAddUp'
         /\ pc' \in [Callers -> {"idle", "asking", "queued", "granted",
                                 "acquired", "running"}]
         /\ before' \subseteq Callers \X Callers
         /\ active' \in Nat /\ total' \in Nat /\ successful' \in Nat
         /\ failed' \in Nat /\ rejected' \in Nat /\ dropped' \in Nat
         /\ calls' = calls
<1>1. TypeOK
  BY DEF BulkheadInv
<1>2. \/ pc[c] \in {"asking", "queued"} /\ pc' = [pc EXCEPT ![c] = "idle"]
         /\ before' = Forget(c) /\ value' = value
      \/ c \in Owners /\ GiveBack(c, "idle")
  BY DEF WaitTimesOut, Finish, Cancel, Owners
<1>3. /\ Change /\ Running' = Running \ {c}
      /\ pc' \in [Callers -> {"idle", "asking", "queued", "granted",
                              "acquired", "running"}]
      /\ before' \subseteq Callers \X Callers
  <2>1. CASE /\ pc[c] \in {"asking", "queued"} /\ pc' = [pc EXCEPT ![c] = "idle"]
             /\ before' = Forget(c) /\ value' = value
    <3>1. Same /\ Running' = Running \ {c}
      BY <1>1, <2>1 DEF Same, Owners, Running, At, TypeOK
    <3> QED
      BY <1>1, <2>1, <3>1 DEF Forget, Change, TypeOK
  <2>2. CASE c \in Owners /\ GiveBack(c, "idle")
    BY <1>1, <2>2, GiveBackChanges
  <2> QED
    BY <1>2, <2>1, <2>2
<1>4. CASE c \in Running
  <2>1. Cardinality(Running)' = Cardinality(Running) - 1 /\ Cardinality(Running) > 0
    <3>1. IsFiniteSet(Running) /\ Cardinality(Running) \in Nat
      BY OwnersFinite
    <3>2. Cardinality(Running) # 0
      BY <1>4, <3>1, FS_EmptySet
    <3>3. Cardinality(Running \ {c}) = Cardinality(Running) - 1
      BY <1>4, <3>1, FS_RemoveElement
    <3>4. Cardinality(Running)' = Cardinality(Running \ {c})
      BY <1>3
    <3> QED
      BY <3>1, <3>2, <3>3, <3>4
  <2>2. /\ active = Cardinality(Running) /\ active' = active - 1
        /\ total' = total /\ calls' = calls
        /\ \/ successful' = successful + 1 /\ failed' = failed /\ dropped' = dropped
           \/ failed' = failed + 1 /\ successful' = successful /\ dropped' = dropped
           \/ dropped' = dropped + 1 /\ successful' = successful /\ failed' = failed
        /\ rejected' \in Nat
    BY <1>1, <1>4 DEF WaitTimesOut, Finish, Cancel, Running, At, TypeOK, BulkheadInv,
                MetricsAddUp
  <2>3. /\ active' \in Nat /\ total' \in Nat /\ successful' \in Nat
        /\ failed' \in Nat /\ dropped' \in Nat
    BY <1>1, <2>1, <2>2, OwnersFinite DEF TypeOK
  <2>4. total' = active' + successful' + failed' + dropped'
    <3>1. total = active + successful + failed + dropped
      BY DEF BulkheadInv, MetricsAddUp
    <3>2. CASE successful' = successful + 1 /\ failed' = failed /\ dropped' = dropped
      <4>1. total = (active - 1) + (successful + 1) + failed + dropped
        BY <1>1, <3>1 DEF TypeOK
      <4> QED
        BY <2>2, <3>2, <4>1
    <3>3. CASE failed' = failed + 1 /\ successful' = successful /\ dropped' = dropped
      <4>1. total = (active - 1) + successful + (failed + 1) + dropped
        BY <1>1, <3>1 DEF TypeOK
      <4> QED
        BY <2>2, <3>3, <4>1
    <3>4. CASE dropped' = dropped + 1 /\ successful' = successful /\ failed' = failed
      <4>1. total = (active - 1) + successful + failed + (dropped + 1)
        BY <1>1, <3>1 DEF TypeOK
      <4> QED
        BY <2>2, <3>4, <4>1
    <3> QED
      BY <2>2, <3>2, <3>3, <3>4
  <2>5. MetricsAddUp'
    BY <2>1, <2>2, <2>4 DEF MetricsAddUp, Running
  <2> QED
    BY <1>3, <2>2, <2>3, <2>5
<1>5. CASE c \notin Running
  <2>1. Running' = Running
    BY <1>3, <1>5
  <2>2. /\ UNCHANGED <<active, total, successful, failed, dropped, calls>>
        /\ rejected' \in Nat
    BY <1>1, <1>5 DEF WaitTimesOut, Finish, Cancel, Running, At, TypeOK
  <2>3. MetricsAddUp'
    BY <2>1, <2>2 DEF MetricsAddUp, Running, BulkheadInv
  <2> QED
    BY <1>1, <1>3, <2>2, <2>3 DEF TypeOK
<1> QED
  BY <1>4, <1>5

(* Every step is a Change that keeps the invariant.                        *)
LEMMA NextKeeps ==
  ASSUME BulkheadInv, [Next]_vars
  PROVE  Change /\ BulkheadInv'
<1>1. CASE UNCHANGED vars
  <2>1. Same /\ Running' = Running
    BY <1>1 DEF vars, Same, Owners, Running, At
  <2>2. Change /\ PermitsConserved'
    BY <2>1, ChangeConserves DEF Change, PermitsConserved
  <2> QED
    BY <1>1, <2>1, <2>2 DEF vars, metrics, BulkheadInv, TypeOK, MetricsAddUp, Running
<1>2. ASSUME NEW c \in Callers, Execute(c) \/ Ask(c) \/ Resume(c)
      PROVE  Change /\ BulkheadInv'
  <2>1. /\ Change /\ Running' = Running
        /\ pc' \in [Callers -> {"idle", "asking", "queued", "granted",
                                "acquired", "running"}]
        /\ before' \subseteq Callers \X Callers
        /\ metrics' = metrics /\ dropped' = dropped /\ calls' \in Nat
    BY <1>2, WaitingSteps
  <2>2. value' \in Nat /\ PermitsConserved'
    BY <2>1, ChangeConserves DEF PermitsConserved
  <2> QED
    BY <2>1, <2>2 DEF BulkheadInv, TypeOK, MetricsAddUp, metrics, Running
<1>3. ASSUME NEW c \in Callers, Enter(c)
      PROVE  Change /\ BulkheadInv'
  <2>1. /\ Change /\ MetricsAddUp'
        /\ pc' \in [Callers -> {"idle", "asking", "queued", "granted",
                                "acquired", "running"}]
        /\ before' = before /\ active' \in Nat /\ total' \in Nat
        /\ UNCHANGED <<successful, failed, rejected, calls, dropped>>
    BY <1>3, EnterStep
  <2>2. value' \in Nat /\ PermitsConserved'
    BY <2>1, ChangeConserves DEF PermitsConserved
  <2> QED
    BY <2>1, <2>2 DEF BulkheadInv, TypeOK
<1>4. ASSUME NEW c \in Callers, WaitTimesOut(c) \/ Finish(c) \/ Cancel(c)
      PROVE  Change /\ BulkheadInv'
  <2>1. /\ Change /\ MetricsAddUp'
        /\ pc' \in [Callers -> {"idle", "asking", "queued", "granted",
                                "acquired", "running"}]
        /\ before' \subseteq Callers \X Callers
        /\ active' \in Nat /\ total' \in Nat /\ successful' \in Nat
        /\ failed' \in Nat /\ rejected' \in Nat /\ dropped' \in Nat
        /\ calls' = calls
    BY <1>4, LeavingSteps
  <2>2. value' \in Nat /\ PermitsConserved'
    BY <2>1, ChangeConserves DEF PermitsConserved
  <2> QED
    BY <2>1, <2>2 DEF BulkheadInv, TypeOK
<1> QED
  BY <1>1, <1>2, <1>3, <1>4 DEF Next

(* No interleaving of grants, timeouts and cancellations loses or makes up *)
(* a permit, and the statistics agree with the calls there are.            *)
THEOREM BulkheadCorrect == Spec => [](TypeOK /\ Conserved)
<1>1. BulkheadInv /\ [Next]_vars => BulkheadInv'
  BY NextKeeps
<1> QED
  BY InitInv, <1>1, PTL DEF Spec, BulkheadInv, Conserved

(* The bulkhead implements Isolation: every step of its callers lets one   *)
(* call in, one out, or hands one permit from one call to another.         *)
THEOREM BulkheadIsolates == Spec => Isolates
<1>1. Init => Owners = {} /\ value = Max
  BY DEF Init, Owners
<1>2. ASSUME Change PROVE [Promise!IsolationNext]_<<Owners, value>>
  BY <1>2 DEF Change, Same, Departs, Joins, Passes, Promise!IsolationNext,
              Promise!LetIn, Promise!LetOut, Promise!Replace
<1>3. BulkheadInv /\ [Next]_vars
        => BulkheadInv' /\ [Promise!IsolationNext]_<<Owners, value>>
  BY <1>2, NextKeeps
<1> QED
  BY InitInv, <1>1, <1>3, PTL DEF Spec, Isolates, Promise!IsolationSpec

-----------------------------------------------------------------------------
(* The breaker: its lock and where its callers are.                        *)
PCs == {"idle", "entering", "calling", "succeeded", "failed", "stuck"}
BreakerInv == /\ where \in [BreakerCallers -> PCs] /\ lock \in BreakerCallers \cup {Free}
       /\ NeverOpens /\ StuckAtThreshold

(* Closed, the gate lets every caller through and leaves the state alone.  *)
LEMMA GateClosed ==
  ASSUME NeverOpens, NEW c \in BreakerCallers, Gate(c)
  PROVE  NeverOpens' /\ Goto(c, "calling") /\ UNCHANGED <<history, lock>>
BY DEF Gate, NeverOpens

(* A recording either leaves, or stays with the lock at the threshold.     *)
LEMMA RecordingKeeps ==
  ASSUME BreakerInv, NEW c \in BreakerCallers, RecordSuccess(c) \/ RecordFailure(c)
  PROVE  BreakerInv'
<1>1. NeverOpens' /\ lock = Free
  BY DEF BreakerInv, RecordSuccess, RecordFailure, NeverOpens
<1>2. \A d \in BreakerCallers : where[d] # "stuck"
  BY <1>1, FreeIsNoCaller DEF BreakerInv, StuckAtThreshold
<1>3. \/ lock' = Free /\ where' = [where EXCEPT ![c] = "idle"]
      \/ /\ lock' = c /\ where' = [where EXCEPT ![c] = "stuck"]
         /\ Count(history', FALSE) >= FailureThreshold
  BY <1>1 DEF RecordSuccess, RecordFailure, RecordEnds, Goto, BreakerInv, NeverOpens
<1>4. StuckAtThreshold'
  BY <1>2, <1>3, FreeIsNoCaller DEF StuckAtThreshold, FailuresInWindow, BreakerInv
<1> QED
  BY <1>1, <1>3, <1>4 DEF BreakerInv, PCs

(* The other steps neither take the lock nor touch the window.             *)
LEMMA OthersKeep ==
  ASSUME BreakerInv, NEW c \in BreakerCallers, Call(c) \/ PassGate(c) \/ Return(c) \/ CancelCall(c)
  PROVE  BreakerInv'
<1>1. NeverOpens' /\ history' = history
  BY GateClosed DEF BreakerInv, Call, PassGate, Return, CancelCall, NeverOpens
<1>2. CASE Call(c) \/ PassGate(c) \/ Return(c)
  <2>1. /\ lock' = lock /\ where[c] # "stuck"
        /\ \E p \in PCs \ {"stuck"} : where' = [where EXCEPT ![c] = p]
    BY <1>2, GateClosed DEF BreakerInv, Call, PassGate, Return, Goto, PCs
  <2>2. StuckAtThreshold'
    BY <1>1, <2>1 DEF BreakerInv, StuckAtThreshold, FailuresInWindow
  <2> QED
    BY <1>1, <2>1, <2>2 DEF BreakerInv
<1>3. CASE CancelCall(c)
  <2>1. /\ lock' = IF lock = c THEN Free ELSE lock
        /\ where' = [where EXCEPT ![c] = "idle"]
    BY <1>3 DEF CancelCall, Goto
  <2>2. StuckAtThreshold'
    BY <1>1, <2>1, FreeIsNoCaller DEF BreakerInv, StuckAtThreshold, FailuresInWindow
  <2> QED
    BY <1>1, <2>1, <2>2 DEF BreakerInv, PCs
<1> QED
  BY <1>2, <1>3

LEMMA BreakerInvariant == BreakerSpec => []BreakerInv
<1>1. BreakerInit => BreakerInv
  BY FreeIsNoCaller DEF BreakerInit, BreakerInv, NeverOpens, StuckAtThreshold, PCs
<1>2. ASSUME BreakerInv, [BreakerNext]_breakerVars PROVE BreakerInv'
  <2>1. CASE UNCHANGED breakerVars
    BY <1>2, <2>1 DEF breakerVars, BreakerInv, NeverOpens, StuckAtThreshold, FailuresInWindow
  <2>2. ASSUME NEW c \in BreakerCallers, RecordSuccess(c) \/ RecordFailure(c) PROVE BreakerInv'
    BY <1>2, <2>2, RecordingKeeps
  <2>3. ASSUME NEW c \in BreakerCallers, Call(c) \/ PassGate(c) \/ Return(c) \/ CancelCall(c)
        PROVE BreakerInv'
    BY <1>2, <2>3, OthersKeep
  <2> QED
    BY <1>2, <2>1, <2>2, <2>3 DEF BreakerNext
<1> QED
  BY <1>1, <1>2, PTL DEF BreakerSpec

(* However many calls fail, the breaker stays closed and rejects no call,  *)
(* and the lock is held exactly by a caller stuck at the threshold.        *)
THEOREM BreakerNeverOpens == BreakerSpec => []BreakerHolds
BY BreakerInvariant, PTL DEF BreakerInv, BreakerHolds

-----------------------------------------------------------------------------
(* What the two promise about those who wait.                              *)

(* A permit free beside a waiter is always on its way to one: taking,      *)
(* giving back and timing out keep it so.                                  *)
LEMMA PermitMoves ==
  ASSUME TypeOK, NoIdlePermit, [Next]_vars
  PROVE  NoIdlePermit'
<1> USE DEF TypeOK, NoIdlePermit, Queued, Granted, At
<1>1. CASE UNCHANGED vars
  BY <1>1 DEF vars
<1>2. ASSUME NEW c \in Callers, NEW p \in {"idle"}, GiveBack(c, p), c \notin Queued
      PROVE  NoIdlePermit'
  <2>1. CASE Queued \ {c} = {} /\ pc' = [pc EXCEPT ![c] = p]
    BY <1>2, <2>1
  <2>2. ASSUME NEW d \in Queued \ {c}, pc' = [pc EXCEPT ![c] = p, ![d] = "granted"]
        PROVE  NoIdlePermit'
    BY <2>2
  <2> QED
    BY <1>2, <2>1, <2>2 DEF GiveBack
<1>3. ASSUME NEW c \in Callers, Execute(c) \/ Enter(c)
      PROVE  NoIdlePermit'
  BY <1>3 DEF Execute, Enter
<1>4. ASSUME NEW c \in Callers, Ask(c)
      PROVE  NoIdlePermit'
  BY <1>4 DEF Ask, Locked
<1>5. ASSUME NEW c \in Callers, Resume(c)
      PROVE  NoIdlePermit'
  <2>1. CASE (value = 0 \/ Queued = {}) /\ pc' = [pc EXCEPT ![c] = "acquired"] /\ value' = value
    BY <1>5, <2>1 DEF Resume
  <2>2. ASSUME NEW d \in Queued, pc' = [pc EXCEPT ![c] = "acquired", ![d] = "granted"]
        PROVE  NoIdlePermit'
    BY <1>5, <2>2 DEF Resume
  <2> QED
    BY <1>5, <2>1, <2>2 DEF Resume
<1>6. ASSUME NEW c \in Callers, pc[c] \in {"asking", "queued"},
             pc' = [pc EXCEPT ![c] = "idle"], value' = value
      PROVE  NoIdlePermit'
  BY <1>6
<1>7. ASSUME NEW c \in Callers, WaitTimesOut(c) \/ Finish(c) \/ Cancel(c)
      PROVE  NoIdlePermit'
  BY <1>2, <1>6, <1>7 DEF WaitTimesOut, Finish, Cancel
<1> QED
  BY <1>1, <1>3, <1>4, <1>5, <1>7 DEF Next

(* Whoever is granted a permit has nobody before it in the queue.          *)
LEMMA GrantsInOrder ==
  ASSUME TypeOK, [Next]_vars, NEW c \in Queued, NEW d \in Queued,
         <<c, d>> \in before, pc'[d] = "granted"
  PROVE  pc'[c] # "queued"
<1> USE DEF TypeOK, Queued, At
<1>1. IsNext(d)
  <2>1. CASE UNCHANGED vars
    BY <2>1 DEF vars
  <2>2. ASSUME NEW b \in Callers, NEW p \in {"idle"}, GiveBack(b, p) PROVE IsNext(d)
    BY <2>2 DEF GiveBack
  <2>3. ASSUME NEW b \in Callers, Execute(b) \/ Enter(b) \/ Ask(b) \/ Resume(b)
        PROVE  IsNext(d)
    BY <2>3 DEF Execute, Enter, Ask, Resume
  <2>4. ASSUME NEW b \in Callers, WaitTimesOut(b) \/ Finish(b) \/ Cancel(b)
        PROVE  IsNext(d)
    BY <2>2, <2>4 DEF WaitTimesOut, Finish, Cancel
  <2> QED
    BY <2>1, <2>3, <2>4 DEF Next
<1> QED
  BY <1>1 DEF IsNext

(* A permit goes from one call to the next without pause and in order of   *)
(* arrival.                                                                *)
THEOREM PermitsHandedOver == Spec => HandOver
<1>1. Init => NoIdlePermit
  BY DEF Init, NoIdlePermit, Queued, At
<1>2. ASSUME BulkheadInv, NoIdlePermit, [Next]_vars
      PROVE  /\ BulkheadInv' /\ NoIdlePermit'
             /\ \A c, d \in Queued :
                  <<c, d>> \in before /\ pc'[d] = "granted" => pc'[c] # "queued"
  BY <1>2, NextKeeps, PermitMoves, GrantsInOrder DEF BulkheadInv
<1> QED
  BY InitInv, <1>1, <1>2, PTL DEF Spec, HandOver

(* The caller that is stuck has the lock, and entering or recording needs  *)
(* it free: no call of any other enters or completes.                      *)
THEOREM NothingPasses == BreakerSpec => NothingPassesStuck
<1> DEFINE Blocked == \A c, d \in BreakerCallers :
             where[c] = "stuck" /\ where'[c] = "stuck" =>
               /\ history' = history
               /\ where[d] = "entering" => where'[d] # "calling"
<1>1. ASSUME BreakerInv, [BreakerNext]_breakerVars PROVE Blocked
  <2> SUFFICES ASSUME NEW c \in BreakerCallers, NEW d \in BreakerCallers,
                      where[c] = "stuck"
               PROVE  history' = history /\ (where[d] = "entering" => where'[d] # "calling")
    OBVIOUS
  <2>1. lock # Free
    BY <1>1, FreeIsNoCaller DEF BreakerInv, StuckAtThreshold
  <2>2. CASE UNCHANGED breakerVars
    BY <2>2 DEF breakerVars
  <2>3. ASSUME NEW e \in BreakerCallers, Call(e) \/ Return(e) \/ CancelCall(e)
        PROVE  history' = history /\ (where[d] = "entering" => where'[d] # "calling")
    BY <1>1, <2>3 DEF Call, Return, CancelCall, Goto, BreakerInv
  <2> QED
    BY <1>1, <2>1, <2>2, <2>3 DEF BreakerNext, PassGate, RecordSuccess, RecordFailure
<1>2. BreakerInv /\ [BreakerNext]_breakerVars => [Blocked]_breakerVars
  BY <1>1
<1> QED
  BY BreakerInvariant, <1>2, PTL DEF BreakerSpec, NothingPassesStuck


-----------------------------------------------------------------------------
(* 2 ** attempt, as the recursion computes it.                             *)
LEMMA DoubledDef == /\ Doubled \in [Nat -> Nat] /\ Doubled[0] = 1
                    /\ \A n \in Nat : Doubled[n + 1] = 2 * Doubled[n]
<1> DEFINE Is(d) == d = [n \in Nat |-> IF n = 0 THEN 1 ELSE 2 * d[n - 1]]
           twice == [v \in Nat |-> 2 * v]
<1>1. PICK f \in [Nat -> Nat] : f[0] = 1 /\ \A n \in Nat : f[n + 1] = twice[f[n]]
  <2> DEFINE V == Nat
             b == 1
  <2>1. twice \in [V -> V] /\ b \in V
    OBVIOUS
  <2> HIDE DEF twice, V, b
  <2>2. \E f \in [Nat -> V] : f[0] = b /\ \A n \in Nat : f[n + 1] = twice[f[n]]
    BY <2>1, Recursion
  <2> QED BY <2>2 DEF V, b
<1>2. Is(f)
  <2>1. ASSUME NEW n \in Nat PROVE f[n] = IF n = 0 THEN 1 ELSE 2 * f[n - 1]
    <3>1. CASE n = 0
      BY <1>1, <3>1
    <3>2. CASE n # 0
      <4>1. n - 1 \in Nat /\ (n - 1) + 1 = n
        BY <3>2
      <4>2. f[(n-1)+1] = 2 * f[n - 1]
        BY <1>1, <4>1
      <4> QED
        BY <3>2, <4>1, <4>2
    <3> QED BY <3>1, <3>2
  <2> QED
    BY <2>1
<1>3. Is(Doubled)
  BY <1>2 DEF Doubled
<1>4. Doubled[0] = 1 /\ \A n \in Nat : Doubled[n + 1] = 2 * Doubled[n]
  <2> HIDE DEF Doubled
  <2>1. \A n \in Nat : Doubled[n] = IF n = 0 THEN 1 ELSE 2 * Doubled[n - 1]
    BY <1>3
  <2> QED BY <2>1
<1>5. Doubled \in [Nat -> Nat]
  <2> DEFINE S == {n \in Nat : Doubled[n] \in Nat}
  <2>1. S \in SUBSET Nat /\ 0 \in S /\ \A n \in S : n + 1 \in S
    BY <1>4
  <2>2. S = Nat
    <3> HIDE DEF S
    <3> QED BY <2>1, SetInduction
  <2>3. Doubled = [n \in Nat |-> Doubled[n]]
    BY <1>3
  <2> QED
    BY <2>2, <2>3
<1> QED
  BY <1>4, <1>5

-----------------------------------------------------------------------------
(* The handler: what its invariant says of one call, to be shown for the   *)
(* one that moves.                                                         *)
HoldsFor(r) ==
  /\ handling[r] \in HandlerPlaces /\ attempt[r] \in 0..MaxRetries
  /\ ran[r] \in Nat /\ slept[r] \in Nat
  /\ answer[r] \in {"none", "awaited", "fallback"}
  /\ attempt[r] <= MaxRetries /\ ran[r] <= attempt[r] + 1
  /\ handling[r] \in {"falling back", "raised"} \/ answer[r] = "fallback" => attempt[r] = MaxRetries
  /\ handling[r] \in {"attempting", "awaiting", "sleeping"} => slept[r] = Doubled[attempt[r]] - 1
  /\ handling[r] \in {"falling back", "raised"} /\ MaxRetries > 0
       => slept[r] = Doubled[MaxRetries - 1] - 1
  /\ Standing(r)

LEMMA HoldsForEach ==
  ASSUME /\ handling = [r \in Handled |-> handling[r]]
         /\ attempt = [r \in Handled |-> attempt[r]]
         /\ ran = [r \in Handled |-> ran[r]] /\ slept = [r \in Handled |-> slept[r]]
         /\ answer = [r \in Handled |-> answer[r]],
         \A r \in Handled : HoldsFor(r)
  PROVE  HandlerInv
BY DEF HandlerInv, HoldsFor, RetriesHold, HandlerTypeOK

LEMMA InitHandler == HandlerInit => HandlerInv
<1> SUFFICES ASSUME HandlerInit PROVE HandlerInv
  OBVIOUS
<1>1. ASSUME NEW r \in Handled PROVE HoldsFor(r)
  <2>1. /\ handling[r] = "idle" /\ attempt[r] = 0 /\ ran[r] = 0
        /\ slept[r] = 0 /\ answer[r] = "none"
    BY DEF HandlerInit
  <2> QED
    BY <2>1, ResilienceAssumption
    DEF HoldsFor, Standing, HandlerPlaces, ResilienceAssumption
<1> QED
  BY <1>1, HoldsForEach DEF HandlerInit

(* A step moves one call; the others stand where they stood.               *)
LEMMA OneMoves ==
  ASSUME HandlerInv, NEW r \in Handled,
         handling' = [handling EXCEPT ![r] = handling'[r]],
         attempt' = [attempt EXCEPT ![r] = attempt'[r]],
         ran' = [ran EXCEPT ![r] = ran'[r]],
         slept' = [slept EXCEPT ![r] = slept'[r]],
         answer' = [answer EXCEPT ![r] = answer'[r]],
         HoldsFor(r)'
  PROVE  HandlerInv'
<1>1. \A q \in Handled : HoldsFor(q)
  BY DEF HandlerInv, HoldsFor, RetriesHold, HandlerTypeOK
<1>2. ASSUME NEW q \in Handled PROVE HoldsFor(q)'
  <2>1. CASE q # r
    <3>1. /\ handling'[q] = handling[q] /\ attempt'[q] = attempt[q]
          /\ ran'[q] = ran[q] /\ slept'[q] = slept[q] /\ answer'[q] = answer[q]
      BY <2>1 DEF HandlerInv, HandlerTypeOK
    <3> QED
      BY <1>1, <3>1 DEF HoldsFor, Standing
  <2> QED
    BY <2>1
<1>3. /\ handling' = [q \in Handled |-> handling'[q]]
      /\ attempt' = [q \in Handled |-> attempt'[q]]
      /\ ran' = [q \in Handled |-> ran'[q]] /\ slept' = [q \in Handled |-> slept'[q]]
      /\ answer' = [q \in Handled |-> answer'[q]]
  BY DEF HandlerInv, HandlerTypeOK
<1> QED
  BY <1>2, <1>3 DEF HandlerInv, HoldsFor, RetriesHold, HandlerTypeOK

(* A failed attempt sleeps, with the delays so far doubled and one more,   *)
(* or was the last one.                                                    *)
LEMMA FailMoves ==
  ASSUME HandlerInv, NEW r \in Handled, Fail(r),
         handling[r] \in {"attempting", "awaiting"},
         \/ ran' = ran /\ ran[r] <= attempt[r] + 1
         \/ ran' = [ran EXCEPT ![r] = @ + 1] /\ ran[r] <= attempt[r],
         answer' = answer
  PROVE  HandlerInv'
<1>1. /\ attempt[r] < MaxRetries /\ answer[r] = "none"
      /\ attempt[r] \in Nat /\ MaxRetries \in Nat /\ slept[r] \in Nat
      /\ slept[r] = Doubled[attempt[r]] - 1
  <2>1. HoldsFor(r)
    BY DEF HandlerInv, HoldsFor, RetriesHold, HandlerTypeOK
  <2>2. attempt[r] < MaxRetries /\ slept[r] = Doubled[attempt[r]] - 1
    BY <2>1 DEF HoldsFor, Standing
  <2>3. answer[r] = "none"
    BY <2>1 DEF HoldsFor, Standing
  <2>4. attempt[r] \in 0..MaxRetries /\ slept[r] \in Nat
    BY DEF HandlerInv, HandlerTypeOK
  <2>5. MaxRetries \in Nat
    BY ResilienceAssumption DEF ResilienceAssumption
  <2> QED
    BY <2>2, <2>3, <2>4, <2>5
<1>2. /\ Doubled[attempt[r]] \in Nat
      /\ Doubled[attempt[r] + 1] = 2 * Doubled[attempt[r]]
  BY <1>1, DoubledDef
<1>3. /\ attempt' = [attempt EXCEPT ![r] = attempt[r] + 1]
      /\ ran'[r] \in Nat /\ ran'[r] <= attempt[r] + 1 /\ answer'[r] = "none"
      /\ ran' = [ran EXCEPT ![r] = ran'[r]] /\ answer' = [answer EXCEPT ![r] = answer'[r]]
  BY <1>1 DEF Fail, HandlerInv, HandlerTypeOK
<1>4. attempt'[r] = attempt[r] + 1 /\ attempt' = [attempt EXCEPT ![r] = attempt'[r]]
  BY <1>3 DEF HandlerInv, HandlerTypeOK
<1>5. CASE attempt[r] + 1 < MaxRetries
  <2>1. /\ handling' = [handling EXCEPT ![r] = "sleeping"]
        /\ slept' = [slept EXCEPT ![r] = slept[r] + Doubled[attempt[r]]]
    BY <1>5 DEF Fail, Move
  <2>2. /\ handling'[r] = "sleeping" /\ handling' = [handling EXCEPT ![r] = handling'[r]]
        /\ slept'[r] = slept[r] + Doubled[attempt[r]]
        /\ slept' = [slept EXCEPT ![r] = slept'[r]]
    BY <2>1 DEF HandlerInv, HandlerTypeOK
  <2>3. slept'[r] = Doubled[attempt'[r]] - 1 /\ slept'[r] \in Nat
    <3>1. slept[r] \in Nat
      BY DEF HandlerInv, HandlerTypeOK
    <3> QED
      BY <1>1, <1>2, <1>4, <2>2, <3>1
  <2>4. HoldsFor(r)'
    <3>1. /\ attempt'[r] \in 0..MaxRetries /\ attempt'[r] < MaxRetries
          /\ ran'[r] <= attempt'[r]
      BY <1>1, <1>3, <1>4, <1>5
    <3> QED
      BY <1>3, <2>2, <2>3, <3>1 DEF HoldsFor, Standing, HandlerPlaces
  <2> QED
    BY <1>3, <1>4, <2>2, <2>4, OneMoves
<1>6. CASE attempt[r] + 1 >= MaxRetries
  <2>0. attempt[r] + 1 = MaxRetries /\ MaxRetries - 1 = attempt[r]
    BY <1>1, <1>6
  <2>1. /\ slept' = slept
        /\ \E p \in {"falling back", "raised"} : handling' = [handling EXCEPT ![r] = p]
    <3>1. slept' = slept /\ GiveUp(r)
      BY <1>1, <2>0 DEF Fail
    <3> QED
      BY <3>1 DEF GiveUp, Move
  <2>2. /\ handling'[r] \in {"falling back", "raised"}
        /\ handling' = [handling EXCEPT ![r] = handling'[r]]
        /\ slept'[r] = slept[r] /\ slept' = [slept EXCEPT ![r] = slept'[r]]
        /\ slept[r] \in Nat
    BY <2>1 DEF HandlerInv, HandlerTypeOK
  <2>3. slept'[r] = Doubled[MaxRetries - 1] - 1
    BY <1>1, <2>0, <2>2
  <2>4. HoldsFor(r)'
    <3>1. /\ attempt'[r] \in 0..MaxRetries /\ attempt'[r] = MaxRetries
          /\ ran'[r] <= attempt'[r] /\ ran'[r] <= attempt'[r] + 1
      BY <1>1, <1>3, <1>4, <2>0
    <3>2. Standing(r)'
      BY <1>3, <2>2, <3>1 DEF Standing
    <3>3. handling'[r] \in HandlerPlaces /\ slept'[r] \in Nat
      BY <2>2 DEF HandlerPlaces
    <3>4. handling'[r] \notin {"attempting", "awaiting", "sleeping"}
      BY <2>2
    <3>5. /\ attempt'[r] <= MaxRetries
          /\ handling'[r] \in {"falling back", "raised"} \/ answer'[r] = "fallback"
               => attempt'[r] = MaxRetries
      BY <1>1, <3>1
    <3>6. answer'[r] # "awaited" /\ answer'[r] \in {"none", "awaited", "fallback"}
      BY <1>3
    <3> QED
      BY <1>3, <2>3, <3>1, <3>2, <3>3, <3>4, <3>5, <3>6 DEF HoldsFor
  <2> QED
    BY <1>3, <1>4, <2>2, <2>4, OneMoves
<1> QED
  BY <1>1, <1>5, <1>6
(* A step that only moves the call.                                        *)
LEMMA PlaceMoves ==
  ASSUME HandlerInv, NEW r \in Handled, NEW p \in HandlerPlaces, Move(r, p),
         UNCHANGED <<attempt, ran, slept, answer>>,
         [handling EXCEPT ![r] = p][r] = p => HoldsFor(r)'
  PROVE  HandlerInv'
<1>1. handling' = [handling EXCEPT ![r] = p] /\ handling'[r] = p
  BY DEF Move, HandlerInv, HandlerTypeOK
<1>2. /\ attempt' = [attempt EXCEPT ![r] = attempt'[r]] /\ ran' = [ran EXCEPT ![r] = ran'[r]]
      /\ slept' = [slept EXCEPT ![r] = slept'[r]] /\ answer' = [answer EXCEPT ![r] = answer'[r]]
  BY DEF HandlerInv, HandlerTypeOK
<1> QED
  BY <1>1, <1>2, OneMoves

LEMMA HandlerNextKeeps ==
  ASSUME HandlerInv, [HandlerNext]_handlerVars PROVE HandlerInv'
<1>1. CASE UNCHANGED handlerVars
  BY <1>1 DEF handlerVars, HandlerInv, HandlerTypeOK, RetriesHold, Standing
<1>2. ASSUME NEW r \in Handled,
             Start(r) \/ Attempt(r) \/ Awaited(r) \/ WakeUp(r) \/ Fallback(r) \/ Abandon(r)
      PROVE  HandlerInv'
  <2>1. HoldsFor(r)
    BY DEF HandlerInv, HoldsFor, RetriesHold, HandlerTypeOK
  <2>2. /\ MaxRetries \in Nat /\ attempt[r] \in Nat /\ ran[r] \in Nat
        /\ \A p : Move(r, p) => handling'[r] = p
    <3>1. MaxRetries \in Nat
      BY ResilienceAssumption DEF ResilienceAssumption
    <3>2. attempt[r] \in Nat /\ ran[r] \in Nat
      BY <3>1 DEF HandlerInv, HandlerTypeOK
    <3>3. \A p : Move(r, p) => handling'[r] = p
      BY DEF Move, HandlerInv, HandlerTypeOK
    <3> QED
      BY <3>1, <3>2, <3>3
  <2>3. CASE Start(r)
    <3>1. /\ handling[r] = "idle" /\ attempt'[r] = 0 /\ ran'[r] = 0 /\ slept'[r] = 0
          /\ answer'[r] = "none" /\ UNCHANGED <<attempt, ran, slept, answer>>
      BY <2>1, <2>3 DEF Start, HoldsFor, Standing
    <3>2. CASE MaxRetries = 0
      <4>1. \/ Move(r, "falling back") /\ handling'[r] = "falling back"
            \/ Move(r, "raised") /\ handling'[r] = "raised"
        BY <2>2, <2>3, <3>2 DEF Start, GiveUp
      <4>2. /\ attempt'[r] \in 0..MaxRetries /\ attempt'[r] = MaxRetries /\ ~ (MaxRetries > 0)
            /\ ran'[r] <= attempt'[r] /\ ran'[r] <= attempt'[r] + 1 /\ attempt'[r] <= MaxRetries
        BY <3>1, <3>2
      <4>3. Standing(r)'
        BY <3>1, <4>1, <4>2 DEF Standing
      <4>4. handling'[r] \in HandlerPlaces
        BY <4>1 DEF HandlerPlaces
      <4>5. ran'[r] \in Nat /\ slept'[r] \in Nat /\ ~ (answer'[r] \in {"awaited", "fallback"})
        BY <3>1
      <4>6. HoldsFor(r)'
        BY <3>1, <4>1, <4>2, <4>3, <4>4, <4>5 DEF HoldsFor
      <4> QED
        BY <3>1, <4>1, <4>6, PlaceMoves DEF HandlerPlaces
    <3>3. CASE MaxRetries # 0
      <4>1. Move(r, "attempting")
        BY <2>3, <3>3 DEF Start
      <4>2. Doubled[0] = 1
        BY DoubledDef
      <4>3. /\ handling'[r] = "attempting" /\ attempt'[r] \in 0..MaxRetries
            /\ attempt'[r] < MaxRetries /\ slept'[r] = Doubled[attempt'[r]] - 1
            /\ ran'[r] <= attempt'[r] /\ ran'[r] <= attempt'[r] + 1 /\ attempt'[r] <= MaxRetries
        BY <2>2, <3>1, <3>3, <4>1, <4>2
      <4>4. Standing(r)'
        BY <3>1, <4>3 DEF Standing
      <4>5. handling'[r] \in HandlerPlaces /\ ran'[r] \in Nat /\ slept'[r] \in Nat
        BY <3>1, <4>3 DEF HandlerPlaces
      <4>6. HoldsFor(r)'
        BY <3>1, <4>3, <4>4, <4>5 DEF HoldsFor
      <4> QED
        BY <3>1, <4>1, <4>6, PlaceMoves DEF HandlerPlaces
    <3> QED
      BY <3>2, <3>3
  <2>4. CASE Attempt(r)
    <3>1. handling[r] = "attempting" /\ ran[r] <= attempt[r] /\ answer' = answer
      BY <2>1, <2>4 DEF Attempt, HoldsFor, Standing
    <3>2. CASE Fail(r)
      <4>1. ran' = ran \/ ran' = [ran EXCEPT ![r] = @ + 1]
        BY <2>4 DEF Attempt, Completed
      <4>2. ran[r] <= attempt[r] + 1
        BY <2>2, <3>1
      <4> QED
        BY <3>1, <3>2, <4>1, <4>2, FailMoves
    <3>3. CASE Move(r, "awaiting") /\ Completed(r) /\ UNCHANGED <<attempt, slept>>
      <4>1. /\ handling'[r] = "awaiting" /\ handling' = [handling EXCEPT ![r] = handling'[r]]
            /\ ran'[r] = ran[r] + 1 /\ ran' = [ran EXCEPT ![r] = ran'[r]]
            /\ attempt' = [attempt EXCEPT ![r] = attempt'[r]]
            /\ slept' = [slept EXCEPT ![r] = slept'[r]]
            /\ answer' = [answer EXCEPT ![r] = answer'[r]]
        BY <3>1, <3>3 DEF Move, Completed, HandlerInv, HandlerTypeOK
      <4>2. HoldsFor(r)'
        BY <2>1, <2>2, <3>1, <3>3, <4>1 DEF HoldsFor, Standing, HandlerPlaces
      <4> QED
        BY <4>1, <4>2, OneMoves
    <3> QED
      BY <2>4, <3>2, <3>3 DEF Attempt
  <2>5. CASE Awaited(r)
    <3>1. /\ handling[r] = "awaiting" /\ ran' = ran
          /\ ran[r] <= attempt[r] + 1 /\ ran[r] > 0 /\ attempt[r] < MaxRetries
      BY <2>1, <2>5 DEF Awaited, HoldsFor, Standing
    <3>2. CASE Fail(r) /\ answer' = answer
      BY <3>1, <3>2, FailMoves
    <3>3. CASE /\ Move(r, "returned") /\ answer' = [answer EXCEPT ![r] = "awaited"]
               /\ UNCHANGED <<attempt, slept>>
      <4>1. /\ handling'[r] = "returned" /\ handling' = [handling EXCEPT ![r] = handling'[r]]
            /\ answer'[r] = "awaited" /\ answer' = [answer EXCEPT ![r] = answer'[r]]
            /\ attempt' = [attempt EXCEPT ![r] = attempt'[r]]
            /\ slept' = [slept EXCEPT ![r] = slept'[r]] /\ ran' = [ran EXCEPT ![r] = ran'[r]]
        BY <3>1, <3>3 DEF Move, HandlerInv, HandlerTypeOK
      <4>2. HoldsFor(r)'
        BY <2>1, <2>2, <3>1, <3>3, <4>1 DEF HoldsFor, Standing, HandlerPlaces
      <4> QED
        BY <4>1, <4>2, OneMoves
    <3> QED
      BY <2>5, <3>2, <3>3 DEF Awaited
  <2>6. CASE WakeUp(r)
    <3>1. /\ handling[r] = "sleeping" /\ Move(r, "attempting")
          /\ UNCHANGED <<attempt, ran, slept, answer>>
      BY <2>6 DEF WakeUp
    <3>2. HoldsFor(r)'
      BY <2>1, <2>2, <3>1 DEF HoldsFor, Standing, HandlerPlaces
    <3> QED
      BY <3>1, <3>2, PlaceMoves DEF HandlerPlaces
  <2>7. CASE Fallback(r)
    <3>1. /\ handling[r] = "falling back" /\ answer[r] = "none" /\ attempt[r] = MaxRetries
          /\ UNCHANGED <<attempt, ran, slept>>
      BY <2>1, <2>7 DEF Fallback, HoldsFor, Standing
    <3>2. CASE Move(r, "raised") /\ UNCHANGED answer
      <4>1. HoldsFor(r)'
        BY <2>1, <2>2, <3>1, <3>2 DEF HoldsFor, Standing, HandlerPlaces
      <4> QED
        BY <3>1, <3>2, <4>1, PlaceMoves DEF HandlerPlaces
    <3>3. CASE Move(r, "returned") /\ answer' = [answer EXCEPT ![r] = "fallback"]
      <4>1. /\ handling'[r] = "returned" /\ handling' = [handling EXCEPT ![r] = handling'[r]]
            /\ answer'[r] = "fallback" /\ answer' = [answer EXCEPT ![r] = answer'[r]]
            /\ attempt' = [attempt EXCEPT ![r] = attempt'[r]]
            /\ slept' = [slept EXCEPT ![r] = slept'[r]] /\ ran' = [ran EXCEPT ![r] = ran'[r]]
        BY <3>1, <3>3 DEF Move, HandlerInv, HandlerTypeOK
      <4>2. HoldsFor(r)'
        BY <2>1, <2>2, <3>1, <3>3, <4>1 DEF HoldsFor, Standing, HandlerPlaces
      <4> QED
        BY <4>1, <4>2, OneMoves
    <3> QED
      BY <2>7, <3>2, <3>3 DEF Fallback
  <2>8. CASE Abandon(r)
    <3>1. /\ handling[r] \notin {"idle", "returned", "raised", "cancelled"}
          /\ Move(r, "cancelled") /\ UNCHANGED <<attempt, ran, slept, answer>>
      BY <2>8 DEF Abandon
    <3>2. answer[r] = "none"
      BY <2>1, <3>1 DEF HoldsFor, Standing
    <3>3. HoldsFor(r)'
      BY <2>1, <2>2, <3>1, <3>2 DEF HoldsFor, Standing, HandlerPlaces
    <3> QED
      BY <3>1, <3>3, PlaceMoves DEF HandlerPlaces
  <2> QED
    BY <1>2, <2>3, <2>4, <2>5, <2>6, <2>7, <2>8
<1> QED
  BY <1>1, <1>2 DEF HandlerNext

-----------------------------------------------------------------------------
(* Each of the three specifications is what a behaviour of the whole says  *)
(* of its own variables, so what was proved of each holds of the whole.    *)
LEMMA PatternsBelow ==
  ResilienceSpec => Spec /\ BreakerSpec /\ HandlerInit /\ [][HandlerNext]_handlerVars
<1>1. ResilienceInit => Init /\ BreakerInit /\ HandlerInit
  BY DEF ResilienceInit
<1>2. [ResilienceNext]_resilienceVars => [Next]_vars
  BY DEF ResilienceNext, resilienceVars, BulkheadUsed, BreakerUsed, HandlerUsed
<1>3. [ResilienceNext]_resilienceVars => [BreakerNext]_breakerVars
  BY DEF ResilienceNext, resilienceVars, BulkheadUsed, BreakerUsed, HandlerUsed
<1>4. [ResilienceNext]_resilienceVars => [HandlerNext]_handlerVars
  BY DEF ResilienceNext, resilienceVars, BulkheadUsed, BreakerUsed, HandlerUsed
<1> QED
  BY <1>1, <1>2, <1>3, <1>4, PTL DEF ResilienceSpec, Spec, BreakerSpec

(* Every bulkhead of the whole keeps its permits: none is made, lost or    *)
(* handed to two callers, and only acquirers and active calls hold them.   *)
THEOREM PatternsConserve == ResilienceSpec => []Conserved
  BY PatternsBelow, BulkheadCorrect, PTL

(* Every variable of a bulkhead keeps its type: its semaphore never counts *)
(* below zero or above the limit, and its statistics are numbers.          *)
THEOREM PatternsTyped == ResilienceSpec => []TypeOK
  BY PatternsBelow, BulkheadCorrect, PTL

(* And it implements Isolation there too: every step lets one call in, one *)
(* out, or hands one permit from one call to another.                      *)
THEOREM PatternsIsolate == ResilienceSpec => Isolates
  BY PatternsBelow, BulkheadIsolates, PTL

(* No breaker of the whole leaves its closed state, however many of its    *)
(* calls fail: the one that should open it is stuck with the lock held.    *)
THEOREM PatternsBreakerHolds == ResilienceSpec => []BreakerHolds
  BY PatternsBelow, BreakerNeverOpens, PTL

(* A call's retries, its delays and what it returns are those of the loop, *)
(* for any number of attempts: the delays double, there is one between any *)
(* two attempts, and only what was awaited is returned as a result.        *)
THEOREM RetriesCorrect == ResilienceSpec => []RetriesHold
<1>1. HandlerInit /\ [][HandlerNext]_handlerVars => []HandlerInv
  BY InitHandler, HandlerNextKeeps, PTL
<1>2. HandlerInv => RetriesHold
  BY DEF HandlerInv
<1> QED
  BY <1>1, <1>2, PatternsBelow, PTL

(* Nobody passes one who waits, for a permit or behind a stuck breaker.    *)
THEOREM NobodyIsPassed == ResilienceSpec => NobodyPasses
<1>1. ResilienceSpec => HandOver
  BY PatternsBelow, PermitsHandedOver, PTL
<1>2. ResilienceSpec => NothingPassesStuck
  BY PatternsBelow, NothingPasses, PTL
<1> QED
  BY <1>1, <1>2 DEF NobodyPasses
=============================================================================
