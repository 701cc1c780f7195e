---------------------------- MODULE MCJobScheduler ----------------------------
(***************************************************************************)
(* Job o runs once, job i every interval and at most twice.  The functions *)
(* of their tasks raise at most once each; that of i is retried.           *)
(***************************************************************************)
EXTENDS JobScheduler

CONSTANTS o, i

TwoJobs  == {o, i}
NoTask   == {}
SameRank == [t \in TwoJobs |-> 1]
Retries  == [t \in TwoJobs |-> IF t = i THEN 1 ELSE 0]
OwnTask  == [j \in TwoJobs |-> j]
Kinds    == [j \in TwoJobs |-> IF j = o THEN "once" ELSE "interval"]
Limits   == [j \in TwoJobs |-> IF j = i THEN 2 ELSE 0]
NotGiven == [j \in TwoJobs |-> "none"]

=============================================================================
