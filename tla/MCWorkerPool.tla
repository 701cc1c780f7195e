---------------------------- MODULE MCWorkerPool ----------------------------
(***************************************************************************)
(* Task a is urgent and has no retry; b may time out, has a coroutine      *)
(* callback, and its function or callback may surface a CancelledError.    *)
(***************************************************************************)
EXTENDS WorkerPool

CONSTANTS a, b

TwoTasks == {a, b}
Urgent   == [t \in TwoTasks |-> IF t = a THEN 1 ELSE 2]
Retries  == [t \in TwoTasks |-> IF t = a THEN 0 ELSE 1]
OnlyB    == {b}
Nobody   == {}

=============================================================================
