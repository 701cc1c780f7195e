----------------------------- MODULE Deployment -----------------------------
(***************************************************************************)
(* DeploymentPipeline, DeploymentMonitor and CanaryDeployment of           *)
(* core/infrastructure/deployment/pipeline.py.                             *)
(*                                                                         *)
(* Each holds its RLock for the whole of a call, the commands of an        *)
(* execution included: a call is one step, whatever thread makes it.       *)
(***************************************************************************)
EXTENDS Naturals, SequencesExt, FiniteSetsExt

CONSTANTS
  DeploymentIds,      \* deployment ids
  HealthChecks,       \* names of health checks
  Percentages,        \* what initial_traffic_percentage and increment may be, of 100
  MaxSteps,           \* bound: steps of the pipeline
  MaxDeployments,     \* bound: deployments triggered
  KeptDeployments,    \* maxlen of self.deployments (1000)
  MaxExecutions       \* bound: executions, rollbacks and verifications

ASSUME DeploymentAssumption ==
  /\ Percentages \subseteq Nat
  /\ {MaxSteps, MaxDeployments, MaxExecutions} \subseteq Nat
  /\ KeptDeployments \in Nat \ {0}

VARIABLES
  pipeline,    \* the number of self.steps
  made,        \* every Deployment there has been: of, status, stages
  kept,        \* self.deployments, as positions in made
  current,     \* self.current_deployment, 0 for None
  healthChecks,\* self.health_checks: those that are registered
  verdicts,    \* self.deployment_metrics: deployment, checks that failed, healthy
  canaries,    \* self.active_deployments: the traffic percentage of each
  executions   \* history: executions, rollbacks and verifications so far

deploymentVars == <<pipeline, made, kept, current, healthChecks, verdicts, canaries, executions>>

DeploymentInit ==
  /\ pipeline = 0 /\ made = <<>> /\ kept = <<>> /\ current = 0
  /\ healthChecks = {} /\ verdicts = <<>> /\ canaries = <<>> /\ executions = 0

-----------------------------------------------------------------------------
AddStep ==
  /\ pipeline < MaxSteps /\ pipeline' = pipeline + 1
  /\ UNCHANGED <<made, kept, current, healthChecks, verdicts, canaries, executions>>

(* trigger_deployment: pending, and current from now on. `of` is the       *)
(* deployment that is rolled back, 0 for none.                             *)
Triggered(id, d) == Append(made, [id |-> id, of |-> d, status |-> "pending", stages |-> <<>>])
Noted == LET all == Append(kept, Len(made) + 1)
         IN  IF Len(all) > KeptDeployments THEN Tail(all) ELSE all

Trigger(id) ==
  /\ Len(made) < MaxDeployments
  /\ made' = Triggered(id, 0)
  /\ kept' = Noted
  /\ current' = Len(made) + 1
  /\ UNCHANGED <<pipeline, healthChecks, verdicts, canaries, executions>>

(* execute_deployment when n steps succeed and the next, if there is one,  *)
(* fails: by its return code, its timeout or an exception. The results are *)
(* added to those of an earlier execution, whatever the status was.        *)
Executed(all, d, n) ==
  [all EXCEPT ![d].stages = @ \o [i \in 1..Min({n + 1, pipeline}) |-> i <= n],
              ![d].status = IF n = pipeline THEN "completed" ELSE "failed"]

Execute(d, n) ==
  /\ executions < MaxExecutions /\ executions' = executions + 1
  /\ made' = Executed(made, d, n)
  /\ UNCHANGED <<pipeline, kept, current, healthChecks, verdicts, canaries>>

(* rollback: a deployment of its own, executed at once. Only its success   *)
(* shows in the one rolled back.                                           *)
Rollback(d, n) ==
  /\ executions < MaxExecutions /\ executions' = executions + 1
  /\ Len(made) < MaxDeployments
  /\ LET r == Len(made) + 1
         after == Executed(Triggered(<<made[d].id, "rollback">>, d), r, n)
     IN  made' = IF n = pipeline THEN [after EXCEPT ![d].status = "rolled_back"] ELSE after
  /\ kept' = Noted
  /\ current' = Len(made) + 1
  /\ UNCHANGED <<pipeline, healthChecks, verdicts, canaries>>

-----------------------------------------------------------------------------
RegisterHealthCheck(h) ==
  /\ healthChecks' = healthChecks \cup {h}
  /\ UNCHANGED <<pipeline, made, kept, current, verdicts, canaries, executions>>

(* verify_deployment: a check that raises has failed. It looks at no       *)
(* status, and sets none.                                                  *)
Verify(d, failing) ==
  /\ executions < MaxExecutions /\ executions' = executions + 1
  /\ verdicts' = Append(verdicts, [of |-> d, failing |-> failing, healthy |-> failing = {}])
  /\ UNCHANGED <<pipeline, made, kept, current, healthChecks, canaries>>

(* start_canary takes any percentage, all of the traffic included.         *)
StartCanary(id, p) ==
  /\ canaries' = [c \in DOMAIN canaries \cup {id} |-> IF c = id THEN p ELSE canaries[c]]
  /\ UNCHANGED <<pipeline, made, kept, current, healthChecks, verdicts, executions>>

WithoutCanary(id) == [c \in DOMAIN canaries \ {id} |-> canaries[c]]

(* increment_canary: one that has all the traffic is no longer a canary.   *)
IncrementCanary(id, p) ==
  /\ id \in DOMAIN canaries
  /\ canaries' = IF canaries[id] + p >= 100 THEN WithoutCanary(id)
                 ELSE [canaries EXCEPT ![id] = @ + p]
  /\ UNCHANGED <<pipeline, made, kept, current, healthChecks, verdicts, executions>>

AbortCanary(id) ==
  /\ id \in DOMAIN canaries
  /\ canaries' = WithoutCanary(id)
  /\ UNCHANGED <<pipeline, made, kept, current, healthChecks, verdicts, executions>>

DeploymentNext ==
  \/ AddStep
  \/ \E id \in DeploymentIds :
       \/ Trigger(id) \/ AbortCanary(id)
       \/ \E p \in Percentages : StartCanary(id, p) \/ IncrementCanary(id, p)
  \/ \E d \in DOMAIN made :
       \/ \E n \in 0..pipeline : Execute(d, n) \/ Rollback(d, n)
       \/ \E failing \in SUBSET healthChecks : Verify(d, failing)
  \/ \E h \in HealthChecks : RegisterHealthCheck(h)

-----------------------------------------------------------------------------
DeploymentTypeOK ==
  /\ current = Len(made) /\ Len(kept) <= KeptDeployments
  /\ \A d \in DOMAIN made : made[d].status \in {"pending", "completed", "failed", "rolled_back"}
  /\ DOMAIN canaries \subseteq DeploymentIds

(* However often a deployment is executed and rolled back, no stage runs   *)
(* after a failed one of the same execution: its last stage tells whether  *)
(* it completed, and a rolled-back one has a rollback that was executed.   *)
StatusTellsStages ==
  \A d \in DOMAIN made :
    LET stages == made[d].stages
    IN  /\ made[d].status = "completed" => stages = <<>> \/ Last(stages)
        /\ made[d].status = "failed" => stages # <<>> /\ ~Last(stages)
        /\ made[d].status = "rolled_back" =>
             \E r \in DOMAIN made : made[r].of = d /\ made[r].status # "pending"
=============================================================================
