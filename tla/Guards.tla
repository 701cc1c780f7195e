------------------------------- MODULE Guards -------------------------------
(***************************************************************************)
(* What stands between a caller and the engine: the managers of limits and *)
(* quotas and the middleware of Requests, the users, roles, tokens, audit  *)
(* log, consents and settings of Security, and the MultiTierCache.         *)
(*                                                                         *)
(* No code of the repository calls one of them from another, and they      *)
(* share no state: it is enough to look at behaviours in which one of them *)
(* is used, and `guard` says which.                                        *)
(***************************************************************************)
EXTENDS Requests, Security, MultiTierCache

VARIABLE guard  \* the guard in use

complianceVars == <<consentVars, statusVars, configVars>>
guardsVars     == <<guard, limitVars, securityVars, requestVars, complianceVars, vars>>

GuardsInit ==
  /\ LimitsInit /\ SecurityInit /\ RequestsInit /\ ComplianceInit /\ Init
  /\ guard \in {"limits", "quotas", "access", "requests", "consents", "status", "config", "cache"}
  \* what the guards that are not used begin with does not matter
  /\ guard # "access" => zone = CHOOSE z \in West \cup {-e : e \in East} : TRUE
  /\ guard # "cache" => coherence = CHOOSE p \in Protocols : TRUE

LimitsUsed ==
  /\ \/ guard = "limits" /\ LimitsNext
     \/ guard = "quotas" /\ QuotaNext
  /\ UNCHANGED <<guard, securityVars, requestVars, complianceVars, vars>>

AccessUsed ==
  /\ guard = "access" /\ SecurityNext
  /\ UNCHANGED <<guard, limitVars, requestVars, complianceVars, vars>>

RequestsServed ==
  /\ guard = "requests" /\ RequestsNext
  /\ UNCHANGED <<guard, limitVars, securityVars, complianceVars, vars>>

ComplianceUsed ==
  /\ \/ guard = "consents" /\ ConsentNext /\ UNCHANGED <<statusVars, configVars>>
     \/ guard = "status"   /\ StatusNext  /\ UNCHANGED <<consentVars, configVars>>
     \/ guard = "config"   /\ ConfigNext  /\ UNCHANGED <<consentVars, statusVars>>
  /\ UNCHANGED <<guard, limitVars, securityVars, requestVars, vars>>

CacheUsed ==
  /\ guard = "cache" /\ Next
  /\ UNCHANGED <<guard, limitVars, securityVars, requestVars, complianceVars>>

GuardsNext == LimitsUsed \/ AccessUsed \/ RequestsServed \/ ComplianceUsed \/ CacheUsed

(* Fair to the cache's write-back, as MultiTierCache says.                 *)
GuardsSpec == GuardsInit /\ [][GuardsNext]_guardsVars /\ WriteBackFair

-----------------------------------------------------------------------------
(* The shape of the state.                                                 *)
GuardsTypeOK == SecurityTypeOK /\ RequestsTypeOK /\ ComplianceTypeOK /\ TypeOK

(* Every limit of the engine bounds what it lets through in every span of  *)
(* time, wherever that starts: bucket, sliding window, both together,      *)
(* quotas, and the limits of the middleware.                               *)
LimitsHold ==
  /\ BucketEnvelope /\ MinuteEnvelope /\ AcceptedWithinBoth /\ LongRun
  /\ RequestsHold

(* As stated in Security: what is looked up is there, and what was         *)
(* recorded is still found.                                                *)
AccessConsistent == RolesExist /\ TrailUnbroken /\ RevocationsHold /\ SecretsShadow

(* As stated in Security: a refused token comes back in no other case than *)
(* those named there, a consent that ended does not, and the percentage    *)
(* does not fall for a requirement that is met.                            *)
NothingRevived == [][RefusedForGood /\ ConsentNotRevived /\ OverallGrows]_guardsVars

(* Kept by every step.                                                     *)
GuardsInv == LimitsInv /\ SecurityInv /\ RequestsInv /\ ComplianceInv /\ CacheInv
=============================================================================
