------------------------------ MODULE Platform ------------------------------
(***************************************************************************)
(* The components that work for themselves: those that run the engine      *)
(* (Scaling, Deployment, Integrations, Monitoring), those that make its    *)
(* answers (Domain, Learning, Workflows, UseCases), its Stores, its        *)
(* Sockets and its RabbitMQBroker.                                         *)
(*                                                                         *)
(* No code of the repository calls one of them from another, and they      *)
(* share no state: it is enough to look at behaviours in which one of them *)
(* is used, and `part` says which.                                         *)
(***************************************************************************)
EXTENDS Scaling, Deployment, Integrations, Monitoring, Domain, Learning, Workflows,
        UseCases, Stores, Sockets, RabbitMQBroker

VARIABLE part  \* the part in use

operationVars   == <<scalingVars, balancingVars, deploymentVars, integrationVars, monitoringVars>>
intelligenceVars == <<domainVars, learningVars, workflowVars, communicatorVars, useCaseVars>>
storageVars     == <<storeVars, socketVars, rabbitVars>>
platformVars    == <<part, operationVars, intelligenceVars, storageVars>>

PlatformInit ==
  /\ ScalingInit /\ BalancingInit /\ DeploymentInit /\ IntegrationsInit /\ MonitoringInit
  /\ DomainInit /\ LearningInit /\ WorkflowsInit /\ UseCasesInit /\ StoresInit /\ SocketsInit
  /\ RabbitInit
  /\ part \in {"scaling", "balancing", "deployment", "integrations", "health", "metrics",
               "alerts", "engine", "logs", "policy", "records", "confidence", "dates", "money",
               "detector", "market", "series", "predictor", "workflows", "communicator",
               "searches", "services", "local", "redis", "queries", "warming", "sockets", "rabbit"}
  \* what the parts that are not used begin with does not matter
  /\ part # "balancing" => algorithm = CHOOSE a \in Algorithms : TRUE
  /\ part # "workflows" => served = CHOOSE e \in Equipments : TRUE
  /\ part \notin {"searches", "services"} => wrapped = CHOOSE b \in BOOLEAN : TRUE
  /\ part # "rabbit" => enableAck = CHOOSE b \in BOOLEAN : TRUE

OperationUsed ==
  /\ \/ /\ part = "scaling" /\ ScalingNext
        /\ UNCHANGED <<balancingVars, deploymentVars, integrationVars, monitoringVars>>
     \/ /\ part = "balancing" /\ BalancingNext
        /\ UNCHANGED <<scalingVars, deploymentVars, integrationVars, monitoringVars>>
     \/ /\ part = "deployment" /\ DeploymentNext
        /\ UNCHANGED <<scalingVars, balancingVars, integrationVars, monitoringVars>>
     \/ /\ part = "integrations" /\ IntegrationsNext
        /\ UNCHANGED <<scalingVars, balancingVars, deploymentVars, monitoringVars>>
     \/ /\ \/ /\ \/ part = "health"  /\ HealthNext
                 \/ part = "metrics" /\ MetricsNext
                 \/ part = "alerts"  /\ AlertsNext
                 \/ part = "engine"  /\ EngineNext
              /\ UNCHANGED journalVars
           \/ part = "logs" /\ JournalsNext /\ UNCHANGED measuredVars
        /\ UNCHANGED <<scalingVars, balancingVars, deploymentVars, integrationVars>>
  /\ UNCHANGED <<part, intelligenceVars, storageVars>>

ValuesUsed ==
  /\ \/ part = "policy"  /\ PolicyNext  /\ UNCHANGED <<recordVars, valueVars>>
     \/ part = "records" /\ RecordsNext /\ UNCHANGED <<policyVars, valueVars>>
     \/ part = "confidence" /\ Believes /\ UNCHANGED <<policyVars, recordVars>>
     \/ part = "dates" /\ DateMoves     /\ UNCHANGED <<policyVars, recordVars>>
     \/ part = "money" /\ Spends        /\ UNCHANGED <<policyVars, recordVars>>
  /\ UNCHANGED <<part, operationVars, learningVars, workflowVars, communicatorVars, useCaseVars, storageVars>>

LearningUsed ==
  /\ \/ part = "detector"  /\ DetectorNext  /\ UNCHANGED <<marketVars, points, predictorVars>>
     \/ part = "market"    /\ MarketNext    /\ UNCHANGED <<detectorVars, points, predictorVars>>
     \/ part = "series"    /\ SeriesNext    /\ UNCHANGED <<detectorVars, marketVars, predictorVars>>
     \/ part = "predictor" /\ PredictorNext /\ UNCHANGED <<detectorVars, marketVars, points>>
  /\ UNCHANGED <<part, operationVars, domainVars, workflowVars, communicatorVars, useCaseVars, storageVars>>

ApplicationUsed ==
  /\ \/ part = "workflows"    /\ WorkflowsNext    /\ UNCHANGED useCaseVars
     \/ part = "communicator" /\ CommunicatorNext /\ UNCHANGED useCaseVars
     \/ part = "searches"     /\ SearchNext       /\ UNCHANGED <<workflowVars, communicatorVars>>
     \/ part = "services"     /\ OthersNext       /\ UNCHANGED <<workflowVars, communicatorVars>>
  /\ UNCHANGED <<part, operationVars, domainVars, learningVars, storageVars>>

StorageUsed ==
  /\ \/ /\ \/ part = "local"   /\ LocalNext /\ UNCHANGED <<redisVars, queryVars, warmVars>>
           \/ part = "redis"   /\ RedisNext /\ UNCHANGED <<localVars, queryVars, warmVars>>
           \/ part = "queries" /\ QueryNext /\ UNCHANGED <<localVars, redisVars, warmVars>>
           \/ part = "warming" /\ WarmNext  /\ UNCHANGED <<localVars, redisVars, queryVars>>
        /\ UNCHANGED <<socketVars, rabbitVars>>
     \/ part = "sockets" /\ SocketsNext /\ UNCHANGED <<storeVars, rabbitVars>>
     \/ part = "rabbit"  /\ RabbitNext  /\ UNCHANGED <<storeVars, socketVars>>
  /\ UNCHANGED <<part, operationVars, intelligenceVars>>

PlatformNext == OperationUsed \/ ValuesUsed \/ LearningUsed \/ ApplicationUsed \/ StorageUsed

PlatformSpec == PlatformInit /\ [][PlatformNext]_platformVars
-----------------------------------------------------------------------------
(* What follows is asked of the part in use: the variables of the others   *)
(* are as they were in the beginning.                                      *)

(* Every variable of every part has its type.                              *)
PlatformTypeOK ==
  /\ part = "scaling"      => ScalingTypeOK
  /\ part = "balancing"    => BalancingTypeOK
  /\ part = "deployment"   => DeploymentTypeOK
  /\ part = "integrations" => IntegrationsTypeOK
  /\ part \in {"health", "metrics", "alerts", "engine"} => MonitoringTypeOK
  /\ part = "workflows"    => WorkflowsTypeOK
  /\ part \in {"searches", "services"} => UseCasesTypeOK
  /\ part \in {"local", "redis", "queries", "warming"} => StoresTypeOK
  /\ part = "sockets"      => SocketsTypeOK
  /\ part = "rabbit"       => RabbitTypeOK

(* What runs the engine keeps its books: the counts of scaled services     *)
(* agree, round robin is fair, clients leave an instance that is gone, a   *)
(* deployment's status tells its stages, an adapter is active only when it *)
(* connected.                                                              *)
OperationsSound ==
  /\ part = "scaling"      => CountsAgree
  /\ part = "balancing"    => RoundRobinFair /\ StrayMoved
  /\ part = "deployment"   => StatusTellsStages
  /\ part = "integrations" => ActiveIsConnected /\ SecretsNeeded

(* The steps of the orchestrator and of the balancer: a service is scaled  *)
(* once per cooldown and only by its load, a client keeps its instance.    *)
LoadIsServed ==
  [][ /\ part = "scaling"   => OncePerCooldown /\ LoadDecides
      /\ part = "balancing" => StickyKept ]_platformVars

(* What is observed is reported: no check is lost, counters and their      *)
(* series agree, an alert tells the last value, a rule fires after its     *)
(* duration.                                                               *)
ObservedIsReported ==
  /\ part = "health"  => ChecksKept
  /\ part = "metrics" => CounterSeries
  /\ part = "alerts"  => AlertTellsLast
  /\ part = "engine"  => FiresAfterDuration
  /\ part = "logs"    => LogsTellLast

(* The domain's objects and what is learned from data hold together.       *)
KnowledgeSound ==
  /\ part = "policy"   => PolicyLearns
  /\ part = "records"  => RecordsHold
  /\ part \in {"confidence", "dates", "money"} => ValuesHold
  /\ part = "detector" => DetectorKnows
  /\ part = "market"   => MarketAddsUp
  /\ part = "series"   => SeriesHold /\ SeriesMeasured
  /\ part = "predictor" => PredictsFromOwn

(* Workflows, their agents and the use cases answer for what they did.     *)
AnswersSound ==
  /\ part = "workflows"    => ChainsStop /\ ForwardFails /\ MemoryTells
  /\ part = "communicator" => ChannelsComplete
  /\ part = "searches"     => BrowserOwned /\ SearchAnswers
  /\ part = "services"     => ToldIsSaved

(* The stores account for their entries, the sockets' table for the        *)
(* connections, and the broker for its messages.                           *)
StorageSound ==
  /\ part = "local"   => LocalAccounts
  /\ part = "redis"   => TagReaches
  /\ part = "queries" => QueriesBounded
  /\ part = "warming" => WarmingStops
  /\ part = "sockets" => TableTells /\ WalksReach
  /\ part = "rabbit"  => RabbitAccounts
=============================================================================
