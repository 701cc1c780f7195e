------------------------------ MODULE Scaling -------------------------------
(***************************************************************************)
(* What shares the load: the ScalingOrchestrator of                        *)
(* core/infrastructure/scaling/orchestration.py, and the ServiceRegistry,  *)
(* LoadBalancer and HealthChecker of                                       *)
(* core/infrastructure/distributed/load_balancing.py. The two share        *)
(* nothing.                                                                *)
(*                                                                         *)
(* In both a call is one step: no lock is held over a suspension. So is a  *)
(* whole pass of _scaling_loop, which only suspends in its sleep; the      *)
(* check loop suspends in each check, with the list it took before.        *)
(* _check_instance passes ClientTimeout an argument it does not have and   *)
(* answers False for the TypeError, whatever the instance would say. The   *)
(* reason and the id of a scaling event are left out.                      *)
(***************************************************************************)
EXTENDS Integers, SequencesExt, FiniteSetsExt, Functions, Lists

(***************************************************************************)
(* The ScalingOrchestrator.                                                *)
(***************************************************************************)
CONSTANTS
  Policies,     \* ScalingPolicy objects: id, service, up, down, min, max, step, periods,
                \* cooldown and enabled
  Readings,     \* values given to record_metric
  Targets,      \* counts asked of scale_service
  LongestCooldown, \* no policy's cooldown is longer, in ticks
  MaxMetrics,   \* readings kept per service (100 in the code)
  MaxScalings   \* bound: calls of the orchestrator's clients

ASSUME ScalingAssumption ==
  /\ Readings \cup Targets \subseteq Nat /\ MaxScalings \in Nat
  /\ {LongestCooldown, MaxMetrics} \subseteq Nat \ {0}
  /\ \A p \in Policies : /\ {p.min, p.max, p.step} \subseteq Nat /\ p.min <= p.max
                         /\ p.periods \in 1..MaxMetrics /\ p.cooldown \in 1..LongestCooldown

VARIABLES
  policies,    \* _policies.values(), in order
  instances,   \* _current_instances
  deployed,    \* the length of each list in _deployments
  lastScaled,  \* ticks since _last_scaling_time, by service, at most LongestCooldown
  metrics,     \* _metric_history
  scaleEvents, \* _scaling_events: service, count before and after
  asks,        \* history: calls so far
  reset        \* history: services whose count add_policy set after they were last scaled

scalingVars == <<policies, instances, deployed, lastScaled, metrics, scaleEvents, asks, reset>>

ScaledServices == {p.service : p \in Policies}

ScalingInit ==
  /\ policies = <<>> /\ instances = <<>> /\ deployed = <<>> /\ lastScaled = <<>>
  /\ metrics = <<>> /\ scaleEvents = <<>> /\ asks = 0 /\ reset = {}

-----------------------------------------------------------------------------
(* d with k set to v, d a dict as a function of its keys.                  *)
Entry(d, k, v) == [x \in DOMAIN d \cup {k} |-> IF x = k THEN v ELSE d[x]]
LookUp(d, k, default) == IF k \in DOMAIN d THEN d[k] ELSE default

(* A policy takes the place of the one with its id, or the last place.     *)
PolicyAt(p) == {i \in DOMAIN policies : policies[i].id = p.id}
Stored(p) ==
  IF PolicyAt(p) = {} THEN Append(policies, p)
  ELSE [policies EXCEPT ![CHOOSE i \in PolicyAt(p) : TRUE] = p]

(* add_policy: the service is counted as having the policy's minimum,      *)
(* whatever was deployed, and its readings are forgotten.                  *)
AddPolicy(p) ==
  /\ asks < MaxScalings /\ asks' = asks + 1
  /\ policies' = Stored(p)
  /\ instances' = Entry(instances, p.service, p.min)
  /\ metrics' = Entry(metrics, p.service, <<>>)
  /\ reset' = reset \cup {p.service}
  /\ UNCHANGED <<deployed, lastScaled, scaleEvents>>

UpdatePolicy(p) ==
  /\ asks < MaxScalings /\ asks' = asks + 1
  /\ PolicyAt(p) # {}
  /\ policies' = Stored(p)
  /\ UNCHANGED <<instances, deployed, lastScaled, metrics, scaleEvents, reset>>

RemovePolicy(i) ==
  /\ asks < MaxScalings /\ asks' = asks + 1
  /\ policies' = RemoveAt(policies, i)
  /\ UNCHANGED <<instances, deployed, lastScaled, metrics, scaleEvents, reset>>

RecordMetric(s, value) ==
  /\ LET all == Append(LookUp(metrics, s, <<>>), value)
     IN  metrics' = Entry(metrics, s, IF Len(all) > MaxMetrics THEN Tail(all) ELSE all)
  /\ UNCHANGED <<policies, instances, deployed, lastScaled, scaleEvents, asks, reset>>

-----------------------------------------------------------------------------
(* The policy scale_service goes by: the first of the service.             *)
Governed(s) == \E i \in DOMAIN policies : policies[i].service = s
Governing(s) == Only(policies, {p \in Policies : p.service = s})[1]

Clamped(p, n) == Max({p.min, Min({n, p.max})})

(* Mutated form: the time of the scaling is not noted.                     *)
RescaledUntimed(st, s, target) ==
  LET n == Clamped(Governing(s), target)
  IN  [st EXCEPT !.instances = Entry(@, s, n),
                 !.deployed = Entry(@, s, n),
                 !.events = Append(@, <<s, LookUp(st.instances, s, 0), n>>)]

(* scale_service and _execute_scaling, on the orchestrator's state: the    *)
(* list of deployments grows or is cut to the count, which is then         *)
(* recorded, with an event also when nothing changed.                      *)
Rescaled(st, s, target) ==
  LET n == Clamped(Governing(s), target)
  IN  [instances |-> Entry(st.instances, s, n),
       deployed |-> Entry(st.deployed, s, n),
       lastScaled |-> Entry(st.lastScaled, s, 0),
       events |-> Append(st.events, <<s, LookUp(st.instances, s, 0), n>>)]

Orchestrated ==
  [instances |-> instances, deployed |-> deployed, lastScaled |-> lastScaled, events |-> scaleEvents]

Becomes(st) ==
  /\ instances' = st.instances /\ deployed' = st.deployed
  /\ lastScaled' = st.lastScaled /\ scaleEvents' = st.events
  /\ reset' = reset \ {e[1] : e \in ToSet(SubSeq(st.events, Len(scaleEvents) + 1, Len(st.events)))}

(* scale_service for a client; without a policy it raises ValueError.      *)
ScaleService(s, target) ==
  /\ asks < MaxScalings /\ asks' = asks + 1
  /\ Governed(s)
  /\ Becomes(Rescaled(Orchestrated, s, target))
  /\ UNCHANGED <<policies, metrics>>

(* The last evaluation_periods readings of p's service, and whether their  *)
(* mean is above or below p's thresholds.                                  *)
Recent(p) ==
  LET all == LookUp(metrics, p.service, <<>>)
  IN  SubSeq(all, Len(all) - p.periods + 1, Len(all))
Enough(p) == Len(LookUp(metrics, p.service, <<>>)) >= p.periods
Above(p) == Enough(p) /\ FoldSeq(+, 0, Recent(p)) > p.up * p.periods
Below(p) == Enough(p) /\ FoldSeq(+, 0, Recent(p)) < p.down * p.periods

(* p's own cooldown has passed since its service was last scaled, by       *)
(* whichever policy or client.                                             *)
Rested(st, p) == LookUp(st.lastScaled, p.service, p.cooldown) >= p.cooldown

(* One policy's turn in a pass: enabled, and rested. scale_service clamps  *)
(* what it asks to the governing policy.                                   *)
Turn(st, p) ==
  LET count == LookUp(st.instances, p.service, p.min)
  IN  IF ~p.enabled \/ ~Rested(st, p) THEN st
      ELSE IF Above(p) THEN Rescaled(st, p.service, Min({count + p.step, p.max}))
      ELSE IF Below(p) THEN Rescaled(st, p.service, Max({count - p.step, p.min}))
      ELSE st

(* _scaling_loop: one pass over the policies.                              *)
ScalingPass ==
  /\ Len(scaleEvents) < MaxScalings
  /\ FoldLeft(Turn, Orchestrated, policies) # Orchestrated
  /\ Becomes(FoldLeft(Turn, Orchestrated, policies))
  /\ UNCHANGED <<policies, metrics, asks>>

CooldownPasses ==
  /\ \E s \in DOMAIN lastScaled : lastScaled[s] < LongestCooldown
  /\ lastScaled' = [s \in DOMAIN lastScaled |-> Min({lastScaled[s] + 1, LongestCooldown})]
  /\ UNCHANGED <<policies, instances, deployed, metrics, scaleEvents, asks, reset>>

ScalingNext ==
  \/ \E p \in Policies : AddPolicy(p) \/ UpdatePolicy(p)
  \/ \E i \in DOMAIN policies : RemovePolicy(i)
  \/ \E s \in ScaledServices :
       (\E v \in Readings : RecordMetric(s, v)) \/ (\E n \in Targets : ScaleService(s, n))
  \/ ScalingPass \/ CooldownPasses

-----------------------------------------------------------------------------
ScalingTypeOK ==
  /\ policies \in Seq(Policies)
  /\ DOMAIN instances \cup DOMAIN deployed \cup DOMAIN metrics \subseteq ScaledServices
  /\ \A s \in DOMAIN metrics : Len(metrics[s]) <= MaxMetrics

(* get_stats: total_instances and running_instances agree on every service *)
(* that has been scaled since a policy was last added for it.              *)
CountsAgree ==
  \A s \in DOMAIN instances : s \notin reset => LookUp(deployed, s, 0) = instances[s]

(* However many policies a service has, a pass scales it at most once, and *)
(* only when a policy's own cooldown has passed since the service was last *)
(* scaled. Within the longer cooldown of another policy it may be scaled.  *)
OncePerCooldown ==
  ScalingPass =>
    \A s \in ScaledServices :
      LET now == {i \in (Len(scaleEvents) + 1)..Len(scaleEvents') : scaleEvents'[i][1] = s}
      IN  /\ Cardinality(now) <= 1
          /\ now # {} => \E p \in ToSet(policies) : p.service = s /\ Rested(Orchestrated, p)

(* A pass adds instances only for a mean above the threshold of some       *)
(* rested policy, or to reach a minimum: the governing policy's, or that   *)
(* of a rested one whose mean is below. It removes some only for a mean    *)
(* below one, or to get down to such a maximum.                            *)
LoadDecides ==
  ScalingPass =>
    \A s \in DOMAIN instances :
      LET own == {p \in ToSet(policies) : p.service = s /\ p.enabled /\ Rested(Orchestrated, p)}
      IN  /\ instances'[s] > instances[s] =>
               \/ \E p \in own : Above(p) \/ (Below(p) /\ instances[s] < p.min)
               \/ instances[s] < Governing(s).min
          /\ instances'[s] < instances[s] =>
               \/ \E p \in own : Below(p) \/ (Above(p) /\ instances[s] > p.max)
               \/ instances[s] > Governing(s).max

(***************************************************************************)
(* The ServiceRegistry, the LoadBalancer and the HealthChecker.            *)
(***************************************************************************)
CONSTANTS
  Backends,       \* ServiceInstance objects: records of obj, id and name
  LBClients,      \* client ids
  Algorithms,     \* of LoadBalancingAlgorithm: those that keep something
  AliveFor,       \* ticks for which a heartbeat counts (30 s)
  Threshold,      \* unhealthy_threshold
  MaxRegistered   \* bound: calls of register

ASSUME BalancingAssumption ==
  /\ {AliveFor, Threshold} \subseteq Nat \ {0} /\ MaxRegistered \in Nat
  /\ Algorithms \subseteq {"round_robin", "sticky"}

Names == {b.name : b \in Backends}

VARIABLES
  algorithm,  \* self.algorithm
  listed,     \* _instances: the list of each service
  byId,       \* _registry.values(), in order
  healthy,    \* instance.is_healthy
  beat,       \* ticks since instance.last_heartbeat
  nextIndex,  \* _round_robin_index, 0 where there is none
  affinity,   \* _session_affinity: an instance id, or "none"
  failures,   \* _failure_counts, by id
  toCheck,    \* what is left of the check loop's list
  registered, \* history: calls of register
  turns       \* history: per service, the list chosen from and the latest places chosen

balancingVars == <<algorithm, listed, byId, healthy, beat, nextIndex, affinity, failures, toCheck, registered, turns>>

BalancingInit ==
  /\ algorithm \in Algorithms
  /\ listed = [n \in Names |-> <<>>] /\ byId = <<>>
  /\ healthy = [b \in Backends |-> FALSE] /\ beat = [b \in Backends |-> 0]
  /\ nextIndex = [n \in Names |-> 0]
  /\ affinity = [k \in Names \X LBClients |-> "none"]
  /\ failures = [i \in {b.id : b \in Backends} |-> 0]
  /\ toCheck = <<>> /\ registered = 0
  /\ turns = [n \in Names |-> [from |-> <<>>, places |-> <<>>]]

-----------------------------------------------------------------------------
Known(i) == {k \in DOMAIN byId : byId[k].id = i}
Holder(i) == byId[CHOOSE k \in Known(i) : TRUE]

(* register: in place of a registered instance with the same id, which     *)
(* stays in its service's list. An object may be registered again.         *)
Register(b) ==
  /\ registered < MaxRegistered /\ registered' = registered + 1
  /\ byId' = IF Known(b.id) = {} THEN Append(byId, b)
             ELSE [byId EXCEPT ![CHOOSE k \in Known(b.id) : TRUE] = b]
  /\ listed' = [listed EXCEPT ![b.name] = Append(@, b)]
  /\ UNCHANGED <<algorithm, healthy, beat, nextIndex, affinity, failures, toCheck, turns>>

(* deregister: every entry with the id, from the list of the service of    *)
(* the instance that holds it.                                             *)
Deregister(i) ==
  /\ Known(i) # {}
  /\ LET others == {b \in Backends : b.id # i}
     IN  /\ byId' = Only(byId, others)
         /\ listed' = [listed EXCEPT ![Holder(i).name] = Only(@, others)]
  /\ UNCHANGED <<algorithm, healthy, beat, nextIndex, affinity, failures, toCheck, registered, turns>>

(* update_health, for a client: of the instance that holds the id.         *)
UpdateHealth(i, status) ==
  /\ Known(i) # {}
  /\ healthy' = [healthy EXCEPT ![Holder(i)] = status]
  /\ beat' = [beat EXCEPT ![Holder(i)] = 0]
  /\ UNCHANGED <<algorithm, listed, byId, nextIndex, affinity, failures, toCheck, registered, turns>>

TimeSinceBeats ==
  /\ \E b \in Backends : beat[b] < AliveFor
  /\ beat' = [b \in Backends |-> Min({beat[b] + 1, AliveFor})]
  /\ UNCHANGED <<algorithm, listed, byId, healthy, nextIndex, affinity, failures, toCheck, registered, turns>>

-----------------------------------------------------------------------------
(* get_healthy_instances.                                                  *)
Selectable == {b \in Backends : healthy[b] /\ beat[b] < AliveFor}
Offered(n) == Only(listed[n], Selectable)

(* Mutated form: the next index is not taken modulo the number of choices  *)
(* but of the instances listed.                                            *)
RoundRobinOverAll(n) ==
  LET from == Offered(n)
      place == (nextIndex[n] % Len(from)) + 1
      before == IF turns[n].from = from THEN turns[n].places ELSE <<>>
      recent == IF Len(before) < Len(from) THEN before ELSE Tail(before)
  IN  /\ nextIndex' = [nextIndex EXCEPT ![n] = (@ + 1) % Len(listed[n])]
      /\ turns' = [turns EXCEPT ![n] = [from |-> from, places |-> Append(recent, place)]]

(* _select_round_robin.                                                    *)
RoundRobin(n) ==
  LET from == Offered(n)
      place == (nextIndex[n] % Len(from)) + 1
      before == IF turns[n].from = from THEN turns[n].places ELSE <<>>
      recent == IF Len(before) < Len(from) THEN before ELSE Tail(before)
  IN  /\ nextIndex' = [nextIndex EXCEPT ![n] = (nextIndex[n] + 1) % Len(from)]
      /\ turns' = [turns EXCEPT ![n] = [from |-> from, places |-> Append(recent, place)]]

(* _select_sticky: any of the choices when the one noted is not among them.*)
Sticky(n, c) ==
  LET ids == {b.id : b \in ToSet(Offered(n))}
  IN  \E i \in ids :
        /\ affinity[<<n, c>>] \in ids => i = affinity[<<n, c>>]
        /\ affinity' = [affinity EXCEPT ![<<n, c>>] = i]

(* select_instance. The other algorithms keep nothing: the connection      *)
(* counts of least_connections are counted nowhere.                        *)
Select(n, c) ==
  /\ Offered(n) # <<>>
  /\ \/ algorithm = "round_robin" /\ RoundRobin(n) /\ UNCHANGED affinity
     \/ algorithm = "sticky" /\ Sticky(n, c) /\ UNCHANGED <<nextIndex, turns>>
  /\ UNCHANGED <<algorithm, listed, byId, healthy, beat, failures, toCheck, registered>>

-----------------------------------------------------------------------------
(* _check_loop takes the list of all instances.                            *)
ChecksStart ==
  /\ toCheck = <<>> /\ byId # <<>>
  /\ toCheck' = byId
  /\ UNCHANGED <<algorithm, listed, byId, healthy, beat, nextIndex, affinity, failures, registered, turns>>

(* The check of the next one has failed. From the threshold on whoever now *)
(* holds the id is marked unhealthy, which counts as a heartbeat too.      *)
CheckFails ==
  /\ toCheck # <<>> /\ toCheck' = Tail(toCheck)
  /\ LET i == Head(toCheck).id
         fails == Min({failures[i] + 1, Threshold})
         marks == fails = Threshold /\ Known(i) # {}
     IN  /\ failures' = [failures EXCEPT ![i] = fails]
         /\ healthy' = IF marks THEN [healthy EXCEPT ![Holder(i)] = FALSE] ELSE healthy
         /\ beat' = IF marks THEN [beat EXCEPT ![Holder(i)] = 0] ELSE beat
  /\ UNCHANGED <<algorithm, listed, byId, nextIndex, affinity, registered, turns>>

BalancingNext ==
  \/ \E b \in Backends : Register(b)
  \/ \E i \in DOMAIN failures : Deregister(i) \/ \E s \in BOOLEAN : UpdateHealth(i, s)
  \/ \E n \in Names, c \in LBClients : Select(n, c)
  \/ TimeSinceBeats \/ ChecksStart \/ CheckFails

-----------------------------------------------------------------------------
BalancingTypeOK ==
  /\ listed \in [Names -> Seq(Backends)] /\ byId \in Seq(Backends)
  /\ failures \in [DOMAIN failures -> 0..Threshold]
  /\ Cardinality({b.id : b \in ToSet(byId)}) = Len(byId)

(* While the choices of a service stay the same, round robin comes to each *)
(* place once before it comes to any a second time, wherever it started.   *)
RoundRobinFair ==
  \A n \in Names :
    /\ IsInjective(turns[n].places)
    /\ turns[n].from = Offered(n) /\ turns[n].places # <<>> => nextIndex[n] < Len(Offered(n))

(* What can still be selected has been registered: a listed instance that  *)
(* the registry no longer has went to another service under the same id.   *)
StrayMoved ==
  \A n \in Names : \A b \in ToSet(listed[n]) :
    Known(b.id) = {} => \E a \in Backends : a.id = b.id /\ a.name # n

(* A client leaves its instance only when that cannot be selected.         *)
StickyKept ==
  \A n \in Names, c \in LBClients :
    affinity[<<n, c>>] \in {b.id : b \in ToSet(Offered(n))} => affinity'[<<n, c>>] = affinity[<<n, c>>]
=============================================================================
