----------------------------- MODULE Monitoring -----------------------------
(***************************************************************************)
(* core/infrastructure/monitoring (metrics.py, logging.py), the health     *)
(* routes over it, and core/infrastructure/advanced_monitoring.py.         *)
(*                                                                         *)
(* The collectors hold an RLock for the whole of a call and the engine     *)
(* nothing across a suspension, so a call is one step, and so is a pass of *)
(* the engine's loop. The get_... functions that make the one instance     *)
(* have no lock, and FastAPI runs them as dependencies in threads.         *)
(***************************************************************************)
EXTENDS Integers, SequencesExt, FiniteSetsExt, Lists

CONSTANTS
  HealthRequests,\* requests to the health routes and registrations of checks
  Parts,         \* components that are checked
  MetricKeys,    \* names with labels: records of name and labels
  Values,        \* values of metrics
  AlertObjects,  \* Alert: records of id, metric, condition, threshold
  Rules,         \* AlertRule: records of id, metric, condition, threshold, for
  SeriesKept,    \* max_history
  ReadBack,      \* limit: how many of its values the objective is judged by (100)
  MaxObserved,   \* bound: values recorded and passes of the engine
  MaxLogged      \* bound: entries of the logs, and minutes

ASSUME MonitoringAssumption ==
  /\ Values \subseteq Nat /\ {MaxObserved, MaxLogged} \subseteq Nat /\ {SeriesKept, ReadBack} \subseteq Nat \ {0}
  /\ \A a \in AlertObjects : a.condition \in {"greater_than", "less_than", "equals"}
  /\ IsFiniteSet(HealthRequests)
  /\ \A q, r \in Rules : q.id = r.id => q = r
  /\ \A r \in Rules : r.condition \in {">", "<", "==", ">=", "<="} /\ r.for \in Nat

VARIABLES
  thread,     \* each request's thread: where it is, its manager, and whether none was being
              \* made when it was given it
  manager,    \* _health_check_manager: 0 for None
  managers,   \* each HealthCheckManager there is: checks and results
  promised,   \* history: checks registered by requests that were given their manager
              \* while none was being made
  counters, gauges, series,  \* MetricsCollector
  alerts,     \* AlertManager.alerts, by id
  triggered,  \* the Alert objects whose triggered_at is set
  lastSeen,   \* history: the last value each object was checked with, -1 for none
  rounds,     \* history: times each alert was triggered and cleared
  observed,   \* the engine's collector: latest values of one metric
  engine,     \* the engine's AlertManager: state and age of each rule's alert
  persisted,  \* history: for how many passes in a row each rule's condition has held
  slo,        \* SLOMetrics: good and total events
  used,       \* history: values recorded and passes
  journals,   \* logs of the three loggers, and of the SystemMetricsCollector
  journaled,  \* history: every entry of every log
  minute      \* datetime.now(), of the logs

healthVars  == <<thread, manager, managers, promised>>
metricVars  == <<counters, gauges, series>>
alertVars   == <<alerts, triggered, lastSeen, rounds>>
engineVars  == <<observed, engine, persisted, slo>>
measuredVars == <<healthVars, metricVars, alertVars, engineVars, used>>
journalVars  == <<journals, journaled, minute>>
monitoringVars == <<measuredVars, journalVars>>

MonitoringInit ==
  /\ thread = [q \in HealthRequests |-> [at |-> "idle", m |-> 0, sure |-> FALSE]]
  /\ manager = 0 /\ managers = <<>> /\ promised = {}
  /\ counters = <<>> /\ gauges = <<>> /\ series = <<>>
  /\ alerts = <<>> /\ triggered = {}
  /\ lastSeen = [a \in AlertObjects |-> -1]
  /\ rounds = [a \in AlertObjects |-> [up |-> 0, down |-> 0]]
  /\ observed = <<>> /\ persisted = [r \in Rules |-> 0]
  /\ engine = [i \in {r.id : r \in Rules} |-> [state |-> "none", age |-> -1]]
  /\ slo = [good |-> 0, total |-> 0] /\ used = 0
  /\ journals = [x \in {"structured", "audit", "performance", "system"} |-> <<>>]
  /\ journaled = <<>> /\ minute = 0

-----------------------------------------------------------------------------
(* get_health_check_manager: is there one?                                 *)
LooksUp(q) ==
  /\ thread[q].at = "idle"
  /\ thread' = [thread EXCEPT ![q].at = IF manager = 0 THEN "making" ELSE "returning"]
  /\ UNCHANGED <<manager, managers, promised, metricVars, alertVars, engineVars, used>>

(* There was none: one is made, and whichever is last stays.               *)
Makes(q) ==
  /\ thread[q].at = "making"
  /\ managers' = Append(managers, [checks |-> {}, results |-> <<>>])
  /\ manager' = Len(managers) + 1
  /\ thread' = [thread EXCEPT ![q].at = "returning"]
  /\ UNCHANGED <<promised, metricVars, alertVars, engineVars, used>>

(* The global is read again, and may be another thread's by now.           *)
Returns(q) ==
  /\ thread[q].at = "returning"
  /\ thread' = [thread EXCEPT ![q] = [at |-> "ready", m |-> manager,
                                     sure |-> \A o \in HealthRequests : thread[o].at # "making"]]
  /\ UNCHANGED <<manager, managers, promised, metricVars, alertVars, engineVars, used>>

RegisterCheck(q, c) ==
  /\ thread[q].at = "ready"
  /\ managers' = [managers EXCEPT ![thread[q].m].checks = @ \cup {c}]
  /\ thread' = [thread EXCEPT ![q].at = "done"]
  /\ promised' = IF thread[q].sure THEN promised \cup {c} ELSE promised
  /\ UNCHANGED <<manager, metricVars, alertVars, engineVars, used>>

(* run_all_checks: a check that raises is unhealthy.                       *)
RunAllChecks(q, outcome) ==
  /\ thread[q].at = "ready"
  /\ managers' = [managers EXCEPT ![thread[q].m].results =
                    [c \in managers[thread[q].m].checks |-> outcome[c]]]
  /\ thread' = [thread EXCEPT ![q].at = "done"]
  /\ UNCHANGED <<manager, promised, metricVars, alertVars, engineVars, used>>

HealthNext ==
  \E q \in HealthRequests :
    \/ LooksUp(q) \/ Makes(q) \/ Returns(q)
    \/ \E c \in Parts : RegisterCheck(q, c)
    \/ \E outcome \in [Parts -> {"healthy", "degraded", "unhealthy", "unknown"}] : RunAllChecks(q, outcome)

-----------------------------------------------------------------------------
Assigned(d, k, v) == [x \in DOMAIN d \cup {k} |-> IF x = k THEN v ELSE d[x]]
ValueOf(d, k, default) == IF k \in DOMAIN d THEN d[k] ELSE default
Latest(s) == IF Len(s) > SeriesKept THEN Tail(s) ELSE s
Newest(s, n) == SubSeq(s, Max({1, Len(s) - n + 1}), Len(s))

Observes == used < MaxObserved /\ used' = used + 1

(* The series of a name takes the metrics of all its labels and kinds.     *)
Extended(kind, k, v) ==
  series' = Assigned(series, k.name,
              Latest(Append(ValueOf(series, k.name, <<>>), [kind |-> kind, key |-> k, value |-> v])))

IncrementCounter(k, v) ==
  /\ Observes
  /\ counters' = Assigned(counters, k, ValueOf(counters, k, 0) + v)
  /\ Extended("counter", k, ValueOf(counters, k, 0) + v)
  /\ UNCHANGED <<gauges, healthVars, alertVars, engineVars>>

SetGauge(k, v) ==
  /\ Observes
  /\ gauges' = Assigned(gauges, k, v)
  /\ Extended("gauge", k, v)
  /\ UNCHANGED <<counters, healthVars, alertVars, engineVars>>

RecordHistogram(k, v) ==
  /\ Observes
  /\ Extended("histogram", k, v)
  /\ UNCHANGED <<counters, gauges, healthVars, alertVars, engineVars>>

ResetMetrics ==
  /\ Observes
  /\ counters' = <<>> /\ gauges' = <<>> /\ series' = <<>>
  /\ UNCHANGED <<healthVars, alertVars, engineVars>>

MetricsNext ==
  \/ \E k \in MetricKeys, v \in Values : IncrementCounter(k, v) \/ SetGauge(k, v) \/ RecordHistogram(k, v)
  \/ ResetMetrics

-----------------------------------------------------------------------------
(* register_alert: in place of the one with its id. An object that was     *)
(* registered before keeps its triggered_at.                               *)
RegisterAlert(a) ==
  /\ Observes
  /\ alerts' = Assigned(alerts, a.id, a)
  /\ UNCHANGED <<triggered, lastSeen, rounds, healthVars, metricVars, engineVars>>

ShouldTrigger(a, v) ==
  \/ a.condition = "greater_than" /\ v > a.threshold
  \/ a.condition = "less_than" /\ v < a.threshold
  \/ a.condition = "equals" /\ v = a.threshold

(* The registered alerts on a metric.                                      *)
AlertsOn(metric) == {a \in Range(alerts) : a.metric = metric}

(* check_metric: an alert triggers when its condition begins to hold and   *)
(* is cleared when it no longer does.                                      *)
CheckMetric(metric, v) ==
  LET on == {a \in AlertsOn(metric) : ShouldTrigger(a, v)}
  IN  /\ Observes
      /\ triggered' = (triggered \ AlertsOn(metric)) \cup on
      /\ lastSeen' = [a \in AlertObjects |-> IF a \in AlertsOn(metric) THEN v ELSE lastSeen[a]]
      /\ rounds' = [a \in AlertObjects |->
           [up   |-> rounds[a].up   + IF a \in on \ triggered THEN 1 ELSE 0,
            down |-> rounds[a].down + IF a \in (triggered \cap AlertsOn(metric)) \ on THEN 1 ELSE 0]]
      /\ UNCHANGED <<alerts, healthVars, metricVars, engineVars>>

AlertsNext ==
  \/ \E a \in AlertObjects : RegisterAlert(a)
  \/ \E metric \in {a.metric : a \in AlertObjects}, v \in Values : CheckMetric(metric, v)
-----------------------------------------------------------------------------
(* AdvancedMonitoringEngine.record_metric, of the metric that is ruled on. *)
Record(v) ==
  /\ Observes
  /\ observed' = Latest(Append(observed, v))
  /\ UNCHANGED <<engine, persisted, slo, healthVars, metricVars, alertVars>>

(* _check_condition: ">" is found in ">=", and "<" in "<=", so that the    *)
(* branches for these two are never reached.                               *)
Triggers(r, v) ==
  \/ r.condition \in {">", ">="} /\ v > r.threshold
  \/ r.condition \in {"<", "<="} /\ v < r.threshold
  \/ r.condition = "==" /\ v = r.threshold

(* Mutated form: it fires as soon as it has been timed.                    *)
JudgedEarly(r, v) ==
  LET old == engine[r.id]
  IN  IF ~Triggers(r, v) THEN [state |-> "none", age |-> -1]
      ELSE IF old.state = "none" THEN [state |-> "pending", age |-> -1]
      ELSE IF old.state = "firing" THEN old
      ELSE [state |-> "firing", age |-> old.age + 1]

(* _evaluate_rule, on the latest value: pending at the first pass, timed   *)
(* from the second on, firing once for_duration_seconds have gone by.      *)
Judged(r, v) ==
  LET old == engine[r.id]
  IN  IF ~Triggers(r, v) THEN [state |-> "none", age |-> -1]
      ELSE IF old.state = "none" THEN [state |-> "pending", age |-> -1]
      ELSE IF old.state = "firing" THEN old
      ELSE [state |-> IF old.age + 1 >= r.for THEN "firing" ELSE "pending", age |-> old.age + 1]

(* _evaluate_slo, over the last of the values.                             *)
Evaluated ==
  LET read == Newest(observed, ReadBack)
  IN  [good |-> Len(Only(read, {v \in Values : v > 0})), total |-> Len(read)]

(* What a rule's condition says of a value.                                *)
Satisfies(r, v) ==
  \/ r.condition \in {">", ">="} /\ v > r.threshold
  \/ r.condition \in {"<", "<="} /\ v < r.threshold
  \/ r.condition \in {"==", ">=", "<="} /\ v = r.threshold

(* A pass of _continuous_evaluation, a minute after the last.              *)
Evaluate ==
  /\ Observes
  /\ observed # <<>>
  /\ engine' = [i \in DOMAIN engine |-> Judged(CHOOSE r \in Rules : r.id = i, Last(observed))]
  /\ persisted' = [r \in Rules |-> IF Satisfies(r, Last(observed)) THEN persisted[r] + 1 ELSE 0]
  /\ slo' = Evaluated
  /\ UNCHANGED <<observed, healthVars, metricVars, alertVars>>

EngineNext == (\E v \in Values : Record(v)) \/ Evaluate

-----------------------------------------------------------------------------
(* An entry of a log; the oldest goes when there are max_history.          *)
Logged(x, e) ==
  /\ Len(journaled) < MaxLogged
  /\ journaled' = Append(journaled, e)
  /\ journals' = [journals EXCEPT ![x] = Latest(Append(@, e))]
  /\ UNCHANGED minute

LogMessage(level) == Logged("structured", [log |-> "structured", key |-> level, at |-> minute])
LogEvent(user)    == Logged("audit", [log |-> "audit", key |-> user, at |-> minute])
LogOperation(c)   == Logged("performance", [log |-> "performance", key |-> c, at |-> minute])

(* SystemMetricsCollector.collect.                                         *)
Collect == Logged("system", [log |-> "system", key |-> "cpu", at |-> minute])

MinutePasses ==
  /\ minute < MaxLogged /\ minute' = minute + 1
  /\ UNCHANGED <<journals, journaled>>

JournalsNext ==
  \/ \E level \in {"INFO", "ERROR"} : LogMessage(level)
  \/ \E user \in {"ann"} : LogEvent(user)
  \/ \E c \in Parts : LogOperation(c)
  \/ Collect
  \/ MinutePasses

(* get_logs: the last `limit` of those that pass the filter.               *)
GetLogs(x, keys, limit) == Newest(Only(journals[x], {e \in ToSet(journals[x]) : e.key \in keys}), limit)

(* What get_statistics of the PerformanceLogger, or of the                 *)
(* SystemMetricsCollector, looks at.                                       *)
Considered(x, keys, minutes) ==
  Only(journals[x], {e \in ToSet(journals[x]) : e.at + minutes >= minute /\ e.key \in keys})

-----------------------------------------------------------------------------
MonitoringTypeOK ==
  /\ manager \in 0..Len(managers) /\ Len(managers) <= Cardinality(HealthRequests)
  /\ \A n \in DOMAIN series : Len(series[n]) \in 1..SeriesKept
  /\ Range(alerts) \subseteq AlertObjects /\ triggered \subseteq AlertObjects
  /\ slo.good <= slo.total /\ slo.total <= ReadBack

(* A check registered by a request that was given its manager while no     *)
(* other thread was making one is a check that all later health requests   *)
(* run, however many threads had made one before.                          *)
ChecksKept == promised \subseteq IF manager = 0 THEN {} ELSE managers[manager].checks

(* What a series still has of a counter never falls and ends in its value, *)
(* whatever else of the same name was recorded and whatever was dropped.   *)
CounterSeries ==
  \A k \in DOMAIN counters :
    LET all == ValueOf(series, k.name, <<>>)
        own == Only(all, {x \in ToSet(all) : x.kind = "counter" /\ x.key = k})
    IN  own # <<>> =>
          /\ Last(own).value = counters[k]
          /\ \A i \in 1..(Len(own) - 1) : own[i].value <= own[i + 1].value

(* An alert is triggered exactly while the last value it was checked with  *)
(* satisfies its condition, whatever was registered in its place in the    *)
(* meantime, and it was triggered once for each time it was cleared.       *)
AlertTellsLast ==
  \A a \in AlertObjects :
    /\ a \in triggered <=> lastSeen[a] >= 0 /\ ShouldTrigger(a, lastSeen[a])
    /\ rounds[a].up = rounds[a].down + (IF a \in triggered THEN 1 ELSE 0)

(* An alert of the engine fires only when its condition has held at every  *)
(* pass for for_duration_seconds, counted from the second one; and, but    *)
(* for the conditions >= and <= , whenever it has.                         *)
FiresAfterDuration ==
  \A r \in Rules :
    /\ engine[r.id].state = "firing" => persisted[r] >= r.for + 2
    /\ r.condition \in {">", "<", "=="} /\ persisted[r] >= r.for + 2 => engine[r.id].state = "firing"

(* What a log has of a user, a level or a component is the last of it that *)
(* was logged, unless others crowded it out. Statistics are of everything  *)
(* of a component in their span of time, unless the whole log lies in it.  *)
LogsTellLast ==
  LET all(x) == Only(journaled, {e \in ToSet(journaled) : e.log = x})
      owed(x, c, n) == Only(all(x), {e \in ToSet(journaled) : e.key = c /\ e.at + n >= minute})
  IN  /\ \A x \in DOMAIN journals, e \in ToSet(journaled) :
           x = e.log /\ GetLogs(x, {e.key}, 1) # <<>> =>
             GetLogs(x, {e.key}, 1) = Newest(Only(all(x), {f \in ToSet(journaled) : f.key = e.key}), 1)
      /\ \A x \in {"performance", "system"}, n \in 0..MaxLogged :
           \A c \in Parts \cup {"cpu"} :
             Len(Considered(x, {c}, n)) < Len(owed(x, c, n)) =>
               Len(Considered(x, Parts \cup {"cpu"}, n)) = SeriesKept
=============================================================================
