------------------------------ MODULE Requests ------------------------------
(***************************************************************************)
(* The limits of core/infrastructure/rate_limiting/limiter.py: one         *)
(* endpoint of the RateLimitManager, a token bucket per second and a       *)
(* sliding window per minute, both asked by every check_limit; and one     *)
(* ClientQuota of the QuotaManager, which with requests of amount 1 is the *)
(* FixedWindowLimiter too.                                                 *)
(*                                                                         *)
(* No lock body, acquire or consume suspends, so a check is one step. Time *)
(* is a count of ticks; a token is counted as Second units, so that every  *)
(* tick brings a whole number of them and no fraction is lost. What was    *)
(* let through is a set of pairs: the tick, and a number within it.        *)
(***************************************************************************)
EXTENDS Integers, FiniteSets, FiniteSetsExt

CONSTANTS
  PerSecond,   \* requests_per_second: tokens the bucket holds
  Second,      \* ticks in a second, and units in a token
  PerMinute,   \* requests_per_minute
  Minute,      \* ticks in the sliding window
  MaxUsage,    \* config.max_usage, max_requests
  Period,      \* ticks in a quota period, window_seconds
  Asks,        \* amounts asked of a quota
  MaxTime,     \* bound: ticks
  MaxPerTick   \* bound: requests in one tick

ASSUME LimiterAssumption ==
  /\ {PerSecond, PerMinute, MaxUsage, MaxTime, MaxPerTick} \subseteq Nat
  /\ {Second, Minute, Period} \subseteq Nat \ {0} /\ Asks \subseteq Nat \ {0}

VARIABLES
  now,         \* time.time()
  asked,       \* history: requests in the current tick
  tokens,      \* second_limiter.tokens
  lastRefill,  \* second_limiter.last_refill
  times,       \* minute_limiter.request_times
  secondLog, minuteLog, acceptedLog,  \* history: grants of each limiter and
               \* of both together
  known,       \* the manager has a quota for the client
  used,        \* quota.used, request_count
  start,       \* quota.period_start, window_start
  quotaLog     \* history: the units that this quota has granted

bucketVars == <<tokens, lastRefill, secondLog>>
windowVars == <<times, minuteLog, acceptedLog>>
quotaVars  == <<known, used, start, quotaLog>>
limitVars  == <<now, asked, bucketVars, windowVars, quotaVars>>

Cost     == Second
Rate     == PerSecond
Capacity == PerSecond * Cost

(* How many of a log's grants lie in an interval.                          *)
Granted(log, a, b) == Cardinality({g \in log : a <= g[1] /\ g[1] <= b})

LimitsInit ==
  /\ now = 0 /\ asked = 0
  /\ tokens = Capacity /\ lastRefill = 0
  /\ times = {}
  /\ secondLog = {} /\ minuteLog = {} /\ acceptedLog = {}
  /\ known = FALSE /\ used = 0 /\ start = 0 /\ quotaLog = {}

Ask ==
  /\ asked < MaxPerTick
  /\ asked' = asked + 1
  /\ UNCHANGED now

TimePasses ==
  /\ now < MaxTime
  /\ now' = now + 1
  /\ asked' = 0
  /\ UNCHANGED <<bucketVars, windowVars, quotaVars>>

-----------------------------------------------------------------------------
(* The RateLimitManager.                                                   *)

(* _refill: what the elapsed time brings, up to the capacity.              *)
Refilled == Min({Capacity, tokens + (now - lastRefill) * Rate})

(* The requests still inside the sliding window.                           *)
Retained == {r \in times : r[1] + Minute > now}

LogIf(granted, log) == IF granted THEN log \cup {<<now, asked + 1>>} ELSE log

(* Mutated form: a request passes if either limiter grants it.             *)
CheckLimitEither ==
  LET second == Refilled >= Cost
      minute == Cardinality(Retained) < PerMinute
  IN
  /\ Ask
  /\ tokens' = IF second THEN Refilled - Cost ELSE Refilled
  /\ lastRefill' = now
  /\ times' = LogIf(minute, Retained)
  /\ secondLog' = LogIf(second, secondLog)
  /\ minuteLog' = LogIf(minute, minuteLog)
  /\ acceptedLog' = LogIf(second \/ minute, acceptedLog)
  /\ UNCHANGED quotaVars

(* Both limiters are asked, and either may use up what the other refuses.  *)
CheckLimit ==
  LET second == Refilled >= Cost
      minute == Cardinality(Retained) < PerMinute
  IN
  /\ Ask
  /\ tokens' = IF second THEN Refilled - Cost ELSE Refilled
  /\ lastRefill' = now
  /\ times' = LogIf(minute, Retained)
  /\ secondLog' = LogIf(second, secondLog)
  /\ minuteLog' = LogIf(minute, minuteLog)
  /\ acceptedLog' = LogIf(second /\ minute, acceptedLog)
  /\ UNCHANGED quotaVars

LimitsNext == CheckLimit \/ TimePasses

-----------------------------------------------------------------------------
(* The QuotaManager.                                                       *)

(* add_quota: a fresh ClientQuota, also where there was one.               *)
AddQuota ==
  /\ Ask
  /\ known' = TRUE
  /\ used' = 0 /\ start' = now
  /\ quotaLog' = {}
  /\ UNCHANGED <<bucketVars, windowVars>>

RemoveQuota ==
  /\ known
  /\ known' = FALSE
  /\ UNCHANGED <<now, asked, bucketVars, windowVars, used, start, quotaLog>>

(* consume: start a new period if this one is over, then count.            *)
Consume(amount) ==
  LET expired == now - start >= Period
      before  == IF expired THEN 0 ELSE used
      granted == before + amount <= MaxUsage
  IN
  /\ start' = IF expired THEN now ELSE start
  /\ used' = IF granted THEN before + amount ELSE before
  /\ quotaLog' = IF granted THEN quotaLog \cup ({now} \X (before + 1 .. before + amount)) ELSE quotaLog

(* A client without a quota is let through uncounted.                      *)
CheckQuota(amount) ==
  /\ Ask
  /\ IF known THEN Consume(amount) ELSE UNCHANGED <<used, start, quotaLog>>
  /\ UNCHANGED <<known, bucketVars, windowVars>>

QuotaNext ==
  \/ AddQuota \/ RemoveQuota \/ TimePasses
  \/ \E amount \in Asks : CheckQuota(amount)

-----------------------------------------------------------------------------
(* In any interval the bucket grants no more than a full bucket and what   *)
(* was refilled during it, whenever its requests come.                     *)
BucketEnvelope ==
  \A a, b \in 0..now : a <= b =>
    Granted(secondLog, a, b) * Cost <= Capacity + (b - a) * Rate

(* In any span of one minute, wherever it starts, the sliding window       *)
(* grants at most requests_per_minute.                                     *)
MinuteEnvelope ==
  \A a \in 0..now : Granted(minuteLog, a, a + Minute - 1) <= PerMinute

(* A request is accepted only inside both limits: what the endpoint lets   *)
(* through in any interval respects the bucket and the window.             *)
AcceptedWithinBoth ==
  \A a, b \in 0..now : a <= b =>
    /\ Granted(acceptedLog, a, b) * Cost <= Capacity + (b - a) * Rate
    /\ b - a < Minute => Granted(acceptedLog, a, b) <= PerMinute

(* An interval touches at most (b - a) \div Period + 2 quota periods, the  *)
(* first and the last possibly in part, so however checks, amounts and     *)
(* periods are aligned consume grants no more than that many quotas: two   *)
(* in any span of one period. Its counter is what its period has granted.  *)
LongRun ==
  /\ \A a, b \in 0..now : a <= b =>
       Granted(quotaLog, a, b) <= ((b - a) \div Period + 2) * MaxUsage
  /\ used = Granted(quotaLog, start, now)

(* Why they hold. What the bucket has granted since any instant, and what  *)
(* it holds, is a full bucket and the refill since; the window forgets no  *)
(* grant that may still count; a period ends a Period after its start at   *)
(* the earliest, and the periods before it granted a quota each.           *)
LogsOK ==
  /\ now \in 0..MaxTime /\ asked \in 0..MaxPerTick
  /\ secondLog \cup minuteLog \cup times \subseteq (0..now) \X (1..MaxPerTick)
  /\ \A g \in secondLog \cup minuteLog \cup times : g[1] = now => g[2] <= asked
  /\ acceptedLog \subseteq secondLog \cap minuteLog

BucketInv ==
  /\ lastRefill \in 0..now /\ tokens \in 0..Capacity
  /\ \A g \in secondLog : g[1] <= lastRefill
  /\ \A a \in 0..lastRefill :
       Granted(secondLog, a, now) * Cost + tokens <= Capacity + (lastRefill - a) * Rate

WindowInv == \A g \in minuteLog : g[1] + Minute > now => g \in times

QuotaInv ==
  /\ known \in BOOLEAN /\ used \in 0..MaxUsage /\ start \in 0..now
  /\ quotaLog \subseteq (0..now) \X (1..MaxUsage)
  /\ \A g \in quotaLog : g[1] >= start => g[2] <= used /\ g[1] < start + Period
  /\ \A a \in 0..start, k \in 0..(MaxTime + 1) :
       start - a <= k * Period => Granted(quotaLog, a, start - 1) <= k * MaxUsage

LimitsInv ==
  /\ LogsOK /\ BucketInv /\ WindowInv /\ QuotaInv
  /\ BucketEnvelope /\ MinuteEnvelope /\ LongRun

(***************************************************************************)
(* A request on its way through core/middleware: the filters and           *)
(* RateLimitMiddleware of security_middleware.py, the handler, then        *)
(* AuditMiddleware, ErrorTrackingMiddleware and PerformanceTracking-       *)
(* Middleware of audit_middleware.py on the way back.                      *)
(*                                                                         *)
(* Nothing suspends between a limit's check and its append, so admission   *)
(* is one step; other requests run while the handler does. Every call of   *)
(* log_event in audit_middleware.py passes a keyword the AuditLogger does  *)
(* not have: it raises TypeError, and nothing is logged.                   *)
(***************************************************************************)
CONSTANTS
  Requests,
  Clients,          \* client ids
  Audited,          \* _should_audit: the requests that write below an audited path
  ClientPerMinute, ClientPerHour,  \* requests_per_minute, requests_per_hour
  MinuteSpan, HourSpan,            \* a minute and an hour, in ticks
  EndOfTime                        \* bound: ticks

ASSUME RequestsAssumption ==
  /\ Audited \subseteq Requests
  /\ {ClientPerMinute, ClientPerHour, EndOfTime} \subseteq Nat
  /\ {MinuteSpan, HourSpan} \subseteq Nat \ {0} /\ MinuteSpan <= HourSpan
  /\ IsFiniteSet(Requests) /\ IsFiniteSet(Clients)

VARIABLES
  clock,          \* time.time()
  admittedAt,     \* client_requests: the times kept of each client, each
                  \* with the request it was kept for
  blockedUntil,   \* client_blocks: the clients blocked, and until when
  stage,          \* where each request is
  admissions      \* history: client and time of every request let in

requestVars == <<clock, admittedAt, blockedUntil, stage, admissions>>

RequestsInit ==
  /\ clock = 0
  /\ admittedAt = [c \in Clients |-> {}]
  /\ blockedUntil = <<>>
  /\ stage = [q \in Requests |-> "new"]
  /\ admissions = {}

StageOf(q, s) == stage' = [stage EXCEPT ![q] = s]

-----------------------------------------------------------------------------
(* A filter may refuse any request: for its size, a pattern in path or     *)
(* query, its scheme or its host. Nothing behind the filter is asked.      *)
Filtered(q) ==
  /\ stage[q] = "new"
  /\ StageOf(q, "refused")
  /\ UNCHANGED <<clock, admittedAt, blockedUntil, admissions>>

StillBlocked(c) == c \in DOMAIN blockedUntil /\ clock < blockedUntil[c]

(* Those of a client's times that are less than span ago.                  *)
Recent(c, span) == {a \in admittedAt[c] : a[2] + span > clock}

(* Mutated form: one request more in an hour.                              *)
OverLimitLate(c) ==
  \/ Cardinality(Recent(c, MinuteSpan)) >= ClientPerMinute
  \/ Cardinality(Recent(c, HourSpan)) > ClientPerHour

OverLimit(c) ==
  \/ Cardinality(Recent(c, MinuteSpan)) >= ClientPerMinute
  \/ Cardinality(Recent(c, HourSpan)) >= ClientPerHour

Unblocked(c) == [x \in DOMAIN blockedUntil \ {c} |-> blockedUntil[x]]

(* Blocked, or over a limit: then blocked for an hour from now.            *)
Refuse(q, c) ==
  /\ stage[q] = "new"
  /\ \/ StillBlocked(c) /\ UNCHANGED <<admittedAt, blockedUntil>>
     \/ /\ ~StillBlocked(c) /\ OverLimit(c)
        /\ admittedAt' = [admittedAt EXCEPT ![c] = Recent(c, HourSpan)]
        /\ blockedUntil' = [x \in DOMAIN blockedUntil \cup {c} |->
                              IF x = c THEN clock + HourSpan ELSE blockedUntil[x]]
  /\ StageOf(q, "refused")
  /\ UNCHANGED <<clock, admissions>>

Admit(q, c) ==
  /\ stage[q] = "new"
  /\ ~StillBlocked(c) /\ ~OverLimit(c)
  /\ blockedUntil' = Unblocked(c)
  /\ admittedAt' = [admittedAt EXCEPT ![c] = Recent(c, HourSpan) \cup {<<q, clock>>}]
  /\ admissions' = admissions \cup {<<q, c, clock>>}
  /\ StageOf(q, "handling")
  /\ UNCHANGED clock

(* The handler ends: within a second or slowly, or raising.                *)
Handle(q) ==
  /\ stage[q] = "handling"
  /\ \E result \in {"done", "slow", "raised"} : StageOf(q, result)
  /\ UNCHANGED <<clock, admittedAt, blockedUntil, admissions>>

(* dispatch logs a slow request, an audited one and an exception.          *)
Logs(q) == stage[q] \in {"slow", "raised"} \/ q \in Audited

(* The answer, or the TypeError of the log call in its place.              *)
Answer(q) ==
  /\ stage[q] \in {"done", "slow", "raised"}
  /\ StageOf(q, IF Logs(q) THEN "failed" ELSE "answered")
  /\ UNCHANGED <<clock, admittedAt, blockedUntil, admissions>>

TimeFlows ==
  /\ clock < EndOfTime
  /\ clock' = clock + 1
  /\ UNCHANGED <<admittedAt, blockedUntil, stage, admissions>>

RequestsNext ==
  \/ \E q \in Requests :
       \/ Filtered(q) \/ Handle(q) \/ Answer(q)
       \/ \E c \in Clients : Refuse(q, c) \/ Admit(q, c)
  \/ TimeFlows

-----------------------------------------------------------------------------
RequestsTypeOK ==
  /\ stage \in [Requests -> {"new", "refused", "handling", "done", "slow", "raised", "answered", "failed"}]
  /\ DOMAIN blockedUntil \subseteq Clients
  /\ \A c \in Clients : Cardinality(admittedAt[c]) <= ClientPerHour

AdmittedIn(c, from, to) == Cardinality({a \in admissions : a[2] = c /\ from <= a[3] /\ a[3] <= to})

(* In no span of a minute, and in no span of an hour, wherever it starts,  *)
(* does a client get more requests in than its limit for that span.        *)
ClientEnvelopes ==
  \A c \in Clients, t \in 0..clock :
    /\ AdmittedIn(c, t, t + MinuteSpan - 1) <= ClientPerMinute
    /\ AdmittedIn(c, t, t + HourSpan - 1) <= ClientPerHour

(* Once refused over a limit a client gets nothing in for an hour, however *)
(* few of its requests are then left in the windows.                       *)
BlocksHold ==
  \A c \in DOMAIN blockedUntil, a \in admissions : a[2] = c => a[3] + HourSpan <= blockedUntil[c]

RequestsHold == ClientEnvelopes /\ BlocksHold

(* Every step keeps these together: a client's list has what it let in and *)
(* may still count.                                                        *)
ListsInv ==
  /\ admittedAt \in [Clients -> SUBSET (Requests \X (0..clock))]
  /\ admissions \subseteq Requests \X Clients \X (0..clock)
  /\ \A a \in admissions : a[3] + HourSpan > clock => <<a[1], a[3]>> \in admittedAt[a[2]]

RequestsInv ==
  /\ RequestsTypeOK /\ RequestsHold /\ ListsInv
  /\ clock \in Nat
  /\ \A c \in DOMAIN blockedUntil : blockedUntil[c] \in Nat
=============================================================================
