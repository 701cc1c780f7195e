------------------------------- MODULE Domain -------------------------------
(***************************************************************************)
(* The entities and value objects of core/domain: AgentPolicy, Report,     *)
(* MarketEvent, Signal, Confidence, Timestamp and Money.                   *)
(*                                                                         *)
(* They are frozen: each method answers with a new version, and a variable *)
(* is the latest version of a line. Only what a method decides by is kept. *)
(* The clock of a line is `now`; a call that raises leaves no version.     *)
(***************************************************************************)
EXTENDS Integers, SequencesExt, FiniteSetsExt, Lists

CONSTANTS
  Strategies,  \* StrategyPattern objects: name and rate, in per cent
  MaxUses,     \* bound: record_usage of a policy
  LastNow,     \* bound: the clock
  Scores,      \* scores given to with_impact_score
  FirstDate,   \* the date to begin with: y, m and d
  Shifts,      \* years, months and days added or subtracted; bound: of days, those of a month
  Years,       \* bound: years that dates stay in
  Amounts      \* amounts of money, in eighths of a cent

ASSUME DomainAssumption ==
  /\ \A s \in Strategies : s.rate \in 0..100
  /\ MaxUses \in Nat /\ LastNow \in Nat
  /\ Scores \subseteq Int /\ Shifts \subseteq -28..28 /\ Amounts \subseteq Nat

VARIABLES
  policy,  \* AgentPolicy: effectiveness, uses, strategies, failed approaches
  wins,    \* history: successful uses of the policy
  now,     \* the clock of the report and of the event
  report,  \* Report: status, generated_at, file_path, companies
  firstDone, \* history: when the report was first completed
  market,  \* MarketEvent: is_ongoing, end_date
  signal,  \* Signal: impact_score, is_verified, related signals
  belief,  \* Confidence: level and score
  date,    \* Timestamp, to the day
  purse    \* Money: currency and amount

policyVars == <<policy, wins>>
recordVars == <<now, report, firstDone, market, signal>>
valueVars  == <<belief, date, purse>>
domainVars == <<policyVars, recordVars, valueVars>>

None == -1

-----------------------------------------------------------------------------
(* AgentPolicy.create.                                                     *)
NewPolicy == [effectiveness |-> 50, uses |-> 0, strategies |-> <<>>, failed |-> {}, status |-> "active"]

(* int((1 - alpha) * effectiveness_score + alpha * feedback_score).        *)
Averaged(score, ok) == (9 * score + (IF ok THEN 100 ELSE 0)) \div 10

RecordUsage(ok) ==
  /\ policy.uses < MaxUses
  /\ policy' = [policy EXCEPT !.effectiveness = Averaged(@, ok), !.uses = @ + 1]
  /\ wins' = wins + (IF ok THEN 1 ELSE 0)

(* add_strategy: the one with its name goes, the new one comes last.       *)
AddStrategy(s) ==
  /\ policy' = [policy EXCEPT !.strategies = Append(Only(@, {t \in Strategies : t.name # s.name}), s)]
  /\ UNCHANGED wins

(* An approach may be a failed one and a successful strategy at a time.    *)
AddFailedApproach(name) == policy' = [policy EXCEPT !.failed = @ \cup {name}] /\ UNCHANGED wins
WithPolicyStatus(s) == policy' = [policy EXCEPT !.status = s] /\ UNCHANGED wins

(* top_strategy: max takes the first of those with the best rate.          *)
TopStrategy ==
  LET all == policy.strategies
      best == Max({all[i].rate : i \in DOMAIN all})
  IN  all[Min({i \in DOMAIN all : all[i].rate = best})]

PolicyNext ==
  \/ \E ok \in BOOLEAN : RecordUsage(ok)
  \/ \E s \in Strategies : AddStrategy(s) \/ AddFailedApproach(s.name)
  \/ \E s \in {"active", "disabled"} : WithPolicyStatus(s)

-----------------------------------------------------------------------------
(* Report.create.                                                          *)
NewReport == [status |-> "draft", generated |-> None, file |-> FALSE, companies |-> {}]

Completes(r) ==
  firstDone' = IF firstDone = None /\ r.status = "completed" THEN now ELSE firstDone

(* with_status: a report is generated when it is first completed.          *)
WithStatus(s) ==
  /\ report' = [report EXCEPT !.status = s,
                  !.generated = IF s = "completed" /\ @ = None THEN now ELSE @]
  /\ Completes(report')
  /\ UNCHANGED <<now, market, signal>>

(* with_file_path: completes it too, whatever its status.                  *)
WithFilePath ==
  /\ report' = [report EXCEPT !.status = "completed", !.file = TRUE,
                  !.generated = IF @ = None THEN now ELSE @]
  /\ Completes(report')
  /\ UNCHANGED <<now, market, signal>>

(* add_company of a report, add_signal likewise.                           *)
AddCompany(c) ==
  /\ report' = [report EXCEPT !.companies = @ \cup {c}]
  /\ UNCHANGED <<now, firstDone, market, signal>>

(* mark_ended: at the time given, past or future, or now.                  *)
MarkEnded(end) ==
  /\ market' = [market EXCEPT !.ongoing = FALSE, !.end = end]
  /\ UNCHANGED <<now, report, firstDone, signal>>

(* add_opportunity, and add_threat likewise.                               *)
AddOpportunity ==
  /\ market.opportunities < LastNow
  /\ market' = [market EXCEPT !.opportunities = @ + 1]
  /\ UNCHANGED <<now, report, firstDone, signal>>

(* Signal.verify: Confidence.HIGH raises an AttributeError before there is *)
(* another version, and the signal remains unverified.                     *)
VerifySignal == UNCHANGED recordVars

(* with_impact_score.                                                      *)
WithImpactScore(score) ==
  /\ signal' = [signal EXCEPT !.impact = Max({0, Min({100, score})})]
  /\ UNCHANGED <<now, report, firstDone, market>>

(* add_related_signal, one way only; and add_tag likewise.                 *)
AddRelatedSignal(i) ==
  /\ signal' = [signal EXCEPT !.related = @ \cup {i}]
  /\ UNCHANGED <<now, report, firstDone, market>>

ClockGoes ==
  /\ now < LastNow /\ now' = now + 1
  /\ UNCHANGED <<report, firstDone, market, signal>>

RecordsNext ==
  \/ \E s \in {"draft", "generating", "completed", "failed"} : WithStatus(s)
  \/ WithFilePath \/ AddOpportunity \/ VerifySignal \/ ClockGoes
  \/ \E t \in 0..LastNow : MarkEnded(t)
  \/ \E x \in {"a"} : AddCompany(x) \/ AddRelatedSignal(x)
  \/ \E score \in Scores : WithImpactScore(score)

-----------------------------------------------------------------------------
LevelOf(score) ==
  IF score >= 80 THEN "critical"
  ELSE IF score >= 60 THEN "high"
  ELSE IF score >= 40 THEN "medium"
  ELSE IF score >= 20 THEN "low" ELSE "unknown"

FromScore(score) == [level |-> LevelOf(score), score |-> score]

(* Confidence.critical, high, medium, low and unknown, and from_level.     *)
Named ==
  {[level |-> "critical", score |-> 90], [level |-> "high", score |-> 75],
   [level |-> "medium", score |-> 50], [level |-> "low", score |-> 25],
   [level |-> "unknown", score |-> 0]}

IsHigh(c) == c.level \in {"high", "critical"}
IsLow(c) == c.level \in {"low", "unknown"}

(* combine: the higher of two high ones, less than the mean where one is   *)
(* low.                                                                    *)
Combined(a, b) ==
  LET mean == (a.score + b.score) \div 2
  IN  FromScore(IF IsHigh(a) /\ IsHigh(b) THEN Max({a.score, b.score})
                ELSE IF IsLow(a) \/ IsLow(b) THEN (mean * 7) \div 10
                ELSE mean)

Boosted(c) == FromScore(Min({(c.score * 11) \div 10, 95}))
Reduced(c) == FromScore(Max({(c.score * 9) \div 10, 5}))

Believes ==
  /\ belief' \in {Combined(belief, c) : c \in Named} \cup {Boosted(belief), Reduced(belief)}
  /\ UNCHANGED <<date, purse>>

-----------------------------------------------------------------------------
IsLeap(y) == y % 4 = 0 /\ (y % 100 # 0 \/ y % 400 = 0)
DaysIn(y, m) ==
  IF m = 2 THEN IF IsLeap(y) THEN 29 ELSE 28
  ELSE IF m \in {4, 6, 9, 11} THEN 30 ELSE 31

(* datetime.replace raises for a day that the month does not have.         *)
IsDate(t) == t.m \in 1..12 /\ t.d \in 1..DaysIn(t.y, t.m)

ASSUME FirstDateAssumption ==
  /\ FirstDate = [y |-> FirstDate.y, m |-> FirstDate.m, d |-> FirstDate.d]
  /\ FirstDate.y \in Int /\ IsDate(FirstDate)

(* timedelta(days = n), for n of at most a month.                          *)
PlusDays(t, n) ==
  LET before == IF t.m = 1 THEN [y |-> t.y - 1, m |-> 12] ELSE [y |-> t.y, m |-> t.m - 1]
      after  == IF t.m = 12 THEN [y |-> t.y + 1, m |-> 1] ELSE [y |-> t.y, m |-> t.m + 1]
      d == t.d + n
  IN  IF d < 1 THEN [y |-> before.y, m |-> before.m, d |-> d + DaysIn(before.y, before.m)]
      ELSE IF d > DaysIn(t.y, t.m) THEN [y |-> after.y, m |-> after.m, d |-> d - DaysIn(t.y, t.m)]
      ELSE [t EXCEPT !.d = d]

PlusYears(t, n) == [t EXCEPT !.y = @ + n]

(* Mutated form: divmod of the month itself.                               *)
PlusMonthsFromZero(t, n) == [t EXCEPT !.y = @ + (t.m + n) \div 12, !.m = ((t.m + n) % 12) + 1]

(* divmod(new_month - 1, 12).                                              *)
PlusMonths(t, n) ==
  [t EXCEPT !.y = @ + (t.m + n - 1) \div 12, !.m = ((t.m + n - 1) % 12) + 1]

(* Timestamp.add and subtract, with one of days, years and months.         *)
Shifted(t, n) == {PlusDays(t, n)} \cup {s \in {PlusYears(t, n), PlusMonths(t, n)} : IsDate(s)}

DateMoves ==
  /\ \E n \in Shifts : date' \in {t \in Shifted(date, n) : t.y \in Years}
  /\ UNCHANGED <<belief, purse>>

-----------------------------------------------------------------------------
InCents(amount) == (amount + 4) \div 8   \* ROUND_HALF_UP

(* Money.subtract raises for more than there is, add does not; both raise  *)
(* for another currency.                                                   *)
Taken(p, n) == IF p.amount < n THEN {} ELSE {[p EXCEPT !.amount = @ - n]}
Added(p, n) == {[p EXCEPT !.amount = @ + n]}

(* multiply and divide by 2: the latter is exact for what is an even       *)
(* number of eighths.                                                      *)
Doubled(p) == {[p EXCEPT !.amount = @ * 2]}
Halved(p) == IF p.amount % 2 = 0 THEN {[p EXCEPT !.amount = @ \div 2]} ELSE {}

Spends ==
  /\ \E n \in Amounts :
       purse' \in {p \in Taken(purse, n) \cup Added(purse, n) \cup Doubled(purse) \cup Halved(purse) :
                     p.amount <= 4 * Max(Amounts)}
  /\ UNCHANGED <<belief, date>>

-----------------------------------------------------------------------------
DomainInit ==
  /\ policy = NewPolicy /\ wins = 0
  /\ now = 0 /\ report = NewReport /\ firstDone = None
  /\ market = [ongoing |-> TRUE, end |-> None, opportunities |-> 0]
  /\ signal = [impact |-> 50, verified |-> FALSE, related |-> {}]
  /\ belief = FromScore(50) /\ date = FirstDate
  /\ purse = [currency |-> "USD", amount |-> 0]

(* A policy's score is at most 91, whatever succeeds, and one that is      *)
(* effective has succeeded 6 times at least; strategies have one entry     *)
(* each, and the top one is as good as any.                                *)
PolicyLearns ==
  /\ policy.effectiveness \in 0..91
  /\ policy.effectiveness >= 70 => wins >= 6
  /\ IsInjective([i \in DOMAIN policy.strategies |-> policy.strategies[i].name])
  /\ policy.strategies # <<>> => \A s \in ToSet(policy.strategies) : s.rate <= TopStrategy.rate

(* A report that was ever completed was generated when it first was, also  *)
(* when it failed and was generated again since.                           *)
RecordsHold ==
  /\ report.generated = firstDone
  /\ report.status = "completed" \/ report.file => firstDone # None

(* Level and score of a confidence agree, boosting does not lower a score  *)
(* nor reducing raise one of 5 and more, and combining gives at most the   *)
(* higher one. What was moved by months is moved back by as many. Money is *)
(* not negative and shown to half a cent.                                  *)
ValuesHold ==
  /\ belief.level = LevelOf(belief.score) /\ belief.score \in 0..95
  /\ belief.score <= Boosted(belief).score
  /\ belief.score >= 5 => Reduced(belief).score <= belief.score
  /\ \A c \in Named : /\ Combined(belief, c) = Combined(c, belief)
                      /\ Combined(belief, c).score <= Max({belief.score, c.score})
  /\ IsDate(date)
  /\ \A n \in Shifts : IsDate(PlusMonths(date, n)) => PlusMonths(PlusMonths(date, n), -n) = date
  /\ \A n \in Shifts : PlusDays(PlusDays(date, n), -n) = date
  /\ purse.amount >= 0 /\ 2 * (8 * InCents(purse.amount) - purse.amount) \in -7..8
=============================================================================
