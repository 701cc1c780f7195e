------------------------------ MODULE Learning -------------------------------
(***************************************************************************)
(* core/infrastructure/ml: the anomaly detectors, the market analysis, the *)
(* forecasts and the preprocessing of data.                                *)
(*                                                                         *)
(* All of it is synchronous: a call is one step. Data are integers, and a  *)
(* fraction is compared by multiplying out. NaN is NoValue.                *)
(***************************************************************************)
EXTENDS Integers, SequencesExt, FiniteSetsExt, Lists

CONSTANTS
  Baselines,    \* lists given to StatisticalAnomalyDetector.fit
  Trainings,    \* lists given to IsolationForestDetector.fit, of one feature
  Observations, \* values observed
  Segments,     \* segment ids
  Competitors,  \* competitor ids
  Shares,       \* market shares, in per cent
  Points,       \* values of series
  MaxData,      \* bound: observations, calls of the market analysis
  MaxSeries,    \* bound: length of a series
  RsiPeriod,    \* period of _calculate_rsi (14)
  TrendWindow   \* window of detect_trend (6)

NoValue == -1 \* data are not negative

ASSUME LearningAssumption ==
  /\ Observations \cup Shares \cup Points \subseteq Nat
  /\ Baselines \cup Trainings \subseteq Seq(Nat)
  /\ {MaxData, MaxSeries} \subseteq Nat /\ {RsiPeriod, TrendWindow} \subseteq Nat \ {0}

VARIABLES
  baseline,    \* the data of baseline_mean and baseline_std, <<>> for None
  training,    \* training_data
  lastScore,   \* anomaly_scores[0], as a fraction, or <<>>
  segments, totalSize, segmentsMade,  \* MarketSegmentation, and history: its segments
  profiles, moves,                    \* CompetitorAnalysis
  points,      \* a list of data
  fitted,      \* training_data of the one forecaster: the number of the call that fitted it
  forecasts    \* history: calls of the predictors, with the call whose data they forecast

detectorVars == <<baseline, training, lastScore>>
marketVars   == <<segments, totalSize, segmentsMade, profiles, moves>>
predictorVars == <<fitted, forecasts>>
learningVars == <<detectorVars, marketVars, points, predictorVars>>

LearningInit ==
  /\ baseline = <<>> /\ training = <<>> /\ lastScore = <<>>
  /\ segments = <<>> /\ totalSize = 0 /\ segmentsMade = <<>> /\ profiles = <<>> /\ moves = <<>>
  /\ points = <<>> /\ fitted = 0 /\ forecasts = <<>>

Total(s) == FoldSeq(LAMBDA x, sum : sum + x, 0, s)
Squares(s) == FoldSeq(LAMBDA x, sum : sum + x * x, 0, s)
Distance(a, b) == IF a > b THEN a - b ELSE b - a

-----------------------------------------------------------------------------
(* StatisticalAnomalyDetector.fit and IsolationForestDetector.fit: with    *)
(* too little data the earlier fit stays, and so do the scores in any case.*)
Setup(data, features) ==
  /\ baseline' = IF Len(data) < 2 THEN baseline ELSE data
  /\ training' = IF features = <<>> THEN training ELSE features
  /\ UNCHANGED lastScore

(* Whether |value - mean| / std is above q / 2, for which std must not be  *)
(* 0. With a sensitivity of 2.5, q is 5; from 3 on the severity is high.   *)
Deviates(v, q) ==
  LET n == Len(baseline)
      spread == n * Squares(baseline) - Total(baseline) * Total(baseline)
  IN  n > 0 /\ spread > 0 /\ 4 * (n * v - Total(baseline)) * (n * v - Total(baseline)) > q * q * spread

(* _calculate_isolation_score: the least distance over the mean one.       *)
IsolationScore(x) ==
  LET apart == {Distance(training[i], x) : i \in DOMAIN training}
      sum == FoldSeq(LAMBDA t, s : s + Distance(t, x), 0, training)
  IN  IF training = <<>> \/ sum = 0 THEN <<0, 1>> ELSE <<Len(training) * Min(apart), sum>>
Exceeds(p, q) == p[1] * q[2] > q[1] * p[2]

(* IsolationForestDetector.detect of a list of one: the threshold is from  *)
(* the scores there were before, which is the last one, or 1.0.            *)
Isolated(x) ==
  training # <<>> /\ Exceeds(IsolationScore(x), IF lastScore = <<>> THEN <<1, 1>> ELSE lastScore)

(* RealTimeAnomalyDetector.detect: what it finds is only listed, the score *)
(* stays.                                                                  *)
Detect(x) ==
  /\ lastScore' = IF training = <<>> THEN lastScore ELSE IsolationScore(x)
  /\ UNCHANGED <<baseline, training>>

DetectorNext ==
  \/ \E data \in Baselines, features \in Trainings : Setup(data, features)
  \/ \E x \in Observations : Detect(x)

-----------------------------------------------------------------------------
With(d, k, v) == [x \in DOMAIN d \cup {k} |-> IF x = k THEN v ELSE d[x]]

(* create_segment: of an id there is already, its size is counted again.   *)
CreateSegment(i, size) ==
  /\ Len(segmentsMade) < MaxData /\ segmentsMade' = Append(segmentsMade, i)
  /\ segments' = With(segments, i, [size |-> size, listed |-> 0, share |-> <<>>])
  /\ totalSize' = totalSize + size
  /\ UNCHANGED <<profiles, moves>>

(* add_competitor_to_segment: listed once more each time, with one share.  *)
AddCompetitor(i, c, share) ==
  /\ i \in DOMAIN segments /\ segments[i].listed < MaxData
  /\ segments' = [segments EXCEPT ![i].listed = @ + 1, ![i].share = With(@, c, share)]
  /\ UNCHANGED <<totalSize, segmentsMade, profiles, moves>>

(* register_competitor: anew, without activities and with no threat.       *)
RegisterCompetitor(c, share, position) ==
  /\ profiles' = With(profiles, c, [share |-> share, position |-> position, activities |-> 0, threat |-> 0])
  /\ UNCHANGED <<segments, totalSize, segmentsMade, moves>>

(* _calculate_threat_level, in thousandths.                                *)
ThreatLevel(p) ==
  Min({1000, 5 * p.share
             + (CASE p.position = "leader" -> 300 [] p.position = "challenger" -> 240
                  [] p.position = "follower" -> 150 [] OTHER -> 90)
             + (200 * Min({p.activities, 3})) \div 3})

(* record_competitive_move: of one who is not registered only the move.    *)
RecordMove(c) ==
  /\ Len(moves) < MaxData /\ moves' = Append(moves, c)
  /\ profiles' = IF c \notin DOMAIN profiles THEN profiles
                 ELSE LET p == [profiles[c] EXCEPT !.activities = @ + 1]
                      IN  [profiles EXCEPT ![c] = [p EXCEPT !.threat = ThreatLevel(p)]]
  /\ UNCHANGED <<segments, totalSize, segmentsMade>>

MarketNext ==
  \/ \E i \in Segments, size \in Shares : CreateSegment(i, size)
  \/ \E i \in Segments, c \in Competitors, s \in Shares : AddCompetitor(i, c, s)
  \/ \E c \in Competitors :
       \/ \E s \in Shares, p \in {"leader", "niche"} : RegisterCompetitor(c, s, p)
       \/ RecordMove(c)

-----------------------------------------------------------------------------
(* TimeSeriesForecaster.fit: less than two values are passed over, and the *)
(* data fitted before stay.                                                *)
Fitted(n, call) == IF n < 2 THEN fitted ELSE call

(* predict_market_movement and forecast_competitor_movement want five      *)
(* values, predict_market_size one, predict_competitor_share none. All use *)
(* the forecaster of the MarketPredictor.                                  *)
Wanted(what) == CASE what = "movement" -> 5 [] what = "size" -> 1 [] OTHER -> 0

Predict(what, n) ==
  LET call == Len(forecasts) + 1
      asks == n >= Wanted(what)
  IN  /\ call <= MaxData
      /\ fitted' = IF asks THEN Fitted(n, call) ELSE fitted
      /\ forecasts' = Append(forecasts, [n |-> n, of |-> IF asks THEN fitted' ELSE 0])

PredictorNext == \E what \in {"movement", "size", "share"}, n \in {0, 1, 2, 5} : Predict(what, n)

-----------------------------------------------------------------------------
(* record_market_share, record_trend_data: the next value, or none of it.  *)
SeriesNext ==
  /\ Len(points) < MaxSeries
  /\ \E v \in Points \cup {NoValue} : points' = Append(points, v)

Present(s) == Only(s, ToSet(s) \ {NoValue})
LastOf(s, n) == SubSeq(s, Max({1, Len(s) - n + 1}), Len(s))

(* polyfit of degree 1 as a fraction.                                      *)
Slope(s) ==
  LET n == Len(s)
      xs == (n * (n - 1)) \div 2
  IN  <<n * Total([i \in DOMAIN s |-> (i - 1) * s[i]]) - xs * Total(s),
        n * ((n * (n - 1) * (2 * n - 1)) \div 6) - xs * xs>>

(* detect_trend of TrendAnalyzer.                                          *)
Trend(s) ==
  LET slope == Slope(LastOf(s, TrendWindow))
  IN  IF Len(s) < 3 THEN "insufficient_data"
      ELSE IF 100 * slope[1] > slope[2] THEN "upward"
      ELSE IF 100 * slope[1] < -slope[2] THEN "downward" ELSE "stable"

(* _forecast_next_value with exponential smoothing, as a fraction: 0.3 of  *)
(* the last value, 0.7 of the mean of the last five, and the trend.        *)
Forecast(s) ==
  LET recent == LastOf(s, 5)
      slope == Slope(s)
  IN  <<slope[2] * (3 * Last(s) * Len(recent) + 7 * Total(recent)) + 10 * Len(recent) * slope[1],
        10 * Len(recent) * slope[2]>>

(* resample_data: the mean of each n values, the last of what is left.     *)
Resampled(s, n) ==
  [i \in 1..((Len(s) + n - 1) \div n) |->
     LET part == SubSeq(s, (i - 1) * n + 1, Min({i * n, Len(s)})) IN <<Total(part), Len(part)>>]

(* predict_market_consolidation: is_consolidating, and the mean change.    *)
Consolidating(s) == s[1] > 0 /\ 100 * (s[1] - Last(s)) > 5 * s[1]
MeanChange(s) == <<Total([i \in 1..(Len(s) - 1) |-> s[i + 1] - s[i]]), Len(s) - 1>>

(* _calculate_rsi, as a fraction.                                          *)
Rsi(s) ==
  LET last == LastOf(s, RsiPeriod + 1)
      gain == Total([i \in 1..(Len(last) - 1) |-> Max({0, last[i + 1] - last[i]})])
      loss == Total([i \in 1..(Len(last) - 1) |-> Max({0, last[i] - last[i + 1]})])
  IN  IF Len(s) < RsiPeriod + 1 \/ gain + loss = 0 THEN <<50, 1>> ELSE <<100 * gain, gain + loss>>

(* _detect_spikes: a rise by more than half, then a fall by more than 30%. *)
(* Where the value between is 0 the division raises.                       *)
Spikes(s) ==
  {i \in 2..(Len(s) - 1) :
     /\ s[i - 1] > 0 /\ s[i + 1] > 0
     /\ 2 * (s[i] - s[i - 1]) > s[i - 1]
     /\ 10 * (s[i + 1] - s[i]) < -3 * s[i]}

(* remove_outliers by "iqr": what is more than 1.5 of the quartiles' range *)
(* outside of them goes. A quartile is interpolated: four times it here.   *)
Quartile(s, q) ==
  LET p == q * (Len(s) - 1)
  IN  (4 - (p % 4)) * Ranked(s, (p \div 4) + 1) + (p % 4) * Ranked(s, Min({(p \div 4) + 2, Len(s)}))
WithoutOutliers(s) ==
  LET range == Quartile(s, 3) - Quartile(s, 1)
      inside == {x \in ToSet(s) : /\ 8 * x >= 2 * Quartile(s, 1) - 3 * range
                                  /\ 8 * x <= 2 * Quartile(s, 3) + 3 * range}
  IN  IF Len(s) < 4 THEN s ELSE Only(s, inside)
-----------------------------------------------------------------------------
(* A detector does not report what it was fitted to: whatever it has seen  *)
(* since, no value it was trained on is isolated, and none of a baseline   *)
(* of at most 7 values deviates from that.                                 *)
DetectorKnows ==
  /\ \A i \in DOMAIN training : ~Isolated(training[i])
  /\ Len(baseline) <= 7 => \A i \in DOMAIN baseline : ~Deviates(baseline[i], 5)

(* The size of the market is that of its segments unless one was made      *)
(* twice, when it is more or the same. A competitor's activities are its   *)
(* moves since it was registered, and its threat is that of its profile.   *)
MarketAddsUp ==
  LET sizes == FoldFunction(LAMBDA x, sum : sum + x, 0, [i \in DOMAIN segments |-> segments[i].size])
      own(c) == Len(Only(moves, {c}))
  IN  /\ totalSize >= sizes
      /\ IsInjective(segmentsMade) => totalSize = sizes
      /\ \A i \in DOMAIN segments : Cardinality(DOMAIN segments[i].share) <= segments[i].listed
      /\ \A c \in DOMAIN profiles :
           /\ profiles[c].activities <= own(c)
           /\ profiles[c].threat = IF profiles[c].activities = 0 THEN 0 ELSE ThreatLevel(profiles[c])

(* Trend, forecast and RSI of a series: turned round, trend and RSI turn   *)
(* too; a constant added is added to the forecast. Two neighbours are      *)
(* never both spikes, and at least half of the values are no outliers.     *)
SeriesHold ==
  LET s == Present(points)
      turned == Reverse(s)
      more == [i \in DOMAIN s |-> s[i] + 1]
  IN  /\ Len(s) \in 3..TrendWindow =>
           /\ Trend(s) = "upward" <=> Trend(turned) = "downward"
           /\ Forecast(more)[1] = Forecast(s)[1] + Forecast(s)[2]
      /\ Len(s) = RsiPeriod + 1 => Rsi(s)[1] * Rsi(turned)[2] + Rsi(turned)[1] * Rsi(s)[2]
                                     = 100 * Rsi(s)[2] * Rsi(turned)[2]
      /\ \A i \in Spikes(s) : i + 1 \notin Spikes(s)
      /\ 2 * Len(WithoutOutliers(s)) >= Len(s)

(* Resampling by any number keeps the sum of a series and its bounds, also *)
(* where the last of the parts is shorter; and a market that consolidates  *)
(* loses competitors on the mean.                                          *)
SeriesMeasured ==
  LET s == Present(points)
  IN  s # <<>> =>
        /\ \A n \in 2..3 :
             /\ Total([i \in DOMAIN Resampled(s, n) |-> Resampled(s, n)[i][1]]) = Total(s)
             /\ \A i \in DOMAIN Resampled(s, n) :
                  ~Exceeds(Resampled(s, n)[i], <<Max(ToSet(s)), 1>>) /\ ~Exceeds(<<Min(ToSet(s)), 1>>, Resampled(s, n)[i])
        /\ Len(s) > 1 /\ Consolidating(s) => MeanChange(s)[1] < 0

(* A prediction is from the data it was given unless those were less than  *)
(* two values: then it is from the last call, of whatever kind, that gave  *)
(* more, and without one there is none.                                    *)
PredictsFromOwn ==
  \A k \in DOMAIN forecasts :
    LET call == forecasts[k]
    IN  /\ call.n > 1 => call.of \in {0, k}
        /\ call.of \notin {0, k} => /\ call.n < 2 /\ forecasts[call.of].of = call.of
                                    /\ \A j \in (call.of + 1)..k : forecasts[j].of # j
=============================================================================
