---------------------------- MODULE EarlyFailure ----------------------------
(* backend/early_failure_detection: finished trades are replayed with an     *)
(* early exit at 30 % or 50 % of adverse movement, once to say what the exits *)
(* saved and once, checkpoint by checkpoint, to learn the threshold.  Results *)
(* are in hundredths of R, signals in tenths.                                 *)
EXTENDS Integers, FiniteSetsExt

CONSTANTS
  Trades,      \* shapes of trades: [rr, adverse, signals, cluster], signals for each zone
  Copies,      \* how many trades of one shape there may be
  MAX_TRADES_REPLAYED

VARIABLE book   \* how many trades of each shape were replayed

Weights ==
  [structure_invalidation |-> 22, momentum_failure |-> 18, regime_failure |-> 16,
   time_failure |-> 12, execution_friction |-> 12, retest_failure |-> 20]
EXIT_THRESHOLD == 75
ActivatedAt == <<30, 50>>
ExitAt == <<-32, -50>>

AdverseZone(adverse) == Cardinality({z \in 1..2 : adverse >= ActivatedAt[z]})

\* Each weighted signal is rounded for itself.
FailureProbabilityScore(signals) ==
  LET score == MapThenSumSet(LAMBDA s : (signals[s] * Weights[s] + 5) \div 10, DOMAIN signals)
  IN Max({0, Min({100, score})})

FpsClassification(fps) ==
  IF fps >= EXIT_THRESHOLD THEN "EARLY_EXIT_RECOMMENDED" ELSE IF fps >= 40 THEN "WATCH" ELSE "HOLD"

Checkpoints(t) == 1..AdverseZone(t.adverse)
Scores == [t \in Trades |-> [z \in 1..2 |-> FailureProbabilityScore(t.signals[z])]]
Fps(t, zone) == Scores[t][zone]
Exits(t) == {z \in Checkpoints(t) : FpsClassification(Fps(t, z)) = "EARLY_EXIT_RECOMMENDED"}

\* The trade leaves at the first checkpoint that says so.
Exited(t) == Exits(t) # {}
EfdeRr(t) == IF Exited(t) THEN ExitAt[Min(Exits(t))] ELSE t.rr
FalseExit(t) == Exited(t) /\ t.rr > 0

\* Mutated form: what an exit made worse is counted against what it saved.
SavedLossEitherWay(t) == IF t.rr < 0 THEN EfdeRr(t) - t.rr ELSE 0

SavedLoss(t) == IF t.rr < 0 THEN Max({0, EfdeRr(t) - t.rr}) ELSE 0
MissedWinner(t) == IF FalseExit(t) THEN Max({0, t.rr - EfdeRr(t)}) ELSE 0

Replayed == {t \in Trades : book[t] > 0}
Count(chosen) == MapThenSumSet(LAMBDA t : book[t], chosen)
Least(a, b) == IF a <= b THEN a ELSE b

\* efde_summary and enhanced_metrics: the figures of the original book are moved
\* by what was saved; the share of false exits is in hundredths of a percent.
EfdeSummary ==
  LET exits == Count({t \in Replayed : Exited(t)})
      false == Count({t \in Replayed : FalseExit(t)})
      saved == MapThenSumSet(LAMBDA t : book[t] * SavedLoss(t), Replayed)
  IN [exits |-> exits, false_exits |-> false, saved |-> saved,
      missed |-> MapThenSumSet(LAMBDA t : book[t] * MissedWinner(t), Replayed),
      false_exit_rate |-> IF exits = 0 THEN 0 ELSE (20000 * false + exits) \div (2 * exits),
      pf_delta |-> (Least(32000, saved * 18) + 500) \div 1000,
      wr_delta |-> -15,
      dd_delta |-> -((Least(62000, saved * 35) + 500) \div 1000),
      average_loss |-> -100 + (Least(50000, saved * 30) + 500) \div 1000]

EfdePasses ==
  LET s == EfdeSummary
  IN s.pf_delta > 0 /\ s.dd_delta < 0 /\ s.wr_delta >= -100 /\ s.false_exit_rate < 500 /\ s.average_loss > -100

\* One record of every checkpoint reached, the later one of an exited trade too.
LearningRecords == {r \in Replayed \X (1..2) : r[2] \in Checkpoints(r[1])}

CorrectnessLabel(t, zone) ==
  CASE zone \in Exits(t) /\ t.rr < 0 -> "CORRECT_EXIT"
    [] zone \in Exits(t) /\ t.rr >= 0 -> "FALSE_EXIT"
    [] zone \notin Exits(t) /\ t.rr < 0 /\ ~Exited(t) -> "MISSED_EXIT"
    [] OTHER -> "CORRECT_HOLD"

Labelled(label) == {r \in LearningRecords : CorrectnessLabel(r[1], r[2]) = label}
LabelCount(label) == MapThenSumSet(LAMBDA r : book[r[1]], Labelled(label))
Clusters(label) == {r[1].cluster : r \in Labelled(label)}

\* calibration_row: the share of records of one cluster labelled correct.
CalibrationRow(cluster) ==
  LET records == {r \in LearningRecords : r[1].cluster = cluster}
      Size(set) == MapThenSumSet(LAMBDA r : book[r[1]], set)
  IN [evaluations |-> Size(records),
      correct |-> Size(records \cap (Labelled("CORRECT_EXIT") \cup Labelled("CORRECT_HOLD")))]

RecommendedThreshold ==
  LET Reached(label) == {Fps(r[1], r[2]) : r \in Labelled(label)}
      false == Reached("FALSE_EXIT")
      missed == Reached("MISSED_EXIT")
  IN IF false # {} THEN Least(90, Max(false) + 7)
     ELSE IF missed # {} THEN Max({65, Min(missed) - 5})
     ELSE EXIT_THRESHOLD

CalibrationConfidence ==
  LET records == MapThenSumSet(LAMBDA r : book[r[1]], LearningRecords)
  IN IF records >= 50 /\ Clusters("FALSE_EXIT") \cup Clusters("MISSED_EXIT") = {} THEN "HIGH"
     ELSE IF records >= 25 THEN "MEDIUM" ELSE "LOW"

EfdeInit == book = [t \in Trades |-> 0]

ReplayTrades ==
  \E t \in Trades, n \in Copies :
    /\ book[t] = 0 /\ Count(Trades) + n <= MAX_TRADES_REPLAYED
    /\ book' = [book EXCEPT ![t] = n]

EfdeTypeOK == book \in [Trades -> 0..MAX_TRADES_REPLAYED] /\ EfdeSummary.false_exit_rate \in 0..10000

Shallow == {t \in Replayed : Exited(t) /\ t.rr <= 0 /\ EfdeRr(t) < t.rr}

\* The review and the learning memory are two accounts of the same exits.  What
\* the exits change is what was saved less what was missed and less what neither
\* report mentions, losses smaller than the exit; a PASS asks for 0.28 R saved
\* and a share of false exits below 4.995 %, which is 5 % as the report rounds
\* it, whatever those cost.  The two agree on false exits but for trades that
\* broke even, and for a trade's second recommendation, after it has left.  The
\* recommended threshold spares every false exit scored below its ceiling, and is
\* high-confidence only when nothing that reached a checkpoint was labelled wrong.
EarlyExitsAreAccounted ==
  LET s == EfdeSummary
  IN /\ MapThenSumSet(LAMBDA t : book[t] * (EfdeRr(t) - t.rr), Replayed)
          = s.saved - s.missed - MapThenSumSet(LAMBDA t : book[t] * (t.rr - EfdeRr(t)), Shallow)
     /\ EfdePasses <=> s.saved >= 28 /\ 20000 * s.false_exits < 999 * s.exits
     /\ LabelCount("FALSE_EXIT") - s.false_exits
          = Count({t \in Replayed : Exited(t) /\ t.rr = 0})
            + Count({t \in Replayed : t.rr >= 0 /\ Cardinality(Exits(t)) = 2})
     /\ \A r \in Labelled("FALSE_EXIT") : Fps(r[1], r[2]) < 90 => Fps(r[1], r[2]) < RecommendedThreshold
     /\ Labelled("FALSE_EXIT") = {} =>
          \A r \in Labelled("MISSED_EXIT") : Fps(r[1], r[2]) >= 65 => Fps(r[1], r[2]) >= RecommendedThreshold
     /\ CalibrationConfidence = "HIGH" =>
          \A t \in Replayed : CalibrationRow(t.cluster).correct = CalibrationRow(t.cluster).evaluations
=============================================================================
