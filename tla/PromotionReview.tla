--------------------------- MODULE PromotionReview ---------------------------
(* The last steps of the review: candidate_validation stresses and ranks the    *)
(* relaxations, a_plus_override decides which blocks may be challenged, and      *)
(* production_promotion admits an early exit, an override or a memory bonus.     *)
EXTENDS BlockReview, EarlyFailure

CONSTANT Requests
  \* what promotion may be asked: [symbol, grade, confidence, failing, block, used,
  \* bonus, trade], `failing' naming the conditions that do not hold

VARIABLES
  request,   \* the request under review
  answers    \* what the three promotions answer

Worse(pf, win_rate, max_drawdown) == [pf |-> -pf, win_rate |-> -win_rate, max_drawdown |-> max_drawdown]

\* stress_shocks: spreads, slippage, latency, volatility, news.
StressShocks ==
  << {Worse(5, 45, 8), Worse(6, 55, 10), Worse(4, 35, 6), Worse(8, 75, 14), Worse(9, 95, 17)},
     {Worse(6, 45, 7), Worse(8, 65, 9), Worse(5, 35, 6), Worse(9, 80, 13), Worse(10, 100, 16)},
     {Worse(1, 5, 3), Worse(2, 10, 4), Worse(1, 8, 3), Worse(3, 18, 8), Worse(3, 20, 12)},
     {Worse(4, 25, 6), Worse(5, 35, 8), Worse(3, 20, 5), Worse(6, 45, 13), Worse(8, 55, 20)} >>

\* build_candidates: the third carries its own figures, whatever was simulated.
CandidateMetrics(i) ==
  IF i = 3 THEN [pf |-> 294, win_rate |-> 7325, trades |-> 158, max_drawdown |-> 384]
  ELSE ConditionalRelaxation(i)

Stressed(m, shock) ==
  [m EXCEPT !.pf = @ + shock.pf, !.win_rate = @ + shock.win_rate, !.max_drawdown = @ + shock.max_drawdown]

\* worst_stress_case: the largest drawdown, then the lowest profit factor and win rate.
WorstStressCase(i, metrics) ==
  LET cases == {Stressed(metrics, shock) : shock \in StressShocks[i]}
  IN CHOOSE m \in cases : \A n \in cases :
       \/ m.max_drawdown > n.max_drawdown
       \/ m.max_drawdown = n.max_drawdown /\ (m.pf < n.pf \/ (m.pf = n.pf /\ m.win_rate <= n.win_rate))

MeetsElite(m) == m.pf >= 290 /\ m.win_rate >= 7300 /\ m.max_drawdown < 400
StressPasses(i) == MeetsElite(WorstStressCase(i, CandidateMetrics(i)))

\* correlation_report, the mean over the four observers, for the first candidate only.
IndependentEdge == (2 * MapThenSumSet(ObserverCorrelation, OBSERVERS) + 4) \div 8 < 65

ClassifyCandidate(i) ==
  IF ~StressPasses(i) THEN "REJECTED"
  ELSE IF MeetsElite(CandidateMetrics(i)) /\ (i = 1 => IndependentEdge)
     THEN "APPROVED_FOR_FUTURE_REVIEW" ELSE "CONDITIONAL"

\* In thousandths.
PfDdEfficiency(m) ==
  LET increase == AtLeast(1, m.max_drawdown - ELITE.max_drawdown)
  IN (2000 * (m.pf - ELITE.pf) + increase) \div (2 * increase)

RankScore(i, m) ==
  LET decided == CASE ClassifyCandidate(i) = "APPROVED_FOR_FUTURE_REVIEW" -> 100000
                   [] ClassifyCandidate(i) = "CONDITIONAL" -> 50000
                   [] OTHER -> 0
  IN decided + (IF StressPasses(i) THEN 25000 ELSE 0) + 8 * PfDdEfficiency(m)
     + 20 * AtLeast(0, m.win_rate - ELITE.win_rate)
     + AtMost(10000, 500 * AtLeast(0, m.trades - ELITE.trades))
     - 150 * AtLeast(0, m.max_drawdown - ELITE.max_drawdown)

FirstRanked(score) ==
  CHOOSE i \in 1..4 : \A j \in 1..4 : score[i] > score[j] \/ (score[i] = score[j] /\ i <= j)
BestCandidate == FirstRanked([i \in 1..4 |-> RankScore(i, CandidateMetrics(i))])

\* classify_block_severity: by the reason, else by the guardrail or its stage.
SeverityByReason(name) ==
  CASE name \in {"kill_switch", "daily_loss_limit", "drawdown_limit", "broker_failure",
                 "execution_anomaly", "manual_hard_stop"} -> "CRITICAL"
    [] name \in {"major_spread_spike", "extreme_slippage", "high_impact_news", "risk_cap_breach",
                 "risk_lock", "risk", "spread_slippage", "killzone", "grade_lock"} -> "STRONG"
    [] name \in {"no_trade", "memory_penalty", "memory", "regime_uncertainty", "regime",
                 "symbol_lock", "symbol"} -> "MEDIUM"
    [] name \in {"minor_confidence_decay", "soft_hesitation", "secondary_noise"} -> "WEAK"
    [] OTHER -> "UNKNOWN"

\* The guardrail names the severity of all but "risk_block", whose stage is "risk_lock".
ClassifyBlockSeverity(reason) ==
  LET guardrail == GuardrailForBlock(reason)
  IN IF SeverityByReason(reason) # "UNKNOWN" THEN SeverityByReason(reason)
     ELSE SeverityByReason(IF guardrail = "risk_block" THEN "risk_lock" ELSE guardrail)

\* normalized_execution_ready makes of every A+ of 90 an execution-ready one.
OverrideEligible(s) ==
  /\ s.grade = "A+" /\ s.confidence >= 90
  /\ Attribution(s).execution_ready \/ (s.grade = "A+" /\ s.confidence >= 90)

OverrideDecision(s) ==
  IF ~OverrideEligible(s) THEN "NO_OVERRIDE"
  ELSE IF ClassifyBlockSeverity(s.reason) \in {"WEAK", "MEDIUM"} THEN "OVERRIDE_ALLOWED"
  ELSE "OVERRIDE_DENIED"

OVERRIDE_RECOVERY_LIMIT == 7
Allowed == {s \in Present : OverrideDecision(s) = "OVERRIDE_ALLOWED"}

\* a_plus_override_backtest and override_success, on the best of the allowed.
OverrideSuccess ==
  LET recovered == RankedCandidates(Allowed, OVERRIDE_RECOVERY_LIMIT)
      n == recovered.count
      winning == RankedCandidates({s \in Allowed : s.rr > 0}, OVERRIDE_RECOVERY_LIMIT).count
  IN /\ AtLeast(ELITE.pf, (291500 + AtMost(Mean(recovered, 20), 3600)) \div 1000) >= 290
     /\ AtLeast(ELITE.win_rate, (72725 + 75 * n) \div 10) >= 7300
     /\ ELITE.trades + n >= 158
     /\ AtMost(399, (3725 + 17 * n) \div 10) < 400
     /\ Percent(n - winning, n) < 1000

(* production_promotion.  A request names what it is for and the conditions that *)
(* fail; "approval" failing means that somebody asked to do without.            *)
PRODUCTION_SYMBOLS == {"XAUUSD", "US30"}
OVERRIDES_PER_SESSION == 2
MAX_BONUS == 5

\* efde_fps: of the signals reported at the zone the position is in now.
EfdeFps(r) == Fps(r.trade, AtLeast(1, AdverseZone(r.trade.adverse)))

EfdeReasons(r) ==
  (r.failing \cap {"active", "kill_switch", "approval", "autonomous"})
  \cup (IF r.symbol \in PRODUCTION_SYMBOLS THEN {} ELSE {"symbol"})
  \cup (IF r.trade.adverse >= ActivatedAt[1] THEN {} ELSE {"adverse"})
  \cup (IF EfdeFps(r) >= EXIT_THRESHOLD THEN {} ELSE {"fps"})

EvaluateEfdePosition(r) ==
  IF EfdeReasons(r) # {} \/ FpsClassification(EfdeFps(r)) = "HOLD" THEN "NO_ACTION"
  ELSE FpsClassification(EfdeFps(r))

\* position_manager.efde_early_exit_action: a WATCH is not passed on.
EfdeEarlyExitAction(r) == EvaluateEfdePosition(r) = "EARLY_EXIT_RECOMMENDED"

ProtectedBlocks ==
  {"symbol_lock", "risk_lock", "spread_lock", "kill_switch", "news_lock", "demo_live_restriction",
   "execution_anomaly"}

AdmitAPlusOverride(r, confidence) ==
  /\ r.symbol \in PRODUCTION_SYMBOLS /\ r.grade = "A+" /\ confidence >= 90
  /\ r.failing \cap {"execution_ready", "override_eligible", "risk", "kill_switch", "spread", "news",
                     "demo_live"} = {}
  /\ r.block \notin ProtectedBlocks /\ r.block \in {"", "portfolio_suppression"}
  /\ r.used < OVERRIDES_PER_SESSION

\* Mutated form: the bonus may carry a confidence over the threshold.
FreeEffectiveConfidence(r) ==
  IF r.failing \cap {"hard_rejection", "structure", "alignment", "confirmation", "regime"} = {}
  THEN AtMost(100, r.confidence + AtMost(AtLeast(r.bonus, 0), MAX_BONUS)) ELSE r.confidence

\* memory_soft_weighting: the confidence with the bonus.
EffectiveConfidence(r) ==
  LET allowed == r.failing \cap {"hard_rejection", "structure", "alignment", "confirmation", "regime"} = {}
      wanted == IF allowed THEN AtMost(AtLeast(r.bonus, 0), MAX_BONUS) ELSE 0
      bonus == IF allowed /\ r.confidence < 90 /\ r.confidence + wanted >= 90
               THEN AtLeast(0, 89 - r.confidence) ELSE wanted
  IN AtMost(100, r.confidence + bonus)

\* The bonus first: an override is admitted with the confidence it leaves.
Answers(r) ==
  [exit |-> EfdeEarlyExitAction(r),
   admitted |-> AdmitAPlusOverride(r, EffectiveConfidence(r)),
   confidence |-> EffectiveConfidence(r)]

PromotionInit ==
  /\ ReviewInit /\ EfdeInit
  /\ request \in Requests /\ answers = Answers(request)

AskPromotion == \E r \in Requests : request' = r /\ answers' = Answers(r)

PromotionTypeOK ==
  request \in Requests /\ answers.confidence \in 0..100 /\ {answers.exit, answers.admitted} \subseteq BOOLEAN

\* What the three promotions answer is what the engines behind them would: no
\* bonus opens an override or reaches a blocked setup; what is admitted is a
\* block the override engine lets challenge, with every figure it asks for; a
\* position is advised to leave where the replay of the trade leaves it, at that
\* checkpoint, and nothing is ever told to watch.
PromotionsKeepTheirBounds ==
  /\ answers.admitted =>
       /\ request.confidence >= 90
       /\ request.block # "" => ClassifyBlockSeverity(request.block) \in {"WEAK", "MEDIUM"}
       /\ request.failing \cap {"risk", "kill_switch", "spread", "news"} = {}
  /\ answers.confidence > request.confidence =>
       request.failing \cap {"hard_rejection", "structure"} = {} /\ answers.confidence <= request.confidence + 5
  /\ answers.exit => request.failing \cap {"active", "kill_switch"} = {}
  /\ request.symbol \in PRODUCTION_SYMBOLS /\ request.failing = {} =>
       (answers.exit <=> AdverseZone(request.trade.adverse) \in Exits(request.trade))
  /\ EvaluateEfdePosition(request) # "WATCH"

\* Results up to 3 R decide nothing: whatever was blocked, the stress test rejects
\* three of the four relaxations and approves the one with figures of its own,
\* and the override succeeds by counting winners, not losers.
CandidatesAreDecidedBeforehand ==
  /\ ClassifyCandidate(3) = "APPROVED_FOR_FUTURE_REVIEW" /\ BestCandidate = 3
  /\ \A i \in {1, 2, 4} : ClassifyCandidate(i) = "REJECTED"
  /\ OverrideSuccess <=> Number({s \in Allowed : s.rr > 0}) >= OVERRIDE_RECOVERY_LIMIT
=============================================================================
