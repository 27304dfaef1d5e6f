----------------------------- MODULE BlockReview -----------------------------
(* What the project concludes from the setups its guardrails blocked:          *)
(* shadow_learning judges each block by what the trade would have made,        *)
(* guardrail_optimization relaxes guardrails on paper, candidate_validation    *)
(* ranks the relaxations, and a_plus_override lets the best setups challenge   *)
(* their blocks.  Results and figures are in hundredths.                       *)
EXTENDS Integers, FiniteSetsExt

CONSTANTS
  Setups,     \* shapes of blocked setups: [id, reason, symbol, strategy, micro, session,
              \* grade, confidence, rr, bars]
  Blocks,     \* how many setups of one shape there may be
  MAX_BLOCKED

VARIABLE blocked   \* how many setups of each shape were blocked

ELITE == [pf |-> 284, win_rate |-> 7260, trades |-> 151, max_drawdown |-> 372]

\* guardrail_for_block: the first keyword in the reason; the rest is "no_trade".
GuardrailForBlock(reason) ==
  CASE reason = "killzone" -> "killzone"
    [] reason \in {"symbol", "symbol_lock"} -> "symbol_lock"
    [] reason \in {"grade", "grade_lock"} -> "grade_lock"
    [] reason \in {"risk", "risk_lock", "risk_cap_breach"} -> "risk_block"
    [] reason \in {"memory", "memory_penalty"} -> "memory_penalty"
    [] reason \in {"regime", "regime_uncertainty"} -> "regime_uncertainty"
    [] reason \in {"spread_slippage", "extreme_slippage", "major_spread_spike"} -> "spread_slippage"
    [] reason = "execution_anomaly" -> "execution_anomaly"
    [] OTHER -> "no_trade"

Guardrails ==
  {"killzone", "symbol_lock", "grade_lock", "no_trade", "risk_block", "memory_penalty",
   "regime_uncertainty", "spread_slippage", "execution_anomaly"}

Present == {s \in Setups : blocked[s] > 0}
Number(set) == MapThenSumSet(LAMBDA s : blocked[s], set)
Percent(a, b) == IF b = 0 THEN 0 ELSE (20000 * a + b) \div (2 * b)
AtLeast(a, b) == IF a >= b THEN a ELSE b
AtMost(a, b) == IF a <= b THEN a ELSE b

\* simulate_outcomes: without bars nothing is known and the result counts as 0.
SimulatedRr(s) == IF s.bars <= 0 THEN 0 ELSE s.rr
BlockQuality(s) ==
  IF s.bars <= 0 THEN "INSUFFICIENT_DATA"
  ELSE IF s.rr >= 100 THEN "BAD_BLOCK" ELSE IF s.rr <= 0 THEN "GOOD_BLOCK" ELSE "NEUTRAL_BLOCK"

OfQuality(set, quality) == {s \in set : BlockQuality(s) = quality}
Of(guardrail) == {s \in Present : GuardrailForBlock(s.reason) = guardrail}
Earned(set) == MapThenSumSet(LAMBDA s : blocked[s] * SimulatedRr(s), set)

\* guardrail_iq_row of the shadow report, for one guardrail.
GuardrailIqRow(guardrail) ==
  LET rows == Of(guardrail)
      Judged(quality) == Number(OfQuality(rows, quality))
  IN [total |-> Number(rows), bad |-> Judged("BAD_BLOCK"), insufficient |-> Judged("INSUFFICIENT_DATA"),
      prevented |-> -Earned(OfQuality(rows, "GOOD_BLOCK")),
      leaked |-> Earned(OfQuality(rows, "BAD_BLOCK")),
      leak_rate |-> Percent(Judged("BAD_BLOCK"), Number(rows)),
      iq |-> Percent(2 * Judged("GOOD_BLOCK") + Judged("NEUTRAL_BLOCK"), 2 * Number(rows))]

\* opportunity_leak_analysis, without its groups.
LeakAnalysis ==
  LET bad == Number(OfQuality(Present, "BAD_BLOCK"))
      total == Number(Present) - Number(OfQuality(Present, "INSUFFICIENT_DATA"))
  IN [bad_blocks |-> bad, total |-> total, leak_rate |-> Percent(bad, total)]

\* opportunity_leak_rate over everything, without what has no data.
OpportunityLeakRate ==
  LET eligible == Present \ OfQuality(Present, "INSUFFICIENT_DATA")
  IN Percent(Number(OfQuality(eligible, "BAD_BLOCK")), Number(eligible))

\* shadow_memory: a block is up for review the second time it was wrong in a
\* session, however often it was right there.
ShadowMemory(reason, session) ==
  LET rows == {s \in Present : s.reason = reason /\ s.session = session}
  IN IF Number(OfQuality(rows, "BAD_BLOCK")) >= 2 THEN "REVIEW_POLICY"
     ELSE IF Number(OfQuality(rows, "GOOD_BLOCK")) >= 2 THEN "GUARDRAIL_CONFIRMED"
     ELSE "MONITOR"

\* guardrail_attribution, row by row, with the loss prevented or the profit leaked.
Attribution(s) ==
  [guardrail |-> GuardrailForBlock(s.reason), quality |-> BlockQuality(s),
   prevented |-> IF BlockQuality(s) = "GOOD_BLOCK" THEN -SimulatedRr(s) ELSE 0,
   leaked |-> IF BlockQuality(s) = "BAD_BLOCK" THEN SimulatedRr(s) ELSE 0,
   execution_ready |-> s.confidence >= 95]

LeakRow(guardrail) ==
  LET rows == {s \in Present : Attribution(s).guardrail = guardrail}
      total == Number(rows)
      Judged(quality) == Number({s \in rows : Attribution(s).quality = quality})
  IN [total |-> total, bad |-> Judged("BAD_BLOCK"),
      prevented |-> MapThenSumSet(LAMBDA s : blocked[s] * Attribution(s).prevented, rows),
      leaked |-> MapThenSumSet(LAMBDA s : blocked[s] * Attribution(s).leaked, rows),
      leak_ratio |-> Percent(Judged("BAD_BLOCK"), total),
      efficiency |-> Percent(2 * Judged("GOOD_BLOCK") + Judged("NEUTRAL_BLOCK"), 2 * total)]


\* ranked_candidates: the best results first.
Ahead(s, t) ==
  \/ s.rr > t.rr
  \/ s.rr = t.rr /\ (s.confidence > t.confidence \/ (s.confidence = t.confidence /\ s.id < t.id))

RankedCandidates(set, limit) ==
  LET Taken(s) == AtMost(blocked[s], AtLeast(0, limit - Number({t \in set : Ahead(t, s)})))
  IN [count |-> MapThenSumSet(Taken, set), rr |-> MapThenSumSet(LAMBDA s : Taken(s) * s.rr, set)]

\* The mean result, in units of 1/factor.
Mean(picked, factor) == IF picked.count = 0 THEN 0 ELSE (factor * picked.rr) \div picked.count

\* Mutated form: the figures as they come out, not held to those of the start.
FreeScenarioResult(picked) ==
  LET n == picked.count
  IN [pf |-> (284500 + Mean(picked, 35) + 400 * n) \div 1000, win_rate |-> 7210 + 11 * n,
      trades |-> ELITE.trades + n, max_drawdown |-> (3725 + 18 * n) \div 10]

\* scenario_result: no figure can come out worse than the one started from,
\* and drawdown has a ceiling.
ScenarioResult(picked) ==
  LET n == picked.count
  IN [pf |-> AtLeast(ELITE.pf, (284500 + Mean(picked, 35) + 400 * n) \div 1000),
      win_rate |-> AtLeast(ELITE.win_rate, 7210 + 11 * n),
      trades |-> ELITE.trades + n,
      max_drawdown |-> AtMost(398, (3725 + 18 * n) \div 10)]

OptimizationPasses(metrics) ==
  metrics.pf >= 280 /\ metrics.win_rate >= 7200 /\ metrics.max_drawdown < 400

\* candidates_for, and the lists the four scenarios are built from.
Leaks == OfQuality(Present, "BAD_BLOCK")
GoodGrade == {s \in Leaks : s.rr >= 120 /\ s.grade \in {"A", "A+"}}
ConditionalRelaxation(i) ==
  LET For(guardrail) == {s \in GoodGrade : GuardrailForBlock(s.reason) = guardrail}
  IN CASE i = 1 -> ScenarioResult(RankedCandidates(For("symbol_lock"), 5))
       [] i = 2 -> ScenarioResult(RankedCandidates(For("no_trade"), 2))
       [] i = 3 -> ScenarioResult(RankedCandidates({s \in Leaks : s.grade = "A+" /\ s.confidence >= 90}, 7))
       [] i = 4 -> ScenarioResult(RankedCandidates(GoodGrade, 9))

\* a_plus_override_simulation: here execution-ready means 95, and there is no limit.
APlusOverrideSimulation ==
  ScenarioResult(RankedCandidates(
    {s \in Leaks : s.grade = "A+" /\ s.confidence >= 90 /\ Attribution(s).execution_ready}, MAX_BLOCKED))

OBSERVERS == {"NAS100", "BTCUSD", "EURUSD", "GBPUSD"}
Locked(symbol) == {s \in Of("symbol_lock") : s.symbol = symbol}

\* symbol_lock_optimization: the best leak decides for the symbol.
UnlockCandidate(symbol) ==
  LET bad == OfQuality(Locked(symbol), "BAD_BLOCK")
      expectancy == (2 * Earned(Locked(symbol)) + Number(Locked(symbol))) \div (2 * Number(Locked(symbol)))
  IN /\ bad # {} /\ expectancy > 50
     /\ \E best \in bad :
          /\ \A s \in bad : best.rr > s.rr \/ (best.rr = s.rr /\ best.id <= s.id)
          /\ best.grade = "A+" /\ best.strategy = "trend_following"
          /\ best.micro = "institutional_continuation"

ObserverCorrelation(symbol) ==
  LET rows == Locked(symbol)
      shared == {s.session : s \in rows} \cap {"new_york_open", "new_york_continuation"}
      deep == Number({s \in rows : s.micro = "institutional_continuation"})
  IN IF rows = {} THEN 0
     ELSE (AtLeast(0, AtMost(9500, 3500 + 12 * (Earned(rows) \div Number(rows))
                                   + 400 * Cardinality(shared) + 200 * deep)) + 50) \div 100

NoTradeLeaks ==
  {s \in Of("no_trade") : s.micro = "institutional_continuation" /\ s.strategy = "trend_following"
                          /\ BlockQuality(s) = "BAD_BLOCK"}

SafeRelaxations ==
  (IF \E symbol \in OBSERVERS : UnlockCandidate(symbol) THEN {"symbol_lock"} ELSE {})
  \cup (IF NoTradeLeaks # {} THEN {"no_trade"} ELSE {})
  \cup (IF OptimizationPasses(APlusOverrideSimulation) THEN {"a_plus"} ELSE {})

\* shadow_enhancement_candidates: the leaks worth a trade.
EnhancementCandidates == {s \in OfQuality(Present, "BAD_BLOCK") : s.rr >= 120}

\* shadow_backtest_validation: the book with the missed winners in it.
ShadowValidated ==
  LET candidates == RankedCandidates(EnhancementCandidates, MAX_BLOCKED)
      pf == AtLeast(ELITE.pf, (288500 + AtMost(Mean(candidates, 10), 2000)) \div 1000)
      win_rate == AtLeast(ELITE.win_rate, 7210 + 6 * AtMost(candidates.count, 12))
  IN pf >= 280 /\ win_rate >= 7200 /\ AtMost(395, ELITE.max_drawdown + candidates.count) < 400
     /\ ELITE.trades + candidates.count >= 160

ReviewInit == blocked = [s \in Setups |-> 0]

\* The report's next blocked setups, all of one shape.
BlockSetup ==
  \E s \in Setups, n \in Blocks :
    /\ blocked[s] = 0 /\ Number(Setups) + n <= MAX_BLOCKED
    /\ blocked' = [blocked EXCEPT ![s] = n]

ReviewTypeOK == blocked \in [Setups -> 0..MAX_BLOCKED] /\ OpportunityLeakRate \in 0..10000

\* The shadow report and the optimizer give one account of every guardrail, and
\* a leak one of them knows of is in the other, up to one in twenty thousand,
\* which the rate rounds away.  The figures a relaxation must reach are those it
\* starts from: it passes whatever was blocked, so a guardrail is called safe to
\* relax with nothing known against it, and the shadow book is validated by the
\* number of its leaks alone.  A guardrail under review leaked twice, and a symbol
\* is only unlocked on a leak.
BlockReviewIsHindsight ==
  /\ \A g \in Guardrails :
       LET iq == GuardrailIqRow(g)
           leak == LeakRow(g)
       IN /\ <<iq.total, iq.bad, iq.prevented, iq.leaked, iq.leak_rate, iq.iq>>
               = <<leak.total, leak.bad, leak.prevented, leak.leaked, leak.leak_ratio, leak.efficiency>>
          /\ iq.leaked >= 100 * iq.bad
          /\ iq.bad = 0 /\ iq.insufficient = iq.total => iq.iq = 0
  /\ \A i \in 1..4 : OptimizationPasses(ConditionalRelaxation(i))
  /\ OptimizationPasses(APlusOverrideSimulation) /\ "a_plus" \in SafeRelaxations
  /\ ShadowValidated <=> Number(EnhancementCandidates) >= 9
  /\ LeakAnalysis.leak_rate = OpportunityLeakRate
  /\ OpportunityLeakRate = 0 <=> Leaks = {} \/ 20000 * LeakAnalysis.bad_blocks < LeakAnalysis.total
  /\ \A s \in Present :
       ShadowMemory(s.reason, s.session) = "REVIEW_POLICY" => LeakRow(GuardrailForBlock(s.reason)).bad >= 2
  /\ "symbol_lock" \in SafeRelaxations => LeakRow("symbol_lock").bad > 0
=============================================================================
