------------------------ MODULE PortfolioIntelligence ------------------------
(* backend/portfolio_intelligence/portfolio_intelligence_engine.py: the       *)
(* Portfolio Admission Score of a candidate beside the open positions.  The   *)
(* engine only advises; here its advice is followed, position by position.    *)
(* Scores are in hundredths, risks in ten-thousandths of a percent.           *)
EXTENDS Integers, FiniteSetsExt

CONSTANTS
  BASE,          \* the risk of a candidate
  BUDGET,        \* daily_portfolio_risk_budget_percent
  CLUSTER_RISK,  \* max_total_cluster_risk_percent
  MAX_OPEN,      \* max_concurrent_production_trades
  MAX_SAME,      \* max_same_cluster_trades
  Regimes,       \* the regimes drawn
  MAX_HELD       \* bound: positions held at once

VARIABLE held    \* how many positions of each kind are open or pending

Production == {"XAUUSD", "US30"}
ClusterFor(symbol) == IF symbol = "US30" THEN "EQUITY_RISK" ELSE "METALS_MACRO_HEDGE"
Sides == {"BULLISH", "BEARISH"}

Reduced == BASE \div 2
Structural == (85 * BASE) \div 100
Kinds == [symbol : Production, direction : Sides, risk : {BASE, Structural, Reduced}]

Number(S) == MapThenSumSet(LAMBDA k : held[k], S)
RiskOf(S) == MapThenSumSet(LAMBDA k : held[k] * k.risk, S)
Deployed == RiskOf(Kinds)

\* TimeframeConfluenceEngine.classify; M1 never decides.
SameSide(values) == \E side \in Sides : values = {side}
Classify(f) ==
  CASE SameSide({f.d1, f.h4, f.m15, f.m5}) -> "FULL_STACK_CONFLUENCE"
    [] SameSide({f.d1, f.h4, f.m15}) /\ f.m5 # f.m15 -> "STRUCTURAL_CONFLUENCE"
    [] /\ SameSide({f.m15, f.m5}) /\ ~SameSide({f.d1, f.h4, f.m15})
       /\ ~(SameSide({f.d1, f.h4}) /\ f.d1 # f.m15) -> "TACTICAL_CONFLUENCE"
    [] OTHER -> "CONFLICT"

Frames == [{"d1", "h4", "m15", "m5"} -> Sides \cup {"MIXED"}]
Tiers == {Classify(f) : f \in Frames}

ConfluenceScore(tier) ==
  CASE tier = "FULL_STACK_CONFLUENCE" -> 10000 [] tier = "STRUCTURAL_CONFLUENCE" -> 8400
    [] tier = "TACTICAL_CONFLUENCE" -> 6800 [] tier = "CONFLICT" -> 3000

RegimeScore(regime) ==
  CASE regime = "TREND" -> 10000 [] regime = "EXPANSION" -> 8800 [] regime = "RANGE" -> 7000
    [] regime = "CHOP" -> 2500 [] OTHER -> 5500

Clamp(score) == Max({0, Min({10000, score})})
Off(points, holds) == IF holds THEN points ELSE 0

SameCluster(c) == {k \in Kinds : ClusterFor(k.symbol) = ClusterFor(c.symbol)}

Exposure(c) ==
  Clamp(10000 - Off(4000, Number(Kinds) >= MAX_OPEN)
              - Off(1200, Number({k \in Kinds : k.direction = c.direction}) > 0)
              - Off(3500, Deployed + BASE > BUDGET)
              - Off(800, c.losing))

\* Mutated form: a crowded cluster takes no points.
CorrelationByRisk(c) ==
  Clamp(10000 - Off(2500, RiskOf(SameCluster(c)) + BASE > CLUSTER_RISK))

\* Its correlation_block goes into the report, not into the decision.
Correlation(c) ==
  Clamp(10000 - Off(3500, Number(SameCluster(c)) >= MAX_SAME)
              - Off(2500, RiskOf(SameCluster(c)) + BASE > CLUSTER_RISK))

RiskBudget ==
  LET remaining == BUDGET - Deployed
  IN IF remaining >= BASE THEN 10000
     ELSE Max({2000, (10000 * Max({remaining, 0})) \div BASE})

\* Of the New York session, in hundredths of R.
Expectancy(symbol, regime) ==
  CASE symbol = "XAUUSD" /\ regime = "TREND" -> 72 [] symbol = "US30" /\ regime = "TREND" -> 68
    [] symbol = "XAUUSD" /\ regime = "EXPANSION" -> 64 [] symbol = "US30" /\ regime = "EXPANSION" -> 58
    [] symbol = "XAUUSD" /\ regime = "RANGE" -> 38 [] symbol = "US30" /\ regime = "RANGE" -> 31
    [] OTHER -> 35

OpportunityCost(c) ==
  Clamp(Min({10000, Max({3000, 4500 + 55 * Expectancy(c.symbol, c.regime)})}) - Off(2000, c.reserve))

\* The weighted sum, rounded to hundredths.
Pas(c) ==
  (20 * Exposure(c) + 20 * Correlation(c) + 20 * RegimeScore(c.regime)
   + 15 * RiskBudget + 15 * ConfluenceScore(c.tier) + 10 * OpportunityCost(c) + 50) \div 100

AdmissionDecision(c) ==
  LET pas == Pas(c)
  IN CASE ~c.core -> "CORE_BLOCKED"
       [] c.core /\ c.tier = "CONFLICT" /\ ~(c.override /\ pas >= 8000) -> "SUPPRESS"
       [] c.core /\ (c.tier # "CONFLICT" \/ (c.override /\ pas >= 8000)) ->
            IF pas >= 7500 THEN "ALLOW" ELSE IF pas >= 6000 THEN "REDUCED_RISK_ALLOW" ELSE "SUPPRESS"

\* risk_adjustment: the risk that is advised.  It advises half the risk of a
\* tactical candidate even when the decision is against it.
RiskAdvised(decision, tier) ==
  CASE decision = "ALLOW" -> IF tier = "STRUCTURAL_CONFLUENCE" THEN Structural ELSE BASE
    [] decision # "ALLOW" /\ (decision = "REDUCED_RISK_ALLOW" \/ tier = "TACTICAL_CONFLUENCE") -> Reduced
    [] OTHER -> 0

\* losing: the open positions stand at a loss; reserve: a better setup is
\* expected; core: the candidate passed core_quality.
Candidates ==
  [symbol : Production, direction : Sides, regime : Regimes, tier : Tiers,
   losing : BOOLEAN, reserve : BOOLEAN, override : BOOLEAN, core : BOOLEAN]

PortfolioInit == held = [k \in Kinds |-> 0]

\* A candidate is evaluated and the advice followed.
FollowAdvice ==
  /\ Number(Kinds) < MAX_HELD
  /\ \E c \in Candidates :
       LET decision == AdmissionDecision(c)
           kind == [symbol |-> c.symbol, direction |-> c.direction, risk |-> RiskAdvised(decision, c.tier)]
       IN held' = IF decision \in {"ALLOW", "REDUCED_RISK_ALLOW"} THEN [held EXCEPT ![kind] = @ + 1] ELSE held

\* External: a position is closed.
ClosePosition == \E k \in Kinds : held[k] > 0 /\ held' = [held EXCEPT ![k] = @ - 1]

PortfolioNext == FollowAdvice \/ ClosePosition

PortfolioTypeOK == held \in [Kinds -> 0..MAX_HELD]

\* None of the three limits is a rule: each only takes points off the score,
\* and a candidate that breaks one or two of them can still be admitted, at half
\* or even at full risk.  Together they are a ceiling: advice that is always
\* followed, whatever is closed in between, never deploys more than the daily
\* budget and one cluster's allowance on top of it.
AdviceHasACeiling == Deployed <= BUDGET + CLUSTER_RISK
=============================================================================
