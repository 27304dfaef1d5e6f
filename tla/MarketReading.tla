---------------------------- MODULE MarketReading ----------------------------
(* What the analyzers tell the confidence engine of one symbol, and what they *)
(* conclude from each other's findings: the overall bias of                   *)
(* backend/trend_engine/trend_analyzer.py, the readiness of                   *)
(* backend/ict_engine/ict_analyzer.py and the phase of                        *)
(* backend/narrative_engine/narrative_analyzer.py.                            *)
EXTENDS Integers

Directions == {"bullish", "bearish"}
Opposite(direction) == IF direction = "bullish" THEN "bearish" ELSE "bullish"

\* A target is absent, external (previous day or week) or another kind of level.
Targets == {"none", "internal", "external"}

Sweeps == {"none", "buy_side", "sell_side"}
Zones == {"premium", "discount", "equilibrium"}

NoGap == [detected |-> FALSE, direction |-> "none", grade |-> "none"]

\* Sweeping the stops below the lows is expected to turn price up.
ExpectedMssDirection(sweep) ==
  CASE sweep = "sell_side" -> "bullish" [] sweep = "buy_side" -> "bearish" [] OTHER -> "none"

MssDirection(r) == ExpectedMssDirection(r.ict_sweep)

\* What one ICT analysis can report together: neither an MSS nor an order block
\* without a sweep, and after an MSS only a gap of its direction.
AfterSweep(ict_sweep) == IF ict_sweep = "none" THEN {FALSE} ELSE BOOLEAN
FitsMss(mss, ict_sweep, fvg) ==
  mss /\ fvg.detected => fvg.direction = ExpectedMssDirection(ict_sweep)

OverallBias(daily, h4) ==
  IF daily \in Directions /\ h4 \in {daily, "range"} THEN daily
  ELSE IF daily = "neutral" /\ h4 \in Directions THEN h4
  ELSE "neutral"

Bias(r) == OverallBias(r.daily, r.h4)

\* validate_execution_readiness: the findings ICT rejects a setup for.  Price
\* exactly at equilibrium is in neither half.
IctRejections(r) ==
  {reason \in {"mss", "zone", "fvg", "fvg_direction", "order_block", "not_returned", "wrong_half"} :
     CASE reason = "mss" -> ~r.mss
       [] reason = "zone" -> ~r.mss
       [] reason = "fvg" -> ~r.fvg.detected
       [] reason = "fvg_direction" ->
            r.fvg.detected /\ MssDirection(r) # "none" /\ r.fvg.direction # MssDirection(r)
       [] reason = "order_block" -> ~r.order_block
       [] reason = "not_returned" -> ~r.returned
       [] reason = "wrong_half" ->
            r.mss /\ r.zone # (IF MssDirection(r) = "bullish" THEN "discount" ELSE "premium")}

ZoneFavorable(direction, zone) ==
  <<direction, zone>> \in {<<"bullish", "discount">>, <<"bearish", "premium">>}

HasExternalTarget(r, direction) ==
  (IF direction = "bullish" THEN r.above ELSE r.below) = "external"

\* Only a sweep of the highs under a bearish bias counts as one against it.
SweptAgainstBias(r) == Bias(r) = "bearish" /\ r.sweep = "buy_side"

RejectionDistribution(r) ==
  \/ r.sweep = "buy_side" /\ r.zone = "premium" /\ HasExternalTarget(r, "bearish")
  \/ r.sweep = "sell_side" /\ r.zone = "discount" /\ HasExternalTarget(r, "bullish")

\* classify_phase.  Accumulation asks for volatility fields the liquidity
\* analyzer never fills, so it has no branch here.
Phase(r) ==
  LET direction == MssDirection(r)
      swept == r.sweep # "none"
  IN IF /\ r.daily = r.h4 /\ Bias(r) \in Directions
        /\ swept /\ r.mss /\ direction = Bias(r) /\ HasExternalTarget(r, direction)
     THEN "expansion"
     ELSE IF /\ swept /\ r.mss /\ Bias(r) = Opposite(direction)
             /\ ZoneFavorable(direction, r.zone)
     THEN "reversal"
     ELSE IF swept /\ SweptAgainstBias(r)
     THEN IF r.mss /\ direction # Bias(r) /\ ZoneFavorable(direction, r.zone)
          THEN "reversal" ELSE "distribution"
     ELSE IF swept /\ RejectionDistribution(r) THEN "distribution"
     ELSE "range"
=============================================================================
