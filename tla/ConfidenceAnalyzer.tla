------------------------- MODULE ConfidenceAnalyzer -------------------------
(* ConfidenceAnalyzer.analyze on one symbol: it reads the market in three     *)
(* calls, so the sweep it scores and the sweep the MSS grew from may differ.  *)
EXTENDS ConfidenceRules

CONSTANT Grades   \* the grades a fair value gap is given, a subset of {"A", "B", "C"}

CONSTANTS
  Markets,        \* the symbols analyzed
  Minutes,        \* minutes of the session clock at which they are
  Vetoes,         \* "none", or what forbids trading apart from the setup
  TargetKinds     \* the kinds of target drawn, a subset of Targets

VARIABLES
  reading,   \* what the analyzers reported, "none" before
  verdict    \* the decision made of it

brain_vars == <<reading, verdict>>

Gaps == {NoGap} \cup [detected : {TRUE}, direction : Directions, grade : Grades]

(* A reading: the biases; the sweep the liquidity analyzer reported to the    *)
(* confidence engine and the one the ICT analyzer asked for itself a moment   *)
(* later; what ICT made of it; the half of the range price is in, be it the   *)
(* dealing range (after an MSS) or yesterday's; the nearest target on each    *)
(* side; the SMT divergence's direction.                                      *)
Readings ==
  [daily : Directions \cup {"neutral"}, h4 : Directions \cup {"range"},
   sweep : Sweeps, ict_sweep : Sweeps,
   mss : BOOLEAN, fvg : Gaps, order_block : BOOLEAN, returned : BOOLEAN,
   zone : Zones,
   above : Targets, below : Targets, smt : Directions \cup {"none"}]

NoReading ==
  [daily |-> "none", h4 |-> "none", sweep |-> "none", ict_sweep |-> "none", mss |-> FALSE,
   fvg |-> NoGap, order_block |-> FALSE, returned |-> FALSE, zone |-> "none",
   above |-> "none", below |-> "none", smt |-> "none"]

Init ==
  /\ reading = NoReading
  /\ verdict = [symbol |-> "none", total |-> 0, band |-> "COLD", approved |-> FALSE]

\* analyze: trend, liquidity and ICT are asked one after the other.
Analyze ==
  /\ reading = NoReading
  /\ \E sweep, ict_sweep \in Sweeps :
     \E mss, order_block \in AfterSweep(ict_sweep), fvg \in Gaps :
     \E returned \in {FALSE, fvg.detected},
        daily \in Directions \cup {"neutral"}, h4 \in Directions \cup {"range"},
        zone \in Zones, above, below \in TargetKinds, smt \in Directions \cup {"none"} :
       /\ FitsMss(mss, ict_sweep, fvg)
       /\ reading' = [daily |-> daily, h4 |-> h4, sweep |-> sweep, ict_sweep |-> ict_sweep,
                      mss |-> mss, fvg |-> fvg, order_block |-> order_block,
                      returned |-> returned, zone |-> zone, above |-> above,
                      below |-> below, smt |-> smt]
  /\ \E symbol \in Markets, minute \in Minutes, veto \in Vetoes :
       verdict' = Decide(symbol, Killzone(symbol, minute), reading', veto)

Next == Analyze
Spec == Init /\ [][Next]_brain_vars

TypeOK ==
  /\ reading \in Readings \cup {NoReading}
  /\ verdict \in [symbol : Markets \cup {"none"}, total : 0..100,
                  band : {"COLD", "WARM", "HOT", "EXECUTION_READY"}, approved : BOOLEAN]

Approved == verdict.approved
Side == Direction(reading)

\* No single analyzer carries a setup through: whatever the points, bonuses
\* and penalties add up to, a setup is approved only with the four-hour trend
\* behind it, a sweep scored, and a second voice (the daily trend or the SMT
\* divergence) on its side; and the monitor calls a symbol ready for execution
\* only with the trend, the shift and the sweep together.
VerdictIsSupported ==
  /\ Approved => /\ reading.h4 = Side /\ reading.sweep # "none"
                 /\ reading.daily = Side \/ reading.smt = Side
  /\ verdict.band = "EXECUTION_READY" =>
       reading.mss /\ reading.sweep # "none" /\ reading.h4 = Side

\* config/trading_rules.yaml:51 says "require_daily_bias: true": nothing is
\* approved against or without the daily trend.
DailyNeeded == Approved => reading.daily = Side
=============================================================================
