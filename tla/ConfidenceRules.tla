-------------------------- MODULE ConfidenceRules --------------------------
(* How one reading of the market is scored and decided, by the live path and  *)
(* by the backtest alike: the guardrail on a setup                            *)
(* (backend/guardrails/strategy_guardrails.py with its configuration and the  *)
(* bands of backend/shared/confidence_band_registry.py), the session window   *)
(* it falls in (backend/killzone_engine/killzone_analyzer.py over             *)
(* config/killzones.yaml, by the minute of the session clock), and the points *)
(* and rejections of backend/confidence_engine/confidence_analyzer.py with    *)
(* config/rule_weights.yaml.                                                  *)
EXTENDS MarketReading, Sequences, FiniteSetsExt

-----------------------------------------------------------------------------
(* The guardrail in its adaptive mode: penalties and bonuses on a setup's     *)
(* confidence, and the vetoes no confidence can outvote.                      *)

ObserverOnly == {"XAUUSD", "EURUSD", "GBPUSD"}
DemoSandbox == {"BTCUSD"}
GuardedForex == {"EURUSD", "GBPUSD"}
BlockedKillzones == {"london_continuation"}
US30Killzones == {"new_york_open", "new_york_continuation"}

\* Mutated form: nothing caps the score.
ClampFloorOnly(n) == IF n < 0 THEN 0 ELSE n

ClampScore(n) == IF n > 100 THEN 100 ELSE IF n < 0 THEN 0 ELSE n

BandForScore(score, ready) ==
  CASE score >= ready -> "EXECUTION_READY"
    [] score >= 70 /\ score < ready -> "HOT"
    [] score >= 40 /\ score < 70 -> "WARM"
    [] OTHER -> "COLD"

ProductionBand(score) == BandForScore(score, 90)
GuardrailAdjustedBand(score) == BandForScore(score, 95)

MinimumExecutionConfidence(symbol) == IF symbol \in GuardedForex THEN 95 ELSE 90

\* The divergence was looked for and not found; a replay does not look.
Unconfirmed(smt) == smt.available /\ ~smt.detected

\* Points that count only if something holds.
Worth(points, holds) == IF holds THEN points ELSE 0

PenaltyTotal(symbol, killzone, smt, phase) ==
  Worth(100, killzone.name \in BlockedKillzones)
  + Worth(12, killzone.name = "london_open" /\ smt.detected)
  + Worth(8, phase = "range")
  + Worth(7, Unconfirmed(smt) /\ symbol \in GuardedForex)
  + Worth(5, Unconfirmed(smt) /\ symbol \notin GuardedForex /\ symbol # "XAUUSD")
  + Worth(5, phase = "distribution" /\ Unconfirmed(smt))
  + Worth(5, phase = "expansion" /\ ~smt.detected /\ symbol # "XAUUSD")

BonusTotal(symbol, killzone, smt) ==
  Worth(3, symbol = "XAUUSD" /\ smt.detected /\ killzone.name \notin BlockedKillzones)
  + Worth(5, symbol = "US30" /\ killzone.name = "new_york_continuation")

AdjustedConfidence(symbol, total, killzone, smt, phase) ==
  ClampScore(total + BonusTotal(symbol, killzone, smt) - PenaltyTotal(symbol, killzone, smt, phase))

SymbolBlocked(symbol) == symbol \in ObserverOnly \cup DemoSandbox

\* The vetoes learned from the 365-day study.
RobustnessBlocked(symbol, killzone, smt) ==
  \/ killzone.name \in BlockedKillzones
  \/ killzone.name = "london_open" /\ ~smt.detected /\ symbol # "XAUUSD"
  \/ symbol = "US30" /\ killzone.name \notin US30Killzones

HardBlocked(symbol, killzone, smt, risk_blocked, news_lock) ==
  \/ risk_blocked \/ news_lock \/ ~killzone.valid
  \/ SymbolBlocked(symbol) \/ RobustnessBlocked(symbol, killzone, smt)

\* result: what either mode answers.
Result(symbol, adjusted, blocked) ==
  [adjusted |-> adjusted, band |-> GuardrailAdjustedBand(adjusted), pass |-> ~blocked,
   watchlist_only |-> SymbolBlocked(symbol)]

\* evaluate_hard, the older mode the backtest still compares with; it knows no
\* lock and adjusts nothing.
HardGuardrail(symbol, total, killzone, smt, phase) ==
  Result(symbol, total,
         \/ SymbolBlocked(symbol) \/ RobustnessBlocked(symbol, killzone, smt)
         \/ total < 95 \/ phase = "range"
         \/ symbol \in GuardedForex /\ ~smt.detected)

AdaptiveGuardrail(symbol, adjusted, killzone, smt, risk_blocked, news_lock) ==
  Result(symbol, adjusted,
         \/ HardBlocked(symbol, killzone, smt, risk_blocked, news_lock)
         \/ adjusted < MinimumExecutionConfidence(symbol))

\* evaluate in its default mode.
Guardrail(symbol, total, killzone, smt, phase, risk_blocked, news_lock) ==
  AdaptiveGuardrail(symbol, AdjustedConfidence(symbol, total, killzone, smt, phase), killzone, smt,
                    risk_blocked, news_lock)

-----------------------------------------------------------------------------
(* The session.                                                               *)

Majors == {"XAUUSD", "EURUSD", "GBPUSD"}
Everywhere == Majors \cup {"US30", "NAS100", "BTCUSD"}

Hhmm(hour, minute) == 60 * hour + minute

\* In the order of the file, which decides between windows that overlap.
Killzones ==
  << [name |-> "london_open", start |-> Hhmm(7, 0), end |-> Hhmm(8, 30),
      symbols |-> Majors, quality |-> 10],
     [name |-> "london_continuation", start |-> Hhmm(8, 30), end |-> Hhmm(10, 0),
      symbols |-> Majors, quality |-> 7],
     [name |-> "new_york_open", start |-> Hhmm(12, 30), end |-> Hhmm(14, 0),
      symbols |-> Everywhere, quality |-> 10],
     [name |-> "new_york_continuation", start |-> Hhmm(14, 0), end |-> Hhmm(15, 0),
      symbols |-> Everywhere, quality |-> 7],
     [name |-> "dead_zone", start |-> Hhmm(15, 0), end |-> Hhmm(22, 59),
      symbols |-> Everywhere, quality |-> 0] >>

NoKillzone == [name |-> "none", quality |-> 0]

\* A window whose end lies before its start runs over midnight.
InWindow(minute, start, end) ==
  IF start <= end THEN start <= minute /\ minute < end
  ELSE start <= minute \/ minute < end

FindActive(symbol, minute) ==
  LET open == {i \in DOMAIN Killzones : /\ symbol \in Killzones[i].symbols
                                        /\ InWindow(minute, Killzones[i].start, Killzones[i].end)}
  IN IF open = {} THEN NoKillzone
     ELSE LET k == Killzones[Min(open)] IN [name |-> k.name, quality |-> k.quality]

\* analyze: what the rest of the system learns of the session.
Killzone(symbol, minute) ==
  LET active == FindActive(symbol, minute)
  IN [name |-> active.name, quality |-> active.quality, valid |-> active.quality > 0]

-----------------------------------------------------------------------------
(* Points and rejections.                                                     *)

ForexSymbols == {"EURUSD", "GBPUSD"}
MinimumConfidence(symbol) == IF symbol \in ForexSymbols THEN 95 ELSE 90

\* config/smt_pairs.yaml: what a divergence is worth; no pair leads with NAS100.
SmtWeight(symbol) ==
  CASE symbol = "EURUSD" -> 10 [] symbol = "XAUUSD" -> 7 [] symbol = "US30" -> 5 [] OTHER -> 0

SmtDetected(symbol, r) == r.smt # "none" /\ SmtWeight(symbol) > 0
\* What the live path tells the guardrail: without a divergence it still counts as looked for.
Smt(symbol, r) == [detected |-> SmtDetected(symbol, r), available |-> TRUE]

\* infer_direction: the direction an MSS would have counts, detected or not.
Direction(r) ==
  IF MssDirection(r) \in Directions THEN MssDirection(r)
  ELSE IF Bias(r) \in Directions THEN Bias(r) ELSE "none"

\* 15 points, three quarters and a half of them, rounded.
FvgQuality(fvg) == CASE fvg.grade = "A" -> 15 [] fvg.grade = "B" -> 11 [] fvg.grade = "C" -> 8 [] OTHER -> 0
SessionQuality(killzone) == IF killzone.quality >= 10 THEN 5 ELSE IF killzone.quality >= 7 THEN 4 ELSE 0
ClearTarget(r) == r.above # "none" \/ r.below # "none"

ScoreSmt(symbol, r) ==
  IF ~SmtDetected(symbol, r) \/ Direction(r) = "none" THEN 0
  ELSE IF r.smt = Direction(r) THEN SmtWeight(symbol) ELSE -SmtWeight(symbol)

\* Mutated form: the four-hour points are given for the daily trend.
TotalFromDaily(symbol, killzone, r) ==
  ClampScore(Worth(35, r.daily = Direction(r))
             + Worth(20, r.sweep # "none") + Worth(20, r.mss) + FvgQuality(r.fvg)
             + SessionQuality(killzone) + Worth(5, ClearTarget(r)) + ScoreSmt(symbol, r))

TotalConfidence(symbol, killzone, r) ==
  ClampScore(Worth(15, r.daily = Direction(r)) + Worth(20, r.h4 = Direction(r))
             + Worth(20, r.sweep # "none") + Worth(20, r.mss) + FvgQuality(r.fvg)
             + SessionQuality(killzone) + Worth(5, ClearTarget(r)) + ScoreSmt(symbol, r))

ForexRejected(symbol, r) ==
  /\ symbol \in ForexSymbols
  /\ \/ Direction(r) # "none" /\ (r.daily # Direction(r) \/ r.h4 # Direction(r))
     \/ r.sweep = "none" \/ r.fvg.grade # "A"

\* evaluate_hard_rejections apart from the guardrail; the reward the monitor
\* and the planner pass is the minimum itself.
HardRejected(symbol, killzone, r, veto, total) ==
  \/ ~killzone.valid \/ veto \in {"news", "daily_loss", "max_trades"}
  \/ IctRejections(r) # {}
  \/ ForexRejected(symbol, r)
  \/ total < MinimumConfidence(symbol)
  \/ Direction(r) = "none"

Decide(symbol, killzone, r, veto) ==
  LET total == TotalConfidence(symbol, killzone, r)
      guardrail == Guardrail(symbol, total, killzone, Smt(symbol, r), Phase(r),
                             veto \in {"daily_loss", "max_trades", "risk"}, veto = "news")
  IN [symbol |-> symbol, total |-> total, band |-> guardrail.band,
      approved |-> guardrail.pass /\ ~HardRejected(symbol, killzone, r, veto, total)]
=============================================================================
