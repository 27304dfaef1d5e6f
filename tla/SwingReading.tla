---------------------------- MODULE SwingReading ----------------------------
(* What the trend and SMT engines read from swings and ranges:                *)
(* backend/trend_engine/trend_analyzer.py and backend/smt_engine/             *)
(* smt_analyzer.py over config/smt_pairs.yaml; and what the backtest notes of *)
(* the same things beside a trade, backend/backtesting/                       *)
(* historical_structure.py 167-232.  A chart grows candle by candle; each     *)
(* timeframe, and each correlated market, may show it or another one.  The    *)
(* lengths the engines look back are constants.                               *)
EXTENDS MarketReading, Sequences, FiniteSetsExt

CONSTANTS
  Plots,        \* the shapes of each candle, in order
  Others,       \* charts of the other timeframes and markets
  COUNT,        \* candles the trend engine fetches (120, 100, 80)
  LOOKBACK,     \* candles the SMT engine keeps (50)
  BREAKOUT,     \* candles a close must break out of (20)
  LONG,         \* candles of the baseline range with the recent ones (25)
  SHORT,        \* candles of the recent range (5)
  CLOSE, FAR,   \* closes compared for a retracement (4, 20)
  SWING,        \* candles on each side of an SMT swing (2)
  FRESH, PRIOR, \* candles of the replay's recent and prior range (6, 12)
  H4, D1,       \* candles of four hours and of a day (16, 96)
  PEAK          \* prices lie in 0..PEAK

VARIABLES plot, trend, smt, feature
swing_vars == <<plot, trend, smt, feature>>

Recent(table, n) == SubSeq(table, Max({1, Len(table) - n + 1}), Len(table))

\* --- swings ------------------------------------------------------------------
Around(i, window) == (i - window..i + window) \ {i}

\* _find_swings, find_swings: strictly beyond every candle of the window.
SwingHighs(table, window) ==
  {i \in window + 1..Len(table) - window : \A j \in Around(i, window) : table[i].high > table[j].high}
SwingLows(table, window) ==
  {i \in window + 1..Len(table) - window : \A j \in Around(i, window) : table[i].low < table[j].low}

Enough(table, window) ==
  Cardinality(SwingHighs(table, window)) > 1 /\ Cardinality(SwingLows(table, window)) > 1

\* How the latest swing lies to the one before it: 1 higher, -1 lower, 0 level.
Sign(n) == IF n > 0 THEN 1 ELSE IF n < 0 THEN -1 ELSE 0
BeforeLast(swings) == Max(swings \ {Max(swings)})
HighStep(table, window) ==
  LET s == SwingHighs(table, window) IN Sign(table[Max(s)].high - table[BeforeLast(s)].high)
LowStep(table, window) ==
  LET s == SwingLows(table, window) IN Sign(table[Max(s)].low - table[BeforeLast(s)].low)

\* --- trend -------------------------------------------------------------------
\* determine_daily_bias.
DailyBias(table) ==
  IF ~Enough(table, 1) THEN "neutral"
  ELSE IF HighStep(table, 1) = 1 /\ LowStep(table, 1) = 1 THEN "bullish"
  ELSE IF HighStep(table, 1) = -1 /\ LowStep(table, 1) = -1 THEN "bearish"
  ELSE "neutral"

\* determine_h4_bias: the last close against the candles before it.
H4Bias(table) ==
  LET n == Len(table)
      prior == Max({1, n - BREAKOUT})..n - 1
  IN IF n < BREAKOUT THEN "range"
     ELSE IF \A i \in prior : table[n].close > table[i].high THEN "bullish"
     ELSE IF \A i \in prior : table[n].close < table[i].low THEN "bearish"
     ELSE "range"

\* determine_h1_context: the mean ranges are compared by their sums.
H1Context(table) ==
  LET n == Len(table)
      spread(i) == table[i].high - table[i].low
      baseline == MapThenSumSet(spread, n - LONG + 1..n - SHORT)
      recent == MapThenSumSet(spread, n - SHORT + 1..n)
      close(back) == table[n - back + 1].close
  IN IF n < LONG THEN "consolidation"
     ELSE IF baseline > 0 /\ 2 * (LONG - SHORT) * spread(n) >= 3 * baseline THEN "expansion"
     ELSE IF baseline > 0 /\ 10 * (LONG - SHORT) * recent <= 7 * SHORT * baseline THEN "consolidation"
     ELSE IF Sign(close(CLOSE) - close(FAR)) * Sign(close(1) - close(CLOSE)) = -1 THEN "retracement"
     ELSE "consolidation"

Points(n, holds) == IF holds THEN n ELSE 0

\* calculate_confidence with the weights of config/rule_weights.yaml.
TrendConfidence(daily, h4, h1) ==
  LET agreed == OverallBias(daily, h4) \in Directions
  IN Min({100, Points(15, daily \in Directions) + Points(20, h4 \in Directions)
               + Points(35, daily = h4 /\ agreed) + Points(10, agreed)
               + (CASE h1 = "retracement" -> 20 [] h1 = "expansion" -> 15 [] OTHER -> 5)})

\* get_overall_bias from the candles of three timeframes.
Trend(d1, h4, h1) ==
  LET daily == DailyBias(Recent(d1, COUNT))
      four == H4Bias(Recent(h4, COUNT))
      one == H1Context(Recent(h1, COUNT))
  IN [daily |-> daily, h4 |-> four, h1 |-> one, overall |-> OverallBias(daily, four),
      confidence |-> TrendConfidence(daily, four, one)]

\* --- SMT ---------------------------------------------------------------------
\* detect_smt: one market makes a new extreme that the other does not.  Each
\* market's two latest swings are compared, wherever in its table they lie; of
\* two divergences the later one counts.
DetectSmt(all_primary, all_comparison) ==
  LET primary == Recent(all_primary, LOOKBACK)
      comparison == Recent(all_comparison, LOOKBACK)
      higher == HighStep(primary, SWING) = 1 /\ HighStep(comparison, SWING) # 1
      lower == LowStep(primary, SWING) = -1 /\ LowStep(comparison, SWING) # -1
      high_later == Max(SwingHighs(primary, SWING)) >= Max(SwingLows(primary, SWING))
  IN IF \/ Min({Len(primary), Len(comparison)}) < LOOKBACK
        \/ ~Enough(primary, SWING) \/ ~Enough(comparison, SWING) THEN "none"
     ELSE IF higher /\ (lower => high_later) THEN "bearish"
     ELSE IF lower THEN "bullish"
     ELSE "none"

\* config/smt_pairs.yaml, with each pair's weight and preferred sessions.
NewYork == {"new_york_open"}
LondonAndNewYork == {"london_open"} \cup NewYork
Pair(primary, comparison, weight, sessions) ==
  [primary |-> primary, comparison |-> comparison, weight |-> weight, sessions |-> sessions]
Pairs ==
  << Pair("EURUSD", "GBPUSD", 10, LondonAndNewYork \cup {"london_continuation"}),
     Pair("XAUUSD", "EURUSD", 7, LondonAndNewYork),
     Pair("XAUUSD", "GBPUSD", 7, LondonAndNewYork),
     Pair("US30", "XAUUSD", 5, NewYork) >>

NoSmt == [comparison |-> "none", direction |-> "none", confidence |-> 0]

\* analyze_for_symbol: the heaviest divergence among the symbol's pairs, or
\* among those that prefer the active killzone, if any do; the first of equals.
AnalyzeForSymbol(symbol, killzone, tables) ==
  LET own == {i \in DOMAIN Pairs : Pairs[i].primary = symbol}
      preferred == {i \in own : killzone \in Pairs[i].sessions}
      candidates == IF preferred = {} THEN own ELSE preferred
      read(i) == DetectSmt(tables[symbol], tables[Pairs[i].comparison])
      detected == {i \in candidates : read(i) # "none"}
      heaviest == {i \in detected : \A j \in detected : Pairs[j].weight <= Pairs[i].weight}
      k == Min(heaviest)
  IN IF candidates = {} THEN NoSmt
     ELSE IF detected = {} THEN [NoSmt EXCEPT !.comparison = Pairs[Min(candidates)].comparison]
     ELSE [comparison |-> Pairs[k].comparison, direction |-> read(k), confidence |-> Pairs[k].weight]

\* --- what the backtest notes --------------------------------------------------
\* smt_divergence: one of the two markets, whichever, makes a new extreme.
NoFeature == [available |-> FALSE]
NewHigh(table) ==
  LET n == Len(table)
  IN Max({table[i].high : i \in n - FRESH + 1..n}) >
       Max({table[i].high : i \in n - FRESH - PRIOR + 1..n - FRESH})
NewLow(table) ==
  LET n == Len(table)
  IN Min({table[i].low : i \in n - FRESH + 1..n}) <
       Min({table[i].low : i \in n - FRESH - PRIOR + 1..n - FRESH})

SmtDivergence(own, reference, direction) ==
  IF Min({Len(own), Len(reference)}) < FRESH + PRIOR THEN NoFeature
  ELSE [available |-> TRUE,
        detected |-> IF direction = "bullish" THEN NewLow(own) # NewLow(reference)
                                              ELSE NewHigh(own) # NewHigh(reference)]

\* htf_bias: the last close against the one of four hours, and of a day, ago.
Drift(table, back) ==
  CASE Sign(table[Len(table)].close - table[Len(table) - back].close) = 1 -> "bullish"
    [] Sign(table[Len(table)].close - table[Len(table) - back].close) = -1 -> "bearish"
    [] OTHER -> "flat"
HtfBias(table, direction) ==
  IF Len(table) <= D1 THEN NoFeature
  ELSE [available |-> TRUE, aligned_h4 |-> Drift(table, H4) = direction,
        aligned_d1 |-> Drift(table, D1) = direction]

Noted(table, reference, direction) ==
  [htf |-> HtfBias(table, direction), smt |-> SmtDivergence(table, reference, direction)]

\* --- the growing chart -------------------------------------------------------
NoTrend == [daily |-> "neutral", h4 |-> "range", h1 |-> "consolidation", overall |-> "neutral",
            confidence |-> 0]

SwingInit == plot = <<>> /\ trend = NoTrend /\ smt = NoSmt /\ feature = NoFeature

CloseBar ==
  /\ Len(plot) < Len(Plots)
  /\ \E c \in Plots[Len(plot) + 1] : plot' = Append(plot, c)
  /\ trend' = NoTrend /\ smt' = NoSmt /\ feature' = NoFeature

Unread == trend = NoTrend /\ smt = NoSmt /\ feature = NoFeature

ReadTrend ==
  /\ Unread /\ plot # <<>>
  /\ \E d1, h4, h1 \in {plot} \cup Others : plot \in {d1, h4, h1} /\ trend' = Trend(d1, h4, h1)
  /\ UNCHANGED <<plot, smt, feature>>

\* Gold against the euro and the pound.
ReadSmt ==
  /\ Unread /\ plot # <<>>
  /\ \E euro, pound \in Others :
       smt' = AnalyzeForSymbol("XAUUSD", "london_open",
                               [XAUUSD |-> plot, EURUSD |-> euro, GBPUSD |-> pound])
  /\ UNCHANGED <<plot, trend, feature>>

\* scan_symbol notes both features of a trade whose symbol has a reference.
NoteFeatures ==
  /\ Unread /\ plot # <<>>
  /\ \E reference \in Others, direction \in Directions : feature' = Noted(plot, reference, direction)
  /\ UNCHANGED <<plot, trend, smt>>

SwingNext == CloseBar \/ ReadTrend \/ ReadSmt \/ NoteFeatures

SwingTypeOK ==
  /\ Len(plot) <= Len(Plots)
  /\ trend.daily \in Directions \cup {"neutral"} /\ trend.h4 \in Directions \cup {"range"}
  /\ trend.h1 \in {"expansion", "retracement", "consolidation"} /\ trend.confidence \in 0..100
  /\ smt.comparison \in {"none", "EURUSD", "GBPUSD"} /\ smt.direction \in Directions \cup {"none"}

------------------------------------------------------------------------------
UpsideDown(table) ==
  [i \in DOMAIN table |-> [high |-> PEAK - table[i].low, low |-> PEAK - table[i].high,
                           close |-> PEAK - table[i].close]]
Turned(word) == CASE word = "bullish" -> "bearish" [] word = "bearish" -> "bullish" [] OTHER -> word

\* A rise and the same fall are read alike, apart from a divergence of highs
\* and lows on one and the same candle, which counts as one of the highs.
FallsReadAsRises ==
  LET mirrored == UpsideDown(plot)
      read == Trend(plot, plot, plot)
      both(t) == LET p == Recent(t, LOOKBACK)
                 IN Enough(p, SWING) /\ Max(SwingHighs(p, SWING)) = Max(SwingLows(p, SWING))
  IN /\ Trend(mirrored, mirrored, mirrored) =
          [read EXCEPT !.daily = Turned(@), !.h4 = Turned(@), !.overall = Turned(@)]
     /\ \A t \in Others :
          /\ ~both(plot) => DetectSmt(mirrored, UpsideDown(t)) = Turned(DetectSmt(plot, t))
          /\ plot # <<>> => \A d \in Directions :
               Noted(mirrored, UpsideDown(t), Turned(d)) = Noted(plot, t, d)

\* The daily bias turns from one side to the other within a candle only if that
\* candle confirms a swing high and a swing low at once.
TurnsThroughNeutral ==
  LET now == Recent(plot, COUNT)
      before == Recent(SubSeq(plot, 1, Len(plot) - 1), COUNT)
      confirmed == Len(now) - 1
  IN (plot # <<>> /\ DailyBias(now) \in Directions /\ DailyBias(before) = Turned(DailyBias(now)))
       => confirmed \in SwingHighs(now, 1) \cap SwingLows(now, 1)

\* Two markets never lead each other the same way, and none diverges from itself.
OneMarketLeads ==
  \A t \in Others \cup {plot} :
    LET leads == DetectSmt(plot, t)
    IN /\ leads # "none" => DetectSmt(t, plot) # leads
       /\ t = plot => leads = "none"

\* Trend and SMT readings hold together: falls are read like rises, the daily
\* bias does not jump sides, two markets do not both lead, and only timeframes
\* that agree reach more than 55 points of trend confidence
\* (trend_analyzer.py:91-192, smt_analyzer.py:103-198).
SwingsAreReadSteadily ==
  /\ Unread => FallsReadAsRises /\ TurnsThroughNeutral /\ OneMarketLeads
  /\ trend.confidence > 55 <=> trend.daily = trend.h4
=============================================================================
