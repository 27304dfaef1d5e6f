----------------------------- MODULE IctReading -----------------------------
(* backend/ict_engine/ict_analyzer.py: what follows a sweep in the execution  *)
(* candles.  The engine fetches its candles first and asks the liquidity      *)
(* engine for the sweep afterwards, which fetches them again: in between the  *)
(* market may have moved on.  The last candle of a table is still forming.    *)
EXTENDS LiquidityLevels

CONSTANTS
  Shapes,     \* a sequence: the candles that can stand at each place
  STRUCTURE,  \* candles before the sweep that a shift must break
  BREAK,      \* candles a break of structure must leave
  BLOCK,      \* candles searched for an order block
  TOP,        \* the price a chart is mirrored about, doubled
  GUESS       \* how far back a sweep is put that the table does not show

VARIABLES
  bars,       \* the market's candles
  reading     \* what the last look at them found

ict_vars == <<bars, reading>>

SideOf(direction) == IF direction = "bullish" THEN "sell_side" ELSE "buy_side"
ExpectedDirection(sweep) == IF sweep.side = "sell_side" THEN "bullish" ELSE "bearish"

\* calculate_displacement_score reaches so many points: range, body and where
\* it closes, 35, 45 and 20 of them at most.
Scores(bar, direction, points) ==
  LET range == bar.high - bar.low
      body == Max({bar.close - bar.open, bar.open - bar.close})
      location == IF direction = "bullish" THEN bar.close - bar.low ELSE bar.high - bar.close
      moved == Min({35 * range, 35 * ATR}) + Min({45 * body, 45 * ATR})
  IN IF range = 0 THEN moved >= points * ATR
     ELSE range * moved + 20 * ATR * location >= points * ATR * range

NoShift == [detected |-> FALSE, direction |-> "none", level |-> 0, at |-> 0, sweep |-> 0]

\* find_sweep_position: the candle of the sweep's time, else a guess.
SweepPosition(table, sweep) ==
  IF sweep.at \in DOMAIN table THEN sweep.at ELSE Max({0, Len(table) - GUESS}) + 1

Breaks(bar, direction, level) == IF direction = "bullish" THEN bar.close > level ELSE bar.close < level

\* detect_mss: the first candle after the sweep that closes beyond what stood
\* before it, with displacement.
DetectMss(table, sweep) ==
  LET direction == ExpectedDirection(sweep)
      position == SweepPosition(table, sweep)
      prior == position - STRUCTURE..position - 1
      level == IF direction = "bullish" THEN Max({table[i].high : i \in prior})
               ELSE Min({table[i].low : i \in prior})
      shifts == {i \in position + 1..Len(table) :
                   Breaks(table[i], direction, level) /\ Scores(table[i], direction, 60)}
  IN IF sweep.side = "none" THEN NoShift
     ELSE IF position <= STRUCTURE THEN [NoShift EXCEPT !.direction = direction]
     ELSE IF shifts = {} THEN [NoShift EXCEPT !.direction = direction, !.level = level]
     ELSE [detected |-> TRUE, direction |-> direction, level |-> level, at |-> Min(shifts), sweep |-> position]

\* detect_bos: the last close against the candles before it.
DetectBos(table) ==
  LET last == Last(table).close
      prior == Len(table) - BREAK..Len(table) - 1
  IN IF Len(table) <= BREAK THEN "none"
     ELSE IF last > Max({table[i].high : i \in prior}) THEN "bullish"
     ELSE IF last < Min({table[i].low : i \in prior}) THEN "bearish"
     ELSE "none"

\* --- gaps and blocks --------------------------------------------------------
Gap(table, i) ==
  IF table[i - 2].high < table[i].low
  THEN [direction |-> "bullish", low |-> table[i - 2].high, high |-> table[i].low, at |-> i]
  ELSE [direction |-> "bearish", low |-> table[i].high, high |-> table[i - 2].low, at |-> i]

NoFvg == [direction |-> "none", low |-> 0, high |-> 0, at |-> 0]

\* detect_fvg: the latest three-candle gap whose middle candle is displaced, in
\* the direction of the shift if there is one.
DetectFvg(table, mss) ==
  LET gaps == {i \in 3..Len(table) :
                 /\ \/ table[i - 2].high < table[i].low
                    \/ table[i - 2].low > table[i].high
                 /\ mss.detected => Gap(table, i).direction = mss.direction
                 /\ Scores(table[i - 1], Gap(table, i).direction, 55)}
  IN IF gaps = {} THEN NoFvg ELSE Gap(table, Max(gaps))

\* detect_order_block: the last opposing candle before the shift, or before the
\* last candle when there was none.
DetectOrderBlock(table, mss) ==
  LET end == IF mss.detected THEN mss.at ELSE Len(table)
      opposing == {i \in Max({1, end - BLOCK})..end - 1 :
                     IF mss.direction = "bullish" THEN table[i].close < table[i].open
                     ELSE table[i].close > table[i].open}
  IN IF mss.direction = "none" \/ opposing = {} THEN 0 ELSE Max(opposing)

\* calculate_premium_discount: where price stands between sweep and break.
Zone(table, sweep, mss) ==
  LET twice == 2 * sweep.touches * Last(table).close
      middle == sweep.sum + sweep.touches * mss.level
  IN IF sweep.side = "none" \/ ~mss.detected THEN "unavailable"
     ELSE IF twice < middle THEN "discount" ELSE IF twice > middle THEN "premium" ELSE "equilibrium"

\* has_returned_to_fvg.
Returned(table, fvg) ==
  /\ fvg.direction # "none"
  /\ \E i \in fvg.at + 1..Len(table) : table[i].low <= fvg.high /\ table[i].high >= fvg.low

\* validate_execution_readiness.
Ready(r) ==
  /\ r.mss.detected
  /\ r.fvg.direction = r.mss.direction
  /\ r.block # 0
  /\ r.returned
  /\ r.zone = IF r.mss.direction = "bullish" THEN "discount" ELSE "premium"

Analyze(table, sweep) ==
  LET Found(mss, fvg) ==
        [length |-> Len(table), sweep |-> sweep, mss |-> mss, bos |-> DetectBos(table), fvg |-> fvg,
         block |-> DetectOrderBlock(table, mss), zone |-> Zone(table, sweep, mss),
         returned |-> Returned(table, fvg)]
      After(mss) == Found(mss, DetectFvg(table, mss))
  IN After(DetectMss(table, sweep))

NoReading == [length |-> 0, sweep |-> NoSweep, mss |-> NoShift, bos |-> "none", fvg |-> NoFvg,
              block |-> 0, zone |-> "unavailable", returned |-> FALSE]

IctInit == bars = <<>> /\ reading = NoReading

\* The forming candle closes and the next one begins, as far as it will get.
NextCandle ==
  /\ Len(bars) < Len(Shapes)
  /\ \E c \in Shapes[Len(bars) + 1] : bars' = Append(bars, c)
  /\ reading' = NoReading

\* What the forming candle may have been a moment ago.
Earlier(table) ==
  {Append(Front(table), c) :
     c \in {d \in Shapes[Len(table)] : /\ d.open = Last(table).open
                                      /\ d.high <= Last(table).high /\ d.low >= Last(table).low}}

\* analyze: the execution candles are from before the sweep was looked for.
Look ==
  /\ reading = NoReading /\ Len(bars) > 1
  /\ \E execution \in Earlier(bars) \cup {Front(bars)} :
       reading' = Analyze(execution, LiquidityReading(bars).latest_sweep)
  /\ UNCHANGED bars

IctNext == NextCandle \/ Look
IctSpec == IctInit /\ [][IctNext]_ict_vars

IctTypeOK ==
  /\ Len(bars) <= Len(Shapes)
  /\ reading.length \in 0..Len(bars)
  /\ reading.mss.direction \in {"none", "bullish", "bearish"}
  /\ reading.fvg.direction \in {"none", "bullish", "bearish"}
  /\ reading.zone \in {"unavailable", "discount", "premium", "equilibrium"}
  /\ reading.block \in 0..Len(bars) /\ reading.mss.at \in 0..Len(bars)

------------------------------------------------------------------------------
Mirrored(table) ==
  [i \in DOMAIN table |-> [open |-> TOP - table[i].open, high |-> TOP - table[i].low,
                           low |-> TOP - table[i].high, close |-> TOP - table[i].close]]

\* What a reading finds, in words that hold for the chart turned upside down too.
Upside(r, up) ==
  LET turned(word) == IF up THEN word
                      ELSE CASE word = "bullish" -> "bearish" [] word = "bearish" -> "bullish"
                             [] word = "discount" -> "premium" [] word = "premium" -> "discount"
                             [] OTHER -> word
      height(price) == IF up THEN price ELSE TOP - price
  IN [shift |-> turned(r.mss.direction), at |-> r.mss.at,
      level |-> IF r.mss.detected THEN height(r.mss.level) ELSE 0,
      bos |-> turned(r.bos), zone |-> turned(r.zone), block |-> r.block, returned |-> r.returned,
      gap |-> IF r.fvg.at = 0 THEN <<>>
              ELSE <<turned(r.fvg.direction), {height(r.fvg.low), height(r.fvg.high)}>>,
      gap_at |-> r.fvg.at]

Opposite(side) == CASE side = "buy_side" -> "sell_side" [] side = "sell_side" -> "buy_side" [] OTHER -> "none"

\* A rise and the same fall are read alike: from the mirrored candles and the
\* mirrored sweep the engine makes the mirrored findings, and a sweep is as
\* strong on either side.
MirrorReadsMirrored(table, sweep) ==
  LET mirrored == Mirrored(table)
      flipped == [sweep EXCEPT !.side = Opposite(@), !.sum = TOP * sweep.touches - @]
  IN /\ Upside(Analyze(mirrored, flipped), FALSE) = Upside(Analyze(table, sweep), TRUE)
     /\ \A i \in DOMAIN table :
          IsStrong(mirrored, i, "sell_side") = IsStrong(table, i, "buy_side")

\* rank_liquidity_targets "without breaking class hierarchy": no bonus lifts a
\* level above one of a higher class.
ClassesKeepTheirOrder ==
  LET price == Last(bars).close
      rank(level) == CASE level.class = "external" -> 3 [] level.class = "engineered" -> 2 [] OTHER -> 1
  IN \A t, u \in LiquidityReading(bars).liquidity_priority :
       rank(t) > rank(u) => Importance(t, price) > Importance(u, price)

\* What was found in closed candles is not taken back when the next one closes.
\* A sweep of a level of another table goes only by a later one or by age; a
\* strong one stays strong; while the sweep stays, the shift and its block stay
\* what they were; while the shift stays, a gap gives way to later ones only.
FindingsStay(was, is) ==
  LET given == \E level \in Range(Given) :
                 <<level.side, level.sum, level.touches>>
                   = <<was.sweep.side, was.sweep.sum, was.sweep.touches>>
      same == is.sweep.at = was.sweep.at /\ is.sweep.side = was.sweep.side
  IN /\ given => is.sweep.at >= was.sweep.at \/ was.sweep.at = Len(bars) - RECENT
     /\ same /\ was.sweep.strong => is.sweep.strong
     /\ same /\ was.mss.detected => is.mss = was.mss /\ is.block = was.block
     /\ is.mss = was.mss => is.fvg.at >= was.fvg.at

ClosedFindingsStay ==
  LET Findings(table) == Analyze(table, LatestSweep(table))
  IN FindingsStay(Findings(Front(bars)), Findings(bars))

\* detect_mss: "Detect market structure shift after a liquidity sweep".  That
\* fails only for a sweep newer than the candles the shift was looked for in,
\* which is taken to lie a fixed number of candles back.
ShiftFollowsSweep ==
  reading.mss.detected => reading.sweep.at < reading.mss.at \/ reading.sweep.at > reading.length

\* The readings of the liquidity and ICT engines, candle by candle.
ChartIsReadSteadily ==
  /\ ShiftFollowsSweep
  /\ Len(bars) > 1 => /\ ClassesKeepTheirOrder
                      /\ ClosedFindingsStay
                      /\ MirrorReadsMirrored(bars, LatestSweep(bars))
=============================================================================
