-------------------------- MODULE LiquidityLevels --------------------------
(* backend/liquidity_engine/liquidity_analyzer.py on one table of candles:    *)
(* the levels orders are resting at, which of them price is drawn to, and the *)
(* latest sweep of one.  The daily, weekly and Asian levels come from other   *)
(* tables and are given.                                                      *)
(* A price is an integer, a level's price a fraction: the sum of its touches  *)
(* over their number.  Scores are in hundredths.                              *)
EXTENDS Integers, Sequences, FiniteSetsExt, SequencesExt

CONSTANTS
  ATR,       \* the average true range of the hourly candles
  Given,     \* the levels of the other tables, as build_liquidity_levels lists them
  NEAR,      \* get_minimum_target_distance
  RECENT,    \* the candles searched for a sweep
  SPACING,   \* candles between two touches of an equal level
  TOUCHES,   \* touches that make one
  KEPT,      \* equal levels kept of a side
  INTERNAL,  \* internal swings kept of a side
  AROUND     \* candles each side a swing's significance is measured over

\* --- levels -----------------------------------------------------------------
Level(side, class, sum, touches, extra) ==
  [side |-> side, class |-> class, sum |-> sum, touches |-> touches, extra |-> extra]

Above(price, level) == price * level.touches > level.sum
Below(price, level) == price * level.touches < level.sum

Price(bars, side, i) == IF side = "buy_side" THEN bars[i].high ELSE bars[i].low

\* find_swings: beyond every candle within the window on both sides.
Swings(bars, side, window) ==
  {i \in window + 1..Len(bars) - window :
     \A j \in (i - window..i + window) \ {i} :
       IF side = "buy_side" THEN bars[j].high < bars[i].high ELSE bars[j].low > bars[i].low}

SumOf(bars, side, touches) == MapThenSumSet(LAMBDA i : Price(bars, side, i), touches)

\* The swings by price, the earlier first among equals.
ByPrice(bars, side) ==
  SetToSortSeq(Swings(bars, side, 1),
               LAMBDA i, j : \/ Price(bars, side, i) < Price(bars, side, j)
                             \/ Price(bars, side, i) = Price(bars, side, j) /\ i < j)

\* A swing joins the cluster below it if it lies within a tenth of the ATR of
\* the cluster's mean.
Joins(bars, side, cluster, i) ==
  LET n == Cardinality(cluster)
      off == n * Price(bars, side, i) - SumOf(bars, side, cluster)
  IN 10 * off <= ATR * n /\ -10 * off <= ATR * n

Clusters(bars, side) ==
  FoldLeft(LAMBDA clusters, i :
             IF clusters # <<>> /\ Joins(bars, side, Last(clusters), i)
             THEN Append(Front(clusters), Last(clusters) \cup {i})
             ELSE Append(clusters, {i}),
           <<>>, ByPrice(bars, side))

\* select_spaced_touches: from the first touch on, each far enough from the
\* last one taken.
Spaced(cluster) ==
  FoldLeft(LAMBDA taken, i : IF taken = {} \/ i - Max(taken) >= SPACING THEN taken \cup {i} ELSE taken,
           {}, SetToSortSeq(cluster, LAMBDA i, j : i < j))

\* score_equal_level_strength: touches, how far apart, how tight.
Strength(bars, side, touches) ==
  LET prices == {Price(bars, side, i) : i \in touches}
      tight == 3000 - (30000 * (Max(prices) - Min(prices))) \div ATR
  IN 2000 * Cardinality(touches) + Min({150 * (Max(touches) - Min(touches)), 3000}) + Max({0, tight})

\* The touches of the equal levels of a side.
Touches(bars, side) ==
  IF Cardinality(Swings(bars, side, 1)) < TOUCHES THEN {}
  ELSE {t \in {Spaced(c) : c \in Range(Clusters(bars, side))} : Cardinality(t) >= TOUCHES}

\* Of two equally strong levels the cheaper was found first.
Stronger(bars, side, s, t) ==
  LET by == Strength(bars, side, s) - Strength(bars, side, t)
  IN \/ by > 0
     \/ by = 0 /\ SumOf(bars, side, s) * Cardinality(t) < SumOf(bars, side, t) * Cardinality(s)

EqualLevel(bars, side, t) ==
  Level(side, "engineered", SumOf(bars, side, t), Cardinality(t), Strength(bars, side, t))

\* cluster_equal_levels: the strongest come first.
EqualLevels(bars, side) ==
  LET Kept(ranked) == [k \in 1..Min({KEPT, Len(ranked)}) |-> EqualLevel(bars, side, ranked[k])]
  IN Kept(SetToSortSeq(Touches(bars, side), LAMBDA s, t : Stronger(bars, side, s, t)))

\* rank_internal_swings: how far price moved around the swing.
Significance(bars, side, i) ==
  LET around == Max({1, i - AROUND})..Min({Len(bars), i + AROUND})
  IN IF side = "buy_side" THEN bars[i].high - Min({bars[j].low : j \in around})
     ELSE Max({bars[j].high : j \in around}) - bars[i].low

InternalSwings(bars, side) ==
  LET outward(i) == IF side = "buy_side" THEN bars[i].high ELSE -bars[i].low
      better(i, j) ==
        \/ Significance(bars, side, i) > Significance(bars, side, j)
        \/ /\ Significance(bars, side, i) = Significance(bars, side, j)
           /\ outward(i) > outward(j) \/ (outward(i) = outward(j) /\ i < j)
      swings == Swings(bars, side, 1)
  IN {i \in swings : Cardinality({j \in swings : better(j, i)}) < INTERNAL}

\* --- targets ----------------------------------------------------------------
\* classify_liquidity, the day's and the week's levels being external.
Classified(bars) ==
  {level \in Range(Given) : level.class = "external"}
  \cup Range(EqualLevels(bars, "buy_side")) \cup Range(EqualLevels(bars, "sell_side"))
  \cup UNION {{Level(side, "internal", Price(bars, side, i), 1, Significance(bars, side, i)) :
                i \in InternalSwings(bars, side)} : side \in {"buy_side", "sell_side"}}

\* The distance to a level, times its touches.
Away(level, price) == Max({level.sum - price * level.touches, price * level.touches - level.sum})

ProximityBonus(level, price) ==
  IF Away(level, price) = 0 THEN 0
  ELSE Min({3000, (6000 * level.touches + Away(level, price)) \div (2 * Away(level, price))})

\* rank_liquidity_targets.
Importance(level, price) ==
  LET base == CASE level.class = "external" -> 30000
                [] level.class = "engineered" -> 20000
                [] OTHER -> 10000
      cluster == level.class = "engineered"
      strength == IF cluster THEN Min({level.extra \div 10, 2000}) ELSE 0
      significance == IF level.class = "internal" THEN Min({20 * level.extra, 2000}) ELSE 0
  IN base + strength + significance + Min({300 * level.touches, 1500})
     + ProximityBonus(level, price) + (IF cluster /\ level.touches >= 3 THEN 1000 ELSE 0)

\* Levels too close to trade to are no targets.
Targets(bars) ==
  LET price == Last(bars).close
  IN {level \in Classified(bars) : Away(level, price) >= NEAR * level.touches}

\* --- the latest sweep -------------------------------------------------------
\* build_liquidity_levels: the given ones, equal highs, equal lows.
AllLevels(bars) == Given \o EqualLevels(bars, "buy_side") \o EqualLevels(bars, "sell_side")

\* A wick beyond the level and a close back.
IsSwept(bar, level) ==
  IF level.side = "buy_side" THEN Above(bar.high, level) /\ Below(bar.close, level)
  ELSE Below(bar.low, level) /\ Above(bar.close, level)

\* has_displacement.
Displaced(bars, i, side) ==
  LET bar == bars[i]
      body == bar.close - bar.open
      large == 10 * (bar.high - bar.low) >= 12 * ATR
               /\ 10 * Max({body, -body}) >= 4 * ATR
  IN IF i = Len(bars)
     THEN large /\ IF side = "buy_side" THEN body < 0 ELSE body > 0
     ELSE \/ large
          \/ IF side = "buy_side" THEN bars[i + 1].close < bar.low ELSE bars[i + 1].close > bar.high

\* build_sweep: strong if it closed away from its extreme and moved on.
IsStrong(bars, i, side) ==
  LET bar == bars[i]
      rejection == IF side = "buy_side" THEN bar.high - bar.close ELSE bar.close - bar.low
  IN bar.high > bar.low /\ 100 * rejection >= 35 * (bar.high - bar.low) /\ Displaced(bars, i, side)

NoSweep == [side |-> "none", at |-> 0, strong |-> FALSE, sum |-> 0, touches |-> 1]

BuildSweep(bars, i, level) ==
  [side |-> level.side, at |-> i, strong |-> IsStrong(bars, i, level.side),
   sum |-> level.sum, touches |-> level.touches]

\* The last candle that swept, and the last level it swept.
LastSwept(swept) ==
  CHOOSE s \in swept : \A t \in swept : t[1] < s[1] \/ (t[1] = s[1] /\ t[2] <= s[2])

\* detect_latest_sweep.
LatestSweep(bars) ==
  LET Swept(levels) ==
        {s \in (Max({1, Len(bars) - RECENT + 1})..Len(bars)) \X DOMAIN levels :
           IsSwept(bars[s[1]], levels[s[2]])}
      Built(levels, last) == BuildSweep(bars, last[1], levels[last[2]])
      Latest(levels, swept) == IF swept = {} THEN NoSweep ELSE Built(levels, LastSwept(swept))
      Among(levels) == Latest(levels, Swept(levels))
  IN Among(AllLevels(bars))

\* analyze, after the tables are fetched.
LiquidityReading(bars) ==
  [latest_sweep |-> LatestSweep(bars), liquidity_priority |-> Targets(bars)]
=============================================================================
