----------------------------- MODULE MarketStory -----------------------------
(* backend/narrative_engine/narrative_analyzer.py: the story one analysis     *)
(* tells of a symbol, with the nearest targets the liquidity engine hands it. *)
(* A level is its name (with a number, for equal levels), its side and its    *)
(* price; equal levels and internal swings come by importance.                *)
EXTENDS MarketReading, Sequences, FiniteSetsExt, SequencesExt

CONSTANTS
  Maps,      \* the levels on the chart
  Spots,     \* where price is
  CLOSEST    \* get_minimum_target_distance

VARIABLES scene, story
story_vars == <<scene, story>>

Named(name, side, price) == [name |-> name, number |-> 0, side |-> side, price |-> price]
Numbered(name, k, side, price) == [name |-> name, number |-> k, side |-> side, price |-> price]

Days == {"PDH", "PDL"}
Weeks == {"Weekly High", "Weekly Low"}
Asians == {"Asian High", "Asian Low"}

\* A map gives the six prices the day, the week and the Asian session left, and
\* those of equal highs, equal lows and internal swings.
DayAndWeek(m) ==
  << Named("PDH", "buy_side", m.pdh), Named("PDL", "sell_side", m.pdl),
     Named("Weekly High", "buy_side", m.weekly_high), Named("Weekly Low", "sell_side", m.weekly_low) >>
Asian(m) ==
  <<Named("Asian High", "buy_side", m.asian_high), Named("Asian Low", "sell_side", m.asian_low)>>

\* build_liquidity_levels: what can be swept.
Sweepable(m) ==
  Range(DayAndWeek(m) \o Asian(m))
  \cup {Numbered("EQH", k, "buy_side", m.equal_highs[k]) : k \in DOMAIN m.equal_highs}
  \cup {Numbered("EQL", k, "sell_side", m.equal_lows[k]) : k \in DOMAIN m.equal_lows}

\* classify_liquidity: an equal level has another name among the targets, and
\* the swings have one name to a side.
Engineered(m) ==
  [k \in 1..Len(m.equal_highs) + Len(m.equal_lows) |->
     IF k <= Len(m.equal_highs) THEN Numbered("Engineered Liquidity", k, "buy_side", m.equal_highs[k])
     ELSE Numbered("Engineered Liquidity", k, "sell_side", m.equal_lows[k - Len(m.equal_highs)])]
Swings(m) ==
  [k \in DOMAIN m.swings |->
     Named(IF m.swings[k].side = "buy_side" THEN "Internal Swing High" ELSE "Internal Swing Low",
           m.swings[k].side, m.swings[k].price)]

Distance(level, price) == IF level.price > price THEN level.price - price ELSE price - level.price

\* rank_liquidity_targets: external levels first and the nearest of them before
\* the others, then the equal levels, then the swings.
Priority(m, price) ==
  LET external == SortSeq(DayAndWeek(m), LAMBDA l, k : Distance(l, price) < Distance(k, price))
  IN SelectSeq(external \o Engineered(m) \o Swings(m), LAMBDA l : Distance(l, price) >= CLOSEST)

Ahead(level, price) ==
  IF level.side = "buy_side" THEN level.price >= price ELSE level.price <= price
AheadOn(levels, side, price) == {k \in DOMAIN levels : levels[k].side = side /\ Ahead(levels[k], price)}

NoLevel == Named("none", "none", 0)

\* infer_directional_targets: the nearest target on a side, of equals the first.
Nearest(m, side, price) ==
  LET targets == Priority(m, price)
      ahead == AheadOn(targets, side, price)
      nearest == {k \in ahead : \A j \in ahead : Distance(targets[k], price) <= Distance(targets[j], price)}
  IN IF ahead = {} THEN NoLevel ELSE targets[Min(nearest)]

Kind(level) ==
  IF level = NoLevel THEN "none" ELSE IF level.name \in Days \cup Weeks THEN "external" ELSE "internal"

\* narrative_target_rank_key, before importance.
Group(level) ==
  CASE level.name \in Weeks -> 0 [] level.name \in Days -> 1 [] level.name \in Asians -> 2
    [] level.name \in {"Internal Swing High", "Internal Swing Low"} -> 4 [] OTHER -> 3

\* rank_narrative_targets: with the Asian levels, one level to a name and side
\* (the last of them), by group and importance.
Ranked(m, price) ==
  LET all == Priority(m, price) \o Asian(m)
      last(k) == \A j \in k + 1..Len(all) : all[j].name # all[k].name \/ all[j].number # all[k].number
      kept == SelectSeq([k \in DOMAIN all |-> <<all[k], last(k)>>], LAMBDA e : e[2])
      group(g) == SelectSeq(kept, LAMBDA e : Group(e[1]) = g)
      ordered == group(0) \o group(1) \o group(2) \o group(3) \o group(4)
  IN [i \in DOMAIN ordered |-> ordered[i][1]]

\* Mutated form: price is not asked whether it has passed the level.
SelectPassed(m, side, price) ==
  LET ranked == Ranked(m, price)
      found == {k \in DOMAIN ranked : ranked[k].side = side}
  IN IF found = {} THEN Nearest(m, side, price) ELSE ranked[Min(found)]

\* select_ranked_target_for_side.
SelectRanked(m, side, price) ==
  LET ranked == Ranked(m, price)
      found == AheadOn(ranked, side, price)
  IN IF found = {} THEN Nearest(m, side, price) ELSE ranked[Min(found)]

\* calculate_fallback_zone: price in yesterday's range, else in last week's;
\* within a hundredth of the range around the middle is equilibrium.
FallbackZone(m, price) ==
  LET in_range(a, b) ==
        LET off == 2 * price - (a + b)
            wide == Max({a, b}) - Min({a, b})
        IN IF 100 * Max({off, -off}) <= 2 * wide THEN "equilibrium"
           ELSE IF off > 0 THEN "premium" ELSE "discount"
  IN IF m.pdh # m.pdl THEN in_range(m.pdh, m.pdl)
     ELSE IF m.weekly_high # m.weekly_low THEN in_range(m.weekly_high, m.weekly_low)
     ELSE "unavailable"

\* get_current_zone.
CurrentZone(m, price, ict_zone) == IF ict_zone \in Zones THEN ict_zone ELSE FallbackZone(m, price)

\* select_likely_draw: the side is the sweep's and the zone's to say, then the
\* shift's, then the trend's.
DrawSide(r) ==
  IF r.zone = "premium" /\ r.sweep = "buy_side" THEN "sell_side"
  ELSE IF r.zone = "discount" /\ r.sweep = "sell_side" THEN "buy_side"
  ELSE LET direction == IF MssDirection(r) \in Directions THEN MssDirection(r) ELSE Bias(r)
       IN CASE direction = "bullish" -> "buy_side" [] direction = "bearish" -> "sell_side"
            [] OTHER -> "none"

LikelyDraw(m, price, r) ==
  IF DrawSide(r) = "none" THEN NoLevel ELSE SelectRanked(m, DrawSide(r), price)

\* get_unswept_liquidity: the first three targets, but for the swept one's name.
Unswept(m, price, swept) ==
  LET others == SelectSeq(Ranked(m, price), LAMBDA l : l.name # swept.name \/ l.number # swept.number)
  IN SubSeq(others, 1, Min({3, Len(others)}))

\* analyze.
Tell(m, price, swept, r) ==
  [phase |-> Phase(r), zone |-> r.zone, swept |-> swept,
   unswept |-> Unswept(m, price, swept), draw |-> LikelyDraw(m, price, r)]

Untold == [phase |-> "none", zone |-> "unavailable", swept |-> NoLevel, unswept |-> <<>>, draw |-> NoLevel]
NoScene == [price |-> 0, sweep |-> "none", ict_sweep |-> "none", mss |-> FALSE, daily |-> "neutral",
            h4 |-> "range", zone |-> "unavailable", above |-> "none", below |-> "none"]

StoryInit == scene = NoScene /\ story = Untold

\* The sweep ICT asked for may be an earlier or a later one.  Its zone is there
\* after a shift only.
TellStory ==
  /\ scene = NoScene
  /\ \E m \in Maps, price \in Spots :
     \E swept \in Sweepable(m) \cup {NoLevel}, ict_sweep \in Sweeps,
        daily \in Directions \cup {"neutral"}, h4 \in Directions \cup {"range"} :
     \E mss \in AfterSweep(ict_sweep) :
     \E ict_zone \in IF mss THEN Zones ELSE {"unavailable"} :
       /\ scene' = [price |-> price, sweep |-> swept.side, ict_sweep |-> ict_sweep, mss |-> mss,
                    daily |-> daily, h4 |-> h4, zone |-> CurrentZone(m, price, ict_zone),
                    above |-> Kind(Nearest(m, "buy_side", price)),
                    below |-> Kind(Nearest(m, "sell_side", price))]
       /\ story' = Tell(m, price, swept, scene')

StoryTypeOK ==
  /\ story.phase \in {"none", "expansion", "reversal", "distribution", "range"}
  /\ story.zone \in Zones \cup {"unavailable"}
  /\ Len(story.unswept) <= 3
  /\ scene.above \in Targets /\ scene.below \in Targets

------------------------------------------------------------------------------
SideOf(direction) == IF direction = "bullish" THEN "buy_side" ELSE "sell_side"

\* The story fits itself (narrative_analyzer.py:61-251): the draw lies ahead of
\* price; if the two analyses saw a sweep of the same side, it leads away from
\* that side, and an expansion has a draw of the day, the week or the Asian
\* session in its direction; a level of these that was swept is not told as
\* unswept (an equal level, which has another name there, may be).
StoryHoldsTogether ==
  LET draw == story.draw
      one_sweep == scene.sweep # "none" /\ scene.sweep = scene.ict_sweep
  IN /\ draw # NoLevel => Ahead(draw, scene.price)
     /\ one_sweep /\ draw # NoLevel => draw.side # scene.sweep
     /\ one_sweep /\ story.phase = "expansion" =>
          draw.side = SideOf(Bias(scene)) /\ draw.name \in Days \cup Weeks \cup Asians
     /\ story.swept.name \in Days \cup Weeks \cup Asians =>
          \A k \in DOMAIN story.unswept : story.unswept[k].name # story.swept.name
=============================================================================
