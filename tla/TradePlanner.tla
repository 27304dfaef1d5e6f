---------------------------- MODULE TradePlanner ----------------------------
(* backend/trade_planner/trade_planner.py: entry, stop and targets of one     *)
(* trade plan and whether it may be executed.  The planner asks liquidity,    *)
(* ICT, risk and the confidence engine one after the other, and the last asks *)
(* ICT again, so the direction it trades and the zones it enters at may come  *)
(* from two readings.  Prices are small integers, 0 stands for none.          *)
EXTENDS Integers, Sequences, FiniteSetsExt

CONSTANTS
  Boxes,       \* price zones <<low, high>> an FVG or an order block can have
  SweepLevels, \* levels of the latest sweep, 0 when there was none
  Books,       \* liquidity: [internal, engineered, external], sets of levels
  PRICE,       \* the current price
  BUFFER,      \* the stop buffer of the symbol
  FALLBACK     \* the distance of a synthetic stop, entry_price * 0.001

VARIABLES
  setup,   \* what the analyzers reported
  plan     \* the plan made of it

planner_vars == <<setup, plan>>

Ways == {"bullish", "bearish"}
NoBox == <<0, 0>>
Detected(box) == box # NoBox
Distance(a, b) == IF a > b THEN a - b ELSE b - a
Midpoint(box) == (box[1] + box[2]) \div 2

\* Reward per risk in hundredths, as rounded to two digits.
RR(entry, target, distance) ==
  IF entry = 0 \/ target = 0 \/ distance <= 0 THEN 0
  ELSE (200 * Distance(target, entry) + distance) \div (2 * distance)

MinimumFinalRR == 300

\* Confluence of both zones, else the FVG, else the order block.
EntryInZones(fvg, ob) ==
  LET overlap == <<Max({fvg[1], ob[1]}), Min({fvg[2], ob[2]})>>
  IN IF Detected(fvg) /\ Detected(ob) /\ overlap[1] <= overlap[2] THEN Midpoint(overlap)
     ELSE IF Detected(fvg) THEN Midpoint(fvg)
     ELSE IF Detected(ob) THEN Midpoint(ob) ELSE 0

Entry(s, direction) ==
  IF \/ direction = "bullish" /\ s.zone \notin {"discount", "equilibrium"}
     \/ direction = "bearish" /\ s.zone \notin {"premium", "equilibrium"}
  THEN 0 ELSE EntryInZones(s.fvg, s.ob)

TestModeEntry(s, direction) ==
  LET price == EntryInZones(s.fvg, s.ob)
  IN IF price > 0 THEN price ELSE IF direction \in Ways THEN PRICE ELSE 0

Prices(levels) == {l.price : l \in levels}

\* The level of a set nearest to the entry on the losing side, 0 if none.
Protective(levels, direction, entry) ==
  LET below == {p \in Prices(levels) : p < entry}
      above == {p \in Prices(levels) : p > entry}
  IN CASE direction = "bullish" /\ below # {} -> Max(below)
       [] direction = "bearish" /\ above # {} -> Min(above)
       [] OTHER -> 0

OnSide(levels, side) == {l \in levels : l.side = side}

StopSwing(s, direction, entry) ==
  Protective(OnSide(s.book.internal, IF direction = "bullish" THEN "sell_side" ELSE "buy_side"),
             direction, entry)

Buffered(base, direction) == IF direction = "bullish" THEN base - BUFFER ELSE base + BUFFER
StopAt(price, entry) == [price |-> price, distance |-> Distance(entry, price)]
NoStop == [price |-> 0, distance |-> 0]

\* The sweep's level, else the order block's far edge, else a swing; nothing
\* asks on which side of the entry the level lies.
StopLoss(s, direction, entry) ==
  LET base == IF s.sweep > 0 THEN s.sweep
              ELSE IF Detected(s.ob) /\ direction = "bullish" THEN s.ob[1]
              ELSE IF Detected(s.ob) /\ direction = "bearish" THEN s.ob[2]
              ELSE StopSwing(s, direction, entry)
  IN IF base = 0 \/ entry = 0 \/ direction \notin Ways THEN NoStop
     ELSE StopAt(Buffered(base, direction), entry)

\* Any level counts for a synthetic stop, the sweep's too.
TestModeStop(s, direction, entry) ==
  LET all == s.book.internal \cup s.book.engineered \cup s.book.external
             \cup (IF s.sweep > 0 THEN {[price |-> s.sweep, side |-> "any"]} ELSE {})
      base == Protective(all, direction, entry)
  IN IF entry = 0 \/ direction \notin Ways THEN NoStop
     ELSE IF base > 0 THEN StopAt(Buffered(base, direction), entry)
     ELSE StopAt(IF direction = "bullish" THEN entry - FALLBACK ELSE entry + FALLBACK, entry)

\* Mutated form: the side is asked for, the price is not.
TargetsOfSide(levels, direction, entry, distance, minimum) ==
  {l.price : l \in {t \in levels :
     /\ direction = "bullish" => t.side = "buy_side"
     /\ direction = "bearish" => t.side = "sell_side"
     /\ minimum > 0 => RR(entry, t.price, distance) >= minimum}}

\* Without a direction no side is asked for.
ValidTargets(levels, direction, entry, distance, minimum) ==
  {l.price : l \in {t \in levels :
     /\ direction = "bullish" => t.side = "buy_side" /\ t.price > entry
     /\ direction = "bearish" => t.side = "sell_side" /\ t.price < entry
     /\ minimum > 0 => RR(entry, t.price, distance) >= minimum}}

\* The price nearest to the entry, the lower one of two as near, 0 if none.
Nearest(prices, entry) ==
  LET Nearer(a, b) == \/ Distance(a, entry) < Distance(b, entry)
                      \/ Distance(a, entry) = Distance(b, entry) /\ a < b
  IN IF prices = {} THEN 0 ELSE CHOOSE p \in prices : \A q \in prices \ {p} : Nearer(p, q)

TakeProfit(s, direction, entry, distance) ==
  LET near == UNION {ValidTargets(levels, direction, entry, distance, 0)
                      : levels \in {s.book.internal, s.book.engineered}}
      final == ValidTargets(s.book.external, direction, entry, distance, MinimumFinalRR)
      first == Nearest(near \cup final, entry)
  IN <<first, Nearest((near \cup final) \ {first}, entry), Nearest(final, entry)>>

FilledTargets(targets, direction, entry, distance) ==
  IF entry = 0 \/ distance <= 0 \/ direction \notin Ways THEN targets
  ELSE [n \in 1..3 |-> IF targets[n] > 0 THEN targets[n]
                       ELSE IF direction = "bullish" THEN entry + n * distance
                       ELSE entry - n * distance]

InferDirection(s) ==
  IF s.mss \in Ways THEN s.mss
  ELSE CASE s.swept = "sell_side" -> "bullish" [] s.swept = "buy_side" -> "bearish" [] OTHER -> "none"

\* evaluate_execution_gates.
Allowed(s, direction, entry, stop, targets) ==
  /\ s.approved /\ s.risk_allowed /\ s.ready
  /\ direction \in Ways /\ entry > 0 /\ stop.distance > 0
  /\ \E n \in 1..3 : targets[n] > 0
  /\ RR(entry, targets[3], stop.distance) >= MinimumFinalRR

\* analyze: in test mode whatever is missing is made up, and what was made up
\* keeps the plan from being executed.  The confidence engine's direction comes
\* first, the ICT reading's second.
Analyzed(s) ==
  LET known == IF s.wanted \in Ways THEN s.wanted ELSE s.mss
      direction == IF s.test_mode /\ known = "none" THEN InferDirection(s) ELSE known
      entry0 == Entry(s, direction)
      entry == IF s.test_mode /\ entry0 = 0 THEN TestModeEntry(s, direction) ELSE entry0
      stop0 == StopLoss(s, direction, entry)
      stop == IF s.test_mode /\ stop0.distance = 0 THEN TestModeStop(s, direction, entry) ELSE stop0
      targets0 == TakeProfit(s, direction, entry, stop.distance)
      lacking == \E n \in 1..3 : targets0[n] = 0
      targets == IF s.test_mode /\ lacking THEN FilledTargets(targets0, direction, entry, stop.distance)
                 ELSE targets0
      synthetic == s.test_mode /\ (direction # known \/ entry0 = 0 \/ stop0.distance = 0 \/ lacking)
      allowed == Allowed(s, direction, entry, stop, targets)
  IN [direction |-> direction, entry |-> entry, stop |-> stop, targets |-> targets,
      executable |-> allowed /\ ~synthetic,
      quality |-> IF allowed /\ ~synthetic THEN "valid"
                  ELSE IF s.test_mode /\ (synthetic \/ ~allowed) THEN "diagnostic_only"
                  ELSE "invalid"]

NoPlan == [direction |-> "none", entry |-> 0, stop |-> NoStop, targets |-> <<0, 0, 0>>,
           executable |-> FALSE, quality |-> "invalid"]
NoSetup == [approved |-> FALSE]

PlannerInit == setup = NoSetup /\ plan = NoPlan

\* An ICT reading is ready only with both zones, an MSS, and price in the half
\* the MSS asks for.
PlanTrade ==
  /\ setup = NoSetup
  /\ \E mss, wanted \in Ways \cup {"none"}, zone \in {"premium", "discount", "equilibrium"},
        fvg, ob \in Boxes \cup {NoBox}, sweep \in SweepLevels, swept \in {"sell_side", "buy_side"},
        book \in Books, test_mode, risk_allowed \in BOOLEAN :
     \E ready \in IF Detected(fvg) /\ Detected(ob)
                     /\ <<mss, zone>> \in {<<"bullish", "discount">>, <<"bearish", "premium">>}
                  THEN BOOLEAN ELSE {FALSE},
        approved \in IF wanted = "none" THEN {FALSE} ELSE BOOLEAN :
       setup' = [mss |-> mss, wanted |-> wanted, zone |-> zone, fvg |-> fvg, ob |-> ob,
                 sweep |-> sweep, swept |-> IF sweep = 0 THEN "none" ELSE swept,
                 book |-> book, test_mode |-> test_mode, risk_allowed |-> risk_allowed,
                 ready |-> ready, approved |-> approved]
  /\ plan' = Analyzed(setup')

PlannerTypeOK ==
  /\ plan.direction \in Ways \cup {"none"} /\ plan.entry >= 0 /\ plan.stop.distance >= 0
  /\ Len(plan.targets) = 3 /\ plan.executable \in BOOLEAN
  /\ plan.quality \in {"valid", "diagnostic_only", "invalid"}

Gain(price) == IF plan.direction = "bullish" THEN price - plan.entry ELSE plan.entry - price

\* A plan the planner lets through trades the way the very ICT reading points
\* that its entry zones come from, although its direction is the confidence
\* engine's, who read ICT a second time; the first target is the nearest and
\* all of them lie on the profit side; the second is further than the first;
\* and the final one is worth three times the risk, give or take the rounding.
ExecutablePlanIsCoherent ==
  plan.executable =>
    /\ plan.direction = setup.mss
    /\ Gain(plan.targets[1]) > 0
    /\ plan.targets[2] > 0 => Gain(plan.targets[2]) > Gain(plan.targets[1])
    /\ Gain(plan.targets[3]) >= Gain(plan.targets[1])
    /\ 200 * Gain(plan.targets[3]) >= 599 * plan.stop.distance
=============================================================================
