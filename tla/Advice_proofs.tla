---------------------------- MODULE Advice_proofs ----------------------------
(***************************************************************************)
(* Proofs that advice has its grounds, for all values of the constants: the *)
(* trade plan that may be executed, the strategy the watch publishes, and    *)
(* the portfolio's ceiling.                                                  *)
(***************************************************************************)
EXTENDS Advisor_proofs

-----------------------------------------------------------------------------
(* A plan that may be executed is made of nothing made up, and its targets    *)
(* lie beyond the entry, nearest first.                                       *)

Zoned(s) == <<s.mss, s.zone>> \in {<<"bullish", "discount">>, <<"bearish", "premium">>}

\* What the analyzers can report.
Reported(s) ==
  /\ s.test_mode \in BOOLEAN /\ s.sweep \in Nat /\ s.fvg \in Nat \X Nat /\ s.ob \in Nat \X Nat
  /\ s.ready => Zoned(s)
  /\ \A levels \in {s.book.internal, s.book.engineered, s.book.external} :
       \A l \in levels : l.price \in Nat \ {0}

PlanMade == plan = Planner!NoPlan \/ (Reported(setup) /\ plan = Planner!Analyzed(setup))

\* Whatever test mode makes up keeps a plan from being executed.
LEMMA NothingMadeUp ==
  ASSUME NEW s, s.test_mode \in BOOLEAN, Planner!Analyzed(s).executable
  PROVE  LET p == Planner!Analyzed(s)
         IN /\ s.ready /\ p.direction \in Planner!Ways /\ p.entry > 0 /\ p.stop.distance > 0
            /\ p.entry = Planner!Entry(s, p.direction)
            /\ p.stop = Planner!StopLoss(s, p.direction, p.entry)
            /\ p.targets = Planner!TakeProfit(s, p.direction, p.entry, p.stop.distance)
            /\ Planner!RR(p.entry, p.targets[3], p.stop.distance) >= Planner!MinimumFinalRR
<1> DEFINE known == IF s.wanted \in Planner!Ways THEN s.wanted ELSE s.mss
           direction == IF s.test_mode /\ known = "none" THEN Planner!InferDirection(s) ELSE known
           entry0 == Planner!Entry(s, direction)
           entry == IF s.test_mode /\ entry0 = 0 THEN Planner!TestModeEntry(s, direction) ELSE entry0
           stop0 == Planner!StopLoss(s, direction, entry)
           stop == IF s.test_mode /\ stop0.distance = 0 THEN Planner!TestModeStop(s, direction, entry)
                   ELSE stop0
           targets0 == Planner!TakeProfit(s, direction, entry, stop.distance)
           lacking == \E n \in 1..3 : targets0[n] = 0
           targets == IF s.test_mode /\ lacking
                      THEN Planner!FilledTargets(targets0, direction, entry, stop.distance) ELSE targets0
           synthetic == s.test_mode /\ (direction # known \/ entry0 = 0 \/ stop0.distance = 0 \/ lacking)
           allowed == Planner!Allowed(s, direction, entry, stop, targets)
           p == Planner!Analyzed(s)
<1>1. /\ p.direction = direction /\ p.entry = entry /\ p.stop = stop /\ p.targets = targets
      /\ p.executable = (allowed /\ ~synthetic)
  BY DEF Planner!Analyzed
<1>2. allowed /\ ~synthetic
  BY <1>1
<1>3. entry = entry0 /\ stop = stop0 /\ targets = targets0
  BY <1>2
<1> HIDE DEF direction, entry0, entry, stop0, stop, targets0, targets
<1>4. /\ s.ready /\ direction \in Planner!Ways /\ entry > 0 /\ stop.distance > 0
      /\ Planner!RR(entry, targets[3], stop.distance) >= Planner!MinimumFinalRR
  BY <1>2 DEF Planner!Allowed
<1>5. entry0 = Planner!Entry(s, direction) /\ stop0 = Planner!StopLoss(s, direction, entry)
  BY DEF entry0, stop0
<1>6. targets0 = Planner!TakeProfit(s, direction, entry, stop.distance)
  BY DEF targets0
<1> QED
  BY <1>1, <1>3, <1>4, <1>5, <1>6

\* The nearest of some prices on one side of the entry.
LEMMA NearestOfSide ==
  ASSUME NEW prices \in SUBSET Nat, NEW entry \in Nat, prices # {},
         (\A p \in prices : p > entry) \/ (\A p \in prices : p < entry)
  PROVE  LET first == Planner!Nearest(prices, entry)
         IN first \in prices /\ \A q \in prices \ {first} :
                                  Planner!Distance(first, entry) < Planner!Distance(q, entry)
<1> DEFINE Nearer(a, b) == \/ Planner!Distance(a, entry) < Planner!Distance(b, entry)
                           \/ Planner!Distance(a, entry) = Planner!Distance(b, entry) /\ a < b
           first == Planner!Nearest(prices, entry)
<1>1. \A p \in prices : Planner!Distance(p, entry) \in Nat
  BY DEF Planner!Distance
<1>2. \A p, q \in prices : Planner!Distance(p, entry) = Planner!Distance(q, entry) => p = q
  BY DEF Planner!Distance
<1>3. \E p \in prices : \A q \in prices \ {p} : Nearer(p, q)
  <2> DEFINE lengths == {Planner!Distance(p, entry) : p \in prices}
  <2>1. lengths \in SUBSET Nat /\ lengths # {}
    BY <1>1
  <2>2. PICK m \in lengths : \A k \in lengths : m <= k
    BY <2>1, LeastNat
  <2>3. PICK p \in prices : m = Planner!Distance(p, entry)
    OBVIOUS
  <2>4. ASSUME NEW q \in prices \ {p}
        PROVE  Planner!Distance(p, entry) < Planner!Distance(q, entry)
    <3>1. Planner!Distance(p, entry) <= Planner!Distance(q, entry)
      BY <2>2, <2>3
    <3>2. Planner!Distance(p, entry) # Planner!Distance(q, entry)
      BY <1>2
    <3>3. Planner!Distance(p, entry) \in Nat /\ Planner!Distance(q, entry) \in Nat
      BY <1>1
    <3> QED
      BY <3>1, <3>2, <3>3
  <2> QED
    BY <2>4
<1>4. first = CHOOSE p \in prices : \A q \in prices \ {p} : Nearer(p, q)
  BY DEF Planner!Nearest
<1> HIDE DEF first
<1>5. first \in prices /\ \A q \in prices \ {first} : Nearer(first, q)
  BY <1>3, <1>4
<1>6. ASSUME NEW q \in prices \ {first}
      PROVE  Planner!Distance(first, entry) < Planner!Distance(q, entry)
  BY <1>1, <1>2, <1>5, <1>6
<1> QED
  BY <1>5, <1>6 DEF first

\* Each target of a direction lies beyond the entry.
LEMMA TargetsBeyond ==
  ASSUME NEW levels, \A l \in levels : l.price \in Nat \ {0},
         NEW direction \in Planner!Ways, NEW entry, NEW distance, NEW minimum
  PROVE  /\ Planner!ValidTargets(levels, direction, entry, distance, minimum) \in SUBSET (Nat \ {0})
         /\ \A p \in Planner!ValidTargets(levels, direction, entry, distance, minimum) :
              IF direction = "bullish" THEN p > entry ELSE p < entry
<1> DEFINE targets == Planner!ValidTargets(levels, direction, entry, distance, minimum)
<1>1. ASSUME NEW p \in targets
      PROVE  p \in Nat \ {0} /\ IF direction = "bullish" THEN p > entry ELSE p < entry
  <2>1. PICK l \in levels : /\ p = l.price
                            /\ direction = "bullish" => l.price > entry
                            /\ direction = "bearish" => l.price < entry
    BY DEF Planner!ValidTargets
  <2> QED
    BY <2>1 DEF Planner!Ways
<1> QED
  BY <1>1

\* A stop of a direction lies at a distance.
LEMMA StopMeasured ==
  ASSUME NEW s, Reported(s), NEW direction \in Planner!Ways, NEW entry \in Nat
  PROVE  Planner!StopLoss(s, direction, entry).distance \in Int
<1> DEFINE swing == Planner!StopSwing(s, direction, entry)
           base == IF s.sweep > 0 THEN s.sweep
                   ELSE IF Planner!Detected(s.ob) /\ direction = "bullish" THEN s.ob[1]
                   ELSE IF Planner!Detected(s.ob) /\ direction = "bearish" THEN s.ob[2]
                   ELSE swing
<1>1. swing \in Nat
  <2> DEFINE side == IF direction = "bullish" THEN "sell_side" ELSE "buy_side"
             prices == Planner!Prices(Planner!OnSide(s.book.internal, side))
             below == {p \in prices : p < entry}
             above == {p \in prices : p > entry}
  <2>1. prices \in SUBSET Nat
    BY DEF Reported, Planner!Prices, Planner!OnSide
  <2>2. below # {} => Planner!Max(below) \in Nat
    <3>1. below \in SUBSET Nat /\ \A p \in below : p <= entry
      BY <2>1
    <3>2. below # {} => \E m \in below : \A k \in below : k <= m
      BY <3>1, GreatestNat
    <3>3. Planner!Max(below) = CHOOSE m \in below : \A k \in below : k <= m
      BY DEF Planner!Max
    <3> HIDE DEF below
    <3> QED
      BY <3>1, <3>2, <3>3
  <2>3. above # {} => Planner!Min(above) \in Nat
    <3>1. above \in SUBSET Nat
      BY <2>1
    <3>2. above # {} => \E m \in above : \A k \in above : m <= k
      BY <3>1, LeastNat
    <3>3. Planner!Min(above) = CHOOSE m \in above : \A k \in above : m <= k
      BY DEF Planner!Min
    <3> HIDE DEF above
    <3> QED
      BY <3>1, <3>2, <3>3
  <2>4. swing = CASE direction = "bullish" /\ below # {} -> Planner!Max(below)
                  [] direction = "bearish" /\ above # {} -> Planner!Min(above)
                  [] OTHER -> 0
    BY DEF Planner!StopSwing, Planner!Protective
  <2> HIDE DEF below, above, swing
  <2> QED
    BY <2>2, <2>3, <2>4
<1>2. base \in Nat
  <2> HIDE DEF swing
  <2> QED
    BY <1>1 DEF Reported
<1>3. Planner!StopLoss(s, direction, entry) =
        IF base = 0 \/ entry = 0 \/ direction \notin Planner!Ways THEN Planner!NoStop
        ELSE Planner!StopAt(Planner!Buffered(base, direction), entry)
  BY DEF Planner!StopLoss
<1> HIDE DEF base
<1>4. Planner!Buffered(base, direction) \in Int
  BY <1>2, PlannerAssumption DEF Planner!Buffered
<1> QED
  BY <1>3, <1>4 DEF Planner!NoStop, Planner!StopAt, Planner!Distance

\* Where the zones meet, or the middle of the one there is.
LEMMA EntryMeasured ==
  ASSUME NEW s, Reported(s), NEW direction
  PROVE  /\ Planner!Entry(s, direction) \in Nat
         /\ Planner!Entry(s, direction) # 0 =>
              /\ direction = "bullish" => s.zone # "premium"
              /\ direction = "bearish" => s.zone # "discount"
<1>1. ASSUME NEW box \in Nat \X Nat PROVE Planner!Midpoint(box) \in Nat
  BY DEF Planner!Midpoint
<1>2. ASSUME NEW a \in Nat, NEW b \in Nat
      PROVE  Planner!Max({a, b}) \in Nat /\ Planner!Min({a, b}) \in Nat
  BY DEF Planner!Max, Planner!Min
<1>3. Planner!EntryInZones(s.fvg, s.ob) \in Nat
  <2> DEFINE overlap == <<Planner!Max({s.fvg[1], s.ob[1]}), Planner!Min({s.fvg[2], s.ob[2]})>>
  <2>1. s.fvg \in Nat \X Nat /\ s.ob \in Nat \X Nat
    BY DEF Reported
  <2>2. overlap \in Nat \X Nat
    BY <1>2, <2>1
  <2>3. Planner!Midpoint(overlap) \in Nat /\ Planner!Midpoint(s.fvg) \in Nat /\ Planner!Midpoint(s.ob) \in Nat
    BY <1>1, <2>1, <2>2
  <2> QED
    BY <2>3 DEF Planner!EntryInZones
<1> QED
  BY <1>3 DEF Planner!Entry

\* A ratio of three, rounded to hundredths, is a distance of 2.995 stops at least.
LEMMA RatioMeasured ==
  ASSUME NEW entry \in Nat, NEW target \in Nat, NEW distance \in Int, distance > 0,
         Planner!RR(entry, target, distance) >= Planner!MinimumFinalRR
  PROVE  target # 0 /\ 200 * Planner!Distance(target, entry) >= 599 * distance
<1> DEFINE gain == 200 * Planner!Distance(target, entry) + distance
           twice == 2 * distance
<1>1. gain \in Nat /\ twice \in Nat /\ twice > 0
  BY DEF Planner!Distance
<1>2. target # 0 /\ gain \div twice >= 300
  BY DEF Planner!RR, Planner!MinimumFinalRR
<1>3. 200 * Planner!Distance(target, entry) = gain - distance /\ twice = 2 * distance
  BY DEF Planner!Distance
<1> HIDE DEF gain, twice
<1>4. gain = twice * (gain \div twice) + (gain % twice) /\ gain \div twice \in Nat /\ gain % twice \in Nat
  BY <1>1, Divided
<1>5. twice * 300 <= twice * (gain \div twice)
  <2> DEFINE ratio == gain \div twice
  <2> HIDE DEF ratio
  <2>1. ratio \in Nat /\ ratio >= 300 => twice * 300 <= twice * ratio
    BY <1>1
  <2> QED
    BY <1>2, <1>4, <2>1 DEF ratio
<1>6. twice * (gain \div twice) \in Nat
  BY <1>1, <1>4
<1> QED
  BY <1>1, <1>2, <1>3, <1>4, <1>5, <1>6
\* What may be executed is coherent.
LEMMA MadeCoherent == PlanMade => Planner!ExecutablePlanIsCoherent
<1> SUFFICES ASSUME PlanMade, plan.executable PROVE Planner!ExecutablePlanIsCoherent
  BY DEF Planner!ExecutablePlanIsCoherent
<1> DEFINE direction == plan.direction
           entry == plan.entry
           distance == plan.stop.distance
           near == UNION {Planner!ValidTargets(levels, direction, entry, distance, 0)
                           : levels \in {setup.book.internal, setup.book.engineered}}
           final == Planner!ValidTargets(setup.book.external, direction, entry, distance,
                                         Planner!MinimumFinalRR)
           all == near \cup final
           first == Planner!Nearest(all, entry)
           second == Planner!Nearest(all \ {first}, entry)
           last == Planner!Nearest(final, entry)
<1>1. Reported(setup) /\ plan = Planner!Analyzed(setup)
  BY DEF PlanMade, Planner!NoPlan
<1>2. /\ setup.ready /\ direction \in Planner!Ways /\ entry > 0 /\ distance > 0
      /\ entry = Planner!Entry(setup, direction)
      /\ plan.stop = Planner!StopLoss(setup, direction, entry)
      /\ plan.targets = Planner!TakeProfit(setup, direction, entry, distance)
      /\ Planner!RR(entry, plan.targets[3], distance) >= Planner!MinimumFinalRR
  <2>1. setup.test_mode \in BOOLEAN
    BY <1>1 DEF Reported
  <2>2. Planner!Analyzed(setup).executable
    BY <1>1
  <2> QED
    BY <1>1, <2>1, <2>2, NothingMadeUp
<1>3. entry \in Nat /\ distance \in Int
  <2>1. entry \in Nat
    BY <1>1, <1>2, EntryMeasured
  <2> QED
    BY <1>1, <1>2, <2>1, StopMeasured
<1>4. direction = setup.mss
  <2>1. entry # 0
    BY <1>2, <1>3
  <2>2. (direction = "bullish" => setup.zone # "premium") /\ (direction = "bearish" => setup.zone # "discount")
    BY <1>1, <1>2, <2>1, EntryMeasured
  <2>3. Zoned(setup)
    BY <1>1, <1>2 DEF Reported
  <2> QED
    BY <1>2, <2>2, <2>3 DEF Zoned, Planner!Ways
<1>5. plan.targets = <<first, second, last>>
  BY <1>2 DEF Planner!TakeProfit
<1> HIDE DEF direction, entry, distance
<1>6. /\ all \in SUBSET (Nat \ {0}) /\ final \in SUBSET all
      /\ \A p \in all : IF direction = "bullish" THEN p > entry ELSE p < entry
  <2>1. \A levels \in {setup.book.internal, setup.book.engineered, setup.book.external} :
          \A l \in levels : l.price \in Nat \ {0}
    BY <1>1 DEF Reported
  <2>2. /\ final \in SUBSET (Nat \ {0})
        /\ \A p \in final : IF direction = "bullish" THEN p > entry ELSE p < entry
    BY <1>2, <2>1, TargetsBeyond
  <2>3. ASSUME NEW levels \in {setup.book.internal, setup.book.engineered}
        PROVE  /\ Planner!ValidTargets(levels, direction, entry, distance, 0) \in SUBSET (Nat \ {0})
               /\ \A p \in Planner!ValidTargets(levels, direction, entry, distance, 0) :
                    IF direction = "bullish" THEN p > entry ELSE p < entry
    <3>1. \A l \in levels : l.price \in Nat \ {0}
      BY <2>1
    <3> QED
      BY <1>2, <3>1, TargetsBeyond
  <2> QED
    BY <2>2, <2>3
<1> HIDE DEF near, final
<1>7. last \in Nat /\ last # 0 /\ 200 * Planner!Distance(last, entry) >= 599 * distance
  <2>1. last = plan.targets[3]
    BY <1>5
  <2>2. last \in Nat
    <3>1. final = {} => last = 0
      BY DEF Planner!Nearest
    <3>2. final # {} => last \in final
      <4>1. final \in SUBSET Nat /\ ((\A p \in final : p > entry) \/ (\A p \in final : p < entry))
        BY <1>6
      <4> QED
        BY <1>3, <4>1, NearestOfSide
    <3> QED
      BY <1>6, <3>1, <3>2
  <2> HIDE DEF last
  <2>3. Planner!RR(entry, last, distance) >= Planner!MinimumFinalRR /\ distance > 0
    BY <1>2, <2>1 DEF entry, distance
  <2> QED
    BY <1>3, <2>2, <2>3, RatioMeasured
<1>8. final # {} /\ all # {}
  BY <1>6, <1>7 DEF Planner!Nearest
<1>9. /\ first \in all
      /\ \A q \in all \ {first} : Planner!Distance(first, entry) < Planner!Distance(q, entry)
  <2>1. all \in SUBSET Nat /\ ((\A p \in all : p > entry) \/ (\A p \in all : p < entry))
    BY <1>6
  <2> QED
    BY <1>3, <1>8, <2>1, NearestOfSide
<1>10. last \in final
  <2>1. final \in SUBSET Nat /\ ((\A p \in final : p > entry) \/ (\A p \in final : p < entry))
    BY <1>6
  <2> QED
    BY <1>3, <1>8, <2>1, NearestOfSide
<1>11. second # 0 => second \in all \ {first}
  <2> DEFINE rest == all \ {first}
  <2>1. rest \in SUBSET Nat /\ ((\A p \in rest : p > entry) \/ (\A p \in rest : p < entry))
    BY <1>6
  <2>2. rest = {} => second = 0
    BY DEF Planner!Nearest
  <2>3. rest # {} => second \in rest
    <3> HIDE DEF rest
    <3>1. rest # {} => Planner!Nearest(rest, entry) \in rest
      BY <1>3, <2>1, NearestOfSide
    <3> QED
      BY <3>1 DEF rest
  <2> QED
    BY <2>2, <2>3
<1> HIDE DEF first, second, last, all
<1>12. ASSUME NEW p \in all
       PROVE  Planner!Gain(p) = Planner!Distance(p, entry) /\ Planner!Gain(p) \in Nat /\ Planner!Gain(p) > 0
  <2>1. p \in Nat /\ IF direction = "bullish" THEN p > entry ELSE p < entry
    BY <1>6
  <2>2. Planner!Gain(p) = IF direction = "bullish" THEN p - entry ELSE entry - p
    BY DEF Planner!Gain, direction, entry
  <2> QED
    BY <1>3, <2>1, <2>2 DEF Planner!Distance
<1>13. plan.targets[1] = first /\ plan.targets[2] = second /\ plan.targets[3] = last
  BY <1>5
<1>14. Planner!Gain(first) > 0
  BY <1>9, <1>12
<1>15. second > 0 => Planner!Gain(second) > Planner!Gain(first)
  <2> SUFFICES ASSUME second > 0 PROVE Planner!Gain(second) > Planner!Gain(first)
    OBVIOUS
  <2>1. second # 0
    OBVIOUS
  <2>2. second \in all \ {first}
    BY <1>11, <2>1
  <2>3. Planner!Distance(first, entry) < Planner!Distance(second, entry)
    BY <1>9, <2>2
  <2> QED
    BY <1>9, <1>12, <2>2, <2>3
<1>16. Planner!Gain(last) >= Planner!Gain(first)
  <2>1. last \in all
    BY <1>6, <1>10
  <2>2. CASE last = first
    BY <1>12, <2>1, <2>2
  <2>3. CASE last # first
    <3>1. Planner!Distance(first, entry) < Planner!Distance(last, entry)
      BY <1>9, <2>1, <2>3
    <3> QED
      BY <1>9, <1>12, <2>1, <3>1
  <2> QED
    BY <2>2, <2>3
<1>17. 200 * Planner!Gain(last) >= 599 * plan.stop.distance
  <2>1. last \in all
    BY <1>6, <1>10
  <2>2. Planner!Gain(last) = Planner!Distance(last, entry)
    BY <1>12, <2>1
  <2> QED
    BY <1>7, <2>2 DEF distance
<1> QED
  BY <1>4, <1>13, <1>14, <1>15, <1>16, <1>17 DEF Planner!ExecutablePlanIsCoherent, direction

LEMMA PlanInit == Planner!PlannerInit => PlanMade
BY DEF Planner!PlannerInit, PlanMade

LEMMA PlanStep == PlanMade /\ [Planner!PlanTrade]_planner_vars => PlanMade'
<1> SUFFICES ASSUME PlanMade, [Planner!PlanTrade]_planner_vars PROVE PlanMade'
  OBVIOUS
<1>1. CASE UNCHANGED planner_vars
  BY <1>1 DEF planner_vars, PlanMade
<1>2. CASE Planner!PlanTrade
  <2>1. plan' = Planner!Analyzed(setup')
    BY <1>2 DEF Planner!PlanTrade
  <2> DEFINE Boxes == {<<18, 22>>, <<20, 30>>} \cup {Planner!NoBox}
  <2>2. PICK mss, wanted \in Planner!Ways \cup {"none"}, zone \in {"premium", "discount", "equilibrium"},
             fvg, ob \in Boxes, sweep \in SweepLevels, swept \in {"sell_side", "buy_side"},
             book \in MCBooks, test_mode, risk_allowed \in BOOLEAN :
          \E ready \in IF Planner!Detected(fvg) /\ Planner!Detected(ob)
                          /\ <<mss, zone>> \in {<<"bullish", "discount">>, <<"bearish", "premium">>}
                       THEN BOOLEAN ELSE {FALSE},
             approved \in IF wanted = "none" THEN {FALSE} ELSE BOOLEAN :
            setup' = [mss |-> mss, wanted |-> wanted, zone |-> zone, fvg |-> fvg, ob |-> ob,
                      sweep |-> sweep, swept |-> IF sweep = 0 THEN "none" ELSE swept,
                      book |-> book, test_mode |-> test_mode, risk_allowed |-> risk_allowed,
                      ready |-> ready, approved |-> approved]
    BY <1>2, Zenon DEF Planner!PlanTrade
  <2> DEFINE zoned == <<mss, zone>> \in {<<"bullish", "discount">>, <<"bearish", "premium">>}
  <2>3. PICK ready \in IF Planner!Detected(fvg) /\ Planner!Detected(ob) /\ zoned THEN BOOLEAN ELSE {FALSE},
             approved \in IF wanted = "none" THEN {FALSE} ELSE BOOLEAN :
            setup' = [mss |-> mss, wanted |-> wanted, zone |-> zone, fvg |-> fvg, ob |-> ob,
                      sweep |-> sweep, swept |-> IF sweep = 0 THEN "none" ELSE swept,
                      book |-> book, test_mode |-> test_mode, risk_allowed |-> risk_allowed,
                      ready |-> ready, approved |-> approved]
    BY <2>2
  <2>4. ready => zoned
    OBVIOUS
  <2>5. fvg \in Nat \X Nat /\ ob \in Nat \X Nat
    <3>1. <<18, 22>> \in Nat \X Nat /\ <<20, 30>> \in Nat \X Nat /\ Planner!NoBox \in Nat \X Nat
      BY DEF Planner!NoBox
    <3> QED
      BY <3>1
  <2>6. \A levels \in {book.internal, book.engineered, book.external} :
          \A l \in levels : l.price \in Nat \ {0}
    BY DEF MCBooks, Level
  <2>7. sweep \in Nat /\ test_mode \in BOOLEAN
    BY PlannerAssumption
  <2>8. Reported(setup')
    <3>1. /\ setup'.test_mode = test_mode /\ setup'.sweep = sweep /\ setup'.fvg = fvg /\ setup'.ob = ob
          /\ setup'.ready = ready /\ setup'.mss = mss /\ setup'.zone = zone /\ setup'.book = book
      BY <2>3
    <3>2. setup'.ready => Zoned(setup')
      BY <2>4, <3>1 DEF Zoned
    <3> QED
      BY <2>5, <2>6, <2>7, <3>1, <3>2 DEF Reported
  <2> QED
    BY <2>1, <2>8 DEF PlanMade
<1> QED
  BY <1>1, <1>2

-----------------------------------------------------------------------------
(* The market watch.  An advice has passed the selector, so nothing forbids   *)
(* it, and where the router names another strategy that one has a grade.  An  *)
(* ICT score that is not lifted by a shift or a sample weighs too little.  Of *)
(* the command center's contexts the scores are bounded one by one: the trend *)
(* and a reversion to the mean stay below their thresholds, an entry without  *)
(* a sweep too, and after a sweep and a shift no other edge reaches the       *)
(* router's.                                                                  *)

\* What a context holds: numbers of up to a hundred, and for the command center
\* its five marks.
Told(c) ==
  /\ \A key \in DOMAIN c.scores : c.scores[key] \in 0..100
  /\ Market!Live(c) => c.marks \subseteq {"sweep", "mss", "fvg", "order_block", "range_phase"}

LEMMA Clamped ==
  ASSUME NEW x \in Int
  PROVE  Market!Clamp(x) = IF x < 0 THEN 0 ELSE IF x > 100 THEN 100 ELSE x
<1> DEFINE least == Market!Min({100, x})
<1>1. least = IF x > 100 THEN 100 ELSE x
  BY DEF Market!Min
<1> HIDE DEF least
<1>2. Market!Max({0, least}) = IF least < 0 THEN 0 ELSE least
  BY <1>1 DEF Market!Max
<1> QED
  BY <1>1, <1>2 DEF Market!Clamp, least

\* Rounding is off by a half at most.
LEMMA RoundedWithin ==
  ASSUME NEW a \in Int, NEW w \in Nat \ {0}
  PROVE  /\ Market!Rounded(a, w) \in Int
         /\ 2 * (w * Market!Rounded(a, w)) <= 2 * a + w
         /\ 2 * a - w <= 2 * (w * Market!Rounded(a, w))
<1> DEFINE low == a \div w
           rest == a % w
<1>1. low \in Int /\ rest \in Int /\ 0 <= rest /\ rest < w /\ a = w * low + rest
  OBVIOUS
<1>2. Market!Rounded(a, w) = IF 2 * rest > w \/ (2 * rest = w /\ low % 2 = 1) THEN low + 1 ELSE low
  BY DEF Market!Rounded
<1> HIDE DEF low, rest
<1>3. w * (low + 1) = w * low + w /\ w * low \in Int
  BY <1>1
<1>4. CASE 2 * rest > w \/ (2 * rest = w /\ low % 2 = 1)
  BY <1>1, <1>2, <1>3, <1>4
<1>5. CASE ~(2 * rest > w \/ (2 * rest = w /\ low % 2 = 1))
  BY <1>1, <1>2, <1>3, <1>5
<1> QED
  BY <1>4, <1>5

\* Points are a score, a half more than the hundredths at most.
LEMMA PointsOf ==
  ASSUME NEW h \in Int
  PROVE  /\ Market!Points(h) \in 0..100
         /\ 100 * Market!Points(h) <= h + 50 \/ Market!Points(h) = 0
<1> DEFINE r == Market!Rounded(h, 100)
<1>1. r \in Int /\ 2 * (100 * r) <= 2 * h + 100
  BY RoundedWithin
<1> HIDE DEF r
<1>2. Market!Clamp(r) = IF r < 0 THEN 0 ELSE IF r > 100 THEN 100 ELSE r
  BY <1>1, Clamped
<1> QED
  BY <1>1, <1>2 DEF Market!Points, r

\* What a context says or a default stands for is a score.
LEMMA SaidWithin ==
  ASSUME NEW c, Told(c), NEW key, NEW default \in 0..100
  PROVE  Market!Said(c, key, default) \in 0..100 /\ Market!OrElse(c, key, default) \in 0..100
<1>1. \A d \in 0..100 : Market!Said(c, key, d) \in 0..100
  BY DEF Told, Market!Said
<1>2. Market!Said(c, key, 0) # 0 => key \in DOMAIN c.scores
  BY DEF Market!Said
<1> QED
  BY <1>1, <1>2 DEF Told, Market!OrElse

\* The quality of a session, listed or not.
LEMMA SessionQuality ==
  ASSUME NEW symbol, NEW name
  PROVE  Market!Session(symbol, name).quality \in 0..92
<1> DEFINE rules == IF symbol \in DOMAIN Market!SessionRules THEN Market!SessionRules[symbol] ELSE <<>>
<1>1. name \in DOMAIN rules => rules[name].quality \in 0..92
  <2>1. CASE symbol \in DOMAIN Market!SessionRules
    <3>1. symbol \in {"US30", "XAUUSD", "BTCUSD", "NAS100", "EURUSD", "GBPUSD"}
      BY <2>1 DEF Market!SessionRules
    <3>2. CASE symbol = "US30"
      BY <3>2 DEF Market!SessionRules, Market!Rule
    <3>3. CASE symbol = "XAUUSD"
      BY <3>3 DEF Market!SessionRules, Market!Rule
    <3>4. CASE symbol = "BTCUSD"
      BY <3>4 DEF Market!SessionRules, Market!Rule
    <3>5. CASE symbol = "NAS100"
      BY <3>5 DEF Market!SessionRules, Market!Rule
    <3>6. CASE symbol = "EURUSD"
      BY <3>6 DEF Market!SessionRules, Market!Rule
    <3>7. CASE symbol = "GBPUSD"
      BY <3>7 DEF Market!SessionRules, Market!Rule
    <3> QED
      BY <3>1, <3>2, <3>3, <3>4, <3>5, <3>6, <3>7
  <2>2. CASE symbol \notin DOMAIN Market!SessionRules
    BY <2>2
  <2> QED
    BY <2>1, <2>2
<1>2. Market!Session(symbol, name) =
        IF name \in DOMAIN rules THEN rules[name]
        ELSE Market!Rule(IF symbol \in {"EURUSD", "GBPUSD"} THEN 20 ELSE 50, "neutral")
  BY DEF Market!Session
<1> HIDE DEF rules
<1> QED
  BY <1>1, <1>2 DEF Market!Rule

\* The first rule that applies, where one does.
LEMMA FirstApplies ==
  ASSUME NEW n \in Nat, NEW rules, DOMAIN rules = 1..n, NEW some \in 1..n, rules[some][1]
  PROVE  \E i \in 1..n : /\ Market!FirstRule(rules) = rules[i][2] /\ rules[i][1]
                         /\ \A j \in 1..n : rules[j][1] => i <= j
<1> DEFINE S == {i \in DOMAIN rules : rules[i][1]}
           i == Market!Min(S)
<1>1. S \in SUBSET Nat /\ S # {}
  OBVIOUS
<1>2. \E m \in S : \A k \in S : m <= k
  BY <1>1, LeastNat
<1>3. i = CHOOSE m \in S : \A k \in S : m <= k
  BY DEF Market!Min
<1>4. i \in S /\ \A k \in S : i <= k
  <2> HIDE DEF i, S
  <2> QED
    BY <1>2, <1>3
<1>5. Market!FirstRule(rules) = rules[i][2]
  BY DEF Market!FirstRule
<1> HIDE DEF i
<1> QED
  BY <1>4, <1>5

\* The strategy with the highest of three numbers.
LEMMA HighestOf ==
  ASSUME NEW value, DOMAIN value = {"ict_liquidity", "trend_following", "mean_reversion"},
         \A s \in DOMAIN value : value[s] \in Int
  PROVE  Market!Highest(value) \in DOMAIN value
<1> DEFINE best(i) == \A s \in DOMAIN value : value[s] <= value[Market!Strategies[i]]
           rules == [i \in 1..3 |-> <<best(i), Market!Strategies[i]>>]
<1>1. /\ Market!Strategies[1] = "ict_liquidity" /\ Market!Strategies[2] = "trend_following"
      /\ Market!Strategies[3] = "mean_reversion"
  BY DEF Market!Strategies
<1>2. best(1) \/ best(2) \/ best(3)
  <2>1. PICK x, y, z \in Int : x = value["ict_liquidity"] /\ y = value["trend_following"] /\ z = value["mean_reversion"]
    OBVIOUS
  <2>2. best(1) <=> (y <= x /\ z <= x)
    BY <1>1, <2>1
  <2>3. best(2) <=> (x <= y /\ z <= y)
    BY <1>1, <2>1
  <2>4. best(3) <=> (x <= z /\ y <= z)
    BY <1>1, <2>1
  <2> HIDE DEF best
  <2> QED
    BY <2>2, <2>3, <2>4
<1> HIDE DEF best
<1>3. PICK some \in 1..3 : rules[some][1]
  BY <1>2
<1>4. DOMAIN rules = 1..3
  OBVIOUS
<1>5. Market!Highest(value) = Market!FirstRule(rules)
  BY DEF Market!Highest, best
<1>6. \A i \in 1..3 : rules[i][2] = Market!Strategies[i]
  OBVIOUS
<1> HIDE DEF rules
<1>7. PICK i \in 1..3 : Market!FirstRule(rules) = rules[i][2]
  BY <1>3, <1>4, FirstApplies
<1>8. i = 1 \/ i = 2 \/ i = 3
  OBVIOUS
<1> QED
  BY <1>1, <1>5, <1>6, <1>7, <1>8

\* Without a sweep, and with the command center's marks only.
Unlifted(c, p) ==
  /\ p.sweep = FALSE /\ "smt" \notin c.marks /\ p.dominant # "liquidity_sweep_reversal"
  /\ Market!OrElse(c, "premium_discount_alignment", 50) = 50

\* A pattern's two findings.
Flagged(p) == p.sweep \in BOOLEAN /\ p.mss \in BOOLEAN

\* The ICT score is a score, and a weight of a fifth keeps it from passing.
LEMMA IctScore ==
  ASSUME NEW c, Told(c), NEW p, Flagged(p), NEW quality \in 0..92
  PROVE  /\ Market!RawScores(c, p, quality).ict_liquidity \in 0..100
         /\ Unlifted(c, p) => Market!RawScores(c, p, quality).ict_liquidity <= 85
<1> DEFINE aligned == Market!OrElse(c, "premium_discount_alignment", 50)
           narrated == Market!OrElse(c, "narrative_alignment", 50)
           base == 2000 + Market!Bonus(p.sweep, 2500) + Market!Bonus(p.mss, 1800)
                   + Market!Bonus("fvg" \in c.marks, 1300) + Market!Bonus("order_block" \in c.marks, 900)
                   + 15 * quality + 8 * aligned + 7 * narrated
                   + Market!Bonus("smt" \in c.marks /\ Market!Said(c, "smt_sample", 0) >= 10, 500)
           shift == IF p.dominant = "noisy_chop" THEN -20
                    ELSE Market!Bonus(Market!Favoured(p) = "ict_liquidity", 8)
           score == Market!RawScores(c, p, quality).ict_liquidity
<1> p.sweep \in BOOLEAN /\ p.mss \in BOOLEAN
  BY DEF Flagged
<1>1. aligned \in 0..100 /\ narrated \in 0..100
  BY SaidWithin, SMTT(30)
<1>2. \A points \in Nat : \A b : Market!Bonus(b, points) \in {0, points} /\ (~b => Market!Bonus(b, points) = 0)
  BY DEF Market!Bonus
<1>3. score = Market!Clamp(Market!Points(base) + shift)
  BY DEF Market!RawScores, Market!ict, Market!mean
<1> DEFINE swept == Market!Bonus(p.sweep, 2500)
           shifted == Market!Bonus(p.mss, 1800)
           gap == Market!Bonus("fvg" \in c.marks, 1300)
           block == Market!Bonus("order_block" \in c.marks, 900)
           paired == Market!Bonus("smt" \in c.marks /\ Market!Said(c, "smt_sample", 0) >= 10, 500)
<1>4. /\ swept \in {0, 2500} /\ shifted \in {0, 1800} /\ gap \in {0, 1300} /\ block \in {0, 900}
      /\ paired \in {0, 500} /\ (~p.sweep => swept = 0) /\ ("smt" \notin c.marks => paired = 0)
  <2>1. swept \in {0, 2500} /\ (~p.sweep => swept = 0)
    BY DEF Market!Bonus
  <2>2. shifted \in {0, 1800}
    BY DEF Market!Bonus
  <2>3. gap \in {0, 1300} /\ block \in {0, 900}
    BY DEF Market!Bonus
  <2>4. paired \in {0, 500} /\ ("smt" \notin c.marks => paired = 0)
    BY DEF Market!Bonus
  <2> QED
    BY <2>1, <2>2, <2>3, <2>4
<1>5. base = 2000 + swept + shifted + gap + block + 15 * quality + 8 * aligned + 7 * narrated + paired
  OBVIOUS
<1>6. shift \in {-20, 0, 8} /\ (p.dominant # "liquidity_sweep_reversal" => shift \in {-20, 0})
  BY <1>2 DEF Market!Favoured, Market!NoTrade, Market!trend, Market!mean, Market!ict, Market!Bonus
<1>0. Unlifted(c, p) => /\ p.sweep = FALSE /\ "smt" \notin c.marks /\ aligned = 50
                       /\ p.dominant # "liquidity_sweep_reversal"
  BY DEF Unlifted
<1> HIDE DEF aligned, narrated, base, shift, score, swept, shifted, gap, block, paired
<1>7. base \in Int
  <2>1. /\ swept \in Int /\ shifted \in Int /\ gap \in Int /\ block \in Int /\ paired \in Int
        /\ aligned \in Int /\ narrated \in Int /\ quality \in Int
    BY <1>1, <1>4
  <2> QED
    BY <1>5, <2>1
<1>8. Market!Points(base) \in 0..100 /\ (100 * Market!Points(base) <= base + 50 \/ Market!Points(base) = 0)
  BY <1>7, PointsOf
<1>9. score = LET x == Market!Points(base) + shift IN IF x < 0 THEN 0 ELSE IF x > 100 THEN 100 ELSE x
  <2>1. Market!Points(base) + shift \in Int
    BY <1>6, <1>8
  <2> QED
    BY <1>3, <2>1, Clamped
<1>10. score \in 0..100
  BY <1>6, <1>8, <1>9
<1>11. ASSUME Unlifted(c, p)
       PROVE  score <= 85
  <2>1. base <= 8480
    BY <1>0, <1>1, <1>4, <1>5, <1>11
  <2>2. Market!Points(base) <= 85
    BY <1>7, <1>8, <2>1
  <2> QED
    BY <1>0, <1>6, <1>8, <1>9, <1>11, <2>2
<1> QED
  BY <1>10, <1>11 DEF score, aligned

Weight(y) == Market!Min({10000, y})

LEMMA WeightOf == \A y \in Nat : Weight(y) \in Nat /\ Weight(y) <= y
<1> TAKE y \in Nat
<1>1. Weight(y) = IF y <= 10000 THEN y ELSE 10000
  BY DEF Weight, Market!Min
<1> QED
  BY <1>1

\* What is published, and by whom.
LEMMA PublishedBy ==
  ASSUME NEW c,
         NEW p, p = Market!Detect(c),
         NEW session, session = Market!Session(c.symbol, c.session),
         NEW raw, raw = Market!RawScores(c, p, session.quality),
         NEW grades, grades = Market!GradeAll(c, p, session.quality),
         Market!Analyze(c).published # "no_trade"
  PROVE  /\ ~c.vetoed /\ p.dominant # "noisy_chop" /\ Market!SessionAcceptable(session)
         /\ Market!Analyze(c).pattern = p /\ Market!Analyze(c).session = session
         /\ LET routed == Market!Routed(c, p, raw, grades)
                weighted == Market!Weighted(c, p, raw)
                chosen == IF p.dominant = "trend_continuation" /\ Market!Passes(raw, weighted, "trend_following")
                          THEN "trend_following" ELSE Market!Best(p, session, weighted)
            IN /\ Market!Passes(raw, weighted, chosen)
               /\ Market!Analyze(c).published = IF routed.strategy # "no_trade" THEN routed.strategy ELSE chosen
<1> DEFINE routed == Market!Routed(c, p, raw, grades)
           weighted == Market!Weighted(c, p, raw)
           chosen == IF p.dominant = "trend_continuation" /\ Market!Passes(raw, weighted, "trend_following")
                     THEN "trend_following" ELSE Market!Best(p, session, weighted)
           selection == Market!Select(c, p, session, raw)
           w == Market!Analyze(c)
<1>1. /\ w.pattern = p /\ w.session = session
      /\ w.published = IF selection.status = "ADVISORY_SELECTED" /\ routed.strategy # "no_trade"
                       THEN routed.strategy ELSE selection.strategy
  BY DEF Market!Analyze, Market!NoTrade
<1>2. selection = IF c.vetoed THEN Market!Selected("no_trade", "BLOCKED")
                  ELSE IF \/ p.dominant = "noisy_chop"
                          \/ ~Market!SessionAcceptable(session)
                          \/ ~Market!Passes(raw, weighted, chosen) THEN Market!Selected("no_trade", "NO_TRADE")
                  ELSE Market!Selected(chosen, "ADVISORY_SELECTED")
  BY DEF Market!Select, Market!NoTrade, Market!trend
<1> HIDE DEF routed, weighted, chosen, selection, w
<1>3. ASSUME c.vetoed \/ p.dominant = "noisy_chop" \/ ~Market!SessionAcceptable(session)
             \/ ~Market!Passes(raw, weighted, chosen)
      PROVE  FALSE
  <2>1. selection.status # "ADVISORY_SELECTED" /\ selection.strategy = "no_trade"
    BY <1>2, <1>3 DEF Market!Selected
  <2> QED
    BY <1>1, <2>1 DEF w
<1>4. selection.status = "ADVISORY_SELECTED" /\ selection.strategy = chosen
  BY <1>2, <1>3 DEF Market!Selected
<1> QED
  BY <1>1, <1>3, <1>4 DEF routed, weighted, chosen, w

\* An ICT advice has a structure shift, or a sample to stand on.
LEMMA IctStands ==
  ASSUME NEW c, Told(c),
         NEW p, Flagged(p),
         NEW quality \in 0..92,
         NEW raw, raw = Market!RawScores(c, p, quality),
         NEW grades, grades = Market!GradeAll(c, p, quality)
  PROVE  /\ Market!Passes(raw, Market!Weighted(c, p, raw), "ict_liquidity")
              => p.mss \/ Market!Said(c, "smt_sample", 0) >= 10
         /\ Market!Routed(c, p, raw, grades).strategy = "ict_liquidity" => p.sweep /\ p.mss
<1> p.sweep \in BOOLEAN /\ p.mss \in BOOLEAN
  BY DEF Flagged
<1>1. ASSUME Market!Passes(raw, Market!Weighted(c, p, raw), "ict_liquidity"),
             ~(p.mss \/ Market!Said(c, "smt_sample", 0) >= 10)
      PROVE  FALSE
  <2>1. Market!Said(c, "smt_sample", 0) < 10
    <3>1. Market!Said(c, "smt_sample", 0) \in 0..100
      BY SaidWithin, SMTT(30)
    <3> QED
      BY <1>1, <3>1
  <2> DEFINE x == raw["ict_liquidity"]
             weight == Market!Weighted(c, p, raw)["ict_liquidity"]
  <2>2. x \in 0..100
    <3>1. Market!RawScores(c, p, quality).ict_liquidity \in 0..100
      BY IctScore
    <3> QED
      BY <3>1
  <2> DEFINE multiplier == IF ~p.mss /\ Market!Said(c, "smt_sample", 0) < 10 THEN 20 ELSE 80
             y == x * multiplier
  <2>3. weight = IF p.dominant = "noisy_chop" THEN 0 ELSE Weight(y)
    BY DEF Market!Weighted, Market!ict, Weight
  <2>4. weight >= 7500
    BY <1>1 DEF Market!Passes, Market!WEIGHTED_THRESHOLD
  <2>5. multiplier = 20
    BY <1>1, <2>1
  <2> HIDE DEF x, weight, multiplier
  <2>6. y \in Nat /\ y <= 2000
    BY <2>2, <2>5
  <2> HIDE DEF y
  <2>7. Weight(y) <= y /\ Weight(y) \in Nat
    BY <2>6, WeightOf
  <2> QED
    BY <2>3, <2>4, <2>6, <2>7
<1>2. ASSUME Market!Routed(c, p, raw, grades).strategy = "ict_liquidity"
      PROVE  p.sweep /\ p.mss
  <2> DEFINE final(s) == Market!Edge(c, p, raw, grades, s)
             edge == [ict_liquidity |-> final("ict_liquidity"), trend_following |-> final("trend_following"),
                      mean_reversion |-> final("mean_reversion")]
             best == Market!Highest(edge)
  <2>1. Market!Routed(c, p, raw, grades) =
          IF grades[best].grade = "REJECT" \/ edge[best] < 7500 THEN Market!NoEdge
          ELSE [strategy |-> best, grade |-> grades[best].grade, edge |-> edge[best]]
    BY DEF Market!Routed, Market!ict, Market!trend, Market!mean
  <2> HIDE DEF best, edge
  <2>2. best = "ict_liquidity" /\ grades["ict_liquidity"].grade # "REJECT"
    BY <1>2, <2>1 DEF Market!NoEdge, Market!NoTrade
  <2>3. grades["ict_liquidity"] =
          Market!Graded(Market!IctParts(c, p, quality), ~p.sweep \/ ~p.mss \/ p.scores.noise_score >= 60)
    BY DEF Market!GradeAll
  <2> QED
    BY <2>2, <2>3 DEF Market!Graded
<1> QED
  BY <1>1, <1>2

\* What the command center does not say is what the watch falls back on.
LEMMA LiveSaid ==
  ASSUME NEW c, Told(c), Market!Live(c), NEW key, key # "narrative_alignment", NEW default
  PROVE  /\ Market!Said(c, key, default) = default
         /\ Market!OrElse(c, key, default) = default
<1>1. key \notin DOMAIN c.scores
  BY DEF Market!Live
<1>2. \A d : Market!Said(c, key, d) = d
  BY <1>1 DEF Market!Said
<1> QED
  BY <1>2 DEF Market!OrElse

LEMMA LiveScores ==
  ASSUME NEW c, Told(c), Market!Live(c)
  PROVE  LET s == Market!Detect(c).scores
         IN /\ s.trend_strength = 50 /\ s.compression_score = 30 /\ s.exhaustion_score = 35
            /\ s.volatility_expansion = 40 /\ s.overextension_score = 50 /\ s.noise_score = 25
            /\ s.range_score \in {30, 80}
<1> DEFINE nothing == [known |-> FALSE]
           fallback == Market!Fallback(c, nothing)
           s == Market!Detect(c).scores
<1>1. c.bars = <<>> /\ Len(c.bars) = 0
  BY DEF Market!Live
<1>2. Market!Stats(c.bars) = nothing
  BY <1>1 DEF Market!Stats
<1>3. Market!Said(c, "trend_strength", 50) = 50
  BY LiveSaid
<1>4. Market!Min({70, 50}) = 50
  BY DEF Market!Min
<1>5. "exhaustion" \notin c.marks
  BY DEF Told
<1>6. /\ DOMAIN fallback = {"trend_strength", "range_score", "compression_score", "exhaustion_score",
                            "volatility_expansion", "overextension_score", "noise_score"}
      /\ fallback.trend_strength = 50 /\ fallback.compression_score = 30 /\ fallback.exhaustion_score = 35
      /\ fallback.volatility_expansion = 40 /\ fallback.noise_score = 25
      /\ fallback.range_score \in {30, 80}
  BY <1>5 DEF Market!Fallback
<1>7. fallback.overextension_score = 50
  <2>1. fallback.overextension_score = Market!Min({70, Market!Said(c, "trend_strength", 50)})
    BY DEF Market!Fallback
  <2> QED
    BY <1>3, <1>4, <2>1
<1>8. s = [key \in DOMAIN fallback |-> Market!Clamp(Market!Said(c, key, fallback[key]))]
  BY <1>2 DEF Market!Detect
<1> HIDE DEF fallback, s
<1>9. \A key \in DOMAIN fallback : s[key] = Market!Clamp(fallback[key])
  <2> TAKE key \in DOMAIN fallback
  <2>1. key # "narrative_alignment"
    BY <1>6
  <2>2. Market!Said(c, key, fallback[key]) = fallback[key]
    BY <2>1, LiveSaid
  <2> QED
    BY <1>8, <2>2
<1>10. \A x \in 0..100 : Market!Clamp(x) = x
  BY Clamped
<1> QED
  BY <1>6, <1>7, <1>9, <1>10 DEF s

\* The patterns the command center's contexts can show.
LEMMA LivePattern ==
  ASSUME NEW c, Told(c), Market!Live(c)
  PROVE  LET p == Market!Detect(c)
         IN /\ p.sweep = ("sweep" \in c.marks) /\ p.mss = ("mss" \in c.marks)
            /\ p.dominant \in {"liquidity_sweep_reversal", "range_mean_reversion", "no_clear_pattern"}
            /\ p.dominant = "liquidity_sweep_reversal" <=> p.sweep /\ p.mss
<1> DEFINE p == Market!Detect(c)
           s == p.scores
           sweep == "sweep" \in c.marks
           mss == "mss" \in c.marks
           rules == << <<s.noise_score >= 70, "noisy_chop">>,
                       <<sweep /\ (mss \/ s.exhaustion_score >= 50), "liquidity_sweep_reversal">>,
                       <<s.compression_score >= 65 /\ s.volatility_expansion >= 50, "compression_breakout">>,
                       <<s.trend_strength >= 70 /\ s.range_score < 55, "trend_continuation">>,
                       <<s.range_score >= 65 /\ s.overextension_score >= 45, "range_mean_reversion">>,
                       <<s.exhaustion_score >= 70, "exhaustion_reversal">>,
                       <<TRUE, "no_clear_pattern">> >>
<1>1. p.sweep = sweep /\ p.mss = mss /\ p.dominant = Market!Dominant(s, sweep, mss)
  BY DEF Market!Detect
<1>2. Market!Dominant(s, sweep, mss) = Market!FirstRule(rules)
  BY DEF Market!Dominant
<1>3. /\ s.trend_strength = 50 /\ s.compression_score = 30 /\ s.exhaustion_score = 35
      /\ s.volatility_expansion = 40 /\ s.overextension_score = 50 /\ s.noise_score = 25
      /\ s.range_score \in {30, 80}
  BY LiveScores
<1> HIDE DEF p, s
<1>4. DOMAIN rules = 1..7 /\ 7 \in 1..7 /\ rules[7][1]
  OBVIOUS
<1>5. /\ ~rules[1][1] /\ ~rules[3][1] /\ ~rules[4][1] /\ ~rules[6][1]
      /\ rules[2][1] <=> sweep /\ mss
  <2>1. ~(s.noise_score >= 70) /\ ~(s.compression_score >= 65) /\ ~(s.trend_strength >= 70)
        /\ ~(s.exhaustion_score >= 70) /\ ~(s.exhaustion_score >= 50)
    BY <1>3
  <2>2. ~rules[1][1] /\ ~rules[3][1] /\ ~rules[4][1] /\ ~rules[6][1]
    BY <2>1
  <2>3. rules[2][1] <=> sweep /\ mss
    BY <2>1, Zenon
  <2> QED
    BY <2>2, <2>3
<1>6. /\ rules[2][2] = "liquidity_sweep_reversal" /\ rules[5][2] = "range_mean_reversion"
      /\ rules[7][2] = "no_clear_pattern"
  OBVIOUS
<1> HIDE DEF rules
<1>7. PICK i \in 1..7 : /\ Market!FirstRule(rules) = rules[i][2] /\ rules[i][1]
                        /\ \A j \in 1..7 : rules[j][1] => i <= j
  BY <1>4, FirstApplies
<1>8. i \in {2, 5, 7}
  BY <1>5, <1>7
<1>9. i = 2 <=> sweep /\ mss
  <2>1. sweep /\ mss => i <= 2
    BY <1>5, <1>7
  <2> QED
    BY <1>5, <1>7, <1>8, <2>1
<1>10. /\ p.dominant \in {"liquidity_sweep_reversal", "range_mean_reversion", "no_clear_pattern"}
       /\ p.dominant = "liquidity_sweep_reversal" <=> i = 2
  BY <1>1, <1>2, <1>6, <1>7, <1>8
<1> QED
  BY <1>1, <1>9, <1>10 DEF p

\* There neither the trend nor a reversion scores enough to pass.
LEMMA LiveRaw ==
  ASSUME NEW c, Told(c), Market!Live(c), NEW quality \in 0..92
  PROVE  LET p == Market!Detect(c)
             raw == Market!RawScores(c, p, quality)
         IN /\ raw.trend_following \in 0..63
            /\ raw.mean_reversion \in 0..74
            /\ p.dominant = "liquidity_sweep_reversal" => raw.mean_reversion \in 0..66
<1> DEFINE p == Market!Detect(c)
           raw == Market!RawScores(c, p, quality)
           swept == Market!Bonus(p.sweep, 1000)
           ranged == p.scores.range_score
           shift(st) == IF p.dominant = "noisy_chop" THEN IF st = "mean_reversion" THEN -15 ELSE -20
                        ELSE Market!Bonus(Market!Favoured(p) = st, 8)
           trendy == 1500 + 35 * p.scores.trend_strength + 18 * p.scores.volatility_expansion
                     + 16 * Market!OrElse(c, "pullback_quality", 50)
                     + 16 * Market!OrElse(c, "continuation_structure", 50)
                     + 15 * Market!OrElse(c, "htf_alignment", 50)
           reverting == 1500 + 25 * p.scores.overextension_score + 25 * p.scores.exhaustion_score
                        + 18 * p.scores.range_score + Market!Bonus("failed_breakout" \in c.marks, 1200)
                        + swept + 10 * Market!OrElse(c, "fair_value_distance", 50)
<1>1. /\ raw.trend_following = Market!Clamp(Market!Points(trendy) + shift("trend_following"))
      /\ raw.mean_reversion = Market!Clamp(Market!Points(reverting) + shift("mean_reversion"))
  BY DEF Market!RawScores, Market!ict, Market!mean, Market!trend
<1>2. /\ p.scores.trend_strength = 50 /\ p.scores.exhaustion_score = 35 /\ p.scores.volatility_expansion = 40
      /\ p.scores.overextension_score = 50 /\ ranged \in {30, 80}
  BY LiveScores
<1>3. p.dominant \in {"liquidity_sweep_reversal", "range_mean_reversion", "no_clear_pattern"}
  BY LivePattern
<1>4. /\ Market!OrElse(c, "pullback_quality", 50) = 50 /\ Market!OrElse(c, "continuation_structure", 50) = 50
      /\ Market!OrElse(c, "htf_alignment", 50) = 50 /\ Market!OrElse(c, "fair_value_distance", 50) = 50
  BY LiveSaid
<1>5. Market!Bonus("failed_breakout" \in c.marks, 1200) = 0
  BY DEF Told, Market!Bonus
<1>6. swept \in {0, 1000}
  BY DEF Market!Bonus
<1>7. trendy = 6320
  BY <1>2, <1>4
<1>8. reverting \in Int /\ reverting <= 6565
  <2>1. reverting = 4125 + 18 * ranged + swept
    BY <1>2, <1>4, <1>5, <1>6
  <2> HIDE DEF reverting, ranged, swept
  <2> QED
    BY <1>2, <1>6, <2>1
<1>9. /\ shift("trend_following") = 0 /\ shift("mean_reversion") \in {0, 8}
      /\ p.dominant = "liquidity_sweep_reversal" => shift("mean_reversion") = 0
  BY <1>3 DEF Market!Bonus, Market!Favoured, Market!ict, Market!mean, Market!trend, Market!NoTrade
<1> DEFINE ahead == Market!Points(trendy)
           back == Market!Points(reverting)
           lift == shift("mean_reversion")
<1> HIDE DEF trendy, reverting, shift
<1>10. /\ ahead \in 0..100 /\ (100 * ahead <= 6370 \/ ahead = 0)
       /\ back \in 0..100 /\ (100 * back <= reverting + 50 \/ back = 0)
  BY <1>7, <1>8, PointsOf
<1> HIDE DEF ahead, back, lift
<1>11. ahead \in 0..63 /\ back \in 0..66
  BY <1>8, <1>10
<1>12. raw.trend_following = ahead
  <2>1. raw.trend_following = Market!Clamp(ahead)
    BY <1>1, <1>9, <1>11 DEF ahead
  <2> QED
    BY <1>11, <2>1, Clamped
<1>13. raw.mean_reversion = back + lift
  <2>1. back + lift \in 0..100
    BY <1>9, <1>11 DEF lift
  <2> QED
    BY <1>1, <2>1, Clamped DEF back, lift
<1> QED
  BY <1>9, <1>11, <1>12, <1>13 DEF lift

\* A total of parts is the sum over their indices.
LEMMA TotalParts ==
  ASSUME NEW n \in Nat, NEW seq \in [1..n -> Int]
  PROVE  \E it : Market!Total(seq) = it[1..n] /\ AddsUp(it, seq, 1..n)
<1>1. PICK it : IsSum(it, seq, 1..n) /\ Market!Total(seq) = it[1..n]
  BY TotalByPart
<1>2. IsFiniteSet(1..n)
  BY FS_Interval
<1>3. AddsUp(it, seq, 1..n)
  BY <1>1, <1>2, SumByElement
<1> QED
  BY <1>1, <1>3

LEMMA TotalTyped ==
  ASSUME NEW n \in Nat, NEW seq \in [1..n -> Int]
  PROVE  Market!Total(seq) \in Int
<1>1. PICK it : Market!Total(seq) = it[1..n] /\ AddsUp(it, seq, 1..n)
  BY TotalParts
<1> QED
  BY <1>1 DEF AddsUp

\* Eight parts, written out.
LEMMA TotalOfEight ==
  ASSUME NEW n \in Nat, n = 8, NEW seq \in [1..n -> Int]
  PROVE  Market!Total(seq) = seq[1] + seq[2] + seq[3] + seq[4] + seq[5] + seq[6] + seq[7] + seq[8]
<1>1. PICK it : Market!Total(seq) = it[1..n] /\ AddsUp(it, seq, 1..n)
  BY TotalParts
<1> DEFINE From(m) == {x \in 1..n : x >= m}
<1>2. ASSUME NEW m \in 1..n PROVE it[From(m)] = seq[m] + it[From(m + 1)] /\ it[From(m + 1)] \in Int
  <2>1. m \in From(m) /\ From(m) \ {m} = From(m + 1)
    OBVIOUS
  <2>2. \A k : From(k) \in SUBSET (1..n)
    OBVIOUS
  <2> HIDE DEF From
  <2> DEFINE S == 1..n
  <2>3. /\ \A s \in SUBSET S : it[s] \in Int
        /\ \A s \in SUBSET S : \A y \in s : it[s] = seq[y] + it[s \ {y}]
    BY <1>1 DEF AddsUp
  <2>4. From(m) \in SUBSET S /\ From(m + 1) \in SUBSET S
    BY <2>2
  <2> HIDE DEF S
  <2>5. it[From(m)] = seq[m] + it[From(m) \ {m}]
    BY <2>1, <2>3, <2>4
  <2> QED
    BY <2>1, <2>3, <2>4, <2>5
<1>3. From(1) = 1..n /\ From(9) = {}
  OBVIOUS
<1> HIDE DEF From
<1>4. /\ it[From(1)] = seq[1] + it[From(2)] /\ it[From(2)] = seq[2] + it[From(3)]
      /\ it[From(3)] = seq[3] + it[From(4)] /\ it[From(4)] = seq[4] + it[From(5)]
      /\ it[From(5)] = seq[5] + it[From(6)] /\ it[From(6)] = seq[6] + it[From(7)]
      /\ it[From(7)] = seq[7] + it[From(8)] /\ it[From(8)] = seq[8] + it[From(9)]
  <2>1. \A m \in 1..n : it[From(m)] = seq[m] + it[From(m + 1)]
    BY <1>2
  <2>2. 1 + 1 = 2 /\ 2 + 1 = 3 /\ 3 + 1 = 4 /\ 4 + 1 = 5 /\ 5 + 1 = 6 /\ 6 + 1 = 7 /\ 7 + 1 = 8 /\ 8 + 1 = 9
    OBVIOUS
  <2>3. 1 \in 1..n /\ 2 \in 1..n /\ 3 \in 1..n /\ 4 \in 1..n /\ 5 \in 1..n /\ 6 \in 1..n /\ 7 \in 1..n /\ 8 \in 1..n
    OBVIOUS
  <2> QED
    BY <2>1, <2>2, <2>3
<1>5. /\ seq[1] \in Int /\ seq[2] \in Int /\ seq[3] \in Int /\ seq[4] \in Int
      /\ seq[5] \in Int /\ seq[6] \in Int /\ seq[7] \in Int /\ seq[8] \in Int
  OBVIOUS
<1>6. it[From(9)] = 0 /\ Market!Total(seq) = it[From(1)]
  BY <1>1, <1>3 DEF AddsUp
<1> QED
  BY <1>4, <1>5, <1>6

\* A grade is one of five, and below 72 on average at most a B.
LEMMA GradeWithin ==
  ASSUME NEW sum \in Int, NEW n \in Nat
  PROVE  /\ Market!GradeOf(sum, n) \in {"A+", "A", "B", "C", "REJECT"}
         /\ n = 8 /\ sum < 576 => Market!GradeOf(sum, n) \in {"B", "C", "REJECT"}
<1> DEFINE rules == << <<sum >= 82 * n, "A+">>, <<sum >= 72 * n, "A">>, <<sum >= 60 * n, "B">>,
                       <<sum >= 45 * n, "C">>, <<TRUE, "REJECT">> >>
<1>1. Market!GradeOf(sum, n) = Market!FirstRule(rules)
  BY DEF Market!GradeOf
<1>2. DOMAIN rules = 1..5 /\ 5 \in 1..5 /\ rules[5][1]
  OBVIOUS
<1>3. /\ rules[1][2] = "A+" /\ rules[2][2] = "A" /\ rules[3][2] = "B" /\ rules[4][2] = "C"
      /\ rules[5][2] = "REJECT"
  OBVIOUS
<1>4. ASSUME n = 8, sum < 576 PROVE ~rules[1][1] /\ ~rules[2][1]
  <2>1. ~(sum >= 82 * n) /\ ~(sum >= 72 * n)
    BY <1>4
  <2> QED
    BY <2>1
<1> HIDE DEF rules
<1>5. PICK i \in 1..5 : Market!FirstRule(rules) = rules[i][2] /\ rules[i][1]
  BY <1>2, FirstApplies
<1>6. i \in {1, 2, 3, 4, 5}
  OBVIOUS
<1> QED
  BY <1>1, <1>3, <1>4, <1>5, <1>6

\* The factors of an edge after a sweep.
LEMMA FactorsKnown ==
  ASSUME NEW session
  PROVE  /\ Market!Factor(Market!SessionFactors, session) \in 60..108
         /\ Market!Factor(Market!StrategyFactors, "ict_liquidity") = 75
         /\ Market!Factor(Market!StrategyFactors, "mean_reversion") = 118
         /\ Market!Factor(Market!PatternFactors, "liquidity_sweep_reversal") = 85
<1>1. session \in {"new_york_open", "new_york_continuation", "london_open", "london_continuation", "asia"}
      => Market!SessionFactors[session] \in 60..108
  BY DEF Market!SessionFactors
<1>2. DOMAIN Market!SessionFactors =
        {"new_york_open", "new_york_continuation", "london_open", "london_continuation", "asia"}
  BY DEF Market!SessionFactors
<1>3. Market!Factor(Market!SessionFactors, session) \in 60..108
  BY <1>1, <1>2 DEF Market!Factor
<1>4. /\ Market!Factor(Market!StrategyFactors, "ict_liquidity") = 75
      /\ Market!Factor(Market!StrategyFactors, "mean_reversion") = 118
  BY DEF Market!Factor, Market!StrategyFactors
<1>5. Market!Factor(Market!PatternFactors, "liquidity_sweep_reversal") = 85
  BY DEF Market!Factor, Market!PatternFactors
<1> QED
  BY <1>3, <1>4, <1>5

\* The edge of a swept reversal, and how little a reversion to the mean has there.
LEMMA EdgeScored ==
  ASSUME NEW session, NEW grade \in {"A+", "A", "B", "C"},
         NEW strategy \in {"ict_liquidity", "mean_reversion"}
  PROVE  LET edge == Market!EdgeScore(strategy, grade, session, "liquidity_sweep_reversal")
         IN /\ edge \in Int
            /\ strategy = "mean_reversion" /\ grade \in {"B", "C"} => edge <= 8064
<1> DEFINE base == Market!Expected[grade]
           f == Market!Factor(Market!StrategyFactors, strategy)
           g == Market!Factor(Market!SessionFactors, session)
           factor == f * g * Market!Factor(Market!PatternFactors, "liquidity_sweep_reversal")
           least == Market!Min({1150000, factor})
           pf == Market!Rounded(base.pf * factor, 1000000)
           won == Market!Rounded(base.wr * least, 100000)
           wr == Market!Min({8500, won})
           edge == Market!EdgeScore(strategy, grade, session, "liquidity_sweep_reversal")
<1>1. edge = Market!Rounded(250 * pf + 6 * wr + 200 * base.rr, 10)
  BY DEF Market!EdgeScore
<1>2. f \in {75, 118} /\ g \in 60..108 /\ Market!Factor(Market!PatternFactors, "liquidity_sweep_reversal") = 85
  BY FactorsKnown
<1>3. /\ base.pf \in {285, 225, 148, 72} /\ base.wr \in {735, 684, 582, 431} /\ base.rr \in {52, 38, 14, -16}
      /\ grade \in {"B", "C"} => /\ (base.pf = 148 /\ base.wr = 582) \/ (base.pf = 72 /\ base.wr = 431)
                               /\ base.rr <= 14
  <2>1. CASE grade = "A+"
    <3>1. base = [pf |-> 285, wr |-> 735, rr |-> 52]
      BY <2>1 DEF Market!Expected
    <3> QED
      BY <2>1, <3>1, SMT
  <2>2. CASE grade = "A"
    <3>1. base = [pf |-> 225, wr |-> 684, rr |-> 38]
      BY <2>2 DEF Market!Expected
    <3> QED
      BY <2>2, <3>1, SMT
  <2>3. CASE grade = "B"
    <3>1. base = [pf |-> 148, wr |-> 582, rr |-> 14]
      BY <2>3 DEF Market!Expected
    <3> QED
      BY <2>3, <3>1, SMT
  <2>4. CASE grade = "C"
    <3>1. base = [pf |-> 72, wr |-> 431, rr |-> -16]
      BY <2>4 DEF Market!Expected
    <3> QED
      BY <2>4, <3>1, SMT
  <2> QED
    BY <2>1, <2>2, <2>3, <2>4
<1> HIDE DEF base, f, g, edge
<1>4. factor \in Nat /\ factor <= 1083240
  <2>1. f * g \in Nat /\ f * g <= 12744
    BY <1>2, SMT
  <2>2. factor = (f * g) * 85
    BY <1>2, SMT
  <2> QED
    BY <2>1, <2>2, SMT
<1> HIDE DEF factor
<1>5. least \in Nat /\ least <= factor
  BY <1>4, SMT DEF Market!Min
<1> HIDE DEF least
<1>6. base.pf * factor \in Int /\ base.wr * least \in Int
  BY <1>3, <1>4, <1>5, SMT
<1>7. /\ pf \in Int /\ 2 * (1000000 * pf) <= 2 * (base.pf * factor) + 1000000
      /\ won \in Int /\ 2 * (100000 * won) <= 2 * (base.wr * least) + 100000
  <2>1. 1000000 \in Nat \ {0} /\ 100000 \in Nat \ {0}
    BY SMT
  <2>2. pf \in Int /\ 2 * (1000000 * pf) <= 2 * (base.pf * factor) + 1000000
    BY <1>6, <2>1, RoundedWithin, SMT
  <2>3. won \in Int /\ 2 * (100000 * won) <= 2 * (base.wr * least) + 100000
    BY <1>6, <2>1, RoundedWithin, SMT
  <2> QED
    BY <2>2, <2>3, SMT
<1> HIDE DEF pf, won
<1>8. wr \in Int /\ wr <= won
  BY <1>7, SMT DEF Market!Min
<1> HIDE DEF wr
<1>9. 250 * pf + 6 * wr + 200 * base.rr \in Int
  BY <1>3, <1>7, <1>8, SMT
<1>10. edge \in Int /\ 2 * (10 * edge) <= 2 * (250 * pf + 6 * wr + 200 * base.rr) + 10
  <2> DEFINE e == 250 * pf + 6 * wr + 200 * base.rr
  <2>1. edge = Market!Rounded(e, 10) /\ e \in Int /\ 10 \in Nat \ {0}
    BY <1>1, <1>9, SMT
  <2> HIDE DEF e
  <2>2. edge \in Int /\ 2 * (10 * edge) <= 2 * e + 10
    BY <2>1, RoundedWithin, SMT
  <2> QED
    BY <2>2, SMT DEF e
<1>11. ASSUME grade \in {"B", "C"} PROVE edge <= 8064
  <2>1. base.pf * factor <= 148 * 1083240 /\ base.wr * least <= 582 * 1083240
    <3>1. (base.pf = 148 /\ base.wr = 582) \/ (base.pf = 72 /\ base.wr = 431)
      BY <1>3, <1>11, SMT
    <3> QED
      BY <1>4, <1>5, <3>1, SMT
  <2>2. pf <= 160 /\ won <= 6304
    BY <1>6, <1>7, <2>1, SMT
  <2>3. 250 * pf + 6 * wr + 200 * base.rr <= 80624
    BY <1>3, <1>7, <1>8, <1>11, <2>2, SMT
  <2> QED
    BY <1>9, <1>10, <2>3, SMT
<1> QED
  BY <1>10, <1>11, SMT DEF edge

\* An edge, from its score, its quality and the edge score.
Mixed(x, q, e) == Market!Rounded(100 * x + q + 2 * e, 4)

LEMMA EdgeWeighed ==
  ASSUME NEW x \in Int, NEW q \in Int, NEW e \in Int
  PROVE  /\ Mixed(x, q, e) \in Int
         /\ x <= 66 /\ q <= 6150 /\ e <= 8064 => Mixed(x, q, e) < 7500
<1> DEFINE sum == 100 * x + q + 2 * e
<1>1. sum \in Int
  OBVIOUS
<1>2. x <= 66 /\ q <= 6150 /\ e <= 8064 => sum <= 28878
  BY SMT
<1> HIDE DEF sum
<1>3. Market!Rounded(sum, 4) \in Int /\ 2 * (4 * Market!Rounded(sum, 4)) <= 2 * sum + 4
  BY <1>1, RoundedWithin, SMT
<1>4. x <= 66 /\ q <= 6150 /\ e <= 8064 => Market!Rounded(sum, 4) < 7500
  BY <1>1, <1>2, <1>3, SMT
<1>5. Mixed(x, q, e) = Market!Rounded(sum, 4)
  BY DEF Mixed, sum
<1> QED
  BY <1>3, <1>4, <1>5

\* A reversion of the command center's, graded: low, if at all.
LEMMA LiveReversion ==
  ASSUME NEW c, Told(c), Market!Live(c), NEW quality \in 0..92,
         NEW rejected \in BOOLEAN
  PROVE  LET graded == Market!Graded(Market!MeanParts(c, Market!Detect(c), quality), rejected)
         IN graded.grade \in {"B", "C", "REJECT"} /\ graded.quality \in Int /\ graded.quality <= 6150
<1> DEFINE p == Market!Detect(c)
           parts == Market!MeanParts(c, p, quality)
           n == 8
           total == Market!Total(parts)
           failed == "failed_breakout" \in c.marks
           swept == IF p.sweep \/ failed THEN 85 ELSE 35
           again == IF failed THEN 75 ELSE 45
           ranged == IF p.scores.range_score = 0 THEN 45 ELSE p.scores.range_score
<1>1. ~failed
  BY DEF Told
<1>2. p.scores.overextension_score = 50 /\ p.scores.exhaustion_score = 35 /\ ranged \in {30, 80}
  BY LiveScores
<1>3. Market!OrElse(c, "fair_value_distance", 50) = 50 /\ Market!OrElse(c, "target_clarity", 55) = 55
  BY LiveSaid
<1>4. parts = <<50, 35, ranged, 50, swept, again, 55, quality>>
  BY <1>2, <1>3 DEF Market!MeanParts
<1>5. swept \in {35, 85} /\ again = 45
  BY <1>1
<1> HIDE DEF failed, swept, again, ranged, p, parts, n
<1>6. /\ parts \in [1..n -> Int] /\ n \in Nat /\ n = 8 /\ Len(parts) = 8
      /\ parts[1] = 50 /\ parts[2] = 35 /\ parts[3] = ranged /\ parts[4] = 50 /\ parts[5] = swept
      /\ parts[6] = again /\ parts[7] = 55 /\ parts[8] = quality
  BY <1>2, <1>4, <1>5 DEF n
<1>7. total = parts[1] + parts[2] + parts[3] + parts[4] + parts[5] + parts[6] + parts[7] + parts[8]
  BY <1>6, TotalOfEight
<1>8. total \in Int /\ total <= 492
  BY <1>2, <1>5, <1>6, <1>7
<1> HIDE DEF total
<1>9. Market!GradeOf(total, 8) \in {"B", "C", "REJECT"}
  BY <1>8, GradeWithin
<1>10. Market!Rounded(100 * total, 8) \in Int /\ Market!Rounded(100 * total, 8) <= 6150
  <2> DEFINE sum == 100 * total
  <2>1. sum \in Int /\ sum <= 49200
    BY <1>8
  <2> HIDE DEF sum
  <2>2. Market!Rounded(sum, 8) \in Int /\ 2 * (8 * Market!Rounded(sum, 8)) <= 2 * sum + 8
    BY <2>1, RoundedWithin, SMT
  <2> QED
    BY <2>1, <2>2, SMT DEF sum
<1>11. Market!Graded(parts, rejected) =
         [grade |-> IF rejected THEN "REJECT" ELSE Market!GradeOf(total, 8),
          quality |-> Market!Rounded(100 * total, 8)]
  BY <1>6 DEF Market!Graded, total
<1> QED
  BY <1>9, <1>10, <1>11 DEF parts, p

\* An ICT entry of the command center's, graded.
LEMMA LiveIctParts ==
  ASSUME NEW c, Told(c), Market!Live(c), NEW quality \in 0..92, NEW rejected \in BOOLEAN
  PROVE  LET graded == Market!Graded(Market!IctParts(c, Market!Detect(c), quality), rejected)
         IN graded.grade \in {"A+", "A", "B", "C", "REJECT"} /\ graded.quality \in Int
<1> DEFINE p == Market!Detect(c)
           parts == Market!IctParts(c, p, quality)
           n == 9
           total == Market!Total(parts)
           narrated == Market!OrElse(c, "narrative_alignment", 50)
           Seen(m, yes, no) == IF m \in c.marks THEN yes ELSE no
           moved == IF p.scores.volatility_expansion = 0 THEN 45 ELSE p.scores.volatility_expansion
           swept == IF p.sweep THEN 90 ELSE 20
           shifted == IF p.mss THEN 85 ELSE 20
           gap == Seen("fvg", 80, 30)
           block == Seen("order_block", 76, 30)
           paired == Seen("smt", 70, 40)
           away == Market!OrElse(c, "displacement_score", moved)
           clear == Market!OrElse(c, "target_clarity", 75)
<1>1. narrated \in Int
  BY SaidWithin, SMTT(30)
<1>2. away = 40 /\ clear = 75
  BY LiveScores, LiveSaid
<1>3. swept \in Int /\ shifted \in Int /\ gap \in Int /\ block \in Int /\ paired \in Int
  OBVIOUS
<1>4. parts = <<swept, shifted, away, gap, block, paired, quality, clear, narrated>>
  BY DEF Market!IctParts
<1> HIDE DEF narrated, moved, swept, shifted, gap, block, paired, away, clear, p, parts, n
<1>5. parts \in [1..n -> Int] /\ n \in Nat /\ Len(parts) = 9
  BY <1>1, <1>2, <1>3, <1>4 DEF n
<1>6. total \in Int
  BY <1>5, TotalTyped
<1> HIDE DEF total
<1>7. Market!GradeOf(total, 9) \in {"A+", "A", "B", "C", "REJECT"}
  BY <1>6, GradeWithin
<1>8. Market!Rounded(100 * total, 9) \in Int
  <2> DEFINE sum == 100 * total
  <2>1. sum \in Int
    BY <1>6
  <2> HIDE DEF sum
  <2>2. Market!Rounded(sum, 9) \in Int
    BY <2>1, RoundedWithin, SMT
  <2> QED
    BY <2>2 DEF sum
<1>9. Market!Graded(parts, rejected) =
        [grade |-> IF rejected THEN "REJECT" ELSE Market!GradeOf(total, 9),
         quality |-> Market!Rounded(100 * total, 9)]
  BY <1>5 DEF Market!Graded, total
<1> QED
  BY <1>7, <1>8, <1>9 DEF parts, p

\* On a sweep and a shift the router finds ICT's edge or none.
LEMMA LiveRouted ==
  ASSUME NEW c, Told(c), Market!Live(c), NEW quality \in 0..92,
         NEW p, p = Market!Detect(c), p.dominant = "liquidity_sweep_reversal",
         NEW raw, raw = Market!RawScores(c, p, quality),
         NEW grades, grades = Market!GradeAll(c, p, quality)
  PROVE  Market!Routed(c, p, raw, grades).strategy \in {"no_trade", "ict_liquidity"}
<1> DEFINE final(s) == Market!Edge(c, p, raw, grades, s)
           edge == [ict_liquidity |-> final("ict_liquidity"), trend_following |-> final("trend_following"),
                    mean_reversion |-> final("mean_reversion")]
           best == Market!Highest(edge)
           Weighed(s) == Market!Rounded(100 * raw[s] + grades[s].quality
                           + 2 * Market!EdgeScore(s, grades[s].grade, c.session, p.dominant), 4)
<1>1. \A s : final(s) = IF grades[s].grade = "REJECT" THEN 0 ELSE Weighed(s)
  BY DEF Market!Edge
<1>2. Flagged(p)
  BY LivePattern DEF Flagged
<1>3. /\ raw["ict_liquidity"] \in Int
      /\ raw["mean_reversion"] \in Int /\ raw["mean_reversion"] <= 66
  <2>1. raw["ict_liquidity"] \in 0..100
    BY <1>2, IctScore
  <2>2. raw["mean_reversion"] \in 0..66
    BY LiveRaw
  <2> QED
    BY <2>1, <2>2
<1>4. grades["trend_following"].grade = "REJECT"
  <2>1. p.scores.trend_strength = 50
    BY LiveScores
  <2> QED
    BY <2>1 DEF Market!GradeAll, Market!Graded
<1>5. /\ grades["mean_reversion"].grade \in {"B", "C", "REJECT"}
      /\ grades["mean_reversion"].quality \in Int /\ grades["mean_reversion"].quality <= 6150
  <2> DEFINE rejected == Market!Confirmations(Market!MeanParts(c, p, quality), p) < 3 \/ p.scores.noise_score >= 60
  <2>1. grades["mean_reversion"] = Market!Graded(Market!MeanParts(c, p, quality), rejected)
    BY DEF Market!GradeAll
  <2>2. rejected \in BOOLEAN
    OBVIOUS
  <2> HIDE DEF rejected
  <2> QED
    BY <2>1, <2>2, LiveReversion
<1>6. /\ grades["ict_liquidity"].grade \in {"A+", "A", "B", "C", "REJECT"}
      /\ grades["ict_liquidity"].quality \in Int
  <2> DEFINE rejected == ~p.sweep \/ ~p.mss \/ p.scores.noise_score >= 60
  <2>1. grades["ict_liquidity"] = Market!Graded(Market!IctParts(c, p, quality), rejected)
    BY DEF Market!GradeAll
  <2>2. rejected \in BOOLEAN
    OBVIOUS
  <2> HIDE DEF rejected
  <2> QED
    BY <2>1, <2>2, LiveIctParts
<1>7. ASSUME NEW s \in {"ict_liquidity", "mean_reversion"}, grades[s].grade # "REJECT"
      PROVE  /\ Weighed(s) \in Int
             /\ s = "mean_reversion" => Weighed(s) < 7500
  <2> DEFINE x == raw[s]
             q == grades[s].quality
             e == Market!EdgeScore(s, grades[s].grade, c.session, p.dominant)
  <2>1. x \in Int /\ q \in Int /\ (s = "mean_reversion" => x <= 66 /\ q <= 6150)
    BY <1>3, <1>5, <1>6
  <2>2. grades[s].grade \in {"A+", "A", "B", "C"} /\ (s = "mean_reversion" => grades[s].grade \in {"B", "C"})
    BY <1>5, <1>6, <1>7
  <2>3. e \in Int /\ (s = "mean_reversion" => e <= 8064)
    <3> DEFINE grade == grades[s].grade
    <3> HIDE DEF grade
    <3>1. grade \in {"A+", "A", "B", "C"} /\ (s = "mean_reversion" => grade \in {"B", "C"})
      BY <2>2 DEF grade
    <3>2. /\ Market!EdgeScore(s, grade, c.session, "liquidity_sweep_reversal") \in Int
          /\ s = "mean_reversion" => Market!EdgeScore(s, grade, c.session, "liquidity_sweep_reversal") <= 8064
      BY <3>1, EdgeScored, SMT
    <3> QED
      BY <3>2, SMT DEF grade
  <2>4. Weighed(s) = Mixed(x, q, e)
    BY DEF Mixed
  <2> HIDE DEF x, q, e, Weighed
  <2>5. Mixed(x, q, e) \in Int
    BY <2>1, <2>3, EdgeWeighed, SMT
  <2>6. s = "mean_reversion" => Mixed(x, q, e) < 7500
    BY <2>1, <2>3, EdgeWeighed, SMT
  <2> QED
    BY <2>4, <2>5, <2>6
<1> HIDE DEF Weighed
<1>8. \A s \in {"ict_liquidity", "trend_following", "mean_reversion"} : final(s) \in Int
  BY <1>1, <1>4, <1>7
<1>9. Market!Routed(c, p, raw, grades) =
        IF grades[best].grade = "REJECT" \/ edge[best] < 7500 THEN Market!NoEdge
        ELSE [strategy |-> best, grade |-> grades[best].grade, edge |-> edge[best]]
  BY DEF Market!Routed, Market!ict, Market!trend, Market!mean
<1> HIDE DEF final
<1>10. /\ DOMAIN edge = {"ict_liquidity", "trend_following", "mean_reversion"}
       /\ \A s \in DOMAIN edge : edge[s] = final(s)
  OBVIOUS
<1> HIDE DEF edge
<1>11. best \in {"ict_liquidity", "trend_following", "mean_reversion"}
  BY <1>8, <1>10, HighestOf
<1> HIDE DEF best
<1>12. best = "mean_reversion" => grades[best].grade = "REJECT" \/ edge[best] < 7500
  BY <1>1, <1>7, <1>10 DEF final
<1> QED
  BY <1>4, <1>9, <1>11, <1>12 DEF Market!NoEdge, Market!NoTrade

\* The weights of scores.
LEMMA WeightsOf ==
  ASSUME NEW c, NEW p, NEW raw,
         raw["ict_liquidity"] \in 0..100, raw["trend_following"] \in 0..100, raw["mean_reversion"] \in 0..100
  PROVE  LET weighted == Market!Weighted(c, p, raw)
         IN /\ DOMAIN weighted = {"ict_liquidity", "trend_following", "mean_reversion"}
            /\ \A s \in DOMAIN weighted : weighted[s] \in Nat
            /\ weighted["ict_liquidity"] <= 80 * raw["ict_liquidity"]
            /\ weighted["mean_reversion"] <= 100 * raw["mean_reversion"]
<1> DEFINE weighted == Market!Weighted(c, p, raw)
           times(s, multiplier) == IF p.dominant = "noisy_chop" THEN 0 ELSE Weight(raw[s] * multiplier)
           lifted == IF ~p.mss /\ Market!Said(c, "smt_sample", 0) < 10 THEN 20 ELSE 80
<1>1. weighted = [ict_liquidity |-> times("ict_liquidity", lifted),
                  trend_following |-> times("trend_following", 120),
                  mean_reversion |-> times("mean_reversion", 100)]
  BY DEF Market!Weighted, Market!ict, Market!trend, Market!mean, Weight
<1>2. lifted \in {20, 80}
  OBVIOUS
<1> HIDE DEF lifted
<1>3. ASSUME NEW s, raw[s] \in 0..100, NEW multiplier \in Nat
      PROVE  times(s, multiplier) \in Nat /\ times(s, multiplier) <= multiplier * raw[s]
  <2> DEFINE y == raw[s] * multiplier
  <2>1. y \in Nat /\ y = multiplier * raw[s]
    BY <1>3
  <2> HIDE DEF y
  <2>2. Weight(y) \in Nat /\ Weight(y) <= y
    BY <2>1, WeightOf
  <2>3. times(s, multiplier) = IF p.dominant = "noisy_chop" THEN 0 ELSE Weight(y)
    BY DEF y
  <2> QED
    BY <2>1, <2>2, <2>3
<1> HIDE DEF times, weighted
<1>4. times("ict_liquidity", lifted) \in Nat /\ times("ict_liquidity", lifted) <= 80 * raw["ict_liquidity"]
  <2>1. lifted \in Nat
    BY <1>2
  <2>2. times("ict_liquidity", lifted) \in Nat /\ times("ict_liquidity", lifted) <= lifted * raw["ict_liquidity"]
    BY <1>3, <2>1
  <2>3. lifted * raw["ict_liquidity"] <= 80 * raw["ict_liquidity"]
    BY <1>2
  <2> QED
    BY <1>2, <2>2, <2>3
<1>5. times("trend_following", 120) \in Nat
  BY <1>3
<1>6. times("mean_reversion", 100) \in Nat /\ times("mean_reversion", 100) <= 100 * raw["mean_reversion"]
  BY <1>3
<1>7. /\ DOMAIN weighted = {"ict_liquidity", "trend_following", "mean_reversion"}
      /\ weighted["ict_liquidity"] = times("ict_liquidity", lifted)
      /\ weighted["trend_following"] = times("trend_following", 120)
      /\ weighted["mean_reversion"] = times("mean_reversion", 100)
  BY <1>1
<1> QED
  BY <1>4, <1>5, <1>6, <1>7 DEF weighted

\* Of the command center's contexts only an ICT entry passes, swept and shifted.
LEMMA LiveChosen ==
  ASSUME NEW c, Told(c), Market!Live(c),
         NEW p, p = Market!Detect(c),
         NEW session, session.quality \in 0..92,
         NEW raw, raw = Market!RawScores(c, p, session.quality),
         NEW chosen,
         chosen = IF p.dominant = "trend_continuation"
                     /\ Market!Passes(raw, Market!Weighted(c, p, raw), "trend_following")
                  THEN "trend_following" ELSE Market!Best(p, session, Market!Weighted(c, p, raw)),
         Market!Passes(raw, Market!Weighted(c, p, raw), chosen)
  PROVE  chosen = "ict_liquidity" /\ p.sweep /\ p.mss
<1> DEFINE weighted == Market!Weighted(c, p, raw)
           quality == session.quality
           x == raw["ict_liquidity"]
<1>1. /\ p.sweep = ("sweep" \in c.marks) /\ p.mss = ("mss" \in c.marks)
      /\ p.dominant \in {"liquidity_sweep_reversal", "range_mean_reversion", "no_clear_pattern"}
      /\ p.dominant = "liquidity_sweep_reversal" <=> p.sweep /\ p.mss
  BY LivePattern
<1>2. Flagged(p)
  BY <1>1 DEF Flagged
<1>3. x \in 0..100 /\ (Unlifted(c, p) => x <= 85)
  BY <1>2, IctScore
<1>4. raw["trend_following"] \in 0..63 /\ raw["mean_reversion"] \in 0..74
  <2>1. quality \in 0..92
    OBVIOUS
  <2> QED
    BY <2>1, LiveRaw
<1>5. /\ DOMAIN weighted = {"ict_liquidity", "trend_following", "mean_reversion"}
      /\ \A s \in DOMAIN weighted : weighted[s] \in Nat
      /\ weighted["ict_liquidity"] <= 80 * x
      /\ weighted["mean_reversion"] <= 100 * raw["mean_reversion"]
  <2>1. raw["ict_liquidity"] \in 0..100 /\ raw["trend_following"] \in 0..100 /\ raw["mean_reversion"] \in 0..100
    BY <1>3, <1>4
  <2> QED
    BY <2>1, WeightsOf
<1>6. \A s : Market!Passes(raw, weighted, s) <=> raw[s] >= 70 /\ weighted[s] >= 7500
  BY DEF Market!Passes, Market!THRESHOLD, Market!WEIGHTED_THRESHOLD
<1>7. chosen = Market!Best(p, session, weighted)
  BY <1>1
<1>8. chosen \in {"ict_liquidity", "trend_following", "mean_reversion"}
  <2> DEFINE bonus(s) == IF Market!Favoured(p) # s THEN 0
                         ELSE IF s = "ict_liquidity" /\ session.quality >= 80 THEN 4 ELSE 3
             value == [s \in DOMAIN weighted |-> 5 * weighted[s] + bonus(s)]
  <2>1. Market!Best(p, session, weighted) = Market!Highest(value)
    BY DEF Market!Best, Market!ict
  <2>2. \A s : bonus(s) \in {0, 3, 4}
    OBVIOUS
  <2> HIDE DEF bonus
  <2>3. DOMAIN value = {"ict_liquidity", "trend_following", "mean_reversion"}
    BY <1>5
  <2>4. \A s \in DOMAIN value : value[s] \in Int
    BY <1>5, <2>2
  <2> HIDE DEF value
  <2> QED
    BY <1>7, <2>1, <2>3, <2>4, HighestOf
<1> HIDE DEF weighted, x
<1>9. chosen # "trend_following" /\ chosen # "mean_reversion"
  <2>1. Market!Passes(raw, weighted, chosen)
    BY DEF weighted
  <2>2. raw[chosen] >= 70 /\ weighted[chosen] >= 7500
    BY <1>6, <2>1
  <2>3. chosen # "trend_following"
    BY <1>4, <2>2
  <2>4. ~(weighted["mean_reversion"] >= 7500)
    BY <1>4, <1>5
  <2> QED
    BY <2>2, <2>3, <2>4
<1>10. weighted["ict_liquidity"] >= 7500
  <2>1. Market!Passes(raw, weighted, chosen)
    BY DEF weighted
  <2> QED
    BY <1>6, <1>8, <1>9, <2>1
<1>11. p.mss
  <2>1. Market!Passes(raw, Market!Weighted(c, p, raw), "ict_liquidity")
    BY <1>8, <1>9
  <2>2. p.mss \/ Market!Said(c, "smt_sample", 0) >= 10
    BY <1>2, <2>1, IctStands
  <2>3. Market!Said(c, "smt_sample", 0) = 0
    BY LiveSaid
  <2> QED
    BY <2>2, <2>3
<1>12. p.sweep
  <2> SUFFICES ASSUME ~p.sweep PROVE FALSE
    OBVIOUS
  <2>1. Unlifted(c, p)
    <3>1. p.sweep = FALSE /\ p.dominant # "liquidity_sweep_reversal"
      BY <1>1
    <3>2. "smt" \notin c.marks
      BY DEF Told
    <3>3. Market!OrElse(c, "premium_discount_alignment", 50) = 50
      BY LiveSaid
    <3> QED
      BY <3>1, <3>2, <3>3 DEF Unlifted
  <2> QED
    BY <1>3, <1>5, <1>10, <2>1
<1> QED
  BY <1>8, <1>9, <1>11, <1>12

\* An advice has its grounds, whatever the context.
LEMMA AdviceGrounded ==
  ASSUME NEW c, Told(c), NEW advice, advice = Market!Analyze(c), advice.published # "no_trade"
  PROVE  /\ ~c.vetoed /\ advice.pattern.dominant # "noisy_chop"
         /\ Market!SessionAcceptable(advice.session)
         /\ advice.published = "ict_liquidity" => advice.pattern.mss \/ Market!Said(c, "smt_sample", 0) >= 10
         /\ Market!Live(c) => /\ advice.published = "ict_liquidity"
                              /\ {"sweep", "mss"} \subseteq c.marks
<1> DEFINE p == Market!Detect(c)
           session == Market!Session(c.symbol, c.session)
           raw == Market!RawScores(c, p, session.quality)
           grades == Market!GradeAll(c, p, session.quality)
           routed == Market!Routed(c, p, raw, grades)
           weighted == Market!Weighted(c, p, raw)
           chosen == IF p.dominant = "trend_continuation" /\ Market!Passes(raw, weighted, "trend_following")
                     THEN "trend_following" ELSE Market!Best(p, session, weighted)
<1>1. /\ ~c.vetoed /\ p.dominant # "noisy_chop" /\ Market!SessionAcceptable(session)
      /\ advice.pattern = p /\ advice.session = session
  BY PublishedBy
<1>2. Market!Passes(raw, weighted, chosen)
  BY PublishedBy
<1>3. advice.published = IF routed.strategy # "no_trade" THEN routed.strategy ELSE chosen
  BY PublishedBy
<1>4. session.quality \in 0..92
  BY SessionQuality
<1>5. p.sweep = ("sweep" \in c.marks) /\ p.mss = ("mss" \in c.marks)
  BY DEF Market!Detect
<1>6. Flagged(p)
  BY <1>5 DEF Flagged
<1> HIDE DEF p, session
<1>7. /\ Market!Passes(raw, weighted, "ict_liquidity") => p.mss \/ Market!Said(c, "smt_sample", 0) >= 10
      /\ routed.strategy = "ict_liquidity" => p.sweep /\ p.mss
  BY <1>4, <1>6, IctStands
<1> HIDE DEF raw, grades, routed, weighted, chosen
<1>8. advice.published = "ict_liquidity" => p.mss \/ Market!Said(c, "smt_sample", 0) >= 10
  BY <1>2, <1>3, <1>7
<1>9. ASSUME Market!Live(c)
      PROVE  advice.published = "ict_liquidity" /\ p.sweep /\ p.mss
  <2>1. chosen = "ict_liquidity" /\ p.sweep /\ p.mss
    BY <1>2, <1>4, <1>9, LiveChosen DEF p, raw, weighted, chosen
  <2>2. p.dominant = "liquidity_sweep_reversal"
    BY <1>9, <2>1, LivePattern DEF p
  <2>3. routed.strategy \in {"no_trade", "ict_liquidity"}
    BY <1>4, <1>9, <2>2, LiveRouted DEF p, raw, grades, routed
  <2> QED
    BY <1>3, <2>1, <2>3
<1> QED
  BY <1>1, <1>5, <1>8, <1>9

\* What the watch is shown is told as a context is.
LEMMA ContextsTold ==
  ASSUME NEW c \in MCContexts \cup {Market!NoContext}
  PROVE  Told(c)
<1>1. CASE c \in MCLive
  <2> DEFINE Sets == SUBSET {"sweep", "mss", "fvg", "order_block", "range_phase"}
             made(p, marks, n, vetoed) ==
               Placed(p[1], p[2], marks, [narrative_alignment |-> n], <<>>, vetoed)
             Aligned == {40, 95}
             Veto == BOOLEAN
  <2>0. MCLive = {made(p, marks, n, vetoed) : p \in MCPlaces, marks \in Sets, n \in Aligned, vetoed \in Veto}
    BY DEF MCLive
  <2> HIDE DEF Sets, made, Aligned, Veto
  <2>1. PICK place \in MCPlaces, marks \in Sets, n \in Aligned, vetoed \in Veto : c = made(place, marks, n, vetoed)
    BY <1>1, <2>0, SMT
  <2>2. c.scores = [narrative_alignment |-> n] /\ c.marks = marks
    BY <2>1 DEF Placed, made
  <2>3. \A key \in DOMAIN c.scores : c.scores[key] \in 0..100
    BY <2>2 DEF Aligned
  <2> QED
    BY <2>2, <2>3 DEF Told, Sets
<1>2. CASE c \in MCCharted
  <2> DEFINE Sets == SUBSET {"sweep", "mss", "exhaustion"}
             made(marks, table) == Placed("US30", "new_york_open", marks, <<>>, table, FALSE)
  <2>0. MCCharted = {made(marks, table) : marks \in Sets, table \in MCTables}
    BY DEF MCCharted
  <2> HIDE DEF Sets, made
  <2>1. PICK marks \in Sets, table \in MCTables : c = made(marks, table)
    BY <1>2, <2>0, SMT
  <2>2. c.scores = <<>> /\ c.bars = table
    BY <2>1 DEF Placed, made
  <2>3. table # <<>>
    <3> DEFINE nothing == <<>>
    <3>0. DOMAIN nothing = {}
      OBVIOUS
    <3> SUFFICES table # nothing
      OBVIOUS
    <3> HIDE DEF nothing
    <3>1. CASE \E n \in 1..3 : table \in [1..n -> {Low, Candle(6, 4, 4), Candle(12, 2, 11)}]
      <4>1. PICK n \in 1..3 : table \in [1..n -> {Low, Candle(6, 4, 4), Candle(12, 2, 11)}]
        BY <3>1
      <4>2. DOMAIN table = 1..n /\ 1 \in 1..n
        BY <4>1
      <4>3. DOMAIN table # {}
        BY <4>2
      <4> QED
        BY <3>0, <4>3
    <3>2. CASE table = <<Low, Low, Low, Candle(6, 4, 4), Low, Candle(12, 2, 11)>>
      <4>1. DOMAIN table = 1..6 /\ 1 \in 1..6
        BY <3>2
      <4>2. DOMAIN table # {}
        BY <4>1
      <4> QED
        BY <3>0, <4>2
    <3> DEFINE Set == {Low, Candle(6, 4, 4), Candle(12, 2, 11)}
               lone == <<Low, Low, Low, Candle(6, 4, 4), Low, Candle(12, 2, 11)>>
               Of(n) == [1..n -> Set]
               some == UNION {Of(n) : n \in 1..3}
    <3>3. MCTables = some \cup {lone}
      BY DEF MCTables
    <3>4. (\E n \in 1..3 : table \in Of(n)) \/ table = lone
      <4> HIDE DEF Set, lone, Of, some
      <4>1. SUFFICES ASSUME table # lone PROVE \E n \in 1..3 : table \in Of(n)
        OBVIOUS
      <4>2. table \in some
        BY <3>3, <4>1
      <4>3. PICK one \in {Of(n) : n \in 1..3} : table \in one
        BY <4>2 DEF some
      <4> QED
        BY <4>3
    <3> QED
      BY <3>1, <3>2, <3>4
  <2>4. DOMAIN c.scores = {}
    BY <2>2
  <2> QED
    BY <2>2, <2>3, <2>4 DEF Told, Market!Live
<1>3. CASE c \in MCReported
  <2> DEFINE Places == {q \in MCPlaces : q[1] # "EURUSD"}
             Sets == {{}, {"mss"}, {"sweep", "failed_breakout"}, {"sweep", "mss", "fvg", "order_block"},
                      {"sweep", "fvg", "order_block", "smt"}}
             made(p, scores, extra, marks) == Placed(p[1], p[2], marks, Joined(scores, extra), <<>>, FALSE)
  <2>0. MCReported = {made(p, scores, extra, marks) :
                        p \in Places, scores \in MCScores, extra \in MCExtras, marks \in Sets}
    BY DEF MCReported
  <2> HIDE DEF Places, Sets, made
  <2>1. PICK place \in Places, scores \in MCScores, extra \in MCExtras, marks \in Sets : c = made(place, scores, extra, marks)
    BY <1>3, <2>0, SMT
  <2>2. c.scores = Joined(scores, extra)
    BY <2>1 DEF Placed, made
  <2>3. "smt_sample" \in DOMAIN extra /\ \A key \in DOMAIN extra : extra[key] \in 0..100
    <3>1. \A sample \in {1, 12} : /\ "smt_sample" \in DOMAIN Entry(sample)
                                  /\ \A key \in DOMAIN Entry(sample) : Entry(sample)[key] \in 0..100
      BY DEF Entry
    <3>2. extra = Entry(1) \/ extra = Entry(12)
          \/ extra = Joined(Entry(12), [pullback_quality |-> 76, continuation_structure |-> 82,
                                         htf_alignment |-> 78, fair_value_distance |-> 78])
      BY DEF MCExtras
    <3>3. CASE extra = Joined(Entry(12), [pullback_quality |-> 76, continuation_structure |-> 82,
                                           htf_alignment |-> 78, fair_value_distance |-> 78])
      <4> DEFINE more == [pullback_quality |-> 76, continuation_structure |-> 82,
                          htf_alignment |-> 78, fair_value_distance |-> 78]
                 entry == Entry(12)
      <4>1. \A key \in DOMAIN more : more[key] \in 0..100
        OBVIOUS
      <4>2. "smt_sample" \in DOMAIN entry /\ \A key \in DOMAIN entry : entry[key] \in 0..100
        BY <3>1
      <4> HIDE DEF more, entry
      <4>3. extra = [key \in (DOMAIN entry) \cup (DOMAIN more) |->
                       IF key \in DOMAIN entry THEN entry[key] ELSE more[key]]
        BY <3>3 DEF Joined, more, entry
      <4> QED
        BY <4>1, <4>2, <4>3
    <3> QED
      BY <3>1, <3>2, <3>3
  <2>4. \A key \in DOMAIN scores : scores[key] \in 0..100
    BY DEF MCScores
  <2>5. Joined(scores, extra) = [key \in (DOMAIN scores) \cup (DOMAIN extra) |->
                             IF key \in DOMAIN scores THEN scores[key] ELSE extra[key]]
    BY DEF Joined
  <2>6. /\ \A key \in DOMAIN c.scores : c.scores[key] \in 0..100
        /\ "smt_sample" \in DOMAIN c.scores
    <3> HIDE DEF MCScores, MCExtras
    <3> QED
      BY <2>2, <2>3, <2>4, <2>5
  <2> QED
    BY <2>6 DEF Told, Market!Live
<1>4. CASE c = Market!NoContext
  <2>1. c.scores = <<>> /\ c.marks = {}
    BY <1>4 DEF Market!NoContext
  <2>2. DOMAIN c.scores = {}
    BY <2>1
  <2> QED
    BY <2>1, <2>2 DEF Told
<1> QED
  BY <1>1, <1>2, <1>3, <1>4 DEF MCContexts

\* What the watch shows is what it made of its context.
Shown == part = "market" => Told(context) /\ watch = Market!Analyze(context)

LEMMA ShownHasGrounds == Shown => (part = "market" => Market!WatchAdviceHasGrounds)
<1> SUFFICES ASSUME Shown, part = "market", watch.published # "no_trade"
             PROVE  /\ ~context.vetoed /\ watch.pattern.dominant # "noisy_chop"
                    /\ Market!SessionAcceptable(watch.session)
                    /\ watch.published = "ict_liquidity"
                         => watch.pattern.mss \/ Market!Said(context, "smt_sample", 0) >= 10
                    /\ Market!Live(context) => /\ watch.published = "ict_liquidity"
                                               /\ {"sweep", "mss"} \subseteq context.marks
  BY DEF Market!WatchAdviceHasGrounds, Market!NoTrade, Market!ict
<1>1. Told(context) /\ watch = Market!Analyze(context)
  BY DEF Shown
<1> QED
  BY <1>1, AdviceGrounded

LEMMA ShownAtFirst == MCInit => Shown
<1> SUFFICES ASSUME MCInit, part = "market" PROVE Told(context) /\ watch = Market!Analyze(context)
  BY DEF Shown
<1>1. context = Market!NoContext /\ watch = Market!Analyze(Market!NoContext)
  BY DEF MCInit, Market!WatchInit
<1> QED
  BY <1>1, ContextsTold

\* In the part of the market only the watch moves.
LEMMA WatchFrame == [MCNext]_mc_vars => part' = part /\ (part = "market" => [Market!Watch]_watch_vars)
<1> SUFFICES ASSUME [MCNext]_mc_vars PROVE part' = part /\ (part = "market" => [Market!Watch]_watch_vars)
  OBVIOUS
<1>1. CASE UNCHANGED mc_vars
  BY <1>1 DEF mc_vars, deciding_vars, watch_vars
<1>2. CASE MCNext
  BY <1>2 DEF MCNext, Watching, Deciding, Replaying, Limiting
<1> QED
  BY <1>1, <1>2

LEMMA ShownStep == Shown /\ [MCNext]_mc_vars => Shown'
<1> SUFFICES ASSUME Shown, [MCNext]_mc_vars, part' = "market"
             PROVE  Told(context') /\ watch' = Market!Analyze(context')
  BY DEF Shown
<1>1. part = "market" /\ [Market!Watch]_watch_vars
  BY WatchFrame
<1>2. CASE Market!Watch
  <2>1. context' \in MCContexts /\ watch' = Market!Analyze(context')
    BY <1>2 DEF Market!Watch
  <2> QED
    BY <2>1, ContextsTold
<1>3. CASE UNCHANGED watch_vars
  BY <1>1, <1>3 DEF Shown, watch_vars
<1> QED
  BY <1>1, <1>2, <1>3

LEMMA PlannerFrame == [MCNext]_mc_vars => [Planner!PlanTrade]_planner_vars
BY DEF MCNext, mc_vars, deciding_vars, planner_vars, Watching, Deciding, Replaying, Limiting

\* An executable plan trades the way its zones point, with its targets beyond
\* the entry and in their order, whatever levels, sweeps, price and buffer; and
\* what the watch publishes has passed both judges, in every context it is shown.
THEOREM Grounds == MCSpec => []AdviceHasGrounds
<1>1. MCInit => PlanMade /\ Shown
  BY PlanInit, ShownAtFirst DEF MCInit
<1>2. PlanMade /\ [MCNext]_mc_vars => PlanMade'
  BY PlanStep, PlannerFrame
<1>3. Shown /\ [MCNext]_mc_vars => Shown'
  BY ShownStep
<1>4. PlanMade /\ Shown => AdviceHasGrounds
  BY MadeCoherent, ShownHasGrounds DEF AdviceHasGrounds
<1> QED
  BY <1>1, <1>2, <1>3, <1>4, PTL DEF MCSpec

-----------------------------------------------------------------------------
(* The portfolio.  Each position weighs its risk; what it adds to the two sums *)
(* comes out of SumByElement.  While the limits on numbers bite before those   *)
(* on risk, a candidate beyond the budget is admitted only at half risk or     *)
(* into a cluster with room, and no cluster alone grows beyond the budget and  *)
(* three tenths of a risk (Under).                                            *)

\* Portfolio!Number and Portfolio!RiskOf, of any book of positions.
NumberIn(book, S) == Portfolio!MapThenSumSet(LAMBDA k : book[k], S)
RiskIn(book, S) == Portfolio!MapThenSumSet(LAMBDA k : book[k] * k.risk, S)
Weighed(book, S) == [k \in S |-> book[k] * k.risk]

Books == [Portfolio!Kinds -> Nat]

LEMMA RisksKnown ==
  /\ Portfolio!Reduced \in Nat /\ 2 * Portfolio!Reduced <= BASE
  /\ Portfolio!Structural \in Nat /\ Portfolio!Structural <= BASE
  /\ \A k \in Portfolio!Kinds : k.risk \in Nat /\ k.risk <= BASE
<1>1. BASE \in Nat
  BY PortfolioAssumption
<1>2. Portfolio!Reduced \in Nat /\ 2 * Portfolio!Reduced <= BASE
  BY <1>1 DEF Portfolio!Reduced
<1>3. Portfolio!Structural \in Nat /\ Portfolio!Structural <= BASE
  BY <1>1 DEF Portfolio!Structural
<1>4. ASSUME NEW k \in Portfolio!Kinds PROVE k.risk \in {BASE, Portfolio!Structural, Portfolio!Reduced}
  BY DEF Portfolio!Kinds
<1> QED
  BY <1>1, <1>2, <1>3, <1>4

LEMMA KindsFinite == IsFiniteSet(Portfolio!Kinds)
<1> DEFINE risks == {BASE, Portfolio!Structural, Portfolio!Reduced}
           P == Portfolio!Production \X Portfolio!Sides
           T == P \X risks
           f == [t \in T |-> [symbol |-> t[1][1], direction |-> t[1][2], risk |-> t[2]]]
<1>1. \A x, y : IsFiniteSet({x, y})
  <2> TAKE x, y
  <2>1. {x, y} = {x} \cup {y}
    OBVIOUS
  <2>2. IsFiniteSet({x})
    BY FS_Singleton
  <2>3. IsFiniteSet({x} \cup {y})
    BY <2>2, FS_AddElement
  <2> QED
    BY <2>1, <2>3
<1>2. IsFiniteSet(Portfolio!Production) /\ IsFiniteSet(Portfolio!Sides)
  BY <1>1 DEF Portfolio!Production, Portfolio!Sides
<1>3. IsFiniteSet(risks)
  <2>1. risks = {BASE, Portfolio!Structural} \cup {Portfolio!Reduced}
    OBVIOUS
  <2>2. IsFiniteSet({BASE, Portfolio!Structural})
    BY <1>1
  <2>3. IsFiniteSet({BASE, Portfolio!Structural} \cup {Portfolio!Reduced})
    BY <2>2, FS_AddElement
  <2> QED
    BY <2>1, <2>3
<1>0. Portfolio!Kinds = [symbol : Portfolio!Production, direction : Portfolio!Sides, risk : risks]
  BY DEF Portfolio!Kinds
<1> HIDE DEF risks
<1>4. IsFiniteSet(P)
  BY <1>2, FS_Product
<1> HIDE DEF P
<1>5. IsFiniteSet(T)
  BY <1>3, <1>4, FS_Product
<1> USE DEF P
<1>6. f \in [T -> Portfolio!Kinds]
  <2>1. \A t \in T : /\ t[1][1] \in Portfolio!Production /\ t[1][2] \in Portfolio!Sides /\ t[2] \in risks
                     /\ f[t] = [symbol |-> t[1][1], direction |-> t[1][2], risk |-> t[2]]
    OBVIOUS
  <2>2. \A t \in T : f[t] \in Portfolio!Kinds
    BY <1>0, <2>1
  <2> QED
    BY <2>2
<1>7. ASSUME NEW k \in Portfolio!Kinds PROVE \E t \in T : f[t] = k
  <2>1. /\ <<<<k.symbol, k.direction>>, k.risk>> \in T
        /\ k = [symbol |-> k.symbol, direction |-> k.direction, risk |-> k.risk]
    BY <1>0
  <2>2. f[<<<<k.symbol, k.direction>>, k.risk>>] = k
    BY <2>1
  <2> QED
    BY <2>1, <2>2
<1> HIDE DEF P, T, f
<1>8. f \in Surjection(T, Portfolio!Kinds)
  BY <1>6, <1>7 DEF Surjection
<1> QED
  BY <1>5, <1>8, FS_Surjection

\* Both are sums.
LEMMA Tallied ==
  ASSUME NEW book \in Books, NEW S \in SUBSET Portfolio!Kinds
  PROVE  /\ IsFiniteSet(S)
         /\ \E i : AddsUp(i, book, S) /\ NumberIn(book, S) = i[S]
         /\ \E i : AddsUp(i, Weighed(book, S), S) /\ RiskIn(book, S) = i[S]
<1>1. IsFiniteSet(S)
  BY KindsFinite, FS_Subset
<1>2. \A k \in S : book[k] \in Int /\ Weighed(book, S)[k] \in Int
  <2> TAKE k \in S
  <2>1. book[k] \in Nat /\ k.risk \in Nat
    BY RisksKnown DEF Books
  <2> QED
    BY <2>1 DEF Weighed
<1>3. \E i : AddsUp(i, book, S) /\ NumberIn(book, S) = i[S]
  <2> DEFINE i == CHOOSE g : IsSum(g, book, S)
  <2>1. IsSum(i, book, S)
    BY <1>1, SumExists
  <2>2. NumberIn(book, S) = i[S]
    BY DEF NumberIn, Portfolio!MapThenSumSet, Portfolio!MapThenFoldSet, IsSum, Some
  <2> HIDE DEF i
  <2>3. AddsUp(i, book, S)
    BY <1>1, <1>2, <2>1, SumByElement
  <2> QED
    BY <2>2, <2>3
<1>4. \E i : AddsUp(i, Weighed(book, S), S) /\ RiskIn(book, S) = i[S]
  <2> DEFINE Sums(g) == g = [s \in SUBSET S |-> IF s = {} THEN 0
                                                ELSE book[Some(s)] * Some(s).risk + g[s \ {Some(s)}]]
             i == CHOOSE g : Sums(g)
  <2>1. ASSUME NEW g PROVE IsSum(g, Weighed(book, S), S) <=> Sums(g)
    <3>1. \A s \in SUBSET S : s # {} => Weighed(book, S)[Some(s)] = book[Some(s)] * Some(s).risk
      <4> TAKE s \in SUBSET S
      <4> HAVE s # {}
      <4>1. Some(s) \in S
        BY DEF Some
      <4> QED
        BY <4>1 DEF Weighed
    <3>2. [s \in SUBSET S |-> IF s = {} THEN 0 ELSE Weighed(book, S)[Some(s)] + g[s \ {Some(s)}]]
          = [s \in SUBSET S |-> IF s = {} THEN 0 ELSE book[Some(s)] * Some(s).risk + g[s \ {Some(s)}]]
      BY <3>1
    <3> QED
      BY <3>2 DEF IsSum
  <2>2. \E g : Sums(g)
    <3> HIDE DEF Sums
    <3> QED
      BY <1>1, <2>1, SumExists
  <2>3. Sums(i)
    <3> HIDE DEF Sums
    <3> QED
      BY <2>2
  <2>4. RiskIn(book, S) = i[S]
    BY DEF RiskIn, Portfolio!MapThenSumSet, Portfolio!MapThenFoldSet, Some
  <2> HIDE DEF i
  <2>5. IsSum(i, Weighed(book, S), S)
    BY <2>1, <2>3
  <2>6. AddsUp(i, Weighed(book, S), S)
    BY <1>1, <1>2, <2>5, SumByElement
  <2> QED
    BY <2>4, <2>6
<1> QED
  BY <1>1, <1>3, <1>4

\* No position carries more than a whole risk.
LEMMA RiskByNumber ==
  ASSUME NEW book \in Books, NEW S \in SUBSET Portfolio!Kinds
  PROVE  /\ RiskIn(book, S) \in Nat /\ NumberIn(book, S) \in Nat
         /\ RiskIn(book, S) <= BASE * NumberIn(book, S)
<1>1. IsFiniteSet(S) /\ BASE \in Nat
  BY Tallied, PortfolioAssumption
<1>2. PICK i : AddsUp(i, Weighed(book, S), S) /\ RiskIn(book, S) = i[S]
  BY Tallied
<1>3. PICK j : AddsUp(j, book, S) /\ NumberIn(book, S) = j[S]
  BY Tallied
<1>4. \A k \in S : Weighed(book, S)[k] \in Nat /\ book[k] \in Nat /\ Weighed(book, S)[k] <= BASE * book[k]
  <2> TAKE k \in S
  <2>1. book[k] \in Nat /\ k.risk \in Nat /\ k.risk <= BASE
    BY RisksKnown DEF Books
  <2>2. k.risk * book[k] \in Nat /\ k.risk * book[k] <= BASE * book[k]
    BY <1>1, <2>1, Scaled
  <2>3. Weighed(book, S)[k] = book[k] * k.risk
    BY DEF Weighed
  <2>4. book[k] * k.risk = k.risk * book[k]
    BY <2>1
  <2> QED
    BY <2>1, <2>2, <2>3, <2>4
<1>5. i[S] \in Nat /\ i[S] <= BASE * j[S]
  BY <1>1, <1>2, <1>3, <1>4, SumWeighs
<1>6. j[S] \in Nat
  <2>1. \A k \in S : book[k] \in Nat /\ book[k] <= 1 * book[k]
    BY DEF Books
  <2> QED
    BY <1>1, <1>3, <2>1, SumWeighs
<1> QED
  BY <1>2, <1>3, <1>5, <1>6

\* One position more.
LEMMA OneMoreHeld ==
  ASSUME NEW book \in Books, NEW kind \in Portfolio!Kinds, NEW S \in SUBSET Portfolio!Kinds
  PROVE  RiskIn([book EXCEPT ![kind] = @ + 1], S)
           = RiskIn(book, S) + (IF kind \in S THEN kind.risk ELSE 0)
<1> DEFINE next == [book EXCEPT ![kind] = @ + 1]
<1>1. next \in Books /\ next[kind] = book[kind] + 1 /\ \A k \in Portfolio!Kinds \ {kind} : next[k] = book[k]
  BY DEF Books
<1> HIDE DEF next
<1>2. IsFiniteSet(S)
  BY Tallied
<1>3. PICK i : AddsUp(i, Weighed(book, S), S) /\ RiskIn(book, S) = i[S]
  BY Tallied
<1>4. PICK j : AddsUp(j, Weighed(next, S), S) /\ RiskIn(next, S) = j[S]
  BY <1>1, Tallied
<1>5. \A k \in S \ {kind} : Weighed(book, S)[k] = Weighed(next, S)[k]
  BY <1>1 DEF Weighed
<1>6. CASE kind \notin S
  <2>1. \A k \in S : Weighed(book, S)[k] = Weighed(next, S)[k]
    BY <1>5, <1>6
  <2>2. i[S] = j[S]
    <3> HIDE DEF Weighed
    <3> QED
      BY <1>2, <1>3, <1>4, <2>1, SumsAgree
  <2>3. i[S] \in Int
    BY <1>3 DEF AddsUp
  <2> QED
    BY <1>3, <1>4, <1>6, <2>2, <2>3 DEF next
<1>7. CASE kind \in S
  <2> DEFINE rest == S \ {kind}
  <2>1. rest \in SUBSET S /\ \A k \in rest : Weighed(book, S)[k] = Weighed(next, S)[k]
    BY <1>5
  <2>2. AddsUp(j, Weighed(next, S), rest)
    BY <1>4, <2>1 DEF AddsUp
  <2>3. i[rest] = j[rest]
    <3> HIDE DEF Weighed, rest
    <3> QED
      BY <1>2, <1>3, <2>1, <2>2, SumsAgree
  <2>4. i[S] = Weighed(book, S)[kind] + i[rest] /\ j[S] = Weighed(next, S)[kind] + j[rest]
    BY <1>3, <1>4, <1>7 DEF AddsUp
  <2>5. i[rest] \in Int
    BY <1>3, <2>1 DEF AddsUp
  <2>6. Weighed(book, S)[kind] = book[kind] * kind.risk /\ Weighed(next, S)[kind] = (book[kind] + 1) * kind.risk
    BY <1>1, <1>7 DEF Weighed
  <2>7. book[kind] \in Nat /\ kind.risk \in Nat
    BY RisksKnown DEF Books
  <2>8. (book[kind] + 1) * kind.risk = book[kind] * kind.risk + kind.risk /\ book[kind] * kind.risk \in Nat
    BY <2>7
  <2> HIDE DEF rest
  <2>9. j[S] = i[S] + kind.risk
    BY <2>3, <2>4, <2>5, <2>6, <2>7, <2>8
  <2> QED
    BY <1>3, <1>4, <1>7, <2>9 DEF next
<1> QED
  BY <1>6, <1>7

\* The two clusters are all there is.
Metals == {k \in Portfolio!Kinds : k.symbol = "XAUUSD"}
Equity == {k \in Portfolio!Kinds : k.symbol = "US30"}

LEMMA TwoClusters ==
  ASSUME NEW book \in Books
  PROVE  RiskIn(book, Portfolio!Kinds) = RiskIn(book, Metals) + RiskIn(book, Equity)
<1> DEFINE K == Portfolio!Kinds
           f == Weighed(book, K)
<1>1. IsFiniteSet(K)
  BY KindsFinite
<1>2. Metals \in SUBSET K /\ Equity \in SUBSET K /\ Metals \cap Equity = {} /\ Metals \cup Equity = K
  BY DEF Metals, Equity, Portfolio!Kinds, Portfolio!Production
<1>3. PICK i : AddsUp(i, f, K) /\ RiskIn(book, K) = i[K]
  BY Tallied
<1>4. \A k \in K : f[k] \in Int
  BY RisksKnown DEF Books, Weighed
<1>5. \A S \in SUBSET K : RiskIn(book, S) = i[S]
  <2> TAKE S \in SUBSET K
  <2>1. PICK j : AddsUp(j, Weighed(book, S), S) /\ RiskIn(book, S) = j[S]
    BY Tallied
  <2>2. \A k \in S : f[k] = Weighed(book, S)[k]
    BY DEF Weighed
  <2> HIDE DEF f, K
  <2> QED
    BY <1>1, <1>3, <2>1, <2>2, SumsAgree
<1> HIDE DEF f, K
<1>6. i[Metals \cup Equity] = i[Metals] + i[Equity]
  BY <1>1, <1>2, <1>3, <1>4, SumSplits
<1>7. RiskIn(book, K) = i[Metals] + i[Equity]
  BY <1>2, <1>3, <1>6
<1> QED
  BY <1>2, <1>5, <1>7 DEF K

LEMMA ClampedScore ==
  ASSUME NEW x \in Int
  PROVE  Portfolio!Clamp(x) = IF x < 0 THEN 0 ELSE IF x > 10000 THEN 10000 ELSE x
<1> DEFINE least == Portfolio!Min({10000, x})
<1>1. least = IF x > 10000 THEN 10000 ELSE x
  BY DEF Portfolio!Min
<1> HIDE DEF least
<1>2. Portfolio!Max({0, least}) = IF least < 0 THEN 0 ELSE least
  BY <1>1 DEF Portfolio!Max
<1> QED
  BY <1>1, <1>2 DEF Portfolio!Clamp, least

\* A fifth of a risk or less is worth the least the budget gives.
LEMMA BudgetScore ==
  ASSUME held \in Books
  PROVE  /\ Portfolio!Deployed \in Nat /\ Portfolio!RiskBudget \in Int /\ Portfolio!RiskBudget <= 10000
         /\ 5 * (BUDGET - Portfolio!Deployed) <= BASE /\ BUDGET < Portfolio!Deployed + BASE =>
              Portfolio!RiskBudget <= 2000
<1> DEFINE remaining == BUDGET - Portfolio!Deployed
           positive == Portfolio!Max({remaining, 0})
           share == (10000 * positive) \div BASE
<1>1. BASE \in Nat \ {0} /\ BUDGET \in Nat
  BY PortfolioAssumption
<1>2. Portfolio!Deployed \in Nat
  <2>1. Portfolio!Deployed = RiskIn(held, Portfolio!Kinds)
    BY DEF Portfolio!Deployed, Portfolio!RiskOf, RiskIn
  <2> QED
    BY <2>1, RiskByNumber
<1>3. remaining \in Int
  BY <1>1, <1>2
<1>4. positive = IF remaining < 0 THEN 0 ELSE remaining
  <2> HIDE DEF remaining
  <2> QED
    BY <1>3 DEF Portfolio!Max
<1>5. positive \in Nat
  <2> HIDE DEF remaining, positive
  <2> QED
    BY <1>3, <1>4
<1>6. Portfolio!RiskBudget = IF remaining >= BASE THEN 10000 ELSE Portfolio!Max({2000, share})
  BY DEF Portfolio!RiskBudget
<1>7. share \in Nat /\ BASE * share <= 10000 * positive
  <2> DEFINE a == 10000 * positive
  <2>1. a \in Nat
    BY <1>5
  <2> HIDE DEF a
  <2>2. /\ a \div BASE \in Nat /\ a % BASE \in Nat
        /\ a = BASE * (a \div BASE) + (a % BASE)
    BY <1>1, <2>1, Divided
  <2>3. BASE * (a \div BASE) \in Nat
    BY <1>1, <2>2
  <2>4. BASE * (a \div BASE) <= a
    BY <2>1, <2>2, <2>3
  <2> QED
    BY <2>2, <2>4 DEF a
<1>8. Portfolio!Max({2000, share}) = IF share <= 2000 THEN 2000 ELSE share
  <2> HIDE DEF share
  <2> QED
    BY <1>7 DEF Portfolio!Max
<1> HIDE DEF remaining, positive, share
\* A share beyond n hundredths needs that much of a whole risk.
<1>9. ASSUME NEW n \in Nat, share > n PROVE BASE * (n + 1) <= 10000 * positive
  <2>1. BASE * (n + 1) <= BASE * share
    BY <1>1, <1>7, <1>9
  <2>2. BASE * (n + 1) \in Nat /\ BASE * share \in Nat
    BY <1>1, <1>7
  <2> QED
    BY <1>5, <1>7, <2>1, <2>2
<1>10. remaining < BASE => share <= 10000
  <2> SUFFICES ASSUME remaining < BASE, share > 10000 PROVE FALSE
    BY <1>7
  <2>1. BASE * 10001 <= 10000 * positive
    BY <1>9
  <2> QED
    BY <1>1, <1>3, <1>4, <1>5, <2>1
<1>11. 5 * remaining <= BASE => share <= 2000
  <2> SUFFICES ASSUME 5 * remaining <= BASE, share > 2000 PROVE FALSE
    BY <1>7
  <2>1. BASE * 2001 <= 10000 * positive
    BY <1>9
  <2> QED
    BY <1>1, <1>3, <1>4, <1>5, <2>1
<1>12. Portfolio!RiskBudget \in Int /\ Portfolio!RiskBudget <= 10000
  BY <1>1, <1>3, <1>6, <1>7, <1>8, <1>10
<1>13. ASSUME 5 * remaining <= BASE, BUDGET < Portfolio!Deployed + BASE PROVE Portfolio!RiskBudget <= 2000
  <2>1. ~(remaining >= BASE)
    BY <1>1, <1>2, <1>13 DEF remaining
  <2> QED
    BY <1>6, <1>7, <1>8, <1>11, <1>13, <2>1
<1> QED
  BY <1>2, <1>12, <1>13 DEF remaining

\* Both limits on numbers are reached before the limits on risk are.
LEMMA ReachedFirst ==
  ASSUME NEW limit \in Nat, NEW allowed \in Nat, limit * BASE <= allowed,
         NEW number \in Nat, NEW risk \in Nat, risk <= BASE * number, risk + BASE > allowed
  PROVE  number >= limit
<1>1. BASE \in Nat
  BY PortfolioAssumption
<1> SUFFICES ASSUME number + 1 <= limit PROVE FALSE
  OBVIOUS
<1>2. BASE * (number + 1) <= limit * BASE
  <2>1. (number + 1) * BASE <= limit * BASE
    BY <1>1, Scaled
  <2> QED
    BY <1>1, <2>1
<1>3. BASE * (number + 1) = BASE * number + BASE /\ BASE * number \in Nat /\ limit * BASE \in Nat
  BY <1>1
<1> QED
  BY <1>1, <1>2, <1>3

\* A score of top at most.
WithinScore(x, top) == x \in Nat /\ x <= top

\* Beyond the budget a candidate loses three quarters of its exposure's points,
\* beyond its cluster's allowance three fifths of its correlation's.
LEMMA Scores ==
  ASSUME held \in Books, NEW c \in Portfolio!Candidates
  PROVE  LET own == RiskIn(held, Portfolio!SameCluster(c))
         IN /\ own \in Nat
            /\ WithinScore(Portfolio!Exposure(c), 10000) /\ WithinScore(Portfolio!Correlation(c), 10000)
            /\ Portfolio!Deployed + BASE > BUDGET => Portfolio!Exposure(c) <= 2500
            /\ own + BASE > CLUSTER_RISK => Portfolio!Correlation(c) <= 4000
<1> DEFINE own == RiskIn(held, Portfolio!SameCluster(c))
           number == NumberIn(held, Portfolio!SameCluster(c))
           all == NumberIn(held, Portfolio!Kinds)
           deployed == RiskIn(held, Portfolio!Kinds)
           side == NumberIn(held, {k \in Portfolio!Kinds : k.direction = c.direction})
<1>1. /\ Portfolio!RiskOf(Portfolio!SameCluster(c)) = own /\ Portfolio!Number(Portfolio!SameCluster(c)) = number
      /\ Portfolio!Number(Portfolio!Kinds) = all /\ Portfolio!Deployed = deployed
      /\ Portfolio!Number({k \in Portfolio!Kinds : k.direction = c.direction}) = side
  BY DEF Portfolio!RiskOf, Portfolio!Number, Portfolio!Deployed, RiskIn, NumberIn
<1>2. /\ own \in Nat /\ number \in Nat /\ own <= BASE * number
      /\ all \in Nat /\ deployed \in Nat /\ deployed <= BASE * all
      /\ side \in Nat
  <2>1. Portfolio!SameCluster(c) \in SUBSET Portfolio!Kinds
    BY DEF Portfolio!SameCluster
  <2>2. {k \in Portfolio!Kinds : k.direction = c.direction} \in SUBSET Portfolio!Kinds
    OBVIOUS
  <2> QED
    BY <2>1, <2>2, RiskByNumber
<1> HIDE DEF own, number, all, deployed, side
<1>3. /\ BASE \in Nat /\ BUDGET \in Nat /\ CLUSTER_RISK \in Nat /\ MAX_OPEN \in Nat /\ MAX_SAME \in Nat
      /\ MAX_OPEN * BASE <= BUDGET /\ MAX_SAME * BASE <= CLUSTER_RISK
  BY PortfolioAssumption
<1>4. deployed + BASE > BUDGET => all >= MAX_OPEN
  BY <1>2, <1>3, ReachedFirst
<1>5. own + BASE > CLUSTER_RISK => number >= MAX_SAME
  BY <1>2, <1>3, ReachedFirst
<1> DEFINE a == Portfolio!Off(4000, all >= MAX_OPEN)
           b == Portfolio!Off(1200, side > 0)
           d == Portfolio!Off(3500, deployed + BASE > BUDGET)
           e == Portfolio!Off(800, c.losing)
           f == Portfolio!Off(3500, number >= MAX_SAME)
           g == Portfolio!Off(2500, own + BASE > CLUSTER_RISK)
<1>6. Portfolio!Exposure(c) = Portfolio!Clamp(10000 - a - b - d - e)
  BY <1>1 DEF Portfolio!Exposure
<1>7. Portfolio!Correlation(c) = Portfolio!Clamp(10000 - f - g)
  BY <1>1 DEF Portfolio!Correlation
<1>8. /\ a \in {0, 4000} /\ b \in {0, 1200} /\ d \in {0, 3500} /\ e \in {0, 800}
      /\ f \in {0, 3500} /\ g \in {0, 2500}
  BY DEF Portfolio!Off
<1>9. /\ deployed + BASE > BUDGET => a = 4000 /\ d = 3500
      /\ own + BASE > CLUSTER_RISK => f = 3500 /\ g = 2500
  BY <1>4, <1>5 DEF Portfolio!Off
<1> HIDE DEF a, b, d, e, f, g
<1>10. WithinScore(Portfolio!Exposure(c), 10000) /\ (deployed + BASE > BUDGET => Portfolio!Exposure(c) <= 2500)
  <2> DEFINE x == 10000 - a - b - d - e
  <2>1. x \in Int /\ x <= 10000 /\ (deployed + BASE > BUDGET => x <= 2500)
    BY <1>8, <1>9
  <2> HIDE DEF x
  <2>2. Portfolio!Clamp(x) = IF x < 0 THEN 0 ELSE IF x > 10000 THEN 10000 ELSE x
    BY <2>1, ClampedScore
  <2>3. Portfolio!Exposure(c) = Portfolio!Clamp(x)
    BY <1>6 DEF x
  <2> QED
    BY <2>1, <2>2, <2>3 DEF WithinScore
<1>11. WithinScore(Portfolio!Correlation(c), 10000) /\ (own + BASE > CLUSTER_RISK => Portfolio!Correlation(c) <= 4000)
  <2> DEFINE x == 10000 - f - g
  <2>1. x \in Int /\ x <= 10000 /\ (own + BASE > CLUSTER_RISK => x <= 4000)
    BY <1>8, <1>9
  <2> HIDE DEF x
  <2>2. Portfolio!Clamp(x) = IF x < 0 THEN 0 ELSE IF x > 10000 THEN 10000 ELSE x
    BY <2>1, ClampedScore
  <2>3. Portfolio!Correlation(c) = Portfolio!Clamp(x)
    BY <1>7 DEF x
  <2> QED
    BY <2>1, <2>2, <2>3 DEF WithinScore
<1> QED
  BY <1>1, <1>2, <1>10, <1>11 DEF own

\* The best a candidate can bring along.
LEMMA Prospects ==
  ASSUME NEW c \in Portfolio!Candidates
  PROVE  /\ WithinScore(Portfolio!RegimeScore(c.regime), 10000)
         /\ WithinScore(Portfolio!ConfluenceScore(c.tier), 10000)
         /\ WithinScore(Portfolio!OpportunityCost(c), 8460)
<1> DEFINE expected == Portfolio!Expectancy(c.symbol, c.regime)
           score == 4500 + 55 * expected
           most == Portfolio!Max({3000, score})
           least == Portfolio!Min({10000, most})
           off == Portfolio!Off(2000, c.reserve)
<1>1. WithinScore(Portfolio!RegimeScore(c.regime), 10000)
  BY DEF Portfolio!RegimeScore, WithinScore
<1>2. c.tier \in {"FULL_STACK_CONFLUENCE", "STRUCTURAL_CONFLUENCE", "TACTICAL_CONFLUENCE", "CONFLICT"}
  BY DEF Portfolio!Candidates, Portfolio!Tiers, Portfolio!Classify
<1>3. WithinScore(Portfolio!ConfluenceScore(c.tier), 10000)
  BY <1>2 DEF Portfolio!ConfluenceScore, WithinScore
<1>4. expected \in 31..72
  BY DEF Portfolio!Expectancy
<1> HIDE DEF expected
<1>5. score \in Int /\ 3000 <= score /\ score <= 8460
  BY <1>4
<1> HIDE DEF score
<1>6. most = IF score >= 3000 THEN score ELSE 3000
  BY <1>5 DEF Portfolio!Max
<1> HIDE DEF most
<1>7. least = IF most <= 10000 THEN most ELSE 10000
  <2>1. most \in Int
    BY <1>5, <1>6
  <2> QED
    BY <2>1 DEF Portfolio!Min
<1> HIDE DEF least
<1>8. off \in {0, 2000}
  BY DEF Portfolio!Off
<1>9. Portfolio!OpportunityCost(c) = Portfolio!Clamp(least - off)
  BY DEF Portfolio!OpportunityCost, least, most, score, expected, off
<1> HIDE DEF off
<1>10. WithinScore(Portfolio!OpportunityCost(c), 8460)
  <2>1. least = score
    BY <1>5, <1>6, <1>7
  <2>2. least - off \in Int /\ least - off >= 0 /\ least - off <= 8460
    BY <1>5, <1>8, <2>1
  <2>3. Portfolio!Clamp(least - off) = least - off
    BY <2>2, ClampedScore
  <2> QED
    BY <1>9, <2>2, <2>3 DEF WithinScore
<1> QED
  BY <1>1, <1>3, <1>10

\* Each cluster by itself, and both.
Under(book) ==
  /\ book \in Books
  /\ RiskIn(book, Portfolio!Kinds) <= BUDGET + CLUSTER_RISK
  /\ 10 * RiskIn(book, Metals) <= 10 * BUDGET + 3 * BASE
  /\ 10 * RiskIn(book, Equity) <= 10 * BUDGET + 3 * BASE

UnderCeiling == part = "portfolio" => Under(held)

\* The advice that is followed, by what it costs.
LEMMA DecidedByScore ==
  ASSUME NEW c \in Portfolio!Candidates
  PROVE  /\ Portfolio!AdmissionDecision(c) = "ALLOW" => Portfolio!Pas(c) >= 7500
         /\ Portfolio!AdmissionDecision(c) = "REDUCED_RISK_ALLOW" => Portfolio!Pas(c) >= 6000
<1>1. c.core \in BOOLEAN
  BY DEF Portfolio!Candidates
<1> QED
  BY <1>1 DEF Portfolio!AdmissionDecision

\* Beyond the budget, a whole risk needs a cluster with room, and any risk
\* without one a fifth of a risk that is left.
LEMMA AdmittedScore ==
  ASSUME held \in Books, NEW c \in Portfolio!Candidates
  PROVE  LET own == RiskIn(held, Portfolio!SameCluster(c))
             all == RiskIn(held, Portfolio!Kinds)
             decision == Portfolio!AdmissionDecision(c)
         IN all + BASE > BUDGET =>
              /\ decision = "ALLOW" => own + BASE <= CLUSTER_RISK /\ 5 * (BUDGET - all) > BASE
              /\ decision = "REDUCED_RISK_ALLOW" /\ own + BASE > CLUSTER_RISK => 5 * (BUDGET - all) > BASE
<1> DEFINE own == RiskIn(held, Portfolio!SameCluster(c))
           all == RiskIn(held, Portfolio!Kinds)
           decision == Portfolio!AdmissionDecision(c)
           e == Portfolio!Exposure(c)
           k == Portfolio!Correlation(c)
           r == Portfolio!RegimeScore(c.regime)
           b == Portfolio!RiskBudget
           t == Portfolio!ConfluenceScore(c.tier)
           o == Portfolio!OpportunityCost(c)
           score == 20 * e + 20 * k + 20 * r + 15 * b + 15 * t + 10 * o + 50
<1>1. all = Portfolio!Deployed
  BY DEF Portfolio!Deployed, Portfolio!RiskOf, RiskIn
<1>2. BASE \in Nat /\ BUDGET \in Nat /\ CLUSTER_RISK \in Nat
  BY PortfolioAssumption
<1>3. Portfolio!Pas(c) = score \div 100
  BY DEF Portfolio!Pas
<1>4. /\ own \in Nat /\ e \in Nat /\ e <= 10000 /\ k \in Nat /\ k <= 10000
      /\ all + BASE > BUDGET => e <= 2500
      /\ own + BASE > CLUSTER_RISK => k <= 4000
  BY <1>1, Scores DEF WithinScore
<1>5. r \in Nat /\ r <= 10000 /\ t \in Nat /\ t <= 10000 /\ o \in Nat /\ o <= 8460
  BY Prospects DEF WithinScore
<1>6. /\ all \in Nat /\ b \in Int /\ b <= 10000
      /\ 5 * (BUDGET - all) <= BASE /\ all + BASE > BUDGET => b <= 2000
  <2>1. BUDGET < all + BASE <=> all + BASE > BUDGET
    OBVIOUS
  <2>2. /\ Portfolio!Deployed \in Nat /\ b \in Int /\ b <= 10000
        /\ 5 * (BUDGET - Portfolio!Deployed) <= BASE /\ BUDGET < Portfolio!Deployed + BASE => b <= 2000
    BY BudgetScore
  <2> HIDE DEF all, b
  <2>3. BUDGET < all + BASE <=> all + BASE > BUDGET
    BY <1>1, <1>2, <2>2
  <2> QED
    BY <1>1, <2>2, <2>3
<1>7. /\ decision = "ALLOW" => Portfolio!Pas(c) >= 7500
      /\ decision = "REDUCED_RISK_ALLOW" => Portfolio!Pas(c) >= 6000
  BY DecidedByScore
<1> HIDE DEF own, all, decision, e, k, r, b, t, o
<1>8. score \in Int /\ 100 * (score \div 100) <= score
  <2>1. score \in Int
    BY <1>4, <1>5, <1>6
  <2> HIDE DEF score
  <2> QED
    BY <2>1
<1>9. /\ decision = "ALLOW" => score >= 750000
      /\ decision = "REDUCED_RISK_ALLOW" => score >= 600000
  <2> HIDE DEF score
  <2> QED
    BY <1>3, <1>7, <1>8
<1>10. score <= 20 * e + 20 * k + 15 * b + 434650
  BY <1>4, <1>5, <1>6
<1> HIDE DEF score
<1> SUFFICES ASSUME all + BASE > BUDGET
             PROVE  /\ decision = "ALLOW" => own + BASE <= CLUSTER_RISK /\ 5 * (BUDGET - all) > BASE
                    /\ decision = "REDUCED_RISK_ALLOW" /\ own + BASE > CLUSTER_RISK => 5 * (BUDGET - all) > BASE
  BY DEF own, all, decision
<1>11. decision = "ALLOW" => own + BASE <= CLUSTER_RISK
  BY <1>2, <1>4, <1>6, <1>8, <1>9, <1>10
<1>12. decision = "ALLOW" => 5 * (BUDGET - all) > BASE
  BY <1>2, <1>4, <1>6, <1>8, <1>9, <1>10
<1>13. decision = "REDUCED_RISK_ALLOW" /\ own + BASE > CLUSTER_RISK => 5 * (BUDGET - all) > BASE
  BY <1>2, <1>4, <1>6, <1>8, <1>9, <1>10
<1> QED
  BY <1>11, <1>12, <1>13

\* The cluster of a candidate, and the other one.
LEMMA OwnCluster ==
  ASSUME NEW c \in Portfolio!Candidates
  PROVE  \/ Portfolio!SameCluster(c) = Metals /\ c.symbol = "XAUUSD"
         \/ Portfolio!SameCluster(c) = Equity /\ c.symbol = "US30"
BY DEF Portfolio!SameCluster, Portfolio!ClusterFor, Metals, Equity, Portfolio!Candidates,
       Portfolio!Production, Portfolio!Kinds

\* With a cluster at own and the other at rest, advice that is followed leaves
\* both under their ceilings.
LEMMA AdviceFits ==
  ASSUME held \in Books, NEW c \in Portfolio!Candidates, NEW rest \in Nat,
         RiskIn(held, Portfolio!Kinds) = RiskIn(held, Portfolio!SameCluster(c)) + rest,
         RiskIn(held, Portfolio!Kinds) <= BUDGET + CLUSTER_RISK,
         10 * rest <= 10 * BUDGET + 3 * BASE,
         Portfolio!AdmissionDecision(c) \in {"ALLOW", "REDUCED_RISK_ALLOW"}
  PROVE  LET own == RiskIn(held, Portfolio!SameCluster(c))
             risk == Portfolio!RiskAdvised(Portfolio!AdmissionDecision(c), c.tier)
         IN /\ risk \in {BASE, Portfolio!Structural, Portfolio!Reduced}
            /\ own + risk + rest <= BUDGET + CLUSTER_RISK
            /\ 10 * (own + risk) <= 10 * BUDGET + 3 * BASE
<1> DEFINE own == RiskIn(held, Portfolio!SameCluster(c))
           all == RiskIn(held, Portfolio!Kinds)
           decision == Portfolio!AdmissionDecision(c)
           risk == Portfolio!RiskAdvised(decision, c.tier)
<1>1. /\ BASE \in Nat \ {0} /\ BUDGET \in Nat /\ CLUSTER_RISK \in Nat /\ CLUSTER_RISK <= BUDGET
      /\ BASE <= CLUSTER_RISK
  <2>1. /\ BASE \in Nat \ {0} /\ BUDGET \in Nat /\ CLUSTER_RISK \in Nat /\ CLUSTER_RISK <= BUDGET
        /\ MAX_SAME \in Nat /\ 1 <= MAX_SAME /\ MAX_SAME * BASE <= CLUSTER_RISK
    BY PortfolioAssumption
  <2>2. 1 * BASE <= MAX_SAME * BASE /\ MAX_SAME * BASE \in Nat
    BY <2>1, Scaled
  <2> QED
    BY <2>1, <2>2
<1>2. own \in Nat /\ all = own + rest /\ all <= BUDGET + CLUSTER_RISK
  <2>1. Portfolio!SameCluster(c) \in SUBSET Portfolio!Kinds
    BY DEF Portfolio!SameCluster
  <2> QED
    BY <2>1, RiskByNumber
<1>3. all + BASE > BUDGET =>
        /\ decision = "ALLOW" => own + BASE <= CLUSTER_RISK /\ 5 * (BUDGET - all) > BASE
        /\ decision = "REDUCED_RISK_ALLOW" /\ own + BASE > CLUSTER_RISK => 5 * (BUDGET - all) > BASE
  BY AdmittedScore
<1>4. decision \in {"ALLOW", "REDUCED_RISK_ALLOW"}
  OBVIOUS
<1>5. /\ risk \in {BASE, Portfolio!Structural, Portfolio!Reduced}
      /\ decision # "ALLOW" => risk = Portfolio!Reduced
  <2> HIDE DEF decision
  <2> QED
    BY <1>4 DEF Portfolio!RiskAdvised
<1>6. risk \in Nat /\ risk <= BASE /\ (decision # "ALLOW" => 2 * risk <= BASE)
  <2> HIDE DEF decision, risk
  <2> QED
    BY <1>1, <1>5, RisksKnown
<1> HIDE DEF own, all, decision, risk
<1>7. own + risk + rest <= BUDGET + CLUSTER_RISK /\ 10 * (own + risk) <= 10 * BUDGET + 3 * BASE
  <2>1. CASE all + BASE <= BUDGET
    BY <1>1, <1>2, <1>6, <2>1
  <2>2. CASE all + BASE > BUDGET /\ decision = "ALLOW"
    BY <1>1, <1>2, <1>3, <1>6, <2>2
  <2>3. CASE all + BASE > BUDGET /\ decision # "ALLOW" /\ own + BASE > CLUSTER_RISK
    BY <1>1, <1>2, <1>3, <1>4, <1>6, <2>3
  <2>4. CASE all + BASE > BUDGET /\ decision # "ALLOW" /\ own + BASE <= CLUSTER_RISK
    BY <1>1, <1>2, <1>6, <2>4
  <2> QED
    BY <1>1, <1>2, <2>1, <2>2, <2>3, <2>4
<1> QED
  BY <1>5, <1>7 DEF own, decision, risk

LEMMA FollowedUnder ==
  ASSUME Under(held), Portfolio!FollowAdvice
  PROVE  Under(held')
<1>1. PICK c \in Portfolio!Candidates :
        LET decision == Portfolio!AdmissionDecision(c)
            kind == [symbol |-> c.symbol, direction |-> c.direction,
                     risk |-> Portfolio!RiskAdvised(decision, c.tier)]
        IN held' = IF decision \in {"ALLOW", "REDUCED_RISK_ALLOW"} THEN [held EXCEPT ![kind] = @ + 1] ELSE held
  BY DEF Portfolio!FollowAdvice
<1> DEFINE decision == Portfolio!AdmissionDecision(c)
           risk == Portfolio!RiskAdvised(decision, c.tier)
           kind == [symbol |-> c.symbol, direction |-> c.direction, risk |-> risk]
<1>2. CASE decision \notin {"ALLOW", "REDUCED_RISK_ALLOW"}
  <2>1. held' = held
    BY <1>1, <1>2
  <2> QED
    BY <2>1
<1>3. CASE decision \in {"ALLOW", "REDUCED_RISK_ALLOW"}
  <2>1. held' = [held EXCEPT ![kind] = @ + 1]
    BY <1>1, <1>3
  <2>2. /\ held \in Books /\ RiskIn(held, Portfolio!Kinds) <= BUDGET + CLUSTER_RISK
        /\ 10 * RiskIn(held, Metals) <= 10 * BUDGET + 3 * BASE
        /\ 10 * RiskIn(held, Equity) <= 10 * BUDGET + 3 * BASE
    BY DEF Under
  <2>3. /\ RiskIn(held, Metals) \in Nat /\ RiskIn(held, Equity) \in Nat /\ RiskIn(held, Portfolio!Kinds) \in Nat
        /\ RiskIn(held, Portfolio!Kinds) = RiskIn(held, Metals) + RiskIn(held, Equity)
    <3>1. Metals \in SUBSET Portfolio!Kinds /\ Equity \in SUBSET Portfolio!Kinds
      BY DEF Metals, Equity
    <3> QED
      BY <2>2, <3>1, RiskByNumber, TwoClusters
  <2> DEFINE m == RiskIn(held, Metals)
             q == RiskIn(held, Equity)
  <2>4. \/ /\ Portfolio!SameCluster(c) = Metals /\ c.symbol = "XAUUSD"
           /\ RiskIn(held, Portfolio!Kinds) = RiskIn(held, Portfolio!SameCluster(c)) + q
        \/ /\ Portfolio!SameCluster(c) = Equity /\ c.symbol = "US30"
           /\ RiskIn(held, Portfolio!Kinds) = RiskIn(held, Portfolio!SameCluster(c)) + m
    <3>1. m + q = q + m
      BY <2>3
    <3> QED
      BY <2>3, <3>1, OwnCluster
  <2>5. /\ risk \in {BASE, Portfolio!Structural, Portfolio!Reduced}
        /\ c.symbol = "XAUUSD" => m + risk + q <= BUDGET + CLUSTER_RISK /\ 10 * (m + risk) <= 10 * BUDGET + 3 * BASE
        /\ c.symbol = "US30" => q + risk + m <= BUDGET + CLUSTER_RISK /\ 10 * (q + risk) <= 10 * BUDGET + 3 * BASE
        /\ c.symbol \in {"XAUUSD", "US30"}
    <3>1. CASE Portfolio!SameCluster(c) = Metals /\ c.symbol = "XAUUSD"
      <4>1. RiskIn(held, Portfolio!Kinds) = RiskIn(held, Portfolio!SameCluster(c)) + q
        BY <2>4, <3>1
      <4> QED
        BY <1>3, <2>2, <2>3, <3>1, <4>1, AdviceFits
    <3>2. CASE Portfolio!SameCluster(c) = Equity /\ c.symbol = "US30"
      <4>1. RiskIn(held, Portfolio!Kinds) = RiskIn(held, Portfolio!SameCluster(c)) + m
        BY <2>4, <3>2
      <4> QED
        BY <1>3, <2>2, <2>3, <3>2, <4>1, AdviceFits
    <3> QED
      BY <2>4, <3>1, <3>2
  <2>6. kind \in Portfolio!Kinds /\ kind.symbol = c.symbol /\ kind.risk = risk
    <3>1. c.symbol \in Portfolio!Production /\ c.direction \in Portfolio!Sides
      BY DEF Portfolio!Candidates
    <3> HIDE DEF risk
    <3> QED
      BY <2>5, <3>1 DEF Portfolio!Kinds
  <2>7. risk \in Nat
    BY <2>6, RisksKnown
  <2>8. held' \in Books
    <3> HIDE DEF kind
    <3> QED
      BY <2>1, <2>2, <2>6 DEF Books
  <2>9. /\ RiskIn(held', Metals) = m + (IF c.symbol = "XAUUSD" THEN risk ELSE 0)
        /\ RiskIn(held', Equity) = q + (IF c.symbol = "US30" THEN risk ELSE 0)
    <3>1. Metals \in SUBSET Portfolio!Kinds /\ (kind \in Metals <=> c.symbol = "XAUUSD")
      <4> HIDE DEF kind
      <4> QED
        BY <2>6 DEF Metals
    <3>2. Equity \in SUBSET Portfolio!Kinds /\ (kind \in Equity <=> c.symbol = "US30")
      <4> HIDE DEF kind
      <4> QED
        BY <2>6 DEF Equity
    <3> HIDE DEF kind
    <3>3. /\ RiskIn(held', Metals) = m + (IF kind \in Metals THEN kind.risk ELSE 0)
          /\ RiskIn(held', Equity) = q + (IF kind \in Equity THEN kind.risk ELSE 0)
      BY <2>1, <2>2, <2>6, <3>1, <3>2, OneMoreHeld
    <3> QED
      BY <2>6, <3>1, <3>2, <3>3
  <2>10. RiskIn(held', Portfolio!Kinds) = RiskIn(held', Metals) + RiskIn(held', Equity)
    BY <2>8, TwoClusters
  <2> HIDE DEF m, q, risk, kind
  <2>11. m \in Nat /\ q \in Nat /\ 10 * m <= 10 * BUDGET + 3 * BASE /\ 10 * q <= 10 * BUDGET + 3 * BASE
    BY <2>2, <2>3 DEF m, q
  <2>12. CASE c.symbol = "XAUUSD"
    <3>1. RiskIn(held', Metals) = m + risk /\ RiskIn(held', Equity) = q
      BY <2>7, <2>9, <2>11, <2>12
    <3> QED
      BY <2>5, <2>7, <2>8, <2>10, <2>11, <2>12, <3>1, PortfolioAssumption DEF Under
  <2>13. CASE c.symbol = "US30"
    <3>1. RiskIn(held', Equity) = q + risk /\ RiskIn(held', Metals) = m
      BY <2>7, <2>9, <2>11, <2>13
    <3> QED
      BY <2>5, <2>7, <2>8, <2>10, <2>11, <2>13, <3>1, PortfolioAssumption DEF Under
  <2> QED
    BY <2>5, <2>12, <2>13
<1> QED
  BY <1>2, <1>3

LEMMA ClosedUnder ==
  ASSUME Under(held), Portfolio!ClosePosition
  PROVE  Under(held')
<1>1. PICK k \in Portfolio!Kinds : held[k] > 0 /\ held' = [held EXCEPT ![k] = @ - 1]
  BY DEF Portfolio!ClosePosition
<1>2. held \in Books
  BY DEF Under
<1>3. held' \in Books /\ held = [held' EXCEPT ![k] = @ + 1]
  <2>1. held[k] \in Nat /\ held[k] - 1 \in Nat
    BY <1>1, <1>2 DEF Books
  <2>2. held' \in Books /\ held'[k] = held[k] - 1 /\ \A x \in Portfolio!Kinds \ {k} : held'[x] = held[x]
    BY <1>1, <1>2, <2>1 DEF Books
  <2>3. held'[k] + 1 = held[k]
    BY <2>1, <2>2
  <2>4. [held' EXCEPT ![k] = @ + 1] = [x \in Portfolio!Kinds |-> held[x]]
    BY <2>2, <2>3 DEF Books
  <2>5. held = [x \in Portfolio!Kinds |-> held[x]]
    BY <1>2 DEF Books
  <2> QED
    BY <2>2, <2>4, <2>5
<1>4. \A S \in SUBSET Portfolio!Kinds :
        RiskIn(held, S) \in Nat /\ RiskIn(held', S) \in Nat /\ RiskIn(held', S) <= RiskIn(held, S)
  <2> TAKE S \in SUBSET Portfolio!Kinds
  <2>1. RiskIn(held, S) = RiskIn(held', S) + (IF k \in S THEN k.risk ELSE 0)
    <3>1. RiskIn([held' EXCEPT ![k] = @ + 1], S) = RiskIn(held', S) + (IF k \in S THEN k.risk ELSE 0)
      BY <1>3, OneMoreHeld
    <3> QED
      BY <1>3, <3>1
  <2>2. RiskIn(held, S) \in Nat /\ RiskIn(held', S) \in Nat /\ k.risk \in Nat
    BY <1>2, <1>3, RiskByNumber, RisksKnown
  <2> QED
    BY <2>1, <2>2
<1>5. Metals \in SUBSET Portfolio!Kinds /\ Equity \in SUBSET Portfolio!Kinds /\ Portfolio!Kinds \in SUBSET Portfolio!Kinds
  BY DEF Metals, Equity
<1> DEFINE Falls(S) == /\ RiskIn(held, S) \in Nat /\ RiskIn(held', S) \in Nat
                       /\ RiskIn(held', S) <= RiskIn(held, S)
<1>6. Falls(Metals) /\ Falls(Equity) /\ Falls(Portfolio!Kinds)
  BY <1>4, <1>5
<1>7. /\ RiskIn(held, Portfolio!Kinds) <= BUDGET + CLUSTER_RISK
      /\ 10 * RiskIn(held, Metals) <= 10 * BUDGET + 3 * BASE
      /\ 10 * RiskIn(held, Equity) <= 10 * BUDGET + 3 * BASE
  BY DEF Under
<1>8. BASE \in Nat /\ BUDGET \in Nat /\ CLUSTER_RISK \in Nat
  BY PortfolioAssumption
<1>9. /\ RiskIn(held', Portfolio!Kinds) <= BUDGET + CLUSTER_RISK
      /\ 10 * RiskIn(held', Metals) <= 10 * BUDGET + 3 * BASE
      /\ 10 * RiskIn(held', Equity) <= 10 * BUDGET + 3 * BASE
  BY <1>6, <1>7, <1>8
<1> QED
  BY <1>3, <1>9 DEF Under

LEMMA StartsUnder == Portfolio!PortfolioInit => Under(held)
<1> SUFFICES ASSUME Portfolio!PortfolioInit PROVE Under(held)
  OBVIOUS
<1>1. held \in Books /\ \A k \in Portfolio!Kinds : held[k] = 0
  BY DEF Portfolio!PortfolioInit, Books
<1>2. \A S \in SUBSET Portfolio!Kinds : RiskIn(held, S) = 0
  <2> TAKE S \in SUBSET Portfolio!Kinds
  <2>1. IsFiniteSet(S)
    BY <1>1, Tallied
  <2>2. PICK i : AddsUp(i, Weighed(held, S), S) /\ RiskIn(held, S) = i[S]
    BY <1>1, Tallied
  <2>3. \A k \in S : Weighed(held, S)[k] \in Nat /\ Weighed(held, S)[k] <= 0 * Weighed(held, S)[k]
    <3> TAKE k \in S
    <3>1. Weighed(held, S)[k] = 0 * k.risk /\ k.risk \in Nat
      BY <1>1, RisksKnown DEF Weighed
    <3> QED
      BY <3>1
  <2>4. i[S] \in Nat /\ i[S] <= 0 * i[S]
    BY <2>1, <2>2, <2>3, SumWeighs
  <2> QED
    BY <2>2, <2>4
<1>3. Metals \in SUBSET Portfolio!Kinds /\ Equity \in SUBSET Portfolio!Kinds /\ Portfolio!Kinds \in SUBSET Portfolio!Kinds
  BY DEF Metals, Equity
<1> QED
  BY <1>1, <1>2, <1>3, PortfolioAssumption DEF Under

LEMMA PortfolioFrame ==
  [MCNext]_mc_vars => part' = part /\ (part = "portfolio" => [Portfolio!PortfolioNext]_held)
BY DEF MCNext, mc_vars, watching_vars, limits_vars, deciding_vars, replay_vars,
       Watching, Deciding, Replaying, Limiting

LEMMA UnderStep == UnderCeiling /\ [MCNext]_mc_vars => UnderCeiling'
<1> SUFFICES ASSUME UnderCeiling, [MCNext]_mc_vars, part' = "portfolio" PROVE Under(held')
  BY DEF UnderCeiling
<1>1. part = "portfolio" /\ [Portfolio!PortfolioNext]_held
  BY PortfolioFrame
<1>2. Under(held)
  BY <1>1 DEF UnderCeiling
<1>3. CASE Portfolio!FollowAdvice
  BY <1>2, <1>3, FollowedUnder
<1>4. CASE Portfolio!ClosePosition
  BY <1>2, <1>4, ClosedUnder
<1>5. CASE UNCHANGED held
  BY <1>2, <1>5
<1> QED
  BY <1>1, <1>3, <1>4, <1>5 DEF Portfolio!PortfolioNext

\* Advice that is always followed never deploys more than the daily budget and
\* one cluster's allowance, whatever is drawn and whatever is closed between.
THEOREM Ceiling == MCSpec => []AdviceHasACeiling
<1>1. MCInit => UnderCeiling
  BY StartsUnder DEF MCInit, UnderCeiling
<1>2. UnderCeiling => AdviceHasACeiling
  BY DEF UnderCeiling, Under, AdviceHasACeiling, Portfolio!AdviceHasACeiling, Portfolio!Deployed,
         Portfolio!RiskOf, RiskIn
<1> QED
  BY <1>1, <1>2, UnderStep, PTL DEF MCSpec
=============================================================================
