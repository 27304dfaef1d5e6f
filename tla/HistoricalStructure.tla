------------------------- MODULE HistoricalStructure -------------------------
(* backend/backtesting/historical_structure.py: the sweep, market structure   *)
(* shift and fair value gap sequence found in closed candles, confirmed by    *)
(* the last of them.                                                          *)
EXTENDS Integers, Sequences, FiniteSetsExt

CONSTANTS
  Shapes,    \* a sequence: the candles that can stand at each place
  STRENGTH,  \* SWING_STRENGTH, bars each side of a swing
  RECENCY,   \* SWEEP_RECENCY_BARS
  TOP        \* prices are 0..TOP

VARIABLES
  candles,   \* the history so far, a sequence of [high, low, close]
  found      \* what detect_ict_candidate makes of it

structure_vars == <<candles, found>>

NoCandidate == [direction |-> "none", entry |-> 0, stop |-> 0, swept |-> 0, broken |-> 0, grade |-> "none"]

Neighbours(i) == (i - STRENGTH..i + STRENGTH) \ {i}
Inner(h) == STRENGTH + 1..Len(h) - STRENGTH
SwingHighs(h) == {i \in Inner(h) : \A j \in Neighbours(i) : h[j].high < h[i].high}
SwingLows(h) == {i \in Inner(h) : \A j \in Neighbours(i) : h[j].low > h[i].low}

Ranges(h) == [i \in DOMAIN h |-> h[i].high - h[i].low]
Total(f) == MapThenSumSet(LAMBDA i : f[i], DOMAIN f)

\* The last bar's range reaches the average.
Displaced(h) ==
  LET total == Total(Ranges(h))
  IN total > 0 /\ Ranges(h)[Len(h)] * Len(h) >= total

SweepBars(h, swing) == Max({swing + 1, Len(h) - RECENCY})..Len(h) - 1

\* A wick through the swing's level that closes back.
SweptLow(h, swing, bar) == h[bar].low < h[swing].low /\ h[bar].close > h[swing].low
\* Mutated form: a close at the level counts as back below it.
SweptHighLoose(h, swing, bar) == h[bar].high > h[swing].high /\ h[bar].close <= h[swing].high

SweptHigh(h, swing, bar) == h[bar].high > h[swing].high /\ h[bar].close < h[swing].high

\* What _direction_candidate tries: a swing with a bar that swept it.
Sweeps(h, swings, bull) ==
  {p \in swings \X DOMAIN h :
     /\ p[1] < Len(h) - 1 /\ p[2] \in SweepBars(h, p[1])
     /\ IF bull THEN SweptLow(h, p[1], p[2]) ELSE SweptHigh(h, p[1], p[2])}

\* The newest swing that was swept, and its first sweep; a bar that is a swing
\* both ways does not break itself.
Anchors(sweeps, broken) ==
  LET usable == {p \in sweeps : p[1] # broken}
      swing == Max({p[1] : p \in usable})
  IN IF usable = {} THEN <<>>
     ELSE <<swing, Min({p[2] : p \in {q \in usable : q[1] = swing}}), broken>>

\* The close has to shift past the most recent opposing swing.
BullishAnchors(h) ==
  LET broken == Max(SwingHighs(h))
  IN IF SwingHighs(h) = {} \/ h[Len(h)].close <= h[broken].high THEN <<>>
     ELSE Anchors(Sweeps(h, SwingLows(h), TRUE), broken)

BearishAnchors(h) ==
  LET broken == Max(SwingLows(h))
  IN IF SwingLows(h) = {} \/ h[Len(h)].close >= h[broken].low THEN <<>>
     ELSE Anchors(Sweeps(h, SwingHighs(h), FALSE), broken)

\* An A grade gap is at least 0.15 of the stop distance.
Grade(gap, distance) == IF 100 * gap >= 15 * distance THEN "A" ELSE "B"

\* The last bar's close against the sweep's extreme; no gap, no candidate.
Built(direction, anchors, h) ==
  LET last == h[Len(h)]
      sweep == h[anchors[2]]
      bull == direction = "bullish"
      stop == IF bull THEN Min({sweep.low, last.low}) ELSE Max({sweep.high, last.high})
      gap == IF bull THEN last.low - h[Len(h) - 2].high ELSE h[Len(h) - 2].low - last.high
      distance == IF bull THEN last.close - stop ELSE stop - last.close
  IN IF distance <= 0 \/ gap <= 0 THEN NoCandidate
     ELSE [direction |-> direction, entry |-> last.close, stop |-> stop,
           swept |-> IF bull THEN h[anchors[1]].low ELSE h[anchors[1]].high,
           broken |-> IF bull THEN h[anchors[3]].high ELSE h[anchors[3]].low,
           grade |-> Grade(gap, distance)]

\* detect_ict_candidate: bullish is looked for first, and once its anchors are
\* found bearish is not looked for, even when they give no candidate.
Detect(h) ==
  IF Len(h) < 2 * STRENGTH + 5 \/ ~Displaced(h) THEN NoCandidate
  ELSE IF BullishAnchors(h) # <<>> THEN Built("bullish", BullishAnchors(h), h)
  ELSE IF BearishAnchors(h) # <<>> THEN Built("bearish", BearishAnchors(h), h)
  ELSE NoCandidate

StructureInit == candles = <<>> /\ found = NoCandidate

\* The next bar closes.
CloseCandle ==
  /\ Len(candles) < Len(Shapes)
  /\ \E c \in Shapes[Len(candles) + 1] : candles' = Append(candles, c)
  /\ found' = Detect(candles')

StructureTypeOK ==
  /\ Len(candles) <= Len(Shapes)
  /\ found \in [direction : {"none", "bullish", "bearish"}, entry : 0..TOP, stop : 0..TOP,
                swept : 0..TOP, broken : 0..TOP, grade : {"none", "A", "B"}]

Mirrored(h) ==
  [i \in DOMAIN h |-> [high |-> TOP - h[i].low, low |-> TOP - h[i].high, close |-> TOP - h[i].close]]

MirroredCandidate(c) ==
  IF c = NoCandidate THEN c
  ELSE [direction |-> IF c.direction = "bullish" THEN "bearish" ELSE "bullish",
        entry |-> TOP - c.entry, stop |-> TOP - c.stop, swept |-> TOP - c.swept,
        broken |-> TOP - c.broken, grade |-> c.grade]

\* "Bearish is the exact mirror" (the module's own words): turn the chart upside down
\* and the same bars give the same setup the other way, level for level,
\* except where both directions have their sweep and their break.  Whatever is
\* found has the level it swept and the break it closed beyond on the right
\* sides of its stop and its entry.
BearishMirrorsBullish ==
  /\ \/ BullishAnchors(candles) # <<>> /\ BearishAnchors(candles) # <<>>
     \/ Detect(Mirrored(candles)) = MirroredCandidate(found)
  /\ found.direction = "bullish" => found.stop < found.swept /\ found.broken < found.entry
  /\ found.direction = "bearish" => found.stop > found.swept /\ found.broken > found.entry
=============================================================================
