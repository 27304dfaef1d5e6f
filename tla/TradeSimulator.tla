--------------------------- MODULE TradeSimulator ---------------------------
(* backend/backtesting/trade_simulator.py: a plan walked forward through the  *)
(* candles after it.  Everything is counted from the entry in hundredths of   *)
(* the stop distance R: the stop lies at -100, the targets at 100, 200, 300,  *)
(* a candle reaches [best, worst] in the trade's favour and against it.       *)
EXTENDS Integers, Sequences, FiniteSetsExt, SequencesExt

CONSTANTS
  Moves,    \* the candles drawn
  FORWARD,  \* how many of them are walked at most
  COST      \* spread and slippage of the round trip

VARIABLES
  window,   \* the candles after the entry
  plain,    \* what simulate made of them
  managed   \* and what simulate_managed did

simulator_vars == <<window, plain, managed>>

TargetsInR == {100, 200, 300}
Result(outcome, gross, exit) == [outcome |-> outcome, gross |-> gross, rr |-> gross - COST, exit |-> exit]
NoResult == [outcome |-> "BREAKEVEN", gross |-> 0, rr |-> 0, exit |-> 0]

Hit(candle) == candle.worst <= -100 \/ candle.best >= 100

\* Mutated form: a candle that touches both counts as won.
SimulateTargetsFirst(w) ==
  LET hits == {i \in DOMAIN w : Hit(w[i])}
      exit == Min(hits)
  IN IF w = <<>> THEN NoResult
     ELSE IF hits = {} THEN Result("BREAKEVEN", 0, 0)
     ELSE IF w[exit].best < 100 THEN Result("LOSS", -100, exit)
     ELSE Result("WIN", Max({t \in TargetsInR : t <= w[exit].best}), exit)

\* A candle that touches both counts as stopped; otherwise the furthest target
\* it reached is the exit.
Simulate(w) ==
  LET hits == {i \in DOMAIN w : Hit(w[i])}
      exit == Min(hits)
  IN IF w = <<>> THEN NoResult
     ELSE IF hits = {} THEN Result("BREAKEVEN", 0, 0)
     ELSE IF w[exit].worst <= -100 THEN Result("LOSS", -100, exit)
     ELSE Result("WIN", Max({t \in TargetsInR : t <= w[exit].best}), exit)

BREAKEVEN_AT == 100
PARTIAL_AT == 200
PARTIAL_PERCENT == 30
FINAL_TARGET == 300

Share(percent, r) == (percent * r) \div 100

\* One candle of the managed walk: the stop in force is asked first, then the
\* partial, the move to breakeven and the final target, all on the same candle.
ManagedCandle(acc, candle) ==
  IF acc.outcome # "open" THEN acc
  ELSE IF candle.worst <= acc.stop
  THEN LET booked == acc.booked + Share(acc.remaining, acc.stop)
       IN [acc EXCEPT !.at = @ + 1, !.booked = booked,
             !.outcome = IF acc.stop < 0 THEN "LOSS"
                         ELSE IF booked - COST > 0 THEN "WIN" ELSE "BREAKEVEN"]
  ELSE LET partial == acc.remaining > 100 - PARTIAL_PERCENT /\ candle.best >= PARTIAL_AT
           booked == IF partial THEN acc.booked + Share(PARTIAL_PERCENT, PARTIAL_AT) ELSE acc.booked
           remaining == IF partial THEN acc.remaining - PARTIAL_PERCENT ELSE acc.remaining
           final == candle.best >= FINAL_TARGET
       IN [at |-> acc.at + 1,
           stop |-> IF acc.stop < 0 /\ candle.best >= BREAKEVEN_AT THEN 0 ELSE acc.stop,
           remaining |-> remaining,
           booked |-> IF final THEN booked + Share(remaining, FINAL_TARGET) ELSE booked,
           outcome |-> IF final THEN "WIN" ELSE "open"]

\* What is still open at the end is taken as closed near the entry.
SimulateManaged(w) ==
  LET open == [at |-> 0, stop |-> -100, booked |-> 0, remaining |-> 100, outcome |-> "open"]
      end == FoldLeft(ManagedCandle, open, w)
      net == end.booked - COST
  IN IF end.outcome = "open"
     THEN Result(IF net > 0 THEN "WIN" ELSE IF net < -5 THEN "LOSS" ELSE "BREAKEVEN", end.booked, 0)
     ELSE Result(end.outcome, end.booked, end.at)

SimulatorInit == window = <<>> /\ plain = NoResult /\ managed = NoResult

WalkForward ==
  /\ Len(window) < FORWARD
  /\ \E c \in Moves : window' = Append(window, c)
  /\ plain' = Simulate(window')
  /\ managed' = SimulateManaged(window')

Outcomes == {"WIN", "LOSS", "BREAKEVEN"}
SimulatorTypeOK ==
  /\ window \in Seq(Moves) /\ Len(window) <= FORWARD
  /\ \A r \in {plain, managed} : r.outcome \in Outcomes /\ r.gross \in -100..300 /\ r.exit \in 0..FORWARD

\* The two ways of walking the same candles cannot contradict each other or the candles: what
\* the plain walk loses at the stop the managed one loses at the same candle
\* and nothing else; what the plain one wins the managed one does not lose
\* before costs; neither books more than price had offered until the exit, and
\* before the exit no candle touched the stop the trade then had.
SimulationsAgree ==
  LET end(r) == IF r.exit = 0 THEN Len(window) ELSE r.exit
      offered(r) == Max({window[i].best : i \in 1..end(r)} \cup {0})
      reached(i) == \E j \in 1..i - 1 : window[j].best >= BREAKEVEN_AT
  IN /\ plain.outcome = "LOSS" <=> managed.gross = -100
     /\ plain.outcome = "LOSS" => managed.exit = plain.exit
     /\ plain.outcome = "WIN" => managed.gross >= 0
     /\ \A r \in {plain, managed} : r.gross <= offered(r)
     /\ \A i \in 1..end(managed) - 1 : window[i].worst > (IF reached(i) THEN 0 ELSE -100)
=============================================================================
