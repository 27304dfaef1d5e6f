------------------------------ MODULE DailyBook ------------------------------
(***************************************************************************)
(* The rule the mean-reversion book was audited with: evaluate_symbol of    *)
(* scripts/run_mean_reversion_backtest.py, one evaluation per symbol and    *)
(* daily bar.  It is the abstract specification of the live engine: what    *)
(* LiveBook makes durable must be a run of this rule.                       *)
(*                                                                          *)
(* The backtest sees every bar and never stops.  The live book may miss     *)
(* one, and it may meet an incident (an abrupt end, a state file that       *)
(* cannot be read); the rule says how little such an incident may do.       *)
(***************************************************************************)
EXTENDS Integers

CONSTANTS
  SYMBOLS,
  MAX_HOLD_DAYS    \* time stop, in evaluations

VARIABLES
  held,       \* evaluations of the open trade of each symbol, NotHeld if none
  age,        \* midnights since the symbol was last evaluated, capped at Old
  incidents   \* incidents so far

daily == <<held, age, incidents>>

NotHeld == -1
Old     == 2

Nothing == [s \in SYMBOLS |-> NotHeld]
Never   == [s \in SYMBOLS |-> Old]

Init == held = Nothing /\ age = Never /\ incidents = 0

\* One evaluation of a symbol: entered or not when flat; when held, closed by
\* the exit signal or the time stop, else one bar longer.
Evaluated(h) ==
  IF h = NotHeld
  THEN {NotHeld, 0}
  ELSE {NotHeld} \cup {d \in {h + 1} : d < MAX_HOLD_DAYS}

\* From h to h2 a symbol was left alone or its bar was skipped, or it was
\* evaluated, on a bar later than the one before.
OneBar(h, a, h2, a2) ==
  \/ h2 = h /\ a2 <= a
  \/ h2 \in Evaluated(h) /\ a2 < a

\* An incident inside an exit: the bar is counted, the trade is still there.
CutExit(h, a, h2, a2) == h # NotHeld /\ h2 = h + 1 /\ a2 < a

\* One bar for any of the symbols, but for cut, whose exit was interrupted.
BarsFrom(h, a, cut) ==
  \A s \in SYMBOLS :
    IF s \in cut
    THEN CutExit(h[s], a[s], held'[s], age'[s])
    ELSE OneBar(h[s], a[s], held'[s], age'[s])

\* The book the bars are counted from: this one or, after an incident, nothing.
Bars(cut) ==
  \/ BarsFrom(held, age, cut)
  \/ incidents > 0 /\ BarsFrom(Nothing, Never, cut)

Bar == Bars({}) /\ UNCHANGED incidents

Incident ==
  /\ incidents' = incidents + 1
  /\ Bars({}) \/ \E s \in SYMBOLS : Bars({s})

NextDate ==
  /\ age' = [s \in SYMBOLS |-> IF age[s] < Old THEN age[s] + 1 ELSE Old]
  /\ UNCHANGED <<held, incidents>>

Next == Bar \/ Incident \/ NextDate

Spec == Init /\ [][Next]_daily
=============================================================================
