---------------------------- MODULE CombinedBook ----------------------------
(* scripts/run_combined_book_forward_test.py: the two engines' recorded       *)
(* trades are replayed on one account, day after day in five steps: disaster  *)
(* stops, the breakout engine's trades, the mean-reversion exits due, its     *)
(* entries, and the mark.  Prices and results are whole points, a point of a  *)
(* lot is worth one unit; what the executor's lot_size answers is drawn.  Days   *)
(* are those of the calendar; a tape with a day off it is not replayed.       *)
EXTENDS Integers, FiniteSetsExt

CONSTANTS
  Tapes,      \* sequences of trades: [symbol, entry, exit, price, stop, points]
  Breakouts,  \* sets of days: when the breakout tape has a trade, {} without a tape
  LONGEST,    \* a replay's three years, in days of the calendar
  Bars,       \* the daily bars drawn: [open, low, close], or NoBar
  Lots,       \* what lot_size answers, 0 for a budget below the smallest lot
  Champions,  \* results of a breakout trade in points
  START,      \* STARTING_EQUITY
  CEILING,    \* max_lots, beyond which the executor refuses
  SLOTS,      \* max_open_per_symbol
  COST,       \* round-trip cost and financing of a stopped trade
  DAILY, INTERNAL, FIRM   \* tripwires, percent

VARIABLES
  taped,      \* meanrev_raw, 1 to Len its trades
  champion_days,
  span,       \* [from, to]: start_day and end_day
  date, step,
  today_bars, \* the day's bars by symbol
  equity,     \* realized
  peak, marked,
  positions,  \* open_mr: [trade, lots], by trade
  last_close,
  consumed,   \* trades whose scheduled exit must not count
  stats,      \* [champion, meanrev, filled, stopped, exited]
  hits,       \* tripwire_hits, as <<day, tripwire>>
  outcome     \* "running", "blown", "left_open" or "report"

book_vars == <<taped, champion_days, span, date, step, today_bars, equity, peak, marked, positions, last_close, consumed,
               stats, hits, outcome>>

NoBar == [open |-> 0, low |-> 0, close |-> 0]
TapeSymbols == {taped[i].symbol : i \in DOMAIN taped}
Opened == DOMAIN positions

\* floating_pnl; a symbol not yet marked floats at nothing.
Floating(held, closes) ==
  MapThenSumSet(LAMBDA i : IF closes[taped[i].symbol] = 0 THEN 0
                           ELSE held[i] * (closes[taped[i].symbol] - taped[i].price), DOMAIN held)

\* Without a breakout tape the entries stand for its days: the replay then
\* ends on the last of them.
Span(raw, breakout) ==
  LET entries == {raw[i].entry : i \in DOMAIN raw}
      days == IF breakout = {} THEN entries ELSE breakout
      to == Min({Max(days), Max({raw[i].exit : i \in DOMAIN raw})})
  IN [from |-> Max({Min(days), Min(entries), to - LONGEST}), to |-> to]

\* Mutated form: only the entry is asked for.
ReplayedFromEntry(i) == span.from <= taped[i].entry /\ taped[i].entry <= span.to

\* A trade is replayed whole or not at all.
Replayed(i) == span.from <= taped[i].entry /\ taped[i].exit <= span.to

BookInit ==
  /\ taped \in Tapes /\ champion_days \in Breakouts
  /\ span = Span(taped, champion_days)
  /\ date = span.from /\ step = "stops"
  /\ outcome = IF span.from > span.to THEN "report" ELSE "running"
  /\ today_bars \in [TapeSymbols -> Bars]
  /\ equity = START /\ peak = START /\ marked = START
  /\ positions = <<>> /\ last_close = [s \in TapeSymbols |-> 0]
  /\ consumed = {} /\ hits = {}
  /\ stats = [champion |-> 0, meanrev |-> 0, filled |-> 0, stopped |-> 0, exited |-> 0]

Running(at) == outcome = "running" /\ step = at
Calendar == UNCHANGED <<taped, champion_days, span, date, today_bars, last_close, peak, marked, hits, outcome>>

\* A gap through the stop fills at the open.
Fill(i) ==
  LET bar == today_bars[taped[i].symbol]
      at == taped[i].price - taped[i].stop
  IN IF bar.open <= at THEN bar.open ELSE at
Stopped ==
  {i \in Opened : LET bar == today_bars[taped[i].symbol]
                  IN bar # NoBar /\ bar.low <= taped[i].price - taped[i].stop}

\* Mutated form: the position stays in the list.
WithoutNone(gone) == positions
Without(gone) == [i \in Opened \ gone |-> positions[i]]

StopPositions ==
  LET pnl == MapThenSumSet(LAMBDA i : positions[i] * (Fill(i) - taped[i].price - COST), Stopped)
  IN /\ Running("stops")
     /\ equity' = equity + pnl
     /\ stats' = [stats EXCEPT !.meanrev = @ + pnl, !.stopped = @ + Cardinality(Stopped)]
     /\ consumed' = consumed \cup Stopped
     /\ positions' = Without(Stopped)
     /\ step' = "champion" /\ Calendar

\* A breakout trade is over within its day; too small a stop, too small a lot
\* and too large a one are refused.
TradeChampion ==
  /\ Running("champion")
  /\ \/ date \notin champion_days /\ UNCHANGED <<equity, stats>>
     \/ /\ date \in champion_days
        /\ \E lots \in Lots, points \in Champions :
             LET pnl == IF lots > CEILING THEN 0 ELSE lots * points
             IN equity' = equity + pnl /\ stats' = [stats EXCEPT !.champion = @ + pnl]
  /\ step' = "exits" /\ Calendar
  /\ UNCHANGED <<positions, consumed>>

Due == {i \in Opened : taped[i].exit = date /\ i \notin consumed}

ExitScheduled ==
  LET pnl == MapThenSumSet(LAMBDA i : positions[i] * taped[i].points, Due)
  IN /\ Running("exits")
     /\ equity' = equity + pnl
     /\ stats' = [stats EXCEPT !.meanrev = @ + pnl, !.exited = @ + Cardinality(Due)]
     /\ consumed' = consumed \cup Due
     /\ positions' = Without(Due)
     /\ step' = "entries" /\ Calendar

\* An engine enters a symbol once a day at most.  A refused entry has no exit.
Entering == {i \in DOMAIN taped : taped[i].entry = date /\ Replayed(i)}
Free(i) == Cardinality({k \in Opened : taped[k].symbol = taped[i].symbol}) < SLOTS

EnterPositions ==
  /\ Running("entries")
  /\ \E sized \in [{i \in Entering : Free(i)} -> Lots] :
       LET taken == {i \in DOMAIN sized : sized[i] \in 1..CEILING}
       IN /\ positions' = [i \in Opened \cup taken |-> IF i \in taken THEN sized[i] ELSE positions[i]]
          /\ consumed' = consumed \cup (DOMAIN sized \ taken)
          /\ stats' = [stats EXCEPT !.filled = @ + Cardinality(taken)]
  /\ step' = "mark" /\ Calendar
  /\ UNCHANGED equity

Closes(s) == IF today_bars[s] = NoBar THEN last_close[s] ELSE today_bars[s].close

Hits(value, whole) ==
  {<<date, wire[1]>> : wire \in {w \in {<<"internal_dd", INTERNAL>>, <<"firm_dd", FIRM>>} :
                                   100 * value >= w[2] * whole}}

\* What the last day leaves open fails the study.
MarkToMarket ==
  /\ Running("mark")
  /\ last_close' = [s \in TapeSymbols |-> Closes(s)]
  /\ marked' = equity + Floating(positions, last_close')
  /\ peak' = IF marked' > peak THEN marked' ELSE peak
  /\ hits' = hits \cup Hits(peak' - marked', peak')
                  \cup (IF 100 * (marked - marked') >= DAILY * marked THEN {<<date, "daily_loss">>} ELSE {})
  /\ IF marked' <= 0 THEN outcome' = "blown" /\ UNCHANGED <<date, step, today_bars>>
     ELSE IF date < span.to
     THEN /\ date' = date + 1 /\ step' = "stops"
          /\ today_bars' \in [TapeSymbols -> Bars] /\ UNCHANGED outcome
     ELSE /\ outcome' = IF positions = <<>> THEN "report" ELSE "left_open"
          /\ UNCHANGED <<date, step, today_bars>>
  /\ UNCHANGED <<taped, champion_days, span, equity, positions, consumed, stats>>

BookNext == StopPositions \/ TradeChampion \/ ExitScheduled \/ EnterPositions \/ MarkToMarket

BookTypeOK ==
  /\ date \in Nat /\ (outcome = "running" => date \in span.from..span.to)
  /\ step \in {"stops", "champion", "exits", "entries", "mark"}
  /\ Opened \subseteq DOMAIN taped /\ consumed \subseteq DOMAIN taped
  /\ outcome \in {"running", "blown", "left_open", "report"}

\* The replayed account adds up: what is realized is the start and the results
\* of the two engines; every filled trade is open, stopped or exited, exactly
\* one of them, so no result counts twice; a symbol never holds more than its
\* slots; no position outlives its exit; and no account is blown without both
\* drawdown wires having gone off that day.
ReplayedAccountAddsUp ==
  /\ equity = START + stats.champion + stats.meanrev
  /\ stats.filled = Cardinality(Opened) + stats.stopped + stats.exited
  /\ Opened \cap consumed = {}
  /\ \A i \in Opened : /\ Cardinality({k \in Opened : taped[k].symbol = taped[i].symbol}) <= SLOTS
                       /\ date <= taped[i].exit
  /\ outcome # "left_open"
  /\ outcome = "blown" => {<<date, "internal_dd">>, <<date, "firm_dd">>} \subseteq hits
=============================================================================
