----------------------------- MODULE SizingWalk -----------------------------
(* backend/sizing/expectancy_sizer.py and the proof it has to pass,           *)
(* scripts/run_sizing_walkforward.py: every quarter's trades are sized by     *)
(* what their cells earned in the quarters before it, and the sized book is   *)
(* compared with the flat one.  The same tape read as the mean-reversion      *)
(* backtest's, a cell standing for a symbol, goes through the gate of         *)
(* scripts/run_mean_reversion_backtest.py.  Results are in hundredths of R,   *)
(* multipliers in halves, sized results therefore in two-hundredths.          *)
EXTENDS Integers, SequencesExt, FiniteSetsExt

CONSTANTS
  Cells,            \* symbol, narrative phase and killzone together
  Earned,          \* what a trade can earn
  MIN_SAMPLE,       \* MIN_CELL_SAMPLE
  MIN_QUARTERS,     \* MIN_TRAINING_QUARTERS
  UNPROVEN,         \* --unproven-multiplier
  ROLLOVER,         \* what three more round-trip costs take of a trade in a cell
  MAX_TRADES        \* bound: the trades of one study

VARIABLES
  tape,     \* the trades in the order of time: [quarter, cell, rr]
  report    \* NoReport before the study is made

walk_vars == <<tape, report>>

NoReport == [study |-> "none", promote |-> FALSE]

WalkInit == tape = <<>> /\ report = NoReport

\* collect_production_trades: quarters may lie between two trades.
CollectTrade ==
  /\ report = NoReport /\ Len(tape) < MAX_TRADES
  /\ \E cell \in Cells, rr \in Earned, later \in 0..1 :
       tape' = Append(tape, [cell |-> cell, rr |-> rr,
                             quarter |-> later + (IF tape = <<>> THEN 1 ELSE Last(tape).quarter)])
  /\ UNCHANGED report

\* build_table: a cell's trades among some of them, and what those earned together.
Row(trades, among, cell) ==
  LET own == {i \in among : trades[i].cell = cell}
  IN [trades |-> Cardinality(own), net |-> MapThenSumSet(LAMBDA i : trades[i].rr, own)]

\* multiplier_for: the bands of the average, 0.20 and 0.05 of an R.
MultiplierFor(trades, among, cell) ==
  LET row == Row(trades, among, cell)
  IN CASE row.trades < MIN_SAMPLE -> [label |-> "UNPROVEN", halves |-> UNPROVEN]
       [] row.trades >= MIN_SAMPLE /\ row.net >= 20 * row.trades -> [label |-> "STRONG", halves |-> 3]
       [] row.trades >= MIN_SAMPLE /\ row.net \in 5 * row.trades..20 * row.trades - 1 ->
            [label |-> "POSITIVE", halves |-> 2]
       [] row.trades >= MIN_SAMPLE /\ row.net \in 1..5 * row.trades - 1 ->
            [label |-> "MARGINAL", halves |-> 1]
       [] OTHER -> [label |-> "STARVED", halves |-> 0]

\* Only quarters with trades are counted.
Quarters(trades) == {trades[i].quarter : i \in DOMAIN trades}
Before(trades, quarter) == {q \in Quarters(trades) : q < quarter}

\* Mutated form: the quarter is in its own table.
TrainingWithIt(trades, quarter) == {i \in DOMAIN trades : trades[i].quarter <= quarter}

Training(trades, quarter) == {i \in DOMAIN trades : trades[i].quarter < quarter}

\* The evaluated trades with their multipliers.
Sized(trades) ==
  LET evaluated == {i \in DOMAIN trades : Cardinality(Before(trades, trades[i].quarter)) >= MIN_QUARTERS}
  IN [i \in evaluated |->
       LET t == trades[i]
       IN [rr |-> t.rr, by |-> MultiplierFor(trades, Training(trades, t.quarter), t.cell)]]

\* book_metrics, whose profit factor is the gain itself when nothing was lost;
\* two decimals, halves up.
Book(rrs) ==
  LET Sum(S) == MapThenSumSet(LAMBDA i : rrs[i], S)
      win == Sum({i \in DOMAIN rrs : rrs[i] > 0})
      loss == -Sum({i \in DOMAIN rrs : rrs[i] < 0})
  IN [net |-> (win - loss + 1) \div 2, loss |-> loss,
      pf |-> IF loss = 0 THEN (win + 1) \div 2 ELSE (200 * win + loss) \div (2 * loss)]

Flat(sized) == Book([i \in DOMAIN sized |-> 2 * sized[i].rr])
Scaled(sized) == Book([i \in DOMAIN sized |-> sized[i].rr * sized[i].by.halves])

\* Mutated form: the net alone decides.
VerdictOnNet(flat, scaled) == scaled.net > flat.net
SizingVerdict(flat, scaled) == scaled.net > flat.net /\ scaled.pf > flat.pf

\* walkforward_evaluation.
EvaluateWalk ==
  /\ report = NoReport /\ tape # <<>>
  /\ LET sized == Sized(tape)
     IN report' = [study |-> "sizing", promote |-> SizingVerdict(Flat(sized), Scaled(sized)), sized |-> sized]
  /\ UNCHANGED tape

QuarterNet(trades, quarter) ==
  MapThenSumSet(LAMBDA i : trades[i].rr, {i \in DOMAIN trades : trades[i].quarter = quarter})

\* summarize, up to its verdict: a profit, a profit factor above 1.10, and more
\* than half of the quarters positive.
Summarize(trades) ==
  LET positive == {q \in Quarters(trades) : QuarterNet(trades, q) > 0}
      book == Book([i \in DOMAIN trades |-> 2 * trades[i].rr])
  IN [loss |-> book.loss,
      promote |-> /\ book.net > 0 /\ book.pf > 110
                  /\ 2 * Cardinality(positive) > Cardinality(Quarters(trades))]

\* Mutated form: the cost is credited.
AtRolloverCredited(trades) == [i \in DOMAIN trades |-> [trades[i] EXCEPT !.rr = @ + ROLLOVER[trades[i].cell]]]

\* cost_multiplier = 4: the same entries and exits, each paying more.
AtRollover(trades) == [i \in DOMAIN trades |-> [trades[i] EXCEPT !.rr = @ - ROLLOVER[trades[i].cell]]]

\* The primary variant and its rollover stress must both be promoted; the RSI
\* variant and the full span are reported and have no say.
EvaluateStudy ==
  /\ report = NoReport
  /\ LET plain == Summarize(tape)
         stressed == Summarize(AtRollover(tape))
     IN report' = [study |-> "mean_reversion", promote |-> plain.promote /\ stressed.promote,
                   plain |-> plain, stressed |-> stressed]
  /\ UNCHANGED tape

WalkNext == CollectTrade \/ EvaluateWalk \/ EvaluateStudy

WalkTypeOK ==
  /\ tape \in Seq([cell : Cells, rr : Earned, quarter : 1..MAX_TRADES + 1])
  /\ report.promote \in BOOLEAN

\* The study is out of sample and rewards choosing, not daring: what the last
\* trade earned changes no multiplier; a layer is only promoted when it told
\* trades apart, unless one of the two books lost nothing (a book without
\* losses is promoted by being scaled up); and never on unproven cells alone.
WalkIsOutOfSample ==
  report.study = "sizing" =>
    /\ \A rr \in Earned :
         LET other == Sized([tape EXCEPT ![Len(tape)].rr = rr])
         IN \A i \in DOMAIN report.sized : other[i].by = report.sized[i].by
    /\ report.promote =>
         /\ \E i \in DOMAIN report.sized : report.sized[i].by.label # "UNPROVEN"
         /\ \/ \E i, j \in DOMAIN report.sized : report.sized[i].by.halves # report.sized[j].by.halves
            \/ Flat(report.sized).loss = 0 \/ Scaled(report.sized).loss = 0

\* Dearer fills only refuse: what the rollover stress promotes was promoted at
\* ordinary costs, so the stress alone decides, but for a study that lost
\* nothing: its profit factor is then its profit, which may be too small, and
\* the first loss the stress makes turns it into a ratio.
StressOnlyRefuses ==
  report.study = "mean_reversion" /\ report.stressed.promote =>
    report.promote \/ report.plain.loss = 0
=============================================================================
