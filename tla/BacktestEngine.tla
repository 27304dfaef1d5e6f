--------------------------- MODULE BacktestEngine ---------------------------
(* backend/backtesting/backtest_engine.py with historical_decision_brain.py:  *)
(* a run scans symbol after symbol and bar after bar, has every candidate     *)
(* decided by the rules of the live path, writes a ledger of it, records a    *)
(* trade of it unless it was rejected for more than the guardrail, and then   *)
(* counts.  Which bar breaks out and how its trade ends is drawn.             *)
EXTENDS ConfidenceRules

CONSTANTS
  Pairs,    \* a sequence: the symbols of the run
  Times,    \* a sequence: the session minute of each bar after the warm-up
  HORIZON,  \* forward_candles, the bars a trade is walked
  Ratios,   \* ranges a breakout bar can have, in percent of the average range
  Endings   \* what the trade simulator can find ahead of a candidate

VARIABLES
  pair, bar,       \* positions in Pairs and Times
  occupied_until,  \* the last bar of the open forward window, 0 for none
  setups,          \* setups_scanned
  trades,          \* a sequence: the recorded trades
  ledgers,         \* a sequence: candidate_ledgers
  summary          \* what the run reports, NoSummary before its end

backtest_vars == <<pair, bar, occupied_until, setups, trades, ledgers, summary>>

NoSummary == [total |-> -1]

\* A bar only breaks out when its range reaches the average.
Breakouts == [direction : Directions, ratio : Ratios, ending : Endings]

ClassifyNarrativePhase(direction, killzone, ratio) ==
  LET continuation == killzone.name \in {"london_continuation", "new_york_continuation"}
  IN CASE ratio < 110 \/ (continuation /\ ratio < 135) -> "range"
       [] continuation /\ ratio >= 135 /\ direction = "bearish" -> "distribution"
       [] continuation /\ ratio >= 135 /\ direction = "bullish" -> "expansion"
       [] ~continuation /\ ratio >= 150 -> "expansion"
       [] OTHER -> "reversal"

\* What the brain makes up of a plan: every analyzer agrees with its direction
\* and only the gap's grade is left open; SMT is not looked for.
HistoricalReading(b) ==
  LET rising == b.direction = "bullish"
      sweep == IF rising THEN "sell_side" ELSE "buy_side"
  IN [daily |-> b.direction, h4 |-> b.direction, sweep |-> sweep, ict_sweep |-> sweep,
      mss |-> TRUE, order_block |-> TRUE, returned |-> TRUE,
      fvg |-> [detected |-> TRUE, direction |-> b.direction, grade |-> IF b.ratio >= 150 THEN "A" ELSE "B"],
      zone |-> IF rising THEN "discount" ELSE "premium",
      above |-> IF rising THEN "internal" ELSE "none",
      below |-> IF rising THEN "none" ELSE "internal", smt |-> "none"]

NotLooked == [detected |-> FALSE, available |-> FALSE]

\* The decision of the brain: guardrail reasons are told from the others, and
\* the older hard guardrail is asked besides.
BrainDecision(symbol, killzone, b) ==
  LET r == HistoricalReading(b)
      total == TotalConfidence(symbol, killzone, r)
      phase == ClassifyNarrativePhase(b.direction, killzone, b.ratio)
  IN [confidence |-> total, phase |-> phase,
      blocked |-> HardRejected(symbol, killzone, r, "none", total),
      adaptive |-> Guardrail(symbol, total, killzone, NotLooked, phase, FALSE, FALSE).pass,
      hard |-> HardGuardrail(symbol, total, killzone, NotLooked, phase).pass]

BacktestInit ==
  /\ pair = 1 /\ bar = 1 /\ occupied_until = 0 /\ setups = 0
  /\ trades = <<>> /\ ledgers = <<>> /\ summary = NoSummary

Scanning == pair <= Len(Pairs) /\ bar <= Len(Times)
Symbol == Pairs[pair]
Session == Killzone(Symbol, Times[bar])
\* Mutated form: the window's last bar is scanned again.
OpenOneEarly == bar >= occupied_until /\ Session.valid

Open == bar > occupied_until /\ Session.valid

SkipBar ==
  /\ Scanning /\ ~Open
  /\ bar' = bar + 1
  /\ UNCHANGED <<pair, occupied_until, setups, trades, ledgers, summary>>

NoCandidate ==
  /\ Scanning /\ Open
  /\ bar' = bar + 1 /\ setups' = setups + 1
  /\ UNCHANGED <<pair, occupied_until, trades, ledgers, summary>>

\* record_candidate_ledger.
Ledger(d, ending) ==
  [symbol |-> Symbol, at |-> bar, phase |-> d.phase, confidence |-> d.confidence,
   admitted |-> ~d.blocked /\ d.adaptive, ending |-> ending]

\* Only a recorded trade closes the symbol to the bars of its window.
Candidate ==
  /\ Scanning /\ Open
  /\ \E b \in Breakouts :
       LET d == BrainDecision(Symbol, Session, b)
           trade == [symbol |-> Symbol, at |-> bar, ending |-> b.ending,
                     adaptive |-> d.adaptive, hard |-> d.hard]
       IN /\ ledgers' = Append(ledgers, Ledger(d, b.ending))
          /\ IF d.blocked THEN UNCHANGED <<trades, occupied_until>>
             ELSE trades' = Append(trades, trade) /\ occupied_until' = bar + HORIZON
  /\ bar' = bar + 1 /\ setups' = setups + 1
  /\ UNCHANGED <<pair, summary>>

NextSymbol ==
  /\ pair <= Len(Pairs) /\ bar > Len(Times)
  /\ pair' = pair + 1 /\ bar' = 1 /\ occupied_until' = 0
  /\ UNCHANGED <<setups, trades, ledgers, summary>>

\* Hundredths of a percent, rounded.
Rate(part, whole) == IF whole = 0 THEN 0 ELSE (20000 * part + whole) \div (2 * whole)

\* summarize_candidate_ledgers: QAER and FRR over the high-quality candidates.
SummarizeLedgers(ls) ==
  LET Size(S) == Cardinality(S)
      high == {i \in DOMAIN ls : ls[i].confidence >= 70}
      admitted == {i \in DOMAIN ls : ls[i].admitted}
      won == {i \in DOMAIN ls : ls[i].ending = "WIN"}
  IN [total |-> Len(ls),
      admitted |-> Size(admitted),
      admitted_won |-> Size(admitted \cap won),
      qaer |-> Rate(Size(high \cap admitted \cap won), Size(high)),
      frr |-> Rate(Size((high \cap won) \ admitted), Size(high))]

\* The counted ones of some trades.
Metrics(ts, counted) ==
  LET Ending(e) == Cardinality({i \in counted : ts[i].ending = e})
  IN [trades |-> Cardinality(counted), wins |-> Ending("WIN"),
      win_rate |-> Rate(Ending("WIN"), Ending("WIN") + Ending("LOSS"))]

\* aggregate_results: the same trades unfiltered and under either guardrail.
Summarize ==
  /\ pair > Len(Pairs) /\ summary = NoSummary
  /\ LET all == DOMAIN trades
     IN summary' = [ledger |-> SummarizeLedgers(ledgers), off |-> Metrics(trades, all),
                    adaptive |-> Metrics(trades, {i \in all : trades[i].adaptive}),
                    hard |-> Metrics(trades, {i \in all : trades[i].hard})]
  /\ UNCHANGED <<pair, bar, occupied_until, setups, trades, ledgers>>

BacktestNext == SkipBar \/ NoCandidate \/ Candidate \/ NextSymbol \/ Summarize

BacktestTypeOK ==
  /\ pair \in 1..Len(Pairs) + 1 /\ bar \in 1..Len(Times) + 1
  /\ occupied_until \in 0..Len(Times) + HORIZON
  /\ Len(trades) <= Len(ledgers) /\ Len(ledgers) <= setups
  /\ setups <= Len(Pairs) * Len(Times)

InWindowOf(t, l) == t.symbol = l.symbol /\ t.at < l.at /\ l.at <= t.at + HORIZON

LivePass(l) ==
  Guardrail(l.symbol, l.confidence, Killzone(l.symbol, Times[l.at]),
            [detected |-> FALSE, available |-> TRUE], l.phase, FALSE, FALSE).pass

\* The run's two books of the same candidates agree: the ledger's admitted and
\* won candidates are the adaptively guarded trades and their wins, and its two
\* rates share one denominator.  The older guardrail admits nothing that the
\* adaptive one refuses.  No candidate is booked inside the window of a trade
\* recorded before it, so an account with one position per symbol could have
\* taken them all.  And on the same scores the replay is laxer than the live
\* path in one case only, a range-phase candidate, which live loses five more
\* points for want of a divergence the replay does not look for.
ReplayBooksAgree ==
  /\ summary # NoSummary =>
       /\ summary.ledger.admitted = summary.adaptive.trades
       /\ summary.ledger.admitted_won = summary.adaptive.wins
       /\ summary.ledger.qaer + summary.ledger.frr <= 10000
       /\ summary.hard.trades <= summary.adaptive.trades
  /\ \A i \in DOMAIN trades, j \in DOMAIN ledgers : ~InWindowOf(trades[i], ledgers[j])
  /\ \A j \in DOMAIN ledgers : LivePass(ledgers[j]) # ledgers[j].admitted =>
                                 ledgers[j].admitted /\ ledgers[j].phase = "range"
=============================================================================
