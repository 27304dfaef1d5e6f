# Sentinel T2 - a verification project

TLA+ models of the live trading system in this repository, the TLC runs that
check them on small instances, and TLAPS proofs of the main invariants for every
instance. Paths below are relative to the repository; `ML` is
`scripts/run_mean_reversion_live.py`, `EX` is
`backend/live_paper/demo_order_executor.py`, `SV` is
`scripts/run_sentinel_supervisor.py`.

## 1. Inventory

The repository is a large body of analysis and research code around a small
live system. What moves money (on a demo account) and what can go wrong over
time is in the live system:

```
 operator scripts --> supervisor --> engine (mean reversion) --> broker account
   lock file           status file      |        |    ^
                       process handle   |        |    +-- MT5 connector: quotes, clock
                                        |        +-- executor --> risk governor --> risk state file
                                        +-- meanrev_state.json (the book)
```

| component | state it keeps | operations | hard part | what makes it correct |
| --- | --- | --- | --- | --- |
| Live engine (`ML`) | book, day marks, clock record, in memory and in `meanrev_state.json` | one cycle every 5 minutes, one evaluation per symbol and day | saved once per cycle; the account is never read back | book and account agree; time stop; cap; kill switch drains |
| Executor (`EX`) | failure counter | open, close, gates | the broker's answer may differ from what it did | nothing opens past a gate |
| Risk state store, governor (`backend/risk_manager`) | daily counters, peak equity, loss streak in a file | observe, count, close, evaluate | file read and written several times per decision; midnight; failing writes | peak is never lost; limits and the daily tripwire hold |
| MT5 connector, offset record (`backend/market_data/mt5_connector.py`, `ML` 95-160) | last measured offset; confirmed offset, pending change | measure, confirm, guard quotes | a frozen quote looks like a clock change | no false change, real changes land, stale quotes refused |
| Supervisor (`SV`, `*.bat`, `scripts/stop_sentinel.ps1`) | lock, child handle, start time | check, start, kill, restart | inference from file ages; several writers; restarts of either process | one engine; a dead, hung or deaf engine is replaced; a healthy one is not killed |
| Assisted execution bridge, execution engine, readiness checker (`backend/execution_engine`) | tickets, journal | prepare, approve, decline, check, send | both checks read a context taken before a human's prompt; an order's answer may be lost | no second order without a cause, nothing sent on what was not said, journal accounts for the orders |
| Position manager | none between two passes | recommend, confirm, move the stop, close a part, cancel | requests built from one reading, sent after a human answered | the stop is never loosened, a partial leaves a position |
| Paper trade session | one drill | scripted path, gates, outcome | the drill must tell what the engine would have done | the outcome is the one the steps lead to |
| Alerts, monitor, journal | last state per symbol, last alert per transition, in memory | scan, alert, journal | partial failures, cooldown, restarts | silence has a cause the operator can name |
| Daily digest (`SV` 255-290) | the mark of the day | send, mark | crash or outage inside the hour | once a day |
| Market analyzers (trend, SMT, liquidity, ICT, narrative, killzone, news) | none; a candle table or a calendar each | read levels, sweeps, shifts, gaps, swings, divergences, locks | several readings of one moving market | a reading does not change its past, falls are read like rises |
| Confidence engine, guardrails, shared decision path, reason ledger | configuration | score, reject, decide, record why | points add up across modules; a second evaluation writes the record | no single finding carries a setup; the record agrees with the decision |
| Trade planner, lot sizing | none | entry, stop, targets, lot | direction and zones from two readings; float truncation | a coherent plan within its budget |
| Portfolio intelligence | open positions | score a candidate | three limits that only cost points | what all advice together may deploy |
| Emergency protocol | queue, halts, day counter | queue, resolve, halt | limits asked at one moment, used at another | an overrun has a cause |
| Backtester, simulator, historical structure | trades, ledgers | scan, decide, simulate, count | two books of the same candidates; two simulations of one trade | the books agree |
| Market watch | none | pattern, score, grade, route, select, plan | two judges, defaults for what is missing | an advice has grounds |
| Signal store (`backend/live_data`) | a file of lines, a counter in memory | append, trim, summarise | half-written lines, restarts, trimming by count | the newest records stay, in order |
| Early failure detection, guardrail optimization, shadow learning, candidate validation, A+ override, promotion | finished trades and blocked setups | replay, label, relax, rank, admit | two accounts of the same trades; hindsight becomes a rule | one account; what is promoted is what was reviewed |
| Sizing walk-forward, combined book (`scripts/`) | a tape, an account | size, mark, stop, exit, enter, trip | looking ahead; a trade counted twice | out of sample; the account adds up |
| Live paper runtime, trade lifecycle, cost engine, symbol registry, analytics, display, coach, other scripts | reports | reports, I/O | - | not modelled, see section 5 |

`PROJECT.json` lists every component with its status, and the hazards of the
modelled part of the code line by line.

## 2. The modules

### LiveBook (`ML` main loop, `EX` open/close)

State: `held_days` is `state["open_positions"]` reduced to the day counter
(`NotHeld` when there is no position), `last_processed` the day mark as an age
in midnights, `disk` the saved file, `account` the broker's positions with our
magic, `pc`/`todo`/`sym`/`late` the point of the cycle, `slot` the window the
server clock is in.

| action | code |
| --- | --- |
| `Start`, `StartUnreadable` | `load_state`, `ML` 184-190, 369 |
| `BeginCycle`, `FetchFails`, `FeedStale` | `ML` 400-423 |
| `Hold`, `Close` | `ML` 424-461 with `close_symbol_positions` |
| `NoEntry`, `Enter` | `ML` 462-493 with the gates of `open_position` |
| `Filled`, `Rejected`, `FilledUnreported` | `EX` 242-254, `ML` 498-511 |
| `Save` | `ML` 532 |
| `Die`, `Interrupt`, `InterruptClose` | any end without a save; `ML` 539-542 between two changes of the state, and inside an exit |
| `NextSlot`, `Midnight`, `ToggleKillSwitch`, `ClosedOutside` | clock, operator, terminal |

`Close` may leave any number of the symbol's positions open and forgets the
position all the same, as `ML` 457 does. An interrupt or a death inside
`order_send` needs no action of its own: it is `FilledUnreported` (or
`Rejected`) followed by `Interrupt` or `Die`. Two ghost variables serve the
properties: `loose`, the symbols a named incident has touched, and `nights`,
the midnights since a position was opened.

### RiskState (`backend/risk_manager`, `EX` open_allowed and _count_open)

An order attempt is three steps, `Ask` (observe the account, `evaluate` 101),
`Decide` (second load at 102 and `evaluate_blocks`) and a fill counted or not.
`FilledUnreported` is the fill the executor takes for a rejection, as in `LiveBook`
(`EX` 242-247: `order_send` returns None or a code other than DONE although the order
was executed): it is neither counted nor a failed count. The ghost `unreported`
counts these fills of a day, since nothing in the code limits them. Production
mode is chosen in the initial state (`production`), so both are checked.
Between them `Midnight`, `EquityMoves`, `Tick`, `Restart` and `Misread` may
happen. Percentages are kept in hundredths; Python rounds halves to even and
the model rounds them up, which matters only for exact ties.
`record_trade_closed` is in the model because the store offers it and other
parts of the repository call it; the live engine does not.

### ServerClock (`ML` refresh_server_offset, MT5 connector, `EX` _tick_age_seconds)

Time in units of five minutes. `Reading` is what one measurement returns for a
quote of a given age, `Refreshed` the whole of `refresh_server_offset`, `Order`
an order that passes the stale-quote guard. `Save`/`Restart` persist and reload
the pending change, downtime included.

### Supervisor (`SV`, the scripts)

Two supervisors and two engines, a lock file, a status file (`heartbeat`, its
age; `last_ok`, the age of `last_success_utc` in it). `Decision` is
`decide_action` word for word; `Check` is a pass of the loop that acts.
`StartByScript` deletes the lock as `START_SENTINEL.bat` does, `Stop` and
`Restart` are the other scripts. One unit of time is at least one engine cycle,
so a running engine's heartbeat is fresh in every unit, and `STARTUP` bounds
the time to the first status by less than the grace period, as the comment at
`SV` 54-60 argues it is.

### DailyBook and the refinement

`DailyBook` is the rule the strategy was audited with: `evaluate_symbol` of
`scripts/run_mean_reversion_backtest.py`, one evaluation per symbol and bar. It
is the abstract specification of the live book. `MCLiveBook` maps what
`LiveBook` has made durable onto it (`ImplementsAuditedRule`): a live engine
that is killed, restarted and late still plays the audited rule bar by bar,
except where an incident named in `DailyBook` befalls it.

### The desk: AssistedBridge, ExecutionDesk, PositionRules, PositionManager, PaperSession

`backend/execution_engine`. A ticket is an immutable record, so an older copy
can be submitted again: `AssistedBridge` keeps the copies, the account and the
list of open orders each submission is called with. `ExecutionDesk` is one plan
from safety check through confirmation, readiness checklist and `order_send` to
the journal; the context is read once, before the prompt. `PositionRules` holds
the pure recommendations, `PositionManager` a pass of the manager over a moving
market and an operator who manages by hand (`todo` is the set of its actions
still open: the code's list has each kind once and takes the most urgent first,
so the set and the rank of the kinds say the same), `PaperSession` the drill, which
uses `PositionRules` as the code does.

### The store and the reviews

| module | code | what is drawn |
| --- | --- | --- |
| SignalStore | `live_data/live_data_collector.py` | what a scan shows, days, kills in mid-line, trims that fail, restarts |
| EarlyFailure | `early_failure_detection_engine.py` | finished trades and their signals |
| BlockReview | `shadow_learning`, `guardrail_optimization`, part of `candidate_validation` and `a_plus_override` | blocked setups and what became of them |
| PromotionReview | stress test and ranking, override, `production_promotion` | requests for an exit, an override, a bonus |

`PromotionReview` extends the other two, since promotion admits exits and
overrides by their figures. `MCDesk` runs the desk's four modules, the store
and the three reviews as parts that share no state (`part` chooses one in the
initial state), so one run checks all of them without multiplying their states.

### The advising side

| module | code | what is drawn |
| --- | --- | --- |
| LiveMonitor | `alerts/alert_engine.py`, `monitor/live_monitor.py`, journal, news lock | bands and confidences of each scan, every failure in between |
| SupervisorDigest | `SV` 255-290 and the loop around it | outages, raising rounds, crashes |
| NewsFilter | `news_filter/news_filter.py`, and the monitor's two uses of it | the calendar, the minute of each check |
| LiquidityLevels, IctReading | `liquidity_analyzer.py`, `ict_analyzer.py` | up to seven candles, one forming; when each engine fetches |
| SwingReading | `trend_analyzer.py`, `smt_analyzer.py`, and the replay's notes of both | charts of six candles, the other market or timeframe |
| MarketStory | `narrative_analyzer.py` | a map of levels, price, the two sweeps |
| MarketReading | bias, readiness and phase as the analyzers derive them from each other | what the tables say, within what one analysis can report |
| DecisionLedger | reasons, codes and tiers: `shared_decision_adapter.py`, `sda_tier_authority.py`, `reason_ledger.py` | the decision and its readings |
| ConfidenceRules, ConfidenceAnalyzer | `guardrails/strategy_guardrails.py`, confidence bands, weights, hard rejections, decision, the killzone's windows (`killzone_engine` over `killzones.yaml`); the three readings | two ICT readings may differ, the minute |
| LotSizing | `calculate_lot_size`, `lot_size` of `EX`, the sizing the live engine reports at its start and the tilted entry after it | equity, cost of a step |
| TradePlanner | `trade_planner/trade_planner.py` | price levels, readings |
| HistoricalStructure | `backtesting/historical_structure.py` | seven candles |
| TradeSimulator | `backtesting/trade_simulator.py` | candles after the entry |
| BacktestEngine | `backtest_engine.py`, `historical_decision_brain.py` | breakouts, grades, endings |
| SizingWalk | `run_sizing_walkforward.py`, `expectancy_sizer.py`, the gate of `run_mean_reversion_backtest.py` | the tape |
| CombinedBook | `run_combined_book_forward_test.py` | prices, lots, the breakout engine's results |
| EmergencyProtocol | `emergency_live_protocol.py` | the operator |
| PortfolioIntelligence | `portfolio_intelligence_engine.py` | candidates, closes |
| MarketWatch | `market_watch_engine/*` (without the reports) | the contexts |

`MCAdvisor` runs them as eighteen parts, in the same way.
`BacktestEngine` and the live path share `ConfidenceRules`, as the code does; `ReplayBooksAgree` compares the two.

## 3. What the runs show

| run | bounds | states | shows |
| --- | --- | --- | --- |
| LiveBook | 3 symbols in 2 windows, cap 2, 2-day stop, 2 positions per symbol, 1 end | 4.2M | `BookMatchesAccount`, `BookWithinCap`, `HeldDaysHonest`, `TimeStopKept` |
| LiveBookLive | 2 symbols in 2 windows, cap 1, 2 incidents | 91k | `ImplementsAuditedRule` (refinement), `HoldEnds`, `KillSwitchDrains` |
| LiveBookOnePosition | same | - | *violated*: two positions on one symbol after a death before the save |
| RiskState | 3 equities, 2 trades, 1 restart and 1 unreported fill a day, 1 misread, both modes | 4.1M | `PeakIsHighest`, `OpensBounded`, `NoOpenPastLimits` |
| ServerClock | 2 offsets, freezes up to 70 min, gaps up to 20 min, 1 restart | 0.56M | `NoFalseChange`, `StaleQuoteNeedsCause`, `ChangeLands` |
| ServerClockStaleQuote | 1 offset | - | *violated*: an order on a quote 55 minutes old |
| Supervisor | 2 supervisors, 2 engines, 2 faults | 0.43M | `OneBookIfUndisturbed`, `NoKillLoop`, `EngineBack`, `DeadFeedCaught` |
| SupervisorSingleBook | same | - | *violated*: two engines alive |
| Desk | per part, below | 0.73M | see the table below |
| DeskPartialAt2R | same | - | *violated*: a 2R partial recommended at 1R |
| Advisor | per part, below | 0.98M | see the table below |
| AdvisorHardRules | same | - | *violated*: approval without the daily bias |

The bounds are the smallest in which the cases meet: two symbols in one window
(so that one symbol's order falls between another's and the save) and one in
another window; a stop of two days, so that a position is held once and stopped
once; more symbols than the cap. One end of the process is enough for every
order of end, save and reload; the inductive invariants were also checked with
two on a smaller instance, and the proofs cover any number. Freezes pass one
whole hour, where a reading becomes usable again. Two supervisors and two
engines are what a second book needs.

| property of Desk | part and its bounds | says |
| --- | --- | --- |
| `DuplicateNeedsCause` | bridge: 2 plans (1 at market), 2 tickets, 2 orders, 3 units of time | a plan is on the account twice only if an order was unread, filled or unanswered |
| `EngineBooksAreHonest` | engine: the same plans | nothing is sent on what was not said; the journal accounts for every order but those whose answer was lost |
| `CareTakesNothingBack` | manager: prices 0 to 5 with R of 2, volume 5 | a pass never loosens a stop and never closes all by a partial, whatever was done by hand meanwhile |
| `DrillOutcomeHonest` | paper: every scenario and gate | the drill's outcome is the one its steps lead to |
| `StoreKeepsTheNewest` | store: 2 symbols, 3 kinds of scan, 2 records kept, 5 written, 1 cut line, 1 failed trim in a row, 2 days | what is lost is the oldest, or one record per cut; the file outgrows its limit by what was uncounted or not trimmed; setups are counted once |
| `EarlyExitsAreAccounted` | exits: 9 shapes of trade, 1 or 24 of each, up to 50 | what the exits change is what was saved less what was missed; the learned threshold spares the false exits |
| `ReviewsAreHindsight` | blocks: 9 shapes of setup, 1 or 8 of each, up to 17; promotions: 310 requests | two accounts of the blocks agree; what the reviews conclude, and from what; what promotion admits |

| property of Advisor | part and its bounds | says |
| --- | --- | --- |
| `SilenceHasCause` | monitor: 2 symbols, 3 scans, cooldown 3 | an operator whose last message disagrees with the monitor missed one for one of five named causes |
| `DigestKeepsItsMark` | digest: 2 days of 45 units, the hour 30 of them, 2 faults | a second copy needs a fault between message and mark; a calm ten minutes inside the hour suffice |
| `ReadingsHoldTogether` | chart: up to 7 candles, 4 given levels; swings: 6 candles, 4 other tables; story: 2 maps, 6 places of price | a shift follows its sweep, closed findings stay; falls are read like rises, one market leads; draw, phase and sweep of a story fit (`ChartIsReadSteadily`, `SwingsAreReadSteadily`, `StoryHoldsTogether`) |
| `VerdictIsSupported` | brain: every reading the analyzers can report together, 2 minutes of the clock | nothing is approved without trend, sweep and a second voice |
| `DecisionIsAsRecorded` | records: readings up or nowhere at 4 places with 4 vetoes; replayed candidates of 5 symbols at 4 minutes | the reasons, codes and tiers of a record are those of its decision |
| `AdviceHasACeiling` | portfolio: up to 10 held positions, every scored candidate | budget plus one cluster is all that advice can deploy |
| `BearishMirrorsBullish` | structure: every 7-candle chart over 7 shapes | the two halves of the detector are mirrors |
| `ReplaysAgree` | simulator: 2 candles from 14 shapes, 2 ratios; backtest: 2 pairs, 5 bars, 2 trades; walk: 2 cells, 3 results, up to 4 trades; book: 4 days of which at most 3 are replayed, 2 tapes, 4 breakout tapes, 3 kinds of bar | the plain and the managed walk do not contradict each other (`SimulationsAgree`); ledger, trades and summary are one book (`ReplayBooksAgree`); sizing knows no future (`WalkIsOutOfSample`); dearer fills only refuse (`StressOnlyRefuses`); no result counts twice (`ReplayedAccountAddsUp`) |
| `LimitsHold` | sizing: 7 equities x 6 costs x 3 tilts; emergency: 3 days, 3 requests, 2 halts; news: 3 events, 7 minutes, 3 symbols | budget, cap, what truncation may cost, and what the size reported at start says of the entries after it (`LotsStayInBudget`); a limit is overrun only by what already waited (`OverrunsWereWaiting`); scan and symbols see the same news but for the minutes between (`ScanAndSymbolsAgreeOnNews`) |
| `AdviceHasGrounds` | planner: three sweep levels, twelve books of levels, two boxes; market: live, charted and report contexts, about 4500 | direction, zones, targets and ratio of an executable plan agree (`ExecutablePlanIsCoherent`); veto, chop, session and MSS-or-sample hold through both judges of the watch (`WatchAdviceHasGrounds`) |

The property of a run that has several parts is the conjunction of what its
parts promise; the named conjunct is in the part's own module.

The bounds of a pure part are its inputs: both sides of every threshold the code
has, in every combination that one analysis can report. A bound on steps is
reached by the cases named in the property (a cooldown passes, a day ends with a
queue, a trade window covers a later candidate). `AdviceHasACeiling` was also
checked by hand with a base risk of 2500, 3500 and 5000.

The five violations are disagreements between the code and what its own
comments, scripts, configuration and README say; `PROJECT.json` quotes both sides.

### Fairness

*LiveBook*: the engine is restarted (the supervisor's job), a begun cycle goes
on, time passes, the broker answers something. Strong fairness for a window
being polled: it lasts 25 minutes or more and the engine polls every 5. Strong
fairness of an evaluation: the feed does not fail at one symbol's window for
ever. *ServerClock*: polls and time go on. *Supervisor*: time passes, a
supervisor that lives checks, an engine that starts reports or gives up.
Nothing is assumed of the operator, of MT5 or of who starts a supervisor;
properties that need it say so as a hypothesis.

## 4. What is proved

Eight modules of proofs, 33 theorems, for every value of the constants under the
assumptions named in the modules. The assumptions are types and signs but for
the ones listed at the end of this section.

### The engine and its guards

* `LiveBook_proofs`. `TypeCorrect`: beyond the types (`Typed`), a cycle has only in
  hand what its date has not processed (`CycleInv`), and an order in flight is for a
  symbol the book does not hold (`Submitting`), without which a fill could be
  counted twice. `BookAndAccount`: inductive with `Base`, which has these parts.
  `HeldDays` needs `Calendar` (counter plus days not evaluated fit in the nights),
  `DiskInv` (memory and disk hold the same positions for whatever the cycle has not processed) and
  `CycleInv` (no second midnight reaches a cycle). `TimeStop`: strengthened by the
  bound for interrupted exits, which is part of the property itself. `Cap`: on
  `Promised`, the book with the order in flight, by cardinality lemmas.
* `Refinement`, in `LiveBook_proofs` too: the initial states map to initial
  states and every step of `LiveBook` maps to a step of `DailyBook` or a stutter,
  on the invariants above; hence `ImplementsAuditedRule` for any number of
  symbols and incidents.
* `RiskState_proofs`. `TypeCorrect`, `Peak`, `Opens` and `Limits` of the risk gate,
  by `Attempt` (what holds between the steps of an attempt), `Days` (the file read
  through `load` agrees with what was observed today) and `Tripwire` (fills are
  bounded by counted trades, failures and restarts together, but for the executed
  orders the broker did not answer DONE, which are beyond any count of the code).
* `Supervisor_proofs`. `SupervisorTypes`, whose one relation is that no status file
  tells of an answer later than its own writing, and `OneBook`, for any number of
  processes, faults and thresholds. "One engine" is not inductive: a supervisor
  starts an engine when its own has exited (`OnlyChild`: a child leaves no room
  for an orphan) or, without one, when the status file is stale (`OrphanHeard`:
  a live orphan keeps the file fresh). `NoLoopOfKills`, the action property
  `NoKillLoop`: while undisturbed, the status file speaks for the one running
  engine (`FileIsWritten`, `FileIsTrue`) and a start is younger than the grace
  (`StartsAreYoung`, from the bound on the time to the first status).
* `ServerClock_proofs`. `ClockTypes`: in every record, on file or in memory, a pending
  offset comes and goes with its count and differs from the known one; `StaleQuote`,
  by `Trusted` (what the connector holds is the offset of the newest quote, unless
  this process was misled);
  `OffsetChange`, the action property `NoFalseChange`. That one rests on the drift
  of a frozen quote: `Streak` says that a pending offset was read off the quote
  that was the newest at the last poll and, if that one was hours old, has been
  pending no longer than such a quote stays near a whole hour. `OldStreakIsShort`
  turns it into a bound below the confirmation time.

### The desk (`Desk_proofs`)

* `Duplicates`: the bridge remembers nothing; what protects it is `Listed`, an order
  waiting in the account is on the caller's list unless its plan was sent since
  the list was read. `Counted` ties the orders to their plans.
* `EngineBooks`: inductive with its types, since a confirmed execution moves
  account, journal and the count of unclear ends in one step.
* `DrillOutcome`: `Rehearsed` says which paths reach 1R, hence where the manager
  moves the stop, for every stop distance and every buffer below it.
* `CareKept` (an action property): `AsSeen`, while nobody changes the position by
  hand, what an open action was computed from is still so; each kind of action
  comes once in a pass and none disturbs another's ground.
* `StoreKept`: the losses are sets. `Missing` are the numbers written and no longer
  readable, `Skipped` those of them newer than a record that is still there, and a
  half line left open already counts as the record that will be glued to it
  (`LossesAreCounted`). Gluing is seen to be joining once the half line is known to
  be the file's last (`LastIsHalf`), and a cut of the oldest lines skips nothing
  (`FileTrimmed`). A trim that fails leaves the file as it is and the counter at
  zero: the bound on its length grows by what had been counted, once for each
  failure since a trim succeeded (`Untrimmed`). Identifiers are a function of
  symbol, day and context because what the process remembers is (`ActiveIsIdentified`); a bijection counts them.
* `ExitsAccounted`: every figure of the review of early exits is a sum over the trades
  replayed, so `SumOf` stands for the library's sum with lemmas that take the place of
  induction (`SumByElement`, `SumsBalance`, `SumsOrdered`, `SumWithin`). What an exit
  changes is then settled trade by trade (`TradeBalance`, `ShapeBalance`) for any number
  of each; records are pairs of a trade and a checkpoint and are counted as such
  (`PairsCounted`, `LabelsAccounted`). The attempt corrected the property: the limit of
  5 % is asked of a rate that was rounded before, so from about a thousand exits on a
  pass is decided at 4.995 % (`RateFacts`); no instance of the run tells the two apart.
* `DeskTyped`: the types of all parts, from the invariants above and the bounds on what
  is written (`StoreBounded`); a share is one because a part of what was blocked or
  replayed counts for no more than all of it (`PartsOrdered`, `RateFacts`).
* `HindsightShown`: with the nine shapes numbered best first (`NineSetups`, `InOrder`) a
  ranking takes whole shapes until its limit is reached, so `Ranked` gives its count and
  bounds its result, and `Scenario` bounds every figure that can come of it. The worst
  stress case is then the same shock for every book (`WorstCases`), which rejects three
  candidates; an override of seven has either seven winners or a share of losers over
  10 % (`OverrideCounts`). The two reports of a guardrail add up the same rows
  (`PreventedAgrees`, `LeakedAgrees`). `Limited`, the one thing the invariant adds to
  the types, keeps the shadow book from being cut off at its bound. Here too the attempt
  corrected the property: a leak rate of zero does not mean that nothing leaked, for one
  leak in more than twenty thousand blocks rounds to it (`LeakRates`).

### The advising side (`Advisor_proofs`, `Advice_proofs`, `Replay_proofs`)

* `Silence`: a scan alerts symbol by symbol, so `Alerting` speaks of two times at
  once: up to the symbol at hand each is remembered as it is now, from there on
  as it was a scan ago.
* `DigestMarked`: `Patience` (a healthy tick inside the hour is paid for by a tick of
  waiting) and `Copied` (what was sent and not marked was a fault).
* `VerdictStands`: the points of each analyzer have a range (`SmtPoints`,
  `TotalBounds`); without the trend, the sweep or the shift the sum stays below
  what the other parts can lift over a threshold. The guardrail's bonuses and
  penalties are sums over sets and enter through their bounds only.
* `LimitsStand`, three parts of one run. Lots (`Sized`: what was sized follows from
  the order it was sized for; `StepsOfBudget`: a floored budget pays for its steps
  and not for two more). The emergency week (`Queued`: a request that found none
  waiting was queued below the limit, with every earlier one settled for the day,
  so those executed before it stay below the limit for good). The news lock
  (`Asked`: each answer is the nearest event active for that name at that minute,
  and none was given before the whole scan's).
* `Mirrors`: turned upside down, swing highs are swing lows, sweeps of one side the
  other's, so the anchors of one direction are the other's in the mirror
  (`AnchorsMirrored`), the ranges are the same (`DisplacedMirrored`) and so is the
  candidate built on them (`BullishBuilt`, `BearishBuilt`). These lemmas hold for
  every sequence of candles with whole prices, not only for the shapes of the run.
* `Recorded`: the reasons of a decision are folds of rule lists, so the proof is about
  the members of what a fold builds. `FoldExists` and `FoldCollects` take the place of
  induction over data: were there sets on which a fold does not collect its additions,
  one of them would be right without its last element (`SmallestSet`), and so be right.
  `HoldingMembers`, `DedupedMembers`, `AmongMembers` and `JoinedMembers` follow, and then,
  rule by rule, `RuleMembers` and `GuardrailMembers`. `LiveVerdict` says that nothing is
  said of a request exactly when the rules without a list approve it; `SafetyTier`,
  `LockCodes` and `ReplayEntries` are the parts of the record. The invariant is only that
  what is written was written of the request that is kept (`WrittenOfIt`).
* `Grounds` (`Advice_proofs`), the plan and the watch. A plan: whatever test mode makes
  up is synthetic (`NothingMadeUp`), so an executable plan has the entry, stop and
  targets that were found; `EntryMeasured`, `StopMeasured` and `RatioMeasured` say
  what they measure, and `TargetsBeyond` that the nearest of the levels on the
  trade's side is found and lies beyond the entry. The watch: what it publishes is
  what the selector let pass or what the router put in its place (`PublishedBy`).
  An ICT score without a shift or a sample weighs a fifth and cannot pass, and the
  router grades ICT only on sweep and shift (`IctStands`). For the command
  center's contexts every score that stands for a missing one is known
  (`LiveScores`, `LivePattern`): the trend's score stays at 63 of 70, a reversion's
  weight at 7400 of 7500, an ICT entry's without a sweep at 6800 (`LiveChosen`), and
  when sweep and shift are there the reversion's edge stays below the router's
  threshold (`EdgeScored`, `EdgeWeighed`, `LiveRouted`). The parts of a grade are
  summed by `TotalByPart`, which is proved from the definition of the fold by the
  number of parts (`SumExists`, `SumByElement`).
* `Ceiling` (`Advice_proofs`): none of the three limits is a rule, so the ceiling comes
  from points. It is not inductive: `Under` adds that no cluster alone exceeds the
  budget by more than three tenths of a risk. A candidate beyond the budget loses
  three quarters of its exposure's points and, beyond its cluster's allowance, three
  fifths of its correlation's (`Scores`; `ReachedFirst`: the numbers bite before the
  risks); what is left admits it only while a fifth of a risk is unspent, or at half
  risk into a cluster with room (`AdmittedScore`, `AdviceFits`). The sums over kinds of
  position move by one position's risk (`OneMoreHeld`) and split into the clusters
  (`TwoClusters`).
* `Replays` (`Replay_proofs`), four parts of one run, each with what its books say of
  what is still to come.
  * The simulator: a walk stops at the first candle that ends it, so both walks are
    found by the first stop and the first target (`SimulatorKept`, `WalksAgree`).
  * The backtest: a candidate is booked twice, in the ledger and, unless it was
    rejected for more than the guardrail, as a trade. `CandidateBooked` says what the
    two entries have in common; the verdicts behind them depend on the session, the
    range of the bar and the symbol only and are worked out once (`IndexVerdicts`,
    `ForexVerdicts`). `BooksPlaced` is why no candidate lies in a trade's window: the
    entries of the symbol that is scanned lie behind the bar, and their windows end
    before `occupied_until`. `BooksCounted` moves by one index of each book
    (`OneMore`). The two rates share one denominator, but each is rounded: their sum
    stays at 100 % because a run books at most ten candidates (`RatesShare`,
    `BooksTyped`). With more, both can be rounded up: 1 and 31 of 32 by the model's
    rule (halves go up), 49 and 111 of 160 by the code's (halves go to the even
    figure; on ten candidates no rate is a half and the two rules agree). What is
    proved is proved of the run's two symbols of five bars.
  * The sizing study: a multiplier is read from trades of earlier quarters only, so
    telling the last trade differently changes no other's multiplier (`LastUntold`,
    `ToldApart`); with one multiplier for all the two books are proportional
    (`SumsProportional`, `EvenlySized`). Dearer fills lower every result, hence the
    sum, the share of what was won and the number of good quarters (`SumsCompared`,
    `ShareLess`, `DearerQuarters`).
  * The book: what was filled is open, stopped or exited, and the equity is the start
    with both sums added (`BookSums`); an index that was consumed is not opened again
    (`BookPlaces`).
* `LeastNat` and `GreatestNat` (a set of numbers has a least, a bounded one a
  greatest) come from the well-foundedness of `<`; `Min`, `Max` and the nearest event
  are `CHOOSE`s that need them.

### Assumptions that say more than a type

* `PollingAssumption` (`ServerClock`): the engine polls once in the time a frozen
  quote drifts from one whole hour to the next, and the confirmation time is
  longer than its stay near one. `ML` polls every 5 minutes (538) and asks for 45
  minutes (103), and its comment (97-102) argues from just this drift. With rarer
  polls two readings an hour apart in age look like agreement.
* `DigestAssumption`: the digest's hour ends before midnight.
* `MonitorAssumption`: a scan handles every symbol once, as the list in the
  configuration does.
* `SizingAssumption`: the cap is no stricter than the budget and the ceiling admits
  the broker's minimum, as what the live engine passes to `EX` does (3 and 6
  percent, `ML` 340 and 346).
* `LimitsAssumption`: days are numbered from 1. (`PlannerAssumption`: prices are numbers,
  0 for none.)
* `PortfolioAssumption`: a number of trades allowed, each at a whole risk, is within
  the risk allowed, for the day and for a cluster, and a cluster's allowance is within
  the day's budget. With the code's 2 of 1.0 and 1 of 0.6 percent
  (`config/portfolio_intelligence.yaml` 29-32) that is a candidate's risk of up to
  half a percent; its test's is 0.4. Beyond it the theorem says nothing.
* `DeskAssumption`: the breakeven buffer is less than the stop distance.
* `ReplayAssumption` is only types; what is drawn besides (the candles of a window, the
  results of a cell, the tapes, bars and lots of the book) are the sets `MCAdvisor` defines.
* `StoreAssumption`: the symbols that are scanned are among the recorded ones, the
  file is cut after a positive number of new records (`SLACK`; the code's 500), and
  the bound on cuts and failed trims is a number.
* `ReviewAssumption` is only types; but the trades replayed and the setups blocked are of
  the nine shapes each that `MCDesk` defines (`MCTrades`, `MCSetups`), so what is proved of
  them is for any number of each shape, not for every shape.

### Only model-checked

* Liveness (`HoldEnds`, `KillSwitchDrains`, `ChangeLands`, `EngineBack`,
  `DeadFeedCaught`): fairness and `ENABLED` are outside the prover.
* `ReadingsHoldTogether`: a finite decision over drawn readings, with look-backs that
  are filters or sorts of the chart; its run enumerates them.
* `MCTypeOK` of `MCAdvisor`: one conjunction over eighteen parts, three of them those of
  the previous point.

## 5. Not modelled

* Prices, IBS values and results of trades in the live engine: no later step
  depends on them except through the signals the model chooses freely. Logs,
  wording and layout everywhere.
* **Live paper runtime**: runs a fixed sample session from constants in the code
  and keeps nothing; there is no behaviour to check beyond the modules it calls.
* **Trade lifecycle and cost engine**: `validate_transition` and
  `normalize_lifecycle_state` are called by the governance audit and by tests,
  by no part that trades; the cost engine is one formula.
* **`run_market_watch_backtest.py`, the elite and routing reports, the trade
  fixtures of the review engines**: their figures are constants in the code. The
  models draw such figures instead of repeating them.
* **Lengths**: the analyzers look back over dozens of candles, the models over up
  to seven, with every look-back a constant; thresholds in average ranges and in
  percent are kept.
* **AI coach, display, Telegram formatting, monitor output, journals and report
  files**: wording; nothing reads it back. Whether a message arrives is modelled.
* **Symbol registry, discovery, diagnostics, connectors' data access**: pure I/O.
* **Analytics and the other scripts**: random sampling and one-shot numerical
  studies; no state survives them.

## 6. What was noticed on the way

Facts the models rest on that a reader of the code may not expect. They
contradict no statement of the repository outright, or only in passing, and are
not listed as findings.

* The planner does not check on which side of the entry a sweep level lies, so
  a stop may be on the wrong side of a plan that is not executable anyway; the
  second target may be further than the third, though the docstring orders them.
* `config/trade_planner.yaml` ships with `planner_test_mode: true`;
  `config/alerts.yaml` with Telegram on, although `README.md:364` has it off.
* The killzone windows are kept in one time zone and reported in another (WAT),
  one hour from UTC; `NAS100`, which the planner's symbols lack, is always
  `UNAVAILABLE` to it.
* The replay's ledger reads `guardrail_penalties`, the guardrail's result calls
  them `penalties`; the replay approves some range-phase candidates the live path
  scores five points lower (`backtest_engine.py:206-209` says they are alike).
* An emergency approval can be resolved again and never expires.
* The portfolio's `correlation_block` has no effect and a suppressed or
  core-blocked candidate of the tactical tier keeps a multiplier of one half.
* Market watch: the router's override replaces the strategy but not the score
  published with it; a strategy the grader rejects is published when the router
  finds nothing; without scores a range always reads as chop; a plan is `READY`
  with an entry of 0 when the context names no level.
* ICT reading: the execution candles are fetched before the sweep is looked for,
  so a newer sweep gets a guessed place (`ict_analyzer.py:369`) and the shift may
  precede it; a swept level stays a target; an equal level is the mean of its
  touches, so a touch can sweep the level it belongs to; a gap may precede sweep
  and shift; clustering is greedy and not mirror-symmetric.
* Trend and SMT: contradicting daily and 4H trends (35 points) score above a
  one-sided one; SMT compares the last swings of two markets without aligning
  their times. The replay's `smt_divergence` also fires when the *reference* makes
  the new extreme, though `historical_structure.py:172-176` describes the traded
  symbol sweeping while the reference holds.
* Narrative: equal levels are named differently among the targets, so a swept one
  is still told as unswept; internal swings of a side share one name and only the
  most important survives (`narrative_analyzer.py:397-399`).
* Decision records: a live decision's tiers are evaluated a second time without
  payloads (`shared_decision_adapter.py:123-125`), so tier 3A fails even for an
  approved decision and the news lock never appears; tier 2B is never filled. One
  reason has different tiers live and in replay (killzone, FX bias, governor,
  adjusted confidence), and some codes say something else than the reason (`RR
  below 3` becomes `BELOW_MIN_CONFIDENCE`).
* Signal store: the retention counter starts again with every process, so one that
  is restarted before 500 records never trims; it is set back before the trim is
  tried (`live_data_collector.py:294`), so a trim that raises, which
  `live_monitor.py:285` swallows, is tried again only after another 500; a
  half-written line swallows the record appended to it; the memory of active setups is redundant.
* Early exits: losses smaller than the exit and break-even trades are in neither
  the saved nor the missed figure; the win-rate change is a constant.
* Reviews: every relaxation passes whatever was blocked, the shadow book is
  validated by its number of large leaks alone, and the stress test's ranking is
  decided by built-in figures: candidate 3 is approved and best, the others are
  rejected. Three engines have three notions of an execution-ready A+ setup;
  promotion protects the symbol lock that the override engine lets challenge. The
  session limit reads a counter nothing increments, and the admitting functions
  have no caller outside tests.
* Sizing walk: a book without losses is promoted just by being scaled up; the
  sizer is used by no live code.
* Combined book, modelled without `--max-open-total` (off by default) and without the
  trades-per-day line of the tripwire report: `_consumed` changes nothing for
  stopped positions, which have left the list already; entries at the close are sized on yesterday's marks; a trade
  that entered and exited on one day would never be closed. Without a breakout tape
  the replay ends on the last entry day, so trades open beyond it are left out.
* Lot sizing: a tilted lot above the ceiling is refused whole, so a size reported at
  start may never reach the account on the deepest dips; for a symbol at the
  broker's minimum the reported "3x these sizes" does not hold.
* Mean-reversion gate: a study without a losing trade is judged on its profit in
  place of a profit factor, so dearer costs can turn a refusal into a promotion;
  the final verdict asks both and is not affected.
* News: a blocking event with a malformed date ends the monitor, as nothing
  catches `NewsFilterError`; `NAS100` is not among the affected symbols.
