----------------------------- MODULE MCAdvisor -----------------------------
(* The advising side: what watches, scores, plans, sizes and replays, the     *)
(* supervisor's digest, the emergency queue and the portfolio's advice.  The  *)
(* parts share no state; each is run by itself.                               *)
EXTENDS LiveMonitor, TLC

CONSTANTS
  DAY, Hour, PAUSE, DAYS, MAX_FAULTS,
  Grades, Markets, Minutes, Vetoes, TargetKinds,
  Equities, Costs, RISK_PERCENT, CAP_PERCENT, MIN_STEPS, MAX_STEPS,
  SweepLevels, PRICE, BUFFER, FALLBACK,
  STRENGTH, RECENCY, TOP,
  FORWARD, COST,
  HORIZON, Ratios, Endings,
  MAX_TRADES, FirstDay, LastDay, MAX_REQUESTS, MAX_HALTS,
  BASE, BUDGET, CLUSTER_RISK, MAX_OPEN, MAX_SAME, Regimes, MAX_HELD

VARIABLES
  part,
  day, tick, mt5, loop, wait, mark, copies, faults, calm,
  reading, verdict,
  order, planned, executed, entered,
  setup, plan,
  candles, found,
  window, plain, managed,
  pair, bar, occupied_until, setups, trades, ledgers, summary,
  live, today, queue, history, halts, traded,
  held,
  context, watch,
  chart, findings,
  plot, trend, smt, feature,
  scene, story,
  request, record,
  tape, report,
  taped, champion_days, span, date, step, today_bars, equity, peak, marked, positions, last_close,
  consumed, stats, hits, outcome,
  calendar, minute, whole, each

ASSUME DigestAssumption ==
  /\ DAY \in Nat \ {0} /\ DAYS \in Nat \ {0} /\ PAUSE \in Nat \ {0} /\ MAX_FAULTS \in Nat
  /\ DAY - 1 \notin Hour   \* the hour ends before midnight

\* A budget pays for something, the cap is no stricter than the budget, and the
\* order ceiling admits the broker's minimum.
ASSUME SizingAssumption ==
  /\ Equities \subseteq Nat /\ Costs \subseteq Nat
  /\ RISK_PERCENT \in Nat \ {0} /\ CAP_PERCENT \in Nat /\ RISK_PERCENT <= CAP_PERCENT
  /\ MIN_STEPS \in 1..6 /\ MAX_STEPS \in Nat /\ MIN_STEPS <= MAX_STEPS

\* A swing's strength and a sweep's age are counts of bars, and prices have a top.
ASSUME StructureAssumption == STRENGTH \in Nat /\ RECENCY \in Nat /\ TOP \in Nat

\* A sweep's level, the price and the distances of a stop are prices, 0 for none.
ASSUME PlannerAssumption == SweepLevels \subseteq Nat /\ PRICE \in Nat /\ BUFFER \in Nat /\ FALLBACK \in Nat

\* The bars a replayed trade is walked, and ranges in percent of the average.
ASSUME ReplayAssumption == HORIZON \in Nat /\ Ratios \subseteq Nat

\* The numbers of trades allowed, each at a whole risk, are within the risks
\* allowed, and a cluster's allowance is part of the day's budget.
ASSUME PortfolioAssumption ==
  /\ BASE \in Nat \ {0} /\ BUDGET \in Nat /\ CLUSTER_RISK \in Nat /\ CLUSTER_RISK <= BUDGET
  /\ MAX_OPEN \in Nat /\ MAX_OPEN * BASE <= BUDGET
  /\ MAX_SAME \in Nat \ {0} /\ MAX_SAME * BASE <= CLUSTER_RISK

\* A day of the ladder is numbered from 1; 0 is for a request that was not traded.
ASSUME LimitsAssumption ==
  /\ FirstDay \in Nat \ {0} /\ LastDay \in Nat /\ FirstDay <= LastDay
  /\ MAX_TRADES \in Nat /\ MAX_REQUESTS \in Nat /\ MAX_HALTS \in Nat

MCOrder == <<"US30", "BTCUSD">>

Level(price, side) == [price |-> price, side |-> side]
MCBooks ==
  [internal : {{}, {Level(16, "sell_side"), Level(26, "buy_side")}},
   engineered : {{}, {Level(29, "buy_side"), Level(23, "buy_side"), Level(12, "sell_side")}},
   external : {{}, {Level(40, "buy_side")},
               {Level(60, "buy_side"), Level(35, "buy_side"), Level(4, "sell_side")}}]

Candle(high, low, close) == [high |-> high, low |-> low, close |-> close]
Start == Candle(5, 3, 4)
Breaks == {Candle(8, 5, 7), Candle(3, 0, 1)}
Between == {Start, Candle(4, 2, 3), Candle(6, 4, 5), Candle(4, 1, 3), Candle(7, 4, 5)} \cup Breaks
MCShapes == <<{Start}, Between, Between, Between, Between, Between, Breaks>>

MCMoves == {c \in [best : {0, 50, 120, 200, 300}, worst : {-100, -40, 0, 10}] : c.best >= c.worst}

\* New York from the last bars of its open to the dead zone.
MCTimes == <<810, 825, 840, 855, 900>>

\* What the watch may be shown: the command center's contexts, a few tables of
\* candles, and scores like those of the market-watch report.
Placed(symbol, session, marks, scores, bars, vetoed) ==
  [symbol |-> symbol, session |-> session, marks |-> marks, scores |-> scores, bars |-> bars,
   vetoed |-> vetoed]
MCPlaces == {<<"US30", "new_york_open">>, <<"XAUUSD", "new_york_continuation">>,
             <<"EURUSD", "london_open">>}
MCLive ==
  {Placed(p[1], p[2], marks, [narrative_alignment |-> n], <<>>, vetoed) :
     p \in MCPlaces, marks \in SUBSET {"sweep", "mss", "fvg", "order_block", "range_phase"},
     n \in {40, 95}, vetoed \in BOOLEAN}

Low == Candle(6, 0, 6)
MCTables == (UNION {[1..n -> {Low, Candle(6, 4, 4), Candle(12, 2, 11)}] : n \in 1..3})
            \cup {<<Low, Low, Low, Candle(6, 4, 4), Low, Candle(12, 2, 11)>>}
MCCharted ==
  {Placed("US30", "new_york_open", marks, <<>>, bars, FALSE) :
     marks \in SUBSET {"sweep", "mss", "exhaustion"}, bars \in MCTables}

MCScores ==
  [trend_strength : {50, 84}, range_score : {22, 78}, compression_score : {24, 70},
   exhaustion_score : {40, 76}, volatility_expansion : {45, 72}, overextension_score : {42, 74},
   noise_score : {12, 75}]
Entry(sample) ==
  [narrative_alignment |-> 88, premium_discount_alignment |-> 82, smt_sample |-> sample]
Joined(f, g) == [key \in (DOMAIN f) \cup (DOMAIN g) |-> IF key \in DOMAIN f THEN f[key] ELSE g[key]]
MCExtras ==
  {Entry(1), Entry(12),
   Joined(Entry(12), [pullback_quality |-> 76, continuation_structure |-> 82, htf_alignment |-> 78,
                      fair_value_distance |-> 78])}
MCReported ==
  {Placed(p[1], p[2], marks, Joined(scores, extra), <<>>, FALSE) :
     p \in {q \in MCPlaces : q[1] # "EURUSD"}, scores \in MCScores, extra \in MCExtras,
     marks \in {{}, {"mss"}, {"sweep", "failed_breakout"}, {"sweep", "mss", "fvg", "order_block"},
                {"sweep", "fvg", "order_block", "smt"}}}

MCContexts == MCLive \cup MCCharted \cup MCReported

\* Charts of up to seven candles with sweeps, thrusts, gaps and returns of both
\* sides, between yesterday's range of 6 to 24 and an Asian range of 5 to 25.
Bar(open, high, low, close) == [open |-> open, high |-> high, low |-> low, close |-> close]
Quiet == {Bar(15, 17, 13, 15)}
SweptLow == {Bar(14, 16, 4, 15), Bar(14, 16, 5, 12)}
Swept == SweptLow \cup {Bar(16, 25, 14, 15)}
Thrusts == {Bar(16, 28, 16, 27), Bar(14, 14, 2, 3)}
Beyond == {Bar(27, 29, 25, 26), Bar(27, 29, 20, 21), Bar(3, 5, 1, 4)}
Returns == {Bar(21, 22, 10, 11), Bar(9, 20, 8, 19)}
MCPlot ==
  <<Quiet, Quiet \cup {Bar(15, 18, 13, 16)}, Swept \cup Quiet, Swept \cup Thrusts \cup Quiet,
    Thrusts \cup Beyond \cup Quiet \cup {Bar(14, 16, 4, 15)},
    Beyond \cup Returns \cup Thrusts \cup Quiet, Returns \cup Quiet \cup {Bar(15, 16, 3, 15)}>>
Pool(side, class, price) ==
  [side |-> side, class |-> class, sum |-> price, touches |-> 1, extra |-> 0]
MCPools ==
  <<Pool("buy_side", "external", 24), Pool("sell_side", "external", 6),
    Pool("buy_side", "internal", 25), Pool("sell_side", "internal", 5)>>

\* Peaks at the even candles, troughs at the odd ones, and candles that are both.
Leg(high, low, close) == [high |-> high, low |-> low, close |-> close]
Troughs == {Leg(5, 2, 3), Leg(5, 3, 4), Leg(4, 1, 1)}
Peaks == {Leg(6, 4, 5), Leg(8, 4, 7), Leg(8, 0, 3)}
MCPlots == <<Troughs, Peaks, Troughs, Peaks, Troughs, Peaks, Troughs>>
MCOthers ==
  { <<Leg(4, 1, 1), Leg(6, 4, 5), Leg(5, 2, 3), Leg(8, 4, 7), Leg(5, 3, 4), Leg(8, 5, 8)>>,
    <<Leg(5, 3, 4), Leg(8, 4, 7), Leg(5, 2, 3), Leg(6, 4, 5), Leg(4, 1, 1), Leg(4, 0, 0)>>,
    <<Leg(5, 2, 3), Leg(6, 4, 5), Leg(5, 2, 3), Leg(6, 4, 5), Leg(5, 2, 3), Leg(6, 4, 5)>>,
    <<Leg(5, 2, 3), Leg(6, 4, 5)>> }

Swing(side, price) == [side |-> side, price |-> price]
MCMaps ==
  { [pdh |-> 80, pdl |-> 20, weekly_high |-> 90, weekly_low |-> 10, asian_high |-> 65,
     asian_low |-> 35, equal_highs |-> <<75>>, equal_lows |-> <<25, 32>>,
     swings |-> <<Swing("buy_side", 60), Swing("sell_side", 45), Swing("buy_side", 88)>>],
    [pdh |-> 50, pdl |-> 50, weekly_high |-> 70, weekly_low |-> 30, asian_high |-> 52,
     asian_low |-> 48, equal_highs |-> <<>>, equal_lows |-> <<>>, swings |-> <<Swing("sell_side", 12)>>] }

Digest    == INSTANCE SupervisorDigest
Brain     == INSTANCE ConfidenceAnalyzer
Sizing    == INSTANCE LotSizing WITH Tilts <- {75, 150, 300}, CEILING <- 6
Planner   == INSTANCE TradePlanner WITH Books <- MCBooks, Boxes <- {<<18, 22>>, <<20, 30>>}
Structure == INSTANCE HistoricalStructure WITH Shapes <- MCShapes
Simulator == INSTANCE TradeSimulator WITH Moves <- MCMoves
Backtest  == INSTANCE BacktestEngine WITH Pairs <- <<"US30", "EURUSD">>, Times <- MCTimes
Emergency == INSTANCE EmergencyProtocol
Portfolio == INSTANCE PortfolioIntelligence
Market    == INSTANCE MarketWatch WITH Contexts <- MCContexts
Chart     == INSTANCE IctReading
  WITH Shapes <- MCPlot, Given <- MCPools, bars <- chart, reading <- findings, TOP <- 30, ATR <- 10, NEAR <- 2,
       RECENT <- 4, SPACING <- 2, TOUCHES <- 2, KEPT <- 2, INTERNAL <- 2, AROUND <- 3,
       STRUCTURE <- 2, BREAK <- 3, BLOCK <- 2, GUESS <- 2

Swings    == INSTANCE SwingReading
  WITH Plots <- MCPlots, Others <- MCOthers, COUNT <- 6, LOOKBACK <- 6, BREAKOUT <- 3, LONG <- 5,
       SHORT <- 2, CLOSE <- 2, FAR <- 4, SWING <- 1, PEAK <- 8, FRESH <- 2, PRIOR <- 3, H4 <- 2, D1 <- 5

Tale      == INSTANCE MarketStory WITH Maps <- MCMaps, Spots <- {8, 40, 50, 62, 78, 95}, CLOSEST <- 3

\* Live decisions on readings that point up or nowhere, and every candidate a replay can find.
MCReadings ==
  {r \in [daily : {"bullish", "neutral"}, h4 : {"bullish", "range"}, sweep : {"none", "sell_side"},
          ict_sweep : {"none", "sell_side"}, mss : BOOLEAN,
          fvg : {Brain!NoGap} \cup [detected : {TRUE}, direction : Brain!Directions, grade : {"A", "B"}],
          order_block : {TRUE}, returned : BOOLEAN, zone : {"discount", "premium"},
          above : {"external"}, below : {"none"}, smt : {"none", "bullish"}] :
     /\ r.mss => r.ict_sweep # "none"
     /\ Brain!FitsMss(r.mss, r.ict_sweep, r.fvg)
     /\ r.returned => r.fvg.detected}
MCDecisions ==
  {[mode |-> "LIVE", symbol |-> place[1], minute |-> place[2], reading |-> r, veto |-> veto,
    phase |-> Brain!Phase(r), smt |-> Brain!Smt(place[1], r)] :
     place \in {<<"US30", 840>>, <<"NAS100", 780>>, <<"US30", 420>>, <<"EURUSD", 540>>},
     r \in MCReadings, veto \in {"none", "news", "daily_loss", "max_trades"}}
  \cup
  {[mode |-> "REPLAY", symbol |-> place[1], minute |-> place[2], veto |-> "none",
    reading |-> Backtest!HistoricalReading(b), smt |-> Backtest!NotLooked,
    phase |-> Backtest!ClassifyNarrativePhase(b.direction, Brain!Killzone(place[1], place[2]), b.ratio)] :
     place \in {"US30", "NAS100", "XAUUSD", "EURUSD", "GBPUSD"} \X {430, 540, 780, 840},
     b \in [direction : Brain!Directions, ratio : {100, 120, 140, 160}]}
Records   == INSTANCE DecisionLedger WITH Asked <- MCDecisions

Walk      == INSTANCE SizingWalk
  WITH Cells <- {"us30_expansion", "nas100_range"}, Earned <- {-100, 4, 30}, MIN_SAMPLE <- 2,
       MIN_QUARTERS <- 1, UNPROVEN <- 1, ROLLOVER <- [us30_expansion |-> 5, nas100_range |-> 2], MAX_TRADES <- 4

\* A stop within the day's range, a gap through it, a holiday; a position over
\* the whole calendar, one that is re-entered the day it ends, a second slot asked for.
Trade(symbol, entry, exit, stop, points) ==
  [symbol |-> symbol, entry |-> entry, exit |-> exit, price |-> 100, stop |-> stop, points |-> points]
MCTapes ==
  { <<Trade("US30", 2, 4, 20, 15), Trade("US30", 3, 4, 20, -40), Trade("NAS100", 2, 4, 30, 9)>>,
    <<Trade("US30", 1, 2, 20, 7), Trade("US30", 2, 3, 20, -12), Trade("US30", 3, 4, 20, 30)>> }
MCBars == {[open |-> 92, low |-> 78, close |-> 104], [open |-> 60, low |-> 50, close |-> 52],
           [open |-> 0, low |-> 0, close |-> 0]}
Book      == INSTANCE CombinedBook
  WITH Tapes <- MCTapes, Breakouts <- {{}, {1, 2, 3, 4}, {1, 3}, {1}}, LONGEST <- 2, Bars <- MCBars,
       Lots <- {0, 2, 9}, Champions <- {-10, 25}, START <- 100, CEILING <- 5, SLOTS <- 1, COST <- 1, DAILY <- 18, INTERNAL <- 50, FIRM <- 60

\* Two events a few minutes apart, of which the first in the file may be the later,
\* and one that blocks nothing or cannot be read.
Event(when, symbols) ==
  [usd |-> TRUE, high |-> TRUE, known |-> TRUE, dated |-> TRUE, legible |-> TRUE, minute |-> when,
   symbols |-> symbols]
Odd(field) == [Event(4, {}) EXCEPT ![field] = FALSE]
MCCalendars ==
  [enabled : BOOLEAN,
   events : {<<Event(a, {}), Event(b, s), e>> :
               a \in {1, 5, 8}, b \in {3, 8}, s \in {{"US30"}, {"EURUSD", "US30"}},
               e \in {Odd(f) : f \in {"usd", "high", "known", "dated", "legible"}}}]
News      == INSTANCE NewsFilter
  WITH Calendars <- MCCalendars, Names <- <<"XAUUSD", "US30", "EURUSD">>, PRE <- 2, POST <- 2, LATEST <- 6,
       Affected <- {"XAUUSD", "US30", "EURUSD", "GBPUSD"}

digest_vars == <<day, tick, mt5, loop, wait, mark, copies, faults, calm>>
brain_vars == <<reading, verdict>>
sizing_vars == <<order, planned, executed, entered>>
planner_vars == <<setup, plan>>
structure_vars == <<candles, found>>
simulator_vars == <<window, plain, managed>>
backtest_vars == <<pair, bar, occupied_until, setups, trades, ledgers, summary>>
emergency_vars == <<live, today, queue, history, halts, traded>>
watch_vars == <<context, watch>>
chart_vars == <<chart, findings>>
reading_vars == <<plot, trend, smt, feature, scene, story>>
record_vars == <<request, record>>
watching_vars == <<monitor_vars, digest_vars>>
deciding_vars == <<brain_vars, sizing_vars, planner_vars, watch_vars, chart_vars, reading_vars, record_vars>>
walk_vars == <<tape, report>>
book_vars == <<taped, champion_days, span, date, step, today_bars, equity, peak, marked, positions,
               last_close, consumed, stats, hits, outcome>>
replay_vars == <<structure_vars, simulator_vars, backtest_vars, walk_vars, book_vars>>
news_vars == <<calendar, minute, whole, each>>
limits_vars == <<emergency_vars, held, news_vars>>
mc_vars == <<part, watching_vars, deciding_vars, replay_vars, limits_vars>>

\* The parts that do not run keep their first state, or hold nothing.
MCTypeOK ==
  /\ part = "monitor" => TypeOK
  /\ part = "digest" => Digest!TypeOK
  /\ part = "sizing" => Sizing!SizingTypeOK
  /\ part = "structure" => Structure!StructureTypeOK
  /\ part = "simulator" => Simulator!SimulatorTypeOK
  /\ part = "backtest" => Backtest!BacktestTypeOK
  /\ part = "emergency" => Emergency!EmergencyTypeOK
  /\ part = "portfolio" => Portfolio!PortfolioTypeOK
  /\ part = "market" => Market!WatchTypeOK
  /\ part = "chart" => Chart!IctTypeOK
  /\ part = "swings" => Swings!SwingTypeOK
  /\ part = "story" => Tale!StoryTypeOK
  /\ part = "planner" => Planner!PlannerTypeOK
  /\ part = "brain" => Brain!TypeOK
  /\ part = "records" => Records!LedgerTypeOK
  /\ part = "walk" => Walk!WalkTypeOK
  /\ part = "book" => Book!BookTypeOK
  /\ part = "news" => News!NewsTypeOK

MCInit ==
  /\ part \in {"monitor", "digest", "sizing", "structure", "simulator", "backtest", "emergency",
              "portfolio", "market", "chart", "swings", "story", "planner", "brain",
              "records", "walk", "book", "news"}
  /\ Init /\ Digest!Init /\ Brain!Init /\ Sizing!SizingInit
  /\ Planner!PlannerInit /\ Structure!StructureInit /\ Simulator!SimulatorInit
  /\ Backtest!BacktestInit /\ Emergency!EmergencyInit
  /\ IF part = "market" THEN Market!WatchInit ELSE context = <<>> /\ watch = <<>>
  /\ IF part = "chart" THEN Chart!IctInit ELSE chart = <<>> /\ findings = <<>>
  /\ IF part = "swings" THEN Swings!SwingInit ELSE plot = <<>> /\ trend = <<>> /\ smt = <<>> /\ feature = <<>>
  /\ IF part = "records" THEN Records!LedgerInit ELSE request = <<>> /\ record = <<>>
  /\ IF part = "walk" THEN Walk!WalkInit ELSE tape = <<>> /\ report = <<>>
  /\ IF part = "book" THEN Book!BookInit
     ELSE /\ taped = <<>> /\ champion_days = {} /\ span = <<>> /\ date = 0 /\ step = "none"
          /\ today_bars = <<>> /\ equity = 0 /\ peak = 0 /\ marked = 0 /\ positions = <<>> /\ last_close = <<>> /\ consumed = {} /\ stats = <<>>
          /\ hits = {} /\ outcome = "none"
  /\ IF part = "story" THEN Tale!StoryInit ELSE scene = <<>> /\ story = <<>>
  /\ IF part = "portfolio" THEN Portfolio!PortfolioInit ELSE held = <<>>
  /\ IF part = "news" THEN News!NewsInit
     ELSE calendar = <<>> /\ minute = 0 /\ whole = <<>> /\ each = <<>>

Watching == UNCHANGED <<part, deciding_vars, replay_vars, limits_vars>>
Deciding == UNCHANGED <<part, watching_vars, replay_vars, limits_vars>>
Replaying == UNCHANGED <<part, watching_vars, deciding_vars, limits_vars>>
Limiting == UNCHANGED <<part, watching_vars, deciding_vars, replay_vars>>

MCNext ==
  \/ part = "monitor" /\ Next /\ Watching /\ UNCHANGED digest_vars
  \/ part = "digest" /\ Digest!Next /\ Watching /\ UNCHANGED monitor_vars
  \/ part = "brain" /\ Brain!Next /\ Deciding /\ UNCHANGED <<sizing_vars, planner_vars, watch_vars, chart_vars, reading_vars, record_vars>>
  \/ part = "sizing" /\ Sizing!SizingNext /\ Deciding /\ UNCHANGED <<brain_vars, planner_vars, watch_vars, chart_vars, reading_vars, record_vars>>
  \/ part = "planner" /\ Planner!PlanTrade /\ Deciding /\ UNCHANGED <<brain_vars, sizing_vars, watch_vars, chart_vars, reading_vars, record_vars>>
  \/ part = "market" /\ Market!Watch /\ Deciding /\ UNCHANGED <<brain_vars, sizing_vars, planner_vars, chart_vars, reading_vars, record_vars>>
  \/ part = "chart" /\ Chart!IctNext /\ Deciding /\ UNCHANGED <<brain_vars, sizing_vars, planner_vars, watch_vars, reading_vars, record_vars>>
  \/ /\ \/ part = "swings" /\ Swings!SwingNext /\ UNCHANGED <<scene, story>>
        \/ part = "story" /\ Tale!TellStory /\ UNCHANGED <<plot, trend, smt, feature>>
     /\ Deciding /\ UNCHANGED <<brain_vars, sizing_vars, planner_vars, watch_vars, chart_vars, record_vars>>
  \/ /\ part = "records" /\ Records!RecordDecision /\ Deciding
     /\ UNCHANGED <<brain_vars, sizing_vars, planner_vars, watch_vars, chart_vars, reading_vars>>
  \/ /\ part = "structure" /\ Structure!CloseCandle /\ Replaying
     /\ UNCHANGED <<simulator_vars, backtest_vars, walk_vars, book_vars>>
  \/ /\ part = "simulator" /\ Simulator!WalkForward /\ Replaying
     /\ UNCHANGED <<structure_vars, backtest_vars, walk_vars, book_vars>>
  \/ /\ part = "backtest" /\ Backtest!BacktestNext /\ Replaying
     /\ UNCHANGED <<structure_vars, simulator_vars, walk_vars, book_vars>>
  \/ /\ part = "walk" /\ Walk!WalkNext /\ Replaying
     /\ UNCHANGED <<structure_vars, simulator_vars, backtest_vars, book_vars>>
  \/ /\ part = "book" /\ Book!BookNext /\ Replaying
     /\ UNCHANGED <<structure_vars, simulator_vars, backtest_vars, walk_vars>>
  \/ part = "emergency" /\ Emergency!EmergencyNext /\ Limiting /\ UNCHANGED <<held, news_vars>>
  \/ part = "portfolio" /\ Portfolio!PortfolioNext /\ Limiting /\ UNCHANGED <<emergency_vars, news_vars>>
  \/ part = "news" /\ News!NewsNext /\ Limiting /\ UNCHANGED <<emergency_vars, held>>

MCSpec == MCInit /\ [][MCNext]_mc_vars

DigestKeepsItsMark == Digest!DigestKeepsItsMark
VerdictIsSupported == Brain!VerdictIsSupported
DecisionIsAsRecorded == part = "records" => Records!DecisionIsAsRecorded
DailyNeeded == Brain!DailyNeeded
\* The portfolio's advice, followed, stays under its ceiling.
AdviceHasACeiling == part = "portfolio" => Portfolio!AdviceHasACeiling
BearishMirrorsBullish == Structure!BearishMirrorsBullish
\* The two simulations of a trade agree, and so do the books of a replay; a
\* sizing study is out of sample, and the replayed account adds up.
ReplaysAgree ==
  /\ part = "simulator" => Simulator!SimulationsAgree
  /\ part = "backtest" => Backtest!ReplayBooksAgree
  /\ part = "walk" => Walk!WalkIsOutOfSample /\ Walk!StressOnlyRefuses
  /\ part = "book" => Book!ReplayedAccountAddsUp
\* The budget of a lot, the week's limit on trades, and the news lock.
LimitsHold ==
  /\ part = "sizing" => Sizing!LotsStayInBudget
  /\ part = "emergency" => Emergency!OverrunsWereWaiting
  /\ part = "news" => News!ScanAndSymbolsAgreeOnNews
\* What may be followed has its grounds: an executable plan is coherent, and a
\* published strategy has passed both of the watch's judges.
AdviceHasGrounds ==
  /\ part = "planner" => Planner!ExecutablePlanIsCoherent
  /\ part = "market" => Market!WatchAdviceHasGrounds
\* The readings of candles: shifts and gaps, swings, and the story told of them.
ReadingsHoldTogether ==
  /\ part = "chart" => Chart!ChartIsReadSteadily
  /\ part = "swings" => Swings!SwingsAreReadSteadily
  /\ part = "story" => Tale!StoryHoldsTogether
=============================================================================
