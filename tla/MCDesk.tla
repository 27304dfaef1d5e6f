------------------------------- MODULE MCDesk -------------------------------
(* The desk's four parts, the store of signals and the reviews of what was     *)
(* blocked, left early or promoted, each run by itself: they share no state    *)
(* but the account's, of which each part sees its own orders only (by magic).  *)
EXTENDS AssistedBridge, Sequences

CONSTANTS
  RISK, BUFFER, TARGET, VOLUME, Prices,
  Names, MAX_RECORDS, LARGE, SLACK, MAX_WRITTEN, MAX_CUTS, LAST_DAY,
  Blocks, MAX_BLOCKED, Copies, MAX_TRADES_REPLAYED

ASSUME DeskAssumption ==
  /\ RISK \in Nat \ {0} /\ BUFFER \in 0..RISK - 1 /\ TARGET \in Nat
  /\ VOLUME \in Nat \ {0}
  /\ Prices \subseteq Int

ASSUME StoreAssumption ==
  /\ IsFiniteSet(Names) /\ {"US30", "EURUSD"} \subseteq Names
  /\ MAX_RECORDS \in Int /\ LARGE \in Int /\ SLACK \in Nat \ {0}
  /\ MAX_WRITTEN \in Nat /\ MAX_CUTS \in Nat /\ LAST_DAY \in Nat \ {0}

ASSUME ReviewAssumption ==
  /\ Copies \subseteq Nat /\ MAX_TRADES_REPLAYED \in Nat
  /\ Blocks \subseteq Nat /\ MAX_BLOCKED \in Nat

VARIABLES
  part,
  phase, context, mode, orders, journaled, last, unclear, sent_on,
  status, price, stop, volume, todo, seen, initial_known, by_hand,
  step, scenario, walked, sl, taken, outcome, journal,
  file, open_end, active, since, date, written, cuts, starts, untrimmed,
  blocked, book, request, answers

Seen(state, setting) == [state |-> state, context |-> setting]
MCScans ==
  {[s \in {"US30"} |-> Seen("HOT", "a")], [s \in {"US30"} |-> Seen("COLD", "a")],
   [s \in {"US30", "EURUSD"} |-> Seen("WARM", "b")]}

\* Signals of a sound trade, of one that fails early, of one to watch, and all of them.
Signals(structure, momentum, regime, time, friction, retest) ==
  [structure_invalidation |-> structure, momentum_failure |-> momentum, regime_failure |-> regime,
   time_failure |-> time, execution_friction |-> friction, retest_failure |-> retest]
Steady == Signals(1, 2, 1, 4, 2, 1)
Early == Signals(10, 9, 8, 7, 3, 9)
Worried == Signals(8, 7, 7, 7, 5, 7)
Broken == Signals(10, 10, 10, 10, 9, 10)
Trade(rr, adverse, first, second, cluster) ==
  [rr |-> rr, adverse |-> adverse, signals |-> <<first, second>>, cluster |-> cluster]
MCTrades ==
  {Trade(-100, 55, Steady, Early, "a"), Trade(-100, 34, Early, Steady, "b"), Trade(140, 52, Steady, Steady, "a"),
   Trade(-100, 22, Steady, Steady, "b"), Trade(140, 52, Early, Early, "a"), Trade(-40, 55, Worried, Early, "b"),
   Trade(0, 34, Broken, Steady, "a"), Trade(-100, 40, Worried, Steady, "a"), Trade(-110, 50, Early, Broken, "b")}

Setup(id, reason, symbol, micro, session, grade, confidence, rr, candles) ==
  [id |-> id, reason |-> reason, symbol |-> symbol, micro |-> micro, session |-> session, grade |-> grade,
   strategy |-> IF micro = "noisy_chop" THEN "no_trade" ELSE "trend_following",
   confidence |-> confidence, rr |-> rr, bars |-> candles]
MCSetups ==
  {Setup(1, "symbol_lock", "EURUSD", "institutional_continuation", "new_york_open", "A+", 96, 210, 9),
   Setup(2, "symbol_lock", "EURUSD", "institutional_continuation", "london_open", "A", 90, -100, 9),
   Setup(3, "no_trade", "US30", "institutional_continuation", "new_york_open", "A", 91, 180, 9),
   Setup(4, "memory_penalty", "XAUUSD", "noisy_chop", "new_york_open", "A+", 92, -100, 9),
   Setup(5, "risk_lock", "US30", "noisy_chop", "new_york_open", "A+", 97, 150, 9),
   Setup(6, "killzone", "XAUUSD", "noisy_chop", "dead_zone", "A+", 91, 50, 9),
   Setup(7, "symbol_lock", "BTCUSD", "institutional_continuation", "new_york_continuation", "A+", 93, 130, 9),
   Setup(8, "execution_anomaly", "US30", "noisy_chop", "new_york_open", "A", 88, 240, 0),
   Setup(9, "no_trade", "XAUUSD", "noisy_chop", "london_open", "B", 70, 110, 9)}

\* Promotion is asked of positions for an exit, and of blocked setups for an override.
MCRequests ==
  [symbol : {"XAUUSD", "EURUSD"}, grade : {"A+"}, confidence : {90}, block : {""}, used : {1}, bonus : {3},
   failing : {{}, {"kill_switch"}, {"active"}}, trade : MCTrades]
  \cup
  [symbol : {"XAUUSD"}, grade : {"A+"}, confidence : {84, 87, 90, 98},
   failing : {{}, {"regime"}, {"hard_rejection", "risk"}, {"news"}},
   block : {"", "portfolio_suppression", "symbol_lock", "no_trade"},
   used : {1, 2}, bonus : {-1, 9}, trade : {Trade(-100, 22, Steady, Steady, "b")}]

Engine  == INSTANCE ExecutionDesk
Manager == INSTANCE PositionManager
Paper   == INSTANCE PaperSession
Store   == INSTANCE SignalStore WITH Scans <- MCScans
Review  == INSTANCE PromotionReview
  WITH Trades <- MCTrades, Setups <- MCSetups, Requests <- MCRequests

engine_vars == <<phase, context, mode, orders, journaled, last, unclear, sent_on>>
manager_vars == <<status, price, stop, volume, todo, seen, initial_known, by_hand>>
paper_vars == <<step, scenario, walked, sl, taken, outcome, journal>>
store_vars == <<file, open_end, active, since, date, written, cuts, starts, untrimmed>>
review_vars == <<blocked, book, request, answers>>
desk_vars == <<vars, engine_vars, manager_vars, paper_vars>>
mc_vars == <<part, desk_vars, store_vars, review_vars>>

\* The parts that do not run keep their first state.
MCTypeOK ==
  /\ part = "bridge" => TypeOK
  /\ part = "engine" => Engine!TypeOK
  /\ part = "manager" => Manager!TypeOK
  /\ part = "paper" => Paper!TypeOK
  /\ part = "store" => Store!StoreTypeOK
  /\ part = "blocks" => Review!ReviewTypeOK
  /\ part = "exits" => Review!EfdeTypeOK
  /\ part = "promotions" => Review!PromotionTypeOK

\* Only the part that runs starts anywhere but in one fixed state, and the
\* reviews, when they do not run, hold nothing.
MCInit ==
  /\ part \in {"bridge", "engine", "manager", "paper", "store", "blocks", "exits", "promotions"}
  /\ Init /\ Engine!Init /\ Manager!Init /\ Paper!Init /\ Store!StoreInit
  /\ part # "manager" => price = RISK /\ stop = Manager!InitialStop /\ initial_known
  /\ part # "paper" => scenario = "A"
  /\ IF part \in {"blocks", "exits", "promotions"}
     THEN request = (CHOOSE r \in MCRequests : TRUE) /\ Review!PromotionInit
     ELSE blocked = <<>> /\ book = <<>> /\ request = <<>> /\ answers = <<>>

Desk == UNCHANGED <<part, store_vars, review_vars>>
Reviewing == UNCHANGED <<part, desk_vars, store_vars>>

MCNext ==
  \/ part = "bridge" /\ Next /\ Desk /\ UNCHANGED <<engine_vars, manager_vars, paper_vars>>
  \/ part = "engine" /\ Engine!Next /\ Desk /\ UNCHANGED <<vars, manager_vars, paper_vars>>
  \/ part = "manager" /\ Manager!Next /\ Desk /\ UNCHANGED <<vars, engine_vars, paper_vars>>
  \/ part = "paper" /\ Paper!Next /\ Desk /\ UNCHANGED <<vars, engine_vars, manager_vars>>
  \/ part = "store" /\ Store!StoreNext /\ UNCHANGED <<part, desk_vars, review_vars>>
  \/ part = "blocks" /\ Review!BlockSetup /\ Reviewing /\ UNCHANGED <<book, request, answers>>
  \/ part = "exits" /\ Review!ReplayTrades /\ Reviewing /\ UNCHANGED <<blocked, request, answers>>
  \/ part = "promotions" /\ Review!AskPromotion /\ Reviewing /\ UNCHANGED <<blocked, book>>

MCSpec == MCInit /\ [][MCNext]_mc_vars

EngineBooksAreHonest == Engine!UnsaidIsNoLeave /\ Engine!JournalWithinUnclear
CareTakesNothingBack == Manager!CareTakesNothingBack
PartialOnlyAt2R == Manager!PartialOnlyAt2R
DrillOutcomeHonest == Paper!DrillOutcomeHonest
StoreKeepsTheNewest == Store!StoreKeepsTheNewest
EarlyExitsAreAccounted == part = "exits" => Review!EarlyExitsAreAccounted
\* The reviews of blocked setups, and the promotions that follow from them.
ReviewsAreHindsight ==
  /\ part = "blocks" => Review!BlockReviewIsHindsight /\ Review!CandidatesAreDecidedBeforehand
  /\ part = "promotions" => Review!PromotionsKeepTheirBounds
=============================================================================
