----------------------------- MODULE MarketWatch -----------------------------
(* backend/market_watch_engine: the pattern a context shows, the scores and   *)
(* grades of three strategies on it, and the strategy the watch publishes.    *)
(* Scores are whole points; their weighted forms are hundredths of a point.   *)
(* Rounding is Python's, a half to the even neighbour; where the code rounds  *)
(* or truncates a binary fraction that lies on the border, the model takes    *)
(* the exact value, one hundredth of edge or one point apart at most.         *)
EXTENDS Integers, Sequences, FiniteSetsExt, SequencesExt

CONSTANT
  Contexts     \* what may be analysed, see NoContext for a context's parts

VARIABLES
  context,     \* the last context analysed
  watch        \* what was published for it

watch_vars == <<context, watch>>

Strategies == <<"ict_liquidity", "trend_following", "mean_reversion">>
ict == "ict_liquidity"
trend == "trend_following"
mean == "mean_reversion"
NoTrade == "no_trade"

\* A context: where, the yes-or-no findings that are true of it, the numbers it
\* gives (never zero), the closed candles and whether risk, news, readiness or
\* the guardrails forbid an advice.
NoContext == [symbol |-> "US30", session |-> "none", marks |-> {}, scores |-> <<>>, bars |-> <<>>,
              vetoed |-> FALSE]

Clamp(x) == Max({0, Min({100, x})})
Distance(a, b) == IF a > b THEN a - b ELSE b - a
Rounded(part, whole) ==
  LET low == part \div whole
      twice == 2 * (part % whole)
  IN IF twice > whole \/ (twice = whole /\ low % 2 = 1) THEN low + 1 ELSE low
Points(hundredths) == Clamp(Rounded(hundredths, 100))

\* A key the context has not, and with "or" a zero, stands for the default.
Said(c, key, default) == IF key \in DOMAIN c.scores THEN c.scores[key] ELSE default
OrElse(c, key, default) == IF Said(c, key, 0) = 0 THEN default ELSE c.scores[key]
Bonus(condition, points) == IF condition THEN points ELSE 0

\* --- sessions ---------------------------------------------------------------
Rule(quality, status) == [quality |-> quality, status |-> status]

SessionRules ==
  [US30   |-> [new_york_open |-> Rule(92, "preferred"), new_york_continuation |-> Rule(90, "preferred"),
               london_open |-> Rule(35, "weak"), london_continuation |-> Rule(0, "blocked")],
   XAUUSD |-> [new_york_open |-> Rule(88, "preferred"), new_york_continuation |-> Rule(64, "caution"),
               london_open |-> Rule(45, "diagnostic_only"), london_continuation |-> Rule(25, "avoid")],
   BTCUSD |-> [asia |-> Rule(58, "observer"), new_york_open |-> Rule(55, "observer"),
               new_york_continuation |-> Rule(55, "observer"), weekend |-> Rule(50, "observer")],
   NAS100 |-> [new_york_open |-> Rule(84, "observer"), new_york_continuation |-> Rule(82, "observer"),
               london_open |-> Rule(30, "observer_weak"),
               london_continuation |-> Rule(0, "observer_blocked")],
   EURUSD |-> [london_open |-> Rule(40, "observer_only"), new_york_open |-> Rule(38, "observer_only")],
   GBPUSD |-> [london_open |-> Rule(25, "disabled"), new_york_open |-> Rule(25, "disabled")]]

Session(symbol, name) ==
  LET rules == IF symbol \in DOMAIN SessionRules THEN SessionRules[symbol] ELSE <<>>
  IN IF name \in DOMAIN rules THEN rules[name]
     ELSE Rule(IF symbol \in {"EURUSD", "GBPUSD"} THEN 20 ELSE 50, "neutral")

\* --- the pattern ------------------------------------------------------------
\* candle_stats: fewer than two bars say nothing.
Stats(bars) ==
  LET n == Len(bars)
      Extent(i) == Max({bars[i].high - bars[i].low, 0})
      recent == {i \in 1..n : i > n - 5}
      top == Max({bars[i].high : i \in 1..n})
      bottom == Min({bars[i].low : i \in 1..n})
  IN IF n < 2 THEN [known |-> FALSE]
     ELSE [known |-> TRUE, bars |-> n, total |-> MapThenSumSet(Extent, 1..n),
           recent |-> MapThenSumSet(Extent, recent), recent_bars |-> Cardinality(recent),
           net |-> Distance(bars[n].close, bars[1].close), full |-> top - bottom,
           off |-> Distance(2 * bars[n].close, top + bottom)]

Part(points, part, whole) == IF whole = 0 THEN 0 ELSE (points * part) \div whole

\* The scores a context does not give, from the candles or from nothing.
Fallback(c, s) ==
  LET travelled == IF s.known THEN Clamp(Part(100, s.net, s.full)) ELSE 50
      strength == Said(c, "trend_strength", travelled)
      ranging == IF "range_phase" \in c.marks THEN 80
                 ELSE IF ~s.known THEN 30
                 ELSE IF s.full = 0 THEN 80 ELSE Part(80, s.full - s.net, s.full)
      range == Said(c, "range_score", ranging)
      \* The recent average range over the whole average, as a fraction.
      now == s.recent * s.bars
      usual == s.total * s.recent_bars
  IN [trend_strength |-> travelled,
      range_score |-> ranging,
      compression_score |-> IF ~s.known THEN 30 ELSE IF usual = 0 THEN 100
                            ELSE Part(100, usual - Min({now, usual}), usual),
      exhaustion_score |-> IF "exhaustion" \in c.marks THEN 80 ELSE IF ~s.known THEN 35
                           ELSE Part(50, s.off, s.full),
      volatility_expansion |-> IF ~s.known THEN 40 ELSE Clamp(Part(75, now, usual)),
      overextension_score |-> IF ~s.known THEN Min({70, strength})
                              ELSE IF s.full = 0 THEN strength \div 5
                              ELSE Clamp((200 * s.off + s.full * strength) \div (5 * s.full)),
      noise_score |-> IF ~s.known THEN 25
                      ELSE IF range > 70 /\ s.net * s.bars < s.total THEN 75
                      ELSE 100 - Part(100, s.net, s.full)]

\* The name of the first rule that applies; the last one always does.
FirstRule(rules) == rules[Min({i \in DOMAIN rules : rules[i][1]})][2]

Dominant(p, sweep, mss) ==
  FirstRule(
    << <<p.noise_score >= 70, "noisy_chop">>,
       <<sweep /\ (mss \/ p.exhaustion_score >= 50), "liquidity_sweep_reversal">>,
       <<p.compression_score >= 65 /\ p.volatility_expansion >= 50, "compression_breakout">>,
       <<p.trend_strength >= 70 /\ p.range_score < 55, "trend_continuation">>,
       <<p.range_score >= 65 /\ p.overextension_score >= 45, "range_mean_reversion">>,
       <<p.exhaustion_score >= 70, "exhaustion_reversal">>,
       <<TRUE, "no_clear_pattern">> >>)

Detect(c) ==
  LET Valued(fallback) == [key \in DOMAIN fallback |-> Clamp(Said(c, key, fallback[key]))]
      Shown(scores, sweep, mss) ==
        [scores |-> scores, sweep |-> sweep, mss |-> mss, dominant |-> Dominant(scores, sweep, mss)]
  IN Shown(Valued(Fallback(c, Stats(c.bars))), "sweep" \in c.marks, "mss" \in c.marks)

\* --- scores -----------------------------------------------------------------
Favoured(p) ==
  CASE p.dominant = "liquidity_sweep_reversal" -> ict
    [] p.dominant = "trend_continuation" -> trend
    [] p.dominant \in {"range_mean_reversion", "exhaustion_reversal"} -> mean
    [] OTHER -> NoTrade

RawScores(c, p, quality) ==
  LET s == p.scores
      marked(m, points) == Bonus(m \in c.marks, points)
      base ==
        [ict_liquidity |->
           2000 + Bonus(p.sweep, 2500) + Bonus(p.mss, 1800) + marked("fvg", 1300)
           + marked("order_block", 900) + 15 * quality
           + 8 * OrElse(c, "premium_discount_alignment", 50)
           + 7 * OrElse(c, "narrative_alignment", 50)
           + Bonus("smt" \in c.marks /\ Said(c, "smt_sample", 0) >= 10, 500),
         trend_following |->
           1500 + 35 * s.trend_strength + 18 * s.volatility_expansion
           + 16 * OrElse(c, "pullback_quality", 50) + 16 * OrElse(c, "continuation_structure", 50)
           + 15 * OrElse(c, "htf_alignment", 50),
         mean_reversion |->
           1500 + 25 * s.overextension_score + 25 * s.exhaustion_score + 18 * s.range_score
           + marked("failed_breakout", 1200) + Bonus(p.sweep, 1000)
           + 10 * OrElse(c, "fair_value_distance", 50)]
      shift(st) == IF p.dominant = "noisy_chop" THEN IF st = mean THEN -15 ELSE -20
                   ELSE Bonus(Favoured(p) = st, 8)
      final(st) == Clamp(Points(base[st]) + shift(st))
  IN [ict_liquidity |-> final(ict), trend_following |-> final(trend), mean_reversion |-> final(mean)]

\* --- grades -----------------------------------------------------------------
GradeOf(sum, parts) ==
  FirstRule(<< <<sum >= 82 * parts, "A+">>, <<sum >= 72 * parts, "A">>, <<sum >= 60 * parts, "B">>,
               <<sum >= 45 * parts, "C">>, <<TRUE, "REJECT">> >>)

Total(seq) == FoldSeq(LAMBDA x, y : x + y, 0, seq)
Graded(seq, rejected) ==
  [grade |-> IF rejected THEN "REJECT" ELSE GradeOf(Total(seq), Len(seq)),
   quality |-> Rounded(100 * Total(seq), Len(seq))]

IctParts(c, p, quality) ==
  LET Seen(m, yes, no) == IF m \in c.marks THEN yes ELSE no
      moved == IF p.scores.volatility_expansion = 0 THEN 45 ELSE p.scores.volatility_expansion
  IN << IF p.sweep THEN 90 ELSE 20, IF p.mss THEN 85 ELSE 20, OrElse(c, "displacement_score", moved),
        Seen("fvg", 80, 30), Seen("order_block", 76, 30), Seen("smt", 70, 40), quality,
        OrElse(c, "target_clarity", 75), OrElse(c, "narrative_alignment", 50) >>

TrendParts(c, p, quality) ==
  LET strength == p.scores.trend_strength
  IN << strength, OrElse(c, "htf_alignment", 45), OrElse(c, "pullback_quality", 50),
        p.scores.volatility_expansion,
        OrElse(c, "momentum_persistence", IF strength = 0 THEN 50 ELSE strength),
        OrElse(c, "target_clarity", 55), quality, 100 - p.scores.exhaustion_score >>

MeanParts(c, p, quality) ==
  LET failed == "failed_breakout" \in c.marks
  IN << p.scores.overextension_score, p.scores.exhaustion_score,
        IF p.scores.range_score = 0 THEN 45 ELSE p.scores.range_score,
        OrElse(c, "fair_value_distance", 50), IF p.sweep \/ failed THEN 85 ELSE 35,
        IF failed THEN 75 ELSE 45, OrElse(c, "target_clarity", 55), quality >>

\* What at least three of must speak for a reversion.
Confirmations(parts, p) ==
  LET least == <<70, 65, 101, 65, 70, 101, 60, 50>>
  IN Cardinality({i \in DOMAIN parts : parts[i] >= least[i]}) + Bonus(p.scores.range_score >= 45, 1)

GradeAll(c, p, quality) ==
  LET noisy == p.scores.noise_score >= 60
  IN [ict_liquidity |-> Graded(IctParts(c, p, quality), ~p.sweep \/ ~p.mss \/ noisy),
      trend_following |-> Graded(TrendParts(c, p, quality), p.scores.trend_strength < 70 \/ noisy),
      mean_reversion |-> Graded(MeanParts(c, p, quality),
                                Confirmations(MeanParts(c, p, quality), p) < 3 \/ noisy)]

\* --- the router: score, quality and what such setups used to earn -----------
NoEdge == [strategy |-> NoTrade, grade |-> "REJECT", edge |-> 0]

\* Profit factor and R in hundredths, win rate in tenths of a percent.
Expected ==
  [g \in {"A+", "A", "B", "C"} |->
     CASE g = "A+" -> [pf |-> 285, wr |-> 735, rr |-> 52]
       [] g = "A"  -> [pf |-> 225, wr |-> 684, rr |-> 38]
       [] g = "B"  -> [pf |-> 148, wr |-> 582, rr |-> 14]
       [] g = "C"  -> [pf |-> 72, wr |-> 431, rr |-> -16]]

Factor(table, key) == IF key \in DOMAIN table THEN table[key] ELSE 100
StrategyFactors == [ict_liquidity |-> 75, trend_following |-> 112, mean_reversion |-> 118]
SessionFactors == [new_york_open |-> 105, new_york_continuation |-> 108, london_open |-> 95,
                   london_continuation |-> 60, asia |-> 75]
PatternFactors == [trend_continuation |-> 115, liquidity_sweep_reversal |-> 85,
                   range_mean_reversion |-> 105, compression_breakout |-> 82,
                   exhaustion_reversal |-> 102, noisy_chop |-> 0, no_clear_pattern |-> 40]

\* The edge score in hundredths; the factor is in millionths.
EdgeScore(strategy, grade, session, pattern) ==
  LET base == Expected[grade]
      factor == Factor(StrategyFactors, strategy) * Factor(SessionFactors, session)
                * Factor(PatternFactors, pattern)
      pf == Rounded(base.pf * factor, 1000000)
      wr == Min({8500, Rounded(base.wr * Min({1150000, factor}), 100000)})
  IN Rounded(250 * pf + 6 * wr + 200 * base.rr, 10)

Edge(c, p, raw, grades, strategy) ==
  IF grades[strategy].grade = "REJECT" THEN 0
  ELSE Rounded(100 * raw[strategy] + grades[strategy].quality
               + 2 * EdgeScore(strategy, grades[strategy].grade, c.session, p.dominant), 4)

\* The first of the strategies with the highest value.
Highest(value) == FirstRule([i \in 1..3 |-> <<\A s \in DOMAIN value : value[s] <= value[Strategies[i]],
                                              Strategies[i]>>])

Routed(c, p, raw, grades) ==
  LET final(s) == Edge(c, p, raw, grades, s)
      edge == [ict_liquidity |-> final(ict), trend_following |-> final(trend),
               mean_reversion |-> final(mean)]
      best == Highest(edge)
  IN IF grades[best].grade = "REJECT" \/ edge[best] < 7500 THEN NoEdge
     ELSE [strategy |-> best, grade |-> grades[best].grade, edge |-> edge[best]]

\* --- the selector -----------------------------------------------------------
THRESHOLD == 70
WEIGHTED_THRESHOLD == 7500
SESSION_QUALITY == 50

\* Mutated form: an ICT entry without a structure shift keeps its weight.
WeightedAllAlike(c, p, raw) ==
  LET times(s, multiplier) ==
        IF p.dominant = "noisy_chop" THEN 0 ELSE Min({10000, raw[s] * multiplier})
  IN [ict_liquidity |-> times(ict, 80), trend_following |-> times(trend, 120),
      mean_reversion |-> times(mean, 100)]

Weighted(c, p, raw) ==
  LET unproven == ~p.mss /\ Said(c, "smt_sample", 0) < 10
      times(s, multiplier) ==
        IF p.dominant = "noisy_chop" THEN 0 ELSE Min({10000, raw[s] * multiplier})
  IN [ict_liquidity |-> times(ict, IF unproven THEN 20 ELSE 80), trend_following |-> times(trend, 120),
      mean_reversion |-> times(mean, 100)]

SessionAcceptable(session) ==
  session.status \notin {"blocked", "disabled", "avoid"} /\ session.quality >= SESSION_QUALITY

Passes(raw, weighted, s) == raw[s] >= THRESHOLD /\ weighted[s] >= WEIGHTED_THRESHOLD

\* A tie goes to the strategy the pattern favours.
Best(p, session, weighted) ==
  LET high == session.quality >= 80
      bonus(s) == IF Favoured(p) # s THEN 0 ELSE IF s = ict /\ high THEN 4 ELSE 3
  IN Highest([s \in DOMAIN weighted |-> 5 * weighted[s] + bonus(s)])

Selected(strategy, status) == [strategy |-> strategy, status |-> status]

Select(c, p, session, raw) ==
  LET weighted == Weighted(c, p, raw)
      chosen == IF p.dominant = "trend_continuation" /\ Passes(raw, weighted, trend) THEN trend
                ELSE Best(p, session, weighted)
  IN IF c.vetoed THEN Selected(NoTrade, "BLOCKED")
     ELSE IF \/ p.dominant = "noisy_chop"
             \/ ~SessionAcceptable(session)
             \/ ~Passes(raw, weighted, chosen) THEN Selected(NoTrade, "NO_TRADE")
     ELSE Selected(chosen, "ADVISORY_SELECTED")

\* --- the plan ---------------------------------------------------------------
\* Where each strategy takes its entry from, first found first, and its stop.
Levels ==
  [ict_liquidity |-> [entry |-> <<"fvg_midpoint", "order_block_midpoint", "sweep_entry">>,
                      stop |-> "sweep_extreme"],
   trend_following |-> [entry |-> <<"pullback_structure", "pullback_fvg", "break_retest">>,
                        stop |-> "continuation_invalidation"],
   mean_reversion |-> [entry |-> <<"failed_breakout_entry", "raid_rejection_entry", "fair_value_entry">>,
                       stop |-> "exhaustion_extreme"]]

Plan(c, strategy) ==
  IF strategy = NoTrade THEN [ready |-> FALSE, entry |-> 0, stop |-> 0]
  ELSE [ready |-> TRUE, stop |-> Said(c, Levels[strategy].stop, 0),
        entry |-> FoldRight(LAMBDA key, rest : OrElse(c, key, rest), Levels[strategy].entry, 0)]

\* --- the engine -------------------------------------------------------------
\* analyze: what the router finds replaces the selector's choice, and only that.
Analyze(c) ==
  LET Published(routed, selection) ==
        IF selection.status = "ADVISORY_SELECTED" /\ routed.strategy # NoTrade
        THEN routed.strategy ELSE selection.strategy
      Watched(session, p, raw, grades, routed, selection) ==
        [pattern |-> p, session |-> session, raw |-> raw, weighted |-> Weighted(c, p, raw),
         grades |-> [s \in DOMAIN grades |-> grades[s].grade], routed |-> routed,
         selection |-> selection, published |-> Published(routed, selection),
         plan |-> Plan(c, Published(routed, selection))]
      Judged(session, p, raw, grades) ==
        Watched(session, p, raw, grades, Routed(c, p, raw, grades), Select(c, p, session, raw))
      Seen(session, p) ==
        Judged(session, p, RawScores(c, p, session.quality), GradeAll(c, p, session.quality))
  IN Seen(Session(c.symbol, c.session), Detect(c))

WatchInit == context = NoContext /\ watch = Analyze(NoContext)

\* A context arrives: the command center's for one symbol, or a report's.
Watch ==
  /\ context = NoContext
  /\ \E c \in Contexts : context' = c /\ watch' = Analyze(c)

WatchTypeOK ==
  /\ DOMAIN context = DOMAIN NoContext
  /\ watch.published \in Range(Strategies) \cup {NoTrade}
  /\ watch.selection.strategy \in Range(Strategies) \cup {NoTrade}
  /\ watch.routed.strategy \in Range(Strategies) \cup {NoTrade}
  /\ \A s \in Range(Strategies) : /\ watch.raw[s] \in 0..100
                                  /\ watch.weighted[s] \in 0..10000
                                  /\ watch.grades[s] \in {"A+", "A", "B", "C", "REJECT"}
  /\ watch.plan.ready <=> watch.published # NoTrade

\* What the command center gives: no candles and no scores of its own.
Live(c) == c.bars = <<>> /\ DOMAIN c.scores \subseteq {"narrative_alignment"}

\* An advice survives two judges that do not know of each other, the selector
\* with its weights and the router with its grades, and neither one's blind spot
\* lets through what both are there to stop: a vetoed symbol, chop, a session
\* not acceptable, an ICT entry with neither a structure shift nor a proven SMT
\* sample.  The command center's contexts carry no strength of trend, so there
\* the only advice is ICT's, on a sweep and a structure shift.
WatchAdviceHasGrounds ==
  watch.published # NoTrade =>
    /\ ~context.vetoed /\ watch.pattern.dominant # "noisy_chop"
    /\ SessionAcceptable(watch.session)
    /\ watch.published = ict => watch.pattern.mss \/ Said(context, "smt_sample", 0) >= 10
    /\ Live(context) => /\ watch.published = ict
                        /\ {"sweep", "mss"} \subseteq context.marks
=============================================================================
