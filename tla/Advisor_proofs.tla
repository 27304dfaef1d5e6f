--------------------------- MODULE Advisor_proofs ---------------------------
(***************************************************************************)
(* Proofs about the advising side, for all values of its constants: the live *)
(* monitor's alerts, the supervisor's daily digest, the verdict on a setup,  *)
(* lots, the emergency week, the news lock, the mirrored chart, and what is   *)
(* told of a decision.                                                       *)
(***************************************************************************)
EXTENDS MCAdvisor, FiniteSetTheorems, WellFoundedInduction, TLAPS

-----------------------------------------------------------------------------
(* The live monitor.  Symbols are alerted in the order of the scan: up to the *)
(* one at hand each has been judged by what it shows now, and from there on   *)
(* each is still remembered as it was a scan ago (Alerting).                  *)

\* Nothing is remembered of s, or he was told, or there is a cause.
Accounted(s) == previous[s] = NoState \/ (Ready(previous[s]) <=> s \in told) \/ s \in excused

Alerting ==
  /\ at \in 1..Len(Order)
  /\ \A i \in 1..Len(Order) :
       IF i < at THEN previous[Order[i]] = result[Order[i]].state
                      /\ (Order[i] \in Producers => Accounted(Order[i]))
       ELSE previous[Order[i]] = before[Order[i]]

MonitorInv ==
  /\ previous \in [Symbols -> States \cup {NoState}] /\ before \in [Symbols -> States \cup {NoState}]
  /\ \A s \in Symbols : result[s].state \in States \cup {NoState}
  /\ phase \in {"down", "sleeping", "alerting", "journaling", "collecting"}
  /\ phase = "sleeping" => previous = before
  /\ phase = "alerting" => Alerting
  /\ phase \in {"journaling", "collecting"} => \A s \in Symbols : previous[s] = result[s].state
  /\ phase \in {"sleeping", "journaling", "collecting"} => \A s \in Producers : Accounted(s)

LEMMA MonitorInit == Init => MonitorInv
BY DEF Init, MonitorInv, NoResult, Accounted, Producers

\* A like message that is let through when the change has a name.
LEMMA Heard ==
  ASSUME MonitorInv, Alerting, phase = "alerting",
         NEW sent \in BOOLEAN, Order[at] \in Producers,
         ~Unheard(Order[at], sent)
  PROVE  LET now == result[Order[at]]
             transition == DetectTransition(previous[Order[at]], now.state, blocked, locked)
         IN sent /\ Triggers(Order[at], transition, now.score)
<1> DEFINE s == Order[at]
           was == previous[s]
           now == result[s].state
<1>1. was = before[s]
  BY DEF Alerting
<1>2. ~blocked /\ ~locked /\ sent
  BY DEF Unheard
<1>3. PICK r \in Rungs : r.from = before[s] /\ r.to = now /\ ~(since[s, r.name] < COOLDOWN)
  BY DEF Unheard
<1>4. DetectTransition(was, now, blocked, locked) = r.name /\ r.name # "none"
  <2>1. CASE r = [from |-> "HOT", to |-> "EXECUTION_READY", name |-> "HOT_TO_EXECUTION_READY"]
    BY <1>1, <1>2, <1>3, <2>1 DEF DetectTransition
  <2>2. CASE r \in [from : {"EXECUTION_READY"}, to : {"HOT", "WARM", "COLD"},
                    name : {"EXECUTION_READY_TO_LOWER"}]
    BY <1>1, <1>2, <1>3, <2>2 DEF DetectTransition
  <2> QED
    BY <2>1, <2>2 DEF Rungs
<1> QED
  BY <1>2, <1>3, <1>4 DEF Triggers, InCooldown

\* Alert judges the symbol at hand: it is remembered, and accounted for.
LEMMA AlertJudges ==
  ASSUME MonitorInv, Alert, NEW s \in Symbols, s = Order[at]
  PROVE  /\ previous' = [previous EXCEPT ![s] = result[s].state]
         /\ \A u \in Producers \ {s} :
              (u \in told' <=> u \in told) /\ (u \in excused' <=> u \in excused)
         /\ s \in Producers => Accounted(s)'
<1> DEFINE now == result[s]
           transition == DetectTransition(previous[s], now.state, blocked, locked)
           triggered == Triggers(s, transition, now.score)
<1>1. Alerting /\ phase = "alerting"
  BY DEF MonitorInv, Alert
<1>2. previous' = [previous EXCEPT ![s] = now.state] /\ UNCHANGED <<blocked, locked, result, before>>
  BY DEF Alert
<1>3. ASSUME s \notin Producers
      PROVE  told' = told /\ excused' = excused
  BY <1>3 DEF Alert
<1>4. ASSUME s \in Producers
      PROVE  \E sent \in BOOLEAN :
               /\ told' = IF ~(triggered /\ sent) THEN told
                          ELSE IF Ready(now.state) THEN told \cup {s} ELSE told \ {s}
               /\ excused' = IF Ready(now.state) <=> s \in told' THEN excused \ {s}
                             ELSE IF Unheard(s, sent) THEN excused \cup {s} ELSE excused
  BY <1>4 DEF Alert, SendTelegramAlert
<1> HIDE DEF triggered, transition
<1>5. \A u \in Producers \ {s} :
        (u \in told' <=> u \in told) /\ (u \in excused' <=> u \in excused)
  BY <1>3, <1>4
<1>6. ASSUME s \in Producers PROVE Accounted(s)'
  <2>1. PICK sent \in BOOLEAN :
               /\ told' = IF ~(triggered /\ sent) THEN told
                          ELSE IF Ready(now.state) THEN told \cup {s} ELSE told \ {s}
               /\ excused' = IF Ready(now.state) <=> s \in told' THEN excused \ {s}
                             ELSE IF Unheard(s, sent) THEN excused \cup {s} ELSE excused
    BY <1>4, <1>6
  <2>2. previous'[s] = now.state
    BY <1>1, <1>2 DEF MonitorInv
  <2>3. CASE Unheard(s, sent)
    <3>1. (Ready(now.state) <=> s \in told') \/ s \in excused'
      BY <2>1, <2>3
    <3> QED
      BY <2>2, <3>1 DEF Accounted
  <2>4. CASE ~Unheard(s, sent)
    <3>1. triggered /\ sent
      BY <1>1, <1>6, <2>4, Heard DEF triggered, transition
    <3>2. Ready(now.state) <=> s \in told'
      BY <2>1, <3>1
    <3> QED
      BY <2>2, <3>2 DEF Accounted
  <2> QED
    BY <2>3, <2>4
<1> QED
  BY <1>2, <1>5, <1>6

LEMMA AlertStep ==
  ASSUME MonitorInv, Alert
  PROVE  MonitorInv'
<1>1. /\ Alerting /\ phase = "alerting" /\ at \in 1..Len(Order)
      /\ previous \in [Symbols -> States \cup {NoState}]
      /\ \A u \in Symbols : result[u].state \in States \cup {NoState}
  BY DEF MonitorInv, Alert, Alerting
<1>2. PICK s \in Symbols : s = Order[at]
  BY <1>1, MonitorAssumption
<1>3. /\ previous' = [previous EXCEPT ![s] = result[s].state]
      /\ \A u \in Producers \ {s} :
           (u \in told' <=> u \in told) /\ (u \in excused' <=> u \in excused)
      /\ s \in Producers => Accounted(s)'
  BY <1>2, AlertJudges
<1>4. /\ UNCHANGED <<result, before>>
      /\ IF at < Len(Order) THEN at' = at + 1 /\ phase' = "alerting"
         ELSE at' = 1 /\ phase' = "journaling"
  BY <1>1 DEF Alert
<1>5. \A u \in Producers \ {s} : Accounted(u) => Accounted(u)'
  BY <1>1, <1>3 DEF Accounted, Producers
<1>6. \A i \in 1..Len(Order) : Order[i] \in Symbols /\ (Order[i] = s <=> i = at)
  BY <1>1, <1>2, MonitorAssumption, SMTT(30)
<1>7. \A i \in 1..Len(Order) : i <= at =>
        /\ previous'[Order[i]] = result'[Order[i]].state
        /\ Order[i] \in Producers => Accounted(Order[i])'
  <2> SUFFICES ASSUME NEW i \in 1..Len(Order), i <= at
               PROVE  /\ previous'[Order[i]] = result'[Order[i]].state
                      /\ Order[i] \in Producers => Accounted(Order[i])'
    OBVIOUS
  <2>1. CASE i = at
    BY <1>1, <1>2, <1>3, <1>4, <2>1
  <2>2. CASE i < at
    BY <1>1, <1>3, <1>4, <1>5, <1>6, <2>2 DEF Alerting
  <2> QED
    BY <1>1, <2>1, <2>2
<1>8. \A i \in 1..Len(Order) : i > at => previous'[Order[i]] = before'[Order[i]]
  BY <1>1, <1>3, <1>4, <1>6 DEF Alerting
<1>9. CASE at < Len(Order)
  <2>1. at' \in 1..Len(Order) /\ \A i \in 1..Len(Order) : (i < at' <=> i <= at)
    BY <1>1, <1>4, <1>9, MonitorAssumption, SMTT(30)
  <2>2. Alerting'
    BY <1>1, <1>7, <1>8, <2>1 DEF Alerting
  <2> QED
    BY <1>1, <1>3, <1>4, <1>9, <2>2 DEF MonitorInv
<1>10. CASE ~(at < Len(Order))
  <2>1. \A i \in 1..Len(Order) : i <= at
    BY <1>1, <1>10, MonitorAssumption
  <2>2. \A u \in Symbols : previous'[u] = result'[u].state /\ (u \in Producers => Accounted(u)')
    <3> TAKE u \in Symbols
    <3>1. PICK i \in 1..Len(Order) : Order[i] = u
      BY MonitorAssumption
    <3>2. i <= at
      BY <2>1
    <3> QED
      BY <1>7, <3>1, <3>2
  <2> QED
    BY <1>1, <1>3, <1>4, <1>10, <2>2 DEF MonitorInv, Producers
<1> QED
  BY <1>9, <1>10

LEMMA MonitorStep ==
  ASSUME MonitorInv, [Next]_monitor_vars
  PROVE  MonitorInv'
<1> USE DEF MonitorInv, Accounted
<1>1. CASE Assess
  <2>1. \A s \in Symbols : result'[s].state \in States \cup {NoState}
    <3>1. \A s \in Symbols : result'[s] \in Results(s)
      BY <1>1 DEF Assess
    <3>2. \A s \in Symbols : \A r \in Results(s) : r.state \in States
      <4>1. \A m \in Magnitudes : Classify(m).state \in {"HOT", "WARM", "COLD"}
        BY DEF Classify
      <4>2. \A r \in ObserverSees : r.state \in States
        BY <4>1 DEF ObserverSees, Unavailable, States
      <4>3. \A r \in [state : Bands, score : {0}, available : {TRUE}] : r.state \in Bands
        OBVIOUS
      <4>4. Unavailable.state \in States
        BY DEF Unavailable, States
      <4> QED
        BY <4>2, <4>3, <4>4, MonitorAssumption DEF Results
    <3> QED
      BY <3>1, <3>2
  <2>2. Alerting'
    BY <1>1, MonitorAssumption, SMTT(30) DEF Assess, Alerting
  <2> QED
    BY <1>1, <2>1, <2>2 DEF Assess
<1>2. CASE Journal
  BY <1>2 DEF Journal
<1>3. CASE Collect
  BY <1>3 DEF Collect, NoResult, Producers
<1>4. CASE Die
  BY <1>4 DEF Die, NoResult
<1>5. CASE Restart
  BY <1>5 DEF Restart, Producers
<1>6. CASE UNCHANGED monitor_vars
  <2>1. Alerting => Alerting'
    BY <1>6 DEF monitor_vars, Alerting
  <2> QED
    BY <1>6, <2>1 DEF monitor_vars
<1> QED
  BY <1>1, <1>2, <1>3, <1>4, <1>5, <1>6, AlertStep DEF Next

\* For any symbols, observers, scores and cooldown, and any scan order: what the
\* operator was last told of a symbol's readiness is right or has its cause.
THEOREM Silence == Spec => []SilenceHasCause
<1>1. MonitorInv => SilenceHasCause
  BY DEF MonitorInv, SilenceHasCause, Accounted
<1> QED
  BY <1>1, MonitorInit, MonitorStep, PTL DEF Spec

-----------------------------------------------------------------------------
(* The daily digest.  A healthy tick of the hour is paid for by a tick of     *)
(* waiting, and a round that finds the day unmarked in the hour sends         *)
(* (Patience); what was sent and not marked was a fault (Copied).             *)

Copied ==
  /\ mark <= day
  /\ IF loop = "sent" THEN mark # day /\ copies <= faults + 1
     ELSE IF mark = day THEN copies <= faults + 1 ELSE copies <= faults

Patience ==
  /\ ~mt5 \/ loop = "down" => calm = 0
  /\ loop = "sent" => Digest!InHour /\ wait = 0
  /\ mark # day => calm <= PAUSE /\ (Digest!InHour /\ loop # "down" => calm + wait <= PAUSE)

DigestInv == Digest!TypeOK /\ Copied /\ Patience

LEMMA DigestInit == Digest!Init => DigestInv
BY DigestAssumption
   DEF Digest!Init, DigestInv, Digest!TypeOK, Copied, Patience, Digest!PATIENCE

LEMMA TickStep ==
  ASSUME DigestInv, Digest!Tick
  PROVE  DigestInv'
<1> USE DigestAssumption DEF DigestInv, Digest!TypeOK, Digest!PATIENCE
<1>1. /\ day \in 1..DAYS /\ tick \in 0..DAY - 1 /\ wait \in 0..PAUSE /\ calm \in 0..PAUSE + 1
      /\ mark \in 0..DAYS /\ faults \in 0..MAX_FAULTS /\ copies \in 0..MAX_FAULTS + 1
      /\ loop \in {"down", "asleep"} /\ UNCHANGED <<mt5, loop, mark>>
  BY DEF Digest!Tick
<1>2. \/ /\ tick + 1 < DAY /\ tick' = tick + 1 /\ UNCHANGED <<day, copies, faults>>
      \/ /\ tick = DAY - 1 /\ day < DAYS /\ tick' = 0 /\ day' = day + 1 /\ copies' = 0 /\ faults' = 0
  BY <1>1 DEF Digest!Tick
<1>3. /\ wait' = IF loop = "asleep" THEN wait - 1 ELSE wait
      /\ loop = "asleep" => wait > 0
  BY DEF Digest!Tick
<1>4. \/ /\ Digest!InHour /\ mt5 /\ loop = "asleep"
         /\ calm' = IF calm < PAUSE + 1 THEN calm + 1 ELSE calm
      \/ calm' = 0
  BY DEF Digest!Tick
<1>5. Digest!TypeOK'
  BY <1>1, <1>2, <1>3, <1>4
<1>6. Copied'
  BY <1>1, <1>2 DEF Copied
<1>7. Patience'
  <2>1. (~mt5 \/ loop = "down" => calm = 0)'
    BY <1>1, <1>4
  <2>2. calm' + wait' <= calm + wait \/ calm' = 0
    BY <1>1, <1>3, <1>4
  <2>3. CASE day' = day
    BY <1>1, <1>3, <1>4, <2>1, <2>2, <2>3 DEF Patience
  <2>4. CASE day' # day
    <3>1. ~Digest!InHour
      BY <1>2, <2>4 DEF Digest!InHour
    <3> QED
      BY <1>1, <1>3, <1>4, <2>1, <3>1 DEF Patience
  <2> QED
    BY <2>3, <2>4
<1> QED
  BY <1>5, <1>6, <1>7

LEMMA DigestStep ==
  ASSUME DigestInv, [Digest!Next]_digest_vars
  PROVE  DigestInv'
<1> USE DigestAssumption DEF DigestInv, Digest!TypeOK, Digest!PATIENCE, Copied, Patience, Digest!InHour
<1>1. CASE Digest!TerminalStops
  <2>1. /\ loop # "sent" /\ mt5' \in BOOLEAN /\ calm' = 0
        /\ UNCHANGED <<day, tick, loop, wait, mark, copies, faults>>
    BY <1>1 DEF Digest!TerminalStops
  <2> QED
    BY <2>1
<1>1a. CASE Digest!TerminalReturns
  BY <1>1a DEF Digest!TerminalReturns
<1>2. CASE Digest!RoundWithoutTerminal
  BY <1>2 DEF Digest!RoundWithoutTerminal
<1>3. CASE Digest!RoundRaises
  BY <1>3 DEF Digest!RoundRaises
<1>4. CASE Digest!RoundWithoutDigest
  BY <1>4 DEF Digest!RoundWithoutDigest, Digest!Due
<1>5. CASE Digest!SendDigest
  <2>1. mark # day /\ tick \in Hour /\ loop = "asleep" /\ wait = 0
    BY <1>5 DEF Digest!SendDigest, Digest!Due
  <2>2. /\ mt5' = TRUE /\ loop' = "sent" /\ copies' \in {copies, copies + 1}
        /\ UNCHANGED <<day, tick, wait, mark, faults, calm>>
    BY <1>5 DEF Digest!SendDigest
  <2>3. copies \in Nat /\ copies <= faults
    BY <2>1
  <2> QED
    BY <2>1, <2>2, <2>3
<1>6. CASE Digest!WriteMark
  BY <1>6 DEF Digest!WriteMark
<1>7. CASE Digest!MarkUnwritten
  BY <1>7 DEF Digest!MarkUnwritten
<1>8. CASE Digest!Crash
  BY <1>8 DEF Digest!Crash
<1>9. CASE Digest!Start
  BY <1>9 DEF Digest!Start
<1>10. CASE UNCHANGED digest_vars
  BY <1>10 DEF digest_vars
<1> QED
  BY <1>1, <1>1a, <1>2, <1>3, <1>4, <1>5, <1>6, <1>7, <1>8, <1>9, <1>10, TickStep DEF Digest!Next

LEMMA DigestFrame == [MCNext]_mc_vars => [Digest!Next]_digest_vars
BY DEF MCNext, mc_vars, watching_vars, Watching, Deciding, Replaying, Limiting, digest_vars

\* For every length of the pause, the day and the hour: a second digest of a day
\* follows a fault between the message and the mark, and a calm stretch of the
\* hour as long as the pause and a round leaves the day marked.
THEOREM DigestMarked == MCSpec => []DigestKeepsItsMark
<1>1. DigestInv => DigestKeepsItsMark
  BY DigestAssumption
     DEF DigestInv, Copied, Patience, Digest!TypeOK, Digest!PATIENCE, DigestKeepsItsMark,
         Digest!DigestKeepsItsMark
<1>2. MCInit => DigestInv
  BY DigestInit DEF MCInit
<1>3. DigestInv /\ [MCNext]_mc_vars => DigestInv'
  BY DigestStep, DigestFrame
<1> QED
  BY <1>1, <1>2, <1>3, PTL DEF MCSpec

-----------------------------------------------------------------------------
(* The verdict on a setup.  The points are bounded part by part; without the  *)
(* four-hour trend, the sweep or the shift they stay below what the symbol's  *)
(* own divergence can lift over a threshold.                                  *)

LEMMA SmtPoints ==
  ASSUME NEW symbol, NEW r
  PROVE  /\ Brain!SmtWeight(symbol) \in 0..10
         /\ Brain!ScoreSmt(symbol, r) \in -10..Brain!SmtWeight(symbol)
         /\ r.smt # Brain!Direction(r) => Brain!ScoreSmt(symbol, r) <= 0
<1>1. Brain!SmtWeight(symbol) \in {0, 5, 7, 10}
  BY DEF Brain!SmtWeight
<1>2. Brain!ScoreSmt(symbol, r) \in {0, Brain!SmtWeight(symbol), -Brain!SmtWeight(symbol)}
  BY DEF Brain!ScoreSmt
<1>3. r.smt # Brain!Direction(r) =>
        Brain!ScoreSmt(symbol, r) \in {0, -Brain!SmtWeight(symbol)}
  BY DEF Brain!ScoreSmt
<1> QED
  BY <1>1, <1>2, <1>3

LEMMA TotalBounds ==
  ASSUME NEW symbol, NEW killzone, NEW r
  PROVE  LET side == Brain!Direction(r)
             total == Brain!TotalConfidence(symbol, killzone, r)
         IN /\ total \in 0..100
            /\ r.h4 # side \/ r.sweep = "none" \/ ~r.mss => total <= 80 + Brain!SmtWeight(symbol)
            /\ r.daily # side /\ r.smt # side => total <= 85
<1> DEFINE side == Brain!Direction(r)
           daily == Brain!Worth(15, r.daily = side)
           h4 == Brain!Worth(20, r.h4 = side)
           sweep == Brain!Worth(20, r.sweep # "none")
           mss == Brain!Worth(20, r.mss)
           fvg == Brain!FvgQuality(r.fvg)
           session == Brain!SessionQuality(killzone)
           target == Brain!Worth(5, Brain!ClearTarget(r))
           diverging == Brain!ScoreSmt(symbol, r)
           sum == daily + h4 + sweep + mss + fvg + session + target + diverging
<1>1. /\ daily \in 0..15 /\ h4 \in 0..20 /\ sweep \in 0..20 /\ mss \in 0..20 /\ target \in 0..5
      /\ (r.daily # side => daily = 0) /\ (r.h4 # side => h4 = 0)
      /\ (r.sweep = "none" => sweep = 0) /\ (~r.mss => mss = 0)
  BY DEF Brain!Worth
<1>2. fvg \in 0..15
  BY DEF Brain!FvgQuality
<1>3. session \in 0..5
  BY DEF Brain!SessionQuality
<1>4. /\ Brain!SmtWeight(symbol) \in 0..10 /\ diverging \in -10..Brain!SmtWeight(symbol)
      /\ r.smt # side => diverging <= 0
  BY SmtPoints
<1>5. Brain!TotalConfidence(symbol, killzone, r) = Brain!ClampScore(sum)
  BY DEF Brain!TotalConfidence
<1> HIDE DEF side, daily, h4, sweep, mss, fvg, session, target, diverging
<1>6. /\ sum \in Int
      /\ r.h4 # side \/ r.sweep = "none" \/ ~r.mss => sum <= 80 + Brain!SmtWeight(symbol)
      /\ r.daily # side /\ r.smt # side => sum <= 85
  <2> DEFINE weight == Brain!SmtWeight(symbol)
  <2>1. /\ fvg \in Int /\ fvg <= 15 /\ session \in Int /\ session <= 5 /\ weight \in Int /\ weight <= 10
        /\ diverging \in Int /\ diverging <= weight /\ (r.smt # side => diverging <= 0)
    BY <1>2, <1>3, <1>4
  <2>2. /\ daily \in Int /\ daily <= 15 /\ h4 \in Int /\ h4 <= 20 /\ sweep \in Int /\ sweep <= 20
        /\ mss \in Int /\ mss <= 20 /\ target \in Int /\ target <= 5
    BY <1>1
  <2> HIDE DEF weight
  <2>3. r.h4 # side \/ r.sweep = "none" \/ ~r.mss => sum <= 80 + weight
    <3>1. CASE h4 = 0
      BY <2>1, <2>2, <3>1
    <3>2. CASE sweep = 0
      BY <2>1, <2>2, <3>2
    <3>3. CASE mss = 0
      BY <2>1, <2>2, <3>3
    <3> QED
      BY <1>1, <3>1, <3>2, <3>3
  <2>4. r.daily # side /\ r.smt # side => sum <= 85
    <3> SUFFICES ASSUME r.daily # side, r.smt # side PROVE sum <= 85
      OBVIOUS
    <3>1. daily = 0 /\ diverging <= 0
      BY <1>1, <2>1
    <3> QED
      BY <2>1, <2>2, <3>1
  <2> QED
    BY <2>1, <2>2, <2>3, <2>4 DEF weight
<1> HIDE DEF sum
<1>7. /\ Brain!ClampScore(sum) \in 0..100 /\ (sum >= 0 => Brain!ClampScore(sum) <= sum)
      /\ sum < 0 => Brain!ClampScore(sum) = 0
  BY <1>6 DEF Brain!ClampScore
<1>8. /\ Brain!ClampScore(sum) \in 0..100
      /\ r.h4 # side \/ r.sweep = "none" \/ ~r.mss => Brain!ClampScore(sum) <= 80 + Brain!SmtWeight(symbol)
      /\ r.daily # side /\ r.smt # side => Brain!ClampScore(sum) <= 85
  BY <1>4, <1>6, <1>7
<1> QED
  BY <1>5, <1>8 DEF side

\* The guardrail lifts a score by less than lets the rest pass for execution.
LEMMA BandNeedsScore ==
  ASSUME NEW symbol, NEW killzone, NEW r, NEW veto,
         Brain!Decide(symbol, killzone, r, veto).band = "EXECUTION_READY"
  PROVE  Brain!TotalConfidence(symbol, killzone, r) > 80 + Brain!SmtWeight(symbol)
<1> DEFINE total == Brain!TotalConfidence(symbol, killzone, r)
           pair_reading == Brain!Smt(symbol, r)
           narrative == Brain!Phase(r)
           bonus == Brain!BonusTotal(symbol, killzone, pair_reading)
           penalty == Brain!PenaltyTotal(symbol, killzone, pair_reading, narrative)
           adjusted == Brain!AdjustedConfidence(symbol, total, killzone, pair_reading, narrative)
<1>1. Brain!GuardrailAdjustedBand(adjusted) = "EXECUTION_READY"
  BY DEF Brain!Decide, Brain!Guardrail, Brain!AdaptiveGuardrail, Brain!Result
<1>2. total \in 0..100
  BY TotalBounds
<1>3. penalty \in Nat
  BY DEF Brain!PenaltyTotal, Brain!Worth
<1>4. /\ bonus \in 0..8 /\ Brain!SmtWeight(symbol) \in 0..10
      /\ bonus + 80 + Brain!SmtWeight(symbol) < 95
  <2>1. bonus \in {0, 3, 5} /\ (bonus = 3 => symbol = "XAUUSD") /\ (bonus = 5 => symbol = "US30")
    BY DEF Brain!BonusTotal, Brain!Worth
  <2>2. /\ Brain!SmtWeight(symbol) \in {0, 5, 7, 10}
        /\ symbol = "XAUUSD" => Brain!SmtWeight(symbol) = 7
        /\ symbol = "US30" => Brain!SmtWeight(symbol) = 5
    BY DEF Brain!SmtWeight
  <2> QED
    BY <2>1, <2>2
<1>5. adjusted = Brain!ClampScore(total + bonus - penalty)
  BY DEF Brain!AdjustedConfidence
<1> HIDE DEF total, pair_reading, narrative, bonus, penalty, adjusted
<1>6. adjusted \in 0..100 /\ adjusted >= 95
  <2>1. adjusted \in 0..100
    BY <1>2, <1>3, <1>4, <1>5 DEF Brain!ClampScore
  <2> QED
    BY <1>1, <2>1 DEF Brain!GuardrailAdjustedBand, Brain!BandForScore
<1>7. total + bonus - penalty >= 95
  BY <1>2, <1>3, <1>4, <1>5, <1>6 DEF Brain!ClampScore
<1>8. total > 80 + Brain!SmtWeight(symbol)
  BY <1>2, <1>3, <1>4, <1>7
<1> QED
  BY <1>8 DEF total

LEMMA ApprovalNeedsScore ==
  ASSUME NEW symbol, NEW killzone, NEW r, NEW veto,
         Brain!Decide(symbol, killzone, r, veto).approved
  PROVE  /\ Brain!TotalConfidence(symbol, killzone, r) >= 90
         /\ symbol \in Brain!ForexSymbols =>
              r.daily = Brain!Direction(r) /\ r.h4 = Brain!Direction(r) /\ r.sweep # "none"
<1>1. ~Brain!HardRejected(symbol, killzone, r, veto, Brain!TotalConfidence(symbol, killzone, r))
  BY DEF Brain!Decide
<1>2. Brain!TotalConfidence(symbol, killzone, r) \in 0..100
  BY TotalBounds
<1>3. Brain!MinimumConfidence(symbol) \in {90, 95}
  BY DEF Brain!MinimumConfidence
<1>4. ~(Brain!TotalConfidence(symbol, killzone, r) < Brain!MinimumConfidence(symbol))
  BY <1>1 DEF Brain!HardRejected
<1>5. Brain!TotalConfidence(symbol, killzone, r) >= 90
  BY <1>2, <1>3, <1>4
<1>6. ~Brain!ForexRejected(symbol, r) /\ Brain!Direction(r) # "none"
  BY <1>1 DEF Brain!HardRejected
<1> QED
  BY <1>5, <1>6 DEF Brain!ForexRejected

\* Without trend or sweep no symbol but EURUSD reaches its threshold, and for
\* EURUSD the forex rules ask for both.
LEMMA Supported ==
  ASSUME NEW symbol, NEW killzone, NEW r, NEW veto
  PROVE  LET side == Brain!Direction(r)
             decided == Brain!Decide(symbol, killzone, r, veto)
         IN /\ decided.approved => /\ r.h4 = side /\ r.sweep # "none"
                                   /\ r.daily = side \/ r.smt = side
            /\ decided.band = "EXECUTION_READY" => r.mss /\ r.sweep # "none" /\ r.h4 = side
<1> DEFINE side == Brain!Direction(r)
           total == Brain!TotalConfidence(symbol, killzone, r)
           decided == Brain!Decide(symbol, killzone, r, veto)
<1>1. /\ total \in 0..100
      /\ r.h4 # side \/ r.sweep = "none" \/ ~r.mss => total <= 80 + Brain!SmtWeight(symbol)
      /\ r.daily # side /\ r.smt # side => total <= 85
  BY TotalBounds
<1>2. Brain!SmtWeight(symbol) \in 0..10 /\ (symbol # "EURUSD" => Brain!SmtWeight(symbol) < 10)
  BY DEF Brain!SmtWeight
<1>3. ASSUME decided.approved
      PROVE  r.h4 = side /\ r.sweep # "none" /\ (r.daily = side \/ r.smt = side)
  <2>1. total >= 90 /\ (symbol = "EURUSD" => r.daily = side /\ r.h4 = side /\ r.sweep # "none")
    BY <1>3, ApprovalNeedsScore DEF Brain!ForexSymbols
  <2> HIDE DEF side, total, decided
  <2> QED
    BY <1>1, <1>2, <2>1
<1>4. ASSUME decided.band = "EXECUTION_READY"
      PROVE  r.mss /\ r.sweep # "none" /\ r.h4 = side
  <2>1. total > 80 + Brain!SmtWeight(symbol)
    BY <1>4, BandNeedsScore
  <2> HIDE DEF side, total, decided
  <2> QED
    BY <1>1, <1>2, <2>1
<1> QED
  BY <1>3, <1>4

\* What is published was decided of the very reading that is kept.
Judged ==
  \/ verdict.band = "COLD" /\ verdict.approved = FALSE
  \/ \E symbol, killzone, veto : verdict = Brain!Decide(symbol, killzone, reading, veto)

LEMMA BrainFrame == [MCNext]_mc_vars => [Brain!Next]_brain_vars
BY DEF MCNext, mc_vars, deciding_vars, Watching, Deciding, Replaying, Limiting, brain_vars,
       Brain!brain_vars

\* For every symbol, minute, veto and reading: no single analyzer carries a setup
\* through to approval or to the execution band.
THEOREM VerdictStands == MCSpec => []VerdictIsSupported
<1>1. MCInit => Judged
  BY DEF MCInit, Brain!Init, Judged
<1>2. Judged /\ [MCNext]_mc_vars => Judged'
  <2>1. CASE Brain!Next
    BY <2>1 DEF Brain!Next, Brain!Analyze, Judged
  <2>2. CASE UNCHANGED brain_vars
    BY <2>2 DEF brain_vars, Judged
  <2> QED
    BY <2>1, <2>2, BrainFrame DEF brain_vars
<1>3. Judged => VerdictIsSupported
  BY Supported DEF Judged, VerdictIsSupported, Brain!VerdictIsSupported, Brain!Approved, Brain!Side
<1> QED
  BY <1>1, <1>2, <1>3, PTL DEF MCSpec

-----------------------------------------------------------------------------
(* Lots.  Whatever was sized still follows from the order it was sized for    *)
(* (Sized), and a floored budget pays for its steps but not for two more.     *)

Sized ==
  /\ order \in [equity : Nat, cost : Nat]
  /\ planned = Sizing!CalculateLotSize(Sizing!Budget(order.equity), order.cost)
  /\ IF order.cost = 0 THEN executed = 0 ELSE executed \in Sizing!Preflight(order.equity, order.cost)
  /\ \/ entered = Sizing!NotEntered
     \/ /\ order.cost > 0
        /\ \E tilt \in {75, 150, 300} :
             \E stepped \in Sizing!Truncated(Sizing!Tilted(order.equity, tilt), order.cost) :
               LET lot == Sizing!ExecutorLot(stepped, order.cost, order.equity)
               IN entered = [tilt |-> tilt, lot |-> IF lot > 6 THEN 0 ELSE lot]

LEMMA SizingFrame == [MCNext]_mc_vars => [Sizing!SizingNext]_sizing_vars
BY DEF MCNext, mc_vars, deciding_vars, Watching, Deciding, Replaying, Limiting, sizing_vars,
       Sizing!sizing_vars

LEMMA SizedInit == MCInit => Sized
BY DEF MCInit, Sizing!SizingInit, Sizing!NoOrder, Sized, Sizing!CalculateLotSize

LEMMA SizedStep == Sized /\ [Sizing!SizingNext]_sizing_vars => Sized'
<1> SUFFICES ASSUME Sized, [Sizing!SizingNext]_sizing_vars PROVE Sized'
  OBVIOUS
<1>1. CASE Sizing!SizeOrder
  <2>1. PICK cost \in Costs, funds \in Equities :
          /\ order' = [equity |-> funds, cost |-> cost]
          /\ planned' = Sizing!CalculateLotSize(Sizing!Budget(funds), cost)
          /\ IF cost <= 0 THEN executed' = 0 ELSE executed' \in Sizing!Preflight(funds, cost)
    BY <1>1 DEF Sizing!SizeOrder
  <2>2. order = Sizing!NoOrder /\ UNCHANGED entered
    BY <1>1 DEF Sizing!SizeOrder
  <2>3. entered = Sizing!NotEntered
    BY <2>2 DEF Sized, Sizing!NoOrder
  <2>4. cost \in Nat /\ funds \in Nat
    BY SizingAssumption
  <2> QED
    BY <2>1, <2>2, <2>3, <2>4 DEF Sized
<1>2. CASE Sizing!EnterTilted
  BY <1>2 DEF Sizing!EnterTilted, Sized
<1>3. CASE UNCHANGED sizing_vars
  BY <1>3 DEF sizing_vars, Sized
<1> QED
  BY <1>1, <1>2, <1>3 DEF Sizing!SizingNext

LEMMA Scaled ==
  ASSUME NEW a \in Nat, NEW b \in Nat, NEW c \in Nat, a <= b
  PROVE  a * c \in Nat /\ a * c <= b * c
OBVIOUS

LEMMA LesserOfTwo ==
  ASSUME NEW a \in Nat, NEW b \in Nat
  PROVE  /\ Sizing!Min({a, b}) = (IF a <= b THEN a ELSE b)
         /\ Sizing!Max({a, b}) = (IF a <= b THEN b ELSE a)
BY DEF Sizing!Min, Sizing!Max

LEMMA Divided ==
  ASSUME NEW a \in Nat, NEW c \in Nat, c > 0
  PROVE  /\ a \div c \in Nat /\ a % c \in Nat /\ a % c < c
         /\ a = c * (a \div c) + (a % c)
<1>1. a \div c \in Nat
  OBVIOUS
<1>2. a % c \in Nat /\ a % c < c
  OBVIOUS
<1>3. a = c * (a \div c) + (a % c)
  OBVIOUS
<1> QED
  BY <1>1, <1>2, <1>3

\* Flooring loses less than a step, and truncation one step more at a multiple.
LEMMA StepsOfBudget ==
  ASSUME NEW budget \in Nat, NEW cost \in Nat, cost > 0, NEW stepped \in Sizing!Truncated(budget, cost)
  PROVE  /\ stepped \in Nat /\ stepped * Sizing!Loss(cost) <= budget
         /\ budget <= (stepped + 1) * Sizing!Loss(cost)
         /\ budget \div Sizing!Loss(cost) \in {stepped, stepped + 1}
         /\ (budget \div Sizing!Loss(cost)) * Sizing!Loss(cost) <= budget
<1> DEFINE loss == Sizing!Loss(cost)
           steps == budget \div loss
<1>1. loss \in Nat /\ loss > 0
  BY DEF Sizing!Loss
<1>2. stepped = steps \/ (budget % loss = 0 /\ budget > 0 /\ stepped = steps - 1)
  BY DEF Sizing!Truncated
<1> HIDE DEF loss
<1>3. /\ steps \in Nat /\ budget % loss \in Nat /\ budget % loss < loss
      /\ budget = loss * steps + (budget % loss)
  BY <1>1, Divided
<1> HIDE DEF steps
<1>4. /\ steps * loss \in Nat /\ steps * loss <= budget /\ budget < (steps + 1) * loss
      /\ budget % loss = 0 => steps * loss = budget
  <2>1. steps * loss \in Nat /\ loss * steps = steps * loss /\ (steps + 1) * loss = steps * loss + loss
    BY <1>1, <1>3
  <2> QED
    BY <1>1, <1>3, <2>1
<1>5. CASE stepped = steps
  BY <1>1, <1>3, <1>4, <1>5 DEF steps, loss
<1>6. CASE budget % loss = 0 /\ budget > 0 /\ stepped = steps - 1
  <2>1. steps > 0
    BY <1>1, <1>3, <1>4, <1>6
  <2>2. stepped * loss = steps * loss - loss
    BY <1>1, <1>3, <1>6
  <2>3. stepped \in Nat /\ stepped * loss <= budget /\ budget <= (stepped + 1) * loss
    BY <1>1, <1>3, <1>4, <1>6, <2>1, <2>2
  <2> QED
    BY <1>3, <1>4, <1>6, <2>3 DEF steps, loss
<1> QED
  BY <1>2, <1>5, <1>6

\* The minimum lot is paid for under the cap.
Capped(cost, funds) ==
  CAP_PERCENT > 0 /\ funds > 0 /\ 100 * MIN_STEPS * cost <= CAP_PERCENT * funds

LEMMA LotCases ==
  ASSUME NEW stepped \in Nat, NEW cost, NEW funds
  PROVE  LET lot == Sizing!ExecutorLot(stepped, cost, funds)
         IN /\ lot \in Nat
            /\ stepped >= MIN_STEPS =>
                 lot = (IF stepped <= MAX_STEPS THEN stepped ELSE MAX_STEPS) /\ lot >= MIN_STEPS
            /\ stepped < MIN_STEPS =>
                 lot = (IF Capped(cost, funds) THEN MIN_STEPS ELSE 0)
<1>1. /\ Sizing!Min({stepped, MAX_STEPS}) = (IF stepped <= MAX_STEPS THEN stepped ELSE MAX_STEPS)
      /\ Sizing!Min({MIN_STEPS, MAX_STEPS}) = MIN_STEPS
  BY SizingAssumption, LesserOfTwo
<1>2. CASE stepped >= MIN_STEPS
  BY <1>1, <1>2, SizingAssumption DEF Sizing!ExecutorLot
<1>3. CASE stepped < MIN_STEPS
  BY <1>1, <1>3, SizingAssumption DEF Sizing!ExecutorLot, Capped
<1> QED
  BY <1>2, <1>3, SizingAssumption

LEMMA SizedInBudget == Sized => Sizing!LotsStayInBudget
<1> SUFFICES ASSUME Sized PROVE Sizing!LotsStayInBudget
  OBVIOUS
<1> DEFINE cost == order.cost
           part_of == order.equity * RISK_PERCENT
           loss == Sizing!Loss(cost)
           limit == CAP_PERCENT * order.equity
<1>1. /\ cost \in Nat /\ order.equity \in Nat /\ part_of \in Nat /\ limit \in Nat /\ loss \in Nat
      /\ loss = 10000 * cost /\ part_of <= limit /\ (part_of > 0 <=> order.equity > 0)
      /\ Sizing!Budget(order.equity) = 100 * part_of
      /\ MIN_STEPS \in Nat /\ MIN_STEPS > 0 /\ MIN_STEPS <= 6 /\ MAX_STEPS \in Nat /\ MIN_STEPS <= MAX_STEPS
  <2>1. cost \in Nat /\ order.equity \in Nat
    BY DEF Sized
  <2>2. part_of \in Nat /\ limit \in Nat /\ part_of <= limit /\ (part_of > 0 <=> order.equity > 0)
    BY <2>1, SizingAssumption
  <2>3. loss = 10000 * cost /\ Sizing!Budget(order.equity) = 100 * part_of
    BY DEF Sizing!Loss, Sizing!Budget
  <2> HIDE DEF cost, part_of, loss, limit
  <2> QED
    BY <2>1, <2>2, <2>3, SizingAssumption
<1>2. CASE cost = 0
  <2>1. planned = 0 /\ executed = 0 /\ entered = Sizing!NotEntered
    BY <1>1, <1>2 DEF Sized, Sizing!CalculateLotSize
  <2> QED
    BY <1>1, <1>2, <2>1 DEF Sizing!LotsStayInBudget
<1>3. CASE cost > 0
  <2>1. PICK stepped \in Sizing!Truncated(100 * part_of, cost) :
          executed = Sizing!ExecutorLot(stepped, cost, order.equity)
    BY <1>1, <1>3 DEF Sized, Sizing!Preflight
  <2> DEFINE capped == Capped(cost, order.equity)
  <2>2. capped <=> CAP_PERCENT > 0 /\ order.equity > 0 /\ MIN_STEPS * loss <= 100 * limit
    <3>1. MIN_STEPS * loss = 10000 * (MIN_STEPS * cost) /\ 100 * MIN_STEPS * cost = 100 * (MIN_STEPS * cost)
      BY <1>1
    <3>2. MIN_STEPS * cost \in Nat
      BY <1>1
    <3> QED
      BY <1>1, <3>1, <3>2 DEF Capped
  <2>3. /\ stepped \in Nat /\ stepped * loss <= 100 * part_of /\ 100 * part_of <= (stepped + 1) * loss
        /\ (100 * part_of) \div loss \in {stepped, stepped + 1}
        /\ ((100 * part_of) \div loss) * loss <= 100 * part_of
    <3> DEFINE budget == 100 * part_of
    <3>1. budget \in Nat
      BY <1>1
    <3>2. stepped \in Sizing!Truncated(budget, cost)
      OBVIOUS
    <3> HIDE DEF budget, part_of
    <3>3. /\ stepped \in Nat /\ stepped * loss <= budget /\ budget <= (stepped + 1) * loss
          /\ budget \div loss \in {stepped, stepped + 1} /\ (budget \div loss) * loss <= budget
      BY <1>1, <1>3, <3>1, <3>2, StepsOfBudget
    <3> QED
      BY <3>3 DEF budget
  <2>4. /\ executed \in Nat
        /\ stepped >= MIN_STEPS =>
             executed = (IF stepped <= MAX_STEPS THEN stepped ELSE MAX_STEPS) /\ executed >= MIN_STEPS
        /\ stepped < MIN_STEPS => executed = (IF capped THEN MIN_STEPS ELSE 0)
    BY <2>1, <2>3, LotCases
  <2>5. planned = IF part_of = 0 THEN 0
                  ELSE Sizing!Min({Sizing!Max({(100 * part_of) \div loss, MIN_STEPS}), MAX_STEPS})
    BY <1>1, <1>3 DEF Sized, Sizing!CalculateLotSize
  <2>6. \/ entered = Sizing!NotEntered
        \/ \E tilt \in {75, 150, 300} : \E stepped2 \in Sizing!Truncated(tilt * part_of, cost) :
             LET lot == Sizing!ExecutorLot(stepped2, cost, order.equity)
             IN entered = [tilt |-> tilt, lot |-> IF lot > 6 THEN 0 ELSE lot]
    BY DEF Sized, Sizing!Tilted
  <2>7. 0 * loss = 0 /\ loss > 0 /\ \A n \in Nat : n * loss \in Nat
    BY <1>1, <1>3
  <2>8. \A n, m \in Nat : n <= m => n * loss <= m * loss
    BY <1>1, Scaled
  <2>9. Sizing!LotsStayInBudget <=>
          /\ planned > MIN_STEPS => planned * loss <= 100 * part_of
          /\ executed > 0 /\ executed * loss > 100 * part_of =>
               executed = MIN_STEPS /\ executed * loss <= 100 * limit
          /\ executed <= planned
          /\ executed > 0 => executed >= planned - 1
          /\ executed = 0 /\ cost > 0 => 100 * part_of <= MIN_STEPS * loss
          /\ entered # Sizing!NotEntered =>
               LET budget == entered.tilt * part_of
               IN /\ executed > 0 /\ entered.lot = 0 => budget > 6 * loss
                  /\ executed = 0 /\ entered.lot > 0 => budget > 100 * part_of
                  /\ entered.lot > 0 /\ entered.lot * loss > budget =>
                       entered.lot = MIN_STEPS /\ entered.lot * loss <= 100 * limit
    BY <1>1 DEF Sizing!LotsStayInBudget, Sizing!Risk, Sizing!Tilted
  <2> HIDE DEF cost, part_of, loss, limit, capped
  <2> DEFINE most == (100 * part_of) \div loss
             lifted == IF most <= MIN_STEPS THEN MIN_STEPS ELSE most
  <2>10. most \in Nat /\ most \in {stepped, stepped + 1} /\ most * loss <= 100 * part_of
    BY <2>3
  <2>11. /\ planned \in Nat
         /\ part_of > 0 => planned = (IF lifted <= MAX_STEPS THEN lifted ELSE MAX_STEPS)
         /\ part_of = 0 => planned = 0
    <3>1. planned = IF part_of = 0 THEN 0 ELSE Sizing!Min({Sizing!Max({most, MIN_STEPS}), MAX_STEPS})
      BY <2>5 DEF most
    <3> HIDE DEF most
    <3>2. Sizing!Max({most, MIN_STEPS}) = (IF most <= MIN_STEPS THEN MIN_STEPS ELSE most) /\ lifted \in Nat
      <4>1. Sizing!Max({most, MIN_STEPS}) = (IF most <= MIN_STEPS THEN MIN_STEPS ELSE most)
        <5>1. most \in Nat /\ MIN_STEPS \in Nat
          BY <1>1, <2>10
        <5> HIDE DEF most
        <5> QED
          BY <5>1, LesserOfTwo
      <4>2. lifted \in Nat
        BY <1>1, <2>10
      <4> QED
        BY <4>1, <4>2
    <3> HIDE DEF lifted
    <3>3. Sizing!Max({most, MIN_STEPS}) = lifted
      BY <3>2 DEF lifted
    <3>4. Sizing!Min({lifted, MAX_STEPS}) = IF lifted <= MAX_STEPS THEN lifted ELSE MAX_STEPS
      BY <1>1, <3>2, LesserOfTwo
    <3>5. part_of > 0 => planned = (IF lifted <= MAX_STEPS THEN lifted ELSE MAX_STEPS)
      <4>1. part_of > 0 => part_of # 0
        BY <1>1
      <4>2. part_of # 0 => planned = Sizing!Min({Sizing!Max({most, MIN_STEPS}), MAX_STEPS})
        BY <3>1
      <4> QED
        BY <3>3, <3>4, <4>1, <4>2
    <3>6. part_of = 0 => planned = 0
      BY <3>1
    <3> QED
      BY <1>1, <3>2, <3>5, <3>6
  <2> HIDE DEF most
  <2>12. part_of = 0 => executed = 0
    <3>1. part_of = 0 => stepped = 0
      BY <1>1, <2>3, <2>7, <2>8
    <3> QED
      BY <1>1, <2>2, <2>4, <3>1
  <2>13. planned > MIN_STEPS => planned * loss <= 100 * part_of
    <3> SUFFICES ASSUME planned > MIN_STEPS PROVE planned * loss <= 100 * part_of
      OBVIOUS
    <3>1. planned <= most /\ part_of > 0
      BY <1>1, <2>10, <2>11
    <3> QED
      BY <1>1, <2>7, <2>8, <2>10, <2>11, <3>1
  <2>14. /\ executed > 0 /\ executed * loss > 100 * part_of =>
              executed = MIN_STEPS /\ executed * loss <= 100 * limit
         /\ executed = 0 => 100 * part_of <= MIN_STEPS * loss /\ ~capped /\ stepped < MIN_STEPS
    <3>1. CASE stepped >= MIN_STEPS
      <4>1. executed > 0 /\ executed <= stepped
        BY <1>1, <2>3, <2>4, <3>1
      <4>2. executed * loss <= stepped * loss /\ executed * loss \in Nat /\ stepped * loss \in Nat
        BY <2>3, <2>4, <2>7, <2>8, <4>1
      <4>3. executed * loss <= 100 * part_of
        BY <1>1, <2>3, <4>2
      <4> QED
        BY <1>1, <4>1, <4>2, <4>3
    <3>2. CASE stepped < MIN_STEPS
      <4>1. (stepped + 1) * loss <= MIN_STEPS * loss /\ (stepped + 1) * loss \in Nat /\ MIN_STEPS * loss \in Nat
        BY <1>1, <2>3, <2>7, <2>8, <3>2
      <4> QED
        BY <1>1, <2>2, <2>3, <2>4, <3>2, <4>1
    <3> QED
      BY <1>1, <2>3, <3>1, <3>2
  <2>15. executed <= planned /\ (executed > 0 => executed >= planned - 1)
    BY <1>1, <2>3, <2>4, <2>10, <2>11, <2>12
  <2>16. ASSUME entered # Sizing!NotEntered
         PROVE  LET budget == entered.tilt * part_of
                IN /\ executed > 0 /\ entered.lot = 0 => budget > 6 * loss
                   /\ executed = 0 /\ entered.lot > 0 => budget > 100 * part_of
                   /\ entered.lot > 0 /\ entered.lot * loss > budget =>
                        entered.lot = MIN_STEPS /\ entered.lot * loss <= 100 * limit
    <3>0. PICK tilt \in {75, 150, 300} :
            \E stepped2 \in Sizing!Truncated(tilt * part_of, cost) :
              LET lot == Sizing!ExecutorLot(stepped2, cost, order.equity)
              IN entered = [tilt |-> tilt, lot |-> IF lot > 6 THEN 0 ELSE lot]
      BY <2>6, <2>16
    <3>1. PICK stepped2 \in Sizing!Truncated(tilt * part_of, cost) :
            LET lot == Sizing!ExecutorLot(stepped2, cost, order.equity)
            IN entered = [tilt |-> tilt, lot |-> IF lot > 6 THEN 0 ELSE lot]
      BY <3>0
    <3> DEFINE budget == tilt * part_of
               lot == Sizing!ExecutorLot(stepped2, cost, order.equity)
    <3>2. entered.tilt = tilt /\ entered.lot = (IF lot > 6 THEN 0 ELSE lot)
      BY <3>1
    <3>3. budget \in Nat /\ budget = tilt * part_of
      BY <1>1
    <3>4. stepped2 \in Nat /\ stepped2 * loss <= budget
      BY <1>1, <1>3, <3>3, StepsOfBudget DEF loss
    <3>5. /\ lot \in Nat
          /\ stepped2 >= MIN_STEPS =>
               lot = (IF stepped2 <= MAX_STEPS THEN stepped2 ELSE MAX_STEPS) /\ lot >= MIN_STEPS
          /\ stepped2 < MIN_STEPS => lot = (IF capped THEN MIN_STEPS ELSE 0)
      BY <3>4, LotCases DEF capped
    <3> HIDE DEF lot, budget
    <3>6. /\ stepped2 * loss \in Nat /\ lot * loss \in Nat /\ MIN_STEPS * loss \in Nat
          /\ stepped2 >= MIN_STEPS => lot * loss <= budget /\ MIN_STEPS * loss <= lot * loss
      <4>1. stepped2 >= MIN_STEPS => lot <= stepped2 /\ MIN_STEPS <= lot
        BY <1>1, <3>4, <3>5
      <4>2. stepped2 * loss \in Nat /\ lot * loss \in Nat /\ MIN_STEPS * loss \in Nat
        BY <1>1, <2>7, <3>4, <3>5
      <4>3. stepped2 >= MIN_STEPS => lot * loss <= stepped2 * loss /\ MIN_STEPS * loss <= lot * loss
        BY <1>1, <2>8, <3>4, <3>5, <4>1
      <4> QED
        BY <3>3, <3>4, <4>2, <4>3
    <3>7. executed > 0 /\ entered.lot = 0 => budget > 6 * loss
      <4> SUFFICES ASSUME executed > 0, entered.lot = 0 PROVE budget > 6 * loss
        OBVIOUS
      <4>1. CASE lot > 6
        <5>1. stepped2 >= MIN_STEPS
          BY <1>1, <3>4, <3>5, <4>1
        <5>2. 7 * loss <= lot * loss
          BY <2>8, <3>5, <4>1
        <5> QED
          BY <1>1, <2>7, <3>3, <3>6, <5>1, <5>2
      <4>2. CASE lot = 0
        <5>1. ~capped /\ stepped >= MIN_STEPS
          BY <1>1, <2>3, <2>4, <3>4, <3>5, <4>2
        <5>2. MIN_STEPS * loss <= 100 * part_of
          BY <1>1, <2>3, <2>7, <2>8, <3>6, <5>1
        <5>3. part_of > 0
          BY <1>1, <2>12
        <5> QED
          BY <1>1, <2>2, <3>6, <5>1, <5>2, <5>3, SizingAssumption
      <4> QED
        BY <3>2, <3>5, <4>1, <4>2
    <3>8. executed = 0 /\ entered.lot > 0 => budget > 100 * part_of
      <4> SUFFICES ASSUME executed = 0, entered.lot > 0 PROVE budget > 100 * part_of
        OBVIOUS
      <4>1. stepped2 >= MIN_STEPS
        BY <1>1, <2>14, <3>2, <3>4, <3>5
      <4>2. 100 * part_of <= budget /\ MIN_STEPS * loss > 0 /\ MIN_STEPS * loss <= budget
        <5>1. 1 * loss <= MIN_STEPS * loss
          BY <1>1, <2>8
        <5> QED
          BY <1>1, <2>7, <2>14, <3>3, <3>6, <4>1, <5>1
      <4> QED
        BY <1>1, <3>1, <3>3, <4>2
    <3>9. entered.lot > 0 /\ entered.lot * loss > budget =>
            entered.lot = MIN_STEPS /\ entered.lot * loss <= 100 * limit
      <4> SUFFICES ASSUME entered.lot > 0, entered.lot * loss > budget
                   PROVE  entered.lot = MIN_STEPS /\ entered.lot * loss <= 100 * limit
        OBVIOUS
      <4>1. entered.lot = lot
        BY <3>2
      <4>2. stepped2 < MIN_STEPS
        BY <1>1, <3>3, <3>4, <3>6, <4>1
      <4> QED
        BY <1>1, <2>2, <3>5, <4>1, <4>2
    <3> QED
      BY <3>2, <3>7, <3>8, <3>9 DEF budget
  <2> QED
    BY <2>9, <2>13, <2>14, <2>15, <2>16
<1> QED
  BY <1>1, <1>2, <1>3

-----------------------------------------------------------------------------
(* A set of numbers has a least, and a bounded one a greatest; a set of       *)
(* subsets has a smallest.                                                    *)

LEMMA LeastNat ==
  ASSUME NEW S \in SUBSET Nat, S # {}
  PROVE  \E m \in S : \A k \in S : m <= k
<1> DEFINE R == OpToRel(<, Nat)
<1>1. IsWellFoundedOn(R, Nat)
  BY NatLessThanWellFounded
<1>2. \A k, m \in Nat : <<k, m>> \in R <=> k < m
  BY DEF OpToRel
<1> HIDE DEF R
<1>3. PICK m \in S : \A k \in S : ~(<<k, m>> \in R)
  BY <1>1, WFMin
<1>4. ASSUME NEW k \in S PROVE m <= k
  <2>1. k \in Nat /\ m \in Nat
    OBVIOUS
  <2>2. ~(k < m)
    BY <1>2, <1>3, <2>1
  <2> QED
    BY <2>1, <2>2
<1> QED
  BY <1>4

LEMMA GreatestNat ==
  ASSUME NEW S \in SUBSET Nat, S # {}, NEW n \in Nat, \A k \in S : k <= n
  PROVE  \E m \in S : \A k \in S : k <= m
<1> DEFINE below == {n - k : k \in S}
<1>1. below \in SUBSET Nat /\ below # {}
  <2>1. ASSUME NEW k \in S PROVE n - k \in Nat
    <3>1. k \in Nat /\ k <= n
      OBVIOUS
    <3> QED
      BY <3>1
  <2> QED
    BY <2>1
<1>2. PICK d \in below : \A e \in below : d <= e
  BY <1>1, LeastNat
<1>3. PICK m \in S : d = n - m
  OBVIOUS
<1>4. ASSUME NEW k \in S PROVE k <= m
  <2>1. d <= n - k
    BY <1>2
  <2> QED
    BY <1>3, <2>1
<1> QED
  BY <1>4

\* Taking an element away.
LEMMA OneLess ==
  ASSUME NEW S, IsFiniteSet(S), NEW s \in SUBSET S, NEW x \in s
  PROVE  /\ IsFiniteSet(s) /\ Cardinality(s) \in Nat \ {0} /\ s \ {x} \in SUBSET S
         /\ Cardinality(s \ {x}) = Cardinality(s) - 1
<1>1. IsFiniteSet(s)
  BY FS_Subset
<1>2. Cardinality(s) \in Nat /\ Cardinality(s \ {x}) \in Nat /\ Cardinality(s \ {x}) = Cardinality(s) - 1
  BY <1>1, FS_RemoveElement, FS_CardinalityType
<1> QED
  BY <1>1, <1>2

\* Where something is wrong of some subsets, one of them is right without any
\* of its elements.
LEMMA SmallestSet ==
  ASSUME NEW S, IsFiniteSet(S), NEW wrong \in SUBSET SUBSET S, wrong # {}
  PROVE  \E s \in wrong : \A x \in s : s \ {x} \notin wrong
<1> DEFINE sizes == {Cardinality(s) : s \in wrong}
<1>1. \A s \in SUBSET S : Cardinality(s) \in Nat
  BY FS_Subset, FS_CardinalityType
<1>2. sizes \in SUBSET Nat /\ sizes # {}
  BY <1>1
<1>3. PICK m \in sizes : \A n \in sizes : m <= n
  <2> HIDE DEF sizes
  <2> QED
    BY <1>2, LeastNat
<1>4. PICK s \in wrong : Cardinality(s) = m
  OBVIOUS
<1>5. ASSUME NEW x \in s PROVE s \ {x} \notin wrong
  <2>1. Cardinality(s \ {x}) = m - 1 /\ m \in Nat
    BY <1>1, <1>4, OneLess
  <2>2. Cardinality(s \ {x}) \notin sizes
    <3> HIDE DEF sizes
    <3> QED
      BY <1>3, <2>1
  <2> QED
    BY <2>2
<1> QED
  BY <1>5

-----------------------------------------------------------------------------
(* Sums over finite sets, by the number of elements.                          *)

Some(s) == CHOOSE x \in s : TRUE

\* it gives every subset of S the sum of f over it, one element after another.
IsSum(it, f, S) ==
  it = [s \in SUBSET S |-> IF s = {} THEN 0 ELSE f[Some(s)] + it[s \ {Some(s)}]]

LEMMA SumExists ==
  ASSUME NEW S, IsFiniteSet(S), NEW f
  PROVE  \E it : IsSum(it, f, S)
<1> DEFINE UpTo(n) == {s \in SUBSET S : Cardinality(s) <= n}
           Sums(g, n) == g = [s \in UpTo(n) |-> IF s = {} THEN 0 ELSE f[Some(s)] + g[s \ {Some(s)}]]
           bad == {n \in Nat : ~\E g : Sums(g, n)}
<1>1. \A s \in SUBSET S : Cardinality(s) \in Nat
  BY FS_Subset, FS_CardinalityType
<1>2. \A s \in SUBSET S : s # {} => /\ s \ {Some(s)} \in SUBSET S
                                    /\ Cardinality(s \ {Some(s)}) = Cardinality(s) - 1
  <2> TAKE s \in SUBSET S
  <2> HAVE s # {}
  <2>1. Some(s) \in s
    BY DEF Some
  <2> QED
    BY <2>1, OneLess
<1>3. bad = {}
  <2> SUFFICES ASSUME bad # {} PROVE FALSE
    OBVIOUS
  <2>1. PICK m \in bad : \A k \in bad : m <= k
    BY LeastNat
  <2>2. m \in Nat /\ ~\E g : Sums(g, m)
    OBVIOUS
  <2>3. CASE m = 0
    <3> DEFINE g == [s \in UpTo(0) |-> 0]
    <3>1. ASSUME NEW s \in UpTo(0) PROVE s = {}
      <4> SUFFICES ASSUME s # {} PROVE FALSE
        OBVIOUS
      <4>1. /\ Cardinality(s) \in Nat /\ Cardinality(s) <= 0
            /\ Cardinality(s \ {Some(s)}) \in Nat /\ Cardinality(s \ {Some(s)}) = Cardinality(s) - 1
        BY <1>1, <1>2
      <4> QED
        BY <4>1
    <3>2. Sums(g, 0)
      BY <3>1
    <3> QED
      BY <2>2, <2>3, <3>2
  <2>4. CASE m # 0
    <3>0. m - 1 \in Nat /\ ~(m <= m - 1)
      BY <2>2, <2>4
    <3>1. m - 1 \in Nat /\ m - 1 \notin bad
      <4> HIDE DEF bad
      <4> QED
        BY <2>1, <3>0
    <3>2. PICK g : Sums(g, m - 1)
      BY <3>1
    <3> DEFINE h == [s \in UpTo(m) |-> IF s = {} THEN 0 ELSE f[Some(s)] + g[s \ {Some(s)}]]
    <3>3. \A s \in UpTo(m) : s # {} => s \ {Some(s)} \in UpTo(m - 1)
      BY <1>1, <1>2, <2>2
    <3>4. \A s \in UpTo(m - 1) : s \in UpTo(m) /\ h[s] = g[s]
      <4> TAKE s \in UpTo(m - 1)
      <4>1. s \in UpTo(m)
        BY <1>1, <2>2
      <4>2. g[s] = IF s = {} THEN 0 ELSE f[Some(s)] + g[s \ {Some(s)}]
        BY <3>2
      <4> QED
        BY <4>1, <4>2
    <3>5. \A s \in UpTo(m) : h[s] = IF s = {} THEN 0 ELSE f[Some(s)] + h[s \ {Some(s)}]
      <4> TAKE s \in UpTo(m)
      <4>1. h[s] = IF s = {} THEN 0 ELSE f[Some(s)] + g[s \ {Some(s)}]
        OBVIOUS
      <4>2. s # {} => h[s \ {Some(s)}] = g[s \ {Some(s)}]
        BY <3>3, <3>4
      <4> HIDE DEF h
      <4> QED
        BY <4>1, <4>2
    <3>6. Sums(h, m)
      <4>1. h = [s \in UpTo(m) |-> h[s]]
        OBVIOUS
      <4> HIDE DEF h
      <4> QED
        BY <3>5, <4>1
    <3> QED
      BY <2>2, <3>6
  <2> QED
    BY <2>3, <2>4
<1>4. PICK n \in Nat : n = Cardinality(S)
  BY <1>1
<1>5. UpTo(n) = SUBSET S
  <2> SUFFICES ASSUME NEW s \in SUBSET S PROVE Cardinality(s) <= n
    OBVIOUS
  <2> QED
    BY <1>4, FS_Subset
<1>6. PICK g : Sums(g, n)
  BY <1>3
<1>7. IsSum(g, f, S)
  BY <1>5, <1>6 DEF IsSum
<1> QED
  BY <1>7

\* What it gives is an integer, and does not depend on the order.
AddsUp(it, f, S) ==
  /\ it[{}] = 0
  /\ \A s \in SUBSET S : it[s] \in Int
  /\ \A s \in SUBSET S : \A y \in s : it[s] = f[y] + it[s \ {y}]

LEMMA SumByElement ==
  ASSUME NEW S, IsFiniteSet(S), NEW f, \A x \in S : f[x] \in Int, NEW it, IsSum(it, f, S)
  PROVE  AddsUp(it, f, S)
<1> DEFINE Right(s) == it[s] \in Int /\ \A y \in s : it[s] = f[y] + it[s \ {y}]
           bad == {n \in Nat : \E s \in SUBSET S : Cardinality(s) = n /\ ~Right(s)}
<1>1. it[{}] = 0
  BY DEF IsSum
<1>2. \A s \in SUBSET S : Cardinality(s) \in Nat
  BY FS_Subset, FS_CardinalityType
<1>3. bad = {}
  <2> SUFFICES ASSUME bad # {} PROVE FALSE
    OBVIOUS
  <2>1. PICK m \in bad : \A k \in bad : m <= k
    BY LeastNat
  <2>2. PICK s \in SUBSET S : Cardinality(s) = m /\ ~Right(s)
    OBVIOUS
  <2>3. m \in Nat
    OBVIOUS
  <2>4. \A t \in SUBSET S : Cardinality(t) < m => Right(t)
    <3> TAKE t \in SUBSET S
    <3> HAVE Cardinality(t) < m
    <3>1. Cardinality(t) \notin bad
      BY <1>2, <2>1, <2>3
    <3> QED
      BY <1>2, <3>1
  <2> HIDE DEF bad
  <2>5. s # {}
    BY <1>1, <2>2
  <2> DEFINE x == Some(s)
  <2>6. x \in s
    BY <2>5 DEF Some
  <2>7. it[s] = f[x] + it[s \ {x}]
    BY <2>5 DEF IsSum
  <2> HIDE DEF x
  <2>8. \A y \in s : s \ {y} \in SUBSET S /\ Cardinality(s \ {y}) < m /\ Right(s \ {y})
    <3> TAKE y \in s
    <3>1. s \ {y} \in SUBSET S /\ Cardinality(s \ {y}) = m - 1
      BY <2>2, OneLess
    <3>2. Cardinality(s \ {y}) < m
      BY <2>3, <3>1
    <3> HIDE DEF Right
    <3> QED
      BY <2>4, <3>1, <3>2
  <2>9. it[s] \in Int
    <3>1. it[s \ {x}] \in Int /\ f[x] \in Int
      BY <2>6, <2>8
    <3> QED
      BY <2>7, <3>1
  <2>10. ASSUME NEW y \in s PROVE it[s] = f[y] + it[s \ {y}]
    <3>1. CASE x = y
      BY <2>7, <3>1
    <3>2. CASE x # y
      <4>1. it[s \ {x}] = f[y] + it[(s \ {x}) \ {y}]
        BY <2>6, <2>8, <2>10, <3>2
      <4>2. it[s \ {y}] = f[x] + it[(s \ {y}) \ {x}]
        BY <2>6, <2>8, <2>10, <3>2
      <4>3. (s \ {x}) \ {y} = (s \ {y}) \ {x}
        OBVIOUS
      <4>4. Right((s \ {x}) \ {y})
        <5>1. (s \ {x}) \ {y} \in SUBSET S /\ Cardinality((s \ {x}) \ {y}) < m
          <6>1. y \in s \ {x} /\ s \ {x} \in SUBSET S /\ Cardinality(s \ {x}) < m
            BY <2>6, <2>8, <2>10, <3>2
          <6>2. (s \ {x}) \ {y} \in SUBSET S /\ Cardinality((s \ {x}) \ {y}) = Cardinality(s \ {x}) - 1
            BY <6>1, OneLess
          <6> QED
            BY <1>2, <2>3, <6>1, <6>2
        <5> QED
          BY <2>4, <5>1
      <4>5. f[x] \in Int /\ f[y] \in Int /\ it[(s \ {x}) \ {y}] \in Int
        BY <2>6, <4>4
      <4>6. it[s] = f[x] + (f[y] + it[(s \ {x}) \ {y}]) /\ it[s \ {y}] = f[x] + it[(s \ {x}) \ {y}]
        BY <2>7, <4>1, <4>2, <4>3
      <4> QED
        BY <4>5, <4>6
    <3> QED
      BY <3>1, <3>2
  <2> QED
    BY <2>2, <2>9, <2>10
<1>4. \A s \in SUBSET S : Right(s)
  BY <1>2, <1>3
<1> QED
  BY <1>1, <1>4 DEF AddsUp

\* Sums depend on what is added only.
LEMMA SumsAgree ==
  ASSUME NEW S, IsFiniteSet(S), NEW T \in SUBSET S, NEW i, NEW j, NEW f, NEW g,
         AddsUp(i, f, S), AddsUp(j, g, T), \A x \in T : f[x] = g[x]
  PROVE  i[T] = j[T]
<1> DEFINE wrong == {s \in SUBSET T : i[s] # j[s]}
<1>1. IsFiniteSet(T)
  BY FS_Subset
<1>2. wrong = {}
  <2> SUFFICES ASSUME wrong # {} PROVE FALSE
    OBVIOUS
  <2>1. PICK s \in wrong : \A x \in s : s \ {x} \notin wrong
    <3>1. wrong \in SUBSET SUBSET T
      OBVIOUS
    <3> HIDE DEF wrong
    <3> QED
      BY <1>1, <3>1, SmallestSet
  <2>2. s \in SUBSET T /\ s \in SUBSET S /\ i[s] # j[s]
    OBVIOUS
  <2>3. CASE s = {}
    BY <2>2, <2>3 DEF AddsUp
  <2>4. CASE s # {}
    <3>1. PICK x \in s : TRUE
      BY <2>4
    <3>2. i[s \ {x}] = j[s \ {x}]
      BY <2>1, <2>2, <3>1
    <3>3. i[s] = f[x] + i[s \ {x}] /\ j[s] = g[x] + j[s \ {x}] /\ f[x] = g[x]
      BY <2>2, <3>1 DEF AddsUp
    <3> QED
      BY <2>2, <3>2, <3>3
  <2> QED
    BY <2>3, <2>4
<1> QED
  BY <1>2

\* The sum over two sets that share nothing.
LEMMA SumSplits ==
  ASSUME NEW S, IsFiniteSet(S), NEW i, NEW f, AddsUp(i, f, S), \A x \in S : f[x] \in Int,
         NEW A \in SUBSET S, NEW B \in SUBSET S, A \cap B = {}
  PROVE  i[A \cup B] = i[A] + i[B]
<1> DEFINE wrong == {s \in SUBSET A : i[s \cup B] # i[s] + i[B]}
<1>1. IsFiniteSet(A)
  BY FS_Subset
<1>2. wrong = {}
  <2> SUFFICES ASSUME wrong # {} PROVE FALSE
    OBVIOUS
  <2>1. PICK s \in wrong : \A x \in s : s \ {x} \notin wrong
    <3>1. wrong \in SUBSET SUBSET A
      OBVIOUS
    <3> HIDE DEF wrong
    <3> QED
      BY <1>1, <3>1, SmallestSet
  <2>2. s \in SUBSET A /\ s \in SUBSET S /\ s \cup B \in SUBSET S /\ i[s \cup B] # i[s] + i[B]
    OBVIOUS
  <2>3. CASE s = {}
    <3>1. s \cup B = B /\ i[s] = 0 /\ i[B] \in Int
      BY <2>3 DEF AddsUp
    <3>2. i[s \cup B] = i[B]
      BY <3>1
    <3>3. i[B] = i[s] + i[B]
      BY <3>1
    <3> QED
      BY <2>2, <3>2, <3>3
  <2>4. CASE s # {}
    <3>1. PICK x \in s : TRUE
      BY <2>4
    <3>2. i[(s \ {x}) \cup B] = i[s \ {x}] + i[B]
      BY <2>1, <2>2, <3>1
    <3>3. (s \cup B) \ {x} = (s \ {x}) \cup B /\ s \ {x} \in SUBSET S /\ x \in s \cup B /\ x \in S
      BY <2>2, <3>1
    <3>4. i[s \cup B] = f[x] + i[(s \ {x}) \cup B]
      BY <2>2, <3>3 DEF AddsUp
    <3>5. i[s] = f[x] + i[s \ {x}]
      BY <2>2, <3>1 DEF AddsUp
    <3>6. i[s \ {x}] \in Int /\ i[B] \in Int /\ f[x] \in Int
      BY <3>3 DEF AddsUp
    <3> QED
      BY <2>2, <3>2, <3>4, <3>5, <3>6
  <2> QED
    BY <2>3, <2>4
<1> QED
  BY <1>2

\* A sum of parts that weigh w at most weighs w times their number.
LEMMA SumWeighs ==
  ASSUME NEW S, IsFiniteSet(S), NEW i, NEW f, AddsUp(i, f, S), NEW j, NEW g, AddsUp(j, g, S),
         NEW w \in Nat, \A x \in S : f[x] \in Nat /\ g[x] \in Nat /\ f[x] <= w * g[x]
  PROVE  i[S] \in Nat /\ i[S] <= w * j[S]
<1> DEFINE Right(s) == i[s] \in Nat /\ j[s] \in Nat /\ i[s] <= w * j[s]
           wrong == {s \in SUBSET S : ~Right(s)}
<1>1. wrong = {}
  <2> SUFFICES ASSUME wrong # {} PROVE FALSE
    OBVIOUS
  <2>1. PICK s \in wrong : \A x \in s : s \ {x} \notin wrong
    <3>1. wrong \in SUBSET SUBSET S
      OBVIOUS
    <3> HIDE DEF wrong
    <3> QED
      BY <3>1, SmallestSet
  <2>2. s \in SUBSET S /\ ~Right(s)
    OBVIOUS
  <2>3. CASE s = {}
    <3>1. i[s] = 0 /\ j[s] = 0
      BY <2>3 DEF AddsUp
    <3> QED
      BY <2>2, <3>1
  <2>4. CASE s # {}
    <3>1. PICK x \in s : TRUE
      BY <2>4
    <3>2. Right(s \ {x})
      BY <2>1, <2>2, <3>1
    <3>3. i[s] = f[x] + i[s \ {x}] /\ j[s] = g[x] + j[s \ {x}]
      BY <2>2, <3>1 DEF AddsUp
    <3>4. f[x] \in Nat /\ g[x] \in Nat /\ f[x] <= w * g[x]
      BY <2>2, <3>1
    <3> DEFINE a == i[s \ {x}]
               b == j[s \ {x}]
    <3>5. a \in Nat /\ b \in Nat /\ a <= w * b
      BY <3>2
    <3>6. i[s] = f[x] + a /\ j[s] = g[x] + b
      BY <3>3
    <3> HIDE DEF a, b
    <3>7. w * (g[x] + b) = w * g[x] + w * b /\ w * g[x] \in Nat /\ w * b \in Nat
      BY <3>4, <3>5
    <3>8. Right(s)
      BY <3>4, <3>5, <3>6, <3>7
    <3> QED
      BY <2>2, <3>8
  <2> QED
    BY <2>3, <2>4
<1>2. Right(S)
  BY <1>1
<1> QED
  BY <1>2

\* A total of parts, one after another.
LEMMA TotalByPart ==
  ASSUME NEW n \in Nat, NEW seq \in [1..n -> Int]
  PROVE  \E it : IsSum(it, seq, 1..n) /\ Market!Total(seq) = it[1..n]
<1> DEFINE it == CHOOSE g : IsSum(g, seq, 1..n)
<1>1. IsFiniteSet(1..n)
  BY FS_Interval
<1>2. IsSum(it, seq, 1..n)
  BY <1>1, SumExists
<1>3. Market!Total(seq) = it[1..n]
  <2>1. DOMAIN seq = 1..n
    OBVIOUS
  <2>2. Market!Total(seq) = Market!FoldFunction(LAMBDA x, y : x + y, 0, seq)
    BY DEF Market!Total, Market!FoldSeq
  <2> QED
    BY <2>1 DEF Market!Total, Market!FoldSeq, Market!FoldFunction, Market!FoldFunctionOnSet, Market!MapThenFoldSet, IsSum, Some
<1> QED
  BY <1>2, <1>3

-----------------------------------------------------------------------------
(* The emergency week.  A request that found none waiting was queued below    *)
(* the limit, with every earlier one executed or refused for the day, so that *)
(* those executed before it stay below the limit for good (Before).           *)

Before(i) == {j \in DOMAIN traded : j < i /\ traded[j] = today}
TradedToday == {j \in DOMAIN traded : traded[j] = today}

\* Of today, and queued when nothing else waited to be executed.
Fresh(i) == queue[i].day = today /\ ~queue[i].waiting

Queued ==
  /\ Emergency!EmergencyTypeOK
  /\ \A i \in DOMAIN traded : traded[i] <= today
  /\ \A i \in DOMAIN queue :
       /\ queue[i].day <= today
       /\ queue[i].halts <= halts /\ (live = "LIVE_HALTED" => queue[i].halts < halts)
       /\ ~queue[i].waiting => \A j \in DOMAIN traded : j < i => traded[j] # 0
       /\ Fresh(i) => Cardinality(Before(i)) < MAX_TRADES
  /\ Cardinality(TradedToday) > MAX_TRADES => \E i \in DOMAIN queue : traded[i] = today /\ ~Fresh(i)

LEMMA EmergencyFrame == [MCNext]_mc_vars => [Emergency!EmergencyNext]_emergency_vars
BY DEF MCNext, mc_vars, limits_vars, Watching, Deciding, Replaying, Limiting, emergency_vars,
       Emergency!emergency_vars

\* The counting of the module is the library's.
LEMMA SameCount ==
  ASSUME NEW S
  PROVE  Emergency!Cardinality(S) = Cardinality(S)
BY DEF Emergency!Cardinality, Cardinality

LEMMA CountedToday == Emergency!TradesToday = Cardinality(TradedToday)
BY SameCount DEF Emergency!TradesToday, TradedToday

LEMMA QueuedInit == MCInit => Queued
<1> SUFFICES ASSUME MCInit PROVE Queued
  OBVIOUS
<1>1. /\ live = "LIVE_READY" /\ today = FirstDay /\ queue = <<>> /\ history = {} /\ halts = 0
      /\ traded = <<>>
  BY DEF MCInit, Emergency!EmergencyInit
<1>2. Emergency!EmergencyTypeOK
  BY <1>1, LimitsAssumption DEF Emergency!EmergencyTypeOK
<1>3. TradedToday = {}
  BY <1>1 DEF TradedToday
<1>4. Cardinality(TradedToday) = 0
  BY <1>3, FS_EmptySet
<1> QED
  BY <1>1, <1>2, <1>4, LimitsAssumption DEF Queued

Requests == [status : {"PENDING", "APPROVED", "REJECTED"}, day : FirstDay..LastDay,
             halts : 0..MAX_HALTS, waiting : BOOLEAN]

LEMMA QueueTyped ==
  ASSUME Emergency!EmergencyTypeOK
  PROVE  /\ queue \in Seq(Requests) /\ DOMAIN queue = DOMAIN traded /\ DOMAIN traded \subseteq Nat
         /\ today \in Nat /\ today # 0 /\ halts \in Nat
         /\ \A i \in DOMAIN queue : /\ queue[i] \in Requests /\ queue[i].day \in Int
                                     /\ queue[i].halts \in Int /\ traded[i] \in Int
<1>1. /\ queue \in Seq(Requests) /\ Len(traded) = Len(queue) /\ DOMAIN queue = DOMAIN traded
      /\ traded \in Seq({0} \cup FirstDay..LastDay) /\ DOMAIN traded \subseteq Nat
  BY DEF Emergency!EmergencyTypeOK, Requests
<1>2. today \in Nat /\ today # 0 /\ halts \in Nat
  BY LimitsAssumption DEF Emergency!EmergencyTypeOK
<1>3. ASSUME NEW i \in DOMAIN queue
      PROVE  /\ queue[i] \in Requests /\ queue[i].day \in Int
             /\ queue[i].halts \in Int /\ traded[i] \in Int
  <2>1. queue[i] \in Requests /\ traded[i] \in {0} \cup FirstDay..LastDay
    BY <1>1
  <2> QED
    BY <2>1, LimitsAssumption DEF Requests
<1> QED
  BY <1>1, <1>2, <1>3

\* The sets that are counted are finite.
LEMMA CountedSets ==
  ASSUME Emergency!EmergencyTypeOK, NEW i
  PROVE  /\ IsFiniteSet(TradedToday) /\ Cardinality(TradedToday) \in Nat
         /\ IsFiniteSet(Before(i)) /\ Cardinality(Before(i)) \in Nat
<1>1. Len(traded) \in Nat /\ DOMAIN traded = 1..Len(traded)
  BY DEF Emergency!EmergencyTypeOK
<1>2. IsFiniteSet(DOMAIN traded)
  BY <1>1, FS_Interval
<1>3. IsFiniteSet(TradedToday) /\ IsFiniteSet(Before(i))
  BY <1>2, FS_Subset DEF TradedToday, Before
<1> QED
  BY <1>3, FS_CardinalityType

LEMMA CreateQueued ==
  ASSUME Queued, NEW sound \in BOOLEAN, Emergency!CreateApprovalRequest(sound)
  PROVE  Queued'
<1> USE LimitsAssumption
<1>1. CASE ~Emergency!ValidateProposal(sound, Emergency!TradesToday)
  <2>1. UNCHANGED <<live, today, queue, history, halts, traded>>
    BY <1>1 DEF Emergency!CreateApprovalRequest
  <2> QED
    BY <2>1 DEF Queued, Emergency!EmergencyTypeOK, Fresh, Before, TradedToday
<1>2. CASE Emergency!ValidateProposal(sound, Emergency!TradesToday)
  <2> DEFINE n == Len(queue)
             queued == [status |-> "PENDING", day |-> today, halts |-> halts,
                         waiting |-> \E i \in DOMAIN traded : traded[i] = 0]
  <2>1. /\ queue' = Append(queue, queued) /\ traded' = Append(traded, 0)
        /\ UNCHANGED <<live, today, history, halts>>
    BY <1>2 DEF Emergency!CreateApprovalRequest
  <2>2. live # "LIVE_HALTED" /\ Cardinality(TradedToday) < MAX_TRADES
    BY <1>2, CountedToday DEF Emergency!ValidateProposal
  <2>3. /\ n \in Nat /\ Len(traded) = n /\ DOMAIN queue = 1..n /\ DOMAIN traded = 1..n
        /\ today \in FirstDay..LastDay /\ halts \in 0..MAX_HALTS /\ today # 0
        /\ traded \in Seq({0} \cup FirstDay..LastDay)
        /\ queue \in Seq(Requests)
    BY DEF Queued, Emergency!EmergencyTypeOK, Requests
  <2>4. /\ DOMAIN queue' = 1..n + 1 /\ DOMAIN traded' = 1..n + 1
        /\ \A i \in 1..n : queue'[i] = queue[i] /\ traded'[i] = traded[i]
        /\ queue'[n + 1] = queued /\ traded'[n + 1] = 0
    BY <2>1, <2>3
  <2>5. Emergency!EmergencyTypeOK'
    <3>1. queued \in Requests
      BY <2>3 DEF Requests
    <3> HIDE DEF queued
    <3>2. /\ queue' \in Seq(Requests)
          /\ traded' \in Seq({0} \cup FirstDay..LastDay) /\ Len(traded') = Len(queue')
      BY <2>1, <2>3, <3>1
    <3> QED
      BY <2>1, <2>3, <2>4, <3>2 DEF Queued, Emergency!EmergencyTypeOK, Requests
  <2>6. \A i \in 1..n + 1 : Before(i)' = Before(i)
    BY <2>1, <2>3, <2>4 DEF Before
  <2>7. TradedToday' = TradedToday
    BY <2>1, <2>3, <2>4 DEF TradedToday
  <2>8. Before(n + 1) = TradedToday
    BY <2>3 DEF Before, TradedToday
  <2>9. \A i \in DOMAIN traded' : traded'[i] <= today'
    BY <2>1, <2>3, <2>4 DEF Queued
  <2>10. ASSUME NEW i \in DOMAIN queue'
         PROVE  /\ queue'[i].day <= today'
                /\ queue'[i].halts <= halts' /\ (live' = "LIVE_HALTED" => queue'[i].halts < halts')
                /\ ~queue'[i].waiting => \A j \in DOMAIN traded' : j < i => traded'[j] # 0
                /\ Fresh(i)' => Cardinality(Before(i)') < MAX_TRADES
    <3>1. CASE i = n + 1
      <4>1. /\ queue'[i] = queued /\ queued.day = today /\ queued.halts = halts
            /\ queued.waiting = \E j \in DOMAIN traded : traded[j] = 0
        BY <2>4, <3>1
      <4>2. ~queue'[i].waiting => \A j \in DOMAIN traded' : j < i => traded'[j] # 0
        BY <2>3, <2>4, <3>1, <4>1, SMTT(30)
      <4>3. Cardinality(Before(i)') < MAX_TRADES
        BY <2>2, <2>3, <2>6, <2>8, <3>1
      <4> HIDE DEF queued
      <4> QED
        BY <2>1, <2>2, <2>3, <4>1, <4>2, <4>3
    <3>2. CASE i \in 1..n
      BY <2>1, <2>3, <2>4, <2>6, <3>2 DEF Queued, Fresh
    <3> QED
      BY <2>3, <2>4, <3>1, <3>2
  <2>11. ~(Cardinality(TradedToday') > MAX_TRADES)
    BY <2>2, <2>7, CountedSets DEF Queued
  <2> QED
    BY <2>5, <2>9, <2>10, <2>11 DEF Queued
<1> QED
  BY <1>1, <1>2

LEMMA ExecuteQueued ==
  ASSUME Queued, NEW id \in DOMAIN queue, Emergency!Execute(id)
  PROVE  Queued'
<1> USE LimitsAssumption
<1>1. /\ traded[id] = 0 /\ traded' = [traded EXCEPT ![id] = today]
      /\ UNCHANGED <<live, today, queue, history, halts>>
  BY DEF Emergency!Execute
<1>2. /\ DOMAIN queue = DOMAIN traded /\ DOMAIN traded' = DOMAIN traded
      /\ DOMAIN traded \subseteq Nat /\ Len(traded) = Len(queue) /\ id \in DOMAIN traded
      /\ today \in FirstDay..LastDay /\ today # 0
      /\ traded \in Seq({0} \cup FirstDay..LastDay)
  BY <1>1 DEF Queued, Emergency!EmergencyTypeOK
<1>3. traded'[id] = today /\ \A j \in DOMAIN traded : j # id => traded'[j] = traded[j]
  BY <1>1, <1>2
<1>4. Emergency!EmergencyTypeOK'
  <2>1. traded' \in Seq({0} \cup FirstDay..LastDay) /\ Len(traded') = Len(traded)
    BY <1>1, <1>2
  <2> QED
    BY <1>1, <1>2, <2>1 DEF Queued, Emergency!EmergencyTypeOK
<1>5. ASSUME NEW i \in DOMAIN queue, ~queue[i].waiting
      PROVE  i <= id
  BY <1>1, <1>2, <1>5 DEF Queued
<1>6. ASSUME NEW i \in DOMAIN queue, i <= id
      PROVE  Before(i)' = Before(i)
  BY <1>1, <1>2, <1>3, <1>6 DEF Before
<1>7. \A i \in DOMAIN traded' : traded'[i] <= today'
  BY <1>1, <1>2, <1>3 DEF Queued
<1>8. ASSUME NEW i \in DOMAIN queue'
      PROVE  /\ queue'[i].day <= today'
             /\ queue'[i].halts <= halts' /\ (live' = "LIVE_HALTED" => queue'[i].halts < halts')
             /\ ~queue'[i].waiting => \A j \in DOMAIN traded' : j < i => traded'[j] # 0
             /\ Fresh(i)' => Cardinality(Before(i)') < MAX_TRADES
  <2>1. /\ queue'[i].day <= today'
        /\ queue'[i].halts <= halts' /\ (live' = "LIVE_HALTED" => queue'[i].halts < halts')
    BY <1>1 DEF Queued
  <2>2. ~queue'[i].waiting => \A j \in DOMAIN traded' : j < i => traded'[j] # 0
    BY <1>1, <1>2, <1>3 DEF Queued
  <2>3. Fresh(i)' => Cardinality(Before(i)') < MAX_TRADES
    BY <1>1, <1>5, <1>6 DEF Queued, Fresh
  <2> QED
    BY <2>1, <2>2, <2>3
<1>9. Cardinality(TradedToday') > MAX_TRADES => \E i \in DOMAIN queue' : traded'[i] = today' /\ ~Fresh(i)'
  <2> SUFFICES ASSUME \A i \in DOMAIN queue : traded'[i] = today => Fresh(i)
               PROVE  ~(Cardinality(TradedToday') > MAX_TRADES)
    BY <1>1 DEF Fresh
  <2>1. Fresh(id)
    BY <1>2, <1>3
  <2>2. TradedToday' = Before(id) \cup {id}
    BY <1>1, <1>2, <1>3, <1>5 DEF TradedToday, Before, Fresh
  <2>3. id \notin Before(id)
    BY <1>2 DEF Before
  <2>4. /\ Cardinality(Before(id)) < MAX_TRADES /\ IsFiniteSet(Before(id))
        /\ Cardinality(Before(id)) \in Nat
    BY <1>2, <2>1, CountedSets DEF Queued
  <2>5. Cardinality(TradedToday') = Cardinality(Before(id)) + 1
    BY <2>2, <2>3, <2>4, FS_AddElement
  <2> QED
    BY <2>4, <2>5
<1> QED
  BY <1>4, <1>7, <1>8, <1>9 DEF Queued

LEMMA QueuedStep == Queued /\ [Emergency!EmergencyNext]_emergency_vars => Queued'
<1> SUFFICES ASSUME Queued, [Emergency!EmergencyNext]_emergency_vars PROVE Queued'
  OBVIOUS
<1> USE LimitsAssumption
<1>1. CASE \E sound \in BOOLEAN : Emergency!CreateApprovalRequest(sound)
  BY <1>1, CreateQueued
<1>2. ASSUME NEW id \in DOMAIN queue, NEW status \in {"APPROVED", "REJECTED"},
             Emergency!ResolveApproval(id, status)
      PROVE  Queued'
  <2>1. /\ queue' = [queue EXCEPT ![id].status = status] /\ history' = history \cup {id}
        /\ UNCHANGED <<live, today, halts, traded>>
    BY <1>2 DEF Emergency!ResolveApproval
  <2>2. /\ DOMAIN queue' = DOMAIN queue
        /\ \A i \in DOMAIN queue : /\ queue'[i].day = queue[i].day /\ queue'[i].halts = queue[i].halts
                                   /\ queue'[i].waiting = queue[i].waiting
    BY <2>1, QueueTyped DEF Queued, Requests
  <2>3. Emergency!EmergencyTypeOK'
    <3>1. [queue[id] EXCEPT !.status = status] \in Requests
      BY QueueTyped DEF Queued, Requests
    <3>2. queue' = [queue EXCEPT ![id] = [queue[id] EXCEPT !.status = status]]
      BY <2>1
    <3>3. queue' \in Seq(Requests) /\ Len(queue') = Len(queue)
      BY <3>1, <3>2, QueueTyped DEF Queued
    <3> QED
      BY <2>1, <2>2, <3>3 DEF Queued, Emergency!EmergencyTypeOK, Requests
  <2> QED
    BY <2>1, <2>2, <2>3 DEF Queued, Fresh, Before, TradedToday
<1>3. ASSUME NEW t \in Emergency!Telemetry, Emergency!EvaluateKillSwitch(t)
      PROVE  Queued'
  <2>1. /\ live' = "LIVE_HALTED" /\ halts' = (IF live = "LIVE_HALTED" THEN halts ELSE halts + 1)
        /\ halts < MAX_HALTS /\ UNCHANGED <<today, queue, history, traded>>
    BY <1>3 DEF Emergency!EvaluateKillSwitch
  <2>2. Emergency!EmergencyTypeOK'
    <3>1. halts' \in 0..MAX_HALTS
      BY <2>1, QueueTyped DEF Queued
    <3> QED
      BY <2>1, <3>1 DEF Queued, Emergency!EmergencyTypeOK
  <2>3. ASSUME NEW i \in DOMAIN queue
        PROVE  queue[i].halts < halts' /\ queue[i].halts <= halts'
    <3>1. queue[i].halts \in Int /\ halts \in Int
      BY QueueTyped DEF Queued
    <3> QED
      BY <2>1, <3>1 DEF Queued
  <2> QED
    BY <2>1, <2>2, <2>3 DEF Queued, Fresh, Before, TradedToday
<1>4. ASSUME NEW manual_override \in BOOLEAN, Emergency!ResumeLive(manual_override)
      PROVE  Queued'
  BY <1>4 DEF Emergency!ResumeLive, Queued, Emergency!EmergencyTypeOK, Fresh, Before, TradedToday
<1>5. CASE \E id \in DOMAIN queue : Emergency!Execute(id)
  BY <1>5, ExecuteQueued
<1>6. CASE Emergency!NewDay
  <2>1. today' = today + 1 /\ today < LastDay /\ UNCHANGED <<live, queue, history, halts, traded>>
    BY <1>6 DEF Emergency!NewDay
  <2>2. Emergency!EmergencyTypeOK'
    BY <2>1 DEF Queued, Emergency!EmergencyTypeOK
  <2>3. /\ today \in Int /\ \A i \in DOMAIN queue : queue[i].day \in Int
        /\ \A i \in DOMAIN traded : traded[i] \in Int
    BY QueueTyped DEF Queued
  <2>4. TradedToday' = {}
    BY <2>1, <2>3 DEF Queued, TradedToday
  <2>5. Cardinality(TradedToday') = 0
    BY <2>4, FS_EmptySet
  <2> QED
    BY <2>1, <2>2, <2>3, <2>5 DEF Queued, Fresh
<1>7. CASE UNCHANGED emergency_vars
  BY <1>7 DEF emergency_vars, Queued, Emergency!EmergencyTypeOK, Fresh, Before, TradedToday
<1> QED
  BY <1>1, <1>2, <1>3, <1>4, <1>5, <1>6, <1>7 DEF Emergency!EmergencyNext

LEMMA WaitingOverruns == Queued => Emergency!OverrunsWereWaiting
<1> SUFFICES ASSUME Queued PROVE Emergency!OverrunsWereWaiting
  OBVIOUS
<1>1. ASSUME Cardinality(TradedToday) > MAX_TRADES
      PROVE  \E i \in DOMAIN queue : traded[i] = today /\ (queue[i].day < today \/ queue[i].waiting)
  <2>1. PICK i \in DOMAIN queue : traded[i] = today /\ ~Fresh(i)
    BY <1>1 DEF Queued
  <2>2. queue[i].day < today \/ queue[i].waiting
    BY <2>1, QueueTyped DEF Queued, Fresh
  <2> QED
    BY <2>1, <2>2
<1>2. live = "LIVE_HALTED" => \A i \in DOMAIN queue : queue[i].halts < halts
  BY DEF Queued
<1> QED
  BY <1>1, <1>2, CountedToday DEF Emergency!OverrunsWereWaiting

-----------------------------------------------------------------------------
(* The news lock.  Every check was answered for its name at its minute, and   *)
(* none before the whole scan's (Asked).                                      *)

Gap(i, now) ==
  LET d == calendar.events[i].minute - now IN IF d < 0 THEN -d ELSE d

\* The events whose window a check for a name found open.
Active(name, now) == {i \in News!Concerning(name) : News!Inside(calendar.events[i], now)}

Answered(check, name) ==
  /\ check.at \in Nat /\ check.at <= minute
  /\ calendar.enabled /\ News!Unreadable(News!Concerning(name)) => check.event = -1
  /\ calendar.enabled /\ ~News!Unreadable(News!Concerning(name)) =>
       IF Active(name, check.at) = {} THEN check.event = 0
       ELSE /\ check.event \in Active(name, check.at)
            /\ \A k \in Active(name, check.at) : Gap(check.event, check.at) <= Gap(k, check.at)
  /\ ~calendar.enabled => check.event = 0

Asked ==
  part = "news" =>
    /\ minute \in Nat
    /\ \A i \in DOMAIN calendar.events : i \in Nat \ {0} /\ calendar.events[i].minute \in Int
    /\ whole = News!NoCheck \/ Answered(whole, "")
    /\ DOMAIN each = 1..Len(each) /\ Len(each) \in Nat
    /\ \A n \in DOMAIN each :
         /\ Answered(each[n], <<"XAUUSD", "US30", "EURUSD">>[n]) /\ whole.at <= each[n].at
         /\ whole # News!NoCheck /\ whole.event # -1
    /\ each \in Seq([at : Int, event : Int, minutes : Int])

LEMMA NewsFrame == [MCNext]_mc_vars => part' = part /\ [News!NewsNext]_news_vars
BY DEF MCNext, mc_vars, limits_vars, Watching, Deciding, Replaying, Limiting, news_vars,
       News!news_vars

LEMMA AskedInit == MCInit => Asked
<1> SUFFICES ASSUME MCInit, part = "news" PROVE Asked
  BY DEF Asked
<1>1. calendar \in MCCalendars /\ minute = 0 /\ whole = News!NoCheck /\ each = <<>>
  BY DEF MCInit, News!NewsInit
<1>2. ASSUME NEW i \in DOMAIN calendar.events
      PROVE  i \in Nat \ {0} /\ calendar.events[i].minute \in Int
  <2>1. PICK a \in {1, 5, 8}, b \in {3, 8}, s \in {{"US30"}, {"EURUSD", "US30"}},
             e \in {Odd(f) : f \in {"usd", "high", "known", "dated", "legible"}} :
          calendar.events = <<Event(a, {}), Event(b, s), e>>
    BY <1>1 DEF MCCalendars
  <2>2. e.minute = 4
    BY DEF Odd, Event
  <2> QED
    BY <2>1, <2>2 DEF Event
<1> QED
  BY <1>1, <1>2 DEF Asked

\* The check that is made now.
LEMMA CheckAnswers ==
  ASSUME minute \in Nat, NEW name,
         \A i \in DOMAIN calendar.events : i \in Nat \ {0} /\ calendar.events[i].minute \in Int
  PROVE  /\ Answered(News!Check(name), name) /\ News!Check(name).at = minute
         /\ News!Check(name) \in [at : Int, event : Int, minutes : Int]
<1> DEFINE check == News!Check(name)
           active == {i \in News!Concerning(name) : News!Inside(calendar.events[i], minute)}
<1>1. active \subseteq Nat /\ \A i \in active : calendar.events[i].minute \in Int
  BY DEF News!Concerning, News!BlockingEvents
<1>2. ASSUME active # {}
      PROVE  News!Nearest(active) \in active
             /\ \A k \in active : Gap(News!Nearest(active), minute) <= Gap(k, minute)
  <2>1. \A i \in active : News!Distance(i) = Gap(i, minute) /\ Gap(i, minute) \in Nat
    BY <1>1 DEF News!Distance, Gap
  <2> HIDE DEF active
  <2>2. PICK d \in {Gap(i, minute) : i \in active} : \A e \in {Gap(i, minute) : i \in active} : d <= e
    BY <1>2, <2>1, LeastNat
  <2>3. PICK m \in {i \in active : Gap(i, minute) = d} : \A k \in {i \in active : Gap(i, minute) = d} : m <= k
    <3>1. {i \in active : Gap(i, minute) = d} # {}
      BY <2>2
    <3> QED
      BY <1>1, <3>1, LeastNat
  <2>4. \A k \in active : \/ News!Distance(m) < News!Distance(k)
                          \/ (News!Distance(m) = News!Distance(k) /\ m <= k)
    BY <2>1, <2>2, <2>3
  <2>5. /\ News!Nearest(active) \in active
        /\ \A k \in active : \/ News!Distance(News!Nearest(active)) < News!Distance(k)
                             \/ /\ News!Distance(News!Nearest(active)) = News!Distance(k)
                                /\ News!Nearest(active) <= k
    BY <2>3, <2>4 DEF News!Nearest
  <2> QED
    BY <2>1, <2>5
<1>3. check.at = minute
  BY DEF News!Check, News!NoCheck
<1>4. Active(name, minute) = active
  BY DEF Active
<1>5. /\ ~calendar.enabled => check.event = 0
      /\ calendar.enabled /\ News!Unreadable(News!Concerning(name)) => check.event = -1
      /\ calendar.enabled /\ ~News!Unreadable(News!Concerning(name)) /\ active = {} => check.event = 0
      /\ calendar.enabled /\ ~News!Unreadable(News!Concerning(name)) /\ active # {} =>
           check.event = News!Nearest(active)
  BY DEF News!Check, News!NoCheck, News!Illegible
<1>6. check \in [at : Int, event : Int, minutes : Int]
  <2>1. ASSUME active # {}
        PROVE  /\ News!Nearest(active) \in Int
               /\ calendar.events[News!Nearest(active)].minute - minute \in Int
    <3>1. News!Nearest(active) \in active
      BY <1>2, <2>1
    <3> HIDE DEF active
    <3> QED
      BY <1>1, <3>1
  <2>2. \/ check = [at |-> minute, event |-> 0, minutes |-> 0]
        \/ check = [at |-> minute, event |-> -1, minutes |-> 0]
        \/ /\ active # {}
           /\ check = [at |-> minute, event |-> News!Nearest(active),
                       minutes |-> calendar.events[News!Nearest(active)].minute - minute]
    BY DEF News!Check, News!NoCheck, News!Illegible
  <2> HIDE DEF check, active
  <2> QED
    BY <2>1, <2>2
<1> HIDE DEF check, active
<1> QED
  BY <1>2, <1>3, <1>4, <1>5, <1>6 DEF Answered, check

\* An answer stays one while the calendar does not change.
LEMMA StaysAnswered ==
  ASSUME calendar' = calendar, minute \in Nat, minute' \in Nat, minute <= minute'
  PROVE  \A check, name : Answered(check, name) => Answered(check, name)'
<1> SUFFICES ASSUME NEW check, NEW name, Answered(check, name) PROVE Answered(check, name)'
  OBVIOUS
<1>1. News!Concerning(name)' = News!Concerning(name)
  BY DEF News!Concerning, News!BlockingEvents
<1>2. /\ Active(name, check.at)' = Active(name, check.at)
      /\ (News!Unreadable(News!Concerning(name)))' = News!Unreadable(News!Concerning(name))
  BY <1>1 DEF Active, News!Unreadable
<1>3. \A i : Gap(i, check.at)' = Gap(i, check.at)
  BY DEF Gap
<1>4. check.at \in Nat /\ check.at <= minute'
  BY DEF Answered
<1> QED
  BY <1>1, <1>2, <1>3, <1>4 DEF Answered

LEMMA AskedStep == Asked /\ part' = part /\ [News!NewsNext]_news_vars => Asked'
<1> SUFFICES ASSUME Asked, part' = part, [News!NewsNext]_news_vars, part = "news" PROVE Asked'
  BY DEF Asked
<1> DEFINE names == <<"XAUUSD", "US30", "EURUSD">>
<1>1. CASE News!CheckAll
  <2>1. /\ whole = News!NoCheck /\ whole' = News!Check("")
        /\ UNCHANGED <<calendar, minute, each>>
    BY <1>1 DEF News!CheckAll
  <2>2. Answered(News!Check(""), "")
    BY CheckAnswers DEF Asked
  <2>3. \A c, name : Answered(c, name) => Answered(c, name)'
    <3>1. minute \in Nat /\ minute' = minute /\ calendar' = calendar
      BY <2>1 DEF Asked
    <3>2. minute' \in Nat /\ minute <= minute'
      BY <3>1
    <3> QED
      BY <3>1, <3>2, StaysAnswered
  <2>4. Answered(whole, "")'
    BY <2>1, <2>2, <2>3
  <2>5. DOMAIN each = {}
    BY <2>1 DEF Asked
  <2> QED
    BY <2>1, <2>4, <2>5 DEF Asked
<1>2. CASE News!CheckSymbol
  <2> DEFINE n == Len(each)
             check == News!Check(names[n + 1])
  <2>1. /\ whole # News!NoCheck /\ whole.event # -1 /\ n < 3
        /\ each' = Append(each, check) /\ UNCHANGED <<calendar, minute, whole>>
    BY <1>2 DEF News!CheckSymbol, News!Illegible
  <2>2. /\ Answered(check, names[n + 1]) /\ check.at = minute
        /\ check \in [at : Int, event : Int, minutes : Int]
    BY CheckAnswers DEF Asked
  <2>3. whole.at <= minute /\ Answered(whole, "")
    BY <2>1 DEF Asked, Answered
  <2>4. /\ each \in Seq([at : Int, event : Int, minutes : Int]) /\ n \in Nat /\ DOMAIN each = 1..n
        /\ minute \in Nat
    BY DEF Asked
  <2> HIDE DEF check
  <2>5. /\ each' \in Seq([at : Int, event : Int, minutes : Int]) /\ Len(each') = n + 1
        /\ DOMAIN each' = 1..n + 1 /\ each'[n + 1] = check
        /\ \A k \in 1..n : each'[k] = each[k]
    BY <2>1, <2>2, <2>4
  <2>6. \A c, name : Answered(c, name) => Answered(c, name)'
    BY <2>1, <2>4, StaysAnswered
  <2>7. ASSUME NEW k \in 1..n + 1
        PROVE  Answered(each[k], names[k])' /\ whole.at <= each'[k].at
    <3>1. CASE k = n + 1
      BY <2>2, <2>3, <2>5, <2>6, <3>1
    <3>2. CASE k \in 1..n
      BY <2>4, <2>5, <2>6, <3>2 DEF Asked
    <3> QED
      BY <2>4, <3>1, <3>2
  <2>8. Answered(whole, "")'
    BY <2>1, <2>3, <2>6
  <2>9. \A k \in DOMAIN each' :
          /\ Answered(each[k], names[k])' /\ whole'.at <= each'[k].at
          /\ whole' # News!NoCheck /\ whole'.event # -1
    BY <2>1, <2>5, <2>7
  <2>10. \A i \in DOMAIN calendar'.events : i \in Nat \ {0} /\ calendar'.events[i].minute \in Int
    BY <2>1 DEF Asked
  <2>11. DOMAIN each' = 1..Len(each') /\ Len(each') \in Nat /\ minute' \in Nat
    BY <2>1, <2>4, <2>5
  <2> QED
    BY <2>5, <2>8, <2>9, <2>10, <2>11 DEF Asked
<1>3. CASE News!PassMinute \/ UNCHANGED news_vars
  <2>1. /\ UNCHANGED <<calendar, whole, each>> /\ minute \in Nat /\ minute' \in Nat /\ minute <= minute'
    <3>1. minute \in Nat
      BY DEF Asked
    <3>2. UNCHANGED <<calendar, whole, each>> /\ minute' \in {minute, minute + 1}
      BY <1>3 DEF News!PassMinute, news_vars
    <3> QED
      BY <3>1, <3>2
  <2>2. \A c, name : Answered(c, name) => Answered(c, name)'
    BY <2>1, StaysAnswered
  <2>3. \A k \in DOMAIN each : Answered(each[k], names[k])'
    BY <2>1, <2>2 DEF Asked
  <2>4. whole = News!NoCheck \/ Answered(whole, "")'
    BY <2>1, <2>2 DEF Asked
  <2> QED
    BY <2>1, <2>3, <2>4 DEF Asked
<1> QED
  BY <1>1, <1>2, <1>3 DEF News!NewsNext

LEMMA NaturalNumbers == \A x \in Nat : x \in Int /\ x # -1
OBVIOUS

LEMMA WindowBetween ==
  ASSUME NEW opens \in Int, NEW first \in Int, NEW second \in Int, first <= second
  PROVE  /\ second <= opens + 2 /\ ~(first < opens - 2) => opens - 2 <= first /\ first <= opens + 2
         /\ opens - 2 <= first /\ ~(second > opens + 2) => opens - 2 <= second /\ second <= opens + 2
OBVIOUS

LEMMA InsideWindow ==
  ASSUME NEW event, event.minute \in Int, NEW now \in Int
  PROVE  News!Inside(event, now) <=> event.minute - 2 <= now /\ now <= event.minute + 2
<1>1. event.minute - 2 \in Int /\ event.minute + 2 \in Int
  OBVIOUS
<1> QED
  BY <1>1 DEF News!Inside

\* What one check is told is what the other knows of it.
LEMMA TellsAlike ==
  ASSUME Asked, part = "news", NEW n \in DOMAIN each, NEW name, Answered(whole, ""), Answered(each[n], name),
         whole.at <= each[n].at, whole.event # -1
  PROVE  /\ ~(calendar.enabled /\ News!Unreadable(News!BlockingEvents))
         /\ each[n].event \notin {0, -1} =>
              LET e == each[n].event
              IN \/ whole.at < calendar.events[e].minute - 2
                 \/ whole.event \notin {0, -1} /\ Gap(whole.event, whole.at) <= Gap(e, whole.at)
         /\ whole.event \notin {0, -1} /\ name \in News!AffectedBy(calendar.events[whole.event]) =>
              \/ each[n].event \notin {0, -1} /\ Gap(each[n].event, each[n].at) <= Gap(whole.event, each[n].at)
              \/ each[n].at > calendar.events[whole.event].minute + 2
<1> DEFINE own == News!Concerning(name)
           every == News!Concerning("")
<1>1. own \subseteq every /\ every = News!BlockingEvents
  BY DEF News!Concerning
<1>2. /\ every \subseteq Nat \ {0} /\ whole.at \in Int /\ each[n].at \in Int
      /\ \A i \in every : calendar.events[i].minute \in Int
  <2>1. every \subseteq DOMAIN calendar.events
    BY <1>1 DEF News!BlockingEvents
  <2>2. \A i \in DOMAIN calendar.events : i \in Nat \ {0} /\ calendar.events[i].minute \in Int
    BY DEF Asked
  <2>3. whole.at \in Nat /\ each[n].at \in Nat
    BY DEF Answered
  <2> HIDE DEF every
  <2>4. every \subseteq Nat \ {0}
    BY <2>1, <2>2
  <2>5. \A i \in every : calendar.events[i].minute \in Int
    BY <2>1, <2>2
  <2>6. whole.at \in Int /\ each[n].at \in Int
    BY <2>3, NaturalNumbers
  <2> QED
    BY <2>4, <2>5, <2>6
<1>3. ~(calendar.enabled /\ News!Unreadable(every))
  BY DEF Answered
<1>4. ~(calendar.enabled /\ News!Unreadable(own))
  BY <1>1, <1>3 DEF News!Unreadable
<1>5. \A i \in every, now \in Int :
        News!Inside(calendar.events[i], now) <=>
          calendar.events[i].minute - 2 <= now /\ now <= calendar.events[i].minute + 2
  <2> SUFFICES ASSUME NEW i \in every, NEW now \in Int
               PROVE  News!Inside(calendar.events[i], now) <=>
                        calendar.events[i].minute - 2 <= now /\ now <= calendar.events[i].minute + 2
    OBVIOUS
  <2>1. calendar.events[i].minute \in Int
    BY <1>2
  <2> QED
    BY <2>1, InsideWindow
<1>6. ASSUME each[n].event \notin {0, -1}, ~(whole.at < calendar.events[each[n].event].minute - 2)
      PROVE  whole.event \notin {0, -1} /\ Gap(whole.event, whole.at) <= Gap(each[n].event, whole.at)
  <2>1. calendar.enabled /\ each[n].event \in Active(name, each[n].at)
    BY <1>4, <1>6 DEF Answered
  <2>2. each[n].event \in every /\ calendar.events[each[n].event].minute \in Int
    BY <1>1, <1>2, <2>1 DEF Active
  <2>3. each[n].event \in Active("", whole.at)
    <3>1. News!Inside(calendar.events[each[n].event], each[n].at)
      BY <2>1 DEF Active
    <3> DEFINE opens == calendar.events[each[n].event].minute
    <3>2. /\ opens \in Int /\ whole.at \in Int /\ each[n].at \in Int
          /\ each[n].at <= opens + 2 /\ whole.at <= each[n].at /\ ~(whole.at < opens - 2)
      BY <1>2, <1>5, <1>6, <2>2, <3>1
    <3>3. opens - 2 <= whole.at /\ whole.at <= opens + 2
      BY <3>2, WindowBetween
    <3>4. News!Inside(calendar.events[each[n].event], whole.at)
      BY <1>2, <1>5, <2>2, <3>3
    <3> QED
      BY <2>2, <3>4 DEF Active
  <2> QED
    BY <1>2, <1>3, <2>1, <2>3 DEF Answered, Active
<1>7. ASSUME whole.event \notin {0, -1}, name \in News!AffectedBy(calendar.events[whole.event]),
             ~(each[n].at > calendar.events[whole.event].minute + 2)
      PROVE  each[n].event \notin {0, -1} /\ Gap(each[n].event, each[n].at) <= Gap(whole.event, each[n].at)
  <2>1. calendar.enabled /\ whole.event \in Active("", whole.at)
    BY <1>3, <1>7 DEF Answered
  <2>2. whole.event \in every /\ whole.event \in own /\ calendar.events[whole.event].minute \in Int
    BY <1>1, <1>2, <1>7, <2>1 DEF Active, News!Concerning
  <2>3. whole.event \in Active(name, each[n].at)
    <3>1. News!Inside(calendar.events[whole.event], whole.at)
      BY <2>1 DEF Active
    <3> DEFINE opens == calendar.events[whole.event].minute
    <3>2. /\ opens \in Int /\ whole.at \in Int /\ each[n].at \in Int
          /\ opens - 2 <= whole.at /\ whole.at <= each[n].at /\ ~(each[n].at > opens + 2)
      BY <1>2, <1>5, <1>7, <2>2, <3>1
    <3>3. opens - 2 <= each[n].at /\ each[n].at <= opens + 2
      BY <3>2, WindowBetween
    <3>4. News!Inside(calendar.events[whole.event], each[n].at)
      BY <1>2, <1>5, <2>2, <3>3
    <3> QED
      BY <2>2, <3>4 DEF Active
  <2>4. /\ each[n].event \in Active(name, each[n].at)
        /\ \A k \in Active(name, each[n].at) : Gap(each[n].event, each[n].at) <= Gap(k, each[n].at)
    BY <1>4, <2>1, <2>3 DEF Answered
  <2>5. each[n].event \in Nat \ {0}
    BY <1>1, <1>2, <2>4 DEF Active
  <2>6. each[n].event \notin {0, -1}
    BY <2>5, NaturalNumbers
  <2> QED
    BY <2>3, <2>4, <2>6
<1> QED
  BY <1>1, <1>3, <1>6, <1>7

LEMMA AskedAgrees == Asked /\ part = "news" => News!ScanAndSymbolsAgreeOnNews
<1> SUFFICES ASSUME Asked, part = "news", NEW n \in DOMAIN each
             PROVE  LET name == <<"XAUUSD", "US30", "EURUSD">>[n]
                    IN /\ ~(calendar.enabled /\ News!Unreadable(News!BlockingEvents))
                       /\ each[n].event \notin {0, -1} =>
                            LET e == each[n].event
                            IN \/ whole.event = e
                               \/ whole.at < calendar.events[e].minute - 2
                               \/ whole.event \notin {0, -1} /\ Gap(whole.event, whole.at) <= Gap(e, whole.at)
                       /\ whole.event \notin {0, -1} /\ name \in News!AffectedBy(calendar.events[whole.event]) =>
                            \/ each[n].event \notin {0, -1}
                               /\ Gap(each[n].event, each[n].at) <= Gap(whole.event, each[n].at)
                            \/ each[n].at > calendar.events[whole.event].minute + 2
  BY DEF News!ScanAndSymbolsAgreeOnNews, News!Illegible, Gap
<1> QED
  BY TellsAlike DEF Asked

\* The three limits, for every queue, budget and minute: what overran the day's
\* limit had waited, every lot is within its budget or its cap, and scan and
\* symbols are told of the news alike.
THEOREM LimitsStand == MCSpec => []LimitsHold
<1>1. MCInit => Sized /\ Queued /\ Asked
  BY SizedInit, QueuedInit, AskedInit
<1>2. Sized /\ [MCNext]_mc_vars => Sized'
  BY SizedStep, SizingFrame
<1>3. Queued /\ [MCNext]_mc_vars => Queued'
  BY QueuedStep, EmergencyFrame
<1>4. Asked /\ [MCNext]_mc_vars => Asked'
  BY AskedStep, NewsFrame
<1>5. Sized /\ Queued /\ Asked => LimitsHold
  BY SizedInBudget, WaitingOverruns, AskedAgrees DEF LimitsHold
<1> QED
  BY <1>1, <1>2, <1>3, <1>4, <1>5, PTL DEF MCSpec

-----------------------------------------------------------------------------
(* The chart and its mirror.  Turned upside down, what was high is low: the   *)
(* swings, sweeps and breaks of one direction are the other's.                *)

Priced(h) == h \in Seq([high : Int, low : Int, close : Int])

LEMMA ElementsOf ==
  ASSUME NEW S, NEW seq \in Seq(S)
  PROVE  \A i \in 1..Len(seq) : seq[i] \in S
OBVIOUS

LEMMA BarsPriced ==
  ASSUME NEW h, Priced(h)
  PROVE  /\ Len(h) \in Nat /\ DOMAIN h = 1..Len(h)
         /\ \A i \in DOMAIN h : h[i].high \in Int /\ h[i].low \in Int /\ h[i].close \in Int
<1>1. Len(h) \in Nat /\ DOMAIN h = 1..Len(h)
  BY DEF Priced
<1>2. \A i \in DOMAIN h : h[i] \in [high : Int, low : Int, close : Int]
  <2> DEFINE Candlestick == [high : Int, low : Int, close : Int]
  <2>1. h \in Seq(Candlestick)
    BY DEF Priced
  <2> HIDE DEF Candlestick
  <2>2. \A i \in 1..Len(h) : h[i] \in Candlestick
    BY <2>1, ElementsOf
  <2> QED
    BY <1>1, <2>2 DEF Candlestick
<1> QED
  BY <1>1, <1>2

LEMMA SequenceOf ==
  ASSUME NEW S, NEW n \in Nat, NEW f \in [1..n -> S]
  PROVE  f \in Seq(S) /\ Len(f) = n
OBVIOUS

LEMMA MirrorPriced ==
  ASSUME NEW h, Priced(h)
  PROVE  /\ Priced(Structure!Mirrored(h)) /\ Len(Structure!Mirrored(h)) = Len(h)
         /\ DOMAIN Structure!Mirrored(h) = DOMAIN h
         /\ \A i \in DOMAIN h : /\ Structure!Mirrored(h)[i].high = TOP - h[i].low
                                /\ Structure!Mirrored(h)[i].low = TOP - h[i].high
                                /\ Structure!Mirrored(h)[i].close = TOP - h[i].close
<1> DEFINE flipped == Structure!Mirrored(h)
           Candlestick == [high : Int, low : Int, close : Int]
<1>1. Len(h) \in Nat /\ DOMAIN h = 1..Len(h)
  BY BarsPriced
<1>2. flipped = [i \in DOMAIN h |-> [high |-> TOP - h[i].low, low |-> TOP - h[i].high, close |-> TOP - h[i].close]]
  BY DEF Structure!Mirrored
<1>3. \A i \in DOMAIN h : flipped[i] = [high |-> TOP - h[i].low, low |-> TOP - h[i].high, close |-> TOP - h[i].close]
  BY <1>2
<1>4. \A i \in DOMAIN h : TOP - h[i].low \in Int /\ TOP - h[i].high \in Int /\ TOP - h[i].close \in Int
  BY BarsPriced, StructureAssumption
<1>5. \A i \in DOMAIN h : flipped[i] \in Candlestick
  <2> TAKE i \in DOMAIN h
  <2>1. flipped[i] = [high |-> TOP - h[i].low, low |-> TOP - h[i].high, close |-> TOP - h[i].close]
    BY <1>3
  <2>2. TOP - h[i].low \in Int /\ TOP - h[i].high \in Int /\ TOP - h[i].close \in Int
    BY <1>4
  <2> HIDE DEF flipped
  <2> QED
    BY <2>1, <2>2
<1>6. DOMAIN flipped = DOMAIN h
  BY <1>2
<1>7. flipped \in [1..Len(h) -> Candlestick]
  <2> HIDE DEF Candlestick
  <2> QED
    BY <1>1, <1>2, <1>5
<1>8. flipped \in Seq(Candlestick) /\ Len(flipped) = Len(h)
  <2> HIDE DEF Candlestick, flipped
  <2> QED
    BY <1>1, <1>7, SequenceOf
<1>9. \A i \in DOMAIN h : /\ flipped[i].high = TOP - h[i].low
                          /\ flipped[i].low = TOP - h[i].high
                          /\ flipped[i].close = TOP - h[i].close
  <2> TAKE i \in DOMAIN h
  <2>1. flipped[i] = [high |-> TOP - h[i].low, low |-> TOP - h[i].high, close |-> TOP - h[i].close]
    BY <1>3
  <2> HIDE DEF flipped
  <2> QED
    BY <2>1
<1> QED
  BY <1>6, <1>8, <1>9 DEF Priced

LEMMA SwingsWithin ==
  ASSUME NEW h, Priced(h)
  PROVE  /\ Structure!SwingHighs(h) \subseteq DOMAIN h /\ Structure!SwingLows(h) \subseteq DOMAIN h
         /\ \A i \in Structure!Inner(h) : i \in DOMAIN h /\ Structure!Neighbours(i) \subseteq DOMAIN h
<1>1. \A i \in Structure!Inner(h) : i \in DOMAIN h /\ Structure!Neighbours(i) \subseteq DOMAIN h
  BY BarsPriced, StructureAssumption DEF Structure!Inner, Structure!Neighbours
<1> QED
  BY <1>1 DEF Structure!SwingHighs, Structure!SwingLows

LEMMA SwingsMirrored ==
  ASSUME NEW h, Priced(h)
  PROVE  /\ Structure!SwingHighs(Structure!Mirrored(h)) = Structure!SwingLows(h)
         /\ Structure!SwingLows(Structure!Mirrored(h)) = Structure!SwingHighs(h)
<1> DEFINE flipped == Structure!Mirrored(h)
<1>1. Structure!Inner(flipped) = Structure!Inner(h)
  BY MirrorPriced DEF Structure!Inner
<1>2. \A i, j \in DOMAIN h : /\ flipped[j].high < flipped[i].high <=> h[j].low > h[i].low
                             /\ flipped[j].low > flipped[i].low <=> h[j].high < h[i].high
  <2> TAKE i, j \in DOMAIN h
  <2>1. /\ h[i].high \in Int /\ h[i].low \in Int /\ h[j].high \in Int /\ h[j].low \in Int /\ TOP \in Int
    BY BarsPriced, StructureAssumption
  <2>2. /\ flipped[i].high = TOP - h[i].low /\ flipped[i].low = TOP - h[i].high
        /\ flipped[j].high = TOP - h[j].low /\ flipped[j].low = TOP - h[j].high
    BY MirrorPriced
  <2> HIDE DEF flipped
  <2> QED
    BY <2>1, <2>2
<1> HIDE DEF flipped
<1>3. \A i \in Structure!Inner(h) : \A j \in Structure!Neighbours(i) :
        /\ flipped[j].high < flipped[i].high <=> h[j].low > h[i].low
        /\ flipped[j].low > flipped[i].low <=> h[j].high < h[i].high
  BY <1>2, SwingsWithin
<1>4. /\ Structure!SwingHighs(flipped) = Structure!SwingLows(h)
      /\ Structure!SwingLows(flipped) = Structure!SwingHighs(h)
  BY <1>1, <1>3 DEF Structure!SwingHighs, Structure!SwingLows
<1> QED
  BY <1>4 DEF flipped

LEMMA SweepsMirrored ==
  ASSUME NEW h, Priced(h), NEW swings \in SUBSET DOMAIN h, NEW bull \in BOOLEAN
  PROVE  Structure!Sweeps(Structure!Mirrored(h), swings, ~bull) = Structure!Sweeps(h, swings, bull)
<1> DEFINE flipped == Structure!Mirrored(h)
<1>1. DOMAIN flipped = DOMAIN h /\ Len(flipped) = Len(h)
  BY MirrorPriced
<1>2. \A s, b \in DOMAIN h : /\ Structure!SweptLow(flipped, s, b) <=> Structure!SweptHigh(h, s, b)
                             /\ Structure!SweptHigh(flipped, s, b) <=> Structure!SweptLow(h, s, b)
  <2> TAKE s, b \in DOMAIN h
  <2>1. /\ h[s].high \in Int /\ h[s].low \in Int /\ h[b].high \in Int /\ h[b].low \in Int
        /\ h[b].close \in Int /\ TOP \in Int
    BY BarsPriced, StructureAssumption
  <2>2. /\ flipped[s].high = TOP - h[s].low /\ flipped[s].low = TOP - h[s].high
        /\ flipped[b].high = TOP - h[b].low /\ flipped[b].low = TOP - h[b].high
        /\ flipped[b].close = TOP - h[b].close
    BY MirrorPriced
  <2> HIDE DEF flipped
  <2>3. /\ flipped[b].low < flipped[s].low <=> h[b].high > h[s].high
        /\ flipped[b].high > flipped[s].high <=> h[b].low < h[s].low
        /\ flipped[b].close > flipped[s].low <=> h[b].close < h[s].high
        /\ flipped[b].close < flipped[s].high <=> h[b].close > h[s].low
    BY <2>1, <2>2
  <2> QED
    BY <2>3 DEF Structure!SweptLow, Structure!SweptHigh
<1>3. \A s : Structure!SweepBars(flipped, s) = Structure!SweepBars(h, s)
  BY <1>1 DEF Structure!SweepBars
<1> HIDE DEF flipped
<1>4. Structure!Sweeps(flipped, swings, ~bull) = Structure!Sweeps(h, swings, bull)
  <2>1. CASE bull
    BY <1>1, <1>2, <1>3, <2>1 DEF Structure!Sweeps
  <2>2. CASE ~bull
    BY <1>1, <1>2, <1>3, <2>2 DEF Structure!Sweeps
  <2> QED
    BY <2>1, <2>2
<1> QED
  BY <1>4 DEF flipped

\* The newest of a chart's swings.
LEMMA NewestSwing ==
  ASSUME NEW h, Priced(h), NEW swings \in SUBSET DOMAIN h, swings # {}
  PROVE  Structure!Max(swings) \in swings
<1>1. swings \subseteq Nat /\ Len(h) \in Nat /\ \A k \in swings : k <= Len(h)
  BY BarsPriced
<1>2. \E m \in swings : \A k \in swings : k <= m
  BY <1>1, GreatestNat
<1>3. \E m \in swings : \A k \in swings : m >= k
  BY <1>1, <1>2
<1> QED
  BY <1>3 DEF Structure!Max

LEMMA AnchorsFound ==
  ASSUME NEW h, Priced(h), NEW broken, NEW sweeps \in SUBSET ((DOMAIN h) \X (DOMAIN h)),
         Structure!Anchors(sweeps, broken) # <<>>
  PROVE  \E p \in sweeps : Structure!Anchors(sweeps, broken) = <<p[1], p[2], broken>>
<1> DEFINE usable == {p \in sweeps : p[1] # broken}
           swings == {p[1] : p \in usable}
           swing == Structure!Max(swings)
           bars == {p[2] : p \in {q \in usable : q[1] = swing}}
           wick == Structure!Min(bars)
<1>1. usable # {} /\ Structure!Anchors(sweeps, broken) = <<swing, wick, broken>>
  BY DEF Structure!Anchors
<1>2. DOMAIN h \subseteq Nat
  BY BarsPriced
<1>3. swings \in SUBSET DOMAIN h /\ swings # {}
  BY <1>1
<1>4. swing \in swings
  <2> HIDE DEF swings
  <2> QED
    BY <1>3, NewestSwing
<1>5. bars \in SUBSET Nat /\ bars # {}
  BY <1>2, <1>4
<1>6. wick \in bars
  <2> HIDE DEF bars
  <2>1. \E m \in bars : \A k \in bars : m <= k
    BY <1>5, LeastNat
  <2> QED
    BY <2>1 DEF Structure!Min
<1>7. PICK p \in usable : p[1] = swing /\ p[2] = wick
  BY <1>6
<1> QED
  BY <1>1, <1>7

LEMMA SweepsWithin ==
  ASSUME NEW h, Priced(h), NEW swings \in SUBSET DOMAIN h, NEW bull \in BOOLEAN
  PROVE  /\ Structure!Sweeps(h, swings, bull) \subseteq (DOMAIN h) \X (DOMAIN h)
         /\ \A p \in Structure!Sweeps(h, swings, bull) :
              IF bull THEN Structure!SweptLow(h, p[1], p[2]) ELSE Structure!SweptHigh(h, p[1], p[2])
<1>1. \A p \in Structure!Sweeps(h, swings, bull) : p \in swings \X DOMAIN h
  BY DEF Structure!Sweeps
<1> QED
  BY <1>1 DEF Structure!Sweeps

\* What the anchors of a bullish candidate are: a low that a wick swept, and the
\* high the last close is past.
LEMMA BullishGrounds ==
  ASSUME NEW h, Priced(h), Structure!BullishAnchors(h) # <<>>
  PROVE  \E s, b, k \in DOMAIN h :
           /\ Structure!BullishAnchors(h) = <<s, b, k>>
           /\ Structure!SweptLow(h, s, b) /\ h[Len(h)].close > h[k].high
<1> DEFINE broken == Structure!Max(Structure!SwingHighs(h))
           sweeps == Structure!Sweeps(h, Structure!SwingLows(h), TRUE)
<1>1. /\ Structure!SwingHighs(h) # {} /\ ~(h[Len(h)].close <= h[broken].high)
      /\ Structure!BullishAnchors(h) = Structure!Anchors(sweeps, broken)
  BY DEF Structure!BullishAnchors
<1>2. broken \in DOMAIN h
  BY <1>1, SwingsWithin, NewestSwing
<1>3. /\ sweeps \in SUBSET ((DOMAIN h) \X (DOMAIN h))
      /\ \A p \in sweeps : Structure!SweptLow(h, p[1], p[2])
  BY SwingsWithin, SweepsWithin
<1>4. Len(h) \in DOMAIN h
  BY <1>2, BarsPriced
<1>5. h[Len(h)].close > h[broken].high
  <2>1. h[Len(h)].close \in Int /\ h[broken].high \in Int
    BY <1>2, <1>4, BarsPriced
  <2> QED
    BY <1>1, <2>1
<1> HIDE DEF broken, sweeps
<1>6. PICK p \in sweeps : Structure!Anchors(sweeps, broken) = <<p[1], p[2], broken>>
  BY <1>1, <1>3, AnchorsFound
<1>7. p[1] \in DOMAIN h /\ p[2] \in DOMAIN h /\ Structure!SweptLow(h, p[1], p[2])
  BY <1>3
<1> QED
  BY <1>1, <1>2, <1>5, <1>6, <1>7

LEMMA BearishGrounds ==
  ASSUME NEW h, Priced(h), Structure!BearishAnchors(h) # <<>>
  PROVE  \E s, b, k \in DOMAIN h :
           /\ Structure!BearishAnchors(h) = <<s, b, k>>
           /\ Structure!SweptHigh(h, s, b) /\ h[Len(h)].close < h[k].low
<1> DEFINE broken == Structure!Max(Structure!SwingLows(h))
           sweeps == Structure!Sweeps(h, Structure!SwingHighs(h), FALSE)
<1>1. /\ Structure!SwingLows(h) # {} /\ ~(h[Len(h)].close >= h[broken].low)
      /\ Structure!BearishAnchors(h) = Structure!Anchors(sweeps, broken)
  BY DEF Structure!BearishAnchors
<1>2. broken \in DOMAIN h
  BY <1>1, SwingsWithin, NewestSwing
<1>3. /\ sweeps \in SUBSET ((DOMAIN h) \X (DOMAIN h))
      /\ \A p \in sweeps : Structure!SweptHigh(h, p[1], p[2])
  BY SwingsWithin, SweepsWithin
<1>4. Len(h) \in DOMAIN h
  BY <1>2, BarsPriced
<1>5. h[Len(h)].close < h[broken].low
  <2>1. h[Len(h)].close \in Int /\ h[broken].low \in Int
    BY <1>2, <1>4, BarsPriced
  <2> QED
    BY <1>1, <2>1
<1> HIDE DEF broken, sweeps
<1>6. PICK p \in sweeps : Structure!Anchors(sweeps, broken) = <<p[1], p[2], broken>>
  BY <1>1, <1>3, AnchorsFound
<1>7. p[1] \in DOMAIN h /\ p[2] \in DOMAIN h /\ Structure!SweptHigh(h, p[1], p[2])
  BY <1>3
<1> QED
  BY <1>1, <1>2, <1>5, <1>6, <1>7

\* The anchors of one direction are the other's in the mirror.
LEMMA AnchorsMirrored ==
  ASSUME NEW h, Priced(h), Len(h) # 0
  PROVE  /\ Structure!BullishAnchors(Structure!Mirrored(h)) = Structure!BearishAnchors(h)
         /\ Structure!BearishAnchors(Structure!Mirrored(h)) = Structure!BullishAnchors(h)
<1> DEFINE flipped == Structure!Mirrored(h)
           highs == Structure!SwingHighs(h)
           lows == Structure!SwingLows(h)
<1>1. Structure!SwingHighs(flipped) = lows /\ Structure!SwingLows(flipped) = highs
  BY SwingsMirrored
<1>2. highs \in SUBSET DOMAIN h /\ lows \in SUBSET DOMAIN h
  BY SwingsWithin
<1>3. /\ Structure!Sweeps(flipped, highs, TRUE) = Structure!Sweeps(h, highs, FALSE)
      /\ Structure!Sweeps(flipped, lows, FALSE) = Structure!Sweeps(h, lows, TRUE)
  <2>1. (~FALSE) = TRUE /\ (~TRUE) = FALSE
    OBVIOUS
  <2> HIDE DEF highs, lows
  <2>2. /\ Structure!Sweeps(flipped, highs, ~FALSE) = Structure!Sweeps(h, highs, FALSE)
        /\ Structure!Sweeps(flipped, lows, ~TRUE) = Structure!Sweeps(h, lows, TRUE)
    BY <1>2, SweepsMirrored
  <2> QED
    BY <2>1, <2>2
<1>4. Len(flipped) = Len(h) /\ Len(h) \in DOMAIN h
  BY MirrorPriced, BarsPriced
<1>5. ASSUME NEW k \in DOMAIN h
      PROVE  /\ flipped[Len(h)].close <= flipped[k].high <=> h[Len(h)].close >= h[k].low
             /\ flipped[Len(h)].close >= flipped[k].low <=> h[Len(h)].close <= h[k].high
  <2>1. h[Len(h)].close \in Int /\ h[k].low \in Int /\ h[k].high \in Int /\ TOP \in Int
    BY <1>4, BarsPriced, StructureAssumption
  <2>2. /\ flipped[Len(h)].close = TOP - h[Len(h)].close
        /\ flipped[k].high = TOP - h[k].low /\ flipped[k].low = TOP - h[k].high
    BY <1>4, MirrorPriced
  <2> HIDE DEF flipped
  <2> QED
    BY <2>1, <2>2
<1>6. highs # {} => Structure!Max(highs) \in DOMAIN h
  BY <1>2, NewestSwing
<1>7. lows # {} => Structure!Max(lows) \in DOMAIN h
  BY <1>2, NewestSwing
<1> HIDE DEF flipped
<1>8. Structure!BullishAnchors(flipped) = Structure!BearishAnchors(h)
  BY <1>1, <1>3, <1>4, <1>5, <1>7 DEF Structure!BullishAnchors, Structure!BearishAnchors
<1>9. Structure!BearishAnchors(flipped) = Structure!BullishAnchors(h)
  BY <1>1, <1>3, <1>4, <1>5, <1>6 DEF Structure!BullishAnchors, Structure!BearishAnchors
<1> QED
  BY <1>8, <1>9 DEF flipped

LEMMA DisplacedMirrored ==
  ASSUME NEW h, Priced(h)
  PROVE  Structure!Displaced(Structure!Mirrored(h)) <=> Structure!Displaced(h)
<1> DEFINE flipped == Structure!Mirrored(h)
<1>1. Len(flipped) = Len(h) /\ DOMAIN flipped = DOMAIN h
  BY MirrorPriced
<1>2. ASSUME NEW i \in DOMAIN h PROVE flipped[i].high - flipped[i].low = h[i].high - h[i].low
  <2>1. h[i].low \in Int /\ h[i].high \in Int /\ TOP \in Int
    BY BarsPriced, StructureAssumption
  <2>2. flipped[i].high = TOP - h[i].low /\ flipped[i].low = TOP - h[i].high
    BY MirrorPriced
  <2> HIDE DEF flipped
  <2> QED
    BY <2>1, <2>2
<1> HIDE DEF flipped
<1>3. Structure!Ranges(flipped) = Structure!Ranges(h)
  BY <1>1, <1>2 DEF Structure!Ranges
<1>4. Structure!Displaced(flipped) <=> Structure!Displaced(h)
  BY <1>1, <1>3 DEF Structure!Displaced
<1> QED
  BY <1>4 DEF flipped

\* What Built works with: two extremes and a close give a candidate, or none.
LEMMA LeastOfPair ==
  ASSUME NEW a \in Int, NEW b \in Int
  PROVE  /\ Structure!Min({a, b}) \in Int /\ Structure!Min({a, b}) <= a /\ Structure!Min({a, b}) <= b
         /\ Structure!Max({a, b}) \in Int /\ Structure!Max({a, b}) >= a /\ Structure!Max({a, b}) >= b
         /\ Structure!Min({a, b}) \in {a, b} /\ Structure!Max({a, b}) \in {a, b}
<1>1. \E m \in {a, b} : \A k \in {a, b} : m <= k
  <2>1. CASE a <= b
    BY <2>1
  <2>2. CASE b <= a
    BY <2>2
  <2> QED
    BY <2>1, <2>2
<1>2. \E m \in {a, b} : \A k \in {a, b} : m >= k
  <2>1. CASE a <= b
    BY <2>1
  <2>2. CASE b <= a
    BY <2>2
  <2> QED
    BY <2>1, <2>2
<1>3. Structure!Min({a, b}) \in {a, b} /\ \A k \in {a, b} : Structure!Min({a, b}) <= k
  BY <1>1 DEF Structure!Min
<1>4. Structure!Max({a, b}) \in {a, b} /\ \A k \in {a, b} : Structure!Max({a, b}) >= k
  BY <1>2 DEF Structure!Max
<1> QED
  BY <1>3, <1>4

LEMMA PairMirrored ==
  ASSUME NEW a \in Int, NEW b \in Int
  PROVE  /\ Structure!Min({TOP - a, TOP - b}) = TOP - Structure!Max({a, b})
         /\ Structure!Max({TOP - a, TOP - b}) = TOP - Structure!Min({a, b})
<1>1. TOP \in Int /\ TOP - a \in Int /\ TOP - b \in Int
  BY StructureAssumption
<1> DEFINE least == Structure!Min({a, b})
           greatest == Structure!Max({a, b})
           under == Structure!Min({TOP - a, TOP - b})
           over == Structure!Max({TOP - a, TOP - b})
<1>2. least \in {a, b} /\ least <= a /\ least <= b /\ greatest \in {a, b} /\ greatest >= a /\ greatest >= b
  BY LeastOfPair
<1>3. /\ under \in {TOP - a, TOP - b} /\ under <= TOP - a /\ under <= TOP - b
      /\ over \in {TOP - a, TOP - b} /\ over >= TOP - a /\ over >= TOP - b
  BY <1>1, LeastOfPair
<1> HIDE DEF least, greatest, under, over
<1>4. under = TOP - greatest
  BY <1>1, <1>2, <1>3
<1>5. over = TOP - least
  BY <1>1, <1>2, <1>3
<1> QED
  BY <1>4, <1>5 DEF least, greatest, under, over

LEMMA Flipped ==
  ASSUME NEW a \in Int, NEW b \in Int
  PROVE  (TOP - a) - (TOP - b) = b - a /\ b - a \in Int
BY StructureAssumption

LEMMA BullishBuilt ==
  ASSUME NEW h, Priced(h), Len(h) > 2, NEW s \in DOMAIN h, NEW b \in DOMAIN h, NEW k \in DOMAIN h
  PROVE  Structure!Built("bearish", <<s, b, k>>, Structure!Mirrored(h))
           = Structure!MirroredCandidate(Structure!Built("bullish", <<s, b, k>>, h))
<1> DEFINE flipped == Structure!Mirrored(h)
           n == Len(h)
           stop == Structure!Min({h[b].low, h[n].low})
           mirror_stop == Structure!Max({flipped[b].high, flipped[n].high})
           gap == h[n].low - h[n - 2].high
           mirror_gap == flipped[n - 2].low - flipped[n].high
           distance == h[n].close - stop
           mirror_distance == mirror_stop - flipped[n].close
           made == [direction |-> "bullish", entry |-> h[n].close, stop |-> stop, swept |-> h[s].low,
                    broken |-> h[k].high, grade |-> Structure!Grade(gap, distance)]
           mirror_made == [direction |-> "bearish", entry |-> flipped[n].close, stop |-> mirror_stop,
                           swept |-> flipped[s].high, broken |-> flipped[k].low,
                           grade |-> Structure!Grade(mirror_gap, mirror_distance)]
<1>1. n \in DOMAIN h /\ n - 2 \in DOMAIN h /\ Len(flipped) = n /\ TOP \in Int
  BY BarsPriced, MirrorPriced, StructureAssumption
<1>2. \A i \in DOMAIN h : /\ h[i].high \in Int /\ h[i].low \in Int /\ h[i].close \in Int
                          /\ flipped[i].high = TOP - h[i].low /\ flipped[i].low = TOP - h[i].high
                          /\ flipped[i].close = TOP - h[i].close
  BY BarsPriced, MirrorPriced
<1>3. Structure!Built("bullish", <<s, b, k>>, h)
        = IF distance <= 0 \/ gap <= 0 THEN Structure!NoCandidate ELSE made
  BY DEF Structure!Built
<1>4. Structure!Built("bearish", <<s, b, k>>, flipped)
        = IF mirror_distance <= 0 \/ mirror_gap <= 0 THEN Structure!NoCandidate ELSE mirror_made
  <2> HIDE DEF flipped
  <2> QED
    BY <1>1 DEF Structure!Built
<1>5. /\ h[n].high \in Int /\ h[n].low \in Int /\ h[n].close \in Int /\ h[n - 2].low \in Int
      /\ h[n - 2].high \in Int /\ h[b].low \in Int /\ h[b].high \in Int
  BY <1>1, <1>2
<1>6. /\ flipped[n].high = TOP - h[n].low /\ flipped[n].low = TOP - h[n].high
      /\ flipped[n].close = TOP - h[n].close
      /\ flipped[n - 2].high = TOP - h[n - 2].low /\ flipped[n - 2].low = TOP - h[n - 2].high
      /\ flipped[b].high = TOP - h[b].low /\ flipped[b].low = TOP - h[b].high
      /\ flipped[s].high = TOP - h[s].low /\ flipped[k].low = TOP - h[k].high
  BY <1>1, <1>2
<1> HIDE DEF flipped, n
<1>7. mirror_stop = TOP - stop /\ stop \in Int
  <2>1. mirror_stop = Structure!Max({TOP - h[b].low, TOP - h[n].low})
    BY <1>6
  <2>2. Structure!Max({TOP - h[b].low, TOP - h[n].low}) = TOP - stop
    BY <1>5, PairMirrored
  <2>3. stop \in Int
    BY <1>5, LeastOfPair
  <2> QED
    BY <2>1, <2>2, <2>3
<1> HIDE DEF stop, mirror_stop
<1>8. mirror_gap = gap /\ mirror_distance = distance /\ gap \in Int /\ distance \in Int
  <2>1. mirror_gap = (TOP - h[n - 2].high) - (TOP - h[n].low)
    BY <1>6
  <2>2. (TOP - h[n - 2].high) - (TOP - h[n].low) = gap /\ gap \in Int
    BY <1>5, Flipped
  <2>3. mirror_distance = (TOP - stop) - (TOP - h[n].close)
    BY <1>6, <1>7
  <2>4. (TOP - stop) - (TOP - h[n].close) = distance /\ distance \in Int
    BY <1>5, <1>7, Flipped
  <2> QED
    BY <2>1, <2>2, <2>3, <2>4
<1> HIDE DEF gap, mirror_gap, distance, mirror_distance
<1>9. Structure!MirroredCandidate(made) = mirror_made
  <2>1. made # Structure!NoCandidate
    <3>1. made.direction = "bullish" /\ Structure!NoCandidate.direction = "none"
      BY DEF Structure!NoCandidate
    <3> QED
      BY <3>1
  <2>2. /\ made.direction = "bullish" /\ made.entry = h[n].close /\ made.stop = stop
        /\ made.swept = h[s].low /\ made.broken = h[k].high /\ made.grade = Structure!Grade(gap, distance)
    OBVIOUS
  <2>3. Structure!MirroredCandidate(made)
          = [direction |-> "bearish", entry |-> TOP - h[n].close, stop |-> TOP - stop,
             swept |-> TOP - h[s].low, broken |-> TOP - h[k].high, grade |-> Structure!Grade(gap, distance)]
    <3> HIDE DEF made
    <3> QED
      BY <2>1, <2>2 DEF Structure!MirroredCandidate
  <2> HIDE DEF made
  <2> QED
    BY <1>6, <1>7, <1>8, <2>3
<1>10. Structure!MirroredCandidate(Structure!NoCandidate) = Structure!NoCandidate
  BY DEF Structure!MirroredCandidate
<1> HIDE DEF made, mirror_made
<1>11. Structure!Built("bearish", <<s, b, k>>, flipped)
         = Structure!MirroredCandidate(Structure!Built("bullish", <<s, b, k>>, h))
  BY <1>3, <1>4, <1>8, <1>9, <1>10
<1> QED
  BY <1>11 DEF flipped

LEMMA BearishBuilt ==
  ASSUME NEW h, Priced(h), Len(h) > 2, NEW s \in DOMAIN h, NEW b \in DOMAIN h, NEW k \in DOMAIN h
  PROVE  Structure!Built("bullish", <<s, b, k>>, Structure!Mirrored(h))
           = Structure!MirroredCandidate(Structure!Built("bearish", <<s, b, k>>, h))
<1> DEFINE flipped == Structure!Mirrored(h)
           n == Len(h)
           stop == Structure!Max({h[b].high, h[n].high})
           mirror_stop == Structure!Min({flipped[b].low, flipped[n].low})
           gap == h[n - 2].low - h[n].high
           mirror_gap == flipped[n].low - flipped[n - 2].high
           distance == stop - h[n].close
           mirror_distance == flipped[n].close - mirror_stop
           made == [direction |-> "bearish", entry |-> h[n].close, stop |-> stop, swept |-> h[s].high,
                    broken |-> h[k].low, grade |-> Structure!Grade(gap, distance)]
           mirror_made == [direction |-> "bullish", entry |-> flipped[n].close, stop |-> mirror_stop,
                           swept |-> flipped[s].low, broken |-> flipped[k].high,
                           grade |-> Structure!Grade(mirror_gap, mirror_distance)]
<1>1. n \in DOMAIN h /\ n - 2 \in DOMAIN h /\ Len(flipped) = n /\ TOP \in Int
  BY BarsPriced, MirrorPriced, StructureAssumption
<1>2. \A i \in DOMAIN h : /\ h[i].high \in Int /\ h[i].low \in Int /\ h[i].close \in Int
                          /\ flipped[i].high = TOP - h[i].low /\ flipped[i].low = TOP - h[i].high
                          /\ flipped[i].close = TOP - h[i].close
  BY BarsPriced, MirrorPriced
<1>3. Structure!Built("bearish", <<s, b, k>>, h)
        = IF distance <= 0 \/ gap <= 0 THEN Structure!NoCandidate ELSE made
  BY DEF Structure!Built
<1>4. Structure!Built("bullish", <<s, b, k>>, flipped)
        = IF mirror_distance <= 0 \/ mirror_gap <= 0 THEN Structure!NoCandidate ELSE mirror_made
  <2> HIDE DEF flipped
  <2> QED
    BY <1>1 DEF Structure!Built
<1>5. /\ h[n].high \in Int /\ h[n].low \in Int /\ h[n].close \in Int /\ h[n - 2].low \in Int
      /\ h[n - 2].high \in Int /\ h[b].low \in Int /\ h[b].high \in Int
  BY <1>1, <1>2
<1>6. /\ flipped[n].high = TOP - h[n].low /\ flipped[n].low = TOP - h[n].high
      /\ flipped[n].close = TOP - h[n].close
      /\ flipped[n - 2].high = TOP - h[n - 2].low /\ flipped[n - 2].low = TOP - h[n - 2].high
      /\ flipped[b].high = TOP - h[b].low /\ flipped[b].low = TOP - h[b].high
      /\ flipped[s].low = TOP - h[s].high /\ flipped[k].high = TOP - h[k].low
  BY <1>1, <1>2
<1> HIDE DEF flipped, n
<1>7. mirror_stop = TOP - stop /\ stop \in Int
  <2>1. mirror_stop = Structure!Min({TOP - h[b].high, TOP - h[n].high})
    BY <1>6
  <2>2. Structure!Min({TOP - h[b].high, TOP - h[n].high}) = TOP - stop
    BY <1>5, PairMirrored
  <2>3. stop \in Int
    BY <1>5, LeastOfPair
  <2> QED
    BY <2>1, <2>2, <2>3
<1> HIDE DEF stop, mirror_stop
<1>8. mirror_gap = gap /\ mirror_distance = distance /\ gap \in Int /\ distance \in Int
  <2>1. mirror_gap = (TOP - h[n].high) - (TOP - h[n - 2].low)
    BY <1>6
  <2>2. (TOP - h[n].high) - (TOP - h[n - 2].low) = gap /\ gap \in Int
    BY <1>5, Flipped
  <2>3. mirror_distance = (TOP - h[n].close) - (TOP - stop)
    BY <1>6, <1>7
  <2>4. (TOP - h[n].close) - (TOP - stop) = distance /\ distance \in Int
    BY <1>5, <1>7, Flipped
  <2> QED
    BY <2>1, <2>2, <2>3, <2>4
<1> HIDE DEF gap, mirror_gap, distance, mirror_distance
<1>9. Structure!MirroredCandidate(made) = mirror_made
  <2>1. made # Structure!NoCandidate
    <3>1. made.direction = "bearish" /\ Structure!NoCandidate.direction = "none"
      BY DEF Structure!NoCandidate
    <3> QED
      BY <3>1
  <2>2. /\ made.direction = "bearish" /\ made.entry = h[n].close /\ made.stop = stop
        /\ made.swept = h[s].high /\ made.broken = h[k].low /\ made.grade = Structure!Grade(gap, distance)
    OBVIOUS
  <2>3. Structure!MirroredCandidate(made)
          = [direction |-> "bullish", entry |-> TOP - h[n].close, stop |-> TOP - stop,
             swept |-> TOP - h[s].high, broken |-> TOP - h[k].low, grade |-> Structure!Grade(gap, distance)]
    <3> HIDE DEF made
    <3> QED
      BY <2>1, <2>2 DEF Structure!MirroredCandidate
  <2> HIDE DEF made
  <2> QED
    BY <1>6, <1>7, <1>8, <2>3
<1>10. Structure!MirroredCandidate(Structure!NoCandidate) = Structure!NoCandidate
  BY DEF Structure!MirroredCandidate
<1> HIDE DEF made, mirror_made
<1>11. Structure!Built("bullish", <<s, b, k>>, flipped)
         = Structure!MirroredCandidate(Structure!Built("bearish", <<s, b, k>>, h))
  BY <1>3, <1>4, <1>8, <1>9, <1>10
<1> QED
  BY <1>11 DEF flipped

Charted == Priced(candles) /\ found = Structure!Detect(candles)

\* What is found has its levels on the right sides, whatever the chart.
LEMMA FoundCoherent ==
  ASSUME NEW h, Priced(h)
  PROVE  LET made == Structure!Detect(h)
         IN /\ made.direction = "bullish" => made.stop < made.swept /\ made.broken < made.entry
            /\ made.direction = "bearish" => made.stop > made.swept /\ made.broken > made.entry
<1> DEFINE made == Structure!Detect(h)
<1>1. Structure!NoCandidate.direction = "none"
  BY DEF Structure!NoCandidate
<1>2. ASSUME Structure!BullishAnchors(h) # <<>>, made = Structure!Built("bullish", Structure!BullishAnchors(h), h),
             made # Structure!NoCandidate
      PROVE  made.direction = "bullish" /\ made.stop < made.swept /\ made.broken < made.entry
  <2>1. PICK s \in DOMAIN h, b \in DOMAIN h, k \in DOMAIN h :
          /\ Structure!BullishAnchors(h) = <<s, b, k>>
          /\ Structure!SweptLow(h, s, b) /\ h[Len(h)].close > h[k].high
    BY <1>2, BullishGrounds
  <2> DEFINE stop == Structure!Min({h[b].low, h[Len(h)].low})
  <2>2. /\ made.direction = "bullish" /\ made.stop = stop /\ made.swept = h[s].low
        /\ made.broken = h[k].high /\ made.entry = h[Len(h)].close
    <3>1. made = Structure!Built("bullish", <<s, b, k>>, h)
      BY <1>2, <2>1
    <3> HIDE DEF made
    <3>2. made = [direction |-> "bullish", entry |-> h[Len(h)].close, stop |-> stop, swept |-> h[s].low,
                  broken |-> h[k].high,
                  grade |-> Structure!Grade(h[Len(h)].low - h[Len(h) - 2].high, h[Len(h)].close - stop)]
      BY <1>2, <3>1 DEF Structure!Built
    <3> QED
      BY <3>2
  <2>3. Len(h) \in DOMAIN h
    BY BarsPriced
  <2>4. h[b].low \in Int /\ h[Len(h)].low \in Int /\ h[s].low \in Int /\ h[b].low < h[s].low
    BY <2>1, <2>3, BarsPriced DEF Structure!SweptLow
  <2>5. stop \in Int /\ stop <= h[b].low
    BY <2>4, LeastOfPair
  <2>6. h[k].high < h[Len(h)].close
    <3>1. h[Len(h)].close \in Int /\ h[k].high \in Int
      BY <2>3, BarsPriced
    <3> QED
      BY <2>1, <3>1
  <2> HIDE DEF made, stop
  <2> QED
    BY <2>2, <2>4, <2>5, <2>6
<1>3. ASSUME Structure!BearishAnchors(h) # <<>>, made = Structure!Built("bearish", Structure!BearishAnchors(h), h),
             made # Structure!NoCandidate
      PROVE  made.direction = "bearish" /\ made.stop > made.swept /\ made.broken > made.entry
  <2>1. PICK s \in DOMAIN h, b \in DOMAIN h, k \in DOMAIN h :
          /\ Structure!BearishAnchors(h) = <<s, b, k>>
          /\ Structure!SweptHigh(h, s, b) /\ h[Len(h)].close < h[k].low
    BY <1>3, BearishGrounds
  <2> DEFINE stop == Structure!Max({h[b].high, h[Len(h)].high})
  <2>2. /\ made.direction = "bearish" /\ made.stop = stop /\ made.swept = h[s].high
        /\ made.broken = h[k].low /\ made.entry = h[Len(h)].close
    <3>1. made = Structure!Built("bearish", <<s, b, k>>, h)
      BY <1>3, <2>1
    <3> HIDE DEF made
    <3>2. made = [direction |-> "bearish", entry |-> h[Len(h)].close, stop |-> stop, swept |-> h[s].high,
                  broken |-> h[k].low,
                  grade |-> Structure!Grade(h[Len(h) - 2].low - h[Len(h)].high, stop - h[Len(h)].close)]
      BY <1>3, <3>1 DEF Structure!Built
    <3> QED
      BY <3>2
  <2>3. Len(h) \in DOMAIN h
    BY BarsPriced
  <2>4. h[b].high \in Int /\ h[Len(h)].high \in Int /\ h[s].high \in Int /\ h[b].high > h[s].high
    BY <2>1, <2>3, BarsPriced DEF Structure!SweptHigh
  <2>5. stop \in Int /\ stop >= h[b].high
    BY <2>4, LeastOfPair
  <2>6. h[k].low > h[Len(h)].close
    <3>1. h[Len(h)].close \in Int /\ h[k].low \in Int
      BY <2>3, BarsPriced
    <3> QED
      BY <2>1, <3>1
  <2> HIDE DEF made, stop
  <2> QED
    BY <2>2, <2>4, <2>5, <2>6
<1>4. \/ made = Structure!NoCandidate
      \/ Structure!BullishAnchors(h) # <<>> /\ made = Structure!Built("bullish", Structure!BullishAnchors(h), h)
      \/ Structure!BearishAnchors(h) # <<>> /\ made = Structure!Built("bearish", Structure!BearishAnchors(h), h)
  BY DEF Structure!Detect
<1> HIDE DEF made
<1>5. /\ made.direction = "bullish" => made.stop < made.swept /\ made.broken < made.entry
      /\ made.direction = "bearish" => made.stop > made.swept /\ made.broken > made.entry
  BY <1>1, <1>2, <1>3, <1>4
<1> QED
  BY <1>5 DEF made

LEMMA DetectMirrored ==
  ASSUME NEW h, Priced(h), Structure!BullishAnchors(h) = <<>> \/ Structure!BearishAnchors(h) = <<>>
  PROVE  Structure!Detect(Structure!Mirrored(h)) = Structure!MirroredCandidate(Structure!Detect(h))
<1> DEFINE flipped == Structure!Mirrored(h)
<1>1. Len(flipped) = Len(h) /\ Len(h) \in Nat /\ (Structure!Displaced(flipped) <=> Structure!Displaced(h))
  BY MirrorPriced, BarsPriced, DisplacedMirrored
<1>2. Structure!MirroredCandidate(Structure!NoCandidate) = Structure!NoCandidate
  BY DEF Structure!MirroredCandidate
<1> HIDE DEF flipped
<1>3. CASE Len(h) < 2 * STRENGTH + 5 \/ ~Structure!Displaced(h)
  <2>1. Structure!Detect(h) = Structure!NoCandidate /\ Structure!Detect(flipped) = Structure!NoCandidate
    BY <1>1, <1>3 DEF Structure!Detect
  <2> QED
    BY <1>2, <2>1 DEF flipped
<1>4. CASE ~(Len(h) < 2 * STRENGTH + 5) /\ Structure!Displaced(h)
  <2>1. Len(h) > 2
    BY <1>1, <1>4, StructureAssumption
  <2>2. /\ Structure!BullishAnchors(flipped) = Structure!BearishAnchors(h)
        /\ Structure!BearishAnchors(flipped) = Structure!BullishAnchors(h)
    BY <1>1, <2>1, AnchorsMirrored DEF flipped
  <2>3. ~(Len(flipped) < 2 * STRENGTH + 5) /\ Structure!Displaced(flipped)
    BY <1>1, <1>4
  <2>4. CASE Structure!BullishAnchors(h) # <<>>
    <3>1. PICK s \in DOMAIN h, b \in DOMAIN h, k \in DOMAIN h : Structure!BullishAnchors(h) = <<s, b, k>>
      BY <2>4, BullishGrounds
    <3>2. /\ Structure!Detect(h) = Structure!Built("bullish", <<s, b, k>>, h)
          /\ Structure!Detect(flipped) = Structure!Built("bearish", <<s, b, k>>, flipped)
      BY <1>4, <2>2, <2>3, <2>4, <3>1 DEF Structure!Detect
    <3> QED
      BY <2>1, <3>2, BullishBuilt DEF flipped
  <2>5. CASE Structure!BullishAnchors(h) = <<>> /\ Structure!BearishAnchors(h) # <<>>
    <3>1. PICK s \in DOMAIN h, b \in DOMAIN h, k \in DOMAIN h : Structure!BearishAnchors(h) = <<s, b, k>>
      BY <2>5, BearishGrounds
    <3>2. /\ Structure!Detect(h) = Structure!Built("bearish", <<s, b, k>>, h)
          /\ Structure!Detect(flipped) = Structure!Built("bullish", <<s, b, k>>, flipped)
      BY <1>4, <2>2, <2>3, <2>5, <3>1 DEF Structure!Detect
    <3> QED
      BY <2>1, <3>2, BearishBuilt DEF flipped
  <2>6. CASE Structure!BullishAnchors(h) = <<>> /\ Structure!BearishAnchors(h) = <<>>
    <3>1. Structure!Detect(h) = Structure!NoCandidate /\ Structure!Detect(flipped) = Structure!NoCandidate
      BY <1>4, <2>2, <2>3, <2>6 DEF Structure!Detect
    <3> QED
      BY <1>2, <3>1 DEF flipped
  <2> QED
    BY <2>4, <2>5, <2>6
<1> QED
  BY <1>3, <1>4

LEMMA ChartedMirrors == Charted => Structure!BearishMirrorsBullish
BY DetectMirrored, FoundCoherent DEF Charted, Structure!BearishMirrorsBullish

LEMMA ChartedStep == Charted /\ [Structure!CloseCandle]_structure_vars => Charted'
<1> SUFFICES ASSUME Charted, [Structure!CloseCandle]_structure_vars PROVE Charted'
  OBVIOUS
<1>1. CASE Structure!CloseCandle
  <2> DEFINE Candlestick == [high : Int, low : Int, close : Int]
  <2>1. \A b \in {Start} \cup Between \cup Breaks : b \in Candlestick
    BY DEF Start, Between, Breaks, Candle
  <2>2. Len(candles) \in Nat /\ Len(candles) < 7
    <3>1. Len(MCShapes) = 7
      BY DEF MCShapes
    <3> QED
      BY <1>1, <3>1, BarsPriced DEF Structure!CloseCandle, Charted
  <2>3. MCShapes[Len(candles) + 1] \subseteq {Start} \cup Between \cup Breaks
    <3>1. Len(candles) + 1 \in {1, 2, 3, 4, 5, 6, 7}
      BY <2>2
    <3> QED
      BY <3>1 DEF MCShapes
  <2>4. PICK c \in MCShapes[Len(candles) + 1] : candles' = Append(candles, c)
    BY <1>1 DEF Structure!CloseCandle
  <2>5. c \in Candlestick /\ candles \in Seq(Candlestick)
    BY <2>1, <2>3, <2>4 DEF Charted, Priced
  <2>6. candles' \in Seq(Candlestick)
    <3> HIDE DEF Candlestick
    <3> QED
      BY <2>4, <2>5
  <2>7. found' = Structure!Detect(candles')
    BY <1>1 DEF Structure!CloseCandle
  <2> QED
    BY <2>6, <2>7 DEF Charted, Priced
<1>2. CASE UNCHANGED structure_vars
  BY <1>2 DEF structure_vars, Charted
<1> QED
  BY <1>1, <1>2

LEMMA ChartedInit == Structure!StructureInit => Charted
<1> SUFFICES ASSUME Structure!StructureInit PROVE Charted
  OBVIOUS
<1>1. candles = <<>> /\ found = Structure!NoCandidate
  BY DEF Structure!StructureInit
<1>2. Priced(<<>>) /\ Len(<<>>) = 0
  BY DEF Priced
<1>3. 0 < 2 * STRENGTH + 5
  BY StructureAssumption
<1>4. Structure!Detect(<<>>) = Structure!NoCandidate
  BY <1>2, <1>3 DEF Structure!Detect
<1> QED
  BY <1>1, <1>2, <1>4 DEF Charted

LEMMA StructureFrame == [MCNext]_mc_vars => [Structure!CloseCandle]_structure_vars
BY DEF MCNext, mc_vars, replay_vars, structure_vars, Watching, Deciding, Replaying, Limiting

\* Bearish is bullish upside down, and every candidate's levels are on the right
\* sides, for every chart and every strength, recency and range of prices.
THEOREM Mirrors == MCSpec => []BearishMirrorsBullish
<1>1. MCInit => Charted
  BY ChartedInit DEF MCInit
<1>2. Charted /\ [MCNext]_mc_vars => Charted'
  BY ChartedStep, StructureFrame
<1>3. Charted => BearishMirrorsBullish
  BY ChartedMirrors DEF BearishMirrorsBullish
<1> QED
  BY <1>1, <1>2, <1>3, PTL DEF MCSpec

-----------------------------------------------------------------------------
(* What is told of a decision.  The reasons are folds of the rules that hold, *)
(* of the guardrail's and of the reading's, with repeats left out; a fold is  *)
(* proved to collect its additions by the smallest set it would not, for want *)
(* of induction over data.  From there the members of every list are known    *)
(* rule by rule (RulesSay, GuardSays), and the record is compared with the    *)
(* decision it was made of.                                                   *)

-----------------------------------------------------------------------------
(* A fold over a sequence, element after element.                             *)

\* g folds every set of places: the last of them after the others.
Folded(g, start, pick, next, S) ==
  g = [s \in SUBSET S |-> IF s = {} THEN start ELSE next[<<pick[s], g[s \ {pick[s]}]>>]]

LEMMA FoldExists ==
  ASSUME NEW S, IsFiniteSet(S), NEW start, NEW next,
         NEW pick, \A s \in SUBSET S : s # {} => pick[s] \in s
  PROVE  \E g : Folded(g, start, pick, next, S)
<1> DEFINE UpTo(n) == {s \in SUBSET S : Cardinality(s) <= n}
           Folds(g, n) == g = [s \in UpTo(n) |-> IF s = {} THEN start ELSE next[<<pick[s], g[s \ {pick[s]}]>>]]
           bad == {n \in Nat : ~\E g : Folds(g, n)}
<1>1. \A s \in SUBSET S : Cardinality(s) \in Nat
  BY FS_Subset, FS_CardinalityType
<1>2. \A s \in SUBSET S : s # {} => /\ s \ {pick[s]} \in SUBSET S
                                    /\ Cardinality(s \ {pick[s]}) = Cardinality(s) - 1
  BY OneLess
<1>3. bad = {}
  <2> SUFFICES ASSUME bad # {} PROVE FALSE
    OBVIOUS
  <2>1. PICK m \in bad : \A k \in bad : m <= k
    BY LeastNat
  <2>2. m \in Nat /\ ~\E g : Folds(g, m)
    OBVIOUS
  <2>3. CASE m = 0
    <3> DEFINE g == [s \in UpTo(0) |-> start]
    <3>1. ASSUME NEW s \in UpTo(0) PROVE s = {}
      <4> SUFFICES ASSUME s # {} PROVE FALSE
        OBVIOUS
      <4>1. /\ Cardinality(s) \in Nat /\ Cardinality(s) <= 0
            /\ Cardinality(s \ {pick[s]}) \in Nat /\ Cardinality(s \ {pick[s]}) = Cardinality(s) - 1
        BY <1>1, <1>2
      <4> QED
        BY <4>1
    <3>2. Folds(g, 0)
      BY <3>1
    <3> QED
      BY <2>2, <2>3, <3>2
  <2>4. CASE m # 0
    <3>0. m - 1 \in Nat /\ ~(m <= m - 1)
      BY <2>2, <2>4
    <3>1. m - 1 \in Nat /\ m - 1 \notin bad
      <4> HIDE DEF bad
      <4> QED
        BY <2>1, <3>0
    <3>2. PICK g : Folds(g, m - 1)
      BY <3>1
    <3> DEFINE h == [s \in UpTo(m) |-> IF s = {} THEN start ELSE next[<<pick[s], g[s \ {pick[s]}]>>]]
    <3>3. \A s \in UpTo(m) : s # {} => s \ {pick[s]} \in UpTo(m - 1)
      BY <1>1, <1>2, <2>2
    <3>4. \A s \in UpTo(m - 1) : s \in UpTo(m) /\ h[s] = g[s]
      <4> TAKE s \in UpTo(m - 1)
      <4>1. s \in UpTo(m)
        BY <1>1, <2>2
      <4>2. g[s] = IF s = {} THEN start ELSE next[<<pick[s], g[s \ {pick[s]}]>>]
        BY <3>2
      <4> QED
        BY <4>1, <4>2
    <3>5. \A s \in UpTo(m) : h[s] = IF s = {} THEN start ELSE next[<<pick[s], h[s \ {pick[s]}]>>]
      <4> TAKE s \in UpTo(m)
      <4>1. h[s] = IF s = {} THEN start ELSE next[<<pick[s], g[s \ {pick[s]}]>>]
        OBVIOUS
      <4>2. s # {} => h[s \ {pick[s]}] = g[s \ {pick[s]}]
        BY <3>3, <3>4
      <4> HIDE DEF h
      <4> QED
        BY <4>1, <4>2
    <3>6. Folds(h, m)
      <4>1. h = [s \in UpTo(m) |-> h[s]]
        OBVIOUS
      <4> HIDE DEF h
      <4> QED
        BY <3>5, <4>1
    <3> QED
      BY <2>2, <3>6
  <2> QED
    BY <2>3, <2>4
<1>4. PICK n \in Nat : n = Cardinality(S)
  BY <1>1
<1>5. UpTo(n) = SUBSET S
  <2> SUFFICES ASSUME NEW s \in SUBSET S PROVE Cardinality(s) <= n
    OBVIOUS
  <2> QED
    BY <1>4, FS_Subset
<1>6. PICK g : Folds(g, n)
  BY <1>3
<1>7. Folded(g, start, pick, next, S)
  BY <1>5, <1>6 DEF Folded
<1> QED
  BY <1>7

\* The members of a sequence.
Members(s) == {s[i] : i \in DOMAIN s}

\* What is added at some places.
Added(adds, places) == UNION {adds[x] : x \in places}

\* Every step stays among the sequences over R and adds what is to be added.
Adding(next, adds, S, R) ==
  /\ next \in [S \X Seq(R) -> Seq(R)]
  /\ \A x \in S, v \in Seq(R) : Members(next[<<x, v>>]) = Members(v) \cup adds[x]
Collected(g, adds, S, R) ==
  \A s \in SUBSET S : g[s] \in Seq(R) /\ Members(g[s]) = Added(adds, s)
Picking(pick, S) == \A s \in SUBSET S : s # {} => pick[s] \in s

\* A fold whose every step adds known members has all of them.
LEMMA FoldCollects ==
  ASSUME NEW S, IsFiniteSet(S), NEW R, NEW next, NEW adds, Adding(next, adds, S, R),
         NEW pick, Picking(pick, S), NEW g, Folded(g, <<>>, pick, next, S)
  PROVE  Collected(g, adds, S, R)
<1> DEFINE Right(s) == g[s] \in Seq(R) /\ Members(g[s]) = Added(adds, s)
           wrong == {s \in SUBSET S : ~Right(s)}
<1>1. wrong = {}
  <2> SUFFICES ASSUME wrong # {} PROVE FALSE
    OBVIOUS
  <2>1. PICK s \in wrong : \A x \in s : s \ {x} \notin wrong
    <3>1. wrong \in SUBSET SUBSET S
      OBVIOUS
    <3> HIDE DEF wrong
    <3> QED
      BY <3>1, SmallestSet
  <2>2. s \in SUBSET S /\ ~Right(s)
    OBVIOUS
  <2>3. CASE s = {}
    <3>1. g[s] = <<>>
      BY <2>2, <2>3 DEF Folded
    <3>2. <<>> \in Seq(R) /\ Members(<<>>) = {} /\ Added(adds, s) = {}
      BY <2>3 DEF Members, Added
    <3> QED
      BY <2>2, <2>3, <3>1, <3>2
  <2>4. CASE s # {}
    <3> DEFINE x == pick[s]
               v == g[s \ {x}]
    <3>1. x \in s /\ x \in S
      BY <2>2, <2>4 DEF Picking
    <3>2. Right(s \ {x})
      BY <2>1, <2>2, <3>1
    <3>3. g[s] = next[<<x, v>>]
      BY <2>2, <2>4 DEF Folded
    <3>4. v \in Seq(R) /\ Members(v) = Added(adds, s \ {x})
      BY <3>2
    <3> HIDE DEF x, v
    <3>5. g[s] \in Seq(R) /\ Members(g[s]) = Members(v) \cup adds[x]
      BY <3>1, <3>3, <3>4 DEF Adding
    <3>6. Added(adds, s) = Added(adds, s \ {x}) \cup adds[x]
      BY <3>1 DEF Added
    <3> QED
      BY <2>2, <3>4, <3>5, <3>6
  <2> QED
    BY <2>3, <2>4
<1> QED
  BY <1>1 DEF Collected

\* The last of some places of a sequence.
LEMMA LastPlace ==
  ASSUME NEW n \in Nat, NEW t \in SUBSET (1..n), t # {}
  PROVE  Records!Max(t) \in t
<1>1. t \in SUBSET Nat /\ \A k \in t : k <= n
  OBVIOUS
<1>2. PICK m \in t : \A k \in t : k <= m
  BY <1>1, GreatestNat
<1>3. \A k \in t : m >= k
  BY <1>1, <1>2
<1> QED
  BY <1>2, <1>3 DEF Records!Max

LEMMA MembersAppended ==
  ASSUME NEW R, NEW v \in Seq(R), NEW x \in R
  PROVE  Append(v, x) \in Seq(R) /\ Members(Append(v, x)) = Members(v) \cup {x}
<1>1. /\ Append(v, x) \in Seq(R) /\ DOMAIN v = 1..Len(v) /\ Len(v) \in Nat
      /\ DOMAIN Append(v, x) = 1..(Len(v) + 1)
      /\ \A i \in 1..Len(v) : Append(v, x)[i] = v[i]
      /\ Append(v, x)[Len(v) + 1] = x
  OBVIOUS
<1>2. 1..(Len(v) + 1) = (1..Len(v)) \cup {Len(v) + 1}
  BY <1>1
<1> QED
  BY <1>1, <1>2 DEF Members

\* Of some rules, the reasons of those that hold.
Standing(rules, R) == {r \in R : \E i \in DOMAIN rules : rules[i] = <<r, TRUE>>}

LEMMA HoldingMembers ==
  ASSUME NEW R, NEW rules \in Seq(R \X BOOLEAN)
  PROVE  /\ Records!Holding(rules) \in Seq(R)
         /\ Members(Records!Holding(rules)) = Standing(rules, R)
<1> DEFINE D == DOMAIN rules
           pick == [t \in SUBSET D |-> Records!Max(t)]
           adds == [i \in D |-> IF rules[i][2] THEN {rules[i][1]} ELSE {}]
           next == [p \in D \X Seq(R) |->
                      IF rules[p[1]][2] THEN Append(p[2], rules[p[1]][1]) ELSE p[2]]
           Right(g) == g = [t \in SUBSET D |->
                              IF t = {} THEN <<>>
                              ELSE LET i == Records!Max(t)
                                   IN IF rules[i][2] THEN Append(g[t \ {i}], rules[i][1]) ELSE g[t \ {i}]]
           it == CHOOSE g : Right(g)
<1>1. D = 1..Len(rules) /\ Len(rules) \in Nat /\ \A i \in D : rules[i] \in R \X BOOLEAN
  OBVIOUS
<1>2. IsFiniteSet(D)
  BY <1>1, FS_Interval
<1>3. Records!Holding(rules) = it[D]
  BY DEF Records!Holding, Records!FoldLeft, Records!MapThenFoldSet
<1>4. Picking(pick, D)
  BY <1>1, LastPlace DEF Picking
<1>5. next \in [D \X Seq(R) -> Seq(R)]
  <2>1. \A i \in D, v \in Seq(R) : rules[i][2] => Append(v, rules[i][1]) \in Seq(R)
    BY <1>1
  <2> QED
    BY <2>1
<1>6. \A i \in D, v \in Seq(R) : Members(next[<<i, v>>]) = Members(v) \cup adds[i]
  <2> TAKE i \in D, v \in Seq(R)
  <2>1. next[<<i, v>>] = IF rules[i][2] THEN Append(v, rules[i][1]) ELSE v
    OBVIOUS
  <2>2. rules[i][1] \in R
    BY <1>1
  <2>3. adds[i] = IF rules[i][2] THEN {rules[i][1]} ELSE {}
    OBVIOUS
  <2> HIDE DEF next, adds
  <2> QED
    BY <2>1, <2>2, <2>3, MembersAppended
<1>7. \A t \in SUBSET D : t # {} => pick[t] = Records!Max(t) /\ Records!Max(t) \in D
  BY <1>4 DEF Picking
<1>8. \A i \in D, v \in Seq(R) : next[<<i, v>>] = IF rules[i][2] THEN Append(v, rules[i][1]) ELSE v
  OBVIOUS
<1> HIDE DEF D, pick, next, it
<1>0. Adding(next, adds, D, R)
  <2> HIDE DEF adds
  <2> QED
    BY <1>5, <1>6 DEF Adding
<1>9. ASSUME NEW g, \A t \in SUBSET D : g[t] \in Seq(R) PROVE Right(g) <=> Folded(g, <<>>, pick, next, D)
  <2>1. \A t \in SUBSET D : t # {} =>
          LET i == Records!Max(t)
          IN next[<<pick[t], g[t \ {pick[t]}]>>]
             = IF rules[i][2] THEN Append(g[t \ {i}], rules[i][1]) ELSE g[t \ {i}]
    <3> TAKE t \in SUBSET D
    <3> HAVE t # {}
    <3>1. pick[t] = Records!Max(t) /\ Records!Max(t) \in D /\ g[t \ {Records!Max(t)}] \in Seq(R)
      BY <1>7, <1>9
    <3> QED
      BY <1>8, <3>1
  <2> QED
    BY <2>1 DEF Folded
<1>10. \E g : Right(g)
  <2>1. PICK g : Folded(g, <<>>, pick, next, D)
    BY <1>2, <1>4, FoldExists DEF Picking
  <2>2. \A t \in SUBSET D : g[t] \in Seq(R)
    <3> HIDE DEF adds
    <3>1. Collected(g, adds, D, R)
      BY <1>0, <1>2, <1>4, <2>1, FoldCollects
    <3> QED
      BY <3>1 DEF Collected
  <2> HIDE DEF Right
  <2> QED
    BY <1>9, <2>1, <2>2
<1>11. Right(it)
  <2> HIDE DEF Right
  <2> QED
    BY <1>10 DEF it

\* The chosen fold is typed, too.
<1>12. \A t \in SUBSET D : it[t] \in Seq(R)
  <2> DEFINE wrong == {t \in SUBSET D : it[t] \notin Seq(R)}
  <2>1. wrong = {}
    <3> SUFFICES ASSUME wrong # {} PROVE FALSE
      OBVIOUS
    <3>1. PICK t \in wrong : \A x \in t : t \ {x} \notin wrong
      <4>1. wrong \in SUBSET SUBSET D
        OBVIOUS
      <4> HIDE DEF wrong
      <4> QED
        BY <1>2, <4>1, SmallestSet
    <3>2. t \in SUBSET D /\ it[t] \notin Seq(R)
      OBVIOUS
    <3>3. t # {}
      BY <1>11, <3>2
    <3> DEFINE i == Records!Max(t)
    <3>4. i \in t /\ i \in D
      BY <1>4, <1>7, <3>2, <3>3 DEF Picking
    <3>5. it[t \ {i}] \in Seq(R)
      BY <3>1, <3>2, <3>4
    <3>6. it[t] = IF rules[i][2] THEN Append(it[t \ {i}], rules[i][1]) ELSE it[t \ {i}]
      BY <1>11, <3>2, <3>3
    <3> HIDE DEF i
    <3>7. rules[i][1] \in R
      BY <1>1, <3>4 DEF D
    <3> QED
      BY <3>2, <3>5, <3>6, <3>7
  <2> QED
    BY <2>1
<1>13. Folded(it, <<>>, pick, next, D)
  <2> HIDE DEF Right
  <2> QED
    BY <1>9, <1>11, <1>12
<1>14. it[D] \in Seq(R) /\ Members(it[D]) = Added(adds, D)
  <2> HIDE DEF adds
  <2>1. Collected(it, adds, D, R)
    BY <1>0, <1>2, <1>4, <1>13, FoldCollects
  <2>2. D \in SUBSET D
    OBVIOUS
  <2> QED
    BY <2>1, <2>2 DEF Collected
<1>15. Added(adds, D) = Standing(rules, R)
  <2>1. \A i \in D : rules[i] = <<rules[i][1], rules[i][2]>> /\ rules[i][1] \in R /\ rules[i][2] \in BOOLEAN
    BY <1>1 DEF D
  <2>2. ASSUME NEW r \in Added(adds, D)
        PROVE  r \in R /\ \E i \in DOMAIN rules : rules[i] = <<r, TRUE>>
    <3>1. PICK i \in D : rules[i][2] /\ r = rules[i][1]
      BY <2>2 DEF Added
    <3> QED
      BY <2>1, <3>1 DEF D
  <2>3. ASSUME NEW r \in R, NEW i \in DOMAIN rules, rules[i] = <<r, TRUE>>
        PROVE  r \in Added(adds, D)
    <3>1. i \in D
      BY DEF D
    <3>2. rules[i][1] = r /\ rules[i][2]
      BY <2>3
    <3>3. adds[i] = {r}
      BY <3>1, <3>2
    <3> HIDE DEF adds
    <3> QED
      BY <3>1, <3>3 DEF Added
  <2> QED
    BY <2>2, <2>3 DEF Standing
<1> QED
  BY <1>3, <1>14, <1>15

\* Of equal reasons one stays.
LEMMA DedupedMembers ==
  ASSUME NEW R, NEW s \in Seq(R)
  PROVE  /\ Records!DedupeReasons(s) \in Seq(R)
         /\ Members(Records!DedupeReasons(s)) = Members(s)
<1> DEFINE D == DOMAIN s
           pick == [t \in SUBSET D |-> Records!Max(t)]
           adds == [i \in D |-> {s[i]}]
           Kept(v, x) == IF Records!Contains(v, x) THEN v ELSE Append(v, x)
           next == [p \in D \X Seq(R) |-> Kept(p[2], s[p[1]])]
           Right(g) == g = [t \in SUBSET D |->
                              IF t = {} THEN <<>>
                              ELSE LET i == Records!Max(t) IN Kept(g[t \ {i}], s[i])]
           it == CHOOSE g : Right(g)
<1>1. D = 1..Len(s) /\ Len(s) \in Nat /\ \A i \in D : s[i] \in R
  OBVIOUS
<1>2. IsFiniteSet(D)
  BY <1>1, FS_Interval
<1>3. Records!DedupeReasons(s) = it[D]
  BY DEF Records!DedupeReasons, Records!FoldLeft, Records!MapThenFoldSet
<1>4. Picking(pick, D)
  BY <1>1, LastPlace DEF Picking
<1>5. \A v \in Seq(R), x \in R : Kept(v, x) \in Seq(R) /\ Members(Kept(v, x)) = Members(v) \cup {x}
  <2> TAKE v \in Seq(R), x \in R
  <2>1. CASE Records!Contains(v, x)
    <3>1. PICK i \in 1..Len(v) : v[i] = x
      BY <2>1 DEF Records!Contains
    <3>2. i \in DOMAIN v
      OBVIOUS
    <3>3. x \in Members(v)
      BY <3>1, <3>2 DEF Members
    <3> QED
      BY <2>1, <3>3
  <2>2. CASE ~Records!Contains(v, x)
    BY <2>2, MembersAppended
  <2> QED
    BY <2>1, <2>2
<1>6. \A i \in D, v \in Seq(R) : next[<<i, v>>] = Kept(v, s[i])
  OBVIOUS
<1>7. \A t \in SUBSET D : t # {} => pick[t] = Records!Max(t) /\ Records!Max(t) \in D
  BY <1>4 DEF Picking
<1>8. next \in [D \X Seq(R) -> Seq(R)]
  <2> HIDE DEF Kept
  <2> QED
    BY <1>1, <1>5
<1>9. \A i \in D : adds[i] = {s[i]}
  OBVIOUS
<1> HIDE DEF D, pick, next, it, adds, Kept
<1>10. Adding(next, adds, D, R)
  <2>1. ASSUME NEW i \in D, NEW v \in Seq(R) PROVE Members(next[<<i, v>>]) = Members(v) \cup adds[i]
    <3>1. s[i] \in R
      BY <1>1
    <3>2. Members(Kept(v, s[i])) = Members(v) \cup {s[i]}
      BY <1>5, <3>1
    <3> QED
      BY <1>6, <1>9, <3>2
  <2> QED
    BY <1>8, <2>1 DEF Adding
<1>11. ASSUME NEW g, \A t \in SUBSET D : g[t] \in Seq(R) PROVE Right(g) <=> Folded(g, <<>>, pick, next, D)
  <2>1. \A t \in SUBSET D : t # {} =>
          LET i == Records!Max(t) IN next[<<pick[t], g[t \ {pick[t]}]>>] = Kept(g[t \ {i}], s[i])
    <3> TAKE t \in SUBSET D
    <3> HAVE t # {}
    <3>1. pick[t] = Records!Max(t) /\ Records!Max(t) \in D /\ g[t \ {Records!Max(t)}] \in Seq(R)
      BY <1>7, <1>11
    <3> QED
      BY <1>6, <3>1
  <2> QED
    BY <2>1 DEF Folded
<1>12. \E g : Right(g)
  <2>1. PICK g : Folded(g, <<>>, pick, next, D)
    BY <1>2, <1>4, FoldExists DEF Picking
  <2>2. \A t \in SUBSET D : g[t] \in Seq(R)
    <3>1. Collected(g, adds, D, R)
      BY <1>2, <1>4, <1>10, <2>1, FoldCollects
    <3> QED
      BY <3>1 DEF Collected
  <2> HIDE DEF Right
  <2> QED
    BY <1>11, <2>1, <2>2
<1>13. Right(it)
  <2> HIDE DEF Right
  <2> QED
    BY <1>12 DEF it
<1>14. \A t \in SUBSET D : it[t] \in Seq(R)
  <2> DEFINE wrong == {t \in SUBSET D : it[t] \notin Seq(R)}
  <2>1. wrong = {}
    <3> SUFFICES ASSUME wrong # {} PROVE FALSE
      OBVIOUS
    <3>1. PICK t \in wrong : \A x \in t : t \ {x} \notin wrong
      <4>1. wrong \in SUBSET SUBSET D
        OBVIOUS
      <4> HIDE DEF wrong
      <4> QED
        BY <1>2, <4>1, SmallestSet
    <3>2. t \in SUBSET D /\ it[t] \notin Seq(R)
      OBVIOUS
    <3>3. t # {}
      BY <1>13, <3>2
    <3> DEFINE i == Records!Max(t)
    <3>4. i \in t /\ i \in D
      BY <1>4, <1>7, <3>2, <3>3 DEF Picking
    <3>5. it[t \ {i}] \in Seq(R)
      BY <3>1, <3>2, <3>4
    <3>6. it[t] = Kept(it[t \ {i}], s[i])
      BY <1>13, <3>2, <3>3
    <3> HIDE DEF i
    <3>7. s[i] \in R
      BY <1>1, <3>4
    <3> QED
      BY <1>5, <3>2, <3>5, <3>6, <3>7
  <2> QED
    BY <2>1
<1>15. Folded(it, <<>>, pick, next, D)
  <2> HIDE DEF Right
  <2> QED
    BY <1>11, <1>13, <1>14
<1>16. it[D] \in Seq(R) /\ Members(it[D]) = Added(adds, D)
  <2>1. Collected(it, adds, D, R)
    BY <1>2, <1>4, <1>10, <1>15, FoldCollects
  <2>2. D \in SUBSET D
    OBVIOUS
  <2> QED
    BY <2>1, <2>2 DEF Collected
<1>17. Added(adds, D) = Members(s)
  <2>1. Added(adds, D) = UNION {{s[i]} : i \in D}
    BY <1>9 DEF Added
  <2>2. UNION {{s[i]} : i \in D} = {s[i] : i \in D}
    OBVIOUS
  <2> QED
    BY <2>1, <2>2 DEF Members, D
<1> QED
  BY <1>3, <1>16, <1>17

\* Of some reasons, those among others.
LEMMA AmongMembers ==
  ASSUME NEW R, NEW s \in Seq(R), NEW others
  PROVE  /\ Records!Among(s, others) \in Seq(R)
         /\ Members(Records!Among(s, others)) = Members(s) \cap others
<1> DEFINE rules == [i \in DOMAIN s |-> <<s[i], s[i] \in others>>]
<1>1. rules \in Seq(R \X BOOLEAN)
  <2>1. Len(s) \in Nat /\ DOMAIN s = 1..Len(s) /\ \A i \in 1..Len(s) : s[i] \in R
    OBVIOUS
  <2>0. \A i \in 1..Len(s) : <<s[i], s[i] \in others>> \in R \X BOOLEAN
    <3> TAKE i \in 1..Len(s)
    <3>1. s[i] \in R /\ (s[i] \in others) \in BOOLEAN
      BY <2>1
    <3> QED
      BY <3>1
  <2>2. rules \in [1..Len(s) -> R \X BOOLEAN]
    BY <2>0, <2>1
  <2> HIDE DEF rules
  <2> QED
    BY <2>1, <2>2
<1>2. Records!Among(s, others) = Records!Holding(rules)
  BY DEF Records!Among
<1>3. DOMAIN rules = DOMAIN s /\ \A i \in DOMAIN s : rules[i] = <<s[i], s[i] \in others>>
  OBVIOUS
<1> HIDE DEF rules
<1>4. /\ Records!Among(s, others) \in Seq(R)
      /\ Members(Records!Among(s, others)) = Standing(rules, R)
  BY <1>1, <1>2, HoldingMembers
<1>5. \A i \in DOMAIN s : s[i] \in R
  OBVIOUS
<1>6. Standing(rules, R) = Members(s) \cap others
  <2>1. ASSUME NEW r \in R, NEW i \in DOMAIN s, rules[i] = <<r, TRUE>> PROVE r = s[i] /\ r \in others
    <3>1. rules[i] = <<s[i], s[i] \in others>>
      BY <1>3
    <3>2. rules[i][1] = r /\ rules[i][1] = s[i]
      BY <2>1, <3>1
    <3>3. rules[i][2] = TRUE
      BY <2>1
    <3>4. rules[i][2] = (s[i] \in others)
      BY <3>1
    <3>5. s[i] \in others
      BY <3>3, <3>4
    <3> QED
      BY <3>2, <3>5
  <2>2. ASSUME NEW i \in DOMAIN s, s[i] \in others PROVE rules[i] = <<s[i], TRUE>>
    <3>1. (s[i] \in others) = TRUE
      BY <2>2
    <3> QED
      BY <1>3, <3>1
  <2> QED
    BY <1>3, <1>5, <2>1, <2>2 DEF Members, Standing
<1> QED
  BY <1>4, <1>6

\* Reasons one after another.
LEMMA JoinedMembers ==
  ASSUME NEW R, NEW s \in Seq(R), NEW t \in Seq(R)
  PROVE  s \o t \in Seq(R) /\ Members(s \o t) = Members(s) \cup Members(t)
<1>1. /\ s \o t \in Seq(R) /\ Len(s) \in Nat /\ Len(t) \in Nat
      /\ DOMAIN s = 1..Len(s) /\ DOMAIN t = 1..Len(t) /\ DOMAIN (s \o t) = 1..(Len(s) + Len(t))
      /\ \A i \in 1..(Len(s) + Len(t)) : (s \o t)[i] = IF i <= Len(s) THEN s[i] ELSE t[i - Len(s)]
  OBVIOUS
<1>2. ASSUME NEW x \in Members(s \o t) PROVE x \in Members(s) \cup Members(t)
  <2>1. PICK i \in 1..(Len(s) + Len(t)) : x = (s \o t)[i]
    BY <1>1, <1>2 DEF Members
  <2>2. CASE i <= Len(s)
    <3>1. i \in DOMAIN s /\ x = s[i]
      BY <1>1, <2>1, <2>2
    <3> QED
      BY <3>1 DEF Members
  <2>3. CASE ~(i <= Len(s))
    <3>1. i - Len(s) \in DOMAIN t /\ x = t[i - Len(s)]
      BY <1>1, <2>1, <2>3
    <3> QED
      BY <3>1 DEF Members
  <2> QED
    BY <2>2, <2>3
<1>3. ASSUME NEW x \in Members(s) PROVE x \in Members(s \o t)
  <2>1. PICK i \in 1..Len(s) : x = s[i]
    BY <1>1, <1>3 DEF Members
  <2>2. i \in DOMAIN (s \o t) /\ (s \o t)[i] = x
    BY <1>1, <2>1
  <2> QED
    BY <2>2 DEF Members
<1>4. ASSUME NEW x \in Members(t) PROVE x \in Members(s \o t)
  <2>1. PICK i \in 1..Len(t) : x = t[i]
    BY <1>1, <1>4 DEF Members
  <2>2. i + Len(s) \in DOMAIN (s \o t) /\ (s \o t)[i + Len(s)] = x
    BY <1>1, <2>1
  <2> QED
    BY <2>2 DEF Members
<1> QED
  BY <1>1, <1>2, <1>3, <1>4

\* What the rules, the guardrail and the reading's own rejections can say.
Words ==
  {"killzone", "mss", "fvg", "zone", "fvg_direction", "news", "daily_loss", "max_trades", "fx_daily", "fx_h4",
   "fx_sweep", "fx_grade", "confidence", "no_direction", "risk_governor", "london_continuation",
   "observer_mode", "demo_sandbox", "disabled", "london_open", "xau_continuation", "us30_session", "adjusted",
   "order_block", "not_returned", "wrong_half"}

LEMMA Fourteen ==
  ASSUME NEW X, NEW a \in X, NEW b \in X, NEW c \in X, NEW d \in X, NEW e \in X, NEW f \in X, NEW g \in X,
         NEW h \in X, NEW i \in X, NEW j \in X, NEW k \in X, NEW l \in X, NEW m \in X, NEW n \in X
  PROVE  <<a, b, c, d, e, f, g, h, i, j, k, l, m, n>> \in Seq(X)
OBVIOUS

LEMMA Fourteenth ==
  ASSUME NEW X, NEW a, NEW b, NEW c, NEW d, NEW e, NEW f, NEW g,
         NEW h, NEW i, NEW j, NEW k, NEW l, NEW m, NEW n, NEW y
  PROVE  LET s == <<a, b, c, d, e, f, g, h, i, j, k, l, m, n>>
         IN (\E z \in DOMAIN s : s[z] = y) <=> y \in {a, b, c, d, e, f, g, h, i, j, k, l, m, n}
<1> DEFINE s == <<a, b, c, d, e, f, g, h, i, j, k, l, m, n>>
<1>1. DOMAIN s = 1..14
  OBVIOUS
<1>2. /\ s[1] = a /\ s[2] = b /\ s[3] = c /\ s[4] = d /\ s[5] = e /\ s[6] = f /\ s[7] = g
      /\ s[8] = h /\ s[9] = i /\ s[10] = j /\ s[11] = k /\ s[12] = l /\ s[13] = m /\ s[14] = n
  OBVIOUS
<1> HIDE DEF s
<1>3. \A z \in 1..14 : z = 1 \/ z = 2 \/ z = 3 \/ z = 4 \/ z = 5 \/ z = 6 \/ z = 7 \/ z = 8 \/ z = 9
                      \/ z = 10 \/ z = 11 \/ z = 12 \/ z = 13 \/ z = 14
  OBVIOUS
<1>4. ASSUME NEW z \in DOMAIN s PROVE s[z] \in {a, b, c, d, e, f, g, h, i, j, k, l, m, n}
  BY <1>1, <1>2, <1>3
<1>5. ASSUME y \in {a, b, c, d, e, f, g, h, i, j, k, l, m, n} PROVE \E z \in 1..14 : s[z] = y
  BY <1>2, <1>5
<1>6. (\E z \in DOMAIN s : s[z] = y) <=> y \in {a, b, c, d, e, f, g, h, i, j, k, l, m, n}
  BY <1>1, <1>4, <1>5
<1> QED
  BY <1>6 DEF s

LEMMA PairSaid ==
  ASSUME NEW name, NEW rule, NEW p \in BOOLEAN
  PROVE  (<<name, TRUE>> = <<rule, p>>) <=> (name = rule /\ p)
<1>1. ASSUME <<name, TRUE>> = <<rule, p>> PROVE name = rule /\ p
  <2>1. <<name, TRUE>>[1] = <<rule, p>>[1]
    BY <1>1
  <2>2. <<name, TRUE>>[2] = <<rule, p>>[2]
    BY <1>1
  <2> QED
    BY <2>1, <2>2
<1>2. ASSUME name = rule, p PROVE <<name, TRUE>> = <<rule, p>>
  BY <1>2
<1> QED
  BY <1>1, <1>2

\* What the rules say.
RuleSays(name, symbol, killzone, r, direction, veto, total) ==
  LET forex == symbol \in Records!ForexSymbols
  IN \/ name = "killzone" /\ ~killzone.valid
     \/ name = "mss" /\ ~r.mss
     \/ name = "fvg" /\ ~r.fvg.detected
     \/ name = "zone" /\ ~r.mss /\ r # Records!NoPayload
     \/ name = "fvg_direction" /\ r.fvg.detected /\ Records!MssDirection(r) \in {Records!Opposite(r.fvg.direction)}
     \/ name = "news" /\ veto = "news"
     \/ name = "daily_loss" /\ veto = "daily_loss"
     \/ name = "max_trades" /\ veto = "max_trades"
     \/ name = "fx_daily" /\ forex /\ direction # "none" /\ r.daily # direction
     \/ name = "fx_h4" /\ forex /\ direction # "none" /\ r.h4 # direction
     \/ name = "fx_sweep" /\ forex /\ r.sweep = "none"
     \/ name = "fx_grade" /\ forex /\ r.fvg.grade # "A"
     \/ name = "confidence" /\ total < Records!MinimumConfidence(symbol)
     \/ name = "no_direction" /\ direction = "none"

LEMMA RuleMembers ==
  ASSUME NEW symbol, NEW killzone, NEW r, NEW direction, NEW veto, NEW total
  PROVE  LET said == Records!RuleReasons(symbol, killzone, r, direction, veto, total)
         IN /\ said \in Seq(Words)
            /\ \A name : name \in Members(said) <=> RuleSays(name, symbol, killzone, r, direction, veto, total)
<1> DEFINE said == Records!RuleReasons(symbol, killzone, r, direction, veto, total)
           forex == symbol \in Records!ForexSymbols
           p1 == ~killzone.valid
           p2 == ~r.mss
           p3 == ~r.fvg.detected
           p4 == ~r.mss /\ r # Records!NoPayload
           p5 == r.fvg.detected /\ Records!MssDirection(r) \in {Records!Opposite(r.fvg.direction)}
           p6 == veto = "news"
           p7 == veto = "daily_loss"
           p8 == veto = "max_trades"
           p9 == forex /\ direction # "none" /\ r.daily # direction
           p10 == forex /\ direction # "none" /\ r.h4 # direction
           p11 == forex /\ r.sweep = "none"
           p12 == forex /\ r.fvg.grade # "A"
           p13 == total < Records!MinimumConfidence(symbol)
           p14 == direction = "none"
           rules == << <<"killzone", p1>>, <<"mss", p2>>, <<"fvg", p3>>, <<"zone", p4>>,
                       <<"fvg_direction", p5>>, <<"news", p6>>, <<"daily_loss", p7>>, <<"max_trades", p8>>,
                       <<"fx_daily", p9>>, <<"fx_h4", p10>>, <<"fx_sweep", p11>>, <<"fx_grade", p12>>,
                       <<"confidence", p13>>, <<"no_direction", p14>> >>
           stands(name) ==
             \/ name = "killzone" /\ p1
             \/ name = "mss" /\ p2
             \/ name = "fvg" /\ p3
             \/ name = "zone" /\ p4
             \/ name = "fvg_direction" /\ p5
             \/ name = "news" /\ p6
             \/ name = "daily_loss" /\ p7
             \/ name = "max_trades" /\ p8
             \/ name = "fx_daily" /\ p9
             \/ name = "fx_h4" /\ p10
             \/ name = "fx_sweep" /\ p11
             \/ name = "fx_grade" /\ p12
             \/ name = "confidence" /\ p13
             \/ name = "no_direction" /\ p14
<1>1. said = Records!Holding(rules)
  BY DEF Records!RuleReasons
<1>2. /\ p1 \in BOOLEAN
      /\ p2 \in BOOLEAN
      /\ p3 \in BOOLEAN
      /\ p4 \in BOOLEAN
      /\ p5 \in BOOLEAN
      /\ p6 \in BOOLEAN
      /\ p7 \in BOOLEAN
      /\ p8 \in BOOLEAN
      /\ p9 \in BOOLEAN
      /\ p10 \in BOOLEAN
      /\ p11 \in BOOLEAN
      /\ p12 \in BOOLEAN
      /\ p13 \in BOOLEAN
      /\ p14 \in BOOLEAN
  OBVIOUS
<1> HIDE DEF p1, p2, p3, p4, p5, p6, p7, p8, p9, p10, p11, p12, p13, p14, said
<1>3. /\ <<"killzone", p1>> \in Words \X BOOLEAN
      /\ <<"mss", p2>> \in Words \X BOOLEAN
      /\ <<"fvg", p3>> \in Words \X BOOLEAN
      /\ <<"zone", p4>> \in Words \X BOOLEAN
      /\ <<"fvg_direction", p5>> \in Words \X BOOLEAN
      /\ <<"news", p6>> \in Words \X BOOLEAN
      /\ <<"daily_loss", p7>> \in Words \X BOOLEAN
      /\ <<"max_trades", p8>> \in Words \X BOOLEAN
      /\ <<"fx_daily", p9>> \in Words \X BOOLEAN
      /\ <<"fx_h4", p10>> \in Words \X BOOLEAN
      /\ <<"fx_sweep", p11>> \in Words \X BOOLEAN
      /\ <<"fx_grade", p12>> \in Words \X BOOLEAN
      /\ <<"confidence", p13>> \in Words \X BOOLEAN
      /\ <<"no_direction", p14>> \in Words \X BOOLEAN
  BY <1>2 DEF Words
<1>4. rules \in Seq(Words \X BOOLEAN)
  BY <1>3, Fourteen
<1>5. \A y : (\E z \in DOMAIN rules : rules[z] = y)
          <=> y \in {<<"killzone", p1>>, <<"mss", p2>>, <<"fvg", p3>>, <<"zone", p4>>,
                   <<"fvg_direction", p5>>, <<"news", p6>>, <<"daily_loss", p7>>, <<"max_trades", p8>>,
                   <<"fx_daily", p9>>, <<"fx_h4", p10>>, <<"fx_sweep", p11>>, <<"fx_grade", p12>>,
                   <<"confidence", p13>>, <<"no_direction", p14>>}
  BY Fourteenth
<1> HIDE DEF rules
<1>6. said \in Seq(Words) /\ Members(said) = Standing(rules, Words)
  BY <1>1, <1>4, HoldingMembers
<1>7. \A name : name \in Members(said) <=> name \in Words /\
          (\/ <<name, TRUE>> = <<"killzone", p1>>
           \/ <<name, TRUE>> = <<"mss", p2>>
           \/ <<name, TRUE>> = <<"fvg", p3>>
           \/ <<name, TRUE>> = <<"zone", p4>>
           \/ <<name, TRUE>> = <<"fvg_direction", p5>>
           \/ <<name, TRUE>> = <<"news", p6>>
           \/ <<name, TRUE>> = <<"daily_loss", p7>>
           \/ <<name, TRUE>> = <<"max_trades", p8>>
           \/ <<name, TRUE>> = <<"fx_daily", p9>>
           \/ <<name, TRUE>> = <<"fx_h4", p10>>
           \/ <<name, TRUE>> = <<"fx_sweep", p11>>
           \/ <<name, TRUE>> = <<"fx_grade", p12>>
           \/ <<name, TRUE>> = <<"confidence", p13>>
           \/ <<name, TRUE>> = <<"no_direction", p14>>)
  BY <1>5, <1>6 DEF Standing
<1>8. \A name :
        /\ (<<name, TRUE>> = <<"killzone", p1>>) <=> (name = "killzone" /\ p1)
        /\ (<<name, TRUE>> = <<"mss", p2>>) <=> (name = "mss" /\ p2)
        /\ (<<name, TRUE>> = <<"fvg", p3>>) <=> (name = "fvg" /\ p3)
        /\ (<<name, TRUE>> = <<"zone", p4>>) <=> (name = "zone" /\ p4)
        /\ (<<name, TRUE>> = <<"fvg_direction", p5>>) <=> (name = "fvg_direction" /\ p5)
        /\ (<<name, TRUE>> = <<"news", p6>>) <=> (name = "news" /\ p6)
        /\ (<<name, TRUE>> = <<"daily_loss", p7>>) <=> (name = "daily_loss" /\ p7)
        /\ (<<name, TRUE>> = <<"max_trades", p8>>) <=> (name = "max_trades" /\ p8)
        /\ (<<name, TRUE>> = <<"fx_daily", p9>>) <=> (name = "fx_daily" /\ p9)
        /\ (<<name, TRUE>> = <<"fx_h4", p10>>) <=> (name = "fx_h4" /\ p10)
        /\ (<<name, TRUE>> = <<"fx_sweep", p11>>) <=> (name = "fx_sweep" /\ p11)
        /\ (<<name, TRUE>> = <<"fx_grade", p12>>) <=> (name = "fx_grade" /\ p12)
        /\ (<<name, TRUE>> = <<"confidence", p13>>) <=> (name = "confidence" /\ p13)
        /\ (<<name, TRUE>> = <<"no_direction", p14>>) <=> (name = "no_direction" /\ p14)
  BY <1>2, PairSaid
<1>9. ASSUME NEW name PROVE name \in Members(said) <=> stands(name)
  <2>1. name \in Members(said) <=> name \in Words /\
              (\/ <<name, TRUE>> = <<"killzone", p1>>
               \/ <<name, TRUE>> = <<"mss", p2>>
               \/ <<name, TRUE>> = <<"fvg", p3>>
               \/ <<name, TRUE>> = <<"zone", p4>>
               \/ <<name, TRUE>> = <<"fvg_direction", p5>>
               \/ <<name, TRUE>> = <<"news", p6>>
               \/ <<name, TRUE>> = <<"daily_loss", p7>>
               \/ <<name, TRUE>> = <<"max_trades", p8>>
               \/ <<name, TRUE>> = <<"fx_daily", p9>>
               \/ <<name, TRUE>> = <<"fx_h4", p10>>
               \/ <<name, TRUE>> = <<"fx_sweep", p11>>
               \/ <<name, TRUE>> = <<"fx_grade", p12>>
               \/ <<name, TRUE>> = <<"confidence", p13>>
               \/ <<name, TRUE>> = <<"no_direction", p14>>)
    BY <1>7
  <2>2. /\ (<<name, TRUE>> = <<"killzone", p1>>) <=> (name = "killzone" /\ p1)
        /\ (<<name, TRUE>> = <<"mss", p2>>) <=> (name = "mss" /\ p2)
        /\ (<<name, TRUE>> = <<"fvg", p3>>) <=> (name = "fvg" /\ p3)
        /\ (<<name, TRUE>> = <<"zone", p4>>) <=> (name = "zone" /\ p4)
        /\ (<<name, TRUE>> = <<"fvg_direction", p5>>) <=> (name = "fvg_direction" /\ p5)
        /\ (<<name, TRUE>> = <<"news", p6>>) <=> (name = "news" /\ p6)
        /\ (<<name, TRUE>> = <<"daily_loss", p7>>) <=> (name = "daily_loss" /\ p7)
        /\ (<<name, TRUE>> = <<"max_trades", p8>>) <=> (name = "max_trades" /\ p8)
        /\ (<<name, TRUE>> = <<"fx_daily", p9>>) <=> (name = "fx_daily" /\ p9)
        /\ (<<name, TRUE>> = <<"fx_h4", p10>>) <=> (name = "fx_h4" /\ p10)
        /\ (<<name, TRUE>> = <<"fx_sweep", p11>>) <=> (name = "fx_sweep" /\ p11)
        /\ (<<name, TRUE>> = <<"fx_grade", p12>>) <=> (name = "fx_grade" /\ p12)
        /\ (<<name, TRUE>> = <<"confidence", p13>>) <=> (name = "confidence" /\ p13)
        /\ (<<name, TRUE>> = <<"no_direction", p14>>) <=> (name = "no_direction" /\ p14)
    BY <1>8
  <2>3. ASSUME stands(name) PROVE name \in Words
    BY <2>3 DEF Words
  <2> QED
    BY <2>1, <2>2, <2>3
<1>10. ASSUME NEW name PROVE RuleSays(name, symbol, killzone, r, direction, veto, total) <=> stands(name)
  BY DEF RuleSays, p1, p2, p3, p4, p5, p6, p7, p8, p9, p10, p11, p12, p13, p14
<1>11. \A name : name \in Members(said) <=> RuleSays(name, symbol, killzone, r, direction, veto, total)
  BY <1>9, <1>10
<1> QED
  BY <1>6, <1>11 DEF said

LEMMA Eleven ==
  ASSUME NEW X, NEW a \in X, NEW b \in X, NEW c \in X, NEW d \in X, NEW e \in X, NEW f \in X, NEW g \in X,
         NEW h \in X, NEW i \in X, NEW j \in X, NEW k \in X
  PROVE  <<a, b, c, d, e, f, g, h, i, j, k>> \in Seq(X)
OBVIOUS

LEMMA Eleventh ==
  ASSUME NEW X, NEW a, NEW b, NEW c, NEW d, NEW e, NEW f, NEW g,
         NEW h, NEW i, NEW j, NEW k, NEW y
  PROVE  LET s == <<a, b, c, d, e, f, g, h, i, j, k>>
         IN (\E z \in DOMAIN s : s[z] = y) <=> y \in {a, b, c, d, e, f, g, h, i, j, k}
<1> DEFINE s == <<a, b, c, d, e, f, g, h, i, j, k>>
<1>1. DOMAIN s = 1..11
  OBVIOUS
<1>2. /\ s[1] = a /\ s[2] = b /\ s[3] = c /\ s[4] = d /\ s[5] = e /\ s[6] = f /\ s[7] = g
      /\ s[8] = h /\ s[9] = i /\ s[10] = j /\ s[11] = k
  OBVIOUS
<1> HIDE DEF s
<1>3. \A z \in 1..11 : z = 1 \/ z = 2 \/ z = 3 \/ z = 4 \/ z = 5 \/ z = 6 \/ z = 7 \/ z = 8 \/ z = 9
                      \/ z = 10 \/ z = 11
  OBVIOUS
<1>4. ASSUME NEW z \in DOMAIN s PROVE s[z] \in {a, b, c, d, e, f, g, h, i, j, k}
  BY <1>1, <1>2, <1>3
<1>5. ASSUME y \in {a, b, c, d, e, f, g, h, i, j, k} PROVE \E z \in 1..11 : s[z] = y
  BY <1>2, <1>5
<1>6. (\E z \in DOMAIN s : s[z] = y) <=> y \in {a, b, c, d, e, f, g, h, i, j, k}
  BY <1>1, <1>4, <1>5
<1> QED
  BY <1>6 DEF s


\* What the guardrail's reasons say.
GuardrailSays(name, symbol, killzone, compared, tale, risk_blocked, news_lock, total) ==
  LET adjusted == Records!AdjustedConfidence(symbol, total, killzone, compared, tale)
  IN \/ name = "risk_governor" /\ risk_blocked
     \/ name = "news" /\ news_lock
     \/ name = "killzone" /\ ~killzone.valid
     \/ name = "london_continuation" /\ killzone.name \in Records!BlockedKillzones
     \/ name = "observer_mode" /\ symbol = "EURUSD"
     \/ name = "demo_sandbox" /\ symbol \in Records!DemoSandbox
     \/ name = "disabled" /\ symbol \in Records!ObserverOnly \ {"EURUSD"}
     \/ name = "london_open" /\ killzone.name = "london_open" /\ ~compared.detected /\ symbol # "XAUUSD"
     \/ name = "xau_continuation" /\ symbol = "XAUUSD" /\ killzone.name = "london_continuation"
     \/ name = "us30_session" /\ symbol = "US30" /\ killzone.name \notin Records!US30Killzones
     \/ name = "adjusted" /\ adjusted < Records!MinimumExecutionConfidence(symbol)

LEMMA GuardrailMembers ==
  ASSUME NEW symbol, NEW killzone, NEW compared, NEW tale, NEW risk_blocked, NEW news_lock, NEW total,
         risk_blocked \in BOOLEAN, news_lock \in BOOLEAN, compared.detected \in BOOLEAN
  PROVE  LET said == Records!GuardrailReasons(symbol, killzone, compared, tale, risk_blocked, news_lock, total)
         IN /\ said \in Seq(Words)
            /\ \A name : name \in Members(said)
                 <=> GuardrailSays(name, symbol, killzone, compared, tale, risk_blocked, news_lock, total)
<1> DEFINE said == Records!GuardrailReasons(symbol, killzone, compared, tale, risk_blocked, news_lock, total)
           adjusted == Records!AdjustedConfidence(symbol, total, killzone, compared, tale)
           p1 == risk_blocked
           p2 == news_lock
           p3 == ~killzone.valid
           p4 == killzone.name \in Records!BlockedKillzones
           p5 == symbol = "EURUSD"
           p6 == symbol \in Records!DemoSandbox
           p7 == symbol \in Records!ObserverOnly \ {"EURUSD"}
           p8 == killzone.name = "london_open" /\ ~compared.detected /\ symbol # "XAUUSD"
           p9 == symbol = "XAUUSD" /\ killzone.name = "london_continuation"
           p10 == symbol = "US30" /\ killzone.name \notin Records!US30Killzones
           p11 == adjusted < Records!MinimumExecutionConfidence(symbol)
           rules == << <<"risk_governor", p1>>, <<"news", p2>>, <<"killzone", p3>>, <<"london_continuation", p4>>,
                       <<"observer_mode", p5>>, <<"demo_sandbox", p6>>, <<"disabled", p7>>, <<"london_open", p8>>,
                       <<"xau_continuation", p9>>, <<"us30_session", p10>>, <<"adjusted", p11>> >>
           stands(name) ==
             \/ name = "risk_governor" /\ p1
             \/ name = "news" /\ p2
             \/ name = "killzone" /\ p3
             \/ name = "london_continuation" /\ p4
             \/ name = "observer_mode" /\ p5
             \/ name = "demo_sandbox" /\ p6
             \/ name = "disabled" /\ p7
             \/ name = "london_open" /\ p8
             \/ name = "xau_continuation" /\ p9
             \/ name = "us30_session" /\ p10
             \/ name = "adjusted" /\ p11
<1>1. said = Records!Holding(rules)
  BY DEF Records!GuardrailReasons
<1>2. /\ p1 \in BOOLEAN
      /\ p2 \in BOOLEAN
      /\ p3 \in BOOLEAN
      /\ p4 \in BOOLEAN
      /\ p5 \in BOOLEAN
      /\ p6 \in BOOLEAN
      /\ p7 \in BOOLEAN
      /\ p8 \in BOOLEAN
      /\ p9 \in BOOLEAN
      /\ p10 \in BOOLEAN
      /\ p11 \in BOOLEAN
  OBVIOUS
<1> HIDE DEF p1, p2, p3, p4, p5, p6, p7, p8, p9, p10, p11, said
<1>3. /\ <<"risk_governor", p1>> \in Words \X BOOLEAN
      /\ <<"news", p2>> \in Words \X BOOLEAN
      /\ <<"killzone", p3>> \in Words \X BOOLEAN
      /\ <<"london_continuation", p4>> \in Words \X BOOLEAN
      /\ <<"observer_mode", p5>> \in Words \X BOOLEAN
      /\ <<"demo_sandbox", p6>> \in Words \X BOOLEAN
      /\ <<"disabled", p7>> \in Words \X BOOLEAN
      /\ <<"london_open", p8>> \in Words \X BOOLEAN
      /\ <<"xau_continuation", p9>> \in Words \X BOOLEAN
      /\ <<"us30_session", p10>> \in Words \X BOOLEAN
      /\ <<"adjusted", p11>> \in Words \X BOOLEAN
  BY <1>2 DEF Words
<1>4. rules \in Seq(Words \X BOOLEAN)
  BY <1>3, Eleven
<1>5. \A y : (\E z \in DOMAIN rules : rules[z] = y)
          <=> y \in {<<"risk_governor", p1>>, <<"news", p2>>, <<"killzone", p3>>, <<"london_continuation", p4>>,
                   <<"observer_mode", p5>>, <<"demo_sandbox", p6>>, <<"disabled", p7>>, <<"london_open", p8>>,
                   <<"xau_continuation", p9>>, <<"us30_session", p10>>, <<"adjusted", p11>>}
  BY Eleventh
<1> HIDE DEF rules
<1>6. said \in Seq(Words) /\ Members(said) = Standing(rules, Words)
  BY <1>1, <1>4, HoldingMembers
<1>7. \A name : name \in Members(said) <=> name \in Words /\
          (\/ <<name, TRUE>> = <<"risk_governor", p1>>
           \/ <<name, TRUE>> = <<"news", p2>>
           \/ <<name, TRUE>> = <<"killzone", p3>>
           \/ <<name, TRUE>> = <<"london_continuation", p4>>
           \/ <<name, TRUE>> = <<"observer_mode", p5>>
           \/ <<name, TRUE>> = <<"demo_sandbox", p6>>
           \/ <<name, TRUE>> = <<"disabled", p7>>
           \/ <<name, TRUE>> = <<"london_open", p8>>
           \/ <<name, TRUE>> = <<"xau_continuation", p9>>
           \/ <<name, TRUE>> = <<"us30_session", p10>>
           \/ <<name, TRUE>> = <<"adjusted", p11>>)
  BY <1>5, <1>6 DEF Standing
<1>8. \A name :
        /\ (<<name, TRUE>> = <<"risk_governor", p1>>) <=> (name = "risk_governor" /\ p1)
        /\ (<<name, TRUE>> = <<"news", p2>>) <=> (name = "news" /\ p2)
        /\ (<<name, TRUE>> = <<"killzone", p3>>) <=> (name = "killzone" /\ p3)
        /\ (<<name, TRUE>> = <<"london_continuation", p4>>) <=> (name = "london_continuation" /\ p4)
        /\ (<<name, TRUE>> = <<"observer_mode", p5>>) <=> (name = "observer_mode" /\ p5)
        /\ (<<name, TRUE>> = <<"demo_sandbox", p6>>) <=> (name = "demo_sandbox" /\ p6)
        /\ (<<name, TRUE>> = <<"disabled", p7>>) <=> (name = "disabled" /\ p7)
        /\ (<<name, TRUE>> = <<"london_open", p8>>) <=> (name = "london_open" /\ p8)
        /\ (<<name, TRUE>> = <<"xau_continuation", p9>>) <=> (name = "xau_continuation" /\ p9)
        /\ (<<name, TRUE>> = <<"us30_session", p10>>) <=> (name = "us30_session" /\ p10)
        /\ (<<name, TRUE>> = <<"adjusted", p11>>) <=> (name = "adjusted" /\ p11)
  BY <1>2, PairSaid
<1>9. ASSUME NEW name PROVE name \in Members(said) <=> stands(name)
  <2>1. name \in Members(said) <=> name \in Words /\
              (\/ <<name, TRUE>> = <<"risk_governor", p1>>
               \/ <<name, TRUE>> = <<"news", p2>>
               \/ <<name, TRUE>> = <<"killzone", p3>>
               \/ <<name, TRUE>> = <<"london_continuation", p4>>
               \/ <<name, TRUE>> = <<"observer_mode", p5>>
               \/ <<name, TRUE>> = <<"demo_sandbox", p6>>
               \/ <<name, TRUE>> = <<"disabled", p7>>
               \/ <<name, TRUE>> = <<"london_open", p8>>
               \/ <<name, TRUE>> = <<"xau_continuation", p9>>
               \/ <<name, TRUE>> = <<"us30_session", p10>>
               \/ <<name, TRUE>> = <<"adjusted", p11>>)
    BY <1>7
  <2>2. /\ (<<name, TRUE>> = <<"risk_governor", p1>>) <=> (name = "risk_governor" /\ p1)
        /\ (<<name, TRUE>> = <<"news", p2>>) <=> (name = "news" /\ p2)
        /\ (<<name, TRUE>> = <<"killzone", p3>>) <=> (name = "killzone" /\ p3)
        /\ (<<name, TRUE>> = <<"london_continuation", p4>>) <=> (name = "london_continuation" /\ p4)
        /\ (<<name, TRUE>> = <<"observer_mode", p5>>) <=> (name = "observer_mode" /\ p5)
        /\ (<<name, TRUE>> = <<"demo_sandbox", p6>>) <=> (name = "demo_sandbox" /\ p6)
        /\ (<<name, TRUE>> = <<"disabled", p7>>) <=> (name = "disabled" /\ p7)
        /\ (<<name, TRUE>> = <<"london_open", p8>>) <=> (name = "london_open" /\ p8)
        /\ (<<name, TRUE>> = <<"xau_continuation", p9>>) <=> (name = "xau_continuation" /\ p9)
        /\ (<<name, TRUE>> = <<"us30_session", p10>>) <=> (name = "us30_session" /\ p10)
        /\ (<<name, TRUE>> = <<"adjusted", p11>>) <=> (name = "adjusted" /\ p11)
    BY <1>8
  <2>3. ASSUME stands(name) PROVE name \in Words
    BY <2>3 DEF Words
  <2> QED
    BY <2>1, <2>2, <2>3
<1>10. ASSUME NEW name
        PROVE  GuardrailSays(name, symbol, killzone, compared, tale, risk_blocked, news_lock, total)
                 <=> stands(name)
  BY DEF GuardrailSays, p1, p2, p3, p4, p5, p6, p7, p8, p9, p10, p11
<1>11. \A name : name \in Members(said)
         <=> GuardrailSays(name, symbol, killzone, compared, tale, risk_blocked, news_lock, total)
  BY <1>9, <1>10
<1> QED
  BY <1>6, <1>11 DEF said

LEMMA IctMembers ==
  ASSUME NEW q, q.mode \in {"LIVE", "REPLAY"}
  PROVE  /\ Records!IctReasons(q) \in Seq(Words)
         /\ \A name : name \in Members(Records!IctReasons(q))
                        <=> q.mode = "LIVE" /\ name \in Records!IctRejections(q.reading)
<1> DEFINE seven == <<"mss", "zone", "fvg", "fvg_direction", "order_block", "not_returned", "wrong_half">>
<1>1. CASE q.mode = "REPLAY"
  <2>1. Records!IctReasons(q) = <<>>
    BY <1>1 DEF Records!IctReasons
  <2>2. Records!IctReasons(q) \in Seq(Words) /\ Members(Records!IctReasons(q)) = {}
    BY <2>1 DEF Members
  <2> QED
    BY <1>1, <2>2
<1>2. CASE q.mode = "LIVE"
  <2>1. DOMAIN seven = 1..7 /\ seven \in Seq(Words)
    BY DEF Words
  <2>2. /\ seven \in Seq(Words)
        /\ Members(seven) = {"mss", "zone", "fvg", "fvg_direction", "order_block", "not_returned", "wrong_half"}
    <3>1. /\ seven[1] = "mss" /\ seven[2] = "zone" /\ seven[3] = "fvg" /\ seven[4] = "fvg_direction"
          /\ seven[5] = "order_block" /\ seven[6] = "not_returned" /\ seven[7] = "wrong_half"
      OBVIOUS
    <3> HIDE DEF seven
    <3>2. \A z \in 1..7 : z = 1 \/ z = 2 \/ z = 3 \/ z = 4 \/ z = 5 \/ z = 6 \/ z = 7
      OBVIOUS
    <3>3. \A z \in 1..7 :
            seven[z] \in {"mss", "zone", "fvg", "fvg_direction", "order_block", "not_returned", "wrong_half"}
      BY <3>1, <3>2
    <3>4. \A y \in {"mss", "zone", "fvg", "fvg_direction", "order_block", "not_returned", "wrong_half"} :
            \E z \in 1..7 : seven[z] = y
      BY <3>1
    <3> QED
      BY <2>1, <3>3, <3>4 DEF Members
  <2>3. Records!IctReasons(q) = Records!Among(seven, Records!IctRejections(q.reading))
    BY <1>2 DEF Records!IctReasons
  <2> HIDE DEF seven
  <2>4. /\ Records!IctReasons(q) \in Seq(Words)
        /\ Members(Records!IctReasons(q)) = Members(seven) \cap Records!IctRejections(q.reading)
    BY <2>2, <2>3, AmongMembers
  <2>5. Records!IctRejections(q.reading)
          \subseteq {"mss", "zone", "fvg", "fvg_direction", "order_block", "not_returned", "wrong_half"}
    BY DEF Records!IctRejections
  <2> QED
    BY <1>2, <2>2, <2>4, <2>5
<1> QED
  BY <1>1, <1>2

\* What is said of a request, and of one looked at without its payloads.
RulesSay(name, q) ==
  RuleSays(name, q.symbol, Records!Session(q), q.reading, Records!Direction(q.reading), q.veto,
           Records!Confidence(q))
GuardSays(name, q) ==
  GuardrailSays(name, q.symbol, Records!Session(q), q.smt, q.phase, q.veto \in Records!RiskVetoes,
                q.veto = "news", Records!Confidence(q))
Unlooked == [detected |-> FALSE, available |-> TRUE]
TierRulesSay(name, q) ==
  RuleSays(name, q.symbol, Records!Session(q), Records!NoPayload, Records!Direction(q.reading),
           IF q.veto = "news" THEN "none" ELSE q.veto, Records!Confidence(q))
TierGuardSays(name, q) ==
  GuardrailSays(name, q.symbol, Records!Session(q), Unlooked, "unknown", q.veto \in Records!RiskVetoes,
                FALSE, Records!Confidence(q))

LEMMA GuardedMembers ==
  ASSUME NEW q, q.smt.detected \in BOOLEAN
  PROVE  /\ Records!GuardrailSays(q) \in Seq(Words)
         /\ \A name : name \in Members(Records!GuardrailSays(q)) <=> GuardSays(name, q)
<1> DEFINE risky == q.veto \in Records!RiskVetoes
           barred == q.veto = "news"
<1>1. risky \in BOOLEAN /\ barred \in BOOLEAN
  OBVIOUS
<1>2. Records!GuardrailSays(q)
        = Records!GuardrailReasons(q.symbol, Records!Session(q), q.smt, q.phase, risky, barred,
            Records!Confidence(q))
  BY DEF Records!GuardrailSays
<1>3. \A name : GuardSays(name, q)
        <=> GuardrailSays(name, q.symbol, Records!Session(q), q.smt, q.phase, risky, barred,
              Records!Confidence(q))
  BY DEF GuardSays
<1> HIDE DEF risky, barred
<1> QED
  BY <1>1, <1>2, <1>3, GuardrailMembers

LEMMA RejectionMembers ==
  ASSUME NEW q, q.smt.detected \in BOOLEAN, q.mode \in {"LIVE", "REPLAY"}
  PROVE  /\ Records!RejectionReasons(q) \in Seq(Words)
         /\ \A name : name \in Members(Records!RejectionReasons(q))
              <=> \/ RulesSay(name, q) \/ GuardSays(name, q)
                  \/ q.mode = "LIVE" /\ name \in Records!IctRejections(q.reading)
<1> DEFINE rules == Records!RuleReasons(q.symbol, Records!Session(q), q.reading, Records!Direction(q.reading),
                      q.veto, Records!Confidence(q))
           guarded == Records!GuardrailSays(q)
           own == Records!IctReasons(q)
<1>1. rules \in Seq(Words) /\ \A name : name \in Members(rules) <=> RulesSay(name, q)
  BY RuleMembers DEF RulesSay
<1>2. guarded \in Seq(Words) /\ \A name : name \in Members(guarded) <=> GuardSays(name, q)
  BY GuardedMembers
<1>3. /\ own \in Seq(Words)
      /\ \A name : name \in Members(own) <=> q.mode = "LIVE" /\ name \in Records!IctRejections(q.reading)
  BY IctMembers
<1>4. Records!RejectionReasons(q) = Records!DedupeReasons(rules \o guarded \o own)
  BY DEF Records!RejectionReasons
<1> HIDE DEF rules, guarded, own
<1> DEFINE both == rules \o guarded
<1>5. both \in Seq(Words) /\ Members(both) = Members(rules) \cup Members(guarded)
  BY <1>1, <1>2, JoinedMembers
<1> HIDE DEF both
<1>6. both \o own \in Seq(Words) /\ Members(both \o own) = Members(both) \cup Members(own)
  BY <1>3, <1>5, JoinedMembers
<1>7. /\ Records!RejectionReasons(q) \in Seq(Words)
      /\ Members(Records!RejectionReasons(q)) = Members(rules) \cup Members(guarded) \cup Members(own)
  BY <1>4, <1>5, <1>6, DedupedMembers DEF both
<1> QED
  BY <1>1, <1>2, <1>3, <1>7

LEMMA TierMembers ==
  ASSUME NEW q
  PROVE  /\ Records!TierReasons(q) \in Seq(Words)
         /\ \A name : name \in Members(Records!TierReasons(q)) <=> TierRulesSay(name, q) \/ TierGuardSays(name, q)
<1> DEFINE rules == Records!RuleReasons(q.symbol, Records!Session(q), Records!NoPayload,
                      Records!Direction(q.reading), IF q.veto = "news" THEN "none" ELSE q.veto,
                      Records!Confidence(q))
           risky == q.veto \in Records!RiskVetoes
           shut == FALSE
           guarded == Records!GuardrailReasons(q.symbol, Records!Session(q), Unlooked, "unknown",
                        risky, shut, Records!Confidence(q))
<1>1. rules \in Seq(Words) /\ \A name : name \in Members(rules) <=> TierRulesSay(name, q)
  BY RuleMembers DEF TierRulesSay
<1>2. guarded \in Seq(Words) /\ \A name : name \in Members(guarded) <=> TierGuardSays(name, q)
  <2>1. risky \in BOOLEAN /\ shut \in BOOLEAN /\ Unlooked.detected \in BOOLEAN
    BY DEF Unlooked
  <2>2. \A name : TierGuardSays(name, q)
          <=> GuardrailSays(name, q.symbol, Records!Session(q), Unlooked, "unknown", risky, shut,
                Records!Confidence(q))
    BY DEF TierGuardSays
  <2> HIDE DEF risky, shut
  <2> QED
    BY <2>1, <2>2, GuardrailMembers
<1>3. Records!TierReasons(q) = Records!DedupeReasons(rules \o guarded)
  BY DEF Records!TierReasons, Unlooked
<1> HIDE DEF rules, guarded
<1>4. rules \o guarded \in Seq(Words) /\ Members(rules \o guarded) = Members(rules) \cup Members(guarded)
  BY <1>1, <1>2, JoinedMembers
<1>5. /\ Records!TierReasons(q) \in Seq(Words)
      /\ Members(Records!TierReasons(q)) = Members(rules) \cup Members(guarded)
  BY <1>3, <1>4, DedupedMembers
<1> QED
  BY <1>1, <1>2, <1>5

LEMMA ConfidenceTyped ==
  ASSUME NEW q
  PROVE  Records!Confidence(q) \in Int /\ Records!MinimumConfidence(q.symbol) \in {90, 95}
<1> DEFINE r == q.reading
           side == Records!Direction(r)
           daily == Records!Worth(15, r.daily = side)
           h4 == Records!Worth(20, r.h4 = side)
           swept == Records!Worth(20, r.sweep # "none")
           mss == Records!Worth(20, r.mss)
           fvg == Records!FvgQuality(r.fvg)
           session == Records!SessionQuality(Records!Session(q))
           target == Records!Worth(5, Records!ClearTarget(r))
           diverging == Records!ScoreSmt(q.symbol, r)
           sum == daily + h4 + swept + mss + fvg + session + target + diverging
<1>1. daily \in Int /\ h4 \in Int /\ swept \in Int /\ mss \in Int /\ target \in Int
  BY DEF Records!Worth
<1>2. fvg \in Int
  BY DEF Records!FvgQuality
<1>3. session \in Int
  BY DEF Records!SessionQuality
<1>4. diverging \in Int
  <2>1. Records!SmtWeight(q.symbol) \in Int
    BY DEF Records!SmtWeight
  <2> QED
    BY <2>1 DEF Records!ScoreSmt
<1>5. Records!Confidence(q) = Records!ClampScore(sum)
  BY DEF Records!Confidence, Records!TotalConfidence
<1>6. Records!MinimumConfidence(q.symbol) \in {90, 95}
  BY DEF Records!MinimumConfidence
<1> HIDE DEF side, daily, h4, swept, mss, fvg, session, target, diverging
<1>7. sum \in Int
  BY <1>1, <1>2, <1>3, <1>4
<1> HIDE DEF sum
<1> QED
  BY <1>5, <1>6, <1>7 DEF Records!ClampScore

\* The guardrail passes what it has nothing to say of.
LEMMA GuardPasses ==
  ASSUME NEW q
  PROVE  (\E name : GuardSays(name, q))
           <=> \/ Records!HardBlocked(q.symbol, Records!Session(q), q.smt, q.veto \in Records!RiskVetoes,
                                      q.veto = "news")
               \/ Records!AdjustedConfidence(q.symbol, Records!Confidence(q), Records!Session(q), q.smt, q.phase)
                    < Records!MinimumExecutionConfidence(q.symbol)
<1> DEFINE killzone == Records!Session(q)
           adjusted == Records!AdjustedConfidence(q.symbol, Records!Confidence(q), killzone, q.smt, q.phase)
           low == adjusted < Records!MinimumExecutionConfidence(q.symbol)
           blocks == Records!HardBlocked(q.symbol, killzone, q.smt, q.veto \in Records!RiskVetoes, q.veto = "news")
           says(name) ==
             \/ name = "risk_governor" /\ q.veto \in Records!RiskVetoes
             \/ name = "news" /\ q.veto = "news"
             \/ name = "killzone" /\ ~killzone.valid
             \/ name = "london_continuation" /\ killzone.name \in Records!BlockedKillzones
             \/ name = "observer_mode" /\ q.symbol = "EURUSD"
             \/ name = "demo_sandbox" /\ q.symbol \in Records!DemoSandbox
             \/ name = "disabled" /\ q.symbol \in Records!ObserverOnly \ {"EURUSD"}
             \/ name = "london_open" /\ killzone.name = "london_open" /\ ~q.smt.detected /\ q.symbol # "XAUUSD"
             \/ name = "xau_continuation" /\ q.symbol = "XAUUSD" /\ killzone.name = "london_continuation"
             \/ name = "us30_session" /\ q.symbol = "US30" /\ killzone.name \notin Records!US30Killzones
             \/ name = "adjusted" /\ low
<1>1. \A name : GuardSays(name, q) <=> says(name)
  BY DEF GuardSays, GuardrailSays
<1>2. blocks <=>
        \/ q.veto \in Records!RiskVetoes \/ q.veto = "news" \/ ~killzone.valid
        \/ q.symbol \in Records!ObserverOnly \/ q.symbol \in Records!DemoSandbox
        \/ killzone.name \in Records!BlockedKillzones
        \/ killzone.name = "london_open" /\ ~q.smt.detected /\ q.symbol # "XAUUSD"
        \/ q.symbol = "US30" /\ killzone.name \notin Records!US30Killzones
  BY DEF Records!HardBlocked, Records!SymbolBlocked, Records!RobustnessBlocked
<1>3. "EURUSD" \in Records!ObserverOnly /\ "london_continuation" \in Records!BlockedKillzones
  BY DEF Records!ObserverOnly, Records!BlockedKillzones
<1> HIDE DEF killzone, low, blocks
<1>4. ASSUME NEW name, says(name) PROVE blocks \/ low
  BY <1>2, <1>3, <1>4
<1>5. ASSUME blocks \/ low PROVE \E name : says(name)
  <2>1. /\ q.veto \in Records!RiskVetoes => says("risk_governor")
        /\ q.veto = "news" => says("news")
        /\ ~killzone.valid => says("killzone")
        /\ killzone.name \in Records!BlockedKillzones => says("london_continuation")
        /\ q.symbol = "EURUSD" => says("observer_mode")
        /\ q.symbol \in Records!DemoSandbox => says("demo_sandbox")
        /\ q.symbol \in Records!ObserverOnly \ {"EURUSD"} => says("disabled")
        /\ killzone.name = "london_open" /\ ~q.smt.detected /\ q.symbol # "XAUUSD" => says("london_open")
        /\ q.symbol = "US30" /\ killzone.name \notin Records!US30Killzones => says("us30_session")
        /\ low => says("adjusted")
    OBVIOUS
  <2> HIDE DEF says
  <2> QED
    BY <1>2, <1>5, <2>1
<1>6. (\E name : says(name)) <=> blocks \/ low
  BY <1>4, <1>5
<1> HIDE DEF says
<1>7. (\E name : GuardSays(name, q)) <=> blocks \/ low
  BY <1>1, <1>6
<1> QED
  BY <1>7 DEF blocks, low, killzone

\* The rules and the reading refuse what they have something to say of.
LEMMA RulesReject ==
  ASSUME NEW q
  PROVE  (\E name : RulesSay(name, q) \/ name \in Records!IctRejections(q.reading))
           <=> Records!HardRejected(q.symbol, Records!Session(q), q.reading, q.veto, Records!Confidence(q))
<1> DEFINE killzone == Records!Session(q)
           r == q.reading
           direction == Records!Direction(r)
           shift == Records!MssDirection(r)
           low == Records!Confidence(q) < Records!MinimumConfidence(q.symbol)
           forex == q.symbol \in Records!ForexSymbols
           against == r.fvg.detected /\ shift \in {Records!Opposite(r.fvg.direction)}
           own == Records!IctRejections(r)
           rejects == Records!HardRejected(q.symbol, killzone, r, q.veto, Records!Confidence(q))
           says(name) ==
             \/ name = "killzone" /\ ~killzone.valid
             \/ name = "mss" /\ ~r.mss
             \/ name = "fvg" /\ ~r.fvg.detected
             \/ name = "zone" /\ ~r.mss /\ r # Records!NoPayload
             \/ name = "fvg_direction" /\ against
             \/ name = "news" /\ q.veto = "news"
             \/ name = "daily_loss" /\ q.veto = "daily_loss"
             \/ name = "max_trades" /\ q.veto = "max_trades"
             \/ name = "fx_daily" /\ forex /\ direction # "none" /\ r.daily # direction
             \/ name = "fx_h4" /\ forex /\ direction # "none" /\ r.h4 # direction
             \/ name = "fx_sweep" /\ forex /\ r.sweep = "none"
             \/ name = "fx_grade" /\ forex /\ r.fvg.grade # "A"
             \/ name = "confidence" /\ low
             \/ name = "no_direction" /\ direction = "none"
<1>1. \A name : RulesSay(name, q) <=> says(name)
  BY DEF RulesSay, RuleSays
<1>2. rejects <=>
        \/ ~killzone.valid \/ q.veto = "news" \/ q.veto = "daily_loss" \/ q.veto = "max_trades"
        \/ own # {}
        \/ forex /\ direction # "none" /\ r.daily # direction
        \/ forex /\ direction # "none" /\ r.h4 # direction
        \/ forex /\ r.sweep = "none"
        \/ forex /\ r.fvg.grade # "A"
        \/ low
        \/ direction = "none"
  BY DEF Records!HardRejected, Records!ForexRejected
<1>3. (~r.mss => "mss" \in own) /\ (~r.fvg.detected => "fvg" \in own)
  BY DEF Records!IctRejections
<1>4. against => "fvg_direction" \in own
  <2> SUFFICES ASSUME against PROVE "fvg_direction" \in own
    OBVIOUS
  <2>1. shift = Records!Opposite(r.fvg.direction) /\ r.fvg.detected
    OBVIOUS
  <2>2. shift # "none" /\ r.fvg.direction # shift
    BY <2>1 DEF Records!Opposite
  <2> HIDE DEF against
  <2> QED
    BY <2>1, <2>2 DEF Records!IctRejections
<1> HIDE DEF killzone, direction, shift, low, forex, against, own, rejects
<1>5. ASSUME NEW name, says(name) PROVE rejects
  BY <1>2, <1>3, <1>4, <1>5
<1>6. ASSUME rejects PROVE \E name : says(name) \/ name \in own
  <2>1. /\ ~killzone.valid => says("killzone")
        /\ q.veto = "news" => says("news")
        /\ q.veto = "daily_loss" => says("daily_loss")
        /\ q.veto = "max_trades" => says("max_trades")
        /\ forex /\ direction # "none" /\ r.daily # direction => says("fx_daily")
        /\ forex /\ direction # "none" /\ r.h4 # direction => says("fx_h4")
        /\ forex /\ r.sweep = "none" => says("fx_sweep")
        /\ forex /\ r.fvg.grade # "A" => says("fx_grade")
        /\ low => says("confidence")
        /\ direction = "none" => says("no_direction")
    OBVIOUS
  <2> HIDE DEF says
  <2> QED
    BY <1>2, <1>6, <2>1
<1>7. ASSUME NEW name, name \in own PROVE rejects
  BY <1>2, <1>7
<1>8. (\E name : says(name) \/ name \in own) <=> rejects
  BY <1>5, <1>6, <1>7
<1> HIDE DEF says
<1>9. (\E name : RulesSay(name, q) \/ name \in own) <=> rejects
  BY <1>1, <1>8
<1> QED
  BY <1>9 DEF own, rejects, killzone

\* A live request is approved by the rules when nothing is said of it.
LEMMA LiveVerdict ==
  ASSUME NEW q, q.smt = Records!Smt(q.symbol, q.reading), q.phase = Records!Phase(q.reading)
  PROVE  Records!Decide(q.symbol, Records!Session(q), q.reading, q.veto).approved
           <=> ~\E name : RulesSay(name, q) \/ GuardSays(name, q) \/ name \in Records!IctRejections(q.reading)
<1> DEFINE killzone == Records!Session(q)
           adjusted == Records!AdjustedConfidence(q.symbol, Records!Confidence(q), killzone, q.smt, q.phase)
           low == adjusted < Records!MinimumExecutionConfidence(q.symbol)
           blocks == Records!HardBlocked(q.symbol, killzone, q.smt, q.veto \in Records!RiskVetoes, q.veto = "news")
           rejects == Records!HardRejected(q.symbol, killzone, q.reading, q.veto, Records!Confidence(q))
           approves == Records!Decide(q.symbol, killzone, q.reading, q.veto).approved
<1>1. approves <=> ~(blocks \/ low) /\ ~rejects
  BY DEF Records!Decide, Records!Guardrail, Records!AdaptiveGuardrail, Records!Result, Records!Confidence,
         Records!RiskVetoes
<1>2. (\E name : GuardSays(name, q)) <=> blocks \/ low
  BY GuardPasses
<1>3. (\E name : RulesSay(name, q) \/ name \in Records!IctRejections(q.reading)) <=> rejects
  BY RulesReject
<1> HIDE DEF low, blocks, rejects, approves
<1>4. approves <=> ~\E name : RulesSay(name, q) \/ GuardSays(name, q) \/ name \in Records!IctRejections(q.reading)
  BY <1>1, <1>2, <1>3
<1> QED
  BY <1>4 DEF approves, killzone

LEMMA NothingSaid ==
  ASSUME NEW R, NEW s \in Seq(R)
  PROVE  Records!ToSet(s) = Members(s) /\ (s = <<>> <=> Members(s) = {})
<1>1. DOMAIN s = 1..Len(s) /\ Len(s) \in Nat /\ (s = <<>> <=> Len(s) = 0)
  OBVIOUS
<1>2. s # <<>> => 1 \in DOMAIN s
  BY <1>1
<1>3. s # <<>> => s[1] \in Members(s)
  BY <1>2 DEF Members
<1>4. s = <<>> => Members(s) = {}
  BY <1>1 DEF Members
<1>5. Records!ToSet(s) = Members(s)
  BY DEF Records!ToSet, Members
<1> QED
  BY <1>3, <1>4, <1>5

\* A request the decision path can hear of.
AskedFor(q) ==
  /\ q.mode \in {"LIVE", "REPLAY"} /\ q.smt.detected \in BOOLEAN
  /\ q.mode = "LIVE" => q.smt = Records!Smt(q.symbol, q.reading) /\ q.phase = Records!Phase(q.reading)
  /\ q.mode = "REPLAY" => q.veto = "none"

LEMMA RequestsHeard == \A q \in MCDecisions : AskedFor(q)
<1>1. ASSUME NEW symbol, NEW asked_minute, NEW r, NEW veto
      PROVE  AskedFor([mode |-> "LIVE", symbol |-> symbol, minute |-> asked_minute, reading |-> r, veto |-> veto,
                    phase |-> Brain!Phase(r), smt |-> Brain!Smt(symbol, r)])
  <2>1. Brain!Phase(r) = Records!Phase(r)
    BY DEF Brain!Phase, Records!Phase, Brain!MssDirection, Records!MssDirection, Brain!ExpectedMssDirection,
           Records!ExpectedMssDirection, Brain!Bias, Records!Bias, Brain!OverallBias, Records!OverallBias,
           Brain!Directions, Records!Directions, Brain!Opposite, Records!Opposite, Brain!HasExternalTarget,
           Records!HasExternalTarget, Brain!ZoneFavorable, Records!ZoneFavorable, Brain!SweptAgainstBias,
           Records!SweptAgainstBias, Brain!RejectionDistribution, Records!RejectionDistribution
  <2>2. Brain!Smt(symbol, r) = Records!Smt(symbol, r) /\ Records!Smt(symbol, r).detected \in BOOLEAN
    BY DEF Brain!Smt, Records!Smt, Brain!SmtDetected, Records!SmtDetected, Brain!SmtWeight, Records!SmtWeight
  <2> QED
    BY <2>1, <2>2 DEF AskedFor
<1>2. ASSUME NEW symbol, NEW asked_minute, NEW r, NEW tale
      PROVE  AskedFor([mode |-> "REPLAY", symbol |-> symbol, minute |-> asked_minute, veto |-> "none", reading |-> r,
                    smt |-> Backtest!NotLooked, phase |-> tale])
  BY DEF AskedFor, Backtest!NotLooked
<1> HIDE DEF AskedFor
<1> QED
  BY <1>1, <1>2 DEF MCDecisions

\* Whatever of the rules, the guardrail and the reading there is to say.
Refused(name, q) ==
  \/ RulesSay(name, q) \/ GuardSays(name, q)
  \/ q.mode = "LIVE" /\ name \in Records!IctRejections(q.reading)
Enough(q) == Records!Confidence(q) >= Records!MinimumConfidence(q.symbol)
Approves(q) == Enough(q) /\ Records!RejectionReasons(q) = <<>>

\* What is said for the session, the vetoes, and nothing else.
LEMMA SafetySaid ==
  ASSUME NEW q
  PROVE  /\ Refused("killzone", q) <=> ~Records!Session(q).valid
         /\ Refused("daily_loss", q) <=> q.veto = "daily_loss"
         /\ Refused("max_trades", q) <=> q.veto = "max_trades"
         /\ Refused("news", q) <=> q.veto = "news"
         /\ Refused("risk_governor", q) <=> q.veto \in Records!RiskVetoes
<1>1. \A name \in {"killzone", "daily_loss", "max_trades", "news", "risk_governor"} :
        name \notin Records!IctRejections(q.reading)
  BY DEF Records!IctRejections
<1>2. RulesSay("killzone", q) <=> ~Records!Session(q).valid
  BY DEF RulesSay, RuleSays
<1>3. GuardSays("killzone", q) <=> ~Records!Session(q).valid
  BY DEF GuardSays, GuardrailSays
<1>4. (RulesSay("daily_loss", q) <=> q.veto = "daily_loss") /\ ~GuardSays("daily_loss", q)
  BY DEF RulesSay, RuleSays, GuardSays, GuardrailSays
<1>5. (RulesSay("max_trades", q) <=> q.veto = "max_trades") /\ ~GuardSays("max_trades", q)
  BY DEF RulesSay, RuleSays, GuardSays, GuardrailSays
<1>6. (RulesSay("news", q) <=> q.veto = "news") /\ (GuardSays("news", q) <=> q.veto = "news")
  BY DEF RulesSay, RuleSays, GuardSays, GuardrailSays
<1>7. ~RulesSay("risk_governor", q) /\ (GuardSays("risk_governor", q) <=> q.veto \in Records!RiskVetoes)
  BY DEF RulesSay, RuleSays, GuardSays, GuardrailSays
<1> QED
  BY <1>1, <1>2, <1>3, <1>4, <1>5, <1>6, <1>7 DEF Refused

\* Too little confidence is one of the reasons.
LEMMA ApprovedUnlessRefused ==
  ASSUME NEW q, AskedFor(q)
  PROVE  /\ Approves(q) <=> Members(Records!RejectionReasons(q)) = {}
         /\ \A name : name \in Members(Records!RejectionReasons(q)) <=> Refused(name, q)
<1>1. /\ Records!RejectionReasons(q) \in Seq(Words)
      /\ \A name : name \in Members(Records!RejectionReasons(q)) <=> Refused(name, q)
  BY RejectionMembers DEF AskedFor, Refused
<1>2. Records!RejectionReasons(q) = <<>> <=> Members(Records!RejectionReasons(q)) = {}
  BY <1>1, NothingSaid
<1>3. ~Enough(q) => Refused("confidence", q)
  BY ConfidenceTyped DEF Enough, Refused, RulesSay, RuleSays
<1> QED
  BY <1>1, <1>2, <1>3 DEF Approves

\* The same without its payloads.
LEMMA SafetyTier ==
  ASSUME NEW q, AskedFor(q)
  PROVE  /\ Records!Tiers(q)["1"]
              = Members(Records!RejectionReasons(q)) \cap {"killzone", "daily_loss", "max_trades"}
         /\ Records!Tiers(q)["3A"] # {}
<1> DEFINE reasons == Members(Records!TierReasons(q))
           refused == Members(Records!RejectionReasons(q))
<1>1. /\ Records!TierReasons(q) \in Seq(Words)
      /\ \A name : name \in reasons <=> TierRulesSay(name, q) \/ TierGuardSays(name, q)
  BY TierMembers
<1>2. /\ Records!Tiers(q)["1"] = {reason \in reasons : Records!AuthorityTier(reason) = "1"}
      /\ Records!Tiers(q)["3A"] = {reason \in reasons : Records!AuthorityTier(reason) = "3A"}
  BY <1>1, NothingSaid DEF Records!Tiers
<1>3. \A name : Records!AuthorityTier(name) = "1" <=> name \in {"killzone", "news", "daily_loss", "max_trades"}
  BY DEF Records!AuthorityTier, Records!SafetyVetoes, Records!MacroTruthVetoes, Records!StructureVetoes
<1>4. Records!AuthorityTier("mss") = "3A"
  BY DEF Records!AuthorityTier, Records!SafetyVetoes, Records!MacroTruthVetoes, Records!StructureVetoes
<1>5. /\ "killzone" \in reasons <=> ~Records!Session(q).valid
      /\ "daily_loss" \in reasons <=> q.veto = "daily_loss"
      /\ "max_trades" \in reasons <=> q.veto = "max_trades"
      /\ "news" \notin reasons
  BY <1>1 DEF TierRulesSay, TierGuardSays, RuleSays, GuardrailSays
<1>6. "mss" \in reasons
  BY <1>1 DEF TierRulesSay, RuleSays, Records!NoPayload
<1>7. \A name : name \in refused <=> Refused(name, q)
  BY ApprovedUnlessRefused
<1>8. /\ "killzone" \in refused <=> ~Records!Session(q).valid
      /\ "daily_loss" \in refused <=> q.veto = "daily_loss"
      /\ "max_trades" \in refused <=> q.veto = "max_trades"
  BY <1>7, SafetySaid
<1> HIDE DEF reasons, refused
<1>9. {reason \in reasons : Records!AuthorityTier(reason) = "1"}
        = refused \cap {"killzone", "daily_loss", "max_trades"}
  BY <1>3, <1>5, <1>8
<1> QED
  BY <1>2, <1>4, <1>6, <1>9 DEF refused

LEMMA LockCodes ==
  ASSUME NEW q, AskedFor(q)
  PROVE  LET codes == {Records!RejectionReasonCode(reason) : reason \in Members(Records!RejectionReasons(q))}
         IN /\ "RISK_LOCK" \in codes <=> q.veto \in Records!RiskVetoes
            /\ "NEWS_LOCK" \in codes <=> q.veto = "news"
<1> DEFINE refused == Members(Records!RejectionReasons(q))
           code(name) == Records!RejectionReasonCode(name)
<1>1. \A name : name \in refused <=> Refused(name, q)
  BY ApprovedUnlessRefused
<1>2. \A name : code(name) = "RISK_LOCK" <=> name \in {"risk_governor", "daily_loss"}
  BY DEF Records!RejectionReasonCode
<1>3. \A name : code(name) = "NEWS_LOCK" <=> name = "news"
  BY DEF Records!RejectionReasonCode
<1>4. /\ "risk_governor" \in refused <=> q.veto \in Records!RiskVetoes
      /\ "daily_loss" \in refused <=> q.veto = "daily_loss"
      /\ "news" \in refused <=> q.veto = "news"
  BY <1>1, SafetySaid
<1>5. q.veto = "daily_loss" => q.veto \in Records!RiskVetoes
  BY DEF Records!RiskVetoes
<1> HIDE DEF refused, code
<1>6. "RISK_LOCK" \in {code(reason) : reason \in refused} <=> q.veto \in Records!RiskVetoes
  BY <1>2, <1>4, <1>5
<1>7. "NEWS_LOCK" \in {code(reason) : reason \in refused} <=> q.veto = "news"
  BY <1>3, <1>4
<1> QED
  BY <1>6, <1>7 DEF refused, code

\* A replayed candidate's vetoes are its reasons, the guardrail's own last.
LEMMA ReplayEntries ==
  ASSUME NEW q, AskedFor(q), q.mode = "REPLAY"
  PROVE  LET entries == Records!Entries(q, Records!RejectionReasons(q))
             refused == Members(Records!RejectionReasons(q))
         IN /\ entries = <<>> <=> refused = {}
            /\ refused # {} => Records!PrimaryReason(entries) \in refused
            /\ {entries[i].reason : i \in DOMAIN entries} = refused
            /\ "1" \in {entries[i].tier : i \in DOMAIN entries} => Records!SymbolBlocked(q.symbol)
<1> DEFINE reasons == Records!RejectionReasons(q)
           guarded == Records!GuardrailSays(q)
           blocking == Records!Blocking(reasons, guarded)
           vetoes == blocking \o guarded
           entries == Records!Entries(q, reasons)
           refused == Members(reasons)
<1>1. reasons \in Seq(Words) /\ \A name : name \in refused <=> Refused(name, q)
  BY RejectionMembers, ApprovedUnlessRefused DEF AskedFor
<1>2. guarded \in Seq(Words) /\ \A name : name \in Members(guarded) <=> GuardSays(name, q)
  BY GuardedMembers DEF AskedFor
<1>3. Members(guarded) \subseteq refused
  BY <1>1, <1>2 DEF Refused
<1>4. entries = [i \in DOMAIN vetoes |-> Records!Entry(vetoes[i])]
  BY DEF Records!Entries
<1>5. /\ blocking \in Seq(Words)
      /\ Members(blocking) = refused \ Members(guarded)
  <2>1. blocking = Records!Among(reasons, refused \ Members(guarded))
    BY <1>1, <1>2, NothingSaid DEF Records!Blocking
  <2> QED
    BY <1>1, <2>1, AmongMembers
<1> HIDE DEF guarded, reasons, blocking
<1>6. vetoes \in Seq(Words) /\ Members(vetoes) = refused
  <2> DEFINE G == Members(guarded)
  <2>1. guarded \in Seq(Words)
    BY <1>2
  <2>2. vetoes \in Seq(Words) /\ Members(vetoes) = Members(blocking) \cup G
    BY <1>5, <2>1, JoinedMembers
  <2>3. G \subseteq refused /\ Members(blocking) = refused \ G
    BY <1>3, <1>5
  <2> HIDE DEF G, vetoes, refused
  <2> QED
    BY <2>2, <2>3
<1>7. \A name : /\ Records!Entry(name).reason = name
                /\ Records!Entry(name).tier = "1"
                     <=> name \in {"news", "daily_loss", "max_trades", "risk_governor", "demo_sandbox",
                                   "observer_mode", "disabled"}
  BY DEF Records!Entry, Records!ReplayTier
<1> HIDE DEF vetoes, entries
<1>8. /\ DOMAIN entries = DOMAIN vetoes /\ DOMAIN vetoes = 1..Len(vetoes) /\ Len(vetoes) \in Nat
      /\ \A i \in DOMAIN vetoes : entries[i].reason = vetoes[i] /\ entries[i].tier = Records!Entry(vetoes[i]).tier
  BY <1>4, <1>6, <1>7
<1>9. {entries[i].reason : i \in DOMAIN entries} = refused
  BY <1>6, <1>8, SMTT(30) DEF Members
<1>10. entries = <<>> <=> refused = {}
  <2>1. entries = <<>> <=> DOMAIN vetoes = {}
    BY <1>4, <1>8
  <2>2. refused = {} <=> DOMAIN vetoes = {}
    BY <1>6 DEF Members
  <2> QED
    BY <2>1, <2>2
<1>11. refused # {} => Records!PrimaryReason(entries) \in refused
  <2> SUFFICES ASSUME refused # {} PROVE Records!PrimaryReason(entries) \in refused
    OBVIOUS
  <2>1. 1 \in DOMAIN entries
    BY <1>6, <1>8, <1>10 DEF Members
  <2>2. Records!PrimaryReason(entries) = entries[1].reason
    BY <1>10 DEF Records!PrimaryReason
  <2> QED
    BY <1>9, <2>1, <2>2
<1>12. ASSUME NEW i \in DOMAIN entries, entries[i].tier = "1" PROVE Records!SymbolBlocked(q.symbol)
  <2>1. vetoes[i] \in {"news", "daily_loss", "max_trades", "risk_governor",
                       "demo_sandbox", "observer_mode", "disabled"}
    BY <1>7, <1>8, <1>12
  <2>2. Refused(vetoes[i], q)
    BY <1>1, <1>6, <1>8 DEF Members
  <2>3. q.veto = "none" /\ q.veto \notin Records!RiskVetoes /\ q.mode # "LIVE"
    BY DEF AskedFor, Records!RiskVetoes
  <2>4. vetoes[i] \in {"demo_sandbox", "observer_mode", "disabled"}
    BY <2>1, <2>2, <2>3 DEF Refused, RulesSay, GuardSays, RuleSays, GuardrailSays
  <2>5. q.symbol = "EURUSD" \/ q.symbol \in Records!DemoSandbox \/ q.symbol \in Records!ObserverOnly
    BY <2>2, <2>3, <2>4 DEF Refused, RulesSay, GuardSays, RuleSays, GuardrailSays
  <2> QED
    BY <2>5 DEF Records!SymbolBlocked, Records!ObserverOnly
<1> QED
  BY <1>9, <1>10, <1>11, <1>12 DEF entries, reasons

\* What is written of a request.
WrittenOf(q) ==
  LET reasons == Records!RejectionReasons(q)
      entries == Records!Entries(q, reasons)
  IN IF q.mode = "LIVE"
     THEN [approved |-> Approves(q), reasons |-> reasons, tiers |-> Records!Tiers(q),
           codes |-> {Records!RejectionReasonCode(reason) : reason \in Records!ToSet(reasons)}]
     ELSE [approved |-> Approves(q), reasons |-> reasons, entries |-> entries,
           admitted |-> entries = <<>>, primary |-> Records!PrimaryReason(entries)]

\* What the invariant asks of a request and its record.
Agrees(q, written) ==
  LET reasons == Records!ToSet(written.reasons)
      decided == Records!Decide(q.symbol, Records!Session(q), q.reading, q.veto)
  IN /\ written.approved <=> reasons = {}
     /\ q.mode = "LIVE" =>
          /\ written.approved <=> decided.approved
          /\ written.tiers["1"] = reasons \cap {"killzone", "daily_loss", "max_trades"}
          /\ written.tiers["3A"] # {}
          /\ "RISK_LOCK" \in written.codes <=> q.veto \in Records!RiskVetoes
          /\ "NEWS_LOCK" \in written.codes <=> q.veto = "news"
     /\ q.mode = "REPLAY" =>
          /\ written.admitted <=> written.approved
          /\ ~written.approved => written.primary \in reasons
          /\ {written.entries[i].reason : i \in DOMAIN written.entries} = reasons
          /\ "1" \in {written.entries[i].tier : i \in DOMAIN written.entries} => Records!SymbolBlocked(q.symbol)

LEMMA LiveAgrees ==
  ASSUME NEW q, AskedFor(q), q.mode = "LIVE"
  PROVE  Agrees(q, WrittenOf(q))
<1> DEFINE reasons == Records!RejectionReasons(q)
           refused == Members(reasons)
           codes == {Records!RejectionReasonCode(reason) : reason \in refused}
           written == WrittenOf(q)
           approves == Records!Decide(q.symbol, Records!Session(q), q.reading, q.veto).approved
<1>1. reasons \in Seq(Words) /\ Records!ToSet(reasons) = refused
  BY RejectionMembers, NothingSaid DEF AskedFor
<1>2. /\ written.approved = Approves(q) /\ written.reasons = reasons
      /\ written.tiers = Records!Tiers(q) /\ written.codes = codes
  BY <1>1 DEF WrittenOf
<1>3. (Approves(q) <=> refused = {}) /\ \A name : name \in refused <=> Refused(name, q)
  BY ApprovedUnlessRefused
<1>4. /\ Records!Tiers(q)["1"] = refused \cap {"killzone", "daily_loss", "max_trades"}
      /\ Records!Tiers(q)["3A"] # {}
  BY SafetyTier
<1>5. /\ "RISK_LOCK" \in codes <=> q.veto \in Records!RiskVetoes
      /\ "NEWS_LOCK" \in codes <=> q.veto = "news"
  BY LockCodes
<1>6. approves <=> ~\E name : Refused(name, q)
  BY LiveVerdict DEF AskedFor, Refused
<1> HIDE DEF reasons, refused, codes, written, approves
<1>7. Approves(q) <=> approves
  BY <1>3, <1>6
<1>8. /\ written.approved <=> refused = {}
      /\ written.approved <=> approves
      /\ written.tiers["1"] = refused \cap {"killzone", "daily_loss", "max_trades"}
      /\ written.tiers["3A"] # {}
      /\ "RISK_LOCK" \in written.codes <=> q.veto \in Records!RiskVetoes
      /\ "NEWS_LOCK" \in written.codes <=> q.veto = "news"
  BY <1>2, <1>3, <1>4, <1>5, <1>7
<1>9. Records!ToSet(written.reasons) = refused
  BY <1>1, <1>2
<1>10. Agrees(q, written)
  BY <1>8, <1>9 DEF Agrees, approves
<1> QED
  BY <1>10 DEF written

LEMMA ReplayAgrees ==
  ASSUME NEW q, AskedFor(q), q.mode = "REPLAY"
  PROVE  Agrees(q, WrittenOf(q))
<1> DEFINE reasons == Records!RejectionReasons(q)
           refused == Members(reasons)
           entries == Records!Entries(q, reasons)
           written == WrittenOf(q)
<1>1. reasons \in Seq(Words) /\ Records!ToSet(reasons) = refused
  BY RejectionMembers, NothingSaid DEF AskedFor
<1>2. /\ written.approved = Approves(q) /\ written.reasons = reasons /\ written.entries = entries
      /\ (written.admitted <=> entries = <<>>) /\ written.primary = Records!PrimaryReason(entries)
  BY DEF WrittenOf
<1>3. Approves(q) <=> refused = {}
  BY ApprovedUnlessRefused
<1>4. /\ entries = <<>> <=> refused = {}
      /\ refused # {} => Records!PrimaryReason(entries) \in refused
      /\ {entries[i].reason : i \in DOMAIN entries} = refused
      /\ "1" \in {entries[i].tier : i \in DOMAIN entries} => Records!SymbolBlocked(q.symbol)
  BY ReplayEntries
<1> HIDE DEF reasons, refused, entries, written
<1>5. Records!ToSet(written.reasons) = refused
  BY <1>1, <1>2
<1>6. /\ written.approved <=> refused = {}
      /\ written.admitted <=> written.approved
      /\ ~written.approved => written.primary \in refused
  BY <1>2, <1>3, <1>4
<1>7. Agrees(q, written)
  BY <1>2, <1>4, <1>5, <1>6 DEF Agrees
<1> QED
  BY <1>7 DEF written

\* What is written was written of the request that is kept.
WrittenOfIt ==
  part = "records" => \/ record = Records!NoRecord
                      \/ request \in MCDecisions /\ record = WrittenOf(request)

LEMMA RecordFrame ==
  [MCNext]_mc_vars => /\ part' = part
                      /\ (part = "records" /\ Records!RecordDecision) \/ UNCHANGED record_vars
BY DEF MCNext, mc_vars, deciding_vars, Watching, Deciding, Replaying, Limiting, record_vars

\* For every request of either mode: what is told of a decision agrees with the
\* decision it was made of.
THEOREM Recorded == MCSpec => []DecisionIsAsRecorded
<1>1. MCInit => WrittenOfIt
  BY DEF MCInit, WrittenOfIt, Records!LedgerInit
<1>2. WrittenOfIt /\ [MCNext]_mc_vars => WrittenOfIt'
  <2> SUFFICES ASSUME WrittenOfIt, [MCNext]_mc_vars, part' = "records" PROVE WrittenOfIt'
    BY DEF WrittenOfIt
  <2>1. part = "records" /\ (Records!RecordDecision \/ UNCHANGED record_vars)
    BY RecordFrame
  <2>2. CASE UNCHANGED record_vars
    BY <2>1, <2>2 DEF WrittenOfIt, record_vars
  <2>3. CASE Records!RecordDecision
    <3>1. request' \in MCDecisions
      BY <2>3 DEF Records!RecordDecision
    <3>2. record' = WrittenOf(request')
      BY <2>3 DEF Records!RecordDecision, WrittenOf, Approves, Enough
    <3> QED
      BY <3>1, <3>2 DEF WrittenOfIt
  <2> QED
    BY <2>1, <2>2, <2>3
<1>3. WrittenOfIt => DecisionIsAsRecorded
  <2> SUFFICES ASSUME WrittenOfIt, part = "records", record # Records!NoRecord
               PROVE  Records!DecisionIsAsRecorded
    BY DEF DecisionIsAsRecorded, Records!DecisionIsAsRecorded
  <2>1. AskedFor(request) /\ record = WrittenOf(request)
    BY RequestsHeard DEF WrittenOfIt
  <2>2. Agrees(request, record)
    BY <2>1, LiveAgrees, ReplayAgrees DEF AskedFor
  <2> QED
    BY <2>2 DEF Agrees, Records!DecisionIsAsRecorded
<1> QED
  BY <1>1, <1>2, <1>3, PTL DEF MCSpec
=============================================================================
