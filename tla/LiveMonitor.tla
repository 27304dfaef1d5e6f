---------------------------- MODULE LiveMonitor ----------------------------
(* backend/monitor/live_monitor.py with the journal engine and the news      *)
(* filter: one scan asks the risk governor and the news filter, looks at     *)
(* every symbol, alerts symbol by symbol, then journals symbol by symbol,    *)
(* then hands the scan to the live data collector, and sleeps.  Nothing of   *)
(* this outlives the process except the journal.                             *)
(*                                                                           *)
(* First backend/alerts/alert_engine.py: which change of a symbol's state    *)
(* becomes an alert, and the cooldown kept per symbol and transition.  The   *)
(* engine keeps both of its tables in memory only.                           *)
EXTENDS Integers, Sequences

CONSTANTS
  Symbols,      \* every symbol the monitor scans
  Observers,    \* those of them on the observer list
  Confidences,  \* the scores a scan can give
  COOLDOWN,     \* minutes an alert silences its like
  DELTA         \* points a stronger observer move has to gain

VARIABLES
  since,           \* minutes since the last alert, COOLDOWN when none counts
  last_confidence  \* the score that alert carried, 0 when there was none

alert_vars == <<since, last_confidence>>

States == {"COLD", "WARM", "HOT", "EXECUTION_READY", "UNAVAILABLE"}
Transitions == {"WARM_TO_HOT", "HOT_TO_EXECUTION_READY",
                "EXECUTION_READY_TO_LOWER", "RISK_BLOCKED", "NEWS_LOCK_ACTIVE"}

AlertTypeOK ==
  /\ since \in [Symbols \X Transitions -> 0..COOLDOWN]
  /\ last_confidence \in [Symbols \X Transitions -> Confidences \cup {0}]

AlertInit ==
  /\ since = [k \in Symbols \X Transitions |-> COOLDOWN]
  /\ last_confidence = [k \in Symbols \X Transitions |-> 0]

\* Mutated form: only a step down to the next state counts as lower.
DetectOneStepDown(previous, current, blocked, locked) ==
  IF blocked THEN "RISK_BLOCKED"
  ELSE IF locked THEN "NEWS_LOCK_ACTIVE"
  ELSE CASE previous = "WARM" /\ current = "HOT" -> "WARM_TO_HOT"
         [] previous = "HOT" /\ current = "EXECUTION_READY" -> "HOT_TO_EXECUTION_READY"
         [] previous = "EXECUTION_READY" /\ current = "HOT" -> "EXECUTION_READY_TO_LOWER"
         [] OTHER -> "none"

\* A block or a lock hides every change of state; a first sight, a step up
\* that skips a state and a move to or from UNAVAILABLE have no name.
DetectTransition(previous, current, blocked, locked) ==
  IF blocked THEN "RISK_BLOCKED"
  ELSE IF locked THEN "NEWS_LOCK_ACTIVE"
  ELSE CASE previous = "WARM" /\ current = "HOT" -> "WARM_TO_HOT"
         [] previous = "HOT" /\ current = "EXECUTION_READY" -> "HOT_TO_EXECUTION_READY"
         [] previous = "EXECUTION_READY" /\ current \in {"HOT", "WARM", "COLD"} ->
              "EXECUTION_READY_TO_LOWER"
         [] OTHER -> "none"

InCooldown(symbol, transition) == since[symbol, transition] < COOLDOWN

ObserverRealertAllowed(symbol, transition, confidence) ==
  /\ symbol \in Observers /\ transition = "WARM_TO_HOT"
  /\ last_confidence[symbol, transition] > 0
  /\ confidence >= last_confidence[symbol, transition] + DELTA

Triggers(symbol, transition, confidence) ==
  /\ transition # "none"
  /\ ~InCooldown(symbol, transition) \/ ObserverRealertAllowed(symbol, transition, confidence)

\* The tables are written before the message is sent, and stay written when
\* the sending fails.
Evaluate(symbol, transition, confidence) ==
  IF Triggers(symbol, transition, confidence)
  THEN /\ since' = [since EXCEPT ![<<symbol, transition>>] = 0]
       /\ last_confidence' = [last_confidence EXCEPT ![<<symbol, transition>>] = confidence]
  ELSE UNCHANGED alert_vars

\* What sending an alert can come to: Telegram switched off or without its
\* credentials, an answer, an answer that is no success, no answer in time.
Deliveries == {"off", "no_credentials", "accepted", "refused", "failed"}
SendTelegramAlert(delivery) == delivery = "accepted"

Older(minutes) ==
  since' = [k \in Symbols \X Transitions |->
              IF since[k] + minutes >= COOLDOWN THEN COOLDOWN ELSE since[k] + minutes]

-----------------------------------------------------------------------------
(* The monitor.                                                            *)

CONSTANTS
  Order,       \* the configured symbols in scan order
  INTERVAL,    \* minutes between two scans
  Bands,       \* the confidence bands a produced symbol can show
  Magnitudes,  \* how far an observed symbol has moved, in quarter percents
  MAX_SCANS    \* bound: scans of one behaviour

VARIABLES
  phase,     \* "down", "sleeping", "alerting", "journaling", "collecting"
  at,        \* position in Order of the symbol being handled
  scan,      \* scans begun so far
  blocked,   \* this scan: the risk governor blocks trading
  locked,    \* this scan: some event's news lock is active
  result,    \* this scan: what each symbol showed
  previous,  \* previous_states, "none" before the first sight
  before,    \* history: the state each symbol showed one scan ago
  told,      \* history: symbols the last message that arrived called ready
  excused    \* history: symbols of whose readiness he had no way to hear

\* A scan handles every symbol once.
ASSUME MonitorAssumption ==
  /\ Observers \subseteq Symbols /\ Bands \subseteq States
  /\ Order \in Seq(Symbols) /\ Order # <<>>
  /\ \A s \in Symbols : \E i \in 1..Len(Order) : Order[i] = s
  /\ \A i, j \in 1..Len(Order) : Order[i] = Order[j] => i = j

monitor_vars == <<phase, at, scan, blocked, locked, result, previous, before, told,
                  excused, since, last_confidence>>

Producers == Symbols \ Observers
NoState == "none"

\* BTCObserver.classify: the score follows the move, the state its thresholds.
Classify(move) ==
  LET score == 35 + (10 * move) \div 4
  IN [state |-> IF move >= 8 THEN "HOT" ELSE IF move >= 3 THEN "WARM" ELSE "COLD",
      score |-> IF score > 80 THEN 80 ELSE IF score < 20 THEN 20 ELSE score,
      available |-> TRUE]

Unavailable == [state |-> "UNAVAILABLE", score |-> 0, available |-> FALSE]

\* Between scans nothing of the last one is held but what previous_states keeps.
NoResult == [s \in Symbols |-> [state |-> NoState, score |-> 0, available |-> FALSE]]

\* BTCObserver.observe: whatever it fails on leaves the symbol unavailable.
ObserverSees == {Classify(m) : m \in Magnitudes} \cup {Unavailable}

\* The score of a symbol that is not observed plays no part in alerting.
Results(symbol) ==
  IF symbol \in Observers THEN ObserverSees
  ELSE [state : Bands, score : {0}, available : {TRUE}] \cup {Unavailable}

Init ==
  /\ AlertInit
  /\ phase = "sleeping" /\ at = 1 /\ scan = 0
  /\ blocked = FALSE /\ locked = FALSE
  /\ result = NoResult
  /\ previous = [s \in Symbols |-> NoState]
  /\ before = [s \in Symbols |-> NoState]
  /\ told = {} /\ excused = {}

\* scan_once up to detect_alerts.  A governor that cannot read the account
\* counts as blocked; a symbol whose analysis raises is unavailable; the news
\* lock asked for names no symbol, so any event's window locks all of them.  A lock
\* under a block changes nothing, so the two are never drawn together.
Assess ==
  /\ phase = "sleeping" /\ scan < MAX_SCANS
  /\ \E b, l \in BOOLEAN : ~(b /\ l) /\ blocked' = b /\ locked' = l
  /\ \E r \in [Symbols -> UNION {Results(s) : s \in Symbols}] :
       /\ \A s \in Symbols : r[s] \in Results(s)
       /\ result' = r
  /\ scan' = scan + 1
  /\ phase' = "alerting" /\ at' = 1
  /\ UNCHANGED <<previous, before, told, excused, since, last_confidence>>

\* The moves an alert is meant for, named as the cooldown names them.
Rungs ==
  {[from |-> "HOT", to |-> "EXECUTION_READY", name |-> "HOT_TO_EXECUTION_READY"]}
    \cup [from : {"EXECUTION_READY"}, to : {"HOT", "WARM", "COLD"}, name : {"EXECUTION_READY_TO_LOWER"}]

\* What keeps the operator from hearing of symbol's state, if anything does:
\* this process never saw the symbol before, a block or a lock hides the
\* change, it is no rung, a like alert just went out, or Telegram is down.
Unheard(symbol, sent) ==
  \/ before[symbol] = NoState
  \/ blocked \/ locked
  \/ ~sent
  \/ \A r \in Rungs : (r.from = before[symbol] /\ r.to = result[symbol].state) =>
                       since[symbol, r.name] < COOLDOWN

Ready(state) == state = "EXECUTION_READY"

\* detect_alerts for one symbol: the new state is remembered first, whatever
\* the alert engine then decides, and the message goes out at once.
Alert ==
  /\ phase = "alerting"
  /\ LET symbol == Order[at]
         now == result[symbol]
         transition == DetectTransition(previous[symbol], now.state, blocked, locked)
         triggered == Triggers(symbol, transition, now.score)
     IN /\ previous' = [previous EXCEPT ![symbol] = now.state]
        /\ Evaluate(symbol, transition, now.score)
        /\ IF symbol \in Producers
           THEN \E sent \in {SendTelegramAlert(d) : d \in Deliveries} :
                  /\ told' = IF ~(triggered /\ sent) THEN told
                             ELSE IF Ready(now.state) THEN told \cup {symbol}
                             ELSE told \ {symbol}
                  /\ excused' = IF Ready(now.state) <=> symbol \in told' THEN excused \ {symbol}
                                ELSE IF Unheard(symbol, sent) THEN excused \cup {symbol}
                                ELSE excused
           ELSE UNCHANGED <<told, excused>>
  /\ IF at < Len(Order)
     THEN at' = at + 1 /\ phase' = phase
     ELSE at' = 1 /\ phase' = "journaling"
  /\ UNCHANGED <<scan, blocked, locked, result, before>>

\* write_journal_records: an append for each available symbol, each of which
\* may raise (Die).
Journal ==
  /\ phase = "journaling"
  /\ IF at < Len(Order)
     THEN at' = at + 1 /\ phase' = phase
     ELSE at' = 1 /\ phase' = "collecting"
  /\ UNCHANGED <<scan, blocked, locked, result, previous, before, told, excused, since, last_confidence>>

\* The collector's failure is swallowed; printing is output only.
Collect ==
  /\ phase = "collecting"
  /\ phase' = "sleeping"
  /\ Older(INTERVAL)
  /\ before' = [s \in Symbols |-> result[s].state]
  /\ result' = NoResult /\ blocked' = FALSE /\ locked' = FALSE
  /\ UNCHANGED <<at, scan, previous, told, excused, last_confidence>>

\* An append that raises ends the loop, as the operator's Ctrl-C or a crash
\* does at any point.
Die ==
  /\ phase \notin {"down", "sleeping"}
  /\ phase' = "down" /\ at' = 1
  /\ result' = NoResult /\ blocked' = FALSE /\ locked' = FALSE
  /\ UNCHANGED <<scan, previous, before, told, excused, since, last_confidence>>

\* A new process knows neither the states nor the alerts of the last one.
Restart ==
  /\ phase = "down" /\ scan < MAX_SCANS
  /\ phase' = "sleeping"
  /\ previous' = [s \in Symbols |-> NoState]
  /\ before' = [s \in Symbols |-> NoState]
  /\ since' = [k \in Symbols \X Transitions |-> COOLDOWN]
  /\ last_confidence' = [k \in Symbols \X Transitions |-> 0]
  /\ UNCHANGED <<at, scan, blocked, locked, result, told, excused>>

Next == Assess \/ Alert \/ Journal \/ Collect \/ Die \/ Restart

Spec == Init /\ [][Next]_monitor_vars

TypeOK ==
  /\ AlertTypeOK
  /\ phase \in {"down", "sleeping", "alerting", "journaling", "collecting"}
  /\ at \in 1..Len(Order) /\ scan \in 0..MAX_SCANS
  /\ blocked \in BOOLEAN /\ locked \in BOOLEAN
  /\ result = NoResult \/ \A s \in Symbols : result[s] \in Results(s)
  /\ previous \in [Symbols -> States \cup {NoState}]
  /\ told \subseteq Producers /\ excused \subseteq Producers

\* When a scan is over and the operator's last message disagrees with the
\* monitor on whether a symbol is ready for execution, then one of five things
\* kept him from hearing it: the process had never seen the symbol, a block or
\* a lock hid the change, the step was not on the ladder, a like alert was less
\* than COOLDOWN minutes old, or Telegram was out of reach.  The previous state
\* is overwritten before the alert is decided, so a change lost once is lost
\* for good.
SilenceHasCause ==
  phase = "sleeping" =>
    \A s \in Producers :
      previous[s] = NoState \/ (Ready(previous[s]) <=> s \in told) \/ s \in excused
=============================================================================
