-------------------------- MODULE RiskState_proofs --------------------------
(***************************************************************************)
(* Proofs about RiskState, for every set of equities, every limit and any    *)
(* number of restarts and unreadable files.                                 *)
(*                                                                          *)
(* Three strengthenings carry them.  Attempt: what is known of the failure   *)
(* counter and of the observation while an order attempt is under way.       *)
(* Days: the file, read through load, agrees with what was really observed   *)
(* today.  Tripwire: each counted trade can hide at most two uncounted fills *)
(* before it and each restart at most three; an execution the broker did not *)
(* report is beyond the count.                                               *)
(***************************************************************************)
EXTENDS RiskState, TLAPS

Attempt ==
  /\ pc # "idle" => count_failures < 3
  /\ pc = "observed" /\ misreads = 0 => seen.peak = highest

Days ==
  misreads = 0 =>
    /\ Load.daily_start_equity = first_today
    /\ first_today # None => Load.last_equity # None

Tripwire ==
  misreads = 0 =>
    /\ opens <= 3 * Load.trades + count_failures + 3 * restarts + unreported
    /\ Load.trades <= MAX_TRADES_PER_DAY
    /\ Load.trades = MAX_TRADES_PER_DAY => count_failures = 0
    /\ pc = "allowed" => Load.trades < MAX_TRADES_PER_DAY

RiskInv == TypeOK /\ Attempt /\ PeakIsHighest /\ Days /\ Tripwire

-----------------------------------------------------------------------------
(* The operators of the store.                                              *)

LEMMA LoadType ==
  ASSUME TypeOK
  PROVE  /\ Load \in States
         /\ Load.peak_equity = file.peak_equity
         /\ Load.trades = IF today THEN file.trades ELSE 0
         /\ Load.daily_start_equity = IF today THEN file.daily_start_equity ELSE None
         /\ Load.last_equity = IF today THEN file.last_equity ELSE None
BY DEF TypeOK, Load, NewDay, States, None

LEMMA ObservedType ==
  ASSUME NEW st \in States, NEW e \in Equities
  PROVE  /\ Observed(st, e) \in States
         /\ Observed(st, e).trades = st.trades
         /\ Observed(st, e).last_equity = e
         /\ Observed(st, e).daily_start_equity = OrElse(st.daily_start_equity, e)
         /\ Observed(st, e).peak_equity = Higher(st.peak_equity, e)
<1> USE RiskStateAssumption DEF States, None
<1>1. Higher(OrElse(st.peak_equity, e), e) = Higher(st.peak_equity, e)
  BY DEF Higher, OrElse
<1>2. Higher(st.peak_equity, e) \in Equities \cup {None}
  BY DEF Higher
<1>3. QED
  BY <1>1, <1>2 DEF Observed, OrElse

\* The rounded percentages are integers.
LEMMA LossType ==
  ASSUME NEW from \in Nat, NEW to \in Nat
  PROVE  Loss(from, to) \in Int
<1>1. CASE from <= to
  BY <1>1 DEF Loss
<1>2. CASE ~(from <= to)
  <2>1. 2 * from \in Nat /\ 2 * from > 0 /\ 20000 * (from - to) + from \in Int
    BY <1>2
  <2>2. Percent(from - to, from) \in Int
    BY <2>1 DEF Percent
  <2>3. QED
    BY <1>2, <2>2 DEF Loss
<1>3. QED
  BY <1>1, <1>2

-----------------------------------------------------------------------------
(* The inductive invariant.                                                 *)

LEMMA RiskInit == Init => RiskInv
<1> SUFFICES ASSUME Init PROVE RiskInv
  OBVIOUS
<1> USE RiskStateAssumption DEF Init
<1>1. TypeOK
  <2>1. DefaultState \in States
    BY DEF States, DefaultState, None
  <2>2. /\ None \in Equities \cup {None}
        /\ 0 \in Nat /\ 0 \in 0..3 /\ 0 \in 0..MAX_RESTARTS /\ 0 \in 0..MAX_MISREADS
        /\ 0 \in 0..MAX_UNREPORTED
        /\ COOLDOWN \in 0..COOLDOWN
    OBVIOUS
  <2>3. seen \in [equity : Equities \cup {None}, peak : Equities \cup {None}]
    BY <2>2
  <2>4. QED
    BY <2>1, <2>2, <2>3 DEF TypeOK
<1>2. Attempt /\ PeakIsHighest
  BY DEF Attempt, PeakIsHighest, DefaultState
<1>3. Load.daily_start_equity = None /\ Load.trades = 0
  BY <1>1, LoadType
<1>4. QED
  BY <1>1, <1>2, <1>3 DEF RiskInv, Days, Tripwire

\* An observation, of the heartbeat or of an attempt.
LEMMA ObservationStep ==
  ASSUME RiskInv,
         SaveFile(Observed(Load, equity)), Witness(equity),
         UNCHANGED <<production, equity, since_loss, count_failures>>,
         \/ pc' = pc /\ pc = "idle" /\ seen' = seen
         \/ pc' = "observed" /\ count_failures < 3
            /\ seen' = [equity |-> equity, peak |-> file'.peak_equity]
  PROVE  RiskInv'
<1> USE RiskStateAssumption DEF RiskInv, SaveFile, Witness, None
<1>1. Load \in States /\ equity \in Equities
  BY LoadType DEF TypeOK
<1>2. /\ file' \in States /\ today'
      /\ file'.trades = Load.trades
      /\ file'.last_equity = equity
      /\ file'.daily_start_equity = OrElse(Load.daily_start_equity, equity)
      /\ file'.peak_equity = Higher(file.peak_equity, equity)
  BY <1>1, ObservedType, LoadType
<1>3. highest' \in Equities \cup {None} /\ first_today' \in Equities \cup {None}
  BY DEF TypeOK, Higher, OrElse
<1>4. seen' \in [equity : Equities \cup {None}, peak : Equities \cup {None}]
  BY <1>2 DEF TypeOK, States
<1>5. TypeOK'
  BY <1>2, <1>3, <1>4 DEF TypeOK
<1>6. Load'.trades = Load.trades /\ Load'.daily_start_equity = file'.daily_start_equity
      /\ Load'.last_equity = equity
  BY <1>2, <1>5 DEF Load
<1>7. PeakIsHighest'
  BY <1>2 DEF PeakIsHighest
<1>8. Attempt'
  BY <1>7 DEF Attempt, PeakIsHighest
<1>9. Days'
  BY <1>1, <1>2, <1>6 DEF Days
<1>10. Tripwire'
  BY <1>6 DEF Tripwire
<1>11. QED
  BY <1>5, <1>7, <1>8, <1>9, <1>10

LEMMA RiskStep ==
  ASSUME RiskInv, [Next]_vars
  PROVE  RiskInv'
<1> USE RiskStateAssumption DEF RiskInv, ghosts
<1>0. production' = production /\ production \in BOOLEAN
  BY DEF Next, vars, TypeOK
<1>1. CASE Observe
  BY <1>0, <1>1, ObservationStep DEF Observe
<1>2. CASE Ask
  BY <1>0, <1>2, ObservationStep DEF Ask, CountingWorks
<1>3. CASE Misread
  <2>1. misreads' # 0
    BY <1>3 DEF Misread, TypeOK
  <2>2. TypeOK'
    BY <1>0, <1>3 DEF Misread, TypeOK, States, DefaultState, None
  <2>3. QED
    BY <1>3, <2>1, <2>2 DEF Misread, Attempt, PeakIsHighest, Days, Tripwire
<1>4. ASSUME NEW pnl \in {-1, 0, 1}, NEW risk \in PlannedRisks,
             RecordTradeClosed(pnl, risk)
      PROVE  RiskInv'
  <2>1. Load \in States
    BY LoadType
  <2>2. /\ today' /\ file' \in States
        /\ file'.trades = Load.trades /\ file'.peak_equity = Load.peak_equity
        /\ file'.daily_start_equity = Load.daily_start_equity
        /\ file'.last_equity = Load.last_equity
    <3> DEFINE streak == CASE pnl < 0 -> Load.losses + 1
                           [] pnl > 0 -> 0
                           [] OTHER -> Load.losses
               reserved == Higher(Load.planned - risk, 0)
    <3>1. file' = [Load EXCEPT !.losses = streak, !.planned = reserved]
          /\ file'.losses <= MAX_LOSSES /\ today'
      BY <1>4 DEF RecordTradeClosed, SaveFile
    <3>2. /\ Load.losses \in 0..MAX_LOSSES /\ Load.planned \in 0..MAX_RESERVED
          /\ risk \in Nat
      BY <2>1 DEF States
    <3>3. streak \in Nat /\ reserved \in 0..MAX_RESERVED
      BY <3>2 DEF Higher
    <3>4. streak \in 0..MAX_LOSSES
      <4>1. file'.losses = streak
        BY <2>1, <3>1 DEF States
      <4>2. QED
        BY <3>1, <3>3, <4>1
    <3> HIDE DEF streak, reserved
    <3>5. QED
      BY <2>1, <3>1, <3>3, <3>4 DEF States
  <2>3. TypeOK'
    BY <1>0, <1>4, <2>2 DEF RecordTradeClosed, TypeOK
  <2>4. Load' = file'
    BY <2>2 DEF Load
  <2>5. file'.peak_equity = file.peak_equity
    BY <2>2, LoadType
  <2>6. QED
    BY <1>4, <2>2, <2>3, <2>4, <2>5
    DEF RecordTradeClosed, Attempt, PeakIsHighest, Days, Tripwire
<1>5. CASE Decide
  <2>1. Load' = Load
    BY <1>5 DEF Decide, Load
  <2>2. pc' = "allowed" => Load.trades < MAX_TRADES_PER_DAY
    BY <1>5, LoadType DEF Decide, TradeAllowed, CountBlock, RuntimeState, States
  <2>3. TypeOK'
    BY <1>0, <1>5 DEF Decide, TypeOK
  <2>4. QED
    BY <1>5, <2>1, <2>2, <2>3 DEF Decide, Attempt, PeakIsHighest, Days, Tripwire
<1>6. ASSUME NEW risk \in PlannedRisks, FillCounted(risk)
      PROVE  RiskInv'
  <2>1. Load \in States
    BY LoadType
  <2>2. /\ today' /\ file' \in States
        /\ file'.trades = Load.trades + 1 /\ file'.peak_equity = Load.peak_equity
        /\ file'.daily_start_equity = Load.daily_start_equity
        /\ file'.last_equity = Load.last_equity
    <3>1. /\ file' = [Load EXCEPT !.trades = Load.trades + 1,
                                  !.planned = Load.planned + risk]
          /\ today' /\ Load.planned + risk <= MAX_RESERVED
      BY <1>6 DEF FillCounted, SaveFile, Counted
    <3>2. Load.trades + 1 \in Nat /\ Load.planned + risk \in 0..MAX_RESERVED
      BY <2>1, <3>1 DEF States
    <3>3. QED
      BY <2>1, <3>1, <3>2 DEF States
  <2>3. TypeOK'
    BY <1>0, <1>6, <2>2 DEF FillCounted, TypeOK
  <2>4. Load' = file'
    BY <2>2 DEF Load
  <2>5. file'.peak_equity = file.peak_equity
    BY <2>2, LoadType
  <2>6. Tripwire'
    <3>1. count_failures \in 0..2 /\ Load.trades \in Nat /\ opens \in Nat /\ restarts \in Nat
          /\ unreported \in Nat
      BY <1>6, <2>1 DEF FillCounted, Attempt, TypeOK, States
    <3>2. opens' = opens + 1 /\ count_failures' = 0 /\ restarts' = restarts
          /\ misreads' = misreads /\ unreported' = unreported
          /\ pc' = "idle" /\ pc = "allowed"
      BY <1>6 DEF FillCounted
    <3>3. QED
      BY <2>2, <2>4, <3>1, <3>2 DEF Tripwire
  <2>7. QED
    BY <1>6, <2>2, <2>3, <2>4, <2>5, <2>6
    DEF FillCounted, Attempt, PeakIsHighest, Days
<1>7. CASE FillUncounted
  <2>1. Load' = Load
    BY <1>7 DEF FillUncounted, Load
  <2>2. TypeOK'
    BY <1>0, <1>7 DEF FillUncounted, TypeOK, Attempt
  <2>3. Load.trades \in Nat
    BY LoadType DEF States
  <2>4. Tripwire'
    BY <1>7, <2>1, <2>3 DEF FillUncounted, Tripwire, TypeOK
  <2>5. QED
    BY <1>7, <2>1, <2>2, <2>4 DEF FillUncounted, Attempt, PeakIsHighest, Days
<1>8. CASE NotFilled
  <2>1. Load' = Load
    BY <1>8 DEF NotFilled, Load
  <2>2. QED
    BY <1>0, <1>8, <2>1 DEF NotFilled, TypeOK, Attempt, PeakIsHighest, Days, Tripwire
<1>9. CASE Restart
  <2>1. Load' = Load
    BY <1>9 DEF Restart, Load
  <2>2. TypeOK'
    BY <1>0, <1>9 DEF Restart, TypeOK
  <2>3. Load.trades \in Nat
    BY LoadType DEF States
  <2>4. Tripwire'
    BY <1>9, <2>1, <2>3 DEF Restart, Tripwire, TypeOK, Attempt
  <2>5. QED
    BY <1>9, <2>1, <2>2, <2>4 DEF Restart, Attempt, PeakIsHighest, Days
<1>10. CASE EquityMoves \/ Tick
  <2>1. Load' = Load
    BY <1>10 DEF EquityMoves, Tick, Load
  <2>2. TypeOK'
    BY <1>0, <1>10 DEF EquityMoves, Tick, TypeOK
  <2>3. QED
    BY <1>10, <2>1, <2>2 DEF EquityMoves, Tick, Attempt, PeakIsHighest, Days, Tripwire
<1>11. CASE Midnight
  <2>1. TypeOK'
    <3>1. restarts' \in 0..MAX_RESTARTS /\ first_today' \in Equities \cup {None}
          /\ opens' \in Nat /\ unreported' \in 0..MAX_UNREPORTED
      BY <1>11 DEF Midnight
    <3>2. QED
      BY <1>0, <1>11, <3>1 DEF Midnight, TypeOK
  <2>2. Load'.trades = 0 /\ Load'.daily_start_equity = None
    BY <1>11, <2>1 DEF Midnight, Load, NewDay, TypeOK, States
  <2>3. Load.trades \in Nat
    BY LoadType DEF States
  <2>4. QED
    BY <1>11, <2>1, <2>2, <2>3
    DEF Midnight, Attempt, PeakIsHighest, Days, Tripwire, TypeOK
<1>12. CASE UNCHANGED vars
  BY <1>12 DEF vars, TypeOK, Attempt, PeakIsHighest, Days, Tripwire, Load
<1>13. CASE FilledUnreported
  <2>1. Load' = Load
    BY <1>13 DEF FilledUnreported, Load
  <2>2. TypeOK'
    BY <1>0, <1>13 DEF FilledUnreported, TypeOK
  <2>3. Load.trades \in Nat
    BY LoadType DEF States
  <2>4. Tripwire'
    BY <1>13, <2>1, <2>3 DEF FilledUnreported, Tripwire, TypeOK
  <2>5. QED
    BY <1>13, <2>1, <2>2, <2>4 DEF FilledUnreported, Attempt, PeakIsHighest, Days
<1>14. QED
  BY <1>1, <1>2, <1>3, <1>4, <1>5, <1>6, <1>7, <1>8, <1>9, <1>10, <1>11, <1>12, <1>13
  DEF Next

LEMMA RiskInvariant == Spec => []RiskInv
BY RiskInit, RiskStep, PTL DEF Spec

-----------------------------------------------------------------------------
(* The theorems.                                                            *)

\* Every variable has its type; the failure counter never passes three.
THEOREM TypeCorrect == Spec => []TypeOK
<1>1. RiskInv => TypeOK
  BY DEF RiskInv
<1>2. QED
  BY <1>1, RiskInvariant, PTL

\* The peak on file is the highest equity ever observed.
THEOREM Peak == Spec => []PeakIsHighest
<1>1. RiskInv => PeakIsHighest
  BY DEF RiskInv
<1>2. QED
  BY <1>1, RiskInvariant, PTL

\* The runaway-loop tripwire bounds the fills of a day, however often the count
\* fails and the process restarts, but for the executions the broker did not
\* report as DONE, which it cannot see.
THEOREM Opens == Spec => []OpensBounded
<1>1. ASSUME RiskInv PROVE OpensBounded
  <2>1. Load.trades \in Nat
    BY <1>1, LoadType DEF RiskInv, States
  <2>2. QED
    BY <1>1, <2>1, RiskStateAssumption DEF RiskInv, Tripwire, OpensBounded, TypeOK
<1>2. QED
  BY <1>1, RiskInvariant, PTL

\* No order is allowed past the drawdown limit from the all-time peak or past
\* the daily loss limit from the day's first equity.
THEOREM Limits == Spec => NoOpenPastLimits
<1> DEFINE Kept ==
      (pc = "observed" /\ pc' = "allowed" /\ misreads = 0) =>
        /\ Loss(highest, seen.equity) < INTERNAL_DRAWDOWN
        /\ first_today # None => Loss(first_today, file.last_equity) < DAILY_LOSS
        /\ first_today = None => ~production
<1>1. ASSUME RiskInv, [Next]_vars PROVE [Kept]_vars
  <2>1. SUFFICES ASSUME pc = "observed", pc' = "allowed", misreads = 0, Next
                 PROVE  Kept
    BY <1>1
  <2>2. Decide /\ TradeAllowed(RuntimeState(Load))
    BY <2>1 DEF Next, Observe, Misread, RecordTradeClosed, FillCounted, Ask, Decide,
       FillUncounted, FilledUnreported, NotFilled, Restart, EquityMoves, Tick, Midnight
  <2>3. seen.peak = highest
    BY <1>1, <2>1 DEF RiskInv, Attempt
  <2>4. /\ highest \in Nat /\ seen.equity \in Nat
        /\ first_today \in Nat /\ file.last_equity \in Nat
    <3>1. Equities \cup {None} \subseteq Nat
      BY RiskStateAssumption DEF None
    <3>2. TypeOK
      BY <1>1 DEF RiskInv
    <3>3. QED
      BY <3>1, <3>2 DEF TypeOK, States
  <2>5. Loss(highest, seen.equity) < INTERNAL_DRAWDOWN
    <3>1. Loss(highest, seen.equity) \in Int
      BY <2>4, LossType
    <3>2. QED
      BY <2>2, <2>3, <3>1, RiskStateAssumption DEF TradeAllowed, DrawdownBlock
  <2>6. CASE first_today = None
    <3>1. ~DailyVerified(Load)
      BY <1>1, <2>1, <2>6 DEF RiskInv, Days, DailyVerified
    <3>2. QED
      BY <2>2, <2>5, <2>6, <3>1 DEF TradeAllowed, DailyLossBlock, RuntimeState
  <2>7. CASE first_today # None
    <3>1. Load.daily_start_equity = first_today /\ Load.last_equity # None
      BY <1>1, <2>1, <2>7 DEF RiskInv, Days
    <3>2. Load.last_equity = file.last_equity
      BY <1>1, <3>1, LoadType DEF RiskInv
    <3>3. Loss(first_today, file.last_equity) \in Int
      BY <2>4, LossType
    <3>4. ~(Loss(first_today, file.last_equity) >= DAILY_LOSS)
      BY <2>2, <2>7, <3>1, <3>2 DEF TradeAllowed, DailyLossBlock, RuntimeState, DailyVerified
    <3>5. QED
      BY <2>5, <2>7, <3>3, <3>4, RiskStateAssumption
  <2>8. QED
    BY <2>6, <2>7
<1>2. QED
  BY <1>1, RiskInvariant, PTL DEF Spec, NoOpenPastLimits

=============================================================================
