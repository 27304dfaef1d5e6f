----------------------------- MODULE RiskState -----------------------------
(***************************************************************************)
(* The risk gate in front of every live order: RiskStateStore, the file of  *)
(* daily counters (backend/risk_manager/risk_state_store.py), the limits    *)
(* RiskGovernor.evaluate applies to it (risk_governor.py), and the part of  *)
(* DemoOrderExecutor that asks before an order and counts after a fill      *)
(* (open_allowed and _count_open).                                          *)
(*                                                                          *)
(* An order attempt is not atomic: the governor folds the account into the  *)
(* file, loads the file again for the counters, decides, the order goes     *)
(* out, and only then is the fill counted, in a file write that may fail.   *)
(* The broker may execute an order and not answer DONE: then nobody counts. *)
(* Midnight, a restart or a heartbeat's own observation can fall between.   *)
(*                                                                          *)
(* Abstractions.  Equity is a small natural number; a percentage is kept in *)
(* hundredths, rounded as the code rounds it.  The stored date is kept as   *)
(* "is it today's".  The time since the last loss is counted up to the      *)
(* cooldown.  starting_balance, realized_daily_pnl and the advisory risk    *)
(* percent decide nothing here and are left out.                            *)
(***************************************************************************)
EXTENDS Integers

CONSTANTS
  Equities,                 \* equity readings
  PlannedRisks,             \* planned risk percents of a caller
  INTERNAL_DRAWDOWN,        \* drawdown and loss limits, 1/100 of a percent
  FIRM_DRAWDOWN,
  DAILY_LOSS,
  MAX_TRADES_PER_DAY,
  MAX_CONSECUTIVE_LOSSES,
  COOLDOWN,                 \* minutes, in the unit of Tick
  MAX_PLANNED,              \* max_total_open_planned_risk_percent
  MAX_RESTARTS,             \* bound: restarts in one day
  MAX_UNREPORTED,           \* bound: orders of a day executed without DONE
  MAX_MISREADS,             \* bound: unreadable files in a behaviour
  MAX_LOSSES,               \* bound: the loss streak
  MAX_RESERVED              \* bound: the planned risk reserved

ASSUME RiskStateAssumption ==
  /\ Equities \subseteq Nat \ {0} /\ PlannedRisks \subseteq Nat
  /\ INTERNAL_DRAWDOWN \in Nat /\ FIRM_DRAWDOWN \in Nat /\ DAILY_LOSS \in Nat
  /\ MAX_TRADES_PER_DAY \in Nat /\ MAX_CONSECUTIVE_LOSSES \in Nat
  /\ COOLDOWN \in Nat /\ MAX_PLANNED \in Nat
  /\ MAX_RESTARTS \in Nat /\ MAX_UNREPORTED \in Nat /\ MAX_MISREADS \in Nat
  /\ MAX_LOSSES \in Nat /\ MAX_RESERVED \in Nat

VARIABLES
  production,      \* environment_mode = "production": a setting, never changed
  equity,          \* the account's equity
  file,            \* risk_state.json
  today,           \* its state_date is the current WAT date
  since_loss,      \* time since last_loss_time, COOLDOWN when long ago
  pc,              \* the order attempt: "idle", "observed", "allowed"
  seen,            \* the equity and peak of this attempt's observation
  count_failures   \* DemoOrderExecutor._count_failures

\* Kept for the properties only: the highest equity ever observed, the first
\* one observed today, the fills of today and those of them that the broker did
\* not report as DONE, the restarts of today, the unreadable files.
VARIABLES highest, first_today, opens, unreported, restarts, misreads

ghosts == <<highest, first_today, opens, unreported, restarts, misreads>>
vars == <<production, equity, file, today, since_loss, pc, seen, count_failures,
          highest, first_today, opens, unreported, restarts, misreads>>

None == 0         \* JSON null of an equity field; no account has equity 0

\* DEFAULT_STATE.
DefaultState ==
  [peak_equity |-> None, daily_start_equity |-> None, last_equity |-> None,
   trades |-> 0, losses |-> 0, planned |-> 0]

States ==
  [peak_equity : Equities \cup {None}, daily_start_equity : Equities \cup {None},
   last_equity : Equities \cup {None},
   trades : Nat, losses : 0..MAX_LOSSES, planned : 0..MAX_RESERVED]

TypeOK ==
  /\ production \in BOOLEAN
  /\ equity \in Equities
  /\ file \in States
  /\ today \in BOOLEAN
  /\ since_loss \in 0..COOLDOWN
  /\ pc \in {"idle", "observed", "allowed"}
  /\ seen \in [equity : Equities \cup {None}, peak : Equities \cup {None}]
  /\ count_failures \in 0..3
  /\ highest \in Equities \cup {None}
  /\ first_today \in Equities \cup {None}
  /\ opens \in Nat /\ unreported \in 0..MAX_UNREPORTED
  /\ restarts \in 0..MAX_RESTARTS /\ misreads \in 0..MAX_MISREADS

Init ==
  /\ production \in BOOLEAN
  /\ equity \in Equities
  /\ file = DefaultState /\ today = FALSE /\ since_loss = COOLDOWN
  /\ pc = "idle" /\ seen = [equity |-> None, peak |-> None]
  /\ count_failures = 0
  /\ highest = None /\ first_today = None
  /\ opens = 0 /\ unreported = 0 /\ restarts = 0 /\ misreads = 0

-----------------------------------------------------------------------------
(* The store.                                                               *)

ForgetsPeak(st) ==
  [st EXCEPT !.trades = 0, !.daily_start_equity = None, !.last_equity = None,
             !.peak_equity = None]
\* rollover: the day's counters go, the peak and the loss streak stay.
NewDay(st) ==
  [st EXCEPT !.trades = 0, !.daily_start_equity = None, !.last_equity = None]

\* load: the persisted state, rolled over to the current day.
Load == IF today THEN file ELSE NewDay(file)

OrElse(x, y) == IF x = None THEN y ELSE x
Higher(x, y) == IF x > y THEN x ELSE y

\* observe_account on the loaded state.
Observed(st, e) ==
  [st EXCEPT !.daily_start_equity = OrElse(@, e),
             !.last_equity = e,
             !.peak_equity = Higher(OrElse(@, e), e)]

\* Every mutator loads, changes and saves: the saved date is today's.
SaveFile(st) == file' = st /\ today' = TRUE

\* What an observation tells the ghosts.
Witness(e) ==
  /\ highest' = Higher(highest, e)
  /\ first_today' = OrElse(first_today, e)
  /\ UNCHANGED <<opens, unreported, restarts, misreads>>

\* The engine's heartbeat observes the account every cycle; the engine is one
\* thread, so never inside an order attempt.
Observe ==
  /\ pc = "idle"
  /\ SaveFile(Observed(Load, equity))
  /\ Witness(equity)
  /\ UNCHANGED <<equity, since_loss, pc, seen, count_failures>>

\* record_trade_closed: a loss extends the streak and restarts the cooldown, a
\* win ends the streak, a flat close leaves it; the reservation is released,
\* never below zero.
RecordTradeClosed(pnl, risk) ==
  /\ pc = "idle"
  /\ SaveFile([Load EXCEPT
        !.losses = CASE pnl < 0 -> @ + 1 [] pnl > 0 -> 0 [] OTHER -> @,
        !.planned = Higher(@ - risk, 0)])
  /\ file'.losses <= MAX_LOSSES
  /\ since_loss' = IF pnl < 0 THEN 0 ELSE since_loss
  /\ UNCHANGED <<equity, pc, seen, count_failures, ghosts>>

\* load on a corrupt file starts fresh, and the next mutator saves that.
Misread ==
  /\ misreads < MAX_MISREADS
  /\ misreads' = misreads + 1
  /\ file' = DefaultState
  /\ since_loss' = COOLDOWN
  /\ UNCHANGED <<equity, today, pc, seen, count_failures,
                 highest, first_today, opens, unreported, restarts>>

-----------------------------------------------------------------------------
(* The governor.                                                            *)

\* round(part / whole * 100, 2), in hundredths.
Percent(part, whole) == (20000 * part + whole) \div (2 * whole)
Loss(from, to) == IF from <= to THEN 0 ELSE Percent(from - to, from)

\* get_daily_loss_percent: verified only after an observation of today.
DailyVerified(st) == st.daily_start_equity # None /\ st.last_equity # None

\* evaluate_blocks, on the counters of the second load and on the equity and
\* peak of the observation.
DrawdownBlockIgnored == FALSE
DrawdownBlock ==
  \/ Loss(seen.peak, seen.equity) >= INTERNAL_DRAWDOWN
  \/ Loss(seen.peak, seen.equity) >= FIRM_DRAWDOWN

\* runtime_state: the loaded counters as evaluate is given them.
RuntimeState(st) ==
  [trades |-> st.trades, losses |-> st.losses, planned |-> st.planned,
   verified |-> DailyVerified(st), daily_loss |-> Loss(st.daily_start_equity, st.last_equity)]

DailyLossBlock(runtime) ==
  IF runtime.verified THEN runtime.daily_loss >= DAILY_LOSS ELSE production

\* get_limits: the last loss is not long enough ago.
CooldownActive == since_loss < COOLDOWN

CountBlock(runtime) ==
  \/ runtime.trades >= MAX_TRADES_PER_DAY
  \/ runtime.losses >= MAX_CONSECUTIVE_LOSSES
  \/ CooldownActive
  \/ runtime.planned > MAX_PLANNED

TradeAllowed(runtime) == ~DrawdownBlock /\ ~DailyLossBlock(runtime) /\ ~CountBlock(runtime)

-----------------------------------------------------------------------------
(* The executor's order attempt.                                            *)

CountingNeverFailsClosed == TRUE
\* After three uncounted fills in a row the executor stays closed.
CountingWorks == count_failures < 3

\* open_allowed begins: evaluate reads the account and observes it.
Ask ==
  /\ pc = "idle"
  /\ CountingWorks
  /\ SaveFile(Observed(Load, equity))
  /\ seen' = [equity |-> equity, peak |-> file'.peak_equity]
  /\ pc' = "observed"
  /\ Witness(equity)
  /\ UNCHANGED <<equity, since_loss, count_failures>>

\* evaluate goes on: runtime_state loads the file a second time.
Decide ==
  /\ pc = "observed"
  /\ pc' = IF TradeAllowed(RuntimeState(Load)) THEN "allowed" ELSE "idle"
  /\ UNCHANGED <<equity, file, today, since_loss, seen, count_failures, ghosts>>

\* record_trade_opened: the trade is counted and its planned risk reserved
\* (the live book reserves 0.0).
Reserved(risk) == [Load EXCEPT !.planned = @ + risk]
Counted(risk) == [Load EXCEPT !.trades = @ + 1, !.planned = @ + risk]

\* The order fills and is counted.
FillCounted(risk) ==
  /\ pc = "allowed"
  /\ Load.planned + risk <= MAX_RESERVED
  /\ SaveFile(Counted(risk))
  /\ count_failures' = 0
  /\ opens' = opens + 1
  /\ pc' = "idle"
  /\ UNCHANGED <<equity, since_loss, seen, highest, first_today, unreported,
                 restarts, misreads>>

\* The order fills and the count raises: the file could not be written.
FillUncounted ==
  /\ pc = "allowed"
  /\ count_failures' = count_failures + 1
  /\ opens' = opens + 1
  /\ pc' = "idle"
  /\ UNCHANGED <<equity, file, today, since_loss, seen, highest, first_today,
                 unreported, restarts, misreads>>

\* The order is executed, wholly or in part, but order_send returns None or a
\* code other than DONE: open_position reports a rejection, so the fill is not
\* counted and does not count as a failed count either.
FilledUnreported ==
  /\ pc = "allowed"
  /\ unreported < MAX_UNREPORTED
  /\ unreported' = unreported + 1
  /\ opens' = opens + 1
  /\ pc' = "idle"
  /\ UNCHANGED <<equity, file, today, since_loss, seen, count_failures, highest,
                 first_today, restarts, misreads>>

\* The order is refused further down, or by the broker, and nothing is executed.
NotFilled ==
  /\ pc = "allowed"
  /\ pc' = "idle"
  /\ UNCHANGED <<equity, file, today, since_loss, seen, count_failures, ghosts>>

\* The process dies and comes back: the failure counter is its memory.  An
\* order that was allowed may have been filled, and then nobody counts it.
Restart ==
  /\ restarts < MAX_RESTARTS
  /\ restarts' = restarts + 1
  /\ opens' \in IF pc = "allowed" THEN {opens, opens + 1} ELSE {opens}
  /\ pc' = "idle"
  /\ count_failures' = 0
  /\ UNCHANGED <<equity, file, today, since_loss, seen, highest, first_today,
                 unreported, misreads>>

-----------------------------------------------------------------------------
(* The world.                                                               *)

EquityMoves ==
  /\ equity' \in Equities \ {equity}
  /\ UNCHANGED <<file, today, since_loss, pc, seen, count_failures, ghosts>>

Tick ==
  /\ since_loss < COOLDOWN
  /\ since_loss' = since_loss + 1
  /\ UNCHANGED <<equity, file, today, pc, seen, count_failures, ghosts>>

\* Midnight in Lagos, at any point of an order attempt: an order allowed before
\* it is counted on the new day.
Midnight ==
  /\ today' = FALSE
  /\ first_today' = None
  /\ opens' = 0
  /\ unreported' = 0
  /\ restarts' = 0
  /\ UNCHANGED <<equity, file, since_loss, pc, seen, count_failures,
                 highest, misreads>>

Next ==
  /\ UNCHANGED production
  /\ \/ Observe \/ Misread
     \/ \E pnl \in {-1, 0, 1}, risk \in PlannedRisks : RecordTradeClosed(pnl, risk)
     \/ \E risk \in PlannedRisks : FillCounted(risk)
     \/ Ask \/ Decide \/ FillUncounted \/ FilledUnreported \/ NotFilled
     \/ Restart \/ EquityMoves \/ Tick \/ Midnight

Spec == Init /\ [][Next]_vars

-----------------------------------------------------------------------------
(* Properties.                                                              *)

\* Drawdown is measured from the highest equity ever observed: no rollover, no
\* restart and no interleaving of the heartbeat with an order attempt lowers or
\* resets the peak on file; only an unreadable file does.
PeakIsHighest == misreads = 0 => file.peak_equity = highest

\* The runaway-loop tripwire, with a count that may fail after any fill and a
\* supervisor that restarts the engine: on one day at most three fills per trade
\* of the daily cap, and three more per restart, because a restart forgets the
\* executor's failure counter.  What the tripwire does not see comes on top: an
\* order that was executed although the broker did not answer DONE is neither
\* counted nor a failed count, and no code limits how many there are.
OpensBounded ==
  misreads = 0 => opens <= 3 * (MAX_TRADES_PER_DAY + restarts) + unreported

\* No order is allowed at an equity that is past the internal drawdown limit
\* from the all-time peak, or past the daily loss limit from the first equity
\* seen today, unless midnight fell inside the decision (the daily figure is
\* then unverified, which blocks only in production).
NoOpenPastLimits ==
  [][ (pc = "observed" /\ pc' = "allowed" /\ misreads = 0) =>
        /\ Loss(highest, seen.equity) < INTERNAL_DRAWDOWN
        /\ first_today # None => Loss(first_today, file.last_equity) < DAILY_LOSS
        /\ first_today = None => ~production ]_vars
=============================================================================
