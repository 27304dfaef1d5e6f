---------------------------- MODULE PaperSession ----------------------------
(***************************************************************************)
(* execution_engine/paper_trade_session.py: one rehearsal of a trade, from  *)
(* the signal to the journal, over a scripted path of the price, with the   *)
(* position manager's own recommendations applied to a paper position.      *)
(*                                                                          *)
(* Abstractions.  The signal, its plan and its context are fixed in the     *)
(* code, so the checks can fail on the spread only.  The outcome is the one *)
(* the scenario's name stands for.  A scenario's R multiples are in units   *)
(* of RISK; 3.2 is rounded down to a unit of price.                         *)
(***************************************************************************)
EXTENDS PositionRules, Sequences

VARIABLES
  step,       \* "scanning", "approving", "open", "cancelled", "closed"
  scenario,
  walked,     \* how many prices of the path were walked
  sl,         \* session["sl"]
  taken,      \* session["actions_taken"]
  outcome,
  journal     \* the records written

vars == <<step, scenario, walked, sl, taken, outcome, journal>>

Path ==
  [A |-> <<0, RISK, 2 * RISK, (32 * RISK) \div 10>>,
   B |-> <<0, RISK, 0>>,
   C |-> <<0, -RISK>>]

TypeOK ==
  /\ step \in {"scanning", "approving", "open", "cancelled", "closed"}
  /\ scenario \in DOMAIN Path /\ walked \in 0..4
  /\ sl \in {InitialStop, 0}
  /\ taken \subseteq {"MOVE_SL_TO_BE", "PARTIAL_CLOSE", "TRAIL_STRUCTURE", "CLOSE_POSITION"}
  /\ outcome \in {"none", "READINESS_BLOCKED", "APPROVAL_REJECTED", "WIN", "BREAKEVEN", "LOSS"}
  /\ journal \in 0..1

Init ==
  /\ step = "scanning" /\ scenario \in DOMAIN Path /\ walked = 0
  /\ sl = InitialStop /\ taken = {} /\ outcome = "none" /\ journal = 0

RecordJournal == journal' = journal + 1

\* finish_blocked writes the journal too.
FinishBlocked(reason) ==
  /\ step' = "cancelled" /\ outcome' = reason
  /\ RecordJournal
  /\ UNCHANGED <<scenario, walked, sl, taken>>

\* build_context, whose spread is the only thing that varies in it, in points.
Context(readiness_blocked) ==
  [spread |-> IF readiness_blocked THEN 200 ELSE 20, max_spread |-> 80]

\* run, to the checks: the READINESS_BLOCKED scenario widens the spread.
Check(readiness_blocked) ==
  /\ step = "scanning"
  /\ IF Context(readiness_blocked).spread > Context(readiness_blocked).max_spread
     THEN FinishBlocked("READINESS_BLOCKED")
     ELSE step' = "approving" /\ UNCHANGED <<scenario, walked, sl, taken, outcome, journal>>

Approve(approved) ==
  /\ step = "approving"
  /\ IF approved
     THEN step' = "open" /\ UNCHANGED <<scenario, walked, sl, taken, outcome, journal>>
     ELSE FinishBlocked("APPROVAL_REJECTED")

Here == Path[scenario][walked + 1]

\* apply_lifecycle_actions: each kind of action once.
Applies(actions) == actions \ taken

\* One price of simulate_lifecycle.
Walk ==
  /\ step = "open" /\ walked < Len(Path[scenario])
  /\ LET actions == Recommended(Here, sl, TRUE, "PARTIAL_CLOSE" \in taken, FALSE)
         trail == IF Here >= 2 * RISK THEN {"TRAIL_STRUCTURE"} ELSE {}
     IN  /\ taken' = taken \cup Applies(actions) \cup trail
         /\ sl' = IF "MOVE_SL_TO_BE" \in Applies(actions) THEN 0 ELSE sl
  /\ walked' = walked + 1
  /\ UNCHANGED <<step, scenario, outcome, journal>>

\* close_session, and the journal.
OutcomeOf == [A |-> "WIN", B |-> "BREAKEVEN", C |-> "LOSS"]
Close ==
  /\ step = "open" /\ walked = Len(Path[scenario])
  /\ step' = "closed" /\ outcome' = OutcomeOf[scenario]
  /\ taken' = taken \cup {"CLOSE_POSITION"}
  /\ RecordJournal
  /\ UNCHANGED <<scenario, walked, sl>>

Next ==
  \/ \E b \in BOOLEAN : Check(b) \/ Approve(b)
  \/ Walk \/ Close

Spec == Init /\ [][Next]_vars

-----------------------------------------------------------------------------
\* The outcome a drill reports is scripted beside the path it walks.  It is the
\* one the manager's own actions lead to: the last price takes the stop where
\* those actions left it (a loss at the initial stop, breakeven at the entry), or
\* the trade ends above 3R; and every run, blocked or not, writes the journal once.
DrillOutcomeHonest ==
  /\ step \in {"cancelled", "closed"} <=> journal = 1
  /\ step = "closed" =>
       LET last == Path[scenario][walked] IN
         outcome = IF last > sl THEN "WIN" ELSE IF sl = 0 THEN "BREAKEVEN" ELSE "LOSS"
=============================================================================
