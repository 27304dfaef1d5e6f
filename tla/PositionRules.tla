---------------------------- MODULE PositionRules ----------------------------
(***************************************************************************)
(* What execution_engine/position_manager.py recommends for one position,   *)
(* as functions of the position it was given.                               *)
(*                                                                          *)
(* Prices lie on an axis that points in the trade's favour with the entry   *)
(* at 0, so a sell is a buy; a missing stop is FarStop.  R is compared      *)
(* exactly (the code rounds it to hundredths).                              *)
(***************************************************************************)
EXTENDS Integers

CONSTANTS
  RISK,        \* the initial stop's distance from the entry
  BUFFER       \* breakeven.buffer_points

InitialStop == -RISK
FarStop == -1000 * RISK   \* no stop at all: as far away as the entry price is

\* calculate_current_r against a threshold: distance is measured from the initial
\* stop if the context or the position tells it, else from the stop there is now.
\* No distance is 0R.
Reached(k, price, stop, initial_known) ==
  LET basis == IF initial_known THEN InitialStop ELSE stop
      distance == IF basis < 0 THEN -basis ELSE basis
  IN  distance > 0 /\ price >= k * distance

\* should_move_to_breakeven, to calculate_breakeven_price.
BeAtTwoR(price, stop, initial_known) ==
  Reached(2, price, stop, initial_known) /\ stop < BUFFER
BeWithoutComparing(price, stop, initial_known) == Reached(1, price, stop, initial_known)
ShouldMoveToBreakeven(price, stop, initial_known) ==
  Reached(1, price, stop, initial_known) /\ stop < BUFFER

\* should_take_partial; only the paper drill marks a position as partly closed.
ShouldTakePartial(price, stop, initial_known, partial_closed) ==
  ~partial_closed /\ Reached(2, price, stop, initial_known)

\* recommend_position_actions: one action of a kind at most, in the order of Rank.
Rank == [EARLY_EXIT_RECOMMENDED |-> 1, MOVE_SL_TO_BE |-> 2, PARTIAL_CLOSE |-> 3,
         TRAIL_STRUCTURE |-> 4, CANCEL_PENDING_ORDER |-> 5]
Recommended(price, stop, initial_known, partial_closed, efde_exit) ==
  {action \in DOMAIN Rank :
     \/ action = "EARLY_EXIT_RECOMMENDED" /\ efde_exit
     \/ action = "MOVE_SL_TO_BE" /\ ShouldMoveToBreakeven(price, stop, initial_known)
     \/ action = "PARTIAL_CLOSE" /\ ShouldTakePartial(price, stop, initial_known, partial_closed)
     \/ action = "TRAIL_STRUCTURE" /\ Reached(2, price, stop, initial_known)}

\* build_partial_close_request: 30 % of the volume, rounded to hundredths of a lot
\* (volumes are counted in them); a half is rounded as its float happens to lie.
PartialVolumes(volume) == {v \in 0..volume : 10 * v \in 3 * volume - 5 .. 3 * volume + 5}
=============================================================================
