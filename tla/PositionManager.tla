--------------------------- MODULE PositionManager ---------------------------
(***************************************************************************)
(* execution_engine/position_manager.py over one order of the engine's and  *)
(* the position it becomes.  The manager keeps nothing between two passes   *)
(* and does not read again within one: it lists the position, builds all    *)
(* its requests from what it saw, and sends each after a human confirmed it *)
(* at a blocking prompt.  Meanwhile the price moves and the human manages   *)
(* the position by hand, trailing its stop as the manager itself            *)
(* recommends.                                                              *)
(*                                                                          *)
(* Abstractions.  The grounds a pending order is invalid on, save a target  *)
(* reached before the entry, are one.  Of a modification the account        *)
(* (external) asks that the stop be below the price, of a partial close     *)
(* that its volume be positive and there.                                   *)
(***************************************************************************)
EXTENDS PositionRules

CONSTANTS
  TARGET,      \* the target's distance from the entry
  VOLUME,      \* the order's volume, in hundredths of a lot
  Prices

VARIABLES
  status,      \* "pending", "open", "cancelled", "stopped", "by hand", "partialled away"
  price, stop, volume,
  todo,        \* the actions of this pass that wait for their confirmation
  seen,        \* the position as this pass listed it
  initial_known  \* the context tells the initial stop

\* Kept for the properties only: the position was changed by hand since it was listed.
VARIABLE by_hand

vars == <<status, price, stop, volume, todo, seen, initial_known, by_hand>>

Actions == DOMAIN Rank
Stops == Prices \cup {InitialStop, FarStop, BUFFER}
Views == [price : Prices, stop : Stops, volume : 0..VOLUME]

TypeOK ==
  /\ status \in {"pending", "open", "cancelled", "stopped", "by hand", "partialled away"}
  /\ price \in Prices /\ stop \in Stops /\ volume \in 0..VOLUME
  /\ todo \subseteq Actions
  /\ seen \in Views
  /\ initial_known \in BOOLEAN /\ by_hand \in BOOLEAN

View == [price |-> price, stop |-> stop, volume |-> volume]

Init ==
  /\ status = "pending" /\ price \in {p \in Prices : p > 0}
  /\ stop \in {InitialStop, FarStop} /\ volume = VOLUME
  /\ todo = {} /\ seen = View
  /\ initial_known \in BOOLEAN /\ by_hand = FALSE

-----------------------------------------------------------------------------
(* A pass.                                                                  *)

\* manage_position.  In advisor mode the pass ends here.
ManagePosition(efde_exit) ==
  /\ status = "open" /\ todo = {}
  /\ todo' = Recommended(price, stop, initial_known, FALSE, efde_exit)
  /\ seen' = View /\ by_hand' = FALSE
  /\ UNCHANGED <<status, price, stop, volume, initial_known>>

\* pending_invalidation_reason finds one.
PendingInvalidated(invalid) == invalid \/ price >= TARGET

ManagePendingOrder(invalid) ==
  /\ status = "pending" /\ todo = {}
  /\ PendingInvalidated(invalid)
  /\ todo' = {"CANCEL_PENDING_ORDER"}
  /\ seen' = View /\ by_hand' = FALSE
  /\ UNCHANGED <<status, price, stop, volume, initial_known>>

\* submit_actions, of one action after the other, each once.
Foremost(action) == action \in todo /\ \A other \in todo : Rank[action] <= Rank[other]
Done(action) ==
  /\ Foremost(action) /\ todo' = todo \ {action}
  /\ UNCHANGED <<price, seen, initial_known, by_hand>>

\* The human declines, or the action carries no request, or the account refuses it.
NothingSent == (\E action \in todo : Done(action)) /\ UNCHANGED <<status, stop, volume>>

MoveToWrongSide ==
  /\ Done("MOVE_SL_TO_BE")
  /\ status = "open" /\ BUFFER < price
  /\ stop' = -BUFFER
  /\ UNCHANGED <<status, volume>>
MoveToBreakeven ==
  /\ Done("MOVE_SL_TO_BE")
  /\ status = "open" /\ BUFFER < price
  /\ stop' = BUFFER
  /\ UNCHANGED <<status, volume>>

PartialClose ==
  /\ Done("PARTIAL_CLOSE")
  /\ status = "open"
  /\ \E v \in PartialVolumes(seen.volume) \cap 1..volume :
       /\ volume' = volume - v
       /\ status' = IF v = volume THEN "partialled away" ELSE "open"
  /\ UNCHANGED stop

CancelPending ==
  /\ Done("CANCEL_PENDING_ORDER")
  /\ status = "pending" /\ status' = "cancelled"
  /\ UNCHANGED <<stop, volume>>

-----------------------------------------------------------------------------
(* The market and the human.                                                *)

\* The price moves, fills the order at the entry, or takes the stop.
PriceMoves(p) ==
  /\ price' = p
  /\ status' = CASE status = "pending" /\ p <= 0 -> IF p <= stop THEN "stopped" ELSE "open"
                 [] status = "open" /\ p <= stop -> "stopped"
                 [] OTHER -> status
  /\ UNCHANGED <<stop, volume, todo, seen, initial_known, by_hand>>

TrailByHand(s) ==
  /\ status = "open"
  /\ stop < s /\ s < price
  /\ stop' = s /\ by_hand' = TRUE
  /\ UNCHANGED <<status, price, volume, todo, seen, initial_known>>

ReduceByHand(v) ==
  /\ status = "open"
  /\ volume' = v /\ by_hand' = TRUE
  /\ status' = IF v = 0 THEN "by hand" ELSE "open"
  /\ UNCHANGED <<price, stop, todo, seen, initial_known>>

Next ==
  \/ \E efde_exit \in BOOLEAN : ManagePosition(efde_exit)
  \/ \E invalid \in BOOLEAN : ManagePendingOrder(invalid)
  \/ NothingSent \/ MoveToBreakeven \/ PartialClose \/ CancelPending
  \/ \E p \in Prices : PriceMoves(p) \/ TrailByHand(p)
  \/ \E v \in 0..volume - 1 : ReduceByHand(v)

Spec == Init /\ [][Next]_vars

-----------------------------------------------------------------------------
\* Every pass prompts anew, on what it read before the prompts.  A stop the human
\* trailed past breakeven is not taken back: it is loosened only when it was moved
\* by hand while the prompts were open.  And partial closes recur in every pass
\* above 2R (the account does not say that one was made), and still never close
\* the position: the last hundredth of a lot stays, unless it was reduced by hand.
CareTakesNothingBack ==
  [][ /\ MoveToBreakeven => stop' >= stop \/ by_hand
      /\ PartialClose => status' = "open" \/ by_hand ]_vars

\* README.md: "recommends breakeven moves at 1R, partial close at 2R".  The code
\* does not keep this: a position in the account carries its present stop only, so
\* once that is at breakeven, R is counted in buffers.
PartialOnlyAt2R ==
  Foremost("PARTIAL_CLOSE") => seen.price >= 2 * RISK
=============================================================================
