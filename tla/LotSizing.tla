------------------------------ MODULE LotSizing ------------------------------
(* The two ways a risk budget becomes a lot: calculate_lot_size of            *)
(* backend/trade_planner/trade_planner.py and lot_size of                     *)
(* backend/live_paper/demo_order_executor.py; what the mean-reversion engine  *)
(* reports of it when it starts, and what it enters with later.  Lots are     *)
(* counted in broker steps of 0.01, equities and costs in cents and budgets   *)
(* in ten-thousandths of one; cost is what one step loses at the stop.        *)
EXTENDS Integers, FiniteSetsExt

CONSTANTS
  Equities,              \* the equities drawn
  Costs,                 \* and the costs of one step
  RISK_PERCENT,          \* of the equity, the budget of a trade
  CAP_PERCENT,           \* min_lot_risk_cap_percent, 0 for the strict floor
  MIN_STEPS, MAX_STEPS,  \* volume_min and volume_max of the broker
  Tilts,                 \* DEPTH_TILT, in percent of the base size
  CEILING                \* max_lots_per_order

VARIABLES
  order,     \* what there is to size: the equity and the cost of a step
  planned,   \* the planner's lot
  executed,  \* the executor's lot, 0 when it skips the order
  entered    \* [tilt, lot] of the entry that followed, lot 0 when it was refused

sizing_vars == <<order, planned, executed, entered>>

NoOrder == [equity |-> 0, cost |-> 0]
NotEntered == [tilt |-> 0, lot |-> 0]

Budget(equity) == 100 * (equity * RISK_PERCENT)
Tilted(equity, tilt) == tilt * (equity * RISK_PERCENT)

\* What one step loses, in the parts that budgets are counted in.
Loss(cost) == 10000 * cost

\* The planner adds 1e-9 before it floors, so an exact multiple stays exact;
\* it lifts a budget below one minimum lot to the minimum.
CalculateLotSize(budget, cost) ==
  IF budget <= 0 \/ cost <= 0 THEN 0
  ELSE Min({Max({budget \div Loss(cost), MIN_STEPS}), MAX_STEPS})

\* int(raw / step) truncates a float quotient, which for an exact multiple may
\* lie just below it.
Truncated(budget, cost) ==
  LET steps == budget \div Loss(cost)
  IN {steps} \cup (IF budget % Loss(cost) = 0 /\ budget > 0 THEN {steps - 1} ELSE {})

\* Mutated form: the minimum lot is taken without the cap.
ExecutorLotUncapped(stepped, cost, equity) ==
  IF stepped >= MIN_STEPS THEN Min({stepped, MAX_STEPS}) ELSE Min({MIN_STEPS, MAX_STEPS})

\* The executor floors, and takes the minimum lot beyond the budget only when
\* its risk stays under the cap.
ExecutorLot(stepped, cost, equity) ==
  IF stepped >= MIN_STEPS THEN Min({stepped, MAX_STEPS})
  ELSE IF CAP_PERCENT > 0 /\ equity > 0 /\ 100 * MIN_STEPS * cost <= CAP_PERCENT * equity
  THEN Min({MIN_STEPS, MAX_STEPS})
  ELSE 0

\* preflight_min_lots: the start reports the base size of a symbol, and one
\* without a size as skipped.
Preflight(equity, cost) ==
  {ExecutorLot(stepped, cost, equity) : stepped \in Truncated(Budget(equity), cost)}

SizingInit == order = NoOrder /\ planned = 0 /\ executed = 0 /\ entered = NotEntered

SizeOrder ==
  /\ order = NoOrder
  /\ \E cost \in Costs, equity \in Equities :
       /\ order' = [equity |-> equity, cost |-> cost]
       /\ planned' = CalculateLotSize(Budget(equity), cost)
       /\ IF cost <= 0 THEN executed' = 0
          ELSE executed' \in Preflight(equity, cost)
  /\ UNCHANGED entered

\* The entry tilts the risk by the depth of the dip; its lot is refused above
\* the ceiling, never cut down to it.
EnterTilted ==
  /\ order.cost > 0 /\ entered = NotEntered
  /\ \E tilt \in Tilts : \E stepped \in Truncated(Tilted(order.equity, tilt), order.cost) :
       LET lot == ExecutorLot(stepped, order.cost, order.equity)
       IN entered' = [tilt |-> tilt, lot |-> IF lot > CEILING THEN 0 ELSE lot]
  /\ UNCHANGED <<order, planned, executed>>

SizingNext == SizeOrder \/ EnterTilted

SizingTypeOK ==
  /\ order \in [equity : Equities \cup {0}, cost : Costs \cup {0}]
  /\ planned \in 0..MAX_STEPS /\ executed \in 0..MAX_STEPS
  /\ entered \in [tilt : Tilts \cup {0}, lot : 0..CEILING]

Risk(lot) == lot * Loss(order.cost)

\* The two engines size the same signal alike: neither risks more than the
\* budget unless it trades the broker's minimum, the executor exceeds it only
\* within its cap, and never trades more than the planner showed; what float
\* truncation costs it is one step, or the whole order when that step was the
\* last above the minimum.  What the start reported holds for the entries after
\* it: a symbol with a size reaches the account at any depth unless the tilt
\* lifts it over the ceiling, a skipped one only on a dip deep enough to pay
\* for the minimum, and no entry exceeds its tilted budget but within the cap.
LotsStayInBudget ==
  /\ planned > MIN_STEPS => Risk(planned) <= Budget(order.equity)
  /\ executed > 0 /\ Risk(executed) > Budget(order.equity) =>
       executed = MIN_STEPS /\ Risk(executed) <= 100 * (CAP_PERCENT * order.equity)
  /\ executed <= planned
  /\ executed > 0 => executed >= planned - 1
  /\ executed = 0 /\ order.cost > 0 => Budget(order.equity) <= Risk(MIN_STEPS)
  /\ entered # NotEntered =>
       LET budget == Tilted(order.equity, entered.tilt)
       IN /\ executed > 0 /\ entered.lot = 0 => budget > Risk(CEILING)
          /\ executed = 0 /\ entered.lot > 0 => budget > Budget(order.equity)
          /\ entered.lot > 0 /\ Risk(entered.lot) > budget =>
               entered.lot = MIN_STEPS /\ Risk(entered.lot) <= 100 * (CAP_PERCENT * order.equity)
=============================================================================
