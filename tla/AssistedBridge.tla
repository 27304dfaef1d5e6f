--------------------------- MODULE AssistedBridge ---------------------------
(***************************************************************************)
(* execution_engine/assisted_execution_bridge.py: locked trade tickets and  *)
(* their submission to a demo account.                                      *)
(*                                                                          *)
(* A ticket is an immutable record; a change of status makes another record *)
(* of it, and the older one can still be submitted.  The bridge remembers   *)
(* nothing of what it sent.  What keeps a plan from being sent twice is the *)
(* list of open orders the caller passes with each submission.              *)
(*                                                                          *)
(* Abstractions.  A plan is a symbol, side and entry price (closer entries  *)
(* are the same price); grade, risk, stop, target and lot are whether the   *)
(* plan is sound.  The rest of the context is whether it is calm: enabled,  *)
(* demo account, kill switch off, spread and slippage within limits.  The   *)
(* account (external) fills orders, and may execute one whose answer was    *)
(* lost, at once or later.                                                  *)
(***************************************************************************)
EXTENDS Integers, FiniteSets

CONSTANTS
  Tickets, Plans,
  SoundPlans,     \* those whose grade, risk, lot, stop and target pass
  MarketPlans,    \* those with entry_type MARKET
  NoPlan,
  FRESH,          \* require_fresh_ticket_seconds
  Lives,          \* the times a caller may give a ticket to its expires_at
  MAX_TIME, MAX_ORDERS   \* bounds: of the clock, of orders per ticket

ASSUME BridgeAssumption ==
  /\ SoundPlans \subseteq Plans /\ MarketPlans \subseteq Plans /\ NoPlan \notin Plans
  /\ FRESH \in Nat /\ Lives \subseteq Nat
  /\ MAX_TIME \in Nat /\ MAX_ORDERS \in Nat

\* REJECTED stands for every status that is neither waiting nor approved: nothing
\* the bridge does tells them apart.
Statuses == {"AWAITING_APPROVAL", "APPROVED", "REJECTED"}

VARIABLES
  clock,
  plan,      \* ticket -> its plan, or NoPlan while it does not exist
  life,      \* ticket -> <<created_at, expires_at>>
  versions,  \* ticket -> the statuses its records have
  listed,    \* the tickets in the caller's open_orders
  pending,   \* ticket -> its orders waiting in the account
  filled,    \* ticket -> its orders that were filled
  late       \* ticket -> its orders sent and not yet in the account

\* Kept for the properties only: plans sent since the list was read; plans whose
\* last order was sent in ignorance of another.
VARIABLES sent_since, unseen

vars == <<clock, plan, life, versions, listed, pending, filled, late, sent_since, unseen>>

TypeOK ==
  /\ clock \in 0..MAX_TIME
  /\ plan \in [Tickets -> Plans \cup {NoPlan}]
  /\ versions \in [Tickets -> SUBSET Statuses]
  /\ listed \subseteq Tickets
  /\ \A count \in {pending, filled, late} : count \in [Tickets -> 0..MAX_ORDERS]
  /\ sent_since \subseteq Plans /\ unseen \subseteq Plans

Init ==
  /\ clock = 0
  /\ plan = [t \in Tickets |-> NoPlan]
  /\ life = [t \in Tickets |-> <<0, 0>>]
  /\ versions = [t \in Tickets |-> {}]
  /\ listed = {}
  /\ pending = [t \in Tickets |-> 0]
  /\ filled = pending /\ late = pending
  /\ sent_since = {} /\ unseen = {}

Orders(t) == pending[t] + filled[t] + late[t]

\* create_ticket.
CreateTicket(t, p, l) ==
  /\ plan[t] = NoPlan
  /\ plan' = [plan EXCEPT ![t] = p]
  /\ life' = [life EXCEPT ![t] = <<clock, clock + l>>]
  /\ versions' = [versions EXCEPT ![t] = {"AWAITING_APPROVAL"}]
  /\ UNCHANGED <<clock, listed, pending, filled, late, sent_since, unseen>>

\* transition_ticket: any status from any other.
TransitionTicket(t, s) ==
  /\ plan[t] # NoPlan
  /\ versions' = [versions EXCEPT ![t] = @ \cup {s}]
  /\ UNCHANGED <<clock, plan, life, listed, pending, filled, late, sent_since, unseen>>

\* The caller reads the account's open orders.
ReadOpenOrders ==
  /\ listed' = {t \in Tickets : pending[t] > 0}
  /\ sent_since' = {}
  /\ UNCHANGED <<clock, plan, life, versions, pending, filled, late, unseen>>

DuplicateOfTicket(t) == t \in listed
DuplicateOrderExists(t) == \E u \in listed : u = t \/ plan[u] = plan[t]

IsTicketApproved(version) == version = "APPROVED"
Fresh(t) == clock < life[t][2] /\ clock - life[t][1] <= FRESH
Sound(t) == plan[t] \in SoundPlans

\* final_safety_gate.  It asks whether a human approves, not what became of the
\* ticket since.
FinalSafetyGate(t, approved, calm) ==
  /\ approved /\ calm
  /\ Fresh(t) /\ Sound(t)
  /\ ~DuplicateOrderExists(t)

\* What the caller's list does not show of a plan's orders.
OutOfSight(p) ==
  \/ p \in sent_since
  \/ \E u \in Tickets : plan[u] = p /\ (filled[u] > 0 \/ late[u] > 0)

\* Where order_send leaves an order: a market order is filled at once; a request
\* that timed out may be executed later, one that is refused never is.
Placed(t, where) ==
  /\ Orders(t) < MAX_ORDERS
  /\ \/ /\ where = "later"
        /\ late' = [late EXCEPT ![t] = @ + 1] /\ UNCHANGED <<pending, filled>>
     \/ /\ where = "now" /\ plan[t] \in MarketPlans
        /\ filled' = [filled EXCEPT ![t] = @ + 1] /\ UNCHANGED <<pending, late>>
     \/ /\ where = "now" /\ plan[t] \notin MarketPlans
        /\ pending' = [pending EXCEPT ![t] = @ + 1] /\ UNCHANGED <<filled, late>>

\* submit_demo_order with one record of the ticket.  The answer changes what is
\* returned (SUBMITTED_DEMO only for DONE) and nothing else.
SubmitDemoOrder(t, version, human_approved, calm, where) ==
  /\ version \in versions[t]
  /\ FinalSafetyGate(t, human_approved \/ IsTicketApproved(version), calm)
  /\ Placed(t, where)
  /\ unseen' = IF OutOfSight(plan[t]) THEN unseen \cup {plan[t]} ELSE unseen
  /\ sent_since' = sent_since \cup {plan[t]}
  /\ UNCHANGED <<clock, plan, life, versions, listed>>

\* The account.
Lands(t) ==
  /\ late[t] > 0
  /\ late' = [late EXCEPT ![t] = @ - 1]
  /\ IF plan[t] \in MarketPlans
     THEN filled' = [filled EXCEPT ![t] = @ + 1] /\ UNCHANGED pending
     ELSE pending' = [pending EXCEPT ![t] = @ + 1] /\ UNCHANGED filled
  /\ sent_since' = sent_since \cup {plan[t]}
  /\ UNCHANGED <<clock, plan, life, versions, listed, unseen>>

Fills(t) ==
  /\ pending[t] > 0
  /\ pending' = [pending EXCEPT ![t] = @ - 1]
  /\ filled' = [filled EXCEPT ![t] = @ + 1]
  /\ UNCHANGED <<clock, plan, life, versions, listed, late, sent_since, unseen>>

Tick ==
  /\ clock < MAX_TIME
  /\ clock' = clock + 1
  /\ UNCHANGED <<plan, life, versions, listed, pending, filled, late, sent_since, unseen>>

Next ==
  \/ \E t \in Tickets :
       \/ \E p \in Plans, l \in Lives : CreateTicket(t, p, l)
       \/ \E s \in Statuses : TransitionTicket(t, s)
       \/ \E v \in Statuses, human, calm \in BOOLEAN, where \in {"now", "later"} :
            SubmitDemoOrder(t, v, human, calm, where)
       \/ Lands(t) \/ Fills(t)
  \/ ReadOpenOrders \/ Tick

Spec == Init /\ [][Next]_vars

-----------------------------------------------------------------------------
SentTwice(p) ==
  \/ \E t \in Tickets : plan[t] = p /\ Orders(t) > 1
  \/ \E t, u \in Tickets : /\ t # u /\ plan[t] = p /\ plan[u] = p
                          /\ Orders(t) > 0 /\ Orders(u) > 0

\* "duplicate order protection": what it is worth without a memory.  A plan has
\* two orders, under one ticket or several, only after one was sent on a list
\* older than the other, or while the other was filled or still on its way.
DuplicateNeedsCause == \A p \in Plans : SentTwice(p) => p \in unseen
=============================================================================
