----------------------------- MODULE Desk_proofs -----------------------------
(***************************************************************************)
(* Proofs about the parts of the desk: the assisted bridge, the execution   *)
(* engine, the position manager, the paper session, the store of signals    *)
(* and the reviews, each for all values of its constants.                   *)
(***************************************************************************)
EXTENDS MCDesk, SequenceTheorems, FiniteSetTheorems, TLAPS

-----------------------------------------------------------------------------
(* The assisted bridge.  It has no memory; what protects it is that an order *)
(* waiting in the account is on the caller's list unless its plan was sent    *)
(* since the list was read (Listed).                                          *)

Counted ==
  \A t \in Tickets : Orders(t) <= MAX_ORDERS /\ (plan[t] = NoPlan => Orders(t) = 0)

Listed ==
  \A t \in Tickets : pending[t] > 0 => t \in listed \/ plan[t] \in sent_since

LEMMA OrdersType ==
  ASSUME TypeOK, NEW t \in Tickets
  PROVE  pending[t] \in Nat /\ filled[t] \in Nat /\ late[t] \in Nat /\ Orders(t) \in Nat
<1>1. pending[t] \in 0..MAX_ORDERS /\ filled[t] \in 0..MAX_ORDERS /\ late[t] \in 0..MAX_ORDERS
  BY DEF TypeOK
<1> QED
  BY <1>1, BridgeAssumption DEF Orders

LEMMA BridgeInit == Init => TypeOK /\ Counted /\ Listed /\ DuplicateNeedsCause
BY BridgeAssumption
   DEF Init, TypeOK, Counted, Listed, Orders, DuplicateNeedsCause, SentTwice

\* An order more, where there was none or not yet MAX_ORDERS.
LEMMA PlacedOrders ==
  ASSUME TypeOK, NEW t \in Tickets, NEW where \in {"now", "later"}, Placed(t, where)
  PROVE  /\ pending' \in [Tickets -> 0..MAX_ORDERS] /\ filled' \in [Tickets -> 0..MAX_ORDERS]
         /\ late' \in [Tickets -> 0..MAX_ORDERS]
         /\ \A u \in Tickets \ {t} : Orders(u)' = Orders(u) /\ pending'[u] = pending[u]
         /\ Orders(t)' = Orders(t) + 1 /\ Orders(t) + 1 <= MAX_ORDERS
<1> USE BridgeAssumption, OrdersType DEF TypeOK, Orders
<1>1. Orders(t) < MAX_ORDERS
  BY DEF Placed
<1>2. CASE late' = [late EXCEPT ![t] = @ + 1] /\ UNCHANGED <<pending, filled>>
  BY <1>1, <1>2
<1>3. CASE filled' = [filled EXCEPT ![t] = @ + 1] /\ UNCHANGED <<pending, late>>
  BY <1>1, <1>3
<1>4. CASE pending' = [pending EXCEPT ![t] = @ + 1] /\ UNCHANGED <<filled, late>>
  BY <1>1, <1>4
<1> QED
  BY <1>2, <1>3, <1>4 DEF Placed

\* An order that moves on in the account is counted once.
LEMMA MovedOrders ==
  ASSUME TypeOK, Counted, NEW t \in Tickets, Lands(t) \/ Fills(t)
  PROVE  /\ pending' \in [Tickets -> 0..MAX_ORDERS] /\ filled' \in [Tickets -> 0..MAX_ORDERS]
         /\ late' \in [Tickets -> 0..MAX_ORDERS]
         /\ \A u \in Tickets : Orders(u)' = Orders(u)
         /\ \A u \in Tickets \ {t} : pending'[u] = pending[u]
<1>1. /\ pending \in [Tickets -> 0..MAX_ORDERS] /\ filled \in [Tickets -> 0..MAX_ORDERS]
      /\ late \in [Tickets -> 0..MAX_ORDERS] /\ MAX_ORDERS \in Nat
  BY BridgeAssumption DEF TypeOK
<1>2. pending[t] + filled[t] + late[t] <= MAX_ORDERS
  BY DEF Counted, Orders
<1>3. CASE Fills(t)
  BY <1>1, <1>2, <1>3 DEF Fills, Orders
<1>4. CASE Lands(t)
  <2>1. CASE plan[t] \in MarketPlans
    BY <1>1, <1>2, <1>4, <2>1 DEF Lands, Orders
  <2>2. CASE plan[t] \notin MarketPlans
    BY <1>1, <1>2, <1>4, <2>2 DEF Lands, Orders
  <2> QED
    BY <2>1, <2>2
<1> QED
  BY <1>3, <1>4

LEMMA BridgeTypeStep ==
  ASSUME TypeOK, Counted, [Next]_vars
  PROVE  TypeOK' /\ Counted'
<1> USE BridgeAssumption DEF Counted
<1>1. ASSUME NEW t \in Tickets, NEW p \in Plans, NEW l \in Lives, CreateTicket(t, p, l)
      PROVE  TypeOK' /\ Counted'
  BY <1>1 DEF CreateTicket, TypeOK, Orders, Statuses
<1>2. ASSUME NEW t \in Tickets, NEW s \in Statuses, TransitionTicket(t, s)
      PROVE  TypeOK' /\ Counted'
  BY <1>2 DEF TransitionTicket, TypeOK, Orders
<1>3. ASSUME NEW t \in Tickets, NEW v \in Statuses, NEW human \in BOOLEAN, NEW calm \in BOOLEAN,
             NEW where \in {"now", "later"}, SubmitDemoOrder(t, v, human, calm, where)
      PROVE  TypeOK' /\ Counted'
  <2>1. Placed(t, where) /\ plan[t] \in Plans /\ plan[t] # NoPlan
    BY <1>3 DEF SubmitDemoOrder, FinalSafetyGate, Sound
  <2>2. TypeOK'
    BY <1>3, <2>1, PlacedOrders DEF SubmitDemoOrder, TypeOK
  <2>3. Counted'
    BY <1>3, <2>1, PlacedOrders, OrdersType DEF SubmitDemoOrder
  <2> QED
    BY <2>2, <2>3
<1>4. ASSUME NEW t \in Tickets, Lands(t) \/ Fills(t)
      PROVE  TypeOK' /\ Counted'
  <2>1. /\ UNCHANGED <<clock, plan, life, versions, listed, unseen>>
        /\ sent_since' = sent_since \/ sent_since' = sent_since \cup {plan[t]}
    BY <1>4 DEF Lands, Fills
  <2>2. sent_since' \subseteq Plans
    <3>1. plan[t] # NoPlan
      BY <1>4, OrdersType DEF Lands, Fills, Orders
    <3> QED
      BY <2>1, <3>1 DEF TypeOK
  <2>3. TypeOK'
    BY <1>4, <2>1, <2>2, MovedOrders DEF TypeOK
  <2> QED
    BY <1>4, <2>1, <2>3, MovedOrders
<1>5. CASE ReadOpenOrders
  BY <1>5 DEF ReadOpenOrders, TypeOK, Orders
<1>6. CASE Tick
  <2>1. clock' \in 0..MAX_TIME
    BY <1>6 DEF Tick, TypeOK
  <2> QED
    BY <1>6, <2>1 DEF Tick, TypeOK, Orders
<1>7. CASE UNCHANGED vars
  BY <1>7 DEF vars, TypeOK, Orders
<1> QED
  BY <1>1, <1>2, <1>3, <1>4, <1>5, <1>6, <1>7 DEF Next

LEMMA ListedStep ==
  ASSUME TypeOK, Counted, Listed, [Next]_vars
  PROVE  Listed'
<1> USE DEF Listed
<1>1. ASSUME NEW t \in Tickets, NEW p \in Plans, NEW l \in Lives, CreateTicket(t, p, l)
      PROVE  Listed'
  BY <1>1, OrdersType DEF CreateTicket, TypeOK, Counted, Orders
<1>2. ASSUME NEW t \in Tickets, NEW v \in Statuses, NEW human \in BOOLEAN, NEW calm \in BOOLEAN,
             NEW where \in {"now", "later"}, SubmitDemoOrder(t, v, human, calm, where)
      PROVE  Listed'
  BY <1>2, PlacedOrders DEF SubmitDemoOrder
<1>3. ASSUME NEW t \in Tickets, Lands(t) \/ Fills(t)
      PROVE  Listed'
  <2>1. \A u \in Tickets \ {t} : pending'[u] = pending[u]
    BY <1>3, MovedOrders
  <2>2. Fills(t) => (pending'[t] > 0 => pending[t] > 0)
    BY BridgeAssumption DEF Fills, TypeOK
  <2> QED
    BY <1>3, <2>1, <2>2 DEF Lands, Fills
<1>4. CASE ReadOpenOrders
  BY <1>4 DEF ReadOpenOrders
<1>5. CASE Tick \/ UNCHANGED vars \/ (\E t \in Tickets, s \in Statuses : TransitionTicket(t, s))
  BY <1>5 DEF Tick, vars, TransitionTicket
<1> QED
  BY <1>1, <1>2, <1>3, <1>4, <1>5 DEF Next

\* Two tickets, or two orders of one, are counted the same before and after.
LEMMA SentTwiceSame ==
  ASSUME NEW p \in Plans, \A t \in Tickets : Orders(t)' = Orders(t), plan' = plan
  PROVE  SentTwice(p)' <=> SentTwice(p)
BY DEF SentTwice

LEMMA DuplicateStep ==
  ASSUME TypeOK, Counted, Listed, DuplicateNeedsCause, [Next]_vars
  PROVE  DuplicateNeedsCause'
<1> USE DEF DuplicateNeedsCause
<1>1. ASSUME NEW t \in Tickets, NEW p \in Plans, NEW l \in Lives, CreateTicket(t, p, l)
      PROVE  DuplicateNeedsCause'
  <2>1. \A u \in Tickets : Orders(u)' = Orders(u)
    BY <1>1 DEF CreateTicket, Orders
  <2>2. Orders(t) = 0 /\ \A u \in Tickets : plan'[u] = plan[u] \/ u = t
    BY <1>1 DEF CreateTicket, Counted, TypeOK
  <2>3. \A q \in Plans : SentTwice(q)' => SentTwice(q)
    BY <2>1, <2>2, OrdersType DEF SentTwice
  <2> QED
    BY <1>1, <2>3 DEF CreateTicket
<1>2. ASSUME NEW t \in Tickets, NEW v \in Statuses, NEW human \in BOOLEAN, NEW calm \in BOOLEAN,
             NEW where \in {"now", "later"}, SubmitDemoOrder(t, v, human, calm, where)
      PROVE  DuplicateNeedsCause'
  <2>1. /\ Placed(t, where) /\ ~DuplicateOrderExists(t)
        /\ unseen' = IF OutOfSight(plan[t]) THEN unseen \cup {plan[t]} ELSE unseen
        /\ plan' = plan /\ plan[t] \in Plans
    BY <1>2, BridgeAssumption DEF SubmitDemoOrder, FinalSafetyGate, Sound
  <2>2. ASSUME ~OutOfSight(plan[t]), NEW u \in Tickets, plan[u] = plan[t] PROVE Orders(u) = 0
    <3>1. filled[u] = 0 /\ late[u] = 0 /\ plan[u] \notin sent_since
      BY <2>2, OrdersType DEF OutOfSight
    <3>2. pending[u] = 0
      BY <2>1, <2>2, <3>1, OrdersType DEF Listed, DuplicateOrderExists
    <3> QED
      BY <3>1, <3>2 DEF Orders
  <2>3. ASSUME NEW q \in Plans, SentTwice(q)' PROVE q \in unseen'
    <3>1. CASE q # plan[t]
      <4>1. \A u \in Tickets : plan[u] = q => Orders(u)' = Orders(u)
        BY <2>1, <3>1, PlacedOrders
      <4>2. SentTwice(q)
        BY <2>1, <2>3, <4>1 DEF SentTwice
      <4> QED
        BY <2>1, <4>2
    <3>2. CASE q = plan[t] /\ OutOfSight(plan[t])
      BY <2>1, <3>2
    <3>3. CASE q = plan[t] /\ ~OutOfSight(plan[t])
      <4>1. Orders(t)' = 1
        BY <2>1, <2>2, <3>3, PlacedOrders
      <4>2. \A u \in Tickets \ {t} : plan[u] = q => Orders(u)' = 0
        BY <2>1, <2>2, <3>3, PlacedOrders
      <4> QED
        BY <2>1, <2>3, <4>1, <4>2 DEF SentTwice
    <3> QED
      BY <3>1, <3>2, <3>3
  <2> QED
    BY <2>3
<1>3. ASSUME NEW t \in Tickets, Lands(t) \/ Fills(t)
      PROVE  DuplicateNeedsCause'
  BY <1>3, MovedOrders, SentTwiceSame DEF Lands, Fills
<1>4. CASE \/ ReadOpenOrders \/ Tick \/ UNCHANGED vars
           \/ \E t \in Tickets, s \in Statuses : TransitionTicket(t, s)
  <2>1. UNCHANGED <<pending, filled, late, plan, unseen>>
    BY <1>4 DEF ReadOpenOrders, Tick, vars, TransitionTicket
  <2> QED
    BY <2>1, SentTwiceSame DEF Orders
<1> QED
  BY <1>1, <1>2, <1>3, <1>4 DEF Next

\* What the bridge tells two orders of a plan apart by never fails while its
\* caller's list is as new as its last order and nothing of the plan is filled or
\* on its way; for any number of tickets, plans and orders.
THEOREM Duplicates == Spec => []DuplicateNeedsCause
<1>1. TypeOK /\ Counted /\ Listed /\ DuplicateNeedsCause /\ [Next]_vars
        => (TypeOK /\ Counted /\ Listed /\ DuplicateNeedsCause)'
  BY BridgeTypeStep, ListedStep, DuplicateStep
<1> QED
  BY <1>1, BridgeInit, PTL DEF Spec

-----------------------------------------------------------------------------
(* The execution engine.  Its invariants hold by themselves with its types:   *)
(* every confirmed execution moves the account, the journal and the count of  *)
(* unclear ends in one step.                                                  *)

LEMMA ContextsHoldNone == Engine!NoContext \in Engine!Contexts
BY DEF Engine!NoContext, Engine!Contexts

LEMMA EngineInit == Engine!Init => Engine!TypeOK /\ EngineBooksAreHonest
BY BridgeAssumption, ContextsHoldNone
   DEF Engine!Init, Engine!TypeOK, Engine!Results, EngineBooksAreHonest,
       Engine!UnsaidIsNoLeave, Engine!JournalWithinUnclear

EngineInv == Engine!TypeOK /\ EngineBooksAreHonest

\* What the journal gains is a SUCCESS, and every end is idle again.
LEMMA RecordedEnd ==
  ASSUME journaled \in Nat, NEW result \in Engine!Results, Engine!Recorded(result)
  PROVE  /\ phase' = "idle" /\ context' \in Engine!Contexts /\ mode' = "advisor"
         /\ last' \in {result, "raised"} /\ last' \in Engine!Results
         /\ last' = "SUCCESS" => journaled' = journaled + 1
         /\ last' # "SUCCESS" => journaled' = journaled
BY ContextsHoldNone DEF Engine!Recorded, Engine!Results

\* A checklist that passes heard the risk governor and the killzone, and no refusal.
LEMMA ReadinessHears ==
  ASSUME NEW c \in Engine!Contexts, NEW verified, NEW quoted, Engine!ReadinessPasses(c, verified, quoted)
  PROVE  /\ c.risk = "ALLOWED" /\ c.killzone = "valid"
         /\ c.news # "LOCKED" /\ c.guardrail # "BLOCKED" /\ c.spread # "wide"
BY DEF Engine!Contexts, Engine!ReadinessPasses, Engine!RiskAllowed, Engine!KillzoneValid,
       Engine!NewsClear, Engine!GuardrailsPass, Engine!SpreadAcceptable, Engine!CurrentSpread

LEMMA EngineConfirm ==
  ASSUME EngineInv, NEW verified \in BOOLEAN, NEW quoted, NEW executed \in BOOLEAN,
         NEW answer \in {"SUCCESS", "REJECTED", "raised"},
         Engine!Confirm(verified, quoted, executed, answer)
  PROVE  EngineInv'
<1> USE BridgeAssumption DEF EngineInv, Engine!TypeOK
<1>1. /\ phase' = "idle" /\ context' \in Engine!Contexts /\ mode' = "advisor"
      /\ last' \in Engine!Results
      /\ last' = "SUCCESS" => journaled' = journaled + 1 /\ executed
      /\ last' # "SUCCESS" => journaled' = journaled
  <2>1. CASE answer = "raised"
    BY <2>1, ContextsHoldNone DEF Engine!Confirm, Engine!Submitted, Engine!Results
  <2>2. CASE answer # "raised"
    <3>1. Engine!Recorded(answer) /\ answer \in Engine!Results
      BY <2>2 DEF Engine!Confirm, Engine!Submitted, Engine!Results
    <3> QED
      BY <3>1, RecordedEnd DEF Engine!Confirm, Engine!Submitted
  <2> QED
    BY <2>1, <2>2
<1>2. /\ orders' = IF executed THEN orders + 1 ELSE orders
      /\ orders' \in 0..MAX_ORDERS
      /\ last' # "SUCCESS" => unclear' = unclear + 1 /\ unclear' \in 0..MAX_ORDERS
      /\ last' = "SUCCESS" => unclear' = unclear
      /\ sent_on' = context
  BY DEF Engine!Confirm, Engine!Submitted
<1>3. Engine!JournalWithinUnclear'
  BY <1>1, <1>2 DEF EngineBooksAreHonest, Engine!JournalWithinUnclear
<1>4. Engine!UnsaidIsNoLeave'
  BY <1>2, ReadinessHears DEF Engine!UnsaidIsNoLeave, Engine!Confirm
<1>5. Engine!TypeOK'
  BY <1>1, <1>2, <1>3 DEF Engine!JournalWithinUnclear
<1> QED
  BY <1>3, <1>4, <1>5 DEF EngineBooksAreHonest

LEMMA EngineStep ==
  ASSUME EngineInv, [Engine!Next]_engine_vars
  PROVE  EngineInv'
<1> USE BridgeAssumption DEF EngineInv, Engine!TypeOK
\* Steps that place no order leave the books and the last context alone.
<1>1. ASSUME NEW result \in Engine!Results \ {"SUCCESS"}, Engine!Recorded(result),
             UNCHANGED <<orders, unclear, sent_on>>
      PROVE  EngineInv'
  <2>1. journaled' = journaled
    BY <1>1, RecordedEnd
  <2> QED
    BY <1>1, <2>1, RecordedEnd
       DEF EngineBooksAreHonest, Engine!JournalWithinUnclear, Engine!UnsaidIsNoLeave
<1>2. ASSUME NEW c \in Engine!Contexts, NEW m \in {"advisor", "assisted"}, NEW sound \in BOOLEAN,
             Engine!Execute(c, m, sound)
      PROVE  EngineInv'
  <2>1. CASE Engine!SafetyPasses(c, sound) /\ m = "assisted"
    BY <1>2, <2>1
       DEF Engine!Execute, EngineBooksAreHonest, Engine!JournalWithinUnclear, Engine!UnsaidIsNoLeave
  <2>2. CASE ~(Engine!SafetyPasses(c, sound) /\ m = "assisted")
    <3>1. PICK result \in Engine!Results \ {"SUCCESS"} : Engine!Recorded(result)
      BY <1>2, <2>2 DEF Engine!Execute, Engine!Results
    <3> QED
      BY <1>1, <1>2, <3>1 DEF Engine!Execute
  <2> QED
    BY <2>1, <2>2
<1>3. CASE Engine!Decline
  BY <1>1, <1>3 DEF Engine!Decline, Engine!Results
<1>4. ASSUME NEW verified \in BOOLEAN, NEW quoted, Engine!NotReady(verified, quoted)
      PROVE  EngineInv'
  BY <1>1, <1>4 DEF Engine!NotReady, Engine!Results
<1>5. CASE UNCHANGED engine_vars
  BY <1>5 DEF engine_vars, EngineBooksAreHonest, Engine!JournalWithinUnclear, Engine!UnsaidIsNoLeave
<1> QED
  BY <1>2, <1>3, <1>4, <1>5, EngineConfirm DEF Engine!Next

\* One part runs at a time: a step of the desk is a step of the engine or leaves
\* the engine's state alone.
LEMMA EngineFrame == [MCNext]_mc_vars => [Engine!Next]_engine_vars
BY DEF MCNext, mc_vars, desk_vars, Reviewing, engine_vars

\* For any number of orders: the engine sends an order only on a context that
\* affirmed what must be affirmed, and the journal differs from the account by no
\* more than the executions that ended unclear.
THEOREM EngineBooks == MCSpec => []EngineBooksAreHonest
<1>1. MCInit => EngineInv
  BY EngineInit DEF MCInit, EngineInv
<1>2. EngineInv /\ [MCNext]_mc_vars => EngineInv'
  BY EngineStep, EngineFrame
<1> QED
  BY <1>1, <1>2, PTL DEF MCSpec, EngineInv

-----------------------------------------------------------------------------
(* The rehearsal.  Whatever the distance of the stop, the manager moves it to *)
(* breakeven on the paths that reach 1R and only there (Rehearsed).           *)

Rehearsed ==
  /\ sl = 0 <=> "MOVE_SL_TO_BE" \in taken
  /\ scenario = "B" /\ walked >= 2 => sl = 0
  /\ scenario = "C" => sl # 0

Reported ==
  /\ journal = IF step \in {"cancelled", "closed"} THEN 1 ELSE 0
  /\ step = "closed" =>
       walked = Len(Paper!Path[scenario]) /\ outcome = Paper!OutcomeOf[scenario]

PaperInv == Paper!TypeOK /\ Rehearsed /\ Reported

\* The three paths, price by price.
LEMMA Paths ==
  /\ DOMAIN Paper!Path = {"A", "B", "C"}
  /\ \A s \in {"A", "B", "C"} : Len(Paper!Path[s]) = [A |-> 4, B |-> 3, C |-> 2][s]
  /\ Paper!Path["A"][1] = 0 /\ Paper!Path["A"][2] = RISK /\ Paper!Path["A"][3] = 2 * RISK
  /\ Paper!Path["A"][4] \in Int /\ Paper!Path["A"][4] > 0
  /\ Paper!Path["B"][1] = 0 /\ Paper!Path["B"][2] = RISK /\ Paper!Path["B"][3] = 0
  /\ Paper!Path["C"][1] = 0 /\ Paper!Path["C"][2] = -RISK
<1>1. (32 * RISK) \div 10 \in Int /\ (32 * RISK) \div 10 > 0
  BY DeskAssumption
<1> QED
  BY <1>1, DeskAssumption DEF Paper!Path

LEMMA PaperInit == Paper!Init => PaperInv /\ DrillOutcomeHonest
BY Paths, DeskAssumption
   DEF Paper!Init, PaperInv, Paper!TypeOK, Rehearsed, Reported, Paper!InitialStop,
       DrillOutcomeHonest, Paper!DrillOutcomeHonest

LEMMA PaperWalk ==
  ASSUME PaperInv, Paper!Walk
  PROVE  PaperInv'
<1> DEFINE actions == Paper!Recommended(Paper!Here, sl, TRUE, "PARTIAL_CLOSE" \in taken, FALSE)
<1> USE DeskAssumption DEF PaperInv, Paper!TypeOK
<1>1. /\ step = "open" /\ scenario \in {"A", "B", "C"} /\ walked \in 0..4
      /\ walked < Len(Paper!Path[scenario]) /\ walked' = walked + 1
      /\ UNCHANGED <<step, scenario, outcome, journal>>
      /\ sl' = IF "MOVE_SL_TO_BE" \in actions \ taken THEN 0 ELSE sl
      /\ "MOVE_SL_TO_BE" \in taken' <=> "MOVE_SL_TO_BE" \in actions \cup taken
  BY Paths DEF Paper!Walk, Paper!Applies
<1>2. /\ Paper!Here \in Int
      /\ scenario = "C" => Paper!Here <= 0
      /\ scenario = "B" /\ walked = 1 => Paper!Here = RISK
  BY <1>1, Paths DEF Paper!Here
<1>3. /\ sl \in {-RISK, 0} /\ RISK \in Nat \ {0} /\ BUFFER \in 0..RISK - 1
  BY DEF Paper!InitialStop
\* The manager recommends the move from 1R on, as long as the stop is below it.
<1>4. "MOVE_SL_TO_BE" \in actions <=> Paper!Here >= RISK /\ sl < BUFFER
  BY <1>2, <1>3
     DEF Paper!Recommended, Paper!Rank, Paper!ShouldMoveToBreakeven, Paper!Reached, Paper!InitialStop
<1>5. actions \subseteq {"MOVE_SL_TO_BE", "PARTIAL_CLOSE", "TRAIL_STRUCTURE"}
  BY DEF Paper!Recommended, Paper!Rank
<1>6. Paper!TypeOK'
  <2>1. taken' \subseteq taken \cup actions \cup {"TRAIL_STRUCTURE"}
    BY DEF Paper!Walk, Paper!Applies
  <2>2. walked' \in 0..4
    <3> DEFINE n == Len(Paper!Path[scenario])
    <3>1. n = 2 \/ n = 3 \/ n = 4
      BY <1>1, Paths
    <3>2. walked \in 0..4 /\ walked < n /\ walked' = walked + 1
      BY <1>1
    <3> HIDE DEF n
    <3> QED
      BY <3>1, <3>2
  <2> HIDE DEF actions
  <2> QED
    BY <1>1, <1>5, <2>1, <2>2 DEF Paper!InitialStop
<1> HIDE DEF actions
<1>7. Rehearsed'
  <2>1. (sl = 0 <=> "MOVE_SL_TO_BE" \in taken)'
    BY <1>1, <1>3, <1>4 DEF Rehearsed
  <2>2. (scenario = "B" /\ walked >= 2 => sl = 0)'
    BY <1>1, <1>2, <1>3, <1>4 DEF Rehearsed
  <2>3. (scenario = "C" => sl # 0)'
    BY <1>1, <1>2, <1>3, <1>4 DEF Rehearsed
  <2> QED
    BY <2>1, <2>2, <2>3 DEF Rehearsed
<1>8. Reported'
  BY <1>1 DEF Reported
<1> QED
  BY <1>6, <1>7, <1>8

LEMMA PaperStep ==
  ASSUME PaperInv, [Paper!Next]_paper_vars
  PROVE  PaperInv'
<1> USE DeskAssumption, Paths DEF PaperInv, Paper!TypeOK, Rehearsed, Reported
<1>1. ASSUME NEW reason \in {"READINESS_BLOCKED", "APPROVAL_REJECTED"}, step \in {"scanning", "approving"},
             Paper!FinishBlocked(reason)
      PROVE  PaperInv'
  BY <1>1 DEF Paper!FinishBlocked, Paper!RecordJournal
<1>2. ASSUME step \in {"scanning", "approving"}, step' \in {"approving", "open"},
             UNCHANGED <<scenario, walked, sl, taken, outcome, journal>>
      PROVE  PaperInv'
  BY <1>2
<1>3. ASSUME NEW b \in BOOLEAN, Paper!Check(b) \/ Paper!Approve(b) PROVE PaperInv'
  <2>1. \/ Paper!FinishBlocked("READINESS_BLOCKED") \/ Paper!FinishBlocked("APPROVAL_REJECTED")
        \/ /\ step' \in {"approving", "open"}
           /\ UNCHANGED <<scenario, walked, sl, taken, outcome, journal>>
    BY <1>3 DEF Paper!Check, Paper!Approve
  <2>2. step \in {"scanning", "approving"}
    BY <1>3 DEF Paper!Check, Paper!Approve
  <2> QED
    BY <1>1, <1>2, <2>1, <2>2
<1>4. CASE Paper!Close
  <2>1. outcome' \in {"WIN", "BREAKEVEN", "LOSS"}
    BY <1>4 DEF Paper!Close, Paper!OutcomeOf
  <2>2. Paper!TypeOK'
    BY <1>4, <2>1 DEF Paper!Close, Paper!RecordJournal
  <2>3. Rehearsed' /\ Reported'
    BY <1>4 DEF Paper!Close, Paper!RecordJournal
  <2> QED
    BY <2>2, <2>3
<1>5. CASE UNCHANGED paper_vars
  BY <1>5 DEF paper_vars
<1> QED
  BY <1>3, <1>4, <1>5, PaperWalk DEF Paper!Next

LEMMA PaperFrame == [MCNext]_mc_vars => [Paper!Next]_paper_vars
BY DEF MCNext, mc_vars, desk_vars, Reviewing, paper_vars

\* On every path the outcome the rehearsal reports is the one the stop decides.
LEMMA Outcomes == PaperInv => DrillOutcomeHonest
<1> SUFFICES ASSUME PaperInv PROVE Paper!DrillOutcomeHonest
  BY DEF DrillOutcomeHonest
<1>1. step \in {"cancelled", "closed"} <=> journal = 1
  BY DEF PaperInv, Reported
<1>2. ASSUME step = "closed"
      PROVE  outcome = IF Paper!Path[scenario][walked] > sl THEN "WIN"
                       ELSE IF sl = 0 THEN "BREAKEVEN" ELSE "LOSS"
  <2>1. /\ scenario \in {"A", "B", "C"} /\ sl \in {-RISK, 0} /\ RISK \in Nat \ {0}
        /\ walked = Len(Paper!Path[scenario]) /\ outcome = Paper!OutcomeOf[scenario]
    BY <1>2, Paths, DeskAssumption DEF PaperInv, Reported, Paper!TypeOK, Paper!InitialStop
  <2>2. CASE scenario = "A"
    BY <2>1, <2>2, Paths DEF Paper!OutcomeOf
  <2>3. CASE scenario = "B"
    BY <2>1, <2>3, Paths DEF Paper!OutcomeOf, PaperInv, Rehearsed
  <2>4. CASE scenario = "C"
    BY <2>1, <2>4, Paths DEF Paper!OutcomeOf, PaperInv, Rehearsed
  <2> QED
    BY <2>1, <2>2, <2>3, <2>4
<1> QED
  BY <1>1, <1>2 DEF Paper!DrillOutcomeHonest

\* For every distance of the stop and every buffer below it, a rehearsal reports
\* the outcome that the manager's own actions lead to.
THEOREM DrillOutcome == MCSpec => []DrillOutcomeHonest
<1>1. MCInit => PaperInv
  BY PaperInit DEF MCInit
<1>2. PaperInv /\ [MCNext]_mc_vars => PaperInv'
  BY PaperStep, PaperFrame
<1> QED
  BY <1>1, <1>2, Outcomes, PTL DEF MCSpec

-----------------------------------------------------------------------------
(* The position manager.  While nobody changes the position by hand, what a   *)
(* pending action was computed from is still so (AsSeen): each kind of action *)
(* comes once in a pass, and none of them disturbs another's ground.          *)

AsSeen ==
  ~by_hand =>
    /\ "MOVE_SL_TO_BE" \in todo => stop < BUFFER
    /\ "PARTIAL_CLOSE" \in todo => volume = seen.volume

ManagerInv == Manager!TypeOK /\ AsSeen

\* Stops and volumes are whole numbers.
LEMMA StopsAreWhole ==
  /\ Manager!Stops \subseteq Int /\ Prices \subseteq Manager!Stops /\ BUFFER \in Manager!Stops
  /\ Manager!InitialStop \in Manager!Stops /\ Manager!FarStop \in Manager!Stops
<1>1. Manager!InitialStop \in Int /\ Manager!FarStop \in Int
  BY DeskAssumption DEF Manager!InitialStop, Manager!FarStop
<1>2. BUFFER \in Int /\ Prices \subseteq Int
  BY DeskAssumption
<1> QED
  BY <1>1, <1>2 DEF Manager!Stops

LEMMA ManagerTypes ==
  ASSUME Manager!TypeOK
  PROVE  /\ price \in Int /\ stop \in Int /\ volume \in 0..VOLUME /\ seen.volume \in 0..VOLUME
         /\ VOLUME \in Nat /\ BUFFER \in Int
         /\ Manager!View \in Manager!Views
<1>1. Prices \subseteq Int
  BY DeskAssumption
<1>2. BUFFER \in Int /\ VOLUME \in Nat
  BY DeskAssumption
<1>3. price \in Prices /\ stop \in Manager!Stops /\ volume \in 0..VOLUME /\ seen \in Manager!Views
  BY DEF Manager!TypeOK
<1>4. Manager!View \in Manager!Views
  BY <1>3 DEF Manager!View, Manager!Views
<1>5. seen.volume \in 0..VOLUME
  BY <1>3 DEF Manager!Views
<1> QED
  BY <1>1, <1>2, <1>3, <1>4, <1>5, StopsAreWhole

LEMMA ManagerInit == Manager!Init => ManagerInv
<1> SUFFICES ASSUME Manager!Init PROVE ManagerInv
  OBVIOUS
<1>1. price \in Prices /\ stop \in Manager!Stops /\ volume = VOLUME /\ VOLUME \in 0..VOLUME
  BY DeskAssumption, StopsAreWhole DEF Manager!Init
<1>2. seen \in Manager!Views
  BY <1>1 DEF Manager!Init, Manager!View, Manager!Views
<1>3. todo = {} /\ status = "pending" /\ by_hand \in BOOLEAN /\ initial_known \in BOOLEAN
  BY DEF Manager!Init
<1> QED
  BY <1>1, <1>2, <1>3 DEF ManagerInv, Manager!TypeOK, AsSeen

LEMMA PassStarts ==
  ASSUME ManagerInv, NEW efde_exit \in BOOLEAN, Manager!ManagePosition(efde_exit)
  PROVE  ManagerInv'
<1> USE DEF ManagerInv, Manager!ManagePosition
<1>1. todo' \subseteq Manager!Actions
  BY DEF Manager!Recommended, Manager!Actions
<1>2. "MOVE_SL_TO_BE" \in todo' => stop < BUFFER
  BY DEF Manager!Recommended, Manager!ShouldMoveToBreakeven, Manager!Rank
<1>3. seen' \in Manager!Views /\ seen'.volume = volume
  BY ManagerTypes DEF Manager!View
<1> QED
  BY <1>1, <1>2, <1>3 DEF Manager!TypeOK, AsSeen

\* What is left to do of a pass is what was there, but for the action just done.
LEMMA PassGoesOn ==
  ASSUME ManagerInv, NEW action, Manager!Done(action)
  PROVE  /\ action \in todo /\ todo' = todo \ {action} /\ todo' \subseteq Manager!Actions
         /\ UNCHANGED <<price, seen, initial_known, by_hand>>
BY DEF ManagerInv, Manager!TypeOK, Manager!Done, Manager!Foremost

LEMMA ManagerStep ==
  ASSUME ManagerInv, [Manager!Next]_manager_vars
  PROVE  ManagerInv'
<1> USE ManagerTypes DEF ManagerInv
<1>1. ASSUME NEW invalid \in BOOLEAN, Manager!ManagePendingOrder(invalid) PROVE ManagerInv'
  BY <1>1 DEF Manager!ManagePendingOrder, Manager!TypeOK, AsSeen, Manager!Actions, Manager!Rank
<1>2. CASE Manager!NothingSent
  BY <1>2, PassGoesOn DEF Manager!NothingSent, Manager!TypeOK, AsSeen
<1>3. CASE Manager!MoveToBreakeven
  BY <1>3, PassGoesOn, StopsAreWhole DEF Manager!MoveToBreakeven, Manager!TypeOK, AsSeen
<1>4. CASE Manager!PartialClose
  <2>1. /\ Manager!Done("PARTIAL_CLOSE") /\ stop' = stop
        /\ status' \in {"open", "partialled away"} /\ volume' \in 0..VOLUME
    <3>1. PICK v \in 1..volume : volume' = volume - v
      BY <1>4 DEF Manager!PartialClose
    <3>2. volume' \in 0..VOLUME
      BY <3>1
    <3> QED
      BY <1>4, <3>2 DEF Manager!PartialClose
  <2> QED
    BY <2>1, PassGoesOn DEF Manager!TypeOK, AsSeen
<1>5. CASE Manager!CancelPending
  BY <1>5, PassGoesOn DEF Manager!CancelPending, Manager!TypeOK, AsSeen
<1>6. ASSUME NEW p \in Prices, Manager!PriceMoves(p) PROVE ManagerInv'
  <2>1. status' \in {status, "stopped", "open"}
    BY <1>6 DEF Manager!PriceMoves
  <2> QED
    BY <1>6, <2>1 DEF Manager!PriceMoves, Manager!TypeOK, AsSeen
<1>7. ASSUME NEW s \in Prices, Manager!TrailByHand(s) PROVE ManagerInv'
  BY <1>7, StopsAreWhole DEF Manager!TrailByHand, Manager!TypeOK, AsSeen
<1>8. ASSUME NEW v \in 0..volume - 1, Manager!ReduceByHand(v) PROVE ManagerInv'
  <2>1. volume' = v /\ status' \in {"by hand", "open"} /\ by_hand' = TRUE
    BY <1>8 DEF Manager!ReduceByHand
  <2>2. v \in 0..VOLUME
    BY <1>8
  <2> QED
    BY <1>8, <2>1, <2>2 DEF Manager!ReduceByHand, Manager!TypeOK, AsSeen
<1>9. CASE UNCHANGED manager_vars
  BY <1>9 DEF manager_vars, Manager!TypeOK, AsSeen
<1> QED
  BY <1>1, <1>2, <1>3, <1>4, <1>5, <1>6, <1>7, <1>8, <1>9, PassStarts DEF Manager!Next

LEMMA ManagerFrame == [MCNext]_mc_vars => [Manager!Next]_manager_vars
BY DEF MCNext, mc_vars, desk_vars, Reviewing, manager_vars

\* 30 % of a position, rounded, is less than the position.
LEMMA PartialIsLess ==
  ASSUME NEW n \in Nat, NEW v \in Manager!PartialVolumes(n), v > 0
  PROVE  v < n
BY DEF Manager!PartialVolumes

LEMMA NothingTakenBack ==
  ASSUME ManagerInv
  PROVE  /\ Manager!MoveToBreakeven => stop' >= stop \/ by_hand
         /\ Manager!PartialClose => status' = "open" \/ by_hand
<1> USE ManagerTypes DEF ManagerInv
<1>1. ASSUME Manager!MoveToBreakeven, ~by_hand PROVE stop' >= stop
  BY <1>1, PassGoesOn DEF Manager!MoveToBreakeven, AsSeen
<1>2. ASSUME Manager!PartialClose, ~by_hand PROVE status' = "open"
  <2>1. volume = seen.volume
    BY <1>2, PassGoesOn DEF Manager!PartialClose, AsSeen
  <2>2. \A v \in Manager!PartialVolumes(seen.volume) \cap 1..volume : v # volume
    BY <2>1, PartialIsLess
  <2> QED
    BY <1>2, <2>2 DEF Manager!PartialClose
<1> QED
  BY <1>1, <1>2

\* For all prices, volumes and distances: a stop trailed past breakeven and the
\* last of a position are taken back only when the human moved first.
THEOREM CareKept == MCSpec => CareTakesNothingBack
<1>1. MCInit => ManagerInv
  BY ManagerInit DEF MCInit
<1>2. ManagerInv /\ [MCNext]_mc_vars => ManagerInv'
  BY ManagerStep, ManagerFrame
<1>3. ManagerInv /\ [MCNext]_mc_vars =>
        [/\ Manager!MoveToBreakeven => stop' >= stop \/ by_hand
         /\ Manager!PartialClose => status' = "open" \/ by_hand]_(Manager!vars)
  BY NothingTakenBack
<1> QED
  BY <1>1, <1>2, <1>3, PTL DEF MCSpec, CareTakesNothingBack, Manager!CareTakesNothingBack
-----------------------------------------------------------------------------
(* The store of signals.  A file is a sequence of lines; its readable lines   *)
(* are numbered upwards, and a setup's identifier is a function of symbol,    *)
(* day and context whichever process wrote it.  What the file lacks is counted *)
(* against the interrupted writes: a half line left open is about to cost the  *)
(* record that will be glued to it, so it counts as one already.              *)

Contexts == UNION {{scan[s].context : s \in DOMAIN scan} : scan \in MCScans}
Bands == {"COLD", "WARM", "HOT", "EXECUTION_READY"}
Line ==
  [n : Nat \ {0}, symbol : Names, on : Nat, context : Contexts, state : Bands,
   id : Names \X Nat \X (Names \X Nat \X Contexts)]
  \cup {Store!Broken}

Readable(lines) == {i \in DOMAIN lines : lines[i] # Store!Broken}
NumbersOf(lines) == {lines[i].n : i \in Readable(lines)}
Identified(line) == line.id = Store!GenerateSetupId(line.symbol, line.on, line.context)

\* A file of which w records have been written completely.
Whole(lines, w) ==
  /\ lines \in Seq(Line)
  /\ \A i \in Readable(lines) : lines[i].n <= w /\ Identified(lines[i])
  /\ \A i, j \in Readable(lines) : i < j => lines[i].n < lines[j].n

\* Records that are gone, and those gone although an older one is there.
Missing(lines, w) == 1..w \ NumbersOf(lines)
Skipped(lines, w) == {n \in Missing(lines, w) : \E m \in NumbersOf(lines) : m < n}

Open(flag) == IF flag THEN 1 ELSE 0

ActiveIsIdentified ==
  /\ active \in [Names -> [key : {<<>>} \cup Names \X Nat \X Contexts,
                           id : {<<>>} \cup Names \X Nat \X (Names \X Nat \X Contexts)]]
  /\ \A s \in Names, on \in Nat, c \in Contexts :
       active[s].key = <<s, on, c>> => active[s].id = Store!GenerateSetupId(s, on, c)

StoreCounts ==
  /\ open_end \in BOOLEAN /\ since \in Nat /\ date \in Nat
  /\ written \in Nat /\ cuts \in Nat /\ starts \in Nat \ {0} /\ untrimmed \in Nat

LastIsHalf == open_end => file # <<>> /\ file[Len(file)] = Store!Broken

LossesAreCounted ==
  /\ Cardinality(Skipped(file, written)) + Open(open_end) <= cuts
  /\ \/ Len(file) >= MAX_RECORDS
     \/ Cardinality(Missing(file, written)) + Open(open_end) <= cuts

\* What the processes before left uncounted, what the interrupted writes left, and
\* what was counted at the failed trims since the last one that cut the file.
Uncounted == (SLACK - 1) * (starts - 1)
Stray == Store!MostAtOnce * cuts
Untrimmed == (SLACK - 1 + Store!MostAtOnce) * untrimmed

LengthIsBounded ==
  MAX_RECORDS > 0 =>
    /\ since < SLACK
    /\ Len(file) <= MAX_RECORDS + since + Uncounted + Stray + Untrimmed

StoreInv ==
  /\ StoreCounts /\ Whole(file, written) /\ ActiveIsIdentified /\ LastIsHalf
  /\ LossesAreCounted /\ LengthIsBounded

\* Lines to be added after record number first: k records, then broken lines.
Numbered(lines, first, k) ==
  /\ lines \in Seq(Line) /\ k \in 0..Len(lines)
  /\ \A i \in 1..Len(lines) :
       IF i <= k THEN lines[i] # Store!Broken /\ lines[i].n = first + i /\ Identified(lines[i])
                 ELSE lines[i] = Store!Broken

\* The k numbers after n.
Following(n, k) == {n + i : i \in 1..k}

\* All the lines of a file are there, and more lines, k of them readable.
LongerBy(all, lines, more, k) ==
  /\ all \in Seq(Line) /\ Len(all) = Len(lines) + Len(more)
  /\ Readable(all) = Readable(lines) \cup Following(Len(lines), k)
  /\ \A i \in Readable(lines) : all[i] = lines[i] /\ i <= Len(lines)
  /\ \A i \in 1..k : all[Len(lines) + i] = more[i]

\* The store's copy of the library.
LEMMA OneCardinality ==
  ASSUME NEW S
  PROVE  Store!Cardinality(S) = Cardinality(S)
BY DEF Store!Cardinality, Cardinality, Store!IsFiniteSet, IsFiniteSet

LEMMA StoreScans ==
  ASSUME NEW scan \in MCScans
  PROVE  /\ DOMAIN scan \subseteq Names /\ IsFiniteSet(DOMAIN scan)
         /\ Cardinality(DOMAIN scan) \in Nat /\ Cardinality(DOMAIN scan) <= Store!MostAtOnce
         /\ \A s \in DOMAIN scan : scan[s].context \in Contexts /\ scan[s].state \in Bands
<1>1. DOMAIN scan \subseteq Names
  BY StoreAssumption DEF MCScans
<1>2. IsFiniteSet(DOMAIN scan) /\ Cardinality(DOMAIN scan) <= Cardinality(Names)
  BY <1>1, StoreAssumption, FS_Subset
<1>3. Cardinality(DOMAIN scan) \in Nat
  BY <1>2, FS_CardinalityType
<1>4. \A s \in DOMAIN scan : scan[s].context \in Contexts
  BY DEF Contexts
<1>5. \A s \in DOMAIN scan : scan[s].state \in Bands
  BY DEF MCScans, Seen, Bands
<1> QED
  BY <1>1, <1>2, <1>3, <1>4, <1>5, OneCardinality DEF Store!MostAtOnce

LEMMA SetListed ==
  ASSUME NEW S, IsFiniteSet(S)
  PROVE  Store!SetToSeq(S) \in [1..Cardinality(S) -> S]
<1>1. PICK f \in Injection(1..Cardinality(S), S) : TRUE
  BY FS_CardinalityType DEF ExistsBijection, Bijection
<1>2. f \in [1..Store!Cardinality(S) -> S] /\ Store!IsInjective(f)
  BY <1>1, OneCardinality DEF Injection, IsInjective, Store!IsInjective
<1> QED
  BY <1>2, OneCardinality DEF Store!SetToSeq

LEMMA KeptIdentifier ==
  ASSUME StoreCounts, ActiveIsIdentified, NEW s \in Names, NEW c \in Contexts
  PROVE  Store!SetupIdFor(s, c) = Store!GenerateSetupId(s, date, c)
BY DEF StoreCounts, ActiveIsIdentified, Store!SetupIdFor, Store!SetupKey

LEMMA NewRecords ==
  ASSUME StoreCounts, ActiveIsIdentified, NEW scan \in MCScans
  PROVE  /\ Numbered(Store!Records(scan), written, Cardinality(DOMAIN scan))
         /\ Len(Store!Records(scan)) = Cardinality(DOMAIN scan)
<1> DEFINE symbols == Store!SetToSeq(DOMAIN scan)
           many == Cardinality(DOMAIN scan)
           made(i) == [n |-> written + i, symbol |-> symbols[i], on |-> date,
                       context |-> scan[symbols[i]].context, state |-> scan[symbols[i]].state,
                       id |-> Store!SetupIdFor(symbols[i], scan[symbols[i]].context)]
<1>1. symbols \in [1..many -> DOMAIN scan] /\ many \in Nat
  BY StoreScans, SetListed
<1>2. Store!Records(scan) = [i \in 1..many |-> made(i)]
  BY <1>1 DEF Store!Records
<1>3. ASSUME NEW i \in 1..many
      PROVE  /\ made(i) \in Line /\ made(i) # Store!Broken /\ made(i).n = written + i
             /\ Identified(made(i))
  <2>1. symbols[i] \in DOMAIN scan
    BY <1>1
  <2> HIDE DEF symbols
  <2>2. /\ symbols[i] \in Names /\ scan[symbols[i]].context \in Contexts
        /\ scan[symbols[i]].state \in Bands
    BY <2>1, StoreScans
  <2>3. made(i).id = <<symbols[i], date, <<symbols[i], date, scan[symbols[i]].context>>>>
    BY <2>2, KeptIdentifier DEF Store!GenerateSetupId, Store!SetupKey
  <2>4. written + i \in Nat \ {0} /\ date \in Nat
    BY <1>1 DEF StoreCounts
  <2>5. made(i) \in Line
    BY <2>2, <2>3, <2>4 DEF Line
  <2>6. made(i) # Store!Broken
    BY <2>4 DEF Store!Broken
  <2> QED
    BY <2>3, <2>5, <2>6 DEF Identified, Store!GenerateSetupId, Store!SetupKey
<1> HIDE DEF made, symbols, many
<1>4. Store!Records(scan) \in Seq(Line)
  BY <1>1, <1>2, <1>3
<1>5. Len(Store!Records(scan)) = many
  BY <1>1, <1>2
<1> QED
  BY <1>1, <1>2, <1>3, <1>4, <1>5 DEF Numbered, many

\* Lines added after a file's own.
LEMMA LinesJoined ==
  ASSUME NEW lines, NEW w, Whole(lines, w), NEW more, NEW first, NEW k, Numbered(more, first, k)
  PROVE  LongerBy(lines \o more, lines, more, k)
<1> DEFINE all == lines \o more
<1>1. lines \in Seq(Line) /\ more \in Seq(Line) /\ Len(lines) \in Nat /\ Len(more) \in Nat
  BY DEF Whole, Numbered
<1>2. /\ all \in Seq(Line) /\ Len(all) = Len(lines) + Len(more)
      /\ \A i \in 1..Len(lines) + Len(more) :
           all[i] = IF i <= Len(lines) THEN lines[i] ELSE more[i - Len(lines)]
  BY <1>1, ConcatProperties
<1>3. DOMAIN all = 1..Len(lines) + Len(more) /\ DOMAIN lines = 1..Len(lines)
  BY <1>1, <1>2
<1> HIDE DEF all
<1>4. \A i \in Readable(lines) : all[i] = lines[i] /\ i <= Len(lines) /\ i \in Readable(all)
  BY <1>1, <1>2, <1>3 DEF Readable
<1>5. \A i \in 1..k : all[Len(lines) + i] = more[i] /\ Len(lines) + i \in Readable(all)
  <2> TAKE i \in 1..k
  <2>1. i \in 1..Len(more) /\ more[i] # Store!Broken
    BY <1>1 DEF Numbered
  <2>2. Len(lines) + i \in 1..Len(lines) + Len(more) /\ ~(Len(lines) + i <= Len(lines))
    BY <1>1, <2>1
  <2>3. all[Len(lines) + i] = more[i]
    BY <1>1, <1>2, <2>1, <2>2
  <2> QED
    BY <1>3, <2>1, <2>2, <2>3 DEF Readable
<1>6. ASSUME NEW j \in Readable(all), j \notin Readable(lines)
      PROVE  \E i \in 1..k : j = Len(lines) + i
  <2>1. j \in 1..Len(lines) + Len(more) /\ all[j] # Store!Broken
    BY <1>3 DEF Readable
  <2>2. j > Len(lines)
    BY <1>1, <1>2, <1>3, <1>6, <2>1 DEF Readable
  <2>3. j - Len(lines) \in 1..Len(more) /\ all[j] = more[j - Len(lines)]
    BY <1>1, <1>2, <2>1, <2>2
  <2>4. j - Len(lines) \in 1..k
    BY <1>1, <2>1, <2>3 DEF Numbered
  <2> QED
    BY <1>1, <2>1, <2>4
<1>7. Readable(all) = Readable(lines) \cup Following(Len(lines), k)
  BY <1>4, <1>5, <1>6 DEF Following
<1> QED
  BY <1>2, <1>4, <1>5, <1>7 DEF all, LongerBy

LEMMA RecordsJoined ==
  ASSUME NEW lines, NEW w \in Nat, Whole(lines, w),
         NEW more, NEW first \in {w, w + 1}, NEW k, Numbered(more, first, k),
         NEW v \in Nat, w <= v, v <= first + k, k > 0 => first + k <= v
  PROVE  /\ Whole(lines \o more, v)
         /\ NumbersOf(lines \o more) = NumbersOf(lines) \cup Following(first, k)
<1> DEFINE all == lines \o more
           numbers == Following(first, k)
           added == Following(Len(lines), k)
<1>0. LongerBy(all, lines, more, k)
  BY LinesJoined
<1> HIDE DEF all
<1>1. /\ all \in Seq(Line) /\ Readable(all) = Readable(lines) \cup added
      /\ \A i \in Readable(lines) : all[i] = lines[i] /\ i <= Len(lines)
      /\ \A i \in 1..k : all[Len(lines) + i] = more[i]
  BY <1>0 DEF LongerBy
<1>2. /\ Len(lines) \in Nat /\ k \in Nat /\ Readable(lines) \subseteq Nat
      /\ \A i \in 1..k : more[i].n = first + i /\ Identified(more[i])
  BY DEF Whole, Numbered, Readable
<1>3. \A i \in Readable(lines) : lines[i].n <= w /\ lines[i].n \in Nat /\ Identified(lines[i])
  <2> TAKE i \in Readable(lines)
  <2>1. lines[i] \in Line /\ lines[i] # Store!Broken
    BY DEF Whole, Readable
  <2>2. lines[i].n \in Nat
    BY <2>1 DEF Line
  <2> QED
    BY <2>2 DEF Whole
<1>4. ASSUME NEW x \in added
      PROVE  \E i \in 1..k : x = Len(lines) + i /\ all[x].n = first + i /\ Identified(all[x])
  <2>1. PICK i \in 1..k : x = Len(lines) + i
    BY DEF Following
  <2>2. all[x] = more[i]
    BY <1>1, <2>1
  <2> QED
    BY <1>2, <2>1, <2>2
<1> HIDE DEF added
<1>5. \A x \in Readable(all) : all[x].n <= v /\ Identified(all[x])
  <2> TAKE x \in Readable(all)
  <2>1. CASE x \in Readable(lines)
    <3>1. all[x] = lines[x] /\ lines[x].n \in Nat /\ lines[x].n <= w /\ Identified(lines[x])
      BY <1>1, <1>3, <2>1
    <3> QED
      BY <3>1
  <2>2. CASE x \in added
    <3>1. PICK i \in 1..k : all[x].n = first + i /\ Identified(all[x])
      BY <1>4, <2>2
    <3> QED
      BY <1>2, <3>1
  <2> QED
    BY <1>1, <2>1, <2>2
<1>6. ASSUME NEW i \in Readable(all), NEW j \in Readable(all), i < j
      PROVE  all[i].n < all[j].n
  <2>1. CASE i \in Readable(lines) /\ j \in Readable(lines)
    BY <1>1, <1>6, <2>1 DEF Whole
  <2>2. CASE i \in Readable(lines) /\ j \in added
    <3>1. all[i].n \in Nat /\ all[i].n <= w
      BY <1>1, <1>3, <2>2
    <3>2. PICK q \in 1..k : all[j].n = first + q
      BY <1>4, <2>2
    <3> QED
      BY <1>2, <3>1, <3>2
  <2>3. CASE i \in added /\ j \in Readable(lines)
    <3>1. j <= Len(lines) /\ j \in Nat
      BY <1>1, <1>2, <2>3
    <3>2. PICK p \in 1..k : i = Len(lines) + p
      BY <1>4, <2>3
    <3> QED
      BY <1>2, <1>6, <3>1, <3>2
  <2>4. CASE i \in added /\ j \in added
    <3>1. PICK p \in 1..k : i = Len(lines) + p /\ all[i].n = first + p
      BY <1>4, <2>4
    <3>2. PICK q \in 1..k : j = Len(lines) + q /\ all[j].n = first + q
      BY <1>4, <2>4
    <3> QED
      BY <1>2, <1>6, <3>1, <3>2
  <2> QED
    BY <1>1, <2>1, <2>2, <2>3, <2>4
<1>7. NumbersOf(all) = NumbersOf(lines) \cup numbers
  <2>1. \A i \in Readable(lines) : lines[i].n \in NumbersOf(all)
    BY <1>1 DEF NumbersOf
  <2>2. \A i \in 1..k : first + i \in NumbersOf(all)
    <3> TAKE i \in 1..k
    <3>1. Len(lines) + i \in Readable(all) /\ all[Len(lines) + i].n = first + i
      BY <1>1, <1>2 DEF added, Following
    <3> QED
      BY <3>1 DEF NumbersOf
  <2>3. \A x \in Readable(all) : all[x].n \in NumbersOf(lines) \cup numbers
    <3> TAKE x \in Readable(all)
    <3>1. CASE x \in Readable(lines)
      BY <1>1, <3>1 DEF NumbersOf
    <3>2. CASE x \in added
      BY <1>4, <3>2 DEF Following
    <3> QED
      BY <1>1, <3>1, <3>2
  <2> QED
    BY <2>1, <2>2, <2>3 DEF NumbersOf, Following
<1> QED
  BY <1>1, <1>5, <1>6, <1>7 DEF Whole, all

LEMMA NumbersType ==
  ASSUME NEW lines, NEW w \in Nat, Whole(lines, w)
  PROVE  NumbersOf(lines) \subseteq 1..w
<1> SUFFICES ASSUME NEW n \in NumbersOf(lines) PROVE n \in 1..w
  OBVIOUS
<1>1. PICK i \in Readable(lines) : n = lines[i].n
  BY DEF NumbersOf
<1>2. lines[i] \in Line /\ lines[i] # Store!Broken
  BY DEF Whole, Readable
<1>3. n \in Nat \ {0}
  BY <1>1, <1>2 DEF Line
<1> QED
  BY <1>1, <1>3 DEF Whole

LEMMA LossesType ==
  ASSUME NEW lines, NEW w \in Nat
  PROVE  /\ IsFiniteSet(Missing(lines, w)) /\ Cardinality(Missing(lines, w)) \in Nat
         /\ IsFiniteSet(Skipped(lines, w)) /\ Cardinality(Skipped(lines, w)) \in Nat
<1>1. IsFiniteSet(1..w)
  BY FS_Interval
<1>2. Missing(lines, w) \subseteq 1..w /\ Skipped(lines, w) \subseteq 1..w
  BY DEF Missing, Skipped
<1> QED
  BY <1>1, <1>2, FS_Subset, FS_CardinalityType

\* At most the numbers up to first are lost in addition.
LEMMA MoreLost ==
  ASSUME NEW A, NEW B, IsFiniteSet(B), NEW w \in Nat, NEW first \in {w, w + 1},
         A \subseteq B \cup (w + 1..first)
  PROVE  Cardinality(A) <= Cardinality(B) + (first - w)
<1> DEFINE U == B \cup (w + 1..first)
           I == B \cap (w + 1..first)
<1>1. IsFiniteSet(w + 1..first) /\ Cardinality(w + 1..first) = first - w
  BY FS_Interval
<1>2. IsFiniteSet(I) /\ Cardinality(I) \in Nat
  BY FS_Intersection, FS_CardinalityType
<1>3. IsFiniteSet(U) /\ Cardinality(U) = Cardinality(B) + Cardinality(w + 1..first) - Cardinality(I)
  BY <1>1, FS_Union
<1>4. IsFiniteSet(A) /\ Cardinality(A) <= Cardinality(U)
  BY <1>3, FS_Subset
<1>5. Cardinality(A) \in Nat /\ Cardinality(B) \in Nat
  BY <1>4, FS_CardinalityType
<1> HIDE DEF U, I
<1> QED
  BY <1>1, <1>2, <1>3, <1>4, <1>5

LEMMA LossesJoined ==
  ASSUME NEW lines, NEW w \in Nat, Whole(lines, w),
         NEW more, NEW first \in {w, w + 1}, NEW k, Numbered(more, first, k),
         NEW v \in Nat, w <= v, v <= first + k, k > 0 => first + k <= v
  PROVE  /\ Cardinality(Missing(lines \o more, v)) <= Cardinality(Missing(lines, w)) + (first - w)
         /\ Cardinality(Skipped(lines \o more, v)) <= Cardinality(Skipped(lines, w)) + (first - w)
<1> DEFINE all == lines \o more
<1>1. NumbersOf(all) = NumbersOf(lines) \cup Following(first, k) /\ NumbersOf(lines) \subseteq 1..w
  BY RecordsJoined, NumbersType
<1>2. k \in Nat
  BY DEF Numbered, Whole
<1> HIDE DEF all
<1>3. \A n \in w + 1..v : n \in NumbersOf(all) \/ n \in w + 1..first
  <2> TAKE n \in w + 1..v
  <2> SUFFICES ASSUME n > first PROVE n \in Following(first, k)
    BY <1>1
  <2>1. n - first \in 1..k /\ n = first + (n - first)
    BY <1>2
  <2> QED
    BY <2>1 DEF Following
<1>4. Missing(all, v) \subseteq Missing(lines, w) \cup (w + 1..first)
  <2> SUFFICES ASSUME NEW n \in Missing(all, v) PROVE n \in Missing(lines, w) \cup (w + 1..first)
    OBVIOUS
  <2>1. n \in 1..v /\ n \notin NumbersOf(all)
    BY DEF Missing
  <2>2. CASE n <= w
    BY <1>1, <2>1, <2>2 DEF Missing
  <2>3. CASE n > w
    BY <1>3, <2>1, <2>3
  <2> QED
    BY <2>1, <2>2, <2>3
<1>5. Skipped(all, v) \subseteq Skipped(lines, w) \cup (w + 1..first)
  <2> SUFFICES ASSUME NEW n \in Skipped(all, v) PROVE n \in Skipped(lines, w) \cup (w + 1..first)
    OBVIOUS
  <2>1. PICK m \in NumbersOf(all) : m < n
    BY DEF Skipped
  <2>2. n \in Missing(lines, w) \cup (w + 1..first)
    BY <1>4 DEF Skipped
  <2>3. CASE n \in Missing(lines, w)
    <3>1. m \notin Following(first, k)
      BY <2>1, <2>3 DEF Following, Missing
    <3> QED
      BY <1>1, <2>1, <2>3, <3>1 DEF Skipped
  <2> QED
    BY <2>2, <2>3
<1> QED
  BY <1>4, <1>5, MoreLost, LossesType DEF all

\* The half line that is glued to the first new one is broken before and after.
LEMMA LinesAppended ==
  ASSUME NEW lines \in Seq(Line), file \in Seq(Line), LastIsHalf
  PROVE  Store!Appended(lines) =
           file \o (IF open_end /\ lines # <<>> THEN Tail(lines) ELSE lines)
<1>1. CASE ~(open_end /\ lines # <<>>)
  BY <1>1 DEF Store!Appended
<1>2. CASE open_end /\ lines # <<>>
  <2> DEFINE half == <<Store!Broken>>
             glued == Store!Front(file) \o half
             rest == Tail(lines)
  <2>1. Store!Appended(lines) = glued \o rest
    BY <1>2 DEF Store!Appended
  <2>2. /\ Len(file) \in Nat \ {0} /\ file[Len(file)] = Store!Broken
        /\ \A i \in 1..Len(file) : file[i] \in Line
    BY <1>2 DEF LastIsHalf
  <2>3. half \in Seq(Line) /\ Len(half) = 1 /\ half[1] = Store!Broken
    BY DEF Line
  <2> HIDE DEF half
  <2>4. /\ Store!Front(file) \in Seq(Line) /\ Len(Store!Front(file)) = Len(file) - 1
        /\ \A i \in 1..Len(file) - 1 : Store!Front(file)[i] = file[i]
    <3> DEFINE n == Len(file) - 1
    <3>1. n \in Nat /\ \A i \in 1..n : file[i] \in Line
      BY <2>2
    <3>2. /\ SubSeq(file, 1, n) \in Seq(Line) /\ Len(SubSeq(file, 1, n)) = IF 1 <= n THEN n - 1 + 1 ELSE 0
          /\ \A i \in 1..n - 1 + 1 : SubSeq(file, 1, n)[i] = file[1 + i - 1]
      <4> HIDE DEF n
      <4> QED
        BY <3>1, SubSeqProperties
    <3>3. Store!Front(file) = SubSeq(file, 1, n)
      BY DEF Store!Front
    <3> HIDE DEF n
    <3>4. /\ Store!Front(file) \in Seq(Line) /\ Len(Store!Front(file)) = n
          /\ \A i \in 1..n : Store!Front(file)[i] = file[i]
      BY <3>1, <3>2, <3>3
    <3> QED
      BY <3>4 DEF n
  <2>5. /\ glued \in Seq(Line) /\ Len(glued) = Len(file)
        /\ \A i \in 1..Len(file) : glued[i] = IF i <= Len(file) - 1 THEN file[i] ELSE half[i - (Len(file) - 1)]
    <3> DEFINE front == Store!Front(file)
    <3> HIDE DEF front
    <3>1. front \in Seq(Line) /\ Len(front) = Len(file) - 1 /\ \A i \in 1..Len(file) - 1 : front[i] = file[i]
      BY <2>4 DEF front
    <3>2. /\ front \o half \in Seq(Line) /\ Len(front \o half) = Len(file)
          /\ \A i \in 1..Len(file) :
               (front \o half)[i] = IF i <= Len(front) THEN front[i] ELSE half[i - Len(front)]
      <4>1. Len(front) + Len(half) = Len(file)
        BY <2>2, <2>3, <3>1
      <4>2. /\ front \o half \in Seq(Line) /\ Len(front \o half) = Len(front) + Len(half)
            /\ \A i \in 1..Len(front) + Len(half) :
                 (front \o half)[i] = IF i <= Len(front) THEN front[i] ELSE half[i - Len(front)]
        BY <2>3, <3>1, ConcatProperties
      <4> QED
        BY <4>1, <4>2
    <3>3. \A i \in 1..Len(file) :
            (front \o half)[i] = IF i <= Len(file) - 1 THEN file[i] ELSE half[i - (Len(file) - 1)]
      BY <2>2, <3>1, <3>2
    <3> QED
      BY <3>2, <3>3 DEF front
  <2>6. \A i \in 1..Len(file) : glued[i] = file[i]
    <3> TAKE i \in 1..Len(file)
    <3>1. CASE i = Len(file)
      BY <2>2, <2>3, <2>5, <3>1
    <3>2. CASE i # Len(file)
      BY <2>2, <2>5, <3>2
    <3> QED
      BY <3>1, <3>2
  <2> HIDE DEF glued, rest
  <2>7. glued = file
    BY <2>5, <2>6, SeqEqual
  <2> QED
    BY <1>2, <2>1, <2>7 DEF rest
<1> QED
  BY <1>1, <1>2

LEMMA TailNumbered ==
  ASSUME NEW lines, NEW w \in Nat, NEW k, Numbered(lines, w, k), lines # <<>>
  PROVE  Numbered(Tail(lines), w + 1, IF k = 0 THEN 0 ELSE k - 1)
<1> DEFINE fewer == IF k = 0 THEN 0 ELSE k - 1
<1>1. /\ lines \in Seq(Line) /\ k \in 0..Len(lines) /\ Len(lines) \in Nat \ {0}
      /\ \A i \in 1..Len(lines) :
           IF i <= k THEN lines[i] # Store!Broken /\ lines[i].n = w + i /\ Identified(lines[i])
                     ELSE lines[i] = Store!Broken
  BY EmptySeq DEF Numbered
<1>2. /\ Tail(lines) \in Seq(Line) /\ Len(Tail(lines)) = Len(lines) - 1
      /\ \A i \in 1..Len(lines) - 1 : Tail(lines)[i] = lines[i + 1]
  BY <1>1, HeadTailProperties
<1>3. fewer \in 0..Len(lines) - 1
  BY <1>1
<1>4. ASSUME NEW i \in 1..Len(lines) - 1
      PROVE  IF i <= fewer THEN /\ Tail(lines)[i] # Store!Broken /\ Tail(lines)[i].n = w + 1 + i
                                /\ Identified(Tail(lines)[i])
             ELSE Tail(lines)[i] = Store!Broken
  <2>1. i + 1 \in 1..Len(lines) /\ (i <= fewer <=> i + 1 <= k) /\ w + 1 + i = w + (i + 1)
    BY <1>1
  <2> QED
    BY <1>1, <1>2, <2>1
<1> HIDE DEF fewer
<1> QED
  BY <1>2, <1>3, <1>4 DEF Numbered, fewer

LEMMA FileAppended ==
  ASSUME StoreCounts, Whole(file, written), LastIsHalf, NEW lines, NEW k, Numbered(lines, written, k)
  PROVE  /\ Whole(Store!Appended(lines), written + k) /\ k \in Nat
         /\ Cardinality(Missing(Store!Appended(lines), written + k))
              <= Cardinality(Missing(file, written)) + Open(open_end)
         /\ Cardinality(Skipped(Store!Appended(lines), written + k))
              <= Cardinality(Skipped(file, written)) + Open(open_end)
         /\ Len(Store!Appended(lines)) \in Len(file)..Len(file) + Len(lines)
         /\ lines = <<>> => Store!Appended(lines) = file
         /\ lines # <<>> /\ lines[Len(lines)] = Store!Broken =>
              LET all == Store!Appended(lines) IN all # <<>> /\ all[Len(all)] = Store!Broken
<1> DEFINE glue == open_end /\ lines # <<>>
           more == IF glue THEN Tail(lines) ELSE lines
           first == IF glue THEN written + 1 ELSE written
           many == IF glue THEN IF k = 0 THEN 0 ELSE k - 1 ELSE k
           all == file \o more
<1>1. /\ lines \in Seq(Line) /\ k \in 0..Len(lines) /\ Len(lines) \in Nat
      /\ file \in Seq(Line) /\ Len(file) \in Nat /\ written \in Nat /\ written + k \in Nat
      /\ open_end \in BOOLEAN
  BY DEF Numbered, Whole, StoreCounts
<1>2. Store!Appended(lines) = all
  BY <1>1, LinesAppended
<1>3. Numbered(more, first, many)
  BY <1>1, TailNumbered
<1>4. /\ first \in {written, written + 1} /\ first - written <= Open(open_end)
      /\ written + k <= first + many /\ (many > 0 => first + many <= written + k)
  BY <1>1 DEF Open
<1>5. Whole(all, written + k)
  <2> HIDE DEF more, first, many
  <2> QED
    BY <1>1, <1>3, <1>4, RecordsJoined
<1>6. /\ Cardinality(Missing(all, written + k)) <= Cardinality(Missing(file, written)) + (first - written)
      /\ Cardinality(Skipped(all, written + k)) <= Cardinality(Skipped(file, written)) + (first - written)
  <2> HIDE DEF more, first, many
  <2> QED
    BY <1>1, <1>3, <1>4, LossesJoined
<1>7. /\ Cardinality(Missing(all, written + k)) <= Cardinality(Missing(file, written)) + Open(open_end)
      /\ Cardinality(Skipped(all, written + k)) <= Cardinality(Skipped(file, written)) + Open(open_end)
  <2> HIDE DEF all, more, first, many
  <2>1. /\ Cardinality(Missing(all, written + k)) \in Nat /\ Cardinality(Missing(file, written)) \in Nat
        /\ Cardinality(Skipped(all, written + k)) \in Nat /\ Cardinality(Skipped(file, written)) \in Nat
        /\ Open(open_end) \in Nat /\ first - written \in Int
    BY <1>1, <1>4, LossesType DEF Open
  <2> QED
    BY <1>4, <1>6, <2>1
<1>8. more \in Seq(Line) /\ Len(more) \in Nat
  BY <1>3 DEF Numbered
<1>9. Len(all) = Len(file) + Len(more) /\ \A i \in 1..Len(file) + Len(more) :
        all[i] = IF i <= Len(file) THEN file[i] ELSE more[i - Len(file)]
  <2> HIDE DEF more
  <2> QED
    BY <1>1, <1>8, ConcatProperties
<1>10. Len(more) <= Len(lines)
  BY <1>1, HeadTailProperties
<1>11. lines = <<>> => all = file
  BY <1>1, ConcatEmptySeq
<1>12. ASSUME lines # <<>>, lines[Len(lines)] = Store!Broken
       PROVE  all # <<>> /\ all[Len(all)] = Store!Broken
  <2>1. CASE more = <<>>
    <3>1. all = file
      BY <1>1, <2>1, ConcatEmptySeq
    <3>2. open_end
      BY <1>12, <2>1
    <3> QED
      BY <3>1, <3>2 DEF LastIsHalf
  <2>2. CASE more # <<>>
    <3>1. Len(more) \in Nat \ {0} /\ more[Len(more)] = Store!Broken
      BY <1>1, <1>8, <1>12, <2>2, EmptySeq, HeadTailProperties
    <3>2. Len(all) \in 1..Len(file) + Len(more) /\ ~(Len(all) <= Len(file)) /\ Len(all) - Len(file) = Len(more)
      <4> HIDE DEF all, more
      <4> QED
        BY <1>1, <1>9, <3>1
    <3>3. all[Len(all)] = Store!Broken
      BY <1>9, <3>1, <3>2
    <3>4. Len(all) # 0
      BY <3>2, <1>1
    <3> HIDE DEF all
    <3> QED
      BY <3>3, <3>4
  <2> QED
    BY <2>1, <2>2
<1> HIDE DEF all, more
<1> QED
  BY <1>1, <1>2, <1>5, <1>7, <1>8, <1>9, <1>10, <1>11, <1>12

\* Cutting off the oldest lines loses no record that an older one outlives.
LEMMA FileTrimmed ==
  ASSUME NEW w \in Nat, NEW lines, Whole(lines, w), NEW n \in Nat \ {0}
  PROVE  /\ Whole(Store!Newest(lines, n), w)
         /\ Len(Store!Newest(lines, n)) = IF Len(lines) <= n THEN Len(lines) ELSE n
         /\ Len(lines) <= n => Store!Newest(lines, n) = lines
         /\ Cardinality(Skipped(Store!Newest(lines, n), w)) <= Cardinality(Skipped(lines, w))
<1>1. CASE Len(lines) <= n
  <2>1. Cardinality(Skipped(lines, w)) \in Nat
    BY LossesType
  <2> QED
    BY <1>1, <2>1 DEF Store!Newest
<1>2. CASE ~(Len(lines) <= n)
  <2> DEFINE kept == Store!Newest(lines, n)
  <2>1. lines \in Seq(Line) /\ Len(lines) \in Nat /\ DOMAIN lines = 1..Len(lines)
    BY DEF Whole
  <2>shift. PICK d \in Nat : n = Len(lines) - d /\ d + n = Len(lines)
    <3>1. Len(lines) - n \in Nat
      BY <1>2, <2>1
    <3>2. n = Len(lines) - (Len(lines) - n) /\ Len(lines) - n + n = Len(lines)
      BY <2>1
    <3> WITNESS Len(lines) - n \in Nat
    <3> QED
      BY <3>2
  <2>2. kept = SubSeq(lines, d + 1, Len(lines))
    <3>1. Len(lines) - n + 1 = d + 1
      BY <2>shift, <2>1
    <3> QED
      BY <1>2, <3>1 DEF Store!Newest
  <2>3. \A i \in d + 1..Len(lines) : lines[i] \in Line
    <3> TAKE i \in d + 1..Len(lines)
    <3>1. i \in 1..Len(lines)
      BY <2>1
    <3> QED
      BY <2>1, <3>1, ElementOfSeq
  <2>4. /\ kept \in Seq(Line)
        /\ Len(kept) = IF d + 1 <= Len(lines) THEN Len(lines) - (d + 1) + 1 ELSE 0
        /\ \A i \in 1..Len(lines) - (d + 1) + 1 : kept[i] = lines[d + 1 + i - 1]
    <3>1. d + 1 \in Int /\ Len(lines) \in Int
      BY <2>1
    <3> HIDE DEF kept
    <3> QED
      BY <2>2, <2>3, <3>1, SubSeqProperties
  <2> HIDE DEF kept
  <2>5. kept \in Seq(Line) /\ Len(kept) = n /\ \A i \in 1..n : kept[i] = lines[d + i] /\ d + i \in 1..Len(lines)
    <3>1. Len(kept) = n /\ n = Len(lines) - (d + 1) + 1
      BY <2>shift, <2>1, <2>4
    <3>2. \A i \in 1..n : d + 1 + i - 1 = d + i /\ d + i \in 1..Len(lines)
      BY <2>shift, <2>1
    <3> QED
      BY <2>4, <3>1, <3>2
  <2>6. DOMAIN kept = 1..n
    BY <2>5
  <2>7. \A i \in Readable(kept) : i \in 1..n /\ d + i \in Readable(lines) /\ kept[i] = lines[d + i]
    BY <2>1, <2>5, <2>6 DEF Readable
  <2>8. \A i \in Readable(kept) : kept[i].n <= w /\ Identified(kept[i])
    BY <2>7 DEF Whole
  <2>9. ASSUME NEW i \in Readable(kept), NEW j \in Readable(kept), i < j PROVE kept[i].n < kept[j].n
    <3>1. d + i < d + j
      BY <2>7, <2>9
    <3> QED
      BY <2>7, <3>1 DEF Whole
  <2>10. Whole(kept, w)
    BY <2>5, <2>8, <2>9 DEF Whole
  <2>11. NumbersOf(kept) \subseteq NumbersOf(lines)
    BY <2>7 DEF NumbersOf
  <2>12. ASSUME NEW x \in NumbersOf(lines), NEW m \in NumbersOf(kept), m < x
         PROVE  x \in NumbersOf(kept)
    <3>1. PICK i \in Readable(kept) : m = kept[i].n
      BY DEF NumbersOf
    <3>2. PICK j \in Readable(lines) : x = lines[j].n
      BY DEF NumbersOf
    <3>3. i \in 1..n /\ d + i \in Readable(lines) /\ m = lines[d + i].n /\ j \in 1..Len(lines)
      BY <2>1, <2>7, <3>1 DEF Readable
    <3>4. m \in Nat /\ x \in Nat
      BY <2>10, NumbersType
    <3>5. j > d + i
      <4>1. ASSUME j < d + i PROVE FALSE
        <5>1. lines[j].n < lines[d + i].n
          BY <3>3, <4>1 DEF Whole
        <5> QED
          BY <2>12, <3>2, <3>3, <3>4, <5>1
      <4>2. j # d + i
        BY <2>12, <3>2, <3>3, <3>4
      <4> QED
        BY <3>3, <4>1, <4>2
    <3>6. j - d \in 1..n /\ d + (j - d) = j
      BY <2>shift, <2>1, <3>3, <3>5
    <3>7. j - d \in Readable(kept) /\ kept[j - d] = lines[j]
      BY <2>5, <2>6, <3>2, <3>6 DEF Readable
    <3> QED
      BY <3>2, <3>7 DEF NumbersOf
  <2>13. Skipped(kept, w) \subseteq Skipped(lines, w)
    <3> SUFFICES ASSUME NEW x \in Skipped(kept, w) PROVE x \in Skipped(lines, w)
      OBVIOUS
    <3>1. x \in 1..w /\ x \notin NumbersOf(kept)
      BY DEF Skipped, Missing
    <3>2. PICK m \in NumbersOf(kept) : m < x
      BY DEF Skipped
    <3>3. x \notin NumbersOf(lines)
      BY <2>12, <3>1, <3>2
    <3> QED
      BY <2>11, <3>1, <3>2, <3>3 DEF Skipped, Missing
  <2>14. Cardinality(Skipped(kept, w)) <= Cardinality(Skipped(lines, w))
    BY <2>13, FS_Subset, LossesType
  <2> QED
    BY <1>2, <2>5, <2>10, <2>14 DEF kept
<1> QED
  BY <1>1, <1>2

LEMMA ActiveKept ==
  ASSUME StoreCounts, ActiveIsIdentified, NEW scan \in MCScans, active' = Store!Remembered(scan)
  PROVE  ActiveIsIdentified'
<1> DEFINE setup(s) == [key |-> Store!SetupKey(s, date, scan[s].context),
                        id |-> Store!SetupIdFor(s, scan[s].context)]
           next(s) == IF s \notin DOMAIN scan THEN active[s]
                      ELSE IF scan[s].state = "COLD" THEN Store!Nothing ELSE setup(s)
           Held == [key : {<<>>} \cup Names \X Nat \X Contexts,
                    id : {<<>>} \cup Names \X Nat \X (Names \X Nat \X Contexts)]
<1>1. active' = [s \in Names |-> next(s)]
  BY DEF Store!Remembered
<1>2. ASSUME NEW s \in Names
      PROVE  /\ next(s) \in Held
             /\ \A on \in Nat, c \in Contexts :
                  next(s).key = <<s, on, c>> => next(s).id = Store!GenerateSetupId(s, on, c)
  <2>1. CASE s \notin DOMAIN scan
    BY <2>1 DEF ActiveIsIdentified
  <2>2. CASE s \in DOMAIN scan /\ scan[s].state = "COLD"
    BY <2>2 DEF Store!Nothing
  <2>3. CASE s \in DOMAIN scan /\ scan[s].state # "COLD"
    <3>1. scan[s].context \in Contexts /\ date \in Nat
      BY <2>3, StoreScans DEF StoreCounts
    <3>2. setup(s) = [key |-> <<s, date, scan[s].context>>,
                      id |-> <<s, date, <<s, date, scan[s].context>>>>]
      BY <3>1, KeptIdentifier DEF Store!GenerateSetupId, Store!SetupKey
    <3>3. next(s) = setup(s)
      BY <2>3
    <3> HIDE DEF setup, next
    <3> QED
      BY <3>1, <3>2, <3>3 DEF Store!GenerateSetupId, Store!SetupKey
  <2> QED
    BY <2>1, <2>2, <2>3
<1> HIDE DEF next
<1>3. active' \in [Names -> Held] /\ \A s \in Names : active'[s] = next(s)
  BY <1>1, <1>2
<1> QED
  BY <1>2, <1>3 DEF ActiveIsIdentified, Store!GenerateSetupId, Store!SetupKey

LEMMA ActiveForgotten ==
  active' = [s \in Names |-> Store!Nothing] => ActiveIsIdentified'
BY DEF ActiveIsIdentified, Store!Nothing, Store!GenerateSetupId, Store!SetupKey

\* The lines a write leaves that stops after k records, inside the next or not.
LEMMA CutRecords ==
  ASSUME NEW records, NEW w \in Nat, NEW many, Numbered(records, w, many), Len(records) = many,
         NEW k \in 0..many, NEW torn \in BOOLEAN
  PROVE  LET lines == SubSeq(records, 1, k) \o (IF torn THEN <<Store!Broken>> ELSE <<>>)
         IN  /\ Numbered(lines, w, k) /\ Len(lines) = k + Open(torn)
             /\ torn => lines[Len(lines)] = Store!Broken
<1> DEFINE done == SubSeq(records, 1, k)
           half == IF torn THEN <<Store!Broken>> ELSE <<>>
           lines == done \o half
           extra == Open(torn)
<1>1. /\ records \in Seq(Line) /\ many \in Nat /\ k \in Nat /\ k <= many
      /\ \A i \in 1..many : /\ records[i] # Store!Broken /\ records[i].n = w + i
                            /\ Identified(records[i])
  BY DEF Numbered
<1>2. \A i \in 1..k : i \in 1..many /\ records[i] \in Line
  BY <1>1, ElementOfSeq
<1>3. /\ done \in Seq(Line) /\ Len(done) = IF 1 <= k THEN k - 1 + 1 ELSE 0
      /\ \A i \in 1..k - 1 + 1 : done[i] = records[1 + i - 1]
  BY <1>1, <1>2, SubSeqProperties
<1> HIDE DEF done
<1>4. Len(done) = k /\ \A i \in 1..k : done[i] = records[i]
  BY <1>1, <1>3
<1>5. half \in Seq(Line) /\ Len(half) = extra /\ (torn => half[1] = Store!Broken)
  <2>1. Store!Broken \in Line
    BY DEF Line
  <2>2. CASE torn
    BY <2>1, <2>2 DEF Open
  <2>3. CASE ~torn
    BY <2>3, EmptySeq DEF Open
  <2> QED
    BY <2>2, <2>3
<1> HIDE DEF half
<1>6. extra \in {0, 1} /\ (torn <=> extra = 1)
  BY DEF Open
<1> HIDE DEF extra
<1>7. /\ lines \in Seq(Line) /\ Len(lines) = k + extra
      /\ \A i \in 1..k + extra : lines[i] = IF i <= k THEN done[i] ELSE half[i - k]
  <2>1. /\ lines \in Seq(Line) /\ Len(lines) = Len(done) + Len(half)
        /\ \A i \in 1..Len(done) + Len(half) :
             lines[i] = IF i <= Len(done) THEN done[i] ELSE half[i - Len(done)]
    BY <1>3, <1>5, ConcatProperties
  <2> HIDE DEF lines
  <2> QED
    BY <1>4, <1>5, <2>1
<1> HIDE DEF lines
<1>8. \A i \in 1..k + extra :
        IF i <= k THEN lines[i] # Store!Broken /\ lines[i].n = w + i /\ Identified(lines[i])
                  ELSE lines[i] = Store!Broken
  <2> TAKE i \in 1..k + extra
  <2>1. CASE i <= k
    <3>1. i \in 1..k
      BY <2>1
    <3>2. lines[i] = records[i]
      BY <1>4, <1>7, <2>1, <3>1
    <3> QED
      BY <1>1, <1>2, <2>1, <3>1, <3>2
  <2>2. CASE ~(i <= k)
    <3>1. i - k = 1 /\ torn
      BY <1>1, <1>6, <2>2
    <3> QED
      BY <1>5, <1>7, <2>2, <3>1
  <2> QED
    BY <2>1, <2>2
<1>9. k \in 0..Len(lines)
  BY <1>1, <1>6, <1>7
<1>10. Numbered(lines, w, k)
  BY <1>7, <1>8, <1>9 DEF Numbered
<1>11. torn => lines[Len(lines)] = Store!Broken
  <2> SUFFICES ASSUME torn PROVE lines[Len(lines)] = Store!Broken
    OBVIOUS
  <2>1. Len(lines) = k + 1 /\ Len(lines) \in 1..k + extra /\ ~(Len(lines) <= k)
    <3>1. extra = 1
      BY <1>6
    <3>2. Len(lines) = k + 1
      BY <1>7, <3>1
    <3> QED
      BY <1>1, <3>1, <3>2
  <2> QED
    BY <1>8, <2>1
<1> QED
  BY <1>7, <1>10, <1>11 DEF lines, done, half, extra

LEMMA StoreTypes ==
  ASSUME StoreCounts
  PROVE  /\ MAX_RECORDS \in Int /\ LARGE \in Int /\ SLACK \in Nat \ {0}
         /\ Store!MostAtOnce \in Nat /\ Uncounted \in Nat /\ Stray \in Nat
         /\ Untrimmed \in Nat
         /\ (SLACK - 1) * starts = Uncounted + (SLACK - 1)
<1>1. Store!MostAtOnce \in Nat
  BY StoreAssumption, FS_CardinalityType, OneCardinality DEF Store!MostAtOnce
<1>2. \A a, b \in Nat : a * b \in Nat /\ a * (b + 1) = a * b + a
  OBVIOUS
<1>3. SLACK - 1 \in Nat /\ starts - 1 \in Nat /\ cuts \in Nat /\ untrimmed \in Nat
      /\ starts = (starts - 1) + 1
  BY StoreAssumption DEF StoreCounts
<1>4. (SLACK - 1) * ((starts - 1) + 1) = (SLACK - 1) * (starts - 1) + (SLACK - 1)
  BY <1>2, <1>3
<1>5. SLACK - 1 + Store!MostAtOnce \in Nat
  BY <1>1, <1>3
<1> QED
  BY <1>1, <1>2, <1>3, <1>4, <1>5, StoreAssumption DEF Uncounted, Stray, Untrimmed

\* The shares of one more process, one more interrupted write, one more failed trim.
LEMMA StoreShares ==
  ASSUME StoreCounts
  PROVE  /\ starts' = starts => Uncounted' = Uncounted
         /\ starts' = starts + 1 => Uncounted' = Uncounted + (SLACK - 1)
         /\ cuts' = cuts => Stray' = Stray
         /\ cuts' = cuts + 1 => Stray' = Stray + Store!MostAtOnce
         /\ untrimmed' = untrimmed => Untrimmed' = Untrimmed
         /\ untrimmed' = untrimmed + 1 => Untrimmed' = Untrimmed + (SLACK - 1 + Store!MostAtOnce)
         /\ untrimmed' = 0 => Untrimmed' = 0
<1>1. Store!MostAtOnce \in Nat /\ cuts \in Nat /\ SLACK - 1 \in Nat /\ starts - 1 \in Nat
      /\ untrimmed \in Nat /\ SLACK - 1 + Store!MostAtOnce \in Nat
  BY StoreTypes DEF StoreCounts
<1>2. \A a, b \in Nat : a * (b + 1) = a * b + a
  OBVIOUS
<1>3. Store!MostAtOnce * (cuts + 1) = Store!MostAtOnce * cuts + Store!MostAtOnce
  BY <1>1, <1>2
<1>4. (SLACK - 1) * ((starts - 1) + 1) = (SLACK - 1) * (starts - 1) + (SLACK - 1)
  BY <1>1, <1>2
<1>5. ASSUME starts' = starts + 1 PROVE starts' - 1 = (starts - 1) + 1
  BY <1>5 DEF StoreCounts
<1>6. ASSUME starts' = starts + 1 PROVE Uncounted' = Uncounted + (SLACK - 1)
  BY <1>4, <1>5, <1>6 DEF Uncounted
<1>7. ASSUME cuts' = cuts + 1 PROVE Stray' = Stray + Store!MostAtOnce
  BY <1>3, <1>7 DEF Stray, Store!MostAtOnce
<1>8. (SLACK - 1 + Store!MostAtOnce) * (untrimmed + 1)
        = (SLACK - 1 + Store!MostAtOnce) * untrimmed + (SLACK - 1 + Store!MostAtOnce)
  BY <1>1, <1>2
<1>9. ASSUME untrimmed' = untrimmed + 1
      PROVE  Untrimmed' = Untrimmed + (SLACK - 1 + Store!MostAtOnce)
  BY <1>8, <1>9 DEF Untrimmed, Store!MostAtOnce
<1>10. ASSUME untrimmed' = 0 PROVE Untrimmed' = 0
  <2>1. (SLACK - 1 + Store!MostAtOnce) * 0 = 0
    BY <1>1
  <2> QED
    BY <1>10, <2>1 DEF Untrimmed, Store!MostAtOnce
<1> QED
  BY <1>6, <1>7, <1>9, <1>10 DEF Uncounted, Stray, Untrimmed, Store!MostAtOnce

\* What a file of a sound store is worth: its losses, and how long it may be.
LEMMA StoreFacts ==
  ASSUME StoreInv
  PROVE  /\ StoreCounts /\ Whole(file, written) /\ ActiveIsIdentified /\ LastIsHalf
         /\ written \in Nat /\ cuts \in Nat /\ since \in Nat /\ Len(file) \in Nat
         /\ untrimmed \in Nat
         /\ Open(open_end) \in {0, 1}
         /\ Cardinality(Skipped(file, written)) \in Nat /\ Cardinality(Missing(file, written)) \in Nat
BY LossesType DEF StoreInv, StoreCounts, Whole, Open

\* A complete scan; the file may be cut afterwards, or the cut fails.
LEMMA AppendStep ==
  ASSUME StoreInv, Store!AppendScan
  PROVE  StoreInv'
<1>1. PICK scan \in MCScans :
        /\ Store!EnforceRetention(Store!Appended(Store!Records(scan)), since + Len(Store!Records(scan)))
        /\ open_end' = FALSE /\ active' = Store!Remembered(scan)
        /\ written' = written + Len(Store!Records(scan))
        /\ UNCHANGED <<date, cuts, starts>>
  BY DEF Store!AppendScan
<1> DEFINE many == Cardinality(DOMAIN scan)
           all == Store!Appended(Store!Records(scan))
<1>2. /\ Numbered(Store!Records(scan), written, many) /\ Len(Store!Records(scan)) = many
      /\ many \in Nat /\ many <= Store!MostAtOnce
  BY NewRecords, StoreScans, StoreFacts
<1>3. /\ Whole(all, written + many) /\ Len(all) \in Len(file)..Len(file) + many
      /\ Cardinality(Missing(all, written + many)) <= Cardinality(Missing(file, written)) + Open(open_end)
      /\ Cardinality(Skipped(all, written + many)) <= Cardinality(Skipped(file, written)) + Open(open_end)
  BY <1>2, FileAppended, StoreFacts
<1>4. /\ written' = written + many /\ open_end' = FALSE /\ cuts' = cuts /\ starts' = starts /\ date' = date
      /\ \/ file' = all /\ since' = since + many /\ (MAX_RECORDS > 0 => since + many < SLACK)
            /\ untrimmed' = untrimmed
         \/ file' = Store!Newest(all, MAX_RECORDS) /\ since' = 0 /\ MAX_RECORDS > 0 /\ untrimmed' = 0
         \/ file' = all /\ since' = 0 /\ untrimmed' = untrimmed + 1
  BY <1>1, <1>2, StoreFacts, StoreAssumption DEF Store!EnforceRetention, Store!TrimDue
<1> HIDE DEF all, many
<1>5. many \in Nat /\ written + many \in Nat /\ since + many \in Nat
  BY <1>2, StoreFacts
<1>6. Len(all) \in Nat /\ Len(file) <= Len(all) /\ Len(all) <= Len(file) + many
  BY <1>3, <1>5, StoreFacts
<1>7. StoreCounts'
  <2>1. since' \in Nat /\ untrimmed' \in Nat
    BY <1>4, <1>5, StoreFacts
  <2> QED
    BY <1>4, <1>5, <2>1, StoreFacts DEF StoreCounts
<1>8. ActiveIsIdentified'
  BY <1>1, ActiveKept, StoreFacts
<1>9. LastIsHalf' /\ Open(open_end)' = 0
  BY <1>4 DEF LastIsHalf, Open
<1>10. /\ Cardinality(Skipped(all, written + many)) \in Nat
       /\ Cardinality(Missing(all, written + many)) \in Nat
  BY <1>5, LossesType
<1>11. Cardinality(Skipped(all, written + many)) <= cuts
  <2>1. Cardinality(Skipped(file, written)) + Open(open_end) <= cuts
    BY DEF StoreInv, LossesAreCounted
  <2> QED
    BY <1>3, <1>10, <2>1, StoreFacts
<1>12. Len(all) >= MAX_RECORDS \/ Cardinality(Missing(all, written + many)) <= cuts
  <2>1. \/ Len(file) >= MAX_RECORDS
        \/ Cardinality(Missing(file, written)) + Open(open_end) <= cuts
    BY DEF StoreInv, LossesAreCounted
  <2> QED
    BY <1>3, <1>6, <1>10, <2>1, StoreFacts, StoreAssumption
<1>13. CASE /\ file' = all /\ since' = since + many /\ (MAX_RECORDS > 0 => since + many < SLACK)
            /\ untrimmed' = untrimmed
  <2>1. Whole(file, written)'
    BY <1>3, <1>4, <1>13
  <2>2. LossesAreCounted'
    BY <1>4, <1>9, <1>10, <1>11, <1>12, <1>13, StoreFacts DEF LossesAreCounted
  <2>3. LengthIsBounded'
    <3> SUFFICES ASSUME MAX_RECORDS > 0
                 PROVE  Len(all) <= MAX_RECORDS + (since + many) + Uncounted + Stray + Untrimmed
      BY <1>4, <1>13, StoreShares, StoreFacts DEF LengthIsBounded
    <3>1. Len(file) <= MAX_RECORDS + since + Uncounted + Stray + Untrimmed
      BY DEF StoreInv, LengthIsBounded
    <3>2. /\ Uncounted \in Nat /\ Stray \in Nat /\ Untrimmed \in Nat
          /\ MAX_RECORDS \in Int /\ since \in Nat /\ Len(file) \in Nat
      BY StoreFacts, StoreTypes
    <3> QED
      BY <1>2, <1>6, <3>1, <3>2
  <2> QED
    BY <1>7, <1>8, <1>9, <2>1, <2>2, <2>3 DEF StoreInv
<1>14. CASE file' = Store!Newest(all, MAX_RECORDS) /\ since' = 0 /\ MAX_RECORDS > 0 /\ untrimmed' = 0
  <2> DEFINE v == written + many
  <2>1. MAX_RECORDS \in Nat \ {0} /\ v \in Nat
    BY <1>5, <1>14, StoreAssumption
  <2>2. /\ Whole(file', v) /\ Len(file') = (IF Len(all) <= MAX_RECORDS THEN Len(all) ELSE MAX_RECORDS)
        /\ (Len(all) <= MAX_RECORDS => file' = all)
        /\ Cardinality(Skipped(file', v)) <= Cardinality(Skipped(all, v))
    <3> HIDE DEF v
    <3>1. Whole(all, v)
      BY <1>3 DEF v
    <3> QED
      BY <1>14, <2>1, <3>1, FileTrimmed
  <2>3. Whole(file, written)'
    BY <1>4, <2>2
  <2>4. Cardinality(Skipped(file', v)) \in Nat /\ Cardinality(Missing(file', v)) \in Nat
    BY <2>1, LossesType
  <2>5. LossesAreCounted'
    <3>1. Cardinality(Skipped(file', v)) <= cuts
      BY <1>10, <1>11, <2>2, <2>4, StoreFacts
    <3>2. Len(file') >= MAX_RECORDS \/ Cardinality(Missing(file', v)) <= cuts
      BY <1>6, <1>12, <2>1, <2>2
    <3> QED
      BY <1>4, <1>9, <2>4, <3>1, <3>2 DEF LossesAreCounted
  <2>6. LengthIsBounded'
    <3> SUFFICES Len(file') <= MAX_RECORDS + 0 + Uncounted + Stray + 0
      BY <1>4, <1>14, StoreAssumption, StoreShares, StoreFacts DEF LengthIsBounded
    <3>1. Len(file') <= MAX_RECORDS /\ Len(file') \in Nat
      BY <1>6, <2>1, <2>2
    <3> QED
      BY <2>1, <3>1, StoreFacts, StoreTypes
  <2> QED
    BY <1>7, <1>8, <1>9, <2>3, <2>5, <2>6 DEF StoreInv
<1>15. CASE file' = all /\ since' = 0 /\ untrimmed' = untrimmed + 1
  <2>1. Whole(file, written)'
    BY <1>3, <1>4, <1>15
  <2>2. LossesAreCounted'
    BY <1>4, <1>9, <1>10, <1>11, <1>12, <1>15, StoreFacts DEF LossesAreCounted
  <2>3. LengthIsBounded'
    <3> DEFINE share == SLACK - 1 + Store!MostAtOnce
    <3>1. ASSUME MAX_RECORDS > 0
          PROVE  Len(all) <= MAX_RECORDS + 0 + Uncounted + Stray + (Untrimmed + share)
      <4>1. since < SLACK /\ Len(file) <= MAX_RECORDS + since + Uncounted + Stray + Untrimmed
        BY <3>1 DEF StoreInv, LengthIsBounded
      <4>2. /\ Uncounted \in Nat /\ Stray \in Nat /\ Untrimmed \in Nat /\ SLACK \in Nat \ {0}
            /\ MAX_RECORDS \in Int /\ since \in Nat /\ Len(file) \in Nat /\ Store!MostAtOnce \in Nat
        BY StoreFacts, StoreTypes
      <4> QED
        BY <1>2, <1>6, <4>1, <4>2
    <3>2. Uncounted' = Uncounted /\ Stray' = Stray /\ Untrimmed' = Untrimmed + share
      BY <1>4, <1>15, StoreShares, StoreFacts
    <3>3. SLACK > 0
      BY StoreAssumption
    <3> QED
      BY <1>15, <3>1, <3>2, <3>3 DEF LengthIsBounded
  <2> QED
    BY <1>7, <1>8, <1>9, <2>1, <2>2, <2>3 DEF StoreInv
<1> QED
  BY <1>4, <1>13, <1>14, <1>15

\* A write that stops in the middle costs one interrupted write more.
LEMMA CutStep ==
  ASSUME StoreInv, Store!CutShort
  PROVE  StoreInv'
<1> DEFINE cut(scan, torn, killed, k) ==
             LET lines == SubSeq(Store!Records(scan), 1, k) \o (IF torn THEN <<Store!Broken>> ELSE <<>>)
             IN  /\ k < Store!Cardinality(DOMAIN scan) \/ (killed /\ ~torn)
                 /\ file' = Store!Appended(lines)
                 /\ open_end' = IF lines = <<>> THEN open_end ELSE torn
                 /\ written' = written + k
                 /\ IF killed THEN Store!Restarted
                    ELSE active' = Store!Remembered(scan) /\ UNCHANGED <<since, starts>>
<1>0. PICK scan \in MCScans, torn \in BOOLEAN, killed \in BOOLEAN :
        \E k \in 0..Store!Cardinality(DOMAIN scan) : cut(scan, torn, killed, k)
  BY DEF Store!CutShort
<1>1. PICK k \in 0..Store!Cardinality(DOMAIN scan) : cut(scan, torn, killed, k)
  BY <1>0
<1> DEFINE lines == SubSeq(Store!Records(scan), 1, k) \o (IF torn THEN <<Store!Broken>> ELSE <<>>)
           many == Cardinality(DOMAIN scan)
           extra == Open(torn)
<1>2. cuts' = cuts + 1 /\ date' = date /\ untrimmed' = untrimmed
  BY DEF Store!CutShort
<1>3. /\ Numbered(Store!Records(scan), written, many) /\ Len(Store!Records(scan)) = many
      /\ many \in Nat /\ many <= Store!MostAtOnce
  BY NewRecords, StoreScans, StoreFacts
<1>4. k \in 0..many /\ (k < many \/ ~torn)
  BY <1>0, <1>1, OneCardinality
<1>5. Numbered(lines, written, k) /\ Len(lines) = k + extra /\ (torn => lines[Len(lines)] = Store!Broken)
  <2> HIDE DEF many
  <2> QED
    BY <1>3, <1>4, CutRecords, StoreFacts
<1>6. /\ file' = Store!Appended(lines) /\ open_end' = (IF lines = <<>> THEN open_end ELSE torn)
      /\ written' = written + k
      /\ IF killed THEN Store!Restarted
         ELSE active' = Store!Remembered(scan) /\ UNCHANGED <<since, starts>>
  BY <1>1
<1>7. extra \in {0, 1} /\ (extra = 1 <=> torn)
  BY DEF Open
<1> HIDE DEF lines, many, extra
<1>8. /\ Whole(file', written + k) /\ k \in Nat
      /\ Cardinality(Missing(file', written + k)) <= Cardinality(Missing(file, written)) + Open(open_end)
      /\ Cardinality(Skipped(file', written + k)) <= Cardinality(Skipped(file, written)) + Open(open_end)
      /\ Len(file') \in Len(file)..Len(file) + Len(lines)
      /\ (lines = <<>> => file' = file)
      /\ (lines # <<>> /\ torn => file' # <<>> /\ file'[Len(file')] = Store!Broken)
  BY <1>5, <1>6, FileAppended, StoreFacts
<1>9. /\ written + k \in Nat /\ Len(lines) <= Store!MostAtOnce
      /\ Len(file') \in Nat /\ Len(file) <= Len(file') /\ Len(file') <= Len(file) + Len(lines)
  <2>1. Store!MostAtOnce \in Nat
    BY StoreTypes, StoreFacts
  <2> QED
    BY <1>3, <1>4, <1>5, <1>7, <1>8, <2>1, StoreFacts
<1>10. Whole(file, written)'
  BY <1>6, <1>8
<1>11. StoreCounts'
  <2>1. since' \in Nat /\ starts' \in Nat \ {0}
    BY <1>6, StoreFacts DEF Store!Restarted, StoreCounts
  <2>2. open_end' \in BOOLEAN
    BY <1>6, StoreFacts DEF StoreCounts
  <2> QED
    BY <1>2, <1>6, <1>9, <2>1, <2>2, StoreFacts DEF StoreCounts
<1>12. ActiveIsIdentified'
  BY <1>6, ActiveKept, ActiveForgotten, StoreFacts DEF Store!Restarted
<1>13. LastIsHalf'
  BY <1>6, <1>8, StoreFacts DEF LastIsHalf
<1>14. /\ Cardinality(Skipped(file', written + k)) \in Nat
       /\ Cardinality(Missing(file', written + k)) \in Nat
  BY <1>9, LossesType
<1>15. LossesAreCounted'
  <2>1. /\ Cardinality(Skipped(file, written)) + Open(open_end) <= cuts
        /\ \/ Len(file) >= MAX_RECORDS
           \/ Cardinality(Missing(file, written)) + Open(open_end) <= cuts
    BY DEF StoreInv, LossesAreCounted
  <2> DEFINE half == Open(open_end')
  <2>2. half \in {0, 1}
    BY DEF Open
  <2> HIDE DEF half
  <2>3. Cardinality(Skipped(file', written + k)) + half <= cuts + 1
    BY <1>8, <1>14, <2>1, <2>2, StoreFacts
  <2>4. Len(file') >= MAX_RECORDS \/ Cardinality(Missing(file', written + k)) + half <= cuts + 1
    <3>1. CASE Len(file) >= MAX_RECORDS
      BY <1>9, <3>1, StoreFacts, StoreAssumption
    <3>2. CASE Cardinality(Missing(file, written)) + Open(open_end) <= cuts
      BY <1>8, <1>14, <2>2, <3>2, StoreFacts
    <3> QED
      BY <2>1, <3>1, <3>2
  <2> QED
    BY <1>2, <1>6, <2>3, <2>4 DEF LossesAreCounted, half
<1>16. LengthIsBounded'
  <2> SUFFICES ASSUME MAX_RECORDS > 0
               PROVE  since' < SLACK /\ Len(file') <= MAX_RECORDS + since' + Uncounted' + Stray' + Untrimmed'
    BY DEF LengthIsBounded
  <2>1. since < SLACK /\ Len(file) <= MAX_RECORDS + since + Uncounted + Stray + Untrimmed
    BY DEF StoreInv, LengthIsBounded
  <2>2. /\ Uncounted \in Nat /\ Stray \in Nat /\ Untrimmed \in Nat /\ MAX_RECORDS \in Int /\ since \in Nat /\ Len(file) \in Nat
        /\ SLACK \in Nat \ {0} /\ Store!MostAtOnce \in Nat
    BY StoreFacts, StoreTypes
  <2>3. Stray' = Stray + Store!MostAtOnce /\ Untrimmed' = Untrimmed
    BY <1>2, StoreShares, StoreFacts
  <2>4. CASE killed
    <3>1. since' = 0 /\ Uncounted' = Uncounted + (SLACK - 1)
      BY <1>6, <2>4, StoreShares, StoreFacts DEF Store!Restarted
    <3> QED
      BY <1>9, <2>1, <2>2, <2>3, <3>1
  <2>5. CASE ~killed
    <3>1. since' = since /\ Uncounted' = Uncounted
      BY <1>6, <2>5, StoreShares, StoreFacts
    <3> QED
      BY <1>9, <2>1, <2>2, <2>3, <3>1
  <2> QED
    BY <2>4, <2>5
<1> QED
  BY <1>10, <1>11, <1>12, <1>13, <1>15, <1>16 DEF StoreInv

LEMMA RestartStep ==
  ASSUME StoreInv, Store!Restart
  PROVE  StoreInv'
<1>1. /\ since' = 0 /\ starts' = starts + 1 /\ active' = [s \in Names |-> Store!Nothing]
      /\ UNCHANGED <<file, open_end, date, written, cuts, untrimmed>>
  BY DEF Store!Restart, Store!Restarted
<1>2. StoreCounts'
  BY <1>1, StoreFacts DEF StoreCounts
<1>3. LengthIsBounded'
  <2> SUFFICES ASSUME MAX_RECORDS > 0
               PROVE  since' < SLACK /\ Len(file') <= MAX_RECORDS + since' + Uncounted' + Stray' + Untrimmed'
    BY DEF LengthIsBounded
  <2>1. since < SLACK /\ Len(file) <= MAX_RECORDS + since + Uncounted + Stray + Untrimmed
    BY DEF StoreInv, LengthIsBounded
  <2>2. /\ Uncounted \in Nat /\ Stray \in Nat /\ Untrimmed \in Nat /\ MAX_RECORDS \in Int /\ since \in Nat /\ Len(file) \in Nat
        /\ SLACK \in Nat \ {0}
    BY StoreFacts, StoreTypes
  <2>3. Stray' = Stray /\ Untrimmed' = Untrimmed /\ Uncounted' = Uncounted + (SLACK - 1) /\ file' = file
    BY <1>1, StoreShares, StoreFacts
  <2> QED
    BY <1>1, <2>1, <2>2, <2>3
<1> QED
  BY <1>1, <1>2, <1>3, ActiveForgotten DEF StoreInv, LastIsHalf, LossesAreCounted

LEMMA StoreStep ==
  ASSUME StoreInv, [Store!StoreNext]_store_vars
  PROVE  StoreInv'
<1>1. CASE Store!NextDate
  <2>1. /\ date' = date + 1
        /\ UNCHANGED <<file, open_end, active, since, written, cuts, starts, untrimmed>>
    BY <1>1 DEF Store!NextDate
  <2>2. StoreCounts'
    BY <2>1, StoreFacts DEF StoreCounts
  <2> QED
    BY <2>1, <2>2
       DEF StoreInv, ActiveIsIdentified, LastIsHalf, LossesAreCounted, LengthIsBounded, Uncounted, Stray, Untrimmed,
           Store!MostAtOnce, Store!GenerateSetupId, Store!SetupKey
<1>2. CASE UNCHANGED store_vars
  BY <1>2 DEF store_vars, StoreInv, StoreCounts, ActiveIsIdentified, LastIsHalf, LossesAreCounted,
              LengthIsBounded, Uncounted, Stray, Untrimmed, Store!MostAtOnce, Store!GenerateSetupId, Store!SetupKey
<1> QED
  BY <1>1, <1>2, AppendStep, CutStep, RestartStep DEF Store!StoreNext

LEMMA StoreStarts == Store!StoreInit => StoreInv
<1> SUFFICES ASSUME Store!StoreInit PROVE StoreInv
  OBVIOUS
<1>1. /\ file = <<>> /\ open_end = FALSE /\ active = [s \in Names |-> Store!Nothing]
      /\ since = 0 /\ date = 1 /\ written = 0 /\ cuts = 0 /\ starts = 1
      /\ untrimmed = 0
  BY DEF Store!StoreInit
<1>2. StoreCounts
  <2>1. open_end \in BOOLEAN
    BY <1>1
  <2>2. since \in Nat /\ date \in Nat /\ written \in Nat /\ cuts \in Nat /\ starts \in Nat \ {0}
        /\ untrimmed \in Nat
    BY <1>1
  <2> QED
    BY <2>1, <2>2 DEF StoreCounts
<1>3. file \in Seq(Line) /\ Len(file) = 0
  BY <1>1, EmptySeq
<1>4. Readable(file) = {}
  BY <1>3 DEF Readable
<1>5. Whole(file, written)
  BY <1>3, <1>4 DEF Whole
<1>6. ActiveIsIdentified
  BY <1>1 DEF ActiveIsIdentified, Store!Nothing, Store!GenerateSetupId, Store!SetupKey
<1>7. Missing(file, written) = {} /\ Skipped(file, written) = {}
  BY <1>1 DEF Missing, Skipped
<1>8. LossesAreCounted /\ LastIsHalf
  BY <1>1, <1>7, FS_EmptySet DEF LossesAreCounted, LastIsHalf, Open
<1>9. LengthIsBounded
  <2>1. Uncounted \in Nat /\ Stray \in Nat /\ Untrimmed \in Nat /\ MAX_RECORDS \in Int /\ SLACK \in Nat \ {0}
    BY <1>2, StoreTypes
  <2> QED
    BY <1>1, <1>3, <2>1 DEF LengthIsBounded
<1> QED
  BY <1>2, <1>5, <1>6, <1>8, <1>9 DEF StoreInv

LEMMA StoreFrame == [MCNext]_mc_vars => [Store!StoreNext]_store_vars
BY DEF MCNext, mc_vars, desk_vars, Desk, Reviewing, store_vars

LEMMA LeastNat ==
  ASSUME NEW S \in SUBSET Nat, S # {}
  PROVE  \E m \in S : \A k \in S : m <= k
<1> DEFINE R == OpToRel(<, Nat)
<1>1. IsWellFoundedOn(R, Nat)
  BY NatLessThanWellFounded
<1>2. \A k, m \in Nat : <<k, m>> \in R <=> k < m
  BY DEF OpToRel
<1> HIDE DEF R
<1>3. PICK m \in S : \A k \in S : ~(<<k, m>> \in R)
  BY <1>1, WFMin
<1>4. ASSUME NEW k \in S PROVE m <= k
  <2>1. k \in Nat /\ m \in Nat
    OBVIOUS
  <2>2. ~(k < m)
    BY <1>2, <1>3, <2>1
  <2> QED
    BY <2>1, <2>2
<1> QED
  BY <1>4

LEMMA GreatestNat ==
  ASSUME NEW S \in SUBSET Nat, S # {}, NEW n \in Nat, \A k \in S : k <= n
  PROVE  \E m \in S : \A k \in S : k <= m
<1> DEFINE below == {n - k : k \in S}
<1>1. below \in SUBSET Nat /\ below # {}
  <2>1. ASSUME NEW k \in S PROVE n - k \in Nat
    <3>1. k \in Nat /\ k <= n
      OBVIOUS
    <3> QED
      BY <3>1
  <2> QED
    BY <2>1
<1>2. PICK d \in below : \A e \in below : d <= e
  BY <1>1, LeastNat
<1>3. PICK m \in S : d = n - m
  OBVIOUS
<1>4. ASSUME NEW k \in S PROVE k <= m
  <2>1. d <= n - k
    BY <1>2
  <2> QED
    BY <1>3, <2>1
<1> QED
  BY <1>4

LEMMA Extremes ==
  ASSUME NEW w \in Nat, NEW S \in SUBSET (1..w), S # {}
  PROVE  /\ Store!Min(S) \in S /\ Store!Max(S) \in S
         /\ \A k \in S : Store!Min(S) <= k /\ k <= Store!Max(S)
<1>1. S \in SUBSET Nat /\ \A k \in S : k <= w
  OBVIOUS
<1>2. \E m \in S : \A k \in S : m <= k
  BY <1>1, LeastNat
<1>3. \E m \in S : \A k \in S : k <= m
  BY <1>1, GreatestNat
<1>4. \E m \in S : \A k \in S : m >= k
  BY <1>1, <1>3
<1>5. Store!Min(S) \in S /\ \A k \in S : Store!Min(S) <= k
  BY <1>2 DEF Store!Min
<1>6. Store!Max(S) \in S /\ \A k \in S : Store!Max(S) >= k
  BY <1>4 DEF Store!Max
<1> QED
  BY <1>1, <1>5, <1>6

LEMMA FewSkipped ==
  ASSUME StoreInv, Store!Numbers # {}
  PROVE  Store!Max(Store!Numbers) - Store!Min(Store!Numbers) + 1 - Store!Cardinality(Store!Numbers) <= cuts
<1> DEFINE N == NumbersOf(file)
           lo == Store!Min(N)
           hi == Store!Max(N)
<1>1. Store!Numbers = N
  BY DEF Store!Numbers, NumbersOf, Store!ReadRecords, Readable
<1>2. N \in SUBSET (1..written) /\ written \in Nat /\ N # {}
  BY <1>1, NumbersType, StoreFacts
<1>3. lo \in N /\ hi \in N /\ \A k \in N : lo <= k /\ k <= hi
  <2> HIDE DEF N
  <2> QED
    BY <1>2, Extremes
<1> HIDE DEF N, lo, hi
<1>4. lo \in 1..written /\ hi \in 1..written /\ lo <= hi
  BY <1>2, <1>3
<1>5. N \subseteq lo..hi /\ (lo..hi) \cap N = N
  <2>1. ASSUME NEW k \in N PROVE k \in lo..hi
    <3>1. k \in Int /\ lo \in Int /\ hi \in Int /\ lo <= k /\ k <= hi
      BY <1>2, <1>3, <1>4
    <3> QED
      BY <3>1
  <2> QED
    BY <2>1
<1>6. IsFiniteSet(lo..hi) /\ Cardinality(lo..hi) = hi - lo + 1
  BY <1>4, FS_Interval
<1>7. Cardinality((lo..hi) \ N) = (hi - lo + 1) - Cardinality(N)
  <2>1. Cardinality((lo..hi) \ N) = Cardinality(lo..hi) - Cardinality((lo..hi) \cap N)
    BY <1>6, FS_Difference
  <2> QED
    BY <1>5, <1>6, <2>1
<1>8. (lo..hi) \ N \subseteq Skipped(file, written)
  <2> SUFFICES ASSUME NEW n \in (lo..hi) \ N PROVE n \in Skipped(file, written)
    OBVIOUS
  <2>1. n \in 1..written /\ n \notin N /\ lo < n
    <3>1. n \in Int /\ lo <= n /\ n <= hi /\ n # lo
      BY <1>3, <1>4
    <3>2. lo \in Int /\ 1 <= lo /\ hi \in Int /\ hi <= written /\ written \in Nat
      BY <1>2, <1>4
    <3> QED
      BY <3>1, <3>2
  <2> QED
    BY <1>3, <2>1 DEF Skipped, Missing, N
<1>9. Cardinality((lo..hi) \ N) <= Cardinality(Skipped(file, written))
  BY <1>2, <1>8, FS_Subset, LossesType
<1>10. Cardinality(N) \in Nat
  BY <1>5, <1>6, FS_Subset, FS_CardinalityType
<1>11. Cardinality(Skipped(file, written)) + Open(open_end) <= cuts
  BY DEF StoreInv, LossesAreCounted
<1>12. hi - lo + 1 - Cardinality(N) <= cuts
  BY <1>4, <1>7, <1>9, <1>10, <1>11, StoreFacts
<1> QED
  BY <1>1, <1>12, OneCardinality DEF lo, hi

LEMMA FullWhenMissing ==
  ASSUME StoreInv, written - Store!Cardinality(Store!Numbers) > cuts
  PROVE  Len(file) >= MAX_RECORDS
<1> DEFINE N == NumbersOf(file)
<1>1. Store!Numbers = N
  BY DEF Store!Numbers, NumbersOf, Store!ReadRecords, Readable
<1>2. N \in SUBSET (1..written) /\ written \in Nat /\ IsFiniteSet(1..written) /\ Cardinality(1..written) = written
  <2>1. N \in SUBSET (1..written) /\ written \in Nat
    BY NumbersType, StoreFacts
  <2>2. IsFiniteSet(1..written) /\ Cardinality(1..written) = IF 1 > written THEN 0 ELSE written - 1 + 1
    BY <2>1, FS_Interval
  <2> QED
    BY <2>1, <2>2
<1> HIDE DEF N
<1>3. (1..written) \cap N = N
  BY <1>2
<1>4. Cardinality((1..written) \ N) = written - Cardinality(N)
  <2>1. Cardinality((1..written) \ N) = Cardinality(1..written) - Cardinality((1..written) \cap N)
    BY <1>2, FS_Difference
  <2> QED
    BY <1>2, <1>3, <2>1
<1>5. Cardinality(Missing(file, written)) = written - Cardinality(N)
  BY <1>4 DEF Missing, N
<1>6. written - Cardinality(N) > cuts
  BY <1>1, OneCardinality
<1>7. ~(Cardinality(Missing(file, written)) + Open(open_end) <= cuts)
  BY <1>5, <1>6, StoreFacts
<1> QED
  BY <1>7 DEF StoreInv, LossesAreCounted

\* Identifiers and (symbol, day, context) determine each other.
LEMMA SetupsCounted ==
  ASSUME StoreInv
  PROVE  Store!Summary.setups =
           Store!Cardinality({<<file[i].symbol, file[i].on, file[i].context>> :
                                i \in {x \in Store!ReadRecords : file[x].state # "COLD"}})
<1> DEFINE X == {x \in Readable(file) : file[x].state # "COLD"}
           key(i) == <<file[i].symbol, file[i].on, file[i].context>>
           T == {key(i) : i \in X}
           U == {file[i].id : i \in X}
           f == [t \in T |-> <<t[1], t[2], t>>]
           g == [i \in X |-> key(i)]
<1>1. \A i \in Readable(file) : /\ i \in 1..Len(file) /\ Identified(file[i]) /\ file[i].state \in Bands
  <2> TAKE i \in Readable(file)
  <2>1. i \in 1..Len(file) /\ file[i] \in Line /\ file[i] # Store!Broken
    BY StoreFacts DEF Whole, Readable
  <2>2. file[i].state \in Bands
    BY <2>1 DEF Line
  <2> QED
    BY <2>1, <2>2, StoreFacts DEF Whole
<1>2. {i \in Store!ReadRecords : file[i].state \in {"WARM", "HOT", "EXECUTION_READY"}} = X
  BY <1>1 DEF Store!ReadRecords, Readable, Bands
<1>3. Store!Summary.setups = Store!Cardinality(U)
  BY <1>2 DEF Store!Summary
<1>4. IsFiniteSet(X)
  <2>1. X \subseteq 1..Len(file)
    BY <1>1
  <2>2. IsFiniteSet(1..Len(file))
    BY StoreFacts, FS_Interval
  <2> QED
    BY <2>1, <2>2, FS_Subset
<1>5. \A i \in X : file[i].id = <<key(i)[1], key(i)[2], key(i)>>
  BY <1>1 DEF Identified, Store!GenerateSetupId, Store!SetupKey
<1> HIDE DEF key, X
<1>6. g \in Surjection(X, T)
  BY DEF Surjection
<1>7. IsFiniteSet(T)
  BY <1>4, <1>6, FS_Surjection
<1>8. f \in [T -> U]
  BY <1>5
<1>9. \A u \in U : \E t \in T : f[t] = u
  BY <1>5
<1>10. \A s, t \in T : f[s] = f[t] => s = t
  BY DEF T
<1> HIDE DEF T, U, f
<1>11. f \in Bijection(T, U)
  BY <1>8, <1>9, <1>10 DEF Bijection, Injection, Surjection, IsInjective
<1>12. Cardinality(T) = Cardinality(U)
  BY <1>7, <1>11, FS_Bijection DEF ExistsBijection
<1> QED
  BY <1>3, <1>12, OneCardinality DEF T, X, key, Store!ReadRecords, Readable

LEMMA StoreHolds ==
  ASSUME StoreInv
  PROVE  StoreKeepsTheNewest
<1>1. \A i, j \in Store!ReadRecords : i < j => file[i].n < file[j].n
  BY StoreFacts DEF Store!ReadRecords, Readable, Whole
<1>2. MAX_RECORDS > 0 =>
        Len(file) <= MAX_RECORDS + (SLACK - 1) * starts + Store!MostAtOnce * cuts
                     + (SLACK - 1 + Store!MostAtOnce) * untrimmed
  <2> SUFFICES ASSUME MAX_RECORDS > 0
               PROVE  Len(file) <= MAX_RECORDS + (SLACK - 1) * starts + Stray + Untrimmed
    BY DEF Stray, Untrimmed
  <2>1. since < SLACK /\ Len(file) <= MAX_RECORDS + since + Uncounted + Stray + Untrimmed
    BY DEF StoreInv, LengthIsBounded
  <2>2. /\ Uncounted \in Nat /\ Stray \in Nat /\ Untrimmed \in Nat /\ MAX_RECORDS \in Int /\ since \in Nat /\ Len(file) \in Nat
        /\ SLACK \in Nat \ {0} /\ (SLACK - 1) * starts = Uncounted + (SLACK - 1)
    BY StoreFacts, StoreTypes
  <2> QED
    BY <2>1, <2>2
<1> QED
  BY <1>1, <1>2, FewSkipped, FullWhenMissing, SetupsCounted
     DEF StoreKeepsTheNewest, Store!StoreKeepsTheNewest

\* For all limits, all scans and all orders of complete and interrupted writes,
\* failed trims, restarts and days: the file keeps the newest records in order, loses one at most
\* by an interrupted write and the others only when it is full, outgrows its limit
\* by what was left uncounted or untrimmed, and counts each setup once.
THEOREM StoreKept == MCSpec => []StoreKeepsTheNewest
<1>1. MCInit => StoreInv
  BY StoreStarts DEF MCInit
<1>2. StoreInv /\ [MCNext]_mc_vars => StoreInv'
  BY StoreStep, StoreFrame
<1> QED
  BY <1>1, <1>2, StoreHolds, PTL DEF MCSpec

-----------------------------------------------------------------------------
(* Sums over finite sets, as MapThenSumSet forms them.                        *)

\* Taking an element away.
LEMMA OneLess ==
  ASSUME NEW S, IsFiniteSet(S), NEW s \in SUBSET S, NEW x \in s
  PROVE  /\ IsFiniteSet(s) /\ Cardinality(s) \in Nat \ {0} /\ s \ {x} \in SUBSET S
         /\ Cardinality(s \ {x}) = Cardinality(s) - 1
<1>1. IsFiniteSet(s)
  BY FS_Subset
<1>2. Cardinality(s) \in Nat /\ Cardinality(s \ {x}) \in Nat /\ Cardinality(s \ {x}) = Cardinality(s) - 1
  BY <1>1, FS_RemoveElement, FS_CardinalityType
<1> QED
  BY <1>1, <1>2

\* Where something is wrong of some subsets, one of them is right without any
\* of its elements.
LEMMA SmallestSet ==
  ASSUME NEW S, IsFiniteSet(S), NEW wrong \in SUBSET SUBSET S, wrong # {}
  PROVE  \E s \in wrong : \A x \in s : s \ {x} \notin wrong
<1> DEFINE sizes == {Cardinality(s) : s \in wrong}
<1>1. \A s \in SUBSET S : Cardinality(s) \in Nat
  BY FS_Subset, FS_CardinalityType
<1>2. sizes \in SUBSET Nat /\ sizes # {}
  BY <1>1
<1>3. PICK m \in sizes : \A n \in sizes : m <= n
  <2> HIDE DEF sizes
  <2> QED
    BY <1>2, LeastNat
<1>4. PICK s \in wrong : Cardinality(s) = m
  OBVIOUS
<1>5. ASSUME NEW x \in s PROVE s \ {x} \notin wrong
  <2>1. Cardinality(s \ {x}) = m - 1 /\ m \in Nat
    BY <1>1, <1>4, OneLess
  <2>2. Cardinality(s \ {x}) \notin sizes
    <3> HIDE DEF sizes
    <3> QED
      BY <1>3, <2>1
  <2> QED
    BY <2>2
<1> QED
  BY <1>5

Some(s) == CHOOSE x \in s : TRUE

\* it gives every subset of S the sum of f over it, one element after another.
IsSum(it, f, S) ==
  it = [s \in SUBSET S |-> IF s = {} THEN 0 ELSE f[Some(s)] + it[s \ {Some(s)}]]

LEMMA SumExists ==
  ASSUME NEW S, IsFiniteSet(S), NEW f
  PROVE  \E it : IsSum(it, f, S)
<1> DEFINE UpTo(n) == {s \in SUBSET S : Cardinality(s) <= n}
           Sums(g, n) == g = [s \in UpTo(n) |-> IF s = {} THEN 0 ELSE f[Some(s)] + g[s \ {Some(s)}]]
           bad == {n \in Nat : ~\E g : Sums(g, n)}
<1>1. \A s \in SUBSET S : Cardinality(s) \in Nat
  BY FS_Subset, FS_CardinalityType
<1>2. \A s \in SUBSET S : s # {} => /\ s \ {Some(s)} \in SUBSET S
                                    /\ Cardinality(s \ {Some(s)}) = Cardinality(s) - 1
  <2> TAKE s \in SUBSET S
  <2> HAVE s # {}
  <2>1. Some(s) \in s
    BY DEF Some
  <2> QED
    BY <2>1, OneLess
<1>3. bad = {}
  <2> SUFFICES ASSUME bad # {} PROVE FALSE
    OBVIOUS
  <2>1. PICK m \in bad : \A k \in bad : m <= k
    BY LeastNat
  <2>2. m \in Nat /\ ~\E g : Sums(g, m)
    OBVIOUS
  <2>3. CASE m = 0
    <3> DEFINE g == [s \in UpTo(0) |-> 0]
    <3>1. ASSUME NEW s \in UpTo(0) PROVE s = {}
      <4> SUFFICES ASSUME s # {} PROVE FALSE
        OBVIOUS
      <4>1. /\ Cardinality(s) \in Nat /\ Cardinality(s) <= 0
            /\ Cardinality(s \ {Some(s)}) \in Nat /\ Cardinality(s \ {Some(s)}) = Cardinality(s) - 1
        BY <1>1, <1>2
      <4> QED
        BY <4>1
    <3>2. Sums(g, 0)
      BY <3>1
    <3> QED
      BY <2>2, <2>3, <3>2
  <2>4. CASE m # 0
    <3>0. m - 1 \in Nat /\ ~(m <= m - 1)
      BY <2>2, <2>4
    <3>1. m - 1 \in Nat /\ m - 1 \notin bad
      <4> HIDE DEF bad
      <4> QED
        BY <2>1, <3>0
    <3>2. PICK g : Sums(g, m - 1)
      BY <3>1
    <3> DEFINE h == [s \in UpTo(m) |-> IF s = {} THEN 0 ELSE f[Some(s)] + g[s \ {Some(s)}]]
    <3>3. \A s \in UpTo(m) : s # {} => s \ {Some(s)} \in UpTo(m - 1)
      BY <1>1, <1>2, <2>2
    <3>4. \A s \in UpTo(m - 1) : s \in UpTo(m) /\ h[s] = g[s]
      <4> TAKE s \in UpTo(m - 1)
      <4>1. s \in UpTo(m)
        BY <1>1, <2>2
      <4>2. g[s] = IF s = {} THEN 0 ELSE f[Some(s)] + g[s \ {Some(s)}]
        BY <3>2
      <4> QED
        BY <4>1, <4>2
    <3>5. \A s \in UpTo(m) : h[s] = IF s = {} THEN 0 ELSE f[Some(s)] + h[s \ {Some(s)}]
      <4> TAKE s \in UpTo(m)
      <4>1. h[s] = IF s = {} THEN 0 ELSE f[Some(s)] + g[s \ {Some(s)}]
        OBVIOUS
      <4>2. s # {} => h[s \ {Some(s)}] = g[s \ {Some(s)}]
        BY <3>3, <3>4
      <4> HIDE DEF h
      <4> QED
        BY <4>1, <4>2
    <3>6. Sums(h, m)
      <4>1. h = [s \in UpTo(m) |-> h[s]]
        OBVIOUS
      <4> HIDE DEF h
      <4> QED
        BY <3>5, <4>1
    <3> QED
      BY <2>2, <3>6
  <2> QED
    BY <2>3, <2>4
<1>4. PICK n \in Nat : n = Cardinality(S)
  BY <1>1
<1>5. UpTo(n) = SUBSET S
  <2> SUFFICES ASSUME NEW s \in SUBSET S PROVE Cardinality(s) <= n
    OBVIOUS
  <2> QED
    BY <1>4, FS_Subset
<1>6. PICK g : Sums(g, n)
  BY <1>3
<1>7. IsSum(g, f, S)
  BY <1>5, <1>6 DEF IsSum
<1> QED
  BY <1>7

\* What it gives is an integer, and does not depend on the order.
AddsUp(it, f, S) ==
  /\ it[{}] = 0
  /\ \A s \in SUBSET S : it[s] \in Int
  /\ \A s \in SUBSET S : \A y \in s : it[s] = f[y] + it[s \ {y}]

LEMMA SumByElement ==
  ASSUME NEW S, IsFiniteSet(S), NEW f, \A x \in S : f[x] \in Int, NEW it, IsSum(it, f, S)
  PROVE  AddsUp(it, f, S)
<1> DEFINE Right(s) == it[s] \in Int /\ \A y \in s : it[s] = f[y] + it[s \ {y}]
           bad == {n \in Nat : \E s \in SUBSET S : Cardinality(s) = n /\ ~Right(s)}
<1>1. it[{}] = 0
  BY DEF IsSum
<1>2. \A s \in SUBSET S : Cardinality(s) \in Nat
  BY FS_Subset, FS_CardinalityType
<1>3. bad = {}
  <2> SUFFICES ASSUME bad # {} PROVE FALSE
    OBVIOUS
  <2>1. PICK m \in bad : \A k \in bad : m <= k
    BY LeastNat
  <2>2. PICK s \in SUBSET S : Cardinality(s) = m /\ ~Right(s)
    OBVIOUS
  <2>3. m \in Nat
    OBVIOUS
  <2>4. \A t \in SUBSET S : Cardinality(t) < m => Right(t)
    <3> TAKE t \in SUBSET S
    <3> HAVE Cardinality(t) < m
    <3>1. Cardinality(t) \notin bad
      BY <1>2, <2>1, <2>3
    <3> QED
      BY <1>2, <3>1
  <2> HIDE DEF bad
  <2>5. s # {}
    BY <1>1, <2>2
  <2> DEFINE x == Some(s)
  <2>6. x \in s
    BY <2>5 DEF Some
  <2>7. it[s] = f[x] + it[s \ {x}]
    BY <2>5 DEF IsSum
  <2> HIDE DEF x
  <2>8. \A y \in s : s \ {y} \in SUBSET S /\ Cardinality(s \ {y}) < m /\ Right(s \ {y})
    <3> TAKE y \in s
    <3>1. s \ {y} \in SUBSET S /\ Cardinality(s \ {y}) = m - 1
      BY <2>2, OneLess
    <3>2. Cardinality(s \ {y}) < m
      BY <2>3, <3>1
    <3> HIDE DEF Right
    <3> QED
      BY <2>4, <3>1, <3>2
  <2>9. it[s] \in Int
    <3>1. it[s \ {x}] \in Int /\ f[x] \in Int
      BY <2>6, <2>8
    <3> QED
      BY <2>7, <3>1
  <2>10. ASSUME NEW y \in s PROVE it[s] = f[y] + it[s \ {y}]
    <3>1. CASE x = y
      BY <2>7, <3>1
    <3>2. CASE x # y
      <4>1. it[s \ {x}] = f[y] + it[(s \ {x}) \ {y}]
        BY <2>6, <2>8, <2>10, <3>2
      <4>2. it[s \ {y}] = f[x] + it[(s \ {y}) \ {x}]
        BY <2>6, <2>8, <2>10, <3>2
      <4>3. (s \ {x}) \ {y} = (s \ {y}) \ {x}
        OBVIOUS
      <4>4. Right((s \ {x}) \ {y})
        <5>1. (s \ {x}) \ {y} \in SUBSET S /\ Cardinality((s \ {x}) \ {y}) < m
          <6>1. y \in s \ {x} /\ s \ {x} \in SUBSET S /\ Cardinality(s \ {x}) < m
            BY <2>6, <2>8, <2>10, <3>2
          <6>2. (s \ {x}) \ {y} \in SUBSET S /\ Cardinality((s \ {x}) \ {y}) = Cardinality(s \ {x}) - 1
            BY <6>1, OneLess
          <6> QED
            BY <1>2, <2>3, <6>1, <6>2
        <5> QED
          BY <2>4, <5>1
      <4>5. f[x] \in Int /\ f[y] \in Int /\ it[(s \ {x}) \ {y}] \in Int
        BY <2>6, <4>4
      <4>6. it[s] = f[x] + (f[y] + it[(s \ {x}) \ {y}]) /\ it[s \ {y}] = f[x] + it[(s \ {x}) \ {y}]
        BY <2>7, <4>1, <4>2, <4>3
      <4> QED
        BY <4>5, <4>6
    <3> QED
      BY <3>1, <3>2
  <2> QED
    BY <2>2, <2>9, <2>10
<1>4. \A s \in SUBSET S : Right(s)
  BY <1>2, <1>3
<1> QED
  BY <1>1, <1>4 DEF AddsUp

\* Sums depend on what is added only.
LEMMA SumsAgree ==
  ASSUME NEW S, IsFiniteSet(S), NEW T \in SUBSET S, NEW i, NEW j, NEW f, NEW g,
         AddsUp(i, f, S), AddsUp(j, g, T), \A x \in T : f[x] = g[x]
  PROVE  i[T] = j[T]
<1> DEFINE wrong == {s \in SUBSET T : i[s] # j[s]}
<1>1. IsFiniteSet(T)
  BY FS_Subset
<1>2. wrong = {}
  <2> SUFFICES ASSUME wrong # {} PROVE FALSE
    OBVIOUS
  <2>1. PICK s \in wrong : \A x \in s : s \ {x} \notin wrong
    <3>1. wrong \in SUBSET SUBSET T
      OBVIOUS
    <3> HIDE DEF wrong
    <3> QED
      BY <1>1, <3>1, SmallestSet
  <2>2. s \in SUBSET T /\ s \in SUBSET S /\ i[s] # j[s]
    OBVIOUS
  <2>3. CASE s = {}
    BY <2>2, <2>3 DEF AddsUp
  <2>4. CASE s # {}
    <3>1. PICK x \in s : TRUE
      BY <2>4
    <3>2. i[s \ {x}] = j[s \ {x}]
      BY <2>1, <2>2, <3>1
    <3>3. i[s] = f[x] + i[s \ {x}] /\ j[s] = g[x] + j[s \ {x}] /\ f[x] = g[x]
      BY <2>2, <3>1 DEF AddsUp
    <3> QED
      BY <2>2, <3>2, <3>3
  <2> QED
    BY <2>3, <2>4
<1> QED
  BY <1>2

\* The sum of f over S, as the reviews form theirs.
SumOf(f, S) == (CHOOSE g : IsSum(g, f, S))[S]

LEMMA SumOfAdds ==
  ASSUME NEW S, IsFiniteSet(S), NEW f, \A x \in S : f[x] \in Int
  PROVE  \E i : AddsUp(i, f, S) /\ SumOf(f, S) = i[S]
<1> DEFINE i == CHOOSE g : IsSum(g, f, S)
<1>1. IsSum(i, f, S)
  BY SumExists
<1>2. SumOf(f, S) = i[S]
  BY DEF SumOf
<1> HIDE DEF i
<1>3. AddsUp(i, f, S)
  BY <1>1, SumByElement
<1> QED
  BY <1>2, <1>3

LEMMA SumOfType ==
  ASSUME NEW S, IsFiniteSet(S), NEW f, \A x \in S : f[x] \in Int
  PROVE  SumOf(f, S) \in Int
<1>1. PICK i : AddsUp(i, f, S) /\ SumOf(f, S) = i[S]
  BY SumOfAdds
<1>2. i[S] \in Int
  BY <1>1 DEF AddsUp
<1> QED
  BY <1>1, <1>2

\* Of f over T, where g is f on T and nothing outside it.
LEMMA SumWithin ==
  ASSUME NEW S, IsFiniteSet(S), NEW T \in SUBSET S, NEW f, NEW g, \A x \in T : f[x] \in Int,
         \A x \in S : g[x] = IF x \in T THEN f[x] ELSE 0
  PROVE  SumOf(f, T) = SumOf(g, S)
<1>1. IsFiniteSet(T)
  BY FS_Subset
<1>2. \A x \in S : g[x] \in Int
  OBVIOUS
<1>3. PICK i : AddsUp(i, f, T) /\ SumOf(f, T) = i[T]
  BY <1>1, SumOfAdds
<1>4. PICK j : AddsUp(j, g, S) /\ SumOf(g, S) = j[S]
  BY <1>2, SumOfAdds
<1>5. j[T] = i[T]
  <2>1. \A x \in T : g[x] = f[x]
    OBVIOUS
  <2> QED
    BY <1>3, <1>4, <2>1, SumsAgree
<1> DEFINE off == {s \in SUBSET S : T \subseteq s /\ j[s] # j[T]}
<1>6. off = {}
  <2> SUFFICES ASSUME off # {} PROVE FALSE
    OBVIOUS
  <2>1. PICK s \in off : \A x \in s : s \ {x} \notin off
    <3>1. off \in SUBSET SUBSET S
      OBVIOUS
    <3> HIDE DEF off
    <3> QED
      BY <3>1, SmallestSet
  <2>2. s \in SUBSET S /\ T \subseteq s /\ j[s] # j[T]
    OBVIOUS
  <2>3. PICK x \in s : x \notin T
    BY <2>2
  <2>4. j[s \ {x}] = j[T]
    BY <2>1, <2>2, <2>3
  <2>5. j[s] = g[x] + j[s \ {x}] /\ j[T] \in Int /\ g[x] = 0
    BY <1>4, <2>2, <2>3 DEF AddsUp
  <2> QED
    BY <2>2, <2>4, <2>5
<1> QED
  BY <1>3, <1>4, <1>5, <1>6

\* Where five quantities balance element by element, their sums do.
LEMMA SumsBalance ==
  ASSUME NEW S, IsFiniteSet(S), NEW a, NEW b, NEW c, NEW d, NEW e,
         \A x \in S : /\ a[x] \in Int /\ b[x] \in Int /\ c[x] \in Int /\ d[x] \in Int /\ e[x] \in Int
                      /\ a[x] + b[x] + c[x] = d[x] + e[x]
  PROVE  SumOf(a, S) + SumOf(b, S) + SumOf(c, S) = SumOf(d, S) + SumOf(e, S)
<1>1. PICK p : AddsUp(p, a, S) /\ SumOf(a, S) = p[S]
  BY SumOfAdds
<1>2. PICK q : AddsUp(q, b, S) /\ SumOf(b, S) = q[S]
  BY SumOfAdds
<1>3. PICK r : AddsUp(r, c, S) /\ SumOf(c, S) = r[S]
  BY SumOfAdds
<1>4. PICK u : AddsUp(u, d, S) /\ SumOf(d, S) = u[S]
  BY SumOfAdds
<1>5. PICK v : AddsUp(v, e, S) /\ SumOf(e, S) = v[S]
  BY SumOfAdds
<1> DEFINE Even(s) == p[s] + q[s] + r[s] = u[s] + v[s]
           off == {s \in SUBSET S : ~Even(s)}
<1>6. off = {}
  <2> SUFFICES ASSUME off # {} PROVE FALSE
    OBVIOUS
  <2>1. PICK s \in off : \A x \in s : s \ {x} \notin off
    <3>1. off \in SUBSET SUBSET S
      OBVIOUS
    <3> HIDE DEF off
    <3> QED
      BY <3>1, SmallestSet
  <2>2. s \in SUBSET S /\ ~Even(s)
    OBVIOUS
  <2>3. CASE s = {}
    <3>1. p[s] = 0 /\ q[s] = 0 /\ r[s] = 0 /\ u[s] = 0 /\ v[s] = 0
      BY <1>1, <1>2, <1>3, <1>4, <1>5, <2>3 DEF AddsUp
    <3> QED
      BY <2>2, <3>1
  <2>4. CASE s # {}
    <3>1. PICK x \in s : TRUE
      BY <2>4
    <3> DEFINE t == s \ {x}
    <3>2. t \in SUBSET S /\ Even(t) /\ x \in S
      BY <2>1, <2>2, <3>1
    <3>3. /\ p[s] = a[x] + p[t] /\ q[s] = b[x] + q[t] /\ r[s] = c[x] + r[t]
          /\ u[s] = d[x] + u[t] /\ v[s] = e[x] + v[t]
      BY <1>1, <1>2, <1>3, <1>4, <1>5, <2>2, <3>1 DEF AddsUp
    <3>4. p[t] \in Int /\ q[t] \in Int /\ r[t] \in Int /\ u[t] \in Int /\ v[t] \in Int
      BY <1>1, <1>2, <1>3, <1>4, <1>5, <3>2 DEF AddsUp
    <3> HIDE DEF t
    <3>5. /\ a[x] \in Int /\ b[x] \in Int /\ c[x] \in Int /\ d[x] \in Int /\ e[x] \in Int
          /\ a[x] + b[x] + c[x] = d[x] + e[x]
      BY <3>2
    <3> QED
      BY <2>2, <3>2, <3>3, <3>4, <3>5
  <2> QED
    BY <2>3, <2>4
<1> QED
  BY <1>1, <1>2, <1>3, <1>4, <1>5, <1>6

\* Nothing anywhere sums to nothing.
LEMMA SumOfNothing ==
  ASSUME NEW S, IsFiniteSet(S), NEW f, \A x \in S : f[x] = 0
  PROVE  SumOf(f, S) = 0
<1>1. SumOf(f, S) + SumOf(f, S) + SumOf(f, S) = SumOf(f, S) + SumOf(f, S)
  BY SumsBalance
<1>2. SumOf(f, S) \in Int
  BY SumOfType
<1> QED
  BY <1>1, <1>2

\* What is at most as much everywhere sums to at most as much.
LEMMA SumsOrdered ==
  ASSUME NEW S, IsFiniteSet(S), NEW f, NEW g, \A x \in S : f[x] \in Nat /\ g[x] \in Nat /\ f[x] <= g[x]
  PROVE  SumOf(f, S) \in Nat /\ SumOf(f, S) <= SumOf(g, S)
<1>1. PICK i : AddsUp(i, f, S) /\ SumOf(f, S) = i[S]
  BY SumOfAdds
<1>2. PICK j : AddsUp(j, g, S) /\ SumOf(g, S) = j[S]
  BY SumOfAdds
<1> DEFINE Below(s) == i[s] \in Nat /\ i[s] <= j[s]
           off == {s \in SUBSET S : ~Below(s)}
<1>3. off = {}
  <2> SUFFICES ASSUME off # {} PROVE FALSE
    OBVIOUS
  <2>1. PICK s \in off : \A x \in s : s \ {x} \notin off
    <3>1. off \in SUBSET SUBSET S
      OBVIOUS
    <3> HIDE DEF off
    <3> QED
      BY <3>1, SmallestSet
  <2>2. s \in SUBSET S /\ ~Below(s)
    OBVIOUS
  <2>3. CASE s = {}
    <3>1. i[s] = 0 /\ j[s] = 0
      BY <1>1, <1>2, <2>3 DEF AddsUp
    <3> QED
      BY <2>2, <3>1
  <2>4. CASE s # {}
    <3>1. PICK x \in s : TRUE
      BY <2>4
    <3> DEFINE t == s \ {x}
    <3>2. t \in SUBSET S /\ Below(t) /\ x \in S
      BY <2>1, <2>2, <3>1
    <3>3. i[s] = f[x] + i[t] /\ j[s] = g[x] + j[t] /\ j[t] \in Int
      BY <1>1, <1>2, <2>2, <3>1 DEF AddsUp
    <3> HIDE DEF t
    <3>4. f[x] \in Nat /\ g[x] \in Nat /\ f[x] <= g[x]
      BY <3>2
    <3> QED
      BY <2>2, <3>2, <3>3, <3>4
  <2> QED
    BY <2>3, <2>4
<1> QED
  BY <1>1, <1>2, <1>3

\* No part of a sum of natural numbers is more than the sum.
LEMMA PartOfSum ==
  ASSUME NEW S, IsFiniteSet(S), NEW f, \A x \in S : f[x] \in Nat, NEW y \in S
  PROVE  f[y] <= SumOf(f, S)
<1>1. PICK i : AddsUp(i, f, S) /\ SumOf(f, S) = i[S]
  BY SumOfAdds
<1>2. i[S] = f[y] + i[S \ {y}]
  BY <1>1 DEF AddsUp
<1>3. IsFiniteSet(S \ {y}) /\ S \ {y} \in SUBSET S
  BY FS_Subset
<1>4. PICK j : AddsUp(j, f, S \ {y}) /\ SumOf(f, S \ {y}) = j[S \ {y}]
  BY <1>3, SumOfAdds
<1>5. i[S \ {y}] = j[S \ {y}]
  BY <1>1, <1>3, <1>4, SumsAgree
<1>6. SumOf(f, S \ {y}) \in Nat
  BY <1>3, SumsOrdered
<1> QED
  BY <1>1, <1>2, <1>4, <1>5, <1>6

\* No part of a set counts for more than the set.
LEMMA PartsOrdered ==
  ASSUME NEW S, IsFiniteSet(S), NEW f, \A x \in S : f[x] \in Nat, NEW A \in SUBSET S, NEW B \in SUBSET A
  PROVE  SumOf(f, A) \in Nat /\ SumOf(f, B) \in Nat /\ SumOf(f, B) <= SumOf(f, A)
<1> DEFINE g == [x \in A |-> IF x \in B THEN f[x] ELSE 0]
<1>1. IsFiniteSet(A) /\ \A x \in A : f[x] \in Nat
  BY FS_Subset
<1>2. \A x \in A : g[x] \in Nat /\ g[x] <= f[x] /\ g[x] = IF x \in B THEN f[x] ELSE 0
  BY <1>1
<1>3. \A x \in B : f[x] \in Int
  BY <1>1
<1> HIDE DEF g
<1>4. SumOf(f, B) = SumOf(g, A)
  BY <1>1, <1>2, <1>3, SumWithin
<1>5. SumOf(g, A) \in Nat /\ SumOf(g, A) <= SumOf(f, A)
  BY <1>1, <1>2, SumsOrdered
<1>6. SumOf(f, A) \in Nat
  BY <1>1, SumsOrdered
<1> QED
  BY <1>4, <1>5, <1>6

LEMMA TwoFinite == IsFiniteSet(1..2)
<1> DEFINE one == 1
           two == 2
<1>1. one \in Int /\ two \in Int
  OBVIOUS
<1> HIDE DEF one, two
<1>2. IsFiniteSet(one..two)
  BY <1>1, FS_Interval
<1> QED
  BY <1>2 DEF one, two

\* Pairs of something and 1 or 2, each counted as much as its first part.
LEMMA PairsCounted ==
  ASSUME NEW T, IsFiniteSet(T), NEW L \in SUBSET (T \X (1..2)), NEW b, \A t \in T : b[t] \in Nat,
         NEW h, \A r \in L : h[r] = b[r[1]],
         NEW f, \A t \in T : f[t] = (IF <<t, 1>> \in L THEN b[t] ELSE 0) + (IF <<t, 2>> \in L THEN b[t] ELSE 0)
  PROVE  SumOf(h, L) = SumOf(f, T)
<1>1. IsFiniteSet(L)
  <2>1. IsFiniteSet(T \X (1..2))
    BY TwoFinite, FS_Product
  <2> QED
    BY <2>1, FS_Subset
<1>2. \A r \in L : h[r] \in Int
  <2> TAKE r \in L
  <2>1. r[1] \in T
    OBVIOUS
  <2> QED
    BY <2>1
<1>3. \A t \in T : f[t] \in Int
  <2> TAKE t \in T
  <2>1. b[t] \in Nat
    OBVIOUS
  <2> DEFINE n == b[t]
             one == IF <<t, 1>> \in L THEN n ELSE 0
             two == IF <<t, 2>> \in L THEN n ELSE 0
  <2>2. f[t] = one + two
    OBVIOUS
  <2>3. one \in Int /\ two \in Int
    BY <2>1
  <2> HIDE DEF one, two
  <2> QED
    BY <2>2, <2>3
<1>4. PICK i : AddsUp(i, h, L) /\ SumOf(h, L) = i[L]
  BY <1>1, <1>2, SumOfAdds
<1>5. PICK j : AddsUp(j, f, T) /\ SumOf(f, T) = j[T]
  BY <1>3, SumOfAdds
<1> DEFINE Over(s) == {r \in L : r[1] \in s}
           off == {s \in SUBSET T : i[Over(s)] # j[s]}
<1>6. off = {}
  <2> SUFFICES ASSUME off # {} PROVE FALSE
    OBVIOUS
  <2>1. PICK s \in off : \A x \in s : s \ {x} \notin off
    <3>1. off \in SUBSET SUBSET T
      OBVIOUS
    <3> HIDE DEF off
    <3> QED
      BY <1>5, <3>1, SmallestSet
  <2>2. s \in SUBSET T /\ i[Over(s)] # j[s]
    OBVIOUS
  <2>3. CASE s = {}
    <3>1. Over(s) = {}
      BY <2>3
    <3> QED
      BY <1>4, <1>5, <2>2, <2>3, <3>1 DEF AddsUp
  <2>4. CASE s # {}
    <3>1. PICK x \in s : TRUE
      BY <2>4
    <3>2. i[Over(s \ {x})] = j[s \ {x}] /\ x \in T
      BY <2>1, <2>2, <3>1
    <3> DEFINE without == Over(s) \ {<<x, 1>>}
    <3>3. Over(s \ {x}) = without \ {<<x, 2>>}
      <4>1. \A r \in L : r = <<r[1], r[2]>> /\ r[2] \in {1, 2}
        OBVIOUS
      <4> QED
        BY <3>1, <4>1
    <3>4. i[Over(s)] = (IF <<x, 1>> \in L THEN b[x] ELSE 0) + i[without]
      <4>1. CASE <<x, 1>> \in L
        <5>1. <<x, 1>> \in Over(s) /\ Over(s) \in SUBSET L /\ h[<<x, 1>>] = b[x]
          BY <3>1, <4>1
        <5>2. i[Over(s)] = h[<<x, 1>>] + i[Over(s) \ {<<x, 1>>}]
          BY <1>4, <5>1 DEF AddsUp
        <5> QED
          BY <4>1, <5>1, <5>2
      <4>2. CASE <<x, 1>> \notin L
        <5>1. without = Over(s) /\ Over(s) \in SUBSET L
          BY <4>2
        <5>2. i[Over(s)] \in Int
          BY <1>4, <5>1 DEF AddsUp
        <5> HIDE DEF without
        <5> QED
          BY <4>2, <5>1, <5>2
      <4> QED
        BY <4>1, <4>2
    <3>5. i[without] = (IF <<x, 2>> \in L THEN b[x] ELSE 0) + i[without \ {<<x, 2>>}]
      <4>1. CASE <<x, 2>> \in L
        <5>1. <<x, 2>> \in without /\ without \in SUBSET L /\ h[<<x, 2>>] = b[x]
          BY <3>1, <4>1
        <5>2. i[without] = h[<<x, 2>>] + i[without \ {<<x, 2>>}]
          BY <1>4, <5>1 DEF AddsUp
        <5> QED
          BY <4>1, <5>1, <5>2
      <4>2. CASE <<x, 2>> \notin L
        <5>1. without \ {<<x, 2>>} = without /\ without \in SUBSET L
          BY <4>2
        <5>2. i[without] \in Int
          BY <1>4, <5>1 DEF AddsUp
        <5> HIDE DEF without
        <5>3. i[without \ {<<x, 2>>}] = i[without]
          BY <5>1
        <5> QED
          BY <4>2, <5>2, <5>3
      <4> QED
        BY <4>1, <4>2
    <3>6. j[s] = f[x] + j[s \ {x}] /\ j[s \ {x}] \in Int
      <4>1. s \ {x} \in SUBSET T
        BY <2>2
      <4> QED
        BY <1>5, <2>2, <3>1, <4>1 DEF AddsUp
    <3> DEFINE one == IF <<x, 1>> \in L THEN b[x] ELSE 0
               two == IF <<x, 2>> \in L THEN b[x] ELSE 0
    <3>7. f[x] = one + two /\ one \in Int /\ two \in Int
      BY <3>2
    <3>8. i[Over(s)] = one + i[without] /\ i[without] = two + i[Over(s \ {x})]
      BY <3>3, <3>4, <3>5
    <3> HIDE DEF one, two, without, Over
    <3> QED
      BY <2>2, <3>2, <3>6, <3>7, <3>8
  <2> QED
    BY <2>3, <2>4
<1>7. Over(T) = L
  OBVIOUS
<1> QED
  BY <1>4, <1>5, <1>6, <1>7

-----------------------------------------------------------------------------
(* Early exits.  What a trade is scored and where it leaves depends on its    *)
(* shape only, so every figure of the review is a sum over the shapes.        *)

Filled == book \in [MCTrades -> Nat]

LEMMA FiveFinite ==
  ASSUME NEW a, NEW b, NEW c, NEW d, NEW e
  PROVE  IsFiniteSet({a, b, c, d, e})
<1>1. IsFiniteSet({})
  BY FS_EmptySet
<1>2. IsFiniteSet({a})
  BY <1>1, FS_AddElement
<1>3. IsFiniteSet({a} \cup {b})
  BY <1>2, FS_AddElement
<1>4. IsFiniteSet({a} \cup {b} \cup {c})
  BY <1>3, FS_AddElement
<1>5. IsFiniteSet({a} \cup {b} \cup {c} \cup {d})
  BY <1>4, FS_AddElement
<1>6. IsFiniteSet({a} \cup {b} \cup {c} \cup {d} \cup {e})
  BY <1>5, FS_AddElement
<1>7. {a} \cup {b} \cup {c} \cup {d} \cup {e} = {a, b, c, d, e}
  OBVIOUS
<1> QED
  BY <1>6, <1>7

LEMMA NineFinite ==
  ASSUME NEW a, NEW b, NEW c, NEW d, NEW e, NEW f, NEW g, NEW h, NEW i
  PROVE  IsFiniteSet({a, b, c, d, e, f, g, h, i})
<1>1. IsFiniteSet({a, b, c, d, e}) /\ IsFiniteSet({e, f, g, h, i})
  BY FiveFinite
<1>2. IsFiniteSet({a, b, c, d, e} \cup {e, f, g, h, i})
  BY <1>1, FS_Union
<1>3. {a, b, c, d, e} \cup {e, f, g, h, i} = {a, b, c, d, e, f, g, h, i}
  OBVIOUS
<1> QED
  BY <1>2, <1>3

LEMMA TradesFinite == IsFiniteSet(MCTrades)
BY NineFinite DEF MCTrades

\* The review's copy of the library.
LEMMA ReviewCardinality ==
  ASSUME NEW S
  PROVE  Review!Cardinality(S) = Cardinality(S)
BY DEF Review!Cardinality, Cardinality, Review!IsFiniteSet, IsFiniteSet

LEMMA GreaterOfTwo ==
  ASSUME NEW a \in Int, NEW b \in Int
  PROVE  Review!Max({a, b}) = IF a >= b THEN a ELSE b
<1> DEFINE m == IF a >= b THEN a ELSE b
<1>1. m \in {a, b} /\ \A y \in {a, b} : m >= y
  OBVIOUS
<1>2. \A n \in {a, b} : (\A y \in {a, b} : n >= y) => n = m
  OBVIOUS
<1> HIDE DEF m
<1> QED
  BY <1>1, <1>2 DEF Review!Max, m

LEMMA LesserOfTwo ==
  ASSUME NEW a \in Int, NEW b \in Int
  PROVE  Review!Min({a, b}) = IF a <= b THEN a ELSE b
<1> DEFINE m == IF a <= b THEN a ELSE b
<1>1. m \in {a, b} /\ \A y \in {a, b} : m <= y
  OBVIOUS
<1>2. \A n \in {a, b} : (\A y \in {a, b} : n <= y) => n = m
  OBVIOUS
<1> HIDE DEF m
<1> QED
  BY <1>1, <1>2 DEF Review!Min, m

\* The greatest and the least of a set of numbers.
LEMMA ReviewExtremes ==
  ASSUME NEW n \in Nat, NEW S \in SUBSET (0..n), S # {}
  PROVE  /\ Review!Min(S) \in S /\ Review!Max(S) \in S
         /\ \A k \in S : Review!Min(S) <= k /\ k <= Review!Max(S)
<1>1. S \in SUBSET Nat /\ \A k \in S : k <= n
  OBVIOUS
<1>2. \E m \in S : \A k \in S : m <= k
  BY <1>1, LeastNat
<1>3. \E m \in S : \A k \in S : k <= m
  BY <1>1, GreatestNat
<1>4. \E m \in S : \A k \in S : m >= k
  BY <1>1, <1>3
<1>5. Review!Min(S) \in S /\ \A k \in S : Review!Min(S) <= k
  BY <1>2 DEF Review!Min
<1>6. Review!Max(S) \in S /\ \A k \in S : Review!Max(S) >= k
  BY <1>4 DEF Review!Max
<1> QED
  BY <1>1, <1>5, <1>6

LEMMA DivBelow ==
  ASSUME NEW a \in Nat, NEW d \in Nat \ {0}, NEW k \in Nat
  PROVE  (a \div d < k) <=> (a < k * d)
OBVIOUS

\* What is said of a signal counts at its weight, rounded.
Points(signals) == [s \in DOMAIN signals |-> (signals[s] * Review!Weights[s] + 5) \div 10]

LEMMA ScoredSum ==
  ASSUME NEW signals
  PROVE  Review!MapThenSumSet(LAMBDA s : (signals[s] * Review!Weights[s] + 5) \div 10, DOMAIN signals)
           = SumOf(Points(signals), DOMAIN signals)
<1> DEFINE S == DOMAIN signals
           f == Points(signals)
           Summing(g) == g = [s \in SUBSET S |-> IF s = {} THEN 0
                                 ELSE (signals[Some(s)] * Review!Weights[Some(s)] + 5) \div 10 + g[s \ {Some(s)}]]
<1>1. ASSUME NEW g PROVE IsSum(g, f, S) <=> Summing(g)
  <2>1. \A s \in SUBSET S : s # {} => f[Some(s)] = (signals[Some(s)] * Review!Weights[Some(s)] + 5) \div 10
    <3> TAKE s \in SUBSET S
    <3> HAVE s # {}
    <3>1. Some(s) \in S
      BY DEF Some
    <3> QED
      BY <3>1 DEF Points
  <2> HIDE DEF f
  <2>2. [s \in SUBSET S |-> IF s = {} THEN 0 ELSE f[Some(s)] + g[s \ {Some(s)}]]
        = [s \in SUBSET S |-> IF s = {} THEN 0
              ELSE (signals[Some(s)] * Review!Weights[Some(s)] + 5) \div 10 + g[s \ {Some(s)}]]
    BY <2>1
  <2> QED
    BY <2>2 DEF IsSum
<1>2. Review!MapThenSumSet(LAMBDA s : (signals[s] * Review!Weights[s] + 5) \div 10, S) = (CHOOSE g : Summing(g))[S]
  BY DEF Review!MapThenSumSet, Review!MapThenFoldSet, Some
<1> HIDE DEF Summing, f
<1>3. (CHOOSE g : Summing(g)) = (CHOOSE g : IsSum(g, f, S))
  BY <1>1
<1> QED
  BY <1>2, <1>3 DEF SumOf, f

LEMMA OneOrTwo == 1..2 = {1, 2}
OBVIOUS

LEMMA SomeOfTwo ==
  ASSUME NEW S \in SUBSET (1..2)
  PROVE  /\ Cardinality(S) \in Nat /\ Cardinality(S) <= 2
         /\ Cardinality(S) = 2 <=> 1 \in S /\ 2 \in S
<1> DEFINE one == 1
           two == 2
<1>1. one \in Int /\ two \in Int /\ two - one + 1 = 2 /\ ~(one > two)
  OBVIOUS
<1> HIDE DEF one, two
<1>2. IsFiniteSet(one..two) /\ Cardinality(one..two) = 2
  BY <1>1, FS_Interval
<1>3. IsFiniteSet(1..2) /\ Cardinality(1..2) = 2
  BY <1>2 DEF one, two
<1>4. IsFiniteSet(S) /\ Cardinality(S) \in Nat /\ Cardinality(S) <= 2
  BY <1>3, FS_Subset, FS_CardinalityType
<1>5. S # 1..2 => Cardinality(S) # 2
  BY <1>3, FS_Subset
<1>6. S = 1..2 <=> 1 \in S /\ 2 \in S
  BY OneOrTwo
<1> QED
  BY <1>3, <1>4, <1>5, <1>6

\* Every trade is scored for two zones, from signals of these four kinds.
LEMMA TradeSignals ==
  ASSUME NEW t \in MCTrades, NEW z \in 1..2
  PROVE  t.signals[z] \in {Steady, Early, Worried, Broken}
<1>1. \E rr, adverse, cluster : \E first, second \in {Steady, Early, Worried, Broken} :
        t = Trade(rr, adverse, first, second, cluster)
  BY DEF MCTrades
<1>2. PICK rr, adverse, cluster, first, second :
        /\ first \in {Steady, Early, Worried, Broken} /\ second \in {Steady, Early, Worried, Broken}
        /\ t = Trade(rr, adverse, first, second, cluster)
  BY <1>1
<1>3. t.signals = <<first, second>>
  BY <1>2 DEF Trade
<1>4. z = 1 \/ z = 2
  OBVIOUS
<1> QED
  BY <1>2, <1>3, <1>4

Said == {"structure_invalidation", "momentum_failure", "regime_failure", "time_failure",
         "execution_friction", "retest_failure"}

Graded(signals) == DOMAIN signals = Said /\ \A s \in Said : signals[s] \in Int

LEMMA AllGraded == Graded(Steady) /\ Graded(Early) /\ Graded(Worried) /\ Graded(Broken)
<1>1. Graded(Steady)
  BY DEF Steady, Signals, Said, Graded
<1>2. Graded(Early)
  BY DEF Early, Signals, Said, Graded
<1>3. Graded(Worried)
  BY DEF Worried, Signals, Said, Graded
<1>4. Graded(Broken)
  BY DEF Broken, Signals, Said, Graded
<1> QED
  BY <1>1, <1>2, <1>3, <1>4

LEMMA SignalsGraded ==
  ASSUME NEW signals \in {Steady, Early, Worried, Broken}
  PROVE  /\ DOMAIN signals = Said /\ IsFiniteSet(Said)
         /\ \A s \in Said : Points(signals)[s] \in Int
<1>1. Graded(signals)
  BY AllGraded
<1>2. DOMAIN signals = Said
  BY <1>1 DEF Graded
<1>3. IsFiniteSet(Said)
  <2> DEFINE five == {"structure_invalidation", "momentum_failure", "regime_failure", "time_failure",
                      "execution_friction"}
  <2>1. IsFiniteSet(five)
    BY FiveFinite
  <2>2. five \cup {"retest_failure"} = Said
    BY DEF Said
  <2> HIDE DEF five
  <2> QED
    BY <2>1, <2>2, FS_AddElement
<1>4. \A s \in Said : signals[s] \in Int /\ Review!Weights[s] \in Int
  <2>1. \A s \in Said : signals[s] \in Int
    BY <1>1 DEF Graded
  <2>2. \A s \in Said : Review!Weights[s] \in Int
    BY DEF Said, Review!Weights
  <2> QED
    BY <2>1, <2>2
<1>5. ASSUME NEW s \in Said PROVE Points(signals)[s] \in Int
  <2> DEFINE n == signals[s] * Review!Weights[s]
  <2>1. n \in Int
    BY <1>4
  <2>2. Points(signals)[s] = (n + 5) \div 10
    BY <1>2 DEF Points
  <2> HIDE DEF n
  <2> QED
    BY <2>1, <2>2
<1> QED
  BY <1>2, <1>3, <1>5

LEMMA ScoreRange ==
  ASSUME NEW signals \in {Steady, Early, Worried, Broken}
  PROVE  Review!FailureProbabilityScore(signals) \in 0..100
<1> DEFINE score == Review!MapThenSumSet(LAMBDA s : (signals[s] * Review!Weights[s] + 5) \div 10, DOMAIN signals)
<1>1. Review!FailureProbabilityScore(signals) = Review!Max({0, Review!Min({100, score})})
  BY DEF Review!FailureProbabilityScore
<1>2. score \in Int
  <2>1. score = SumOf(Points(signals), DOMAIN signals)
    BY ScoredSum
  <2> HIDE DEF score
  <2>2. DOMAIN signals = Said /\ IsFiniteSet(Said) /\ \A s \in Said : Points(signals)[s] \in Int
    BY SignalsGraded
  <2> QED
    BY <2>1, <2>2, SumOfType
<1> HIDE DEF score
<1>3. Review!Min({100, score}) = IF 100 <= score THEN 100 ELSE score
  BY <1>2, LesserOfTwo
<1> DEFINE least == Review!Min({100, score})
<1>4. least \in Int /\ least <= 100
  BY <1>2, <1>3
<1> HIDE DEF least
<1>5. Review!Max({0, least}) = IF 0 >= least THEN 0 ELSE least
  BY <1>4, GreaterOfTwo
<1> QED
  BY <1>1, <1>4, <1>5 DEF least

LEMMA FpsRange ==
  ASSUME NEW t \in MCTrades, NEW z \in 1..2
  PROVE  Review!Fps(t, z) \in 0..100
<1>1. Review!Fps(t, z) = Review!FailureProbabilityScore(t.signals[z])
  BY DEF Review!Fps, Review!Scores
<1> QED
  BY <1>1, TradeSignals, ScoreRange

\* A trade leaves at one of two places, or where it would have.
LEMMA TradeFacts ==
  ASSUME NEW t \in MCTrades
  PROVE  /\ t.rr \in Int
         /\ Review!Exits(t) \in SUBSET (1..2) /\ Review!Exits(t) \subseteq Review!Checkpoints(t)
         /\ Review!Checkpoints(t) \subseteq 1..2
         /\ Review!EfdeRr(t) \in Int
         /\ Review!Exited(t) => Review!EfdeRr(t) < 0
         /\ ~Review!Exited(t) => Review!EfdeRr(t) = t.rr
<1>2. t.rr \in Int
  BY DEF MCTrades, Trade
<1>3. Review!Checkpoints(t) \subseteq 1..2
  <2> DEFINE Z == {z \in 1..2 : t.adverse >= Review!ActivatedAt[z]}
  <2>1. Z \in SUBSET (1..2)
    OBVIOUS
  <2>2. Review!AdverseZone(t.adverse) = Cardinality(Z)
    BY ReviewCardinality DEF Review!AdverseZone
  <2> HIDE DEF Z
  <2>3. Cardinality(Z) \in Nat /\ Cardinality(Z) <= 2
    BY <2>1, SomeOfTwo
  <2> QED
    BY <2>2, <2>3 DEF Review!Checkpoints
<1>4. Review!Exits(t) \subseteq Review!Checkpoints(t)
  BY DEF Review!Exits
<1> DEFINE E == Review!Exits(t)
<1>5. E \in SUBSET (1..2)
  BY <1>3, <1>4
<1>6. E # {} => Review!ExitAt[Review!Min(E)] \in {-32, -50}
  <2> SUFFICES ASSUME E # {} PROVE Review!ExitAt[Review!Min(E)] \in {-32, -50}
    OBVIOUS
  <2> HIDE DEF E
  <2>1. E \in SUBSET (0..2)
    BY <1>5
  <2>2. Review!Min(E) \in E
    BY <2>1, ReviewExtremes
  <2>3. Review!Min(E) = 1 \/ Review!Min(E) = 2
    BY <1>5, <2>2, OneOrTwo
  <2> QED
    BY <2>3 DEF Review!ExitAt
<1> HIDE DEF E
<1>7. /\ Review!Exited(t) <=> E # {}
      /\ Review!EfdeRr(t) = IF E # {} THEN Review!ExitAt[Review!Min(E)] ELSE t.rr
  BY DEF Review!Exited, Review!EfdeRr, E
<1> QED
  BY <1>2, <1>3, <1>4, <1>5, <1>6, <1>7 DEF E

-----------------------------------------------------------------------------
(* What the review adds up, shape by shape.                                   *)

Changed == [t \in Review!Replayed |-> book[t] * (Review!EfdeRr(t) - t.rr)]
Spared == [t \in Review!Replayed |-> book[t] * Review!SavedLoss(t)]
Forgone == [t \in Review!Replayed |-> book[t] * Review!MissedWinner(t)]
Unmentioned == [t \in Review!Shallow |-> book[t] * (t.rr - Review!EfdeRr(t))]
Recorded(set) == [r \in set |-> book[r[1]]]

LEMMA ChangedSum ==
  Review!MapThenSumSet(LAMBDA t : book[t] * (Review!EfdeRr(t) - t.rr), Review!Replayed) = SumOf(Changed, Review!Replayed)
<1> DEFINE S == Review!Replayed
           Summing(g) == g = [s \in SUBSET S |-> IF s = {} THEN 0 ELSE book[Some(s)] * (Review!EfdeRr(Some(s)) - Some(s).rr) + g[s \ {Some(s)}]]
<1>1. ASSUME NEW g PROVE IsSum(g, Changed, S) <=> Summing(g)
  <2>1. \A s \in SUBSET S : s # {} => Changed[Some(s)] = book[Some(s)] * (Review!EfdeRr(Some(s)) - Some(s).rr)
    <3> TAKE s \in SUBSET S
    <3> HAVE s # {}
    <3>1. Some(s) \in S
      BY DEF Some
    <3> QED
      BY <3>1 DEF Changed
  <2>2. [s \in SUBSET S |-> IF s = {} THEN 0 ELSE Changed[Some(s)] + g[s \ {Some(s)}]]
        = [s \in SUBSET S |-> IF s = {} THEN 0 ELSE book[Some(s)] * (Review!EfdeRr(Some(s)) - Some(s).rr) + g[s \ {Some(s)}]]
    BY <2>1
  <2> QED
    BY <2>2 DEF IsSum
<1>2. Review!MapThenSumSet(LAMBDA t : book[t] * (Review!EfdeRr(t) - t.rr), S) = (CHOOSE g : Summing(g))[S]
  BY DEF Review!MapThenSumSet, Review!MapThenFoldSet, Some
<1> HIDE DEF Summing
<1>3. (CHOOSE g : Summing(g)) = (CHOOSE g : IsSum(g, Changed, S))
  BY <1>1
<1> QED
  BY <1>2, <1>3 DEF SumOf

LEMMA SparedSum ==
  Review!MapThenSumSet(LAMBDA t : book[t] * Review!SavedLoss(t), Review!Replayed) = SumOf(Spared, Review!Replayed)
<1> DEFINE S == Review!Replayed
           Summing(g) == g = [s \in SUBSET S |-> IF s = {} THEN 0 ELSE book[Some(s)] * Review!SavedLoss(Some(s)) + g[s \ {Some(s)}]]
<1>1. ASSUME NEW g PROVE IsSum(g, Spared, S) <=> Summing(g)
  <2>1. \A s \in SUBSET S : s # {} => Spared[Some(s)] = book[Some(s)] * Review!SavedLoss(Some(s))
    <3> TAKE s \in SUBSET S
    <3> HAVE s # {}
    <3>1. Some(s) \in S
      BY DEF Some
    <3> QED
      BY <3>1 DEF Spared
  <2>2. [s \in SUBSET S |-> IF s = {} THEN 0 ELSE Spared[Some(s)] + g[s \ {Some(s)}]]
        = [s \in SUBSET S |-> IF s = {} THEN 0 ELSE book[Some(s)] * Review!SavedLoss(Some(s)) + g[s \ {Some(s)}]]
    BY <2>1
  <2> QED
    BY <2>2 DEF IsSum
<1>2. Review!MapThenSumSet(LAMBDA t : book[t] * Review!SavedLoss(t), S) = (CHOOSE g : Summing(g))[S]
  BY DEF Review!MapThenSumSet, Review!MapThenFoldSet, Some
<1> HIDE DEF Summing
<1>3. (CHOOSE g : Summing(g)) = (CHOOSE g : IsSum(g, Spared, S))
  BY <1>1
<1> QED
  BY <1>2, <1>3 DEF SumOf

LEMMA ForgoneSum ==
  Review!MapThenSumSet(LAMBDA t : book[t] * Review!MissedWinner(t), Review!Replayed) = SumOf(Forgone, Review!Replayed)
<1> DEFINE S == Review!Replayed
           Summing(g) == g = [s \in SUBSET S |-> IF s = {} THEN 0 ELSE book[Some(s)] * Review!MissedWinner(Some(s)) + g[s \ {Some(s)}]]
<1>1. ASSUME NEW g PROVE IsSum(g, Forgone, S) <=> Summing(g)
  <2>1. \A s \in SUBSET S : s # {} => Forgone[Some(s)] = book[Some(s)] * Review!MissedWinner(Some(s))
    <3> TAKE s \in SUBSET S
    <3> HAVE s # {}
    <3>1. Some(s) \in S
      BY DEF Some
    <3> QED
      BY <3>1 DEF Forgone
  <2>2. [s \in SUBSET S |-> IF s = {} THEN 0 ELSE Forgone[Some(s)] + g[s \ {Some(s)}]]
        = [s \in SUBSET S |-> IF s = {} THEN 0 ELSE book[Some(s)] * Review!MissedWinner(Some(s)) + g[s \ {Some(s)}]]
    BY <2>1
  <2> QED
    BY <2>2 DEF IsSum
<1>2. Review!MapThenSumSet(LAMBDA t : book[t] * Review!MissedWinner(t), S) = (CHOOSE g : Summing(g))[S]
  BY DEF Review!MapThenSumSet, Review!MapThenFoldSet, Some
<1> HIDE DEF Summing
<1>3. (CHOOSE g : Summing(g)) = (CHOOSE g : IsSum(g, Forgone, S))
  BY <1>1
<1> QED
  BY <1>2, <1>3 DEF SumOf

LEMMA UnmentionedSum ==
  Review!MapThenSumSet(LAMBDA t : book[t] * (t.rr - Review!EfdeRr(t)), Review!Shallow) = SumOf(Unmentioned, Review!Shallow)
<1> DEFINE S == Review!Shallow
           Summing(g) == g = [s \in SUBSET S |-> IF s = {} THEN 0 ELSE book[Some(s)] * (Some(s).rr - Review!EfdeRr(Some(s))) + g[s \ {Some(s)}]]
<1>1. ASSUME NEW g PROVE IsSum(g, Unmentioned, S) <=> Summing(g)
  <2>1. \A s \in SUBSET S : s # {} => Unmentioned[Some(s)] = book[Some(s)] * (Some(s).rr - Review!EfdeRr(Some(s)))
    <3> TAKE s \in SUBSET S
    <3> HAVE s # {}
    <3>1. Some(s) \in S
      BY DEF Some
    <3> QED
      BY <3>1 DEF Unmentioned
  <2>2. [s \in SUBSET S |-> IF s = {} THEN 0 ELSE Unmentioned[Some(s)] + g[s \ {Some(s)}]]
        = [s \in SUBSET S |-> IF s = {} THEN 0 ELSE book[Some(s)] * (Some(s).rr - Review!EfdeRr(Some(s))) + g[s \ {Some(s)}]]
    BY <2>1
  <2> QED
    BY <2>2 DEF IsSum
<1>2. Review!MapThenSumSet(LAMBDA t : book[t] * (t.rr - Review!EfdeRr(t)), S) = (CHOOSE g : Summing(g))[S]
  BY DEF Review!MapThenSumSet, Review!MapThenFoldSet, Some
<1> HIDE DEF Summing
<1>3. (CHOOSE g : Summing(g)) = (CHOOSE g : IsSum(g, Unmentioned, S))
  BY <1>1
<1> QED
  BY <1>2, <1>3 DEF SumOf

LEMMA RecordedSum ==
  ASSUME NEW set
  PROVE  Review!MapThenSumSet(LAMBDA r : book[r[1]], set) = SumOf(Recorded(set), set)
<1> DEFINE S == set
           Summing(g) == g = [s \in SUBSET S |-> IF s = {} THEN 0 ELSE book[Some(s)[1]] + g[s \ {Some(s)}]]
<1>1. ASSUME NEW g PROVE IsSum(g, Recorded(set), S) <=> Summing(g)
  <2>1. \A s \in SUBSET S : s # {} => Recorded(set)[Some(s)] = book[Some(s)[1]]
    <3> TAKE s \in SUBSET S
    <3> HAVE s # {}
    <3>1. Some(s) \in S
      BY DEF Some
    <3> QED
      BY <3>1 DEF Recorded
  <2>2. [s \in SUBSET S |-> IF s = {} THEN 0 ELSE Recorded(set)[Some(s)] + g[s \ {Some(s)}]]
        = [s \in SUBSET S |-> IF s = {} THEN 0 ELSE book[Some(s)[1]] + g[s \ {Some(s)}]]
    BY <2>1
  <2> QED
    BY <2>2 DEF IsSum
<1>2. Review!MapThenSumSet(LAMBDA r : book[r[1]], S) = (CHOOSE g : Summing(g))[S]
  BY DEF Review!MapThenSumSet, Review!MapThenFoldSet, Some
<1> HIDE DEF Summing
<1>3. (CHOOSE g : Summing(g)) = (CHOOSE g : IsSum(g, Recorded(set), S))
  BY <1>1
<1> QED
  BY <1>2, <1>3 DEF SumOf

LEMMA CountedSum ==
  ASSUME NEW set
  PROVE  Review!Count(set) = SumOf(book, set)
BY DEF Review!Count, Review!MapThenSumSet, Review!MapThenFoldSet, SumOf, IsSum, Some

LEMMA ReplayedFacts ==
  ASSUME Filled
  PROVE  /\ Review!Replayed \in SUBSET MCTrades /\ IsFiniteSet(Review!Replayed)
         /\ \A t \in Review!Replayed : book[t] \in Nat \ {0}
<1>1. Review!Replayed \in SUBSET MCTrades
  BY DEF Review!Replayed
<1>2. \A t \in Review!Replayed : book[t] \in Nat \ {0}
  BY DEF Review!Replayed, Filled
<1> QED
  BY <1>1, <1>2, TradesFinite, FS_Subset

LEMMA Multiples ==
  ASSUME NEW b \in Nat, NEW d \in Int
  PROVE  b * d \in Int /\ b * (-d) = -(b * d) /\ b * 0 = 0 /\ (d >= 0 => b * d \in Nat) /\ (b > 0 /\ d > 0 => b * d > 0)
OBVIOUS

\* Of one trade: what an exit changed is what it saved, less what it forwent, less
\* what it made worse.
LEMMA TradeBalance ==
  ASSUME NEW t \in MCTrades
  PROVE  LET change == Review!EfdeRr(t) - t.rr
             worse == Review!Exited(t) /\ t.rr <= 0 /\ change < 0
         IN /\ change \in Int
            /\ Review!SavedLoss(t) = IF t.rr < 0 /\ change > 0 THEN change ELSE 0
            /\ Review!MissedWinner(t) = IF Review!Exited(t) /\ t.rr > 0 THEN -change ELSE 0
            /\ Review!Exited(t) /\ t.rr >= 0 => change < 0
            /\ ~Review!Exited(t) => change = 0
            /\ worse <=> Review!Exited(t) /\ t.rr <= 0 /\ Review!EfdeRr(t) < t.rr
            /\ t.rr - Review!EfdeRr(t) = -change
<1> DEFINE change == Review!EfdeRr(t) - t.rr
           back == t.rr - Review!EfdeRr(t)
<1>1. /\ t.rr \in Int /\ Review!EfdeRr(t) \in Int
      /\ Review!Exited(t) => Review!EfdeRr(t) < 0
      /\ ~Review!Exited(t) => Review!EfdeRr(t) = t.rr
  BY TradeFacts
<1>2. change \in Int /\ back \in Int /\ back = -change
  BY <1>1
<1>3. Review!Max({0, change}) = IF 0 >= change THEN 0 ELSE change
  <2> HIDE DEF change
  <2> QED
    BY <1>2, GreaterOfTwo
<1>4. Review!Max({0, back}) = IF 0 >= back THEN 0 ELSE back
  <2> HIDE DEF back
  <2> QED
    BY <1>2, GreaterOfTwo
<1>5. Review!SavedLoss(t) = IF t.rr < 0 /\ change > 0 THEN change ELSE 0
  <2>1. Review!SavedLoss(t) = IF t.rr < 0 THEN Review!Max({0, change}) ELSE 0
    BY DEF Review!SavedLoss
  <2> HIDE DEF change
  <2> QED
    BY <1>2, <1>3, <2>1
<1>6. Review!Exited(t) /\ t.rr >= 0 => change < 0
  BY <1>1
<1>7. Review!MissedWinner(t) = IF Review!Exited(t) /\ t.rr > 0 THEN -change ELSE 0
  <2>1. Review!MissedWinner(t) = IF Review!Exited(t) /\ t.rr > 0 THEN Review!Max({0, back}) ELSE 0
    BY DEF Review!MissedWinner, Review!FalseExit
  <2>2. t.rr > 0 => t.rr >= 0
    BY <1>1
  <2> HIDE DEF change, back
  <2> QED
    BY <1>2, <1>4, <1>6, <2>1, <2>2
<1>8. ~Review!Exited(t) => change = 0
  BY <1>1
<1>9. change < 0 <=> Review!EfdeRr(t) < t.rr
  BY <1>1
<1> QED
  BY <1>2, <1>5, <1>6, <1>7, <1>8, <1>9

\* As often as the trade's shape was replayed.
LEMMA ShapeBalance ==
  ASSUME Filled, NEW t \in Review!Replayed
  PROVE  LET worse == IF t \in Review!Shallow THEN Unmentioned[t] ELSE 0
         IN /\ Changed[t] \in Int /\ Forgone[t] \in Int /\ worse \in Int /\ Spared[t] \in Nat
            /\ Changed[t] + Forgone[t] + worse = Spared[t] + 0
            /\ Spared[t] > 0 => Review!Exited(t)
<1> DEFINE n == book[t]
           change == Review!EfdeRr(t) - t.rr
           saved == Review!SavedLoss(t)
           missed == Review!MissedWinner(t)
           back == t.rr - Review!EfdeRr(t)
           exited == Review!Exited(t)
<1>1. n \in Nat \ {0} /\ t \in MCTrades
  BY ReplayedFacts
<1>2. /\ change \in Int
      /\ saved = IF t.rr < 0 /\ change > 0 THEN change ELSE 0
      /\ missed = IF exited /\ t.rr > 0 THEN -change ELSE 0
      /\ exited /\ t.rr >= 0 => change < 0
      /\ ~exited => change = 0
      /\ back = -change
  BY <1>1, TradeBalance
<1>3. t \in Review!Shallow <=> exited /\ t.rr <= 0 /\ change < 0
  BY <1>1, TradeBalance DEF Review!Shallow
<1>4. /\ Changed[t] = n * change /\ Forgone[t] = n * missed /\ Spared[t] = n * saved
      /\ t \in Review!Shallow => Unmentioned[t] = n * back
  BY DEF Changed, Forgone, Spared, Unmentioned
<1>5. t.rr \in Int
  BY <1>1, TradeFacts
<1> DEFINE worse == IF t \in Review!Shallow THEN Unmentioned[t] ELSE 0
<1> HIDE DEF n, change, saved, missed, back, exited
<1>6. /\ n * change \in Int /\ n * (-change) = -(n * change) /\ n * 0 = 0
      /\ change >= 0 => n * change \in Nat
  BY <1>1, <1>2, Multiples
<1>7. /\ Changed[t] = n * change
      /\ Forgone[t] = IF exited /\ t.rr > 0 THEN -(n * change) ELSE 0
      /\ Spared[t] = IF t.rr < 0 /\ change > 0 THEN n * change ELSE 0
      /\ worse = IF exited /\ t.rr <= 0 /\ change < 0 THEN -(n * change) ELSE 0
  BY <1>2, <1>3, <1>4, <1>6
<1>8. change = 0 => n * change = 0
  BY <1>6
<1> DEFINE part_of == n * change
<1> HIDE DEF part_of, worse
<1>9. part_of \in Int /\ (change >= 0 => part_of \in Nat) /\ (change = 0 => part_of = 0)
  BY <1>6, <1>8 DEF part_of
<1>10. /\ Changed[t] = part_of
       /\ Forgone[t] = IF exited /\ t.rr > 0 THEN -part_of ELSE 0
       /\ Spared[t] = IF t.rr < 0 /\ change > 0 THEN part_of ELSE 0
       /\ worse = IF exited /\ t.rr <= 0 /\ change < 0 THEN -part_of ELSE 0
  BY <1>7 DEF part_of
<1>11. /\ Changed[t] \in Int /\ Forgone[t] \in Int /\ worse \in Int /\ Spared[t] \in Nat
  BY <1>2, <1>5, <1>9, <1>10
<1>12. Changed[t] + Forgone[t] + worse = Spared[t] + 0
  BY <1>2, <1>5, <1>9, <1>10
<1>13. Spared[t] > 0 => exited
  BY <1>2, <1>5, <1>9, <1>10
<1> QED
  BY <1>11, <1>12, <1>13 DEF worse, exited

\* The figures of the review, given its four counts.
SummaryOf(exits, losing, saved, missed) ==
  [exits |-> exits, false_exits |-> losing, saved |-> saved, missed |-> missed,
   false_exit_rate |-> IF exits = 0 THEN 0 ELSE (20000 * losing + exits) \div (2 * exits),
   pf_delta |-> (Review!Least(32000, saved * 18) + 500) \div 1000,
   wr_delta |-> -15,
   dd_delta |-> -((Review!Least(62000, saved * 35) + 500) \div 1000),
   average_loss |-> -100 + (Review!Least(50000, saved * 30) + 500) \div 1000]

LEMMA SummarySums ==
  Review!EfdeSummary =
    SummaryOf(SumOf(book, {t \in Review!Replayed : Review!Exited(t)}),
              SumOf(book, {t \in Review!Replayed : Review!FalseExit(t)}),
              SumOf(Spared, Review!Replayed), SumOf(Forgone, Review!Replayed))
<1> DEFINE saved == Review!MapThenSumSet(LAMBDA t : book[t] * Review!SavedLoss(t), Review!Replayed)
           missed == Review!MapThenSumSet(LAMBDA t : book[t] * Review!MissedWinner(t), Review!Replayed)
           exits == Review!Count({t \in Review!Replayed : Review!Exited(t)})
           losing == Review!Count({t \in Review!Replayed : Review!FalseExit(t)})
<1>1. saved = SumOf(Spared, Review!Replayed) /\ missed = SumOf(Forgone, Review!Replayed)
  BY SparedSum, ForgoneSum
<1>2. /\ exits = SumOf(book, {t \in Review!Replayed : Review!Exited(t)})
      /\ losing = SumOf(book, {t \in Review!Replayed : Review!FalseExit(t)})
  BY CountedSum
<1>3. Review!EfdeSummary = SummaryOf(exits, losing, saved, missed)
  BY DEF Review!EfdeSummary, SummaryOf, Review!MapThenSumSet, Review!MapThenFoldSet
<1> HIDE DEF saved, missed, exits, losing
<1> QED
  BY <1>1, <1>2, <1>3

LEMMA ChangeAccounted ==
  ASSUME Filled
  PROVE  Review!MapThenSumSet(LAMBDA t : book[t] * (Review!EfdeRr(t) - t.rr), Review!Replayed)
           = Review!EfdeSummary.saved - Review!EfdeSummary.missed
             - Review!MapThenSumSet(LAMBDA t : book[t] * (t.rr - Review!EfdeRr(t)), Review!Shallow)
<1> DEFINE R == Review!Replayed
           worse == [t \in R |-> IF t \in Review!Shallow THEN Unmentioned[t] ELSE 0]
           none == [t \in R |-> 0]
           changed == Review!MapThenSumSet(LAMBDA t : book[t] * (Review!EfdeRr(t) - t.rr), R)
           missing == Review!MapThenSumSet(LAMBDA t : book[t] * (t.rr - Review!EfdeRr(t)), Review!Shallow)
<1>1. IsFiniteSet(R) /\ Review!Shallow \in SUBSET R
  BY ReplayedFacts DEF Review!Shallow
<1>2. \A t \in R : /\ Changed[t] \in Int /\ Forgone[t] \in Int /\ worse[t] \in Int /\ Spared[t] \in Int
                   /\ none[t] \in Int
                   /\ Changed[t] + Forgone[t] + worse[t] = Spared[t] + none[t]
  BY ShapeBalance
<1>3. \A t \in Review!Shallow : Unmentioned[t] \in Int
  BY <1>1, ShapeBalance
<1>4. changed = SumOf(Changed, R) /\ missing = SumOf(Unmentioned, Review!Shallow)
  BY ChangedSum, UnmentionedSum
<1>5. Review!EfdeSummary.saved = SumOf(Spared, R) /\ Review!EfdeSummary.missed = SumOf(Forgone, R)
  BY SummarySums DEF SummaryOf
<1>6. \A t \in R : worse[t] = IF t \in Review!Shallow THEN Unmentioned[t] ELSE 0
  OBVIOUS
<1>7. \A t \in R : none[t] = 0
  OBVIOUS
<1> HIDE DEF changed, missing, worse, none, R
<1>8. SumOf(Changed, R) + SumOf(Forgone, R) + SumOf(worse, R) = SumOf(Spared, R) + SumOf(none, R)
  BY <1>1, <1>2, SumsBalance
<1>9. SumOf(none, R) = 0
  BY <1>1, <1>7, SumOfNothing
<1>10. SumOf(Unmentioned, Review!Shallow) = SumOf(worse, R)
  BY <1>1, <1>3, <1>6, SumWithin
<1>11. SumOf(Changed, R) \in Int /\ SumOf(Forgone, R) \in Int /\ SumOf(worse, R) \in Int /\ SumOf(Spared, R) \in Int
  BY <1>1, <1>2, SumOfType
<1>12. changed = Review!EfdeSummary.saved - Review!EfdeSummary.missed - missing
  BY <1>4, <1>5, <1>8, <1>9, <1>10, <1>11
<1> QED
  BY <1>12 DEF changed, missing, R

Left == {t \in Review!Replayed : Review!Exited(t)}
LeftForNothing == {t \in Review!Replayed : Review!FalseExit(t)}

LEMMA CountsOrdered ==
  ASSUME Filled, NEW A \in SUBSET Review!Replayed, NEW B \in SUBSET A
  PROVE  SumOf(book, A) \in Nat /\ SumOf(book, B) \in Nat /\ SumOf(book, B) <= SumOf(book, A)
<1>1. IsFiniteSet(Review!Replayed) /\ \A t \in Review!Replayed : book[t] \in Nat
  BY ReplayedFacts
<1> QED
  BY <1>1, PartsOrdered

LEMMA SummaryFacts ==
  ASSUME Filled
  PROVE  LET exits == SumOf(book, Left)
             losing == SumOf(book, LeftForNothing)
             saved == SumOf(Spared, Review!Replayed)
         IN /\ exits \in Nat /\ losing \in Nat /\ losing <= exits /\ saved \in Nat
            /\ saved > 0 => exits > 0
<1>1. Left \in SUBSET Review!Replayed /\ LeftForNothing \in SUBSET Left
  BY DEF Left, LeftForNothing, Review!FalseExit
<1>2. SumOf(book, Left) \in Nat /\ SumOf(book, LeftForNothing) \in Nat /\ SumOf(book, LeftForNothing) <= SumOf(book, Left)
  BY <1>1, CountsOrdered
<1>3. /\ IsFiniteSet(Review!Replayed) /\ IsFiniteSet(Left)
      /\ \A t \in Review!Replayed : book[t] \in Nat \ {0} /\ Spared[t] \in Nat
  BY <1>1, ReplayedFacts, ShapeBalance, FS_Subset
<1>4. SumOf(Spared, Review!Replayed) \in Nat
  BY <1>3, SumsOrdered
<1>5. CASE Left = {}
  <2>1. \A t \in Review!Replayed : Spared[t] = 0
    <3> TAKE t \in Review!Replayed
    <3>1. ~Review!Exited(t)
      BY <1>5 DEF Left
    <3>2. Spared[t] \in Nat /\ ~(Spared[t] > 0)
      BY <3>1, ShapeBalance
    <3> QED
      BY <3>2
  <2>2. SumOf(Spared, Review!Replayed) = 0
    BY <1>3, <2>1, SumOfNothing
  <2> QED
    BY <1>2, <1>4, <2>2
<1>6. CASE Left # {}
  <2>1. PICK t \in Left : TRUE
    BY <1>6
  <2>2. book[t] \in Nat \ {0} /\ \A x \in Left : book[x] \in Nat
    BY <1>1, <1>3, <2>1
  <2>3. book[t] <= SumOf(book, Left)
    BY <1>3, <2>1, <2>2, PartOfSum
  <2>4. SumOf(book, Left) > 0
    BY <1>2, <2>2, <2>3
  <2> QED
    BY <1>2, <1>4, <2>4
<1> QED
  BY <1>5, <1>6

\* A share in hundredths of a percent.
Share(rate) == rate \in 0..10000

\* The share of losing exits, as it is rounded.
RateOf(exits, losing) == IF exits = 0 THEN 0 ELSE (20000 * losing + exits) \div (2 * exits)

LEMMA RateFacts ==
  ASSUME NEW exits \in Nat, NEW losing \in Nat, losing <= exits
  PROVE  /\ Share(RateOf(exits, losing))
         /\ exits > 0 => (RateOf(exits, losing) < 500 <=> 20000 * losing < 999 * exits)
<1> DEFINE a == 20000 * losing + exits
           d == 2 * exits
           q == a \div d
<1>1. CASE exits = 0
  BY <1>1 DEF RateOf, Share
<1>2. CASE exits # 0
  <2>1. a \in Nat /\ d \in Nat \ {0}
    BY <1>2
  <2>2. a < 500 * d <=> 20000 * losing < 999 * exits
    BY <1>2
  <2>3. a < 10001 * d
    BY <1>2
  <2>4. q \in Nat
    <3> HIDE DEF a, d
    <3> QED
      BY <2>1
  <2>5. (q < 500 <=> a < 500 * d) /\ (q < 10001 <=> a < 10001 * d)
    <3> HIDE DEF a, d
    <3> QED
      BY <2>1, DivBelow
  <2>6. RateOf(exits, losing) = q
    BY <1>2 DEF RateOf
  <2> HIDE DEF a, d, q
  <2>7. Share(q)
    BY <2>3, <2>4, <2>5 DEF Share
  <2>8. q < 500 <=> 20000 * losing < 999 * exits
    BY <2>2, <2>5
  <2> QED
    BY <2>6, <2>7, <2>8
<1> QED
  BY <1>1, <1>2

PfOf(saved) == (Review!Least(32000, saved * 18) + 500) \div 1000
DdOf(saved) == -((Review!Least(62000, saved * 35) + 500) \div 1000)
LossOf(saved) == -100 + (Review!Least(50000, saved * 30) + 500) \div 1000

LEMMA Deltas ==
  ASSUME NEW saved \in Nat
  PROVE  /\ PfOf(saved) > 0 <=> saved >= 28
         /\ saved >= 28 => DdOf(saved) < 0
         /\ saved >= 28 => LossOf(saved) > -100
<1>1. PfOf(saved) > 0 <=> saved >= 28
  BY DEF Review!Least, PfOf
<1>2. saved >= 28 => DdOf(saved) < 0
  BY DEF Review!Least, DdOf
<1>3. saved >= 28 => LossOf(saved) > -100
  BY DEF Review!Least, LossOf
<1> QED
  BY <1>1, <1>2, <1>3

LEMMA PassMeans ==
  ASSUME Filled
  PROVE  /\ Review!EfdePasses <=>
              Review!EfdeSummary.saved >= 28
              /\ 20000 * Review!EfdeSummary.false_exits < 999 * Review!EfdeSummary.exits
         /\ Share(Review!EfdeSummary.false_exit_rate)
<1> DEFINE exits == SumOf(book, Left)
           losing == SumOf(book, LeftForNothing)
           saved == SumOf(Spared, Review!Replayed)
           missed == SumOf(Forgone, Review!Replayed)
           rate == RateOf(exits, losing)
           pf == PfOf(saved)
           dd == DdOf(saved)
           loss == LossOf(saved)
           s == Review!EfdeSummary
<1>1. s = SummaryOf(exits, losing, saved, missed)
  BY SummarySums DEF Left, LeftForNothing
<1>2. /\ exits \in Nat /\ losing \in Nat /\ losing <= exits /\ saved \in Nat
      /\ saved > 0 => exits > 0
  BY SummaryFacts
<1> HIDE DEF exits, losing, saved, missed
<1>3. Share(rate) /\ (exits > 0 => (rate < 500 <=> 20000 * losing < 999 * exits))
  BY <1>2, RateFacts
<1>4. (pf > 0 <=> saved >= 28) /\ (saved >= 28 => dd < 0) /\ (saved >= 28 => loss > -100)
  BY <1>2, Deltas
<1>5. /\ s.exits = exits /\ s.false_exits = losing /\ s.saved = saved /\ s.false_exit_rate = rate
      /\ s.pf_delta = pf /\ s.wr_delta = -15 /\ s.dd_delta = dd /\ s.average_loss = loss
  BY <1>1 DEF SummaryOf, RateOf, PfOf, DdOf, LossOf
<1> HIDE DEF s, rate, pf, dd, loss
<1>6. Review!EfdePasses <=> pf > 0 /\ dd < 0 /\ rate < 500 /\ loss > -100
  <2>1. Review!EfdePasses <=> s.pf_delta > 0 /\ s.dd_delta < 0 /\ s.wr_delta >= -100 /\ s.false_exit_rate < 500
                              /\ s.average_loss > -100
    BY DEF Review!EfdePasses, s
  <2>2. -15 >= -100
    OBVIOUS
  <2> QED
    BY <1>5, <2>1, <2>2
<1>7. saved >= 28 => saved > 0
  BY <1>2
<1>8. Review!EfdePasses <=> saved >= 28 /\ 20000 * losing < 999 * exits
  BY <1>2, <1>3, <1>4, <1>6, <1>7
<1> QED
  BY <1>3, <1>5, <1>8 DEF s

-----------------------------------------------------------------------------
(* What the learning memory records.                                          *)

Fruitless == {t \in Review!Replayed : Review!Exited(t) /\ t.rr = 0}
LeftTwice == {t \in Review!Replayed : t.rr >= 0 /\ Review!Cardinality(Review!Exits(t)) = 2}

LEMMA RecordFacts ==
  ASSUME Filled
  PROVE  /\ Review!LearningRecords \in SUBSET (Review!Replayed \X (1..2))
         /\ \A label : Review!Labelled(label) \in SUBSET Review!LearningRecords
         /\ \A r \in Review!LearningRecords : /\ r = <<r[1], r[2]>> /\ r[1] \in Review!Replayed /\ r[2] \in 1..2
                                              /\ r[1] \in MCTrades
<1>1. Review!LearningRecords \in SUBSET (Review!Replayed \X (1..2))
  BY DEF Review!LearningRecords
<1>2. \A label : Review!Labelled(label) \in SUBSET Review!LearningRecords
  BY DEF Review!Labelled
<1>3. \A r \in Review!Replayed \X (1..2) : r = <<r[1], r[2]>> /\ r[1] \in Review!Replayed /\ r[2] \in 1..2
  OBVIOUS
<1>4. Review!Replayed \in SUBSET MCTrades
  BY ReplayedFacts
<1> QED
  BY <1>1, <1>2, <1>3, <1>4

\* A false exit is recorded where leaving was advised of a trade that did not lose.
LEMMA FalseExits ==
  ASSUME Filled, NEW t \in Review!Replayed, NEW z \in 1..2
  PROVE  <<t, z>> \in Review!Labelled("FALSE_EXIT") <=> z \in Review!Exits(t) /\ t.rr >= 0
<1>1. t \in MCTrades
  BY ReplayedFacts
<1>2. t.rr \in Int /\ Review!Exits(t) \subseteq Review!Checkpoints(t)
  BY <1>1, TradeFacts
<1>3. <<t, z>> \in Review!LearningRecords <=> z \in Review!Checkpoints(t)
  BY DEF Review!LearningRecords
<1>4. Review!CorrectnessLabel(t, z) = "FALSE_EXIT" <=> z \in Review!Exits(t) /\ t.rr >= 0
  <2>1. CASE z \in Review!Exits(t) /\ t.rr < 0
    <3>1. ~(t.rr >= 0)
      BY <1>2, <2>1
    <3> QED
      BY <2>1, <3>1 DEF Review!CorrectnessLabel
  <2>2. CASE z \in Review!Exits(t) /\ t.rr >= 0
    <3>1. ~(t.rr < 0)
      BY <1>2, <2>2
    <3> QED
      BY <2>2, <3>1 DEF Review!CorrectnessLabel
  <2>3. CASE z \notin Review!Exits(t)
    BY <2>3 DEF Review!CorrectnessLabel
  <2> QED
    BY <1>2, <2>1, <2>2, <2>3
<1>5. <<t, z>> \in Review!Labelled("FALSE_EXIT") <=>
        <<t, z>> \in Review!LearningRecords /\ Review!CorrectnessLabel(t, z) = "FALSE_EXIT"
  BY DEF Review!Labelled
<1> QED
  BY <1>2, <1>3, <1>4, <1>5

LEMMA LabelsAccounted ==
  ASSUME Filled
  PROVE  Review!LabelCount("FALSE_EXIT") - Review!EfdeSummary.false_exits
           = Review!Count(Fruitless) + Review!Count(LeftTwice)
<1> DEFINE R == Review!Replayed
           L == Review!Labelled("FALSE_EXIT")
           h == Recorded(L)
           f == [t \in R |-> (IF <<t, 1>> \in L THEN book[t] ELSE 0) + (IF <<t, 2>> \in L THEN book[t] ELSE 0)]
           a == [t \in R |-> IF t \in LeftForNothing THEN book[t] ELSE 0]
           b == [t \in R |-> IF t \in Fruitless THEN book[t] ELSE 0]
           c == [t \in R |-> IF t \in LeftTwice THEN book[t] ELSE 0]
           none == [t \in R |-> 0]
<1>1. IsFiniteSet(R) /\ \A t \in R : book[t] \in Nat
  BY ReplayedFacts
<1>2. L \in SUBSET (R \X (1..2))
  BY RecordFacts
<1>3. \A r \in L : h[r] = book[r[1]]
  BY DEF Recorded
<1>4. \A t \in R : f[t] = (IF <<t, 1>> \in L THEN book[t] ELSE 0) + (IF <<t, 2>> \in L THEN book[t] ELSE 0)
  OBVIOUS
<1>5. SumOf(h, L) = SumOf(f, R)
  <2> HIDE DEF R, L, h, f
  <2> QED
    BY <1>1, <1>2, <1>3, <1>4, PairsCounted
<1>6. Review!LabelCount("FALSE_EXIT") = SumOf(h, L)
  BY RecordedSum DEF Review!LabelCount
<1>7. \A t \in R : /\ a[t] \in Int /\ b[t] \in Int /\ c[t] \in Int /\ f[t] \in Int /\ none[t] \in Int
                   /\ a[t] + b[t] + c[t] = f[t] + none[t]
  <2> TAKE t \in R
  <2> DEFINE n == book[t]
             one == 1 \in Review!Exits(t)
             two == 2 \in Review!Exits(t)
  <2>1. n \in Nat /\ t \in MCTrades
    BY <1>1, ReplayedFacts
  <2>2. t.rr \in Int /\ Review!Exits(t) \in SUBSET (1..2)
    BY <2>1, TradeFacts
  <2>3. (<<t, 1>> \in L <=> one /\ t.rr >= 0) /\ (<<t, 2>> \in L <=> two /\ t.rr >= 0)
    <3>1. 1 \in 1..2 /\ 2 \in 1..2
      BY OneOrTwo
    <3> QED
      BY <3>1, FalseExits
  <2>4. Review!Exited(t) <=> one \/ two
    BY <2>2, OneOrTwo DEF Review!Exited
  <2>5. Review!Cardinality(Review!Exits(t)) = 2 <=> one /\ two
    BY <2>2, SomeOfTwo, ReviewCardinality
  <2>6. (t \in LeftForNothing <=> (one \/ two) /\ t.rr > 0) /\ (t \in Fruitless <=> (one \/ two) /\ t.rr = 0)
    BY <2>4 DEF LeftForNothing, Fruitless, Review!FalseExit
  <2>7. t \in LeftTwice <=> t.rr >= 0 /\ one /\ two
    BY <2>5 DEF LeftTwice
  <2>8. /\ a[t] = IF (one \/ two) /\ t.rr > 0 THEN n ELSE 0
        /\ b[t] = IF (one \/ two) /\ t.rr = 0 THEN n ELSE 0
        /\ c[t] = IF t.rr >= 0 /\ one /\ two THEN n ELSE 0
        /\ f[t] = (IF one /\ t.rr >= 0 THEN n ELSE 0) + (IF two /\ t.rr >= 0 THEN n ELSE 0)
        /\ none[t] = 0
    BY <2>3, <2>6, <2>7
  <2> HIDE DEF n, one, two, a, b, c, f, none
  <2>9. CASE t.rr < 0
    <3>1. a[t] = 0 /\ b[t] = 0 /\ c[t] = 0 /\ f[t] = 0
      BY <2>2, <2>8, <2>9
    <3> QED
      BY <2>8, <3>1
  <2>10. CASE t.rr >= 0 /\ one /\ two
    <3>1. a[t] + b[t] = n /\ c[t] = n /\ f[t] = n + n /\ a[t] \in Int /\ b[t] \in Int
      BY <2>1, <2>2, <2>8, <2>10
    <3> QED
      BY <2>1, <2>8, <3>1
  <2>11. CASE t.rr >= 0 /\ (one \/ two) /\ ~(one /\ two)
    <3>1. a[t] + b[t] = n /\ c[t] = 0 /\ f[t] = n /\ a[t] \in Int /\ b[t] \in Int
      BY <2>1, <2>2, <2>8, <2>11
    <3> QED
      BY <2>1, <2>8, <3>1
  <2>12. CASE ~one /\ ~two
    <3>1. a[t] = 0 /\ b[t] = 0 /\ c[t] = 0 /\ f[t] = 0
      BY <2>2, <2>8, <2>12
    <3> QED
      BY <2>8, <3>1
  <2>13. t.rr < 0 \/ t.rr >= 0
    BY <2>2
  <2> QED
    BY <2>9, <2>10, <2>11, <2>12, <2>13
<1>8. /\ LeftForNothing \in SUBSET R /\ Fruitless \in SUBSET R /\ LeftTwice \in SUBSET R
      /\ \A t \in R : /\ a[t] = IF t \in LeftForNothing THEN book[t] ELSE 0
                      /\ b[t] = IF t \in Fruitless THEN book[t] ELSE 0
                      /\ c[t] = IF t \in LeftTwice THEN book[t] ELSE 0
                      /\ none[t] = 0
  BY DEF LeftForNothing, Fruitless, LeftTwice
<1>9. Review!EfdeSummary.false_exits = SumOf(book, LeftForNothing)
  BY SummarySums DEF SummaryOf, LeftForNothing
<1> HIDE DEF R, L, h, f, a, b, c, none
<1>10. SumOf(a, R) + SumOf(b, R) + SumOf(c, R) = SumOf(f, R) + SumOf(none, R)
  BY <1>1, <1>7, SumsBalance
<1>11. SumOf(none, R) = 0
  BY <1>1, <1>8, SumOfNothing
<1>12. SumOf(book, LeftForNothing) = SumOf(a, R)
  BY <1>1, <1>8, SumWithin
<1>13. SumOf(book, Fruitless) = SumOf(b, R)
  BY <1>1, <1>8, SumWithin
<1>14. SumOf(book, LeftTwice) = SumOf(c, R)
  BY <1>1, <1>8, SumWithin
<1>15. SumOf(a, R) \in Int /\ SumOf(b, R) \in Int /\ SumOf(c, R) \in Int /\ SumOf(f, R) \in Int
  BY <1>1, <1>7, SumOfType
<1>16. Review!Count(Fruitless) = SumOf(b, R) /\ Review!Count(LeftTwice) = SumOf(c, R)
  BY <1>13, <1>14, CountedSum
<1> QED
  BY <1>5, <1>6, <1>9, <1>10, <1>11, <1>12, <1>15, <1>16

\* What one label was scored at.
ReachedAt(label) == {Review!Fps(r[1], r[2]) : r \in Review!Labelled(label)}

LEMMA ReachedFacts ==
  ASSUME Filled, NEW label
  PROVE  ReachedAt(label) \in SUBSET (0..100)
<1>1. ASSUME NEW r \in Review!Labelled(label) PROVE Review!Fps(r[1], r[2]) \in 0..100
  <2>1. r[1] \in MCTrades /\ r[2] \in 1..2
    BY RecordFacts
  <2> QED
    BY <2>1, FpsRange
<1> QED
  BY <1>1 DEF ReachedAt

LEMMA Threshold ==
  ASSUME Filled
  PROVE  /\ \A r \in Review!Labelled("FALSE_EXIT") :
              Review!Fps(r[1], r[2]) < 90 => Review!Fps(r[1], r[2]) < Review!RecommendedThreshold
         /\ Review!Labelled("FALSE_EXIT") = {} =>
              \A r \in Review!Labelled("MISSED_EXIT") :
                Review!Fps(r[1], r[2]) >= 65 => Review!Fps(r[1], r[2]) >= Review!RecommendedThreshold
<1> DEFINE losing == ReachedAt("FALSE_EXIT")
           missed == ReachedAt("MISSED_EXIT")
           threshold == Review!RecommendedThreshold
<1>1. losing \in SUBSET (0..100) /\ missed \in SUBSET (0..100)
  BY ReachedFacts
<1>2. threshold = IF losing # {} THEN Review!Least(90, Review!Max(losing) + 7)
                  ELSE IF missed # {} THEN Review!Max({65, Review!Min(missed) - 5})
                  ELSE Review!EXIT_THRESHOLD
  BY DEF Review!RecommendedThreshold, ReachedAt
<1>3. ASSUME NEW r \in Review!Labelled("FALSE_EXIT"), Review!Fps(r[1], r[2]) < 90
      PROVE  Review!Fps(r[1], r[2]) < threshold
  <2> DEFINE fps == Review!Fps(r[1], r[2])
             most == Review!Max(losing)
  <2>1. fps \in losing
    BY DEF ReachedAt
  <2> HIDE DEF losing, threshold
  <2>2. most \in losing /\ \A k \in losing : k <= most
    BY <1>1, <2>1, ReviewExtremes
  <2>3. fps <= most /\ fps \in 0..100 /\ most \in 0..100
    BY <1>1, <2>1, <2>2
  <2>4. threshold = Review!Least(90, most + 7)
    BY <1>2, <2>1
  <2> HIDE DEF fps, most
  <2>5. fps < 90
    BY <1>3 DEF fps
  <2>6. fps < threshold
    BY <2>3, <2>4, <2>5 DEF Review!Least
  <2> QED
    BY <2>6 DEF fps
<1>4. ASSUME Review!Labelled("FALSE_EXIT") = {},
             NEW r \in Review!Labelled("MISSED_EXIT"), Review!Fps(r[1], r[2]) >= 65
      PROVE  Review!Fps(r[1], r[2]) >= threshold
  <2> DEFINE fps == Review!Fps(r[1], r[2])
             fewest == Review!Min(missed)
  <2>1. fps \in missed /\ losing = {}
    BY <1>4 DEF ReachedAt
  <2> HIDE DEF losing, missed, threshold
  <2>2. fewest \in missed /\ \A k \in missed : fewest <= k
    <3>1. missed \in SUBSET (0..100) /\ missed # {}
      BY <1>1, <2>1
    <3> QED
      BY <3>1, ReviewExtremes
  <2>3. fewest <= fps /\ fps \in 0..100 /\ fewest \in 0..100
    BY <1>1, <2>1, <2>2
  <2>4. threshold = Review!Max({65, fewest - 5})
    BY <1>2, <2>1
  <2> HIDE DEF fps, fewest
  <2>5. fewest - 5 \in Int
    BY <2>3
  <2>6. threshold = IF 65 >= fewest - 5 THEN 65 ELSE fewest - 5
    BY <2>4, <2>5, GreaterOfTwo
  <2>7. fps >= 65
    BY <1>4 DEF fps
  <2>8. fps >= threshold
    BY <2>3, <2>6, <2>7
  <2> QED
    BY <2>8 DEF fps
<1> QED
  BY <1>3, <1>4

\* With nothing labelled wrong, whatever a cluster is asked about was right.
LEMMA Calibrated ==
  ASSUME Filled, Review!CalibrationConfidence = "HIGH", NEW cluster
  PROVE  Review!CalibrationRow(cluster).correct = Review!CalibrationRow(cluster).evaluations
<1>1. Review!Clusters("FALSE_EXIT") \cup Review!Clusters("MISSED_EXIT") = {}
  BY DEF Review!CalibrationConfidence
<1>2. Review!Labelled("FALSE_EXIT") = {} /\ Review!Labelled("MISSED_EXIT") = {}
  BY <1>1 DEF Review!Clusters
<1> DEFINE records == {r \in Review!LearningRecords : r[1].cluster = cluster}
           right == records \cap (Review!Labelled("CORRECT_EXIT") \cup Review!Labelled("CORRECT_HOLD"))
<1>3. right = records
  <2>1. ASSUME NEW r \in records PROVE r \in right
    <3>1. Review!CorrectnessLabel(r[1], r[2]) \in {"CORRECT_EXIT", "FALSE_EXIT", "MISSED_EXIT", "CORRECT_HOLD"}
      BY DEF Review!CorrectnessLabel
    <3>2. /\ Review!CorrectnessLabel(r[1], r[2]) # "FALSE_EXIT"
          /\ Review!CorrectnessLabel(r[1], r[2]) # "MISSED_EXIT"
      BY <1>2 DEF Review!Labelled
    <3> QED
      BY <3>1, <3>2 DEF Review!Labelled
  <2> QED
    BY <2>1
<1> DEFINE Size(set) == Review!MapThenSumSet(LAMBDA r : book[r[1]], set)
<1>4. Review!CalibrationRow(cluster) = [evaluations |-> Size(records), correct |-> Size(right)]
  BY DEF Review!CalibrationRow, Review!MapThenSumSet, Review!MapThenFoldSet
<1>5. Size(right) = Size(records)
  <2> HIDE DEF right, records
  <2>1. Size(right) = SumOf(Recorded(right), right) /\ Size(records) = SumOf(Recorded(records), records)
    BY RecordedSum
  <2> HIDE DEF Size
  <2> QED
    BY <1>3, <2>1
<1> HIDE DEF Size, records, right
<1> QED
  BY <1>4, <1>5

LEMMA ExitsHold ==
  ASSUME Filled
  PROVE  Review!EarlyExitsAreAccounted
<1>1. Review!MapThenSumSet(LAMBDA t : book[t] * (Review!EfdeRr(t) - t.rr), Review!Replayed)
        = Review!EfdeSummary.saved - Review!EfdeSummary.missed
          - Review!MapThenSumSet(LAMBDA t : book[t] * (t.rr - Review!EfdeRr(t)), Review!Shallow)
  BY ChangeAccounted
<1>2. Review!EfdePasses <=>
        Review!EfdeSummary.saved >= 28 /\ 20000 * Review!EfdeSummary.false_exits < 999 * Review!EfdeSummary.exits
  BY PassMeans
<1>3. Review!LabelCount("FALSE_EXIT") - Review!EfdeSummary.false_exits
        = Review!Count({t \in Review!Replayed : Review!Exited(t) /\ t.rr = 0})
          + Review!Count({t \in Review!Replayed : t.rr >= 0 /\ Review!Cardinality(Review!Exits(t)) = 2})
  BY LabelsAccounted DEF Fruitless, LeftTwice
<1>4. /\ \A r \in Review!Labelled("FALSE_EXIT") :
           Review!Fps(r[1], r[2]) < 90 => Review!Fps(r[1], r[2]) < Review!RecommendedThreshold
      /\ Review!Labelled("FALSE_EXIT") = {} =>
           \A r \in Review!Labelled("MISSED_EXIT") :
             Review!Fps(r[1], r[2]) >= 65 => Review!Fps(r[1], r[2]) >= Review!RecommendedThreshold
  BY Threshold
<1>5. Review!CalibrationConfidence = "HIGH" =>
        \A t \in Review!Replayed :
          Review!CalibrationRow(t.cluster).correct = Review!CalibrationRow(t.cluster).evaluations
  BY Calibrated
<1> QED
  BY <1>1, <1>2, <1>3, <1>4, <1>5
     DEF Review!EarlyExitsAreAccounted, Review!MapThenSumSet, Review!MapThenFoldSet

ExitInv == part = "exits" => Filled

LEMMA ExitsStart == MCInit => ExitInv
BY DEF MCInit, ExitInv, Filled, Review!PromotionInit, Review!EfdeInit

LEMMA ExitsStep == ExitInv /\ [MCNext]_mc_vars => ExitInv'
<1> SUFFICES ASSUME ExitInv, [MCNext]_mc_vars, part' = "exits" PROVE Filled'
  BY DEF ExitInv
<1>1. part = "exits"
  BY DEF MCNext, mc_vars, Desk, Reviewing, desk_vars
<1>2. Filled
  BY <1>1 DEF ExitInv
<1>3. CASE Review!ReplayTrades
  <2>1. PICK t \in MCTrades, n \in Copies : book' = [book EXCEPT ![t] = n]
    BY <1>3 DEF Review!ReplayTrades
  <2>2. n \in Nat
    BY ReviewAssumption
  <2> QED
    BY <1>2, <2>1, <2>2 DEF Filled
<1>4. CASE book' = book
  BY <1>2, <1>4 DEF Filled
<1>5. Review!ReplayTrades \/ book' = book
  BY <1>1 DEF MCNext, mc_vars, review_vars
<1> QED
  BY <1>3, <1>4, <1>5

\* For every number of trades replayed: what early exits change is what was saved,
\* less what was missed and what was made worse; the review passes by what it says
\* was saved and a share of false exits; the learning memory counts more of them
\* by exactly those that broke even and second recommendations; its threshold
\* spares what it should, and its confidence is high only where nothing was wrong.
THEOREM ExitsAccounted == MCSpec => []EarlyExitsAreAccounted
<1>1. MCInit => ExitInv
  BY ExitsStart
<1>2. ExitInv /\ [MCNext]_mc_vars => ExitInv'
  BY ExitsStep
<1>3. ExitInv => EarlyExitsAreAccounted
  BY ExitsHold DEF ExitInv, EarlyExitsAreAccounted
<1> QED
  BY <1>1, <1>2, <1>3, PTL DEF MCSpec

-----------------------------------------------------------------------------
(* Types, part by part, with the bounds on what one behaviour writes, replays *)
(* and blocks.                                                                *)

LEMMA BridgeFrame == [MCNext]_mc_vars => [Next]_vars
BY DEF MCNext, mc_vars, desk_vars, Desk, Reviewing, vars

StoreBounded ==
  written <= MAX_WRITTEN /\ since <= written /\ date \in 1..LAST_DAY /\ untrimmed <= MAX_CUTS

LEMMA StoreBoundsStep ==
  ASSUME StoreInv, StoreBounded, [Store!StoreNext]_store_vars
  PROVE  StoreBounded'
<1>1. /\ StoreCounts /\ ActiveIsIdentified /\ since \in Nat /\ date \in Nat /\ written \in Nat
      /\ MAX_WRITTEN \in Nat /\ LAST_DAY \in Nat \ {0} /\ MAX_CUTS \in Nat /\ untrimmed \in Nat
  BY StoreFacts, StoreAssumption DEF StoreCounts
<1>2. CASE Store!AppendScan
  <2>1. PICK scan \in MCScans :
          LET records == Store!Records(scan)
          IN /\ written + Len(records) <= MAX_WRITTEN
             /\ Store!EnforceRetention(Store!Appended(records), since + Len(records))
             /\ written' = written + Len(records) /\ date' = date
    BY <1>2 DEF Store!AppendScan
  <2>2. Len(Store!Records(scan)) \in Nat
    BY <1>1, NewRecords, StoreScans
  <2>3. /\ since' \in {0, since + Len(Store!Records(scan))}
        /\ untrimmed' \in {0, untrimmed} \/ (untrimmed < MAX_CUTS /\ untrimmed' = untrimmed + 1)
    BY <2>1 DEF Store!EnforceRetention
  <2> QED
    BY <1>1, <2>1, <2>2, <2>3 DEF StoreBounded
<1>3. CASE Store!CutShort
  <2>1. \E scan \in MCScans : \E k \in 0..Store!Cardinality(DOMAIN scan) :
          /\ written + k <= MAX_WRITTEN /\ written' = written + k /\ since' \in {0, since}
    BY <1>3 DEF Store!CutShort, Store!Restarted
  <2>2. PICK k \in Nat :
          /\ written + k <= MAX_WRITTEN /\ written' = written + k /\ since' \in {0, since}
    BY <2>1, StoreScans, OneCardinality
  <2>3. date' = date /\ untrimmed' = untrimmed
    BY <1>3 DEF Store!CutShort
  <2> QED
    BY <1>1, <2>2, <2>3 DEF StoreBounded
<1>4. CASE Store!Restart
  BY <1>1, <1>4 DEF Store!Restart, Store!Restarted, StoreBounded
<1>5. CASE Store!NextDate
  BY <1>1, <1>5 DEF Store!NextDate, StoreBounded
<1>6. CASE UNCHANGED store_vars
  BY <1>6 DEF store_vars, StoreBounded
<1> QED
  BY <1>2, <1>3, <1>4, <1>5, <1>6 DEF Store!StoreNext

LEMMA StoreTyped == StoreInv /\ StoreBounded => Store!StoreTypeOK
<1> SUFFICES ASSUME StoreInv, StoreBounded PROVE Store!StoreTypeOK
  OBVIOUS
<1>1. /\ StoreCounts /\ Whole(file, written) /\ LastIsHalf
      /\ written \in Nat /\ since \in Nat /\ MAX_WRITTEN \in Nat
  BY StoreFacts, StoreAssumption
<1>2. ASSUME NEW i \in DOMAIN file PROVE file[i].n \in 0..MAX_WRITTEN
  <2>1. CASE file[i] = Store!Broken
    BY <1>1, <2>1 DEF Store!Broken
  <2>2. CASE file[i] # Store!Broken
    <3>1. file[i] \in Line /\ i \in Readable(file)
      BY <1>1, <2>2 DEF Whole, Readable
    <3>2. file[i].n \in Nat \ {0}
      BY <2>2, <3>1 DEF Line
    <3>3. file[i].n <= written
      BY <1>1, <3>1 DEF Whole
    <3> QED
      BY <1>1, <3>2, <3>3 DEF StoreBounded
  <2> QED
    BY <2>1, <2>2
<1>3. open_end \in BOOLEAN /\ (open_end => file # <<>>)
  BY <1>1 DEF StoreCounts, LastIsHalf
<1>4. since \in 0..MAX_WRITTEN /\ date \in 1..LAST_DAY /\ untrimmed \in 0..MAX_CUTS
  BY <1>1, StoreFacts, StoreAssumption DEF StoreBounded
<1> QED
  BY <1>2, <1>3, <1>4 DEF Store!StoreTypeOK

Guarded == blocked \in [MCSetups -> 0..MAX_BLOCKED]
Kept == book \in [MCTrades -> 0..MAX_TRADES_REPLAYED]

LEMMA SetupsFinite == IsFiniteSet(MCSetups)
<1> DEFINE s1 == Setup(1, "symbol_lock", "EURUSD", "institutional_continuation", "new_york_open", "A+", 96, 210, 9)
           s2 == Setup(2, "symbol_lock", "EURUSD", "institutional_continuation", "london_open", "A", 90, -100, 9)
           s3 == Setup(3, "no_trade", "US30", "institutional_continuation", "new_york_open", "A", 91, 180, 9)
           s4 == Setup(4, "memory_penalty", "XAUUSD", "noisy_chop", "new_york_open", "A+", 92, -100, 9)
           s5 == Setup(5, "risk_lock", "US30", "noisy_chop", "new_york_open", "A+", 97, 150, 9)
           s6 == Setup(6, "killzone", "XAUUSD", "noisy_chop", "dead_zone", "A+", 91, 50, 9)
           s7 == Setup(7, "symbol_lock", "BTCUSD", "institutional_continuation", "new_york_continuation", "A+", 93, 130, 9)
           s8 == Setup(8, "execution_anomaly", "US30", "noisy_chop", "new_york_open", "A", 88, 240, 0)
           s9 == Setup(9, "no_trade", "XAUUSD", "noisy_chop", "london_open", "B", 70, 110, 9)
<1>1. MCSetups = {s1, s2, s3, s4, s5, s6, s7, s8, s9}
  BY DEF MCSetups
<1> HIDE DEF s1, s2, s3, s4, s5, s6, s7, s8, s9
<1>2. IsFiniteSet({s1, s2, s3, s4, s5, s6, s7, s8, s9})
  BY NineFinite
<1> QED
  BY <1>1, <1>2

LEMMA NumberedSum ==
  ASSUME NEW set
  PROVE  Review!Number(set) = SumOf(blocked, set)
BY DEF Review!Number, Review!MapThenSumSet, Review!MapThenFoldSet, SumOf, IsSum, Some

\* Of two sets of blocked setups, one within the other.
LEMMA NumbersOrdered ==
  ASSUME Guarded, NEW A \in SUBSET MCSetups, NEW B \in SUBSET A
  PROVE  /\ Review!Number(A) \in Nat /\ Review!Number(B) \in Nat
         /\ Review!Number(B) <= Review!Number(A)
<1>1. \A s \in MCSetups : blocked[s] \in Nat
  BY ReviewAssumption DEF Guarded
<1> QED
  BY <1>1, SetupsFinite, PartsOrdered, NumberedSum

LEMMA PercentIsShare ==
  ASSUME NEW a \in Nat, NEW b \in Nat, a <= b
  PROVE  Share(Review!Percent(a, b))
<1>1. Share(RateOf(b, a))
  BY RateFacts
<1>2. Review!Percent(a, b) = RateOf(b, a)
  BY DEF Review!Percent, RateOf
<1> QED
  BY <1>1, <1>2

LEMMA BlocksTyped == Guarded => Review!ReviewTypeOK
<1> SUFFICES ASSUME Guarded PROVE Review!ReviewTypeOK
  OBVIOUS
<1> DEFINE eligible == Review!Present \ Review!OfQuality(Review!Present, "INSUFFICIENT_DATA")
           bad == Review!OfQuality(eligible, "BAD_BLOCK")
<1>1. eligible \in SUBSET MCSetups /\ bad \in SUBSET eligible
  BY DEF Review!Present, Review!OfQuality
<1>2. Review!OpportunityLeakRate = Review!Percent(Review!Number(bad), Review!Number(eligible))
  BY DEF Review!OpportunityLeakRate
<1> HIDE DEF eligible, bad
<1>3. /\ Review!Number(bad) \in Nat /\ Review!Number(eligible) \in Nat
      /\ Review!Number(bad) <= Review!Number(eligible)
  BY <1>1, NumbersOrdered
<1>4. Share(Review!Percent(Review!Number(bad), Review!Number(eligible)))
  BY <1>3, PercentIsShare
<1> QED
  BY <1>2, <1>4 DEF Share, Review!ReviewTypeOK, Guarded

LEMMA BlocksStep ==
  ASSUME Guarded, Review!BlockSetup
  PROVE  Guarded'
<1>1. PICK s \in MCSetups, n \in Blocks :
        Review!Number(MCSetups) + n <= MAX_BLOCKED /\ blocked' = [blocked EXCEPT ![s] = n]
  BY DEF Review!BlockSetup
<1>2. n \in Nat /\ MAX_BLOCKED \in Nat /\ Review!Number(MCSetups) \in Nat
  BY ReviewAssumption, NumbersOrdered
<1>3. n \in 0..MAX_BLOCKED
  BY <1>1, <1>2
<1> QED
  BY <1>1, <1>3 DEF Guarded

LEMMA KeptIsFilled == Kept => Filled
BY ReviewAssumption DEF Kept, Filled

LEMMA TradesTyped == Kept => Review!EfdeTypeOK
<1> SUFFICES ASSUME Kept PROVE Review!EfdeTypeOK
  OBVIOUS
<1>1. Share(Review!EfdeSummary.false_exit_rate)
  BY KeptIsFilled, PassMeans
<1> QED
  BY <1>1 DEF Share, Kept, Review!EfdeTypeOK

LEMMA TradesStep ==
  ASSUME Kept, Review!ReplayTrades
  PROVE  Kept'
<1>1. PICK t \in MCTrades, n \in Copies :
        Review!Count(MCTrades) + n <= MAX_TRADES_REPLAYED /\ book' = [book EXCEPT ![t] = n]
  BY DEF Review!ReplayTrades
<1>2. Review!Count(MCTrades) \in Nat
  <2>1. \A x \in MCTrades : book[x] \in Nat
    BY KeptIsFilled DEF Filled
  <2> QED
    BY <2>1, TradesFinite, PartsOrdered, CountedSum
<1>3. n \in 0..MAX_TRADES_REPLAYED
  BY <1>1, <1>2, ReviewAssumption
<1> QED
  BY <1>1, <1>3 DEF Kept

Asked == request \in MCRequests /\ answers = Review!Answers(request)

LEMMA SomethingAsked == (CHOOSE r \in MCRequests : TRUE) \in MCRequests
<1> DEFINE t == Trade(-100, 22, Steady, Steady, "b")
           asked == [symbol |-> "XAUUSD", grade |-> "A+", confidence |-> 84, failing |-> {},
                     block |-> "symbol_lock", used |-> 1, bonus |-> 9, trade |-> t]
<1>1. asked \in MCRequests
  <2> HIDE DEF t
  <2> QED
    BY DEF MCRequests, t
<1> QED
  BY <1>1

\* A request of a set of requests has its confidence and bonus.
LEMMA RequestFields ==
  ASSUME NEW A, NEW B, NEW C, NEW D, NEW E, NEW F, NEW G, NEW H,
         NEW r \in [symbol : A, grade : B, confidence : C, failing : D, block : E, used : F, bonus : G, trade : H]
  PROVE  r.confidence \in C /\ r.bonus \in G
OBVIOUS

LEMMA PromotionsTyped == Asked => Review!PromotionTypeOK
<1> SUFFICES ASSUME Asked PROVE Review!PromotionTypeOK
  OBVIOUS
<1>1. \A r \in MCRequests :
        \/ r.confidence \in {90} /\ r.bonus \in {3}
        \/ r.confidence \in {84, 87, 90, 98} /\ r.bonus \in {-1, 9}
  BY RequestFields DEF MCRequests
<1>2. request.confidence \in 0..100 /\ request.bonus \in Int
  BY <1>1 DEF Asked
<1>3. Review!EffectiveConfidence(request) \in 0..100
  BY <1>2 DEF Review!EffectiveConfidence, Review!AtMost, Review!AtLeast, Review!MAX_BONUS
<1>4. /\ answers.exit = Review!EfdeEarlyExitAction(request)
      /\ answers.admitted = Review!AdmitAPlusOverride(request, Review!EffectiveConfidence(request))
      /\ answers.confidence = Review!EffectiveConfidence(request)
  BY DEF Asked, Review!Answers
<1>5. answers.exit \in BOOLEAN
  BY <1>4 DEF Review!EfdeEarlyExitAction
<1>6. answers.admitted \in BOOLEAN
  BY <1>4 DEF Review!AdmitAPlusOverride
<1> QED
  BY <1>3, <1>4, <1>5, <1>6 DEF Asked, Review!PromotionTypeOK

-----------------------------------------------------------------------------
(* The review of blocked setups.  The nine shapes, the best result first: what *)
(* a ranking takes of them is then a matter of nine numbers.                  *)

BestFirst == <<8, 1, 3, 5, 7, 9, 6, 4, 2>>
Nth(k) == CHOOSE s \in MCSetups : s.id = BestFirst[k]

LEMMA NineSetups ==
  /\ MCSetups = {Nth(1), Nth(2), Nth(3), Nth(4), Nth(5), Nth(6), Nth(7), Nth(8), Nth(9)}
  /\ Nth(1).rr = 240 /\ Nth(2).rr = 210 /\ Nth(3).rr = 180 /\ Nth(4).rr = 150 /\ Nth(5).rr = 130
  /\ Nth(6).rr = 110 /\ Nth(7).rr = 50 /\ Nth(8).rr = -100 /\ Nth(9).rr = -100
  /\ Nth(8).confidence = 92 /\ Nth(9).confidence = 90
  /\ \A s \in MCSetups : s.bars \in Int /\ s.rr \in Int /\ s.confidence \in Int /\ s.id \in Int
<1> DEFINE s1 == Setup(8, "execution_anomaly", "US30", "noisy_chop", "new_york_open", "A", 88, 240, 0)
           s2 == Setup(1, "symbol_lock", "EURUSD", "institutional_continuation", "new_york_open", "A+", 96, 210, 9)
           s3 == Setup(3, "no_trade", "US30", "institutional_continuation", "new_york_open", "A", 91, 180, 9)
           s4 == Setup(5, "risk_lock", "US30", "noisy_chop", "new_york_open", "A+", 97, 150, 9)
           s5 == Setup(7, "symbol_lock", "BTCUSD", "institutional_continuation", "new_york_continuation", "A+", 93, 130, 9)
           s6 == Setup(9, "no_trade", "XAUUSD", "noisy_chop", "london_open", "B", 70, 110, 9)
           s7 == Setup(6, "killzone", "XAUUSD", "noisy_chop", "dead_zone", "A+", 91, 50, 9)
           s8 == Setup(4, "memory_penalty", "XAUUSD", "noisy_chop", "new_york_open", "A+", 92, -100, 9)
           s9 == Setup(2, "symbol_lock", "EURUSD", "institutional_continuation", "london_open", "A", 90, -100, 9)
<1>1. MCSetups = {s1, s2, s3, s4, s5, s6, s7, s8, s9}
  BY DEF MCSetups
<1>2. /\ s1.id = 8 /\ s2.id = 1 /\ s3.id = 3 /\ s4.id = 5 /\ s5.id = 7 /\ s6.id = 9 /\ s7.id = 6
      /\ s8.id = 4 /\ s9.id = 2
  BY DEF Setup
<1>3. /\ s1.rr = 240 /\ s2.rr = 210 /\ s3.rr = 180 /\ s4.rr = 150 /\ s5.rr = 130 /\ s6.rr = 110 /\ s7.rr = 50
      /\ s8.rr = -100 /\ s9.rr = -100 /\ s8.confidence = 92 /\ s9.confidence = 90
  BY DEF Setup
<1>4. \A s \in {s1, s2, s3, s4, s5, s6, s7, s8, s9} : s.bars \in Int /\ s.confidence \in Int
  BY DEF Setup
<1> HIDE DEF s1, s2, s3, s4, s5, s6, s7, s8, s9
<1>5. Nth(1) = s1 /\ Nth(2) = s2 /\ Nth(3) = s3
  BY <1>1, <1>2 DEF Nth, BestFirst
<1>6. Nth(4) = s4 /\ Nth(5) = s5 /\ Nth(6) = s6
  BY <1>1, <1>2 DEF Nth, BestFirst
<1>7. Nth(7) = s7 /\ Nth(8) = s8 /\ Nth(9) = s9
  BY <1>1, <1>2 DEF Nth, BestFirst
<1>8. \A s \in MCSetups : s.bars \in Int /\ s.rr \in Int /\ s.confidence \in Int /\ s.id \in Int
  BY <1>1, <1>2, <1>3, <1>4
<1> QED
  BY <1>1, <1>3, <1>5, <1>6, <1>7, <1>8

\* Of a list of different things the first one is taken away.
LEMMA SumOfNine ==
  ASSUME NEW f, \A s \in MCSetups : f[s] \in Int
  PROVE  SumOf(f, MCSetups) =
           f[Nth(1)] + f[Nth(2)] + f[Nth(3)] + f[Nth(4)] + f[Nth(5)] + f[Nth(6)] + f[Nth(7)] + f[Nth(8)] + f[Nth(9)]
<1> DEFINE a == Nth(1)
           b == Nth(2)
           c == Nth(3)
           d == Nth(4)
           e == Nth(5)
           g == Nth(6)
           h == Nth(7)
           i == Nth(8)
           j == Nth(9)
<1>1. /\ MCSetups = {a, b, c, d, e, g, h, i, j}
      /\ a.rr = 240 /\ b.rr = 210 /\ c.rr = 180 /\ d.rr = 150 /\ e.rr = 130 /\ g.rr = 110 /\ h.rr = 50
      /\ i.rr = -100 /\ j.rr = -100 /\ i.confidence = 92 /\ j.confidence = 90
  BY NineSetups
<1>2. PICK p : AddsUp(p, f, MCSetups) /\ SumOf(f, MCSetups) = p[MCSetups]
  BY SetupsFinite, SumOfAdds
<1> HIDE DEF a, b, c, d, e, g, h, i, j
<1> DEFINE from_a == {a, b, c, d, e, g, h, i, j}
           from_b == {b, c, d, e, g, h, i, j}
           from_c == {c, d, e, g, h, i, j}
           from_d == {d, e, g, h, i, j}
           from_e == {e, g, h, i, j}
           from_g == {g, h, i, j}
           from_h == {h, i, j}
           from_i == {i, j}
           from_j == {j}
<1>3. /\ from_a \in SUBSET MCSetups /\ a \in from_a /\ from_a \ {a} = from_b
      /\ from_b \in SUBSET MCSetups /\ b \in from_b /\ from_b \ {b} = from_c
      /\ from_c \in SUBSET MCSetups /\ c \in from_c /\ from_c \ {c} = from_d
  BY <1>1
<1>4. /\ from_d \in SUBSET MCSetups /\ d \in from_d /\ from_d \ {d} = from_e
      /\ from_e \in SUBSET MCSetups /\ e \in from_e /\ from_e \ {e} = from_g
      /\ from_g \in SUBSET MCSetups /\ g \in from_g /\ from_g \ {g} = from_h
  BY <1>1
<1>5. /\ from_h \in SUBSET MCSetups /\ h \in from_h /\ from_h \ {h} = from_i
      /\ from_i \in SUBSET MCSetups /\ i \in from_i /\ from_i \ {i} = from_j
      /\ from_j \in SUBSET MCSetups /\ j \in from_j /\ from_j \ {j} = {}
  BY <1>1
<1>6. MCSetups = from_a
  BY <1>1
<1>7. \A s \in SUBSET MCSetups : \A x \in s : p[s] = f[x] + p[s \ {x}]
  BY <1>2 DEF AddsUp
<1>8. p[{}] = 0 /\ f[a] \in Int /\ f[b] \in Int /\ f[c] \in Int /\ f[d] \in Int /\ f[e] \in Int /\ f[g] \in Int
      /\ f[h] \in Int /\ f[i] \in Int /\ f[j] \in Int
  BY <1>1, <1>2 DEF AddsUp
<1> HIDE DEF from_a, from_b, from_c, from_d, from_e, from_g, from_h, from_i, from_j
<1>9. p[from_a] = f[a] + p[from_b] /\ p[from_b] = f[b] + p[from_c] /\ p[from_c] = f[c] + p[from_d]
  BY <1>3, <1>7
<1>10. p[from_d] = f[d] + p[from_e] /\ p[from_e] = f[e] + p[from_g] /\ p[from_g] = f[g] + p[from_h]
  BY <1>4, <1>7
<1>11. p[from_h] = f[h] + p[from_i] /\ p[from_i] = f[i] + p[from_j] /\ p[from_j] = f[j] + p[{}]
  BY <1>5, <1>7
<1>12. p[from_a] = f[a] + f[b] + f[c] + f[d] + f[e] + f[g] + f[h] + f[i] + f[j]
  BY <1>8, <1>9, <1>10, <1>11
<1> QED
  BY <1>2, <1>6, <1>12 DEF a, b, c, d, e, g, h, i, j

\* What a set holds of the k-th shape.
Held(T, k) == IF Nth(k) \in T THEN blocked[Nth(k)] ELSE 0
Within(f, T, k) == IF Nth(k) \in T THEN f[Nth(k)] ELSE 0

LEMMA SumOfParts ==
  ASSUME NEW T \in SUBSET MCSetups, NEW f, \A s \in T : f[s] \in Int
  PROVE  SumOf(f, T) =
           Within(f, T, 1) + Within(f, T, 2) + Within(f, T, 3) + Within(f, T, 4) + Within(f, T, 5)
           + Within(f, T, 6) + Within(f, T, 7) + Within(f, T, 8) + Within(f, T, 9)
<1> DEFINE g == [s \in MCSetups |-> IF s \in T THEN f[s] ELSE 0]
<1>1. \A s \in MCSetups : g[s] = (IF s \in T THEN f[s] ELSE 0) /\ g[s] \in Int
  OBVIOUS
<1> HIDE DEF g
<1>2. SumOf(f, T) = SumOf(g, MCSetups)
  BY <1>1, SetupsFinite, SumWithin
<1>3. \A k \in 1..9 : Nth(k) \in MCSetups => g[Nth(k)] = Within(f, T, k)
  BY <1>1 DEF Within
<1>4. /\ Nth(1) \in MCSetups /\ Nth(2) \in MCSetups /\ Nth(3) \in MCSetups /\ Nth(4) \in MCSetups
      /\ Nth(5) \in MCSetups /\ Nth(6) \in MCSetups /\ Nth(7) \in MCSetups /\ Nth(8) \in MCSetups
      /\ Nth(9) \in MCSetups
  BY NineSetups
<1>5. SumOf(g, MCSetups) =
        g[Nth(1)] + g[Nth(2)] + g[Nth(3)] + g[Nth(4)] + g[Nth(5)] + g[Nth(6)] + g[Nth(7)] + g[Nth(8)] + g[Nth(9)]
  BY <1>1, SumOfNine
<1> QED
  BY <1>2, <1>3, <1>4, <1>5

LEMMA NumberHeld ==
  ASSUME Guarded, NEW T \in SUBSET MCSetups
  PROVE  /\ Review!Number(T) =
              Held(T, 1) + Held(T, 2) + Held(T, 3) + Held(T, 4) + Held(T, 5)
              + Held(T, 6) + Held(T, 7) + Held(T, 8) + Held(T, 9)
         /\ \A k \in 1..9 : Held(T, k) \in Nat
<1>1. \A s \in MCSetups : blocked[s] \in Nat
  BY ReviewAssumption DEF Guarded
<1>2. \A s \in T : blocked[s] \in Int
  BY <1>1
<1>3. \A k : Within(blocked, T, k) = Held(T, k)
  BY DEF Within, Held
<1>4. \A k : Held(T, k) \in Nat
  BY <1>1 DEF Held
<1> QED
  BY <1>2, <1>3, <1>4, SumOfParts, NumberedSum

LEMMA InOrder ==
  ASSUME NEW j \in 1..9, NEW k \in 1..9
  PROVE  Nth(j) \in MCSetups /\ (Review!Ahead(Nth(j), Nth(k)) <=> j < k)
<1>1. Nth(j) \in MCSetups /\ Nth(k) \in MCSetups
  BY NineSetups
<1>2. /\ Nth(j).confidence \in Int /\ Nth(j).id \in Int /\ Nth(j).rr \in Int
      /\ Nth(k).confidence \in Int /\ Nth(k).id \in Int /\ Nth(k).rr \in Int
  BY <1>1, NineSetups
<1> QED
  BY <1>1, <1>2, NineSetups DEF Review!Ahead

Before(T, s) == {t \in T : Review!Ahead(t, s)}

LEMMA HeldBefore ==
  ASSUME NEW T \in SUBSET MCSetups, NEW j \in 1..9, NEW k \in 1..9
  PROVE  Held(Before(T, Nth(k)), j) = IF j < k THEN Held(T, j) ELSE 0
<1>1. Nth(j) \in Before(T, Nth(k)) <=> Nth(j) \in T /\ j < k
  BY InOrder DEF Before
<1> QED
  BY <1>1 DEF Held

\* What a ranking of T takes, of each shape and its results.
TakenOf(T, limit) ==
  [s \in T |-> Review!AtMost(blocked[s], Review!AtLeast(0, limit - Review!Number({t \in T : Review!Ahead(t, s)})))]
ResultOf(T, limit) ==
  [s \in T |-> Review!AtMost(blocked[s], Review!AtLeast(0, limit - Review!Number({t \in T : Review!Ahead(t, s)}))) * s.rr]

LEMMA TakenSum ==
  ASSUME NEW T, NEW limit
  PROVE  Review!RankedCandidates(T, limit).count = SumOf(TakenOf(T, limit), T)
<1> DEFINE Summing(g) == g = [s \in SUBSET T |-> IF s = {} THEN 0 ELSE Review!AtMost(blocked[Some(s)], Review!AtLeast(0, limit - Review!Number({t \in T : Review!Ahead(t, Some(s))}))) + g[s \ {Some(s)}]]
<1>1. ASSUME NEW g PROVE IsSum(g, TakenOf(T, limit), T) <=> Summing(g)
  <2>1. \A s \in SUBSET T : s # {} => TakenOf(T, limit)[Some(s)] = Review!AtMost(blocked[Some(s)], Review!AtLeast(0, limit - Review!Number({t \in T : Review!Ahead(t, Some(s))})))
    <3> TAKE s \in SUBSET T
    <3> HAVE s # {}
    <3>1. Some(s) \in T
      BY DEF Some
    <3> QED
      BY <3>1 DEF TakenOf
  <2>2. [s \in SUBSET T |-> IF s = {} THEN 0 ELSE TakenOf(T, limit)[Some(s)] + g[s \ {Some(s)}]]
        = [s \in SUBSET T |-> IF s = {} THEN 0 ELSE Review!AtMost(blocked[Some(s)], Review!AtLeast(0, limit - Review!Number({t \in T : Review!Ahead(t, Some(s))}))) + g[s \ {Some(s)}]]
    BY <2>1
  <2> QED
    BY <2>2 DEF IsSum
<1>2. Review!RankedCandidates(T, limit).count = (CHOOSE g : Summing(g))[T]
  BY DEF Review!RankedCandidates, Review!MapThenSumSet, Review!MapThenFoldSet, Some
<1> HIDE DEF Summing
<1>3. (CHOOSE g : Summing(g)) = (CHOOSE g : IsSum(g, TakenOf(T, limit), T))
  BY <1>1
<1> QED
  BY <1>2, <1>3 DEF SumOf

LEMMA ResultSum ==
  ASSUME NEW T, NEW limit
  PROVE  Review!RankedCandidates(T, limit).rr = SumOf(ResultOf(T, limit), T)
<1> DEFINE Summing(g) == g = [s \in SUBSET T |-> IF s = {} THEN 0 ELSE Review!AtMost(blocked[Some(s)], Review!AtLeast(0, limit - Review!Number({t \in T : Review!Ahead(t, Some(s))}))) * Some(s).rr + g[s \ {Some(s)}]]
<1>1. ASSUME NEW g PROVE IsSum(g, ResultOf(T, limit), T) <=> Summing(g)
  <2>1. \A s \in SUBSET T : s # {} => ResultOf(T, limit)[Some(s)] = Review!AtMost(blocked[Some(s)], Review!AtLeast(0, limit - Review!Number({t \in T : Review!Ahead(t, Some(s))}))) * Some(s).rr
    <3> TAKE s \in SUBSET T
    <3> HAVE s # {}
    <3>1. Some(s) \in T
      BY DEF Some
    <3> QED
      BY <3>1 DEF ResultOf
  <2>2. [s \in SUBSET T |-> IF s = {} THEN 0 ELSE ResultOf(T, limit)[Some(s)] + g[s \ {Some(s)}]]
        = [s \in SUBSET T |-> IF s = {} THEN 0 ELSE Review!AtMost(blocked[Some(s)], Review!AtLeast(0, limit - Review!Number({t \in T : Review!Ahead(t, Some(s))}))) * Some(s).rr + g[s \ {Some(s)}]]
    BY <2>1
  <2> QED
    BY <2>2 DEF IsSum
<1>2. Review!RankedCandidates(T, limit).rr = (CHOOSE g : Summing(g))[T]
  BY DEF Review!RankedCandidates, Review!MapThenSumSet, Review!MapThenFoldSet, Some
<1> HIDE DEF Summing
<1>3. (CHOOSE g : Summing(g)) = (CHOOSE g : IsSum(g, ResultOf(T, limit), T))
  BY <1>1
<1> QED
  BY <1>2, <1>3 DEF SumOf

\* The k-th shape is taken after those before it.
Took(T, limit, k) == Review!AtMost(Held(T, k), Review!AtLeast(0, limit - Review!Number(Before(T, Nth(k)))))

LEMMA TakenByShape ==
  ASSUME Guarded, NEW T \in SUBSET MCSetups, NEW limit \in Nat
  PROVE  /\ \A k \in 1..9 : Took(T, limit, k) \in Nat
         /\ Review!RankedCandidates(T, limit).count =
              Took(T, limit, 1) + Took(T, limit, 2) + Took(T, limit, 3) + Took(T, limit, 4) + Took(T, limit, 5)
              + Took(T, limit, 6) + Took(T, limit, 7) + Took(T, limit, 8) + Took(T, limit, 9)
         /\ Review!RankedCandidates(T, limit).rr =
              Took(T, limit, 1) * 240 + Took(T, limit, 2) * 210 + Took(T, limit, 3) * 180
              + Took(T, limit, 4) * 150 + Took(T, limit, 5) * 130 + Took(T, limit, 6) * 110
              + Took(T, limit, 7) * 50 + Took(T, limit, 8) * (-100) + Took(T, limit, 9) * (-100)
<1>1. \A s : Before(T, s) \in SUBSET MCSetups /\ Before(T, s) = {t \in T : Review!Ahead(t, s)}
  BY DEF Before
<1>2. \A s : Review!Number(Before(T, s)) \in Nat
  BY <1>1, NumbersOrdered
<1>3. \A s \in T : blocked[s] \in Nat
  BY ReviewAssumption DEF Guarded
<1>4. \A s \in T :
        Review!AtMost(blocked[s], Review!AtLeast(0, limit - Review!Number(Before(T, s)))) \in Nat
  BY <1>2, <1>3 DEF Review!AtMost, Review!AtLeast
<1>5. \A s \in T : TakenOf(T, limit)[s] \in Nat /\ ResultOf(T, limit)[s] = TakenOf(T, limit)[s] * s.rr
  BY <1>1, <1>4 DEF TakenOf, ResultOf
<1>6. \A k : Within(TakenOf(T, limit), T, k) = Took(T, limit, k) /\ Took(T, limit, k) \in Nat
  <2> TAKE k
  <2>1. CASE Nth(k) \in T
    BY <1>1, <1>4, <2>1 DEF Within, TakenOf, Took, Held
  <2>2. CASE Nth(k) \notin T
    BY <1>2, <2>2 DEF Within, Took, Held, Review!AtMost, Review!AtLeast
  <2> QED
    BY <2>1, <2>2
<1>7. \A k \in 1..9 : Within(ResultOf(T, limit), T, k) = Took(T, limit, k) * Nth(k).rr
  <2> TAKE k \in 1..9
  <2>1. CASE Nth(k) \in T
    BY <1>5, <1>6, <2>1 DEF Within
  <2>2. CASE Nth(k) \notin T
    <3>1. Within(ResultOf(T, limit), T, k) = 0 /\ Took(T, limit, k) = 0
      BY <1>6, <2>2 DEF Within
    <3>2. Nth(k).rr \in Int
      BY InOrder, NineSetups
    <3> QED
      BY <3>1, <3>2
  <2> QED
    BY <2>1, <2>2
<1>8. \A s \in T : TakenOf(T, limit)[s] \in Int /\ ResultOf(T, limit)[s] \in Int
  <2> TAKE s \in T
  <2>1. TakenOf(T, limit)[s] \in Int /\ s.rr \in Int
    BY <1>5, NineSetups
  <2> QED
    BY <1>5, <2>1
<1>9. /\ SumOf(TakenOf(T, limit), T) =
           Took(T, limit, 1) + Took(T, limit, 2) + Took(T, limit, 3) + Took(T, limit, 4) + Took(T, limit, 5)
           + Took(T, limit, 6) + Took(T, limit, 7) + Took(T, limit, 8) + Took(T, limit, 9)
  BY <1>6, <1>8, SumOfParts
<1>10. SumOf(ResultOf(T, limit), T) =
         Took(T, limit, 1) * 240 + Took(T, limit, 2) * 210 + Took(T, limit, 3) * 180
         + Took(T, limit, 4) * 150 + Took(T, limit, 5) * 130 + Took(T, limit, 6) * 110
         + Took(T, limit, 7) * 50 + Took(T, limit, 8) * (-100) + Took(T, limit, 9) * (-100)
  BY <1>7, <1>8, SumOfParts, NineSetups
<1> QED
  BY <1>6, <1>9, <1>10, TakenSum, ResultSum

\* What the limit leaves after a of them.
Room(b, limit, a) == Review!AtMost(b, Review!AtLeast(0, limit - a))

\* The best of a set, up to a limit: their number and their results, which losers
\* only touch where the winners leave room.
LEMMA Ranked ==
  ASSUME Guarded, NEW T \in SUBSET MCSetups, NEW limit \in Nat, NEW W, W = {s \in T : s.rr > 0}
  PROVE  LET best == Review!RankedCandidates(T, limit)
         IN /\ Review!Number(T) \in Nat /\ Review!Number(W) \in Nat
            /\ best.count = Review!AtMost(Review!Number(T), limit) /\ best.count \in Nat /\ best.count <= limit
            /\ best.rr \in Int /\ best.rr <= 240 * best.count
            /\ Review!Number(W) >= limit => best.rr >= 0
<1> DEFINE h(k) == Held(T, k)
           sum2 == h(1) + h(2)
           sum3 == sum2 + h(3)
           sum4 == sum3 + h(4)
           sum5 == sum4 + h(5)
           sum6 == sum5 + h(6)
           sum7 == sum6 + h(7)
           sum8 == sum7 + h(8)
           sum9 == sum8 + h(9)
           took(b, a) == Room(b, limit, a)
<1>1. /\ h(1) \in Nat /\ h(2) \in Nat /\ h(3) \in Nat /\ h(4) \in Nat /\ h(5) \in Nat
      /\ h(6) \in Nat /\ h(7) \in Nat /\ h(8) \in Nat /\ h(9) \in Nat
  BY NumberHeld
<1>2. \A s : Before(T, s) \in SUBSET MCSetups
  BY DEF Before
<1>3. /\ Review!Number(Before(T, Nth(1))) = 0 /\ Review!Number(Before(T, Nth(2))) = h(1)
      /\ Review!Number(Before(T, Nth(3))) = sum2 /\ Review!Number(Before(T, Nth(4))) = sum3
  BY <1>1, <1>2, NumberHeld, HeldBefore
<1>4. /\ Review!Number(Before(T, Nth(5))) = sum4 /\ Review!Number(Before(T, Nth(6))) = sum5
      /\ Review!Number(Before(T, Nth(7))) = sum6
  BY <1>1, <1>2, NumberHeld, HeldBefore
<1>5. /\ Review!Number(Before(T, Nth(8))) = sum7 /\ Review!Number(Before(T, Nth(9))) = sum8
  BY <1>1, <1>2, NumberHeld, HeldBefore
<1>6. Review!Number(T) = sum9
  BY <1>1, NumberHeld
<1>7. Review!Number(W) = sum7
  <2>1. W \in SUBSET MCSetups
    OBVIOUS
  <2>2. /\ Held(W, 1) = h(1) /\ Held(W, 2) = h(2) /\ Held(W, 3) = h(3) /\ Held(W, 4) = h(4) /\ Held(W, 5) = h(5)
        /\ Held(W, 6) = h(6) /\ Held(W, 7) = h(7) /\ Held(W, 8) = 0 /\ Held(W, 9) = 0
    BY NineSetups DEF Held
  <2> QED
    BY <1>1, <2>1, <2>2, NumberHeld
<1>8. /\ Took(T, limit, 1) = took(h(1), 0) /\ Took(T, limit, 2) = took(h(2), h(1))
      /\ Took(T, limit, 3) = took(h(3), sum2) /\ Took(T, limit, 4) = took(h(4), sum3)
      /\ Took(T, limit, 5) = took(h(5), sum4) /\ Took(T, limit, 6) = took(h(6), sum5)
      /\ Took(T, limit, 7) = took(h(7), sum6) /\ Took(T, limit, 8) = took(h(8), sum7)
      /\ Took(T, limit, 9) = took(h(9), sum8)
  BY <1>3, <1>4, <1>5 DEF Took, Room
<1>9. /\ sum2 \in Nat /\ sum3 \in Nat /\ sum4 \in Nat /\ sum5 \in Nat /\ sum6 \in Nat /\ sum7 \in Nat
      /\ sum8 \in Nat /\ sum9 \in Nat /\ sum8 >= sum7
  BY <1>1
<1> HIDE DEF h
<1>10. Review!AtMost(h(1), limit) = took(h(1), 0)
  BY <1>1 DEF Room, Review!AtMost, Review!AtLeast
<1>11. Review!AtMost(sum9, limit) \in Nat /\ Review!AtMost(sum9, limit) <= limit
  BY <1>9 DEF Review!AtMost
<1>12. /\ sum2 = h(1) + h(2) /\ sum3 = sum2 + h(3) /\ sum4 = sum3 + h(4) /\ sum5 = sum4 + h(5)
       /\ sum6 = sum5 + h(6) /\ sum7 = sum6 + h(7) /\ sum8 = sum7 + h(8) /\ sum9 = sum8 + h(9)
  OBVIOUS
<1> HIDE DEF sum2, sum3, sum4, sum5, sum6, sum7, sum8, sum9
<1>13. /\ Review!AtMost(h(1), limit) + took(h(2), h(1)) = Review!AtMost(sum2, limit)
       /\ Review!AtMost(sum2, limit) + took(h(3), sum2) = Review!AtMost(sum3, limit)
       /\ Review!AtMost(sum3, limit) + took(h(4), sum3) = Review!AtMost(sum4, limit)
  BY <1>1, <1>9, <1>12 DEF Room, Review!AtMost, Review!AtLeast
<1>14. /\ Review!AtMost(sum4, limit) + took(h(5), sum4) = Review!AtMost(sum5, limit)
       /\ Review!AtMost(sum5, limit) + took(h(6), sum5) = Review!AtMost(sum6, limit)
       /\ Review!AtMost(sum6, limit) + took(h(7), sum6) = Review!AtMost(sum7, limit)
  BY <1>1, <1>9, <1>12 DEF Room, Review!AtMost, Review!AtLeast
<1>15. /\ Review!AtMost(sum7, limit) + took(h(8), sum7) = Review!AtMost(sum8, limit)
       /\ Review!AtMost(sum8, limit) + took(h(9), sum8) = Review!AtMost(sum9, limit)
  BY <1>1, <1>9, <1>12 DEF Room, Review!AtMost, Review!AtLeast
<1>16. sum7 >= limit => took(h(8), sum7) = 0 /\ took(h(9), sum8) = 0
  BY <1>1, <1>9, <1>12 DEF Room, Review!AtMost, Review!AtLeast
<1> HIDE DEF took
<1> DEFINE t(k) == Took(T, limit, k)
<1>17. /\ t(1) \in Nat /\ t(2) \in Nat /\ t(3) \in Nat /\ t(4) \in Nat /\ t(5) \in Nat /\ t(6) \in Nat
       /\ t(7) \in Nat /\ t(8) \in Nat /\ t(9) \in Nat
  BY TakenByShape
<1>18. /\ Review!RankedCandidates(T, limit).count = t(1) + t(2) + t(3) + t(4) + t(5) + t(6) + t(7) + t(8) + t(9)
       /\ Review!RankedCandidates(T, limit).rr =
            t(1) * 240 + t(2) * 210 + t(3) * 180 + t(4) * 150 + t(5) * 130 + t(6) * 110
            + t(7) * 50 + t(8) * (-100) + t(9) * (-100)
  BY TakenByShape
<1>19. t(1) + t(2) + t(3) + t(4) + t(5) + t(6) + t(7) + t(8) + t(9) = Review!AtMost(sum9, limit)
  BY <1>8, <1>10, <1>13, <1>14, <1>15, <1>17
<1>20. sum7 >= limit => t(8) = 0 /\ t(9) = 0
  BY <1>8, <1>16
<1> HIDE DEF t
<1>21. /\ Review!RankedCandidates(T, limit).rr \in Int
       /\ Review!RankedCandidates(T, limit).rr <= 240 * Review!RankedCandidates(T, limit).count
       /\ sum7 >= limit => Review!RankedCandidates(T, limit).rr >= 0
  BY <1>17, <1>18, <1>20
<1>22. /\ Review!RankedCandidates(T, limit).count = Review!AtMost(Review!Number(T), limit)
       /\ Review!Number(T) \in Nat /\ Review!Number(W) \in Nat
  BY <1>6, <1>7, <1>9, <1>18, <1>19
<1> QED
  BY <1>6, <1>7, <1>11, <1>21, <1>22

\* A quotient lies under every multiple that the divided lies under.
LEMMA DivBetween ==
  ASSUME NEW a \in Int, NEW d \in Nat \ {0}, NEW b \in Int
  PROVE  /\ a \div d \in Int
         /\ a <= b * d => a \div d <= b
         /\ a >= 0 => a \div d >= 0
<1> DEFINE q == a \div d
           r == a % d
<1>1. q \in Int /\ r \in 0..d - 1 /\ a = d * q + r
  OBVIOUS
<1> HIDE DEF q, r
<1>2. ASSUME a <= b * d, q >= b + 1 PROVE FALSE
  <2>1. d * q >= d * (b + 1)
    BY <1>1, <1>2
  <2>2. d * (b + 1) = b * d + d
    OBVIOUS
  <2>3. d * q \in Int /\ b * d \in Int
    BY <1>1
  <2> QED
    BY <1>1, <1>2, <2>1, <2>2, <2>3
<1>3. ASSUME a >= 0, q < 0 PROVE FALSE
  <2>1. d * q <= d * (-1)
    BY <1>1, <1>3
  <2>2. d * (-1) = -d /\ d * q \in Int
    BY <1>1
  <2> QED
    BY <1>1, <1>3, <2>1, <2>2
<1>4. a <= b * d => q <= b
  BY <1>1, <1>2
<1>5. a >= 0 => q >= 0
  BY <1>1, <1>3
<1> QED
  BY <1>1, <1>4, <1>5 DEF q

\* A ranking of results up to 2.4 R.
Picked(p) == p.count \in Nat /\ p.rr \in Int /\ p.rr <= 240 * p.count

LEMMA Means ==
  ASSUME NEW p, Picked(p)
  PROVE  /\ Review!Mean(p, 35) \in Int /\ Review!Mean(p, 35) <= 8400
         /\ Review!Mean(p, 20) \in Int /\ (p.rr >= 0 => Review!Mean(p, 20) >= 0)
         /\ Review!Mean(p, 10) \in Int
<1>1. CASE p.count = 0
  BY <1>1 DEF Review!Mean
<1>2. CASE p.count # 0
  <2> DEFINE a == 35 * p.rr
             b == 20 * p.rr
             c == 10 * p.rr
             n == p.count
  <2>1. a \in Int /\ b \in Int /\ c \in Int /\ n \in Nat \ {0} /\ a <= 8400 * n /\ (p.rr >= 0 => b >= 0)
    BY <1>2 DEF Picked
  <2>2. Review!Mean(p, 35) = a \div n /\ Review!Mean(p, 20) = b \div n /\ Review!Mean(p, 10) = c \div n
    BY <1>2 DEF Review!Mean
  <2> HIDE DEF a, b, c, n
  <2>3. a \div n \in Int /\ a \div n <= 8400 /\ b \div n \in Int /\ (b >= 0 => b \div n >= 0) /\ c \div n \in Int
    BY <2>1, DivBetween
  <2> QED
    BY <2>1, <2>2, <2>3
<1> QED
  BY <1>1, <1>2

\* Figures of a relaxation: never worse than those of the start.
Metrics(m) ==
  /\ m = [pf |-> m.pf, win_rate |-> m.win_rate, trades |-> m.trades, max_drawdown |-> m.max_drawdown]
  /\ m.pf \in Int /\ m.win_rate \in Int /\ m.trades \in Int /\ m.max_drawdown \in Int

Figures(m, n) ==
  /\ Metrics(m) /\ m.trades = 151 + n
  /\ m.pf >= 284 /\ (m.pf > 284 => 1000 * m.pf <= 292900 + 400 * n)
  /\ m.win_rate >= 7260 /\ (m.win_rate > 7260 => m.win_rate <= 7210 + 11 * n)
  /\ m.max_drawdown >= 372 /\ m.max_drawdown <= 398

LEMMA Scenario ==
  ASSUME NEW p, Picked(p)
  PROVE  Figures(Review!ScenarioResult(p), p.count) /\ Review!OptimizationPasses(Review!ScenarioResult(p))
<1> DEFINE n == p.count
           mean == Review!Mean(p, 35)
           pf == (284500 + mean + 400 * n) \div 1000
           dd == (3725 + 18 * n) \div 10
           m == Review!ScenarioResult(p)
<1>1. n \in Nat /\ mean \in Int /\ mean <= 8400
  BY Means DEF Picked
<1>2. m = [pf |-> Review!AtLeast(284, pf), win_rate |-> Review!AtLeast(7260, 7210 + 11 * n),
           trades |-> 151 + n, max_drawdown |-> Review!AtMost(398, dd)]
  BY DEF Review!ScenarioResult, Review!ELITE
<1> HIDE DEF mean, n, m
<1>3. pf \in Int /\ 1000 * pf <= 292900 + 400 * n
  BY <1>1
<1>4. dd \in Int /\ dd >= 372
  BY <1>1
<1> HIDE DEF pf, dd
<1>5. /\ m.pf = Review!AtLeast(284, pf) /\ m.win_rate = Review!AtLeast(7260, 7210 + 11 * n)
      /\ m.trades = 151 + n /\ m.max_drawdown = Review!AtMost(398, dd)
      /\ m = [pf |-> m.pf, win_rate |-> m.win_rate, trades |-> m.trades, max_drawdown |-> m.max_drawdown]
  BY <1>2
<1>6. Figures(m, n)
  BY <1>1, <1>3, <1>4, <1>5 DEF Figures, Metrics, Review!AtLeast, Review!AtMost
<1>7. Review!OptimizationPasses(m)
  BY <1>6 DEF Figures, Metrics, Review!OptimizationPasses
<1> QED
  BY <1>6, <1>7 DEF m, n

LEMMA RankedPicked ==
  ASSUME Guarded, NEW T \in SUBSET MCSetups, NEW limit \in Nat
  PROVE  Picked(Review!RankedCandidates(T, limit)) /\ Review!RankedCandidates(T, limit).count <= limit
<1>1. PICK W : W = {s \in T : s.rr > 0}
  OBVIOUS
<1> QED
  BY <1>1, Ranked DEF Picked

\* The four relaxations, and the one without a limit.
LEMMA Relaxed ==
  ASSUME Guarded
  PROVE  /\ \A i \in 1..4 : Review!OptimizationPasses(Review!ConditionalRelaxation(i))
         /\ Review!OptimizationPasses(Review!APlusOverrideSimulation)
         /\ \E n \in 0..5 : Figures(Review!ConditionalRelaxation(1), n)
         /\ \E n \in 0..2 : Figures(Review!ConditionalRelaxation(2), n)
         /\ \E n \in 0..9 : Figures(Review!ConditionalRelaxation(4), n)
<1> DEFINE For(g) == {s \in Review!GoodGrade : Review!GuardrailForBlock(s.reason) = g}
           high == {s \in Review!Leaks : s.grade = "A+" /\ s.confidence >= 90}
           ready == {s \in Review!Leaks : s.grade = "A+" /\ s.confidence >= 90 /\ Review!Attribution(s).execution_ready}
           r(T, limit) == Review!ScenarioResult(Review!RankedCandidates(T, limit))
<1>1. /\ For("symbol_lock") \in SUBSET MCSetups /\ For("no_trade") \in SUBSET MCSetups
      /\ high \in SUBSET MCSetups /\ ready \in SUBSET MCSetups /\ Review!GoodGrade \in SUBSET MCSetups
  BY DEF Review!GoodGrade, Review!Leaks, Review!OfQuality, Review!Present
<1>2. /\ Review!ConditionalRelaxation(1) = r(For("symbol_lock"), 5)
      /\ Review!ConditionalRelaxation(2) = r(For("no_trade"), 2)
      /\ Review!ConditionalRelaxation(3) = r(high, 7)
      /\ Review!ConditionalRelaxation(4) = r(Review!GoodGrade, 9)
      /\ Review!APlusOverrideSimulation = r(ready, MAX_BLOCKED)
  BY DEF Review!ConditionalRelaxation, Review!APlusOverrideSimulation
<1> HIDE DEF For, high, ready
<1>3. ASSUME NEW T \in SUBSET MCSetups, NEW limit \in Nat
      PROVE  Review!OptimizationPasses(r(T, limit)) /\ \E n \in 0..limit : Figures(r(T, limit), n)
  BY <1>3, RankedPicked, Scenario DEF Picked
<1> HIDE DEF r
<1>4. MAX_BLOCKED \in Nat
  BY ReviewAssumption
<1>5. /\ Review!OptimizationPasses(r(For("symbol_lock"), 5)) /\ \E n \in 0..5 : Figures(r(For("symbol_lock"), 5), n)
      /\ Review!OptimizationPasses(r(For("no_trade"), 2)) /\ \E n \in 0..2 : Figures(r(For("no_trade"), 2), n)
      /\ Review!OptimizationPasses(r(high, 7))
      /\ Review!OptimizationPasses(r(Review!GoodGrade, 9)) /\ \E n \in 0..9 : Figures(r(Review!GoodGrade, 9), n)
      /\ Review!OptimizationPasses(r(ready, MAX_BLOCKED))
  BY <1>1, <1>3, <1>4
<1>6. 1..4 = {1, 2, 3, 4}
  OBVIOUS
<1> QED
  BY <1>2, <1>5, <1>6

\* Of the cases of a stress test the one with the largest drawdown is the worst.
LEMMA DeepestCase ==
  ASSUME NEW i, NEW m, NEW shock \in Review!StressShocks[i],
         Review!Stressed(m, shock).max_drawdown \in Int, Review!Stressed(m, shock).win_rate \in Int,
         \A other \in Review!StressShocks[i] :
           other # shock => /\ Review!Stressed(m, other).max_drawdown \in Int
                            /\ Review!Stressed(m, other).max_drawdown < Review!Stressed(m, shock).max_drawdown
  PROVE  Review!WorstStressCase(i, m) = Review!Stressed(m, shock)
<1> DEFINE cases == {Review!Stressed(m, other) : other \in Review!StressShocks[i]}
           e == Review!Stressed(m, shock)
           Worst(y) == \A z \in cases :
             \/ y.max_drawdown > z.max_drawdown
             \/ y.max_drawdown = z.max_drawdown /\ (y.pf < z.pf \/ (y.pf = z.pf /\ y.win_rate <= z.win_rate))
<1>1. Review!WorstStressCase(i, m) = CHOOSE y \in cases : Worst(y)
  BY DEF Review!WorstStressCase
<1>2. e \in cases /\ e.max_drawdown \in Int /\ e.win_rate \in Int
  OBVIOUS
<1>3. \A z \in cases : z # e => z.max_drawdown \in Int /\ z.max_drawdown < e.max_drawdown
  OBVIOUS
<1> HIDE DEF cases, e
<1>4. Worst(e)
  BY <1>2, <1>3
<1>5. \A y \in cases : Worst(y) => y = e
  BY <1>2, <1>3
<1> HIDE DEF Worst
<1>6. (CHOOSE y \in cases : Worst(y)) = e
  BY <1>2, <1>4, <1>5
<1> QED
  BY <1>1, <1>6 DEF e

\* What a shock does to the figures of a relaxation.
Shock(s) == s.pf \in Int /\ s.win_rate \in Int /\ s.max_drawdown \in Int

LEMMA Shocked ==
  ASSUME NEW m, Metrics(m), NEW s, Shock(s)
  PROVE  /\ Review!Stressed(m, s).pf = m.pf + s.pf
         /\ Review!Stressed(m, s).win_rate = m.win_rate + s.win_rate
         /\ Review!Stressed(m, s).max_drawdown = m.max_drawdown + s.max_drawdown
<1>1. m = [pf |-> m.pf, win_rate |-> m.win_rate, trades |-> m.trades, max_drawdown |-> m.max_drawdown]
  BY DEF Metrics
<1> QED
  BY <1>1 DEF Metrics, Review!Stressed

\* The shock w is the one that hits drawdown hardest.
Hardest(i, w) ==
  /\ w \in Review!StressShocks[i] /\ \A s \in Review!StressShocks[i] : Shock(s)
  /\ \A s \in Review!StressShocks[i] : s # w => s.max_drawdown < w.max_drawdown

LEMMA HardestShock ==
  ASSUME NEW m, Metrics(m), NEW i, NEW w, Hardest(i, w)
  PROVE  /\ Review!WorstStressCase(i, m).pf = m.pf + w.pf
         /\ Review!WorstStressCase(i, m).win_rate = m.win_rate + w.win_rate
         /\ Review!WorstStressCase(i, m).max_drawdown = m.max_drawdown + w.max_drawdown
<1>1. m.max_drawdown \in Int /\ m.win_rate \in Int
  BY DEF Metrics
<1>2. \A s \in Review!StressShocks[i] :
        /\ Shock(s) /\ Review!Stressed(m, s).max_drawdown = m.max_drawdown + s.max_drawdown
        /\ Review!Stressed(m, s).win_rate = m.win_rate + s.win_rate
  BY Shocked DEF Hardest
<1>3. \A s \in Review!StressShocks[i] :
        /\ Review!Stressed(m, s).max_drawdown \in Int /\ Review!Stressed(m, s).win_rate \in Int
        /\ s # w => Review!Stressed(m, s).max_drawdown < Review!Stressed(m, w).max_drawdown
  BY <1>1, <1>2 DEF Shock, Hardest
<1>4. w \in Review!StressShocks[i] /\ Shock(w)
  BY DEF Hardest
<1>5. Review!WorstStressCase(i, m) = Review!Stressed(m, w)
  BY <1>3, <1>4, DeepestCase
<1> QED
  BY <1>4, <1>5, Shocked

\* Of five shocks.
LEMMA HardestOfFive ==
  ASSUME NEW i, NEW a, NEW b, NEW c, NEW d, NEW w, Review!StressShocks[i] = {a, b, c, d, w},
         Shock(a), Shock(b), Shock(c), Shock(d), Shock(w),
         a.max_drawdown < w.max_drawdown, b.max_drawdown < w.max_drawdown,
         c.max_drawdown < w.max_drawdown, d.max_drawdown < w.max_drawdown
  PROVE  Hardest(i, w)
BY DEF Hardest

LEMMA ShocksRanked ==
  /\ Hardest(1, Review!Worse(9, 95, 17)) /\ Hardest(2, Review!Worse(10, 100, 16))
  /\ Hardest(3, Review!Worse(3, 20, 12)) /\ Hardest(4, Review!Worse(8, 55, 20))
<1>1. Hardest(1, Review!Worse(9, 95, 17))
  <2> DEFINE a == Review!Worse(5, 45, 8)
             b == Review!Worse(6, 55, 10)
             c == Review!Worse(4, 35, 6)
             d == Review!Worse(8, 75, 14)
             w == Review!Worse(9, 95, 17)
  <2>1. Review!StressShocks[1] = {a, b, c, d, w}
    BY DEF Review!StressShocks
  <2>2. Shock(a) /\ Shock(b) /\ Shock(c) /\ Shock(d) /\ Shock(w)
    BY DEF Shock, Review!Worse
  <2>3. a.max_drawdown = 8 /\ b.max_drawdown = 10 /\ c.max_drawdown = 6 /\ d.max_drawdown = 14 /\ w.max_drawdown = 17
    BY DEF Review!Worse
  <2> HIDE DEF a, b, c, d, w
  <2>4. a.max_drawdown < w.max_drawdown /\ b.max_drawdown < w.max_drawdown
        /\ c.max_drawdown < w.max_drawdown /\ d.max_drawdown < w.max_drawdown
    BY <2>3
  <2>5. Hardest(1, w)
    BY <2>1, <2>2, <2>4, HardestOfFive
  <2> QED
    BY <2>5 DEF w
<1>2. Hardest(2, Review!Worse(10, 100, 16))
  <2> DEFINE a == Review!Worse(6, 45, 7)
             b == Review!Worse(8, 65, 9)
             c == Review!Worse(5, 35, 6)
             d == Review!Worse(9, 80, 13)
             w == Review!Worse(10, 100, 16)
  <2>1. Review!StressShocks[2] = {a, b, c, d, w}
    BY DEF Review!StressShocks
  <2>2. Shock(a) /\ Shock(b) /\ Shock(c) /\ Shock(d) /\ Shock(w)
    BY DEF Shock, Review!Worse
  <2>3. a.max_drawdown = 7 /\ b.max_drawdown = 9 /\ c.max_drawdown = 6 /\ d.max_drawdown = 13 /\ w.max_drawdown = 16
    BY DEF Review!Worse
  <2> HIDE DEF a, b, c, d, w
  <2>4. a.max_drawdown < w.max_drawdown /\ b.max_drawdown < w.max_drawdown
        /\ c.max_drawdown < w.max_drawdown /\ d.max_drawdown < w.max_drawdown
    BY <2>3
  <2>5. Hardest(2, w)
    BY <2>1, <2>2, <2>4, HardestOfFive
  <2> QED
    BY <2>5 DEF w
<1>3. Hardest(3, Review!Worse(3, 20, 12))
  <2> DEFINE a == Review!Worse(1, 5, 3)
             b == Review!Worse(2, 10, 4)
             c == Review!Worse(1, 8, 3)
             d == Review!Worse(3, 18, 8)
             w == Review!Worse(3, 20, 12)
  <2>1. Review!StressShocks[3] = {a, b, c, d, w}
    BY DEF Review!StressShocks
  <2>2. Shock(a) /\ Shock(b) /\ Shock(c) /\ Shock(d) /\ Shock(w)
    BY DEF Shock, Review!Worse
  <2>3. a.max_drawdown = 3 /\ b.max_drawdown = 4 /\ c.max_drawdown = 3 /\ d.max_drawdown = 8 /\ w.max_drawdown = 12
    BY DEF Review!Worse
  <2> HIDE DEF a, b, c, d, w
  <2>4. a.max_drawdown < w.max_drawdown /\ b.max_drawdown < w.max_drawdown
        /\ c.max_drawdown < w.max_drawdown /\ d.max_drawdown < w.max_drawdown
    BY <2>3
  <2>5. Hardest(3, w)
    BY <2>1, <2>2, <2>4, HardestOfFive
  <2> QED
    BY <2>5 DEF w
<1>4. Hardest(4, Review!Worse(8, 55, 20))
  <2> DEFINE a == Review!Worse(4, 25, 6)
             b == Review!Worse(5, 35, 8)
             c == Review!Worse(3, 20, 5)
             d == Review!Worse(6, 45, 13)
             w == Review!Worse(8, 55, 20)
  <2>1. Review!StressShocks[4] = {a, b, c, d, w}
    BY DEF Review!StressShocks
  <2>2. Shock(a) /\ Shock(b) /\ Shock(c) /\ Shock(d) /\ Shock(w)
    BY DEF Shock, Review!Worse
  <2>3. a.max_drawdown = 6 /\ b.max_drawdown = 8 /\ c.max_drawdown = 5 /\ d.max_drawdown = 13 /\ w.max_drawdown = 20
    BY DEF Review!Worse
  <2> HIDE DEF a, b, c, d, w
  <2>4. a.max_drawdown < w.max_drawdown /\ b.max_drawdown < w.max_drawdown
        /\ c.max_drawdown < w.max_drawdown /\ d.max_drawdown < w.max_drawdown
    BY <2>3
  <2>5. Hardest(4, w)
    BY <2>1, <2>2, <2>4, HardestOfFive
  <2> QED
    BY <2>5 DEF w
<1> QED
  BY <1>1, <1>2, <1>3, <1>4

LEMMA WorstCases ==
  ASSUME NEW m, Metrics(m)
  PROVE  /\ Review!WorstStressCase(1, m).pf = m.pf - 9
         /\ Review!WorstStressCase(2, m).pf = m.pf - 10
         /\ Review!WorstStressCase(4, m).pf = m.pf - 8
<1>1. /\ Review!WorstStressCase(1, m).pf = m.pf + Review!Worse(9, 95, 17).pf
      /\ Review!WorstStressCase(2, m).pf = m.pf + Review!Worse(10, 100, 16).pf
      /\ Review!WorstStressCase(4, m).pf = m.pf + Review!Worse(8, 55, 20).pf
  BY ShocksRanked, HardestShock
<1>2. /\ Review!Worse(9, 95, 17).pf = -9 /\ Review!Worse(10, 100, 16).pf = -10
      /\ Review!Worse(8, 55, 20).pf = -8
  BY DEF Review!Worse
<1>3. m.pf \in Int
  BY DEF Metrics
<1> QED
  BY <1>1, <1>2, <1>3

\* The third candidate's own figures pass whatever the shock.
LEMMA ThirdStands ==
  Review!StressPasses(3) /\ Review!MeetsElite(Review!CandidateMetrics(3))
<1> DEFINE m == [pf |-> 294, win_rate |-> 7325, trades |-> 158, max_drawdown |-> 384]
           w == Review!Worse(3, 20, 12)
<1>1. Review!CandidateMetrics(3) = m
  BY DEF Review!CandidateMetrics
<1>2. m.pf = 294 /\ m.win_rate = 7325 /\ m.trades = 158 /\ m.max_drawdown = 384
  OBVIOUS
<1>3. m = [pf |-> m.pf, win_rate |-> m.win_rate, trades |-> m.trades, max_drawdown |-> m.max_drawdown]
  OBVIOUS
<1>4. w.pf = -3 /\ w.win_rate = -20 /\ w.max_drawdown = 12
  BY DEF Review!Worse
<1> HIDE DEF m
<1>5. Metrics(m)
  BY <1>2, <1>3 DEF Metrics
<1>6. /\ Review!WorstStressCase(3, m).pf = 291 /\ Review!WorstStressCase(3, m).win_rate = 7305
      /\ Review!WorstStressCase(3, m).max_drawdown = 396
  BY <1>2, <1>4, <1>5, ShocksRanked, HardestShock
<1> QED
  BY <1>1, <1>2, <1>6 DEF Review!StressPasses, Review!MeetsElite

LEMMA OthersRejected ==
  ASSUME Guarded, NEW i \in {1, 2, 4}
  PROVE  /\ ~Review!StressPasses(i) /\ Review!ClassifyCandidate(i) = "REJECTED"
         /\ \E n \in 0..9 : Figures(Review!CandidateMetrics(i), n)
<1> DEFINE m == Review!CandidateMetrics(i)
<1>1. m = Review!ConditionalRelaxation(i)
  BY DEF Review!CandidateMetrics
<1>2. /\ i = 1 => \E n \in 0..5 : Figures(m, n)
      /\ i = 2 => \E n \in 0..2 : Figures(m, n)
      /\ i = 4 => \E n \in 0..9 : Figures(m, n)
  BY <1>1, Relaxed
<1> HIDE DEF m
<1>3. \E n \in 0..9 : Figures(m, n)
  BY <1>2
<1>4. Metrics(m)
  BY <1>3 DEF Figures
<1>5. /\ i = 1 => Review!WorstStressCase(i, m).pf = m.pf - 9
      /\ i = 2 => Review!WorstStressCase(i, m).pf = m.pf - 10
      /\ i = 4 => Review!WorstStressCase(i, m).pf = m.pf - 8
  BY <1>4, WorstCases
<1>6. /\ i = 1 => m.pf <= 294
      /\ i = 2 => m.pf <= 293
      /\ i = 4 => m.pf <= 296
  BY <1>2, <1>4 DEF Figures, Metrics
<1>7. Review!WorstStressCase(i, m).pf < 290
  BY <1>4, <1>5, <1>6 DEF Metrics
<1>8. ~Review!StressPasses(i)
  <2>1. Review!WorstStressCase(i, m).pf \in Int
    BY <1>4, <1>5 DEF Metrics
  <2> QED
    BY <1>7, <2>1 DEF Review!StressPasses, Review!MeetsElite, m
<1> QED
  BY <1>3, <1>8 DEF Review!ClassifyCandidate, m

LEMMA ThirdApproved == Review!ClassifyCandidate(3) = "APPROVED_FOR_FUTURE_REVIEW"
BY ThirdStands DEF Review!ClassifyCandidate

LEMMA Efficiency ==
  ASSUME NEW m, NEW n \in 0..9, Figures(m, n)
  PROVE  Review!PfDdEfficiency(m) \in Int /\ Review!PfDdEfficiency(m) <= 12000
<1> DEFINE increase == Review!AtLeast(1, m.max_drawdown - 372)
           a == 2000 * (m.pf - 284) + increase
           d == 2 * increase
<1>1. m.pf \in Int /\ m.pf >= 284 /\ m.pf <= 296 /\ m.max_drawdown \in Int
  BY DEF Figures, Metrics
<1>2. increase \in Nat \ {0}
  BY <1>1 DEF Review!AtLeast
<1>3. Review!PfDdEfficiency(m) = a \div d
  BY DEF Review!PfDdEfficiency, Review!ELITE
<1> HIDE DEF increase
<1>4. a \in Nat /\ d \in Nat \ {0} /\ a < 12001 * d
  BY <1>1, <1>2
<1> HIDE DEF a, d
<1>5. a \div d \in Int /\ a \div d < 12001
  BY <1>4, DivBelow
<1> QED
  BY <1>3, <1>5

LEMMA OthersScore ==
  ASSUME Guarded, NEW i \in {1, 2, 4}
  PROVE  LET score == Review!RankScore(i, Review!CandidateMetrics(i))
         IN score \in Int /\ score <= 101480
<1> DEFINE m == Review!CandidateMetrics(i)
           efficiency == Review!PfDdEfficiency(m)
<1>1. PICK n \in 0..9 : Figures(m, n)
  BY OthersRejected
<1>2. ~Review!StressPasses(i) /\ Review!ClassifyCandidate(i) = "REJECTED"
  BY OthersRejected
<1> HIDE DEF m
<1>3. efficiency \in Int /\ efficiency <= 12000
  BY <1>1, Efficiency
<1> HIDE DEF efficiency
<1>4. /\ m.win_rate \in Int /\ m.win_rate >= 7260 /\ m.win_rate <= 7309
      /\ m.trades \in Int /\ m.trades >= 151 /\ m.trades <= 160
      /\ m.max_drawdown \in Int /\ m.max_drawdown >= 372
  BY <1>1 DEF Figures, Metrics
<1>5. Review!RankScore(i, m)
        = 8 * efficiency + 20 * Review!AtLeast(0, m.win_rate - 7260)
          + Review!AtMost(10000, 500 * Review!AtLeast(0, m.trades - 151))
          - 150 * Review!AtLeast(0, m.max_drawdown - 372)
  <2>1. Review!RankScore(i, m)
        = 0 + 0 + 8 * efficiency + 20 * Review!AtLeast(0, m.win_rate - 7260)
          + Review!AtMost(10000, 500 * Review!AtLeast(0, m.trades - 151))
          - 150 * Review!AtLeast(0, m.max_drawdown - 372)
    BY <1>2 DEF Review!RankScore, Review!ELITE, efficiency
  <2> QED
    BY <1>3, <2>1
<1>6. Review!RankScore(i, m) \in Int /\ Review!RankScore(i, m) <= 101480
  BY <1>3, <1>4, <1>5 DEF Review!AtLeast, Review!AtMost
<1> QED
  BY <1>6 DEF m

LEMMA ThirdScores == Review!RankScore(3, Review!CandidateMetrics(3)) = 134664
<1> DEFINE m == [pf |-> 294, win_rate |-> 7325, trades |-> 158, max_drawdown |-> 384]
<1>1. Review!CandidateMetrics(3) = m
  BY DEF Review!CandidateMetrics
<1>2. m.pf = 294 /\ m.win_rate = 7325 /\ m.trades = 158 /\ m.max_drawdown = 384
  OBVIOUS
<1> HIDE DEF m
<1>3. Review!PfDdEfficiency(m) = 833
  BY <1>2 DEF Review!PfDdEfficiency, Review!ELITE, Review!AtLeast
<1>4. /\ Review!AtLeast(0, m.win_rate - 7260) = 65
      /\ Review!AtMost(10000, 500 * Review!AtLeast(0, m.trades - 151)) = 3500
      /\ Review!AtLeast(0, m.max_drawdown - 372) = 12
  BY <1>2 DEF Review!AtLeast, Review!AtMost
<1>5. Review!RankScore(3, m) = 100000 + 25000 + 8 * 833 + 20 * 65 + 3500 - 150 * 12
  BY <1>3, <1>4, ThirdApproved, ThirdStands DEF Review!RankScore, Review!ELITE
<1> QED
  BY <1>1, <1>5

LEMMA ThirdIsBest ==
  ASSUME Guarded
  PROVE  Review!BestCandidate = 3
<1> DEFINE score == [i \in 1..4 |-> Review!RankScore(i, Review!CandidateMetrics(i))]
           First(i) == \A j \in 1..4 : score[i] > score[j] \/ (score[i] = score[j] /\ i <= j)
<1>1. 1..4 = {1, 2, 3, 4}
  OBVIOUS
<1>2. /\ score[1] \in Int /\ score[1] <= 101480 /\ score[2] \in Int /\ score[2] <= 101480
      /\ score[3] = 134664 /\ score[4] \in Int /\ score[4] <= 101480
  BY OthersScore, ThirdScores
<1>3. Review!BestCandidate = CHOOSE i \in 1..4 : First(i)
  BY DEF Review!BestCandidate, Review!FirstRanked
<1> HIDE DEF score
<1>4. First(3)
  BY <1>1, <1>2
<1>5. \A i \in 1..4 : First(i) => i = 3
  BY <1>1, <1>2
<1> HIDE DEF First
<1>6. 3 \in 1..4
  OBVIOUS
<1>7. (CHOOSE i \in 1..4 : First(i)) = 3
  BY <1>4, <1>5, <1>6
<1> QED
  BY <1>3, <1>7

\* The override's own figures: with seven winners there are no losers among its
\* seven, without them it has too few trades or too many losers.
LEMMA OverrideCounts ==
  ASSUME Guarded
  PROVE  Review!OverrideSuccess <=> Review!Number({s \in Review!Allowed : s.rr > 0}) >= Review!OVERRIDE_RECOVERY_LIMIT
<1> DEFINE T == Review!Allowed
           W == {s \in T : s.rr > 0}
           recovered == Review!RankedCandidates(T, 7)
           n == recovered.count
           w == Review!Number(W)
           winning == Review!RankedCandidates(W, 7).count
           mean == Review!Mean(recovered, 20)
<1>1. T \in SUBSET MCSetups /\ W \in SUBSET MCSetups /\ W \in SUBSET T /\ {s \in W : s.rr > 0} = W
  BY DEF Review!Allowed, Review!Present
<1>2. Review!OverrideSuccess <=>
        /\ Review!AtLeast(284, (291500 + Review!AtMost(mean, 3600)) \div 1000) >= 290
        /\ Review!AtLeast(7260, (72725 + 75 * n) \div 10) >= 7300
        /\ 151 + n >= 158
        /\ Review!AtMost(399, (3725 + 17 * n) \div 10) < 400
        /\ Review!Percent(n - winning, n) < 1000
  BY DEF Review!OverrideSuccess, Review!OVERRIDE_RECOVERY_LIMIT, Review!ELITE
<1> HIDE DEF T
<1>3. /\ w \in Nat /\ n \in Nat /\ n = Review!AtMost(Review!Number(T), 7) /\ n <= 7
      /\ w >= 7 => recovered.rr >= 0
  BY <1>1, Ranked
<1>4. w <= Review!Number(T) /\ Review!Number(T) \in Nat
  BY <1>1, NumbersOrdered
<1>5. winning = Review!AtMost(w, 7)
  BY <1>1, Ranked
<1>6. mean \in Int /\ (recovered.rr >= 0 => mean >= 0)
  BY <1>1, RankedPicked, Means
<1> HIDE DEF W, recovered, n, w, winning, mean
<1>7. CASE w >= 7
  <2>1. n = 7 /\ winning = 7 /\ mean >= 0
    BY <1>3, <1>4, <1>5, <1>6, <1>7 DEF Review!AtMost
  <2>2. Review!AtLeast(284, (291500 + Review!AtMost(mean, 3600)) \div 1000) >= 290
    BY <1>6, <2>1 DEF Review!AtLeast, Review!AtMost
  <2>3. /\ Review!AtLeast(7260, (72725 + 75 * n) \div 10) >= 7300 /\ 151 + n >= 158
        /\ Review!AtMost(399, (3725 + 17 * n) \div 10) < 400
    BY <2>1 DEF Review!AtLeast, Review!AtMost
  <2>4. Review!Percent(n - winning, n) < 1000
    BY <2>1 DEF Review!Percent
  <2> QED
    BY <1>2, <1>7, <2>2, <2>3, <2>4 DEF Review!OVERRIDE_RECOVERY_LIMIT, w, W, T
<1>8. CASE w < 7
  <2>1. ASSUME 151 + n >= 158, Review!Percent(n - winning, n) < 1000 PROVE FALSE
    <3>1. n = 7 /\ winning = w
      BY <1>3, <1>5, <1>8, <2>1 DEF Review!AtMost
    <3>2. Review!Percent(7 - w, 7) < 1000
      BY <2>1, <3>1
    <3>3. Review!Percent(7 - w, 7) = (20000 * (7 - w) + 7) \div 14
      BY DEF Review!Percent
    <3> QED
      BY <1>3, <1>8, <3>2, <3>3
  <2>2. ~Review!OverrideSuccess
    BY <1>2, <2>1
  <2> QED
    BY <1>3, <1>8, <2>2 DEF Review!OVERRIDE_RECOVERY_LIMIT, w, W, T
<1> QED
  BY <1>3, <1>7, <1>8

LEMMA DecidedBeforehand == Guarded => Review!CandidatesAreDecidedBeforehand
<1> SUFFICES ASSUME Guarded PROVE Review!CandidatesAreDecidedBeforehand
  OBVIOUS
<1>1. \A i \in {1, 2, 4} : Review!ClassifyCandidate(i) = "REJECTED"
  BY OthersRejected
<1> QED
  BY <1>1, ThirdApproved, ThirdIsBest, OverrideCounts DEF Review!CandidatesAreDecidedBeforehand

\* Sums of results, of losses prevented and of profits leaked.
EarnedOf(T) == [s \in T |-> blocked[s] * Review!SimulatedRr(s)]
PreventedOf(T) == [s \in T |-> blocked[s] * Review!Attribution(s).prevented]
LeakedOf(T) == [s \in T |-> blocked[s] * Review!Attribution(s).leaked]

LEMMA EarnedSum ==
  ASSUME NEW T
  PROVE  Review!Earned(T) = SumOf(EarnedOf(T), T)
<1> DEFINE Summing(g) == g = [s \in SUBSET T |-> IF s = {} THEN 0 ELSE blocked[Some(s)] * Review!SimulatedRr(Some(s)) + g[s \ {Some(s)}]]
<1>1. ASSUME NEW g PROVE IsSum(g, EarnedOf(T), T) <=> Summing(g)
  <2>1. \A s \in SUBSET T : s # {} => EarnedOf(T)[Some(s)] = blocked[Some(s)] * Review!SimulatedRr(Some(s))
    <3> TAKE s \in SUBSET T
    <3> HAVE s # {}
    <3>1. Some(s) \in T
      BY DEF Some
    <3> QED
      BY <3>1 DEF EarnedOf
  <2>2. [s \in SUBSET T |-> IF s = {} THEN 0 ELSE EarnedOf(T)[Some(s)] + g[s \ {Some(s)}]]
        = [s \in SUBSET T |-> IF s = {} THEN 0 ELSE blocked[Some(s)] * Review!SimulatedRr(Some(s)) + g[s \ {Some(s)}]]
    BY <2>1
  <2> QED
    BY <2>2 DEF IsSum
<1>2. Review!Earned(T) = (CHOOSE g : Summing(g))[T]
  BY DEF Review!Earned, Review!MapThenSumSet, Review!MapThenFoldSet, Some
<1> HIDE DEF Summing
<1>3. (CHOOSE g : Summing(g)) = (CHOOSE g : IsSum(g, EarnedOf(T), T))
  BY <1>1
<1> QED
  BY <1>2, <1>3 DEF SumOf

LEMMA PreventedSum ==
  ASSUME NEW T
  PROVE  Review!MapThenSumSet(LAMBDA s : blocked[s] * Review!Attribution(s).prevented, T) = SumOf(PreventedOf(T), T)
<1> DEFINE Summing(g) == g = [s \in SUBSET T |-> IF s = {} THEN 0 ELSE blocked[Some(s)] * Review!Attribution(Some(s)).prevented + g[s \ {Some(s)}]]
<1>1. ASSUME NEW g PROVE IsSum(g, PreventedOf(T), T) <=> Summing(g)
  <2>1. \A s \in SUBSET T : s # {} => PreventedOf(T)[Some(s)] = blocked[Some(s)] * Review!Attribution(Some(s)).prevented
    <3> TAKE s \in SUBSET T
    <3> HAVE s # {}
    <3>1. Some(s) \in T
      BY DEF Some
    <3> QED
      BY <3>1 DEF PreventedOf
  <2>2. [s \in SUBSET T |-> IF s = {} THEN 0 ELSE PreventedOf(T)[Some(s)] + g[s \ {Some(s)}]]
        = [s \in SUBSET T |-> IF s = {} THEN 0 ELSE blocked[Some(s)] * Review!Attribution(Some(s)).prevented + g[s \ {Some(s)}]]
    BY <2>1
  <2> QED
    BY <2>2 DEF IsSum
<1>2. Review!MapThenSumSet(LAMBDA s : blocked[s] * Review!Attribution(s).prevented, T) = (CHOOSE g : Summing(g))[T]
  BY DEF Review!MapThenSumSet, Review!MapThenFoldSet, Some
<1> HIDE DEF Summing
<1>3. (CHOOSE g : Summing(g)) = (CHOOSE g : IsSum(g, PreventedOf(T), T))
  BY <1>1
<1> QED
  BY <1>2, <1>3 DEF SumOf

LEMMA LeakedSum ==
  ASSUME NEW T
  PROVE  Review!MapThenSumSet(LAMBDA s : blocked[s] * Review!Attribution(s).leaked, T) = SumOf(LeakedOf(T), T)
<1> DEFINE Summing(g) == g = [s \in SUBSET T |-> IF s = {} THEN 0 ELSE blocked[Some(s)] * Review!Attribution(Some(s)).leaked + g[s \ {Some(s)}]]
<1>1. ASSUME NEW g PROVE IsSum(g, LeakedOf(T), T) <=> Summing(g)
  <2>1. \A s \in SUBSET T : s # {} => LeakedOf(T)[Some(s)] = blocked[Some(s)] * Review!Attribution(Some(s)).leaked
    <3> TAKE s \in SUBSET T
    <3> HAVE s # {}
    <3>1. Some(s) \in T
      BY DEF Some
    <3> QED
      BY <3>1 DEF LeakedOf
  <2>2. [s \in SUBSET T |-> IF s = {} THEN 0 ELSE LeakedOf(T)[Some(s)] + g[s \ {Some(s)}]]
        = [s \in SUBSET T |-> IF s = {} THEN 0 ELSE blocked[Some(s)] * Review!Attribution(Some(s)).leaked + g[s \ {Some(s)}]]
    BY <2>1
  <2> QED
    BY <2>2 DEF IsSum
<1>2. Review!MapThenSumSet(LAMBDA s : blocked[s] * Review!Attribution(s).leaked, T) = (CHOOSE g : Summing(g))[T]
  BY DEF Review!MapThenSumSet, Review!MapThenFoldSet, Some
<1> HIDE DEF Summing
<1>3. (CHOOSE g : Summing(g)) = (CHOOSE g : IsSum(g, LeakedOf(T), T))
  BY <1>1
<1> QED
  BY <1>2, <1>3 DEF SumOf

LEMMA PresentFacts ==
  ASSUME Guarded
  PROVE  /\ Review!Present \in SUBSET MCSetups /\ IsFiniteSet(Review!Present)
         /\ \A s \in Review!Present : blocked[s] \in Nat \ {0} /\ Review!SimulatedRr(s) \in Int
<1>1. Review!Present \in SUBSET MCSetups
  BY DEF Review!Present
<1>2. \A s \in Review!Present : blocked[s] \in Nat \ {0}
  BY <1>1, ReviewAssumption DEF Review!Present, Guarded
<1>3. \A s \in Review!Present : Review!SimulatedRr(s) \in Int
  BY <1>1, NineSetups DEF Review!SimulatedRr
<1> QED
  BY <1>1, <1>2, <1>3, SetupsFinite, FS_Subset

\* A set and a part of it: the rest is the difference.
LEMMA PartsNumbered ==
  ASSUME Guarded, NEW A \in SUBSET MCSetups, NEW B \in SUBSET A
  PROVE  Review!Number(A) = Review!Number(B) + Review!Number(A \ B)
<1>1. B \in SUBSET MCSetups /\ A \ B \in SUBSET MCSetups
  OBVIOUS
<1>2. \A k \in 1..9 : /\ Held(A, k) \in Nat /\ Held(B, k) \in Nat /\ Held(A \ B, k) \in Nat
  BY <1>1, NumberHeld
<1>3. \A k \in 1..9 : Held(A, k) = Held(B, k) + Held(A \ B, k)
  <2> TAKE k \in 1..9
  <2>1. Held(A, k) \in Nat /\ Held(B, k) \in Nat /\ Held(A \ B, k) \in Nat
    BY <1>2
  <2> QED
    BY <2>1 DEF Held
<1>4. /\ Review!Number(A) =
           Held(A, 1) + Held(A, 2) + Held(A, 3) + Held(A, 4) + Held(A, 5)
           + Held(A, 6) + Held(A, 7) + Held(A, 8) + Held(A, 9)
      /\ Review!Number(B) =
           Held(B, 1) + Held(B, 2) + Held(B, 3) + Held(B, 4) + Held(B, 5)
           + Held(B, 6) + Held(B, 7) + Held(B, 8) + Held(B, 9)
      /\ Review!Number(A \ B) =
           Held(A \ B, 1) + Held(A \ B, 2) + Held(A \ B, 3) + Held(A \ B, 4) + Held(A \ B, 5)
           + Held(A \ B, 6) + Held(A \ B, 7) + Held(A \ B, 8) + Held(A \ B, 9)
  BY <1>1, NumberHeld
<1> QED
  BY <1>2, <1>3, <1>4

LEMMA NothingCounted ==
  ASSUME Guarded, NEW T \in SUBSET Review!Present
  PROVE  /\ Review!Number(T) \in Nat
         /\ Review!Number(T) = 0 <=> T = {}
<1>1. T \in SUBSET MCSetups /\ IsFiniteSet(T) /\ \A s \in T : blocked[s] \in Nat \ {0}
  BY PresentFacts, FS_Subset
<1>2. Review!Number(T) \in Nat
  BY <1>1, NumbersOrdered
<1>3. CASE T = {}
  <2>1. SumOf(blocked, T) = 0
    BY <1>1, <1>3, SumOfNothing
  <2> QED
    BY <1>3, <2>1, NumberedSum
<1>4. CASE T # {}
  <2>1. PICK s \in T : TRUE
    BY <1>4
  <2>2. \A x \in T : blocked[x] \in Nat
    BY <1>1
  <2>3. blocked[s] <= SumOf(blocked, T)
    BY <1>1, <2>1, <2>2, PartOfSum
  <2> QED
    BY <1>1, <1>2, <1>4, <2>1, <2>3, NumberedSum
<1> QED
  BY <1>2, <1>3, <1>4

\* Both reports of one guardrail, from the same rows.
LEMMA SameRows ==
  ASSUME NEW g
  PROVE  /\ {s \in Review!Present : Review!Attribution(s).guardrail = g} = Review!Of(g)
         /\ \A quality : {s \in Review!Of(g) : Review!Attribution(s).quality = quality}
                          = Review!OfQuality(Review!Of(g), quality)
<1>1. \A s : /\ Review!Attribution(s).guardrail = Review!GuardrailForBlock(s.reason)
             /\ Review!Attribution(s).quality = Review!BlockQuality(s)
  BY DEF Review!Attribution
<1> QED
  BY <1>1 DEF Review!Of, Review!OfQuality

LEMMA PreventedAgrees ==
  ASSUME Guarded, NEW rows \in SUBSET Review!Present
  PROVE  -Review!Earned(Review!OfQuality(rows, "GOOD_BLOCK")) = SumOf(PreventedOf(rows), rows)
<1> DEFINE good == Review!OfQuality(rows, "GOOD_BLOCK")
           lost == [s \in rows |-> IF s \in good THEN EarnedOf(good)[s] ELSE 0]
           none == [s \in rows |-> 0]
<1>1. good \in SUBSET rows /\ \A s \in rows : s \in good <=> Review!BlockQuality(s) = "GOOD_BLOCK"
  BY DEF Review!OfQuality
<1>2. IsFiniteSet(rows) /\ \A s \in rows : blocked[s] \in Nat /\ Review!SimulatedRr(s) \in Int
  BY PresentFacts, FS_Subset
<1> HIDE DEF good
<1>3. \A s \in rows :
        /\ s \in good => EarnedOf(good)[s] \in Int /\ PreventedOf(rows)[s] = -EarnedOf(good)[s]
        /\ s \notin good => PreventedOf(rows)[s] = 0
  <2> TAKE s \in rows
  <2>1. Review!Attribution(s).prevented = IF s \in good THEN -Review!SimulatedRr(s) ELSE 0
    BY <1>1 DEF Review!Attribution
  <2>2. PreventedOf(rows)[s] = blocked[s] * Review!Attribution(s).prevented
    BY DEF PreventedOf
  <2>3. /\ blocked[s] * Review!SimulatedRr(s) \in Int /\ blocked[s] * 0 = 0
        /\ blocked[s] * (-Review!SimulatedRr(s)) = -(blocked[s] * Review!SimulatedRr(s))
    BY <1>2, Multiples
  <2>4. s \in good => EarnedOf(good)[s] = blocked[s] * Review!SimulatedRr(s)
    BY DEF EarnedOf
  <2> QED
    BY <2>1, <2>2, <2>3, <2>4
<1>4. \A s \in rows : lost[s] \in Int /\ lost[s] = IF s \in good THEN EarnedOf(good)[s] ELSE 0
  BY <1>3
<1>5. \A s \in rows : none[s] \in Int /\ none[s] = 0
  OBVIOUS
<1> HIDE DEF lost, none
<1>6. \A s \in good : EarnedOf(good)[s] \in Int
  BY <1>1, <1>3
<1>7. SumOf(EarnedOf(good), good) = SumOf(lost, rows)
  BY <1>1, <1>2, <1>4, <1>6, SumWithin
<1>8. \A s \in rows : PreventedOf(rows)[s] \in Int /\ lost[s] + PreventedOf(rows)[s] + none[s] = none[s] + none[s]
  BY <1>3, <1>4, <1>5
<1>9. SumOf(lost, rows) + SumOf(PreventedOf(rows), rows) + SumOf(none, rows) = SumOf(none, rows) + SumOf(none, rows)
  BY <1>2, <1>4, <1>5, <1>8, SumsBalance
<1>10. SumOf(none, rows) = 0 /\ SumOf(lost, rows) \in Int /\ SumOf(PreventedOf(rows), rows) \in Int
  BY <1>2, <1>4, <1>5, <1>8, SumOfNothing, SumOfType
<1>11. Review!Earned(good) = SumOf(EarnedOf(good), good)
  BY EarnedSum
<1>12. -Review!Earned(good) = SumOf(PreventedOf(rows), rows)
  <2> DEFINE a == SumOf(lost, rows)
             b == SumOf(PreventedOf(rows), rows)
             c == SumOf(none, rows)
  <2>1. a \in Int /\ b \in Int /\ c = 0 /\ a + b + c = c + c
    BY <1>9, <1>10
  <2>2. Review!Earned(good) = a
    BY <1>7, <1>11
  <2> HIDE DEF a, b, c
  <2>3. -a = b
    BY <2>1
  <2>4. -Review!Earned(good) = b
    BY <2>2, <2>3
  <2> QED
    BY <2>4 DEF b
<1> QED
  BY <1>12 DEF good

LEMMA LeakedAgrees ==
  ASSUME Guarded, NEW rows \in SUBSET Review!Present
  PROVE  LET bad == Review!OfQuality(rows, "BAD_BLOCK")
         IN /\ Review!Earned(bad) = SumOf(LeakedOf(rows), rows)
            /\ Review!Earned(bad) >= 100 * Review!Number(bad)
<1> DEFINE bad == Review!OfQuality(rows, "BAD_BLOCK")
<1>1. bad \in SUBSET rows /\ \A s \in rows : s \in bad <=> Review!BlockQuality(s) = "BAD_BLOCK"
  BY DEF Review!OfQuality
<1>2. /\ IsFiniteSet(rows) /\ rows \in SUBSET MCSetups
      /\ \A s \in rows : blocked[s] \in Nat /\ Review!SimulatedRr(s) \in Int
  BY PresentFacts, FS_Subset
<1>3. \A s \in bad : Review!SimulatedRr(s) >= 100
  <2> TAKE s \in bad
  <2>1. s \in MCSetups /\ Review!BlockQuality(s) = "BAD_BLOCK"
    BY <1>1, <1>2
  <2>2. s.bars \in Int /\ s.rr \in Int
    BY <2>1, NineSetups
  <2> QED
    BY <2>1, <2>2 DEF Review!BlockQuality, Review!SimulatedRr
<1> HIDE DEF bad
<1>4. \A s \in rows :
        /\ s \in bad => EarnedOf(bad)[s] \in Int /\ LeakedOf(rows)[s] = EarnedOf(bad)[s]
        /\ s \notin bad => LeakedOf(rows)[s] = 0
  <2> TAKE s \in rows
  <2>1. Review!Attribution(s).leaked = IF s \in bad THEN Review!SimulatedRr(s) ELSE 0
    BY <1>1 DEF Review!Attribution
  <2>2. LeakedOf(rows)[s] = blocked[s] * Review!Attribution(s).leaked
    BY DEF LeakedOf
  <2>3. blocked[s] * Review!SimulatedRr(s) \in Int /\ blocked[s] * 0 = 0
    BY <1>2, Multiples
  <2>4. s \in bad => EarnedOf(bad)[s] = blocked[s] * Review!SimulatedRr(s)
    BY DEF EarnedOf
  <2> QED
    BY <2>1, <2>2, <2>3, <2>4
<1>5. \A s \in rows : LeakedOf(rows)[s] = IF s \in bad THEN EarnedOf(bad)[s] ELSE 0
  BY <1>4
<1>6. \A s \in bad : EarnedOf(bad)[s] \in Int
  BY <1>1, <1>4
<1>7. SumOf(EarnedOf(bad), bad) = SumOf(LeakedOf(rows), rows)
  BY <1>1, <1>2, <1>5, <1>6, SumWithin
<1>8. Review!Earned(bad) = SumOf(EarnedOf(bad), bad)
  BY EarnedSum
<1>9. \A s \in bad : EarnedOf(bad)[s] >= 100 * blocked[s]
  <2> TAKE s \in bad
  <2>1. blocked[s] \in Nat /\ Review!SimulatedRr(s) \in Int /\ Review!SimulatedRr(s) >= 100
    BY <1>1, <1>2, <1>3
  <2>2. EarnedOf(bad)[s] = blocked[s] * Review!SimulatedRr(s)
    BY DEF EarnedOf
  <2>3. \A a \in Nat, b \in Int : b >= 100 => a * b >= 100 * a
    <3> TAKE a \in Nat, b \in Int
    <3> HAVE b >= 100
    <3>1. b = (b - 100) + 100 /\ b - 100 \in Nat
      OBVIOUS
    <3>2. a * ((b - 100) + 100) = a * (b - 100) + 100 * a /\ a * (b - 100) \in Nat
      BY <3>1
    <3> QED
      BY <3>1, <3>2
  <2> QED
    BY <2>1, <2>2, <2>3
<1>10. bad \in SUBSET MCSetups
  BY <1>1, <1>2
<1>11. \A k \in 1..9 : Within(EarnedOf(bad), bad, k) >= 100 * Held(bad, k) /\ Within(EarnedOf(bad), bad, k) \in Int
  BY <1>6, <1>9 DEF Within, Held
<1>12. \A k \in 1..9 : Held(bad, k) \in Nat
  BY <1>10, NumberHeld
<1>13. Review!Earned(bad) >= 100 * Review!Number(bad)
  <2> DEFINE w(k) == Within(EarnedOf(bad), bad, k)
             h(k) == Held(bad, k)
  <2>1. SumOf(EarnedOf(bad), bad) = w(1) + w(2) + w(3) + w(4) + w(5) + w(6) + w(7) + w(8) + w(9)
    BY <1>6, <1>10, SumOfParts
  <2>2. Review!Number(bad) = h(1) + h(2) + h(3) + h(4) + h(5) + h(6) + h(7) + h(8) + h(9)
    BY <1>10, NumberHeld
  <2>3. \A k \in 1..9 : w(k) >= 100 * h(k) /\ w(k) \in Int /\ h(k) \in Nat
    BY <1>11, <1>12
  <2> HIDE DEF w, h
  <2> QED
    BY <1>8, <2>1, <2>2, <2>3
<1> QED
  BY <1>7, <1>8, <1>13 DEF bad

\* What is reported of one guardrail, twice.
LEMMA GuardrailsAgree ==
  ASSUME Guarded, NEW g
  PROVE  LET iq == Review!GuardrailIqRow(g)
             leak == Review!LeakRow(g)
         IN /\ <<iq.total, iq.bad, iq.prevented, iq.leaked, iq.leak_rate, iq.iq>>
                 = <<leak.total, leak.bad, leak.prevented, leak.leaked, leak.leak_ratio, leak.efficiency>>
            /\ iq.leaked >= 100 * iq.bad
            /\ iq.bad = 0 /\ iq.insufficient = iq.total => iq.iq = 0
<1> DEFINE rows == Review!Of(g)
           Judged(quality) == Review!Number(Review!OfQuality(rows, quality))
           iq == Review!GuardrailIqRow(g)
           leak == Review!LeakRow(g)
<1>1. /\ iq.total = Review!Number(rows) /\ iq.bad = Judged("BAD_BLOCK")
      /\ iq.insufficient = Judged("INSUFFICIENT_DATA")
      /\ iq.prevented = -Review!Earned(Review!OfQuality(rows, "GOOD_BLOCK"))
      /\ iq.leaked = Review!Earned(Review!OfQuality(rows, "BAD_BLOCK"))
      /\ iq.leak_rate = Review!Percent(Judged("BAD_BLOCK"), Review!Number(rows))
      /\ iq.iq = Review!Percent(2 * Judged("GOOD_BLOCK") + Judged("NEUTRAL_BLOCK"), 2 * Review!Number(rows))
  BY DEF Review!GuardrailIqRow
<1>2. /\ leak.total = Review!Number(rows) /\ leak.bad = Judged("BAD_BLOCK")
      /\ leak.prevented = Review!MapThenSumSet(LAMBDA s : blocked[s] * Review!Attribution(s).prevented, rows)
      /\ leak.leaked = Review!MapThenSumSet(LAMBDA s : blocked[s] * Review!Attribution(s).leaked, rows)
      /\ leak.leak_ratio = Review!Percent(Judged("BAD_BLOCK"), Review!Number(rows))
      /\ leak.efficiency = Review!Percent(2 * Judged("GOOD_BLOCK") + Judged("NEUTRAL_BLOCK"), 2 * Review!Number(rows))
  BY SameRows DEF Review!LeakRow
<1>3. rows \in SUBSET Review!Present
  BY DEF Review!Of
<1> HIDE DEF iq, leak, rows
<1>4. iq.prevented = leak.prevented
  <2>1. -Review!Earned(Review!OfQuality(rows, "GOOD_BLOCK")) = SumOf(PreventedOf(rows), rows)
    BY <1>3, PreventedAgrees
  <2> QED
    BY <1>1, <1>2, <2>1, PreventedSum
<1>5. iq.leaked = leak.leaked /\ iq.leaked >= 100 * iq.bad
  <2>1. /\ Review!Earned(Review!OfQuality(rows, "BAD_BLOCK")) = SumOf(LeakedOf(rows), rows)
        /\ Review!Earned(Review!OfQuality(rows, "BAD_BLOCK")) >= 100 * Judged("BAD_BLOCK")
    BY <1>3, LeakedAgrees
  <2> QED
    BY <1>1, <1>2, <2>1, LeakedSum
<1>6. iq.leak_rate = leak.leak_ratio /\ iq.iq = leak.efficiency /\ iq.total = leak.total /\ iq.bad = leak.bad
  BY <1>1, <1>2
<1>7. ASSUME iq.insufficient = iq.total PROVE iq.iq = 0
  <2> DEFINE unknown == Review!OfQuality(rows, "INSUFFICIENT_DATA")
             good == Review!OfQuality(rows, "GOOD_BLOCK")
             neutral == Review!OfQuality(rows, "NEUTRAL_BLOCK")
             rest == rows \ unknown
  <2>1. /\ unknown \in SUBSET rows /\ good \in SUBSET rest /\ neutral \in SUBSET rest /\ rest \in SUBSET MCSetups
        /\ rows \in SUBSET MCSetups
    BY <1>3 DEF Review!OfQuality, Review!Present
  <2>2. Judged("INSUFFICIENT_DATA") = Review!Number(rows)
    BY <1>1, <1>7
  <2> HIDE DEF good, neutral, unknown
  <2>3. Review!Number(rows) = Review!Number(unknown) + Review!Number(rest)
    BY <2>1, PartsNumbered
  <2>4. /\ Review!Number(good) \in Nat /\ Review!Number(neutral) \in Nat /\ Review!Number(rest) \in Nat
        /\ Review!Number(good) <= Review!Number(rest) /\ Review!Number(neutral) <= Review!Number(rest)
        /\ Review!Number(unknown) \in Nat /\ Review!Number(rows) \in Nat
    BY <2>1, NumbersOrdered
  <2>5. Review!Number(good) = 0 /\ Review!Number(neutral) = 0
    BY <2>2, <2>3, <2>4 DEF unknown
  <2>6. iq.iq = Review!Percent(2 * Review!Number(good) + Review!Number(neutral), 2 * Review!Number(rows))
    BY <1>1 DEF good, neutral
  <2>7. \A b \in Nat : Review!Percent(2 * 0 + 0, 2 * b) = 0
    BY DEF Review!Percent
  <2> QED
    BY <2>4, <2>5, <2>6, <2>7
<1> QED
  BY <1>4, <1>5, <1>6, <1>7 DEF iq, leak

\* The shadow book is validated by its count of leaks.
LEMMA ValidatedByCount ==
  ASSUME Guarded, Review!Number(MCSetups) <= MAX_BLOCKED
  PROVE  Review!ShadowValidated <=> Review!Number(Review!EnhancementCandidates) >= 9
<1> DEFINE T == Review!EnhancementCandidates
           best == Review!RankedCandidates(T, MAX_BLOCKED)
           n == best.count
           mean == Review!Mean(best, 10)
           missed == Review!AtMost(mean, 2000)
           pf == (288500 + missed) \div 1000
<1>1. T \in SUBSET MCSetups /\ MAX_BLOCKED \in Nat
  BY ReviewAssumption DEF Review!EnhancementCandidates, Review!OfQuality, Review!Present
<1>2. Review!ShadowValidated <=>
        /\ Review!AtLeast(284, pf) >= 280
        /\ Review!AtLeast(7260, 7210 + 6 * Review!AtMost(n, 12)) >= 7200
        /\ Review!AtMost(395, 372 + n) < 400
        /\ 151 + n >= 160
  BY DEF Review!ShadowValidated, Review!ELITE
<1> HIDE DEF T
<1>3. n \in Nat /\ n = Review!AtMost(Review!Number(T), MAX_BLOCKED)
  BY <1>1, Ranked
<1>4. Review!Number(T) \in Nat /\ Review!Number(T) <= MAX_BLOCKED
  BY <1>1, NumbersOrdered
<1>5. n = Review!Number(T)
  BY <1>1, <1>3, <1>4 DEF Review!AtMost
<1>6. mean \in Int
  BY <1>1, RankedPicked, Means
<1> HIDE DEF n, mean
<1>7. missed \in Int
  BY <1>6 DEF Review!AtMost
<1> HIDE DEF missed
<1>8. pf \in Int
  BY <1>7
<1> HIDE DEF pf
<1>9. /\ Review!AtLeast(284, pf) >= 280 /\ Review!AtMost(395, 372 + n) < 400
      /\ Review!AtLeast(7260, 7210 + 6 * Review!AtMost(n, 12)) >= 7200
  BY <1>3, <1>8 DEF Review!AtLeast, Review!AtMost
<1> QED
  BY <1>2, <1>3, <1>5, <1>9 DEF T

\* The two leak rates are one, and what it rounds away.
LEMMA LeakRates ==
  ASSUME Guarded
  PROVE  /\ Review!LeakAnalysis.leak_rate = Review!OpportunityLeakRate
         /\ Review!OpportunityLeakRate = 0
              <=> Review!Leaks = {} \/ 20000 * Review!LeakAnalysis.bad_blocks < Review!LeakAnalysis.total
<1> DEFINE present == Review!Present
           unknown == Review!OfQuality(present, "INSUFFICIENT_DATA")
           eligible == present \ unknown
           bad == Review!OfQuality(present, "BAD_BLOCK")
           a == Review!Number(bad)
           b == Review!Number(eligible)
<1>1. Review!OfQuality(eligible, "BAD_BLOCK") = bad
  BY DEF Review!OfQuality
<1>2. /\ present \in SUBSET MCSetups /\ unknown \in SUBSET present /\ bad \in SUBSET present
      /\ bad \in SUBSET eligible /\ eligible \in SUBSET MCSetups
  BY PresentFacts DEF Review!OfQuality
<1>3. Review!OpportunityLeakRate = Review!Percent(a, b)
  BY <1>1 DEF Review!OpportunityLeakRate
<1>4. /\ Review!LeakAnalysis.bad_blocks = a
      /\ Review!LeakAnalysis.total = Review!Number(present) - Review!Number(unknown)
      /\ Review!LeakAnalysis.leak_rate
           = Review!Percent(a, Review!Number(present) - Review!Number(unknown))
  BY DEF Review!LeakAnalysis
<1>5. Review!Leaks = bad
  BY DEF Review!Leaks
<1> HIDE DEF unknown, bad
<1>6. Review!Number(present) = Review!Number(unknown) + b
  BY <1>2, PartsNumbered
<1>7. /\ a \in Nat /\ b \in Nat /\ a <= b
      /\ Review!Number(unknown) \in Nat /\ Review!Number(present) \in Nat
  BY <1>2, NumbersOrdered
<1>8. a = 0 <=> bad = {}
  BY <1>2, NothingCounted
<1>9. Review!LeakAnalysis.total = b
  BY <1>4, <1>6, <1>7
<1>10. Review!LeakAnalysis.leak_rate = Review!Percent(a, b)
  BY <1>4, <1>6, <1>7
<1> HIDE DEF a, b
<1>11. Review!Percent(a, b) = 0 <=> a = 0 \/ 20000 * a < b
  <2>1. CASE b = 0
    BY <1>7, <2>1 DEF Review!Percent
  <2>2. CASE b # 0
    <3> DEFINE x == 20000 * a + b
               d == 2 * b
    <3>1. x \in Nat /\ d \in Nat \ {0}
      BY <1>7, <2>2
    <3>2. Review!Percent(a, b) = x \div d
      BY <2>2 DEF Review!Percent
    <3>3. (x < 1 * d) <=> 20000 * a < b
      BY <1>7
    <3>4. a = 0 => 20000 * a < b
      BY <1>7, <2>2
    <3> HIDE DEF x, d
    <3>5. (x \div d < 1) <=> (x < 1 * d)
      BY <3>1, DivBelow
    <3>6. x \div d \in Nat
      BY <3>1, DivBetween
    <3> QED
      BY <3>2, <3>3, <3>4, <3>5, <3>6
  <2> QED
    BY <2>1, <2>2
<1> QED
  BY <1>3, <1>4, <1>5, <1>8, <1>9, <1>10, <1>11

\* Of what leaked at a guardrail.
LEMMA LeakRowCounts ==
  ASSUME NEW g
  PROVE  Review!LeakRow(g).bad = Review!Number(Review!OfQuality(Review!Of(g), "BAD_BLOCK"))
BY SameRows DEF Review!LeakRow

LEMMA UnderReview ==
  ASSUME Guarded, NEW s \in Review!Present, Review!ShadowMemory(s.reason, s.session) = "REVIEW_POLICY"
  PROVE  Review!LeakRow(Review!GuardrailForBlock(s.reason)).bad >= 2
<1> DEFINE rows == {t \in Review!Present : t.reason = s.reason /\ t.session = s.session}
           wrong == Review!OfQuality(rows, "BAD_BLOCK")
           g == Review!GuardrailForBlock(s.reason)
           bad == Review!OfQuality(Review!Of(g), "BAD_BLOCK")
<1>1. Review!Number(wrong) >= 2
  BY DEF Review!ShadowMemory
<1>2. wrong \in SUBSET bad /\ bad \in SUBSET Review!Present
  <2>1. \A t \in rows : t \in Review!Of(g)
    BY DEF Review!Of
  <2> QED
    BY <2>1 DEF Review!OfQuality, Review!Of
<1>3. bad \in SUBSET MCSetups
  BY <1>2, PresentFacts
<1> HIDE DEF wrong
<1>4. /\ Review!Number(wrong) \in Nat /\ Review!Number(bad) \in Nat
      /\ Review!Number(wrong) <= Review!Number(bad)
  BY <1>2, <1>3, NumbersOrdered
<1>5. Review!LeakRow(g).bad = Review!Number(bad)
  BY LeakRowCounts
<1> QED
  BY <1>1, <1>4, <1>5

LEMMA UnlockedOnALeak ==
  ASSUME Guarded, "symbol_lock" \in Review!SafeRelaxations
  PROVE  Review!LeakRow("symbol_lock").bad > 0
<1> DEFINE bad == Review!OfQuality(Review!Of("symbol_lock"), "BAD_BLOCK")
<1>1. PICK symbol \in Review!OBSERVERS : Review!UnlockCandidate(symbol)
  BY DEF Review!SafeRelaxations
<1>2. Review!OfQuality(Review!Locked(symbol), "BAD_BLOCK") # {}
  BY <1>1 DEF Review!UnlockCandidate
<1>3. bad # {} /\ bad \in SUBSET Review!Present
  BY <1>2 DEF Review!OfQuality, Review!Locked, Review!Of
<1> HIDE DEF bad
<1>4. Review!Number(bad) \in Nat /\ Review!Number(bad) # 0
  BY <1>3, NothingCounted
<1>5. Review!LeakRow("symbol_lock").bad = Review!Number(bad)
  BY LeakRowCounts DEF bad
<1> QED
  BY <1>4, <1>5

\* The review of the blocked setups, whatever and however much was blocked.
LEMMA ReviewedInHindsight ==
  ASSUME Guarded, Review!Number(MCSetups) <= MAX_BLOCKED
  PROVE  Review!BlockReviewIsHindsight
<1>1. Review!OptimizationPasses(Review!APlusOverrideSimulation) /\ "a_plus" \in Review!SafeRelaxations
  BY Relaxed DEF Review!SafeRelaxations
<1>2. \A s \in Review!Present :
        Review!ShadowMemory(s.reason, s.session) = "REVIEW_POLICY"
          => Review!LeakRow(Review!GuardrailForBlock(s.reason)).bad >= 2
  BY UnderReview
<1>3. "symbol_lock" \in Review!SafeRelaxations => Review!LeakRow("symbol_lock").bad > 0
  BY UnlockedOnALeak
<1>4. \A i \in 1..4 : Review!OptimizationPasses(Review!ConditionalRelaxation(i))
  BY Relaxed
<1>5. Review!ShadowValidated <=> Review!Number(Review!EnhancementCandidates) >= 9
  BY ValidatedByCount
<1>6. \A g \in Review!Guardrails :
        LET iq == Review!GuardrailIqRow(g)
            leak == Review!LeakRow(g)
        IN /\ <<iq.total, iq.bad, iq.prevented, iq.leaked, iq.leak_rate, iq.iq>>
                = <<leak.total, leak.bad, leak.prevented, leak.leaked, leak.leak_ratio, leak.efficiency>>
           /\ iq.leaked >= 100 * iq.bad
           /\ iq.bad = 0 /\ iq.insufficient = iq.total => iq.iq = 0
  BY GuardrailsAgree
<1> QED
  BY <1>1, <1>2, <1>3, <1>4, <1>5, <1>6, LeakRates DEF Review!BlockReviewIsHindsight

\* The review holds no more blocked setups than its bound.
Limited == Review!Number(MCSetups) <= MAX_BLOCKED

\* One more shape of them: the total grows by as many.
LEMMA OneShapeMore ==
  ASSUME Guarded, NEW s \in MCSetups, blocked[s] = 0, NEW n \in Nat,
         blocked' = [blocked EXCEPT ![s] = n]
  PROVE  Review!Number(MCSetups)' = Review!Number(MCSetups) + n
<1> DEFINE f == blocked'
<1>1. \A t \in MCSetups : blocked[t] \in Nat
  BY ReviewAssumption DEF Guarded
<1>2. \A t \in MCSetups : f[t] = (IF t = s THEN n ELSE blocked[t]) /\ f[t] \in Int
  BY <1>1 DEF Guarded
<1>3. Review!Number(MCSetups)' = SumOf(f, MCSetups)
  BY DEF Review!Number, Review!MapThenSumSet, Review!MapThenFoldSet, SumOf, IsSum, Some
<1> HIDE DEF f
<1>4. SumOf(f, MCSetups) =
        f[Nth(1)] + f[Nth(2)] + f[Nth(3)] + f[Nth(4)] + f[Nth(5)] + f[Nth(6)] + f[Nth(7)] + f[Nth(8)] + f[Nth(9)]
  BY <1>2, SumOfNine
<1>5. Review!Number(MCSetups) =
        blocked[Nth(1)] + blocked[Nth(2)] + blocked[Nth(3)] + blocked[Nth(4)] + blocked[Nth(5)]
        + blocked[Nth(6)] + blocked[Nth(7)] + blocked[Nth(8)] + blocked[Nth(9)]
  BY <1>1, SumOfNine, NumberedSum
<1>6. s \in {Nth(1), Nth(2), Nth(3), Nth(4), Nth(5), Nth(6), Nth(7), Nth(8), Nth(9)}
  BY NineSetups
<1>7. \A j, k \in 1..9 : Nth(j) = Nth(k) => j = k
  <2> SUFFICES ASSUME NEW j \in 1..9, NEW k \in 1..9, Nth(j) = Nth(k) PROVE j = k
    OBVIOUS
  <2>1. /\ Review!Ahead(Nth(j), Nth(k)) <=> j < k
        /\ Review!Ahead(Nth(k), Nth(j)) <=> k < j
    BY InOrder
  <2> QED
    BY <2>1
<1>8. \A j \in 1..9 : Nth(j) \in MCSetups
  BY InOrder
<1>9. \A k \in 1..9 : f[Nth(k)] \in Nat /\ blocked[Nth(k)] \in Nat
  BY <1>1, <1>2, <1>8
<1>10. PICK k \in 1..9 : s = Nth(k)
  BY <1>6
<1>11. \A j \in 1..9 : f[Nth(j)] = IF j = k THEN n ELSE blocked[Nth(j)]
  BY <1>2, <1>7, <1>8, <1>10
<1>12. blocked[Nth(k)] = 0
  BY <1>10
<1> DEFINE x(j) == f[Nth(j)]
           y(j) == blocked[Nth(j)]
<1>13. \A j \in 1..9 : x(j) = (IF j = k THEN n ELSE y(j)) /\ y(j) \in Nat
  BY <1>9, <1>11
<1>14. y(k) = 0
  BY <1>12
<1>15. x(1) + x(2) + x(3) + x(4) + x(5) + x(6) + x(7) + x(8) + x(9)
       = y(1) + y(2) + y(3) + y(4) + y(5) + y(6) + y(7) + y(8) + y(9) + n
  <2> HIDE DEF x, y
  <2> QED
    BY <1>13, <1>14
<1> QED
  BY <1>3, <1>4, <1>5, <1>15

LEMMA LimitStays ==
  ASSUME Guarded, Limited, Review!BlockSetup
  PROVE  Limited'
<1>1. PICK s \in MCSetups, n \in Blocks :
        blocked[s] = 0 /\ Review!Number(MCSetups) + n <= MAX_BLOCKED /\ blocked' = [blocked EXCEPT ![s] = n]
  BY DEF Review!BlockSetup
<1>2. n \in Nat
  BY ReviewAssumption
<1>3. Review!Number(MCSetups)' = Review!Number(MCSetups) + n
  BY <1>1, <1>2, OneShapeMore
<1> QED
  BY <1>1, <1>3 DEF Limited

LEMMA NothingBlockedYet ==
  ASSUME blocked = [s \in MCSetups |-> 0]
  PROVE  Guarded /\ Limited
<1>1. MAX_BLOCKED \in Nat
  BY ReviewAssumption
<1>2. Guarded
  BY <1>1 DEF Guarded
<1>3. \A s \in MCSetups : blocked[s] = 0
  OBVIOUS
<1>4. Review!Number(MCSetups) = 0
  BY <1>3, SetupsFinite, SumOfNothing, NumberedSum
<1> QED
  BY <1>1, <1>2, <1>4 DEF Limited

-----------------------------------------------------------------------------
(* What the promotions answer.                                                *)

\* The trade of a request, and how many of the two zones it reached.
LEMMA RequestTrade ==
  ASSUME NEW A, NEW B, NEW C, NEW D, NEW E, NEW F, NEW G, NEW H,
         NEW r \in [symbol : A, grade : B, confidence : C, failing : D, block : E, used : F, bonus : G, trade : H]
  PROVE  r.trade \in H
OBVIOUS

LEMMA ZonesReached ==
  ASSUME NEW t \in MCTrades
  PROVE  /\ t.adverse \in Int
         /\ \/ Review!AdverseZone(t.adverse) = 0 /\ t.adverse < 30
            \/ Review!AdverseZone(t.adverse) = 1 /\ t.adverse >= 30
            \/ Review!AdverseZone(t.adverse) = 2 /\ t.adverse >= 30
<1> DEFINE Z == {z \in 1..2 : t.adverse >= Review!ActivatedAt[z]}
<1>1. t.adverse \in Int
  BY DEF MCTrades, Trade
<1>2. Review!ActivatedAt[1] = 30 /\ Review!ActivatedAt[2] = 50
  BY DEF Review!ActivatedAt
<1>3. Review!AdverseZone(t.adverse) = Cardinality(Z)
  BY ReviewCardinality DEF Review!AdverseZone
<1>4. 1..2 = {1, 2}
  BY OneOrTwo
<1>5. CASE t.adverse < 30
  <2>1. Z = {}
    BY <1>1, <1>2, <1>4, <1>5
  <2> QED
    BY <1>1, <1>3, <1>5, <2>1, FS_EmptySet
<1>6. CASE t.adverse >= 30 /\ t.adverse < 50
  <2>1. Z = {1}
    BY <1>1, <1>2, <1>4, <1>6
  <2>2. Cardinality({1}) = 1
    BY FS_Singleton
  <2> QED
    BY <1>1, <1>3, <1>6, <2>1, <2>2
<1>7. CASE t.adverse >= 50
  <2>1. Z = {1, 2}
    BY <1>1, <1>2, <1>4, <1>7
  <2>2. Cardinality({1, 2}) = 2
    <3>1. IsFiniteSet({1}) /\ Cardinality({1}) = 1
      BY FS_Singleton
    <3>2. 2 \notin {1} /\ {1} \cup {2} = {1, 2}
      OBVIOUS
    <3>3. Cardinality({1} \cup {2}) = Cardinality({1}) + 1
      BY <3>1, <3>2, FS_AddElement
    <3> QED
      BY <3>1, <3>2, <3>3
  <2> QED
    BY <1>1, <1>3, <1>7, <2>1, <2>2
<1> QED
  BY <1>1, <1>5, <1>6, <1>7

\* A promotion that was asked.
LEMMA PromotionsBounded == Asked => Review!PromotionsKeepTheirBounds
<1> SUFFICES ASSUME Asked PROVE Review!PromotionsKeepTheirBounds
  OBVIOUS
<1> DEFINE c == request.confidence
           e == Review!EffectiveConfidence(request)
           lenient == request.failing \cap {"hard_rejection", "structure", "alignment", "confirmation", "regime"} = {}
           fps == Review!EfdeFps(request)
           zone == Review!AdverseZone(request.trade.adverse)
<1>1. /\ answers.exit = Review!EfdeEarlyExitAction(request)
      /\ answers.admitted = Review!AdmitAPlusOverride(request, e)
      /\ answers.confidence = e
  BY DEF Asked, Review!Answers
<1>2. \A r \in MCRequests :
        /\ \/ r.confidence \in {90} /\ r.bonus \in {3}
           \/ r.confidence \in {84, 87, 90, 98} /\ r.bonus \in {-1, 9}
        /\ r.trade \in MCTrades
  <2>1. \A r \in MCRequests :
          \/ r.confidence \in {90} /\ r.bonus \in {3}
          \/ r.confidence \in {84, 87, 90, 98} /\ r.bonus \in {-1, 9}
    BY RequestFields DEF MCRequests
  <2>2. Trade(-100, 22, Steady, Steady, "b") \in MCTrades
    BY DEF MCTrades
  <2>3. \A r \in MCRequests : r.trade \in MCTrades
    BY <2>2, RequestTrade DEF MCRequests
  <2> QED
    BY <2>1, <2>3
<1>3. c \in Int /\ c < 100 /\ request.bonus \in Int /\ request.trade \in MCTrades
  BY <1>2 DEF Asked
<1>4. /\ e >= 90 => c >= 90
      /\ e > c => lenient /\ e <= c + 5
  BY <1>3 DEF Review!EffectiveConfidence, Review!AtMost, Review!AtLeast, Review!MAX_BONUS
<1>5. ASSUME answers.admitted
      PROVE  /\ c >= 90
             /\ request.block # "" => Review!ClassifyBlockSeverity(request.block) \in {"WEAK", "MEDIUM"}
             /\ request.failing \cap {"risk", "kill_switch", "spread", "news"} = {}
  <2>1. /\ e >= 90 /\ request.block \in {"", "portfolio_suppression"}
        /\ request.failing \cap {"execution_ready", "override_eligible", "risk", "kill_switch", "spread", "news",
                                 "demo_live"} = {}
    BY <1>1, <1>5 DEF Review!AdmitAPlusOverride
  <2>2. Review!ClassifyBlockSeverity("portfolio_suppression") = "MEDIUM"
    BY DEF Review!ClassifyBlockSeverity, Review!SeverityByReason, Review!GuardrailForBlock
  <2> HIDE DEF c, e
  <2>3. request.failing \cap {"risk", "kill_switch", "spread", "news"} = {}
    BY <2>1
  <2> QED
    BY <1>4, <2>1, <2>2, <2>3
<1>6. ASSUME answers.confidence > c
      PROVE  request.failing \cap {"hard_rejection", "structure"} = {} /\ answers.confidence <= c + 5
  <2>1. lenient /\ e <= c + 5
    BY <1>1, <1>4, <1>6
  <2> HIDE DEF c, e
  <2> QED
    BY <1>1, <2>1
<1>7. fps = Review!Fps(request.trade, Review!AtLeast(1, zone)) /\ zone \in Int
      /\ (zone >= 1 <=> request.trade.adverse >= 30) /\ Review!Checkpoints(request.trade) = 1..zone
      /\ \A z : Review!FpsClassification(Review!Fps(request.trade, z)) = "EARLY_EXIT_RECOMMENDED"
                 <=> Review!Fps(request.trade, z) >= 75
  <2>1. \/ zone = 0 /\ request.trade.adverse < 30
        \/ zone = 1 /\ request.trade.adverse >= 30
        \/ zone = 2 /\ request.trade.adverse >= 30
    BY <1>3, ZonesReached
  <2>2. \A z : Review!FpsClassification(Review!Fps(request.trade, z)) = "EARLY_EXIT_RECOMMENDED"
                 <=> Review!Fps(request.trade, z) >= 75
    BY DEF Review!FpsClassification, Review!EXIT_THRESHOLD
  <2>3. request.trade.adverse \in Int
    BY <1>3, ZonesReached
  <2>4. fps = Review!Fps(request.trade, Review!AtLeast(1, zone)) /\ Review!Checkpoints(request.trade) = 1..zone
    BY DEF Review!EfdeFps, Review!Checkpoints
  <2> HIDE DEF zone, fps
  <2> QED
    BY <2>1, <2>2, <2>3, <2>4
<1>8. answers.exit <=> Review!EfdeReasons(request) = {} /\ Review!FpsClassification(fps) = "EARLY_EXIT_RECOMMENDED"
  BY <1>1 DEF Review!EfdeEarlyExitAction, Review!EvaluateEfdePosition, Review!FpsClassification
<1>9. Review!EfdeReasons(request) = {} <=>
        /\ request.failing \cap {"active", "kill_switch", "approval", "autonomous"} = {}
        /\ request.symbol \in Review!PRODUCTION_SYMBOLS
        /\ request.trade.adverse >= 30 /\ fps >= 75
  BY DEF Review!EfdeReasons, Review!ActivatedAt, Review!EXIT_THRESHOLD
<1>10. ASSUME answers.exit PROVE request.failing \cap {"active", "kill_switch"} = {}
  <2>1. request.failing \cap {"active", "kill_switch", "approval", "autonomous"} = {}
    BY <1>8, <1>9, <1>10
  <2> QED
    BY <2>1
<1>11. ASSUME request.symbol \in Review!PRODUCTION_SYMBOLS, request.failing = {}
       PROVE  answers.exit <=> zone \in Review!Exits(request.trade)
  <2>1. answers.exit <=> request.trade.adverse >= 30 /\ fps >= 75
    BY <1>7, <1>8, <1>9, <1>11
  <2>2. zone \in Review!Exits(request.trade) <=> zone >= 1 /\ Review!Fps(request.trade, zone) >= 75
    <3>1. zone \in Review!Exits(request.trade) <=>
            zone \in Review!Checkpoints(request.trade)
            /\ Review!FpsClassification(Review!Fps(request.trade, zone)) = "EARLY_EXIT_RECOMMENDED"
      BY DEF Review!Exits
    <3> HIDE DEF zone
    <3> QED
      BY <1>7, <3>1
  <2>3. zone >= 1 => Review!AtLeast(1, zone) = zone
    <3> HIDE DEF zone
    <3> QED
      BY <1>7 DEF Review!AtLeast
  <2> HIDE DEF zone, fps
  <2> QED
    BY <1>7, <2>1, <2>2, <2>3
<1>12. Review!EvaluateEfdePosition(request) # "WATCH"
  <2>1. CASE Review!EfdeReasons(request) # {}
    BY <2>1 DEF Review!EvaluateEfdePosition
  <2>2. CASE Review!EfdeReasons(request) = {}
    <3>1. fps >= 75
      BY <1>9, <2>2
    <3> QED
      BY <2>2, <3>1 DEF Review!EvaluateEfdePosition, Review!FpsClassification, Review!EXIT_THRESHOLD
  <2> QED
    BY <2>1, <2>2
<1> QED
  BY <1>5, <1>6, <1>10, <1>11, <1>12 DEF Review!PromotionsKeepTheirBounds

-----------------------------------------------------------------------------
(* The reviews, and the desk with all its parts.                              *)

ReviewsInv ==
  /\ part = "blocks" => Guarded /\ Limited
  /\ part = "exits" => Kept
  /\ part = "promotions" => Asked

LEMMA ReviewsStart == MCInit => ReviewsInv
<1> SUFFICES ASSUME MCInit PROVE ReviewsInv
  OBVIOUS
<1>1. MAX_BLOCKED \in Nat /\ MAX_TRADES_REPLAYED \in Nat
  BY ReviewAssumption
<1>2. ASSUME part \in {"blocks", "exits", "promotions"} PROVE Guarded /\ Limited /\ Kept /\ Asked
  <2>1. /\ request = (CHOOSE r \in MCRequests : TRUE) /\ answers = Review!Answers(request)
        /\ blocked = [s \in MCSetups |-> 0] /\ book = [t \in MCTrades |-> 0]
    BY <1>2 DEF MCInit, Review!PromotionInit, Review!ReviewInit, Review!EfdeInit
  <2> QED
    BY <1>1, <2>1, SomethingAsked, NothingBlockedYet DEF Kept, Asked
<1> QED
  BY <1>2 DEF ReviewsInv

LEMMA ReviewsStep == ReviewsInv /\ [MCNext]_mc_vars => ReviewsInv'
<1> SUFFICES ASSUME ReviewsInv, [MCNext]_mc_vars PROVE ReviewsInv'
  OBVIOUS
<1>1. part' = part
  BY DEF MCNext, mc_vars, Desk, Reviewing, desk_vars
<1>2. ASSUME part = "blocks" PROVE Guarded' /\ Limited'
  <2>1. Guarded /\ Limited
    BY <1>2 DEF ReviewsInv
  <2>2. Review!BlockSetup \/ blocked' = blocked
    BY <1>2 DEF MCNext, mc_vars, review_vars
  <2>3. CASE Review!BlockSetup
    BY <2>1, <2>3, BlocksStep, LimitStays
  <2>4. CASE blocked' = blocked
    <3>1. Guarded'
      BY <2>1, <2>4 DEF Guarded
    <3>2. Review!Number(MCSetups)' = Review!Number(MCSetups)
      BY <2>4, NumberedSum
         DEF Review!Number, Review!MapThenSumSet, Review!MapThenFoldSet, SumOf, IsSum, Some
    <3> QED
      BY <2>1, <3>1, <3>2 DEF Limited
  <2> QED
    BY <2>2, <2>3, <2>4
<1>3. ASSUME part = "exits" PROVE Kept'
  <2>1. Kept
    BY <1>3 DEF ReviewsInv
  <2>2. Review!ReplayTrades \/ book' = book
    BY <1>3 DEF MCNext, mc_vars, review_vars
  <2> QED
    BY <2>1, <2>2, TradesStep DEF Kept
<1>4. ASSUME part = "promotions" PROVE Asked'
  <2>1. Asked
    BY <1>4 DEF ReviewsInv
  <2>2. Review!AskPromotion \/ UNCHANGED <<request, answers>>
    BY <1>4 DEF MCNext, mc_vars, review_vars
  <2>3. CASE Review!AskPromotion
    BY <2>3 DEF Review!AskPromotion, Asked, Review!Answers
  <2>4. CASE UNCHANGED <<request, answers>>
    BY <2>1, <2>4 DEF Asked
  <2> QED
    BY <2>2, <2>3, <2>4
<1> QED
  BY <1>1, <1>2, <1>3, <1>4 DEF ReviewsInv

DeskInv ==
  /\ TypeOK /\ Counted
  /\ EngineInv /\ ManagerInv /\ PaperInv
  /\ StoreInv /\ StoreBounded
  /\ ReviewsInv

\* For all values of the constants: every part of the desk keeps its types, and no
\* behaviour goes past its bounds.
THEOREM DeskTyped == MCSpec => []MCTypeOK
<1>1. MCInit => DeskInv
  <2> SUFFICES ASSUME MCInit PROVE DeskInv
    OBVIOUS
  <2>1. Init /\ Engine!Init /\ Manager!Init /\ Paper!Init /\ Store!StoreInit
    BY DEF MCInit
  <2>2. TypeOK /\ Counted /\ EngineInv
    BY <2>1, BridgeInit, EngineInit DEF EngineInv
  <2>3. ManagerInv /\ PaperInv /\ StoreInv
    BY <2>1, ManagerInit, PaperInit, StoreStarts
  <2>4. StoreBounded
    BY <2>1, StoreAssumption DEF Store!StoreInit, StoreBounded
  <2> QED
    BY <2>2, <2>3, <2>4, ReviewsStart DEF DeskInv
<1>2. DeskInv /\ [MCNext]_mc_vars => DeskInv'
  <2> SUFFICES ASSUME DeskInv, [MCNext]_mc_vars PROVE DeskInv'
    OBVIOUS
  <2>1. TypeOK' /\ Counted'
    BY BridgeTypeStep, BridgeFrame DEF DeskInv
  <2>2. EngineInv' /\ ManagerInv' /\ PaperInv'
    BY EngineStep, EngineFrame, ManagerStep, ManagerFrame, PaperStep, PaperFrame DEF DeskInv
  <2>3. StoreInv' /\ StoreBounded'
    BY StoreStep, StoreBoundsStep, StoreFrame DEF DeskInv
  <2> QED
    BY <2>1, <2>2, <2>3, ReviewsStep DEF DeskInv
<1>3. DeskInv => MCTypeOK
  <2> SUFFICES ASSUME DeskInv PROVE MCTypeOK
    OBVIOUS
  <2>1. TypeOK /\ Engine!TypeOK /\ Manager!TypeOK /\ Paper!TypeOK
    BY DEF DeskInv, EngineInv, ManagerInv, PaperInv
  <2>2. Store!StoreTypeOK
    BY StoreTyped DEF DeskInv
  <2>3. /\ part = "blocks" => Review!ReviewTypeOK
        /\ part = "exits" => Review!EfdeTypeOK
        /\ part = "promotions" => Review!PromotionTypeOK
    BY BlocksTyped, TradesTyped, PromotionsTyped DEF DeskInv, ReviewsInv
  <2> QED
    BY <2>1, <2>2, <2>3 DEF MCTypeOK
<1> QED
  BY <1>1, <1>2, <1>3, PTL DEF MCSpec

\* For all values of the constants: the two reports of the shadow account agree on
\* every guardrail, and what the reviews conclude from blocked setups is decided
\* before they are, but for the counts of winners: no relaxation can fail, three of
\* the four candidates are rejected and the one with figures of its own is best.
\* A promotion asks for what the engines behind it ask for.
THEOREM HindsightShown == MCSpec => []ReviewsAreHindsight
<1>1. MCInit => ReviewsInv
  BY ReviewsStart
<1>2. ReviewsInv /\ [MCNext]_mc_vars => ReviewsInv'
  BY ReviewsStep
<1>3. ReviewsInv => ReviewsAreHindsight
  <2> SUFFICES ASSUME ReviewsInv PROVE ReviewsAreHindsight
    OBVIOUS
  <2>1. ASSUME part = "blocks"
        PROVE  Review!BlockReviewIsHindsight /\ Review!CandidatesAreDecidedBeforehand
    <3>1. Guarded /\ Limited
      BY <2>1 DEF ReviewsInv
    <3> QED
      BY <3>1, ReviewedInHindsight, DecidedBeforehand DEF Limited
  <2>2. part = "promotions" => Review!PromotionsKeepTheirBounds
    BY PromotionsBounded DEF ReviewsInv
  <2> QED
    BY <2>1, <2>2 DEF ReviewsAreHindsight
<1> QED
  BY <1>1, <1>2, <1>3, PTL DEF MCSpec
=============================================================================
