-------------------------- MODULE EmergencyProtocol --------------------------
(* backend/emergency_live/emergency_live_protocol.py: the approval queue, the *)
(* kill switch and the daily limit of the assisted emergency week.  The       *)
(* protocol executes nothing; the operator, external to it, executes what he  *)
(* approved, once each, and tells it the number of today's trades.            *)
EXTENDS Integers, Sequences, FiniteSets

CONSTANTS
  MAX_TRADES,          \* max_trades_per_day
  FirstDay, LastDay,   \* bound: the days of the ladder that are lived through
  MAX_REQUESTS,        \* bound: requests queued in one behaviour
  MAX_HALTS            \* bound: halts of one behaviour

VARIABLES
  live,       \* status: "LIVE_READY" or "LIVE_HALTED"
  today,      \* the day of the ladder
  queue,      \* approval_queue; a request is never taken out of it
  history,    \* approval_history: it holds a resolved request's own record, again each time
  halts,      \* history: halts begun so far
  traded      \* history: for each request the day it was executed, 0 if it was not

emergency_vars == <<live, today, queue, history, halts, traded>>

\* The operator trades on the days of the ladder's micro-live stage only.
DeploymentStage(day) ==
  CASE day <= 3 -> "DEMO_VALIDATION" [] day \in 4..5 -> "SHADOW_LIVE"
    [] day \in 6..7 -> "MICRO_LIVE" [] OTHER -> "COMPLETE"

EmergencyInit ==
  /\ live = "LIVE_READY" /\ today = FirstDay
  /\ queue = <<>> /\ history = {} /\ halts = 0 /\ traded = <<>>

TradesToday == Cardinality({i \in DOMAIN traded : traded[i] = today})

\* Mutated form: one trade more than the limit.
ValidateOneMore(sound, trades_today) ==
  sound /\ live # "LIVE_HALTED" /\ trades_today <= MAX_TRADES

\* sound stands for an allowed symbol, grade and risk.
ValidateProposal(sound, trades_today) ==
  sound /\ live # "LIVE_HALTED" /\ trades_today < MAX_TRADES

\* create_approval_request: what is not valid is not queued; nothing of it is kept.
CreateApprovalRequest(sound) ==
  /\ Len(queue) < MAX_REQUESTS
  /\ IF ValidateProposal(sound, TradesToday)
     THEN /\ queue' = Append(queue, [status |-> "PENDING", day |-> today, halts |-> halts,
                                     waiting |-> \E i \in DOMAIN traded : traded[i] = 0])
          /\ traded' = Append(traded, 0)
     ELSE UNCHANGED <<queue, traded>>
  /\ UNCHANGED <<live, today, history, halts>>

\* resolve_approval asks neither for the status of the request nor for the
\* protocol's: a request may be resolved again, after a halt or on another day.
ResolveApproval(id, status) ==
  /\ queue' = [queue EXCEPT ![id].status = status]
  /\ history' = history \cup {id}
  /\ UNCHANGED <<live, today, halts, traded>>

Calm == [daily_r |-> -99, losses |-> 2, drawdown |-> 1, fault |-> FALSE]
Telemetry ==
  {Calm, [Calm EXCEPT !.daily_r = -100], [Calm EXCEPT !.losses = 3], [Calm EXCEPT !.drawdown = 2],
   [Calm EXCEPT !.fault = TRUE]}

\* fault: a lost connection, a rejected order, a spread or a slippage.
Triggered(t) == t.daily_r <= -100 \/ t.losses >= 3 \/ t.fault \/ t.drawdown >= 2

EvaluateKillSwitch(t) ==
  /\ Triggered(t) /\ halts < MAX_HALTS
  /\ live' = "LIVE_HALTED"
  /\ halts' = IF live = "LIVE_HALTED" THEN halts ELSE halts + 1
  /\ UNCHANGED <<today, queue, history, traded>>

ResumeLive(manual_override) ==
  /\ live' = IF manual_override THEN "LIVE_READY" ELSE live
  /\ UNCHANGED <<today, queue, history, halts, traded>>

\* External: the operator executes a request he approved.
Execute(id) ==
  /\ DeploymentStage(today) = "MICRO_LIVE"
  /\ queue[id].status = "APPROVED" /\ traded[id] = 0
  /\ traded' = [traded EXCEPT ![id] = today]
  /\ UNCHANGED <<live, today, queue, history, halts>>

NewDay ==
  /\ today < LastDay
  /\ today' = today + 1
  /\ UNCHANGED <<live, queue, history, halts, traded>>

EmergencyNext ==
  \/ \E sound \in BOOLEAN : CreateApprovalRequest(sound)
  \/ \E id \in DOMAIN queue, status \in {"APPROVED", "REJECTED"} : ResolveApproval(id, status)
  \/ \E t \in Telemetry : EvaluateKillSwitch(t)
  \/ \E manual_override \in BOOLEAN : ResumeLive(manual_override)
  \/ \E id \in DOMAIN queue : Execute(id)
  \/ NewDay

EmergencyTypeOK ==
  /\ live \in {"LIVE_READY", "LIVE_HALTED"} /\ today \in FirstDay..LastDay
  /\ queue \in Seq([status : {"PENDING", "APPROVED", "REJECTED"}, day : FirstDay..LastDay,
                    halts : 0..MAX_HALTS, waiting : BOOLEAN])
  /\ history \subseteq DOMAIN queue /\ halts \in 0..MAX_HALTS
  /\ traded \in Seq({0} \cup FirstDay..LastDay) /\ Len(traded) = Len(queue)

\* The limits are asked when a request is queued and never again, so a day can
\* see more than MAX_TRADES trades and a trade can follow a halt; but only
\* from requests that were already waiting.  An overrun needs a request of an
\* earlier day, or one queued beside another still unexecuted one (a rejected one
\* included: it may be approved later), and whatever is in the queue during a
\* halt was put there before that halt.
OverrunsWereWaiting ==
  /\ TradesToday > MAX_TRADES =>
       \E i \in DOMAIN queue : traded[i] = today /\ (queue[i].day < today \/ queue[i].waiting)
  /\ live = "LIVE_HALTED" => \A i \in DOMAIN queue : queue[i].halts < halts
=============================================================================
