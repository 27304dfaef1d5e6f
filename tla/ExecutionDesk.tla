---------------------------- MODULE ExecutionDesk ----------------------------
(***************************************************************************)
(* execution_engine/execution_engine.py with readiness_checker.py: one plan *)
(* at a time goes through the safety check, a human's confirmation (a       *)
(* prompt that blocks), the readiness checklist, order_send and the journal.*)
(* Both checks read the one context the caller took before the prompt.      *)
(* Each has its own answer for what the context does not say.               *)
(*                                                                          *)
(* Abstractions.  Confidence, RR, lot and order type, which both checks     *)
(* read off the plan, are whether the plan is sound; connection, login and  *)
(* server are whether the account is verified.  The market limits of the    *)
(* safety check come with the context's spread.                             *)
(***************************************************************************)
EXTENDS Integers

CONSTANT MAX_ORDERS   \* bound: orders, and unclear ends

\* What the context may say; "unsaid" is a key it lacks.
Contexts ==
  [risk      : {"ALLOWED", "BLOCKED", "unsaid"},
   news      : {"CLEAR", "LOCKED", "unsaid"},
   killzone  : {"valid", "invalid", "unsaid"},
   guardrail : {"PASS", "BLOCKED", "unsaid"},
   spread    : {"ok", "wide", "unsaid"}]

VARIABLES
  phase,      \* "idle", or "asking": the prompt is open
  context,    \* the context of the execution under way
  mode,       \* "advisor" or "assisted"
  orders,     \* the account's orders from this engine
  journaled,  \* records in the journal of an order submitted
  last        \* order_result of the last execution, or "raised"

\* Kept for the properties and bounds only: confirmed executions that ended in
\* anything but SUCCESS; the context the last order went out on.
VARIABLES unclear, sent_on

vars == <<phase, context, mode, orders, journaled, last, unclear, sent_on>>

Results == {"none", "BLOCKED_BY_SAFETY", "ADVISOR_MODE_NO_ORDER", "REJECTED_BY_USER",
            "BLOCKED_BY_READINESS", "SUCCESS", "REJECTED", "raised"}
NoContext == [risk |-> "unsaid", news |-> "unsaid", killzone |-> "unsaid",
              guardrail |-> "unsaid", spread |-> "unsaid"]   \* and while idle

TypeOK ==
  /\ phase \in {"idle", "asking"}
  /\ context \in Contexts /\ mode \in {"advisor", "assisted"}
  /\ orders \in 0..MAX_ORDERS /\ journaled \in 0..MAX_ORDERS
  /\ last \in Results
  /\ unclear \in 0..MAX_ORDERS /\ sent_on \in Contexts

Init ==
  /\ phase = "idle" /\ context = NoContext /\ mode = "advisor"
  /\ orders = 0 /\ journaled = 0 /\ last = "none"
  /\ unclear = 0 /\ sent_on = NoContext

\* validate_safety: what is unsaid does not block.
SafetyPasses(c, sound) ==
  /\ sound
  /\ c.news # "LOCKED" /\ c.risk # "BLOCKED"
  /\ c.guardrail # "BLOCKED" /\ c.spread # "wide"

\* The checklist.  The killzone and the risk governor must be heard; a spread the
\* context lacks is read off the terminal, which may have none.
RiskNotBlocked(c) == c.risk # "BLOCKED"
RiskAllowed(c) == c.risk = "ALLOWED"
NewsClear(c) == c.news # "LOCKED"
KillzoneValid(c) == c.killzone = "valid"
GuardrailsPass(c) == c.guardrail # "BLOCKED"
CurrentSpread(c, quoted) == IF c.spread = "unsaid" THEN quoted ELSE c.spread
SpreadAcceptable(c, quoted) == CurrentSpread(c, quoted) = "ok"

\* ReadinessChecker.check; connection, login and server are `verified`, lot, RR
\* and mode were sound before.
ReadinessPasses(c, verified, quoted) ==
  /\ verified
  /\ RiskAllowed(c) /\ NewsClear(c) /\ KillzoneValid(c)
  /\ GuardrailsPass(c) /\ SpreadAcceptable(c, quoted)

\* With no journal engine.
NotRecorded(result) ==
  /\ phase' = "idle" /\ context' = NoContext /\ mode' = "advisor"
  /\ last' = result /\ UNCHANGED journaled

\* record_execution appends to the journal, whose write may raise: the result is
\* then lost to the caller as well.
Recorded(result) ==
  /\ phase' = "idle" /\ context' = NoContext /\ mode' = "advisor"
  /\ \E raises \in BOOLEAN : last' = IF raises THEN "raised" ELSE result
  /\ journaled' = IF last' = "SUCCESS" THEN journaled + 1 ELSE journaled

\* execute, up to the prompt: prepare_execution on a context taken now.
Execute(c, m, sound) ==
  /\ phase = "idle"
  /\ IF SafetyPasses(c, sound) /\ m = "assisted"
     THEN /\ phase' = "asking" /\ context' = c /\ mode' = m
          /\ UNCHANGED <<journaled, last>>
     ELSE Recorded(IF SafetyPasses(c, sound) THEN "ADVISOR_MODE_NO_ORDER"
                   ELSE "BLOCKED_BY_SAFETY")
  /\ UNCHANGED <<orders, unclear, sent_on>>

\* The human declines, or the checklist fails.
Decline ==
  /\ phase = "asking"
  /\ Recorded("REJECTED_BY_USER")
  /\ UNCHANGED <<orders, unclear, sent_on>>
NotReady(verified, quoted) ==
  /\ phase = "asking"
  /\ ~ReadinessPasses(context, verified, quoted)
  /\ Recorded("BLOCKED_BY_READINESS")
  /\ UNCHANGED <<orders, unclear, sent_on>>

\* submit_order's result: a retcode, or no answer at all.  No answer and a raised
\* order_send leave open whether the order was executed.
Submitted(executed, answer) ==
  /\ answer = "SUCCESS" => executed
  /\ executed => orders < MAX_ORDERS
  /\ orders' = IF executed THEN orders + 1 ELSE orders
  /\ IF answer = "raised"
     THEN /\ phase' = "idle" /\ context' = NoContext /\ mode' = "advisor"
          /\ last' = "raised" /\ UNCHANGED journaled
     ELSE Recorded(answer)

\* The human confirms and the rest of execute runs.
Confirm(verified, quoted, executed, answer) ==
  /\ phase = "asking"
  /\ ReadinessPasses(context, verified, quoted)
  /\ Submitted(executed, answer)
  /\ last' # "SUCCESS" => unclear < MAX_ORDERS
  /\ unclear' = IF last' # "SUCCESS" THEN unclear + 1 ELSE unclear
  /\ sent_on' = context

Next ==
  \/ \E c \in Contexts, m \in {"advisor", "assisted"}, sound \in BOOLEAN : Execute(c, m, sound)
  \/ Decline
  \/ \E verified \in BOOLEAN, quoted \in {"ok", "wide", "unsaid"} :
       \/ NotReady(verified, quoted)
       \/ \E executed \in BOOLEAN, answer \in {"SUCCESS", "REJECTED", "raised"} :
            Confirm(verified, quoted, executed, answer)

Spec == Init /\ [][Next]_vars

-----------------------------------------------------------------------------
\* The two checks answer differently for what the context does not say; between
\* them an order goes out only where the risk governor's permission and a valid
\* killzone were affirmed and nothing said no.
UnsaidIsNoLeave ==
  sent_on # NoContext =>
    /\ sent_on.risk = "ALLOWED" /\ sent_on.killzone = "valid"
    /\ sent_on.news # "LOCKED" /\ sent_on.guardrail # "BLOCKED" /\ sent_on.spread # "wide"

\* Nothing makes an execution idempotent, and the journal is written last.  What
\* the journal lacks of the account is at most the confirmed executions that did
\* not end in SUCCESS: those an operator must look up before trying again.
JournalWithinUnclear == journaled <= orders /\ orders <= journaled + unclear
=============================================================================
