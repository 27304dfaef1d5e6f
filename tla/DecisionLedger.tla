--------------------------- MODULE DecisionLedger ---------------------------
(* Why a decision was made, told three times over: the reasons of             *)
(* backend/confidence_engine/confidence_analyzer.py in their order; the tiers *)
(* backend/shared/shared_decision_adapter.py puts them in, from a second      *)
(* evaluation with what it still has at hand; and, for a replayed candidate,  *)
(* the vetoes of backend/shared/reason_ledger.py.  A reason is named by what  *)
(* it says, not by its wording.                                               *)
EXTENDS ConfidenceRules, SequencesExt

CONSTANT Asked   \* the requests: [mode, symbol, minute, reading, phase, smt, veto]

VARIABLES
  request,   \* NoRequest before the first
  record     \* the decision with what is written of it

ledger_vars == <<request, record>>

NoRequest == [mode |-> "none"]
NoRecord == [approved |-> FALSE]

\* The reasons of the rules that hold, in their order.
Holding(rules) ==
  FoldLeft(LAMBDA held, rule : IF rule[2] THEN Append(held, rule[1]) ELSE held, <<>>, rules)
\* Those of some reasons that are among others.
Among(reasons, others) == Holding([i \in DOMAIN reasons |-> <<reasons[i], reasons[i] \in others>>])

\* dedupe_reasons: the first of equal reasons stays.
DedupeReasons(reasons) ==
  FoldLeft(LAMBDA kept, reason : IF Contains(kept, reason) THEN kept ELSE Append(kept, reason),
           <<>>, reasons)

\* What the analyzers told, or the empty payloads of a decision that carries none.
NoPayload ==
  [daily |-> "none", h4 |-> "none", sweep |-> "none", ict_sweep |-> "none", mss |-> FALSE,
   fvg |-> NoGap]

\* evaluate_hard_rejections up to the guardrail.  Every caller passes the
\* smallest reward allowed, and an order block's direction is the shift's.
RuleReasons(symbol, killzone, r, direction, veto, total) ==
  LET forex == symbol \in ForexSymbols
  IN Holding(
       << <<"killzone", ~killzone.valid>>,
          <<"mss", ~r.mss>>,
          <<"fvg", ~r.fvg.detected>>,
          <<"zone", ~r.mss /\ r # NoPayload>>,
          <<"fvg_direction", r.fvg.detected /\ MssDirection(r) \in {Opposite(r.fvg.direction)}>>,
          <<"news", veto = "news">>,
          <<"daily_loss", veto = "daily_loss">>,
          <<"max_trades", veto = "max_trades">>,
          <<"fx_daily", forex /\ direction # "none" /\ r.daily # direction>>,
          <<"fx_h4", forex /\ direction # "none" /\ r.h4 # direction>>,
          <<"fx_sweep", forex /\ r.sweep = "none">>,
          <<"fx_grade", forex /\ r.fvg.grade # "A">>,
          <<"confidence", total < MinimumConfidence(symbol)>>,
          <<"no_direction", direction = "none">> >>)

\* hard_block_reasons, and the adjusted confidence after them.
GuardrailReasons(symbol, killzone, smt, phase, risk_blocked, news_lock, total) ==
  LET adjusted == AdjustedConfidence(symbol, total, killzone, smt, phase)
  IN Holding(
       << <<"risk_governor", risk_blocked>>,
          <<"news", news_lock>>,
          <<"killzone", ~killzone.valid>>,
          <<"london_continuation", killzone.name \in BlockedKillzones>>,
          <<"observer_mode", symbol = "EURUSD">>,
          <<"demo_sandbox", symbol \in DemoSandbox>>,
          <<"disabled", symbol \in ObserverOnly \ {"EURUSD"}>>,
          <<"london_open", killzone.name = "london_open" /\ ~smt.detected /\ symbol # "XAUUSD">>,
          <<"xau_continuation", symbol = "XAUUSD" /\ killzone.name = "london_continuation">>,
          <<"us30_session", symbol = "US30" /\ killzone.name \notin US30Killzones>>,
          <<"adjusted", adjusted < MinimumExecutionConfidence(symbol)>> >>)

\* The brain of a replay supplies an ICT payload without reasons of its own.
IctReasons(q) ==
  IF q.mode = "REPLAY" THEN <<>>
  ELSE Among(<<"mss", "zone", "fvg", "fvg_direction", "order_block", "not_returned", "wrong_half">>,
             IctRejections(q.reading))

RiskVetoes == {"daily_loss", "max_trades", "risk"}
Session(q) == Killzone(q.symbol, q.minute)
Confidence(q) == TotalConfidence(q.symbol, Session(q), q.reading)

GuardrailSays(q) ==
  GuardrailReasons(q.symbol, Session(q), q.smt, q.phase, q.veto \in RiskVetoes, q.veto = "news",
                   Confidence(q))

\* evaluate_hard_rejections, whole.
RejectionReasons(q) ==
  DedupeReasons(RuleReasons(q.symbol, Session(q), q.reading, Direction(q.reading), q.veto, Confidence(q))
                \o GuardrailSays(q) \o IctReasons(q))

\* _evaluate_tiers_for_ledger: the same rules once more.  A live decision does
\* not carry its payloads and the caller's context holds neither news nor SMT
\* nor narrative, so they are looked at as absent.
TierReasons(q) ==
  LET smt == [detected |-> FALSE, available |-> TRUE]
  IN DedupeReasons(
       RuleReasons(q.symbol, Session(q), NoPayload, Direction(q.reading),
                   IF q.veto = "news" THEN "none" ELSE q.veto, Confidence(q))
       \o GuardrailReasons(q.symbol, Session(q), smt, "unknown", q.veto \in RiskVetoes, FALSE,
                           Confidence(q)))

\* The words of the tiers' checkers, which are also those of the classification.
\* Mutated form: the day's loss is not among them.
SafetyOfTrades == {"killzone", "news", "max_trades"}
SafetyVetoes == {"killzone", "news", "daily_loss", "max_trades"}
MacroTruthVetoes == {"fx_daily", "fx_h4"}
StructureVetoes == {"mss", "fvg", "zone", "fvg_direction", "no_direction"}

\* _classify_reasons_by_tier; the words of tiers 3B and 4A occur in no reason,
\* and nothing is put into 2B.
AuthorityTier(reason) ==
  CASE reason \in SafetyVetoes -> "1"
    [] reason \in MacroTruthVetoes -> "2A"
    [] reason \in StructureVetoes -> "3A"
    [] OTHER -> "other"

\* evaluate_all_tiers.
Tiers(q) ==
  LET reasons == ToSet(TierReasons(q))
  IN [tier \in {"1", "2A", "3A", "other"} |-> {reason \in reasons : AuthorityTier(reason) = tier}]

\* classify_reason_tier of the replay, with its severity in tenths.
ReplayTier(reason) ==
  CASE reason \in {"news", "daily_loss", "max_trades", "risk_governor", "demo_sandbox",
                   "observer_mode", "disabled"} -> [tier |-> "1", severity |-> 10]
    [] reason \in {"killzone", "london_continuation", "london_open", "xau_continuation",
                   "us30_session"} -> [tier |-> "2A", severity |-> 8]
    [] reason \in {"mss", "fvg", "zone", "fvg_direction", "order_block", "not_returned",
                   "wrong_half", "no_direction", "fx_sweep"} -> [tier |-> "3A", severity |-> 9]
    [] reason \in {"confidence", "adjusted", "fx_grade"} -> [tier |-> "3B", severity |-> 5]
    [] OTHER -> [tier |-> "2B", severity |-> 4]

\* rejection_reason_code, whose words are looked for in this order.
RejectionReasonCode(reason) ==
  CASE reason \in {"mss", "fvg_direction"} -> "MSS_NOT_CONFIRMED"
    [] reason \in {"confidence", "adjusted", "observer_mode"} -> "BELOW_MIN_CONFIDENCE"
    [] reason = "killzone" -> "INVALID_KILLZONE"
    [] reason = "demo_sandbox" -> "SYMBOL_LOCK"
    [] reason \in {"risk_governor", "daily_loss"} -> "RISK_LOCK"
    [] reason = "news" -> "NEWS_LOCK"
    [] OTHER -> "NO_TRADE_WINDOW"

\* record_candidate_ledger: what the guardrail has no part in, then the
\* guardrail's own reasons.  Its penalties are looked for under another name
\* than the guardrail gives them, so none is recorded.
Blocking(reasons, guarded) == Among(reasons, ToSet(reasons) \ ToSet(guarded))

Entry(reason) ==
  LET said == ReplayTier(reason)
  IN [tier |-> said.tier, severity |-> said.severity, reason |-> reason, action |-> "veto"]
Entries(q, reasons) ==
  LET guarded == GuardrailSays(q)
      vetoes == Blocking(reasons, guarded) \o guarded
  IN [i \in DOMAIN vetoes |-> Entry(vetoes[i])]

\* primary_reason: the first veto; without penalties there is no other.
PrimaryReason(entries) == IF entries = <<>> THEN "none" ELSE Head(entries).reason

LedgerInit == request = NoRequest /\ record = NoRecord

RecordDecision ==
  /\ request = NoRequest
  /\ request' \in Asked
  /\ LET q == request'
         reasons == RejectionReasons(q)
         approved == Confidence(q) >= MinimumConfidence(q.symbol) /\ reasons = <<>>
         entries == Entries(q, reasons)
     IN record' = IF q.mode = "LIVE"
                  THEN [approved |-> approved, reasons |-> reasons, tiers |-> Tiers(q),
                        codes |-> {RejectionReasonCode(reason) : reason \in ToSet(reasons)}]
                  ELSE [approved |-> approved, reasons |-> reasons, entries |-> entries,
                        admitted |-> entries = <<>>, primary |-> PrimaryReason(entries)]

LedgerTypeOK ==
  /\ request.mode \in {"none", "LIVE", "REPLAY"}
  /\ record.approved \in BOOLEAN

\* What is told of a decision agrees with the decision.  It is refused exactly
\* when there is a reason, and is the one the rules come to without a list of
\* reasons.  A live record's safety tier holds the session, the day's loss and
\* the day's trades exactly when the decision was refused for them (the news
\* lock never), and its structure tier fails whatever was decided; its codes
\* name a lock exactly when the risk governor or the calendar had it.  A
\* replayed candidate is admitted exactly when it was approved, a refused one
\* has a first reason and a veto for everything it was refused for, and none is
\* put down to the day's safety.
DecisionIsAsRecorded ==
  record # NoRecord =>
    LET reasons == ToSet(record.reasons)
        decided == Decide(request.symbol, Session(request), request.reading, request.veto)
    IN /\ record.approved <=> reasons = {}
       /\ request.mode = "LIVE" =>
            /\ record.approved <=> decided.approved
            /\ record.tiers["1"] = reasons \cap {"killzone", "daily_loss", "max_trades"}
            /\ record.tiers["3A"] # {}
            /\ "RISK_LOCK" \in record.codes <=> request.veto \in RiskVetoes
            /\ "NEWS_LOCK" \in record.codes <=> request.veto = "news"
       /\ request.mode = "REPLAY" =>
            /\ record.admitted <=> record.approved
            /\ ~record.approved => record.primary \in reasons
            /\ {record.entries[i].reason : i \in DOMAIN record.entries} = reasons
            /\ "1" \in {record.entries[i].tier : i \in DOMAIN record.entries} =>
                 SymbolBlocked(request.symbol)
=============================================================================
