----------------------------- MODULE NewsFilter -----------------------------
(* backend/news_filter/news_filter.py as one scan of the monitor uses it: a   *)
(* check that names no symbol when the scan begins, then one for each symbol  *)
(* that is analyzed, each at the minute it is made.                           *)
EXTENDS Integers, Sequences, FiniteSets

CONSTANTS
  Calendars,   \* configurations drawn: [enabled, events]
  Names,       \* the analyzed symbols in scan order
  Affected,    \* DEFAULT_AFFECTED_SYMBOLS
  PRE, POST,   \* pre_event_block_minutes, post_event_block_minutes
  LATEST       \* bound: the last minute

VARIABLES
  calendar,
  minute,
  whole,       \* the check without a symbol, NoCheck before it
  each         \* the checks of the symbols so far, in scan order

news_vars == <<calendar, minute, whole, each>>

\* "at" is the minute a check was made, "event" the position of the one told,
\* 0 for a clear calendar, Illegible when the check raised.
Illegible == -1
NoCheck == [at |-> -1, event |-> 0, minutes |-> 0]

\* is_blocking_event: the currency, the impact, a known name and a date.
Blocks(e) == e.usd /\ e.high /\ e.known /\ e.dated
BlockingEvents == {i \in DOMAIN calendar.events : Blocks(calendar.events[i])}

\* affected_symbols_for_event; "" names no symbol and is affected by each.
AffectedBy(e) == IF e.symbols = {} THEN Affected ELSE e.symbols
Concerning(name) ==
  {i \in BlockingEvents : name = "" \/ name \in AffectedBy(calendar.events[i])}

\* parse_event_time raises.
Unreadable(events) == \E i \in events : ~calendar.events[i].legible

\* is_inside_lock_window, both ends included.
Inside(e, now) == now \in e.minute - PRE..e.minute + POST

Distance(i) ==
  LET d == calendar.events[i].minute - minute IN IF d < 0 THEN -d ELSE d

\* Mutated form: the first active event of the file is told.
FirstOf(active) == CHOOSE i \in active : \A k \in active : i <= k

\* The nearest event is told, of two as near the first of the file.
Nearest(active) ==
  CHOOSE i \in active :
    \A k \in active : \/ Distance(i) < Distance(k)
                       \/ (Distance(i) = Distance(k) /\ i <= k)

Check(name) ==
  LET active == {i \in Concerning(name) : Inside(calendar.events[i], minute)}
  IN CASE ~calendar.enabled -> [NoCheck EXCEPT !.at = minute]
       [] calendar.enabled /\ Unreadable(Concerning(name)) ->
            [NoCheck EXCEPT !.at = minute, !.event = Illegible]
       [] calendar.enabled /\ ~Unreadable(Concerning(name)) /\ active = {} ->
            [NoCheck EXCEPT !.at = minute]
       [] OTHER ->
            [at |-> minute, event |-> Nearest(active),
             minutes |-> calendar.events[Nearest(active)].minute - minute]

NewsInit ==
  /\ calendar \in Calendars
  /\ minute = 0 /\ whole = NoCheck /\ each = <<>>

\* scan_once asks once without a symbol; nothing there catches what it raises.
CheckAll ==
  /\ whole = NoCheck
  /\ whole' = Check("")
  /\ UNCHANGED <<calendar, minute, each>>

\* analyze_payloads asks for its own symbol when its turn comes.
CheckSymbol ==
  /\ whole # NoCheck /\ whole.event # Illegible
  /\ Len(each) < Len(Names)
  /\ each' = Append(each, Check(Names[Len(each) + 1]))
  /\ UNCHANGED <<calendar, minute, whole>>

PassMinute ==
  /\ minute < LATEST
  /\ minute' = minute + 1
  /\ UNCHANGED <<calendar, whole, each>>

NewsNext == CheckAll \/ CheckSymbol \/ PassMinute

NewsTypeOK ==
  /\ minute \in 0..LATEST
  /\ Len(each) <= Len(Names)
  /\ whole.event \in {0, Illegible} \cup DOMAIN calendar.events

\* What the scan says of the news as a whole and what each symbol's decision
\* sees agree but for the minutes between them: an event told to a symbol was
\* told of the whole scan as well, unless its window opened since, or a nearer
\* one was told; an event told of the whole scan is told to every symbol it
\* affects, unless another is nearer to that symbol's check or its window
\* closed since; and a calendar that cannot be read ends the scan before any
\* symbol is judged.
ScanAndSymbolsAgreeOnNews ==
  LET Near(i, now) ==
        LET d == calendar.events[i].minute - now IN IF d < 0 THEN -d ELSE d
      Told(check) == check.event \notin {0, Illegible}
  IN \A n \in DOMAIN each :
       /\ ~(calendar.enabled /\ Unreadable(BlockingEvents))
       /\ Told(each[n]) =>
            LET e == each[n].event
            IN \/ whole.event = e
               \/ whole.at < calendar.events[e].minute - PRE
               \/ Told(whole) /\ Near(whole.event, whole.at) <= Near(e, whole.at)
       /\ Told(whole) /\ Names[n] \in AffectedBy(calendar.events[whole.event]) =>
            \/ Told(each[n]) /\ Near(each[n].event, each[n].at) <= Near(whole.event, each[n].at)
            \/ each[n].at > calendar.events[whole.event].minute + POST
=============================================================================
