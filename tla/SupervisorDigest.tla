-------------------------- MODULE SupervisorDigest --------------------------
(* scripts/run_sentinel_supervisor.py, the daily digest: the supervisor's     *)
(* loop reaches it only when the MT5 terminal is up and the engine round did  *)
(* not raise, sends the message, and then writes the day into the mark file.  *)
(* The engine round itself is module Supervisor's; here it raises or not.     *)
(* Time is counted in ticks of CHECK_INTERVAL_SECONDS, two minutes.           *)
EXTENDS Integers

CONSTANTS
  DAY,        \* ticks of a day
  Hour,       \* the ticks of a day that lie in DIGEST_HOUR_UTC
  PAUSE,      \* ticks slept when the terminal could not be started
  DAYS,       \* bound: days of one behaviour
  MAX_FAULTS  \* bound: sends of one day that no mark follows

VARIABLES
  day, tick,  \* the wall clock
  mt5,        \* the terminal runs
  loop,       \* "down", "asleep", "sent": between the message and the mark
  wait,       \* ticks until the sleeping loop wakes
  mark,       \* the day in last_digest_date.txt, 0 when there is no file
  copies,     \* history: digests the operator got today
  faults,     \* history: sends of today that no mark followed
  calm        \* history: ticks of the hour since anything went wrong in it

digest_vars == <<day, tick, mt5, loop, wait, mark, copies, faults, calm>>

\* The longest a healthy hour may need: a whole pause, and the round after it.
PATIENCE == PAUSE + 1

Init ==
  /\ day = 1 /\ tick = 0 /\ mt5 = TRUE
  /\ loop = "asleep" /\ wait = 0
  /\ mark = 0 /\ copies = 0 /\ faults = 0 /\ calm = 0

InHour == tick \in Hour

\* Waiting; a round that is due runs before time goes on.
Tick ==
  /\ loop # "sent"
  /\ loop = "asleep" => wait > 0
  /\ IF tick + 1 < DAY
     THEN tick' = tick + 1 /\ UNCHANGED <<day, copies, faults>>
     ELSE day < DAYS /\ tick' = 0 /\ day' = day + 1 /\ copies' = 0 /\ faults' = 0
  /\ wait' = IF loop = "asleep" THEN wait - 1 ELSE wait
  /\ calm' = IF InHour /\ mt5 /\ loop = "asleep"
             THEN IF calm < PATIENCE THEN calm + 1 ELSE calm
             ELSE 0
  /\ UNCHANGED <<mt5, loop, mark>>

\* The terminal crashes or is closed.
TerminalStops ==
  /\ mt5 /\ loop # "sent"
  /\ mt5' = FALSE /\ calm' = 0
  /\ UNCHANGED <<day, tick, loop, wait, mark, copies, faults>>

\* Somebody starts the terminal by hand, or a slow start completes.
TerminalReturns ==
  /\ ~mt5 /\ loop # "sent"
  /\ mt5' = TRUE
  /\ UNCHANGED <<day, tick, loop, wait, mark, copies, faults, calm>>

\* Mutated form: only the hour's first tick counts.
DueOnTheHour == InHour /\ (tick - 1) \notin Hour /\ mark # day

Due == InHour /\ mark # day

\* ensure_mt5 starts the terminal or fails to; without it the round ends in
\* the long pause, the digest not looked at.
RoundWithoutTerminal ==
  /\ loop = "asleep" /\ wait = 0 /\ ~mt5
  /\ wait' = PAUSE
  /\ UNCHANGED <<day, tick, mt5, loop, mark, copies, faults, calm>>

\* An engine round that raises is swallowed with the digest after it.
RoundRaises ==
  /\ loop = "asleep" /\ wait = 0
  /\ mt5' = TRUE
  /\ wait' = 1 /\ calm' = 0
  /\ UNCHANGED <<day, tick, loop, mark, copies, faults>>

RoundWithoutDigest ==
  /\ loop = "asleep" /\ wait = 0 /\ ~Due
  /\ mt5' = TRUE
  /\ wait' = 1
  /\ UNCHANGED <<day, tick, loop, mark, copies, faults, calm>>

\* maybe_send_digest up to the message; whether it arrives makes no difference
\* to what follows, for notify_telegram never raises.
SendDigest ==
  /\ loop = "asleep" /\ wait = 0 /\ Due
  /\ mt5' = TRUE
  /\ loop' = "sent"
  /\ \E arrives \in BOOLEAN : copies' = IF arrives THEN copies + 1 ELSE copies
  /\ UNCHANGED <<day, tick, wait, mark, faults, calm>>

WriteMark ==
  /\ loop = "sent"
  /\ mark' = day
  /\ loop' = "asleep" /\ wait' = 1
  /\ UNCHANGED <<day, tick, mt5, copies, faults, calm>>

\* The write raises, the loop swallows it and comes back two minutes later.
MarkUnwritten ==
  /\ loop = "sent" /\ faults < MAX_FAULTS
  /\ loop' = "asleep" /\ wait' = 1
  /\ faults' = faults + 1 /\ calm' = 0
  /\ UNCHANGED <<day, tick, mt5, mark, copies>>

Crash ==
  /\ loop # "down"
  /\ loop = "sent" => faults < MAX_FAULTS
  /\ loop' = "down" /\ calm' = 0
  /\ faults' = IF loop = "sent" THEN faults + 1 ELSE faults
  /\ UNCHANGED <<day, tick, mt5, wait, mark, copies>>

\* The scheduled task starts a new supervisor, whose first round comes at once.
Start ==
  /\ loop = "down"
  /\ loop' = "asleep" /\ wait' = 0
  /\ UNCHANGED <<day, tick, mt5, mark, copies, faults, calm>>

Next ==
  \/ Tick \/ TerminalStops \/ TerminalReturns
  \/ RoundWithoutTerminal \/ RoundRaises \/ RoundWithoutDigest
  \/ SendDigest \/ WriteMark \/ MarkUnwritten \/ Crash \/ Start

Spec == Init /\ [][Next]_digest_vars

TypeOK ==
  /\ day \in 1..DAYS /\ tick \in 0..DAY - 1 /\ mt5 \in BOOLEAN
  /\ loop \in {"down", "asleep", "sent"} /\ wait \in 0..PAUSE
  /\ mark \in 0..DAYS /\ copies \in 0..MAX_FAULTS + 1 /\ faults \in 0..MAX_FAULTS
  /\ calm \in 0..PATIENCE

\* The operator gets the day's digest a second time only when a crash or a
\* failed write fell between the message and the mark; nothing that happens
\* to the terminal, to the engine round or to the loop before or after those
\* two steps, however often, repeats it.  And a day loses its digest only if
\* something kept going wrong through the whole hour: once the terminal and the
\* loop have been well for the length of the long pause and the round that ends
\* it, the day is marked, wherever in the hour that calm stretch lies and
\* however often the terminal stopped before it.
DigestKeepsItsMark ==
  /\ copies <= 1 + faults
  /\ calm = PATIENCE => mark = day
=============================================================================
