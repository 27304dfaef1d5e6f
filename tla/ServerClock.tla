---------------------------- MODULE ServerClock ----------------------------
(***************************************************************************)
(* How the engine learns the broker's clock, and what it does with it.      *)
(*                                                                          *)
(* MT5 stamps every quote in server time, encoded as if it were UTC.        *)
(* MT5Connector.server_utc_offset_hours compares the newest quote with real *)
(* UTC and rounds to whole hours; it cannot tell a fresh quote from one     *)
(* that froze a whole number of hours ago.  refresh_server_offset (in       *)
(* run_mean_reversion_live.py) therefore adopts a CHANGE of the offset only *)
(* after several agreeing readings over a span of time.  The executor's     *)
(* stale-quote guard (_tick_age_seconds) uses the connector's last reading, *)
(* confirmed or not.                                                        *)
(*                                                                          *)
(* Abstractions.  Time is counted in units of five minutes, the polling     *)
(* interval: an hour is HOUR units, and TOLERANCE is the five minutes a     *)
(* reading may lie off a whole hour.  One feed stands for the probed        *)
(* symbols and the traded one: they freeze together when the terminal       *)
(* loses its connection.                                                    *)
(***************************************************************************)
EXTENDS Integers

CONSTANTS
  HOUR,                          \* units in an hour
  TOLERANCE,                     \* how far off a whole hour a reading may be
  OFFSET_CONFIRMATIONS_REQUIRED,
  OFFSET_CONFIRMATION,           \* OFFSET_CONFIRMATION_MINUTES, in units
  MAX_TICK_AGE,                  \* max_tick_age_seconds, in units
  Offsets,                       \* the offsets the broker's clock may have
  MAX_AGE,                       \* bound: how long the feed stays frozen
  MAX_GAP,                       \* bound: time between two polls
  MAX_RESTARTS                   \* bound: restarts of the engine

ASSUME ServerClockAssumption ==
  /\ HOUR \in Nat \ {0} /\ TOLERANCE \in Nat /\ 2 * TOLERANCE < HOUR
  /\ OFFSET_CONFIRMATIONS_REQUIRED \in Nat \ {0}
  /\ OFFSET_CONFIRMATION \in Nat /\ MAX_TICK_AGE \in Nat
  /\ Offsets \subseteq Int /\ MAX_AGE \in Nat /\ MAX_GAP \in Nat
  /\ MAX_RESTARTS \in Nat

\* What a streak of agreeing readings rests on: the engine polls at least once
\* in the time a frozen quote needs to drift from one whole hour to the next, and
\* asks for agreement over a longer time than a quote stays near one of them.
ASSUME PollingAssumption ==
  /\ MAX_GAP + TOLERANCE < HOUR
  /\ 2 * TOLERANCE < OFFSET_CONFIRMATION

VARIABLES
  offset,          \* the broker's true offset now
  tick_offset,     \* the offset when the newest quote was stamped
  age,             \* the age of the newest quote
  gap,             \* time since the last poll
  state,           \* the engine's record: current, pending, count
  held,            \* time since pending_offset_since
  saved,           \* the same record and time in meanrev_state.json
  saved_held,
  connector,       \* MT5Connector._server_offset_hours
  sent_age         \* the age of the quote an order was just sent on, or -1

\* Kept for the properties and the bound only: the pending offset was begun
\* before a restart; this process measured a quote most of an hour old, or lived
\* through a change of the broker's clock; the restarts so far.
VARIABLES restored, misled, restarts

vars == <<offset, tick_offset, age, gap, state, held, saved, saved_held,
          connector, sent_age, restored, misled, restarts>>

Unknown == 1000   \* None, of an offset
NotSent == -1

NoPending == [pending |-> Unknown, count |-> 0]
Readings  == {Unknown} \cup {o - h : o \in Offsets, h \in 0..(MAX_AGE \div HOUR + 1)}
\* What a record can say, in memory and on file: a pending offset and its count
\* come and go together, and what is pending differs from an offset that is known.
Records   ==
  {r \in [current : Readings, pending : Readings, count : 0..OFFSET_CONFIRMATIONS_REQUIRED] :
     /\ r.pending = Unknown <=> r.count = 0
     /\ r.pending # Unknown => r.current \notin {Unknown, r.pending}}
InitialRecord == [current |-> Unknown, pending |-> Unknown, count |-> 0]

TypeOK ==
  /\ offset \in Offsets /\ tick_offset \in Offsets
  /\ age \in 0..MAX_AGE /\ gap \in 0..MAX_GAP
  /\ state \in Records /\ saved \in Records
  /\ held \in 0..OFFSET_CONFIRMATION /\ saved_held \in 0..OFFSET_CONFIRMATION
  /\ connector \in Readings
  /\ sent_age \in {NotSent} \cup 0..MAX_AGE
  /\ restored \in BOOLEAN /\ misled \in BOOLEAN /\ restarts \in 0..MAX_RESTARTS

Init ==
  /\ offset \in Offsets /\ tick_offset = offset /\ age = 0 /\ gap = 0
  /\ state = InitialRecord /\ held = 0
  /\ saved = InitialRecord /\ saved_held = 0
  /\ connector = Unknown /\ sent_age = NotSent /\ restored = FALSE
  /\ misled = FALSE /\ restarts = 0

-----------------------------------------------------------------------------
(* The reading.                                                             *)

\* The whole hours nearest to a delay, and how far the delay is from them.
HoursOf(a) == (2 * a + HOUR) \div (2 * HOUR)
OffWholeHour(a) == LET d == a - HOUR * HoursOf(a) IN IF d < 0 THEN -d ELSE d

\* server_utc_offset_hours: the quote is `age` old, so the offset it implies
\* is too small by that much.
Reading ==
  IF OffWholeHour(age) <= TOLERANCE THEN tick_offset - HoursOf(age) ELSE Unknown

\* A measurement that takes an old quote for a fresh one.
ReadsOld == Reading # Unknown /\ HoursOf(age) # 0

-----------------------------------------------------------------------------
(* refresh_server_offset.                                                   *)

CountOnlyConfirmed(count, span) == count >= OFFSET_CONFIRMATIONS_REQUIRED
\* Enough agreeing readings over enough time.
Confirmed(count, span) ==
  /\ count >= OFFSET_CONFIRMATIONS_REQUIRED
  /\ span >= OFFSET_CONFIRMATION

\* The streak is broken by its count only.
BrokenCountOnly(st) == [st EXCEPT !.count = 0]
\* An unusable or agreeing reading breaks the streak.
Broken(st) == [st EXCEPT !.pending = Unknown, !.count = 0]

\* The record and the pending time after a reading m.
CountNeverGrows(st, m) == 1
CountAfter(st, m) == IF st.pending = m THEN st.count + 1 ELSE 1
SpanAfter(st, h, m) == IF st.pending = m THEN h ELSE 0
Capped(n) ==
  IF n > OFFSET_CONFIRMATIONS_REQUIRED THEN OFFSET_CONFIRMATIONS_REQUIRED ELSE n

Refreshed(st, h, m) ==
  CASE m = Unknown -> Broken(st)
    [] m # Unknown /\ st.current = Unknown -> [st EXCEPT !.current = m]
    [] m # Unknown /\ st.current = m -> Broken(st)
    [] OTHER ->
         IF Confirmed(CountAfter(st, m), SpanAfter(st, h, m))
         THEN [current |-> m, pending |-> Unknown, count |-> 0]
         ELSE [st EXCEPT !.pending = m, !.count = Capped(CountAfter(st, m))]

\* One poll.  A reading that is accepted is also the connector's own.
Poll ==
  /\ LET after == Refreshed(state, held, Reading) IN
       /\ state' = after
       /\ held' = IF after.pending = Unknown THEN 0
                  ELSE SpanAfter(state, held, Reading)
       /\ restored' = (restored /\ after.pending = state.pending
                                /\ after.pending # Unknown)
  /\ connector' = IF Reading = Unknown THEN connector ELSE Reading
  /\ misled' = (misled \/ ReadsOld)
  /\ gap' = 0
  /\ sent_age' = NotSent
  /\ UNCHANGED <<offset, tick_offset, age, saved, saved_held, restarts>>

\* save_state, at the end of a cycle inside an entry window.
Save ==
  /\ gap = 0
  /\ saved' = state /\ saved_held' = held
  /\ UNCHANGED <<offset, tick_offset, age, gap, state, held, connector, sent_age,
                 restored, misled, restarts>>

\* The process ends and a new one loads the file; its connector is new too.
Restart ==
  /\ restarts < MAX_RESTARTS /\ restarts' = restarts + 1
  /\ state' = saved /\ held' = saved_held
  /\ connector' = Unknown
  /\ restored' = (saved.pending # Unknown)
  /\ misled' = FALSE
  /\ gap' = 0
  /\ sent_age' = NotSent
  /\ UNCHANGED <<offset, tick_offset, age, saved, saved_held>>

-----------------------------------------------------------------------------
(* The stale-quote guard.                                                   *)

\* The guard as first written (its own comment tells of it) took no account of
\* the broker's clock.
ApparentAgeUncorrected(o) == age - tick_offset * HOUR
\* broker_now - tick.time, with the offset the connector last measured; when it
\* has none, one more measurement is tried.
GuardOffset == IF connector # Unknown THEN connector ELSE Reading
ApparentAge(o) == age + (o - tick_offset) * HOUR

\* An unknown clock skips the check rather than guessing.
QuoteAccepted == GuardOffset # Unknown => ApparentAge(GuardOffset) <= MAX_TICK_AGE

\* An order is attempted in the cycle that just polled.
Order ==
  /\ gap = 0
  /\ QuoteAccepted
  /\ sent_age' = age
  /\ connector' = GuardOffset
  /\ misled' = (misled \/ (connector = Unknown /\ ReadsOld))
  /\ UNCHANGED <<offset, tick_offset, age, gap, state, held, saved, saved_held,
                 restored, restarts>>

-----------------------------------------------------------------------------
(* Time and the feed.                                                       *)

OneLater(t) == IF t < OFFSET_CONFIRMATION THEN t + 1 ELSE t

TimePasses ==
  /\ gap < MAX_GAP
  /\ gap' = gap + 1
  /\ held' = IF state.pending = Unknown THEN 0 ELSE OneLater(held)
  /\ saved_held' = IF saved.pending = Unknown THEN 0 ELSE OneLater(saved_held)
  /\ sent_age' = NotSent
  /\ UNCHANGED <<state, saved, connector, restored, restarts>>

\* Five minutes with quotes.
Live ==
  /\ TimePasses
  /\ age' = 0 /\ tick_offset' = offset
  /\ misled' = (misled \/ tick_offset # offset)
  /\ UNCHANGED offset

\* Five minutes without one.
Frozen ==
  /\ age < MAX_AGE
  /\ TimePasses
  /\ age' = age + 1
  /\ UNCHANGED <<offset, tick_offset, misled>>

\* The broker's clock changes: the EET daylight-saving switch, or another
\* server.  The stamp of an older quote stays what it was.
ClockChange ==
  /\ offset' \in Offsets \ {offset}
  /\ UNCHANGED <<tick_offset, age, gap, state, held, saved, saved_held, connector,
                 sent_age, restored, misled, restarts>>

Next == Poll \/ Save \/ Restart \/ Order \/ Live \/ Frozen \/ ClockChange

Spec == Init /\ [][Next]_vars

\* The engine polls, and time goes on.
FairSpec == Spec /\ WF_vars(Poll) /\ WF_vars(Live \/ Frozen)

-----------------------------------------------------------------------------
(* Properties.                                                              *)

\* While a process lives (a restart forgets the connector's reading), a known
\* offset is replaced only by one read off a fresh quote: a frozen
\* quote, whose implied offset drifts, is never taken for a clock change, as
\* long as polls come more often than the drift needs to return and the streak
\* was begun by this process.
NoFalseChange ==
  [][ (state.current # Unknown /\ state'.current # state.current
         /\ connector' # Unknown /\ ~restored)
      => /\ state'.current = tick_offset
         /\ age <= TOLERANCE ]_vars

\* What the stale-quote guard really keeps out: once a process has measured the
\* broker's clock, an order goes out on a stale quote only if this process took a
\* quote frozen for most of an hour for a fresh one, or the clock changed under
\* it.  Nothing a former process measured can deceive a new one.
StaleQuoteNeedsCause ==
  (sent_age > MAX_TICK_AGE /\ connector # Unknown) => misled

\* demo_order_executor.py:62: "refuse orders when the freshest tick is older
\* than this", once the broker's clock was measured.  The code does not keep
\* this: the measurement it uses may come from the frozen quote itself.
StaleQuoteRefused ==
  (sent_age # NotSent /\ connector # Unknown) => sent_age <= MAX_TICK_AGE

\* A real change lands: once the clock stays and the feed stays live, the
\* engine's offset becomes the broker's and stays so.
ChangeLands ==
  \A o \in Offsets :
    <>[](offset = o /\ tick_offset = o /\ age = 0) => <>[](state.current = o)
=============================================================================
