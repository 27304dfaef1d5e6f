------------------------- MODULE ServerClock_proofs -------------------------
(***************************************************************************)
(* Proofs about ServerClock, for any length of the hour, any tolerance and   *)
(* thresholds, any offsets and any bounds.                                   *)
(*                                                                          *)
(* Two inductive invariants carry them.  Trusted: what the connector holds  *)
(* is the offset of the newest quote, unless this process was misled.        *)
(* Streak: a pending offset begun by this process was read off the quote     *)
(* that was the newest at the last poll, and, if that one was hours old, it  *)
(* has been pending no longer than a frozen quote stays near a whole hour.   *)
(***************************************************************************)
EXTENDS ServerClock, TLAPS

-----------------------------------------------------------------------------
(* The reading.                                                             *)

\* A quotient lies where it should.
LEMMA Quotient ==
  ASSUME NEW n \in Nat, NEW d \in Nat \ {0}
  PROVE  n \div d \in Nat /\ d * (n \div d) <= n /\ n < d * (n \div d) + d
OBVIOUS

LEMMA HoursBounded ==
  ASSUME NEW a \in 0..MAX_AGE
  PROVE  HoursOf(a) \in 0..(MAX_AGE \div HOUR + 1)
<1> DEFINE h == HoursOf(a)  q == MAX_AGE \div HOUR
<1>1. HOUR \in Nat \ {0} /\ MAX_AGE \in Nat /\ 2 * a + HOUR \in Nat /\ 2 * HOUR \in Nat \ {0}
  BY ServerClockAssumption
<1>2. h \in Nat /\ (2 * HOUR) * h <= 2 * a + HOUR
  BY <1>1, Quotient DEF HoursOf
<1>3. q \in Nat /\ MAX_AGE < HOUR * q + HOUR
  BY <1>1, Quotient
<1> HIDE DEF h, q
<1>4. ASSUME h > q + 1 PROVE FALSE
  <2>1. HOUR * h >= HOUR * (q + 2)
    BY <1>1, <1>2, <1>3, <1>4
  <2>2. HOUR * (q + 2) = HOUR * q + HOUR + HOUR
    BY <1>1, <1>3
  <2>3. (2 * HOUR) * h = 2 * (HOUR * h)
    BY <1>1, <1>2
  <2>4. HOUR * h \in Nat /\ HOUR * q \in Nat
    BY <1>1, <1>2, <1>3
  <2> QED
    BY <1>1, <1>2, <1>3, <2>1, <2>2, <2>3, <2>4
<1>5. h \in 0..(q + 1)
  BY <1>2, <1>3, <1>4
<1> QED
  BY <1>5 DEF h, q

LEMMA UnknownReading == Unknown \in Readings
BY DEF Readings

LEMMA ReadingType ==
  ASSUME TypeOK
  PROVE  Reading \in Readings
<1>1. HoursOf(age) \in 0..(MAX_AGE \div HOUR + 1)
  BY HoursBounded DEF TypeOK
<1>2. tick_offset - HoursOf(age) \in Readings
  BY <1>1 DEF Readings, TypeOK
<1> QED
  BY <1>2 DEF Reading, Readings

\* A reading is taken near a whole number of hours, and is short by that many.
LEMMA ReadingOff ==
  ASSUME TypeOK, Reading # Unknown
  PROVE  /\ HoursOf(age) \in Nat /\ HOUR * HoursOf(age) \in Nat
         /\ Reading = tick_offset - HoursOf(age)
         /\ age - HOUR * HoursOf(age) <= TOLERANCE
         /\ HOUR * HoursOf(age) - age <= TOLERANCE
         /\ HoursOf(age) # 0 => HOUR * HoursOf(age) >= HOUR
<1>1. HoursOf(age) \in Nat
  BY HoursBounded, ServerClockAssumption DEF TypeOK
<1>2. OffWholeHour(age) <= TOLERANCE /\ Reading = tick_offset - HoursOf(age)
  BY DEF Reading
<1> DEFINE h == HoursOf(age)  w == HOUR * h
<1>3. w \in Nat /\ (h # 0 => w >= HOUR)
  BY <1>1, ServerClockAssumption
<1>4. OffWholeHour(age) = IF age - w < 0 THEN -(age - w) ELSE age - w
  BY DEF OffWholeHour
<1> HIDE DEF h, w
<1>5. age - w <= TOLERANCE /\ w - age <= TOLERANCE
  BY <1>2, <1>3, <1>4, ServerClockAssumption DEF TypeOK
<1> QED
  BY <1>1, <1>2, <1>3, <1>5 DEF h, w

-----------------------------------------------------------------------------
(* Types.                                                                   *)

LEMMA RefreshedType ==
  ASSUME NEW st \in Records, NEW h \in 0..OFFSET_CONFIRMATION, NEW m \in Readings
  PROVE  Refreshed(st, h, m) \in Records
<1> USE ServerClockAssumption DEF Records
<1>1. Unknown \in Readings /\ 0 \in 0..OFFSET_CONFIRMATIONS_REQUIRED
  BY UnknownReading
<1>2. Broken(st) \in Records
  BY <1>1 DEF Broken
<1>3. Capped(CountAfter(st, m)) \in 1..OFFSET_CONFIRMATIONS_REQUIRED
  BY DEF Capped, CountAfter
<1>4. [current |-> m, pending |-> Unknown, count |-> 0] \in Records
  BY <1>1
<1>5. ASSUME m # Unknown, st.current # Unknown, st.current # m
      PROVE  [st EXCEPT !.pending = m, !.count = Capped(CountAfter(st, m))] \in Records
  <2> DEFINE c == Capped(CountAfter(st, m))  after == [st EXCEPT !.pending = m, !.count = c]
  <2>1. c \in 0..OFFSET_CONFIRMATIONS_REQUIRED /\ c # 0
    BY <1>3
  <2> HIDE DEF c
  <2>2. after \in [current : Readings, pending : Readings,
                   count : 0..OFFSET_CONFIRMATIONS_REQUIRED]
    BY <2>1
  <2>3. after.current = st.current /\ after.pending = m /\ after.count = c
    OBVIOUS
  <2> QED
    BY <1>5, <2>1, <2>2, <2>3 DEF c
<1>6. ASSUME st.current = Unknown PROVE [st EXCEPT !.current = m] \in Records
  BY <1>6
<1> QED
  BY <1>2, <1>4, <1>5, <1>6 DEF Refreshed

LEMMA ClockTypeInit == Init => TypeOK
<1>1. InitialRecord \in Records
  BY UnknownReading, ServerClockAssumption DEF InitialRecord, Records
<1>2. ASSUME Init PROVE restored \in BOOLEAN /\ misled \in BOOLEAN
  BY <1>2 DEF Init
<1>3. /\ 0 \in 0..MAX_AGE /\ 0 \in 0..MAX_GAP /\ 0 \in 0..OFFSET_CONFIRMATION
      /\ 0 \in 0..MAX_RESTARTS
  BY ServerClockAssumption
<1> QED
  BY <1>1, <1>2, <1>3, UnknownReading DEF Init, TypeOK

LEMMA ClockTypeStep ==
  ASSUME TypeOK, [Next]_vars
  PROVE  TypeOK'
<1> USE ServerClockAssumption
<1>1. CASE Poll
  <2>1. state' \in Records
    BY <1>1, RefreshedType, ReadingType DEF Poll, TypeOK
  <2>2. held' \in 0..OFFSET_CONFIRMATION
    BY <1>1 DEF Poll, TypeOK, SpanAfter
  <2>3. connector' \in Readings
    BY <1>1, ReadingType DEF Poll, TypeOK
  <2>4. restored' \in BOOLEAN /\ misled' \in BOOLEAN
    BY <1>1 DEF Poll, TypeOK, ReadsOld
  <2>5. /\ UNCHANGED <<offset, tick_offset, age, saved, saved_held, restarts>>
        /\ gap' = 0 /\ sent_age' = NotSent
    BY <1>1 DEF Poll
  <2> QED
    BY <2>1, <2>2, <2>3, <2>4, <2>5 DEF TypeOK
<1>2. CASE Save
  BY <1>2 DEF Save, TypeOK
<1>3. CASE Restart
  <2>1. restored' \in BOOLEAN /\ misled' \in BOOLEAN
    BY <1>3 DEF Restart
  <2>2. 0 \in 0..MAX_GAP /\ restarts' \in 0..MAX_RESTARTS
    BY <1>3 DEF Restart, TypeOK
  <2> QED
    BY <1>3, <2>1, <2>2, UnknownReading DEF Restart, TypeOK
<1>4. CASE Order
  <2>1. connector' \in Readings
    BY <1>4, ReadingType DEF Order, GuardOffset, TypeOK
  <2>2. misled' \in BOOLEAN
    BY <1>4 DEF Order, TypeOK, ReadsOld
  <2> QED
    BY <1>4, <2>1, <2>2 DEF Order, TypeOK
<1>5. ASSUME TimePasses
      PROVE  /\ held' \in 0..OFFSET_CONFIRMATION /\ saved_held' \in 0..OFFSET_CONFIRMATION
             /\ gap' \in 0..MAX_GAP
  BY <1>5 DEF TimePasses, OneLater, TypeOK
<1>6. CASE Live
  BY <1>6, <1>5 DEF Live, TimePasses, TypeOK
<1>7. CASE Frozen
  BY <1>7, <1>5 DEF Frozen, TimePasses, TypeOK
<1>8. CASE ClockChange
  BY <1>8 DEF ClockChange, TypeOK
<1>9. CASE UNCHANGED vars
  BY <1>9 DEF vars, TypeOK
<1> QED
  BY <1>1, <1>2, <1>3, <1>4, <1>6, <1>7, <1>8, <1>9 DEF Next

\* Every offset the engine records, saves or corrects the clock by is one that a
\* quote of some age can imply; and a pending offset is always one that differs
\* from a known one, and comes and goes with its count, in memory and on file.
THEOREM ClockTypes == Spec => []TypeOK
BY ClockTypeInit, ClockTypeStep, PTL DEF Spec

-----------------------------------------------------------------------------
(* The stale-quote guard.                                                   *)

\* What the connector holds is the newest quote's own offset, unless this process
\* took an old quote for a fresh one or lived through a change of the clock.
Trusted == (connector # Unknown /\ ~misled) => connector = tick_offset

LEMMA TrustedStep ==
  ASSUME TypeOK, Trusted, StaleQuoteNeedsCause, [Next]_vars
  PROVE  Trusted' /\ StaleQuoteNeedsCause'
<1> USE DEF Trusted, StaleQuoteNeedsCause
<1>1. ASSUME Reading # Unknown, ~ReadsOld PROVE Reading = tick_offset
  BY <1>1, ReadingOff, ServerClockAssumption DEF ReadsOld, TypeOK
<1>2. MAX_TICK_AGE \in Nat
  BY ServerClockAssumption
<1>3. CASE Poll
  <2>1. ~(sent_age' > MAX_TICK_AGE)
    BY <1>2, <1>3 DEF Poll, NotSent
  <2>2. Trusted'
    BY <1>1, <1>3 DEF Poll
  <2> QED
    BY <2>1, <2>2
<1>4. CASE Save
  BY <1>4 DEF Save
<1>5. CASE Restart
  BY <1>5 DEF Restart
<1>6. CASE Order
  <2>1. Trusted'
    BY <1>1, <1>6 DEF Order, GuardOffset
  <2>2. ASSUME connector' # Unknown, ~misled' PROVE sent_age' <= MAX_TICK_AGE
    <3>1. connector' = GuardOffset /\ GuardOffset = tick_offset
      BY <2>1, <2>2, <1>6 DEF Order
    <3>2. ApparentAge(GuardOffset) = age
      BY <3>1, ServerClockAssumption DEF ApparentAge, TypeOK
    <3> QED
      BY <2>2, <3>1, <3>2, <1>6 DEF Order, QuoteAccepted
  <2>3. sent_age' \in Int
    BY <1>6 DEF Order, TypeOK
  <2> QED
    BY <1>2, <2>1, <2>2, <2>3
<1>7. CASE Live
  <2>1. ~(sent_age' > MAX_TICK_AGE)
    BY <1>7, <1>2 DEF Live, TimePasses, NotSent
  <2>2. Trusted'
    BY <1>7 DEF Live, TimePasses
  <2> QED
    BY <2>1, <2>2
<1>8. CASE Frozen
  BY <1>8, <1>2 DEF Frozen, TimePasses, NotSent
<1>9. CASE ClockChange
  BY <1>9 DEF ClockChange
<1>10. CASE UNCHANGED vars
  BY <1>10 DEF vars
<1> QED
  BY <1>3, <1>4, <1>5, <1>6, <1>7, <1>8, <1>9, <1>10 DEF Next

\* An order goes out on a stale quote, past a measured clock, only if this process
\* was misled about the clock itself.
THEOREM StaleQuote == Spec => []StaleQuoteNeedsCause
<1>1. Init => Trusted /\ StaleQuoteNeedsCause
  BY DEF Init, Trusted, StaleQuoteNeedsCause
<1> QED
  BY <1>1, TrustedStep, ClockTypes, PTL DEF Spec

-----------------------------------------------------------------------------
(* The change of the offset.                                                *)

\* A pending offset of this process was read off the quote that was the newest
\* at the last poll, unless that one has been replaced since; and if it was hours
\* old, the streak is no older than its stay near that whole hour.
\* The pending offset p was read off a quote of age q, stamped at offset o and now
\* of age a, no longer than its stay near the hour ago.
ReadOff(p, o, q, a, span) ==
  /\ p = o - HoursOf(q)
  /\ HoursOf(q) # 0 => span <= a - HOUR * HoursOf(q) + TOLERANCE

Streak ==
  (state.pending # Unknown /\ ~restored /\ gap <= age) =>
    ReadOff(state.pending, tick_offset, age - gap, age, held)

\* A reading of hours ago that the pending offset agrees with came early enough
\* in the quote's stay near that hour: the streak cannot be long.
LEMMA OldStreakIsShort ==
  ASSUME TypeOK, Streak, ~restored,
         Reading # Unknown, state.pending = Reading, HoursOf(age) # 0
  PROVE  held <= age - HOUR * HoursOf(age) + TOLERANCE /\ held < OFFSET_CONFIRMATION
<1> DEFINE w == HOUR * HoursOf(age)
<1>1. /\ HoursOf(age) \in Nat /\ w \in Nat /\ Reading = tick_offset - HoursOf(age)
      /\ age - w <= TOLERANCE /\ w - age <= TOLERANCE /\ w >= HOUR
  BY ReadingOff
<1>2. /\ age \in Nat /\ gap \in Nat /\ gap <= MAX_GAP /\ held \in Nat
      /\ tick_offset \in Int /\ age - gap <= MAX_AGE
  BY ServerClockAssumption DEF TypeOK
<1>3. gap <= age
  BY <1>1, <1>2, ServerClockAssumption, PollingAssumption
<1>4. age - gap \in 0..MAX_AGE
  BY <1>2, <1>3, ServerClockAssumption
<1>5. HoursOf(age - gap) \in Nat
  BY <1>4, HoursBounded, ServerClockAssumption
<1>6. HoursOf(age - gap) = HoursOf(age)
  BY <1>1, <1>2, <1>3, <1>5 DEF Streak, ReadOff
<1>7. held <= age - w + TOLERANCE
  BY <1>3, <1>6 DEF Streak, ReadOff
<1> HIDE DEF w
<1>8. held < OFFSET_CONFIRMATION
  BY <1>1, <1>2, <1>7, ServerClockAssumption, PollingAssumption
<1> QED
  BY <1>7, <1>8 DEF w

\* Nothing is pending before an offset is known.
KnownFirst ==
  /\ state.current = Unknown => state.pending = Unknown
  /\ saved.current = Unknown => saved.pending = Unknown

\* What a poll does to the pending offset.
LEMMA PendingAfter ==
  ASSUME TypeOK, KnownFirst, Poll, state'.pending # Unknown
  PROVE  /\ Reading # Unknown /\ state'.pending = Reading /\ state'.current = state.current
         /\ state.current # Unknown
         /\ held' = IF state.pending = Reading THEN held ELSE 0
         /\ restored' = (restored /\ state.pending = Reading)
<1>1. state' = Refreshed(state, held, Reading) /\ state \in Records
  BY DEF Poll, TypeOK
<1>2. /\ Reading # Unknown /\ state.current # Unknown
      /\ state' = [state EXCEPT !.pending = Reading, !.count = Capped(CountAfter(state, Reading))]
  BY <1>1 DEF Refreshed, Broken, Records, KnownFirst
<1>3. state'.pending = Reading /\ state'.current = state.current
  BY <1>1, <1>2 DEF Records
<1>4. held' = SpanAfter(state, held, Reading)
  BY <1>1, <1>2, <1>3 DEF Poll
<1>5. restored' = (restored /\ state'.pending = state.pending /\ state'.pending # Unknown)
  BY <1>1 DEF Poll
<1> QED
  BY <1>2, <1>3, <1>4, <1>5 DEF SpanAfter

LEMMA KnownFirstStep ==
  ASSUME TypeOK, KnownFirst, [Next]_vars
  PROVE  KnownFirst'
<1> USE DEF KnownFirst
<1>1. CASE Poll
  BY <1>1, PendingAfter DEF Poll
<1>2. CASE Save \/ Restart
  BY <1>2 DEF Save, Restart
<1>3. CASE Order \/ Live \/ Frozen \/ ClockChange \/ UNCHANGED vars
  BY <1>3 DEF Order, Live, Frozen, TimePasses, ClockChange, vars
<1> QED
  BY <1>1, <1>2, <1>3 DEF Next

LEMMA StreakStep ==
  ASSUME TypeOK, KnownFirst, Streak, [Next]_vars
  PROVE  Streak'
<1>1. CASE Poll
  <2> SUFFICES ASSUME state'.pending # Unknown, ~restored'
               PROVE  ReadOff(state'.pending, tick_offset, age, age, held')
    <3>1. age' = age /\ tick_offset' = tick_offset /\ gap' = 0 /\ age - 0 = age
      BY <1>1 DEF Poll, TypeOK
    <3> QED
      BY <3>1 DEF Streak
  <2> USE DEF ReadOff
  <2>1. Reading # Unknown /\ state'.pending = Reading
    BY <1>1, PendingAfter
  <2>2. CASE state.pending = Reading
    <3>1. ~restored /\ held' = held
      BY <1>1, <2>2, PendingAfter
    <3> QED
      BY <2>1, <2>2, <3>1, ReadingOff, OldStreakIsShort
  <2>3. CASE state.pending # Reading
    <3>1. held' = 0
      BY <1>1, <2>3, PendingAfter
    <3> QED
      BY <2>1, <3>1, ReadingOff, ServerClockAssumption DEF TypeOK
  <2> QED
    BY <2>2, <2>3
<1>2. CASE Frozen
  <2>1. age' - gap' = age - gap /\ held' <= held + 1 /\ age' = age + 1 /\ gap' = gap + 1
    BY <1>2 DEF Frozen, TimePasses, OneLater, TypeOK
  <2>2. UNCHANGED <<state, restored, tick_offset>>
    BY <1>2 DEF Frozen, TimePasses
  <2>3. gap' <= age' => gap <= age
    BY <2>1 DEF TypeOK
  <2> SUFFICES ASSUME state.pending # Unknown, ~restored, gap <= age
               PROVE  ReadOff(state.pending, tick_offset, age - gap, age + 1, held')
    BY <2>1, <2>2, <2>3 DEF Streak
  <2> USE DEF ReadOff
  <2> DEFINE h == HoursOf(age - gap)  w == HOUR * h
  <2>4. w \in Nat
    <3>1. h \in Nat
      BY HoursBounded, ServerClockAssumption DEF TypeOK
    <3> QED
      BY <3>1, ServerClockAssumption
  <2>5. state.pending = tick_offset - h /\ (h # 0 => held <= age - w + TOLERANCE)
    BY DEF Streak
  <2>6. held' \in Int /\ held \in Int /\ age \in Int /\ TOLERANCE \in Int
    BY <1>2, ServerClockAssumption DEF Frozen, TimePasses, OneLater, TypeOK
  <2> HIDE DEF h, w
  <2>7. h # 0 => held' <= (age + 1) - w + TOLERANCE
    BY <2>1, <2>4, <2>5, <2>6
  <2> QED
    BY <2>5, <2>7 DEF h, w
<1>3. CASE Live
  <2>1. age' = 0 /\ gap' = gap + 1
    BY <1>3 DEF Live, TimePasses
  <2>2. gap \in Nat
    BY ServerClockAssumption DEF TypeOK
  <2>3. ~(gap' <= age')
    BY <2>1, <2>2
  <2> QED
    BY <2>3 DEF Streak
<1>4. CASE Restart
  BY <1>4 DEF Restart, Streak
<1>5. CASE Save \/ Order \/ ClockChange \/ UNCHANGED vars
  BY <1>5 DEF Save, Order, ClockChange, vars, Streak
<1> QED
  BY <1>1, <1>2, <1>3, <1>4, <1>5 DEF Next

LEMMA StreakHolds == Spec => [](TypeOK /\ KnownFirst /\ Streak)
<1>1. Init => KnownFirst /\ Streak
  BY DEF Init, InitialRecord, KnownFirst, Streak
<1> QED
  BY <1>1, KnownFirstStep, StreakStep, ClockTypes, PTL DEF Spec

LEMMA ChangeIsTrue ==
  ASSUME TypeOK, KnownFirst, Streak, [Next]_vars,
         state.current # Unknown, state'.current # state.current,
         connector' # Unknown, ~restored
  PROVE  state'.current = tick_offset /\ age <= TOLERANCE
<1>1. ~(Restart \/ Save \/ Order \/ Live \/ Frozen \/ ClockChange \/ UNCHANGED vars)
  BY DEF Restart, Save, Order, Live, Frozen, TimePasses, ClockChange, vars
<1>2. Poll
  BY <1>1 DEF Next
<1>3. state' = Refreshed(state, held, Reading) /\ state \in Records
  BY <1>2 DEF Poll, TypeOK
<1>4. /\ Reading # Unknown /\ state'.current = Reading
      /\ Confirmed(CountAfter(state, Reading), SpanAfter(state, held, Reading))
  BY <1>3 DEF Refreshed, Broken, Records
<1>5. state.pending = Reading /\ held >= OFFSET_CONFIRMATION
  BY <1>4, ServerClockAssumption, PollingAssumption DEF Confirmed, SpanAfter
<1>6. HoursOf(age) = 0
  BY <1>4, <1>5, OldStreakIsShort, ServerClockAssumption DEF TypeOK
<1> QED
  BY <1>4, <1>6, ReadingOff, ServerClockAssumption DEF TypeOK

\* A frozen quote is never taken for a change of the broker's clock, whatever the
\* tolerance and the interval of the polls, within the assumption.
THEOREM OffsetChange == Spec => NoFalseChange
<1>1. ASSUME TypeOK, KnownFirst, Streak, [Next]_vars
      PROVE  [(state.current # Unknown /\ state'.current # state.current
                 /\ connector' # Unknown /\ ~restored)
               => /\ state'.current = tick_offset
                  /\ age <= TOLERANCE]_vars
  BY <1>1, ChangeIsTrue
<1> QED
  BY <1>1, StreakHolds, PTL DEF Spec, NoFalseChange
=============================================================================
