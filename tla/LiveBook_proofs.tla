--------------------------- MODULE LiveBook_proofs ---------------------------
(***************************************************************************)
(* Proofs about LiveBook, for any number of symbols, any windows and any     *)
(* limits.                                                                  *)
(*                                                                          *)
(* None of the properties is inductive alone.  They rest on four facts:      *)
(* what an order in flight is (Submitting), what a cycle still has to do     *)
(* (CycleInv), when the book in memory and the book on disk may differ       *)
(* (DiskInv), and that a position's counter, together with the days it was   *)
(* not evaluated on, never exceeds its nights (Calendar).                    *)
(***************************************************************************)
EXTENDS MCLiveBook, FiniteSetTheorems, TLAPS

\* Between cycles, and for what a cycle has not processed yet, the disk holds
\* the same positions as the memory.
DiskInv ==
  \A s \in SYMBOLS \ loose :
    \/ pc = "sleeping"
    \/ s \in todo
    \/ pc = "submitting" /\ s = sym
    => (s \in Open(held_days) <=> s \in Open(disk.held_days))

\* The evaluations counted and the nights not evaluated fit in the nights.
Fits(h, p, n) == h + p <= n \/ n = MAX_HOLD_DAYS

Calendar ==
  \A s \in SYMBOLS \ loose :
    /\ s \in Open(held_days) => Fits(held_days[s], last_processed[s], nights[s])
    /\ s \in Open(disk.held_days)
         => Fits(disk.held_days[s], disk.last_processed[s], nights[s])

-----------------------------------------------------------------------------
(* Types.                                                                   *)

\* The values the book and the dates are changed to.
LEMMA EmptyTypes == EmptyBook \in Holdings /\ NeverDone \in Dates
BY DEF EmptyBook, NeverDone, Holdings, Dates, Old

LEMMA BookChange ==
  ASSUME NEW h \in Holdings, NEW s \in SYMBOLS, NEW d \in {NotHeld} \cup Nat
  PROVE  [h EXCEPT ![s] = d] \in Holdings
BY DEF Holdings

LEMMA OlderDates ==
  ASSUME NEW p \in Dates
  PROVE  OneNightOlder(p) \in Dates
BY DEF Dates, OneNightOlder, Old

LEMMA MarkedType ==
  ASSUME Typed, NEW s \in SYMBOLS
  PROVE  Marked(s) \in Dates
<1>1. CycleDate \in 0..Old
  BY DEF CycleDate, Old
<1>2. QED
  BY <1>1 DEF Typed, Marked, Dates

\* Nights of the positions, whatever a save forgets of them.
LEMMA NightsType ==
  ASSUME Typed
  PROVE  NightsOfBook \in [SYMBOLS -> 0..MAX_HOLD_DAYS]
BY LiveBookAssumption DEF Typed, NightsOfBook

LEMMA TypeInit == Init => Typed /\ Submitting
<1> SUFFICES ASSUME Init PROVE Typed /\ Submitting
  OBVIOUS
<1> USE LiveBookAssumption DEF Init
<1>1. slot \in 0..LAST_SLOT /\ ends \in 0..MAX_ENDS
  OBVIOUS
<1>2. disk \in [held_days : Holdings, last_processed : Dates]
  BY EmptyTypes
<1>3. /\ account \in [SYMBOLS -> 0..MAX_PER_SYMBOL]
      /\ nights \in [SYMBOLS -> 0..MAX_HOLD_DAYS]
  OBVIOUS
<1>4. QED
  BY <1>1, <1>2, <1>3, EmptyTypes DEF Typed, Submitting

\* Every step keeps the types; an order in flight is for one of the symbols.
LEMMA TypeStep ==
  ASSUME Typed, Submitting, [Next]_vars
  PROVE  Typed'
<1> USE LiveBookAssumption DEF Typed, engine, world, ghosts
<1>1. CASE Start
  BY <1>1 DEF Start
<1>2. CASE StartUnreadable
  <2>1. loose' \subseteq SYMBOLS
    BY <1>2 DEF StartUnreadable, Open
  <2>2. ends' \in 0..MAX_ENDS
    BY <1>2 DEF StartUnreadable
  <2>3. QED
    BY <1>2, <2>1, <2>2, EmptyTypes DEF StartUnreadable
<1>3. CASE Die
  <2>1. loose' \subseteq SYMBOLS
    BY <1>3 DEF Die, Unsaved
  <2>2. ends' \in 0..MAX_ENDS
    BY <1>3 DEF Die
  <2>3. QED
    BY <1>3, <2>1, <2>2, EmptyTypes DEF Die, Gone
<1>4. CASE Interrupt
  <2>1. ends' \in 0..MAX_ENDS
    BY <1>4 DEF Interrupt
  <2>2. disk' \in [held_days : Holdings, last_processed : Dates]
    BY <1>4 DEF Interrupt, Saved
  <2>3. QED
    BY <1>4, <2>1, <2>2, EmptyTypes, NightsType DEF Interrupt, Gone
<1>5. CASE BeginCycle
  BY <1>5 DEF BeginCycle, Eligible
<1>6. CASE Save
  BY <1>6, NightsType DEF Save, Saved
<1>7. CASE Filled
  <2>1. sym \in SYMBOLS
    BY <1>7 DEF Filled, Submitting
  <2>2. held_days' \in Holdings
    BY <1>7, <2>1 DEF Filled, Holdings
  <2>3. account' \in [SYMBOLS -> 0..MAX_PER_SYMBOL]
    BY <1>7, <2>1 DEF Filled
  <2>4. nights' \in [SYMBOLS -> 0..MAX_HOLD_DAYS]
    BY <1>7, <2>1 DEF Filled, CycleDate
  <2>5. QED
    BY <1>7, <2>2, <2>3, <2>4 DEF Filled
<1>8. CASE Rejected
  BY <1>8 DEF Rejected, AfterRefusal
<1>9. CASE FilledUnreported
  <2>1. sym \in SYMBOLS
    BY <1>9 DEF FilledUnreported, Submitting
  <2>2. account' \in [SYMBOLS -> 0..MAX_PER_SYMBOL]
    BY <1>9, <2>1 DEF FilledUnreported
  <2>3. QED
    BY <1>9, <2>1, <2>2 DEF FilledUnreported
<1>10. ASSUME NEW s \in SYMBOLS, Process(s) PROVE Typed'
  <2>1. CASE FetchFails(s)
    BY <2>1 DEF FetchFails
  <2>2. CASE FeedStale(s)
    BY <2>2, MarkedType DEF FeedStale
  <2>3. CASE Hold(s)
    <3>1. DayCounted(s) \in {NotHeld} \cup Nat
      BY <2>3 DEF Hold, DayCounted, Holdings, NotHeld
    <3>2. held_days' \in Holdings
      BY <2>3, <3>1, BookChange DEF Hold
    <3>3. QED
      BY <2>3, <3>2, MarkedType DEF Hold
  <2>4. CASE Close(s)
    <3>1. account' \in [SYMBOLS -> 0..MAX_PER_SYMBOL] /\ loose' \subseteq SYMBOLS
      BY <2>4 DEF Close, LeftOpen
    <3>2. held_days' \in Holdings
      BY <2>4, BookChange DEF Close
    <3>3. QED
      BY <2>4, <3>1, <3>2, MarkedType DEF Close
  <2>5. CASE NoEntry(s)
    BY <2>5, MarkedType DEF NoEntry
  <2>6. CASE Enter(s)
    BY <2>6, MarkedType DEF Enter
  <2>7. QED
    BY <1>10, <2>1, <2>2, <2>3, <2>4, <2>5, <2>6 DEF Process
<1>10a. ASSUME NEW s \in SYMBOLS, InterruptClose(s) PROVE Typed'
  <2>1. account' \in [SYMBOLS -> 0..MAX_PER_SYMBOL] /\ loose' \subseteq SYMBOLS
    BY <1>10a DEF InterruptClose, LeftOpen
  <2>2. DayCounted(s) \in {NotHeld} \cup Nat
    BY <1>10a DEF InterruptClose, DayCounted, Holdings, NotHeld
  <2>3. disk' \in [held_days : Holdings, last_processed : Dates]
    BY <1>10a, <2>2, BookChange, MarkedType DEF InterruptClose
  <2>4. ends' \in 0..MAX_ENDS
    BY <1>10a DEF InterruptClose
  <2>5. QED
    BY <1>10a, <2>1, <2>3, <2>4, EmptyTypes, NightsType DEF InterruptClose, Gone
<1>11. CASE NextSlot
  BY <1>11 DEF NextSlot
<1>12. CASE Midnight
  <2>1. nights' \in [SYMBOLS -> 0..MAX_HOLD_DAYS]
    BY <1>12 DEF Midnight
  <2>2. late' \in BOOLEAN
    BY <1>12 DEF Midnight, InCycle
  <2>3. disk' \in [held_days : Holdings, last_processed : Dates]
    BY <1>12, OlderDates DEF Midnight
  <2>4. QED
    BY <1>12, <2>1, <2>2, <2>3, OlderDates DEF Midnight
<1>13. CASE ToggleKillSwitch
  BY <1>13 DEF ToggleKillSwitch
<1>14. ASSUME NEW s \in SYMBOLS, ClosedOutside(s) PROVE Typed'
  <2>1. account' \in [SYMBOLS -> 0..MAX_PER_SYMBOL]
    BY <1>14 DEF ClosedOutside
  <2>2. QED
    BY <1>14, <2>1 DEF ClosedOutside
<1>15. CASE UNCHANGED vars
  BY <1>15 DEF vars
<1>16. QED
  BY <1>1, <1>2, <1>3, <1>4, <1>5, <1>6, <1>7, <1>8, <1>9, <1>10, <1>10a,
     <1>11, <1>12, <1>13, <1>14, <1>15 DEF Next, Answer

-----------------------------------------------------------------------------
(* The order in flight and the cycle.                                       *)

LEMMA CycleInit == Init => CycleInv
BY DEF Init, CycleInv, InCycle

\* What a step of a symbol's evaluation does to todo and last_processed.
LEMMA ProcessTodo ==
  ASSUME Typed, NEW s \in SYMBOLS, Process(s)
  PROVE  /\ IsNext(s)
         /\ todo' = todo \ {s}
         /\ last_processed' \in {last_processed, Marked(s)}
         /\ UNCHANGED <<slot, late, disk>>
BY DEF Process, FetchFails, FeedStale, Hold, Close, NoEntry, Enter, engine, world

LEMMA CycleStep ==
  ASSUME Typed, Submitting, CycleInv, [Next]_vars
  PROVE  CycleInv'
<1> USE LiveBookAssumption DEF CycleInv, InCycle, CycleDate, engine, world, ghosts
<1>1. CASE Start \/ StartUnreadable \/ NextSlot \/ ToggleKillSwitch
  BY <1>1 DEF Start, StartUnreadable, NextSlot, ToggleKillSwitch
<1>2. CASE Die \/ Interrupt
  BY <1>2 DEF Die, Interrupt, Gone
<1>3. CASE BeginCycle
  BY <1>3 DEF BeginCycle, Eligible, Typed, Dates
<1>4. CASE Save
  BY <1>4 DEF Save
<1>5. CASE Answer
  BY <1>5 DEF Answer, Filled, Rejected, FilledUnreported
<1>6. ASSUME NEW s \in SYMBOLS, Process(s) PROVE CycleInv'
  <2>1. pc' \in {"symbols", "submitting"}
    BY <1>6 DEF Process, IsNext, FetchFails, FeedStale, Hold, Close, NoEntry, Enter
  <2>2. \A t \in todo \ {s} : last_processed'[t] = last_processed[t]
    BY <1>6, ProcessTodo DEF Marked, Typed, Dates
  <2>3. QED
    BY <1>6, <2>1, <2>2, ProcessTodo DEF IsNext
<1>6a. ASSUME NEW s \in SYMBOLS, InterruptClose(s) PROVE CycleInv'
  BY <1>6a DEF InterruptClose, Gone
<1>7. CASE Midnight
  <2>1. ~late
    BY <1>7 DEF Midnight
  <2>2. \A s \in todo : last_processed'[s] > 1
    BY <1>7, <2>1 DEF Midnight, OneNightOlder, Old, Typed, Dates
  <2>3. QED
    BY <1>7, <2>2 DEF Midnight
<1>8. ASSUME NEW s \in SYMBOLS, ClosedOutside(s) PROVE CycleInv'
  BY <1>8 DEF ClosedOutside
<1>9. CASE UNCHANGED vars
  BY <1>9 DEF vars
<1>10. QED
  BY <1>1, <1>2, <1>3, <1>4, <1>5, <1>6, <1>6a, <1>7, <1>8, <1>9 DEF Next

LEMMA SubmittingStep ==
  ASSUME Typed, Submitting, CycleInv, [Next]_vars
  PROVE  Submitting'
<1> USE LiveBookAssumption DEF Submitting, CycleDate, engine, world, ghosts
<1>1. CASE Start \/ StartUnreadable \/ Die \/ Interrupt \/ BeginCycle \/ Save \/ Answer
  BY <1>1 DEF Start, StartUnreadable, Die, Interrupt, Gone, BeginCycle, Save,
              Answer, Filled, Rejected, FilledUnreported
<1>2. ASSUME NEW s \in SYMBOLS, Process(s) PROVE Submitting'
  <2>1. CASE Enter(s)
    BY <2>1 DEF Enter, Marked, Typed, Dates
  <2>2. CASE ~Enter(s)
    BY <1>2, <2>2 DEF Process, IsNext, FetchFails, FeedStale, Hold, Close, NoEntry
  <2>3. QED
    BY <2>1, <2>2
<1>2a. ASSUME NEW s \in SYMBOLS, InterruptClose(s) PROVE Submitting'
  BY <1>2a DEF InterruptClose, Gone
<1>3. CASE Midnight
  <2>1. ~late
    BY <1>3 DEF Midnight, CycleInv
  <2>2. pc = "submitting" => last_processed'[sym] = 1
    BY <1>3, <2>1 DEF Midnight, OneNightOlder, Old, Typed, Dates
  <2>3. QED
    BY <1>3, <2>2 DEF Midnight, InCycle
<1>4. CASE NextSlot \/ ToggleKillSwitch
  BY <1>4 DEF NextSlot, ToggleKillSwitch
<1>5. ASSUME NEW s \in SYMBOLS, ClosedOutside(s) PROVE Submitting'
  BY <1>5 DEF ClosedOutside
<1>6. CASE UNCHANGED vars
  BY <1>6 DEF vars
<1>7. QED
  BY <1>1, <1>2, <1>2a, <1>3, <1>4, <1>5, <1>6 DEF Next

\* The part of the invariant the theorems below share.
Base == Typed /\ Submitting /\ CycleInv

LEMMA BaseStep == Base /\ [Next]_vars => Base'
BY TypeStep, SubmittingStep, CycleStep DEF Base

LEMMA BaseInvariant == Spec => []Base
<1>1. Init => Base
  BY TypeInit, CycleInit DEF Base
<1>2. QED
  BY <1>1, BaseStep, PTL DEF Spec

\* Every variable always has its type, and a cycle only ever has in hand what its
\* date has not processed: no midnight, interrupt or restart puts a symbol before
\* it a second time, or an order out for a position the book holds.
THEOREM TypeCorrect == Spec => []TypeOK
<1>1. Base => TypeOK
  BY DEF Base, TypeOK
<1>2. QED
  BY <1>1, BaseInvariant, PTL

-----------------------------------------------------------------------------
(* The book and the account.                                                *)

LEMMA MatchStep ==
  ASSUME Typed, Submitting, BookMatchesAccount, [Next]_vars
  PROVE  BookMatchesAccount'
<1> USE LiveBookAssumption DEF BookMatchesAccount, Book, Open, engine, world, ghosts
<1>1. CASE Start
  BY <1>1 DEF Start
<1>2. CASE StartUnreadable
  BY <1>2 DEF StartUnreadable, EmptyBook
<1>3. CASE Die
  BY <1>3 DEF Die, Gone, Unsaved
<1>4. CASE Interrupt
  BY <1>4 DEF Interrupt, Gone, Saved
<1>5. CASE BeginCycle \/ Save \/ Rejected
  BY <1>5 DEF BeginCycle, Save, Saved, Rejected, AfterRefusal
<1>6. CASE Filled
  <2>1. sym \in SYMBOLS /\ held_days[sym] = NotHeld
    BY <1>6 DEF Filled, Submitting
  <2>2. /\ account'[sym] = account[sym] + 1 /\ held_days'[sym] = 0
        /\ \A s \in SYMBOLS \ {sym} :
             account'[s] = account[s] /\ held_days'[s] = held_days[s]
    BY <1>6, <2>1 DEF Filled, Typed, Holdings
  <2>3. QED
    BY <1>6, <2>1, <2>2 DEF Filled, NotHeld
<1>7. CASE FilledUnreported
  <2>1. sym \in SYMBOLS
    BY <1>7 DEF FilledUnreported, Submitting
  <2>2. QED
    BY <1>7, <2>1 DEF FilledUnreported, Typed
<1>8. ASSUME NEW s \in SYMBOLS, Process(s) PROVE BookMatchesAccount'
  <2>1. CASE Hold(s)
    <3>1. /\ held_days'[s] # NotHeld
          /\ \A t \in SYMBOLS \ {s} : held_days'[t] = held_days[t]
      BY <2>1 DEF Hold, DayCounted, Typed, Holdings, NotHeld
    <3>2. QED
      BY <2>1, <3>1 DEF Hold, IsNext
  <2>2. CASE Close(s)
    <3>1. \A t \in SYMBOLS \ {s} :
            account'[t] = account[t] /\ held_days'[t] = held_days[t]
      BY <2>2 DEF Close, Typed, Holdings
    <3>2. held_days'[s] = NotHeld /\ (s \notin loose' => account'[s] = 0)
      BY <2>2 DEF Close, Typed, Holdings
    <3>3. loose \subseteq loose' /\ pc # "down" /\ pc' # "down"
      BY <2>2 DEF Close, IsNext
    <3>4. QED
      BY <3>1, <3>2, <3>3
  <2>3. CASE FetchFails(s) \/ FeedStale(s) \/ NoEntry(s) \/ Enter(s)
    BY <2>3 DEF FetchFails, FeedStale, NoEntry, Enter, IsNext
  <2>4. QED
    BY <1>8, <2>1, <2>2, <2>3 DEF Process
<1>8a. ASSUME NEW s \in SYMBOLS, InterruptClose(s) PROVE BookMatchesAccount'
  <2>1. pc' = "down" /\ pc # "down" /\ loose' = loose \cup {s}
    BY <1>8a DEF InterruptClose, Gone, IsNext
  <2>2. \A t \in SYMBOLS \ {s} :
          account'[t] = account[t] /\ disk'.held_days[t] = held_days[t]
    BY <1>8a DEF InterruptClose, Typed, Holdings
  <2>3. QED
    BY <2>1, <2>2
<1>9. CASE Midnight
  <2>1. disk'.held_days = disk.held_days
    BY <1>9 DEF Midnight, Typed
  <2>2. QED
    BY <1>9, <2>1 DEF Midnight
<1>10. CASE NextSlot \/ ToggleKillSwitch
  BY <1>10 DEF NextSlot, ToggleKillSwitch
<1>11. ASSUME NEW s \in SYMBOLS, ClosedOutside(s) PROVE BookMatchesAccount'
  BY <1>11 DEF ClosedOutside, Typed
<1>12. CASE UNCHANGED vars
  BY <1>12 DEF vars
<1>13. QED
  BY <1>1, <1>2, <1>3, <1>4, <1>5, <1>6, <1>7, <1>8, <1>8a, <1>9, <1>10,
     <1>11, <1>12 DEF Next, Answer

\* On every symbol no incident has touched, the account holds exactly what the
\* book says, whatever the number of symbols, the windows and the limits, and
\* wherever in a cycle the process is interrupted or restarted.
THEOREM BookAndAccount == Spec => []BookMatchesAccount
<1>1. Init => BookMatchesAccount
  BY DEF Init, BookMatchesAccount, Book, Open, EmptyBook
<1>2. Base /\ BookMatchesAccount /\ [Next]_vars => BookMatchesAccount'
  BY MatchStep DEF Base
<1>3. QED
  BY <1>1, <1>2, BaseInvariant, PTL DEF Spec

-----------------------------------------------------------------------------
(* The time stop.                                                           *)

LEMMA StopStep ==
  ASSUME Typed, Submitting, TimeStopKept, [Next]_vars
  PROVE  TimeStopKept'
<1> DEFINE Short(h, spared, e) ==
      \A s \in SYMBOLS : /\ s \notin spared => h[s] < MAX_HOLD_DAYS
                         /\ h[s] < MAX_HOLD_DAYS + e
<1>a. Short(held_days, loose, ends) /\ Short(disk.held_days, loose, ends)
  BY DEF TimeStopKept
<1>b. SUFFICES Short(held_days', loose', ends') /\ Short(disk'.held_days, loose', ends')
  BY DEF TimeStopKept
<1>c. \A s \in SYMBOLS : held_days[s] \in Int /\ disk.held_days[s] \in Int
  BY DEF Typed, Holdings, NotHeld
<1>d. MAX_HOLD_DAYS \in Nat \ {0} /\ ends \in Nat /\ EmptyBook \in [SYMBOLS -> {-1}]
  BY LiveBookAssumption DEF Typed, EmptyBook, NotHeld
<1>e. ends' \in Nat /\ ends <= ends' /\ loose \subseteq loose'
  BY <1>d DEF Next, Start, StartUnreadable, Die, Interrupt, BeginCycle, Save, Answer,
     Filled, Rejected, FilledUnreported, Process, FetchFails, FeedStale, Hold, Close,
     NoEntry, Enter, InterruptClose, NextSlot, Midnight, ToggleKillSwitch,
     ClosedOutside, engine, world, ghosts, vars
\* A book the step leaves alone, or empties, keeps its days.
<1>f. ASSUME NEW h, Short(h, loose, ends), \A s \in SYMBOLS : h[s] \in Int
      PROVE  Short(h, loose', ends')
  BY <1>d, <1>e, <1>f
<1>g. Short(EmptyBook, loose', ends')
  BY <1>d, <1>e
<1>h. Short(held_days, loose', ends') /\ Short(disk.held_days, loose', ends')
  BY <1>a, <1>c, <1>f
<1> HIDE DEF Short
<1> USE <1>g, <1>h DEF engine, world, ghosts
<1>1. CASE Start \/ StartUnreadable
  BY <1>1 DEF Start, StartUnreadable
<1>2. CASE Die \/ Interrupt
  BY <1>2 DEF Die, Interrupt, Gone, Saved
<1>3. CASE BeginCycle \/ Save
  BY <1>3 DEF BeginCycle, Save, Saved
<1>4. CASE Rejected \/ FilledUnreported
  BY <1>4 DEF Rejected, FilledUnreported, AfterRefusal
<1>5. CASE Filled
  <2>1. sym \in SYMBOLS /\ disk' = disk
    BY <1>5 DEF Filled, Submitting
  <2>2. held_days'[sym] = 0 /\ \A t \in SYMBOLS \ {sym} : held_days'[t] = held_days[t]
    BY <1>5, <2>1 DEF Filled, Typed, Holdings
  <2>3. QED
    BY <1>d, <1>e, <2>1, <2>2 DEF Short
<1>6. ASSUME NEW s \in SYMBOLS, Process(s)
      PROVE  Short(held_days', loose', ends') /\ Short(disk'.held_days, loose', ends')
  <2>1. disk' = disk
    BY <1>6, ProcessTodo
  <2>2. CASE Hold(s)
    <3>1. /\ held_days'[s] = held_days[s] + 1 /\ held_days[s] + 1 < MAX_HOLD_DAYS
          /\ \A t \in SYMBOLS \ {s} : held_days'[t] = held_days[t]
      BY <1>c, <1>d, <2>2 DEF Hold, Due, DayCounted, Typed, Holdings
    <3>2. QED
      BY <1>c, <1>d, <1>e, <2>1, <3>1 DEF Short
  <2>3. CASE Close(s)
    <3>1. /\ held_days'[s] = -1
          /\ \A t \in SYMBOLS \ {s} : held_days'[t] = held_days[t]
      BY <2>3 DEF Close, Typed, Holdings, NotHeld
    <3>2. QED
      BY <1>d, <1>e, <2>1, <3>1 DEF Short
  <2>4. CASE FetchFails(s) \/ FeedStale(s) \/ NoEntry(s) \/ Enter(s)
    BY <2>1, <2>4 DEF FetchFails, FeedStale, NoEntry, Enter
  <2>5. QED
    BY <1>6, <2>2, <2>3, <2>4 DEF Process
<1>7. ASSUME NEW s \in SYMBOLS, InterruptClose(s)
      PROVE  Short(held_days', loose', ends') /\ Short(disk'.held_days, loose', ends')
  <2>1. held_days' = EmptyBook /\ s \in loose' /\ ends' = ends + 1
    BY <1>7 DEF InterruptClose, Gone
  <2>2. /\ disk'.held_days[s] = held_days[s] + 1
        /\ \A t \in SYMBOLS \ {s} : disk'.held_days[t] = held_days[t]
    BY <1>7 DEF InterruptClose, DayCounted, Typed, Holdings
  <2>3. held_days[s] < MAX_HOLD_DAYS + ends
    BY <1>a DEF Short
  <2>4. Short(disk'.held_days, loose', ends')
    BY <1>c, <1>d, <2>1, <2>2, <2>3 DEF Short
  <2>5. QED
    BY <2>1, <2>4
<1>8. CASE Midnight
  <2>1. disk'.held_days = disk.held_days /\ held_days' = held_days
    BY <1>8 DEF Midnight, Typed
  <2>2. QED
    BY <2>1
<1>9. CASE NextSlot \/ ToggleKillSwitch
  BY <1>9 DEF NextSlot, ToggleKillSwitch
<1>10. ASSUME NEW s \in SYMBOLS, ClosedOutside(s)
       PROVE  Short(held_days', loose', ends') /\ Short(disk'.held_days, loose', ends')
  BY <1>10 DEF ClosedOutside
<1>11. CASE UNCHANGED vars
  BY <1>11 DEF vars
<1>12. QED
  BY <1>1, <1>2, <1>3, <1>4, <1>5, <1>6, <1>7, <1>8, <1>9, <1>10, <1>11
  DEF Next, Answer

\* No position at or past its time stop is ever in the book or on disk, except
\* one whose exit was interrupted, and that by one day for each end of the process.
THEOREM TimeStop == Spec => []TimeStopKept
<1>1. Init => TimeStopKept
  BY LiveBookAssumption DEF Init, TimeStopKept, EmptyBook, NotHeld
<1>2. Base /\ TimeStopKept /\ [Next]_vars => TimeStopKept'
  BY StopStep DEF Base
<1>3. QED
  BY <1>1, <1>2, BaseInvariant, PTL DEF Spec

-----------------------------------------------------------------------------
(* Memory and disk.                                                         *)

LEMMA DiskStep ==
  ASSUME Typed, Submitting, CycleInv, DiskInv, [Next]_vars
  PROVE  DiskInv'
<1> USE LiveBookAssumption DEF DiskInv, Open, engine, world, ghosts
<1>1. CASE Start
  BY <1>1 DEF Start
<1>2. CASE StartUnreadable
  BY <1>2 DEF StartUnreadable, EmptyBook
<1>3. CASE Die \/ Interrupt
  BY <1>3 DEF Die, Interrupt, Gone
<1>4. CASE BeginCycle
  BY <1>4 DEF BeginCycle
<1>5. CASE Save
  BY <1>5 DEF Save, Saved
<1>6. CASE Answer
  <2>1. sym \in SYMBOLS /\ sym \notin todo
    BY <1>6 DEF Answer, Filled, Rejected, FilledUnreported, Submitting
  <2>2. /\ pc' = "symbols" /\ UNCHANGED <<disk, todo>>
        /\ loose \subseteq loose'
        /\ \A t \in SYMBOLS \ {sym} : held_days'[t] = held_days[t]
    BY <1>6, <2>1 DEF Answer, Filled, Rejected, FilledUnreported, AfterRefusal,
                      Typed, Holdings
  <2>3. QED
    BY <2>1, <2>2
<1>7. ASSUME NEW s \in SYMBOLS, Process(s) PROVE DiskInv'
  <2>1. pc = "symbols" /\ s \in todo /\ todo' = todo \ {s} /\ disk' = disk
    BY <1>7, ProcessTodo DEF IsNext
  <2>2. /\ loose \subseteq loose' /\ pc' # "sleeping"
        /\ \A t \in SYMBOLS \ {s} : held_days'[t] = held_days[t]
    BY <1>7 DEF Process, FetchFails, FeedStale, Hold, Close, NoEntry, Enter, IsNext,
                Typed, Holdings
  <2>3. pc' = "submitting" => sym' = s /\ held_days' = held_days
    BY <1>7, <2>1 DEF Process, FetchFails, FeedStale, Hold, Close, NoEntry, Enter
  <2>4. QED
    BY <2>1, <2>2, <2>3
<1>7a. ASSUME NEW s \in SYMBOLS, InterruptClose(s) PROVE DiskInv'
  <2>1. pc' = "down" /\ todo' = {}
    BY <1>7a DEF InterruptClose, Gone
  <2>2. QED
    BY <2>1
<1>8. CASE Midnight
  <2>1. disk'.held_days = disk.held_days
    BY <1>8 DEF Midnight, Typed
  <2>2. QED
    BY <1>8, <2>1 DEF Midnight
<1>9. CASE NextSlot \/ ToggleKillSwitch
  BY <1>9 DEF NextSlot, ToggleKillSwitch
<1>10. ASSUME NEW s \in SYMBOLS, ClosedOutside(s) PROVE DiskInv'
  BY <1>10 DEF ClosedOutside
<1>11. CASE UNCHANGED vars
  BY <1>11 DEF vars
<1>12. QED
  BY <1>1, <1>2, <1>3, <1>4, <1>5, <1>6, <1>7, <1>7a, <1>8, <1>9, <1>10, <1>11 DEF Next

-----------------------------------------------------------------------------
(* The counters and the calendar.                                           *)

\* A symbol a step evaluates is due for this cycle's date.
LEMMA MarkedValue ==
  ASSUME Typed, NEW s \in SYMBOLS
  PROVE  /\ Marked(s)[s] = CycleDate
         /\ \A t \in SYMBOLS \ {s} : Marked(s)[t] = last_processed[t]
BY DEF Marked, Typed, Dates

LEMMA CalendarStep ==
  ASSUME Base, DiskInv, TimeStopKept, Calendar, [Next]_vars
  PROVE  Calendar'
<1> USE LiveBookAssumption DEF Base, Calendar, Open, Fits, engine, world, ghosts
<1>1. CASE Start
  BY <1>1 DEF Start
<1>2. CASE StartUnreadable
  BY <1>2 DEF StartUnreadable, EmptyBook
<1>3. CASE Die
  BY <1>3 DEF Die, Gone, EmptyBook
<1>4. CASE Interrupt
  BY <1>4 DEF Interrupt, Gone, Saved, EmptyBook, NightsOfBook
<1>5. CASE BeginCycle
  BY <1>5 DEF BeginCycle
<1>6. CASE Save
  BY <1>6 DEF Save, Saved, NightsOfBook
<1>7. CASE Filled
  <2>1. /\ sym \in SYMBOLS /\ held_days[sym] = NotHeld
        /\ last_processed[sym] = CycleDate
    BY <1>7 DEF Filled, Submitting
  <2>2. sym \notin loose => sym \notin Open(disk.held_days)
    BY <1>7, <2>1 DEF Filled, DiskInv
  <2>3. /\ held_days'[sym] = 0 /\ nights'[sym] = CycleDate
        /\ \A t \in SYMBOLS \ {sym} :
             held_days'[t] = held_days[t] /\ nights'[t] = nights[t]
    BY <1>7, <2>1 DEF Filled, Typed, Holdings
  <2>4. UNCHANGED <<last_processed, disk, loose>>
    BY <1>7 DEF Filled
  <2>5. Fits(held_days'[sym], last_processed'[sym], nights'[sym])
    BY <2>1, <2>3, <2>4 DEF CycleDate
  <2>6. QED
    BY <2>2, <2>3, <2>4, <2>5
<1>8. CASE Rejected \/ FilledUnreported
  BY <1>8 DEF Rejected, FilledUnreported, AfterRefusal
<1>9. ASSUME NEW s \in SYMBOLS, Process(s) PROVE Calendar'
  <2>1. /\ s \in todo /\ disk' = disk /\ nights' = nights /\ loose \subseteq loose'
        /\ \A t \in SYMBOLS \ {s} :
             held_days'[t] = held_days[t] /\ last_processed'[t] = last_processed[t]
    BY <1>9, MarkedValue DEF Process, FetchFails, FeedStale, Hold, Close, NoEntry,
       Enter, IsNext, Typed, Holdings
  <2>2. last_processed[s] >= CycleDate + 1
    BY <2>1 DEF CycleInv, Typed, Dates, CycleDate
  <2>3. CASE Hold(s)
    <3>1. held_days'[s] = held_days[s] + 1 /\ last_processed'[s] = CycleDate
      BY <2>3, MarkedValue DEF Hold, DayCounted, Typed, Holdings
    <3>2. held_days[s] \in Int /\ last_processed[s] \in Int /\ nights[s] \in Int
          /\ CycleDate \in Int
      BY DEF Typed, Holdings, Dates, CycleDate, NotHeld, Old
    <3>3. Fits(held_days[s], last_processed[s], nights[s])
          => Fits(held_days'[s], last_processed'[s], nights'[s])
      BY <2>1, <2>2, <3>1, <3>2
    <3>4. QED
      BY <2>1, <2>3, <3>3 DEF Hold
  <2>4. CASE Close(s)
    <3>1. held_days'[s] = NotHeld
      BY <2>4 DEF Close, Typed, Holdings
    <3>2. QED
      BY <2>1, <3>1
  <2>5. CASE FeedStale(s)
    <3>1. held_days' = held_days /\ last_processed'[s] = CycleDate
      BY <2>5, MarkedValue DEF FeedStale
    <3>2. held_days[s] \in Int /\ last_processed[s] \in Int /\ nights[s] \in Int
          /\ CycleDate \in Int
      BY DEF Typed, Holdings, Dates, CycleDate, NotHeld, Old
    <3>3. QED
      BY <2>1, <2>2, <3>1, <3>2
  <2>6. CASE NoEntry(s) \/ Enter(s)
    <3>1. held_days' = held_days /\ held_days[s] = NotHeld
      BY <2>6 DEF NoEntry, Enter
    <3>2. QED
      BY <2>1, <3>1
  <2>7. CASE FetchFails(s)
    BY <2>1, <2>7 DEF FetchFails
  <2>8. QED
    BY <1>9, <2>3, <2>4, <2>5, <2>6, <2>7 DEF Process
<1>9a. ASSUME NEW s \in SYMBOLS, InterruptClose(s) PROVE Calendar'
  <2>1. held_days' = EmptyBook /\ loose' = loose \cup {s}
    BY <1>9a DEF InterruptClose, Gone
  <2>2. \A t \in SYMBOLS \ {s} :
          /\ disk'.held_days[t] = held_days[t]
          /\ disk'.last_processed[t] = last_processed[t]
          /\ t \in Open(held_days) => nights'[t] = nights[t]
    BY <1>9a DEF InterruptClose, Marked, NightsOfBook, Typed, Holdings, Dates
  <2>3. QED
    BY <2>1, <2>2 DEF EmptyBook
<1>10. CASE Midnight
  <2>1. /\ disk'.held_days = disk.held_days
        /\ disk'.last_processed = OneNightOlder(disk.last_processed)
        /\ last_processed' = OneNightOlder(last_processed)
        /\ UNCHANGED <<held_days, loose>>
    BY <1>10 DEF Midnight, Typed
  <2>2. ASSUME NEW s \in SYMBOLS, s \in Open(held_days) \cup Open(disk.held_days)
        PROVE  nights'[s] = nights[s] + 1 \/ nights'[s] = MAX_HOLD_DAYS
    BY <1>10, <2>2 DEF Midnight, Typed
  <2>3. ASSUME NEW s \in SYMBOLS, NEW p \in Dates
        PROVE  OneNightOlder(p)[s] <= p[s] + 1 /\ OneNightOlder(p)[s] \in Int
               /\ p[s] \in Int
    BY DEF OneNightOlder, Dates, Old
  <2>4. ASSUME NEW s \in SYMBOLS \ loose, s \in Open(held_days)
        PROVE  Fits(held_days'[s], last_processed'[s], nights'[s])
    <3>1. held_days[s] \in Int /\ nights[s] \in Int /\ nights[s] <= MAX_HOLD_DAYS
      BY DEF Typed, Holdings, NotHeld
    <3>2. last_processed'[s] <= last_processed[s] + 1 /\ last_processed'[s] \in Int
          /\ last_processed[s] \in Int
      BY <2>1, <2>3 DEF Typed
    <3>3. Fits(held_days[s], last_processed[s], nights[s])
      BY <2>4
    <3>4. nights'[s] = nights[s] + 1 \/ nights'[s] = MAX_HOLD_DAYS
      BY <2>2, <2>4
    <3>5. nights[s] = MAX_HOLD_DAYS => nights'[s] = MAX_HOLD_DAYS
      BY <1>10 DEF Midnight, Typed
    <3>6. QED
      BY <2>1, <3>1, <3>2, <3>3, <3>4, <3>5
  <2>5. ASSUME NEW s \in SYMBOLS \ loose, s \in Open(disk.held_days)
        PROVE  Fits(disk'.held_days[s], disk'.last_processed[s], nights'[s])
    <3>1. disk.held_days[s] \in Int /\ nights[s] \in Int
      BY DEF Typed, Holdings, NotHeld
    <3>2. disk'.last_processed[s] <= disk.last_processed[s] + 1
          /\ disk'.last_processed[s] \in Int /\ disk.last_processed[s] \in Int
      BY <2>1, <2>3 DEF Typed
    <3>3. Fits(disk.held_days[s], disk.last_processed[s], nights[s])
      BY <2>5
    <3>4. nights'[s] = nights[s] + 1 \/ nights'[s] = MAX_HOLD_DAYS
      BY <2>2, <2>5
    <3>5. nights[s] = MAX_HOLD_DAYS => nights'[s] = MAX_HOLD_DAYS
      BY <1>10 DEF Midnight, Typed
    <3>6. QED
      BY <2>1, <3>1, <3>2, <3>3, <3>4, <3>5
  <2>6. QED
    BY <2>1, <2>4, <2>5
<1>11. CASE NextSlot \/ ToggleKillSwitch
  BY <1>11 DEF NextSlot, ToggleKillSwitch
<1>12. ASSUME NEW s \in SYMBOLS, ClosedOutside(s) PROVE Calendar'
  BY <1>12 DEF ClosedOutside
<1>13. CASE UNCHANGED vars
  BY <1>13 DEF vars
<1>14. QED
  BY <1>1, <1>2, <1>3, <1>4, <1>5, <1>6, <1>7, <1>8, <1>9, <1>9a, <1>10, <1>11,
     <1>12, <1>13 DEF Next, Answer

LEMMA CalendarHonest ==
  ASSUME Typed, TimeStopKept, Calendar
  PROVE  HeldDaysHonest
<1> USE LiveBookAssumption
<1>1. ASSUME NEW s \in SYMBOLS \ loose
      PROVE  held_days[s] <= nights[s]
  BY DEF Typed, TimeStopKept, Calendar, Fits, Open, Holdings, Dates, NotHeld, Old
<1>2. ASSUME NEW s \in SYMBOLS \ loose
      PROVE  disk.held_days[s] <= nights[s]
  BY DEF Typed, TimeStopKept, Calendar, Fits, Open, Holdings, Dates, NotHeld, Old
<1>3. QED
  BY <1>1, <1>2 DEF HeldDaysHonest

\* The counter of a position never runs ahead of the calendar: no restart, no
\* midnight inside a cycle and no skipped day makes the time stop early.
THEOREM HeldDays == Spec => []HeldDaysHonest
<1>1. Init => DiskInv /\ Calendar
  BY DEF Init, DiskInv, Calendar, Open, EmptyBook
<1>2. Base /\ TimeStopKept /\ DiskInv /\ Calendar /\ [Next]_vars => DiskInv' /\ Calendar'
  BY DiskStep, CalendarStep DEF Base
<1>3. Base /\ TimeStopKept /\ Calendar => HeldDaysHonest
  BY CalendarHonest DEF Base
<1>4. QED
  BY <1>1, <1>2, <1>3, BaseInvariant, TimeStop, PTL DEF Spec

-----------------------------------------------------------------------------
(* The concurrency cap.                                                     *)

\* The positions the engine answers for: the book and the order in flight.
Promised == Open(held_days) \cup (IF pc = "submitting" THEN {sym} ELSE {})

LEMMA FewerSymbols ==
  ASSUME NEW A, NEW B, A \subseteq B, B \subseteq SYMBOLS,
         Cardinality(B) <= MAX_CONCURRENT_POSITIONS
  PROVE  Cardinality(A) <= MAX_CONCURRENT_POSITIONS
<1>1. IsFiniteSet(SYMBOLS)
  BY LiveBookAssumption, FS_Interval DEF SYMBOLS
<1>2. IsFiniteSet(B)
  BY <1>1, FS_Subset
<1>3. Cardinality(A) <= Cardinality(B)
  BY <1>2, FS_Subset
<1>4. Cardinality(A) \in Nat /\ Cardinality(B) \in Nat
  BY <1>2, FS_Subset, FS_CardinalityType
<1>5. QED
  BY <1>3, <1>4, LiveBookAssumption

LEMMA CapStep ==
  ASSUME Typed, Submitting, BookWithinCap, [Next]_vars
  PROVE  BookWithinCap'
<1> DEFINE Within(A) == Cardinality(A) <= MAX_CONCURRENT_POSITIONS
<1> HIDE DEF Within
<1>a. Within(Promised) /\ Within(Open(disk.held_days))
  BY DEF BookWithinCap, Promised, Within
<1>b. Promised \subseteq SYMBOLS /\ Open(disk.held_days) \subseteq SYMBOLS
  BY DEF Promised, Open, Submitting
<1>c. ASSUME NEW A, NEW B, A \subseteq B, B \subseteq SYMBOLS, Within(B)
      PROVE  Within(A)
  BY <1>c, FewerSymbols DEF Within
<1>d. SUFFICES Within(Promised') /\ Within(Open(disk'.held_days))
  BY DEF BookWithinCap, Promised, Within, Open
<1> USE <1>a, <1>b, <1>c DEF engine, world, ghosts
<1>1. CASE Start
  BY <1>1 DEF Start, Promised, Open
<1>2. CASE StartUnreadable
  <2>1. Promised' = {} /\ disk' = disk
    BY <1>2 DEF StartUnreadable, EmptyBook, Promised, Open
  <2>2. QED
    BY <2>1
<1>3. CASE Die
  <2>1. Promised' = {} /\ disk' = disk
    BY <1>3 DEF Die, Gone, EmptyBook, Promised, Open
  <2>2. QED
    BY <2>1
<1>4. CASE Interrupt
  <2>1. Promised' = {} /\ Open(disk'.held_days) \subseteq Promised
    BY <1>4 DEF Interrupt, Gone, Saved, EmptyBook, Promised, Open
  <2>2. QED
    BY <2>1
<1>5. CASE Save
  <2>1. Promised' = Promised /\ Open(disk'.held_days) \subseteq Promised
    BY <1>5 DEF Save, Saved, Promised, Open
  <2>2. QED
    BY <2>1
<1>6. CASE Answer
  <2>1. sym \in SYMBOLS /\ disk' = disk
    BY <1>6 DEF Answer, Filled, Rejected, FilledUnreported, Submitting
  <2>2. Promised' \subseteq Promised
    BY <1>6, <2>1 DEF Answer, Filled, Rejected, FilledUnreported, AfterRefusal,
                      Promised, Open, Typed, Holdings
  <2>3. QED
    BY <2>1, <2>2
<1>7. ASSUME NEW s \in SYMBOLS, Process(s)
      PROVE  Within(Promised') /\ Within(Open(disk'.held_days))
  <2>1. disk' = disk /\ pc = "symbols"
    BY <1>7, ProcessTodo DEF IsNext
  <2>2. CASE Enter(s)
    <3>1. Promised = Open(held_days) /\ Promised' = Open(held_days) \cup {s}
          /\ s \notin Open(held_days)
      BY <2>1, <2>2 DEF Enter, Promised, Open
    <3>2. IsFiniteSet(Open(held_days)) /\ Cardinality(Open(held_days)) \in Nat
      <4>1. IsFiniteSet(SYMBOLS)
        BY LiveBookAssumption, FS_Interval DEF SYMBOLS
      <4>2. Open(held_days) \in SUBSET SYMBOLS
        BY DEF Open
      <4>3. IsFiniteSet(Open(held_days))
        BY <4>1, <4>2, FS_Subset
      <4>4. QED
        BY <4>3, FS_CardinalityType
    <3>3. Cardinality(Promised') = Cardinality(Open(held_days)) + 1
      BY <3>1, <3>2, FS_AddElement
    <3>4. Cardinality(Open(held_days)) < MAX_CONCURRENT_POSITIONS
      BY <2>2 DEF Enter, SlotFree
    <3>5. QED
      BY <2>1, <3>2, <3>3, <3>4, LiveBookAssumption DEF Within
  <2>3. CASE ~Enter(s)
    <3>1. Promised' \subseteq Promised
      BY <1>7, <2>1, <2>3 DEF Process, FetchFails, FeedStale, Hold, Close, NoEntry,
         Promised, Open, Typed, Holdings
    <3>2. QED
      BY <2>1, <3>1
  <2>4. QED
    BY <2>2, <2>3
<1>7a. ASSUME NEW s \in SYMBOLS, InterruptClose(s)
       PROVE  Within(Promised') /\ Within(Open(disk'.held_days))
  <2>1. Promised' = {}
    BY <1>7a DEF InterruptClose, Gone, EmptyBook, Promised, Open
  <2>2. Open(disk'.held_days) \subseteq Promised
    BY <1>7a DEF InterruptClose, Promised, Open, Typed, Holdings
  <2>3. QED
    BY <2>1, <2>2
<1>8. CASE BeginCycle \/ NextSlot \/ ToggleKillSwitch
  <2>1. Promised' \subseteq Promised /\ disk' = disk
    BY <1>8 DEF BeginCycle, NextSlot, ToggleKillSwitch, Promised, Open
  <2>2. QED
    BY <2>1
<1>9. CASE Midnight
  <2>1. Promised' = Promised /\ disk'.held_days = disk.held_days
    BY <1>9 DEF Midnight, Promised, Open, Typed
  <2>2. QED
    BY <2>1
<1>10. ASSUME NEW s \in SYMBOLS, ClosedOutside(s)
       PROVE  Within(Promised') /\ Within(Open(disk'.held_days))
  <2>1. Promised' = Promised /\ disk' = disk
    BY <1>10 DEF ClosedOutside, Promised, Open
  <2>2. QED
    BY <2>1
<1>11. CASE UNCHANGED vars
  <2>1. Promised' = Promised /\ disk' = disk
    BY <1>11 DEF vars, Promised, Open
  <2>2. QED
    BY <2>1
<1>12. QED
  BY <1>1, <1>2, <1>3, <1>4, <1>5, <1>6, <1>7, <1>7a, <1>8, <1>9, <1>10, <1>11 DEF Next

\* The book, with the order in flight, and the book a restart would load never
\* exceed the concurrency cap.
THEOREM Cap == Spec => []BookWithinCap
<1>1. Init => BookWithinCap
  <2>1. SUFFICES ASSUME Init PROVE BookWithinCap
    OBVIOUS
  <2>2. Open(held_days) = {} /\ Open(disk.held_days) = {} /\ pc = "down"
    <3>1. Open(EmptyBook) = {}
      <4>1. \A s \in SYMBOLS : EmptyBook[s] = NotHeld
        BY DEF EmptyBook
      <4>2. QED
        BY <4>1 DEF Open
    <3>2. held_days = EmptyBook /\ disk.held_days = EmptyBook /\ pc = "down"
      BY <2>1 DEF Init
    <3>3. QED
      BY <3>1, <3>2
  <2>3. Promised = {}
    BY <2>2 DEF Promised
  <2>4. Cardinality({}) <= MAX_CONCURRENT_POSITIONS
    BY FS_EmptySet, LiveBookAssumption
  <2>5. QED
    BY <2>2, <2>3, <2>4 DEF BookWithinCap, Promised
<1>2. Base /\ BookWithinCap /\ [Next]_vars => BookWithinCap'
  BY CapStep DEF Base
<1>3. QED
  BY <1>1, <1>2, BaseInvariant, PTL DEF Spec

-----------------------------------------------------------------------------
(* LiveBook implements DailyBook, for any number of symbols, windows and      *)
(* limits.  The step simulation needs one fact the disk alone does not show:  *)
(* the memory is at most one evaluation per symbol ahead of the book it was   *)
(* loaded from, and not ahead at all for a symbol the cycle has still to do.  *)

\* The memory, seen from the book h, a: at most one bar ahead of it, and the
\* bar is the one of this cycle.
Ahead(h, a) ==
  \A s \in SYMBOLS :
    /\ \/ held_days[s] = h[s] /\ last_processed[s] = a[s]
       \/ /\ s \notin todo /\ InCycle
          /\ last_processed[s] = CycleDate /\ CycleDate < a[s]
          /\ held_days[s] = h[s] \/ held_days[s] \in Audited!Evaluated(h[s])
    /\ pc = "submitting" /\ s = sym => h[s] = NotHeld /\ CycleDate < a[s]

\* The book it is ahead of: the disk, or nothing if the file was not readable.
Loaded ==
  pc # "down" =>
    \/ Ahead(disk.held_days, disk.last_processed)
    \/ ends > 0 /\ Ahead(EmptyBook, NeverDone)

LEMMA SameNames ==
  /\ Audited!NotHeld = NotHeld /\ Audited!Old = Old
  /\ Audited!Nothing = EmptyBook /\ Audited!Never = NeverDone
BY DEF Audited!NotHeld, Audited!Old, Audited!Nothing, Audited!Never,
       NotHeld, Old, EmptyBook, NeverDone

LEMMA EvaluatedIs ==
  ASSUME NEW h \in {NotHeld} \cup Nat
  PROVE  /\ h = NotHeld => Audited!Evaluated(h) = {NotHeld, 0}
         /\ h # NotHeld => NotHeld \in Audited!Evaluated(h)
         /\ h # NotHeld /\ h + 1 < MAX_HOLD_DAYS => h + 1 \in Audited!Evaluated(h)
BY SameNames DEF Audited!Evaluated

\* One evaluation in memory, of a symbol that was not ahead, keeps it one ahead.
LEMMA AheadProcess ==
  ASSUME Base, NEW h \in Holdings, NEW a \in Dates, Ahead(h, a),
         NEW s \in SYMBOLS, Process(s)
  PROVE  Ahead(h, a)'
<1> USE LiveBookAssumption DEF Base
<1>1. /\ s \in todo /\ pc = "symbols" /\ todo' = todo \ {s} /\ late' = late
      /\ held_days[s] = h[s] /\ last_processed[s] = a[s]
      /\ pc' \in {"symbols", "submitting"}
      /\ pc' = "submitting" => sym' = s
  BY DEF Process, IsNext, FetchFails, FeedStale, Hold, Close, NoEntry, Enter,
         Ahead, engine
<1>2. CycleDate < last_processed[s] /\ CycleDate' = CycleDate /\ InCycle /\ InCycle'
  BY <1>1 DEF CycleInv, CycleDate, InCycle, Typed, Dates
<1>3. ASSUME NEW t \in SYMBOLS \ {s}
      PROVE  held_days'[t] = held_days[t] /\ last_processed'[t] = last_processed[t]
  BY MarkedValue DEF Process, FetchFails, FeedStale, Hold, Close, NoEntry, Enter,
     Typed, Holdings
<1>4. \/ held_days'[s] = h[s] /\ last_processed'[s] = a[s]
      \/ /\ last_processed'[s] = CycleDate
         /\ \/ held_days'[s] = h[s]
            \/ held_days'[s] \in Audited!Evaluated(h[s])
  <2>1. CASE FetchFails(s)
    BY <1>1, <2>1 DEF FetchFails
  <2>2. CASE FeedStale(s) \/ NoEntry(s) \/ Enter(s)
    BY <1>1, <2>2, MarkedValue DEF FeedStale, NoEntry, Enter
  <2>3. CASE Hold(s)
    <3>1. h[s] # NotHeld /\ held_days'[s] = h[s] + 1 /\ h[s] + 1 < MAX_HOLD_DAYS
      BY <1>1, <2>3 DEF Hold, Due, DayCounted, Typed, Holdings
    <3>2. QED
      BY <2>3, <3>1, EvaluatedIs, MarkedValue DEF Hold, Holdings
  <2>4. CASE Close(s)
    BY <1>1, <2>4, EvaluatedIs, MarkedValue DEF Close, Typed, Holdings
  <2>5. QED
    BY <2>1, <2>2, <2>3, <2>4 DEF Process
<1>5. pc' = "submitting" => h[s] = NotHeld
  BY <1>1 DEF Process, IsNext, FetchFails, FeedStale, Hold, Close, NoEntry, Enter, engine
<1>6. QED
  BY <1>1, <1>2, <1>3, <1>4, <1>5 DEF Ahead

\* The answer to an order: the book may gain the symbol, which was not held.
LEMMA AheadAnswer ==
  ASSUME Base, NEW h \in Holdings, NEW a \in Dates, Ahead(h, a), Answer
  PROVE  Ahead(h, a)'
<1> USE LiveBookAssumption DEF Base
<1>1. /\ sym \in SYMBOLS /\ held_days[sym] = NotHeld /\ pc = "submitting"
      /\ pc' = "symbols" /\ UNCHANGED <<late, todo, last_processed>>
      /\ last_processed[sym] = CycleDate
  BY DEF Answer, Filled, Rejected, FilledUnreported, Submitting
<1>2. \A t \in SYMBOLS \ {sym} : held_days'[t] = held_days[t]
  BY DEF Answer, Filled, Rejected, FilledUnreported, AfterRefusal, Typed, Holdings
<1>3. /\ held_days'[sym] \in {NotHeld, 0} /\ sym \notin todo
      /\ h[sym] = NotHeld /\ CycleDate < a[sym]
      /\ NotHeld \in Audited!Evaluated(h[sym]) /\ 0 \in Audited!Evaluated(h[sym])
  <2>1. h[sym] = NotHeld /\ CycleDate < a[sym]
    BY <1>1 DEF Ahead
  <2>2. held_days'[sym] \in {NotHeld, 0}
    BY <1>1 DEF Answer, Filled, Rejected, FilledUnreported, AfterRefusal, Typed,
                Holdings
  <2>3. QED
    BY <1>1, <2>1, <2>2, EvaluatedIs DEF Submitting
<1>4. CycleDate' = CycleDate /\ InCycle /\ InCycle'
  BY <1>1 DEF CycleDate, InCycle
<1>5. QED
  BY <1>1, <1>2, <1>3, <1>4 DEF Ahead

\* Midnight ages both sides; what the cycle evaluated stays the younger.
LEMMA AheadMidnight ==
  ASSUME Base, NEW h \in Holdings, NEW a \in Dates, NEW b, b = OneNightOlder(a),
         Ahead(h, a), Midnight
  PROVE  Ahead(h, b)'
<1> USE LiveBookAssumption DEF Base
<1>1. /\ UNCHANGED <<pc, todo, sym, held_days>> /\ slot = LAST_SLOT
      /\ last_processed' = OneNightOlder(last_processed) /\ late' = InCycle
  BY DEF Midnight
<1>2. CycleDate = 0 /\ (InCycle => CycleDate' = 1) /\ (InCycle <=> InCycle')
  BY <1>1 DEF CycleInv, CycleDate, InCycle
<1>3. ASSUME NEW s \in SYMBOLS
      PROVE  /\ last_processed[s] = a[s] => last_processed'[s] = b[s]
             /\ last_processed[s] = CycleDate => last_processed'[s] = 1
             /\ CycleDate < a[s] => b[s] = 2
  BY <1>1, <1>2 DEF OneNightOlder, Typed, Dates, Old
<1>4. pc = "submitting" => InCycle
  BY DEF InCycle
<1>5. QED
  BY <1>1, <1>2, <1>3, <1>4 DEF Ahead

LEMMA LoadedInit == Init => Loaded
BY DEF Init, Loaded

LEMMA LoadedStep ==
  ASSUME Base, Loaded, [Next]_vars
  PROVE  Loaded'
<1> USE LiveBookAssumption DEF engine, world, ghosts
<1> DEFINE h0 == disk.held_days
           a0 == disk.last_processed
<1>a. /\ h0 \in Holdings /\ a0 \in Dates
      /\ EmptyBook \in Holdings /\ NeverDone \in Dates
  BY EmptyTypes DEF Base, Typed
<1>1. CASE Start
  BY <1>1 DEF Start, Loaded, Ahead
<1>2. CASE StartUnreadable
  BY <1>2 DEF StartUnreadable, Loaded, Ahead, Base, Typed
<1>3. ASSUME Die \/ Interrupt \/ \E s \in SYMBOLS : InterruptClose(s)
      PROVE  Loaded'
  BY <1>3 DEF Die, Interrupt, InterruptClose, Gone, Loaded
<1>4. CASE BeginCycle
  <2>1. /\ UNCHANGED <<held_days, last_processed, disk, ends>> /\ pc' = "symbols"
        /\ ~InCycle /\ pc # "down"
    BY <1>4 DEF BeginCycle, InCycle
  <2>2. QED
    BY <2>1 DEF Loaded, Ahead
<1>5. CASE Save
  BY <1>5 DEF Save, Saved, Loaded, Ahead
<1>6. CASE Answer
  <2>1. pc # "down" /\ disk' = disk /\ ends' = ends
    BY <1>6 DEF Answer, Filled, Rejected, FilledUnreported
  <2>2. CASE Ahead(h0, a0)
    <3>1. Ahead(h0, a0)'
      <4>1. PICK h, a : h = h0 /\ a = a0
        OBVIOUS
      <4>2. Ahead(h, a)'
        BY <1>6, <1>a, <2>2, <4>1, AheadAnswer
      <4>3. QED
        BY <2>1, <4>1, <4>2 DEF Ahead
    <3>2. QED
      BY <3>1 DEF Loaded
  <2>3. CASE ends > 0 /\ Ahead(EmptyBook, NeverDone)
    <3>1. Ahead(EmptyBook, NeverDone)'
      BY <1>6, <1>a, <2>3, AheadAnswer DEF EmptyBook, NeverDone
    <3>2. QED
      BY <2>1, <2>3, <3>1 DEF Loaded
  <2>4. QED
    BY <2>1, <2>2, <2>3 DEF Loaded
<1>7. ASSUME NEW s \in SYMBOLS, Process(s) PROVE Loaded'
  <2>1. pc # "down" /\ disk' = disk /\ ends' = ends
    BY <1>7 DEF Process, IsNext, FetchFails, FeedStale, Hold, Close, NoEntry, Enter
  <2>2. CASE Ahead(h0, a0)
    <3>1. Ahead(h0, a0)'
      <4>1. PICK h, a : h = h0 /\ a = a0
        OBVIOUS
      <4>2. Ahead(h, a)'
        BY <1>7, <1>a, <2>2, <4>1, AheadProcess
      <4>3. QED
        BY <2>1, <4>1, <4>2 DEF Ahead
    <3>2. QED
      BY <3>1 DEF Loaded
  <2>3. CASE ends > 0 /\ Ahead(EmptyBook, NeverDone)
    <3>1. Ahead(EmptyBook, NeverDone)'
      BY <1>7, <1>a, <2>3, AheadProcess DEF EmptyBook, NeverDone
    <3>2. QED
      BY <2>1, <2>3, <3>1 DEF Loaded
  <2>4. QED
    BY <2>1, <2>2, <2>3 DEF Loaded
<1>8. CASE Midnight
  <2>1. /\ disk'.held_days = disk.held_days /\ ends' = ends /\ pc' = pc
        /\ disk'.last_processed = OneNightOlder(disk.last_processed)
    BY <1>8 DEF Midnight, Base, Typed
  <2>2. CASE pc # "down" /\ Ahead(h0, a0)
    <3>1. PICK h, a, b : h = h0 /\ a = a0 /\ b = OneNightOlder(a)
      OBVIOUS
    <3>2. Ahead(h, b)'
      BY <1>8, <1>a, <2>2, <3>1, AheadMidnight
    <3>3. Ahead(h0, a0)'
      BY <2>1, <3>1, <3>2 DEF Ahead
    <3>4. QED
      BY <3>3 DEF Loaded
  <2>3. CASE pc # "down" /\ ends > 0 /\ Ahead(EmptyBook, NeverDone)
    <3>1. OneNightOlder(NeverDone) = NeverDone
      BY DEF OneNightOlder, NeverDone, Old
    <3>2. Ahead(EmptyBook, NeverDone)'
      <4>1. PICK a, h : a = NeverDone /\ h = EmptyBook
        OBVIOUS
      <4>2. Ahead(h, a)'
        BY <1>8, <1>a, <2>3, <3>1, <4>1, AheadMidnight
      <4>3. QED
        BY <4>1, <4>2 DEF EmptyBook, NeverDone
    <3>3. QED
      BY <2>1, <2>3, <3>2 DEF Loaded
  <2>4. CASE pc = "down"
    BY <2>1, <2>4 DEF Loaded
  <2>5. QED
    BY <2>2, <2>3, <2>4 DEF Loaded
<1>9. CASE NextSlot \/ ToggleKillSwitch \/ (\E s \in SYMBOLS : ClosedOutside(s)) \/ UNCHANGED vars
  BY <1>9 DEF NextSlot, ToggleKillSwitch, ClosedOutside, vars, Loaded, Ahead,
              InCycle, CycleDate
<1>10. QED
  BY <1>1, <1>2, <1>3, <1>4, <1>5, <1>6, <1>7, <1>8, <1>9 DEF Next

-----------------------------------------------------------------------------
(* The simulation.                                                          *)

\* A save of the memory is one bar of the rule for each symbol.
LEMMA SavedIsBars ==
  ASSUME Base, Loaded, pc # "down",
         disk'.held_days = held_days, disk'.last_processed = last_processed
  PROVE  Audited!Bars({})
<1> USE LiveBookAssumption DEF Audited!OneBar
<1>1. ASSUME NEW h \in Holdings, NEW a \in Dates, Ahead(h, a)
      PROVE  \A s \in SYMBOLS :
               Audited!OneBar(h[s], a[s], disk'.held_days[s], disk'.last_processed[s])
  BY <1>1 DEF Ahead, Base, Typed, Dates, Holdings, CycleDate
<1>2. CASE Ahead(disk.held_days, disk.last_processed)
  <2>1. Audited!BarsFrom(disk.held_days, disk.last_processed, {})
    BY <1>1, <1>2 DEF Audited!BarsFrom, Base, Typed
  <2>2. QED
    BY <2>1 DEF Audited!Bars
<1>3. CASE ends > 0 /\ Ahead(EmptyBook, NeverDone)
  <2>1. Audited!BarsFrom(EmptyBook, NeverDone, {})
    BY <1>1, <1>3, EmptyTypes DEF Audited!BarsFrom
  <2>2. QED
    BY <1>3, <2>1, SameNames DEF Audited!Bars
<1>4. QED
  BY <1>2, <1>3 DEF Loaded

\* So is an interrupt inside an exit, but for the symbol that was closing.
LEMMA CutIsBars ==
  ASSUME Base, Loaded, NEW s \in SYMBOLS, InterruptClose(s)
  PROVE  Audited!Bars({s})
<1> USE LiveBookAssumption DEF Base
<1>1. /\ s \in todo /\ pc = "symbols" /\ held_days[s] # NotHeld
      /\ disk'.held_days = [held_days EXCEPT ![s] = DayCounted(s)]
      /\ disk'.last_processed = Marked(s)
  BY DEF InterruptClose, IsNext
<1>2. /\ disk'.held_days[s] = held_days[s] + 1 /\ disk'.last_processed[s] = CycleDate
      /\ \A t \in SYMBOLS \ {s} : /\ disk'.held_days[t] = held_days[t]
                                  /\ disk'.last_processed[t] = last_processed[t]
  BY <1>1, MarkedValue DEF DayCounted, Typed, Holdings
<1>3. CycleDate < last_processed[s]
  BY <1>1 DEF CycleInv, Typed, Dates, CycleDate
<1>4. ASSUME NEW h \in Holdings, NEW a \in Dates, Ahead(h, a)
      PROVE  \A t \in SYMBOLS :
               IF t \in {s}
               THEN Audited!CutExit(h[t], a[t], disk'.held_days[t], disk'.last_processed[t])
               ELSE Audited!OneBar(h[t], a[t], disk'.held_days[t], disk'.last_processed[t])
  <2>1. held_days[s] = h[s] /\ last_processed[s] = a[s]
    BY <1>1, <1>4 DEF Ahead
  <2>2. Audited!CutExit(h[s], a[s], disk'.held_days[s], disk'.last_processed[s])
    BY <1>1, <1>2, <1>3, <2>1, SameNames DEF Audited!CutExit
  <2>3. ASSUME NEW t \in SYMBOLS \ {s}
        PROVE  Audited!OneBar(h[t], a[t], disk'.held_days[t], disk'.last_processed[t])
    BY <1>2, <1>4 DEF Ahead, Audited!OneBar, Typed, Dates, Holdings, CycleDate
  <2>4. QED
    BY <2>2, <2>3
<1>5. CASE Ahead(disk.held_days, disk.last_processed)
  <2>1. Audited!BarsFrom(disk.held_days, disk.last_processed, {s})
    BY <1>4, <1>5 DEF Audited!BarsFrom, Typed
  <2>2. QED
    BY <2>1 DEF Audited!Bars
<1>6. CASE ends > 0 /\ Ahead(EmptyBook, NeverDone)
  <2>1. Audited!BarsFrom(EmptyBook, NeverDone, {s})
    BY <1>4, <1>6, EmptyTypes DEF Audited!BarsFrom
  <2>2. QED
    BY <1>6, <2>1, SameNames DEF Audited!Bars
<1>7. QED
  BY <1>1, <1>5, <1>6 DEF Loaded

\* A step that saves nothing is a bar of no symbol.
LEMMA NoBar == ASSUME Base, disk' = disk PROVE Audited!Bars({})
BY DEF Audited!Bars, Audited!BarsFrom, Audited!OneBar, Base, Typed, Dates

LEMMA StepSimulation ==
  ASSUME Base, Loaded, [Next]_vars
  PROVE  [Audited!Next]_(Audited!daily)
<1> USE DEF engine, world, ghosts, Audited!daily
<1>1. CASE StartUnreadable \/ Die
  <2>1. disk' = disk /\ ends' = ends + 1
    BY <1>1 DEF StartUnreadable, Die
  <2>2. QED
    BY <2>1, NoBar DEF Audited!Next, Audited!Incident
<1>2. CASE Interrupt
  <2>1. /\ pc # "down" /\ ends' = ends + 1
        /\ disk'.held_days = held_days /\ disk'.last_processed = last_processed
    BY <1>2 DEF Interrupt, Saved
  <2>2. QED
    BY <2>1, SavedIsBars DEF Audited!Next, Audited!Incident
<1>3. ASSUME NEW s \in SYMBOLS, InterruptClose(s)
      PROVE  [Audited!Next]_(Audited!daily)
  <2>1. ends' = ends + 1
    BY <1>3 DEF InterruptClose
  <2>2. QED
    BY <1>3, <2>1, CutIsBars DEF Audited!Next, Audited!Incident
<1>4. CASE Save
  <2>1. /\ pc # "down" /\ ends' = ends
        /\ disk'.held_days = held_days /\ disk'.last_processed = last_processed
    BY <1>4 DEF Save, Saved
  <2>2. QED
    BY <2>1, SavedIsBars DEF Audited!Next, Audited!Bar
<1>5. CASE Midnight
  <2>1. /\ disk'.held_days = disk.held_days /\ ends' = ends
        /\ disk'.last_processed = OneNightOlder(disk.last_processed)
    BY <1>5 DEF Midnight, Base, Typed
  <2>2. QED
    BY <2>1, SameNames DEF Audited!Next, Audited!NextDate, OneNightOlder
<1>6. CASE \/ Start \/ BeginCycle \/ Answer \/ NextSlot \/ ToggleKillSwitch
           \/ (\E s \in SYMBOLS : Process(s) \/ ClosedOutside(s)) \/ UNCHANGED vars
  <2>1. disk' = disk /\ ends' = ends
    BY <1>6 DEF Start, BeginCycle, Answer, Filled, Rejected, FilledUnreported,
       NextSlot, ToggleKillSwitch, ClosedOutside, Process, FetchFails, FeedStale,
       Hold, Close, NoEntry, Enter, vars
  <2>2. QED
    BY <2>1
<1>7. QED
  BY <1>1, <1>2, <1>3, <1>4, <1>5, <1>6 DEF Next

\* The live engine's durable book is a run of the audited backtest's rule, for
\* any symbols, windows, time stop and cap, however often the process dies, is
\* interrupted or finds its file unreadable.
THEOREM Refinement == Spec => ImplementsAuditedRule
<1>1. Init => Audited!Init
  BY SameNames DEF Init, Audited!Init
<1>2. Base /\ Loaded /\ [Next]_vars => Loaded'
  BY LoadedStep
<1>3. Base /\ Loaded /\ [Next]_vars => [Audited!Next]_(Audited!daily)
  BY StepSimulation
<1>4. QED
  BY <1>1, <1>2, <1>3, LoadedInit, BaseInvariant, PTL
     DEF Spec, ImplementsAuditedRule, Audited!Spec
=============================================================================
