------------------------------ MODULE LiveBook ------------------------------
(***************************************************************************)
(* The live mean-reversion engine, scripts/run_mean_reversion_live.py, and  *)
(* the order path of backend/live_paper/demo_order_executor.py, against one *)
(* broker account.                                                          *)
(*                                                                          *)
(* The engine keeps a BOOK of the positions it believes it holds.  The book *)
(* lives in memory, is written to meanrev_state.json once per cycle, after  *)
(* every eligible symbol of the cycle was processed, and is read back when  *)
(* the process starts.  The ACCOUNT is the broker's truth.  The engine      *)
(* never reads it back into the book: the two can only stay in step because *)
(* each order changes both.  This module is about when they do.             *)
(*                                                                          *)
(* Abstractions.  Symbols are their positions in the tuple SYMBOLS, so the  *)
(* loop order is the order of the numbers.  A price, an IBS value and a lot *)
(* are not kept: an evaluation sees one of the signals "enter", "hold",     *)
(* "exit".  A server date is kept as its age in midnights, capped at Old,   *)
(* because the code only compares dates for equality.                       *)
(***************************************************************************)
EXTENDS Integers, FiniteSets

CONSTANTS
  N,                        \* number of traded symbols
  ENTRY_WINDOWS,            \* symbol -> the slot of the day it trades in
  LAST_SLOT,                \* the last window slot of a server day
  MAX_HOLD_DAYS,            \* time stop, in evaluations
  MAX_CONCURRENT_POSITIONS, \* cap on the positions of the book
  MAX_PER_SYMBOL,           \* bound: account positions on one symbol
  MAX_ENDS                  \* bound: ends of the process and misreads of its file

SYMBOLS == 1..N

ASSUME LiveBookAssumption ==
  /\ N \in Nat /\ LAST_SLOT \in Nat \ {0}
  /\ ENTRY_WINDOWS \in [SYMBOLS -> 1..LAST_SLOT]
  /\ MAX_HOLD_DAYS \in Nat \ {0}
  /\ MAX_CONCURRENT_POSITIONS \in Nat
  /\ MAX_PER_SYMBOL \in Nat
  /\ MAX_ENDS \in Nat

VARIABLES
  slot,            \* where the server clock is: 0 outside all windows
  pc,              \* the engine: "down", "sleeping", "symbols", "submitting"
  late,            \* a midnight passed since this cycle read the clock
  todo,            \* symbols this cycle still has to process
  sym,             \* the symbol whose order is being submitted
  held_days,       \* state["open_positions"], reduced to held_days
  last_processed,  \* state["last_processed"], as the age of the date
  disk,            \* meanrev_state.json
  kill_switch,     \* the KILL_SWITCH file exists
  account,         \* positions with our magic on the account, by symbol
  ends             \* abrupt ends and misreads so far

\* Kept for the properties only: the symbols an incident outside the engine's
\* knowledge has touched, and the midnights since the position was opened.
VARIABLES loose, nights

engine == <<pc, late, todo, sym, held_days, last_processed>>
world  == <<slot, kill_switch, account>>
ghosts == <<loose, nights>>
vars   == <<slot, pc, late, todo, sym, held_days, last_processed, disk,
            kill_switch, account, ends, loose, nights>>

NotHeld == -1
Old     == 2      \* processed two or more midnights ago, or never

Holdings   == [SYMBOLS -> {NotHeld} \cup Nat]
Dates      == [SYMBOLS -> 0..Old]
EmptyBook  == [s \in SYMBOLS |-> NotHeld]
NeverDone  == [s \in SYMBOLS |-> Old]
Open(h)    == {s \in SYMBOLS : h[s] # NotHeld}

\* The book a reader finds: in memory while the process lives, else on disk.
Book == IF pc = "down" THEN Open(disk.held_days) ELSE Open(held_days)

\* A cycle is under way: it takes seconds, so it may see the midnight after
\* the last window (23:59) but never the next window.
InCycle == pc \in {"symbols", "submitting"}

\* The date this cycle read when it began, as an age.
CycleDate == IF late THEN 1 ELSE 0

Typed ==
  /\ slot \in 0..LAST_SLOT
  /\ pc \in {"down", "sleeping", "symbols", "submitting"}
  /\ late \in BOOLEAN
  /\ todo \subseteq SYMBOLS
  /\ sym \in {0} \cup SYMBOLS
  /\ held_days \in Holdings
  /\ last_processed \in Dates
  /\ disk \in [held_days : Holdings, last_processed : Dates]
  /\ kill_switch \in BOOLEAN
  /\ account \in [SYMBOLS -> 0..MAX_PER_SYMBOL]
  /\ ends \in 0..MAX_ENDS
  /\ loose \subseteq SYMBOLS
  /\ nights \in [SYMBOLS -> 0..MAX_HOLD_DAYS]

\* The order in flight is for a symbol out of the book, and its evaluation is
\* already marked with the date of this cycle.
Submitting ==
  pc = "submitting" =>
    /\ sym \in SYMBOLS
    /\ held_days[sym] = NotHeld
    /\ last_processed[sym] = CycleDate
    /\ sym \notin todo

\* Only a cycle can be late, no second midnight can reach it, and a symbol it
\* still has to process was last processed before the date it works with.
CycleInv ==
  /\ late => InCycle /\ slot = 0
  /\ ~InCycle => todo = {}
  /\ \A s \in todo : last_processed[s] > CycleDate

\* The variables have their types, and what a cycle has in hand is what it may
\* work on: a symbol is processed once per server date, and an order is out for
\* a symbol of the cycle that the book does not hold.
TypeOK == Typed /\ Submitting /\ CycleInv

Init ==
  /\ slot = 0
  /\ pc = "down" /\ late = FALSE /\ todo = {} /\ sym = 0
  /\ held_days = EmptyBook /\ last_processed = NeverDone
  /\ disk = [held_days |-> EmptyBook, last_processed |-> NeverDone]
  /\ kill_switch = FALSE
  /\ account = [s \in SYMBOLS |-> 0]
  /\ ends = 0
  /\ loose = {} /\ nights = [s \in SYMBOLS |-> 0]

-----------------------------------------------------------------------------
(* The process: start, the two ways to end, the save.                       *)

\* load_state: what the last save left.
Start ==
  /\ pc = "down"
  /\ pc' = "sleeping"
  /\ held_days' = disk.held_days
  /\ last_processed' = disk.last_processed
  /\ UNCHANGED <<world, disk, late, todo, sym, ends, ghosts>>

\* load_state on a file that cannot be read or parsed: an empty book, and
\* the next save makes it the durable one.
StartUnreadable ==
  /\ pc = "down"
  /\ ends < MAX_ENDS
  /\ ends' = ends + 1
  /\ pc' = "sleeping"
  /\ held_days' = EmptyBook
  /\ last_processed' = NeverDone
  /\ loose' = loose \cup Open(disk.held_days)
  /\ UNCHANGED <<world, disk, late, todo, sym, nights>>

\* What save_state writes: the whole state, in one atomic replace.
Saved == [held_days |-> held_days, last_processed |-> last_processed]

\* A saved state has forgotten the closed positions, and so does the ghost.
NightsOfBook == [s \in SYMBOLS |-> IF s \in Open(held_days) THEN nights[s] ELSE 0]

\* The process is gone and its memory with it.
Gone ==
  /\ pc' = "down"
  /\ held_days' = EmptyBook /\ last_processed' = NeverDone
  /\ todo' = {} /\ sym' = 0 /\ late' = FALSE

\* The symbols whose membership in the book was changed since the last save.
Unsaved == {s \in SYMBOLS : (s \in Open(held_days)) # (s \in Open(disk.held_days))}

\* The process ends without save_state: killed by the supervisor or by the
\* stop script, a crash of the MT5 extension, an exception the loop does not
\* catch (an account read that raises in open_position, a failing save).
Die ==
  /\ pc # "down"
  /\ ends < MAX_ENDS
  /\ ends' = ends + 1
  /\ Gone
  /\ loose' = loose \cup Unsaved
  /\ UNCHANGED <<world, disk, nights>>

\* KeyboardInterrupt: the state of that moment is saved, even mid-cycle.
Interrupt ==
  /\ pc # "down"
  /\ ends < MAX_ENDS
  /\ ends' = ends + 1
  /\ disk' = Saved
  /\ Gone
  /\ nights' = NightsOfBook
  /\ UNCHANGED <<world, loose>>

\* save_state at the end of a cycle that had eligible symbols.
Save ==
  /\ pc = "symbols"
  /\ todo = {}
  /\ disk' = Saved
  /\ pc' = "sleeping"
  /\ late' = FALSE
  /\ nights' = NightsOfBook
  /\ UNCHANGED <<world, todo, sym, held_days, last_processed, ends, loose>>

-----------------------------------------------------------------------------
(* One cycle.                                                               *)

\* A cycle that looks at the window only.
EligibleAgain == {s \in SYMBOLS : ENTRY_WINDOWS[s] = slot}
\* The symbols in their window that this server date has not processed yet.
Eligible == {s \in SYMBOLS : ENTRY_WINDOWS[s] = slot /\ last_processed[s] # 0}

BeginCycle ==
  /\ pc = "sleeping"
  /\ {s \in SYMBOLS : ENTRY_WINDOWS[s] = slot} # {}
  /\ todo' = Eligible
  /\ pc' = "symbols"
  /\ UNCHANGED <<world, late, sym, held_days, last_processed, disk, ends, ghosts>>

IsNext(s) == pc = "symbols" /\ s \in todo /\ \A t \in todo : s <= t

\* The candle request raised: nothing is marked, the next cycle tries again.
FetchFails(s) ==
  /\ IsNext(s)
  /\ todo' = todo \ {s}
  /\ UNCHANGED <<world, pc, late, sym, held_days, last_processed, disk, ends, ghosts>>

Unmarked(s) == last_processed
Marked(s) == [last_processed EXCEPT ![s] = CycleDate]

\* The last bar is not today's: no evaluation, and no retry today.
FeedStale(s) ==
  /\ IsNext(s)
  /\ last_processed' = Marked(s)
  /\ todo' = todo \ {s}
  /\ UNCHANGED <<world, pc, late, sym, held_days, disk, ends, ghosts>>

\* held_days counts the evaluations of the position, this one included.
DayNotCounted(s) == held_days[s]
DayCounted(s) == held_days[s] + 1

\* The time stop: the day being counted is the last one allowed.
DueLate(s) == DayCounted(s) > MAX_HOLD_DAYS
Due(s) == DayCounted(s) >= MAX_HOLD_DAYS

\* A held position whose exit is not due: one more day on its counter.
Hold(s) ==
  /\ IsNext(s)
  /\ held_days[s] # NotHeld
  /\ ~Due(s)
  /\ held_days' = [held_days EXCEPT ![s] = DayCounted(s)]
  /\ last_processed' = Marked(s)
  /\ todo' = todo \ {s}
  /\ UNCHANGED <<world, pc, late, sym, disk, ends, ghosts>>

\* Of the account's positions on a symbol, the ones a close may leave open: a
\* position with no tick is passed over, and so is one whose close the broker
\* refused.
LeftOpen(s) == 0..account[s]

\* The exit: the IBS is above IBS_EXIT (possible on any day) or the time stop
\* is due.  close_symbol_positions tries every position of ours on the symbol;
\* whatever it reports, the book forgets the position.
Close(s) ==
  /\ IsNext(s)
  /\ held_days[s] # NotHeld
  /\ \E left \in LeftOpen(s) :
       /\ account' = [account EXCEPT ![s] = left]
       /\ loose' = IF left = 0 THEN loose ELSE loose \cup {s}
  /\ held_days' = [held_days EXCEPT ![s] = NotHeld]
  /\ last_processed' = Marked(s)
  /\ todo' = todo \ {s}
  /\ UNCHANGED <<slot, kill_switch, pc, late, sym, disk, ends, nights>>

\* KeyboardInterrupt while an exit is carried out: the day is counted and the
\* date marked, the account may be flat already or not, and the state that is
\* saved still has the position.
InterruptClose(s) ==
  /\ IsNext(s)
  /\ held_days[s] # NotHeld
  /\ ends < MAX_ENDS
  /\ ends' = ends + 1
  /\ \E left \in LeftOpen(s) : account' = [account EXCEPT ![s] = left]
  /\ disk' = [held_days |-> [held_days EXCEPT ![s] = DayCounted(s)],
              last_processed |-> Marked(s)]
  /\ Gone
  /\ loose' = loose \cup {s}
  /\ nights' = NightsOfBook
  /\ UNCHANGED <<slot, kill_switch>>

\* Not held and nothing to do: no entry signal, no slot left, or the order is
\* refused before it is sent (kill switch, governor, stale quote, sizing).
NoEntry(s) ==
  /\ IsNext(s)
  /\ held_days[s] = NotHeld
  /\ last_processed' = Marked(s)
  /\ todo' = todo \ {s}
  /\ UNCHANGED <<world, pc, late, sym, held_days, disk, ends, ghosts>>

SlotFreeOffByOne == Cardinality(Open(held_days)) <= MAX_CONCURRENT_POSITIONS
SlotFree == Cardinality(Open(held_days)) < MAX_CONCURRENT_POSITIONS

OpenAllowedIgnoringSwitch == TRUE
OpenAllowed == ~kill_switch

\* An entry signal that passes every check: the order is about to be sent.
\* The kill switch is read here and not again.
Enter(s) ==
  /\ IsNext(s)
  /\ held_days[s] = NotHeld
  /\ SlotFree
  /\ OpenAllowed
  /\ last_processed' = Marked(s)
  /\ todo' = todo \ {s}
  /\ sym' = s
  /\ pc' = "submitting"
  /\ UNCHANGED <<world, late, held_days, disk, ends, ghosts>>

\* The broker executes the order and says so: the position enters the book.
Filled ==
  /\ pc = "submitting"
  /\ account[sym] < MAX_PER_SYMBOL
  /\ account' = [account EXCEPT ![sym] = @ + 1]
  /\ held_days' = [held_days EXCEPT ![sym] = 0]
  /\ nights' = [nights EXCEPT ![sym] = CycleDate]
  /\ pc' = "symbols" /\ sym' = 0
  /\ UNCHANGED <<slot, kill_switch, late, todo, last_processed, disk, ends, loose>>

\* A refusal books the position all the same.
RefusedButBooked == [held_days EXCEPT ![sym] = 0]
\* Only an order reported as submitted occupies the symbol's slot.
AfterRefusal == held_days

\* The broker refuses the order.
Rejected ==
  /\ pc = "submitting"
  /\ held_days' = AfterRefusal
  /\ pc' = "symbols" /\ sym' = 0
  /\ UNCHANGED <<world, late, todo, last_processed, disk, ends, ghosts>>

\* The broker executes the order, all or part of it, but the answer is not
\* DONE: order_send returned None after a timeout, or reported a partial fill.
\* The engine takes it for a refusal.
FilledUnreported ==
  /\ pc = "submitting"
  /\ account[sym] < MAX_PER_SYMBOL
  /\ account' = [account EXCEPT ![sym] = @ + 1]
  /\ loose' = loose \cup {sym}
  /\ pc' = "symbols" /\ sym' = 0
  /\ UNCHANGED <<slot, kill_switch, late, todo, held_days, last_processed, disk,
                 ends, nights>>

-----------------------------------------------------------------------------
(* Outside the engine.                                                      *)

OneNightOlder(f) == [s \in SYMBOLS |-> IF f[s] < Old THEN f[s] + 1 ELSE Old]

\* Time reaches the next window of the day.
NextSlot ==
  /\ slot < LAST_SLOT
  /\ ~InCycle
  /\ slot' = slot + 1
  /\ UNCHANGED <<engine, disk, kill_switch, account, ends, ghosts>>

\* Midnight of the server clock.
Midnight ==
  /\ slot = LAST_SLOT
  /\ slot' = 0
  /\ late' = InCycle
  /\ last_processed' = OneNightOlder(last_processed)
  /\ disk' = [disk EXCEPT !.last_processed = OneNightOlder(@)]
  /\ nights' = [s \in SYMBOLS |->
                  IF /\ s \in Open(held_days) \cup Open(disk.held_days)
                     /\ nights[s] < MAX_HOLD_DAYS
                  THEN nights[s] + 1 ELSE nights[s]]
  /\ UNCHANGED <<pc, todo, sym, held_days, kill_switch, account, ends, loose>>

\* The operator creates or removes the KILL_SWITCH file.
ToggleKillSwitch ==
  /\ kill_switch' = ~kill_switch
  /\ UNCHANGED <<engine, slot, disk, account, ends, ghosts>>

\* A position is closed by hand in the terminal, or by a margin stop-out.
ClosedOutside(s) ==
  /\ account[s] > 0
  /\ account' = [account EXCEPT ![s] = @ - 1]
  /\ loose' = loose \cup {s}
  /\ UNCHANGED <<engine, slot, disk, kill_switch, ends, nights>>

-----------------------------------------------------------------------------

Process(s) ==
  \/ FetchFails(s) \/ FeedStale(s)
  \/ Hold(s) \/ Close(s) \/ NoEntry(s) \/ Enter(s)

Answer == Filled \/ Rejected \/ FilledUnreported

Next ==
  \/ Start \/ StartUnreadable \/ Die \/ Interrupt
  \/ BeginCycle \/ Save \/ Answer
  \/ \E s \in SYMBOLS : Process(s) \/ InterruptClose(s)
  \/ NextSlot \/ Midnight \/ ToggleKillSwitch
  \/ \E s \in SYMBOLS : ClosedOutside(s)

Spec == Init /\ [][Next]_vars

\* An evaluation of the symbol on a live feed.
Evaluate(s) == Hold(s) \/ Close(s) \/ NoEntry(s) \/ Enter(s)

\* What the supervisor, the clock and the terminal owe the engine: it is
\* restarted, time passes, a cycle that began goes on to its save, a window
\* does not pass unpolled for ever (it lasts 25 minutes or more and the engine
\* polls every 5) and the feed does not fail at a symbol's window for ever.
\* The process ends finitely often (MAX_ENDS); nothing is assumed of the broker's
\* answers except that there is one.
Fairness ==
  /\ WF_vars(Start)
  /\ SF_vars(NextSlot)
  /\ WF_vars(Midnight)
  /\ WF_vars(Save)
  /\ WF_vars(Answer)
  /\ WF_vars(\E s \in SYMBOLS : Process(s))
  /\ \A w \in 1..LAST_SLOT : SF_vars(BeginCycle /\ slot = w)
  /\ \A s \in SYMBOLS : SF_vars(Evaluate(s))

FairSpec == Spec /\ Fairness

-----------------------------------------------------------------------------
(* Safety.                                                                  *)

\* The book never promises more than MAX_CONCURRENT_POSITIONS, counting the
\* order in flight, and neither does what a restart would load: the concurrency
\* cap survives a crash at any point between an order and the save.
BookWithinCap ==
  /\ Cardinality(Open(held_days) \cup (IF pc = "submitting" THEN {sym} ELSE {}))
       <= MAX_CONCURRENT_POSITIONS
  /\ Cardinality(Open(disk.held_days)) <= MAX_CONCURRENT_POSITIONS

\* The book and the account agree on every symbol that no named incident has
\* touched: an order answered by something else than DONE though executed, a
\* close left incomplete or interrupted, a death between a change of the book and its save, an
\* unreadable state file, a position closed outside the engine.  Nothing else
\* the engine does, restarts and interrupts mid-cycle included, can part them.
BookMatchesAccount ==
  \A s \in SYMBOLS \ loose : account[s] = IF s \in Book THEN 1 ELSE 0

\* held_days never runs ahead of the calendar, so the time stop never closes a
\* position before its last allowed day, however often the engine restarts
\* within a window and re-evaluates a symbol it had not saved.
HeldDaysHonest ==
  \A s \in SYMBOLS \ loose :
    /\ held_days[s] <= nights[s]
    /\ disk.held_days[s] <= nights[s]

\* A position no incident has touched always has days left: the time stop removes
\* it on the day it is due, and no path (a restart, a stale feed, a late cycle)
\* leaves it at or past the stop in the book or on disk.  An interrupt inside an
\* exit does leave it there, for one day more each.
TimeStopKept ==
  \A s \in SYMBOLS :
    /\ s \notin loose =>
         held_days[s] < MAX_HOLD_DAYS /\ disk.held_days[s] < MAX_HOLD_DAYS
    /\ held_days[s] < MAX_HOLD_DAYS + ends
    /\ disk.held_days[s] < MAX_HOLD_DAYS + ends

\* The engine's own docstring (run_mean_reversion_live.py:7): "one position per
\* symbol".
OnePositionPerSymbol == \A s \in SYMBOLS : account[s] <= 1

-----------------------------------------------------------------------------
(* Liveness.                                                                *)

\* Every position leaves the book in the end, kill switch or not: by its exit
\* signal or by the time stop, which counts only the days that were evaluated.
HoldEnds == \A s \in SYMBOLS : s \in Book ~> s \notin Book

\* README, "Exits keep running; only new orders are blocked": a kill switch
\* that stays on empties the book and keeps it empty.
KillSwitchDrains == <>[]kill_switch => <>[](Book = {})
=============================================================================
