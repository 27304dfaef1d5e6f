----------------------------- MODULE MCLiveBook -----------------------------
(* Small instances of LiveBook, in which the last symbol trades in the first *)
(* window (DE40, 22:30-22:55) and the others in the second (23:30-23:59);    *)
(* and what every instance implements: the live engine follows the audited   *)
(* rule, for what LiveBook leaves on disk is a run of DailyBook.             *)
EXTENDS LiveBook

MCWindows == [s \in SYMBOLS |-> IF s = N THEN 1 ELSE 2]

Audited == INSTANCE DailyBook
  WITH held <- disk.held_days, age <- disk.last_processed, incidents <- ends

\* Whatever happens to the process, the durable book advances as the audited
\* backtest does: each symbol is evaluated at most once per server date, an
\* evaluation enters, counts one day or closes, and the time stop is met.  A
\* restart inside a window repeats no day that was saved; only an incident can
\* make the book start over or count a day of a trade it was about to close.
ImplementsAuditedRule == Audited!Spec
=============================================================================
