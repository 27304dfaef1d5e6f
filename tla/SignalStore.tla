---------------------------- MODULE SignalStore ----------------------------
(* backend/live_data/live_data_collector.py: after every scan the monitor     *)
(* appends one line per symbol to a file, gives each an identifier of the     *)
(* setup it belongs to, and now and then cuts the file's oldest lines off.    *)
(* A process may be killed, or the disk may fail, in the middle of a line, and *)
(* the cut may fail after its counter was set back.                           *)
EXTENDS Integers, SequencesExt, FiniteSetsExt

CONSTANTS
  Names,         \* the symbols recorded
  Scans,         \* what a scan can show of the symbols that were available: [state, context],
                 \* the context being bias, phase, killzone and SMT direction together
  MAX_RECORDS,   \* retention.max_records
  LARGE, SLACK,  \* above LARGE records the file is only cut after SLACK new ones
  MAX_WRITTEN, MAX_CUTS, LAST_DAY   \* bounds of one behaviour

VARIABLES
  file,       \* the lines: records and Broken ones
  open_end,   \* the last line has no line break
  active,     \* active_setups, by symbol
  since,      \* _records_since_retention
  date,
  written,    \* history: records written completely, so far
  cuts,       \* history: writes that stopped in the middle
  starts,     \* history: processes started
  untrimmed   \* history: trims that failed since the last one that did not

store_vars == <<file, open_end, active, since, date, written, cuts, starts, untrimmed>>

Broken == [n |-> 0]
Nothing == [key |-> <<>>, id |-> <<>>]

\* Mutated form: the day is not part of a setup's key.
SetupKeyOfNoDay(symbol, on, context) == <<symbol, context>>

SetupKey(symbol, on, context) == <<symbol, on, context>>

\* The digest of the key, after the symbol and the date.
GenerateSetupId(symbol, on, context) == <<symbol, on, SetupKey(symbol, on, context)>>

StoreInit ==
  /\ file = <<>> /\ open_end = FALSE /\ active = [s \in Names |-> Nothing]
  /\ since = 0 /\ date = 1 /\ written = 0 /\ cuts = 0 /\ starts = 1
  /\ untrimmed = 0

\* setup_id_for: the setup a symbol is in keeps its identifier.
SetupIdFor(symbol, context) ==
  IF active[symbol].key = SetupKey(symbol, date, context) THEN active[symbol].id
  ELSE GenerateSetupId(symbol, date, context)

\* build_record, symbol after symbol, numbered in the order of writing.
Records(scan) ==
  LET symbols == SetToSeq(DOMAIN scan)
  IN [i \in DOMAIN symbols |->
       LET s == symbols[i]
       IN [n |-> written + i, symbol |-> s, on |-> date, context |-> scan[s].context,
           state |-> scan[s].state, id |-> SetupIdFor(s, scan[s].context)]]

\* A cold symbol is in no setup any more.
Remembered(scan) ==
  [s \in Names |->
    IF s \notin DOMAIN scan THEN active[s]
    ELSE IF scan[s].state = "COLD" THEN Nothing
    ELSE [key |-> SetupKey(s, date, scan[s].context), id |-> SetupIdFor(s, scan[s].context)]]

\* The first line written continues a line that was left open.
Appended(lines) ==
  IF open_end /\ lines # <<>> THEN Front(file) \o <<Broken>> \o Tail(lines) ELSE file \o lines

Newest(lines, n) == IF Len(lines) <= n THEN lines ELSE SubSeq(lines, Len(lines) - n + 1, Len(lines))

\* enforce_retention_if_needed has something to do.  It counts the process's own
\* records only.
TrimDue(count) == MAX_RECORDS > 0 /\ (MAX_RECORDS > LARGE => count >= SLACK)

\* The counter is set back before the file is read, written anew and replaced; when
\* one of these raises, the monitor swallows the error and the file stays uncut.
EnforceRetention(lines, count) ==
  \/ /\ ~TrimDue(count)
     /\ file' = lines /\ since' = count /\ UNCHANGED untrimmed
  \/ /\ TrimDue(count)
     /\ file' = Newest(lines, MAX_RECORDS) /\ since' = 0 /\ untrimmed' = 0
  \/ /\ TrimDue(count) /\ untrimmed < MAX_CUTS
     /\ file' = lines /\ since' = 0 /\ untrimmed' = untrimmed + 1

AppendScan ==
  \E scan \in Scans :
    LET records == Records(scan)
    IN /\ written + Len(records) <= MAX_WRITTEN
       /\ EnforceRetention(Appended(records), since + Len(records))
       /\ open_end' = FALSE
       /\ active' = Remembered(scan)
       /\ written' = written + Len(records)
       /\ UNCHANGED <<date, cuts, starts>>

Restarted ==
  active' = [s \in Names |-> Nothing] /\ since' = 0 /\ starts' = starts + 1

\* Writing stops after some records, with a part of the next one or without;
\* either the process is gone, after the last record perhaps, or the monitor has
\* swallowed the error; the records are neither counted nor is the file cut.
CutShort ==
  /\ cuts < MAX_CUTS
  /\ \E scan \in Scans, part, killed \in BOOLEAN :
     \E k \in 0..Cardinality(DOMAIN scan) :
       LET done == SubSeq(Records(scan), 1, k)
           lines == done \o (IF part THEN <<Broken>> ELSE <<>>)
       IN /\ k < Cardinality(DOMAIN scan) \/ (killed /\ ~part)
          /\ written + k <= MAX_WRITTEN
          /\ file' = Appended(lines)
          /\ open_end' = IF lines = <<>> THEN open_end ELSE part
          /\ written' = written + k
          /\ IF killed THEN Restarted
             ELSE active' = Remembered(scan) /\ UNCHANGED <<since, starts>>
  /\ cuts' = cuts + 1
  /\ UNCHANGED <<date, untrimmed>>

Restart ==
  /\ starts <= MAX_CUTS /\ Restarted
  /\ UNCHANGED <<file, open_end, date, written, cuts, untrimmed>>

NextDate ==
  /\ date < LAST_DAY /\ date' = date + 1
  /\ UNCHANGED <<file, open_end, active, since, written, cuts, starts, untrimmed>>

StoreNext == AppendScan \/ CutShort \/ Restart \/ NextDate

StoreTypeOK ==
  /\ \A i \in DOMAIN file : file[i].n \in 0..MAX_WRITTEN
  /\ open_end \in BOOLEAN /\ since \in 0..MAX_WRITTEN /\ date \in 1..LAST_DAY
  /\ open_end => file # <<>>
  /\ untrimmed \in 0..MAX_CUTS

\* read_records skips what it cannot parse: the lines it returns.
ReadRecords == {i \in DOMAIN file : file[i] # Broken}

\* symbol_mode: only the other symbols count as production.
Sandboxed == {"BTCUSD", "NAS100", "EURUSD", "GBPUSD"}

\* summary: setups are counted by identifier, bands over production symbols.
Summary ==
  LET In(bands) == {i \in ReadRecords : file[i].state \in bands}
      production == {i \in ReadRecords : file[i].symbol \notin Sandboxed}
  IN [total |-> Cardinality(ReadRecords),
      setups |-> Cardinality({file[i].id : i \in In({"WARM", "HOT", "EXECUTION_READY"})}),
      scans |-> Cardinality(production),
      hot_or_better |-> Cardinality(production \cap In({"HOT", "EXECUTION_READY"}))]

\* The numbers of the records that can be read.
Numbers == {file[i].n : i \in ReadRecords}
MostAtOnce == Cardinality(Names)

\* Whatever was interrupted, the file keeps the newest records: they are in
\* the order of writing, a cut costs at most one complete record (the one glued
\* to the half line before it), and anything else is only gone when the file is
\* full.  A file that has a limit outgrows it, but only by what every process may
\* leave uncounted, by what failed scans leave, and by what had been counted at
\* each trim that failed since one succeeded; and the number of setups reported
\* of it is the number of different (symbol, day, context), whoever wrote the
\* records, restarted or not.
StoreKeepsTheNewest ==
  /\ \A i, j \in ReadRecords : i < j => file[i].n < file[j].n
  /\ Numbers # {} => Max(Numbers) - Min(Numbers) + 1 - Cardinality(Numbers) <= cuts
  /\ written - Cardinality(Numbers) > cuts => Len(file) >= MAX_RECORDS
  /\ MAX_RECORDS > 0 =>
       Len(file) <= MAX_RECORDS + (SLACK - 1) * starts + MostAtOnce * cuts
                    + (SLACK - 1 + MostAtOnce) * untrimmed
  /\ Summary.setups =
       Cardinality({<<file[i].symbol, file[i].on, file[i].context>> :
                      i \in {x \in ReadRecords : file[x].state # "COLD"}})
=============================================================================
