----------------------------- MODULE Supervisor -----------------------------
(***************************************************************************)
(* scripts/run_sentinel_supervisor.py: the process that starts, watches and *)
(* restarts the engine, with what it watches - the engine's status file -   *)
(* and what is meant to keep it alone: a lock file, START_SENTINEL.bat.     *)
(*                                                                          *)
(* A supervisor knows the engine it started only through a process handle,  *)
(* which dies with the supervisor; any other engine it can only infer from  *)
(* the age of the status file.  The engine outlives its supervisor          *)
(* (DETACHED_PROCESS).                                                      *)
(*                                                                          *)
(* Abstractions.  Time is counted in units no shorter than an engine cycle, *)
(* so an engine that runs writes its status in every unit.  Ages are capped *)
(* one above the largest threshold; a missing status file has the cap as    *)
(* its age.  Alerts and the log are left out, and so is the daily digest.   *)
(***************************************************************************)
EXTENDS Integers, FiniteSets

CONSTANTS
  Supervisors, Engines,   \* processes; a dead one's name may be used again
  NoOne,                  \* neither
  STALE,                  \* stale_seconds
  DATA_STALE,             \* data_stale_seconds
  GRACE,                  \* ENGINE_GRACE_SECONDS
  STARTUP,                \* bound: time from spawn to first status
  MAX_FAULTS              \* bound: deaths and hangs

HUNG == 3 * STALE
Greater(x, y) == IF x > y THEN x ELSE y
CAP == Greater(HUNG, DATA_STALE) + 1

ASSUME SupervisorAssumption ==
  /\ NoOne \notin Supervisors \cup Engines
  /\ STALE \in Nat \ {0} /\ DATA_STALE \in Nat \ {0}
  /\ GRACE \in Nat \ {0} /\ GRACE <= STALE
  /\ STARTUP \in Nat /\ STARTUP < GRACE
  /\ MAX_FAULTS \in Nat

VARIABLES
  sup,        \* supervisor -> "dead", "checked" (the lock), "looping"
  child,      \* supervisor -> the engine whose handle it holds, or NoOne
  lock,       \* the supervisor named in supervisor.lock, or NoOne
  eng,        \* engine -> "dead", "starting", "running", "hung"
  eng_age,    \* engine -> time since it was spawned
  seen_ok,    \* engine -> time since its last answer out of MT5, or Never
  mt5,        \* "up", "mute" (no answers), "off" (no terminal process)
  heartbeat,  \* age of the status file
  last_ok,    \* age of last_success_utc in it, or Never
  faults      \* deaths and hangs so far

\* Kept for the properties only: two supervisors lived at once; an engine whose
\* supervisor is gone left the status file stale while it lived.
VARIABLES raced, silent_orphan

ghosts == <<raced, silent_orphan>>
vars == <<sup, child, lock, eng, eng_age, seen_ok, mt5, heartbeat,
          last_ok, faults, raced, silent_orphan>>

Never == -1

\* The types; and no status file tells of an answer later than its own writing.
TypeOK ==
  /\ sup \in [Supervisors -> {"dead", "checked", "looping"}]
  /\ child \in [Supervisors -> Engines \cup {NoOne}]
  /\ lock \in Supervisors \cup {NoOne}
  /\ eng \in [Engines -> {"dead", "starting", "running", "hung"}]
  /\ eng_age \in [Engines -> 0..GRACE]
  /\ seen_ok \in [Engines -> {Never} \cup 0..CAP]
  /\ mt5 \in {"up", "mute", "off"}
  /\ heartbeat \in 0..CAP
  /\ last_ok \in {Never} \cup 0..CAP
  /\ last_ok # Never => last_ok >= heartbeat
  /\ faults \in 0..MAX_FAULTS
  /\ raced \in BOOLEAN /\ silent_orphan \in BOOLEAN

Init ==
  /\ sup = [s \in Supervisors |-> "dead"]
  /\ child = [s \in Supervisors |-> NoOne]
  /\ lock = NoOne
  /\ eng = [e \in Engines |-> "dead"]
  /\ eng_age = [e \in Engines |-> 0]
  /\ seen_ok = [e \in Engines |-> Never]
  /\ mt5 \in {"up", "mute", "off"}
  /\ heartbeat = CAP /\ last_ok = Never
  /\ faults = 0 /\ raced = FALSE /\ silent_orphan = FALSE

Alive == {e \in Engines : eng[e] # "dead"}
Running == {e \in Engines : eng[e] = "running"}
Watched == {child[s] : s \in {s \in Supervisors : sup[s] = "looping"}}
Orphans == Alive \ Watched
MissingLooksFresh == heartbeat \in STALE + 1 .. CAP - 1
LooksStale == heartbeat > STALE

-----------------------------------------------------------------------------
(* One supervisor.                                                          *)

\* another_supervisor_alive: the lock names a live process.
LockHeld == lock # NoOne /\ sup[lock] # "dead"

Comes(s) ==
  /\ sup[s] = "dead"
  /\ sup' = [sup EXCEPT ![s] = "checked"]
  /\ raced' = (raced \/ \E t \in Supervisors : sup[t] # "dead")

\* main, from the logon task: it passes the singleton guard.
StartAtLogon(s) ==
  /\ ~LockHeld
  /\ Comes(s)
  /\ UNCHANGED <<child, lock, eng, eng_age, seen_ok, mt5, heartbeat,
                 last_ok, faults, silent_orphan>>

\* START_SENTINEL.bat deletes the lock before it starts a supervisor.
StartByScript(s) ==
  /\ Comes(s)
  /\ lock' = NoOne
  /\ UNCHANGED <<child, eng, eng_age, seen_ok, mt5, heartbeat, last_ok,
                 faults, silent_orphan>>

\* main goes on: the lock is written some time after it was checked.
WriteLock(s) ==
  /\ sup[s] = "checked"
  /\ sup' = [sup EXCEPT ![s] = "looping"]
  /\ lock' = s
  /\ UNCHANGED <<child, eng, eng_age, seen_ok, mt5, heartbeat, last_ok,
                 faults, ghosts>>

\* The supervisor is killed; the handle of its engine goes with it.
SupervisorDies(s) ==
  /\ sup[s] # "dead"
  /\ faults < MAX_FAULTS /\ faults' = faults + 1
  /\ sup' = [sup EXCEPT ![s] = "dead"]
  /\ child' = [child EXCEPT ![s] = NoOne]
  /\ silent_orphan' = (silent_orphan \/ (child[s] \in Alive /\ LooksStale))
  /\ UNCHANGED <<lock, eng, eng_age, seen_ok, mt5, heartbeat, last_ok, raced>>

ChildState(s) ==
  IF child[s] = NoOne THEN "unknown"
  ELSE IF eng[child[s]] = "dead" THEN "exited" ELSE "alive"

\* data_age_seconds: silence about the feed counts as no age at all.
DataAge == IF last_ok = Never THEN 0 ELSE last_ok

AgeOfStatusOnly == heartbeat > DATA_STALE
LooksFeedless == DataAge > DATA_STALE

NoGrace(e) == FALSE
\* Too young to have reported, and only failing because of that.
InGrace(e) == eng_age[e] < GRACE /\ (LooksStale \/ LooksFeedless)

StartsAnyway == TRUE
\* An engine nobody here started may be writing the heartbeat.
FieldClear == LooksStale

\* decide_action.
Decision(s) ==
  CASE ChildState(s) = "exited" -> "start"
    [] ChildState(s) = "unknown" -> IF FieldClear THEN "start" ELSE "none"
    [] OTHER ->
         IF InGrace(child[s]) THEN "wait_first_heartbeat"
         ELSE IF LooksFeedless THEN "kill_restart_dead_feed"
         ELSE IF heartbeat > HUNG THEN "kill_restart_hung"
         ELSE "none"

\* child.kill() before a restart; a start finds the child gone already.
Killed(s) ==
  IF ChildState(s) = "alive" THEN [eng EXCEPT ![child[s]] = "dead"] ELSE eng

\* start_engine.
Spawn(s, table) ==
  \E e \in {x \in Engines : table[x] = "dead"} :
    /\ \A t \in Supervisors \ {s} : child[t] # e
    /\ eng' = [table EXCEPT ![e] = "starting"]
    /\ eng_age' = [eng_age EXCEPT ![e] = 0]
    /\ seen_ok' = [seen_ok EXCEPT ![e] = Never]
    /\ child' = [child EXCEPT ![s] = e]

\* One pass of the loop that acts; the terminal is running, or else the
\* supervisor sleeps without looking at the engine.
Check(s) ==
  /\ sup[s] = "looping"
  /\ mt5 # "off"
  /\ Decision(s) \notin {"none", "wait_first_heartbeat"}
  /\ Spawn(s, Killed(s))
  /\ UNCHANGED <<sup, lock, mt5, heartbeat, last_ok, faults, ghosts>>

-----------------------------------------------------------------------------
(* The operator's scripts.                                                  *)

\* stop_sentinel.ps1 once it does not refuse: it kills every supervisor, then
\* every engine, and removes the lock.
EverythingStops ==
  /\ child' = [s \in Supervisors |-> NoOne]
  /\ eng' = [e \in Engines |-> "dead"]
  /\ lock' = NoOne
  /\ raced' = FALSE /\ silent_orphan' = FALSE
  /\ UNCHANGED <<eng_age, seen_ok, mt5, faults>>

Stop ==
  /\ EverythingStops
  /\ sup' = [s \in Supervisors |-> "dead"]
  /\ UNCHANGED <<heartbeat, last_ok>>

\* RESTART_SENTINEL.bat: it stops, removes the status file and starts again.
Restart(s) ==
  /\ EverythingStops
  /\ sup' = [t \in Supervisors |-> IF t = s THEN "checked" ELSE "dead"]
  /\ heartbeat' = CAP /\ last_ok' = Never

-----------------------------------------------------------------------------
(* The engine, as far as a supervisor can see it.                           *)

\* The status is written at the end of a cycle, with the time of the engine's
\* last answer out of MT5 in it.
Reports(e, before) ==
  /\ seen_ok' = [seen_ok EXCEPT ![e] = IF mt5 = "up" THEN 0 ELSE before]
  /\ heartbeat' = 0
  /\ last_ok' = seen_ok'[e]

\* The first cycle ends.
FirstStatus(e) ==
  /\ eng[e] = "starting"
  /\ eng' = [eng EXCEPT ![e] = "running"]
  /\ Reports(e, Never)
  /\ UNCHANGED <<sup, child, lock, eng_age, mt5, faults, ghosts>>

\* Without MT5 the engine gives up at start: connect fails, or the account
\* cannot be read.
FailsToStart(e) ==
  /\ eng[e] = "starting" /\ mt5 # "up"
  /\ eng' = [eng EXCEPT ![e] = "dead"]
  /\ UNCHANGED <<sup, child, lock, eng_age, seen_ok, mt5, heartbeat,
                 last_ok, faults, ghosts>>

\* The process dies, stops writing its status, or ends the cycle it hung in.
Crashes(e) ==
  /\ eng[e] # "dead"
  /\ faults < MAX_FAULTS /\ faults' = faults + 1
  /\ eng' = [eng EXCEPT ![e] = "dead"]
  /\ UNCHANGED <<sup, child, lock, eng_age, seen_ok, mt5, heartbeat,
                 last_ok, ghosts>>
Hangs(e) ==
  /\ eng[e] \in {"starting", "running"}
  /\ faults < MAX_FAULTS /\ faults' = faults + 1
  /\ eng' = [eng EXCEPT ![e] = "hung"]
  /\ UNCHANGED <<sup, child, lock, eng_age, seen_ok, mt5, heartbeat,
                 last_ok, ghosts>>
Recovers(e) ==
  /\ eng[e] = "hung"
  /\ eng' = [eng EXCEPT ![e] = "running"]
  /\ Reports(e, seen_ok[e])
  /\ UNCHANGED <<sup, child, lock, eng_age, mt5, faults, ghosts>>

-----------------------------------------------------------------------------
(* Time and MT5.                                                            *)

Older(a) == IF a < CAP THEN a + 1 ELSE CAP

\* An age taken up to the file's writing, not up to now.
AgeAtWriting(a) == a
Aged(a) == IF a = Never THEN Never ELSE Older(a)

\* One unit of time.  Every running engine went through a cycle and wrote its
\* status, the last writer being any of them; a start does not take longer
\* than STARTUP.
Tick ==
  /\ \A e \in Engines : eng[e] = "starting" => eng_age[e] < STARTUP
  /\ seen_ok' = [e \in Engines |->
        IF eng[e] = "dead" THEN Never
        ELSE IF eng[e] = "running" /\ mt5 = "up" THEN 0 ELSE Aged(seen_ok[e])]
  /\ heartbeat' = IF Running # {} THEN 0 ELSE Older(heartbeat)
  /\ \/ Running = {} /\ last_ok' = Aged(last_ok)
     \/ \E e \in Running : last_ok' = seen_ok'[e]
  /\ eng_age' = [e \in Engines |-> IF eng_age[e] < GRACE THEN eng_age[e] + 1 ELSE GRACE]
  /\ silent_orphan' = (silent_orphan \/ (Orphans # {} /\ heartbeat' > STALE))
  /\ UNCHANGED <<sup, child, lock, eng, mt5, faults, raced>>

\* The terminal loses or finds its connection, dies or is started.
Mt5Changes ==
  /\ mt5' \in {"up", "mute", "off"} \ {mt5}
  /\ UNCHANGED <<sup, child, lock, eng, eng_age, seen_ok, heartbeat, last_ok,
                 faults, ghosts>>

Next ==
  \/ \E s \in Supervisors :
       \/ StartAtLogon(s) \/ StartByScript(s) \/ WriteLock(s)
       \/ SupervisorDies(s) \/ Check(s) \/ Restart(s)
  \/ \E e \in Engines :
       \/ FirstStatus(e) \/ FailsToStart(e) \/ Crashes(e) \/ Hangs(e) \/ Recovers(e)
  \/ Stop \/ Tick \/ Mt5Changes

Spec == Init /\ [][Next]_vars

\* A supervisor's loop and an engine's start go on.  Time passes however often
\* engines fail to start (hence strong fairness): a supervisor checks every 120 s
\* and not sooner.  Nobody is bound to start a supervisor, and faults are
\* finitely many.
Fairness ==
  /\ SF_vars(Tick)
  /\ \A s \in Supervisors : WF_vars(WriteLock(s)) /\ WF_vars(Check(s))
  /\ \A e \in Engines : WF_vars(FirstStatus(e) \/ FailsToStart(e))

FairSpec == Spec /\ Fairness

-----------------------------------------------------------------------------
(* Properties.                                                              *)

\* "It is the single owner" (the module's docstring): there is one book on the
\* account.  The code does not keep this.
SingleBook == Cardinality(Alive) <= 1

\* No two supervisors lived at once, and no engine that lost its supervisor was
\* silent for longer than STALE.
Undisturbed == ~raced /\ ~silent_orphan

\* When the code does: undisturbed, at most one engine is alive, through every
\* crash, hang and restart of either process and every feed outage.
OneBookIfUndisturbed == Undisturbed => SingleBook

\* The incident of 2026-08-12 (a young engine killed on the status file of the
\* engine before it, for ever) cannot return: undisturbed, a supervisor kills
\* its engine only for its own silence or its own dead feed, never while it
\* starts.
NoKillLoop ==
  [][ \A s \in Supervisors :
        (Undisturbed /\ Check(s) /\ ChildState(s) = "alive") =>
          \/ eng[child[s]] = "hung"
          \/ eng[child[s]] = "running" /\ seen_ok[child[s]] > DATA_STALE ]_vars

SupervisorStays == <>[](\E s \in Supervisors : sup[s] = "looping")

\* Under a supervisor that stays and an MT5 that answers, an engine runs again
\* in the end, whatever died or hung before: its own child, or an orphan whose
\* status file went stale.
EngineBack ==
  SupervisorStays /\ <>[](mt5 = "up") => <>[](Running # {})

\* An engine that had answers and then none is restarted by the supervisor that
\* started it, when it alone writes the status file.  (An engine that never had
\* an answer, or has lost its supervisor, is not: its status is taken for
\* health.)
DeadFeedCaught ==
  SupervisorStays /\ <>[](mt5 = "mute") /\ <>[]SingleBook =>
    \A e \in Engines :
      <>[]~(e \in Watched /\ eng[e] = "running" /\ seen_ok[e] # Never)
=============================================================================
