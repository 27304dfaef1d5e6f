-------------------------- MODULE Supervisor_proofs --------------------------
(***************************************************************************)
(* Proofs about Supervisor, for any numbers of supervisors and engines and  *)
(* any thresholds.                                                          *)
(*                                                                          *)
(* "One engine" is not inductive: what keeps a second one away is that a    *)
(* supervisor starts an engine only when its own has exited, or when it has *)
(* none and the status file is stale.  The first is safe because a child    *)
(* leaves no room for an orphan (OnlyChild), the second because a live      *)
(* orphan keeps the file fresh (OrphanHeard).                               *)
(*                                                                          *)
(* "No kill loop" rests on what the file then says: it is the word of the   *)
(* one running engine (FileIsTrue).                                         *)
(***************************************************************************)
EXTENDS Supervisor, FiniteSetTheorems, TLAPS

\* Only a supervisor in its loop holds the handle of an engine.
Handles == \A s \in Supervisors : child[s] # NoOne => sup[s] = "looping"

\* No two supervisors live at once, unless that was recorded.
Alone ==
  ~raced => \A s, t \in Supervisors : sup[s] # "dead" /\ sup[t] # "dead" => s = t

\* An engine nobody watches keeps the status file fresh, unless that was recorded.
OrphanHeard == ~silent_orphan /\ Orphans # {} => heartbeat <= STALE

\* Who has a child has the only engine there is.
OnlyChild ==
  Undisturbed =>
    \A s \in Supervisors : child[s] # NoOne => Alive \subseteq {child[s]}

AtMostOne == Undisturbed => \A e, f \in Alive : e = f

LEMMA CapType == CAP \in Nat /\ STALE < CAP /\ DATA_STALE < CAP /\ GRACE \in Nat
BY SupervisorAssumption DEF CAP, Greater, HUNG

LEMMA AgeTypes ==
  /\ \A a \in 0..CAP : Older(a) \in 0..CAP
  /\ \A a \in {Never} \cup 0..CAP : Aged(a) \in {Never} \cup 0..CAP
  /\ \A a \in {Never} \cup 0..CAP, b \in 0..CAP :
       (a # Never => a >= b) => (Aged(a) # Never => Aged(a) >= Older(b))
BY CapType DEF Older, Aged, Never

\* The tables nobody is in.
LEMMA EmptyTables ==
  /\ [s \in Supervisors |-> "dead"] \in [Supervisors -> {"dead", "checked", "looping"}]
  /\ [s \in Supervisors |-> NoOne] \in [Supervisors -> Engines \cup {NoOne}]
  /\ [e \in Engines |-> "dead"] \in [Engines -> {"dead", "starting", "running", "hung"}]
  /\ [e \in Engines |-> 0] \in [Engines -> 0..GRACE]
  /\ [e \in Engines |-> Never] \in [Engines -> {Never} \cup 0..CAP]
  /\ CAP \in 0..CAP
BY CapType

LEMMA SupTypeInit == Init => TypeOK
<1>1. 0 \in 0..MAX_FAULTS
  BY SupervisorAssumption
<1>2. QED
  BY <1>1, EmptyTables DEF Init, TypeOK

LEMMA SpawnTypes ==
  ASSUME TypeOK, NEW s \in Supervisors, NEW table \in [Engines -> {"dead", "starting", "running", "hung"}],
         Spawn(s, table)
  PROVE  /\ eng' \in [Engines -> {"dead", "starting", "running", "hung"}]
         /\ eng_age' \in [Engines -> 0..GRACE]
         /\ seen_ok' \in [Engines -> {Never} \cup 0..CAP]
         /\ child' \in [Supervisors -> Engines \cup {NoOne}]
BY CapType DEF Spawn, TypeOK

LEMMA ReportTypes ==
  ASSUME TypeOK, NEW e \in Engines, NEW b \in {Never} \cup 0..CAP, Reports(e, b)
  PROVE  /\ seen_ok' \in [Engines -> {Never} \cup 0..CAP]
         /\ heartbeat' \in 0..CAP /\ last_ok' \in {Never} \cup 0..CAP
         /\ last_ok' # Never => last_ok' >= heartbeat'
BY CapType DEF Reports, TypeOK, Never

LEMMA SupTypeStep ==
  ASSUME TypeOK, [Next]_vars
  PROVE  TypeOK'
<1> USE SupervisorAssumption, CapType DEF TypeOK, ghosts
<1>1. ASSUME NEW s \in Supervisors, StartAtLogon(s) \/ StartByScript(s) PROVE TypeOK'
  BY <1>1 DEF StartAtLogon, StartByScript, Comes
<1>2. ASSUME NEW s \in Supervisors, WriteLock(s) PROVE TypeOK'
  BY <1>2 DEF WriteLock
<1>3. ASSUME NEW s \in Supervisors, SupervisorDies(s) PROVE TypeOK'
  BY <1>3 DEF SupervisorDies
<1>4. ASSUME NEW s \in Supervisors, Check(s) PROVE TypeOK'
  <2>1. Killed(s) \in [Engines -> {"dead", "starting", "running", "hung"}]
    BY DEF Killed
  <2>2. QED
    BY <1>4, <2>1, SpawnTypes DEF Check
<1>5. ASSUME NEW s \in Supervisors, Restart(s) PROVE TypeOK'
  <2>1. [t \in Supervisors |-> IF t = s THEN "checked" ELSE "dead"]
          \in [Supervisors -> {"dead", "checked", "looping"}]
    OBVIOUS
  <2>2. QED
    BY <1>5, <2>1, EmptyTables DEF Restart, EverythingStops
<1>6. ASSUME NEW e \in Engines, FirstStatus(e) PROVE TypeOK'
  <2>1. Never \in {Never} \cup 0..CAP
    OBVIOUS
  <2>2. QED
    BY <1>6, <2>1, ReportTypes DEF FirstStatus
<1>7. ASSUME NEW e \in Engines, FailsToStart(e) \/ Crashes(e) \/ Hangs(e) PROVE TypeOK'
  BY <1>7 DEF FailsToStart, Crashes, Hangs
<1>8. ASSUME NEW e \in Engines, Recovers(e) PROVE TypeOK'
  <2>1. seen_ok[e] \in {Never} \cup 0..CAP
    OBVIOUS
  <2>2. QED
    BY <1>8, <2>1, ReportTypes DEF Recovers
<1>9. CASE Stop
  BY <1>9, EmptyTables DEF Stop, EverythingStops
<1>10. CASE Tick
  <2>1. seen_ok' \in [Engines -> {Never} \cup 0..CAP]
    BY <1>10, AgeTypes DEF Tick
  <2>2. heartbeat' \in 0..CAP
    BY <1>10, AgeTypes DEF Tick
  <2>3. last_ok' \in {Never} \cup 0..CAP
    BY <1>10, <2>1, AgeTypes DEF Tick, Running
  <2>4. eng_age' \in [Engines -> 0..GRACE]
    BY <1>10 DEF Tick
  <2>5. last_ok' # Never => last_ok' >= heartbeat'
    <3>1. CASE Running = {}
      <4>1. heartbeat' = Older(heartbeat) /\ last_ok' = Aged(last_ok)
        BY <1>10, <3>1 DEF Tick
      <4> QED
        BY <4>1, AgeTypes
    <3>2. CASE Running # {}
      <4>1. heartbeat' = 0
        BY <1>10, <3>2 DEF Tick
      <4> QED
        BY <2>3, <4>1 DEF Never
    <3> QED
      BY <3>1, <3>2
  <2>6. QED
    BY <1>10, <2>1, <2>2, <2>3, <2>4, <2>5 DEF Tick
<1>11. CASE Mt5Changes
  BY <1>11 DEF Mt5Changes
<1>12. CASE UNCHANGED vars
  BY <1>12 DEF vars
<1>13. QED
  BY <1>1, <1>2, <1>3, <1>4, <1>5, <1>6, <1>7, <1>8, <1>9, <1>10, <1>11, <1>12 DEF Next

\* The supervisor's and the engines' state always has its type; in particular
\* every age stays within the cap the thresholds were chosen under, and no status
\* file tells of an answer later than its own writing.
THEOREM SupervisorTypes == Spec => []TypeOK
BY SupTypeInit, SupTypeStep, PTL DEF Spec

-----------------------------------------------------------------------------
(* One engine.                                                              *)

LEMMA HandlesStep ==
  ASSUME TypeOK, Handles, [Next]_vars
  PROVE  Handles'
<1> USE DEF TypeOK, Handles, ghosts
<1>1. ASSUME NEW s \in Supervisors,
             \/ StartAtLogon(s) \/ StartByScript(s) \/ WriteLock(s)
             \/ SupervisorDies(s) \/ Check(s)
      PROVE  Handles'
  BY <1>1 DEF StartAtLogon, StartByScript, Comes, WriteLock, SupervisorDies, Check, Spawn
<1>2. ASSUME Stop \/ (\E s \in Supervisors : Restart(s)) PROVE Handles'
  BY <1>2 DEF Stop, Restart, EverythingStops
<1>3. ASSUME \/ Tick \/ Mt5Changes \/ UNCHANGED vars
             \/ \E e \in Engines : \/ FirstStatus(e) \/ FailsToStart(e) \/ Crashes(e)
                                   \/ Hangs(e) \/ Recovers(e)
      PROVE  Handles'
  BY <1>3 DEF Tick, Mt5Changes, FirstStatus, FailsToStart, Crashes, Hangs, Recovers, vars
<1>4. QED
  BY <1>1, <1>2, <1>3 DEF Next

LEMMA AloneStep ==
  ASSUME TypeOK, Alone, [Next]_vars
  PROVE  Alone'
<1> USE DEF TypeOK, Alone, ghosts
<1>1. ASSUME NEW s \in Supervisors, StartAtLogon(s) \/ StartByScript(s) PROVE Alone'
  BY <1>1 DEF StartAtLogon, StartByScript, Comes
<1>2. ASSUME NEW s \in Supervisors, WriteLock(s) \/ SupervisorDies(s) \/ Check(s)
      PROVE  Alone'
  BY <1>2 DEF WriteLock, SupervisorDies, Check
<1>3. ASSUME NEW s \in Supervisors, Restart(s) PROVE Alone'
  BY <1>3 DEF Restart
<1>4. CASE Stop
  BY <1>4 DEF Stop
<1>5. ASSUME \/ Tick \/ Mt5Changes \/ UNCHANGED vars
             \/ \E e \in Engines : \/ FirstStatus(e) \/ FailsToStart(e) \/ Crashes(e)
                                   \/ Hangs(e) \/ Recovers(e)
      PROVE  Alone'
  BY <1>5 DEF Tick, Mt5Changes, FirstStatus, FailsToStart, Crashes, Hangs, Recovers, vars
<1>6. QED
  BY <1>1, <1>2, <1>3, <1>4, <1>5 DEF Next

\* What the inductive argument carries from state to state.
OneEngine == Handles /\ Alone /\ OrphanHeard /\ OnlyChild /\ AtMostOne

\* A check that acts leaves one engine, the new child, where there was room.
LEMMA CheckStep ==
  ASSUME TypeOK, OneEngine, NEW s \in Supervisors, Check(s)
  PROVE  (OrphanHeard /\ OnlyChild /\ AtMostOne)'
<1> USE DEF TypeOK, OneEngine, ghosts
<1>1. /\ sup[s] = "looping" /\ Decision(s) \notin {"none", "wait_first_heartbeat"}
      /\ UNCHANGED <<sup, heartbeat, raced, silent_orphan>>
  BY DEF Check
<1>2. PICK e \in Engines :
        /\ Killed(s)[e] = "dead"
        /\ \A t \in Supervisors \ {s} : child[t] # e
        /\ eng' = [Killed(s) EXCEPT ![e] = "starting"]
        /\ child' = [child EXCEPT ![s] = e]
  BY DEF Check, Spawn
<1>3. Killed(s) \in [Engines -> {"dead", "starting", "running", "hung"}]
  BY DEF Killed
<1>4. Alive' = {x \in Engines : Killed(s)[x] # "dead"} \cup {e}
  BY <1>2, <1>3 DEF Alive
<1>5. {x \in Engines : Killed(s)[x] # "dead"} = Alive \ {child[s]}
  BY SupervisorAssumption DEF Alive, Killed, ChildState
<1>6. /\ \A t \in Supervisors \ {s} : child'[t] = child[t]
      /\ child'[s] = e
  BY <1>2
<1>7. OrphanHeard'
  <2>1. e \in Watched'
    BY <1>1, <1>6 DEF Watched
  <2>2. Watched \ {child[s]} \subseteq Watched'
    BY <1>1, <1>6 DEF Watched
  <2>3. Orphans' \subseteq Orphans
    BY <1>4, <1>5, <2>1, <2>2 DEF Orphans
  <2>4. QED
    BY <1>1, <2>3 DEF OrphanHeard
<1>8. ASSUME Undisturbed PROVE Alive \ {child[s]} = {}
  <2>1. CASE child[s] # NoOne
    BY <1>8, <2>1 DEF OnlyChild
  <2>2. CASE child[s] = NoOne
    <3>1. heartbeat > STALE
      BY <1>1, <2>2 DEF Decision, ChildState, FieldClear, LooksStale
    <3>2. Orphans = {}
      BY <1>8, <3>1, CapType, SupervisorAssumption DEF OrphanHeard, Undisturbed
    <3>3. Watched \subseteq {NoOne}
      BY <1>1, <1>8, <2>2 DEF Watched, Alone, Undisturbed
    <3>4. QED
      BY <3>2, <3>3, SupervisorAssumption DEF Orphans, Alive
  <2>3. QED
    BY <2>1, <2>2
<1>9. Undisturbed' => Alive' = {e}
  BY <1>1, <1>4, <1>5, <1>8 DEF Undisturbed
<1>10. OnlyChild'
  <2>1. ASSUME NEW t \in Supervisors, child'[t] # NoOne, Undisturbed'
        PROVE  t = s
    BY <1>1, <1>6, <2>1 DEF Handles, Alone, Undisturbed
  <2>2. QED
    BY <1>6, <1>9, <2>1 DEF OnlyChild
<1>11. QED
  BY <1>7, <1>9, <1>10 DEF AtMostOne

\* A supervisor that comes, writes the lock or dies starts no engine.
LEMMA SupervisorMoves ==
  ASSUME TypeOK, OneEngine, NEW s \in Supervisors,
         StartAtLogon(s) \/ StartByScript(s) \/ WriteLock(s) \/ SupervisorDies(s)
  PROVE  (OrphanHeard /\ OnlyChild /\ AtMostOne)'
<1> USE DEF TypeOK, OneEngine, ghosts
<1>1. Alive' = Alive /\ heartbeat' = heartbeat /\ (raced => raced')
      /\ (silent_orphan => silent_orphan')
  BY DEF StartAtLogon, StartByScript, Comes, WriteLock, SupervisorDies, Alive
<1>2. \A t \in Supervisors : child'[t] \in {child[t], NoOne}
  BY DEF StartAtLogon, StartByScript, Comes, WriteLock, SupervisorDies
<1>3. OnlyChild' /\ AtMostOne'
  BY <1>1, <1>2 DEF OnlyChild, AtMostOne, Undisturbed
<1>4. CASE StartAtLogon(s) \/ StartByScript(s) \/ WriteLock(s)
  <2>1. /\ child' = child /\ silent_orphan' = silent_orphan
        /\ \A t \in Supervisors : sup[t] = "looping" => sup'[t] = "looping"
    BY <1>4 DEF StartAtLogon, StartByScript, Comes, WriteLock
  <2>2. Orphans' \subseteq Orphans
    BY <1>1, <2>1 DEF Orphans, Watched
  <2>3. QED
    BY <1>1, <1>3, <2>1, <2>2 DEF OrphanHeard
<1>5. CASE SupervisorDies(s)
  <2>1. Orphans' \subseteq Orphans \cup (Alive \cap {child[s]})
    <3>1. \A t \in Supervisors \ {s} : sup'[t] = sup[t] /\ child'[t] = child[t]
      BY <1>5 DEF SupervisorDies
    <3>2. Watched \ {child[s]} \subseteq Watched'
      BY <3>1 DEF Watched
    <3>3. QED
      BY <1>1, <3>2 DEF Orphans
  <2>2. silent_orphan' = (silent_orphan \/ (child[s] \in Alive /\ LooksStale))
    BY <1>5 DEF SupervisorDies
  <2>3. ASSUME ~silent_orphan', Orphans' # {} PROVE heartbeat' <= STALE
    <3>1. ~silent_orphan /\ ~(child[s] \in Alive /\ LooksStale)
      BY <2>2, <2>3
    <3>2. CASE child[s] \in Alive
      BY <1>1, <3>1, <3>2, CapType, SupervisorAssumption DEF LooksStale
    <3>3. CASE child[s] \notin Alive
      <4>1. Orphans # {}
        BY <2>1, <2>3, <3>3
      <4>2. QED
        BY <1>1, <3>1, <4>1 DEF OrphanHeard
    <3>4. QED
      BY <3>2, <3>3
  <2>4. OrphanHeard'
    BY <2>3 DEF OrphanHeard
  <2>5. QED
    BY <1>3, <2>4
<1>6. QED
  BY <1>4, <1>5

\* No other step brings an engine to life.
LEMMA EngineMoves ==
  ASSUME TypeOK, OneEngine,
         \E e \in Engines : \/ FirstStatus(e) \/ FailsToStart(e) \/ Crashes(e)
                            \/ Hangs(e) \/ Recovers(e)
  PROVE  (OrphanHeard /\ OnlyChild /\ AtMostOne)'
<1> USE DEF TypeOK, OneEngine, ghosts
<1>1. /\ Alive' \subseteq Alive
      /\ UNCHANGED <<sup, child, raced, silent_orphan>>
      /\ heartbeat' \in {0, heartbeat}
  BY DEF FirstStatus, FailsToStart, Crashes, Hangs, Recovers, Reports, Alive
<1>2. Orphans' \subseteq Orphans
  BY <1>1 DEF Orphans, Watched
<1>3. 0 <= STALE
  BY SupervisorAssumption
<1>4. QED
  BY <1>1, <1>2, <1>3 DEF OrphanHeard, OnlyChild, AtMostOne, Undisturbed

LEMMA OneEngineStep ==
  ASSUME TypeOK, OneEngine, [Next]_vars
  PROVE  OneEngine'
<1> USE DEF TypeOK, ghosts
<1>1. Handles' /\ Alone'
  BY HandlesStep, AloneStep DEF OneEngine
<1>2. ASSUME NEW s \in Supervisors, Check(s) PROVE OneEngine'
  BY <1>1, <1>2, CheckStep DEF OneEngine
<1>3. ASSUME NEW s \in Supervisors,
             StartAtLogon(s) \/ StartByScript(s) \/ WriteLock(s) \/ SupervisorDies(s)
      PROVE  OneEngine'
  BY <1>1, <1>3, SupervisorMoves DEF OneEngine
<1>4. ASSUME \E e \in Engines : \/ FirstStatus(e) \/ FailsToStart(e) \/ Crashes(e)
                                \/ Hangs(e) \/ Recovers(e)
      PROVE  OneEngine'
  BY <1>1, <1>4, EngineMoves DEF OneEngine
<1>5. ASSUME Stop \/ (\E s \in Supervisors : Restart(s)) PROVE OneEngine'
  <2>1. Alive' = {}
    BY <1>5 DEF Stop, Restart, EverythingStops, Alive
  <2>2. QED
    BY <1>1, <2>1 DEF OneEngine, OrphanHeard, OnlyChild, AtMostOne, Orphans
<1>6. CASE Tick
  <2>1. /\ UNCHANGED <<sup, child, eng, raced>>
        /\ silent_orphan' = (silent_orphan \/ (Orphans # {} /\ heartbeat' > STALE))
    BY <1>6 DEF Tick
  <2>2. Alive' = Alive /\ Orphans' = Orphans
    BY <2>1 DEF Alive, Orphans, Watched
  <2>3. heartbeat' \in Nat
    BY <1>6, AgeTypes, CapType DEF Tick
  <2>4. ASSUME ~silent_orphan', Orphans' # {} PROVE heartbeat' <= STALE
    <3>1. ~(heartbeat' > STALE)
      BY <2>1, <2>2, <2>4
    <3>2. QED
      BY <2>3, <3>1, SupervisorAssumption
  <2>5. OrphanHeard'
    BY <2>4 DEF OrphanHeard
  <2>6. QED
    BY <1>1, <2>1, <2>2, <2>5 DEF OneEngine, OnlyChild, AtMostOne, Undisturbed
<1>7. CASE Mt5Changes \/ UNCHANGED vars
  BY <1>1, <1>7 DEF Mt5Changes, vars, OneEngine, OrphanHeard, OnlyChild, AtMostOne,
                    Orphans, Watched, Alive, Undisturbed
<1>8. QED
  BY <1>2, <1>3, <1>4, <1>5, <1>6, <1>7 DEF Next

LEMMA OneEngineInit == Init => OneEngine
BY DEF Init, OneEngine, Handles, Alone, OrphanHeard, OnlyChild, AtMostOne, Orphans,
       Alive, Undisturbed

\* A set whose members are all equal has at most one.
LEMMA FewIsOne ==
  ASSUME NEW A, \A x, y \in A : x = y
  PROVE  Cardinality(A) <= 1
<1>1. CASE A = {}
  BY <1>1, FS_EmptySet
<1>2. CASE A # {}
  <2>1. PICK x : A = {x}
    BY <1>2
  <2>2. QED
    BY <2>1, FS_Singleton
<1>3. QED
  BY <1>1, <1>2

\* Undisturbed, at most one engine is alive: for any number of processes, any
\* thresholds and any number of deaths, hangs, restarts and feed outages.
THEOREM OneBook == Spec => []OneBookIfUndisturbed
<1>1. TypeOK /\ OneEngine /\ [Next]_vars => OneEngine'
  BY OneEngineStep
<1>2. OneEngine => OneBookIfUndisturbed
  BY FewIsOne DEF OneEngine, AtMostOne, OneBookIfUndisturbed, SingleBook
<1>3. QED
  BY <1>1, <1>2, OneEngineInit, SupervisorTypes, PTL DEF Spec

-----------------------------------------------------------------------------
(* Grounds for a kill.                                                      *)

\* A start that has not reported is younger than the grace; the file is as
\* fresh as the running engine that writes it; and, undisturbed, what it says of
\* the feed is what that engine knows.
StartsAreYoung == \A e \in Engines : eng[e] = "starting" => eng_age[e] <= STARTUP
FileIsWritten == Running # {} => heartbeat = 0
FileIsTrue == Undisturbed => \A e \in Running : last_ok = seen_ok[e]

KillInv == TypeOK /\ OneEngine /\ StartsAreYoung /\ FileIsWritten /\ FileIsTrue

\* A supervisor's own move leaves the running engines and what they wrote alone,
\* or kills them.
LEMMA SupervisorsKeepGrounds ==
  ASSUME KillInv, NEW s \in Supervisors,
         \/ StartAtLogon(s) \/ StartByScript(s) \/ WriteLock(s)
         \/ SupervisorDies(s) \/ Check(s) \/ Restart(s) \/ Stop
  PROVE  (StartsAreYoung /\ FileIsWritten /\ FileIsTrue)'
<1> USE DEF KillInv, TypeOK, ghosts
<1>1. CASE StartAtLogon(s) \/ StartByScript(s) \/ WriteLock(s) \/ SupervisorDies(s)
  <2>1. UNCHANGED <<eng, eng_age, seen_ok, heartbeat, last_ok>> /\ (Undisturbed' => Undisturbed)
    BY <1>1 DEF StartAtLogon, StartByScript, Comes, WriteLock, SupervisorDies, Undisturbed
  <2>2. QED
    BY <2>1 DEF StartsAreYoung, FileIsWritten, FileIsTrue, Running
<1>2. CASE Check(s)
  <2>1. UNCHANGED <<heartbeat, last_ok, raced, silent_orphan>>
    BY <1>2 DEF Check
  <2>2. PICK e \in Engines :
          /\ eng' = [Killed(s) EXCEPT ![e] = "starting"]
          /\ eng_age' = [eng_age EXCEPT ![e] = 0]
          /\ seen_ok' = [seen_ok EXCEPT ![e] = Never]
    BY <1>2 DEF Check, Spawn
  <2>3. \A x \in Engines : Killed(s)[x] \in {eng[x], "dead"} /\ Killed(s) \in [Engines -> {"dead", "starting", "running", "hung"}]
    BY DEF Killed
  <2>4. \A x \in Engines \ {e} : eng'[x] \in {eng[x], "dead"} /\ eng_age'[x] = eng_age[x] /\ seen_ok'[x] = seen_ok[x]
    BY <2>2, <2>3
  <2>5. eng'[e] = "starting" /\ eng_age'[e] = 0
    BY <2>2, <2>3
  <2>6. Running' \subseteq Running \ {e}
    BY <2>4, <2>5 DEF Running
  <2>7. QED
    BY <2>1, <2>4, <2>5, <2>6, SupervisorAssumption
       DEF StartsAreYoung, FileIsWritten, FileIsTrue, Undisturbed, Running
<1>3. CASE Restart(s) \/ Stop
  <2>1. \A e \in Engines : eng'[e] = "dead"
    BY <1>3 DEF Restart, Stop, EverythingStops
  <2>2. QED
    BY <2>1 DEF StartsAreYoung, FileIsWritten, FileIsTrue, Running
<1>4. QED
  BY <1>1, <1>2, <1>3

LEMMA EnginesKeepGrounds ==
  ASSUME KillInv, NEW e \in Engines,
         FirstStatus(e) \/ FailsToStart(e) \/ Crashes(e) \/ Hangs(e) \/ Recovers(e)
  PROVE  (StartsAreYoung /\ FileIsWritten /\ FileIsTrue)'
<1> USE DEF KillInv, TypeOK, ghosts
<1>1. CASE FailsToStart(e) \/ Crashes(e) \/ Hangs(e)
  <2>1. /\ UNCHANGED <<eng_age, seen_ok, heartbeat, last_ok, raced, silent_orphan>>
        /\ eng'[e] \in {"dead", "hung"} /\ \A x \in Engines \ {e} : eng'[x] = eng[x]
    BY <1>1 DEF FailsToStart, Crashes, Hangs
  <2>2. QED
    BY <2>1 DEF StartsAreYoung, FileIsWritten, FileIsTrue, Running, Undisturbed
<1>2. CASE FirstStatus(e) \/ Recovers(e)
  <2>1. /\ UNCHANGED <<eng_age, raced, silent_orphan>> /\ heartbeat' = 0 /\ last_ok' = seen_ok'[e]
        /\ eng'[e] = "running" /\ \A x \in Engines \ {e} : eng'[x] = eng[x]
        /\ e \in Alive
    BY <1>2 DEF FirstStatus, Recovers, Reports, Alive
  <2>2. Undisturbed => \A x \in Running' : x = e
    BY <2>1 DEF OneEngine, AtMostOne, Alive, Running
  <2>3. QED
    BY <2>1, <2>2 DEF StartsAreYoung, FileIsWritten, FileIsTrue, Undisturbed
<1>3. QED
  BY <1>1, <1>2

LEMMA TimeKeepsGrounds ==
  ASSUME KillInv, Tick
  PROVE  (StartsAreYoung /\ FileIsWritten /\ FileIsTrue)'
<1> USE DEF KillInv, TypeOK
<1>1. UNCHANGED <<eng, raced>> /\ (silent_orphan => silent_orphan')
  BY DEF Tick
<1>2. StartsAreYoung'
  <2>1. ASSUME NEW e \in Engines, eng'[e] = "starting" PROVE eng_age'[e] <= STARTUP
    <3>1. eng_age[e] < STARTUP /\ eng_age[e] \in Nat /\ GRACE \in Nat /\ STARTUP < GRACE /\ STARTUP \in Nat
      BY <1>1, <2>1, CapType, SupervisorAssumption DEF Tick
    <3>2. eng_age'[e] = eng_age[e] + 1
      BY <3>1 DEF Tick
    <3>3. QED
      BY <3>1, <3>2
  <2>2. QED
    BY <2>1 DEF StartsAreYoung
<1>3. FileIsWritten'
  BY <1>1 DEF Tick, FileIsWritten, Running
<1>4. FileIsTrue'
  <2>1. ASSUME Undisturbed', NEW e \in Running' PROVE last_ok' = seen_ok'[e]
    <3>1. e \in Running /\ e \in Alive /\ Undisturbed
      BY <1>1, <2>1 DEF Running, Alive, Undisturbed
    <3>2. PICK f \in Running : last_ok' = seen_ok'[f]
      BY <3>1 DEF Tick
    <3>3. f = e
      BY <3>1, <3>2 DEF OneEngine, AtMostOne, Running, Alive
    <3>4. QED
      BY <3>2, <3>3
  <2>2. QED
    BY <2>1 DEF FileIsTrue
<1>5. QED
  BY <1>2, <1>3, <1>4

LEMMA KillInvStep == KillInv /\ [Next]_vars => KillInv'
<1> SUFFICES ASSUME KillInv, [Next]_vars PROVE KillInv'
  OBVIOUS
<1>1. TypeOK' /\ OneEngine'
  BY SupTypeStep, OneEngineStep DEF KillInv
<1>2. (StartsAreYoung /\ FileIsWritten /\ FileIsTrue)'
  <2>1. ASSUME NEW s \in Supervisors,
               \/ StartAtLogon(s) \/ StartByScript(s) \/ WriteLock(s)
               \/ SupervisorDies(s) \/ Check(s) \/ Restart(s)
        PROVE  (StartsAreYoung /\ FileIsWritten /\ FileIsTrue)'
    BY <2>1, SupervisorsKeepGrounds
  <2>2. CASE Stop
    <3>1. \A e \in Engines : eng'[e] = "dead"
      BY <2>2 DEF Stop, EverythingStops
    <3>2. QED
      BY <3>1 DEF StartsAreYoung, FileIsWritten, FileIsTrue, Running
  <2>3. ASSUME NEW e \in Engines,
               FirstStatus(e) \/ FailsToStart(e) \/ Crashes(e) \/ Hangs(e) \/ Recovers(e)
        PROVE  (StartsAreYoung /\ FileIsWritten /\ FileIsTrue)'
    BY <2>3, EnginesKeepGrounds
  <2>4. CASE Tick
    BY <2>4, TimeKeepsGrounds
  <2>5. CASE Mt5Changes \/ UNCHANGED vars
    BY <2>5 DEF Mt5Changes, vars, ghosts, KillInv, StartsAreYoung, FileIsWritten, FileIsTrue,
                Running, Undisturbed
  <2>6. QED
    BY <2>1, <2>2, <2>3, <2>4, <2>5 DEF Next
<1>3. QED
  BY <1>1, <1>2 DEF KillInv

LEMMA KillInvInit == Init => KillInv
BY SupTypeInit, OneEngineInit DEF Init, KillInv, StartsAreYoung, FileIsWritten, FileIsTrue, Running

\* What a supervisor kills has gone silent or lost its feed.
LEMMA KillHasGrounds ==
  ASSUME KillInv, Undisturbed, NEW s \in Supervisors, Check(s), ChildState(s) = "alive"
  PROVE  \/ eng[child[s]] = "hung"
         \/ eng[child[s]] = "running" /\ seen_ok[child[s]] > DATA_STALE
<1> USE DEF KillInv, TypeOK
<1> DEFINE e == child[s]
<1>1. e \in Engines /\ eng[e] \in {"starting", "running", "hung"}
  BY DEF ChildState
<1>2. ~InGrace(e) /\ (LooksFeedless \/ heartbeat > HUNG)
  BY DEF Check, Decision
<1>3. HUNG \in Nat /\ STALE \in Nat /\ STALE <= HUNG /\ heartbeat \in Nat /\ DATA_STALE \in Nat
  BY CapType, SupervisorAssumption DEF HUNG
<1>4. eng[e] # "starting"
  <2>1. LooksFeedless \/ LooksStale
    BY <1>2, <1>3 DEF LooksStale
  <2>2. ~(eng_age[e] < GRACE)
    BY <1>2, <2>1 DEF InGrace
  <2>3. eng_age[e] \in Nat /\ GRACE \in Nat /\ STARTUP \in Nat /\ STARTUP < GRACE
    BY <1>1, CapType, SupervisorAssumption
  <2>4. ~(eng_age[e] <= STARTUP)
    BY <2>2, <2>3
  <2>5. QED
    BY <1>1, <2>4 DEF StartsAreYoung
<1>5. ASSUME eng[e] = "running" PROVE seen_ok[e] > DATA_STALE
  <2>1. e \in Running /\ heartbeat = 0
    BY <1>1, <1>5 DEF Running, FileIsWritten
  <2>2. LooksFeedless
    BY <1>2, <1>3, <2>1
  <2>3. last_ok = seen_ok[e]
    BY <2>1 DEF FileIsTrue
  <2>4. last_ok # Never
    BY <1>3, <2>2 DEF LooksFeedless, DataAge
  <2>5. QED
    BY <2>2, <2>3, <2>4 DEF LooksFeedless, DataAge
<1>6. QED
  BY <1>1, <1>4, <1>5

\* The supervisor never kills an engine that starts or answers: for any
\* thresholds, as long as a start takes less than the grace.
THEOREM NoLoopOfKills == Spec => NoKillLoop
<1>1. ASSUME KillInv, [Next]_vars
      PROVE  [ \A s \in Supervisors :
                 (Undisturbed /\ Check(s) /\ ChildState(s) = "alive") =>
                   \/ eng[child[s]] = "hung"
                   \/ eng[child[s]] = "running" /\ seen_ok[child[s]] > DATA_STALE ]_vars
  BY <1>1, KillHasGrounds
<1>2. QED
  BY <1>1, KillInvInit, KillInvStep, PTL DEF Spec, NoKillLoop
=============================================================================
