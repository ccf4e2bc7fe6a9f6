---------------------------- MODULE Agents_proofs ----------------------------
(***************************************************************************)
(* What goes on on an agent's machine, for any number of rooms, processes, *)
(* commands, crashes and retries: a room has one runner and one watcher    *)
(* (Supervisor), a harness session one wake (Session), and no change is    *)
(* signed twice while anyone remembers it (Outbox).  Each part is proved   *)
(* about by itself; in the composition (MCAgents) it runs alone.           *)
(***************************************************************************)
EXTENDS MCAgents, FiniteSetTheorems, TLAPS

-----------------------------------------------------------------------------
(* The supervisor.                                                         *)

\* The pid files name whoever lives, and no process has the number 0.
PidsName ==
  /\ starts \in Nat
  /\ runners \subseteq {runnerPid} /\ 0 \notin runners
  /\ DOMAIN watchers \subseteq {watchPid} /\ 0 \notin DOMAIN watchers

\* Who is about to start a runner does it alone, and finds none.
StartsAlone ==
  /\ \A a \in Sup!Actor : job[a] = "start" => runners = {}
  /\ \A a, b \in Sup!Actor : job[a] = "start" /\ job[b] = "start" => a = b

\* What a watcher does ends with it.
WatcherBusy == job["watcher"] # "idle" => DOMAIN watchers # {}

\* `stop` takes effect in its order: first nobody is wanted, then the watcher
\* ends, then the runner.
StopsInOrder ==
  /\ job["stop"] \in {"idle", "watcher", "runner"}
  /\ quiet \in {"no", "stopping", "yes"}
  /\ quiet # "no" => stopped = TRUE /\ binding.on = FALSE /\ job["use"] = "idle"
  /\ quiet = "stopping" => job["stop"] # "idle"
  /\ quiet = "yes" \/ (quiet = "stopping" /\ job["stop"] = "runner") => DOMAIN watchers = {}
  /\ quiet = "yes" => runners = {}

SupTypes ==
  /\ DOMAIN job = Sup!Actor /\ job = [a \in Sup!Actor |-> job[a]]
  /\ binding \in [on : BOOLEAN, stamp : Nat]
  /\ stopped \in BOOLEAN

SupInv == SupTypes /\ PidsName /\ StartsAlone /\ WatcherBusy /\ StopsInOrder

LEMMA SupStart == Sup!Init => SupInv
<1> SUFFICES ASSUME Sup!Init PROVE SupInv
  OBVIOUS
<1>1. SupTypes
  BY DEF Sup!Init, SupTypes
<1>2. PidsName /\ StartsAlone /\ WatcherBusy
  BY DEF Sup!Init, PidsName, StartsAlone, WatcherBusy, Sup!Actor
<1>3. StopsInOrder
  BY DEF Sup!Init, StopsInOrder, Sup!Actor
<1> QED
  BY <1>1, <1>2, <1>3 DEF SupInv

LEMMA SupRepair ==
  ASSUME SupInv, NEW a \in {"daemon", "watcher", "use"}, Sup!Repair(a)
  PROVE  SupInv'
<1> USE DEF SupInv, SupTypes, PidsName, StartsAlone, WatcherBusy, StopsInOrder, Sup!Actor,
            Sup!files, Sup!commands, Sup!runner, Sup!watching, Sup!Goto, Sup!After
<1>1. CASE Sup!RepairLook(a)
  BY <1>1 DEF Sup!RepairLook
<1>2. CASE Sup!RepairLock(a)
  BY <1>2 DEF Sup!RepairLock, Sup!Missing, Sup!Runner, Sup!Locked
<1>3. CASE Sup!RepairBusy(a)
  BY <1>3 DEF Sup!RepairBusy
<1>4. CASE Sup!RepairStart(a)
  <2>1. /\ job[a] = "start" /\ runners = {} /\ starts' = starts + 1
        /\ runners' = {starts'} /\ runnerPid' = starts'
        /\ job' = [job EXCEPT ![a] = IF a = "daemon" THEN "watcher" ELSE "idle"]
        /\ UNCHANGED <<watchers, watchPid, quiet, stopped, binding>>
    BY <1>4 DEF Sup!RepairStart, Sup!Spawn
  <2>2. a = "daemon" => ~stopped
    BY <1>4 DEF Sup!RepairStart, Sup!StillWanted
  <2>3. quiet # "yes"
    BY <2>1, <2>2
  <2>4. SupTypes'
    BY <2>1, <2>3
  <2>5. PidsName'
    BY <2>1, <2>3
  <2>6. StartsAlone'
    BY <2>1, <2>3
  <2>7. WatcherBusy'
    BY <2>1, <2>3
  <2>8. StopsInOrder'
    BY <2>1, <2>3
  <2> QED
    BY <2>4, <2>5, <2>6, <2>7, <2>8
<1>5. CASE Sup!RepairSkip(a)
  BY <1>5 DEF Sup!RepairSkip
<1> QED
  BY <1>1, <1>2, <1>3, <1>4, <1>5 DEF Sup!Repair

LEMMA SupDaemon ==
  ASSUME SupInv, Sup!DaemonStep
  PROVE  SupInv'
<1> USE DEF SupInv, SupTypes, PidsName, StartsAlone, WatcherBusy, StopsInOrder, Sup!Actor,
            Sup!files, Sup!commands, Sup!runner, Sup!watching, Sup!Goto
<1>1. CASE Sup!DaemonStarts
  BY <1>1 DEF Sup!DaemonStarts
<1>2. CASE Sup!Supervise
  BY <1>2 DEF Sup!Supervise
<1>3. CASE Sup!LeaveAlone
  BY <1>3 DEF Sup!LeaveAlone
<1>4. CASE Sup!LetGo
  BY <1>4 DEF Sup!LetGo, Sup!Stops, Sup!Busy, Sup!Kill, Sup!Less, Sup!Runner, Sup!Watcher, Sup!Locked
<1>5. CASE Sup!WatcherFine
  BY <1>5 DEF Sup!WatcherFine
<1>6. CASE Sup!WatcherStops
  <2>1. PICK pc \in {"bind", "idle"} :
          \/ /\ DOMAIN watchers' = DOMAIN watchers \ {Sup!Known}
             /\ job' = IF Sup!Known # 0
                       THEN [[job EXCEPT !["daemon"] = pc] EXCEPT !["watcher"] = "idle"]
                       ELSE [job EXCEPT !["daemon"] = pc]
          \/ watchers' = watchers /\ job' = [job EXCEPT !["daemon"] = pc]
    BY <1>6 DEF Sup!WatcherStops, Sup!Stops, Sup!Busy, Sup!Kill, Sup!Less
  <2>2. UNCHANGED <<starts, runners, runnerPid, watchPid, quiet, stopped, binding>>
    BY <1>6 DEF Sup!WatcherStops
  <2>3. CASE Sup!Known # 0 /\ DOMAIN watchers' = DOMAIN watchers \ {Sup!Known}
             /\ job' = [[job EXCEPT !["daemon"] = pc] EXCEPT !["watcher"] = "idle"]
    BY <2>1, <2>2, <2>3
  <2>4. CASE DOMAIN watchers' = DOMAIN watchers /\ job' = [job EXCEPT !["daemon"] = pc]
    <3>1. SupTypes'
      BY <2>2, <2>4
    <3>2. PidsName'
      BY <2>2, <2>4
    <3>3. StartsAlone'
      BY <2>2, <2>4
    <3>4. WatcherBusy'
      BY <2>4
    <3>5. StopsInOrder'
      BY <2>2, <2>4
    <3> QED
      BY <3>1, <3>2, <3>3, <3>4, <3>5
  <2>5. ASSUME Sup!Known = 0 PROVE DOMAIN watchers \ {Sup!Known} = DOMAIN watchers
    <3>1. 0 \notin DOMAIN watchers
      OBVIOUS
    <3> HIDE DEF PidsName, SupInv, SupTypes, StartsAlone, WatcherBusy, StopsInOrder
    <3> QED
      BY <2>5, <3>1
  <2> QED
    BY <2>1, <2>3, <2>4, <2>5
<1>7. CASE Sup!WatcherMissing
  BY <1>7 DEF Sup!WatcherMissing
<1>8. CASE Sup!WatcherStart
  <2>1. job' = [job EXCEPT !["daemon"] = "idle"]
    BY <1>8 DEF Sup!WatcherStart
  <2>2. UNCHANGED <<runners, runnerPid, quiet, stopped, binding>>
    BY <1>8 DEF Sup!WatcherStart
  <2>3. CASE Sup!Watcher = 0 /\ binding.on
    <3>1. DOMAIN watchers = {}
      BY <2>3 DEF Sup!Watcher
    <3>2. CASE Sup!StillWanted
      <4>1. /\ starts' = starts + 1 /\ watchPid' = starts'
            /\ DOMAIN watchers' = {starts'}
        BY <1>8, <2>3, <3>1, <3>2 DEF Sup!WatcherStart, Sup!SpawnWatcher, Sup!Spawn
      <4>2. SupTypes'
        BY <2>1, <2>2, <2>3, <3>1, <4>1
      <4>3. PidsName'
        BY <2>1, <2>2, <2>3, <3>1, <4>1
      <4>4. StartsAlone'
        BY <2>1, <2>2, <2>3, <3>1, <4>1
      <4>5. WatcherBusy'
        BY <2>1, <2>2, <2>3, <3>1, <4>1
      <4>6. StopsInOrder'
        BY <2>1, <2>2, <2>3, <3>1, <4>1
      <4> QED
        BY <4>2, <4>3, <4>4, <4>5, <4>6
    <3>3. CASE ~Sup!StillWanted
      <4>1. UNCHANGED <<starts, watchers, watchPid>>
        BY <1>8, <2>3, <3>3 DEF Sup!WatcherStart
      <4> QED
        BY <2>1, <2>2, <4>1
    <3> QED
      BY <3>2, <3>3
  <2>4. CASE ~(Sup!Watcher = 0 /\ binding.on)
    <3>1. UNCHANGED <<starts, watchers, watchPid>>
      BY <1>8, <2>4 DEF Sup!WatcherStart
    <3> QED
      BY <2>1, <2>2, <3>1
  <2> QED
    BY <2>3, <2>4
<1>9. CASE Sup!WatcherStartBusy
  BY <1>9 DEF Sup!WatcherStartBusy
<1> QED
  BY SupRepair, <1>1, <1>2, <1>3, <1>4, <1>5, <1>6, <1>7, <1>8, <1>9 DEF Sup!DaemonStep

LEMMA SupWatcher ==
  ASSUME SupInv, Sup!WatcherStep
  PROVE  SupInv'
<1>1. CASE Sup!WatcherTurn
  BY <1>1 DEF SupInv, SupTypes, PidsName, StartsAlone, WatcherBusy, StopsInOrder, Sup!Actor,
     Sup!files, Sup!commands, Sup!runner, Sup!watching, Sup!Goto, Sup!WatcherTurn, Sup!Kill,
     Sup!Less, Sup!Watcher
<1> QED
  BY SupRepair, <1>1 DEF Sup!WatcherStep

LEMMA SupUse ==
  ASSUME SupInv, Sup!UseStep \/ Sup!Operator
  PROVE  SupInv'
<1> USE DEF SupInv, SupTypes, PidsName, StartsAlone, WatcherBusy, StopsInOrder, Sup!Actor,
            Sup!files, Sup!commands, Sup!runner, Sup!watching, Sup!Goto, Sup!Begin
<1>1. CASE Sup!Used
  BY <1>1 DEF Sup!Used
<1>2. CASE Sup!Bind
  BY <1>2 DEF Sup!Bind, Sup!SpawnWatcher, Sup!Spawn, Sup!Less, Sup!Watcher
<1>3. CASE Sup!Unbound
  BY <1>3 DEF Sup!Unbound, Sup!Stops, Sup!Busy, Sup!Kill, Sup!Less, Sup!Watcher
<1>4. CASE Sup!Connect
  BY <1>4 DEF Sup!Connect
<1>5. CASE Sup!Listen
  BY <1>5 DEF Sup!Listen
<1>6. CASE Sup!Watch
  BY <1>6 DEF Sup!Watch
<1>7. CASE Sup!Unbind
  BY <1>7 DEF Sup!Unbind
<1>8. CASE Sup!Stop
  BY <1>8 DEF Sup!Stop
<1>9. CASE Sup!BindBusy
  BY <1>9 DEF Sup!BindBusy
<1> QED
  BY SupRepair, <1>1, <1>2, <1>3, <1>4, <1>5, <1>6, <1>7, <1>8, <1>9 DEF Sup!UseStep, Sup!Operator

LEMMA SupStops ==
  ASSUME SupInv, Sup!StopStep
  PROVE  SupInv'
<1> USE DEF SupInv, SupTypes, PidsName, StartsAlone, WatcherBusy, StopsInOrder, Sup!Actor,
            Sup!files, Sup!commands, Sup!runner, Sup!watching, Sup!Goto
<1>1. CASE Sup!StopWatcher
  BY <1>1 DEF Sup!StopWatcher, Sup!Kill, Sup!Less, Sup!Watcher
<1>2. CASE Sup!StopRunner
  BY <1>2 DEF Sup!StopRunner, Sup!Runner, Sup!Locked
<1>3. CASE Sup!StopBusy
  BY <1>3 DEF Sup!StopBusy
<1>4. CASE Sup!StopWatcherBusy
  BY <1>4 DEF Sup!StopWatcherBusy, Sup!Busy
<1> QED
  BY <1>1, <1>2, <1>3, <1>4 DEF Sup!StopStep

LEMMA SupAround ==
  ASSUME SupInv, Sup!Poll \/ Sup!BackoffOver \/ Sup!Fails
  PROVE  SupInv'
<1> USE DEF SupInv, SupTypes, PidsName, StartsAlone, WatcherBusy, StopsInOrder, Sup!Actor,
            Sup!files, Sup!commands, Sup!runner, Sup!watching, Sup!Goto
<1>1. CASE Sup!Poll
  BY <1>1 DEF Sup!Poll
<1>2. CASE Sup!BackoffOver
  BY <1>2 DEF Sup!BackoffOver
<1>3. CASE Sup!RunnerDies
  BY <1>3 DEF Sup!RunnerDies
<1>4. CASE Sup!RunnerHangs
  BY <1>4 DEF Sup!RunnerHangs
<1>5. CASE Sup!WatcherDies
  BY <1>5 DEF Sup!WatcherDies, Sup!Kill, Sup!Less, Sup!Watcher
<1>6. CASE Sup!DaemonDies
  BY <1>6 DEF Sup!DaemonDies
<1>7. CASE Sup!RoomChanges
  BY <1>7 DEF Sup!RoomChanges
<1> QED
  BY <1>1, <1>2, <1>3, <1>4, <1>5, <1>6, <1>7 DEF Sup!Fails

LEMMA SupStep == SupInv /\ [Sup!Next]_supervisor => SupInv'
<1>1. SupInv /\ UNCHANGED supervisor => SupInv'
  BY DEF SupInv, SupTypes, PidsName, StartsAlone, WatcherBusy, StopsInOrder, supervisor
<1> QED
  BY <1>1, SupDaemon, SupWatcher, SupUse, SupStops, SupAround DEF Sup!Next

(* At most one process is one.                                             *)
LEMMA AtMostOneOf ==
  ASSUME NEW S, NEW x, S \subseteq {x}
  PROVE  Sup!Cardinality(S) <= 1 /\ Ses!Cardinality(S) <= 1
<1>1. S = {} \/ S = {x}
  OBVIOUS
<1>2. Cardinality({}) = 0 /\ Cardinality({x}) = 1
  BY FS_EmptySet, FS_Singleton
<1>3. Cardinality(S) <= 1
  BY <1>1, <1>2
<1>4. Sup!Cardinality(S) = Cardinality(S) /\ Ses!Cardinality(S) = Cardinality(S)
  BY Zenon DEF Cardinality, Sup!Cardinality, Ses!Cardinality
<1> QED
  BY <1>3, <1>4

-----------------------------------------------------------------------------
(* A harness session.                                                      *)

SesTypes ==
  /\ running \in [room : SessionRoom \cup {"none"}, recorded : BOOLEAN, orphan : BOOLEAN]
  /\ turn \in [SessionRoom -> {"watch", "admitted", "wake", "done", "busy", "broken"}]
  /\ runs \subseteq SessionRoom

\* A run the ledger did not lose hold of is the one it has in progress; and none
\* of its own runs beside a watcher that is about to start one, or saw it end.
TurnsHeld ==
  /\ \A r \in runs \ adrift : running.room = r
  /\ \A r \in SessionRoom : turn[r] \notin {"watch", "wake"} => r \notin runs

SesInv == SesTypes /\ TurnsHeld

LEMMA SesStart == Ses!SessionInit => SesInv
  BY DEF Ses!SessionInit, SesInv, SesTypes, TurnsHeld, Ses!NoWake

LEMMA NoWakeTyped ==
  /\ Ses!NoWake \in [room : SessionRoom \cup {"none"}, recorded : BOOLEAN, orphan : BOOLEAN]
  /\ Ses!NoWake.room = "none"
  BY DEF Ses!NoWake

(* A room's watcher takes a step: what the step leaves in the ledger and the *)
(* runs must suit where the watcher is now.                                  *)
LEMMA Moved ==
  ASSUME SesInv, NEW r \in SessionRoom,
         NEW t \in {"watch", "admitted", "wake", "done", "busy", "broken"},
         turn' = [turn EXCEPT ![r] = t],
         running' \in [room : SessionRoom \cup {"none"}, recorded : BOOLEAN, orphan : BOOLEAN],
         runs' \subseteq runs \cup {r}, adrift \subseteq adrift' \cup {r},
         t \notin {"watch", "wake"} => r \notin runs',
         running'.room = running.room \/ runs \ adrift \subseteq {r},
         r \in runs' \ adrift' => running'.room = r
  PROVE  SesInv'
<1>1. turn'[r] = t /\ \A q \in SessionRoom \ {r} : turn'[q] = turn[q]
  BY DEF SesInv, SesTypes
<1>2. SesTypes'
  BY DEF SesInv, SesTypes
<1>3. \A q \in runs' \ adrift' : running'.room = q
  BY DEF SesInv, TurnsHeld
<1>4. \A q \in SessionRoom : turn'[q] \notin {"watch", "wake"} => q \notin runs'
  BY <1>1 DEF SesInv, TurnsHeld
<1> QED
  BY <1>2, <1>3, <1>4 DEF SesInv, TurnsHeld

(* What a watcher is given, or gives back, was nobody else's.                *)
LEMMA OthersAreAdrift ==
  ASSUME SesInv, NEW r \in SessionRoom, running = Ses!NoWake \/ Ses!Holds(r)
  PROVE  runs \ adrift \subseteq {r}
  BY NoWakeTyped, RoomsAssumption DEF SesInv, SesTypes, TurnsHeld, Ses!Holds

LEMMA SesWatcher ==
  ASSUME SesInv, NEW r \in SessionRoom, Ses!WatcherStep(r)
  PROVE  SesInv'
<1>1. running \in [room : SessionRoom \cup {"none"}, recorded : BOOLEAN, orphan : BOOLEAN]
  BY DEF SesInv, SesTypes
<1>2. CASE Ses!Claim(r) /\ r \notin runs
  <2>1. UNCHANGED <<runs, adrift>>
    BY <1>2 DEF Ses!Claim, Ses!processes
  <2>2. CASE /\ running = Ses!NoWake \/ Ses!Holds(r)
             /\ running' = [Ses!NoWake EXCEPT !.room = r]
             /\ turn' = [turn EXCEPT ![r] = "admitted"]
    <3>1. running' \in [room : SessionRoom \cup {"none"}, recorded : BOOLEAN, orphan : BOOLEAN]
      BY <2>2 DEF Ses!NoWake
    <3> QED
      BY <1>2, <2>1, <2>2, <3>1, OthersAreAdrift, Moved
  <2>3. CASE /\ running' = IF Ses!Holds(r) THEN Ses!NoWake ELSE running
             /\ turn' = [turn EXCEPT ![r] = "watch"]
    BY <1>1, <1>2, <2>1, <2>3, NoWakeTyped, OthersAreAdrift, Moved
  <2> QED
    BY <1>2, <2>2, <2>3 DEF Ses!Claim, Ses!Free, Ses!Does
<1>3. CASE Ses!Wake(r)
  <2>1. /\ turn' = [turn EXCEPT ![r] = "wake"] /\ runs' = runs \cup {r}
        /\ adrift' = IF Ses!Holds(r) THEN adrift ELSE adrift \cup {r}
        /\ \/ running' = IF Ses!Holds(r) THEN [running EXCEPT !.recorded = TRUE] ELSE running
           \/ running' = running
    BY <1>3 DEF Ses!Wake, Ses!Does
  <2>2. /\ running' \in [room : SessionRoom \cup {"none"}, recorded : BOOLEAN, orphan : BOOLEAN]
        /\ running'.room = running.room
    BY <1>1, <2>1
  <2> QED
    BY <2>1, <2>2, Moved DEF Ses!Holds
<1>4. CASE Ses!Release(r)
  <2>1. /\ turn' = [turn EXCEPT ![r] = "watch"] /\ UNCHANGED <<runs, adrift>> /\ r \notin runs
        /\ running' = IF Ses!Holds(r) THEN Ses!NoWake ELSE running
    BY <1>4 DEF Ses!Release, Ses!Does, Ses!processes, Ses!ledger, SesInv, TurnsHeld
  <2> QED
    BY <1>1, <2>1, NoWakeTyped, OthersAreAdrift, Moved
<1>5. CASE Ses!StandBy(r)
  BY <1>5 DEF Ses!StandBy, Ses!Leave, Ses!processes, SesInv, SesTypes, TurnsHeld
<1> QED
  BY <1>2, <1>3, <1>4, <1>5 DEF Ses!WatcherStep

LEMMA SesMishaps ==
  ASSUME SesInv, NEW r \in SessionRoom,
         Ses!Dies(r) \/ Ses!DiesWaking(r) \/ Ses!Unreleased(r) \/ Ses!Outlives(r) \/ Ses!OrphanLeft(r)
  PROVE  SesInv'
<1>1. running \in [room : SessionRoom \cup {"none"}, recorded : BOOLEAN, orphan : BOOLEAN]
  BY DEF SesInv, SesTypes
<1>2. CASE Ses!Dies(r)
  <2>1. /\ turn' = [turn EXCEPT ![r] = "watch"] /\ runs' = runs
        /\ \/ ~Ses!Holds(r) /\ running' = running /\ adrift' = adrift
           \/ running' = [running EXCEPT !.orphan = TRUE] /\ adrift' = adrift
           \/ /\ Ses!Holds(r) /\ running' = Ses!NoWake
              /\ adrift' = adrift \cup ({r} \cap runs)
    BY <1>2 DEF Ses!Dies, Ses!Does
  <2>2. CASE running' = running /\ adrift' = adrift
    BY <1>1, <2>1, <2>2, Moved DEF SesInv, TurnsHeld
  <2>3. CASE running' = [running EXCEPT !.orphan = TRUE] /\ adrift' = adrift
    <3>1. /\ running' \in [room : SessionRoom \cup {"none"}, recorded : BOOLEAN, orphan : BOOLEAN]
          /\ running'.room = running.room
      BY <1>1, <2>3
    <3> QED
      BY <2>1, <2>3, <3>1, Moved DEF SesInv, TurnsHeld
  <2>4. CASE Ses!Holds(r) /\ running' = Ses!NoWake /\ adrift' = adrift \cup ({r} \cap runs)
    BY <2>1, <2>4, NoWakeTyped, OthersAreAdrift, Moved
  <2> QED
    BY <2>1, <2>2, <2>3, <2>4
<1>3. CASE Ses!DiesWaking(r)
  <2>1. /\ turn' = [turn EXCEPT ![r] = "watch"] /\ UNCHANGED <<runs, adrift>> /\ r \notin runs
        /\ running' = IF Ses!Holds(r) THEN Ses!NoWake ELSE running
    BY <1>3 DEF Ses!DiesWaking, Ses!Does, SesInv, TurnsHeld
  <2> QED
    BY <1>1, <2>1, NoWakeTyped, OthersAreAdrift, Moved
<1>4. CASE Ses!Unreleased(r)
  BY <1>1, <1>4, Moved DEF Ses!Unreleased, Ses!Does, Ses!ledger, Ses!processes, SesInv, TurnsHeld
<1>5. CASE Ses!Outlives(r)
  BY <1>1, <1>5, Moved DEF Ses!Outlives, Ses!Over, Ses!Does, Ses!ledger
<1>6. CASE Ses!OrphanLeft(r)
  BY <1>6 DEF Ses!OrphanLeft, Ses!Over, Ses!ledger, SesInv, SesTypes, TurnsHeld
<1> QED
  BY <1>2, <1>3, <1>4, <1>5, <1>6

LEMMA SesStep == SesInv /\ [Ses!SessionNext]_session => SesInv'
<1> SUFFICES ASSUME SesInv, [Ses!SessionNext]_session PROVE SesInv'
  OBVIOUS
<1> USE DEF SesInv, SesTypes, TurnsHeld, Ses!Over, Ses!Does, Ses!ledger, Ses!processes
<1>1. ASSUME NEW r \in SessionRoom, Ses!Arrives(r) PROVE SesInv'
  BY <1>1 DEF Ses!Arrives
<1>2. ASSUME NEW r \in SessionRoom, Ses!Ends(r) PROVE SesInv'
  BY <1>2 DEF Ses!Ends
<1>3. ASSUME NEW r \in SessionRoom, Ses!Refuses(r) PROVE SesInv'
  BY <1>3 DEF Ses!Refuses
<1>4. ASSUME NEW r \in SessionRoom, Ses!OrphanEnds(r) PROVE SesInv'
  BY <1>4, NoWakeTyped DEF Ses!OrphanEnds
<1>5. ASSUME NEW r \in SessionRoom, Ses!StrayEnds(r) \/ Ses!Silent(r) PROVE SesInv'
  BY <1>5 DEF Ses!StrayEnds, Ses!Silent
<1>6. CASE Ses!TryAgain \/ Ses!ClearHalt
  BY <1>6 DEF Ses!TryAgain, Ses!ClearHalt
<1>7. CASE Ses!TimesOut
  BY <1>7, NoWakeTyped DEF Ses!TimesOut
<1>8. CASE UNCHANGED session
  BY <1>8 DEF session
<1> QED
  BY SesWatcher, SesMishaps, <1>1, <1>2, <1>3, <1>4, <1>5, <1>6, <1>7, <1>8 DEF Ses!SessionNext

-----------------------------------------------------------------------------
(* The outbox.                                                             *)

\* What was signed is in the log or was dropped from it, and a decision's
\* change is only dropped once it is remembered.
SignedIsKept ==
  /\ \A r \in Request : signed[r] > 0 => r \in log \cup dropped
  /\ Decisions \cap dropped \subseteq spent

OutInv == signed \in [Request -> Nat] /\ SignedIsKept /\ Out!SignedOnce

LEMMA OutStart == Out!Init => OutInv
  BY DEF Out!Init, OutInv, SignedIsKept, Out!SignedOnce

LEMMA Signing ==
  ASSUME OutInv, NEW r \in Request, r \notin log, r \notin Decisions \cap spent, Out!Signs(r),
         UNCHANGED <<spent, dropped>>
  PROVE  OutInv'
<1> USE DEF OutInv, SignedIsKept, Out!SignedOnce, Out!Signs
<1>1. signed[r] \in Nat /\ (signed[r] > 0 => r \in dropped \ Decisions)
  OBVIOUS
<1>2. /\ signed' = [signed EXCEPT ![r] = signed[r] + 1]
      /\ log' = log \cup {r}
  OBVIOUS
<1>3. signed' \in [Request -> Nat]
  BY <1>1, <1>2
<1>4. \A q \in Request : q # r => signed'[q] = signed[q]
  BY <1>2
<1>5. signed'[r] = signed[r] + 1
  BY <1>2
<1>6. SignedIsKept'
  BY <1>2, <1>4
<1>7. Out!SignedOnce'
  BY <1>1, <1>4, <1>5
<1> QED
  BY <1>3, <1>6, <1>7

LEMMA OutDelivers ==
  ASSUME OutInv, NEW r \in Request, Out!Delivers(r)
  PROVE  OutInv'
<1>1. /\ UNCHANGED <<spent, dropped>>
      /\ \/ UNCHANGED <<log, signed>>
         \/ r \notin log /\ r \notin Decisions \cap spent /\ Out!Signs(r)
  BY KindsAssumption DEF Out!Delivers, Out!Refuse, Out!DeliverDecision, Out!DeliverTask, Out!DeliverMessage,
     Out!DeliverReaction, Out!Takes, Out!Leaves, Out!Rest, Out!Made, Out!Tasks
<1>2. CASE UNCHANGED <<log, signed>>
  BY <1>1, <1>2 DEF OutInv, SignedIsKept, Out!SignedOnce
<1> QED
  BY <1>1, <1>2, Signing

LEMMA OutStep == OutInv /\ [Out!Next]_changing => OutInv'
<1> SUFFICES ASSUME OutInv, [Out!Next]_changing PROVE OutInv'
  OBVIOUS
<1> USE DEF OutInv, SignedIsKept, Out!SignedOnce, Out!files, Out!running, Out!calling
<1>1. CASE Out!Remove
  BY <1>1 DEF Out!Remove
<1>2. CASE Out!MessageKept \/ Out!Hang \/ Out!Stop \/ Out!Crash \/ Out!Start
  BY <1>2 DEF Out!MessageKept, Out!Hang, Out!Stop, Out!Crash, Out!Start
<1>3. ASSUME NEW r \in Request, Out!Spend(r) PROVE OutInv'
  BY <1>3 DEF Out!Spend
<1>4. ASSUME NEW r \in Request, Out!Drop(r) PROVE OutInv'
  BY <1>4 DEF Out!Drop
<1>5. ASSUME NEW c \in Caller, NEW r \in Request,
             Out!Send(c, r) \/ Out!ChangeTask(c, r) \/ Out!React(c, r) \/ Out!Decide(c, r)
      PROVE  OutInv'
  BY <1>5 DEF Out!Send, Out!ChangeTask, Out!React, Out!Decide, Out!Asks
<1>6. ASSUME NEW c \in Caller, Out!Queue(c) PROVE OutInv'
  BY <1>6 DEF Out!Queue
<1>7. ASSUME NEW c \in Caller,
             \/ Out!Look(c) \/ Out!GiveUp(c) \/ Out!Return(c)
             \/ Out!FindMessage(c) \/ Out!FindTask(c) \/ Out!FindReaction(c) \/ Out!FindDecision(c)
      PROVE  OutInv'
  BY <1>7 DEF Out!Look, Out!GiveUp, Out!Return, Out!FindMessage, Out!FindTask, Out!FindReaction,
     Out!FindDecision, Out!Finds
<1>8. CASE UNCHANGED changing
  BY <1>8 DEF changing
<1> QED
  BY OutDelivers, <1>1, <1>2, <1>3, <1>4, <1>5, <1>6, <1>7, <1>8 DEF Out!Next

-----------------------------------------------------------------------------
(* Together.                                                               *)

AgentsInv == SupInv /\ SesInv /\ OutInv

(* A room has at most one runner and one watcher, whoever starts, replaces   *)
(* and stops them, and what `stop` stopped stays so until it is used again    *)
(* (agent-daemon.ts); in a harness session runs at most one wake, whichever   *)
(* watchers die (agent-watch.ts); and no change is signed a second time while *)
(* the log or the decisions' list remembers it (browser-agent.ts).            *)
THEOREM AgentsDoOnce == AgentsSpec => []DoneOnce
<1>1. AgentsInit => AgentsInv
  BY SupStart, SesStart, OutStart DEF AgentsInit, AgentsInv
<1>2. AgentsInv /\ [AgentsNext]_all => AgentsInv'
  BY SupStep, SesStep, OutStep DEF AgentsInv, AgentsNext, Supervised, Taken, Changed, all
<1>3. AgentsInv => DoneOnce
  <2> SUFFICES ASSUME AgentsInv PROVE DoneOnce
    OBVIOUS
  <2>1. Sup!AtMostOne
    BY AtMostOneOf, Zenon DEF AgentsInv, SupInv, PidsName, Sup!AtMostOne
  <2>2. Sup!StaysStopped
    BY DEF AgentsInv, SupInv, StopsInOrder, Sup!StaysStopped
  <2>3. Ses!OneWake
    <3>1. runs \ adrift \subseteq {running.room}
      BY DEF AgentsInv, SesInv, TurnsHeld
    <3> QED
      BY <3>1, AtMostOneOf, Zenon DEF Ses!OneWake
  <2>4. Out!SignedOnce
    BY DEF AgentsInv, OutInv
  <2> QED
    BY <2>1, <2>2, <2>3, <2>4 DEF DoneOnce
<1> QED
  BY <1>1, <1>2, <1>3, PTL DEF AgentsSpec
=============================================================================
