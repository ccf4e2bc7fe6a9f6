----------------------------- MODULE Supervisor -----------------------------
(***************************************************************************)
(* Who keeps an agent's room running on its machine: the supervisor (one   *)
(* daemon per user), the room's watcher, and the commands its operator     *)
(* runs beside them (src/server/agent-daemon.ts, src/server/agent-cli.ts). *)
(* One room is modelled.  Its files, its processes and the runner lock are *)
(* shared; each actor reads them, waits, and acts on what it read.  What   *)
(* is done under the watch lock waits for nothing but processes that end,  *)
(* so each such piece is one step, or is not done when another process     *)
(* keeps the lock for longer than it is waited for.  The daemon's ticks    *)
(* that find no check due yet do nothing and are left out.                 *)
(***************************************************************************)
EXTENDS Naturals, FiniteSets
CONSTANTS
  MaxStarts,   \* processes started for the room
  MaxUses,     \* commands its operator runs for the room
  MaxTrouble   \* deaths, hangs, failed starts, lock waits given up and removals
VARIABLES
  room,        \* what the room service says of the agent (external)
  uses, trouble, starts,
  stamp,       \* of room.json, written by each connect
  stopped,     \* stopped.json is there
  closed,      \* the runner recorded that the room is closed
  retired,     \* the stamp in retired.json, 0 for none
  binding,     \* watch.json as readBinding reads it
  heard,       \* the runner's proof says it was removed: "no", "yes", or "old" (from before `since`)
  repaired,    \* a repair was recorded less than REPAIR_BACKOFF_MS ago
  runners,     \* the live runners
  stuck,       \* those whose loop does not come round
  runnerPid,   \* runner.pid
  watchers,    \* the live watchers: by pid the binding's stamp each runs, 0 before it read one
  watchPid,    \* watch.pid
  daemon,      \* whether it runs and what it remembers
  job,         \* where each actor is
  quiet        \* "yes": a `stop` ended, and no command used the room since it began

commands == <<uses, quiet>>
files == <<stamp, stopped, closed, retired, binding>>
runner == <<runners, stuck, runnerPid, heard, repaired>>
watching == <<watchers, watchPid>>
vars == <<room, trouble, starts, daemon, job, commands, files, runner, watching>>

Actor == {"daemon", "watcher", "use", "stop"}
\* What the daemon knows of a room it has just met.
Unmet == [up |-> FALSE, state |-> "starting", drop |-> 0,
          watcher |-> 0, held |-> FALSE, runs |-> 0, saw |-> [on |-> FALSE, stamp |-> 0]]

\* The live process a pid file names, 0 for none.
Runner == IF runnerPid \in runners THEN runnerPid ELSE 0
Watcher == IF watchPid \in DOMAIN watchers THEN watchPid ELSE 0
Less(p) == [q \in DOMAIN watchers \ {p} |-> watchers[q]]
\* The runner lock: a holder that died leaves it to whoever asks next.
Locked == \E a \in Actor : job[a] = "start"
Goto(a, pc) == job' = [job EXCEPT ![a] = pc]
Forgotten(d) == [d EXCEPT !.watcher = 0, !.held = FALSE, !.runs = 0]
\* `since` moves to now: only a proof written from now on counts.
Since == IF heard = "yes" THEN "old" ELSE heard

Init ==
  /\ room = "member" /\ uses = 0 /\ trouble = 0 /\ starts = 0
  /\ stamp = 1 /\ stopped = FALSE /\ closed = FALSE /\ retired = 0
  /\ binding = [on |-> FALSE, stamp |-> 0] /\ heard = "no" /\ repaired = FALSE
  /\ runners = {} /\ stuck = {} /\ runnerPid = 0
  /\ watchers = [p \in {} |-> 0] /\ watchPid = 0
  /\ daemon = Unmet /\ job = [a \in Actor |-> "idle"] /\ quiet = "no"

Spawn == starts < MaxStarts /\ starts' = starts + 1
SpawnWatcher(others) ==
  /\ Spawn
  /\ watchers' = [p \in DOMAIN others \cup {starts'} |-> IF p = starts' THEN 0 ELSE others[p]]
  /\ watchPid' = starts'
\* A watcher that is stopped drops what it was doing.
Kill(w, do) == /\ watchers' = Less(w)
               /\ job' = IF w # 0 THEN [do EXCEPT !["watcher"] = "idle"] ELSE do
Hurt == trouble < MaxTrouble /\ trouble' = trouble + 1
\* Another process has the watch lock, and the watcher is left running.
Busy(do) == Hurt /\ watchers' = watchers /\ job' = do
Stops(w, do) == (Kill(w, do) /\ UNCHANGED trouble) \/ Busy(do)

(***************************************************************************)
(* The runner's repair, which the daemon, the watcher and commands share.  *)
(***************************************************************************)
Needs == Runner = 0 \/ Runner \in stuck
After(a) == IF a = "daemon" THEN "watcher" ELSE "idle"
\* runnerOwner.  A daemon in the middle of a long tick can be taken for gone.
Owns(a) ==
  \/ a = "daemon"
  \/ /\ daemon.up => job["daemon"] # "idle"
     /\ a = "use" => Watcher = 0
Defers(a) == a # "daemon" /\ (daemon.up \/ (a = "use" /\ Watcher # 0))

RepairLook(a) ==
  /\ job[a] = "repair"
  /\ \/ Needs /\ Owns(a) /\ Goto(a, "lock")
     \/ (~Needs \/ Defers(a)) /\ Goto(a, After(a))
  /\ UNCHANGED <<room, trouble, starts, daemon, commands, files, runner, watching>>

\* mutant: what was found before the lock was had is acted on
FoundMissing == TRUE
Missing == Runner = 0

\* Holding the lock it looks again; a stuck runner is stopped first.
RepairLock(a) ==
  /\ job[a] = "lock" /\ ~Locked
  /\ LET replace == Runner \in stuck /\ ~repaired IN
     /\ Goto(a, IF Missing \/ replace THEN "start" ELSE After(a))
     /\ runners' = IF replace THEN runners \ {Runner} ELSE runners
     /\ stuck' = stuck \cap runners'
     /\ repaired' = (repaired \/ replace)
  /\ UNCHANGED <<room, trouble, starts, daemon, commands, files, runnerPid, heard, watching>>

\* Another process is at it, and it is left to that one.
RepairBusy(a) ==
  /\ job[a] = "lock" /\ Locked
  /\ Goto(a, After(a))
  /\ UNCHANGED <<room, trouble, starts, daemon, commands, files, runner, watching>>

\* mutant: whether its operator stopped it is not read again
WantedBefore == ~closed
StillWanted == ~stopped /\ ~closed

\* Started after the version check, by the daemon only if still wanted.
RepairStart(a) ==
  /\ job[a] = "start" /\ (a = "daemon" => StillWanted)
  /\ Spawn /\ Goto(a, After(a))
  /\ runners' = runners \cup {starts'} /\ runnerPid' = starts'
  /\ heard' = IF a = "daemon" THEN Since ELSE heard
  /\ UNCHANGED <<room, trouble, daemon, commands, files, stuck, repaired, watching>>

RepairSkip(a) ==
  /\ job[a] = "start"
  /\ \/ a = "daemon" /\ ~StillWanted /\ UNCHANGED trouble
     \/ trouble < MaxTrouble /\ trouble' = trouble + 1
  /\ Goto(a, After(a))
  /\ UNCHANGED <<room, starts, daemon, commands, files, runner, watching>>

Repair(a) == RepairLook(a) \/ RepairLock(a) \/ RepairBusy(a) \/ RepairStart(a) \/ RepairSkip(a)

(***************************************************************************)
(* The daemon: one check of the room at a time.                            *)
(***************************************************************************)
DaemonStarts ==
  /\ ~daemon.up /\ daemon' = [Unmet EXCEPT !.up = TRUE] /\ heard' = Since
  /\ UNCHANGED <<room, trouble, starts, job, commands, files, runners, stuck, runnerPid, repaired, watching>>

\* mutant: a room let go is never looked at again
NeverBack == FALSE
\* Connected again since it was let go.
Back == daemon.state = "gone" /\ stamp # daemon.drop /\ ~closed
Now == IF Back THEN "starting" ELSE daemon.state
\* The proof was read before `since` moved: a connect does not make it old.
Removed == heard = "yes"

\* Watches over the room: its runner first, then its watcher.
Supervise ==
  /\ daemon.up /\ job["daemon"] = "idle"
  /\ ~closed /\ ~stopped /\ retired # stamp /\ Now # "gone"
  /\ daemon' = [daemon EXCEPT !.state = "supervised", !.saw = binding]
  /\ heard' = IF Back \/ Now = "stopped" THEN Since ELSE heard
  /\ Goto("daemon", "repair")
  /\ UNCHANGED <<room, trouble, starts, commands, files, runners, stuck, runnerPid, repaired, watching>>

\* Leaves the room alone: stopped by its operator, or let go before.
LeaveAlone ==
  /\ daemon.up /\ job["daemon"] = "idle" /\ ~closed
  /\ LET before == retired = stamp IN
     /\ Now # "gone" /\ (before \/ stopped)
     /\ daemon' = [Forgotten(daemon) EXCEPT !.state = IF before THEN "gone" ELSE "stopped",
                                            !.drop = IF before THEN stamp ELSE @]
  /\ heard' = IF Back THEN Since ELSE heard
  /\ UNCHANGED <<room, trouble, starts, job, commands, files, runners, stuck, runnerPid, repaired, watching>>

\* Lets the room go, with its watcher, and the runner of a removed agent
\* unless another process holds the runner's lock.
LetGo ==
  /\ daemon.up /\ job["daemon"] = "idle" /\ Now # "gone" /\ (closed \/ Removed)
  /\ daemon' = [Forgotten(daemon) EXCEPT !.state = "gone", !.drop = stamp]
  /\ retired' = stamp
  /\ LET w == IF daemon.watcher # 0 THEN daemon.watcher ELSE IF binding.stamp # 0 THEN Watcher ELSE 0
         gone == ~closed /\ ~Locked IN
     /\ Stops(w, job) /\ watchPid' = watchPid
     /\ runners' = IF gone THEN runners \ {Runner} ELSE runners
  /\ stuck' = stuck \cap runners' /\ heard' = IF Back THEN Since ELSE heard
  /\ UNCHANGED <<room, starts, commands, stamp, stopped, closed, binding, runnerPid, repaired>>

\* A watcher it holds is known by its handle, another by a lookup.
Known == IF daemon.held THEN (IF daemon.watcher \in DOMAIN watchers THEN daemon.watcher ELSE 0) ELSE Watcher
Runs == IF Known = daemon.watcher THEN daemon.runs ELSE daemon.saw.stamp
Serves == daemon.saw.on /\ Known # 0 /\ Runs = daemon.saw.stamp

WatcherFine ==
  /\ job["daemon"] = "watcher" /\ Serves
  /\ daemon' = [daemon EXCEPT !.watcher = Known, !.runs = Runs]
  /\ Goto("daemon", "idle")
  /\ UNCHANGED <<room, trouble, starts, commands, files, runner, watching>>

\* Wakes are off, or the watcher runs another binding.
WatcherStops ==
  /\ job["daemon"] = "watcher" /\ ~Serves /\ (Known # 0 \/ ~daemon.saw.on)
  /\ daemon' = Forgotten(daemon)
  /\ Stops(Known, [job EXCEPT !["daemon"] = IF daemon.saw.on THEN "bind" ELSE "idle"])
  /\ UNCHANGED <<room, starts, commands, files, runner, watchPid>>

WatcherMissing ==
  /\ job["daemon"] = "watcher" /\ daemon.saw.on /\ Known = 0
  /\ Goto("daemon", "bind") /\ daemon' = Forgotten(daemon)
  /\ UNCHANGED <<room, trouble, starts, commands, files, runner, watching>>

\* Under the watch lock: one that runs is adopted, else one is started while
\* the binding is on and the room wanted.
WatcherStart ==
  /\ job["daemon"] = "bind" /\ Goto("daemon", "idle")
  /\ IF Watcher # 0
     THEN /\ daemon' = [daemon EXCEPT !.watcher = Watcher, !.runs = daemon.saw.stamp]
          /\ UNCHANGED <<starts, watching>>
     ELSE IF binding.on /\ StillWanted
     THEN /\ SpawnWatcher(watchers)
          /\ daemon' = [daemon EXCEPT !.watcher = starts', !.held = TRUE, !.runs = binding.stamp]
     ELSE UNCHANGED <<daemon, starts, watching>>
  /\ UNCHANGED <<room, trouble, commands, files, runner>>
WatcherStartBusy ==
  /\ job["daemon"] = "bind" /\ Goto("daemon", "idle") /\ Hurt
  /\ UNCHANGED <<room, starts, daemon, commands, files, runner, watching>>

DaemonStep ==
  \/ DaemonStarts \/ Supervise \/ LeaveAlone \/ LetGo \/ Repair("daemon")
  \/ WatcherFine \/ WatcherStops \/ WatcherMissing \/ WatcherStart \/ WatcherStartBusy

(***************************************************************************)
(* The watcher and the runner.                                             *)
(***************************************************************************)
\* It runs the binding it finds when it comes up, if wakes are on, and ends
\* once the binding is off or another one.  Between wakes it sees to the runner.
WatcherTurn ==
  /\ Watcher # 0 /\ job["watcher"] = "idle"
  /\ LET w == Watcher IN
     IF binding.on /\ watchers[w] \in {0, binding.stamp}
     THEN /\ watchers' = [watchers EXCEPT ![w] = binding.stamp]
          /\ Goto("watcher", IF watchers[w] # 0 /\ ~closed THEN "repair" ELSE "idle")
     ELSE Kill(w, job)
  /\ UNCHANGED <<room, trouble, starts, daemon, commands, files, runner, watchPid>>

WatcherStep == WatcherTurn \/ Repair("watcher")

\* The runner polls: it records a removal while it lasts, and a closed room
\* for good, with which it ends.
Poll ==
  /\ Runner # 0 /\ Runner \notin stuck
  /\ closed' = (closed \/ room = "closed")
  /\ runners' = IF room = "closed" THEN runners \ {Runner} ELSE runners
  /\ heard' = CASE room = "removed" -> "yes" [] room = "member" -> "no" [] OTHER -> heard
  /\ UNCHANGED <<room, trouble, starts, daemon, job, commands, stamp, stopped, retired, binding,
                 stuck, runnerPid, repaired, watching>>

BackoffOver ==
  /\ repaired /\ repaired' = FALSE
  /\ UNCHANGED <<room, trouble, starts, daemon, job, commands, files, runners, stuck, runnerPid, heard, watching>>

(***************************************************************************)
(* Commands.                                                               *)
(***************************************************************************)
Begin(pc) ==
  /\ job["use"] = "idle" /\ uses < MaxUses /\ uses' = uses + 1
  /\ Goto("use", pc) /\ quiet' = "no"

\* connect: room.json is written again, and the link brings the agent back.
Connect ==
  /\ Begin("used") /\ room # "closed"
  /\ room' = "member" /\ stamp' = stamp + 1
  /\ UNCHANGED <<trouble, starts, daemon, stopped, closed, retired, binding, runner, watching>>

\* Using the room undoes a `stop`; then the runner is seen to.
Used ==
  /\ job["use"] = "used" /\ Goto("use", "repair") /\ stopped' = FALSE
  /\ UNCHANGED <<room, trouble, starts, daemon, commands, stamp, closed, retired, binding, runner, watching>>

Listen ==
  /\ Begin("repair") /\ stopped' = FALSE
  /\ UNCHANGED <<room, trouble, starts, daemon, stamp, closed, retired, binding, runner, watching>>

\* watch: undoes a `stop`, then writes the binding, which the daemon then
\* serves; without one the watcher that runs is replaced under the watch lock.
Watch ==
  /\ Begin("bind") /\ stopped' = FALSE
  /\ UNCHANGED <<room, trouble, starts, daemon, stamp, closed, retired, binding, runner, watching>>

Bind ==
  /\ job["use"] = "bind"
  /\ binding' = [on |-> TRUE, stamp |-> binding.stamp + 1]
  /\ LET done == [job EXCEPT !["use"] = "idle"] IN
     \/ daemon.up /\ job' = done /\ UNCHANGED <<starts, watching>>
     \/ /\ daemon.up => job["daemon"] # "idle"
        /\ job' = [done EXCEPT !["watcher"] = "idle"]
        /\ SpawnWatcher(Less(Watcher))
  /\ UNCHANGED <<room, trouble, daemon, commands, stamp, stopped, closed, retired, runner>>

\* Without the lock, watch gives up and changes nothing.
BindBusy ==
  /\ job["use"] = "bind" /\ Goto("use", "idle") /\ Hurt
  /\ daemon.up => job["daemon"] # "idle"
  /\ UNCHANGED <<room, starts, daemon, commands, files, runner, watching>>

\* unbind: wakes off, and the watcher stopped.
Unbind ==
  /\ Begin("unbind") /\ binding' = [binding EXCEPT !.on = FALSE]
  /\ UNCHANGED <<room, trouble, starts, daemon, stamp, stopped, closed, retired, runner, watching>>
Unbound ==
  /\ job["use"] = "unbind" /\ Stops(Watcher, [job EXCEPT !["use"] = "idle"])
  /\ UNCHANGED <<room, starts, daemon, commands, files, runner, watchPid>>

UseStep == Used \/ Bind \/ BindBusy \/ Unbound \/ Repair("use")

\* stop: what is wanted first, then the watcher, then the runner.
Stop ==
  /\ job["stop"] = "idle" /\ uses < MaxUses /\ uses' = uses + 1
  /\ stopped' = TRUE /\ binding' = [binding EXCEPT !.on = FALSE]
  /\ Goto("stop", "watcher")
  /\ quiet' = IF job["use"] = "idle" THEN "stopping" ELSE "no"
  /\ UNCHANGED <<room, trouble, starts, daemon, stamp, closed, retired, runner, watching>>
StopWatcher ==
  /\ job["stop"] = "watcher" /\ Kill(Watcher, [job EXCEPT !["stop"] = "runner"])
  /\ UNCHANGED <<room, trouble, starts, daemon, commands, files, runner, watchPid>>
\* It goes on to the runner, and says nothing of the watcher it left.
StopWatcherBusy ==
  /\ job["stop"] = "watcher" /\ Busy([job EXCEPT !["stop"] = "runner"])
  /\ quiet' = "no"
  /\ UNCHANGED <<room, starts, daemon, uses, files, runner, watchPid>>
StopRunner ==
  /\ job["stop"] = "runner" /\ ~Locked /\ Goto("stop", "idle")
  /\ runners' = runners \ {Runner} /\ stuck' = stuck \cap runners'
  /\ quiet' = IF quiet = "stopping" THEN "yes" ELSE "no"
  /\ UNCHANGED <<room, trouble, starts, daemon, uses, files, runnerPid, heard, repaired, watching>>
\* It waits for the lock, at most 20 s, then reports that it left the runner.
StopBusy ==
  /\ job["stop"] = "runner" /\ Locked /\ Goto("stop", "idle") /\ quiet' = "no"
  /\ UNCHANGED <<room, trouble, starts, daemon, uses, files, runner, watching>>

StopStep == StopWatcher \/ StopWatcherBusy \/ StopRunner \/ StopBusy

(***************************************************************************)
(* What can happen to the processes and to the agent.                      *)
(***************************************************************************)
RunnerDies ==
  /\ Hurt /\ Runner # 0 /\ runners' = runners \ {Runner} /\ stuck' = stuck \cap runners'
  /\ UNCHANGED <<room, starts, daemon, job, commands, files, runnerPid, heard, repaired, watching>>
RunnerHangs ==
  /\ Hurt /\ Runner # 0 /\ stuck' = stuck \cup {Runner}
  /\ UNCHANGED <<room, starts, daemon, job, commands, files, runners, runnerPid, heard, repaired, watching>>
WatcherDies ==
  /\ Hurt /\ Watcher # 0 /\ Kill(Watcher, job)
  /\ UNCHANGED <<room, starts, daemon, commands, files, runner, watchPid>>
DaemonDies ==
  /\ Hurt /\ daemon.up /\ daemon' = Unmet /\ Goto("daemon", "idle")
  /\ UNCHANGED <<room, starts, commands, files, runner, watching>>
RoomChanges ==
  /\ Hurt /\ room = "member" /\ room' \in {"removed", "closed"}
  /\ UNCHANGED <<starts, daemon, job, commands, files, runner, watching>>

Fails == RunnerDies \/ RunnerHangs \/ WatcherDies \/ DaemonDies \/ RoomChanges
Operator == Connect \/ Listen \/ Watch \/ Unbind \/ Stop
Next ==
  \/ DaemonStep \/ WatcherStep \/ UseStep \/ StopStep
  \/ Poll \/ BackoffOver \/ Operator \/ Fails
Spec == Init /\ [][Next]_vars
FairSpec ==
  /\ Spec /\ WF_vars(DaemonStep) /\ WF_vars(WatcherStep) /\ WF_vars(UseStep) /\ WF_vars(StopStep)
  /\ WF_vars(Poll) /\ WF_vars(BackoffOver)

\* Never two runners for one device, never two watchers for one room,
\* whoever starts, replaces, adopts and stops them, and whoever dies.
AtMostOne == Cardinality(runners) <= 1 /\ Cardinality(DOMAIN watchers) <= 1

\* What `stop` stopped stays stopped until a command uses the room again,
\* though the daemon and the watcher were in the middle of starting it.
StaysStopped == quiet = "yes" => runners = {} /\ DOMAIN watchers = {}

Kept == /\ Runner # 0 /\ Runner \notin stuck
        /\ binding.on => Watcher # 0 /\ watchers[Watcher] = binding.stamp

\* A room that is wanted gets its runner back, and the watcher of the binding its
\* operator last made, also when it is connected again after it was let go: unless
\* it was let go over a removal from before it was connected.
KeptRunning == <>[](room = "member" /\ ~stopped /\ retired # stamp) => <>[]Kept

\* What docs/flows/agent-room-watching.md:303 says, and what does not hold
\* (README): a room let go is not kept running until a new `connect` writes its
\* room.json again, and from then on it is.
ComesBack == (Back /\ [](room = "member" /\ ~stopped)) ~> []Kept
=============================================================================
