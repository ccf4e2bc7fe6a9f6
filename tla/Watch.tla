-------------------------------- MODULE Watch --------------------------------
(***************************************************************************)
(* One room's watcher between its wakes (src/server/agent-watch.ts         *)
(* watchLoop): the limit of wakes, the retries, the pauses and halts that  *)
(* outlive it, and the harness's run an earlier watcher left.  A watcher   *)
(* may end at any step while its run goes on, and the room may be bound    *)
(* again meanwhile.  There is always work, and the session's line (module  *)
(* Session) lets the room in.                                              *)
(***************************************************************************)
EXTENDS Naturals, Sequences
CONSTANTS
  MaxWakes, Hour,   \* wakes in an hour, and an hour
  MaxIdle,          \* wakes in a row that handled nothing before a pause
  Backoff, Retry,   \* how long after one, and after a pause
  Overdue,          \* when a run is no legitimate one any more
  MaxRuns, MaxBindings, MaxFaults, MaxTime

VARIABLES
  bound, enabled,                       \* the binding's generation, wakes on
  phase, under,                         \* the watcher, and the generation it runs
  alive, began,                         \* runs that go on; when each began
  active, paused, halted, backoff, idle, woken,   \* watch-state.json
  breached, cut,                        \* generations held; runs lost hold of
  clock, faults

binding == <<bound, enabled>>
watcher == <<phase, under>>
state == <<active, paused, halted, backoff, idle, woken>>
ghost == <<breached, cut>>
watching == <<binding, watcher, alive, began, state, ghost, clock, faults>>
Clear == [by |-> 0, over |-> 0]
Forever == MaxTime + 1

WatchInit ==
  /\ bound = 1 /\ enabled = TRUE /\ phase = "off" /\ under = 0
  /\ alive = {} /\ began = <<>>
  /\ active = 0 /\ paused = Clear /\ halted = Clear /\ backoff = 0 /\ idle = 0 /\ woken = <<>>
  /\ breached = {} /\ cut = {} /\ clock = 0 /\ faults = 0

Fault == faults < MaxFaults /\ faults' = faults + 1
Current == enabled /\ under = bound
Goes(to) == phase' = to /\ UNCHANGED under

(* around the watcher *)
Tick == clock < MaxTime /\ clock' = clock + 1 /\ UNCHANGED <<binding, watcher, alive, began, state, ghost, faults>>
Bind ==
  /\ bound < MaxBindings /\ bound' = bound + 1 /\ enabled' = TRUE
  /\ UNCHANGED <<watcher, alive, began, state, ghost, clock, faults>>
Unbind ==
  /\ enabled /\ Fault /\ enabled' = FALSE
  /\ UNCHANGED <<bound, watcher, alive, began, state, ghost, clock>>
Start ==
  /\ phase = "off" /\ enabled /\ under' = bound
  /\ phase' = IF active = 0 THEN "start" ELSE "orphan"
  /\ UNCHANGED <<binding, alive, began, state, ghost, clock, faults>>
Dies ==
  /\ phase # "off" /\ Fault /\ Goes("off")
  /\ UNCHANGED <<binding, alive, began, state, ghost, clock>>
OrphanEnds ==
  /\ \E r \in alive : (phase = "run" => r # active) /\ alive' = alive \ {r}
  /\ UNCHANGED <<binding, watcher, began, state, ghost, clock, faults>>

\* runAlive: what has the run's process id can't always be told.
Past == clock >= began[active] + Overdue
Checked == halted.over = active /\ halted.by # 0 /\ halted.by # under
\* The run is over, or the operator bound again after the halt over it.
OrphanOver ==
  /\ phase = "orphan" /\ Goes("start")
  /\ \/ active \notin alive /\ UNCHANGED <<faults, cut>>
     \/ Checked /\ Fault /\ cut' = cut \cup {active}
  /\ UNCHANGED <<binding, alive, began, state, breached, clock>>
\* The wait is cut short, and the run left to itself (one past its time only
\* when it can't be told): what is saved next forgets it.
OrphanLeft ==
  /\ phase = "orphan" /\ ~Current /\ Goes("start") /\ cut' = cut \cup {active}
  /\ IF Past THEN Fault ELSE UNCHANGED faults
  /\ UNCHANGED <<binding, alive, began, state, breached, clock>>
\* killRun tries to; the watcher goes on either way.
OrphanKilled ==
  /\ phase = "orphan" /\ Past /\ active \in alive /\ Goes("start")
  /\ \/ alive' = alive \ {active} /\ UNCHANGED <<cut, faults>>
     \/ Fault /\ cut' = cut \cup {active} /\ UNCHANGED alive
  /\ UNCHANGED <<binding, began, state, breached, clock>>
OrphanUnknown ==
  /\ phase = "orphan" /\ Current /\ Past /\ ~Checked /\ Fault /\ Goes("halts")
  /\ halted' = [by |-> under, over |-> active]
  /\ UNCHANGED <<binding, alive, began, active, paused, backoff, idle, woken, ghost, clock>>

\* Starting again ends a pause, but neither a hard one nor a halt of the same
\* binding.  (paused.by: of a hard pause, its generation.)
KeptNever(h) == FALSE \* mutant
Kept(h) == h.by # 0 /\ h.by = under
Begin ==
  /\ phase \in {"start", "halts"} /\ Goes("loop")
  /\ active' = IF phase = "halts" THEN active ELSE 0
  /\ paused' = IF Kept(paused) THEN paused ELSE Clear
  /\ backoff' = IF Kept(paused) THEN backoff ELSE 0
  /\ halted' = IF Kept(halted) THEN halted ELSE Clear
  /\ idle' = 0 /\ UNCHANGED <<binding, alive, began, woken, ghost, clock, faults>>
Stops ==
  /\ phase = "loop" /\ ~Current /\ Goes("off")
  /\ UNCHANGED <<binding, alive, began, state, ghost, clock, faults>>

\* Wakes of the hour; written down before the run is started.
RecentHere == IF idle = 0 THEN <<>> ELSE woken \* mutant
Recent == SelectSeq(woken, LAMBDA at : at > clock - Hour)
Ready == phase = "loop" /\ Current /\ halted = Clear /\ clock >= backoff
Counted == Ready /\ Len(Recent) < MaxWakes /\ Len(began) < MaxRuns /\ woken' = Append(Recent, clock)
Spawned == began' = Append(began, clock) /\ alive' = alive \cup {Len(began')}
Wake ==
  /\ Counted /\ Spawned /\ active' = Len(began') /\ Goes("run")
  /\ UNCHANGED <<binding, paused, halted, backoff, idle, ghost, clock, faults>>
\* It ends before it wrote the run down, or before it started one.
DiesWaking ==
  /\ Counted /\ Fault /\ Goes("off")
  /\ \/ Spawned /\ cut' = cut \cup {Len(began')}
     \/ UNCHANGED <<alive, began, cut>>
  /\ UNCHANGED <<binding, active, paused, halted, backoff, idle, breached, clock>>

\* The run is gone, but one that outlived being stopped after its time: the
\* watcher goes on without it.
Gone == alive' = alive \ {active} /\ UNCHANGED faults
Outlives == Fault /\ UNCHANGED alive
\* How the run ended.  Of a binding that is not the current one it changes
\* nothing.
Fenced == phase = "run" /\ ~Current
Settled(how, p, h, b, i) ==
  /\ phase = "run" /\ Current /\ Goes("loop") /\ active' = 0
  /\ \/ Gone /\ UNCHANGED cut
     \/ Outlives /\ cut' = cut \cup {active}
  /\ paused' = p /\ halted' = h /\ backoff' = b /\ idle' = i
  /\ breached' = IF how = "hold" THEN breached \cup {under} ELSE breached
  /\ UNCHANGED <<binding, began, woken, clock>>
Busy == Settled("busy", paused, halted, clock + Backoff, idle)
Breach == Settled("hold", [by |-> under, over |-> 0], halted, Forever, 0)
Broken == Settled("hold", paused, [by |-> under, over |-> 0], backoff, idle)
Handled == Settled("handled", Clear, halted, 0, 0)
Unhandled == Settled("nothing", paused, halted,
                   clock + (IF idle + 1 >= MaxIdle THEN Retry ELSE Backoff), idle + 1)
Outdated ==
  /\ Fenced /\ Goes("off") /\ (Gone \/ Outlives)
  /\ UNCHANGED <<binding, began, state, ghost, clock>>

WatchNext ==
  \/ Tick \/ Bind \/ Unbind \/ Start \/ Dies \/ OrphanEnds
  \/ OrphanOver \/ OrphanLeft \/ OrphanKilled \/ OrphanUnknown \/ Begin \/ Stops
  \/ Wake \/ DiesWaking \/ Busy \/ Breach \/ Broken \/ Handled \/ Unhandled \/ Outdated

-----------------------------------------------------------------------------
Wakes == Len(began') > Len(began)
\* A binding whose wake broke its confinement, met an approval or found the
\* session's ownership broken never wakes again, however often its watcher is
\* started: only binding again ends it.
HoldsHold == [][Wakes => under \notin breached]_watching
\* No wake is started beside a run that goes on, but one the watchers lost hold
\* of: the operator took it for checked, the wait for it was cut short, it
\* outlived being stopped, or its watcher ended before writing it down.
NeverBeside == [][Wakes => alive \subseteq cut]_watching
\* In no hour are there more wakes than the limit, through restarts.
Capped == \A i \in 1..Len(began) : i > MaxWakes => began[i] - began[i - MaxWakes] >= Hour
=============================================================================
