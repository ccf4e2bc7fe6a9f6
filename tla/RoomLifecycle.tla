--------------------------- MODULE RoomLifecycle ---------------------------
(***************************************************************************)
(* The life of rooms on the room service: created, used, deleted by their  *)
(* host, retired by the operator, or swept when no admitted device used    *)
(* them for the idle period (lobby.ts, store.ts, rooms.ts).  The service   *)
(* stops, crashes and starts again; time it is down is not idle time.      *)
(*                                                                         *)
(* A time stored is modelled by its age, so nothing bounds how long the    *)
(* service is watched.                                                     *)
(***************************************************************************)
EXTENDS Integers, FiniteSets

CONSTANTS
  Room,
  Idle,      \* idleMs
  Throttle,  \* how long a use after a written one is not written
  Hour,      \* the service sweeps, and so records a heartbeat, this often
  MaxDown,   \* bound on a downtime
  MaxStops   \* bound on stops and crashes

ASSUME TimesAssumption ==
  /\ {Idle, Throttle, Hour} \subseteq Nat \ {0}
  /\ Throttle <= Idle
  /\ MaxDown \in Nat /\ MaxStops \in Nat

VARIABLES
  rooms, closed,  \* tables rooms and closed_rooms: why each room is gone
  activity,       \* room_activity: age of each row, or None
  heartbeat,      \* age of the service's last heartbeat
  phase,          \* the service process
  idle,           \* rooms the sweep under way has still to remove
  active,         \* memory: age of the activity last written, or None
  expires,        \* time left until the `expiresAt` last shown to a member
  unused,         \* time the service was up since a member used the room
  stops

vars == <<rooms, closed, activity, heartbeat, phase, idle, active, expires, unused, stops>>

None == -1
\* Ages that are all the same to the service: idle, whatever the downtime.
Cap == Idle + Hour + MaxDown + 1
Age == {None} \cup 0..Cap

TypeOK ==
  /\ rooms \subseteq Room /\ idle \subseteq Room
  /\ closed \in [Room -> {"no", "closed", "expired", "retired"}]
  /\ activity \in [Room -> Age] /\ active \in [Room -> Age]
  /\ heartbeat \in {None} \cup 0..(Hour + MaxDown)
  /\ phase \in {"down", "due", "sweeping", "serving"}
  /\ expires \in [Room -> {None} \cup 0..Idle]
  /\ unused \in [Room -> 0..Cap]
  /\ stops \in 0..MaxStops

\* A database from before activity was recorded may hold rooms already.
Init ==
  /\ rooms \in SUBSET Room
  /\ closed = [r \in Room |-> "no"]
  /\ activity = [r \in Room |-> None] /\ active = activity
  /\ heartbeat = None
  /\ phase = "down" /\ idle = {}
  /\ expires = activity /\ unused = [r \in Room |-> 0]
  /\ stops = 0

(***************************************************************************)
(* Members and hosts.                                                      *)
(***************************************************************************)

\* touch: the use is written unless one was lately.
Writes(r) == active[r] = None \/ active[r] >= Throttle
Touch(r) ==
  /\ activity' = IF Writes(r) THEN [activity EXCEPT ![r] = 0] ELSE activity
  /\ active' = IF Writes(r) THEN [active EXCEPT ![r] = 0] ELSE active
  /\ unused' = [unused EXCEPT ![r] = 0]

Exists(r) == r \in rooms
Taken(r) == r \in rooms \/ closed[r] # "no"

Create(r) ==
  /\ phase = "serving" /\ ~ Taken(r)
  /\ rooms' = rooms \cup {r}
  /\ Touch(r)
  /\ UNCHANGED <<closed, heartbeat, phase, idle, expires, stops>>

\* mutant: the use a refused command recorded is remembered
RefusedRemembered(r) ==
  /\ active' = IF Writes(r) THEN [active EXCEPT ![r] = 0] ELSE active
  /\ UNCHANGED <<activity, unused>>
\* A command of a device not admitted, or one that is refused and rolled back.
Refused(r) == UNCHANGED <<activity, active, unused>>

\* A command about a room.
Command(r) ==
  /\ phase = "serving" /\ Exists(r)
  /\ Touch(r) \/ Refused(r)
  /\ UNCHANGED <<rooms, closed, heartbeat, phase, idle, expires, stops>>

\* mutant: the date shown is counted from now
StatusFromNow(r) ==
  /\ phase = "serving" /\ Exists(r)
  /\ Touch(r)
  /\ expires' = [expires EXCEPT ![r] = Idle]
  /\ UNCHANGED <<rooms, closed, heartbeat, phase, idle, stops>>

\* A status poll of a member: it opens the room, and is told until when.
Status(r) ==
  /\ phase = "serving" /\ Exists(r)
  /\ Touch(r)
  /\ expires' = [expires EXCEPT ![r] = Idle - active'[r]]
  /\ UNCHANGED <<rooms, closed, heartbeat, phase, idle, stops>>

\* retireRoom: the room and its activity go, the reason stays.
Remove(r, why) ==
  /\ rooms' = rooms \ {r}
  /\ closed' = [closed EXCEPT ![r] = why]
  /\ activity' = [activity EXCEPT ![r] = None]

Forget(r) == active' = [active EXCEPT ![r] = None]

Close(r) ==
  /\ phase = "serving" /\ Exists(r)
  /\ Remove(r, "closed") /\ Forget(r)
  /\ UNCHANGED <<heartbeat, phase, idle, expires, unused, stops>>

\* The operator's command, in a process of its own, whatever the service does.
Retire(r) ==
  /\ Exists(r)
  /\ Remove(r, "retired")
  /\ UNCHANGED <<heartbeat, phase, idle, active, expires, unused, stops>>

(***************************************************************************)
(* The sweep: at start, before anything is served, and then hourly.        *)
(***************************************************************************)

Due ==
  /\ phase = "serving" /\ heartbeat >= Hour
  /\ phase' = "due"
  /\ UNCHANGED <<rooms, closed, activity, heartbeat, idle, active, expires, unused, stops>>

\* mutant: a room the process has seen in use is taken for used
SweepUnseen ==
  /\ phase = "due" /\ phase' = "sweeping"
  /\ heartbeat' = 0
  /\ idle' = {r \in Room : activity[r] > Idle /\ active[r] = None}
  /\ UNCHANGED <<rooms, closed, activity, active, expires, unused, stops>>
Sweep ==
  /\ phase = "due" /\ phase' = "sweeping"
  /\ heartbeat' = 0
  /\ idle' = {r \in Room : activity[r] > Idle}
  /\ UNCHANGED <<rooms, closed, activity, active, expires, unused, stops>>

\* mutant: the row goes, whoever removed the room
ExpireAnyway(r) ==
  /\ phase = "sweeping" /\ r \in idle /\ idle' = idle \ {r}
  /\ Remove(r, "expired") /\ Forget(r)
  /\ UNCHANGED <<heartbeat, phase, expires, unused, stops>>

\* One room of those found idle; the operator may have retired it since.
Expire(r) ==
  /\ phase = "sweeping" /\ r \in idle /\ idle' = idle \ {r}
  /\ IF Exists(r) THEN Remove(r, "expired") /\ Forget(r)
     ELSE UNCHANGED <<rooms, closed, activity, active>>
  /\ UNCHANGED <<heartbeat, phase, expires, unused, stops>>

Swept ==
  /\ phase = "sweeping" /\ idle = {}
  /\ phase' = "serving"
  /\ activity' = [r \in Room |-> IF r \in rooms THEN activity[r] ELSE None]
  /\ UNCHANGED <<rooms, closed, heartbeat, idle, active, expires, unused, stops>>

(***************************************************************************)
(* The process.                                                            *)
(***************************************************************************)

\* openAdmission: rooms without a row get one.
Opened(r) == IF r \in rooms /\ activity[r] = None THEN 0 ELSE activity[r]
\* mutant: downtime counts as idle time
AsStored(r) == Opened(r)
\* mutant: it may move past now
MovedPastNow(r) ==
  IF Opened(r) = None \/ heartbeat = None THEN Opened(r) ELSE Opened(r) - heartbeat
\* resume: moved forward by the downtime, never past now.
Resumed(r) ==
  IF Opened(r) = None \/ heartbeat = None THEN Opened(r)
  ELSE IF Opened(r) > heartbeat THEN Opened(r) - heartbeat ELSE 0

Start ==
  /\ phase = "down" /\ phase' = "due"
  /\ activity' = [r \in Room |-> Resumed(r)]
  /\ heartbeat' = 0
  /\ active' = [r \in Room |-> None]
  /\ UNCHANGED <<rooms, closed, idle, expires, unused, stops>>

Ends ==
  /\ stops < MaxStops /\ stops' = stops + 1
  /\ phase' = "down" /\ idle' = {}
  /\ active' = [r \in Room |-> None]
  /\ UNCHANGED <<rooms, closed, activity, expires, unused>>

Stop == phase = "serving" /\ heartbeat' = 0 /\ Ends
Crash == phase # "down" /\ UNCHANGED heartbeat /\ Ends

Older(age) == IF age \in {None, Cap} THEN age ELSE age + 1
Lasts(t) == IF t = None THEN None ELSE t - 1

\* Time passes while the service serves or is down.
Tick ==
  /\ \/ phase = "serving" /\ heartbeat < Hour
     \/ phase = "down" /\ heartbeat \in 0..(Hour + MaxDown - 1)
  /\ activity' = [r \in Room |-> Older(activity[r])]
  /\ active' = [r \in Room |-> Older(active[r])]
  /\ heartbeat' = heartbeat + 1
  /\ expires' = [r \in Room |-> Lasts(expires[r])]
  /\ unused' = IF phase = "down" THEN unused ELSE [r \in Room |-> Older(unused[r])]
  /\ UNCHANGED <<rooms, closed, phase, idle, stops>>

Next ==
  \/ \E r \in Room : Create(r) \/ Command(r) \/ Status(r) \/ Close(r) \/ Retire(r) \/ Expire(r)
  \/ Due \/ Sweep \/ Swept \/ Start \/ Stop \/ Crash \/ Tick

Spec == Init /\ [][Next]_vars

\* Time passes, the timer fires, a sweep finishes, a service that ended is
\* started again.
FairSpec ==
  /\ Spec
  /\ WF_vars(Tick) /\ WF_vars(Due) /\ WF_vars(Sweep) /\ WF_vars(Swept) /\ WF_vars(Start)
  /\ \A r \in Room : WF_vars(Expire(r))

(***************************************************************************)
(* Properties.                                                             *)
(***************************************************************************)

\* docs/browser-rooms.md: a removed room's id is remembered for good, with
\* what became of it, and nobody creates a room under an old link.
ClosedForGood ==
  [][\A r \in Room : closed[r] # "no" => closed'[r] = closed[r] /\ r \notin rooms']_vars

\* No room is swept before the date its members were last shown, whatever was
\* written, rolled back or moved since.
PromiseKept ==
  [][\A r \in Room : (Exists(r) /\ closed'[r] = "expired") => expires[r] = None]_vars

\* A room is swept only after Idle of service time without a member, less
\* what the throttle leaves unwritten: downtime, clean or not, never counts.
OnlyIdleSwept ==
  [][\A r \in Room : (Exists(r) /\ closed'[r] = "expired") => unused[r] > Idle - Throttle]_vars

\* What memory holds of a room's activity is in the database, or something
\* newer is, so a use not written again is never lost.
CacheBehind ==
  \A r \in rooms : active[r] # None => activity[r] \in 0..active[r]

\* A room's activity is known well enough to sweep by.
ActivityKnown == TypeOK /\ CacheBehind
\* A room is swept only when it has been idle for long, and when its members
\* were told.
SweptByRight == PromiseKept /\ OnlyIdleSwept

\* A room no member uses any more is removed, however often strangers knock.
IdleRoomsGo == \A r \in Room : []<>(~ Exists(r) \/ unused[r] = 0)
=============================================================================
