------------------------------- MODULE Session -------------------------------
(***************************************************************************)
(* One harness session shared by several rooms: the ledger their watchers  *)
(* change under its lock, one room's wake at a time                        *)
(* (sessionLedger in src/server/agent-watch.ts), and the part of each      *)
(* watcher's loop that asks for the session, wakes it and gives it back.   *)
(* Each change of the ledger is one step, as its lock makes it.            *)
(***************************************************************************)
EXTENDS Naturals, FiniteSets, SequencesExt
CONSTANTS
  SessionRoom,
  MaxRefusals,   \* wakes refused, or reporting broken ownership records
  MaxMishaps     \* watchers that die or are slow, ledgers that cannot be changed

VARIABLES
  work,      \* rooms with something to wake for
  line,      \* the rooms in `pending`, by `since`
  asking,    \* those whose watcher asked within freshMs
  running,   \* the wake in progress: its room, whether its run is recorded, and
             \* whether the watcher that took the turn is gone
  owned,     \* the session is taken for held elsewhere
  halted,
  turn,      \* what each room's watcher does
  runs,      \* rooms with a wake whose process lives, and is waited for
  adrift,    \* those of them the ledger lost hold of while they ran
  strays,    \* rooms with a process that lives on though nobody waits for it
  backoff,   \* rooms that try again later
  refusals, mishaps

processes == <<runs, adrift, strays>>
session == <<work, line, asking, running, owned, halted, turn, processes, backoff, refusals, mishaps>>
ledger == <<line, asking, running, owned, halted>>

NoWake == [room |-> "none", recorded |-> FALSE, orphan |-> FALSE]

SessionInit ==
  /\ work = {} /\ line = <<>> /\ asking = {} /\ running = NoWake
  /\ owned = FALSE /\ halted = FALSE
  /\ turn = [r \in SessionRoom |-> "watch"] /\ backoff = {}
  /\ runs = {} /\ adrift = {} /\ strays = {}
  /\ refusals = 0 /\ mishaps = 0

Mishap == mishaps < MaxMishaps /\ mishaps' = mishaps + 1
Leave(r) == /\ line' = SelectSeq(line, LAMBDA s : s # r)
            /\ asking' = asking \ {r}
Does(r, t) == turn' = [turn EXCEPT ![r] = t]
Holds(r) == running.room = r /\ ~running.orphan
\* A wake's process is gone, and no longer waited for.
Over(r) == runs' = runs \ {r} /\ adrift' = adrift \ {r}

\* Work comes in at any time, also while the room's own wake runs.
Arrives(r) ==
  /\ r \notin work /\ work' = work \cup {r}
  /\ UNCHANGED <<ledger, turn, processes, backoff, refusals, mishaps>>

\* standBy: no work, or not before its backoff ends: it leaves the line.
StandBy(r) ==
  /\ turn[r] = "watch" /\ (r \notin work \/ r \in backoff) /\ Contains(line, r)
  /\ Leave(r)
  /\ UNCHANGED <<work, running, owned, halted, turn, processes, backoff, refusals, mishaps>>

\* mutant: a room that asks is put first
AsksFirst(r, l) == IF Contains(l, r) THEN l ELSE <<r>> \o l
\* It joins the line once.
Asks(r, l) == IF Contains(l, r) THEN l ELSE Append(l, r)
First(r, l, fresh) == SelectSeq(l, LAMBDA s : s \in fresh)[1] = r
\* mutant: a wake in progress is not looked at
FreeAnyway(r) == ~owned
\* Nothing runs, but for a turn of its own it could not give back.
Free(r) == (running = NoWake \/ Holds(r)) /\ ~owned

\* A room with work asks for the session, and is given it in its turn.
Claim(r) ==
  /\ turn[r] = "watch" /\ r \in work \ backoff /\ ~halted
  /\ LET own == SelectSeq(line, LAMBDA s : ~(s = r /\ Holds(r)))
         joined == Asks(r, own)
         goes == Free(r) /\ First(r, joined, asking \cup {r}) IN
     /\ line' = joined
     /\ asking' = asking \cup {r}
     /\ running' = IF goes THEN [NoWake EXCEPT !.room = r] ELSE IF Holds(r) THEN NoWake ELSE running
     /\ Does(r, IF goes THEN "admitted" ELSE "watch")
  /\ UNCHANGED <<work, owned, halted, processes, backoff, refusals, mishaps>>

\* The wake's process starts, and is recorded, unless the ledger cannot be
\* changed.  A turn that ended before is not looked at again.
Wake(r) ==
  /\ turn[r] = "admitted" /\ Does(r, "wake")
  /\ runs' = runs \cup {r}
  /\ \/ /\ running' = IF Holds(r) THEN [running EXCEPT !.recorded = TRUE] ELSE running
        /\ UNCHANGED mishaps
     \/ Mishap /\ UNCHANGED running
  /\ adrift' = IF Holds(r) THEN adrift ELSE adrift \cup {r}
  /\ UNCHANGED <<work, line, asking, owned, halted, strays, backoff, refusals>>

\* It ends, having read the room: what came in meanwhile is for another one.
Ends(r) ==
  /\ turn[r] = "wake" /\ r \in runs /\ Does(r, "done") /\ Over(r)
  /\ work' = work \ {r}
  /\ UNCHANGED <<ledger, strays, backoff, refusals, mishaps>>
\* It does not stop after its timeout, and is taken for ended half a minute later.
Outlives(r) ==
  /\ turn[r] = "wake" /\ r \in runs /\ Mishap /\ Does(r, "done") /\ Over(r)
  /\ strays' = strays \cup {r}
  /\ UNCHANGED <<work, ledger, backoff, refusals>>
\* The harness refuses it, as held elsewhere or with its records broken.
Refuses(r) ==
  /\ turn[r] = "wake" /\ r \in runs /\ \E why \in {"busy", "broken"} : Does(r, why)
  /\ refusals < MaxRefusals /\ refusals' = refusals + 1
  /\ Over(r)
  /\ UNCHANGED <<work, ledger, strays, backoff, mishaps>>

\* release: the turn ends; a refused room stays where it was in the line.
Release(r) ==
  /\ turn[r] \in {"done", "busy", "broken"} /\ Does(r, "watch")
  /\ IF Holds(r)
     THEN /\ running' = NoWake
          /\ owned' = (turn[r] = "busy")
          /\ halted' = (halted \/ turn[r] = "broken")
          /\ IF turn[r] = "busy" THEN UNCHANGED <<line, asking>> ELSE Leave(r)
     ELSE UNCHANGED ledger
  /\ backoff' = IF turn[r] = "busy" THEN backoff \cup {r} ELSE backoff
  /\ UNCHANGED <<work, processes, refusals, mishaps>>

\* busyRetryMs later the hold and the room's backoff have both ended.
TryAgain ==
  /\ owned \/ backoff # {}
  /\ owned' = FALSE /\ backoff' = {}
  /\ UNCHANGED <<work, line, asking, running, halted, turn, processes, refusals, mishaps>>

\* The operator binds again.
ClearHalt ==
  /\ halted /\ halted' = FALSE /\ owned' = FALSE
  /\ UNCHANGED <<work, line, asking, running, turn, processes, backoff, refusals, mishaps>>

\* A watcher dies: out of the line; its turn lasts while its recorded run does.
Dies(r) ==
  /\ Mishap /\ Does(r, "watch") /\ backoff' = backoff \ {r}
  /\ LET kept == r \in runs /\ running.recorded IN
     /\ running' = IF ~Holds(r) THEN running
                   ELSE IF kept THEN [running EXCEPT !.orphan = TRUE] ELSE NoWake
     /\ adrift' = IF Holds(r) /\ ~kept THEN adrift \cup ({r} \cap runs) ELSE adrift
  /\ Leave(r)
  /\ UNCHANGED <<work, owned, halted, runs, strays, refusals>>
\* It dies once the process runs and before anything says so.
DiesWaking(r) ==
  /\ turn[r] = "admitted" /\ Mishap /\ Does(r, "watch")
  /\ strays' = strays \cup {r}
  /\ running' = IF Holds(r) THEN NoWake ELSE running
  /\ Leave(r)
  /\ UNCHANGED <<work, owned, halted, runs, adrift, backoff, refusals>>
\* The run it left ends; until then, or its time has passed, its next watcher
\* waits for it.
OrphanEnds(r) ==
  /\ r \in runs /\ turn[r] = "watch" /\ Over(r)
  /\ running' = IF running.room = r /\ running.orphan THEN NoWake ELSE running
  /\ UNCHANGED <<work, line, asking, owned, halted, turn, strays, backoff, refusals, mishaps>>
\* killRun only tries, and it is not waited for again.
OrphanLeft(r) ==
  /\ r \in runs /\ turn[r] = "watch" /\ Mishap /\ Over(r)
  /\ strays' = strays \cup {r}
  /\ UNCHANGED <<work, ledger, turn, backoff, refusals>>
StrayEnds(r) ==
  /\ r \in strays /\ strays' = strays \ {r}
  /\ UNCHANGED <<work, ledger, turn, runs, adrift, backoff, refusals, mishaps>>
\* A watcher does not ask for long.
Silent(r) ==
  /\ Mishap /\ r \in asking /\ asking' = asking \ {r}
  /\ UNCHANGED <<work, line, running, owned, halted, turn, processes, backoff, refusals>>
\* The ledger could not be changed: the turn is not given back.
Unreleased(r) ==
  /\ turn[r] \in {"done", "busy", "broken"} /\ Mishap /\ Does(r, "watch")
  /\ UNCHANGED <<work, ledger, processes, backoff, refusals>>
\* Its lease ends, runTimeoutMs and a minute after it was given, whatever runs.
TimesOut ==
  /\ running # NoWake /\ running' = NoWake
  /\ line' = SelectSeq(line, LAMBDA s : s # running.room) /\ asking' = asking \ {running.room}
  /\ adrift' = adrift \cup ({running.room} \cap runs)
  /\ UNCHANGED <<work, owned, halted, turn, runs, strays, backoff, refusals, mishaps>>

WatcherStep(r) == (Claim(r) /\ r \notin runs) \/ Wake(r) \/ Release(r) \/ StandBy(r)
SessionNext ==
  \/ \E r \in SessionRoom :
       \/ WatcherStep(r) \/ Arrives(r) \/ Ends(r) \/ Refuses(r)
       \/ Outlives(r) \/ Dies(r) \/ DiesWaking(r) \/ OrphanEnds(r) \/ OrphanLeft(r)
       \/ StrayEnds(r) \/ Silent(r) \/ Unreleased(r)
  \/ TryAgain \/ ClearHalt \/ TimesOut
SessionSpec == SessionInit /\ [][SessionNext]_session

\* Two wakes never run in one session at once, whichever watchers die, unless
\* all but one of them outlived its lease or being stopped, or its watcher died
\* before the ledger had its run.
OneWake == Cardinality(runs \ adrift) <= 1

\* What src/server/agent-watch.ts:1311 says, and what does not hold (README): at
\* most one wake per session runs at a time across all its rooms.
OneAtATime == Cardinality(runs \cup strays) <= 1

\* A busy room does not starve the others: a room with work is woken.
EveryRoomWakes == \A r \in SessionRoom : r \in work ~> turn[r] = "wake"

\* What docs/flows/agent-room-watching.md:142 says, and what does not hold
\* (README): a room whose wake was refused keeps its place in the line while it
\* waits for the owner.
KeepsPlace == backoff \cap work \subseteq ToSet(line)
=============================================================================
