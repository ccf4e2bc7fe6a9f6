------------------------------ MODULE MCAgents ------------------------------
(***************************************************************************)
(* The instances that are checked of what goes on on an agent's machine:   *)
(* the supervisor with the commands beside it, the turns of a harness      *)
(* session's rooms, and changes on their way into a room.  These share no  *)
(* state, so a behaviour runs one of them and leaves the others at their   *)
(* start.                                                                  *)
(***************************************************************************)
EXTENDS Naturals
CONSTANTS
  MaxStarts, MaxUses, MaxTrouble,
  r1, r2, r3, SessionRoom, MaxRefusals, MaxMishaps,
  d1, x1, t1, m1, Request, Decisions, Reacting, Speaking, Caller, NoItem, MaxCalls, MaxHarms
\* A request asks for one kind of change.
ASSUME KindsAssumption == Decisions \cap Reacting = {} /\ Decisions \cap Speaking = {}
\* No room has the name that stands for none.
ASSUME RoomsAssumption == "none" \notin SessionRoom

VARIABLES
  part,
  room, uses, trouble, starts, stamp, stopped, closed, retired, binding, heard,
  repaired, runners, stuck, runnerPid, watchers, watchPid, daemon, job, quiet,
  work, line, asking, running, owned, halted, turn, runs, adrift, strays, backoff,
  refusals, mishaps,
  outbox, log, spent, dropped, signed, held, runner, item, call, calls, harms

Sup == INSTANCE Supervisor
Ses == INSTANCE Session
Out == INSTANCE Outbox

supervisor == <<room, uses, trouble, starts, stamp, stopped, closed, retired, binding, heard,
                repaired, runners, stuck, runnerPid, watchers, watchPid, daemon, job, quiet>>
session == <<work, line, asking, running, owned, halted, turn, runs, adrift, strays,
             backoff, refusals, mishaps>>
changing == <<outbox, log, spent, dropped, signed, held, runner, item, call, calls, harms>>
all == <<part, supervisor, session, changing>>

Supervised(A) == part = "supervisor" /\ A /\ UNCHANGED <<part, session, changing>>
Taken(A) == part = "session" /\ A /\ UNCHANGED <<part, supervisor, changing>>
Changed(A) == part = "outbox" /\ A /\ UNCHANGED <<part, supervisor, session>>

AgentsInit ==
  /\ part \in {"supervisor", "session", "outbox"}
  /\ Sup!Init /\ Ses!SessionInit /\ Out!Init

AgentsNext ==
  Supervised(Sup!Next) \/ Taken(Ses!SessionNext) \/ Changed(Out!Next)

\* Only one part's steps are ever enabled in a behaviour, so fairness of a
\* disjunction with a step of each part is fairness of each of these steps.
Some(u, s, o) == Supervised(u) \/ Taken(s) \/ Changed(o)
AgentsSpec ==
  /\ AgentsInit /\ [][AgentsNext]_all
  /\ WF_all(Some(Sup!DaemonStep, Ses!TryAgain, Out!Remove))
  /\ WF_all(Some(Sup!WatcherStep, Ses!ClearHalt, Out!Stop))
  /\ WF_all(Some(Sup!UseStep, Ses!TimesOut, Out!Start))
  /\ WF_all(Some(Sup!StopStep, Ses!WatcherStep(r1), Out!DeliverDecision(d1)))
  /\ WF_all(Some(Sup!Poll, Ses!WatcherStep(r2), Out!DeliverReaction(x1)))
  /\ WF_all(Some(Sup!BackoffOver, Ses!WatcherStep(r3), Out!DeliverTask(t1)))
  /\ WF_all(Some(FALSE, Ses!Ends(r1), Out!DeliverMessage(m1)))
  /\ WF_all(Taken(Ses!Ends(r2))) /\ WF_all(Taken(Ses!Ends(r3)))
  /\ \A r \in SessionRoom : WF_all(Taken(Ses!OrphanEnds(r)))

\* A room has one runner and one watcher, and what `stop` stopped stays so; one
\* wake runs in a session, but for those it lost hold of; and no change is signed
\* twice.
DoneOnce ==
  /\ Sup!AtMostOne /\ Sup!StaysStopped /\ Ses!OneWake
  /\ part = "outbox" => Out!SignedOnce
\* A wanted room gets its runner and its watcher back.
KeptRunning == part = "supervisor" => Sup!KeptRunning
\* A busy room of a session does not starve the others: each is woken.
EveryRoomWakes == part = "session" => Ses!EveryRoomWakes
\* Queued changes leave the outbox, and none is called dropped that was made.
ChangesSettle == Out!DropsAreTrue /\ (part = "outbox" => Out!OutboxDrains)
=============================================================================
