------------------------------- MODULE Outbox --------------------------------
(***************************************************************************)
(* How an agent's changes get into its room (src/server/browser-agent.ts): *)
(* its commands queue a change as a file in the outbox and wait for what   *)
(* becomes of it; the runner signs and stores what is queued and then      *)
(* removes the file.  A request id makes retries safe.  The two sides are  *)
(* processes of their own that share files only: each step below reads or  *)
(* writes one of them.                                                     *)
(* Whether a change may be made and still applies is left open, and so is  *)
(* the order in which a pass takes the files; a reaction log that is full  *)
(* is left out.                                                            *)
(***************************************************************************)
EXTENDS Naturals

CONSTANTS
  Request,                          \* request ids
  Decisions, Reacting, Speaking,    \* what some ask for; the rest change tasks
  Caller,                           \* processes running a command
  NoItem,
  MaxCalls, MaxHarms    \* commands; crashes, and steps that hang
Tasks == Request \ (Decisions \cup Reacting \cup Speaking)

VARIABLES
  outbox,     \* how many queued files carry each id
  log,        \* changes this device holds
  spent,      \* decisions-done.json
  dropped,    \* changes compaction or the history window took out of the log
  signed,     \* how often each was signed
  held,       \* the message the reactions are on has arrived
  runner,     \* down, up, or hung in a step that never finishes
  item,       \* whose file the runner is about to remove
  call,       \* what each caller asked for, and how far it is
  calls, harms

vars == <<outbox, log, spent, dropped, signed, held, runner, item, call, calls, harms>>
running == <<runner, item, harms>>
calling == <<call, calls>>

TypeOK ==
  /\ outbox \in [Request -> Nat] /\ signed \in [Request -> Nat]
  /\ log \cup spent \cup dropped \subseteq Request
  /\ held \in BOOLEAN /\ runner \in {"down", "up", "hung"}
  /\ item \in Request \cup {NoItem}
  /\ call \in [Caller -> [id : Request \cup {NoItem},
                          at : {"idle", "new", "waits", "there", "gone",
                                "shared", "superseded", "dropped", "queued"}]]

Init ==
  /\ outbox = [r \in Request |-> 0] /\ signed = outbox
  /\ log = {} /\ spent = {} /\ dropped = {} /\ held = FALSE
  /\ runner = "up" /\ item = NoItem
  /\ call = [c \in Caller |-> [id |-> NoItem, at |-> "idle"]]
  /\ calls = 0 /\ harms = 0

-----------------------------------------------------------------------------
(* The runner: deliverOutbox.                                                *)

InLog(r) == r \in log \* mutant: what compaction dropped is not remembered
\* Only decision changes are remembered once they have left the log.
Made(r) == r \in log \/ (r \in Decisions /\ r \in spent)
Takes(r) == runner = "up" /\ item = NoItem /\ outbox[r] > 0 /\ item' = r
Signs(r) == log' = log \cup {r} /\ signed' = [signed EXCEPT ![r] = @ + 1]
Leaves == UNCHANGED <<log, signed>>
Rest == UNCHANGED <<outbox, spent, dropped, held, runner, harms, calling>>

\* What the room's rules do not allow is removed (outboxProblem).
Refuse(r) == Takes(r) /\ Leaves /\ Rest
\* A change is signed unless it was made before, nothing is left to change, or
\* it is over a limit.
DeliverDecision(r) == r \in Decisions /\ Takes(r) /\ ((~Made(r) /\ Signs(r)) \/ Leaves) /\ Rest
DeliverTask(r) == r \in Tasks /\ Takes(r) /\ ((r \notin log /\ Signs(r)) \/ Leaves) /\ Rest
DeliverMessage(r) == r \in Speaking /\ Takes(r) /\ ((r \notin log /\ Signs(r)) \/ Leaves) /\ Rest
\* A reaction waits for its message.
DeliverReaction(r) ==
  /\ r \in Reacting /\ Takes(r) /\ (r \in log \/ held)
  /\ (r \notin log /\ Signs(r)) \/ Leaves
  /\ Rest

Remove ==
  /\ item # NoItem /\ item' = NoItem
  /\ outbox' = [outbox EXCEPT ![item] = @ - 1]
  /\ UNCHANGED <<log, spent, dropped, signed, held, runner, harms, calling>>

\* Compaction of decisions names what it is about to drop, then drops it.
Spend(r) ==
  /\ runner = "up" /\ r \in (log \cap Decisions) \ spent
  /\ spent' = spent \cup {r}
  /\ UNCHANGED <<outbox, log, dropped, signed, held, running, calling>>
Drop(r) ==
  /\ runner = "up" /\ r \in log /\ (r \in Decisions => r \in spent)
  /\ log' = log \ {r} /\ dropped' = dropped \cup {r}
  /\ UNCHANGED <<outbox, spent, signed, held, running, calling>>

\* The message reactions are on arrives, or leaves the history window.
MessageKept ==
  /\ runner = "up" /\ held' = ~held
  /\ UNCHANGED <<outbox, log, spent, dropped, signed, running, calling>>

\* A step that never finishes holds all serialized work behind it, until the
\* loop finds it wedged and the process ends.
Hang ==
  /\ runner = "up" /\ item = NoItem /\ harms < MaxHarms /\ harms' = harms + 1
  /\ runner' = "hung"
  /\ UNCHANGED <<outbox, log, spent, dropped, signed, held, item, calling>>
NeverWedged == FALSE \* mutant
Wedged == runner = "hung"
Stop ==
  /\ Wedged /\ runner' = "down"
  /\ UNCHANGED <<outbox, log, spent, dropped, signed, held, item, harms, calling>>
Crash ==
  /\ runner # "down" /\ harms < MaxHarms /\ harms' = harms + 1
  /\ runner' = "down" /\ item' = NoItem
  /\ UNCHANGED <<outbox, log, spent, dropped, signed, held, calling>>
Start ==
  /\ runner = "down" /\ runner' = "up"
  /\ UNCHANGED <<outbox, log, spent, dropped, signed, held, item, harms, calling>>

-----------------------------------------------------------------------------
(* The commands: taskBrowser, reactBrowser, decisionBrowser, sendBrowser.    *)

files == <<outbox, log, spent, dropped, signed, held>>
At(c, a) == call' = [call EXCEPT ![c].at = a]

Asks(c, r, at) ==
  /\ call[c].at = "idle" /\ calls < MaxCalls /\ calls' = calls + 1
  /\ call' = [call EXCEPT ![c] = [id |-> r, at |-> at]]
  /\ UNCHANGED <<files, running>>
\* A change that was made is not queued again.
IfNew(r) == IF r \in log THEN "waits" ELSE "new"
Send(c, r) == r \in Speaking /\ Asks(c, r, IfNew(r))
ChangeTask(c, r) == r \in Tasks /\ Asks(c, r, IfNew(r))
React(c, r) == r \in Reacting /\ held /\ Asks(c, r, IfNew(r))
Decide(c, r) ==
  r \in Decisions /\ Asks(c, r, IF Made(r) /\ r \notin log THEN "superseded" ELSE IfNew(r))
Queue(c) ==
  /\ call[c].at = "new" /\ At(c, "waits")
  /\ outbox' = [outbox EXCEPT ![call[c].id] = @ + 1]
  /\ UNCHANGED <<log, spent, dropped, signed, held, running, calls>>

\* The outbox is looked at before the log: the runner stores a change before
\* it removes the file.
Look(c) ==
  /\ call[c].at = "waits" /\ call[c].id \notin Speaking
  /\ At(c, IF outbox[call[c].id] > 0 THEN "there" ELSE "gone")
  /\ UNCHANGED <<files, running, calls>>
Finds(c, gone) ==
  /\ At(c, CASE call[c].id \in log -> "shared"
             [] call[c].id \notin log /\ call[c].at = "there" -> "waits"
             [] OTHER -> gone)
  /\ UNCHANGED <<files, running, calls>>
\* A message's command looks at the log only.
FindMessage(c) ==
  call[c].at = "waits" /\ call[c].id \in Speaking \cap log /\ Finds(c, "shared")
FindTask(c) == call[c].at \in {"there", "gone"} /\ call[c].id \in Tasks /\ Finds(c, "dropped")
FindReaction(c) == call[c].at \in {"there", "gone"} /\ call[c].id \in Reacting /\ Finds(c, "dropped")
NeverSuperseded(r) == FALSE \* mutant
Superseded(r) == r \in spent
FindDecision(c) ==
  /\ call[c].at \in {"there", "gone"} /\ call[c].id \in Decisions
  /\ Finds(c, IF Superseded(call[c].id) THEN "superseded" ELSE "dropped")
GiveUp(c) ==
  /\ call[c].at = "waits" /\ At(c, "queued")
  /\ UNCHANGED <<files, running, calls>>
\* The agent may ask again, with the same id or another, or its command ends.
Return(c) ==
  /\ call[c].at # "idle" /\ call' = [call EXCEPT ![c] = [id |-> NoItem, at |-> "idle"]]
  /\ UNCHANGED <<files, running, calls>>

Delivers(r) ==
  Refuse(r) \/ DeliverDecision(r) \/ DeliverTask(r) \/ DeliverMessage(r) \/ DeliverReaction(r)
Next ==
  \/ Remove \/ MessageKept \/ Hang \/ Stop \/ Crash \/ Start
  \/ \E r \in Request : Delivers(r) \/ Spend(r) \/ Drop(r)
  \/ \E c \in Caller :
       \/ \E r \in Request : Send(c, r) \/ ChangeTask(c, r) \/ React(c, r) \/ Decide(c, r)
       \/ Queue(c) \/ Look(c) \/ GiveUp(c) \/ Return(c)
       \/ FindMessage(c) \/ FindTask(c) \/ FindReaction(c) \/ FindDecision(c)

Spec ==
  /\ Init /\ [][Next]_vars
  /\ WF_vars(Remove) /\ WF_vars(Stop) /\ WF_vars(Start)
  /\ \A r \in Request :
       WF_vars(DeliverDecision(r) \/ DeliverTask(r) \/ DeliverMessage(r) \/ DeliverReaction(r))

-----------------------------------------------------------------------------
\* A retry never signs a change again (docs/flows/decisions.md), whoever
\* crashed in between; of the other kinds, while the log still holds it.
SignedOnce == \A r \in Request : signed[r] > 1 => r \in dropped \ Decisions

\* A command says a change was dropped only of one that was never made, as far
\* as anyone remembers.
DropsAreTrue ==
  [][\A c \in Caller : (call[c].at # "dropped" /\ call'[c].at = "dropped")
       => LET r == call[c].id IN signed[r] = 0 \/ r \in dropped \ Decisions]_vars

\* Again and again nothing is queued, but what waits for a message.
OutboxDrains ==
  []<>(\A r \in Request : outbox[r] = 0 \/ (r \in Reacting /\ ~held))
=============================================================================
