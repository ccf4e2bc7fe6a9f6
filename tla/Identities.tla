------------------------------ MODULE Identities ------------------------------
(***************************************************************************)
(* A person's agent in one of their rooms, as the daemon keeps it          *)
(* (src/server/agents.ts): put into the room, bound to a new or an         *)
(* existing session, paused and resumed, unbound, deleted.  One such       *)
(* change of an agent at a time; each is several steps, between which the  *)
(* room's watcher may hold its wakes, the daemon notes such a hold in the  *)
(* agent's record, and the daemon may end.  An approved binding's record   *)
(* is written after the change is over, and any record may fail to be      *)
(* written: the agents' file is locked by another process for too long.    *)
(***************************************************************************)
EXTENDS Naturals
CONSTANTS MaxBinds, MaxHolds, MaxFaults, Nothing

VARIABLES
  listed, record,                   \* agents.json: the identity, its bound record
  folder, left, runner,             \* its folder, `stop`, its runner
  binding, hold, watcher,           \* watch.json, the watcher's state, who watches
  change, late,                     \* the change under way; records to be written beside it
  asked,                            \* the hold Resume was last refused for
  standing, torn,                   \* the hold not answered; a record overtaken or lost
  generations, holds, faults

files == <<listed, record>>
room == <<folder, left, runner>>
waking == <<binding, hold, watcher>>
ghosts == <<standing, torn>>
counts == <<generations, holds, faults>>
identities == <<files, room, waking, change, late, asked, ghosts, counts>>

IdentitiesInit ==
  /\ listed = TRUE /\ record = Nothing
  /\ folder = "home" /\ left = FALSE /\ runner = FALSE
  /\ binding = Nothing /\ hold = Nothing /\ watcher = 0
  /\ change = Nothing /\ late = {} /\ asked = 0 /\ standing = 0 /\ torn = FALSE
  /\ generations = 0 /\ holds = 0 /\ faults = 0

Fails == faults < MaxFaults /\ faults' = faults + 1 /\ UNCHANGED <<generations, holds>>
Record(s, session) == [state |-> s, session |-> session, paused |-> FALSE, held |-> 0]
Recorded(s) == record # Nothing /\ record.state = s

\* The records to be written beside the changes: of holds, of approved bindings.
Approved == {w \in late : w.what = "approval"}
\* withIdentity: one change at a time, of an identity still there.
Begins(op, at) ==
  /\ change = Nothing /\ listed /\ change' = [op |-> op, at |-> at, from |-> record]
  /\ torn' = (torn \/ Approved # {})
Step(op, at) == change # Nothing /\ change.op = op /\ change.at = at
Then(at) == change' = [change EXCEPT !.at = at]
Ends == change' = Nothing

\* watchHold and identityRooms: the hold of the binding as it stands, or the
\* one the record kept.
OfBinding(h) == h # Nothing /\ binding # Nothing /\ h.by = binding.generation
Hold == IF OfBinding(hold) THEN hold.at
        ELSE IF record # Nothing THEN record.held ELSE 0

(* putIntoRoom *)
Put ==
  /\ folder # "room" /\ Begins("put", "connect")
  /\ UNCHANGED <<files, room, waking, late, asked, standing, counts>>
Connected ==
  /\ Step("put", "connect") /\ Ends
  /\ \/ folder' = "room" /\ runner' = TRUE /\ left' = FALSE /\ UNCHANGED counts
     \/ Fails /\ UNCHANGED room
  /\ UNCHANGED <<files, waking, late, asked, ghosts>>

(* bindNewSession: the record says starting before the session is made *)
BindNew ==
  /\ folder = "room" /\ generations < MaxBinds /\ Begins("bind", "bootstrap")
  /\ record' = Record("starting", 0) /\ standing' = 0
  /\ UNCHANGED <<listed, room, waking, late, asked, counts>>
(* decideApproval, of an existing session *)
Approve ==
  /\ folder = "room" /\ generations < MaxBinds /\ Begins("approve", "bootstrap") /\ standing' = 0
  /\ UNCHANGED <<files, room, waking, late, asked, counts>>
\* The session does not start, or is refused; only a new one is recorded so, and
\* that may fail too.
NotBound ==
  /\ change # Nothing /\ change.at = "bootstrap" /\ Fails /\ Ends
  /\ record' = record \/ (change.op = "bind" /\ record' = Record("failed", 0))
  /\ UNCHANGED <<listed, room, waking, late, asked, ghosts>>
\* startWatch: a new generation, and the room is used again.
Binds(op, session) ==
  /\ Step(op, "bootstrap")
  /\ binding' = [generation |-> generations + 1, session |-> session, on |-> TRUE]
  /\ generations' = generations + 1 /\ left' = FALSE
  /\ UNCHANGED <<files, folder, runner, hold, watcher, asked, ghosts, holds, faults>>
Bind ==
  /\ \/ Binds("bind", generations + 1)
     \/ change # Nothing /\ Binds("resume", change.from.session)
  /\ Then("record") /\ UNCHANGED late
\* The change is over once the room is bound; the record is written after it.
BindApproved ==
  /\ Binds("approve", generations + 1) /\ Ends
  /\ late' = late \cup {[what |-> "approval", record |-> Record("bound", generations + 1)]}
SetBound ==
  /\ Step("bind", "record") /\ Ends /\ record' = Record("bound", binding.session)
  /\ UNCHANGED <<listed, room, waking, late, asked, ghosts, counts>>
\* The record can't be written: of a new session, another that says so may be.
NotSet ==
  /\ Step("bind", "record") \/ Step("resume", "record")
  /\ Fails /\ Ends /\ UNCHANGED <<listed, room, waking, late, asked, standing>>
  /\ \/ UNCHANGED record /\ torn' = (torn \/ change.op = "resume")
     \/ change.op = "bind" /\ record' = Record("failed", 0) /\ UNCHANGED torn

(* unbindIdentity and pauseIdentity: wakes off, the watcher stopped, the record *)
Unbind ==
  /\ folder = "room" /\ Begins("unbind", "off") /\ standing' = 0
  /\ UNCHANGED <<files, room, waking, late, asked, counts>>
\* recordHold, when nothing changes the agents' file meanwhile.
Noted(at) == record' = [record EXCEPT !.held = at]
Pause ==
  /\ Recorded("bound") /\ folder = "room"
  /\ \/ Hold = 0 /\ Begins("pause", "off") /\ UNCHANGED record
     \/ Hold # 0 /\ change = Nothing /\ record.held # Hold /\ Noted(Hold) /\ UNCHANGED <<change, torn>>
  /\ UNCHANGED <<listed, room, waking, late, asked, standing, counts>>
LeaveAlone == left \* mutant
Left == left \/ change.op = "delete"
AfterOff == IF change.op = "unbind" THEN Nothing ELSE [change.from EXCEPT !.paused = TRUE]
TurnOff ==
  /\ Step("unbind", "off") \/ Step("pause", "off") \/ Step("delete", "off")
  /\ Then("stop")
  /\ binding' = IF binding = Nothing THEN Nothing ELSE [binding EXCEPT !.on = FALSE]
  /\ left' = Left
  /\ UNCHANGED <<files, folder, runner, hold, watcher, late, asked, ghosts, counts>>
Off ==
  /\ Step("unbind", "stop") \/ Step("pause", "stop")
  /\ watcher' = 0 /\ Ends
  /\ \/ record' = AfterOff /\ UNCHANGED counts
     \/ Fails /\ UNCHANGED record
  /\ UNCHANGED <<listed, room, binding, hold, late, asked, ghosts>>

(* resumeIdentity: over a hold only with the one the person was shown *)
Anyhow(confirm) == Hold = 0 \/ confirm # 0 \* mutant
Confirmed(confirm) == Hold = 0 \/ confirm = Hold
Resume(confirm) ==
  /\ Recorded("bound") /\ folder = "room" /\ change = Nothing
  /\ \/ /\ Confirmed(confirm) /\ generations < MaxBinds /\ Begins("resume", "bootstrap")
        /\ standing' = IF standing = confirm THEN 0 ELSE standing
        /\ UNCHANGED <<record, asked>>
     \/ /\ ~Confirmed(confirm) /\ asked' = Hold /\ Noted(Hold) /\ UNCHANGED <<change, ghosts>>
  /\ UNCHANGED <<listed, room, waking, late, counts>>
Resumed ==
  /\ Step("resume", "record") /\ Ends
  /\ record' = IF record = Nothing THEN Record("bound", change.from.session)
               ELSE [record EXCEPT !.paused = FALSE, !.held = 0]
  /\ UNCHANGED <<listed, room, waking, late, asked, ghosts, counts>>

(* deleteIdentity: everything stopped, the folder gone, and only then unlisted *)
Delete ==
  /\ Begins("delete", IF folder = "room" THEN "off" ELSE "folder") /\ standing' = 0
  /\ UNCHANGED <<files, room, waking, late, asked, counts>>
StopRoom ==
  /\ Step("delete", "stop") /\ watcher' = 0
  /\ \/ runner' = FALSE /\ Then("folder") /\ UNCHANGED counts
     \/ runner /\ Fails /\ Ends /\ UNCHANGED runner
  /\ UNCHANGED <<files, folder, left, binding, hold, late, asked, ghosts>>
RemoveFolder ==
  /\ Step("delete", "folder") /\ Then("unlist")
  /\ folder' = "none" /\ left' = FALSE /\ binding' = Nothing /\ hold' = Nothing
  /\ UNCHANGED <<files, runner, watcher, late, asked, ghosts, counts>>
Unlist ==
  /\ Step("delete", "unlist") /\ Ends
  /\ \/ listed' = FALSE /\ record' = Nothing /\ UNCHANGED <<torn, counts>>
     \/ Fails /\ torn' = TRUE /\ UNCHANGED files
  /\ UNCHANGED <<room, waking, late, asked, standing>>

(* what goes on beside it *)
RunnerStarts ==
  /\ folder = "room" /\ ~left /\ ~runner /\ runner' = TRUE
  /\ UNCHANGED <<files, folder, left, waking, change, late, asked, ghosts, counts>>
RunnerEnds ==
  /\ runner /\ Fails /\ runner' = FALSE
  /\ UNCHANGED <<files, folder, left, waking, change, late, asked, ghosts>>
WatcherStarts ==
  /\ binding # Nothing /\ binding.on /\ watcher # binding.generation
  /\ watcher' = binding.generation /\ hold' = IF OfBinding(hold) THEN hold ELSE Nothing
  /\ UNCHANGED <<files, room, binding, change, late, asked, ghosts, counts>>
Holds ==
  /\ binding # Nothing /\ binding.on /\ watcher = binding.generation /\ holds < MaxHolds
  /\ holds' = holds + 1 /\ hold' = [by |-> watcher, at |-> holds + 1]
  /\ standing' = IF change = Nothing \/ change.op = "pause" THEN holds + 1 ELSE standing
  /\ UNCHANGED <<files, room, binding, watcher, change, late, asked, torn, generations, faults>>
\* agentStates, every few seconds; the record it adds to is read before it
\* waits for another process to have changed the agents' file.
Note ==
  /\ record # Nothing /\ Hold # 0 /\ record.held # Hold
  /\ \/ Noted(Hold) /\ UNCHANGED <<late, counts>>
     \/ /\ Fails /\ late' = late \cup {[what |-> "note", record |-> [record EXCEPT !.held = Hold]]}
        /\ UNCHANGED record
  /\ UNCHANGED <<listed, room, waking, change, asked, ghosts>>
\* What is written beside the changes, over what they wrote; or not at all.
Overtaken(w) ==
  w.what = "note" /\ (record = Nothing \/ record # [w.record EXCEPT !.held = record.held])
WrittenLate == \E w \in late :
  /\ late' = late \ {w} /\ UNCHANGED <<listed, room, waking, change, asked, standing>>
  /\ \/ /\ listed /\ record' = w.record /\ torn' = (torn \/ Overtaken(w)) /\ UNCHANGED counts
     \/ ~listed /\ UNCHANGED <<record, torn, counts>>
     \/ /\ listed /\ Fails /\ torn' = (torn \/ w.what = "approval") /\ UNCHANGED record
\* The daemon ends; what it was about to write is not written.
Crash ==
  /\ change # Nothing \/ late # {}
  /\ Fails /\ Ends /\ late' = {}
  /\ torn' = (torn \/ Approved # {} \/ (change # Nothing /\ change.at \in {"record", "unlist"}))
  /\ UNCHANGED <<files, room, waking, asked, standing>>

IdentitiesNext ==
  \/ Put \/ Connected \/ BindNew \/ Approve \/ NotBound \/ Bind \/ BindApproved \/ SetBound \/ NotSet
  \/ Unbind \/ Pause \/ TurnOff \/ Off \/ Resume(0) \/ (asked # 0 /\ Resume(asked)) \/ Resumed
  \/ Delete \/ StopRoom \/ RemoveFolder \/ Unlist
  \/ RunnerStarts \/ RunnerEnds \/ WatcherStarts \/ Holds \/ Note \/ WrittenLate \/ Crash

-----------------------------------------------------------------------------
\* A deleted agent leaves nothing behind, and nothing of it comes back.
GoneForGood ==
  ~listed => folder = "none" /\ ~runner /\ watcher = 0 /\ binding = Nothing /\ record = Nothing
\* What the agents' file says an agent is bound to is what its room is bound
\* to, and one it says is paused is off; but while an approved binding's
\* record is not written, and after another change began meanwhile, a note
\* overtook a change, or a record was not written.
RecordAgrees ==
  ~torn /\ change = Nothing /\ Approved = {} /\ Recorded("bound") =>
    /\ binding # Nothing /\ binding.session = record.session
    /\ record.paused => ~binding.on
\* A hold stays to be seen until the person resumed over that one, or bound,
\* unbound or deleted the agent themselves.
HoldsStand == standing # 0 /\ Recorded("bound") => Hold # 0
IdentitySound == GoneForGood /\ RecordAgrees /\ HoldsStand
=============================================================================
