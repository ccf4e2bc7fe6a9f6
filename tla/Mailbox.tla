------------------------------ MODULE Mailbox ------------------------------
(***************************************************************************)
(* An agent's mailbox in one room and the two ways it is read              *)
(* (server/agent-live.ts, server/agent-watch.ts): the operator's own       *)
(* session, waiting in a background `listen --until-addressed` (a live     *)
(* listener, holding the lease live.json), and the watcher, which starts a *)
(* headless run of the harness while no live session holds the lease.      *)
(* Both read by moving one saved cursor forward; work nobody handled is    *)
(* offered again by moving it back.                                        *)
(*                                                                         *)
(* An item of work (a message that addresses the agent, an assignment, a   *)
(* decision) is its position in the room. Every lease operation runs under *)
(* live.lock, so it is one step; the cursor file has no lock.              *)
(***************************************************************************)
EXTENDS Naturals, FiniteSets

CONSTANTS Listener,    \* the live listeners: each is one process, which runs once
          Reused,      \* those whose pid another program gets after they end
          MaxWork,     \* bound: items of work that arrive
          MaxGen,      \* bound: restarts of the watcher
          MaxOffers,   \* timing.maxOffers: offers of an item before it is flagged
          Worlds,      \* the mixes of trouble considered, see Troubles
          None

\* nap: a process is held past its heartbeat, for less than twice staleMs; sleep: for longer.
\* unseen: a running process can't be inspected (processInfo finds nothing).
\* slip: another process runs between two file writes of one of the watcher's steps.
\* wall: a run breaks its confinement, stops at an approval, or finds its session records broken.
\* restart: the watcher ends and is started again.
\* unattended: nobody starts a live listener.
Troubles == {"nap", "sleep", "unseen", "slip", "wall", "restart", "unattended"}

\* live.json: a live session's lease, or a headless wake's claim.
LiveLeases == [state : {"attached", "pickup"}, by : Listener, age : 0..2, window : {"open", "past", "capped"},
               reoffer : [before : 0..MaxWork, after : 0..MaxWork, actions : 0..MaxWork] \cup {None},
               reoffered : BOOLEAN]
HeadlessLeases == [state : {"headless"}, gen : 0..MaxGen]

ASSUME MailboxAssumption ==
    /\ Reused \subseteq Listener
    /\ MaxWork \in Nat /\ MaxGen \in Nat /\ MaxOffers \in Nat \ {0}
    /\ Worlds \subseteq SUBSET Troubles
    /\ None \notin [before : Nat, items : SUBSET Nat] \cup LiveLeases \cup HeadlessLeases \cup Listener
    /\ None \notin [before : Nat, after : Nat, actions : Nat]

VARIABLES trouble,  \* what may go wrong in this behaviour: one of Worlds
          posted,   \* items that have arrived: 1..posted
          cursor,   \* the saved listen cursor: 1..cursor are read
          done,     \* items the agent answered (answeredItems)
          lease,    \* live.json, or None
          phase,    \* where each listener is
          plan,     \* the cursor a listener's slice started from
          lost,     \* listeners whose heartbeat found the lease is another's
          held,     \* what each listener returned and its session still works on
          lively,   \* whether the agent acted in the room lately (lastActed)
          wstep,    \* where the watcher is
          wgen,     \* which watcher process it is
          back,     \* the cursor the watcher is about to restore
          offer,    \* watch-state.json: the wake dispatched and not settled, or None
          offers,   \* watch-state.json: obligations, how often an item was offered
          rest,     \* watch-state.json: "no", "backoff", or until the operator binds again "paused" or "halted"
          run,      \* whether a headless run is going
          got,      \* what it read
          acted,    \* whether the agent acted since the run was dispatched
          result,   \* how the run ended
          owes,     \* history: items read, not answered, that nobody handled
          dropped   \* history: those a step of the code passed over, see PassedOver and Stray
room == <<trouble, posted, done, lively>>
live == <<phase, plan, lost, held>>
watch == <<wstep, wgen, back, offer, offers, rest>>
runv == <<run, got, acted, result>>
hist == <<owes, dropped>>
vars == <<trouble, posted, cursor, done, lease, phase, plan, lost, held, lively, wstep, wgen, back, offer, offers, rest,
          run, got, acted, result, owes, dropped>>

Items == 1..MaxWork
\* mutant: the item at the cursor is read once more.
UnreadFromCursor(c) == c..posted
\* What a reader at cursor `c` would read now.
Unread(c) == (c + 1)..posted
\* ownActions: what the agent did in the room; here, the items it answered.
ownActions == Cardinality(done)

Init ==
    /\ trouble \in Worlds
    /\ posted = 0 /\ cursor = 0 /\ done = {} /\ lease = None
    /\ phase = [l \in Listener |-> "off"] /\ plan = [l \in Listener |-> 0]
    /\ lost = {} /\ held = [l \in Listener |-> {}] /\ lively = FALSE
    /\ wstep = "loop" /\ wgen = 0 /\ back = 0 /\ offer = None
    /\ offers = [i \in Items |-> 0] /\ rest = "no"
    /\ run = FALSE /\ got = {} /\ acted = FALSE /\ result = "ok" /\ owes = {} /\ dropped = {}

(***************************************************************************)
(* The lease.                                                              *)
(***************************************************************************)
Reads(l) == phase[l] \in {"idle", "slice"}
Runs(l) == Reads(l) \/ phase[l] = "attaching"
alive(l) == Runs(l) \/ l \in Reused
\* verifyLease: a running listener can be told by its start time, unless it can't be
\* inspected; another program with its pid likewise.
verify(l) == IF Runs(l) THEN {"same"} \cup IF "unseen" \in trouble THEN {"unknown"} ELSE {}
             ELSE IF l \in Reused THEN {"gone", "unknown"} ELSE {"gone"}
\* What `verify` may say of the lease's own process.
Verdicts == IF lease # None /\ lease.state = "attached" THEN verify(lease.by) ELSE {"unknown"}

\* The headless claim's watcher, or the run it recorded, is still there.
claimAlive == (wstep # "down" /\ lease.gen = wgen) \/ run

\* mutant: no more time for a process that is verified to be the listener.
freshOnly(v) == lease.age = 0
\* An attached lease's heartbeat counts: `age` is in units of staleMs, `v` is what verify says.
fresh(v) == lease.age = 0 \/ (lease.age = 1 /\ v = "same")

\* mutant: a pickup lasts until the session listens again.
waitsForGood == lease.state = "pickup"
\* A pickup waits for its session for a while, and longer while the agent acts in the room.
waits == lease.window = "open" \/ (lease.window = "past" /\ lively)

liveHold(v) ==
    IF lease = None THEN "none"
    ELSE CASE lease.state = "headless" -> IF claimAlive THEN "headless" ELSE "none"
           [] lease.state = "pickup" ->
                IF waits THEN "pickup" ELSE "expired"
           [] lease.state = "attached" ->
                IF alive(lease.by) /\ fresh(v) THEN "attached" ELSE "stale"

isLive == lease # None /\ lease.state # "headless"
ours(l) == isLive /\ lease.by = l
\* The lease holds work a listener returned and nobody was offered since.
carries == isLive /\ lease.reoffer # None /\ ~lease.reoffered

\* The watcher's step is one synchronous piece of code between two waits. Unless "slip" is
\* allowed, nothing else runs between its file writes (Settled), and while it goes from its
\* look to its claim a listener can take the lease but not also end or read (Brief).
Settled == "slip" \in trouble \/ wstep \notin {"restore", "settle"}
Brief == "slip" \in trouble \/ wstep \notin {"restore", "settle", "look"}

(***************************************************************************)
(* A live listener: attaches, waits in slices, returns work or ends.       *)
(***************************************************************************)
Start(l) ==
    /\ phase[l] = "off" /\ "unattended" \notin trouble
    /\ phase' = [phase EXCEPT ![l] = "attaching"]
    /\ UNCHANGED <<room, cursor, lease, plan, lost, held, watch, runv, hist>>

Refused(v, l) == lease # None /\ lease.state = "attached" /\ liveHold(v) = "attached" /\ lease.by # l /\ v # "gone"

\* attachLive: takes the lease with the work it carries, waits for a headless wake, or is refused.
Attach(l) ==
    /\ Settled /\ phase[l] = "attaching"
    /\ \E v \in Verdicts :
        \/ /\ Refused(v, l)
           /\ phase' = [phase EXCEPT ![l] = "gone"]
           /\ UNCHANGED lease
        \/ /\ ~Refused(v, l) /\ liveHold(v) # "headless"
           /\ phase' = [phase EXCEPT ![l] = "idle"]
           /\ lease' = [state |-> "attached", by |-> l, age |-> 0, window |-> "open",
                        reoffer |-> IF carries THEN lease.reoffer ELSE None, reoffered |-> FALSE]
    /\ UNCHANGED <<room, cursor, plan, lost, held, watch, runv, hist>>

\* beatLive: the heartbeat is refreshed, or the listener learns the lease is another's.
Beat(l) ==
    /\ Reads(l)
    /\ IF ours(l) /\ lease.state = "attached"
       THEN /\ lease.age > 0 /\ lease' = [lease EXCEPT !.age = 0] /\ UNCHANGED lost
       ELSE /\ l \notin lost /\ lost' = lost \cup {l} /\ UNCHANGED lease
    /\ UNCHANGED <<room, cursor, phase, plan, held, watch, runv, hist>>

\* listenRemembering starts from the saved cursor, unless the lease was lost.
SliceStarts(l) ==
    /\ Settled /\ phase[l] = "idle" /\ l \notin lost
    /\ phase' = [phase EXCEPT ![l] = "slice"]
    /\ plan' = [plan EXCEPT ![l] = cursor]
    /\ UNCHANGED <<room, cursor, lease, lost, held, watch, runv, hist>>

\* What was put back since the slice started lies before where it reads on: nobody reads it.
PassedOver(l) == (cursor + 1)..plan[l]

\* Nothing came: the slice saves the cursor it started from.
SliceTimesOut(l) ==
    /\ Settled /\ phase[l] = "slice" /\ Unread(plan[l]) = {}
    /\ cursor' = plan[l]
    /\ dropped' = dropped \cup PassedOver(l)
    /\ phase' = [phase EXCEPT ![l] = "idle"]
    /\ plan' = [plan EXCEPT ![l] = 0]
    /\ UNCHANGED <<room, lease, lost, held, watch, runv, owes>>

\* mutant: what the listener carried is forgotten.
pickedUpAlone(l) ==
    [lease EXCEPT !.state = "pickup", !.window = "open",
                  !.reoffer = [before |-> plan[l], after |-> posted, actions |-> ownActions]]
\* pickupLive: what this listen consumed, joined to what it carried if nobody acted meanwhile.
pickedUp(l) ==
    LET mine == [before |-> plan[l], after |-> posted, actions |-> ownActions]
        c == lease.reoffer
    IN  [lease EXCEPT !.state = "pickup", !.window = "open",
                      !.reoffer = IF c # None /\ c.after = mine.before /\ c.actions = mine.actions
                                  THEN [mine EXCEPT !.before = c.before] ELSE mine]

\* There is work: it is read, handed to the session, and the lease waits for the session.
SliceReturns(l) ==
    /\ Brief /\ phase[l] = "slice" /\ Unread(plan[l]) # {}
    /\ cursor' = posted
    /\ held' = [held EXCEPT ![l] = Unread(plan[l])]
    /\ owes' = owes \cup (Unread(plan[l]) \ done)
    /\ dropped' = (dropped \ Unread(plan[l])) \cup PassedOver(l)
    /\ phase' = [phase EXCEPT ![l] = "gone"]
    /\ plan' = [plan EXCEPT ![l] = 0]
    /\ lost' = lost \ {l}
    /\ lease' = IF ours(l) THEN pickedUp(l) ELSE lease
    /\ UNCHANGED <<room, watch, runv>>

\* releaseLive: the lease goes; one that carries work becomes a pickup whose window has ended.
released(l) ==
    IF ~(ours(l) /\ lease.state = "attached") THEN lease
    ELSE IF carries THEN [lease EXCEPT !.state = "pickup", !.window = "past"] ELSE None

\* The listener ends without work: stopped, its longest wait over, the lease lost.
Quit(l) ==
    /\ Brief /\ Runs(l)
    /\ phase' = [phase EXCEPT ![l] = "gone"]
    /\ plan' = [plan EXCEPT ![l] = 0]
    /\ lost' = lost \ {l}
    /\ lease' = released(l)
    /\ UNCHANGED <<room, cursor, held, watch, runv, hist>>

\* Killed outright: the lease stays behind.
Kill(l) ==
    /\ Runs(l)
    /\ phase' = [phase EXCEPT ![l] = "gone"]
    /\ plan' = [plan EXCEPT ![l] = 0]
    /\ lost' = lost \ {l}
    /\ UNCHANGED <<room, cursor, lease, held, watch, runv, hist>>

\* The live session answers an item. Acting in the room at all is taken as having handled
\* everything the live session read (liveGate compares only the count of actions).
Answer(l, i) ==
    /\ Settled /\ i \in held[l]
    /\ done' = done \cup {i}
    /\ held' = [held EXCEPT ![l] = @ \ {i}]
    /\ lively' = TRUE /\ acted' = TRUE
    /\ owes' = IF i \in done THEN owes
               ELSE owes \ ({i} \cup {j \in owes \ got : j <= cursor /\ (offer = None \/ j \notin offer.items)})
    /\ UNCHANGED <<trouble, posted, cursor, lease, phase, plan, lost, watch, run, got, result, dropped>>

\* Its turn ends, the rest unanswered: it declined, or the session is closed.
EndTurn(l) ==
    /\ held[l] # {}
    /\ held' = [held EXCEPT ![l] = {}]
    /\ UNCHANGED <<room, cursor, lease, phase, plan, lost, watch, runv, hist>>

(***************************************************************************)
(* Time and the room.                                                      *)
(***************************************************************************)
Post ==
    /\ posted < MaxWork
    /\ posted' = posted + 1
    /\ UNCHANGED <<trouble, done, lively, cursor, lease, live, watch, runv, hist>>

\* staleMs without a heartbeat: its listener is gone, or was held that long.
Ages ==
    /\ isLive /\ lease.state = "attached" /\ lease.age < 2
    /\ ~Runs(lease.by) \/ "sleep" \in trouble \/ ("nap" \in trouble /\ lease.age = 0)
    /\ lease' = [lease EXCEPT !.age = @ + 1]
    /\ UNCHANGED <<room, cursor, live, watch, runv, hist>>

\* The pickup window ends, then PICKUP_CAP_MS is over.
WindowEnds ==
    /\ Brief /\ isLive /\ lease.state = "pickup" /\ lease.window # "capped"
    /\ lease' = [lease EXCEPT !.window = IF @ = "open" THEN "past" ELSE "capped"]
    /\ UNCHANGED <<room, cursor, live, watch, runv, hist>>

\* PICKUP_LIFE_MS since the agent's last action.
LifePasses ==
    /\ Brief /\ lively
    /\ lively' = FALSE
    /\ UNCHANGED <<trouble, posted, done, cursor, lease, live, watch, runv, hist>>

BackoffPasses ==
    /\ rest = "backoff"
    /\ rest' = "no"
    /\ UNCHANGED <<room, cursor, lease, live, wstep, wgen, back, offer, offers, runv, hist>>

(***************************************************************************)
(* The watcher (watchLoop).                                                *)
(***************************************************************************)
\* liveGate's `due`: the work the lease carries is still unhandled and unread beyond.
due == carries /\ cursor = lease.reoffer.after /\ ownActions = lease.reoffer.actions
\* mutant: work that is carried is given back whoever holds the lease.
GateWhoeverHolds(v) == IF due THEN "reoffer" ELSE liveHold(v)
Gate(v) == IF liveHold(v) \in {"expired", "stale"} /\ due THEN "reoffer" ELSE liveHold(v)

\* liveGate marks the work as given back; the cursor is restored after the lock is released.
GiveBack ==
    /\ wstep = "loop" /\ rest # "halted"
    /\ \E v \in Verdicts : Gate(v) = "reoffer"
    /\ lease' = [lease EXCEPT !.reoffered = TRUE]
    /\ wstep' = "restore" /\ back' = lease.reoffer.before
    /\ UNCHANGED <<room, cursor, live, wgen, offer, offers, rest, runv, hist>>

Restore ==
    /\ wstep = "restore"
    /\ cursor' = back
    /\ wstep' = "loop" /\ back' = 0
    /\ UNCHANGED <<room, lease, live, wgen, offer, offers, rest, runv, hist>>

\* The loop's look: no live session holds the mailbox, and a listen would return work.
Look ==
    /\ wstep = "loop" /\ rest = "no" /\ Unread(cursor) # {}
    /\ \E v \in Verdicts : Gate(v) \notin {"attached", "pickup", "reoffer"}
    /\ wstep' = "look"
    /\ UNCHANGED <<room, cursor, lease, live, wgen, back, offer, offers, rest, runv, hist>>

\* mutant: a stopped listener's lease is never given up.
mayBeginUnlessStale(v) == liveHold(v) \notin {"attached", "pickup", "stale"}
\* beginHeadless refuses while a live session holds the lease, whatever the look said.
mayBegin(v) == liveHold(v) \notin {"attached", "pickup"}

\* Claims the mailbox, writes the offer down and dispatches the run; or stands by.
Begin ==
    /\ wstep = "look"
    /\ \E v \in Verdicts :
        IF mayBegin(v) /\ Unread(cursor) # {}
        THEN /\ lease' = [state |-> "headless", gen |-> wgen]
             /\ offer' = [before |-> cursor, items |-> Unread(cursor)]
             /\ run' = TRUE /\ got' = {} /\ acted' = FALSE
             /\ wstep' = "run"
        ELSE /\ wstep' = "loop"
             /\ UNCHANGED <<lease, offer, run, got, acted>>
    /\ UNCHANGED <<room, cursor, live, wgen, back, offers, rest, result, hist>>

\* The run's own listen: everything unread, also what arrived after the run was offered its items.
RunReads ==
    /\ run /\ Unread(cursor) # {}
    /\ got' = got \cup Unread(cursor)
    /\ owes' = owes \cup (Unread(cursor) \ done)
    /\ dropped' = dropped \ Unread(cursor)
    /\ cursor' = posted
    /\ UNCHANGED <<room, lease, live, watch, run, acted, result>>

RunAnswers(i) ==
    /\ run /\ i \in got \ done
    /\ done' = done \cup {i}
    /\ lively' = TRUE /\ acted' = TRUE
    /\ owes' = owes \ {i}
    /\ UNCHANGED <<trouble, posted, cursor, lease, live, watch, run, got, result, dropped>>

\* The run ends; its watcher, if it is still there, gives the mailbox back (endHeadless).
RunEnds(how) ==
    /\ run
    /\ how = "busy" => cursor = offer.before
    /\ how \in {"wall", "broken"} => "wall" \in trouble
    /\ run' = FALSE
    /\ IF wstep = "run"
       THEN /\ wstep' = "settle" /\ result' = how
            /\ lease' = IF lease # None /\ lease.state = "headless" /\ lease.gen = wgen THEN None ELSE lease
       ELSE UNCHANGED <<wstep, result, lease>>
    /\ UNCHANGED <<room, cursor, live, wgen, back, offer, offers, rest, got, acted, hist>>

(***************************************************************************)
(* settle: after a success everything the run read was handled; after a    *)
(* failure the items it was offered and didn't answer are offered again.   *)
(***************************************************************************)
progress == cursor # offer.before
open(failed) == IF failed THEN offer.items \ done ELSE {}
again(failed) == {i \in open(failed) : offers[i] + 1 < MaxOffers}
reoffered(failed) == progress /\ again(failed) # {}
\* Only what was offered is put back: what the run read beyond its offer goes back with it, or not at all.
Stray == IF reoffered(TRUE) THEN {} ELSE got \ offer.items
settle(failed) ==
    /\ offers' = [i \in Items |-> IF progress /\ i \in open(failed) THEN offers[i] + 1
                                  ELSE IF i \in done \/ (progress /\ i \in offer.items) THEN 0 ELSE offers[i]]
    /\ cursor' = IF reoffered(failed) THEN offer.before ELSE cursor
    /\ offer' = None

SettleRun ==
    /\ wstep = "settle"
    /\ LET failed == result # "ok"
           handled == progress /\ ~reoffered(failed) /\ (~failed \/ acted)
       IN IF result = "busy" /\ ~progress
          THEN /\ offer' = None /\ rest' = "backoff"
               /\ UNCHANGED <<cursor, offers>>
          ELSE /\ settle(failed)
               /\ rest' = CASE result = "wall" -> "paused"
                            [] result = "broken" -> "halted"
                            [] OTHER -> IF handled THEN "no" ELSE "backoff"
    /\ wstep' = "loop"
    /\ owes' = IF result = "ok" THEN owes \ got ELSE owes
    /\ dropped' = IF result = "ok" THEN dropped ELSE dropped \cup Stray
    /\ got' = {} /\ result' = "ok" /\ acted' = FALSE
    /\ UNCHANGED <<room, lease, live, wgen, back, run>>

\* The watcher ends wherever it is: it crashed, was stopped, or its binding changed.
WatcherEnds ==
    /\ "restart" \in trouble
    /\ wstep \notin {"down", "restore"} /\ wgen < MaxGen
    /\ wstep' = "down"
    /\ result' = "ok"
    /\ UNCHANGED <<room, cursor, lease, live, wgen, back, offer, offers, rest, run, got, acted, hist>>

\* The next watcher waits for a run left going. Bound again, it lifts a hold.
WatcherStarts ==
    /\ wstep = "down" /\ wgen < MaxGen
    /\ wstep' = "orphan" /\ wgen' = wgen + 1
    /\ rest' \in IF rest \in {"paused", "halted"} THEN {rest, "no"} ELSE {"no"}
    /\ UNCHANGED <<room, cursor, lease, live, back, offer, offers, runv, hist>>

\* What the previous watcher offered and never settled is settled as interrupted.
SettleOrphan ==
    /\ wstep = "orphan" /\ ~run
    /\ IF offer = None THEN UNCHANGED <<offers, cursor, offer, dropped>> ELSE settle(TRUE) /\ dropped' = dropped \cup Stray
    /\ wstep' = "loop"
    /\ got' = {} /\ acted' = FALSE
    /\ UNCHANGED <<room, lease, live, wgen, back, rest, run, result, owes>>

ListenerStep(l) ==
    \/ Start(l) \/ Attach(l) \/ Beat(l) \/ SliceStarts(l) \/ SliceTimesOut(l) \/ SliceReturns(l)
    \/ Quit(l) \/ Kill(l) \/ EndTurn(l)
    \/ \E i \in Items : Answer(l, i)
Time == Ages \/ WindowEnds \/ LifePasses \/ BackoffPasses
WatcherStep == GiveBack \/ Restore \/ Look \/ Begin \/ SettleRun \/ SettleOrphan
RunStep == RunReads \/ (\E i \in Items : RunAnswers(i)) \/ (\E how \in {"ok", "failed", "busy", "wall", "broken"} : RunEnds(how))

Next == (\E l \in Listener : ListenerStep(l)) \/ Post \/ Time \/ WatcherStep \/ RunStep \/ WatcherEnds \/ WatcherStarts

Spec == Init /\ [][Next]_vars

\* Processes that run keep running, time passes, a harness run and a session's turn end, and
\* a listener's longest wait (maxWaitMs) ends. No listener need be started, no run need read
\* or answer, no watcher need be stopped.
Fairness ==
    /\ \A l \in Listener :
        /\ WF_vars(Attach(l)) /\ WF_vars(Beat(l)) /\ WF_vars(SliceStarts(l))
        /\ WF_vars(SliceTimesOut(l)) /\ WF_vars(SliceReturns(l)) /\ WF_vars(EndTurn(l))
        /\ WF_vars(Quit(l))
    /\ WF_vars(Ages /\ ~Runs(lease.by)) /\ WF_vars(WindowEnds) /\ WF_vars(LifePasses) /\ WF_vars(BackoffPasses)
    /\ WF_vars(WatcherStep) /\ WF_vars(WatcherStarts)
    /\ WF_vars(\E how \in {"ok", "failed", "busy"} : RunEnds(how))
FairSpec == Spec /\ Fairness

(***************************************************************************)
(* Properties.                                                             *)
(***************************************************************************)
TypeOK ==
    /\ trouble \in Worlds
    /\ posted \in 0..MaxWork /\ cursor \in 0..MaxWork /\ done \subseteq Items
    /\ lease \in LiveLeases \cup HeadlessLeases \cup {None}
    /\ phase \in [Listener -> {"off", "attaching", "idle", "slice", "gone"}]
    /\ plan \in [Listener -> 0..MaxWork] /\ lost \subseteq Listener
    /\ held \in [Listener -> SUBSET Items] /\ lively \in BOOLEAN
    /\ wstep \in {"loop", "restore", "look", "run", "settle", "down", "orphan"}
    /\ wgen \in 0..MaxGen /\ back \in 0..MaxWork
    /\ offer \in [before : 0..MaxWork, items : SUBSET Items] \cup {None}
    /\ wstep \in {"run", "settle"} => offer # None
    /\ offers \in [Items -> Nat] /\ rest \in {"no", "backoff", "paused", "halted"}
    /\ run \in BOOLEAN /\ got \subseteq Items /\ acted \in BOOLEAN
    /\ result \in {"ok", "failed", "busy", "wall", "broken"}
    /\ owes \subseteq Items /\ dropped \subseteq Items

\* Who may be reading the mailbox: the listeners that are attached, and the headless run.
Readers == {l \in Listener : Reads(l)} \cup (IF run THEN {None} ELSE {})

\* One mailbox has one reader at a time.
OneReader == Cardinality(Readers) <= 1

\* The lease and the mailbox are in a state their files allow, with one reader.
MailboxSound == TypeOK /\ OneReader

\* An item read and not answered is in somebody's hands: a live session works on it, the
\* lease still carries it, the watcher is putting it back, a wake was offered it and isn't
\* settled, a run has read it. The code drops two kinds: Stray and PassedOver.
Stopped == rest \in {"paused", "halted"}
Flagged(i) == offers[i] >= MaxOffers
Held(i) == \E l \in Listener : i \in held[l]
Offered(i) == offer # None /\ i \in offer.items
Carried(i) == carries /\ i \in (lease.reoffer.before + 1)..lease.reoffer.after /\ due
InHands(i) ==
    \/ Held(i) \/ Carried(i) \/ Offered(i)
    \/ wstep = "restore" /\ i > back
    \/ i \in got
Kept(i) == i > cursor \/ InHands(i) \/ Flagged(i)
NothingLost == \A i \in owes \ dropped : Kept(i)

\* What agent-watch.ts:1318-1331 says, without the exception: no work that a listen or a wake
\* read is lost. (The code drops some.)
NoLostWork == \A i \in owes : Kept(i)

\* The cursor is put back only while nobody reads from it.
PutBackUnread == [][cursor' < cursor => Readers = {}]_vars

\* Work that arrives reaches a live session or is offered to a wake, unless wakes are held
\* for the operator.
WorkIsOffered == \A i \in Items : i \in Unread(cursor) ~> (i \in done \/ i \in got \/ Held(i) \/ Offered(i) \/ Stopped)

\* Work a session or a run left unanswered is offered again, or flagged.
LeftIsOffered == \A i \in Items :
    (i \in owes /\ ~Held(i) /\ ~Offered(i)) ~>
        (i \notin owes \/ i \in dropped \/ Held(i) \/ Offered(i) \/ Flagged(i) \/ Stopped)

\* New work and work left behind both come to be offered.
WorkGoesOn == WorkIsOffered /\ LeftIsOffered
=============================================================================
