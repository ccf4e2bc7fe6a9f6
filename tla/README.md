# Verification of Meshrooms

TLA+ models of the hosted browser rooms, the agent bridge and the desktop app, their TLC runs, and proofs checked by
TLAPS. The native local node is experimental and frozen (README.md of the repository) and is modelled in outline only.

## The system

People meet in *rooms*. A room's page is a browser tab; agents take part through a *bridge*, processes on somebody's
machine. Messages, tasks, decisions and files travel peer to peer over WebRTC; a *room service* keeps who is in a room
and carries the connection offers, nothing else.

| Part | State it keeps | Operations | Talks to |
| --- | --- | --- | --- |
| Room service, admission (`server/browser/lobby.ts`) | one record per room: members, devices, requests, agent links, retired keys, settings | create, request, link, agent-invite, agent-redeem, cancel, decide, remove, profile, repositories, settings | browsers and bridges, by signed commands |
| Room service, lifetime (`lobby.ts`, `store.ts`) | rooms, activity, closed rooms, heartbeat, invite codes | create, close, sweep, resume after a restart, operator's retire | operator commands write the same database |
| Room service, receipts (`lobby.ts`, `client.ts`, `http.ts`) | a receipt per command | retry of a command whose answer was lost | the client's pending map |
| Room service, presence and signals (`lobby.ts`) | presence and queued offers, in memory | status, signal | browsers' peers |
| Ownership of a room (`background.ts`, `storage.ts`) | Web Locks, fence epochs, the stored record | open, hand over, claim, save, freeze | tabs of one browser |
| Delivery (`peers.ts`, `history.ts`) | outbox, history window, receipts | send, flush, receive, receipt, reconnect, reload | other peers |
| Board, decisions, reactions (`board.ts`, `decisions.ts`, `reactions.ts`) | signed operations, folded | change, accept, compact | peers, by exchange of state |
| Pacing and quotas (`pacer.ts`, `quota.ts`) | send queue, resync timer, buckets | push, pump, resync | channels |
| Files (`files.ts`) | transfers, uploads | want, offer, chunk, done, tick | peers |
| Agent runner (`browser-agent.ts`) | inbox, cursors, outbox files | listen, queue, sign, send | agents' commands, peers |
| Live lease (`agent-live.ts`) | `live.json`, wake record, under a lock | attach, beat, pickup, release, headless | a live agent session, the watcher |
| Watcher and supervisor (`agent-watch.ts`, `agent-daemon.ts`, `locks.ts`) | one run at a time, wake budget, pauses, session ledger, pid files | wake, back off, start, stop, repair | harness processes, the operator's commands |
| A person's agents (`agents.ts`, `person.ts`) | identities, bindings, holds, rooms joined | bind, hold, resume, leave, join, pair | the daemon, the desktop app |
| Desktop app (`desktop/src-tauri`, `local-api.ts`, `local-source.ts`, `notifications.ts`) | approvals, pairing windows, the local page, notices | approve, reject, pair, unpair, poll, notify | bridge daemon |
| Native node (`node.ts`, `peer-bridge.ts`) | WormDB log | publish, share, pair | MeshGuard |

What makes it hard: commands are retried after answers were lost; limits and names are checked at one moment and used at
another; tabs are frozen between being granted a lock and using it; channels drop, duplicate and reorder what is resent;
processes crash between writing a file and acting on it; replicas apply operations in any order and compact them; a
listener, a runner and a watcher share files without a lock over all of them.

What makes each part correct: admission keeps one coherent record in which the host stays and nothing outlives its
operator; a retried command happens once; a room in use is never swept and a closed one never returns; one tab writes a
room's record at a time and a receipt is sent only for what is stored; a message reaches each target exactly once while
both stay; replicas that saw the same operations show the same board; a consumed piece of work is done or offered again;
what a person approved is what is made.

## Modules

| Module | Models |
| --- | --- |
| `Lobby` | admission to one room: every command that changes who is in it or waits for it |
| `RoomLifecycle` | rooms created, used, closed, retired and swept while the service stops and starts |
| `Commands` | one page's commands, sent again after lost answers, against receipts that expire |
| `Signaling` | presence, queued signals and polls, and the offers and answers of two devices |
| `RoomOwner` | which tab of a browser runs a room and writes its records |
| `RoomRecord` | abstract: what a browser promises its peers about those records; implemented by `RoomOwner` |
| `Delivery` | messages and receipts between the devices of a room |
| `Decisions` | one decision: opening, votes, options, closing, folding, compaction, exchange |
| `Board` | one task: the fold of its operations, compaction, revision jumps, exchange |
| `Reactions` | one member's reactions: pending ones, the cap, compaction, exchange |
| `Sync` | the paced queue, the receive quota and the requests that make up for what was dropped |
| `Files` | files fetched from several holders, verified, stalled and retried |
| `Mailbox` | an agent's live listener and the watcher's headless runs, on one cursor |
| `Supervisor` | daemon, watcher and commands starting and stopping one agent's runner and watcher |
| `Locks`, `Mutex` | the lock files, and the abstract mutual exclusion they implement |
| `Session` | the ledger by which the rooms of one harness session take turns |
| `Outbox` | a command's change on its way through the outbox into the room |
| `Listen` | what `listen` returns and saves while the runner stores more |
| `Watch` | one room's watcher between wakes: limits, pauses, halts, orphaned runs |
| `Identities` | a person's agent bound, held, resumed, moved and left |
| `Approvals` | the approvals window, the list it shows and the daemon that acts |
| `Pairing` | a person's machine joining rooms, pairing and unpairing browsers |
| `LocalPage` | the local page, its event cursor and its reads of the room |
| `Notices` | gathering, pacing and posting of notifications |
| `NativeNode` | messages and files between two native nodes over storage that fails |
| `Subsequences` | entries of a sequence at a set of positions, shared by `Delivery`, `Lobby` and `Signaling` |
| `MC*` | instances for TLC: model values, symmetry, and the composites below |
| `*_proofs` | theorems: `Lobby`, `RoomService`, `Delivery`, `Mailbox`, `Decisions`, `Safety`, `Agents`, `Subsequences` |

### How they are put together

Parts that share no state are checked in one run without multiplying their states: `MCSafety`, `MCBrowser`, `MCAgents`,
`MCRoomService` and `MCDesktop` (which `MCSafety` extends) hold one instance of each of their modules and a variable
`part`, chosen initially, that says which of them a behaviour runs; the others keep their first state. `MCLobby` chooses
so among three instances of `Lobby` with different limits. A property about a
part either needs that part only (`part = "board" => ...`) or holds of an idle part trivially. Because only one part's
steps are ever enabled, weak fairness of a disjunction with a step of each part is fairness of each of these steps, which
is how `BrowserSpec` and `AgentsSpec` bundle theirs. The proofs are about these same specifications: each part's
invariant is kept by its own steps, and by the others' because they leave its variables alone.

The modules meet at named points. `Delivery` takes one engine per device for granted, which is what `RoomOwner` shows,
and that a stored history is never replaced by an older one (`RoomRecord`). `RoomLifecycle` says when the room that
`Lobby` describes exists at all, `Commands` that a command of `Lobby` is carried out once. `Signaling` ends where
`Delivery`'s `Connect` begins. `Mailbox` starts where `Delivery` ends: an item is a message the bridge has stored;
`Watch` and `Session` say when its wakes may start, `Supervisor` that there is one watcher to start them, over lock files
that `Locks` models.

### Lobby

`members`, `devices`, `requests`, `invites`, `retired`, `settings`, `ownerId` are the fields of the room record
(`type Room`); arrays in which order does not matter are sets of records, `retired`, whose order decides what is dropped,
is a sequence. A command is one IMMEDIATE transaction after its signature was verified, so it is one atomic action named
after its `case`; a refused command rolls back and is no action. `minted` holds the ids `crypto.randomUUID()` has drawn.
Addresses of waiting requests are in memory in the code and are dropped by `Restart`.

Abstracted: titles, labels, keys and profile pictures; the bytes of codes and pairing secrets (a request says whether a
code or which device's secret opens it, and a linker is assumed to hold what it presents); names are compared as values,
as the code compares them without case.

### RoomLifecycle, Commands, Signaling

Every time the code stores is modelled by its age, so the service runs without a bound on time; ages beyond what the
service can tell apart are one value (`Cap`). `activity` is the table, `active` the throttle's cache in memory, which
a refused command's rollback must not leave ahead of the table; `expires` is the date last shown to a member, `unused`
counts the time the service was up since a member used the room. A sweep is a list (`Sweep`) and one transaction per room
(`Expire`), between which the operator's command, a process of its own, may retire rooms.

`Commands` has one page's call, the ids it keeps for a retry, the commands and answers on their way (any of which may be
lost or late), the HTTP layer's limit, the receipts and what was really carried out (`log`, history). In `Signaling`,
`epoch` and `sequence` are the service's, lost at a restart; `known` and `cursor` a session's; `answer` is a poll's
answer on its way and `work` what is being made of it; `handled` is history.

### RoomOwner and RoomRecord

`roomLock`, `conn` and `leader` are the holders of the three Web Locks (`meshrooms-room:<id>`,
`meshrooms-connection:<id>`, `meshrooms-background`); `rooms` and `stopping` are the leader's map and a background room's
flag; `epoch` and `stored` are database records; `fence` and `mem` are what a tab's engine remembers of them. A write is a
transaction in `tx` that commits or fails by itself later, under the epoch it was begun with (`save`, storage.ts). The
leader's reconcile pass is split where it awaits: what it read may be stale when it acts. `robbed` holds tabs whose lock
was stolen and whose promise has not yet been rejected: everything such a tab still does before it hears is a step.
One record stands for the history, board, decisions, reactions and files, which are all written through one fenced
transaction. `RoomRecord` is the promise: a stored history that only grows, a message at a time, and receipts only for
what is stored. `RoomOwner` implements it with `Record == INSTANCE RoomRecord` under the same names.

### Delivery, Decisions, Board, Reactions, Sync, Files

`mem` and `disk` are `messages` and the stored history of each engine; `sent` is `peer.sent` with its five-second
resend window (an entry expires by `Expire`); a channel is a pair in `link` with a queue in each direction, lost with it.
`Send`, `TakeMessage`, `TakeReceipt`, `Refuse` and `Poll` are whole handlers: storing, cutting the window to size, and
the flush each ends in. Receipts change memory at once and the disk by the timer (`WriteReceipts`). `room` is the truth
at the service, `view` what each engine's last poll saw. `seen` is history: what a device ever stored.

In `Decisions` and `Board` an operation is a record with its revision; its random id, which only breaks ties, is a rank
among those it could tie with. What a device shows is a fold of what it holds (`Fold`, `Current`), so nothing of it is
state. Who changed a task that was also assigned is credited from an operation that need not be held any more
(board.ts:207–211); the fold keeps that case. `Reactions` keeps the operations per message and those that wait for one.
In `Sync` what is held is a set of operations and the interest lies in the queue, the gate, the quota and the requests;
`MaxTrouble` bounds channels that close and packets that come too fast (`Drop`). In `Files` a chunk is where it belongs
and whether its bytes are right; timeouts are steps and cost trouble only while something is still on its way.

### Mailbox, Listen, Outbox

`lease` is live.json with the work it carries (`reoffer`), `cursor` the saved listen cursor, `offer`, `offers` and
`rest` the parts of watch-state.json that decide what is offered again. A lease operation runs under live.lock and is
one step; the cursor file has no lock, so a slice's start and its save are two steps with anything between. `Verdicts`
is what process inspection may report of a pid (the listener itself, another program, or nothing to tell by). A
heartbeat's age is counted in units of `staleMs`. A run's own listen returns whatever is unread by then, also what
arrived after the run was offered its items. `owes` is history: items read, not answered, and still to be offered to
somebody; `dropped` are those of them the code loses in two ways (`Stray`: a failed run read them beyond its offer, the
finding of `mailbox_late`; `PassedOver`: the cursor was put back under a slice, which saved its own over it).
`NothingLost` is about all others, `NoLostWork` about all.

What may go wrong is chosen per behaviour from `Worlds`, sets of the troubles named in the module, so that one module
holds the troubles the code is built to survive and those it is not:

| Trouble | Meaning | Shown |
| --- | --- | --- |
| nap, unseen | a process held beyond its heartbeat, or one that cannot be inspected | run and proof, each by itself; together a held listener is taken for gone |
| wall, unattended | runs stopped by their confinement; no live session at all | run and proof |
| restart | watchers that end anywhere and are replaced | run and proof where the agent is unattended; with live listeners the proof of `NothingLost` alone |
| sleep | a machine asleep for longer than a heartbeat is believed | `MailboxSound` fails (seen without a run, below) |
| slip | another process runs between two adjacent file writes of one watcher step | only the proof of one reader covers it |

`Listen` looks into one listen: it reads the history, the counters of tasks and decisions and their logs one after the
other while the runner stores more, and saves a cursor. `Outbox` has the two sides of a change: a command writes a file,
waits and may give up; the runner signs, stores, and removes the file; a crash may come between any two of these.

### Supervisor, Session, Locks, Watch, Identities

Of `Supervisor`'s actors (daemon, watcher, a command that uses the room, `stop`) each reads the files, waits and acts on
what it read; `job` says where each is. `heard` is the runner's last word on its removal, which outlives the runner that
said it: the daemon reads it before it moves `since`, so a word from before a `connect` still lets the room go. The
watch lock may be another's (`Busy`), and then a watcher is left running, or not started. `Locks` is the lock file and
the marker under which a crashed owner's lock is taken over; `Mutex` is what it implements. `MaxAge` says whether the
lock's users pass a maximum age: then every one of them clears an old marker, and `snatched` remembers that one cleared
was not the one it had looked at. In `Session` the ledger ends a turn on its lease or its watcher's death alone,
whatever still runs: `adrift` are the runs it lost hold of so, `strays` the processes that nobody waits for any more
(they outlived being stopped, or their watcher died before it wrote them down). `Watch` runs one watcher through wakes,
pauses and halts with a run an earlier watcher left, which may be unrecognisable or survive being killed (`cut` are the
runs the watchers lost hold of). `Identities` has the changes of one agent's record beside its watcher; an approved
binding's record is written after the agent's lock is given up (`late`), and any record may fail to be written
(`NotSet`, `WrittenLate`, `Off`, `Unlist`).

### Approvals, Pairing, LocalPage, Notices, NativeNode

Each is one window, page or node with the process it asks, and what is under way between them. `said` and `labels` are
versions of what a request says; `clicked` and `seen` are history, what the person approved and saw. In `Pairing` a
behaviour either follows links (`joins = MaxJoins` from the start) or joins beside one link: the two only share the room
list, and together they are too many for a run.

## What the runs show

Bounds are chosen so that each limit of the code is reached and crossed: a limit of 1 or 2 with one more actor than it
admits. Actors of a kind that no property or code tells apart are symmetric in the safety runs of `Lobby`; runs with
liveness properties use no symmetry. `CHECK_DEADLOCK FALSE` stands where every bounded source of events may run dry.

| Run | Instance | Properties, and what they show |
| --- | --- | --- |
| `lobby` | three devices and member ids; two names and room for two agents and devices each; or a crowd with three names, two links or requests at a time for one place, and a clock; or a network that may send one request | `RecordCoherent`: types, one identity per device, members and devices describe the same people and the host, no orphans; `AgentNamesDistinct`; `ByRight`, `LinksOnlyAddToTheLinker`, `HostKeepsTheSay`: who may enter and leave, and at whose word; `KeysOutliveMembership`; `SharesKept`: shares hold though they were checked at the making and used at the redeeming |
| `room_service` | two rooms, two stops, an idle period of three ticks; two devices with two troubles | `ActivityKnown`, `SweptByRight`, `ClosedForGood`, `IdleRoomsGo`; `SignalsOnce`, `PeersConnect` |
| `delivery` | two devices, three messages, a window of two, two faults | `MessagesSound`: no duplicates, true receipts, what is shown is stored; `OutboxKept`; `AllConfirmed` once faults end |
| `mailbox` | two listeners, two items, two restarts, three worlds | `MailboxSound` with one reader, `NothingLost`, `PutBackUnread`, `WorkGoesOn`: work is offered and offered again |
| `decisions` | host, person and agent with a device each, nine plans of who does how much | `CompactionHarmless`, `OutcomesSound`, `Converge`, `BridgesClose` |
| `browser` | two tabs and two leaders that answer in time; reactions and state on two devices; two files | `NobodyFencedOut`, `ViewerGetsRoom`, `TakenOver`, `DevicesConverge`, `FilesArrive` |
| `safety` | fourteen parts that can be frozen, crash, fail and race | `OneOwner`, `RecordKept`, `CommandsOnce`, `DevicesSound`, `NothingSkipped`, `LockIsMutex`, `DesktopSound` |
| `agents` | one room's processes with two commands; three rooms of a session, one refused wake, one mishap; a request of each kind | `DoneOnce`: one runner, one watcher, no wake beside another the ledger still knows of, changes signed once, what was stopped stays so; `KeptRunning`, `EveryRoomWakes`, `ChangesSettle` |
| `room_owner_frozen`, `mailbox_late`, `decisions_pages`, `ledger_lock` | the smallest instance of each | the findings below |

A fault budget of two or three is enough for the hazards listed: each needs at most a fault, the recovery from it, and
one more fault during that recovery. Two messages through a buffer or a batch of one already overflow it; a window of
two with an outbox of one holds a protected and an unprotected message. `delivery` checks two devices: what a third
adds, that each target is owed a message until it has confirmed it, is per target in the code and covered by the proofs,
which are for any number. Two rooms suffice in `RoomLifecycle`, since rooms share only the sweep's list and the
heartbeat. In `Mailbox` two items distinguish "what was offered" from "what came later", and two offers of an item
"offered again" from "flagged". In `agents` two commands let a room be used again after a `stop` or bound twice, and one
trouble be recovered from, which a room let go and connected again needs. In
`Locks` three processes and two crashes leave both a lock and its marker behind; five files are enough for both to be
made anew. `Decisions` chooses its budget from `Plans`, so that every pair of a close with what could make it void
occurs without their product.

### Fairness

- `RoomOwner`: timers, promises and transactions of every tab settle in the end, so a frozen tab thaws (the browser
  decides when). Opening, leaving, crashing, thefts and traffic are never forced.
- `Delivery`: polls repeat every few seconds, the receipt timer fires, an engine that crashed is opened again, and two
  devices in the room that can connect do. Channels are cut, devices leave and messages are refused only within
  `MaxFaults`, which is what "once faults end" means.
- `RoomLifecycle`: time passes, the hourly timer fires, a sweep finishes, and a service that ended is started again.
  `Signaling`: polls, their answers and timeouts come, and two descriptions that match connect.
- `Mailbox`: processes that run keep running, windows and backoffs elapse, a run or a session's turn ends (with success,
  failure or having found the mailbox busy; never forced to be stopped), a listener's longest wait ends. Nothing forces an
  agent to read or to answer, or a listener to start.
- `Decisions`: devices poll, close what is due, sign what waits, and connect to each other again and again. Nobody has to
  vote, act or reload a page.
- `Reactions`, `Sync`, `Files`: timers fire, channels deliver and open again; uploads and verifications finish or fail.
- `Supervisor`: the daemon, the watcher and commands under way take their steps, the runner polls, backoffs end.
  `Outbox`: the runner takes every file in turn and is started again.
- `Session`: watchers go on, a run that is waited for ends, and the lease, the hold of a refused session
  and a room's backoff do; the operator answers a halt (binds again), without which a halted session wakes nobody.

### Findings

Each is a violation run whose property quotes what the repository says.

- `room_owner_frozen`: a leader that was frozen while its room was taken keeps a dead entry for it and never runs it
  again; the guide says the background gets a room back within seconds.
- `mailbox_late`: a run reads an item that arrived after its offer, answers what it was offered and fails: what it read
  beyond its offer is offered to nobody. The flow says such an item is covered by that wake or the next.
- `ledger_lock`: two watchers clear a crashed reclaimer's marker by its age, the slower one the other's new marker, and
  both take the ledger's lock.
- `decisions_pages`: a page whose close was made void by a newer vote never closes the decision again; the flow says the
  creator's device does.

### Seen without a run

Disagreements and gaps met while modelling; each was reproduced in a model or read in the code, none has a run of its
own. A property named here is in its module, unchecked.

*Work read and not answered.* A watcher that starts settles the wake its predecessor left and puts the cursor back
without looking at the lease (agent-watch.ts:1390). A live listener that attached since that run ended is in a slice that
started from the later cursor, and its timeout saves that one again (browser-agent.ts:1240): the item is offered to nobody,
though agent-watch.ts:1318–1321 says such items are offered again. `NoLostWork` fails so with one listener in the world
`{"restart"}`, and `PutBackUnread` with it.

*Turns and removals.* `OneAtATime` (`Session`) fails: a watcher that dies once its harness process started and before
`claim.started` (agent-watch.ts:1489) leaves that process beside the next room's wake, against the comment at
agent-watch.ts:1311; a run that outlives its lease does too, which the flow allows
(docs/flows/agent-room-watching.md:136–137). `KeepsPlace` (`Session`) fails: a refused room is put back in the line with
its place (agent-watch.ts:951) and withdrawn at its next look since it backs off, though agent-watch.ts:1313 and the flow
(142) say it keeps its place. `ComesBack` (`Supervisor`, under `FairSpec`) fails: the daemon reads the runner's proof
(agent-daemon.ts:410) before it moves `since` for a room that was connected again (421), so the proof the dead runner left
lets the room go once more (424), and one connected just before the minute of its removal is over is let go over the same
word; the flow (303) says a room let go stays so until a new `connect`.

*Agents.* After a sleep longer than a heartbeat is believed, a headless run starts beside a listener that still reads.
A binding change leaves `activeRun` though the comment at agent-watch.ts:1376 says otherwise (1395): the next watcher of
the new binding starts a wake beside that run. A listen that races compaction (comment at browser-agent.ts:220). A retry
of a task, reaction or message id after compaction signs again; a message dropped by the floor is answered as queued. Two
adjacent writes of a pickup at agent-live.ts:178; a runner lookup that finds no command line beside a stale proof; a
starter that crashes between spawning and writing the pid file. `recordHold` captures the record before it has the lock
(agents.ts:549–553), and an approval's record is written after the change is over (807): each may write over a later
change's record, which then says another session than the one bound.

*Rooms.* A command retried within 120 s is answered from its receipt though another command has changed its effect since
(client.ts:13–16). The operator's close of a departed agent's decision is void for those who heard of the departure late
(decisions.ts:106, docs/flows/decisions.md:54); a wake on consensus can be missed (decisions.ts:270). Reactions at the
cap when none can be removed (peers.ts:220 against 216–221). An agent name is protected from other agents, not from a
person who takes it afterwards; a member who was removed and let in again gets a new id, so their earlier changes verify
only from the list of retired keys, which is bounded.

*Desktop.* `setBound` failing after `bindChecked` leaves the approval waiting, and rejecting it says nothing was bound
(approvals.rs:590), and a resume, pause or unbind whose record is not written is answered as failed though the wakes are
on or off (agents.ts:540, 572, 617); the daemon may end between the two; a custom check or approval finishes after the window closed
(approvals.rs:499). A removed device can't ask again from the app (person.ts:145, 240; join.rs:75;
docs/browser-rooms.md:75); claimed holds count removed rooms; an interrupted or overlapping `person pair` leaves a device
linked to two persons; joining during an unpair leaves a room whose key is gone; `--anyway` covers rooms that became
sole-host after the plan; a stale admission.json makes the window report a failure right after asking anew. The local
page: a gap between two reads is closed only by a later one (local-source.ts:231–232, source.ts:61–64); its polls end
silently on 401 (118); a failed read is not retried until the next event; the room list has no one-at-a-time guard;
`markRead` sets `lastRead` before its call (285); an exception in `EventFeed.poll` after a push leaves waiters unwoken.
Notices: what waits at the start is lost to the app, whose first answer starts at the feed's end (notifications.ts:297);
a bucket deleted while quiet counts as one that never went out. Native node: a file whose serving stalls is not asked
for again (node.ts:536, docs/flows/attachments.md:69).

## What is proved

TLAPS checks these for all values of the constants, under the named assumptions of each module and the hypotheses shown.
Every theorem follows the same way: an inductive invariant, one lemma per action or group of actions, PTL at the end.

| Theorem | States | Hypothesis |
| --- | --- | --- |
| `Lobby_proofs`: `RoomCoherent`, `MembersCoherent`, `OperatorsStay` | `RecordCoherent` and its parts | |
| `Lobby_proofs`: `NamesDistinct`, `SharesNeverExceeded`, `EntitledOnly`, `LinkersOwn`, `HostHasTheSay`, `KeysOutlive` | `AgentNamesDistinct`, `SharesHold` (which `SharesKept` has of both instances), `ByRight`, `LinksOnlyAddToTheLinker`, `HostKeepsTheSay`, `KeysOutliveMembership` | |
| `RoomService_proofs`: `ActivityIsKnown`, `SweepsByRight`, `GoneForGood` | `ActivityKnown`, `SweptByRight`, `ClosedForGood` | |
| `RoomService_proofs`: `SignalsHappenOnce` | `SignalsOnce` | |
| `Delivery_proofs`: `MessagesAreSound`, `OutboxIsKept` | `MessagesSound`, `OutboxKept` | |
| `Mailbox_proofs`: `MailboxIsSound` | `MailboxSound` | `Calm` |
| `Mailbox_proofs`: `ReadIsNotLost` | `NothingLost` | `Calm`, `Steady` |
| `Mailbox_proofs`: `PutBackAlone` | `PutBackUnread` | `Calm`, `Steady`, `Apart` |
| `Decisions_proofs`: `VotesDroppedUnseen` | `CompactionHarmless` | |
| `Decisions_proofs`: `CertainOutcomesStay` | `OutcomesSound` | |
| `Safety_proofs`: `RoomOwned`, `RecordImplemented`, `OwnerComplete` | `OneOwner`, `RecordKept` | |
| `Safety_proofs`: `HandOversAreQuiet` | `NobodyFencedOut` | `~CanFreeze` |
| `Safety_proofs`: `LockExcludes` | `LockIsMutex`; where `~MaxAge`, all of `Mutex` | |
| `Safety_proofs`: `CommandsHappenOnce` | `CommandsOnce` | `LimitsMakeSense` |
| `Safety_proofs`: `ListensMissNothing` | `NothingSkipped` | `ListenLimits` |
| `Safety_proofs`: `DevicesKeepSound` | `DevicesSound` | `FilesLimits`, `ReactionLimits`, `BoardLimits` |
| `Agents_proofs`: `AgentsDoOnce` | `DoneOnce` | |

The hypotheses are conditions the code or the run really has. `~CanFreeze` is the case of the `browser` run: with
frozen pages an owner is fenced out by design. `LimitsMakeSense` and `ListenLimits` are the types of the limits,
`FilesLimits` and `ReactionLimits` also say that files, devices and messages are finitely many. `BoardLimits` adds that a
task is not changed more often than `MAX_REVISION_JUMP`, 1000: past that a device may refuse the recent steps of a
compacted board (the comment at board.ts:225 has this), and two devices need not agree.
`Calm` says no process is held for longer than twice `staleMs`, nor for longer than `staleMs` while it cannot be
inspected; `Steady` leaves out slips between two file writes of one step; `Apart` says that a watcher started again finds
no live listener (what happens otherwise is told above). The worlds of the `mailbox` run satisfy all three. `MCAgents`
assumes that a request id names one kind of change (`KindsAssumption`)
and that no room is called as the value for none is (`RoomsAssumption`).

The arguments:

- `Lobby`: none of its parts is inductive alone. A request admitted later must not name a device already inside, so
  pending requests and devices are disjoint (redeeming a link drops the request); the host is found because `ownerId` is
  a person with a device and removal refuses the last one; ids drawn are in `minted`, so a new member takes no id in use.
  `IInv` joins these. Shares (`SharesInv`) count with cardinalities of finite sets; kept keys need that the retired list
  drops its oldest entries only (`Subsequences_proofs`).
- `RoomOwner` (`ConnectionInv`, `FenceInv`, `DataInv`): an epoch is claimed once; a tab whose fence equals the epoch is
  the only one whose writes commit, and its copy equals what is stored until its one write in flight lands; so a commit
  adds exactly the message it says, and a receipt needs that commit.
- `RoomLifecycle`: the cache is never newer than the table, promises and idleness are bounded by the age of the row the
  sweep reads. The strengthening relates, for each room, the row's age to the cache's, to the date shown and to the
  unused time; a restart moves rows forward by the downtime and never past now, which keeps all three.
- `Signaling` (`SignalInv`): queues ascend, a session's handled signals are those of its epoch up to its cursor, and an
  answer under way holds exactly what waits past the cursor its epoch counts from (`SQueueInv`, `SHeardInv`,
  `SAnswerInv`).
- `Delivery` (`DeliveryInv`): both copies of the history are free of duplicates and every receipt in them or on the wire
  names a device that stored the message (`HistoryInv`, `WireInv`); what a running engine shows is on its disk. The window
  is cut by positions, whose lemmas (`PlaceGrows` to `LastPlaces`) are shared.
- `Mailbox`: the lease names the reader: a listener that reads either holds the lease with a heartbeat that is believed,
  or nobody else may claim; a run holds the mailbox by its claim, or as an orphan known to the next watcher. For
  `NothingLost` (`MailInv`) every item read, not answered and not dropped is above the cursor to be put back, in the
  lease's reoffer, in a wake's offer, in a run's hands, or flagged (`CursorInv`, `AwayInv`, `OfferInv`, `CarryInv`, `OwedInv`).
- `Decisions`: of the votes a device ever held it keeps each member's latest (`LatestHeld`); the fold depends on those
  only, so it is never unfolded. `OutcomeInv` adds that a close, signed or waiting at a page, pins one vote of each voter
  and names at least the people in the room and those whose votes it pins (`CountStands`), since whoever makes it counts
  its own view and the room only empties; so votes found later are of people it counted (`SettledLeads`), whichever close
  the chain has come to. It uses that a decision has two options and a room finitely many members (`DecisionsAssumption`).
- `Commands` (`CommandsInv`): what was carried out has its receipt until its time is over. `Listen` (`ListenInv`): every
  cursor a listen saves or plans covers what is below it (`Covers`). `Locks` (`LocksInv`): the file under the lock's name
  is its holder's, and only the marker's holder removes another's file.
- `Files` (`FilesInv`): a wrong chunk on its way, or in a file, is one that was really spoiled; a file that is being
  checked is fetched from nobody, so that no late chunk meets it; and every request, chunk and upload that counts belongs
  to a channel that is open. Asking anew fills what places are left (`PumpKeeps`).
- `Reactions` (`ReactionsInv`, which is `CapHolds` itself): of the operations that are taken and add a reaction, the one
  that comes last in their order had all the others before it and still found room (`CapKept`), and dropping what is
  superseded changes nothing that is live (`BoundedLive`).
- `Board` (`BoardInv`): a device holds the last change and the first step of all it was ever given, and a removal if
  there was one (`Keeps`), which unions and compaction preserve (`KeptWithMore`, `CompactKeeps`). Credit needs the step
  that set the assignee to be the same step in both (`KeepsCredit`): compaction keeps the step before it, which shows that
  the assignee was another then, and changes above all held change it alike (`CreditWithMore`). A task's revisions are no
  more than its changes, by counting ids.
- `Supervisor` (`SupInv`): a pid file names the one process that runs, or somebody is at a step that stops it first
  (`PidsName`, `StartsAlone`); `Session` (`TurnsHeld`): whoever runs, and is not adrift, has the turn. `Outbox`
  (`SignedIsKept`): a signed change is in the log, or among the decisions spent.

Only model-checked:

- everything temporal that needs fairness: liveness and ENABLED are out of the prover's reach;
- what the chain of revisions computes (`Current` in `Decisions`): recursion over revisions, of which the proofs use only
  that it picks an operation held; that devices agree on it is `Converge`;
- `DesktopSound`: see the plan;
- `ChangesSettle`, whose one safety part stands beside liveness.

## Plan

Modelled, checked and in part proved so far: the table above. Left, in order of what matters most:

1. Proofs: the parts of `DesktopSound`, by one invariant per part, in `Safety_proofs`.
2. Coverage of the large files whose control is only partly modelled: the commands of `agent-cli.ts`, the harness
   invocations of `agent-watch.ts`, `BrowserRooms.tsx`.
3. `Unread` (unread counts and read positions over several tabs), people who join a room while a decision is open,
   plan reviews.

## Not modelled

Inside modelled components: the choice among more than ten background rooms, restart backoff times and rooms that close
under a leader; caps on the number of rooms, restored backups and clocks that go backwards; file eviction that continues
after a room was halted; in `Session` runs that cannot be identified (`Watch` has them), live.lock being unavailable, and a kill between two adjacent
writes of a listener; a reaction log that is full; lookups that cannot tell what a process is; in the native node the
shared task board, profiles and discovery.

Whole components: see `PROJECT.json`; rendering, routing, the website, detectors and packaging keep no state these
properties are about. Signatures, key storage and SDP negotiation are taken from the platform.
