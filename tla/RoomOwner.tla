----------------------------- MODULE RoomOwner -----------------------------
(***************************************************************************)
(* Which tab of a browser profile runs one room: src/browser/background.ts *)
(* and storage.ts, with the parts of source.ts and peers.ts that take the  *)
(* room, write its records and let go of it.                               *)
(*                                                                         *)
(* A viewer is a tab that shows the room: it takes the room lock, then the *)
(* connection lock, stealing that from an owner that does not let go.  The *)
(* other tabs queue to be leader, and the leader runs the room in the      *)
(* background while no tab shows it.  Each owner claims the records by     *)
(* raising an epoch in the database, and every later write of it commits   *)
(* only while that epoch stands.  The one record here stands for the       *)
(* history, board, decisions, reactions, files and read position, which    *)
(* are all written through the same fenced transaction.                    *)
(***************************************************************************)
EXTENDS Integers, FiniteSets

CONSTANTS
  Viewer,     \* tabs that show this room
  Other,      \* tabs that show something else, each a candidate leader
  Message,    \* messages that may arrive or be sent
  None,       \* nobody
  CanFreeze,  \* TRUE: a tab may stay silent past TAKEOVER_MS
  MaxTurns    \* bound on openings, hand-overs, crashes, pauses and failures

ASSUME TabAssumption ==
  Viewer \cap Other = {} /\ None \notin Viewer \cup Other

ASSUME TurnAssumption == CanFreeze \in BOOLEAN /\ MaxTurns \in Nat

Tab == Viewer \cup Other

VARIABLES
  roomLock,  \* holder of meshrooms-room:<id>
  conn,      \* holder of meshrooms-connection:<id>
  robbed,    \* tabs whose connection lock was stolen and who have not heard
  leader,    \* holder of meshrooms-background
  pass,      \* where the leader's reconcile pass is
  rooms,     \* tabs whose `rooms` map has an entry for this room
  paused,    \* every tab hidden for HIDDEN_PAUSE_MS
  pc,        \* where each tab's work on the room is
  stopping,  \* tabs told to stop: `stopping` of a BackgroundRoom, `disposed`
  fence,     \* the epoch each tab claimed
  mem,       \* the history each tab's engine holds in memory
  tx,        \* write transactions in flight
  epoch,     \* owner:<device>:<room> in the database
  stored,    \* messages:<device>:<room> in the database
  acked,     \* messages confirmed to their authors
  turns      \* what MaxTurns bounds

vars == <<roomLock, conn, robbed, leader, pass, rooms, paused, pc, stopping,
          fence, mem, tx, epoch, stored, acked, turns>>
locks == <<roomLock, conn, robbed>>
lead == <<leader, pass, rooms, paused>>
data == <<fence, mem, tx, epoch, stored, acked>>

\* A put in flight: the owner's copy with one message more.
Write == [by : Tab, epoch : Nat, copy : SUBSET Message, adds : Message]

Running == {"loading", "live"}
Ending == {"closing", "fenced"}

TypeOK ==
  /\ roomLock \in Viewer \cup {None}
  /\ conn \in Tab \cup {None}
  /\ robbed \subseteq Other
  /\ leader \in Other \cup {None}
  /\ pass \in {"idle", "shown", "free", "stopping", "handover"}
  /\ rooms \subseteq Other
  /\ paused \in BOOLEAN
  /\ pc \in [Tab -> {"none", "queued", "granted", "lost"} \cup Running \cup Ending]
  /\ stopping \subseteq Tab
  /\ fence \in [Tab -> Nat]
  /\ mem \in [Tab -> SUBSET Message]
  /\ tx \subseteq Write
  /\ epoch \in Nat
  /\ stored \subseteq Message
  /\ acked \subseteq Message
  /\ turns \in 0..MaxTurns

Init ==
  /\ roomLock = None /\ conn = None /\ robbed = {}
  /\ leader = None /\ pass = "idle" /\ rooms = {} /\ paused = FALSE
  /\ pc = [t \in Tab |-> "none"] /\ stopping = {}
  /\ fence = [t \in Tab |-> 0] /\ mem = [t \in Tab |-> {}]
  /\ tx = {} /\ epoch = 0 /\ stored = {} /\ acked = {}
  /\ turns = 0

Turn == turns < MaxTurns /\ turns' = turns + 1

Become(t, state) == pc' = [pc EXCEPT ![t] = state]

\* mutant: a callback that returns frees the lock whoever holds it by now
FreeForAll(t) == conn' = None

\* The callback of a lock request returned: the lock is free, unless it had
\* been stolen in the meantime.
LetGo(t) == conn' = IF conn = t THEN None ELSE conn
LeaveRoom(t) == roomLock' = IF roomLock = t THEN None ELSE roomLock

\* The tab's engine and what it knew are gone; its writes in flight are not.
End(t, state) ==
  /\ Become(t, state)
  /\ stopping' = stopping \ {t}
  /\ fence' = [fence EXCEPT ![t] = 0]
  /\ mem' = [mem EXCEPT ![t] = {}]

InFlight(t) == {w \in tx : w.by = t /\ w.epoch = fence[t]}

(***************************************************************************)
(* A viewer: BrowserSource.open and holdConnection.                        *)
(***************************************************************************)

\* mutant: a second tab opens the room as well
OpenTwice(v) ==
  /\ Turn
  /\ pc[v] \in {"none", "lost"}
  /\ roomLock' = v
  /\ Become(v, "queued")
  /\ UNCHANGED <<conn, robbed, stopping, lead, data>>

\* The page opens the room, or reloads after losing it.  While another tab
\* shows it, the page only says so.
OpenRoom(v) ==
  /\ Turn
  /\ pc[v] \in {"none", "lost"} /\ roomLock = None
  /\ roomLock' = v
  /\ Become(v, "queued")
  /\ UNCHANGED <<conn, robbed, stopping, lead, data>>

\* Granted the connection.  A view disposed of meanwhile returns at once.
Enter(v) ==
  IF v \in stopping
  THEN End(v, "none") /\ conn' = None /\ roomLock' = None
  ELSE /\ Become(v, "granted") /\ conn' = v
       /\ UNCHANGED <<roomLock, stopping, fence, mem>>

Granted(v) ==
  /\ pc[v] = "queued" /\ conn = None
  /\ Enter(v)
  /\ UNCHANGED <<robbed, lead, tx, epoch, stored, acked, turns>>

\* No answer for TAKEOVER_MS: the connection lock is taken from its holder.
Steal(v) ==
  /\ CanFreeze
  /\ pc[v] = "queued" /\ conn # None
  /\ robbed' = robbed \cup {conn}
  /\ Enter(v)
  /\ UNCHANGED <<lead, tx, epoch, stored, acked, turns>>

\* The person leaves the room's page.
Dispose(v) ==
  /\ pc[v] \in {"queued", "granted"} \cup Running /\ v \notin stopping
  /\ stopping' = stopping \cup {v}
  /\ Become(v, IF pc[v] = "live" THEN "closing" ELSE pc[v])
  /\ UNCHANGED <<locks, lead, data, turns>>

(***************************************************************************)
(* The leader: BackgroundRooms.                                            *)
(***************************************************************************)

Lead(t) ==
  /\ leader = None
  /\ leader' = t
  /\ UNCHANGED <<locks, pass, rooms, paused, pc, stopping, data, turns>>

\* reconcileOnce asks which rooms are shown, then awaits storage.
Look ==
  /\ leader # None /\ pass = "idle"
  /\ pass' = IF roomLock # None \/ paused THEN "shown" ELSE "free"
  /\ UNCHANGED <<locks, leader, rooms, paused, pc, stopping, data, turns>>

\* halt(): the engine stops at once; a claim already asked for goes on.
Halt(t) ==
  IF pc[t] = "none" THEN UNCHANGED <<pc, stopping>>
  ELSE /\ stopping' = stopping \cup {t}
       /\ Become(t, IF pc[t] = "granted" THEN "granted" ELSE "closing")

\* mutant: a room that is shown is not started again, but never stopped
LeaveRunning ==
  /\ leader # None /\ pass = "shown" /\ pass' = "idle"
  /\ UNCHANGED <<locks, leader, rooms, paused, pc, stopping, data, turns>>

\* Not wanted: the entry goes first, then the room stops.
StopRoom ==
  /\ leader # None /\ pass = "shown"
  /\ IF leader \in rooms
     THEN rooms' = rooms \ {leader} /\ Halt(leader) /\ pass' = "stopping"
     ELSE pass' = "idle" /\ UNCHANGED <<rooms, pc, stopping>>
  /\ UNCHANGED <<locks, leader, paused, data, turns>>

\* room.done settles when the lock is let go, or was stolen.
Stopped ==
  /\ leader # None /\ pass = "stopping" /\ conn # leader
  /\ pass' = "idle"
  /\ UNCHANGED <<locks, leader, rooms, paused, pc, stopping, data, turns>>

\* mutant: the leader takes the connection from whoever has it
StartAnyway ==
  /\ leader # None /\ pass = "free"
  /\ leader \in rooms \/ (pc[leader] = "none" /\ leader \notin robbed)
  /\ pass' = "idle"
  /\ IF leader \notin rooms
     THEN /\ rooms' = rooms \cup {leader}
          /\ conn' = leader
          /\ Become(leader, "granted")
     ELSE UNCHANGED <<rooms, conn, pc>>
  /\ UNCHANGED <<roomLock, robbed, leader, paused, stopping, data, turns>>

\* Wanted: started unless the map has it already; the entry is dropped again
\* when another tab holds the connection.
StartRoom ==
  /\ leader # None /\ pass = "free"
  /\ leader \in rooms \/ (pc[leader] = "none" /\ leader \notin robbed)
  /\ pass' = "idle"
  /\ IF leader \notin rooms /\ conn = None
     THEN /\ rooms' = rooms \cup {leader}
          /\ conn' = leader
          /\ Become(leader, "granted")
     ELSE UNCHANGED <<rooms, conn, pc>>
  /\ UNCHANGED <<roomLock, robbed, leader, paused, stopping, data, turns>>

\* A hidden leader makes way for a visible tab: stopAll, then the lock.
HandOver ==
  /\ Turn
  /\ leader # None /\ pass = "idle" /\ Other # {leader}
  /\ pass' = "handover"
  /\ rooms' = rooms \ {leader}
  /\ IF leader \in rooms THEN Halt(leader) ELSE UNCHANGED <<pc, stopping>>
  /\ UNCHANGED <<locks, leader, paused, data>>

Resign ==
  /\ pass = "handover" /\ conn # leader
  /\ leader' = None /\ pass' = "idle"
  /\ UNCHANGED <<locks, rooms, paused, pc, stopping, data, turns>>

\* The thief's lock reaches the tab it was taken from: it halts quietly.
\* Writes it had started may still commit or abort.
Notice(t) ==
  /\ t \in robbed
  /\ robbed' = robbed \ {t}
  /\ IF pc[t] = "granted"
     THEN stopping' = stopping \cup {t} /\ UNCHANGED <<pc, fence, mem>>
     ELSE End(t, "none")
  /\ UNCHANGED <<roomLock, conn, lead, tx, epoch, stored, acked, turns>>

(***************************************************************************)
(* Owning the room: claimFence, then BackgroundRoom.run or open's loop.    *)
(***************************************************************************)

\* claimFence raises the epoch in one transaction.  A room halted meanwhile
\* does not go on, and lets go only now.
Claim(t) ==
  /\ pc[t] = "granted"
  /\ epoch' = epoch + 1
  /\ IF t \in Other /\ t \in stopping
     THEN End(t, "none") /\ LetGo(t)
     ELSE /\ Become(t, "loading")
          /\ fence' = [fence EXCEPT ![t] = epoch + 1]
          /\ UNCHANGED <<conn, mem, stopping>>
  /\ UNCHANGED <<roomLock, robbed, lead, tx, stored, acked, turns>>

\* Only then does the engine load what is stored.
Load(t) ==
  /\ pc[t] = "loading"
  /\ mem' = [mem EXCEPT ![t] = stored]
  /\ Become(t, IF t \in stopping THEN "closing" ELSE "live")
  /\ UNCHANGED <<locks, lead, stopping, fence, tx, epoch, stored, acked, turns>>

\* mutant: a room whose claim fails does not tell its leader
FailQuietly(t) ==
  /\ Turn
  /\ pc[t] \in {"granted", "loading"}
  /\ End(t, "none")
  /\ LetGo(t) /\ LeaveRoom(t)
  /\ UNCHANGED <<robbed, leader, pass, rooms, paused, tx, epoch, stored, acked>>

\* Storage fails while claiming or loading: a background room tells its
\* leader that it ended; an open room shows the error and lets go.
Fail(t) ==
  /\ Turn
  /\ pc[t] \in {"granted", "loading"}
  /\ End(t, "none")
  /\ LetGo(t) /\ LeaveRoom(t)
  /\ rooms' = rooms \ {t}
  /\ UNCHANGED <<robbed, leader, pass, paused, tx, epoch, stored, acked>>

\* save(): one write of the engine at a time, made of its own copy.
Save(t, m) ==
  /\ pc[t] = "live" /\ InFlight(t) = {} /\ m \notin mem[t]
  /\ tx' = tx \cup {[by |-> t, epoch |-> fence[t], copy |-> mem[t], adds |-> m]}
  /\ UNCHANGED <<locks, lead, pc, stopping, fence, mem, epoch, stored, acked,
                 turns>>

\* mutant: puts are not fenced
AlwaysStands(w) == TRUE

\* The epoch a write was started under is still the one in the database.
Stands(w) == w.epoch = epoch

\* The engine that started the write is still the tab's engine.
Own(w) == fence[w.by] = w.epoch

Commit(w) ==
  /\ Stands(w)
  /\ stored' = w.copy \cup {w.adds}
  /\ tx' = tx \ {w}
  /\ mem' = IF Own(w) THEN [mem EXCEPT ![w.by] = w.copy \cup {w.adds}] ELSE mem
  /\ UNCHANGED <<locks, lead, pc, stopping, fence, epoch, acked, turns>>

\* Another owner claimed the room since: nothing is written and put() stops
\* the engine for good.
FencedOut(w) ==
  /\ ~ Stands(w)
  /\ tx' = tx \ {w}
  /\ pc' = IF Own(w) /\ pc[w.by] = "live"
           THEN [pc EXCEPT ![w.by] = "fenced"] ELSE pc
  /\ UNCHANGED <<locks, lead, stopping, fence, mem, epoch, stored, acked, turns>>

\* The transaction aborts, out of space: nothing is written, the room goes on.
Abort(w) ==
  /\ Turn
  /\ tx' = tx \ {w}
  /\ UNCHANGED <<locks, lead, pc, stopping, fence, mem, epoch, stored, acked>>

\* mutant: the receipt does not wait for the transaction
ReceiptEarly(t, m) ==
  /\ pc[t] = "live" /\ m \notin acked
  /\ m \in mem[t] \/ \E w \in InFlight(t) : w.adds = m
  /\ acked' = acked \cup {m}
  /\ UNCHANGED <<locks, lead, pc, stopping, fence, mem, tx, epoch, stored, turns>>

\* A receipt goes out once the message is stored, and again whenever the
\* author repeats it.
Receipt(t, m) ==
  /\ pc[t] = "live" /\ m \in mem[t] /\ m \notin acked
  /\ acked' = acked \cup {m}
  /\ UNCHANGED <<locks, lead, pc, stopping, fence, mem, tx, epoch, stored, turns>>

\* close() waited for the engine's writes.  A background room that ended
\* without being told to says so, and is started again later.
Finish(t) ==
  /\ pc[t] \in Ending /\ InFlight(t) = {}
  /\ End(t, IF t \in Viewer /\ pc[t] = "fenced" THEN "lost" ELSE "none")
  /\ rooms' = IF pc[t] = "fenced" THEN rooms \ {t} ELSE rooms
  /\ LetGo(t) /\ LeaveRoom(t)
  /\ UNCHANGED <<robbed, leader, pass, paused, tx, epoch, stored, acked, turns>>

(***************************************************************************)
(* The browser and the person.                                             *)
(***************************************************************************)

\* The tab is closed or killed: the browser frees its locks, and what it had
\* not committed is gone.
Crash(t) ==
  /\ Turn
  /\ End(t, "none")
  /\ LetGo(t) /\ LeaveRoom(t)
  /\ robbed' = robbed \ {t}
  /\ leader' = IF leader = t THEN None ELSE leader
  /\ pass' = IF leader = t THEN "idle" ELSE pass
  /\ rooms' = rooms \ {t}
  /\ tx' = {w \in tx : w.by # t}
  /\ UNCHANGED <<paused, epoch, stored, acked>>

\* The last visible tab is hidden for five minutes, or one is visible again.
Pause ==
  /\ paused \/ Turn
  /\ paused => UNCHANGED turns
  /\ paused' = ~ paused
  /\ UNCHANGED <<locks, leader, pass, rooms, pc, stopping, data>>

Viewing(v) == Granted(v) \/ Steal(v)
Engine(t) == Claim(t) \/ Load(t) \/ Finish(t)
Writing == \E w \in tx : Commit(w) \/ FencedOut(w)
Leading ==
  (\E t \in Other : Lead(t)) \/ Look \/ StopRoom \/ Stopped \/ StartRoom \/ Resign
Environment ==
  \/ \E v \in Viewer : OpenRoom(v) \/ Dispose(v)
  \/ \E t \in Tab : Fail(t) \/ Crash(t)
  \/ \E t \in Tab, m \in Message : Save(t, m) \/ Receipt(t, m)
  \/ \E w \in tx : Abort(w)
  \/ HandOver \/ Pause

Next ==
  \/ Environment
  \/ Leading
  \/ Writing
  \/ \E v \in Viewer : Viewing(v)
  \/ \E t \in Tab : Engine(t)
  \/ \E t \in Other : Notice(t)

Spec == Init /\ [][Next]_vars

\* Timers, promises and transactions settle sooner or later, in every tab: a
\* frozen tab thaws.  People, crashes and traffic owe nothing.
Fairness ==
  /\ WF_vars(Leading)
  /\ WF_vars(Writing)
  /\ \A v \in Viewer : WF_vars(Viewing(v))
  /\ \A t \in Tab : WF_vars(Engine(t))
  /\ \A t \in Other : WF_vars(Notice(t))

FairSpec == Spec /\ Fairness

(***************************************************************************)
(* Properties.                                                             *)
(***************************************************************************)

\* What the tabs do together is what one browser promises its peers: a late
\* or stale owner never writes an older copy of the history over a newer one,
\* and no message is confirmed that is not, or does not stay, stored
\* (claimFence, the check inside save(), the receipt after put).
Record == INSTANCE RoomRecord WITH Message <- Message, stored <- stored, acked <- acked
RecordKept == Record!Spec

\* One tab at a time polls and connects in this room: any other engine still
\* going lost its lock to a thief and has not heard yet.
OneConnection ==
  \A t \in Tab : pc[t] \in Running \cup Ending => conn = t \/ t \in robbed

\* The owner shows everything that is stored: whoever takes the room over
\* loads after the last write of its predecessor.
OwnerIsComplete ==
  \A t \in Tab : pc[t] = "live" /\ fence[t] = epoch => mem[t] = stored

\* One tab owns a room, and knows all of it.
OneOwner == TypeOK /\ OneConnection /\ OwnerIsComplete

\* While every tab answers in time, handing a room over never fences a tab
\* out, so nobody is shown the Reload notice.
NobodyFencedOut == \A t \in Tab : pc[t] \notin {"fenced", "lost"}

\* A tab that opens the room does get it: it shows it, unless the person
\* leaves, the tab dies or storage fails.
ViewerGetsRoom == \A v \in Viewer : pc[v] = "queued" ~> pc[v] # "queued"

Background == \E t \in Other : pc[t] = "live"

\* docs/browser-rooms.md: a tab that closes gives its room back to the
\* background.  Once no tab shows the room, the leader comes to run it and
\* keeps running it.
BackgroundTakesOver == <>[](roomLock = None /\ ~ paused) => <>[]Background
=============================================================================
