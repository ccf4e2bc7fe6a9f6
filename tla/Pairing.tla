-------------------------------- MODULE Pairing --------------------------------
(***************************************************************************)
(* The person of a computer: paired with a browser, joining rooms from     *)
(* links, unpaired (src/desktop/src-tauri/src/pair.rs and join.rs,         *)
(* src/server/person.ts, src/src/browser/DesktopPairing.tsx).  Each of the *)
(* two windows follows a command of the bridge, which may be stopped at    *)
(* its limit; a command reads what a room's runner last wrote, and asks    *)
(* the room service one room after the other, while the browser and the    *)
(* hosts go on.  A link's secret stands for the browser that made it; all  *)
(* rooms are of one room service.                                          *)
(***************************************************************************)
EXTENDS Naturals, FiniteSets
CONSTANTS Room, Secret, Nothing, MaxWrong, MaxLinks, MaxJoins, MaxTrouble

VARIABLES
  request, member, sole,     \* at the service: waiting, whose device, only host
  key, paired, listed, heard,   \* the person's folder; what a runner last wrote
  pair, unpair, titling,     \* the pairing window; titles being read
  join,                      \* the join window
  pairing, unpairing, joining,  \* the bridge's commands
  links, joins, trouble,
  torn, orphaned             \* a claim nobody holds to; left with no key

service == <<request, member, sole>>
folder == <<key, paired, listed, heard>>
windows == <<pair, unpair, titling, join>>
commands == <<pairing, unpairing, joining>>
budget == <<links, joins, trouble>>
ghosts == <<torn, orphaned>>
person == <<service, folder, windows, commands, budget, ghosts>>

Ids == 1..MaxLinks
PersonInit ==
  /\ request = [r \in Room |-> Nothing] /\ member = [r \in Room |-> Nothing] /\ sole = {}
  /\ key = FALSE /\ paired = Nothing /\ listed = {} /\ heard = [r \in Room |-> "none"]
  /\ pair = Nothing /\ unpair = Nothing /\ titling = {} /\ join = Nothing
  /\ pairing = [i \in Ids |-> Nothing] /\ unpairing = Nothing /\ joining = Nothing
  /\ links \in 0..MaxLinks /\ joins \in 0..MaxJoins /\ trouble = 0 /\ torn = FALSE /\ orphaned = {}

Trouble == trouble < MaxTrouble /\ trouble' = trouble + 1 /\ UNCHANGED <<links, joins>>

(* roomState: what the windows and the claim go by.  A device that was      *)
(* removed keeps the record of its membership (members.json).               *)
InRecord(r) == heard[r] \in {"joined", "removed"}
State(r) == CASE heard[r] = "joined" -> "joined"
              [] heard[r] \in {"removed", "ended"} -> "failed"
              [] OTHER -> "waiting"
ClaimHolds == \E r \in listed : InRecord(r) \/ heard[r] = "waiting"

Unpairs(at) == unpairing # Nothing /\ unpairing.at = at
(* the runner of a listed room, the host, the browsers *)
Hears(r) ==
  /\ r \in listed /\ ~Unpairs("delete")
  /\ heard' = [heard EXCEPT ![r] =
       IF member[r] # Nothing THEN "joined"
       ELSE IF request[r] # Nothing THEN "waiting"
       ELSE IF InRecord(r) THEN "removed" ELSE IF @ = "waiting" THEN "ended" ELSE @]
  /\ UNCHANGED <<service, key, paired, listed, windows, commands, budget, ghosts>>
Links(s, r) ==
  /\ request[r] # Nothing /\ request[r].proof = s /\ ~request[r].linked
  /\ \/ request' = [request EXCEPT ![r].linked = TRUE] /\ UNCHANGED member
     \/ request' = [request EXCEPT ![r] = Nothing] /\ member' = [member EXCEPT ![r] = s]
  /\ UNCHANGED <<sole, folder, windows, commands, budget, ghosts>>
Decides(r) ==
  /\ request[r] # Nothing /\ request' = [request EXCEPT ![r] = Nothing]
  /\ \/ (request[r].linked \/ request[r].proof = "self") /\ member' = [member EXCEPT ![r] = request[r].proof] /\ UNCHANGED budget
     \/ Trouble /\ UNCHANGED member
  /\ UNCHANGED <<sole, folder, windows, commands, ghosts>>
Removes(r) ==
  /\ member[r] # Nothing /\ r \notin sole /\ Trouble /\ member' = [member EXCEPT ![r] = Nothing]
  /\ UNCHANGED <<request, sole, folder, windows, commands, ghosts>>
OthersGo(r) ==
  /\ member[r] # Nothing /\ r \notin sole /\ Trouble /\ sole' = sole \cup {r}
  /\ UNCHANGED <<request, member, folder, windows, commands, ghosts>>

(* Pairing::live: a pairing that is over in time holds off nothing, though  *)
(* its command may still run                                               *)
Working == unpair # Nothing /\ unpair.stage = "working"
Live == Working \/ (pair # Nothing /\ ~pair.old /\ pair.stage \notin {"done", "failed"})
Offer(s) ==
  /\ ~Live /\ links < MaxLinks /\ links' = links + 1
  /\ pair' = [id |-> links + 1, secret |-> s, stage |-> "asking", wrong |-> 0, titled |-> FALSE,
              old |-> FALSE, shown |-> [r \in Room |-> "waiting"]]
  /\ unpair' = Nothing
  /\ UNCHANGED <<service, folder, titling, join, commands, joins, trouble, ghosts>>
GrowsOld ==
  /\ pair # Nothing /\ ~pair.old /\ pair.stage \notin {"done", "failed"} /\ Trouble
  /\ pair' = [pair EXCEPT !.old = TRUE]
  /\ UNCHANGED <<service, folder, unpair, titling, join, commands, ghosts>>
At(stage) == pair # Nothing /\ pair.stage = stage
\* A step of a pairing that is over in time ends it.
Expires == pair.old /\ pair' = Nothing
Verify(right) ==
  /\ At("asking")
  /\ \/ Expires /\ UNCHANGED titling
     \/ /\ ~pair.old /\ right /\ pair' = [pair EXCEPT !.stage = "reviewing"]
        /\ titling' = titling \cup {pair.id}
     \/ /\ ~pair.old /\ ~right /\ UNCHANGED titling
        /\ pair' = IF pair.wrong + 1 >= MaxWrong THEN Nothing ELSE [pair EXCEPT !.wrong = @ + 1]
  /\ UNCHANGED <<service, folder, unpair, join, commands, budget, ghosts>>
AnyCurrent(i) == pair # Nothing \* mutant
Current(i) == pair # Nothing /\ pair.id = i
Titles(i) ==
  /\ titling' = titling \ {i}
  /\ pair' = IF Current(i) THEN [pair EXCEPT !.titled = TRUE] ELSE pair
  /\ UNCHANGED <<service, folder, unpair, join, commands, budget, ghosts>>
Confirm ==
  /\ At("reviewing")
  /\ \/ Expires /\ UNCHANGED <<pairing, torn>>
     \/ /\ ~pair.old /\ pair.titled /\ pair' = [pair EXCEPT !.stage = "sending"]
        /\ pairing' = [pairing EXCEPT ![pair.id] =
             [secret |-> pair.secret, at |-> "claim", had |-> FALSE, todo |-> Room, done |-> [r \in {} |-> ""]]]
        /\ torn' = (torn \/ \E i \in Ids : pairing[i] # Nothing)
  /\ UNCHANGED <<service, folder, unpair, titling, join, unpairing, joining, budget, orphaned>>
\* The window is closed, or Reject pressed: what was sent stays.
Close ==
  /\ pair # Nothing \/ unpair # Nothing
  /\ pair' = IF pair # Nothing /\ pair.stage \in {"sending", "waiting"} THEN pair ELSE Nothing
  /\ unpair' = IF Working \/ (pair # Nothing /\ pair' = pair) THEN unpair ELSE Nothing
  /\ UNCHANGED <<service, folder, titling, join, commands, budget, ghosts>>

(* pairRooms, one step for a room it asks in *)
Runs(i, at) == pairing[i] # Nothing /\ pairing[i].at = at
\* sent, and the follower after it.
Sent(i, stage, shown) ==
  pair' = IF Current(i) THEN [pair EXCEPT !.stage = stage, !.shown = [r \in Room |-> IF r \in DOMAIN shown THEN shown[r] ELSE @[r]]] ELSE pair
AnotherClaim(s) == FALSE \* mutant
Claimed(s) == paired # Nothing /\ ClaimHolds /\ paired # s
Claim(i) ==
  /\ Runs(i, "claim")
  /\ \/ /\ Claimed(pairing[i].secret) /\ pairing' = [pairing EXCEPT ![i] = Nothing]
        /\ Sent(i, "failed", <<>>) /\ UNCHANGED <<key, paired, torn>>
     \/ /\ ~Claimed(pairing[i].secret) /\ key' = TRUE
        /\ paired' = IF ClaimHolds THEN paired ELSE Nothing
        /\ pairing' = [pairing EXCEPT ![i].at = "ask", ![i].had = paired' # Nothing]
        \* Lapsed, but a room has the request or the device still.
        /\ torn' = (torn \/ (paired # Nothing /\ ~ClaimHolds /\ \E r \in Room : request[r] # Nothing \/ member[r] # Nothing))
        /\ UNCHANGED pair
  /\ UNCHANGED <<service, listed, heard, unpair, titling, join, unpairing, joining, budget, orphaned>>
Asked(r, proof) ==
  IF request[r] # Nothing /\ (request[r].linked \/ proof = "self") THEN request
  ELSE [request EXCEPT ![r] = [proof |-> proof, linked |-> FALSE]]
Answers(i, r, result) ==
  pairing' = [pairing EXCEPT ![i].todo = @ \ {r}, ![i].done = [q \in DOMAIN @ \cup {r} |-> IF q = r THEN result ELSE @[q]]]
Ask(i, r) ==
  /\ Runs(i, "ask") /\ r \in pairing[i].todo /\ key
  /\ \/ /\ InRecord(r) \/ member[r] # Nothing
        /\ Answers(i, r, "joined") /\ UNCHANGED <<request, budget>> /\ listed' = listed \cup {r}
     \/ /\ ~InRecord(r) /\ member[r] = Nothing
        /\ request' = Asked(r, pairing[i].secret)
        /\ Answers(i, r, "waiting") /\ UNCHANGED budget /\ listed' = listed \cup {r}
     \/ Trouble /\ Answers(i, r, "failed") /\ UNCHANGED <<request, listed>>
  /\ torn' = (torn \/ unpairing # Nothing)
  /\ UNCHANGED <<member, sole, key, paired, heard, windows, unpairing, joining, orphaned>>
Ok(i) == \E r \in DOMAIN pairing[i].done : pairing[i].done[r] # "failed"
PairEnds(i) ==
  /\ Runs(i, "ask") /\ pairing[i].todo = {} /\ key
  /\ paired' = IF ~pairing[i].had /\ Ok(i) THEN pairing[i].secret ELSE paired
  /\ pairing' = [pairing EXCEPT ![i] = Nothing] /\ Sent(i, "waiting", pairing[i].done)
  /\ UNCHANGED <<service, key, listed, heard, unpair, titling, join, unpairing, joining, budget, ghosts>>
\* Stopped at its limit, or out of its folder: nothing is claimed.
PairStopped(i) ==
  /\ pairing[i] # Nothing /\ ((~key /\ pairing[i].at = "ask" /\ UNCHANGED budget) \/ Trouble)
  /\ pairing' = [pairing EXCEPT ![i] = Nothing] /\ Sent(i, "failed", <<>>)
  /\ torn' = (torn \/ Ok(i))
  /\ UNCHANGED <<service, folder, unpair, titling, join, unpairing, joining, orphaned>>
Follow ==
  /\ At("waiting")
  /\ LET shown == [r \in Room |-> IF r \in listed THEN State(r) ELSE pair.shown[r]]
         joined == \E r \in Room : shown[r] = "joined"
     IN pair' = [pair EXCEPT !.shown = shown,
                  !.stage = IF ~pair.old /\ \E r \in Room : shown[r] = "waiting" THEN "waiting"
                            ELSE IF joined THEN "done" ELSE "failed"]
  /\ UNCHANGED <<service, folder, unpair, titling, join, commands, budget, ghosts>>

(* unpairing *)
Sole == {r \in listed : r \in sole /\ member[r] # Nothing}
AskUnpair ==
  /\ key /\ ~Live /\ pair' = Nothing /\ unpair' = [stage |-> "confirm", named |-> Sole]
  /\ UNCHANGED <<service, folder, titling, join, commands, budget, ghosts>>
StartUnpair ==
  /\ unpair # Nothing /\ unpair.stage \in {"confirm", "failed"} /\ key
  /\ unpair' = [unpair EXCEPT !.stage = "working"]
  /\ unpairing' = [at |-> "settle", todo |-> listed, kept |-> {}, failed |-> FALSE]
  /\ UNCHANGED <<service, folder, pair, titling, join, pairing, joining, budget, ghosts>>
\* In each room this device leaves, or cancels its request.
Settle(r) ==
  /\ Unpairs("settle") /\ r \in unpairing.todo
  /\ LET to(k, f) == unpairing' = [unpairing EXCEPT !.todo = @ \ {r}, !.kept = @ \cup k, !.failed = @ \/ f]
     IN \/ /\ r \in Sole /\ UNCHANGED <<request, member, sole, budget>>
           /\ IF unpair.named # {} THEN to({r}, FALSE) ELSE to({}, TRUE)
        \/ /\ r \notin Sole /\ to({}, FALSE) /\ UNCHANGED <<sole, budget>>
           /\ member' = [member EXCEPT ![r] = Nothing] /\ request' = [request EXCEPT ![r] = Nothing]
        \/ Trouble /\ to({}, TRUE) /\ UNCHANGED service
  /\ UNCHANGED <<folder, windows, pairing, joining, ghosts>>
SettledAnyway == unpairing.todo = {} \* mutant
Settled == unpairing.todo = {} /\ ~unpairing.failed
Unpaired(stage) == unpairing' = Nothing /\ unpair' = IF Working THEN [unpair EXCEPT !.stage = stage] ELSE unpair
StopRunners ==
  /\ Unpairs("settle") /\ Settled /\ unpairing' = [unpairing EXCEPT !.at = "delete"]
  /\ UNCHANGED <<service, folder, windows, pairing, joining, budget, ghosts>>
Delete ==
  /\ Unpairs("delete") /\ Unpaired("done")
  /\ key' = FALSE /\ paired' = Nothing /\ listed' = {} /\ heard' = [r \in Room |-> "none"]
  \* Another key is another device to the rooms.
  /\ orphaned' = {r \in Room : member[r] # Nothing \/ request[r] # Nothing} \ unpairing.kept
  /\ member' = [r \in Room |-> Nothing] /\ request' = [r \in Room |-> Nothing] /\ sole' = {}
  /\ UNCHANGED <<pair, titling, join, pairing, joining, budget, torn>>
\* A room that can't be left, a runner that runs on, the command's limit.
NotUnpaired ==
  /\ unpairing # Nothing /\ ((unpairing.todo = {} /\ unpairing.failed /\ UNCHANGED budget) \/ Trouble)
  /\ Unpaired("failed")
  /\ UNCHANGED <<service, folder, pair, titling, join, pairing, joining, ghosts>>

(* joining, as this computer's person *)
JoinLive == join # Nothing /\ join.stage \in {"confirm", "sending", "waiting"}
JoinOffer(r) ==
  /\ ~JoinLive /\ joins < MaxJoins /\ joins' = joins + 1
  /\ join' = [room |-> r, stage |->
       IF r \in listed /\ heard[r] = "joined" THEN "done"
       ELSE IF r \in listed /\ heard[r] \in {"none", "waiting"} THEN "waiting"
       ELSE IF paired = Nothing THEN "failed" ELSE "confirm"]
  /\ UNCHANGED <<service, folder, pair, unpair, titling, commands, links, trouble, ghosts>>
JoinAt(stage) == join # Nothing /\ join.stage = stage
PressJoin ==
  /\ JoinAt("confirm") /\ joining = Nothing /\ join' = [join EXCEPT !.stage = "sending"] /\ joining' = join.room
  /\ UNCHANGED <<service, folder, pair, unpair, titling, pairing, unpairing, budget, ghosts>>
\* joinRoom; its answer goes to the window if that still waits for it.
JoinRuns ==
  /\ joining # Nothing /\ joining' = Nothing
  /\ LET tells(stage) == join' = IF JoinAt("sending") THEN [join EXCEPT !.stage = stage] ELSE join
     IN \/ /\ key /\ (InRecord(joining) \/ member[joining] # Nothing)
           /\ tells("done") /\ listed' = listed \cup {joining} /\ UNCHANGED <<request, budget>>
        \/ /\ key /\ ~InRecord(joining) /\ member[joining] = Nothing
           /\ request' = Asked(joining, "self") /\ listed' = listed \cup {joining}
           /\ tells("waiting") /\ UNCHANGED budget
        \/ ((~key /\ UNCHANGED budget) \/ Trouble) /\ tells("failed") /\ UNCHANGED <<request, listed>>
  /\ torn' = (torn \/ unpairing # Nothing)
  /\ UNCHANGED <<member, sole, key, paired, heard, pair, unpair, titling, pairing, unpairing, orphaned>>
JoinFollow ==
  /\ JoinAt("waiting") /\ join.room \in listed
  /\ join' = [join EXCEPT !.stage = CASE State(join.room) = "joined" -> "done" [] State(join.room) = "failed" -> "failed" [] OTHER -> @]
  /\ UNCHANGED <<service, folder, pair, unpair, titling, commands, budget, ghosts>>
\* Cancelled, or over in time: its request stays.
JoinEnds ==
  /\ JoinLive /\ join' = Nothing
  /\ UNCHANGED <<service, folder, pair, unpair, titling, commands, budget, ghosts>>

PersonNext ==
  \/ \E r \in Room :
       \/ Hears(r) \/ Decides(r) \/ Removes(r) \/ OthersGo(r) \/ Settle(r) \/ JoinOffer(r)
       \/ \E s \in Secret : Links(s, r)
       \/ \E i \in Ids : Ask(i, r)
  \/ \E s \in Secret : Offer(s)
  \/ \E i \in Ids : (i \in titling /\ Titles(i)) \/ Claim(i) \/ PairEnds(i) \/ PairStopped(i)
  \/ \E right \in BOOLEAN : Verify(right)
  \/ GrowsOld \/ Confirm \/ Close \/ Follow
  \/ AskUnpair \/ StartUnpair \/ StopRunners \/ Delete \/ NotUnpaired
  \/ PressJoin \/ JoinRuns \/ JoinFollow \/ JoinEnds

-----------------------------------------------------------------------------
\* A person is never asked to press Pair before the rooms of that very pairing
\* were listed for them.
PressedOnSight == pair # Nothing /\ pair.titled => pair.id \notin titling
\* The devices of a paired computer are one person's: every room that took it
\* as a companion took it as one of the browser it is paired with; but after a
\* command that ended between asking and claiming, two at once, or a claim
\* given up while a request was out.
OnePerson == ~torn => \A r \in Room : member[r] \in Secret /\ key => \A q \in Room : member[q] \in Secret => member[q] = member[r]
\* The key goes only when no room has the device or its request, but those the
\* person chose to leave without a host.
LeftClean == ~torn => orphaned = {}
PersonSound == PressedOnSight /\ OnePerson /\ LeftClean
=============================================================================
