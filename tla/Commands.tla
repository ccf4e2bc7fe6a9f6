------------------------------ MODULE Commands ------------------------------
(***************************************************************************)
(* How a person's command happens once though its answer may be lost: the  *)
(* page's calls and the ids it keeps for retries (src/browser/client.ts,   *)
(* BrowserRooms.tsx), the HTTP layer's limits (server/browser/http.ts) and *)
(* the receipts of the room service (server/browser/lobby.ts), which live  *)
(* for two minutes.  The host of one room creates it with an invite code,  *)
(* changes it and deletes it; whoever tries again goes on with the same room.*)
(*                                                                         *)
(* Time is counted in minutes: a command is valid for Window around its    *)
(* time, by a clock that may be off by Skew, and a receipt is kept for     *)
(* Keep after it was written.                                              *)
(***************************************************************************)
EXTENDS Integers, FiniteSets

CONSTANTS
  Setting,       \* changes to the room
  Window,       \* 60 s
  Keep,         \* 120 s
  Skew,         \* how far the page's clock may be off
  Uses,         \* creations the invite code is good for
  CreateLimit,  \* creations an address may attempt in an hour
  MaxTime,      \* bound on time
  MaxIds,       \* bound on the ids drawn
  MaxNet        \* bound on commands on their way

Wish == {"create", "close"} \cup Setting
Nothing == "none"

VARIABLES
  now,        \* Date.now() of the service
  call,       \* page: the call it waits for
  pending,    \* page: BrowserApi.pending, the id kept for each wish, 0 if none
  wanted,     \* page: the stored 'pending-create', whether the room is still to be made
  ids,        \* page: how many ids it drew
  net,        \* commands on their way
  reply,      \* the answer on its way to the call
  receipts,   \* service: receipts
  room,       \* service: whether the room exists
  remaining,  \* service: uses left on the invite code
  charged,    \* service: creations this address was charged, in memory
  log         \* history: commands carried out, with their times

vars == <<now, call, pending, wanted, ids, net, reply, receipts, room,
          remaining, charged, log>>
page == <<call, pending, wanted, ids>>
store == <<receipts, room, remaining>>

NoCall == [wish |-> Nothing, id |-> 0, at |-> 0]
Answer == {"ok", "refused", "error"}

TypeOK ==
  /\ now \in 0..MaxTime /\ ids \in 0..MaxIds
  /\ call \in [wish : Wish \cup {Nothing}, id : Nat, at : Int]
  /\ pending \in [Wish -> 0..MaxIds]
  /\ net \subseteq [wish : Wish, id : 1..MaxIds, at : Int]
  /\ reply \in Answer \cup {Nothing}
  /\ receipts \subseteq [id : 1..MaxIds, at : Nat]
  /\ room \in {"absent", "open", "closed"}
  /\ wanted \in BOOLEAN
  /\ remaining \in 0..Uses /\ charged \in 0..CreateLimit
  /\ log \subseteq [id : 1..MaxIds, at : Nat]

Init ==
  /\ now = 0 /\ ids = 0
  /\ call = NoCall /\ reply = Nothing
  /\ pending = [w \in Wish |-> 0]
  /\ net = {} /\ receipts = {} /\ log = {} /\ charged = 0
  /\ wanted \in BOOLEAN \* still to be made, or made long ago
  /\ room = IF wanted THEN "absent" ELSE "open"
  /\ remaining = IF wanted THEN Uses ELSE Uses - 1

Tick ==
  /\ now < MaxTime
  /\ now' = now + 1
  /\ UNCHANGED <<page, net, reply, store, charged, log>>

-----------------------------------------------------------------------------
(* The page: one call at a time.                                           *)

(* A wish whose answer was never heard keeps its id, however old it is.       *)
IdFor(w) == IF pending[w] # 0 THEN pending[w] ELSE ids + 1

Submit(w) ==
  /\ call = NoCall
  /\ w = "create" => wanted
  /\ IdFor(w) <= MaxIds /\ Cardinality(net) < MaxNet
  /\ \E at \in (now - Skew)..(now + Skew) : call' = [wish |-> w, id |-> IdFor(w), at |-> at]
  /\ ids' = IF IdFor(w) > ids THEN ids + 1 ELSE ids
  /\ pending' = [pending EXCEPT ![w] = IdFor(w)]
  /\ net' = net \cup {call'}
  /\ UNCHANGED <<now, wanted, reply, store, charged, log>>

(* No answer within ten seconds: the command may still arrive.  Any answer but a
   server error ends the wish; a creation that was made all the same is found by
   asking for the room (if that question is answered).                         *)
Found == wanted' \in {wanted, wanted /\ room # "open"}

GiveUp ==
  /\ call # NoCall
  /\ call' = NoCall /\ reply' = Nothing
  /\ IF call.wish = "create" THEN Found ELSE UNCHANGED wanted
  /\ UNCHANGED <<now, pending, ids, net, store, charged, log>>

Hear ==
  /\ reply # Nothing
  /\ call' = NoCall /\ reply' = Nothing
  /\ pending' = IF reply = "error" THEN pending ELSE [pending EXCEPT ![call.wish] = 0]
  /\ IF call.wish # "create" THEN UNCHANGED wanted
     ELSE IF reply = "ok" THEN wanted' = FALSE
     ELSE Found
  /\ UNCHANGED <<now, ids, net, store, charged, log>>

(* A page that is opened again remembers no call.                             *)
Reload ==
  /\ call' = NoCall /\ reply' = Nothing
  /\ pending' = [w \in Wish |-> 0]
  /\ UNCHANGED <<now, wanted, ids, net, store, charged, log>>

-----------------------------------------------------------------------------
(* The service.                                                            *)

Answered(e) == \E r \in receipts : r.id = e.id

(* A creation counts against its address unless it was answered before.       *)
Charge(e) ==
  IF e.wish = "create" /\ ~Answered(e) THEN
    /\ charged < CreateLimit
    /\ charged' = charged + 1
  ELSE UNCHANGED charged

InTime(e) == e.at - now \in -Window..Window

CreateAnyway(w) == \* mutant: the room and the closed rooms are not looked up
  IF w = "create" THEN remaining > 0 ELSE room = "open"
CanDo(w) ==
  IF w = "create" THEN room = "absent" /\ remaining > 0 ELSE room = "open"

Do(w) ==
  /\ room' = CASE w = "create" -> "open" [] w = "close" -> "closed" [] OTHER -> room
  /\ remaining' = IF w = "create" THEN remaining - 1 ELSE remaining

(* Receipts past their time go before the new one is written.                 *)
NothingKept(e) == {[id |-> e.id, at |-> now]} \* mutant
Receipts(e) ==
  {r \in receipts : r.at >= now - Keep} \cup {[id |-> e.id, at |-> now]}

Answers(e, a) == reply' = IF e = call THEN a ELSE reply

CarryOut(e) ==
  /\ InTime(e) /\ ~Answered(e) /\ CanDo(e.wish)
  /\ Charge(e)
  /\ Do(e.wish)
  /\ receipts' = Receipts(e)
  /\ log' = log \cup {[id |-> e.id, at |-> now]}
  /\ Answers(e, "ok")

(* A command answered before gets the same answer again.                      *)
Repeat(e) ==
  /\ InTime(e) /\ Answered(e)
  /\ Answers(e, "ok")
  /\ UNCHANGED <<store, charged, log>>

Refuse(e) ==
  /\ \/ e.wish = "create" /\ ~Answered(e) /\ charged = CreateLimit /\ UNCHANGED charged
     \/ /\ ~InTime(e) \/ (~Answered(e) /\ ~CanDo(e.wish))
        /\ Charge(e)
  /\ Answers(e, "refused")
  /\ UNCHANGED <<store, log>>

(* The transaction fails for a reason of its own and leaves nothing.          *)
Fail(e) ==
  /\ Charge(e)
  /\ Answers(e, "error")
  /\ UNCHANGED <<store, log>>

Arrive(e) ==
  /\ CarryOut(e) \/ Repeat(e) \/ Refuse(e) \/ Fail(e)
  /\ net' = net \ {e}
  /\ UNCHANGED <<now, page>>

Lose(e) ==
  /\ net' = net \ {e}
  /\ UNCHANGED <<now, page, reply, store, charged, log>>

(* Receipts survive a restart of the service, charges do not.                 *)
Restart ==
  /\ charged' = 0
  /\ UNCHANGED <<now, page, net, reply, store, log>>

Next ==
  \/ Tick \/ GiveUp \/ Hear \/ Reload \/ Restart
  \/ \E w \in Wish : Submit(w)
  \/ \E e \in net : Arrive(e) \/ Lose(e)

Spec == Init /\ [][Next]_vars

-----------------------------------------------------------------------------
(* "A retried create uses its code once" (docs/browser-rooms.md): whatever is   *)
(* retried, delayed, sent again after its receipt is gone, or sent anew by a page *)
(* that forgot it, the code pays for the one room it made and for nothing else; a *)
(* page that goes on has its room; and an id is carried out again only when its   *)
(* receipt has had its time.                                                      *)
CreateUsesOneCode ==
  /\ remaining = Uses - (IF room = "absent" THEN 0 ELSE 1)
  /\ wanted \/ room # "absent"
OncePerReceipt ==
  \A i, j \in log : i.id = j.id /\ i.at < j.at => j.at - i.at > Keep
CommandsOnce == TypeOK /\ CreateUsesOneCode /\ OncePerReceipt
=============================================================================
