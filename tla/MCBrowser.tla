------------------------------ MODULE MCBrowser ------------------------------
(***************************************************************************)
(* The instances that are checked of what goes on in a browser whose tabs  *)
(* answer in time: which tab runs a room, and what the devices of a room   *)
(* exchange besides messages: reactions, state and files.                  *)
(* These share no state, so a behaviour runs one of them and leaves the    *)
(* others at their start.                                                  *)
(***************************************************************************)
EXTENDS RoomOwner, TLC
CONSTANTS
  v1, v2, o1, o2, d1, d2, f1, f2, p1,
  Mine, Others, Reacted, Cap, MaxPending, CompactAt, MaxRev,
  Device, Author, Burst, MaxWaiting, Buffer, MaxOps, MaxTrouble,
  File, Holder, Size, Parallel, Slots, Ahead

VARIABLES
  part,
  messages, evicted, log, pending,
  channel, held, wire, queue, waiting, tokens, over, gated, requested, recent, trouble,
  open, capable, item, verifying, fetched, distrusted, ask, give, uploads, spoiled, mishaps

Reac == INSTANCE Reactions WITH Message <- Reacted
Syn == INSTANCE Sync WITH open <- channel
Fil == INSTANCE Files WITH
  Buffer <- Ahead, stored <- fetched, trouble <- mishaps

reactions == <<messages, evicted, log, pending>>
syncing == <<channel, held, wire, queue, waiting, tokens, over, gated, requested, recent, trouble>>
files == <<open, capable, item, verifying, fetched, distrusted, ask, give, uploads, spoiled, mishaps>>
all == <<part, vars, reactions, syncing, files>>

Tabs(A) == part = "tabs" /\ A /\ UNCHANGED <<part, reactions, syncing, files>>
Reacts(A) == part = "reactions" /\ A /\ UNCHANGED <<part, vars, syncing, files>>
Syncs(A) == part = "state" /\ A /\ UNCHANGED <<part, vars, reactions, files>>
Transfers(A) == part = "files" /\ A /\ UNCHANGED <<part, vars, reactions, syncing>>

BrowserInit ==
  /\ part \in {"tabs", "reactions", "state", "files"}
  /\ Init /\ Reac!Init /\ Syn!Init /\ Fil!Init

BrowserNext == Tabs(Next) \/ Reacts(Reac!Next) \/ Syncs(Syn!Next) \/ Transfers(Fil!Next)

\* Only one part's steps are ever enabled in a behaviour, so fairness of a
\* disjunction with a step of each part is fairness of each of these steps.
Some(t, s, f) == Tabs(t) \/ Syncs(s) \/ Transfers(f)
BrowserSpec ==
  /\ BrowserInit /\ [][BrowserNext]_all
  /\ WF_all(Some(Leading, Syn!Pump(d1), Fil!Open(p1)) \/ Reacts(Reac!Exchange(1, 2)))
  /\ WF_all(Some(Writing, Syn!Pump(d2), Fil!TakeFiles(p1)) \/ Reacts(Reac!Exchange(2, 1)))
  /\ WF_all(Some(Viewing(v1), Syn!TakeRequest(d1), Fil!TakeChunk(p1)))
  /\ WF_all(Some(Viewing(v2), Syn!TakeRequest(d2), Fil!TakeMissing(p1)))
  /\ WF_all(Some(Engine(v1), Syn!Admit(d1), Fil!TakeDone(p1)))
  /\ WF_all(Some(Engine(v2), Syn!Admit(d2), Fil!Request(p1)))
  /\ WF_all(Some(Engine(o1), Syn!Handle(d1), Fil!Load(p1, f1)))
  /\ WF_all(Some(Engine(o2), Syn!Handle(d2), Fil!Load(p1, f2)))
  /\ WF_all(Some(Notice(o1), Syn!AskAgain(d1), Fil!SendChunk(p1, f1)))
  /\ WF_all(Some(Notice(o2), Syn!AskAgain(d2), Fil!SendChunk(p1, f2)))
  /\ WF_all(Some(FALSE, Syn!Interval(d1), Fil!Trust(p1, f1)))
  /\ WF_all(Some(FALSE, Syn!Interval(d2), Fil!Trust(p1, f2)))
  /\ WF_all(Some(FALSE, Syn!Resend(d1), Fil!Verified(f1)))
  /\ WF_all(Some(FALSE, Syn!Resend(d2), Fil!Verified(f2)))
  /\ WF_all(Some(FALSE, Syn!Open, Fil!Damaged(f1)))
  /\ WF_all(Transfers(Fil!Damaged(f2)))
  /\ \A f \in File : WF_all(Transfers(Fil!Stall(f))) /\ WF_all(Transfers(Fil!Retry(f)))

\* Once no tab shows the room, the leader runs it (docs/browser-rooms.md).
TakenOver == part = "tabs" => BackgroundTakesOver
\* Devices with the same messages come to show the same reactions, and both
\* devices come to hold the same, whatever caps, quotas and gates drop.
DevicesConverge ==
  /\ part = "reactions" => Reac!ReactionsConverge
  /\ part = "state" => Syn!StateConverges
\* Wanted files arrive.
FilesArrive == part = "files" => Fil!FilesArrive
=============================================================================
