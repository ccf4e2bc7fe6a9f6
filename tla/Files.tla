------------------------------- MODULE Files -------------------------------
(***************************************************************************)
(* How a device fetches the files its messages name from the devices that  *)
(* hold them, and how those serve it (src/browser/files.ts).  A file is    *)
(* Size chunks; what matters of a chunk is where it belongs and whether    *)
(* its bytes are right.                                                    *)
(*                                                                         *)
(* One device fetches and the others serve: every device does both, and    *)
(* the two share nothing but the channel.  Timeouts are steps; one that    *)
(* comes while something is still on its way counts as trouble.            *)
(***************************************************************************)
EXTENDS Naturals, Sequences, FiniteSets, SequencesExt

CONSTANTS
  File, Holder,
  Size,         \* chunks of a file
  Parallel,     \* PARALLEL: files fetched at once
  Slots,        \* UPLOADS_PER_PEER: files served to one device at once
  Buffer,       \* chunks a channel takes before its sender waits
  MaxTrouble    \* bound on lost channels, bad chunks, failed reads and writes, slowness

Nobody == "nobody"

VARIABLES
  open,       \* holders whose channel is open
  capable,    \* holders that announced themselves on it
  item,       \* the fetching device's `incoming`
  verifying,  \* the holder whose last chunk completed the file that is checked, per file
  stored,     \* files verified and stored
  distrusted, \* holders whose bytes failed verification, per file
  ask,        \* requests on their way to each holder
  give,       \* packets on their way from each holder
  uploads,    \* each holder's uploads to the fetching device
  spoiled,    \* history: files of which a wrong chunk was sent
  trouble

vars == <<open, capable, item, verifying, stored, distrusted, ask, give, uploads, spoiled, trouble>>
fetching == <<capable, item, verifying, stored, distrusted>>

Item == [wanted : BOOLEAN, received : 0..Size, right : BOOLEAN, source : Holder \cup {Nobody},
         tried : SUBSET Holder, contributors : SUBSET Holder]
Upload == [phase : {"none", "loading", "sending"}, at : 0..Size, cancelled : BOOLEAN]
NoUpload == [phase |-> "none", at |-> 0, cancelled |-> FALSE]
Packet == [kind : {"files", "chunk", "done", "missing"}, file : File, at : 0..Size, right : BOOLEAN]

TypeOK ==
  /\ open \subseteq Holder /\ capable \subseteq open
  /\ item \in [File -> Item]
  /\ verifying \in [File -> Holder \cup {Nobody}]
  /\ stored \subseteq File /\ spoiled \subseteq File
  /\ distrusted \subseteq Holder \X File
  /\ ask \in [Holder -> Seq([file : File, offset : 0..Size])]
  /\ give \in [Holder -> Seq(Packet)]
  /\ uploads \in [Holder -> [File -> Upload]]
  /\ trouble \in 0..MaxTrouble

Init ==
  /\ open = {} /\ capable = {} /\ stored = {} /\ distrusted = {} /\ spoiled = {} /\ trouble = 0
  /\ item = [f \in File |-> [wanted |-> TRUE, received |-> 0, right |-> TRUE, source |-> Nobody,
                             tried |-> {}, contributors |-> {}]]
  /\ verifying = [f \in File |-> Nobody]
  /\ ask = [p \in Holder |-> <<>>] /\ give = ask
  /\ uploads = [p \in Holder |-> [f \in File |-> NoUpload]]

Bothers == trouble < MaxTrouble /\ trouble' = trouble + 1

-----------------------------------------------------------------------------
(* Fetching.                                                               *)

Fetched(items) == {f \in File : items[f].source # Nobody}
Askable(items, f) ==
  {p \in capable' \cap open' : p \notin items[f].tried /\ <<p, f>> \notin distrusted'}
Due(items) ==
  {f \in File : /\ items[f].wanted /\ items[f].source = Nobody /\ verifying'[f] = Nobody
                /\ Askable(items, f) # {}}

(* pump, the end of most handlers: as many files as may be are asked of a holder  *)
(* that was neither tried lately nor is distrusted, each from where it is.        *)
Pump(items, asked) ==
  \E fs \in SUBSET Due(items) :
    /\ Cardinality(fs) + Cardinality(Fetched(items)) <= Parallel
    /\ fs # Due(items) => Cardinality(fs) + Cardinality(Fetched(items)) >= Parallel
    /\ \E from \in [fs -> Holder] :
         /\ \A f \in fs : from[f] \in Askable(items, f)
         /\ item' = [f \in File |-> IF f \in fs THEN [items[f] EXCEPT !.source = from[f]] ELSE items[f]]
         /\ ask' = [p \in Holder |->
              asked[p] \o SetToSeq({[file |-> f, offset |-> items[f].received] : f \in {x \in fs : from[x] = p}})]

(* skip: other holders are tried first.                                         *)
Skip(f) == [item EXCEPT ![f].source = Nobody, ![f].tried = @ \cup {item[f].source}]

Takes(p, kind) ==
  /\ give[p] # <<>> /\ Head(give[p]).kind = kind
  /\ give' = [give EXCEPT ![p] = Tail(@)]
Served(p) == item[Head(give[p]).file].source = p

(* opened: both announce themselves.                                            *)
Open(p) ==
  /\ p \notin open
  /\ open' = open \cup {p}
  /\ give' = [give EXCEPT ![p] = <<[kind |-> "files", file |-> CHOOSE f \in File : TRUE, at |-> 0, right |-> TRUE]>>]
  /\ UNCHANGED <<fetching, ask, uploads, spoiled, trouble>>

(* closed: what arrived is kept, what was being served is cancelled.            *)
Close(p) ==
  /\ p \in open /\ Bothers
  /\ open' = open \ {p} /\ capable' = capable \ {p}
  /\ give' = [give EXCEPT ![p] = <<>>]
  /\ uploads' = [uploads EXCEPT ![p] = [f \in File |-> [uploads[p][f] EXCEPT !.cancelled = uploads[p][f].phase # "none"]]]
  /\ UNCHANGED <<verifying, stored, distrusted, spoiled>>
  /\ Pump([f \in File |-> IF item[f].source = p THEN [item[f] EXCEPT !.source = Nobody] ELSE item[f]],
          [ask EXCEPT ![p] = <<>>])

TakeFiles(p) ==
  /\ Takes(p, "files")
  /\ capable' = capable \cup {p}
  /\ UNCHANGED <<open, verifying, stored, distrusted, uploads, spoiled, trouble>>
  /\ Pump([f \in File |-> [item[f] EXCEPT !.tried = @ \ {p}]], ask)

(* A chunk counts when it is the next one, of the holder that was asked; another   *)
(* of that holder's ends its turn.                                                 *)
AnyPlace(c) == TRUE \* mutant
InPlace(c) == c.at = item[c.file].received
TakeChunk(p) ==
  /\ Takes(p, "chunk")
  /\ UNCHANGED <<open, capable, verifying, stored, distrusted, uploads, spoiled, trouble>>
  /\ LET c == Head(give[p]) i == item[c.file] IN
     IF ~Served(p) THEN UNCHANGED <<item, ask>>
     ELSE IF InPlace(c) /\ i.received < Size
       THEN /\ item' = [item EXCEPT ![c.file].received = @ + 1, ![c.file].contributors = @ \cup {p},
                                    ![c.file].right = @ /\ c.right /\ c.at = i.received]
            /\ UNCHANGED ask
       ELSE Pump(Skip(c.file), ask)

TakeMissing(p) ==
  /\ Takes(p, "missing")
  /\ UNCHANGED <<open, capable, verifying, stored, distrusted, uploads, spoiled, trouble>>
  /\ IF Served(p) THEN Pump(Skip(Head(give[p]).file), ask) ELSE UNCHANGED <<item, ask>>

(* done: a complete file is checked, and given to nobody else meanwhile.           *)
TakeDone(p) ==
  /\ Takes(p, "done")
  /\ UNCHANGED <<open, capable, stored, distrusted, uploads, spoiled, trouble>>
  /\ LET f == Head(give[p]).file IN
     IF ~Served(p) THEN UNCHANGED <<item, verifying, ask>>
     ELSE IF item[f].received < Size
       THEN /\ UNCHANGED verifying
            /\ Pump(Skip(f), ask)
       ELSE /\ item' = [item EXCEPT ![f].source = Nobody]
            /\ verifying' = [verifying EXCEPT ![f] = p]
            /\ UNCHANGED ask

(* A right file is stored, unless the write fails; a wrong one starts over, and     *)
(* nobody who sent a part of it is trusted with it for a while.                     *)
Verified(f) ==
  /\ verifying[f] # Nobody /\ item[f].right
  /\ verifying' = [verifying EXCEPT ![f] = Nobody]
  /\ UNCHANGED <<open, capable, give, distrusted, uploads, spoiled>>
  /\ \/ /\ stored' = stored \cup {f} /\ UNCHANGED trouble
        /\ Pump([item EXCEPT ![f].wanted = FALSE], ask)
     \/ /\ Bothers /\ UNCHANGED stored
        /\ Pump([item EXCEPT ![f].tried = @ \cup {verifying[f]}], ask)

StartOver(i) == [i EXCEPT !.received = 0, !.right = TRUE, !.contributors = {}]
Damaged(f) ==
  /\ verifying[f] # Nobody /\ ~item[f].right
  /\ verifying' = [verifying EXCEPT ![f] = Nobody]
  /\ distrusted' = distrusted \cup (item[f].contributors \X {f})
  /\ UNCHANGED <<open, capable, give, stored, uploads, spoiled, trouble>>
  /\ Pump([item EXCEPT ![f] = StartOver(@)], ask)

(* tick: a holder that sends nothing for long is skipped; after RETRY_MS every       *)
(* holder is tried again, after BAD_MS also those that were distrusted.              *)
Idle(p, f) ==
  /\ \A i \in DOMAIN ask[p] : ask[p][i].file # f
  /\ \A i \in DOMAIN give[p] : give[p][i].file # f
  /\ uploads[p][f].phase = "none"
Later(holders, f) ==
  \/ (\A p \in holders : Idle(p, f)) /\ UNCHANGED trouble
  \/ (\E p \in holders : ~Idle(p, f)) /\ Bothers
Stall(f) ==
  /\ item[f].source # Nobody
  /\ Later({item[f].source}, f)
  /\ UNCHANGED <<open, capable, verifying, stored, distrusted, give, uploads, spoiled>>
  /\ Pump(Skip(f), ask)
Retry(f) ==
  /\ item[f].source = Nobody /\ item[f].tried # {}
  /\ Later(Holder, f)
  /\ UNCHANGED <<open, capable, verifying, stored, distrusted, give, uploads, spoiled>>
  /\ Pump([item EXCEPT ![f].tried = {}], ask)
Trust(p, f) ==
  /\ <<p, f>> \in distrusted
  /\ distrusted' = distrusted \ {<<p, f>>}
  /\ UNCHANGED <<open, capable, verifying, stored, give, uploads, spoiled, trouble>>
  /\ Pump(item, ask)

-----------------------------------------------------------------------------
(* Serving.                                                                *)

Says(p, kind, f, at, right) ==
  give' = [give EXCEPT ![p] = Append(@, [kind |-> kind, file |-> f, at |-> at, right |-> right])]
NeverEnds(p, f) == uploads' = [uploads EXCEPT ![p][f].cancelled = TRUE] \* mutant
Ends(p, f) == uploads' = [uploads EXCEPT ![p][f] = NoUpload]

(* serve: a request while the file is still read is passed over; one beyond the      *)
(* slots (this device's, or all of them) or for a file that isn't here is refused;   *)
(* any other takes a slot, from an upload of the same file too, before the file is   *)
(* read.                                                                             *)
Request(p) ==
  /\ ask[p] # <<>>
  /\ ask' = [ask EXCEPT ![p] = Tail(@)]
  /\ UNCHANGED <<open, fetching, spoiled>>
  /\ LET f == Head(ask[p]).file
         busy == Cardinality({g \in File \ {f} : uploads[p][g].phase # "none"}) >= Slots
     IN \/ uploads[p][f].phase = "loading" /\ UNCHANGED <<give, uploads, trouble>>
        \/ uploads[p][f].phase # "loading" /\ busy /\ Says(p, "missing", f, 0, TRUE) /\ UNCHANGED <<uploads, trouble>>
        \/ uploads[p][f].phase = "none" /\ Bothers /\ Says(p, "missing", f, 0, TRUE) /\ UNCHANGED uploads
        \/ /\ uploads[p][f].phase # "loading" /\ ~busy
           /\ uploads' = [uploads EXCEPT ![p][f] =
                [phase |-> "loading", at |-> Head(ask[p]).offset, cancelled |-> FALSE]]
           /\ UNCHANGED <<give, trouble>>

(* The file is read, or it can't be.                                             *)
Load(p, f) ==
  /\ uploads[p][f].phase = "loading"
  /\ UNCHANGED <<open, fetching, ask, spoiled>>
  /\ \/ uploads[p][f].cancelled /\ Ends(p, f) /\ UNCHANGED <<give, trouble>>
     \/ /\ ~uploads[p][f].cancelled
        /\ uploads' = [uploads EXCEPT ![p][f].phase = "sending"]
        /\ UNCHANGED <<give, trouble>>
     \/ ~uploads[p][f].cancelled /\ Bothers /\ Ends(p, f) /\ Says(p, "missing", f, 0, TRUE)

Chunks(p) == Cardinality({i \in DOMAIN give[p] : give[p][i].kind = "chunk"})
(* One chunk after another while the channel takes them, then the end.           *)
SendChunk(p, f) ==
  LET u == uploads[p][f] IN
  /\ u.phase = "sending"
  /\ UNCHANGED <<open, fetching, ask>>
  /\ \/ u.cancelled /\ Ends(p, f) /\ UNCHANGED <<give, spoiled, trouble>>
     \/ /\ ~u.cancelled /\ u.at < Size /\ Chunks(p) < Buffer
        /\ uploads' = [uploads EXCEPT ![p][f].at = @ + 1]
        /\ \/ Says(p, "chunk", f, u.at, TRUE) /\ UNCHANGED <<spoiled, trouble>>
           \/ Says(p, "chunk", f, u.at, FALSE) /\ Bothers /\ spoiled' = spoiled \cup {f}
     \/ /\ ~u.cancelled /\ u.at = Size
        /\ Ends(p, f) /\ Says(p, "done", f, Size, TRUE)
        /\ UNCHANGED <<spoiled, trouble>>

-----------------------------------------------------------------------------
Next ==
  \/ \E p \in Holder :
       \/ Open(p) \/ Close(p) \/ TakeFiles(p) \/ TakeChunk(p) \/ TakeMissing(p) \/ TakeDone(p)
       \/ Request(p)
       \/ \E f \in File : Load(p, f) \/ SendChunk(p, f) \/ Trust(p, f)
  \/ \E f \in File : Verified(f) \/ Damaged(f) \/ Stall(f) \/ Retry(f)

Spec == Init /\ [][Next]_vars
FairSpec ==
  /\ Spec
  /\ \A p \in Holder :
       /\ WF_vars(Open(p)) /\ WF_vars(TakeFiles(p)) /\ WF_vars(TakeChunk(p)) /\ WF_vars(TakeMissing(p))
       /\ WF_vars(TakeDone(p)) /\ WF_vars(Request(p))
       /\ \A f \in File : WF_vars(Load(p, f)) /\ WF_vars(SendChunk(p, f)) /\ WF_vars(Trust(p, f))
  /\ \A f \in File : WF_vars(Verified(f)) /\ WF_vars(Damaged(f)) /\ WF_vars(Stall(f)) /\ WF_vars(Retry(f))

-----------------------------------------------------------------------------
(* A holder is distrusted with a file only when a wrong chunk of it was really      *)
(* sent: no change of holder, late chunk or second request ever mixes up right       *)
(* bytes; no more files are fetched or served at once than there are places.         *)
HonestTrusted == \A p \in Holder, f \in File : <<p, f>> \in distrusted => f \in spoiled
Places ==
  /\ Cardinality(Fetched(item)) <= Parallel
  /\ \A p \in Holder : Cardinality({f \in File : uploads[p][f].phase # "none"}) <= Slots
  /\ \A f \in File : verifying[f] # Nobody => item[f].source = Nobody
FilesSound == TypeOK /\ HonestTrusted /\ Places

(* Every file is stored in the end, once channels, disks and bytes behave: no cancelled *)
(* upload, stale request, occupied slot or distrust keeps it away.                      *)
FilesArrive == <>(stored = File)
=============================================================================
