------------------------------ MODULE Approvals ------------------------------
(***************************************************************************)
(* The Approvals window of the desktop app                                 *)
(* (src/desktop/src-tauri/src/approvals.rs, src/desktop/ui/approvals.js)   *)
(* and the requests in the daemon it asks about (src/server/agents.ts).    *)
(* The list reaches the window by reads that overlap, a request or a label *)
(* it is shown with may change at any time, and a bridge command may be    *)
(* stopped at its time limit while the daemon goes on with it.             *)
(***************************************************************************)
EXTENDS Naturals, FiniteSets
CONSTANTS
  Asked,       \* requests
  Draft,       \* what is typed for a custom-command agent
  Nothing,
  MaxEdits,    \* changes of a request or of a label
  MaxReads,    \* reads of the list under way
  MaxLosses    \* commands that fail or outlive their limit

VARIABLES
  binds,                           \* the requests to bind an agent to a session
  said, labels,                    \* the waiting requests; the labels of a bind
  acting,                          \* approvals the daemon carries out
  made,                            \* <<request, digest>> carried out
  list, given, changed, busy, up,  \* Approving
  shown, custom, confirming,       \* the page; the preview, and as the page has it
  reads,                           \* lists on their way
  answering,                       \* the answer under way
  seen, clicked, drafted,          \* what the person saw, approved and confirmed
  edits, losses

daemon == <<binds, said, labels, acting, made>>
window == <<list, given, changed, busy, up>>
person == <<seen, clicked, drafted>>
page == <<shown, custom, confirming>>
budget == <<edits, losses>>
approving == <<daemon, window, page, reads, answering, person, budget>>

\* approvalDigest, and approvalsView of the requests that wait.
Digest(r) == <<said[r], IF r \in binds THEN labels ELSE 0>>
Waiting == {r \in Asked : said[r] # Nothing}
Listed == [r \in Waiting |-> Digest(r)]

ApprovalsInit ==
  /\ binds \in SUBSET Asked /\ said \in {[r \in Asked |-> n] : n \in {0, Nothing}} /\ labels = 0 /\ acting = {} /\ made = {}
  /\ list = Nothing /\ given = <<>> /\ changed = {} /\ busy = FALSE /\ up = FALSE
  /\ shown = <<>> /\ custom = Nothing /\ confirming = Nothing
  /\ reads = {} /\ answering = Nothing
  /\ seen = <<>> /\ clicked = {} /\ drafted = {} /\ edits = 0 /\ losses = 0

Edits == edits < MaxEdits /\ edits' = edits + 1 /\ UNCHANGED losses
Loses == losses < MaxLosses /\ losses' = losses + 1 /\ UNCHANGED edits
With(f, g) == [x \in DOMAIN f \cup DOMAIN g |-> IF x \in DOMAIN g THEN g[x] ELSE f[x]]

\* The file is the person's, and anything of theirs may write it; a request
\* expires, or its agent is deleted; a name, a model or a title changes.
Rewritten(r) ==
  /\ said[r] # Nothing /\ Edits
  /\ said' = [said EXCEPT ![r] = @ + 1]
  /\ UNCHANGED <<binds, labels, acting, made, window, page, reads, answering, person>>
Relabelled ==
  /\ Edits /\ labels' = labels + 1
  /\ UNCHANGED <<binds, said, acting, made, window, page, reads, answering, person>>
Leaves(r) ==
  /\ said[r] # Nothing /\ Edits
  /\ said' = [said EXCEPT ![r] = Nothing]
  /\ UNCHANGED <<binds, labels, acting, made, window, page, reads, answering, person>>

(* show, closed *)
Show ==
  /\ ~up /\ up' = TRUE
  /\ UNCHANGED <<daemon, list, given, changed, busy, page, reads, answering, person, budget>>
Close ==
  /\ up /\ up' = FALSE
  /\ given' = <<>> /\ changed' = {} /\ custom' = Nothing
  /\ shown' = <<>> /\ confirming' = Nothing /\ seen' = <<>>
  /\ UNCHANGED <<daemon, list, busy, reads, answering, clicked, drafted, budget>>

\* A read is answered with the requests as they are, and arrives later: reads
\* of this show, of one before and after an answer overlap.
Read ==
  /\ up /\ Cardinality(reads) < MaxReads
  /\ reads' = reads \cup {Listed}
  /\ UNCHANGED <<daemon, window, page, answering, person, budget>>
Arrives(l) ==
  /\ reads' = reads \ {l} /\ list' = l
  /\ UNCHANGED <<daemon, given, changed, busy, up, page, answering, person, budget>>

\* view, as render puts it on the page.
Entries == IF list = Nothing THEN <<>> ELSE list
Unmarked == {} \* mutant
Moved == {r \in DOMAIN Entries \cap DOMAIN given : given[r] # Entries[r]}
Refresh ==
  /\ up
  /\ given' = With(given, Entries) /\ changed' = changed \cup Moved
  /\ shown' = [r \in DOMAIN Entries |-> [digest |-> Entries[r], marked |-> r \in changed']]
  /\ confirming' = custom
  /\ seen' = With(Entries, seen)
  /\ UNCHANGED <<daemon, list, busy, up, custom, reads, answering, clicked, drafted, budget>>

Begin(a) == ~busy /\ busy' = TRUE /\ answering' = a
Answer(k, r, d, step) == [kind |-> k, id |-> r, sent |-> d, at |-> step]
Allows(r, d) == r \in DOMAIN Entries /\ Entries[r] = d

\* A click on Approve: sent with the digest the page shows, or marked here.
Approve(r) ==
  /\ r \in DOMAIN shown
  /\ LET d == shown[r].digest IN
     /\ clicked' = clicked \cup {<<r, d>>} /\ seen' = With(seen, [x \in {r} |-> d])
     /\ \/ Allows(r, d) /\ Begin(Answer("approve", r, d, "sent")) /\ UNCHANGED changed
        \/ /\ r \in DOMAIN Entries /\ ~Allows(r, d) /\ changed' = changed \cup {r}
           /\ UNCHANGED <<busy, answering>>
  /\ UNCHANGED <<daemon, list, given, up, page, reads, drafted, budget>>
Reject(r) ==
  /\ r \in DOMAIN shown \cap DOMAIN Entries /\ Begin(Answer("reject", r, Nothing, "sent"))
  /\ UNCHANGED <<daemon, list, given, changed, up, page, reads, person, budget>>

(* decideApproval *)
Sent(k) == answering # Nothing /\ answering.kind = k /\ answering.at = "sent"
Answered(how) == answering' = [answering EXCEPT !.at = how]
SameRequest == Digest(answering.id)[1] = answering.sent[1] \* mutant
SameAsShown == Digest(answering.id) = answering.sent
Decide ==
  /\ Sent("approve")
  /\ LET r == answering.id IN
     \/ said[r] = Nothing /\ Answered("refused") /\ UNCHANGED acting
     \/ said[r] # Nothing /\ ~SameAsShown /\ Answered("changed") /\ UNCHANGED acting
     \/ /\ said[r] # Nothing /\ SameAsShown /\ Answered("acting")
        /\ acting' = acting \cup {[id |-> r, as |-> Digest(r), acted |-> FALSE]}
  /\ UNCHANGED <<binds, said, labels, made, window, page, reads, person, budget>>
Ours(a) == answering # Nothing /\ answering.kind = "approve" /\ answering.at = "acting" /\ answering.id = a.id
Tells(a, how) == IF Ours(a) THEN Answered(how) ELSE UNCHANGED answering
\* The agent is made (no second one has its name) or the session bound; what
\* can't be done leaves the request waiting.
Act(a) ==
  /\ ~a.acted
  /\ \/ /\ a.id \in binds \/ \A m \in made : m[1] # a.id
        /\ made' = made \cup {<<a.id, a.as>>}
        /\ acting' = (acting \ {a}) \cup {[a EXCEPT !.acted = TRUE]}
        /\ UNCHANGED <<answering, budget>>
     \/ /\ a.id \notin binds /\ \E m \in made : m[1] = a.id
        /\ acting' = acting \ {a} /\ Tells(a, "refused") /\ UNCHANGED <<made, budget>>
     \/ /\ Loses /\ acting' = acting \ {a} /\ Tells(a, "refused") /\ UNCHANGED made
  /\ UNCHANGED <<binds, said, labels, window, page, reads, person>>
Dropped(r) == said' = [said EXCEPT ![r] = Nothing]
Drop(a) ==
  /\ a.acted /\ acting' = acting \ {a} /\ Dropped(a.id) /\ Tells(a, "ok")
  /\ UNCHANGED <<binds, labels, made, window, page, reads, person, budget>>
Rejects ==
  /\ Sent("reject")
  /\ IF said[answering.id] = Nothing THEN Answered("refused") /\ UNCHANGED said
                                      ELSE Answered("ok") /\ Dropped(answering.id)
  /\ UNCHANGED <<binds, labels, acting, made, window, page, reads, person, budget>>
\* The command is stopped at its limit, or can't run: the daemon goes on.
Lost ==
  /\ answering # Nothing /\ answering.at \in {"sent", "acting"} /\ Loses
  /\ Answered("refused")
  /\ UNCHANGED <<daemon, window, page, reads, person>>

\* The list is read again, and the answer taken in (outcome, settle).
Done(how) ==
  /\ answering # Nothing /\ answering.at = how
  /\ busy' = FALSE /\ answering' = Nothing
Relisted(l) == (l = Listed /\ UNCHANGED budget) \/ (l = Nothing /\ Loses)
Settle ==
  \E l \in {Listed, Nothing} :
    /\ Relisted(l)
    /\ list' = IF l = Nothing THEN list ELSE l
    /\ \/ Done("ok") /\ changed' = changed \ {answering.id}
       \/ Done("refused") /\ UNCHANGED changed
       \/ /\ Done("changed")
          /\ changed' = IF l # Nothing /\ answering.id \in Waiting /\ ~SameAsShown
                        THEN changed \cup {answering.id} ELSE changed
    /\ UNCHANGED <<daemon, given, up, page, reads, person>>

(* check_custom, make_custom, edit_custom: these share only `busy` with the *)
(* answers to requests, and are tried where none ever waited.              *)
Check(c) ==
  /\ up /\ Waiting = {} /\ edits = 0 /\ clicked = {} /\ confirming = Nothing /\ Begin(Answer("check", c, Nothing, "sent"))
  /\ custom' = Nothing
  /\ UNCHANGED <<daemon, list, given, changed, up, shown, confirming, reads, person, budget>>
ReadBack ==
  /\ Sent("check") /\ Done("sent")
  /\ \/ custom' = answering.id /\ UNCHANGED budget
     \/ Loses /\ UNCHANGED custom
  /\ UNCHANGED <<daemon, list, given, changed, up, shown, confirming, reads, person>>
EditCustom ==
  /\ confirming # Nothing /\ custom' = Nothing
  /\ UNCHANGED <<daemon, window, shown, confirming, reads, answering, person, budget>>
\* Only the command is sent back, which two drafts may share: the name and the
\* model made are the preview's.
Make ==
  /\ confirming # Nothing /\ custom # Nothing
  /\ drafted' = drafted \cup {confirming}
  /\ Begin(Answer("make", custom, Nothing, "sent"))
  /\ UNCHANGED <<daemon, list, given, changed, up, page, reads, seen, clicked, budget>>
Makes ==
  /\ Sent("make") /\ Done("sent")
  /\ \/ made' = made \cup {<<answering.id, Nothing>>} /\ custom' = Nothing /\ UNCHANGED budget
     \/ Loses /\ UNCHANGED <<made, custom>>
  /\ UNCHANGED <<binds, said, labels, acting, list, given, changed, up, shown, confirming, reads, person>>

ApprovalsNext ==
  \/ \E r \in Asked : Rewritten(r) \/ Leaves(r) \/ Approve(r) \/ Reject(r)
  \/ Relabelled \/ Show \/ Close \/ Read \/ Refresh \/ Decide \/ Rejects \/ Lost \/ Settle
  \/ \E l \in reads : Arrives(l)
  \/ \E a \in acting : Act(a) \/ Drop(a)
  \/ \E c \in Draft : Check(c)
  \/ ReadBack \/ EditCustom \/ Make \/ Makes

-----------------------------------------------------------------------------
\* Whatever was made or bound is, with every label, what the person saw when
\* they pressed the button: through overlapping reads, changes on the way and
\* commands that outlived their limit.
MadeAsShown == \A m \in made : m \in clicked \/ m[1] \in drafted
\* A waiting request that reads otherwise than when the person first saw it
\* (or last answered it) is marked on the page.
ChangesAreMarked ==
  \A r \in DOMAIN shown \cap Waiting :
    r \in DOMAIN seen /\ shown[r].digest # seen[r] => shown[r].marked
AsPromised == MadeAsShown /\ ChangesAreMarked
=============================================================================
