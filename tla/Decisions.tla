----------------------------- MODULE Decisions -----------------------------
(***************************************************************************)
(* One decision of a room (src/browser/decisions.ts): a question settled   *)
(* by the people's votes. Every change is an operation a device signs,     *)
(* stores and sends to the others; the room service never sees them, and   *)
(* each device folds the operations it holds, in whatever order they came, *)
(* with the membership it last polled.                                     *)
(*                                                                         *)
(* An operation's id is a random UUID that only breaks ties: its rank is   *)
(* its place among the operations it could tie with. Everybody here was in *)
(* the room when the decision was opened, so who isn't in it now is a      *)
(* former member.                                                          *)
(***************************************************************************)
EXTENDS Naturals, FiniteSets

CONSTANTS Device, Member,
          MemberOf,   \* the member a device belongs to: a person may have several
          Agent,      \* the members that are agents
          Operator,   \* the person who operates each agent
          Host,
          Page,       \* devices that are an open browser page; the others run the bridge
          Creator,    \* the members who might open the decision
          First,      \* the options it starts with
          Extra,      \* options that might be added
          Leaver,     \* members who might leave
          CompactAt,  \* COMPACT_DECISIONS_AT
          Top,        \* bound: 2^n for ids of n operations that tie, in any order
          MaxVotes,   \* bound: times a member votes
          Plans,      \* bound: how often each kind of thing may happen
          None

\* The decision is opened on a page or by a bridge; people and agents vote, add
\* options, end it, leave the room and reload their page; it may have a deadline.
Kinds == {"page", "bridge", "vote", "option", "end", "leave", "reload", "deadline"}

\* A decision has two options at least (validDecisionBody).
ASSUME DecisionsAssumption ==
    /\ IsFiniteSet(Member)
    /\ MemberOf \in [Device -> Member]
    /\ \E o, p \in First : o # p
    /\ Agent \subseteq Member
    /\ Operator \in [Agent -> Member \ Agent]
    /\ Host \in Member \ Agent
    /\ Page \subseteq {d \in Device : MemberOf[d] \notin Agent}
    /\ Creator \subseteq Member /\ Leaver \subseteq Member \ {Host}
    /\ Top \in Nat /\ CompactAt \in Nat /\ MaxVotes \in Nat
    /\ Plans \subseteq [Kinds -> Nat]
    /\ None \notin First \cup Extra \cup Member

VARIABLES members,  \* who is in the room
          view,     \* who each device last heard is
          creator,  \* who opened the decision
          revs,     \* the decision operations each device holds
          votes,    \* the vote operations each device holds
          seen,     \* every vote a device ever held
          over,     \* whether its deadline has passed
          closing,  \* the revisions each page has begun to close (a ref of the page)
          waiting,  \* the change each page waits to sign
          left      \* what may still happen, from one of Plans

vars == <<members, view, creator, revs, votes, seen, over, closing, waiting, left>>

Options == First \cup Extra
Ranks == 1..(Top - 1)
States == {"open", "closed", "withdrawn"}
\* A vote, or one taken back. Each member's votes have their own revisions.
VoteBodies == [by : Member, rev : Nat \ {0}, rank : Ranks, option : Options \cup {None}]
\* A change as a page waits to sign it, and signed.
Changes == [by : Member, rev : Nat \ {0}, opts : SUBSET Options, state : States,
            counted : SUBSET VoteBodies, people : Nat]
DecisionBodies == [by : Member, rev : Nat \ {0}, opts : SUBSET Options, state : States,
                   counted : SUBSET VoteBodies, people : Nat, rank : Ranks]

TypeOK ==
    /\ members \subseteq Member
    /\ view \in [Device -> SUBSET Member]
    /\ creator \in Member \cup {None}
    /\ \A d \in Device : \A r \in revs[d] :
          /\ r.by \in Member /\ r.rank \in Ranks /\ r.state \in States
          /\ r.rev \in Nat \ {0} /\ r.people \in Nat /\ r.opts \subseteq Options
          /\ \A v \in r.counted : v \in VoteBodies /\ v.by \notin Agent
    /\ votes \in [Device -> SUBSET VoteBodies]
    /\ seen \in [Device -> SUBSET VoteBodies]
    /\ over \in BOOLEAN
    /\ \A d \in Device : closing[d] \subseteq Nat \ {0}
    /\ \A d \in Device : waiting[d] # None => d \in Page /\ waiting[d].by = MemberOf[d]
    /\ left \in [Kinds -> Nat]

-----------------------------------------------------------------------------
(* Folding *)

\* order
Before(v, w) == v.rev < w.rev \/ (v.rev = w.rev /\ v.rank < w.rank)

\* Each member's latest vote among V.
Latest(V) == {v \in V : \A w \in V : w.by = v.by => ~Before(v, w)}

\* steward: who may close the decision of m, in a room with these members.
Steward(m, vw, by) ==
    \/ by = m \/ by = Host
    \/ m \in Agent \cap vw /\ Operator[m] = by

\* honestClose: no vote it pins is an agent's, for a missing option, or
\* superseded by one held. (Ids being unique, a pinned vote is superseded when
\* another is the voter's latest, held or not.) What the outcome says is
\* computed from the pinned votes, here as where a close is made.
Honest(c, V) ==
    /\ Cardinality(c.counted) <= c.people
    /\ \A v \in c.counted : v.by \notin Agent /\ v.option \in c.opts
    /\ \A v \in c.counted, n \in Latest(V) : n.by = v.by => n = v

\* extends_, but for honestClose: see Applicable.
Extends(cur, r, vw) ==
    /\ cur.state = "open" /\ r.rev = cur.rev + 1
    /\ cur.opts \subseteq r.opts
    /\ r.state # "open" => Steward(creator, vw, r.by)

\* The operations of R that no vote of V makes void.
Applicable(R, V) == {r \in R : r.state = "closed" => Honest(r, V)}

\* The operation of R the chain has come to (none before its first is here):
\* each revision is the extension of the one before with the lowest id.
Current(R, vw) ==
    LET lowest(S) == {r \in S : \A s \in S : r.rank <= s.rank}
        after(cur) == {r \in R : Extends(cur, r, vw)}
        chain[n \in Nat] ==
            IF n = 0 THEN lowest({r \in R : r.rev = 1})
            ELSE UNION {IF after(cur) = {} THEN {cur} ELSE lowest(after(cur)) : cur \in chain[n - 1]}
    IN R \cap chain[Cardinality(R)]

\* foldDecisions: the decision and the votes for it that are shown by a device
\* with these operations and members.
Fold(R, V, vw) ==
    {[current |-> cur,
      ballots |-> {v \in Latest(V) : v.by \in vw /\ v.option \in cur.opts \cup {None}}] :
     cur \in Current(Applicable(R, V), vw)}
Shown(d) == Fold(revs[d], votes[d], view[d])

\* People's votes among those shown; agents' are advice.
Counted(f) == {v \in f.ballots : v.by \notin Agent /\ v.option # None}
People(vw) == Cardinality(vw \ Agent)
For(o, V) == Cardinality({v \in V : v.option = o})

\* mutant
SettledAtATie(opts, V, people) ==
    /\ people > 0
    /\ \/ Cardinality(V) >= people
       \/ \E o \in opts : \A p \in opts \ {o} : For(o, V) + Cardinality(V) >= For(p, V) + people

\* tallyVotes: the options that lead, and whether that can't change any more.
Leaders(opts, V) == {o \in opts : For(o, V) > 0 /\ \A p \in opts : For(p, V) <= For(o, V)}
Settled(opts, V, people) ==
    /\ people > 0
    /\ \/ Cardinality(V) >= people
       \/ \E o \in opts : \A p \in opts \ {o} : For(o, V) + Cardinality(V) > For(p, V) + people

\* due: a majority is reached, everyone voted, or the deadline passed.
Due(d, f) ==
    /\ f.current.state = "open"
    /\ over \/ Settled(f.current.opts, Counted(f), People(view[d]))

-----------------------------------------------------------------------------
(* Operations *)

\* A device that has not heard that its member is out.
Here(d) == MemberOf[d] \in view[d]

\* mutant
CompactedStanding(R, V) ==
    IF Cardinality(R) + Cardinality(V) > CompactAt
    THEN {v \in Latest(V) : v.option # None} \cup (V \cap UNION {r.counted : r \in R}) ELSE V

\* compactDecisions, past the threshold.
Pinned(R) == UNION {r.counted : r \in R}
Compacted(R, V) ==
    IF Cardinality(R) + Cardinality(V) > CompactAt THEN Latest(V) \cup (V \cap Pinned(R)) ELSE V

\* mutant
StoreFirst(d, R, V) ==
    /\ revs' = [revs EXCEPT ![d] = @ \cup {r \in R : \A s \in @ : s.rev # r.rev}]
    /\ votes' = [votes EXCEPT ![d] = Compacted(revs[d] \cup R, @ \cup V)]
    /\ seen' = [seen EXCEPT ![d] = @ \cup V]

\* addDecisionOps, storeDecisionOps
Store(d, R, V) ==
    /\ revs' = [revs EXCEPT ![d] = @ \cup R]
    /\ votes' = [votes EXCEPT ![d] = Compacted(revs[d] \cup R, @ \cup V)]
    /\ seen' = [seen EXCEPT ![d] = @ \cup V]

\* A new id: anywhere among those taken, which is in the middle of two neighbours.
NewId(k, taken) ==
    /\ k \in Ranks \ taken
    /\ \E lo \in {0} \cup taken, hi \in {Top} \cup taken :
          /\ lo + hi = 2 * k /\ lo < hi
          /\ \A t \in taken : t <= lo \/ t >= hi

\* A change signed by d.
Sign(d, change) == \E c \in {change} :
    LET taken == {r.rank : r \in {r \in UNION {revs[e] : e \in Device} : r.rev = c.rev}}
    IN \E k \in {k \in Ranks : NewId(k, taken)} :
          Store(d, {[by |-> c.by, rev |-> c.rev, opts |-> c.opts, state |-> c.state,
                     counted |-> c.counted, people |-> c.people, rank |-> k]}, {})

\* reviseDecision: the next revision of the decision f that d shows.
Revised(d, f, opts, state) ==
    [by |-> MemberOf[d], rev |-> f.current.rev + 1, opts |-> f.current.opts \cup opts, state |-> state,
     counted |-> IF state = "closed" THEN Counted(f) ELSE {},
     people |-> IF state = "closed" THEN People(view[d]) ELSE 0]

\* One of the things that may happen does.
Happens(kind) == left[kind] > 0 /\ left' = [left EXCEPT ![kind] = @ - 1]

\* openDecision
Open(d) ==
    /\ creator = None /\ Here(d) /\ MemberOf[d] \in Creator
    /\ Happens(IF d \in Page THEN "page" ELSE "bridge")
    /\ creator' = MemberOf[d]
    /\ Sign(d, [by |-> MemberOf[d], rev |-> 1, opts |-> First, state |-> "open", counted |-> {}, people |-> 0])
    /\ UNCHANGED <<members, view, over, closing, waiting>>

\* Something is done by hand with the decision f that d shows, after what
\* waits at a page (its transactions run in order).
ByHand(kind, d, f) ==
    Here(d) /\ f.current.state = "open" /\ waiting[d] = None /\ Happens(kind)

\* mutant
NextVoteFrom0(d) == LET own == {v \in Latest(votes[d]) : v.by = MemberOf[d]}
                    IN IF own = {} THEN 0 ELSE (CHOOSE v \in own : TRUE).rev + 1

\* castVote, by anyone: with nextVoteRevision, after the member's latest vote here.
NextVote(d) == LET own == {v \in Latest(votes[d]) : v.by = MemberOf[d]}
               IN IF own = {} THEN 1 ELSE (CHOOSE v \in own : TRUE).rev + 1
Vote(d) == \E f \in Shown(d) :
    /\ ByHand("vote", d, f)
    /\ NextVote(d) <= MaxVotes
    /\ \E o \in f.current.opts \cup {None}, k \in Ranks :
          /\ NewId(k, {v.rank : v \in {v \in UNION {seen[e] : e \in Device} :
                                            v.by = MemberOf[d] /\ v.rev = NextVote(d)}})
          /\ Store(d, {}, {[by |-> MemberOf[d], rev |-> NextVote(d), rank |-> k, option |-> o]})
    /\ UNCHANGED <<members, view, creator, over, closing, waiting>>

\* An option added, by anyone; an option's id is new.
AddOption(d) == \E f \in Shown(d), o \in Extra :
    /\ ByHand("option", d, f)
    /\ \A e \in Device : \A r \in revs[e] : o \notin r.opts
    /\ Sign(d, Revised(d, f, {o}, "open"))
    /\ UNCHANGED <<members, view, creator, over, closing, waiting>>

\* Closed or withdrawn by a steward. A page's change is made from what it
\* shows and waits for its turn: what reached the page before is stored first.
End(d) == \E f \in Shown(d), s \in {"closed", "withdrawn"} :
    /\ ByHand("end", d, f)
    /\ Steward(creator, view[d], MemberOf[d])
    /\ IF d \in Page
       THEN /\ waiting' = [waiting EXCEPT ![d] = Revised(d, f, {}, s)]
            /\ UNCHANGED <<revs, votes, seen>>
       ELSE Sign(d, Revised(d, f, {}, s)) /\ UNCHANGED waiting
    /\ UNCHANGED <<members, view, creator, over, closing>>

\* mutant
CloseDueOnce(d) == \E f \in Shown(d) :
    /\ d \notin Page /\ Here(d) /\ creator = MemberOf[d] /\ Due(d, f)
    /\ f.current.rev \notin closing[d]
    /\ closing' = [closing EXCEPT ![d] = @ \cup {f.current.rev}]
    /\ Sign(d, Revised(d, f, {}, "closed"))
    /\ UNCHANGED <<members, view, creator, over, waiting, left>>

\* closeDueDecisions: the creator's bridge closes what is due.
CloseDue(d) == \E f \in Shown(d) :
    /\ d \notin Page /\ Here(d) /\ creator = MemberOf[d] /\ Due(d, f)
    /\ Sign(d, Revised(d, f, {}, "closed"))
    /\ UNCHANGED <<members, view, creator, over, closing, waiting, left>>

\* The creator's page does, once for each revision.
PageCloseDue(d) == \E f \in Shown(d) :
    /\ d \in Page /\ Here(d) /\ creator = MemberOf[d] /\ Due(d, f)
    /\ waiting[d] = None /\ f.current.rev \notin closing[d]
    /\ closing' = [closing EXCEPT ![d] = @ \cup {f.current.rev}]
    /\ waiting' = [waiting EXCEPT ![d] = Revised(d, f, {}, "closed")]
    /\ UNCHANGED <<members, view, creator, revs, votes, seen, over, left>>

\* publishDecision, in the page's transaction. A page whose member is out by
\* then cannot sign, and forgets that it began.
SignWaiting(d) ==
    /\ waiting[d] # None
    /\ waiting' = [waiting EXCEPT ![d] = None]
    /\ IF Here(d)
       THEN Sign(d, waiting[d]) /\ UNCHANGED closing
       ELSE /\ closing' = [closing EXCEPT ![d] = @ \ {waiting[d].rev - 1}]
            /\ UNCHANGED <<revs, votes, seen>>
    /\ UNCHANGED <<members, view, creator, over, left>>

\* The page is reloaded: it keeps what it stored.
Reload(d) ==
    /\ closing[d] # {} \/ waiting[d] # None
    /\ Happens("reload")
    /\ closing' = [closing EXCEPT ![d] = {}]
    /\ waiting' = [waiting EXCEPT ![d] = None]
    /\ UNCHANGED <<members, view, creator, revs, votes, seen, over>>

-----------------------------------------------------------------------------
(* Between devices *)

Connected(d, e) == d # e /\ Here(d) /\ Here(e) /\ MemberOf[d] \in view[e] /\ MemberOf[e] \in view[d]

\* One operation reaches e, which admits a vote only for a decision it holds
\* (admissible): sent when it was made, or passed on.
Deliver(d, e) ==
    /\ Connected(d, e)
    /\ \/ \E r \in revs[d] \ revs[e] : Store(e, {r}, {})
       \/ revs[e] # {} /\ \E v \in votes[d] \ votes[e] : Store(e, {}, {v})
    /\ UNCHANGED <<members, view, creator, over, closing, waiting, left>>

\* A channel opens (or e asks again): d sends what it holds, decisions first.
Sync(d, e) ==
    /\ Connected(d, e)
    /\ revs[d] # {}
    /\ Store(e, revs[d], votes[d])
    /\ UNCHANGED <<members, view, creator, over, closing, waiting, left>>

Poll(d) ==
    /\ Here(d) /\ view[d] # members
    /\ view' = [view EXCEPT ![d] = members]
    /\ UNCHANGED <<members, creator, revs, votes, seen, over, closing, waiting, left>>

\* A member leaves the room, and with a person the agents it operates.
Leave(m) ==
    /\ m \in Leaver \cap members /\ Happens("leave")
    /\ members' = members \ ({m} \cup {a \in Agent : Operator[a] = m})
    /\ UNCHANGED <<view, creator, revs, votes, seen, over, closing, waiting>>

DeadlinePasses ==
    /\ creator # None /\ Happens("deadline")
    /\ over' = TRUE
    /\ UNCHANGED <<members, view, creator, revs, votes, seen, closing, waiting>>

-----------------------------------------------------------------------------
Init ==
    /\ members = Member /\ view = [d \in Device |-> Member]
    /\ creator = None
    /\ revs = [d \in Device |-> {}] /\ votes = [d \in Device |-> {}] /\ seen = [d \in Device |-> {}]
    /\ over = FALSE
    /\ closing = [d \in Device |-> {}] /\ waiting = [d \in Device |-> None]
    /\ left \in Plans

Next ==
    \/ \E d \in Device :
          \/ Open(d) \/ Vote(d) \/ AddOption(d) \/ End(d)
          \/ CloseDue(d) \/ PageCloseDue(d) \/ SignWaiting(d) \/ Reload(d) \/ Poll(d)
    \/ \E d, e \in Device : Deliver(d, e) \/ Sync(d, e)
    \/ \E m \in Member : Leave(m)
    \/ DeadlinePasses

Spec == Init /\ [][Next]_vars

\* Devices poll the room, close what is due, sign what waits, and connect to
\* each other again and again. Nobody has to act, or to reload a page.
Works(d) == CloseDue(d) \/ PageCloseDue(d) \/ SignWaiting(d) \/ Poll(d)
Fairness ==
    /\ WF_vars(\E d \in Device : Works(d))
    /\ \A d, e \in Device : WF_vars(Sync(d, e))
FairSpec == Spec /\ Fairness

-----------------------------------------------------------------------------
(* Properties *)

\* Dropping votes changes nothing: a device shows what it would if it had kept
\* every vote it ever held, and a vote that a close it takes for honest pins is
\* still there, so the outcome stays verifiable (compactDecisions).
CompactionHarmless == \A d \in Device :
    /\ Fold(revs[d], votes[d], view[d]) = Fold(revs[d], seen[d], view[d])
    /\ \A c \in revs[d] : c.state = "closed" /\ Honest(c, votes[d]) => c.counted \cap seen[d] \subseteq votes[d]

\* An outcome that was certain when it was recorded stays the outcome: however
\* many of those still in the room are found to have voted without being
\* counted, the same options lead (tallyVotes: the leader can't be caught).
CertainStays == \A d \in Device : \A f \in Shown(d) :
    LET cur == f.current
        late == {v \in Counted(f) : v.by \in members /\ \A c \in cur.counted : c.by # v.by}
    IN (cur.state = "closed" /\ Settled(cur.opts, cur.counted, cur.people)) =>
          Leaders(cur.opts, cur.counted \cup late) = Leaders(cur.opts, cur.counted)

\* Outcomes are well formed, and those that were certain stay.
OutcomesSound == TypeOK /\ CertainStays

\* In the end every device in the room shows the same decision, state, outcome
\* and votes, in whatever order the operations reached it and whatever it
\* dropped (foldDecisions: clocks never decide anything).
Present == {d \in Device : MemberOf[d] \in members}
Converge == <>[](Cardinality({Shown(d) : d \in Present}) = 1)

\* A creator's device does not go on showing a decision as open whose result
\* can no longer change or whose deadline passed: each time a vote it pinned
\* turns out superseded, it closes the decision again. For bridges, and pages.
ClosedInTheEnd(d) ==
    <>[](creator = MemberOf[d] /\ d \in Present => \A f \in Shown(d) : ~Due(d, f))
BridgesClose == \A d \in Device \ Page : ClosedInTheEnd(d)
PagesClose == \A d \in Page : ClosedInTheEnd(d)
=============================================================================
