-------------------------- MODULE Decisions_proofs --------------------------
(***************************************************************************)
(* Votes may be dropped without a trace: what is shown depends on each     *)
(* member's latest vote only, and those are always kept. The fold itself   *)
(* is never unfolded: it is given the same votes.                          *)
(***************************************************************************)
EXTENDS Decisions, FiniteSetTheorems, FunctionTheorems, TLAPS

\* Votes that can be compared.
Dated(V) == \A v \in V : v.rev \in Nat /\ v.rank \in Nat

\* Who has a vote in V has a latest one.
HasLatest(V) == \A v \in V : \E n \in Latest(V) : n.by = v.by

\* Of the votes a device ever held, it holds at least each member's latest.
LatestHeld(d) ==
    /\ Dated(seen[d]) /\ HasLatest(seen[d])
    /\ votes[d] \subseteq seen[d] /\ Latest(seen[d]) \subseteq votes[d]

IInv ==
    /\ votes = [d \in Device |-> votes[d]] /\ seen = [d \in Device |-> seen[d]]
    /\ \A d \in Device : LatestHeld(d)

-----------------------------------------------------------------------------
(* Latest votes *)

\* Two devices' votes have each member's latest, if both have.
LEMMA JoinHasLatest ==
    ASSUME NEW S, NEW V, Dated(S \cup V), HasLatest(S), HasLatest(V)
    PROVE HasLatest(S \cup V)
<1> SUFFICES ASSUME NEW A, NEW B, A \cup B = S \cup V, HasLatest(A), HasLatest(B), NEW v \in A
             PROVE \E n \in Latest(A \cup B) : n.by = v.by
    BY DEF HasLatest
<1>1. PICK n \in Latest(A) : n.by = v.by
    BY DEF HasLatest
<1>2. CASE \A w \in B : w.by = n.by => ~Before(n, w)
    BY <1>1, <1>2 DEF Latest
<1>3. CASE \E w \in B : w.by = n.by /\ Before(n, w)
    <2>1. PICK w \in B : w.by = n.by /\ Before(n, w)
        BY <1>3
    <2>2. PICK m \in Latest(B) : m.by = w.by
        BY <2>1 DEF HasLatest
    <2>3. ASSUME NEW u \in A \cup B, u.by = m.by PROVE ~Before(m, u)
        <3>1. CASE u \in B
            BY <2>2, <2>3, <3>1 DEF Latest
        <3>2. CASE u \in A
            <4>1. m \in B /\ n \in A /\ ~Before(m, w) /\ ~Before(n, u)
                BY <1>1, <2>1, <2>2, <2>3, <3>2 DEF Latest
            <4> QED
                BY <2>1, <3>2, <4>1 DEF Dated, Before
        <3> QED
            BY <3>1, <3>2
    <2> QED
        BY <1>1, <2>1, <2>2, <2>3 DEF Latest
<1> QED
    BY <1>2, <1>3

\* Votes that came in with those held leave no latest one out.
LEMMA JoinLatest ==
    ASSUME NEW S, NEW H, NEW V, H \subseteq S, Latest(S) \subseteq H
    PROVE Latest(S \cup V) \subseteq Latest(H \cup V)
BY DEF Latest

\* With the latest of S, H has each member's latest as well, and the same.
LEMMA SameLatest ==
    ASSUME NEW S, NEW H, Dated(S), HasLatest(S), H \subseteq S, Latest(S) \subseteq H
    PROVE Latest(H) = Latest(S) /\ HasLatest(H)
<1>1. ASSUME NEW v \in Latest(H), NEW w \in S, w.by = v.by, Before(v, w) PROVE FALSE
    <2>1. PICK n \in Latest(S) : n.by = w.by
        BY <1>1 DEF HasLatest
    <2>2. n \in H /\ ~Before(n, w) /\ ~Before(v, n)
        BY <1>1, <2>1 DEF Latest
    <2> QED
        BY <1>1, <2>1, <2>2 DEF Dated, Before, Latest
<1>2. Latest(H) = Latest(S)
    BY <1>1 DEF Latest
<1> QED
    BY <1>2 DEF HasLatest

\* compactDecisions drops nobody's latest vote.
LEMMA CompactedKeepsLatest ==
    ASSUME NEW R, NEW V
    PROVE Latest(V) \subseteq Compacted(R, V) /\ Compacted(R, V) \subseteq V
BY DEF Compacted, Latest

-----------------------------------------------------------------------------
(* The invariant *)

LEMMA InvInit == Init => IInv
BY DEF Init, IInv, LatestHeld, Dated, HasLatest, Latest

\* Whatever operations a device stores, with votes that have their latest.
LEMMA StoreKeeps ==
    ASSUME IInv, NEW d \in Device, NEW R, NEW V, Dated(V), HasLatest(V), Store(d, R, V)
    PROVE IInv'
<1>1. /\ votes' = [votes EXCEPT ![d] = Compacted(revs[d] \cup R, votes[d] \cup V)]
      /\ seen' = [seen EXCEPT ![d] = seen[d] \cup V]
    BY DEF Store
<1>2. votes' = [e \in Device |-> votes'[e]] /\ seen' = [e \in Device |-> seen'[e]]
    BY <1>1 DEF IInv
<1>3. \A e \in Device \ {d} : votes'[e] = votes[e] /\ seen'[e] = seen[e]
    BY <1>1 DEF IInv
<1>4. votes'[d] = Compacted(revs[d] \cup R, votes[d] \cup V) /\ seen'[d] = seen[d] \cup V
    BY <1>1 DEF IInv
<1>5. LatestHeld(d)
    BY DEF IInv
<1>6. Dated(seen[d] \cup V)
    BY <1>5 DEF LatestHeld, Dated
<1>7. HasLatest(seen[d] \cup V)
    BY <1>5, <1>6, JoinHasLatest DEF LatestHeld
<1>8. Latest(seen[d] \cup V) \subseteq Latest(votes[d] \cup V)
    BY <1>5, JoinLatest DEF LatestHeld
<1>9. Latest(votes[d] \cup V) \subseteq votes'[d] /\ votes'[d] \subseteq votes[d] \cup V
    BY <1>4, CompactedKeepsLatest
<1>10. LatestHeld(d)'
    BY <1>4, <1>5, <1>6, <1>7, <1>8, <1>9 DEF LatestHeld, Dated, HasLatest, Latest
<1>11. \A e \in Device \ {d} : LatestHeld(e)'
    BY <1>3 DEF IInv, LatestHeld, Dated, HasLatest, Latest
<1> QED
    BY <1>2, <1>10, <1>11 DEF IInv

\* An operation on the decision brings no vote.
LEMMA SignKeeps ==
    ASSUME IInv, NEW d \in Device, NEW change, Sign(d, change)
    PROVE IInv'
<1>1. PICK R : Store(d, R, {})
    BY DEF Sign
<1> QED
    BY <1>1, StoreKeeps DEF Dated, HasLatest

\* A member's next vote has a revision, and an id.
LEMMA VoteKeeps ==
    ASSUME IInv, NEW d \in Device, Vote(d)
    PROVE IInv'
<1>1. NextVote(d) \in Nat
    <2> DEFINE own == {v \in Latest(votes[d]) : v.by = MemberOf[d]}
    <2>1. own \subseteq seen[d] /\ Dated(seen[d])
        BY DEF IInv, LatestHeld, Latest
    <2>2. CASE own = {}
        BY <2>2 DEF NextVote
    <2>3. CASE own # {}
        <3>1. (CHOOSE v \in own : TRUE) \in own
            BY <2>3
        <3>2. (CHOOSE v \in own : TRUE).rev \in Nat
            BY <2>1, <3>1 DEF Dated
        <3> QED
            BY <2>3, <3>2 DEF NextVote
    <2> QED
        BY <2>2, <2>3
<1>2. PICK o : \E k \in Ranks :
          Store(d, {}, {[by |-> MemberOf[d], rev |-> NextVote(d), rank |-> k, option |-> o]})
    BY DEF Vote
<1>3. PICK k \in Ranks :
          Store(d, {}, {[by |-> MemberOf[d], rev |-> NextVote(d), rank |-> k, option |-> o]})
    BY <1>2
<1> DEFINE v == [by |-> MemberOf[d], rev |-> NextVote(d), rank |-> k, option |-> o]
<1>4. k \in Nat
    BY DecisionsAssumption DEF Ranks
<1>5. Dated({v})
    BY <1>1, <1>4 DEF Dated
<1>6. ~Before(v, v)
    BY <1>1, <1>4 DEF Before
<1>7. HasLatest({v})
    BY <1>6 DEF HasLatest, Latest
<1> QED
    BY <1>3, <1>5, <1>7, StoreKeeps

\* What another device has comes one by one, or all of it.
LEMMA DeliverKeeps ==
    ASSUME IInv, NEW d \in Device, NEW e \in Device, Deliver(d, e)
    PROVE IInv'
<1>1. CASE \E r \in revs[d] \ revs[e] : Store(e, {r}, {})
    BY <1>1, StoreKeeps DEF Dated, HasLatest
<1>2. CASE \E v \in votes[d] \ votes[e] : Store(e, {}, {v})
    <2>1. PICK v \in votes[d] : Store(e, {}, {v})
        BY <1>2
    <2>2. Dated({v})
        BY <2>1 DEF IInv, LatestHeld, Dated
    <2>3. HasLatest({v})
        BY <2>2 DEF Dated, Before, HasLatest, Latest
    <2> QED
        BY <2>1, <2>2, <2>3, StoreKeeps
<1> QED
    BY <1>1, <1>2 DEF Deliver

LEMMA SyncKeeps ==
    ASSUME IInv, NEW d \in Device, NEW e \in Device, Sync(d, e)
    PROVE IInv'
<1>1. Store(e, revs[d], votes[d])
    BY DEF Sync
<1>2. LatestHeld(d)
    BY DEF IInv
<1>3. Dated(votes[d]) /\ HasLatest(votes[d])
    BY <1>2, SameLatest DEF LatestHeld, Dated
<1> QED
    BY <1>1, <1>3, StoreKeeps

\* Steps that store nothing.
LEMMA OthersKeep ==
    ASSUME IInv, UNCHANGED <<votes, seen>>
    PROVE IInv'
BY DEF IInv, LatestHeld, Dated, HasLatest, Latest

LEMMA InvNext == IInv /\ [Next]_vars => IInv'
<1> SUFFICES ASSUME IInv, [Next]_vars PROVE IInv'
    OBVIOUS
<1>1. ASSUME NEW d \in Device, Open(d) PROVE IInv'
    BY <1>1, SignKeeps DEF Open
<1>2. ASSUME NEW d \in Device, Vote(d) PROVE IInv'
    BY <1>2, VoteKeeps
<1>3. ASSUME NEW d \in Device, AddOption(d) PROVE IInv'
    BY <1>3, SignKeeps DEF AddOption
<1>4. ASSUME NEW d \in Device, End(d) PROVE IInv'
    <2>1. CASE UNCHANGED <<revs, votes, seen>>
        BY <2>1, OthersKeep
    <2>2. CASE \E change : Sign(d, change)
        BY <2>2, SignKeeps
    <2> QED
        BY <1>4, <2>1, <2>2 DEF End
<1>5. ASSUME NEW d \in Device, CloseDue(d) PROVE IInv'
    BY <1>5, SignKeeps DEF CloseDue
<1>6. ASSUME NEW d \in Device, PageCloseDue(d) PROVE IInv'
    BY <1>6, OthersKeep DEF PageCloseDue
<1>7. ASSUME NEW d \in Device, SignWaiting(d) PROVE IInv'
    BY <1>7, SignKeeps, OthersKeep DEF SignWaiting
<1>8. ASSUME NEW d \in Device, Reload(d) \/ Poll(d) PROVE IInv'
    BY <1>8, OthersKeep DEF Reload, Poll
<1>9. ASSUME NEW d \in Device, NEW e \in Device, Deliver(d, e) \/ Sync(d, e) PROVE IInv'
    BY <1>9, DeliverKeeps, SyncKeeps
<1>10. ASSUME NEW m \in Member, Leave(m) PROVE IInv'
    BY <1>10, OthersKeep DEF Leave
<1>11. CASE DeadlinePasses
    BY <1>11, OthersKeep DEF DeadlinePasses
<1>12. CASE UNCHANGED vars
    BY <1>12, OthersKeep DEF vars
<1> QED
    BY <1>1, <1>2, <1>3, <1>4, <1>5, <1>6, <1>7, <1>8, <1>9, <1>10, <1>11, <1>12 DEF Next

-----------------------------------------------------------------------------
(* What is shown *)

\* A fold depends on each member's latest vote only.
LEMMA FoldByLatest ==
    ASSUME NEW R, NEW V, NEW W, NEW vw, Latest(V) = Latest(W)
    PROVE Fold(R, V, vw) = Fold(R, W, vw)
<1>1. \A c \in R : Honest(c, V) <=> Honest(c, W)
    BY DEF Honest
<1>2. Applicable(R, V) = Applicable(R, W)
    BY <1>1 DEF Applicable
<1> QED
    BY <1>2 DEF Fold

\* Whatever votes a device drops, it shows what it would with every vote it
\* ever held, and it keeps those an honest close pins (compactDecisions).
THEOREM VotesDroppedUnseen == Spec => []CompactionHarmless
<1>1. ASSUME IInv PROVE CompactionHarmless
    <2> SUFFICES ASSUME NEW d \in Device
                 PROVE /\ Fold(revs[d], votes[d], view[d]) = Fold(revs[d], seen[d], view[d])
                       /\ \A c \in revs[d] : c.state = "closed" /\ Honest(c, votes[d])
                             => c.counted \cap seen[d] \subseteq votes[d]
        BY DEF CompactionHarmless
    <2>1. LatestHeld(d)
        BY <1>1 DEF IInv
    <2>2. Latest(votes[d]) = Latest(seen[d])
        BY <2>1, SameLatest DEF LatestHeld
    <2>3. Fold(revs[d], votes[d], view[d]) = Fold(revs[d], seen[d], view[d])
        BY <2>2, FoldByLatest
    <2>4. ASSUME NEW c \in revs[d], Honest(c, votes[d]), NEW v \in c.counted \cap seen[d]
          PROVE v \in votes[d]
        <3>1. PICK n \in Latest(votes[d]) : n.by = v.by
            BY <2>1, <2>2, <2>4 DEF LatestHeld, HasLatest
        <3>2. n = v
            BY <2>4, <3>1 DEF Honest
        <3> QED
            BY <3>1, <3>2 DEF Latest
    <2> QED
        BY <2>3, <2>4
<1> QED
    BY <1>1, InvInit, InvNext, PTL DEF Spec

-----------------------------------------------------------------------------
(***************************************************************************)
(* Outcomes. Whoever closes a decision counts everybody in the room and    *)
(* every vote it pins among the people it names: the room only empties, so *)
(* votes that are found later are of people who were counted.              *)
(***************************************************************************)

Voters(V) == {v.by : v \in V}

\* A change of the decision, signed or waiting to be.
WellFormed(c) ==
    /\ c.by \in Member /\ c.state \in States /\ c.rev \in Nat \ {0} /\ c.people \in Nat
    /\ First \subseteq c.opts /\ c.opts \subseteq Options
    /\ \A v \in c.counted : v \in VoteBodies /\ v.by \notin Agent

\* A close names at least the people in the room and those whose vote it pins.
CountStands(c) ==
    c.state = "closed" =>
        /\ \A v, w \in c.counted : v.by = w.by => v = w
        /\ Cardinality((members \ Agent) \cup Voters(c.counted)) <= c.people

Domains ==
    /\ revs = [d \in Device |-> revs[d]]
    /\ closing = [d \in Device |-> closing[d]]
    /\ waiting = [d \in Device |-> waiting[d]]
ViewInv ==
    /\ members \subseteq Member /\ view \in [Device -> SUBSET Member]
    /\ \A d \in Device : members \subseteq view[d]
OpsInv ==
    \A d \in Device : \A r \in revs[d] : WellFormed(r) /\ CountStands(r) /\ r.rank \in Ranks
WaitInv ==
    \A d \in Device : waiting[d] # None =>
        /\ d \in Page /\ waiting[d].by = MemberOf[d]
        /\ WellFormed(waiting[d]) /\ CountStands(waiting[d])
VoteInv ==
    /\ votes \in [Device -> SUBSET VoteBodies] /\ seen \in [Device -> SUBSET VoteBodies]
    /\ \A d, e \in Device : \A v \in seen[d], w \in seen[e] :
          v.by = w.by /\ v.rev = w.rev /\ v.rank = w.rank => v = w
RestInv ==
    /\ creator \in Member \cup {None} /\ over \in BOOLEAN /\ left \in [Kinds -> Nat]
    /\ \A d \in Device : closing[d] \subseteq Nat \ {0}

OutcomeInv == IInv /\ Domains /\ ViewInv /\ OpsInv /\ WaitInv /\ VoteInv /\ RestInv

LEMMA OutcomeInit == Init => OutcomeInv
<1> SUFFICES ASSUME Init PROVE OutcomeInv
    OBVIOUS
<1>1. IInv
    BY InvInit
<1>2. Domains /\ ViewInv
    BY DEF Init, Domains, ViewInv
<1>3. OpsInv /\ WaitInv
    BY DEF Init, OpsInv, WaitInv
<1>4. VoteInv
    BY DEF Init, VoteInv
<1>5. left \in [Kinds -> Nat]
    BY DecisionsAssumption DEF Init
<1>6. RestInv
    BY <1>5 DEF Init, RestInv
<1> QED
    BY <1>1, <1>2, <1>3, <1>4, <1>6 DEF OutcomeInv

\* What a device shows is of what it holds, and by who it thinks is here.
LEMMA ShownHeld ==
    ASSUME OutcomeInv, NEW d \in Device, NEW f \in Shown(d)
    PROVE  /\ f.current \in revs[d]
           /\ WellFormed(f.current) /\ CountStands(f.current)
           /\ f.current.state = "closed" => Honest(f.current, votes[d])
           /\ f.ballots \subseteq Latest(votes[d])
           /\ \A v \in f.ballots : v.by \in view[d]
<1>1. PICK cur \in Current(Applicable(revs[d], votes[d]), view[d]) :
          f = [current |-> cur,
               ballots |-> {v \in Latest(votes[d]) : v.by \in view[d] /\ v.option \in cur.opts \cup {None}}]
    BY DEF Shown, Fold
<1>2. cur \in Applicable(revs[d], votes[d])
    BY DEF Current
<1>3. cur \in revs[d] /\ (cur.state = "closed" => Honest(cur, votes[d]))
    BY <1>2 DEF Applicable
<1>4. f.current = cur /\ f.ballots = {v \in Latest(votes[d]) : v.by \in view[d] /\ v.option \in cur.opts \cup {None}}
    BY <1>1
<1>5. WellFormed(cur) /\ CountStands(cur)
    BY <1>3 DEF OutcomeInv, OpsInv
<1> QED
    BY <1>3, <1>4, <1>5

\* A member has one latest vote.
LEMMA OneLatest ==
    ASSUME OutcomeInv, NEW d \in Device, NEW v \in Latest(votes[d]), NEW w \in Latest(votes[d]), v.by = w.by
    PROVE  v = w
<1>1. v \in seen[d] /\ w \in seen[d]
    BY DEF OutcomeInv, IInv, LatestHeld, Latest
<1>2. v.rev \in Nat /\ w.rev \in Nat /\ v.rank \in Nat /\ w.rank \in Nat
    BY <1>1 DEF OutcomeInv, IInv, LatestHeld, Dated
<1>3. ~Before(v, w) /\ ~Before(w, v)
    BY DEF Latest
<1>4. v.rev = w.rev /\ v.rank = w.rank
    BY <1>2, <1>3 DEF Before
<1> QED
    BY <1>1, <1>4 DEF OutcomeInv, VoteInv

\* What a device makes of what it shows is well formed, and a close counts rightly.
LEMMA RevisedStands ==
    ASSUME OutcomeInv, NEW d \in Device, NEW f \in Shown(d), NEW opts \in SUBSET Options,
           NEW state \in States
    PROVE  LET c == Revised(d, f, opts, state)
           IN WellFormed(c) /\ CountStands(c) /\ c.by = MemberOf[d]
<1> DEFINE c == Revised(d, f, opts, state)
           people == view[d] \ Agent
<1>1. /\ WellFormed(f.current) /\ f.ballots \subseteq Latest(votes[d])
      /\ \A v \in f.ballots : v.by \in view[d]
    BY ShownHeld
<1>2. Counted(f) \subseteq votes[d] /\ \A v \in Counted(f) : v.by \in people
    BY <1>1 DEF Counted, Latest
<1>3. \A v, w \in Counted(f) : v.by = w.by => v = w
    BY <1>1, OneLatest DEF Counted
<1>4. \A v \in Counted(f) : v \in VoteBodies /\ v.by \notin Agent
    BY <1>2 DEF OutcomeInv, VoteInv
<1>5. IsFiniteSet(people) /\ Cardinality(people) \in Nat
    <2>1. people \in SUBSET Member
        BY DEF OutcomeInv, ViewInv
    <2> QED
        BY <2>1, DecisionsAssumption, FS_Subset, FS_CardinalityType
<1>6. c.counted \subseteq Counted(f) /\ c.people \in Nat
    BY <1>5 DEF Revised, People
<1>7. c.by = MemberOf[d] /\ c.state = state /\ c.rev = f.current.rev + 1 /\ c.opts = f.current.opts \cup opts
    BY DEF Revised
<1>8. WellFormed(c)
    <2>1. c.by \in Member
        BY <1>7, DecisionsAssumption
    <2>2. c.rev \in Nat \ {0}
        BY <1>1, <1>7 DEF WellFormed
    <2>3. First \subseteq c.opts /\ c.opts \subseteq Options
        BY <1>1, <1>7 DEF WellFormed
    <2> HIDE DEF c
    <2> QED
        BY <1>4, <1>6, <1>7, <2>1, <2>2, <2>3 DEF WellFormed
<1>9. CountStands(c)
    <2> SUFFICES ASSUME state = "closed"
                 PROVE  /\ \A v, w \in c.counted : v.by = w.by => v = w
                        /\ Cardinality((members \ Agent) \cup Voters(c.counted)) <= c.people
        BY <1>7 DEF CountStands
    <2>1. c.counted = Counted(f) /\ c.people = Cardinality(people)
        BY DEF Revised, People
    <2>2. (members \ Agent) \cup Voters(Counted(f)) \in SUBSET people
        BY <1>2 DEF Voters, OutcomeInv, ViewInv
    <2>3. Cardinality((members \ Agent) \cup Voters(Counted(f))) <= Cardinality(people)
        <3> HIDE DEF people
        <3> QED
            BY <1>5, <2>2, FS_Subset
    <2> HIDE DEF c, people
    <2> QED
        BY <1>3, <2>1, <2>3
<1> HIDE DEF c
<1>10. WellFormed(c) /\ CountStands(c) /\ c.by = MemberOf[d]
    BY <1>7, <1>8, <1>9
<1> QED
    BY <1>10 DEF c

\* Steps that leave a part alone.
LEMMA LeftAlone ==
    ASSUME OutcomeInv, UNCHANGED members
    PROVE  /\ UNCHANGED view => ViewInv'
           /\ UNCHANGED revs => OpsInv'
           /\ UNCHANGED waiting => WaitInv'
           /\ UNCHANGED <<votes, seen>> => VoteInv'
<1>1. ASSUME UNCHANGED view PROVE ViewInv'
    BY <1>1 DEF OutcomeInv, ViewInv
<1>2. ASSUME UNCHANGED revs PROVE OpsInv'
    BY <1>2 DEF OutcomeInv, OpsInv, WellFormed, CountStands
<1>3. ASSUME UNCHANGED waiting PROVE WaitInv'
    BY <1>3 DEF OutcomeInv, WaitInv, WellFormed, CountStands
<1>4. ASSUME UNCHANGED <<votes, seen>> PROVE VoteInv'
    BY <1>4 DEF OutcomeInv, VoteInv
<1> QED
    BY <1>1, <1>2, <1>3, <1>4

\* Well-formed operations are stored, with votes told apart from all others.
LEMMA StoreStands ==
    ASSUME OutcomeInv, UNCHANGED members,
           NEW d \in Device, NEW R, NEW V \in SUBSET VoteBodies,
           \A r \in R : WellFormed(r) /\ CountStands(r) /\ r.rank \in Ranks,
           \A v, w \in V : v.by = w.by /\ v.rev = w.rev /\ v.rank = w.rank => v = w,
           \A v \in V, e \in Device : \A w \in seen[e] :
              v.by = w.by /\ v.rev = w.rev /\ v.rank = w.rank => v = w,
           Store(d, R, V)
    PROVE  OpsInv' /\ VoteInv' /\ revs' = [e \in Device |-> revs'[e]]
<1>1. /\ revs' = [revs EXCEPT ![d] = revs[d] \cup R]
      /\ votes' = [votes EXCEPT ![d] = Compacted(revs[d] \cup R, votes[d] \cup V)]
      /\ seen' = [seen EXCEPT ![d] = seen[d] \cup V]
    BY DEF Store
<1>2. \A e \in Device : revs'[e] \subseteq revs[e] \cup R
    BY <1>1 DEF OutcomeInv, Domains
<1>3. revs' = [e \in Device |-> revs'[e]]
    BY <1>1 DEF OutcomeInv, Domains
<1>4. \A r : (WellFormed(r))' = WellFormed(r) /\ (CountStands(r))' = CountStands(r)
    BY DEF WellFormed, CountStands
<1>5. OpsInv'
    BY <1>2, <1>4 DEF OutcomeInv, OpsInv
<1>6. \A e \in Device : seen'[e] \subseteq seen[e] \cup V
    BY <1>1 DEF OutcomeInv, VoteInv
<1>7. seen' \in [Device -> SUBSET VoteBodies]
    BY <1>1 DEF OutcomeInv, VoteInv
<1>8. votes' \in [Device -> SUBSET VoteBodies]
    <2>1. Compacted(revs[d] \cup R, votes[d] \cup V) \in SUBSET VoteBodies
        BY CompactedKeepsLatest DEF OutcomeInv, VoteInv
    <2> QED
        BY <1>1, <2>1 DEF OutcomeInv, VoteInv
<1>9. ASSUME NEW e \in Device, NEW g \in Device, NEW v \in seen'[e], NEW w \in seen'[g],
             v.by = w.by, v.rev = w.rev, v.rank = w.rank
      PROVE  v = w
    BY <1>6, <1>9 DEF OutcomeInv, VoteInv
<1>10. VoteInv'
    BY <1>7, <1>8, <1>9 DEF VoteInv
<1> QED
    BY <1>3, <1>5, <1>10

\* A well-formed change is signed.
LEMMA SignStands ==
    ASSUME OutcomeInv, UNCHANGED members, NEW d \in Device, NEW change,
           WellFormed(change), CountStands(change), Sign(d, change)
    PROVE  OpsInv' /\ VoteInv' /\ revs' = [e \in Device |-> revs'[e]]
<1>1. PICK k \in Ranks :
          Store(d, {[by |-> change.by, rev |-> change.rev, opts |-> change.opts,
                     state |-> change.state, counted |-> change.counted,
                     people |-> change.people, rank |-> k]}, {})
    BY DEF Sign
<1> DEFINE r == [by |-> change.by, rev |-> change.rev, opts |-> change.opts,
                 state |-> change.state, counted |-> change.counted,
                 people |-> change.people, rank |-> k]
<1>2. WellFormed(r) /\ CountStands(r) /\ r.rank \in Ranks
    BY DEF WellFormed, CountStands
<1> HIDE DEF r
<1>3. Store(d, {r}, {})
    BY <1>1 DEF r
<1> QED
    BY <1>2, <1>3, StoreStands

\* Something is done that may happen a few times.
LEMMA HappensTyped ==
    ASSUME OutcomeInv, NEW kind \in Kinds, Happens(kind)
    PROVE  left' \in [Kinds -> Nat]
<1>1. left \in [Kinds -> Nat] /\ left[kind] > 0
    BY DEF OutcomeInv, RestInv, Happens
<1>2. left[kind] - 1 \in Nat
    BY <1>1
<1> QED
    BY <1>1, <1>2 DEF Happens

-----------------------------------------------------------------------------
(* The steps *)

LEMMA OpenStands ==
    ASSUME OutcomeInv, NEW d \in Device, Open(d)
    PROVE  Domains' /\ ViewInv' /\ OpsInv' /\ WaitInv' /\ VoteInv' /\ RestInv'
<1> DEFINE c == [by |-> MemberOf[d], rev |-> 1, opts |-> First, state |-> "open", counted |-> {}, people |-> 0]
<1>1. Sign(d, c) /\ UNCHANGED <<members, view, over, closing, waiting>> /\ creator' = MemberOf[d]
    BY DEF Open
<1>2. WellFormed(c) /\ CountStands(c)
    BY DecisionsAssumption DEF WellFormed, CountStands, States, Options
<1> HIDE DEF c
<1>3. OpsInv' /\ VoteInv' /\ revs' = [e \in Device |-> revs'[e]]
    BY <1>1, <1>2, SignStands
<1>4. ViewInv' /\ WaitInv'
    BY <1>1, LeftAlone
<1>5. left' \in [Kinds -> Nat]
    BY HappensTyped DEF Open, Kinds
<1>6. RestInv'
    BY <1>1, <1>5, DecisionsAssumption DEF OutcomeInv, RestInv
<1> QED
    BY <1>1, <1>3, <1>4, <1>6 DEF OutcomeInv, Domains

LEMMA VoteStands ==
    ASSUME OutcomeInv, NEW d \in Device, Vote(d)
    PROVE  Domains' /\ ViewInv' /\ OpsInv' /\ WaitInv' /\ VoteInv' /\ RestInv'
<1>1. PICK f \in Shown(d) :
        /\ ByHand("vote", d, f)
        /\ \E o \in f.current.opts \cup {None}, k \in Ranks :
              /\ NewId(k, {v.rank : v \in {v \in UNION {seen[e] : e \in Device} :
                                            v.by = MemberOf[d] /\ v.rev = NextVote(d)}})
              /\ Store(d, {}, {[by |-> MemberOf[d], rev |-> NextVote(d), rank |-> k, option |-> o]})
        /\ UNCHANGED <<members, view, creator, over, closing, waiting>>
    BY DEF Vote
<1>2. PICK o \in f.current.opts \cup {None}, k \in Ranks :
        /\ NewId(k, {v.rank : v \in {v \in UNION {seen[e] : e \in Device} :
                                            v.by = MemberOf[d] /\ v.rev = NextVote(d)}})
        /\ Store(d, {}, {[by |-> MemberOf[d], rev |-> NextVote(d), rank |-> k, option |-> o]})
    BY <1>1
<1>3. NextVote(d) \in Nat \ {0}
    <2> DEFINE own == {v \in Latest(votes[d]) : v.by = MemberOf[d]}
    <2>1. CASE own = {}
        BY <2>1 DEF NextVote
    <2>2. CASE own # {}
        <3>1. (CHOOSE v \in own : TRUE) \in own
            BY <2>2
        <3>2. (CHOOSE v \in own : TRUE) \in VoteBodies
            BY <3>1 DEF OutcomeInv, VoteInv, Latest
        <3>3. (CHOOSE v \in own : TRUE).rev \in Nat
            BY <3>2 DEF VoteBodies
        <3> QED
            BY <2>2, <3>3 DEF NextVote
    <2> QED
        BY <2>1, <2>2
<1> DEFINE v == [by |-> MemberOf[d], rev |-> NextVote(d), rank |-> k, option |-> o]
<1>4. v \in VoteBodies
    <2>1. f.current.opts \subseteq Options
        BY ShownHeld DEF WellFormed
    <2>2. o \in Options \cup {None} /\ MemberOf[d] \in Member
        BY <2>1, DecisionsAssumption
    <2> QED
        BY <1>3, <2>2 DEF VoteBodies
<1>5. ASSUME NEW e \in Device, NEW w \in seen[e], v.by = w.by, v.rev = w.rev, v.rank = w.rank
      PROVE  FALSE
    <2>1. w \in {x \in UNION {seen[g] : g \in Device} : x.by = MemberOf[d] /\ x.rev = NextVote(d)}
        BY <1>5
    <2>2. k \in {x.rank : x \in {x \in UNION {seen[g] : g \in Device} :
                                   x.by = MemberOf[d] /\ x.rev = NextVote(d)}}
        BY <1>5, <2>1
    <2> QED
        BY <1>2, <2>2 DEF NewId
<1> HIDE DEF v
<1>6. Store(d, {}, {v})
    BY <1>2 DEF v
<1>7. OpsInv' /\ VoteInv' /\ revs' = [e \in Device |-> revs'[e]]
    BY <1>1, <1>4, <1>5, <1>6, StoreStands
<1>8. ViewInv' /\ WaitInv'
    BY <1>1, LeftAlone
<1>9. left' \in [Kinds -> Nat]
    BY <1>1, HappensTyped DEF ByHand, Kinds
<1> QED
    BY <1>1, <1>7, <1>8, <1>9 DEF OutcomeInv, Domains, RestInv

LEMMA AddOptionStands ==
    ASSUME OutcomeInv, NEW d \in Device, AddOption(d)
    PROVE  Domains' /\ ViewInv' /\ OpsInv' /\ WaitInv' /\ VoteInv' /\ RestInv'
<1>1. PICK f \in Shown(d), o \in Extra :
        /\ ByHand("option", d, f)
        /\ Sign(d, Revised(d, f, {o}, "open"))
        /\ UNCHANGED <<members, view, creator, over, closing, waiting>>
    BY DEF AddOption
<1> DEFINE c == Revised(d, f, {o}, "open")
<1>2. {o} \in SUBSET Options /\ "open" \in States
    BY DEF Options, States
<1>3. WellFormed(c) /\ CountStands(c)
    BY <1>2, RevisedStands
<1>4. Sign(d, c)
    BY <1>1
<1> HIDE DEF c
<1>5. OpsInv' /\ VoteInv' /\ revs' = [e \in Device |-> revs'[e]]
    BY <1>1, <1>3, <1>4, SignStands
<1>6. ViewInv' /\ WaitInv'
    BY <1>1, LeftAlone
<1>7. left' \in [Kinds -> Nat]
    BY <1>1, HappensTyped DEF ByHand, Kinds
<1> QED
    BY <1>1, <1>5, <1>6, <1>7 DEF OutcomeInv, Domains, RestInv

\* A change waits at a page.
LEMMA WaitStands ==
    ASSUME OutcomeInv, UNCHANGED members, NEW d \in Page, NEW change,
           WellFormed(change), CountStands(change), change.by = MemberOf[d],
           waiting' = [waiting EXCEPT ![d] = change]
    PROVE  WaitInv' /\ waiting' = [e \in Device |-> waiting'[e]]
<1>1. waiting' = [e \in Device |-> waiting'[e]]
    BY DEF OutcomeInv, Domains
<1>2. \A e \in Device : waiting'[e] = waiting[e] \/ (e = d /\ waiting'[e] = change)
    BY DEF OutcomeInv, Domains
<1>3. \A r : (WellFormed(r))' = WellFormed(r) /\ (CountStands(r))' = CountStands(r)
    BY DEF WellFormed, CountStands
<1>4. WaitInv'
    BY <1>2, <1>3 DEF OutcomeInv, WaitInv
<1> QED
    BY <1>1, <1>4

\* Nothing waits at a page any more.
LEMMA WaitOver ==
    ASSUME OutcomeInv, UNCHANGED members, NEW d \in Device,
           waiting' = [waiting EXCEPT ![d] = None]
    PROVE  WaitInv' /\ waiting' = [e \in Device |-> waiting'[e]]
<1>1. waiting' = [e \in Device |-> waiting'[e]]
    BY DEF OutcomeInv, Domains
<1>2. \A e \in Device : waiting'[e] = waiting[e] \/ waiting'[e] = None
    BY DEF OutcomeInv, Domains
<1>3. \A r : (WellFormed(r))' = WellFormed(r) /\ (CountStands(r))' = CountStands(r)
    BY DEF WellFormed, CountStands
<1>4. WaitInv'
    BY <1>2, <1>3 DEF OutcomeInv, WaitInv
<1> QED
    BY <1>1, <1>4

LEMMA EndStands ==
    ASSUME OutcomeInv, NEW d \in Device, End(d)
    PROVE  Domains' /\ ViewInv' /\ OpsInv' /\ WaitInv' /\ VoteInv' /\ RestInv'
<1>1. PICK f \in Shown(d), s \in {"closed", "withdrawn"} :
        /\ ByHand("end", d, f)
        /\ IF d \in Page
           THEN /\ waiting' = [waiting EXCEPT ![d] = Revised(d, f, {}, s)]
                /\ UNCHANGED <<revs, votes, seen>>
           ELSE Sign(d, Revised(d, f, {}, s)) /\ UNCHANGED waiting
        /\ UNCHANGED <<members, view, creator, over, closing>>
    BY DEF End
<1> DEFINE c == Revised(d, f, {}, s)
<1>2. {} \in SUBSET Options /\ s \in States
    BY DEF States
<1>3. WellFormed(c) /\ CountStands(c) /\ c.by = MemberOf[d]
    BY <1>2, RevisedStands
<1>4. IF d \in Page
      THEN waiting' = [waiting EXCEPT ![d] = c] /\ UNCHANGED <<revs, votes, seen>>
      ELSE Sign(d, c) /\ UNCHANGED waiting
    BY <1>1
<1> HIDE DEF c
<1>5. left' \in [Kinds -> Nat]
    BY <1>1, HappensTyped DEF ByHand, Kinds
<1>6. CASE d \in Page
    <2>1. WaitInv' /\ waiting' = [e \in Device |-> waiting'[e]]
        BY <1>1, <1>3, <1>4, <1>6, WaitStands
    <2>2. ViewInv' /\ OpsInv' /\ VoteInv'
        BY <1>1, <1>4, <1>6, LeftAlone
    <2> QED
        BY <1>1, <1>4, <1>5, <1>6, <2>1, <2>2 DEF OutcomeInv, Domains, RestInv
<1>7. CASE d \notin Page
    <2>1. OpsInv' /\ VoteInv' /\ revs' = [e \in Device |-> revs'[e]]
        BY <1>1, <1>3, <1>4, <1>7, SignStands
    <2>2. ViewInv' /\ WaitInv'
        BY <1>1, <1>4, <1>7, LeftAlone
    <2> QED
        BY <1>1, <1>4, <1>5, <1>7, <2>1, <2>2 DEF OutcomeInv, Domains, RestInv
<1> QED
    BY <1>6, <1>7

LEMMA CloseDueStands ==
    ASSUME OutcomeInv, NEW d \in Device, CloseDue(d)
    PROVE  Domains' /\ ViewInv' /\ OpsInv' /\ WaitInv' /\ VoteInv' /\ RestInv'
<1>1. PICK f \in Shown(d) :
        /\ Sign(d, Revised(d, f, {}, "closed"))
        /\ UNCHANGED <<members, view, creator, over, closing, waiting, left>>
    BY DEF CloseDue
<1> DEFINE c == Revised(d, f, {}, "closed")
<1>2. WellFormed(c) /\ CountStands(c)
    BY RevisedStands DEF States
<1>3. Sign(d, c)
    BY <1>1
<1> HIDE DEF c
<1>4. OpsInv' /\ VoteInv' /\ revs' = [e \in Device |-> revs'[e]]
    BY <1>1, <1>2, <1>3, SignStands
<1>5. ViewInv' /\ WaitInv'
    BY <1>1, LeftAlone
<1> QED
    BY <1>1, <1>4, <1>5 DEF OutcomeInv, Domains, RestInv

LEMMA PageCloseDueStands ==
    ASSUME OutcomeInv, NEW d \in Device, PageCloseDue(d)
    PROVE  Domains' /\ ViewInv' /\ OpsInv' /\ WaitInv' /\ VoteInv' /\ RestInv'
<1>1. PICK f \in Shown(d) :
        /\ d \in Page
        /\ closing' = [closing EXCEPT ![d] = @ \cup {f.current.rev}]
        /\ waiting' = [waiting EXCEPT ![d] = Revised(d, f, {}, "closed")]
        /\ UNCHANGED <<members, view, creator, revs, votes, seen, over, left>>
    BY DEF PageCloseDue
<1> DEFINE c == Revised(d, f, {}, "closed")
<1>2. WellFormed(c) /\ CountStands(c) /\ c.by = MemberOf[d]
    BY RevisedStands DEF States
<1>3. waiting' = [waiting EXCEPT ![d] = c]
    BY <1>1
<1> HIDE DEF c
<1>4. WaitInv' /\ waiting' = [e \in Device |-> waiting'[e]]
    BY <1>1, <1>2, <1>3, WaitStands
<1>5. ViewInv' /\ OpsInv' /\ VoteInv'
    BY <1>1, LeftAlone
<1>6. f.current.rev \in Nat \ {0}
    BY ShownHeld DEF WellFormed
<1>7. closing' = [e \in Device |-> closing'[e]]
    BY <1>1 DEF OutcomeInv, Domains
<1>8. \A e \in Device : closing'[e] \subseteq Nat \ {0}
    BY <1>1, <1>6 DEF OutcomeInv, Domains, RestInv
<1>9. RestInv'
    BY <1>1, <1>8 DEF OutcomeInv, RestInv
<1> QED
    BY <1>1, <1>4, <1>5, <1>7, <1>9 DEF OutcomeInv, Domains

LEMMA SignWaitingStands ==
    ASSUME OutcomeInv, NEW d \in Device, SignWaiting(d)
    PROVE  Domains' /\ ViewInv' /\ OpsInv' /\ WaitInv' /\ VoteInv' /\ RestInv'
<1>1. /\ waiting[d] # None /\ waiting' = [waiting EXCEPT ![d] = None]
      /\ UNCHANGED <<members, view, creator, over, left>>
    BY DEF SignWaiting
<1>2. WellFormed(waiting[d]) /\ CountStands(waiting[d])
    BY <1>1 DEF OutcomeInv, WaitInv
<1>3. WaitInv' /\ waiting' = [e \in Device |-> waiting'[e]]
    BY <1>1, WaitOver
<1>4. ViewInv'
    BY <1>1, LeftAlone
<1>5. CASE Sign(d, waiting[d]) /\ UNCHANGED closing
    <2>1. OpsInv' /\ VoteInv' /\ revs' = [e \in Device |-> revs'[e]]
        BY <1>1, <1>2, <1>5, SignStands
    <2> QED
        BY <1>1, <1>3, <1>4, <1>5, <2>1 DEF OutcomeInv, Domains, RestInv
<1>6. CASE /\ closing' = [closing EXCEPT ![d] = @ \ {waiting[d].rev - 1}]
           /\ UNCHANGED <<revs, votes, seen>>
    <2>1. OpsInv' /\ VoteInv'
        BY <1>1, <1>6, LeftAlone
    <2>2. closing' = [e \in Device |-> closing'[e]]
        BY <1>6 DEF OutcomeInv, Domains
    <2>3. \A e \in Device : closing'[e] \subseteq closing[e]
        BY <1>6 DEF OutcomeInv, Domains
    <2>4. RestInv'
        BY <1>1, <2>3 DEF OutcomeInv, RestInv
    <2> QED
        BY <1>3, <1>4, <1>6, <2>1, <2>2, <2>4 DEF OutcomeInv, Domains
<1> QED
    BY <1>5, <1>6 DEF SignWaiting

LEMMA ReloadStands ==
    ASSUME OutcomeInv, NEW d \in Device, Reload(d)
    PROVE  Domains' /\ ViewInv' /\ OpsInv' /\ WaitInv' /\ VoteInv' /\ RestInv'
<1>1. /\ Happens("reload")
      /\ closing' = [closing EXCEPT ![d] = {}] /\ waiting' = [waiting EXCEPT ![d] = None]
      /\ UNCHANGED <<members, view, creator, revs, votes, seen, over>>
    BY DEF Reload
<1>2. WaitInv' /\ waiting' = [e \in Device |-> waiting'[e]]
    BY <1>1, WaitOver
<1>3. ViewInv' /\ OpsInv' /\ VoteInv'
    BY <1>1, LeftAlone
<1>4. closing' = [e \in Device |-> closing'[e]]
    BY <1>1 DEF OutcomeInv, Domains
<1>5. \A e \in Device : closing'[e] \subseteq closing[e]
    BY <1>1 DEF OutcomeInv, Domains
<1>6. left' \in [Kinds -> Nat]
    BY <1>1, HappensTyped DEF Kinds
<1>7. RestInv'
    BY <1>1, <1>5, <1>6 DEF OutcomeInv, RestInv
<1> QED
    BY <1>1, <1>2, <1>3, <1>4, <1>7 DEF OutcomeInv, Domains

LEMMA PollStands ==
    ASSUME OutcomeInv, NEW d \in Device, Poll(d)
    PROVE  Domains' /\ ViewInv' /\ OpsInv' /\ WaitInv' /\ VoteInv' /\ RestInv'
<1>1. /\ view' = [view EXCEPT ![d] = members]
      /\ UNCHANGED <<members, creator, revs, votes, seen, over, closing, waiting, left>>
    BY DEF Poll
<1>2. OpsInv' /\ WaitInv' /\ VoteInv'
    BY <1>1, LeftAlone
<1>3. view' \in [Device -> SUBSET Member]
    BY <1>1 DEF OutcomeInv, ViewInv
<1>4. \A e \in Device : members \subseteq view'[e]
    BY <1>1 DEF OutcomeInv, ViewInv
<1>5. ViewInv'
    BY <1>1, <1>3, <1>4 DEF OutcomeInv, ViewInv
<1> QED
    BY <1>1, <1>2, <1>5 DEF OutcomeInv, Domains, RestInv

LEMMA DeliverStands ==
    ASSUME OutcomeInv, NEW d \in Device, NEW e \in Device, Deliver(d, e) \/ Sync(d, e)
    PROVE  Domains' /\ ViewInv' /\ OpsInv' /\ WaitInv' /\ VoteInv' /\ RestInv'
<1>1. UNCHANGED <<members, view, creator, over, closing, waiting, left>>
    BY DEF Deliver, Sync
<1>2. PICK R \in SUBSET revs[d], V \in SUBSET votes[d] : Store(e, R, V)
    <2>1. CASE \E r \in revs[d] \ revs[e] : Store(e, {r}, {})
        BY <2>1
    <2>2. CASE \E v \in votes[d] \ votes[e] : Store(e, {}, {v})
        BY <2>2
    <2>3. CASE Sync(d, e)
        BY <2>3 DEF Sync
    <2> QED
        BY <2>1, <2>2, <2>3 DEF Deliver
<1>3. V \in SUBSET VoteBodies
    BY DEF OutcomeInv, VoteInv
<1>4. \A r \in R : WellFormed(r) /\ CountStands(r) /\ r.rank \in Ranks
    BY DEF OutcomeInv, OpsInv
<1>5. V \subseteq seen[d]
    BY DEF OutcomeInv, IInv, LatestHeld
<1>6. \A v \in V, g \in Device : \A w \in seen[g] :
         v.by = w.by /\ v.rev = w.rev /\ v.rank = w.rank => v = w
    BY <1>5 DEF OutcomeInv, VoteInv
<1>7. \A v, w \in V : v.by = w.by /\ v.rev = w.rev /\ v.rank = w.rank => v = w
    BY <1>5, <1>6
<1>8. OpsInv' /\ VoteInv' /\ revs' = [g \in Device |-> revs'[g]]
    BY <1>1, <1>2, <1>3, <1>4, <1>6, <1>7, StoreStands
<1>9. ViewInv' /\ WaitInv'
    BY <1>1, LeftAlone
<1> QED
    BY <1>1, <1>8, <1>9 DEF OutcomeInv, Domains, RestInv

\* The fewer are in the room, the easier a close counts them all.
LEMMA LeaveStands ==
    ASSUME OutcomeInv, NEW m \in Member, Leave(m)
    PROVE  Domains' /\ ViewInv' /\ OpsInv' /\ WaitInv' /\ VoteInv' /\ RestInv'
<1>1. /\ Happens("leave") /\ members' \subseteq members
      /\ UNCHANGED <<view, creator, revs, votes, seen, over, closing, waiting>>
    BY DEF Leave
<1>2. ViewInv'
    BY <1>1 DEF OutcomeInv, ViewInv
<1>3. ASSUME NEW c, WellFormed(c), CountStands(c) PROVE (WellFormed(c) /\ CountStands(c))'
    <2>1. (WellFormed(c))'
        BY <1>3 DEF WellFormed
    <2>2. ASSUME c.state = "closed"
          PROVE  Cardinality((members' \ Agent) \cup Voters(c.counted)) <= c.people
        <3> DEFINE S == (members \ Agent) \cup Voters(c.counted)
                   T == (members' \ Agent) \cup Voters(c.counted)
        <3>1. T \in SUBSET S
            BY <1>1
        <3>2. S \in SUBSET Member
            <4>1. Voters(c.counted) \subseteq Member
                BY <1>3 DEF Voters, WellFormed, VoteBodies
            <4> QED
                BY <4>1 DEF OutcomeInv, ViewInv
        <3>3. Cardinality(S) <= c.people
            BY <1>3, <2>2 DEF CountStands
        <3>4. c.people \in Nat
            BY <1>3 DEF WellFormed
        <3> HIDE DEF S, T
        <3>5. IsFiniteSet(S)
            BY <3>2, FS_Subset, DecisionsAssumption
        <3>6. Cardinality(T) <= Cardinality(S) /\ Cardinality(S) \in Nat /\ Cardinality(T) \in Nat
            BY <3>1, <3>5, FS_Subset, FS_CardinalityType
        <3>7. Cardinality(T) <= c.people
            BY <3>3, <3>4, <3>6
        <3> QED
            BY <3>7 DEF T
    <2>3. (CountStands(c))'
        BY <1>3, <2>2 DEF CountStands, Voters
    <2> QED
        BY <2>1, <2>3
<1>4. OpsInv'
    BY <1>1, <1>3 DEF OutcomeInv, OpsInv
<1>5. WaitInv'
    BY <1>1, <1>3 DEF OutcomeInv, WaitInv
<1>6. VoteInv'
    BY <1>1 DEF OutcomeInv, VoteInv
<1>7. left' \in [Kinds -> Nat]
    BY <1>1, HappensTyped DEF Kinds
<1> QED
    BY <1>1, <1>2, <1>4, <1>5, <1>6, <1>7 DEF OutcomeInv, Domains, RestInv

LEMMA DeadlineStands ==
    ASSUME OutcomeInv, DeadlinePasses
    PROVE  Domains' /\ ViewInv' /\ OpsInv' /\ WaitInv' /\ VoteInv' /\ RestInv'
<1>1. /\ Happens("deadline") /\ over' = TRUE
      /\ UNCHANGED <<members, view, creator, revs, votes, seen, closing, waiting>>
    BY DEF DeadlinePasses
<1>2. ViewInv' /\ OpsInv' /\ WaitInv' /\ VoteInv'
    BY <1>1, LeftAlone
<1>3. left' \in [Kinds -> Nat]
    BY <1>1, HappensTyped DEF Kinds
<1> QED
    BY <1>1, <1>2, <1>3 DEF OutcomeInv, Domains, RestInv

LEMMA OutcomeNext == OutcomeInv /\ [Next]_vars => OutcomeInv'
<1> SUFFICES ASSUME OutcomeInv, [Next]_vars PROVE OutcomeInv'
    OBVIOUS
<1> DEFINE Stand == Domains' /\ ViewInv' /\ OpsInv' /\ WaitInv' /\ VoteInv' /\ RestInv'
<1>1. IInv'
    BY InvNext DEF OutcomeInv
<1> SUFFICES Stand
    BY <1>1 DEF OutcomeInv
<1>2. ASSUME NEW d \in Device, Open(d) \/ Vote(d) \/ AddOption(d) \/ End(d) PROVE Stand
    BY <1>2, OpenStands, VoteStands, AddOptionStands, EndStands
<1>3. ASSUME NEW d \in Device, CloseDue(d) \/ PageCloseDue(d) \/ SignWaiting(d) PROVE Stand
    BY <1>3, CloseDueStands, PageCloseDueStands, SignWaitingStands
<1>4. ASSUME NEW d \in Device, Reload(d) \/ Poll(d) PROVE Stand
    BY <1>4, ReloadStands, PollStands
<1>5. ASSUME NEW d \in Device, NEW e \in Device, Deliver(d, e) \/ Sync(d, e) PROVE Stand
    BY <1>5, DeliverStands
<1>6. ASSUME NEW m \in Member, Leave(m) PROVE Stand
    BY <1>6, LeaveStands
<1>7. CASE DeadlinePasses
    BY <1>7, DeadlineStands
<1>8. CASE UNCHANGED vars
    <2>1. ViewInv' /\ OpsInv' /\ WaitInv' /\ VoteInv'
        BY <1>8, LeftAlone DEF vars
    <2> QED
        BY <1>8, <2>1 DEF vars, OutcomeInv, Domains, RestInv
<1> HIDE DEF Stand
<1> QED
    BY <1>2, <1>3, <1>4, <1>5, <1>6, <1>7, <1>8 DEF Next

-----------------------------------------------------------------------------
(* Outcomes *)

\* Nobody votes twice among V: there are as many voters.
LEMMA EachOnce ==
    ASSUME NEW V, NEW P, IsFiniteSet(P), \A v \in V : v.by \in P,
           \A v, w \in V : v.by = w.by => v = w
    PROVE  IsFiniteSet(V) /\ Cardinality(V) \in Nat /\ Cardinality(V) <= Cardinality(P)
<1> DEFINE voter == [v \in V |-> v.by]
<1>1. voter \in [V -> P] /\ \A v, w \in V : voter[v] = voter[w] => v = w
    OBVIOUS
<1> HIDE DEF voter
<1>2. voter \in Injection(V, P)
    BY <1>1, Fun_IsInj
<1> QED
    BY <1>2, FS_Injection, FS_CardinalityType

\* More votes for an option are at most as many more as come to the others.
LEMMA ForMore ==
    ASSUME NEW V, NEW L, IsFiniteSet(V), IsFiniteSet(L), NEW o
    PROVE  /\ For(o, V) \in Nat /\ For(o, V \cup L) \in Nat
           /\ For(o, V) <= For(o, V \cup L)
           /\ For(o, V \cup L) <= For(o, V) + Cardinality(L)
<1> DEFINE A == {v \in V : v.option = o}
           B == {v \in L : v.option = o}
           C == {v \in V \cup L : v.option = o}
<1>1. A \in SUBSET V /\ B \in SUBSET L /\ C = A \cup B /\ A \in SUBSET C
    OBVIOUS
<1>2. For(o, V) = Cardinality(A) /\ For(o, V \cup L) = Cardinality(C)
    BY DEF For
<1> HIDE DEF A, B, C
<1>3. IsFiniteSet(A) /\ IsFiniteSet(B) /\ Cardinality(B) <= Cardinality(L)
    BY <1>1, FS_Subset
<1>4. IsFiniteSet(C) /\ Cardinality(C) = Cardinality(A) + Cardinality(B) - Cardinality(A \cap B)
    BY <1>1, <1>3, FS_Union
<1>5. IsFiniteSet(A \cap B)
    <2>1. A \cap B \in SUBSET A
        OBVIOUS
    <2> QED
        BY <1>3, <2>1, FS_Subset
<1>6. /\ Cardinality(A) \in Nat /\ Cardinality(B) \in Nat /\ Cardinality(C) \in Nat
      /\ Cardinality(L) \in Nat /\ Cardinality(A \cap B) \in Nat
    BY <1>3, <1>4, <1>5, FS_CardinalityType
<1>7. Cardinality(A) <= Cardinality(C)
    BY <1>1, <1>4, FS_Subset
<1> QED
    BY <1>2, <1>3, <1>4, <1>6, <1>7

\* An option with more votes than each other one is the only one that leads.
LEMMA OneLeader ==
    ASSUME NEW opts, NEW V, NEW o \in opts, For(o, V) > 0, \A p : For(p, V) \in Nat,
           \A p \in opts \ {o} : For(p, V) < For(o, V)
    PROVE  Leaders(opts, V) = {o}
<1>1. ASSUME NEW p \in opts PROVE For(p, V) <= For(o, V)
    <2>1. For(p, V) \in Nat /\ For(o, V) \in Nat
        OBVIOUS
    <2>2. CASE p = o
        BY <2>1, <2>2
    <2>3. CASE p # o
        <3>1. For(p, V) < For(o, V)
            BY <2>3
        <3> QED
            BY <2>1, <3>1
    <2> QED
        BY <2>2, <2>3
<1>2. ASSUME NEW p \in opts, p # o PROVE ~(For(o, V) <= For(p, V))
    <2>1. For(p, V) \in Nat /\ For(o, V) \in Nat /\ For(p, V) < For(o, V)
        BY <1>2
    <2> QED
        BY <2>1
<1> QED
    BY <1>1, <1>2, Zenon DEF Leaders

\* tallyVotes: once settled, an outcome leads whatever the others vote.
LEMMA SettledLeads ==
    ASSUME NEW opts, NEW V, NEW L, NEW people \in Nat,
           IsFiniteSet(V), IsFiniteSet(L), Cardinality(V) + Cardinality(L) <= people,
           \E o, p \in opts : o # p, Settled(opts, V, people)
    PROVE  Leaders(opts, V \cup L) = Leaders(opts, V)
<1>1. Cardinality(V) \in Nat /\ Cardinality(L) \in Nat
    BY FS_CardinalityType
<1>2. CASE Cardinality(V) >= people
    <2>1. Cardinality(L) = 0
        BY <1>1, <1>2
    <2>2. L = {}
        BY <2>1, FS_EmptySet
    <2>3. V \cup L = V
        BY <2>2
    <2> QED
        BY <2>3
<1>3. CASE \E o \in opts : \A p \in opts \ {o} : For(o, V) + Cardinality(V) > For(p, V) + people
    <2>1. PICK o \in opts : \A p \in opts \ {o} : For(o, V) + Cardinality(V) > For(p, V) + people
        BY <1>3
    <2>2. \A p : /\ For(p, V) \in Nat /\ For(p, V \cup L) \in Nat
                 /\ For(p, V) <= For(p, V \cup L)
                 /\ For(p, V \cup L) <= For(p, V) + Cardinality(L)
        BY ForMore
    <2>3. ASSUME NEW p \in opts \ {o} PROVE For(p, V) < For(o, V) /\ For(p, V \cup L) < For(o, V \cup L)
        <3>1. For(o, V) + Cardinality(V) > For(p, V) + people
            BY <2>1
        <3>2. /\ For(p, V) \in Nat /\ For(p, V \cup L) \in Nat /\ For(o, V) \in Nat /\ For(o, V \cup L) \in Nat
              /\ For(o, V) <= For(o, V \cup L)
              /\ For(p, V \cup L) <= For(p, V) + Cardinality(L)
            BY <2>2
        <3> QED
            BY <1>1, <3>1, <3>2
    <2>4. PICK q \in opts : q # o
        OBVIOUS
    <2>5. For(o, V) > 0 /\ For(o, V \cup L) > 0
        <3>1. For(q, V) < For(o, V) /\ For(q, V \cup L) < For(o, V \cup L)
            BY <2>3, <2>4
        <3>2. /\ For(q, V) \in Nat /\ For(q, V \cup L) \in Nat /\ For(o, V) \in Nat /\ For(o, V \cup L) \in Nat
            BY <2>2
        <3> QED
            BY <3>1, <3>2
    <2>6. Leaders(opts, V) = {o}
        BY <2>5, OneLeader, <2>2, <2>3
    <2>7. Leaders(opts, V \cup L) = {o}
        BY <2>5, OneLeader, <2>2, <2>3
    <2> QED
        BY <2>6, <2>7
<1> QED
    BY <1>2, <1>3 DEF Settled

\* Votes found after a close are of people it counted who are still here.
LEMMA CertainLemma == OutcomeInv => CertainStays
<1> SUFFICES ASSUME OutcomeInv, NEW d \in Device, NEW f \in Shown(d), f.current.state = "closed",
                    Settled(f.current.opts, f.current.counted, f.current.people)
             PROVE  LET cur == f.current
                        late == {v \in Counted(f) : v.by \in members /\ \A c \in cur.counted : c.by # v.by}
                    IN Leaders(cur.opts, cur.counted \cup late) = Leaders(cur.opts, cur.counted)
    BY DEF CertainStays
<1> DEFINE cur == f.current
           V == cur.counted
           L == {v \in Counted(f) : v.by \in members /\ \A c \in V : c.by # v.by}
           P == (members \ Agent) \cup Voters(V)
<1>1. /\ WellFormed(cur) /\ CountStands(cur) /\ cur.state = "closed"
      /\ f.ballots \subseteq Latest(votes[d])
    BY ShownHeld
<1>2. /\ \A v, w \in V : v.by = w.by => v = w
      /\ Cardinality(P) <= cur.people
    BY <1>1 DEF CountStands
<1>3. \A v \in V : v.by \in P
    BY DEF Voters
<1>4. \A v \in L : v.by \in P /\ \A c \in V : c.by # v.by
    BY DEF Counted
<1>5. \A v, w \in L : v.by = w.by => v = w
    BY <1>1, OneLatest DEF Counted
<1>6. IsFiniteSet(P)
    <2>1. Voters(V) \subseteq Member
        BY <1>1 DEF Voters, WellFormed, VoteBodies
    <2>2. P \in SUBSET Member
        BY <2>1 DEF OutcomeInv, ViewInv
    <2> HIDE DEF P
    <2> QED
        BY <2>2, FS_Subset, DecisionsAssumption
<1>7. cur.people \in Nat /\ \E o, p \in cur.opts : o # p
    BY <1>1, DecisionsAssumption DEF WellFormed
<1>8. Settled(cur.opts, V, cur.people)
    OBVIOUS
<1> SUFFICES Leaders(cur.opts, V \cup L) = Leaders(cur.opts, V)
    OBVIOUS
<1> HIDE DEF cur, V, L, P
<1>9. V \cap L = {}
    BY <1>4
<1>10. \A v, w \in V \cup L : v.by = w.by => v = w
    BY <1>2, <1>4, <1>5
<1>11. Cardinality(V \cup L) <= Cardinality(P) /\ Cardinality(V \cup L) \in Nat
    BY <1>3, <1>4, <1>6, <1>10, EachOnce
<1>12. IsFiniteSet(V) /\ IsFiniteSet(L)
    BY <1>2, <1>3, <1>4, <1>5, <1>6, EachOnce
<1>13. Cardinality(V \cup L) = Cardinality(V) + Cardinality(L)
    <2>1. Cardinality(V \cup L) = Cardinality(V) + Cardinality(L) - Cardinality(V \cap L)
        BY <1>12, FS_Union
    <2>2. Cardinality(V \cap L) = 0
        BY <1>9, FS_EmptySet
    <2>3. Cardinality(V) \in Nat /\ Cardinality(L) \in Nat
        BY <1>12, FS_CardinalityType
    <2> QED
        BY <2>1, <2>2, <2>3
<1>14. Cardinality(V) + Cardinality(L) <= cur.people
    BY <1>2, <1>6, <1>7, <1>11, <1>13, FS_CardinalityType
<1> QED
    BY <1>7, <1>8, <1>12, <1>14, SettledLeads

LEMMA OutcomeTyped == OutcomeInv => TypeOK
<1> SUFFICES ASSUME OutcomeInv PROVE TypeOK
    OBVIOUS
<1>1. members \subseteq Member /\ view \in [Device -> SUBSET Member]
    BY DEF OutcomeInv, ViewInv
<1>2. \A d \in Device : \A r \in revs[d] :
          /\ r.by \in Member /\ r.rank \in Ranks /\ r.state \in States
          /\ r.rev \in Nat \ {0} /\ r.people \in Nat /\ r.opts \subseteq Options
          /\ \A v \in r.counted : v \in VoteBodies /\ v.by \notin Agent
    BY DEF OutcomeInv, OpsInv, WellFormed
<1>3. votes \in [Device -> SUBSET VoteBodies] /\ seen \in [Device -> SUBSET VoteBodies]
    BY DEF OutcomeInv, VoteInv
<1>4. \A d \in Device : waiting[d] # None => d \in Page /\ waiting[d].by = MemberOf[d]
    BY DEF OutcomeInv, WaitInv
<1>5. RestInv
    BY DEF OutcomeInv
<1> QED
    BY <1>1, <1>2, <1>3, <1>4, <1>5 DEF TypeOK, RestInv

\* Whatever order operations come in, whoever leaves and whatever pages wait to
\* sign, an outcome that tallyVotes took for certain when a steward recorded it
\* stays the outcome (closeDecision, honestClose).
THEOREM CertainOutcomesStay == Spec => []OutcomesSound
<1>1. OutcomeInv => OutcomesSound
    BY OutcomeTyped, CertainLemma DEF OutcomesSound
<1> QED
    BY <1>1, OutcomeInit, OutcomeNext, PTL DEF Spec
=============================================================================
