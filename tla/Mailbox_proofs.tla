--------------------------- MODULE Mailbox_proofs ---------------------------
(***************************************************************************)
(* Theorems of Mailbox: type correctness, and that the mailbox has one     *)
(* reader at a time while no process is held for long. The lease file is   *)
(* the argument: whoever reads is named in it, so two readers would need   *)
(* two leases.                                                             *)
(***************************************************************************)
EXTENDS Mailbox, FiniteSetTheorems, TLAPS

USE DEF hist

\* The agent has answered at most the items there are.
LEMMA ActionsBounded ==
    ASSUME MaxWork \in Nat, done \subseteq Items
    PROVE  ownActions \in 0..MaxWork
<1>1. IsFiniteSet(Items) /\ Cardinality(Items) = MaxWork
    BY FS_Interval DEF Items
<1>2. IsFiniteSet(done) /\ Cardinality(done) <= Cardinality(Items)
    BY <1>1, FS_Subset
<1> QED
    BY <1>1, <1>2, FS_CardinalityType DEF ownActions

\* What a reader would read is items of work.
LEMMA UnreadItems ==
    ASSUME MaxWork \in Nat, posted \in 0..MaxWork, NEW c \in 0..MaxWork
    PROVE  Unread(c) \subseteq Items
BY DEF Unread, Items

\* The bounds are numbers.
LEMMA Bounds == MaxWork \in Nat /\ MaxGen \in Nat /\ MaxOffers \in Nat
BY MailboxAssumption

\* The first state is well typed: nothing has arrived, nobody reads.
LEMMA TypeInit == Init => TypeOK
<1> SUFFICES ASSUME Init PROVE TypeOK
    OBVIOUS
<1> USE Bounds DEF Init
<1>1. phase \in [Listener -> {"off", "attaching", "idle", "slice", "gone"}] /\ plan \in [Listener -> 0..MaxWork]
    OBVIOUS
<1>2. held \in [Listener -> SUBSET Items] /\ offers \in [Items -> Nat]
    OBVIOUS
<1>3. /\ posted \in 0..MaxWork /\ cursor \in 0..MaxWork /\ back \in 0..MaxWork /\ wgen \in 0..MaxGen
    OBVIOUS
<1> QED
    BY <1>1, <1>2, <1>3 DEF TypeOK

\* A lease that isn't a headless wake's is a live one's.
LEMMA LiveLease == TypeOK /\ isLive => lease \in LiveLeases
BY DEF TypeOK, isLive, HeadlessLeases

\* Work a lease carries is a span of positions in the room.
LEMMA CarriedSpan ==
    TypeOK /\ carries => lease.reoffer \in [before : 0..MaxWork, after : 0..MaxWork, actions : 0..MaxWork]
BY LiveLease DEF carries, isLive, LiveLeases

\* What a slice passes over and what a run read beyond its offer are items of work.
LEMMA DroppedItems ==
    ASSUME TypeOK
    PROVE  Stray \subseteq Items /\ \A l \in Listener : PassedOver(l) \subseteq Items
<1>1. Stray \subseteq Items
  BY DEF TypeOK, Stray
<1>2. ASSUME NEW l \in Listener PROVE PassedOver(l) \subseteq Items
  <2>1. cursor \in 0..MaxWork /\ plan[l] \in 0..MaxWork
    BY DEF TypeOK
  <2> QED
    BY <2>1, Bounds DEF PassedOver, Items
<1> QED
  BY <1>1, <1>2

\* Every step keeps the state well typed.
LEMMA TypeStep == TypeOK /\ [Next]_vars => TypeOK'
<1> SUFFICES ASSUME TypeOK, [Next]_vars PROVE TypeOK'
    OBVIOUS
<1> USE Bounds
<1> USE DEF room, live, watch, runv
<1>0. CASE UNCHANGED vars
    BY <1>0 DEF TypeOK, vars
<1>1. ASSUME NEW l \in Listener, Start(l) PROVE TypeOK'
    BY <1>1 DEF TypeOK, Start
<1>2. ASSUME NEW l \in Listener, Attach(l) PROVE TypeOK'
  <2>1. lease' \in LiveLeases \cup HeadlessLeases \cup {None}
    <3> DEFINE work == IF carries THEN lease.reoffer ELSE None
    <3>1. work \in [before : 0..MaxWork, after : 0..MaxWork, actions : 0..MaxWork] \cup {None}
      BY CarriedSpan
    <3>2. \/ lease' = lease
          \/ lease' = [state |-> "attached", by |-> l, age |-> 0, window |-> "open",
                       reoffer |-> work, reoffered |-> FALSE]
      BY <1>2, Zenon DEF Attach
    <3> HIDE DEF work
    <3>3. [state |-> "attached", by |-> l, age |-> 0, window |-> "open",
           reoffer |-> work, reoffered |-> FALSE] \in LiveLeases
      BY <3>1 DEF LiveLeases
    <3> QED
      BY <3>2, <3>3 DEF TypeOK
  <2> QED
    BY <1>2, <2>1 DEF TypeOK, Attach
<1>3. ASSUME NEW l \in Listener, Beat(l) PROVE TypeOK'
  <2>1. lease' \in LiveLeases \cup HeadlessLeases \cup {None}
    BY <1>3, LiveLease DEF TypeOK, Beat, ours, LiveLeases
  <2> QED
    BY <1>3, <2>1 DEF TypeOK, Beat
<1>4. ASSUME NEW l \in Listener, SliceStarts(l) PROVE TypeOK'
    BY <1>4 DEF TypeOK, SliceStarts
<1>5. ASSUME NEW l \in Listener, SliceTimesOut(l) PROVE TypeOK'
    BY <1>5, DroppedItems DEF TypeOK, SliceTimesOut
<1>6. ASSUME NEW l \in Listener, SliceReturns(l) PROVE TypeOK'
  <2>1. Unread(plan[l]) \subseteq Items
    BY UnreadItems DEF TypeOK
  <2>2. ASSUME ours(l) PROVE pickedUp(l) \in LiveLeases
    <3>1. lease \in LiveLeases
      BY <2>2, LiveLease DEF ours
    <3>2. ownActions \in 0..MaxWork
      BY ActionsBounded DEF TypeOK
    <3> QED
      BY <3>1, <3>2 DEF TypeOK, pickedUp, LiveLeases
  <2>3. lease' \in LiveLeases \cup HeadlessLeases \cup {None}
    BY <1>6, <2>2 DEF TypeOK, SliceReturns
  <2> QED
    BY <1>6, <2>1, <2>3, DroppedItems DEF TypeOK, SliceReturns
<1>7. ASSUME NEW l \in Listener, Quit(l) PROVE TypeOK'
  <2>1. released(l) \in LiveLeases \cup HeadlessLeases \cup {None}
    BY LiveLease DEF TypeOK, released, ours, LiveLeases
  <2> QED
    BY <1>7, <2>1 DEF TypeOK, Quit
<1>8. ASSUME NEW l \in Listener, Kill(l) PROVE TypeOK'
    BY <1>8 DEF TypeOK, Kill
<1>9. ASSUME NEW l \in Listener, EndTurn(l) PROVE TypeOK'
    BY <1>9 DEF TypeOK, EndTurn
<1>10. ASSUME NEW l \in Listener, NEW i \in Items, Answer(l, i) PROVE TypeOK'
    BY <1>10 DEF TypeOK, Answer
<1>11. ASSUME Post PROVE TypeOK'
    BY <1>11 DEF TypeOK, Post
<1>12. ASSUME Ages PROVE TypeOK'
  <2>1. lease' \in LiveLeases
    BY <1>12, LiveLease DEF Ages, LiveLeases
  <2> QED
    BY <1>12, <2>1 DEF TypeOK, Ages
<1>13. ASSUME WindowEnds PROVE TypeOK'
  <2>1. lease' \in LiveLeases
    BY <1>13, LiveLease DEF WindowEnds, LiveLeases
  <2> QED
    BY <1>13, <2>1 DEF TypeOK, WindowEnds
<1>14. ASSUME LifePasses PROVE TypeOK'
  <2>1. lively' \in BOOLEAN
    BY <1>14 DEF LifePasses
  <2>2. UNCHANGED <<trouble, posted, done, cursor, lease, live, watch, runv, hist>>
    BY <1>14 DEF LifePasses
  <2> QED
    BY <2>1, <2>2 DEF TypeOK
<1>15. ASSUME BackoffPasses PROVE TypeOK'
    BY <1>15 DEF TypeOK, BackoffPasses
<1>16. ASSUME GiveBack PROVE TypeOK'
  <2>1. carries
    BY <1>16, LiveLease DEF TypeOK, GiveBack, Gate, due, liveHold, isLive, LiveLeases, HeadlessLeases
  <2>2. lease' \in LiveLeases
    BY <1>16, <2>1, LiveLease DEF GiveBack, carries, LiveLeases
  <2>3. back' \in 0..MaxWork
    BY <1>16, <2>1, CarriedSpan DEF GiveBack
  <2> QED
    BY <1>16, <2>2, <2>3 DEF TypeOK, GiveBack
<1>17. ASSUME Restore PROVE TypeOK'
    BY <1>17 DEF TypeOK, Restore
<1>18. ASSUME Look PROVE TypeOK'
    BY <1>18 DEF TypeOK, Look
<1>19. ASSUME Begin PROVE TypeOK'
  <2>1. Unread(cursor) \subseteq Items
    BY UnreadItems DEF TypeOK
  <2>2. lease' \in LiveLeases \cup HeadlessLeases \cup {None}
    BY <1>19 DEF TypeOK, Begin, HeadlessLeases
  <2>3. offer' \in [before : 0..MaxWork, items : SUBSET Items] \cup {None}
    BY <1>19, <2>1 DEF TypeOK, Begin
  <2>4. run' \in BOOLEAN /\ got' \subseteq Items /\ acted' \in BOOLEAN
    BY <1>19 DEF TypeOK, Begin
  <2>5. /\ wstep' \in {"loop", "run"}
        /\ wstep' \in {"run", "settle"} => offer' # None
    <3>1. [before |-> cursor, items |-> Unread(cursor)] # None
      BY <2>1, MailboxAssumption DEF TypeOK, Items
    <3> QED
      BY <1>19, <3>1 DEF Begin
  <2>6. UNCHANGED <<room, cursor, live, wgen, back, offers, rest, result, hist>>
    BY <1>19 DEF Begin
  <2> QED
    BY <2>2, <2>3, <2>4, <2>5, <2>6 DEF TypeOK
<1>20. ASSUME RunReads PROVE TypeOK'
  <2>1. Unread(cursor) \subseteq Items
    BY UnreadItems DEF TypeOK
  <2> QED
    BY <1>20, <2>1 DEF TypeOK, RunReads
<1>21. ASSUME NEW i \in Items, RunAnswers(i) PROVE TypeOK'
    BY <1>21 DEF TypeOK, RunAnswers
<1>22. ASSUME NEW how \in {"ok", "failed", "busy", "wall", "broken"}, RunEnds(how) PROVE TypeOK'
  <2>1. lease' \in LiveLeases \cup HeadlessLeases \cup {None}
    BY <1>22 DEF TypeOK, RunEnds
  <2> QED
    <3>1. run' \in BOOLEAN
      BY <1>22 DEF RunEnds
    <3>2. /\ wstep' \in {"loop", "restore", "look", "run", "settle", "down", "orphan"}
          /\ wstep' \in {"run", "settle"} => offer # None
          /\ result' \in {"ok", "failed", "busy", "wall", "broken"}
      BY <1>22 DEF TypeOK, RunEnds
    <3>3. UNCHANGED <<room, cursor, live, wgen, back, offer, offers, rest, got, acted, hist>>
      BY <1>22 DEF RunEnds
    <3> QED
      BY <2>1, <3>1, <3>2, <3>3 DEF TypeOK
<1>23. ASSUME NEW failed \in BOOLEAN, offer # None, settle(failed)
       PROVE  cursor' \in 0..MaxWork /\ offers' \in [Items -> Nat] /\ offer' = None
    BY <1>23 DEF TypeOK, settle
<1>24. ASSUME SettleRun PROVE TypeOK'
  <2>1. cursor' \in 0..MaxWork /\ offers' \in [Items -> Nat] /\ offer' = None
    BY <1>23, <1>24 DEF TypeOK, SettleRun
  <2> QED
    BY <1>24, <2>1, DroppedItems DEF TypeOK, SettleRun
<1>25. ASSUME SettleOrphan PROVE TypeOK'
  <2>1. /\ cursor' \in 0..MaxWork /\ offers' \in [Items -> Nat]
        /\ offer' \in [before : 0..MaxWork, items : SUBSET Items] \cup {None}
    BY <1>23, <1>25 DEF TypeOK, SettleOrphan
  <2> QED
    BY <1>25, <2>1, DroppedItems DEF TypeOK, SettleOrphan
<1>26. ASSUME WatcherEnds PROVE TypeOK'
    BY <1>26 DEF TypeOK, WatcherEnds
<1>27. ASSUME WatcherStarts PROVE TypeOK'
  <2>1. wgen' \in 0..MaxGen /\ wstep' = "orphan"
    BY <1>27 DEF TypeOK, WatcherStarts
  <2>2. rest' \in {"no", "backoff", "paused", "halted"}
    BY <1>27 DEF TypeOK, WatcherStarts
  <2> QED
    BY <1>27, <2>1, <2>2 DEF TypeOK, WatcherStarts
<1> QED
    BY <1>0, <1>1, <1>2, <1>3, <1>4, <1>5, <1>6, <1>7, <1>8, <1>9, <1>10, <1>11, <1>12, <1>13, <1>14, <1>15,
       <1>16, <1>17, <1>18, <1>19, <1>20, <1>21, <1>22, <1>24, <1>25, <1>26, <1>27
       DEF Next, ListenerStep, Time, WatcherStep, RunStep

\* The lease, the cursor and every listener's place keep their shape (types of live.json,
\* watch-state.json and the listen cursor).
THEOREM TypeCorrect == Spec => []TypeOK
<1> QED
    BY TypeInit, TypeStep, PTL DEF Spec

(***************************************************************************)
(* One reader. Whoever reads is named in the lease, with a heartbeat that  *)
(* still counts; a headless run goes on only under a headless claim. The   *)
(* claim and the attachment are refused while the lease names a reader.    *)
(***************************************************************************)
Calm == "sleep" \notin trouble /\ ("nap" \in trouble => "unseen" \notin trouble)
Named(l) ==
    /\ lease # None /\ lease.state = "attached" /\ lease.by = l
    /\ lease.age = 0 \/ (lease.age = 1 /\ "nap" \in trouble)
LeaseNamesReaders == \A l \in Listener : Reads(l) => Named(l)
RunIsClaimed ==
    run => /\ lease # None /\ lease.state = "headless"
           /\ wstep \in {"run", "down", "orphan"}
IInv == LeaseNamesReaders /\ RunIsClaimed

\* A reader's lease counts, whatever is found of its process.
LEMMA ReaderHolds ==
    ASSUME Calm, TypeOK, IInv, NEW l \in Listener, Reads(l), NEW v \in Verdicts
    PROVE  liveHold(v) = "attached" /\ v # "gone" /\ lease.by = l
<1>1. Named(l)
    BY DEF IInv, LeaseNamesReaders
<1>2. v \in {"same", "unknown"} /\ ("nap" \in trouble => v = "same")
    BY <1>1 DEF Named, Verdicts, verify, Runs, Calm
<1>3. alive(lease.by) /\ fresh(v)
    BY <1>1, <1>2 DEF Named, alive, Runs, fresh
<1> QED
    BY <1>1, <1>2, <1>3 DEF Named, liveHold

\* A headless run's claim counts while the run goes on.
LEMMA RunHolds ==
    ASSUME TypeOK, IInv, run, NEW v
    PROVE  liveHold(v) = "headless" /\ \A l \in Listener : ~Reads(l)
<1>1. lease # None /\ lease.state = "headless"
    BY DEF IInv, RunIsClaimed
<1>2. claimAlive
    BY DEF claimAlive
<1> QED
    BY <1>1, <1>2 DEF liveHold, IInv, LeaseNamesReaders, Named

\* What may go wrong in a behaviour is settled when it starts.
LEMMA TroubleStays == [Next]_vars => trouble' = trouble
BY DEF Next, ListenerStep, Time, WatcherStep, RunStep, vars, room, Start, Attach, Beat, SliceStarts,
       SliceTimesOut, SliceReturns, Quit, Kill, EndTurn, Answer, Post, Ages, WindowEnds, LifePasses,
       BackoffPasses, GiveBack, Restore, Look, Begin, RunReads, RunAnswers, RunEnds, SettleRun,
       SettleOrphan, WatcherEnds, WatcherStarts

\* Every step keeps the lease naming who reads.
LEMMA NamesStep == Calm /\ TypeOK /\ IInv /\ [Next]_vars => IInv'
<1> SUFFICES ASSUME Calm, TypeOK, IInv, [Next]_vars PROVE IInv'
    OBVIOUS
<1> trouble' = trouble
    BY TroubleStays
<1> USE DEF room, live, watch, runv
<1>0. ASSUME UNCHANGED <<lease, phase, run>>, wstep' = wstep PROVE IInv'
    BY <1>0 DEF IInv, LeaseNamesReaders, RunIsClaimed, Named, Reads
<1>1. ASSUME NEW l \in Listener, Start(l) PROVE IInv'
    BY <1>1 DEF TypeOK, IInv, LeaseNamesReaders, RunIsClaimed, Named, Reads, Start
<1>2. ASSUME NEW l \in Listener, Attach(l) PROVE IInv'
  <2>0. UNCHANGED <<run, wstep>> /\ phase \in [Listener -> {"off", "attaching", "idle", "slice", "gone"}]
    BY <1>2 DEF Attach, TypeOK
  <2>1. PICK v \in Verdicts :
          \/ /\ Refused(v, l)
             /\ phase' = [phase EXCEPT ![l] = "gone"]
             /\ UNCHANGED lease
          \/ /\ ~Refused(v, l) /\ liveHold(v) # "headless"
             /\ phase' = [phase EXCEPT ![l] = "idle"]
             /\ lease' = [state |-> "attached", by |-> l, age |-> 0, window |-> "open",
                          reoffer |-> IF carries THEN lease.reoffer ELSE None, reoffered |-> FALSE]
    BY <1>2, Zenon DEF Attach
  <2>2. CASE Refused(v, l) /\ phase' = [phase EXCEPT ![l] = "gone"] /\ lease' = lease
    BY <2>0, <2>2 DEF IInv, LeaseNamesReaders, RunIsClaimed, Named, Reads
  <2>3. CASE /\ ~Refused(v, l) /\ liveHold(v) # "headless"
             /\ phase' = [phase EXCEPT ![l] = "idle"]
             /\ lease' = [state |-> "attached", by |-> l, age |-> 0, window |-> "open",
                          reoffer |-> IF carries THEN lease.reoffer ELSE None, reoffered |-> FALSE]
    <3>1. \A m \in Listener : Reads(m) => m = l
      <4> SUFFICES ASSUME NEW m \in Listener, Reads(m), m # l PROVE FALSE
        OBVIOUS
      <4>1. liveHold(v) = "attached" /\ v # "gone" /\ lease.by = m
        BY ReaderHolds
      <4>2. lease # None /\ lease.state = "attached"
        BY DEF IInv, LeaseNamesReaders, Named
      <4> QED
        BY <2>3, <4>1, <4>2 DEF Refused
    <3>2. ~run
      BY <2>3, RunHolds
    <3>3. \A m \in Listener : Reads(m)' => m = l
      BY <2>0, <2>3, <3>1 DEF Reads
    <3>4. lease' # None /\ lease'.state = "attached" /\ lease'.by = l /\ lease'.age = 0
      <4> DEFINE work == IF carries THEN lease.reoffer ELSE None
      <4>1. work \in [before : 0..MaxWork, after : 0..MaxWork, actions : 0..MaxWork] \cup {None}
        BY CarriedSpan
      <4>2. lease' = [state |-> "attached", by |-> l, age |-> 0, window |-> "open",
                      reoffer |-> work, reoffered |-> FALSE]
        BY <2>3
      <4> HIDE DEF work
      <4>3. lease' \in LiveLeases
        BY <4>1, <4>2 DEF LiveLeases
      <4> QED
        BY <4>2, <4>3, MailboxAssumption
    <3> QED
      BY <2>0, <3>2, <3>3, <3>4 DEF IInv, LeaseNamesReaders, RunIsClaimed, Named
  <2> QED
    BY <2>1, <2>2, <2>3
<1>3. ASSUME NEW l \in Listener, Beat(l) PROVE IInv'
  <2>1. Reads(l) /\ UNCHANGED <<run, wstep, phase>>
    BY <1>3 DEF Beat
  <2>2. CASE lease' = lease
    BY <1>0, <2>1, <2>2
  <2>3. CASE ours(l) /\ lease.state = "attached" /\ lease' = [lease EXCEPT !.age = 0]
    <3>1. lease' \in LiveLeases /\ lease'.state = lease.state /\ lease'.by = lease.by /\ lease'.age = 0
      BY <2>3, LiveLease DEF ours, LiveLeases
    <3>2. ~run
      BY <2>3 DEF IInv, RunIsClaimed
    <3> QED
      BY <2>1, <2>3, <3>1, <3>2, MailboxAssumption DEF IInv, LeaseNamesReaders, RunIsClaimed, Named, Reads
  <2> QED
    BY <1>3, <2>2, <2>3 DEF Beat
<1>4. ASSUME NEW l \in Listener, SliceStarts(l) PROVE IInv'
    BY <1>4 DEF TypeOK, IInv, LeaseNamesReaders, RunIsClaimed, Named, Reads, SliceStarts
<1>5. ASSUME NEW l \in Listener, SliceTimesOut(l) PROVE IInv'
    BY <1>5 DEF TypeOK, IInv, LeaseNamesReaders, RunIsClaimed, Named, Reads, SliceTimesOut
<1>6. ASSUME NEW l \in Listener, SliceReturns(l) PROVE IInv'
  <2>1. Reads(l) /\ UNCHANGED <<run, wstep>> /\ phase' = [phase EXCEPT ![l] = "gone"]
    BY <1>6 DEF SliceReturns, Reads
  <2>2. ~run
    BY <2>1, RunHolds
  <2>3. \A m \in Listener : ~Reads(m)'
    BY <2>1 DEF TypeOK, IInv, LeaseNamesReaders, Named, Reads
  <2> QED
    BY <2>1, <2>2, <2>3 DEF IInv, LeaseNamesReaders, RunIsClaimed
<1>7. ASSUME NEW l \in Listener, Quit(l) PROVE IInv'
  <2>1. UNCHANGED <<run, wstep>> /\ phase' = [phase EXCEPT ![l] = "gone"] /\ lease' = released(l)
    BY <1>7 DEF Quit
  <2>2. \A m \in Listener : Reads(m)' => Reads(m) /\ m # l
    BY <2>1 DEF TypeOK, Reads
  <2>3. lease' = lease \/ (ours(l) /\ lease.state = "attached")
    BY <2>1 DEF released
  <2>4. CASE lease' = lease
    BY <2>1, <2>2, <2>4 DEF IInv, LeaseNamesReaders, RunIsClaimed, Named
  <2>5. CASE ours(l) /\ lease.state = "attached"
    BY <2>1, <2>2, <2>5 DEF ours, IInv, LeaseNamesReaders, RunIsClaimed, Named
  <2> QED
    BY <2>3, <2>4, <2>5
<1>8. ASSUME NEW l \in Listener, Kill(l) PROVE IInv'
    BY <1>8 DEF TypeOK, IInv, LeaseNamesReaders, RunIsClaimed, Named, Reads, Kill
<1>9. ASSUME NEW l \in Listener, EndTurn(l) PROVE IInv'
    BY <1>0, <1>9 DEF EndTurn
<1>10. ASSUME NEW l \in Listener, NEW i \in Items, Answer(l, i) PROVE IInv'
    BY <1>0, <1>10 DEF Answer
<1>11. CASE Post
    BY <1>0, <1>11 DEF Post
<1>12. CASE Ages
  <2>1. isLive /\ lease \in LiveLeases /\ lease.state = "attached"
    BY <1>12, LiveLease DEF Ages
  <2>2. ~run
    BY <2>1 DEF IInv, RunIsClaimed
  <2>3. ~Reads(lease.by) \/ ("nap" \in trouble /\ lease.age = 0)
    BY <1>12 DEF Ages, Calm, Runs
  <2>4. lease' \in LiveLeases /\ lease'.state = "attached" /\ lease'.by = lease.by /\ lease'.age = lease.age + 1
    BY <1>12, <2>1 DEF Ages, LiveLeases
  <2>5. \A m \in Listener : Reads(m)' => Reads(m)
    BY <1>12 DEF Ages, Reads
  <2> QED
    BY <1>12, <2>2, <2>3, <2>4, <2>5, MailboxAssumption DEF Ages, IInv, LeaseNamesReaders, RunIsClaimed, Named
<1>13. CASE WindowEnds
  <2>1. lease # None /\ lease.state = "pickup" /\ UNCHANGED <<run, wstep, phase>>
    BY <1>13 DEF WindowEnds, isLive
  <2> QED
    BY <2>1 DEF IInv, LeaseNamesReaders, RunIsClaimed, Named, Reads
<1>14. CASE LifePasses
    BY <1>0, <1>14 DEF LifePasses
<1>15. CASE BackoffPasses
    BY <1>0, <1>15 DEF BackoffPasses
<1>16. CASE GiveBack
  <2>1. carries
    BY <1>16, LiveLease DEF TypeOK, GiveBack, Gate, due, liveHold, isLive, LiveLeases, HeadlessLeases
  <2>2. lease \in LiveLeases /\ lease' = [lease EXCEPT !.reoffered = TRUE] /\ wstep = "loop" /\ run' = run /\ phase' = phase
    BY <1>16, <2>1, LiveLease DEF carries, GiveBack
  <2>3. lease' \in LiveLeases /\ lease'.state = lease.state /\ lease'.by = lease.by /\ lease'.age = lease.age
    BY <2>2 DEF LiveLeases
  <2> QED
    BY <2>2, <2>3, MailboxAssumption DEF IInv, LeaseNamesReaders, RunIsClaimed, Named, Reads
<1>17. CASE Restore
    BY <1>17 DEF Restore, IInv, LeaseNamesReaders, RunIsClaimed, Named, Reads
<1>18. CASE Look
    BY <1>18 DEF Look, IInv, LeaseNamesReaders, RunIsClaimed, Named, Reads
<1>19. CASE Begin
  <2>1. PICK v \in Verdicts :
          IF mayBegin(v) /\ Unread(cursor) # {}
          THEN lease' = [state |-> "headless", gen |-> wgen] /\ wstep' = "run" /\ run' = TRUE
          ELSE wstep' = "loop" /\ UNCHANGED <<lease, run>>
    BY <1>19 DEF Begin
  <2>2. wstep = "look" /\ phase' = phase /\ ~run
    BY <1>19 DEF Begin, IInv, RunIsClaimed
  <2>3. CASE mayBegin(v) /\ Unread(cursor) # {}
    <3>1. \A m \in Listener : ~Reads(m)'
      BY <2>2, <2>3, ReaderHolds DEF mayBegin, Reads
    <3>2. lease' # None /\ lease'.state = "headless" /\ wstep' = "run"
      BY <2>1, <2>3, MailboxAssumption DEF TypeOK, HeadlessLeases
    <3> QED
      BY <3>1, <3>2 DEF IInv, LeaseNamesReaders, RunIsClaimed
  <2>4. CASE ~(mayBegin(v) /\ Unread(cursor) # {})
    BY <2>1, <2>2, <2>4 DEF IInv, LeaseNamesReaders, RunIsClaimed, Named, Reads
  <2> QED
    BY <2>3, <2>4
<1>20. CASE RunReads
    BY <1>0, <1>20 DEF RunReads
<1>21. ASSUME NEW i \in Items, RunAnswers(i) PROVE IInv'
    BY <1>0, <1>21 DEF RunAnswers
<1>22. ASSUME NEW how \in {"ok", "failed", "busy", "wall", "broken"}, RunEnds(how) PROVE IInv'
  <2>1. run /\ run' = FALSE /\ phase' = phase
    BY <1>22 DEF RunEnds
  <2>2. \A m \in Listener : ~Reads(m)'
    BY <2>1, RunHolds DEF Reads
  <2> QED
    BY <2>1, <2>2 DEF IInv, LeaseNamesReaders, RunIsClaimed
<1>23. CASE SettleRun
    BY <1>23 DEF SettleRun, IInv, LeaseNamesReaders, RunIsClaimed, Named, Reads
<1>24. CASE SettleOrphan
    BY <1>24 DEF SettleOrphan, IInv, LeaseNamesReaders, RunIsClaimed, Named, Reads
<1>25. CASE WatcherEnds
    BY <1>25 DEF WatcherEnds, IInv, LeaseNamesReaders, RunIsClaimed, Named, Reads
<1>26. CASE WatcherStarts
    BY <1>26 DEF WatcherStarts, IInv, LeaseNamesReaders, RunIsClaimed, Named, Reads
<1>27. CASE UNCHANGED vars
    BY <1>0, <1>27 DEF vars
<1> QED
    BY <1>1, <1>2, <1>3, <1>4, <1>5, <1>6, <1>7, <1>8, <1>9, <1>10, <1>11, <1>12, <1>13, <1>14, <1>15,
       <1>16, <1>17, <1>18, <1>19, <1>20, <1>21, <1>22, <1>23, <1>24, <1>25, <1>26, <1>27
       DEF Next, ListenerStep, Time, WatcherStep, RunStep

\* Names in the lease are one: two readers would need two.
LEMMA OneName == IInv => OneReader
<1> SUFFICES ASSUME IInv PROVE OneReader
    OBVIOUS
<1>1. PICK x : Readers \subseteq {x}
  <2>1. CASE run
    <3>1. \A l \in Listener : ~Reads(l)
      BY <2>1 DEF IInv, LeaseNamesReaders, RunIsClaimed, Named
    <3> QED
      BY <3>1 DEF Readers
  <2>2. CASE ~run
    BY <2>2 DEF IInv, LeaseNamesReaders, Named, Readers
  <2> QED
    BY <2>1, <2>2
<1>2. IsFiniteSet({x}) /\ Cardinality({x}) = 1
    BY FS_Singleton
<1>3. IsFiniteSet(Readers) /\ Cardinality(Readers) <= 1
    BY <1>1, <1>2, FS_Subset
<1> QED
    BY <1>3 DEF OneReader

\* The mailbox is never read by two at once, a live listener and a headless run or two
\* listeners, however steps interleave and wherever watcher and listeners end, while no
\* process is held for longer than its heartbeat counts (liveHold, attachLive, beginHeadless).
THEOREM NeverTwoReaders == Spec => (Calm => []OneReader)
<1>1. Init /\ Calm => IInv
    BY DEF Init, IInv, LeaseNamesReaders, RunIsClaimed, Reads
<1>2. Calm /\ TypeOK /\ IInv /\ [Next]_vars => Calm' /\ IInv'
    BY NamesStep, TroubleStays DEF Calm
<1> QED
    BY <1>1, <1>2, TypeInit, TypeStep, OneName, PTL DEF Spec

\* The lease's files keep their form, and the mailbox its one reader (claim,
\* refresh and release in src/server/agent-live.ts).
THEOREM MailboxIsSound == Spec => (Calm => []MailboxSound)
<1>1. TypeOK /\ OneReader => MailboxSound
    BY DEF MailboxSound
<1> QED
    BY <1>1, TypeCorrect, NeverTwoReaders, PTL
(***************************************************************************)
(* Nothing is lost. What was read and not answered stays in hands that     *)
(* outlast a session's turn: the lease that still carries it, or the wake  *)
(* it was offered. The cursor is put back for nobody's reading.            *)
(***************************************************************************)
\* No process is held between two file writes of one step.
Steady == "slip" \notin trouble

\* Nobody reads while the cursor is put back by the loop. A slice that waits starts from the
\* cursor, unless a watcher that started again put the cursor back under it.
CursorInv ==
    /\ cursor <= posted
    /\ wstep \in {"restore", "settle"} => \A l \in Listener : ~Reads(l)
    /\ \A l \in Listener : phase[l] = "slice" =>
         /\ cursor <= plan[l] /\ plan[l] <= posted
         /\ cursor = plan[l] \/ (wstep # "look" /\ "restart" \in trouble /\ \A i \in Items : ~Carried(i))
\* Where nobody starts a listener there is none; the watcher is away only where it is restarted.
AwayInv ==
    /\ "unattended" \in trouble => ~isLive /\ \A l \in Listener : phase[l] = "off"
    /\ "restart" \notin trouble => wstep \notin {"down", "orphan"}
\* A wake: what it was offered and what it read are past the cursor it found, and so is what a
\* listener that came since carries.
OfferInv ==
    /\ wstep = "run" => run
    /\ wstep = "settle" => ~isLive
    /\ offer = None => got = {} /\ ~run
    /\ offer # None =>
         /\ wstep \in {"run", "settle", "down", "orphan"}
         /\ offer.before <= cursor
         /\ \A i \in offer.items : i > offer.before
         /\ \A i \in got : offer.before < i /\ i <= cursor
         /\ wstep \in {"run", "settle"} => \A i \in Items : offer.before < i /\ i <= cursor => i \in got
         /\ isLive /\ lease.reoffer # None => offer.before <= lease.reoffer.before
\* The work a lease carries: a span of the room, not carried by a listener once given back.
CarryInv ==
    /\ isLive /\ lease.reoffer # None =>
         lease.reoffer.before <= lease.reoffer.after /\ lease.reoffer.actions <= ownActions
    /\ (\E l \in Listener : Reads(l)) => ~lease.reoffered
    /\ wstep = "look" => ~due
    /\ wstep = "restore" => ~carries /\ back <= cursor
\* What is owed and not passed over is unread, or in hands that outlast a session's turn.
StillKept(i) ==
    i > cursor \/ Carried(i) \/ Offered(i) \/ (wstep = "restore" /\ i > back) \/ i \in got \/ Flagged(i)
OwedInv ==
    /\ \A i \in owes : i <= posted /\ i \notin done
    /\ \A i \in owes \ dropped : StillKept(i)
MailInv == CursorInv /\ AwayInv /\ OfferInv /\ CarryInv /\ OwedInv
Tidy == Calm /\ Steady /\ TypeOK /\ IInv /\ MailInv

\* The numbers of a well-typed state.
LEMMA Numbers ==
    ASSUME TypeOK
    PROVE  /\ posted \in Nat /\ cursor \in Nat /\ back \in Nat /\ ownActions \in Nat /\ MaxOffers \in Nat
           /\ \A l \in Listener : plan[l] \in Nat
           /\ \A i \in Items : i \in Nat /\ offers[i] \in Nat
           /\ offer # None => offer.before \in Nat /\ offer.items \subseteq Items
<1>1. ownActions \in Nat
  BY Bounds, ActionsBounded DEF TypeOK
<1>2. \A i \in Items : i \in Nat
  BY DEF Items
<1> QED
  BY <1>1, <1>2, Bounds DEF TypeOK

\* A carried span is one of numbers.
LEMMA SpanNumbers ==
    ASSUME TypeOK, isLive, lease.reoffer # None
    PROVE  lease.reoffer.before \in Nat /\ lease.reoffer.after \in Nat /\ lease.reoffer.actions \in Nat
<1>1. lease.reoffer \in [before : 0..MaxWork, after : 0..MaxWork, actions : 0..MaxWork]
  BY LiveLease DEF LiveLeases
<1> QED
  BY <1>1, Bounds

\* Who reads is named in a live lease, and nothing is dispatched or given back meanwhile.
LEMMA ReaderAlone ==
    ASSUME Tidy, NEW l \in Listener, Reads(l)
    PROVE  /\ ours(l) /\ lease.state = "attached" /\ isLive /\ ~lease.reoffered
           /\ ~run /\ wstep \notin {"run", "restore", "settle"}
           /\ "unattended" \notin trouble
           /\ \A m \in Listener : Reads(m) => m = l
<1>1. lease # None /\ lease.state = "attached" /\ lease.by = l
  BY DEF Tidy, IInv, LeaseNamesReaders, Named
<1>2. \A m \in Listener : Reads(m) => m = l
  BY <1>1 DEF Tidy, IInv, LeaseNamesReaders, Named
<1>3. ours(l) /\ isLive /\ ~run
  BY <1>1 DEF ours, isLive, Tidy, IInv, RunIsClaimed
<1>4. ~lease.reoffered
  BY DEF Tidy, MailInv, CarryInv
<1>5. "unattended" \notin trouble /\ wstep \notin {"restore", "settle"}
  BY <1>3 DEF Tidy, MailInv, AwayInv, CursorInv
<1>6. wstep # "run"
  BY <1>3 DEF Tidy, MailInv, OfferInv
<1> QED
  BY <1>1, <1>2, <1>3, <1>4, <1>5, <1>6

\* A lease that carries the same work.
SameWork == (carries' <=> carries) /\ (carries => lease'.reoffer = lease.reoffer)

LEMMA WorkStays ==
    ASSUME SameWork, UNCHANGED <<cursor, done>>
    PROVE  (due' <=> due) /\ \A i : Carried(i)' <=> Carried(i)
BY DEF SameWork, due, Carried, ownActions

LEMMA OwedStays ==
    ASSUME OwedInv, TypeOK, SameWork, UNCHANGED <<cursor, done, offer, wstep, back, offers, got, owes, dropped>>,
           posted' \in Nat, posted <= posted'
    PROVE  OwedInv'
<1>1. \A i \in owes : i \in Nat
  BY DEF TypeOK, Items
<1>2. \A i \in owes' : i <= posted' /\ i \notin done'
  BY <1>1, Numbers DEF OwedInv
<1>3. \A i : Carried(i)' <=> Carried(i)
  BY WorkStays
<1>4. \A i \in owes' \ dropped' : StillKept(i)'
  BY <1>3 DEF OwedInv, StillKept, Offered, Flagged
<1> QED
  BY <1>2, <1>4 DEF OwedInv

\* A slice is one that was there, or starts from the cursor.
SliceKept(l) == phase'[l] = "slice" => (phase[l] = "slice" /\ plan'[l] = plan[l]) \/ plan'[l] = cursor

\* Steps of a listener, and of time, that neither read nor answer: the work is carried on.
LEMMA ListenerKeeps ==
    ASSUME Tidy, UNCHANGED <<trouble, cursor, done, wstep, back, offer, offers, run, got, owes, dropped>>,
           posted' \in Nat, posted <= posted', SameWork,
           "unattended" \in trouble => phase' = phase,
           isLive' => isLive \/ ("unattended" \notin trouble /\ wstep # "settle"),
           \A l \in Listener : (Reads(l)' => Reads(l) \/ wstep \notin {"restore", "settle"}) /\ SliceKept(l),
           isLive' /\ lease'.reoffer # None => isLive /\ lease'.reoffer = lease.reoffer,
           (\E l \in Listener : Reads(l)') => ~lease'.reoffered
    PROVE  MailInv'
<1>0. CursorInv /\ AwayInv /\ OfferInv /\ CarryInv /\ OwedInv /\ TypeOK
  BY DEF Tidy, MailInv
<1>1. CursorInv'
  <2>1. \A i : Carried(i)' <=> Carried(i)
    BY WorkStays
  <2>2. ASSUME NEW l \in Listener, phase'[l] = "slice"
        PROVE  /\ cursor <= plan'[l] /\ plan'[l] <= posted'
               /\ cursor = plan'[l] \/ (wstep # "look" /\ "restart" \in trouble /\ \A i \in Items : ~Carried(i))
    BY <1>0, <2>2, Numbers DEF CursorInv, SliceKept
  <2>3. cursor' <= posted' /\ (wstep' \in {"restore", "settle"} => \A l \in Listener : ~Reads(l)')
    BY <1>0, Numbers DEF CursorInv
  <2> QED
    BY <2>1, <2>2, <2>3 DEF CursorInv
<1>2. AwayInv'
  BY <1>0 DEF AwayInv
<1>3. OfferInv'
  BY <1>0 DEF OfferInv
<1>4. CarryInv'
  <2>1. due' <=> due
    BY WorkStays
  <2>2. wstep' = "look" => ~due'
    BY <1>0, <2>1 DEF CarryInv
  <2>3. wstep' = "restore" => ~carries' /\ back' <= cursor'
    BY <1>0 DEF CarryInv, SameWork
  <2>4. isLive' /\ lease'.reoffer # None =>
          lease'.reoffer.before <= lease'.reoffer.after /\ lease'.reoffer.actions <= ownActions'
    BY <1>0 DEF CarryInv, ownActions
  <2> QED
    BY <2>2, <2>3, <2>4 DEF CarryInv
<1>5. OwedInv'
  BY <1>0, OwedStays
<1> QED
  BY <1>1, <1>2, <1>3, <1>4, <1>5 DEF MailInv

\* The lease is not touched.
LEMMA LeaseStays ==
    ASSUME Tidy, UNCHANGED <<trouble, cursor, done, wstep, back, offer, offers, run, got, owes, dropped, lease>>,
           posted' \in Nat, posted <= posted',
           "unattended" \in trouble => phase' = phase,
           \A l \in Listener : (Reads(l)' => Reads(l)) /\ SliceKept(l)
    PROVE  MailInv'
<1>1. SameWork /\ (isLive' <=> isLive)
  BY DEF SameWork, carries, isLive
<1>2. (\E l \in Listener : Reads(l)') => ~lease'.reoffered
  BY DEF Tidy, MailInv, CarryInv
<1> QED
  BY <1>1, <1>2, ListenerKeeps

\* Nobody has a lease to carry work while a wake is offered some.
LEMMA WakeAlone ==
    ASSUME Tidy, run \/ wstep \in {"run", "settle"}
    PROVE  /\ offer # None /\ ~isLive /\ ~carries /\ ~due /\ \A i : ~Carried(i)
           /\ \A l \in Listener : ~Reads(l)
           /\ wstep \in {"run", "settle", "down", "orphan"}
<1>1. offer # None /\ (wstep # "settle" => run)
  BY DEF Tidy, MailInv, OfferInv, TypeOK
<1>2. ~isLive
  BY <1>1 DEF Tidy, MailInv, OfferInv, IInv, RunIsClaimed, isLive
<1>3. wstep \in {"run", "settle", "down", "orphan"}
  BY <1>1 DEF Tidy, MailInv, OfferInv
<1>4. ~carries /\ ~due /\ \A i : ~Carried(i)
  BY <1>2 DEF carries, due, Carried
<1>5. \A l \in Listener : ~Reads(l)
  BY <1>2, ReaderAlone
<1> QED
  BY <1>1, <1>2, <1>3, <1>4, <1>5

\* Between its looks the watcher has nothing on offer.
LEMMA NothingOffered ==
    ASSUME Tidy, wstep \in {"loop", "look", "restore"}
    PROVE  offer = None /\ ~run /\ got = {}
BY DEF Tidy, MailInv, OfferInv

LEMMA StartTidy ==
    ASSUME Tidy, NEW l \in Listener, Start(l)
    PROVE  MailInv'
<1>0. TypeOK /\ CursorInv
  BY DEF Tidy, MailInv
<1>1. /\ phase' = [phase EXCEPT ![l] = "attaching"] /\ plan' = plan /\ "unattended" \notin trouble
      /\ UNCHANGED <<trouble, posted, cursor, done, wstep, back, offer, offers, run, got, owes, dropped, lease>>
  BY DEF Start, room, watch, runv
<1>2. \A m \in Listener : phase'[m] = phase[m] \/ phase'[m] = "attaching"
  BY <1>0, <1>1 DEF TypeOK
<1>3. \A m \in Listener : (Reads(m)' => Reads(m)) /\ SliceKept(m)
  BY <1>0, <1>1, <1>2 DEF Reads, SliceKept
<1> QED
  BY <1>0, <1>1, <1>3, Numbers, LeaseStays

LEMMA AttachTidy ==
    ASSUME Tidy, NEW l \in Listener, Attach(l)
    PROVE  MailInv'
<1>0. TypeOK /\ CursorInv /\ AwayInv /\ OfferInv
  BY DEF Tidy, MailInv
<1>1. /\ phase[l] = "attaching" /\ wstep \notin {"restore", "settle"}
      /\ UNCHANGED <<trouble, posted, cursor, plan, done, wstep, back, offer, offers, run, got, owes, dropped>>
  BY DEF Attach, room, watch, runv, Settled, Tidy, Steady
<1>2. "unattended" \notin trouble
  BY <1>0, <1>1 DEF AwayInv
<1>3. phase \in [Listener -> {"off", "attaching", "idle", "slice", "gone"}]
  BY <1>0 DEF TypeOK
<1> DEFINE work == IF carries THEN lease.reoffer ELSE None
<1>4. PICK v \in Verdicts :
        \/ /\ phase' = [phase EXCEPT ![l] = "gone"]
           /\ UNCHANGED lease
        \/ /\ liveHold(v) # "headless"
           /\ phase' = [phase EXCEPT ![l] = "idle"]
           /\ lease' = [state |-> "attached", by |-> l, age |-> 0, window |-> "open",
                        reoffer |-> work, reoffered |-> FALSE]
  BY Zenon DEF Attach
<1>5. (work = lease.reoffer /\ carries) \/ (work = None /\ ~carries)
  OBVIOUS
<1>6. work \in [before : 0..MaxWork, after : 0..MaxWork, actions : 0..MaxWork] \cup {None}
  BY <1>0, CarriedSpan
<1> HIDE DEF work
<1>7. CASE phase' = [phase EXCEPT ![l] = "gone"] /\ UNCHANGED lease
  <2>1. \A m \in Listener : phase'[m] = phase[m] \/ phase'[m] = "gone"
    BY <1>3, <1>7
  <2>2. \A m \in Listener : (Reads(m)' => Reads(m)) /\ SliceKept(m)
    BY <1>0, <1>1, <2>1 DEF Reads, SliceKept
  <2> QED
    BY <1>0, <1>1, <1>2, <1>7, <2>2, Numbers, LeaseStays
<1>8. CASE /\ liveHold(v) # "headless"
           /\ phase' = [phase EXCEPT ![l] = "idle"]
           /\ lease' = [state |-> "attached", by |-> l, age |-> 0, window |-> "open",
                        reoffer |-> work, reoffered |-> FALSE]
  <2>1. \A m \in Listener : phase'[m] = phase[m] \/ phase'[m] = "idle"
    BY <1>3, <1>8
  <2>2. \A m \in Listener : (Reads(m)' => Reads(m) \/ wstep \notin {"restore", "settle"}) /\ SliceKept(m)
    BY <1>0, <1>1, <2>1 DEF Reads, SliceKept
  <2>3. lease' \in LiveLeases
    BY <1>6, <1>8 DEF LiveLeases
  <2>4. lease'.state = "attached" /\ lease'.reoffer = work /\ ~lease'.reoffered
    BY <1>8
  <2>5. isLive'
    BY <2>3, <2>4, MailboxAssumption DEF isLive
  <2>6. carries' <=> carries
    <3>1. carries => lease.reoffer # None
      BY DEF carries
    <3>2. carries' <=> work # None
      BY <2>4, <2>5 DEF carries
    <3> QED
      BY <1>5, <3>1, <3>2
  <2>7. SameWork
    BY <1>5, <2>4, <2>6 DEF SameWork
  <2>8. isLive' /\ lease'.reoffer # None => isLive /\ lease'.reoffer = lease.reoffer
    BY <1>5, <2>4 DEF carries
  <2>10. posted' \in Nat /\ posted <= posted'
    BY <1>0, <1>1, Numbers
  <2> QED
    BY <1>1, <1>2, <2>2, <2>4, <2>7, <2>8, <2>10, ListenerKeeps
<1> QED
  BY <1>4, <1>7, <1>8

\* A lease whose heartbeat or window changed carries what it carried.
LEMMA SameLease ==
    ASSUME Tidy, isLive, isLive', lease'.reoffer = lease.reoffer, lease'.reoffered = lease.reoffered,
           UNCHANGED <<trouble, posted, cursor, done, phase, plan, wstep, back, offer, offers, run, got, owes, dropped>>
    PROVE  MailInv'
<1>0. TypeOK /\ CursorInv /\ CarryInv
  BY DEF Tidy, MailInv
<1>1. SameWork
  <2>1. carries' <=> carries
    BY DEF carries
  <2> QED
    BY <2>1 DEF SameWork
<1>2. \A m \in Listener : (Reads(m)' => Reads(m)) /\ SliceKept(m)
  BY <1>0 DEF Reads, SliceKept
<1>3. (\E l \in Listener : Reads(l)') => ~lease'.reoffered
  BY <1>0, <1>2 DEF CarryInv
<1>4. posted' \in Nat /\ posted <= posted'
  BY <1>0, Numbers
<1> QED
  BY <1>1, <1>2, <1>3, <1>4, ListenerKeeps

LEMMA BeatTidy ==
    ASSUME Tidy, NEW l \in Listener, Beat(l)
    PROVE  MailInv'
<1>1. UNCHANGED <<trouble, posted, cursor, done, phase, plan, wstep, back, offer, offers, run, got, owes, dropped>>
  BY DEF Beat, room, watch, runv
<1>2. CASE lease' = lease
  <2>1. \A m \in Listener : (Reads(m)' => Reads(m)) /\ SliceKept(m)
    BY <1>1 DEF Reads, SliceKept
  <2>2. posted' \in Nat /\ posted <= posted'
    BY <1>1, Numbers DEF Tidy
  <2> QED
    BY <1>1, <1>2, <2>1, <2>2, LeaseStays
<1>3. CASE ours(l) /\ lease.state = "attached" /\ lease' = [lease EXCEPT !.age = 0]
  <2>1. lease \in LiveLeases /\ isLive
    BY <1>3, LiveLease DEF ours, Tidy
  <2>2. /\ lease' \in LiveLeases /\ lease'.state = lease.state
        /\ lease'.reoffer = lease.reoffer /\ lease'.reoffered = lease.reoffered
    BY <1>3, <2>1 DEF LiveLeases
  <2>3. isLive'
    BY <2>1, <2>2, MailboxAssumption DEF isLive
  <2> QED
    BY <1>1, <2>1, <2>2, <2>3, SameLease
<1> QED
  BY <1>2, <1>3 DEF Beat

LEMMA TimeTidy ==
    ASSUME Tidy, Ages \/ WindowEnds
    PROVE  MailInv'
<1>1. isLive /\ UNCHANGED <<trouble, posted, cursor, done, phase, plan, wstep, back, offer, offers, run, got, owes, dropped>>
  BY DEF Ages, WindowEnds, room, live, watch, runv
<1>2. lease \in LiveLeases
  BY <1>1, LiveLease DEF Tidy
<1>3. /\ lease' \in LiveLeases /\ lease'.state = lease.state
      /\ lease'.reoffer = lease.reoffer /\ lease'.reoffered = lease.reoffered
  BY <1>2 DEF Ages, WindowEnds, LiveLeases
<1>4. isLive'
  BY <1>1, <1>3, MailboxAssumption DEF isLive
<1> QED
  BY <1>1, <1>3, <1>4, SameLease

LEMMA SliceTidy ==
    ASSUME Tidy, NEW l \in Listener, SliceStarts(l) \/ Kill(l)
    PROVE  MailInv'
<1>0. TypeOK /\ CursorInv /\ AwayInv
  BY DEF Tidy, MailInv
<1>1. /\ Runs(l) /\ UNCHANGED <<trouble, posted, cursor, done, wstep, back, offer, offers, run, got, owes, dropped, lease>>
  BY DEF SliceStarts, Kill, Runs, Reads, room, watch, runv
<1>3. "unattended" \notin trouble
  BY <1>0, <1>1 DEF AwayInv, Runs, Reads
<1>4. ASSUME NEW m \in Listener PROVE (Reads(m)' => Reads(m)) /\ SliceKept(m)
  <2>1. CASE SliceStarts(l)
    <3>1. phase'[m] = IF m = l THEN "slice" ELSE phase[m]
      BY <1>0, <2>1 DEF SliceStarts, TypeOK
    <3>2. plan'[m] = IF m = l THEN cursor ELSE plan[m]
      BY <1>0, <2>1 DEF SliceStarts, TypeOK
    <3> QED
      BY <1>0, <2>1, <3>1, <3>2 DEF SliceStarts, Reads, SliceKept
  <2>3. CASE Kill(l)
    <3>1. phase'[m] = IF m = l THEN "gone" ELSE phase[m]
      BY <1>0, <2>3 DEF Kill, TypeOK
    <3>2. plan'[m] = IF m = l THEN 0 ELSE plan[m]
      BY <1>0, <2>3 DEF Kill, TypeOK
    <3> QED
      BY <1>0, <3>1, <3>2 DEF Reads, SliceKept
  <2> QED
    BY <2>1, <2>3
<1>5. posted' \in Nat /\ posted <= posted'
  BY <1>0, <1>1, Numbers
<1> QED
  BY <1>1, <1>3, <1>4, <1>5, LeaseStays

\* The cursor moves past what was put back under the slice, and nothing that is carried.
LEMMA TimesOutTidy ==
    ASSUME Tidy, NEW l \in Listener, SliceTimesOut(l)
    PROVE  MailInv'
<1>0. TypeOK /\ CursorInv /\ AwayInv /\ OfferInv /\ CarryInv /\ OwedInv
  BY DEF Tidy, MailInv
<1>1. /\ phase[l] = "slice" /\ Reads(l) /\ Unread(plan[l]) = {} /\ cursor' = plan[l]
      /\ dropped' = dropped \cup PassedOver(l)
      /\ phase' = [phase EXCEPT ![l] = "idle"]
      /\ UNCHANGED <<trouble, posted, lease, done, wstep, back, offer, offers, run, got, owes>>
  BY DEF SliceTimesOut, Reads, room, watch, runv
<1>2. /\ isLive /\ ~lease.reoffered /\ ~run /\ wstep \notin {"run", "restore", "settle"} /\ "unattended" \notin trouble
      /\ \A m \in Listener : Reads(m) => m = l
  BY <1>1, ReaderAlone
<1>3. /\ cursor \in Nat /\ posted \in Nat /\ plan[l] \in Nat /\ cursor <= plan[l] /\ plan[l] <= posted
      /\ plan[l] = cursor \/ (wstep # "look" /\ \A i \in Items : ~Carried(i))
  BY <1>0, <1>1, Numbers DEF CursorInv
<1>4. \A m \in Listener : phase'[m] # "slice" /\ (Reads(m)' => Reads(m))
  <2>1. \A m \in Listener : phase'[m] = IF m = l THEN "idle" ELSE phase[m]
    BY <1>0, <1>1 DEF TypeOK
  <2> QED
    BY <1>1, <1>2, <2>1 DEF Reads
<1>5. (isLive' <=> isLive) /\ (carries' <=> carries)
  BY <1>1 DEF isLive, carries
<1>6. CursorInv' /\ AwayInv'
  BY <1>0, <1>1, <1>2, <1>3, <1>4 DEF CursorInv, AwayInv
<1>7. OfferInv'
  <2>1. offer # None => /\ offer.before \in Nat /\ offer.before <= plan[l]
                        /\ \A i \in got : offer.before < i /\ i <= plan[l]
    BY <1>0, <1>3, Numbers DEF OfferInv, TypeOK
  <2> QED
    BY <1>0, <1>1, <1>2, <1>5, <2>1 DEF OfferInv
<1>8. CarryInv'
  <2>1. wstep' = "look" => ~due'
    BY <1>0, <1>1, <1>3, <1>5 DEF CarryInv, due, ownActions
  <2> QED
    BY <1>0, <1>1, <1>2, <1>5, <2>1 DEF CarryInv, ownActions
<1>9. OwedInv'
  <2>1. ASSUME NEW i \in owes' \ dropped' PROVE StillKept(i)'
    <3>1. i \in owes \ dropped /\ i \notin (cursor + 1)..plan[l] /\ i \in Items /\ i \in Nat
      BY <1>0, <1>1, <2>1, Numbers DEF TypeOK, PassedOver
    <3>2. i > cursor => i > plan[l]
      BY <1>3, <3>1
    <3>3. Carried(i) => Carried(i)'
      BY <1>1, <1>3, <1>5, <3>1 DEF Carried, due, ownActions
    <3>4. StillKept(i) /\ wstep # "restore"
      BY <1>0, <1>2, <3>1 DEF OwedInv
    <3> QED
      BY <1>1, <3>2, <3>3, <3>4 DEF StillKept, Offered, Flagged
  <2> QED
    BY <1>0, <1>1, <2>1 DEF OwedInv
<1> QED
  BY <1>6, <1>7, <1>8, <1>9 DEF MailInv

LEMMA QuitTidy ==
    ASSUME Tidy, NEW l \in Listener, Quit(l)
    PROVE  MailInv'
<1>0. TypeOK /\ CursorInv /\ AwayInv
  BY DEF Tidy, MailInv
<1>1. /\ Runs(l) /\ lease' = released(l)
      /\ phase' = [phase EXCEPT ![l] = "gone"] /\ plan' = [plan EXCEPT ![l] = 0]
      /\ UNCHANGED <<trouble, posted, cursor, done, wstep, back, offer, offers, run, got, owes, dropped>>
  BY DEF Quit, room, watch, runv
<1>2. "unattended" \notin trouble
  BY <1>0, <1>1 DEF AwayInv, Runs, Reads
<1>3. \A m \in Listener : /\ phase'[m] = IF m = l THEN "gone" ELSE phase[m]
                          /\ plan'[m] = IF m = l THEN 0 ELSE plan[m]
  BY <1>0, <1>1 DEF TypeOK
<1>4. \A m \in Listener : (Reads(m)' => Reads(m) /\ m # l) /\ SliceKept(m)
  BY <1>0, <1>3 DEF Reads, SliceKept
<1>5. posted' \in Nat /\ posted <= posted'
  BY <1>0, <1>1, Numbers
<1>6. CASE ~(ours(l) /\ lease.state = "attached")
  <2>1. lease' = lease
    BY <1>1, <1>6 DEF released
  <2> QED
    BY <1>1, <1>2, <1>4, <1>5, <2>1, LeaseStays
<1>7. CASE ours(l) /\ lease.state = "attached"
  <2>1. isLive /\ lease \in LiveLeases
    BY <1>0, <1>7, LiveLease DEF ours
  <2>2. \A m \in Listener : ~Reads(m)'
    BY <1>4, <1>7, ReaderAlone DEF ours
  <2>3. CASE carries
    <3>1. /\ lease' \in LiveLeases /\ lease'.state = "pickup"
          /\ lease'.reoffer = lease.reoffer /\ lease'.reoffered = lease.reoffered
      BY <1>1, <1>7, <2>1, <2>3 DEF released, LiveLeases
    <3>2. isLive'
      BY <3>1, MailboxAssumption DEF isLive
    <3>3. SameWork
      BY <2>1, <2>3, <3>1, <3>2 DEF SameWork, carries
    <3> QED
      BY <1>1, <1>2, <1>4, <1>5, <2>1, <2>2, <3>1, <3>3, ListenerKeeps
  <2>4. CASE ~carries
    <3>1. lease' = None
      BY <1>1, <1>7, <2>4 DEF released
    <3>2. ~isLive' /\ ~carries'
      BY <3>1 DEF isLive, carries
    <3>3. SameWork
      BY <2>4, <3>2 DEF SameWork
    <3> QED
      BY <1>1, <1>2, <1>4, <1>5, <2>2, <3>2, <3>3, ListenerKeeps
  <2> QED
    BY <2>3, <2>4
<1> QED
  BY <1>6, <1>7

\* What is read is carried by the lease from then on, with what it carried.
LEMMA ReturnsTidy ==
    ASSUME Tidy, NEW l \in Listener, SliceReturns(l)
    PROVE  MailInv'
<1>0. TypeOK /\ CursorInv /\ AwayInv /\ OfferInv /\ CarryInv /\ OwedInv
  BY DEF Tidy, MailInv
<1>1. /\ phase[l] = "slice" /\ Reads(l)
      /\ cursor' = posted /\ owes' = owes \cup (Unread(plan[l]) \ done)
      /\ dropped' = (dropped \ Unread(plan[l])) \cup PassedOver(l)
      /\ phase' = [phase EXCEPT ![l] = "gone"]
      /\ UNCHANGED <<trouble, posted, done, wstep, back, offer, offers, run, got>>
  BY DEF SliceReturns, Reads, room, watch, runv
<1>2. /\ ours(l) /\ lease.state = "attached" /\ isLive /\ ~lease.reoffered
      /\ ~run /\ wstep \notin {"run", "restore", "settle", "look"} /\ "unattended" \notin trouble
      /\ \A m \in Listener : Reads(m) => m = l
  BY <1>1, ReaderAlone DEF SliceReturns, Brief, Tidy, Steady
<1>3. \A m \in Listener : ~Reads(m)'
  <2>1. \A m \in Listener : phase'[m] = IF m = l THEN "gone" ELSE phase[m]
    BY <1>0, <1>1 DEF TypeOK
  <2> QED
    BY <1>2, <2>1 DEF Reads
<1>4. /\ posted \in Nat /\ cursor \in Nat /\ plan[l] \in Nat /\ ownActions \in Nat
      /\ cursor <= plan[l] /\ plan[l] <= posted
      /\ plan[l] = cursor \/ \A i \in Items : ~Carried(i)
  BY <1>0, <1>1, Numbers DEF CursorInv
<1> DEFINE mine == [before |-> plan[l], after |-> posted, actions |-> ownActions]
           c == lease.reoffer
           joined == IF c # None /\ c.after = mine.before /\ c.actions = mine.actions
                     THEN [mine EXCEPT !.before = c.before] ELSE mine
<1>6. lease' = [lease EXCEPT !.state = "pickup", !.window = "open", !.reoffer = joined]
  BY <1>2 DEF SliceReturns, pickedUp
<1>7. lease \in LiveLeases
  BY <1>0, <1>2, LiveLease
<1>8. c # None => c.before \in Nat /\ c.after \in Nat /\ c.actions \in Nat /\ c.before <= c.after
  BY <1>0, <1>2, SpanNumbers DEF CarryInv
<1>9. /\ joined.after = posted /\ joined.actions = ownActions /\ joined # None
      /\ joined.before \in Nat /\ joined.before <= plan[l]
      /\ plan[l] = cursor /\ due => joined.before = c.before
      /\ joined \in [before : 0..MaxWork, after : 0..MaxWork, actions : 0..MaxWork]
      /\ offer # None => offer.before <= joined.before
  <2>0. posted \in 0..MaxWork /\ ownActions \in 0..MaxWork /\ plan[l] \in 0..MaxWork
    BY <1>0, ActionsBounded, Bounds DEF TypeOK
  <2>1. joined \in [before : 0..MaxWork, after : 0..MaxWork, actions : 0..MaxWork]
    <3>1. c # None => c \in [before : 0..MaxWork, after : 0..MaxWork, actions : 0..MaxWork]
      BY <1>0, <1>2, LiveLease DEF LiveLeases
    <3> QED
      BY <2>0, <3>1
  <2>2. joined # None
    BY <2>1, Bounds, MailboxAssumption
  <2>3. joined.after = posted /\ joined.actions = ownActions
    OBVIOUS
  <2>4. joined.before <= plan[l] /\ joined.before \in Nat
    BY <1>4, <1>8
  <2>5. plan[l] = cursor /\ due => joined.before = c.before
    BY DEF due, carries
  <2>6. offer # None => offer.before <= joined.before
    <3>1. offer # None => offer.before \in Nat /\ offer.before <= plan[l] /\ (c # None => offer.before <= c.before)
      BY <1>0, <1>2, <1>4, Numbers DEF OfferInv
    <3> QED
      BY <1>4, <1>8, <3>1
  <2> QED
    BY <2>1, <2>2, <2>3, <2>4, <2>5, <2>6
<1> HIDE DEF mine, joined
<1>10. /\ lease'.state = "pickup" /\ lease'.reoffer = joined /\ ~lease'.reoffered
       /\ lease' # None
  <2>1. lease'.state = "pickup" /\ lease'.reoffer = joined /\ lease'.reoffered = lease.reoffered
    BY <1>6, <1>7 DEF LiveLeases
  <2>2. lease' # None
    <3>1. lease' \in LiveLeases
      BY <1>6, <1>7, <1>9 DEF LiveLeases
    <3> QED
      BY <3>1, MailboxAssumption
  <2> QED
    BY <1>2, <2>1, <2>2
<1>11. isLive' /\ carries' /\ due'
  <2>1. isLive'
    BY <1>10 DEF isLive
  <2>2. carries'
    BY <1>9, <1>10, <2>1 DEF carries
  <2> QED
    BY <1>1, <1>9, <1>10, <2>1, <2>2 DEF due, ownActions
<1>12. \A i \in Items : i <= posted /\ (i > plan[l] \/ Carried(i)) => Carried(i)'
  <2>1. ASSUME NEW i \in Items, i <= posted, i > plan[l] \/ Carried(i)
        PROVE  i \in (joined.before + 1)..joined.after
    <3>1. i \in Nat
      BY DEF Items
    <3>2. CASE i > plan[l]
      BY <1>4, <1>9, <2>1, <3>1, <3>2
    <3>3. CASE Carried(i)
      <4>1. plan[l] = cursor /\ due /\ i \in (c.before + 1)..c.after /\ c # None
        BY <1>4, <3>3 DEF Carried, carries
      <4> QED
        BY <1>4, <1>8, <1>9, <2>1, <3>1, <4>1
    <3> QED
      BY <2>1, <3>2, <3>3
  <2> QED
    BY <1>10, <1>11, <2>1 DEF Carried
<1>13. CursorInv'
  BY <1>1, <1>3, <1>4 DEF CursorInv, Reads
<1>14. AwayInv'
  BY <1>0, <1>1, <1>2 DEF AwayInv
<1>15. OfferInv'
  <2>1. offer # None => /\ offer.before \in Nat /\ offer.before <= posted
                        /\ \A i \in got : offer.before < i /\ i <= posted
    BY <1>0, <1>4, Numbers DEF OfferInv, TypeOK
  <2> QED
    BY <1>0, <1>1, <1>2, <1>9, <1>10, <2>1 DEF OfferInv
<1>16. CarryInv'
  BY <1>1, <1>2, <1>3, <1>4, <1>9, <1>10 DEF CarryInv, ownActions
<1>17. OwedInv'
  <2>1. \A i \in Unread(plan[l]) : i \in Items /\ i <= posted /\ i > plan[l]
    BY <1>0, <1>4, Bounds DEF Unread, Items, TypeOK
  <2>2. \A i \in owes' : i \in Items /\ i <= posted' /\ i \notin done'
    BY <1>0, <1>1, <2>1 DEF OwedInv, TypeOK
  <2>3. ASSUME NEW i \in owes' \ dropped' PROVE StillKept(i)'
    <3>1. CASE i \in Unread(plan[l])
      BY <1>12, <2>1, <3>1 DEF StillKept
    <3>2. CASE i \notin Unread(plan[l])
      <4>1. i \in owes \ dropped /\ i \notin (cursor + 1)..plan[l]
        BY <1>1, <2>3, <3>2 DEF PassedOver
      <4>2. i \in Items /\ i \in Nat /\ i <= posted
        BY <1>0, <4>1, Numbers DEF OwedInv, TypeOK
      <4>3. ~(i > cursor)
        BY <1>4, <3>2, <4>1, <4>2 DEF Unread
      <4>4. Carried(i) \/ Offered(i) \/ i \in got \/ Flagged(i)
        BY <1>0, <1>2, <4>1, <4>3 DEF OwedInv, StillKept
      <4> QED
        BY <1>1, <1>12, <4>2, <4>4 DEF StillKept, Offered, Flagged
    <3> QED
      BY <3>1, <3>2
  <2> QED
    BY <2>2, <2>3 DEF OwedInv
<1> QED
  BY <1>13, <1>14, <1>15, <1>16, <1>17 DEF MailInv

LEMMA ActionsGrow ==
    ASSUME TypeOK, NEW i \in Items, done' = done \cup {i}
    PROVE  ownActions \in Nat /\ ownActions' \in Nat /\ ownActions <= ownActions'
<1>1. IsFiniteSet(Items)
  BY Bounds, FS_Interval DEF Items
<1>2. done' \subseteq Items /\ done \subseteq done'
  BY DEF TypeOK
<1>3. IsFiniteSet(done')
  BY <1>1, <1>2, FS_Subset
<1>4. Cardinality(done) <= Cardinality(done') /\ IsFiniteSet(done)
  BY <1>2, <1>3, FS_Subset
<1> QED
  BY <1>3, <1>4, FS_CardinalityType DEF ownActions

\* To act in the room settles what the session read, and nothing a wake was offered.
LEMMA AnswerTidy ==
    ASSUME Tidy, NEW l \in Listener, NEW i \in Items, Answer(l, i)
    PROVE  MailInv'
<1>0. TypeOK /\ CursorInv /\ AwayInv /\ OfferInv /\ CarryInv /\ OwedInv
  BY DEF Tidy, MailInv
<1>1. /\ done' = done \cup {i} /\ wstep \notin {"restore", "settle"}
      /\ UNCHANGED <<trouble, posted, cursor, lease, phase, plan, wstep, back, offer, offers, run, got, dropped>>
      /\ owes' = IF i \in done THEN owes
                 ELSE owes \ ({i} \cup {j \in owes \ got : j <= cursor /\ (offer = None \/ j \notin offer.items)})
  BY DEF Answer, watch, Settled, Tidy, Steady
<1>2. ownActions \in Nat /\ ownActions' \in Nat /\ ownActions <= ownActions'
  BY <1>0, <1>1, ActionsGrow
<1>3. (isLive' <=> isLive) /\ (carries' <=> carries) /\ \A m \in Listener : Reads(m)' <=> Reads(m)
  BY <1>1 DEF isLive, carries, Reads
<1>4. CursorInv' /\ AwayInv' /\ OfferInv'
  <2>1. \A j \in Items : (\E m \in Listener : Reads(m)) /\ Carried(j)' => Carried(j)
    <3>1. ASSUME NEW j \in Items, NEW m \in Listener, Reads(m), Carried(j)' PROVE Carried(j)
      <4>1. carries /\ isLive /\ cursor = lease.reoffer.after /\ ownActions' = lease.reoffer.actions
        BY <1>1, <1>3, <3>1 DEF Carried, due, carries
      <4>2. lease.reoffer.actions \in Nat /\ lease.reoffer.actions <= ownActions
        BY <1>0, <4>1, SpanNumbers DEF CarryInv, carries
      <4> QED
        BY <1>1, <1>2, <3>1, <4>1, <4>2 DEF Carried, due
    <3> QED
      BY <3>1
  <2>2. CursorInv'
    BY <1>0, <1>1, <1>3, <2>1 DEF CursorInv, Reads
  <2> QED
    BY <1>0, <1>1, <1>3, <2>2 DEF AwayInv, OfferInv
<1>5. CarryInv'
  <2>1. isLive /\ lease.reoffer # None =>
          /\ lease.reoffer.actions \in Nat
          /\ lease.reoffer.before <= lease.reoffer.after /\ lease.reoffer.actions <= ownActions
    BY <1>0, SpanNumbers DEF CarryInv
  <2>2. wstep = "look" => ~due'
    <3>1. ASSUME wstep = "look", due' PROVE FALSE
      <4>1. carries /\ cursor = lease.reoffer.after /\ ownActions' = lease.reoffer.actions
        BY <1>1, <1>3, <3>1 DEF due
      <4>2. ownActions = lease.reoffer.actions
        BY <1>2, <2>1, <4>1 DEF carries
      <4> QED
        BY <1>0, <3>1, <4>1, <4>2 DEF CarryInv, due
    <3> QED
      BY <3>1
  <2>3. isLive' /\ lease'.reoffer # None =>
          lease'.reoffer.before <= lease'.reoffer.after /\ lease'.reoffer.actions <= ownActions'
    BY <1>1, <1>2, <1>3, <2>1
  <2> QED
    BY <1>0, <1>1, <1>3, <2>2, <2>3 DEF CarryInv
<1>6. OwedInv'
  <2>1. CASE i \in done
    <3>1. done' = done /\ owes' = owes
      BY <1>1, <2>1
    <3>2. SameWork /\ posted' \in Nat /\ posted <= posted'
      BY <1>0, <1>1, <1>3, Numbers DEF SameWork
    <3> QED
      BY <1>0, <1>1, <3>1, <3>2, OwedStays
  <2>2. CASE i \notin done
    <3>1. ASSUME NEW j \in owes' PROVE j \in owes /\ j \notin done' /\ (j > cursor \/ Offered(j) \/ j \in got)
      <4>1. j \in owes /\ j # i /\ ~(j \notin got /\ j <= cursor /\ (offer = None \/ j \notin offer.items))
        BY <1>1, <2>2
      <4>2. j \in Nat /\ cursor \in Nat
        BY <1>0, <4>1, Numbers DEF TypeOK
      <4>3. j > cursor \/ Offered(j) \/ j \in got
        BY <4>1, <4>2 DEF Offered
      <4> QED
        BY <1>0, <1>1, <4>1, <4>3 DEF OwedInv
    <3> QED
      BY <1>0, <1>1, <3>1 DEF OwedInv, StillKept, Offered
  <2> QED
    BY <2>1, <2>2
<1> QED
  BY <1>4, <1>5, <1>6 DEF MailInv

(* The watcher. *)

LEMMA GiveBackTidy ==
    ASSUME Tidy, GiveBack
    PROVE  MailInv'
<1>0. TypeOK /\ CursorInv /\ AwayInv /\ OfferInv /\ CarryInv /\ OwedInv
  BY DEF Tidy, MailInv
<1>1. /\ wstep = "loop" /\ wstep' = "restore" /\ back' = lease.reoffer.before
      /\ lease' = [lease EXCEPT !.reoffered = TRUE]
      /\ UNCHANGED <<trouble, posted, cursor, done, phase, plan, offer, offers, run, got, owes, dropped>>
  BY DEF GiveBack, room, live, runv
<1>2. PICK v \in Verdicts : Gate(v) = "reoffer"
  BY DEF GiveBack
<1>3. due /\ carries /\ isLive
  BY <1>0, <1>2, LiveLease DEF TypeOK, Gate, due, liveHold, isLive, carries, LiveLeases, HeadlessLeases
<1>4. \A m \in Listener : ~Reads(m)
  BY <1>2, ReaderHolds DEF Gate, Tidy
<1>5. lease \in LiveLeases
  BY <1>0, <1>3, LiveLease
<1>6. /\ lease' \in LiveLeases /\ lease'.state = lease.state /\ lease'.reoffer = lease.reoffer
      /\ lease'.reoffered
  BY <1>1, <1>5 DEF LiveLeases
<1>7. isLive' /\ ~carries'
  BY <1>3, <1>6, MailboxAssumption DEF isLive, carries
<1>8. /\ lease.reoffer.before \in Nat /\ lease.reoffer.after \in Nat
      /\ lease.reoffer.before <= lease.reoffer.after /\ lease.reoffer.actions <= ownActions
      /\ cursor = lease.reoffer.after /\ cursor \in Nat
  BY <1>0, <1>3, SpanNumbers, Numbers DEF CarryInv, carries, due
<1>9. offer = None /\ got = {}
  BY <1>1, NothingOffered
<1>10. \A m \in Listener : ~Reads(m)'
  BY <1>1, <1>4 DEF Reads
<1>11. CursorInv'
  BY <1>0, <1>1, <1>10 DEF CursorInv, Reads
<1>12. AwayInv' /\ OfferInv'
  BY <1>0, <1>1, <1>3, <1>9 DEF AwayInv, OfferInv
<1>13. CarryInv'
  BY <1>1, <1>6, <1>7, <1>8, <1>10 DEF CarryInv, ownActions
<1>14. OwedInv'
  <2>1. ASSUME NEW i \in owes \ dropped PROVE StillKept(i)'
    <3>1. i > cursor \/ Carried(i) \/ Flagged(i)
      BY <1>0, <1>1, <1>9, <2>1 DEF OwedInv, StillKept, Offered
    <3>2. i \in Nat
      BY <1>0, Numbers DEF TypeOK
    <3>3. Carried(i) => i > back'
      BY <1>1, <1>8, <3>2 DEF Carried
    <3> QED
      BY <1>1, <3>1, <3>3 DEF StillKept, Flagged
  <2> QED
    BY <1>0, <1>1, <2>1 DEF OwedInv
<1> QED
  BY <1>11, <1>12, <1>13, <1>14 DEF MailInv

LEMMA RestoreTidy ==
    ASSUME Tidy, Restore
    PROVE  MailInv'
<1>0. TypeOK /\ CursorInv /\ AwayInv /\ OfferInv /\ CarryInv /\ OwedInv
  BY DEF Tidy, MailInv
<1>1. /\ wstep = "restore" /\ wstep' = "loop" /\ cursor' = back
      /\ UNCHANGED <<trouble, posted, lease, done, phase, plan, offer, offers, run, got, owes, dropped>>
  BY DEF Restore, room, live, runv
<1>2. /\ cursor \in Nat /\ back \in Nat /\ posted \in Nat /\ back <= cursor /\ cursor <= posted
      /\ ~carries /\ \A m \in Listener : ~Reads(m)
  BY <1>0, <1>1, Numbers DEF CarryInv, CursorInv
<1>3. offer = None /\ got = {}
  BY <1>1, NothingOffered
<1>4. (isLive' <=> isLive) /\ \A m \in Listener : ~Reads(m)' /\ phase'[m] # "slice"
  BY <1>1, <1>2 DEF isLive, Reads
<1>5. CursorInv' /\ AwayInv' /\ OfferInv'
  BY <1>0, <1>1, <1>2, <1>3, <1>4 DEF CursorInv, AwayInv, OfferInv
<1>6. CarryInv'
  BY <1>0, <1>1, <1>4 DEF CarryInv, ownActions
<1>7. OwedInv'
  <2>1. ASSUME NEW i \in owes \ dropped PROVE StillKept(i)'
    <3>1. i > cursor \/ i > back \/ Flagged(i)
      BY <1>0, <1>2, <1>3, <2>1 DEF OwedInv, StillKept, Offered, Carried
    <3>2. i \in Nat
      BY <1>0, Numbers DEF TypeOK
    <3> QED
      BY <1>1, <1>2, <3>1, <3>2 DEF StillKept, Flagged
  <2> QED
    BY <1>0, <1>1, <2>1 DEF OwedInv
<1> QED
  BY <1>5, <1>6, <1>7 DEF MailInv

\* What is due is given back before a wake is thought of.
LEMMA LookTidy ==
    ASSUME Tidy, Look
    PROVE  MailInv'
<1>0. TypeOK /\ CursorInv /\ AwayInv /\ OfferInv /\ CarryInv /\ OwedInv
  BY DEF Tidy, MailInv
<1>1. /\ wstep = "loop" /\ wstep' = "look"
      /\ UNCHANGED <<trouble, posted, cursor, lease, done, phase, plan, back, offer, offers, run, got, owes, dropped>>
  BY DEF Look, room, live, runv
<1>2. PICK v \in Verdicts : Gate(v) \notin {"attached", "pickup", "reoffer"}
  BY DEF Look
<1>3. ~due
  <2>1. ASSUME due PROVE FALSE
    <3>1. isLive /\ lease \in LiveLeases
      BY <1>0, <2>1, LiveLease DEF due, carries
    <3>2. lease.state \in {"attached", "pickup"} /\ lease # None
      BY <3>1 DEF LiveLeases, isLive
    <3>3. liveHold(v) \in {"attached", "stale", "pickup", "expired"}
      BY <3>2 DEF liveHold
    <3> QED
      BY <1>2, <2>1, <3>3 DEF Gate
  <2> QED
    BY <2>1
<1>4. /\ (isLive' <=> isLive) /\ (carries' <=> carries) /\ (due' <=> due)
      /\ \A m \in Listener : Reads(m)' <=> Reads(m)
  BY <1>1 DEF isLive, carries, due, ownActions, Reads
<1>5. offer = None /\ got = {}
  BY <1>1, NothingOffered
<1>6. CursorInv' /\ AwayInv' /\ OfferInv'
  <2>1. \A m \in Listener : ~Reads(m) /\ phase'[m] # "slice"
    BY <1>1, <1>2, ReaderHolds DEF Gate, Reads, Tidy
  <2> QED
    BY <1>0, <1>1, <1>4, <1>5, <2>1 DEF CursorInv, AwayInv, OfferInv
<1>7. CarryInv'
  BY <1>0, <1>1, <1>3, <1>4 DEF CarryInv, ownActions
<1>8. OwedInv'
  BY <1>0, <1>1, <1>4 DEF OwedInv, StillKept, Carried, Offered, Flagged
<1> QED
  BY <1>6, <1>7, <1>8 DEF MailInv

LEMMA BeginTidy ==
    ASSUME Tidy, Begin
    PROVE  MailInv'
<1>0. TypeOK /\ CursorInv /\ AwayInv /\ OfferInv /\ CarryInv /\ OwedInv
  BY DEF Tidy, MailInv
<1>1. wstep = "look" /\ UNCHANGED <<trouble, posted, cursor, done, phase, plan, back, offers, owes, dropped>>
  BY DEF Begin, room, live
<1>2. PICK v \in Verdicts :
        IF mayBegin(v) /\ Unread(cursor) # {}
        THEN /\ lease' = [state |-> "headless", gen |-> wgen]
             /\ offer' = [before |-> cursor, items |-> Unread(cursor)]
             /\ run' = TRUE /\ got' = {}
             /\ wstep' = "run"
        ELSE wstep' = "loop" /\ UNCHANGED <<lease, offer, run, got>>
  BY DEF Begin
<1>3. offer = None /\ got = {} /\ ~due
  BY <1>0, <1>1, NothingOffered DEF CarryInv
<1>4. posted \in Nat /\ cursor \in Nat
  BY <1>0, Numbers
<1>5. CASE ~(mayBegin(v) /\ Unread(cursor) # {})
  <2>1. wstep' = "loop" /\ UNCHANGED <<lease, offer, run, got>>
    BY <1>2, <1>5
  <2>2. /\ (isLive' <=> isLive) /\ (carries' <=> carries) /\ (due' <=> due)
        /\ \A m \in Listener : Reads(m)' <=> Reads(m)
    BY <1>1, <2>1 DEF isLive, carries, due, ownActions, Reads
  <2>3. CursorInv' /\ AwayInv' /\ OfferInv'
    <3>1. \A m \in Listener : phase[m] = "slice" => plan[m] = cursor
      BY <1>0, <1>1 DEF CursorInv
    <3> QED
      BY <1>0, <1>1, <1>3, <1>4, <2>1, <2>2, <3>1 DEF CursorInv, AwayInv, OfferInv
  <2>4. CarryInv'
    BY <1>0, <1>1, <2>1, <2>2 DEF CarryInv, ownActions
  <2>5. OwedInv'
    BY <1>0, <1>1, <2>1, <2>2 DEF OwedInv, StillKept, Carried, Offered, Flagged
  <2> QED
    BY <2>3, <2>4, <2>5 DEF MailInv
<1>6. CASE mayBegin(v) /\ Unread(cursor) # {}
  <2>1. /\ lease' = [state |-> "headless", gen |-> wgen]
        /\ offer' = [before |-> cursor, items |-> Unread(cursor)]
        /\ run' = TRUE /\ got' = {} /\ wstep' = "run"
    BY <1>2, <1>6
  <2>2. \A m \in Listener : ~Reads(m) /\ ~Reads(m)'
    BY <1>1, <1>6, ReaderHolds DEF mayBegin, Reads, Tidy
  <2>3. ~isLive' /\ ~carries' /\ ~due'
    BY <2>1 DEF isLive, carries, due
  <2>4. \A i : i \in Unread(cursor) <=> i \in Int /\ cursor < i /\ i <= posted
    BY <1>4 DEF Unread
  <2>5. offer' # None /\ offer'.before = cursor /\ offer'.items = Unread(cursor)
    <3>1. [before |-> cursor, items |-> Unread(cursor)] \in [before : Nat, items : SUBSET Nat]
      BY <1>4 DEF Unread
    <3> QED
      BY <2>1, <3>1, MailboxAssumption
  <2>6. CursorInv' /\ AwayInv'
    BY <1>0, <1>1, <2>1, <2>2, <2>3 DEF CursorInv, AwayInv, Reads
  <2>7. OfferInv'
    <3>1. \A i \in Items : ~(cursor < i /\ i <= cursor)
      BY <1>4 DEF Items
    <3> QED
      BY <1>1, <1>4, <2>1, <2>3, <2>4, <2>5, <3>1 DEF OfferInv
  <2>8. CarryInv'
    BY <2>1, <2>2, <2>3 DEF CarryInv
  <2>9. OwedInv'
    <3>1. ASSUME NEW i \in owes \ dropped PROVE StillKept(i)'
      <4>1. i > cursor \/ Flagged(i)
        BY <1>0, <1>1, <1>3, <3>1 DEF OwedInv, StillKept, Offered, Carried
      <4> QED
        BY <1>1, <4>1 DEF StillKept, Flagged
    <3> QED
      BY <1>0, <1>1, <3>1 DEF OwedInv
  <2> QED
    BY <2>6, <2>7, <2>8, <2>9 DEF MailInv
<1> QED
  BY <1>5, <1>6

(* A run of the harness. *)

LEMMA RunReadsTidy ==
    ASSUME Tidy, RunReads
    PROVE  MailInv'
<1>0. TypeOK /\ CursorInv /\ AwayInv /\ OfferInv /\ CarryInv /\ OwedInv
  BY DEF Tidy, MailInv
<1>1. /\ run /\ dropped' = dropped \ Unread(cursor)
      /\ got' = got \cup Unread(cursor) /\ owes' = owes \cup (Unread(cursor) \ done) /\ cursor' = posted
      /\ UNCHANGED <<trouble, posted, done, lease, phase, plan, wstep, back, offer, offers, run>>
  BY DEF RunReads, room, live, watch
<1>2. /\ offer # None /\ ~isLive /\ ~carries /\ ~due /\ \A i : ~Carried(i)
      /\ \A m \in Listener : ~Reads(m)
      /\ wstep \in {"run", "settle", "down", "orphan"}
  BY <1>1, WakeAlone
<1>3. posted \in Nat /\ cursor \in Nat /\ cursor <= posted /\ offer.before \in Nat
  BY <1>0, <1>2, Numbers DEF CursorInv
<1>4. /\ ~isLive' /\ ~carries' /\ ~due'
      /\ \A m \in Listener : ~Reads(m)' /\ phase'[m] # "slice"
  BY <1>1, <1>2 DEF isLive, carries, due, Reads
<1>5. CursorInv' /\ AwayInv'
  BY <1>0, <1>1, <1>3, <1>4 DEF CursorInv, AwayInv
<1>6. OfferInv'
  <2>1. ASSUME NEW i \in Items, wstep \in {"run", "settle"}, offer.before < i, i <= posted PROVE i \in got'
    <3>1. i \in Nat
      BY DEF Items
    <3>2. CASE i <= cursor
      BY <1>0, <1>1, <1>2, <2>1, <3>2 DEF OfferInv
    <3>3. CASE ~(i <= cursor)
      BY <1>1, <1>3, <2>1, <3>1, <3>3 DEF Unread
    <3> QED
      BY <3>2, <3>3
  <2>2. offer.before <= posted
    BY <1>0, <1>2, <1>3 DEF OfferInv
  <2>3. ASSUME NEW i \in got' PROVE offer.before < i /\ i <= posted
    <3>1. CASE i \in got
      <4>1. i \in Nat /\ offer.before < i /\ i <= cursor
        BY <1>0, <1>2, <3>1, Numbers DEF OfferInv, TypeOK
      <4> QED
        BY <1>3, <4>1
    <3>2. CASE i \in Unread(cursor)
      <4>1. i \in Int /\ cursor < i /\ i <= posted /\ offer.before <= cursor
        BY <1>0, <1>2, <1>3, <3>2 DEF Unread, OfferInv
      <4> QED
        BY <1>3, <4>1
    <3> QED
      BY <1>1, <2>3, <3>1, <3>2
  <2>4. cursor' = posted /\ run' /\ wstep' = wstep /\ offer' = offer
    BY <1>1
  <2> QED
    BY <1>0, <1>1, <1>2, <1>4, <2>1, <2>2, <2>3, <2>4 DEF OfferInv
<1>7. CarryInv'
  BY <1>1, <1>2, <1>4 DEF CarryInv
<1>8. OwedInv'
  <2>1. \A i \in Unread(cursor) : i <= posted
    BY <1>3 DEF Unread
  <2>2. ASSUME NEW i \in owes' \ dropped' PROVE StillKept(i)'
    <3>1. CASE i \in Unread(cursor)
      BY <1>1, <3>1 DEF StillKept
    <3>2. CASE i \in owes \ dropped /\ i \notin Unread(cursor)
      <4>1. i \in Nat /\ i <= posted
        BY <1>0, <3>2, Numbers DEF OwedInv, TypeOK
      <4>2. ~(i > cursor)
        BY <1>3, <3>2, <4>1 DEF Unread
      <4>3. Offered(i) \/ i \in got \/ Flagged(i)
        BY <1>0, <1>2, <3>2, <4>2 DEF OwedInv, StillKept
      <4> QED
        BY <1>1, <4>3 DEF StillKept, Offered, Flagged
    <3> QED
      BY <1>1, <2>2, <3>1, <3>2
  <2> QED
    BY <1>0, <1>1, <2>1, <2>2 DEF OwedInv
<1> QED
  BY <1>5, <1>6, <1>7, <1>8 DEF MailInv

LEMMA RunAnswersTidy ==
    ASSUME Tidy, NEW i \in Items, RunAnswers(i)
    PROVE  MailInv'
<1>0. TypeOK /\ CursorInv /\ AwayInv /\ OfferInv /\ CarryInv /\ OwedInv
  BY DEF Tidy, MailInv
<1>1. /\ run /\ done' = done \cup {i} /\ owes' = owes \ {i}
      /\ UNCHANGED <<trouble, posted, cursor, lease, phase, plan, wstep, back, offer, offers, run, got, dropped>>
  BY DEF RunAnswers, live, watch
<1>2. /\ offer # None /\ ~isLive /\ ~carries /\ ~due /\ \A j : ~Carried(j)
      /\ \A m \in Listener : ~Reads(m)
      /\ wstep \in {"run", "settle", "down", "orphan"}
  BY <1>1, WakeAlone
<1>3. ~isLive' /\ ~carries' /\ ~due' /\ \A m \in Listener : ~Reads(m)'
  BY <1>1, <1>2 DEF isLive, carries, due, Reads
<1>4. CursorInv' /\ AwayInv' /\ OfferInv'
  BY <1>0, <1>1, <1>2, <1>3 DEF CursorInv, AwayInv, OfferInv, Reads
<1>5. CarryInv'
  BY <1>1, <1>2, <1>3 DEF CarryInv
<1>6. OwedInv'
  BY <1>0, <1>1, <1>2 DEF OwedInv, StillKept, Offered, Flagged
<1> QED
  BY <1>4, <1>5, <1>6 DEF MailInv

LEMMA RunEndsTidy ==
    ASSUME Tidy, NEW how, RunEnds(how)
    PROVE  MailInv'
<1>0. TypeOK /\ CursorInv /\ AwayInv /\ OfferInv /\ CarryInv /\ OwedInv
  BY DEF Tidy, MailInv
<1>1. /\ run /\ ~run' /\ wstep' = IF wstep = "run" THEN "settle" ELSE wstep
      /\ lease' \in {lease, None}
      /\ UNCHANGED <<trouble, posted, cursor, done, phase, plan, back, offer, offers, got, owes, dropped>>
  BY DEF RunEnds, room, live
<1>2. /\ offer # None /\ ~isLive /\ ~carries /\ ~due /\ \A j : ~Carried(j)
      /\ \A m \in Listener : ~Reads(m)
      /\ wstep \in {"run", "settle", "down", "orphan"}
  BY <1>1, WakeAlone
<1>3. ~isLive' /\ ~carries' /\ ~due' /\ \A m \in Listener : ~Reads(m)'
  BY <1>1, <1>2 DEF isLive, carries, due, Reads
<1>4. CursorInv' /\ AwayInv' /\ OfferInv'
  BY <1>0, <1>1, <1>2, <1>3 DEF CursorInv, AwayInv, OfferInv, Reads
<1>5. CarryInv'
  BY <1>1, <1>2, <1>3 DEF CarryInv
<1>6. OwedInv'
  BY <1>0, <1>1, <1>2 DEF OwedInv, StillKept, Offered, Flagged
<1> QED
  BY <1>4, <1>5, <1>6 DEF MailInv

\* What was read and not answered is put back, or its offers are over, or it was read beyond
\* the offer and passed over.
LEMMA SettledOwed ==
    ASSUME Tidy, offer # None, NEW failed \in BOOLEAN, settle(failed), failed \/ wstep = "settle"
    PROVE  /\ cursor' \in Nat /\ offer' = None /\ cursor' \in {cursor, offer.before}
           /\ \A i \in owes \ dropped :
                (failed /\ i \notin Stray) \/ i \notin got =>
                  i > cursor' \/ offers'[i] >= MaxOffers \/ (cursor' = cursor /\ Carried(i))
<1>0. TypeOK /\ OfferInv /\ OwedInv /\ CarryInv
  BY DEF Tidy, MailInv
<1>1. /\ cursor \in Nat /\ offer.before \in Nat /\ offer.before <= cursor /\ MaxOffers \in Nat
      /\ \A i \in Items : i \in Nat /\ offers[i] \in Nat
      /\ wstep # "restore"
  BY <1>0, Numbers DEF OfferInv
<1>2. /\ offers' = [i \in Items |-> IF progress /\ i \in open(failed) THEN offers[i] + 1
                                    ELSE IF i \in done \/ (progress /\ i \in offer.items) THEN 0 ELSE offers[i]]
      /\ cursor' = IF reoffered(failed) THEN offer.before ELSE cursor
      /\ offer' = None
  BY DEF settle
<1>3. cursor' \in Nat /\ cursor' <= cursor /\ cursor' \in {cursor, offer.before}
  BY <1>1, <1>2
<1>4. ASSUME NEW i \in owes \ dropped, (failed /\ i \notin Stray) \/ i \notin got
      PROVE  i > cursor' \/ offers'[i] >= MaxOffers \/ (cursor' = cursor /\ Carried(i))
  <2>1. /\ i \in Items /\ i \in Nat /\ i \notin done
        /\ i > cursor \/ Carried(i) \/ i \in offer.items \/ i \in got \/ offers[i] >= MaxOffers
    BY <1>0, <1>1 DEF OwedInv, StillKept, Offered, Flagged, TypeOK
  <2>2. CASE i > cursor
    BY <1>1, <1>3, <2>1, <2>2
  <2>3. CASE ~(i > cursor) /\ i \in offer.items
    <3>1. offer.before < i /\ i <= cursor
      BY <1>0, <1>1, <2>1, <2>3 DEF OfferInv
    <3>3. failed
      BY <1>0, <1>4, <2>1, <3>1 DEF OfferInv
    <3>4. progress /\ i \in open(failed)
      BY <1>1, <2>1, <2>3, <3>1, <3>3 DEF progress, open
    <3>5. offers'[i] = offers[i] + 1
      BY <1>2, <2>1, <3>4
    <3>6. CASE offers[i] + 1 < MaxOffers
      <4>1. i \in again(failed)
        BY <3>4, <3>6 DEF again
      <4>2. cursor' = offer.before
        BY <1>2, <3>4, <4>1 DEF reoffered
      <4> QED
        BY <1>1, <2>1, <3>1, <4>2
    <3>7. CASE ~(offers[i] + 1 < MaxOffers)
      BY <1>1, <2>1, <3>5, <3>7
    <3> QED
      BY <3>6, <3>7
  <2>4. CASE i \in got /\ i \notin offer.items
    <3>1. failed /\ reoffered(TRUE)
      BY <1>4, <2>4 DEF Stray
    <3>2. cursor' = offer.before /\ offer.before < i
      BY <1>0, <1>2, <2>4, <3>1 DEF OfferInv
    <3> QED
      BY <3>2
  <2>5. CASE ~(i > cursor) /\ i \notin offer.items /\ i \notin got
    <3>1. offers'[i] = offers[i]
      BY <1>2, <2>1, <2>5 DEF open
    <3>2. CASE Carried(i)
      <4>1. isLive /\ lease.reoffer # None /\ i \in (lease.reoffer.before + 1)..lease.reoffer.after
        BY <3>2 DEF Carried, carries
      <4>2. lease.reoffer.before \in Nat /\ offer.before <= lease.reoffer.before
        BY <1>0, <4>1, SpanNumbers DEF OfferInv
      <4>3. offer.before < i
        BY <1>0, <1>1, <2>1, <4>1, <4>2, SpanNumbers
      <4> QED
        BY <1>3, <3>2, <4>3
    <3> QED
      BY <2>1, <2>5, <3>1, <3>2
  <2> QED
    BY <2>2, <2>3, <2>4, <2>5
<1> QED
  BY <1>2, <1>3, <1>4

\* After a wake is settled nothing of it is left. Where a listener is in a slice meanwhile,
\* the lease carries nothing that was put back.
LEMMA SettledTidy ==
    ASSUME Tidy, ~run, offer # None, cursor' \in Nat, cursor' \in {cursor, offer.before}, offer' = None, got' = {},
           wstep' = "loop", wstep \in {"settle", "orphan"}, owes' \subseteq owes,
           \A i \in owes' \ dropped' :
             i > cursor' \/ offers'[i] >= MaxOffers \/ (cursor' = cursor /\ Carried(i)),
           UNCHANGED <<trouble, posted, lease, done, phase, plan, back, run>>
    PROVE  MailInv'
<1>0. TypeOK /\ CursorInv /\ AwayInv /\ OfferInv /\ CarryInv /\ OwedInv
  BY DEF Tidy, MailInv
<1>1. (isLive' <=> isLive) /\ (carries' <=> carries) /\ \A m \in Listener : Reads(m)' <=> Reads(m)
  BY DEF isLive, carries, Reads
<1>2. cursor \in Nat /\ posted \in Nat /\ offer.before \in Nat /\ offer.before <= cursor /\ cursor <= posted
  BY <1>0, Numbers DEF OfferInv, CursorInv
<1>3. CursorInv'
  <2>1. ASSUME NEW m \in Listener, phase'[m] = "slice"
        PROVE  /\ cursor' <= plan'[m] /\ plan'[m] <= posted'
               /\ cursor' = plan'[m] \/ ("restart" \in trouble /\ \A i \in Items : ~Carried(i)')
    <3>1. /\ phase[m] = "slice" /\ Reads(m) /\ plan[m] \in Nat
          /\ cursor <= plan[m] /\ plan[m] <= posted
          /\ cursor = plan[m] \/ ("restart" \in trouble /\ \A i \in Items : ~Carried(i))
      BY <1>0, <2>1, Numbers DEF CursorInv, Reads
    <3>2. wstep = "orphan" /\ "restart" \in trouble
      BY <1>0, <3>1 DEF CursorInv, AwayInv
    <3>3. CASE cursor' = cursor
      <4>1. \A i \in Items : Carried(i)' <=> Carried(i)
        BY <1>1, <3>3 DEF Carried, due, ownActions
      <4> QED
        BY <3>1, <3>3, <4>1
    <3>4. CASE cursor' = offer.before
      <4>1. ASSUME NEW i \in Items, Carried(i)' PROVE FALSE
        <5>1. /\ isLive /\ lease.reoffer # None /\ cursor' = lease.reoffer.after
              /\ i \in (lease.reoffer.before + 1)..lease.reoffer.after
          BY <1>1, <4>1 DEF Carried, due, carries
        <5>2. lease.reoffer.before \in Nat /\ lease.reoffer.after \in Nat /\ offer.before <= lease.reoffer.before
          BY <1>0, <5>1, SpanNumbers DEF OfferInv
        <5> QED
          BY <1>2, <3>4, <5>1, <5>2
      <4> QED
        BY <1>2, <3>1, <3>2, <3>4, <4>1
    <3> QED
      BY <3>3, <3>4
  <2>2. cursor' <= posted'
    BY <1>2
  <2> QED
    BY <2>1, <2>2 DEF CursorInv
<1>4. AwayInv' /\ OfferInv'
  BY <1>0, <1>1 DEF AwayInv, OfferInv
<1>5. CarryInv'
  BY <1>0, <1>1 DEF CarryInv, ownActions
<1>6. OwedInv'
  <2>1. ASSUME NEW i \in owes' \ dropped' PROVE StillKept(i)'
    <3>1. cursor' = cursor /\ Carried(i) => Carried(i)'
      BY <1>1 DEF Carried, due, ownActions
    <3> QED
      BY <3>1 DEF StillKept, Flagged
  <2> QED
    BY <1>0, <2>1 DEF OwedInv
<1> QED
  BY <1>3, <1>4, <1>5, <1>6 DEF MailInv

LEMMA SettleRunTidy ==
    ASSUME Tidy, SettleRun
    PROVE  MailInv'
<1>0. TypeOK /\ OfferInv /\ OwedInv
  BY DEF Tidy, MailInv
<1>1. /\ wstep = "settle" /\ wstep' = "loop" /\ got' = {}
      /\ owes' = IF result = "ok" THEN owes \ got ELSE owes
      /\ dropped' = IF result = "ok" THEN dropped ELSE dropped \cup Stray
      /\ UNCHANGED <<trouble, posted, lease, done, phase, plan, back, run>>
  BY DEF SettleRun, room, live
<1>2. offer # None /\ ~run
  BY <1>0, <1>1 DEF TypeOK, Tidy, IInv, RunIsClaimed
<1>3. CASE result = "busy" /\ ~progress
  <2>1. offer' = None /\ cursor' = cursor /\ offers' = offers /\ owes' = owes
    BY <1>1, <1>3 DEF SettleRun
  <2>2. cursor = offer.before /\ cursor \in Nat /\ \A i \in Items : i \in Nat
    BY <1>0, <1>3, Numbers DEF progress
  <2>3. \A i \in Items : i \in got \/ i \in offer.items => i > cursor
    BY <1>0, <1>2, <2>2 DEF OfferInv
  <2>4. \A i \in owes \ dropped : i > cursor \/ offers[i] >= MaxOffers
    BY <1>0, <1>1, <2>3, WakeAlone DEF OwedInv, StillKept, Offered, Flagged, TypeOK
  <2>5. \A i \in owes' \ dropped' : i > cursor' \/ offers'[i] >= MaxOffers
    BY <1>1, <1>3, <2>1, <2>4
  <2> QED
    BY <1>1, <1>2, <2>1, <2>2, <2>5, SettledTidy
<1>4. CASE ~(result = "busy" /\ ~progress)
  <2>1. settle(result # "ok")
    BY <1>4 DEF SettleRun
  <2>2. /\ cursor' \in Nat /\ cursor' \in {cursor, offer.before} /\ offer' = None
        /\ \A i \in owes \ dropped : (result # "ok" /\ i \notin Stray) \/ i \notin got =>
             i > cursor' \/ offers'[i] >= MaxOffers \/ (cursor' = cursor /\ Carried(i))
    BY <1>1, <1>2, <2>1, SettledOwed
  <2>3. owes' \subseteq owes /\ \A i \in owes' \ dropped' :
          i > cursor' \/ offers'[i] >= MaxOffers \/ (cursor' = cursor /\ Carried(i))
    BY <1>1, <2>2
  <2> QED
    BY <1>1, <1>2, <2>2, <2>3, SettledTidy
<1> QED
  BY <1>3, <1>4

LEMMA SettleOrphanTidy ==
    ASSUME Tidy, SettleOrphan
    PROVE  MailInv'
<1>0. TypeOK /\ CursorInv /\ AwayInv /\ OfferInv /\ CarryInv /\ OwedInv
  BY DEF Tidy, MailInv
<1>1. /\ wstep = "orphan" /\ ~run /\ wstep' = "loop" /\ got' = {}
      /\ UNCHANGED <<trouble, posted, lease, done, phase, plan, back, run, owes>>
  BY DEF SettleOrphan, room, live
<1>2. CASE offer # None
  <2>1. settle(TRUE) /\ dropped' = dropped \cup Stray
    BY <1>2 DEF SettleOrphan
  <2>2. /\ cursor' \in Nat /\ cursor' \in {cursor, offer.before} /\ offer' = None
        /\ \A i \in owes \ dropped : i \notin Stray =>
             i > cursor' \/ offers'[i] >= MaxOffers \/ (cursor' = cursor /\ Carried(i))
    BY <1>2, <2>1, SettledOwed
  <2>3. \A i \in owes' \ dropped' :
          i > cursor' \/ offers'[i] >= MaxOffers \/ (cursor' = cursor /\ Carried(i))
    BY <1>1, <2>1, <2>2
  <2> QED
    BY <1>1, <1>2, <2>2, <2>3, SettledTidy
<1>3. CASE offer = None
  <2>1. UNCHANGED <<offers, cursor, offer, dropped>> /\ got = {}
    BY <1>0, <1>3 DEF SettleOrphan, OfferInv
  <2>2. /\ (isLive' <=> isLive) /\ (carries' <=> carries) /\ (due' <=> due)
        /\ \A m \in Listener : Reads(m)' <=> Reads(m)
    BY <1>1, <2>1 DEF isLive, carries, due, ownActions, Reads
  <2>3. \A i : Carried(i)' <=> Carried(i)
    BY <1>1, <2>1, <2>2 DEF Carried
  <2>4. CursorInv' /\ AwayInv' /\ OfferInv'
    BY <1>0, <1>1, <1>3, <2>1, <2>2, <2>3 DEF CursorInv, AwayInv, OfferInv
  <2>5. CarryInv'
    BY <1>0, <1>1, <2>1, <2>2 DEF CarryInv, ownActions
  <2>6. OwedInv'
    BY <1>0, <1>1, <1>3, <2>1, <2>3 DEF OwedInv, StillKept, Offered, Flagged
  <2> QED
    BY <2>4, <2>5, <2>6 DEF MailInv
<1> QED
  BY <1>2, <1>3

LEMMA WatcherComesTidy ==
    ASSUME Tidy, WatcherEnds \/ WatcherStarts
    PROVE  MailInv'
<1>0. TypeOK /\ CursorInv /\ AwayInv /\ OfferInv /\ CarryInv /\ OwedInv
  BY DEF Tidy, MailInv
<1>1. /\ wstep # "restore" /\ wstep' \in {"down", "orphan"}
      /\ UNCHANGED <<trouble, posted, cursor, lease, done, phase, plan, back, offer, offers, run, got, owes, dropped>>
  BY DEF WatcherEnds, WatcherStarts, room, live, runv
<1>2. "restart" \in trouble
  BY <1>0 DEF WatcherEnds, WatcherStarts, AwayInv
<1>3. /\ (isLive' <=> isLive) /\ (carries' <=> carries) /\ (due' <=> due)
      /\ \A m \in Listener : Reads(m)' <=> Reads(m)
  BY <1>1 DEF isLive, carries, due, ownActions, Reads
<1>4. CursorInv' /\ AwayInv' /\ OfferInv'
  <2>1. \A i : Carried(i)' <=> Carried(i)
    BY <1>1, <1>3 DEF Carried
  <2>2. CursorInv' /\ AwayInv'
    BY <1>0, <1>1, <1>2, <1>3, <2>1 DEF CursorInv, AwayInv
  <2> QED
    BY <1>0, <1>1, <1>3, <2>2 DEF OfferInv
<1>5. CarryInv'
  BY <1>0, <1>1, <1>3 DEF CarryInv, ownActions
<1>6. OwedInv'
  BY <1>0, <1>1, <1>3 DEF OwedInv, StillKept, Carried, Offered, Flagged
<1> QED
  BY <1>4, <1>5, <1>6 DEF MailInv

\* Arrivals, the end of a turn, time, and nothing at all.
LEMMA RestTidy ==
    ASSUME Tidy, Post \/ (\E l \in Listener : EndTurn(l)) \/ LifePasses \/ BackoffPasses \/ UNCHANGED vars
    PROVE  MailInv'
<1>0. TypeOK /\ CursorInv
  BY DEF Tidy, MailInv
<1>1. /\ UNCHANGED <<trouble, cursor, lease, done, phase, plan, wstep, back, offer, offers, run, got, owes, dropped>>
      /\ posted' \in {posted, posted + 1}
  BY DEF Post, EndTurn, LifePasses, BackoffPasses, vars, room, live, watch, runv
<1>2. posted' \in Nat /\ posted <= posted'
  BY <1>0, <1>1, Numbers
<1>3. \A m \in Listener : (Reads(m)' => Reads(m)) /\ SliceKept(m)
  BY <1>0, <1>1 DEF Reads, SliceKept
<1> QED
  BY <1>1, <1>2, <1>3, LeaseStays

LEMMA MailStep == Tidy /\ [Next]_vars => MailInv'
<1> SUFFICES ASSUME Tidy, [Next]_vars PROVE MailInv'
  OBVIOUS
<1>1. CASE \E l \in Listener : ListenerStep(l)
  BY <1>1, StartTidy, AttachTidy, BeatTidy, SliceTidy, TimesOutTidy, ReturnsTidy, QuitTidy, AnswerTidy, RestTidy
     DEF ListenerStep
<1>2. CASE Post \/ Time \/ UNCHANGED vars
  BY <1>2, TimeTidy, RestTidy DEF Time
<1>3. CASE WatcherStep
  BY <1>3, GiveBackTidy, RestoreTidy, LookTidy, BeginTidy, SettleRunTidy, SettleOrphanTidy DEF WatcherStep
<1>4. CASE RunStep
  BY <1>4, RunReadsTidy, RunAnswersTidy, RunEndsTidy DEF RunStep
<1>5. CASE WatcherEnds \/ WatcherStarts
  BY <1>5, WatcherComesTidy
<1> QED
  BY <1>1, <1>2, <1>3, <1>4, <1>5 DEF Next

LEMMA MailHolds == Spec => (Calm /\ Steady => []Tidy)
<1>1. Init /\ Calm /\ Steady => Tidy
  <2> SUFFICES ASSUME Init, Calm, Steady PROVE Tidy
    OBVIOUS
  <2>1. TypeOK
    BY TypeInit
  <2>2. IInv
    BY DEF Init, IInv, LeaseNamesReaders, RunIsClaimed, Reads
  <2>3. CursorInv /\ AwayInv /\ OfferInv
    BY DEF Init, CursorInv, AwayInv, OfferInv, isLive, Reads
  <2>4. CarryInv /\ OwedInv
    BY DEF Init, CarryInv, OwedInv, isLive, Reads
  <2> QED
    BY <2>1, <2>2, <2>3, <2>4 DEF Tidy, MailInv
<1>2. Tidy /\ [Next]_vars => Tidy'
  BY TypeStep, NamesStep, TroubleStays, MailStep DEF Tidy, Calm, Steady
<1> QED
  BY <1>1, <1>2, PTL DEF Spec

\* An item read and not answered is in somebody's hands, however turns end, runs fail,
\* listeners are stopped and watchers end and start again, as long as no process is held for
\* long: but for what a failed run read beyond its offer and what a listener's slice passed
\* over, which the code drops (liveGate, attachLive, pickupLive, settle).
THEOREM ReadIsNotLost == Spec => (Calm /\ Steady => []NothingLost)
<1>1. Tidy => NothingLost
  BY DEF Tidy, MailInv, OwedInv, StillKept, NothingLost, Kept, InHands
<1> QED
  BY <1>1, MailHolds, PTL

\* A watcher that is started again finds no live listener.
Apart == "restart" \in trouble => "unattended" \in trouble

\* The saved cursor goes back only while nobody reads from it: neither what the lease carried
\* nor what a wake left is put back under a listener's slice or a run.
THEOREM PutBackAlone == Spec => (Calm /\ Steady /\ Apart => PutBackUnread)
<1>1. ASSUME Tidy, Apart, [Next]_vars PROVE [cursor' < cursor => Readers = {}]_vars
  <2>0. TypeOK /\ CursorInv /\ AwayInv /\ CarryInv
    BY <1>1 DEF Tidy, MailInv
  <2>1. cursor \in Nat /\ posted \in Nat /\ cursor <= posted
    BY <2>0, Numbers DEF CursorInv
  <2>2. CASE Restore \/ SettleRun \/ SettleOrphan
    <3>1. wstep \in {"restore", "settle", "orphan"} /\ (wstep = "orphan" => ~run)
      BY <2>2 DEF Restore, SettleRun, SettleOrphan
    <3>2. ~run
      BY <1>1, <3>1 DEF Tidy, IInv, RunIsClaimed
    <3>3. \A l \in Listener : ~Reads(l)
      BY <1>1, <2>0, <3>1 DEF CursorInv, AwayInv, Reads, Apart
    <3>4. Readers = {}
      BY <3>2, <3>3 DEF Readers
    <3> QED
      BY <3>4
  <2>3. CASE ~(Restore \/ SettleRun \/ SettleOrphan)
    <3>1. cursor' = cursor \/ cursor' = posted
      <4>1. ASSUME NEW l \in Listener, SliceTimesOut(l) PROVE cursor' = cursor
        BY <1>1, <2>0, <4>1 DEF SliceTimesOut, CursorInv, AwayInv, Apart
      <4> QED
        BY <1>1, <2>3, <4>1 DEF Next, ListenerStep, Time, WatcherStep, RunStep, vars, room, Start, Attach,
           Beat, SliceStarts, SliceReturns, Quit, Kill, EndTurn, Answer, Post, Ages, WindowEnds, LifePasses,
           BackoffPasses, GiveBack, Look, Begin, RunReads, RunAnswers, RunEnds, WatcherEnds, WatcherStarts
    <3>2. ~(cursor' < cursor)
      BY <2>1, <3>1
    <3> QED
      BY <3>2
  <2> QED
    BY <2>2, <2>3
<1>2. Tidy /\ Apart /\ [Next]_vars => [cursor' < cursor => Readers = {}]_vars
  BY <1>1
<1>3. Apart /\ [Next]_vars => Apart'
  BY TroubleStays DEF Apart
<1> QED
  BY <1>2, <1>3, MailHolds, PTL DEF Spec, PutBackUnread

=============================================================================
