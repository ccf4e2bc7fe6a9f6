------------------------- MODULE RoomService_proofs -------------------------
(***************************************************************************)
(* Proofs about the room service beyond admission: the life of its rooms   *)
(* (RoomLifecycle), for all rooms, idle periods, throttles, sweep          *)
(* intervals and downtimes, and the signals two devices exchange through   *)
(* it (Signaling), for all bounds on trouble.                              *)
(***************************************************************************)
EXTENDS MCRoomService, Subsequences_proofs, TLAPS

-----------------------------------------------------------------------------
(* The life of rooms.  What a sweep reads is the age of a room's row; the  *)
(* promises relate it to something else: the age in memory, the date shown *)
(* to members and the time the service was up without them.  Each relation *)
(* is inductive with the others' help, because a use that is not written   *)
(* leaves the row as it was (CacheBehind says how old it can be) and a     *)
(* start moves the row by the downtime (Counted says what the heartbeat    *)
(* still owes).                                                            *)

\* While the service runs, every room has a row and the service a heartbeat.
Rows ==
  phase # "down" =>
    /\ heartbeat # None
    /\ \A r \in rooms : activity[r] # None

\* A room there never was, was never used; one that went does not exist.
Fresh ==
  \A r \in Room :
    /\ closed[r] # "no" => r \notin rooms
    /\ (r \notin rooms /\ closed[r] = "no") => active[r] = None /\ expires[r] = None

\* The row expires no earlier than its members were told.
Promised ==
  \A r \in rooms :
    expires[r] # None => activity[r] # None /\ activity[r] + expires[r] <= Idle

\* The row's age is time the service was up, but for the throttle and, while
\* the service is down, for what the next start takes off again.
Counted ==
  \A r \in rooms :
    activity[r] <= unused[r] + Throttle - 1 + (IF phase = "down" THEN heartbeat ELSE 0)

\* What a sweep found idle stays so until its turn.
Found ==
  phase = "sweeping" => \A r \in idle \cap rooms : activity[r] > Idle

IInv == TypeOK /\ CacheBehind /\ Rows /\ Fresh /\ Promised /\ Counted /\ Found

LEMMA InitInv == Init => IInv
  BY TimesAssumption DEF Init, IInv, TypeOK, CacheBehind, Rows, Fresh, Promised, Counted,
     Found, None, Cap, Age

LEMMA StepInv == IInv /\ [Next]_vars => IInv'
<1> SUFFICES ASSUME IInv, [Next]_vars PROVE IInv'
  OBVIOUS
<1> USE TimesAssumption DEF IInv, TypeOK, CacheBehind, Rows, Fresh, Promised, Counted,
     Found, None, Cap, Age
<1>1. ASSUME NEW r \in Room, Create(r) PROVE IInv'
  BY <1>1 DEF Create, Taken, Touch, Writes
<1>2. ASSUME NEW r \in Room, Command(r) PROVE IInv'
  BY <1>2 DEF Command, Exists, Refused, Touch, Writes
<1>3. ASSUME NEW r \in Room, Status(r) PROVE IInv'
  BY <1>3 DEF Status, Exists, Touch, Writes
<1>4. ASSUME NEW r \in Room, Close(r) PROVE IInv'
  BY <1>4 DEF Close, Exists, Remove, Forget
<1>5. ASSUME NEW r \in Room, Retire(r) PROVE IInv'
  BY <1>5 DEF Retire, Exists, Remove
<1>6. ASSUME NEW r \in Room, Expire(r) PROVE IInv'
  BY <1>6 DEF Expire, Exists, Remove, Forget
<1>7. ASSUME Due PROVE IInv'
  BY <1>7 DEF Due
<1>8. ASSUME Sweep PROVE IInv'
  BY <1>8 DEF Sweep
<1>9. ASSUME Swept PROVE IInv'
  BY <1>9 DEF Swept
<1>10. ASSUME Start PROVE IInv'
  BY <1>10 DEF Start, Resumed, Opened
<1>11. ASSUME Stop PROVE IInv'
  BY <1>11 DEF Stop, Ends
<1>12. ASSUME Crash PROVE IInv'
  BY <1>12 DEF Crash, Ends
<1>13. ASSUME Tick PROVE IInv'
  BY <1>13 DEF Tick, Older, Lasts
<1>14. ASSUME UNCHANGED vars PROVE IInv'
  BY <1>14 DEF vars
<1> QED
  BY <1>1, <1>2, <1>3, <1>4, <1>5, <1>6, <1>7, <1>8, <1>9, <1>10, <1>11, <1>12, <1>13, <1>14
     DEF Next

THEOREM Invariance == Spec => []IInv
  BY InitInv, StepInv, PTL DEF Spec

\* What memory holds of a room's activity is in the database, or something
\* newer is (touch, execute).
THEOREM CacheIsBehind == Spec => []CacheBehind
<1>1. IInv => CacheBehind
  BY DEF IInv
<1> QED
  BY <1>1, Invariance, PTL

\* The model is well typed: no age leaves its range, however long the
\* service runs or is down.
THEOREM TypeCorrect == Spec => []TypeOK
<1>1. IInv => TypeOK
  BY DEF IInv
<1> QED
  BY <1>1, Invariance, PTL

\* A room's activity is known well enough to sweep by (touch, sweep).
THEOREM ActivityIsKnown == Spec => []ActivityKnown
<1>1. TypeOK /\ CacheBehind => ActivityKnown
  BY DEF ActivityKnown
<1> QED
  BY <1>1, TypeCorrect, CacheIsBehind, PTL

\* Only a sweep expires a room, and only one it found idle.
LEMMA ExpiredBySweep ==
  ASSUME IInv, [Next]_vars, NEW r \in rooms, closed'[r] = "expired"
  PROVE  phase # "down" /\ activity[r] > Idle
<1> USE DEF IInv, TypeOK, Fresh, Found
<1>0. closed[r] = "no"
  OBVIOUS
<1>1. CASE \E q \in Room : Create(q) \/ Command(q) \/ Status(q)
  BY <1>0, <1>1 DEF Create, Command, Status
<1>2. CASE \E q \in Room : Close(q) \/ Retire(q)
  BY <1>0, <1>2 DEF Close, Retire, Remove
<1>3. CASE \E q \in Room : Expire(q)
  BY <1>0, <1>3 DEF Expire, Remove
<1>4. CASE Due \/ Sweep \/ Swept \/ Start \/ Stop \/ Crash \/ Tick \/ UNCHANGED vars
  BY <1>0, <1>4 DEF Due, Sweep, Swept, Start, Stop, Crash, Ends, Tick, vars
<1> QED
  BY <1>1, <1>2, <1>3, <1>4 DEF Next

\* No room is swept before the date its members were last shown (Status,
\* touch and resume against the sweep's cutoff).
THEOREM PromisesKept == Spec => PromiseKept
<1>1. ASSUME IInv, [Next]_vars, NEW r \in Room, Exists(r), closed'[r] = "expired"
      PROVE  expires[r] = None
  BY <1>1, ExpiredBySweep, TimesAssumption
     DEF IInv, TypeOK, Promised, Exists, None, Age, Cap
<1>2. IInv /\ [Next]_vars =>
        [\A r \in Room : (Exists(r) /\ closed'[r] = "expired") => expires[r] = None]_vars
  BY <1>1
<1> QED
  BY <1>2, Invariance, PTL DEF Spec, PromiseKept

\* Only time the service was up counts as idle: downtime after a clean stop
\* or a crash never gets a room swept (resume).
THEOREM OnlyIdleRoomsSwept == Spec => OnlyIdleSwept
<1>1. ASSUME IInv, [Next]_vars, NEW r \in Room, Exists(r), closed'[r] = "expired"
      PROVE  unused[r] > Idle - Throttle
  BY <1>1, ExpiredBySweep, TimesAssumption
     DEF IInv, TypeOK, Counted, Exists, None, Age, Cap
<1>2. IInv /\ [Next]_vars =>
        [\A r \in Room : (Exists(r) /\ closed'[r] = "expired") => unused[r] > Idle - Throttle]_vars
  BY <1>1
<1> QED
  BY <1>2, Invariance, PTL DEF Spec, OnlyIdleSwept

\* A room is swept only when its members were told, and only for time the
\* service was up (Status, touch and resume against the sweep's cutoff).
THEOREM SweepsByRight == Spec => SweptByRight
<1> QED
  BY PromisesKept, OnlyIdleRoomsSwept DEF SweptByRight

\* A removed room never returns, and keeps the reason it went
\* (closed_rooms, retireRoom).
THEOREM GoneForGood == Spec => ClosedForGood
<1>1. ASSUME IInv, [Next]_vars, NEW r \in Room, closed[r] # "no"
      PROVE  closed'[r] = closed[r] /\ r \notin rooms'
  <2> USE <1>1 DEF IInv, TypeOK, Fresh, Exists, Remove
  <2>1. CASE \E q \in Room : Create(q) \/ Command(q) \/ Status(q)
    BY <2>1 DEF Create, Taken, Command, Status
  <2>2. CASE \E q \in Room : Close(q) \/ Retire(q) \/ Expire(q)
    BY <2>2 DEF Close, Retire, Expire
  <2>3. CASE Due \/ Sweep \/ Swept \/ Start \/ Stop \/ Crash \/ Tick \/ UNCHANGED vars
    BY <2>3 DEF Due, Sweep, Swept, Start, Stop, Crash, Ends, Tick, vars
  <2> QED
    BY <2>1, <2>2, <2>3 DEF Next
<1>2. IInv /\ [Next]_vars =>
        [\A r \in Room : closed[r] # "no" => closed'[r] = closed[r] /\ r \notin rooms']_vars
  BY <1>1
<1> QED
  BY <1>2, Invariance, PTL DEF Spec, ClosedForGood

-----------------------------------------------------------------------------
(* Signals: a session handles none twice and passes none over.             *)
(*                                                                         *)
(* The service numbers what it queues, and a session counts what it handled *)
(* by those numbers, which start over with every epoch.  Between the        *)
(* service's answer and the session's handling of it the queue may grow,    *)
(* lose what is old or start over; SAnswerInv says what the answer still    *)
(* stands for.                                                              *)

Ascending(s) == \A i, j \in DOMAIN s : i < j => s[i].seq < s[j].seq

\* What waits is numbered in order, up to the last number given.
SQueueInv ==
  \A d \in Sig!Device :
    /\ Ascending(queue[d])
    /\ \A i \in DOMAIN queue[d] : queue[d][i].seq >= 1 /\ queue[d][i].seq <= sequence

\* What a session handled is not beyond its cursor, nor of a later epoch.
SHeardInv ==
  \A d \in Sig!Device :
    /\ known[d] <= epoch
    /\ known[d] = epoch => cursor[d] <= sequence
    /\ \A h \in handled[d] : h[1] <= known[d] /\ (h[1] = known[d] => h[2] <= cursor[d])

\* The cursor as the answer's epoch counts it.
Base(d) == IF known[d] = answer[d].epoch THEN cursor[d] ELSE 0

\* What waits for the session was handled, is answered, or was queued since.
Stands(d) ==
  /\ \A i \in DOMAIN answer[d].signals : answer[d].signals[i].seq <= sequence
  /\ \A k \in DOMAIN queue[d] : queue[d][k].targetSession = session[d] =>
       \/ queue[d][k].seq <= Base(d)
       \/ \E i \in DOMAIN answer[d].signals : answer[d].signals[i].seq = queue[d][k].seq
       \/ \A i \in DOMAIN answer[d].signals : answer[d].signals[i].seq < queue[d][k].seq

SAnswerInv ==
  \A d \in Sig!Device : answer[d] # Sig!NoAnswer =>
    /\ session[d] # 0
    /\ answer[d].epoch >= 1 /\ answer[d].epoch <= epoch /\ known[d] <= answer[d].epoch
    /\ Ascending(answer[d].signals)
    /\ \A i \in DOMAIN answer[d].signals : answer[d].signals[i].seq > Base(d)
    /\ answer[d].epoch = epoch => Stands(d)

SignalInv ==
  /\ Sig!TypeOK /\ epoch >= 1
  /\ SQueueInv /\ SHeardInv /\ SAnswerInv
  /\ Sig!NonePassedOver /\ ~twice

LEMMA SignalInit == Sig!Init => SignalInv
<1> SUFFICES ASSUME Sig!Init PROVE SignalInv
  OBVIOUS
<1>1. Sig!TypeOK
  <2>1. Sig!NoAnswer \in [online : Nat, signals : Seq(Sig!Signal), epoch : Nat]
    BY DEF Sig!NoAnswer
  <2>3. Sig!NoPeer \in [conn : Nat, to : Nat, state : {"none", "have-local-offer", "stable"},
                        remote : Nat, link : {"none", "connected", "failed"}, old : BOOLEAN]
    BY DEF Sig!NoPeer
  <2>4. twice \in BOOLEAN
    BY DEF Sig!Init
  <2>5. <<>> \in Seq(Sig!Signal) /\ {} \in SUBSET (Nat \X Nat)
    OBVIOUS
  <2> HIDE DEF Sig!NoAnswer, Sig!NoWork, Sig!NoPeer
  <2>6. queue \in [Sig!Device -> Seq(Sig!Signal)] /\ handled \in [Sig!Device -> SUBSET (Nat \X Nat)]
    BY <2>5 DEF Sig!Init
  <2> QED
    BY <2>1, <2>3, <2>4, <2>6 DEF Sig!Init, Sig!TypeOK
<1>2. SQueueInv
  BY DEF Sig!Init, SQueueInv, Ascending
<1>3. SHeardInv
  BY DEF Sig!Init, SHeardInv
<1>4. SAnswerInv
  BY DEF Sig!Init, SAnswerInv
<1>5. Sig!NonePassedOver
  BY DEF Sig!Init, Sig!NonePassedOver
<1> QED
  BY <1>1, <1>2, <1>3, <1>4, <1>5 DEF SignalInv, Sig!Init

(* The instance counts as the library does.                                *)
LEMMA SameCardinality == \A S : Sig!Cardinality(S) = Cardinality(S)
  BY Zenon DEF Cardinality, Sig!Cardinality

(* A part of a list of signals is one, and ascends if the list does.       *)
LEMMA PartOf ==
  ASSUME NEW s \in Seq(Sig!Signal), NEW P \in SUBSET (DOMAIN s)
  PROVE  /\ Sig!At(s, P) = At(s, P)
         /\ At(s, P) \in Seq(Sig!Signal)
         /\ \A k \in DOMAIN At(s, P) : \E i \in P : At(s, P)[k] = s[i]
         /\ \A i \in P : \E k \in DOMAIN At(s, P) : At(s, P)[k] = s[i]
         /\ Ascending(s) => Ascending(At(s, P))
<1>1. Sig!At(s, P) = At(s, P)
  <2>1. \A i : Sig!Place(P, i) = Place(P, i)
    BY SameCardinality, Zenon DEF Place, Sig!Place
  <2>2. \A k : (CHOOSE i \in P : Sig!Place(P, i) = k) = (CHOOSE i \in P : Place(P, i) = k)
    BY <2>1
  <2>3. \A k : Sig!Nth(P, k) = Nth(P, k)
    BY <2>2, Zenon DEF Nth, Sig!Nth
  <2>4. Sig!Cardinality(P) = Cardinality(P)
    BY SameCardinality
  <2> QED
    BY <2>3, <2>4 DEF At, Sig!At
<1>2. Len(s) \in Nat /\ P \in SUBSET (1..Len(s)) /\ DOMAIN s = 1..Len(s)
  OBVIOUS
<1>3. /\ DOMAIN At(s, P) = 1..Cardinality(P)
      /\ \A k \in 1..Cardinality(P) : Nth(P, k) \in P /\ At(s, P)[k] = s[Nth(P, k)]
      /\ \A i \in P : Place(P, i) \in 1..Cardinality(P) /\ At(s, P)[Place(P, i)] = s[i]
      /\ \A j, k \in 1..Cardinality(P) : j < k <=> Nth(P, j) < Nth(P, k)
  BY <1>2, AtFacts
<1>4. ASSUME Ascending(s) PROVE Ascending(At(s, P))
  BY <1>3, <1>4 DEF Ascending
<1> QED
  BY <1>1, <1>3, <1>4, AtSeq

(* Steps that touch none of what is counted.                               *)
LEMMA SignalFrame ==
  ASSUME SignalInv, Sig!TypeOK',
         UNCHANGED <<epoch, sequence, queue, session, known, cursor, answer, handled, twice>>
  PROVE  SignalInv'
BY DEF SignalInv, SQueueInv, SHeardInv, SAnswerInv, Ascending, Base, Stands, Sig!NonePassedOver

LEMMA SignalRestart ==
  ASSUME SignalInv, Sig!Restart, trouble' \in Nat
  PROVE  SignalInv'
<1> USE DEF Sig!Restart, SignalInv, Sig!engine, Sig!history
<1>1. epoch \in Nat /\ epoch' = epoch + 1 /\ sequence' = 0
  BY DEF Sig!TypeOK
<1>2. Sig!TypeOK'
  BY DEF Sig!TypeOK
<1>3. SQueueInv'
  BY DEF SQueueInv, Ascending
<1>4. \A d \in Sig!Device : known[d] \in Nat /\ known[d] <= epoch
  BY DEF SHeardInv, Sig!TypeOK
<1>5. SHeardInv'
  BY <1>1, <1>4 DEF SHeardInv
<1>6. SAnswerInv'
  <2> SUFFICES ASSUME NEW d \in Sig!Device, answer[d] # Sig!NoAnswer
               PROVE  SAnswerInv!(d)!2'
    BY DEF SAnswerInv
  <2> QED
    BY <1>1 DEF SAnswerInv, Base, Sig!TypeOK, Ascending
<1>7. Sig!NonePassedOver'
  BY DEF Sig!NonePassedOver
<1> QED
  BY <1>1, <1>2, <1>3, <1>5, <1>6, <1>7

LEMMA SignalExpire ==
  ASSUME SignalInv, NEW d \in Sig!Device, Sig!Expire(d), trouble' \in Nat
  PROVE  SignalInv'
<1> USE DEF Sig!Expire, SignalInv, Sig!engine, Sig!history
<1>1. queue \in [Sig!Device -> Seq(Sig!Signal)]
  BY DEF Sig!TypeOK
<1>2. \A c \in Sig!Device : queue'[c] = queue[c] \/ queue'[c] = <<>>
  BY <1>1
<1>3. queue' \in [Sig!Device -> Seq(Sig!Signal)]
  BY <1>1
<1>4. Sig!TypeOK'
  BY <1>3 DEF Sig!TypeOK
<1>5. SQueueInv'
  BY <1>2 DEF SQueueInv, Ascending
<1>6. SHeardInv'
  BY DEF SHeardInv
<1>7. SAnswerInv'
  BY <1>2 DEF SAnswerInv, Base, Stands, Ascending
<1>8. Sig!NonePassedOver'
  BY <1>2 DEF Sig!NonePassedOver
<1> QED
  BY <1>4, <1>5, <1>6, <1>7, <1>8

(* An answer that goes unhandled changes nothing.                          *)
LEMMA SignalDrop ==
  ASSUME SignalInv, Sig!TypeOK',
         NEW d \in Sig!Device, answer' = [answer EXCEPT ![d] = Sig!NoAnswer],
         \A c \in Sig!Device : session'[c] = session[c] \/ (c = d /\ session'[c] = 0),
         UNCHANGED <<epoch, sequence, queue, known, cursor, handled, twice>>
  PROVE  SignalInv'
<1>1. \A c \in Sig!Device : \/ answer'[c] = answer[c] /\ session'[c] = session[c]
                            \/ answer'[c] = Sig!NoAnswer /\ session'[c] \in {session[c], 0}
  BY DEF SignalInv, Sig!TypeOK
<1>2. SQueueInv' /\ SHeardInv'
  BY DEF SignalInv, SQueueInv, SHeardInv, Ascending
<1>3. SAnswerInv'
  BY <1>1 DEF SignalInv, SAnswerInv, Base, Stands, Ascending
<1>4. Sig!NonePassedOver'
  BY <1>1 DEF SignalInv, Sig!NonePassedOver
<1> QED
  BY <1>2, <1>3, <1>4 DEF SignalInv

LEMMA SignalOpen ==
  ASSUME SignalInv, NEW d \in Sig!Device, Sig!Open(d)
  PROVE  SignalInv'
<1> USE DEF Sig!Open, SignalInv, Sig!service
<1>1. made[d] \in Nat /\ made' \in [Sig!Device -> Nat] /\ made'[d] \in Nat
  BY DEF Sig!TypeOK
<1>2. Sig!TypeOK'
  BY <1>1 DEF Sig!TypeOK
<1>3. SQueueInv'
  BY DEF SQueueInv, Ascending
<1>4. /\ known'[d] = 0 /\ cursor'[d] = 0 /\ handled'[d] = {} /\ answer[d] = Sig!NoAnswer
      /\ \A c \in Sig!Device \ {d} : /\ known'[c] = known[c] /\ cursor'[c] = cursor[c]
                                     /\ handled'[c] = handled[c] /\ session'[c] = session[c]
  BY DEF Sig!TypeOK, SAnswerInv
<1>5. epoch \in Nat /\ epoch # 0 /\ sequence \in Nat
  BY DEF Sig!TypeOK
<1>6. SHeardInv'
  BY <1>4, <1>5 DEF SHeardInv
<1>7. SAnswerInv'
  BY <1>4 DEF SAnswerInv, Base, Stands, Ascending
<1>8. Sig!NonePassedOver'
  BY <1>4, <1>5 DEF Sig!NonePassedOver
<1> QED
  BY <1>2, <1>3, <1>6, <1>7, <1>8

LEMMA SignalPoll ==
  ASSUME SignalInv, NEW d \in Sig!Device, Sig!Poll(d)
  PROVE  SignalInv'
<1> USE DEF Sig!Poll, SignalInv
<1> DEFINE P == {i \in DOMAIN queue[d] : /\ queue[d][i].targetSession = session[d]
                                         /\ queue[d][i].seq > Sig!CursorIn(d)}
           t == At(queue[d], P)
<1>1. queue[d] \in Seq(Sig!Signal) /\ P \in SUBSET (DOMAIN queue[d])
  BY DEF Sig!TypeOK
<1>2. Sig!SignalsFor(d) = t
  BY <1>1, PartOf DEF Sig!SignalsFor
<1>3. /\ t \in Seq(Sig!Signal) /\ Ascending(t)
      /\ \A k \in DOMAIN t : \E i \in P : t[k] = queue[d][i]
      /\ \A i \in P : \E k \in DOMAIN t : t[k] = queue[d][i]
  BY <1>1, PartOf DEF SQueueInv
<1> HIDE DEF t
<1>4. /\ answer'[d] = [online |-> presence[Sig!Other(d)], signals |-> t, epoch |-> epoch]
      /\ \A c \in Sig!Device \ {d} : answer'[c] = answer[c]
  BY <1>2 DEF Sig!TypeOK
<1>5. answer'[d].signals = t /\ answer'[d].epoch = epoch /\ session[d] # 0
  BY <1>4 DEF Sig!Resting
<1>6. /\ epoch \in Nat /\ cursor[d] \in Nat /\ sequence \in Nat /\ presence[Sig!Other(d)] \in Nat
      /\ session[d] \in Nat /\ known[d] \in Nat /\ known[d] <= epoch
  BY DEF Sig!TypeOK, Sig!Device, Sig!Other, SHeardInv
<1>7. Sig!TypeOK'
  <2>1. answer' \in [Sig!Device -> [online : Nat, signals : Seq(Sig!Signal), epoch : Nat]]
    BY <1>2, <1>3, <1>6 DEF Sig!TypeOK
  <2>2. presence' \in [Sig!Device -> Nat]
    BY <1>6 DEF Sig!TypeOK
  <2> QED
    BY <2>1, <2>2 DEF Sig!TypeOK, Sig!history
<1>8. SQueueInv' /\ SHeardInv' /\ Sig!NonePassedOver' /\ ~twice'
  BY DEF SQueueInv, SHeardInv, Sig!NonePassedOver, Ascending, Sig!history
<1>9. Base(d)' = Sig!CursorIn(d)
  BY <1>5 DEF Base, Sig!CursorIn
<1>10. \A k \in DOMAIN t : t[k].seq > Base(d)'
  BY <1>3, <1>9
<1>11. Stands(d)'
  <2>1. \A k \in DOMAIN t : t[k].seq <= sequence
    BY <1>3 DEF SQueueInv
  <2>2. ASSUME NEW k \in DOMAIN queue[d], queue[d][k].targetSession = session[d]
        PROVE  queue[d][k].seq <= Base(d)' \/ \E i \in DOMAIN t : t[i].seq = queue[d][k].seq
    <3>1. queue[d][k].seq \in Nat /\ Base(d)' \in Nat
      <4>1. queue[d][k] \in Sig!Signal
        BY <1>1
      <4>2. Sig!CursorIn(d) \in Nat
        BY <1>6 DEF Sig!CursorIn
      <4> QED
        BY <1>9, <4>1, <4>2 DEF Sig!Signal
    <3>2. CASE k \in P
      BY <1>3, <3>2
    <3>3. CASE k \notin P
      BY <1>9, <2>2, <3>1, <3>3
    <3> QED
      BY <3>2, <3>3
  <2>3. queue' = queue /\ session' = session /\ sequence' = sequence
    OBVIOUS
  <2> QED
    BY <1>5, <2>1, <2>2, <2>3 DEF Stands
<1>12. SAnswerInv'
  <2> SUFFICES ASSUME NEW c \in Sig!Device, answer'[c] # Sig!NoAnswer
               PROVE  SAnswerInv!(c)!2'
    BY DEF SAnswerInv
  <2>1. CASE c = d
    BY <1>3, <1>5, <1>6, <1>10, <1>11, <2>1
  <2>2. CASE c # d
    BY <1>4, <2>2 DEF SAnswerInv, Base, Stands, Ascending
  <2> QED
    BY <2>1, <2>2
<1> QED
  BY <1>7, <1>8, <1>12

(* What is sent is numbered beyond all that came before.                   *)
Follows(t, s, x, n) ==
  /\ t \in Seq(Sig!Signal)
  /\ Ascending(t)
  /\ \A i \in DOMAIN t : t[i].seq >= 1 /\ t[i].seq <= n
  /\ \A i \in DOMAIN t : (i \in DOMAIN s /\ t[i] = s[i]) \/ t[i] = x

LEMMA Sent ==
  ASSUME NEW s \in Seq(Sig!Signal), NEW x \in Sig!Signal, NEW n \in Nat, x.seq = n + 1,
         Ascending(s), \A i \in DOMAIN s : s[i].seq >= 1 /\ s[i].seq <= n
  PROVE  Follows(s, s, x, n + 1) /\ Follows(Append(s, x), s, x, n + 1)
<1> DEFINE t == Append(s, x)
           m == Len(s) + 1
<1>1. /\ t \in Seq(Sig!Signal) /\ Len(s) \in Nat
      /\ DOMAIN s = 1..Len(s) /\ DOMAIN t = 1..m
      /\ \A i \in 1..Len(s) : t[i] = s[i] /\ s[i] \in Sig!Signal
      /\ t[m] = x
  OBVIOUS
<1> HIDE DEF t
<1>2. \A i \in DOMAIN t : i \in 1..Len(s) \/ i = m
  BY <1>1
<1>3. \A i \in 1..Len(s) : t[i].seq \in Nat /\ t[i].seq >= 1 /\ t[i].seq <= n
  BY <1>1 DEF Sig!Signal
<1>4. t[m].seq = n + 1
  BY <1>1
<1>5. \A i \in DOMAIN t : t[i].seq >= 1 /\ t[i].seq <= n + 1
  <2> TAKE i \in DOMAIN t
  <2>1. CASE i \in 1..Len(s)
    BY <1>3, <2>1
  <2>2. CASE i = m
    BY <1>4, <2>2
  <2> QED
    BY <1>2, <2>1, <2>2
<1>6. ASSUME NEW i \in DOMAIN t, NEW j \in DOMAIN t, i < j PROVE t[i].seq < t[j].seq
  <2>1. i \in 1..Len(s)
    BY <1>1, <1>6
  <2>2. CASE j \in 1..Len(s)
    BY <1>1, <1>6, <2>1, <2>2 DEF Ascending
  <2>3. CASE j = m
    BY <1>3, <1>4, <2>1, <2>3
  <2> QED
    BY <1>2, <2>2, <2>3
<1>7. Ascending(t)
  BY <1>6 DEF Ascending
<1>8. \A i \in DOMAIN t : (i \in DOMAIN s /\ t[i] = s[i]) \/ t[i] = x
  BY <1>1, <1>2
<1>9. Follows(t, s, x, n + 1)
  BY <1>1, <1>5, <1>7, <1>8 DEF Follows
<1>10. \A i \in DOMAIN s : s[i].seq >= 1 /\ s[i].seq <= n + 1
  BY <1>1, <1>3
<1>11. Follows(s, s, x, n + 1)
  BY <1>10 DEF Follows
<1> QED
  BY <1>9, <1>11 DEF t

LEMMA SignalSend ==
  ASSUME SignalInv, NEW d \in Sig!Device, Sig!Send(d)
  PROVE  SignalInv'
<1>1. /\ work[d] \in [kind : {"offer", "answer"}, conn : Nat, to : Nat]
      /\ session[d] \in Nat /\ sequence \in Nat /\ epoch \in Nat
      /\ Sig!Other(d) \in Sig!Device
  BY DEF SignalInv, Sig!TypeOK, Sig!Device, Sig!Other, Sig!Send
<1>2. work' \in [Sig!Device -> {Sig!NoWork} \cup [kind : {"offer", "answer"}, conn : Nat, to : Nat]]
  BY DEF SignalInv, Sig!TypeOK, Sig!Send
<1>3. UNCHANGED <<epoch, presence, session, known, cursor, answer, peer, made, handled, twice, trouble>>
  BY DEF Sig!Send, Sig!history
<1>4. CASE ~Sig!Accepts(d)
  <2>1. sequence' = sequence /\ queue' = queue
    BY <1>4 DEF Sig!Send
  <2>2. Sig!TypeOK'
    BY <1>2, <1>3, <2>1 DEF SignalInv, Sig!TypeOK
  <2> QED
    BY <1>3, <2>1, <2>2, SignalFrame
<1>5. CASE Sig!Accepts(d)
  <2> DEFINE o == Sig!Other(d)
             x == [seq |-> sequence', kind |-> work[d].kind, session |-> session[d],
                   targetSession |-> work[d].to, conn |-> work[d].conn]
  <2>1. sequence' = sequence + 1 /\ queue' = [queue EXCEPT ![o] = Append(@, x)]
    BY <1>5 DEF Sig!Queued, Sig!Send
  <2>2. x \in Sig!Signal /\ x.seq = sequence + 1
    BY <1>1, <2>1 DEF Sig!Signal
  <2>3. o \in Sig!Device
    BY <1>1
  <2> HIDE DEF x, o
  <2>4. \A c \in Sig!Device : queue'[c] = queue[c] \/ queue'[c] = Append(queue[c], x)
    BY <2>1, <2>3 DEF SignalInv, Sig!TypeOK
  <2>5. \A c \in Sig!Device : queue[c] \in Seq(Sig!Signal)
    BY DEF SignalInv, Sig!TypeOK
  <2>6. ASSUME NEW c \in Sig!Device
        PROVE  Follows(queue'[c], queue[c], x, sequence')
    <3>1. /\ queue[c] \in Seq(Sig!Signal) /\ Ascending(queue[c])
          /\ \A i \in DOMAIN queue[c] : queue[c][i].seq >= 1 /\ queue[c][i].seq <= sequence
      BY <2>5 DEF SignalInv, SQueueInv
    <3>2. Follows(queue[c], queue[c], x, sequence + 1) /\ Follows(Append(queue[c], x), queue[c], x, sequence + 1)
      BY <1>1, <2>2, <3>1, Sent
    <3> QED
      BY <2>1, <2>4, <3>2
  <2>7. queue' \in [Sig!Device -> Seq(Sig!Signal)]
    <3>1. queue' \in [Sig!Device -> {queue'[c] : c \in Sig!Device}]
      BY <2>1 DEF SignalInv, Sig!TypeOK
    <3> QED
      BY <2>6, <3>1 DEF Follows
  <2>8. Sig!TypeOK'
    <3>1. sequence' \in Nat /\ epoch' \in Nat /\ trouble' \in Nat
      BY <1>1, <1>3, <2>1 DEF SignalInv, Sig!TypeOK
    <3>2. /\ presence' = presence /\ session' = session /\ known' = known /\ cursor' = cursor
          /\ answer' = answer /\ peer' = peer /\ made' = made /\ handled' = handled /\ twice' = twice
      BY <1>3
    <3> QED
      BY <1>2, <2>7, <3>1, <3>2 DEF SignalInv, Sig!TypeOK
  <2>9. SQueueInv'
    BY <2>6 DEF SQueueInv, Follows
  <2>10. SHeardInv'
    <3>1. \A c \in Sig!Device : cursor[c] \in Nat
      BY DEF SignalInv, Sig!TypeOK
    <3> QED
      BY <1>1, <1>3, <2>1, <3>1 DEF SignalInv, SHeardInv
  <2>11. ASSUME NEW c \in Sig!Device, answer[c] # Sig!NoAnswer, answer[c].epoch = epoch
         PROVE  Stands(c)'
    <3>1. Stands(c) /\ Base(c)' = Base(c)
      BY <1>3, <2>11 DEF SignalInv, SAnswerInv, Base
    <3>2. answer[c].signals \in Seq(Sig!Signal)
      BY DEF SignalInv, Sig!TypeOK
    <3>3. \A i \in DOMAIN answer[c].signals : answer[c].signals[i] \in Sig!Signal
      BY <3>2
    <3>4. \A i \in DOMAIN answer[c].signals :
             answer[c].signals[i].seq \in Nat /\ answer[c].signals[i].seq <= sequence
      BY <3>1, <3>3 DEF Stands, Sig!Signal
    <3>5. \A i \in DOMAIN answer[c].signals :
             answer[c].signals[i].seq <= sequence' /\ answer[c].signals[i].seq < x.seq
      BY <1>1, <2>1, <2>2, <3>4
    <3>6. ASSUME NEW k \in DOMAIN queue'[c], queue'[c][k].targetSession = session[c]
          PROVE  \/ queue'[c][k].seq <= Base(c)
                 \/ \E i \in DOMAIN answer[c].signals : answer[c].signals[i].seq = queue'[c][k].seq
                 \/ \A i \in DOMAIN answer[c].signals : answer[c].signals[i].seq < queue'[c][k].seq
      <4>1. CASE queue'[c][k] = x
        BY <3>5, <4>1
      <4>2. CASE k \in DOMAIN queue[c] /\ queue'[c][k] = queue[c][k]
        BY <3>1, <3>6, <4>2 DEF Stands
      <4> QED
        BY <2>6, <4>1, <4>2 DEF Follows
    <3> QED
      BY <1>3, <3>1, <3>5, <3>6 DEF Stands
  <2>12. SAnswerInv'
    BY <1>3, <2>11 DEF SignalInv, SAnswerInv, Base, Ascending
  <2>13. ASSUME NEW c \in Sig!Device, session[c] # 0, known[c] = epoch,
                NEW k \in DOMAIN queue'[c], queue'[c][k].targetSession = session[c]
         PROVE  queue'[c][k].seq <= cursor[c] <=> <<epoch, queue'[c][k].seq>> \in handled[c]
    <3>1. CASE queue'[c][k] = x
      <4>1. queue'[c][k].seq = sequence + 1 /\ cursor[c] <= sequence /\ cursor[c] \in Nat
        BY <2>2, <2>13, <3>1 DEF SignalInv, SHeardInv, Sig!TypeOK
      <4>2. <<epoch, sequence + 1>> \in handled[c] => sequence + 1 <= cursor[c]
        BY <2>13 DEF SignalInv, SHeardInv
      <4>3. ~(sequence + 1 <= cursor[c])
        BY <1>1, <4>1
      <4> QED
        BY <4>1, <4>2, <4>3
    <3>2. CASE k \in DOMAIN queue[c] /\ queue'[c][k] = queue[c][k]
      BY <2>13, <3>2 DEF SignalInv, Sig!NonePassedOver
    <3> QED
      BY <2>6, <3>1, <3>2 DEF Follows
  <2>14. Sig!NonePassedOver'
    BY <1>3, <2>13 DEF Sig!NonePassedOver
  <2> QED
    BY <1>3, <2>8, <2>9, <2>10, <2>12, <2>14 DEF SignalInv
<1> QED
  BY <1>4, <1>5

(* What a session picks from its answer are signals.                       *)
LEMMA Picked ==
  ASSUME SignalInv, NEW d \in Sig!Device, NEW kind
  PROVE  Sig!Kind(Sig!From(d), kind) \in Seq(Sig!Signal)
<1>1. answer[d].signals \in Seq(Sig!Signal)
  BY DEF SignalInv, Sig!TypeOK
<1>2. Sig!From(d) \in Seq(Sig!Signal)
  BY <1>1, PartOf DEF Sig!From
<1> DEFINE P == {i \in DOMAIN Sig!From(d) : Sig!From(d)[i].kind = kind}
<1>3. P \in SUBSET (DOMAIN Sig!From(d))
  OBVIOUS
<1>4. Sig!At(Sig!From(d), P) \in Seq(Sig!Signal)
  BY <1>2, <1>3, PartOf
<1> QED
  BY <1>4 DEF Sig!Kind

PeerType == [conn : Nat, to : Nat, state : {"none", "have-local-offer", "stable"},
             remote : Nat, link : {"none", "connected", "failed"}, old : BOOLEAN]
WorkType == {Sig!NoWork} \cup [kind : {"offer", "answer"}, conn : Nat, to : Nat]

LEMMA SignalHandleTypes ==
  ASSUME SignalInv, NEW d \in Sig!Device,
         Sig!Answering(d) \/ Sig!Completing(d) \/ Sig!Offering(d)
  PROVE  /\ peer' \in [Sig!Device -> PeerType]
         /\ work' \in [Sig!Device -> WorkType]
         /\ made' \in [Sig!Device -> Nat]
<1>1. /\ peer \in [Sig!Device -> PeerType]
      /\ work \in [Sig!Device -> WorkType]
      /\ made \in [Sig!Device -> Nat]
      /\ answer[d].online \in Nat
  BY DEF SignalInv, Sig!TypeOK, PeerType, WorkType
<1>2. Sig!Fresh(d) \in Nat
  BY <1>1 DEF Sig!Fresh
<1>3. ASSUME NEW state \in {"have-local-offer", "stable"}, NEW remote \in Nat
      PROVE  Sig!NewPeer(d, state, remote) \in PeerType
  BY <1>1, <1>2 DEF Sig!NewPeer, PeerType
<1>4. Sig!NoPeer \in PeerType
  BY DEF Sig!NoPeer, PeerType
<1>5. Sig!Kept(d) \in PeerType
  BY <1>1, <1>4 DEF Sig!Kept
<1>6. CASE Sig!Answering(d)
  <2> DEFINE offers == Sig!Kind(Sig!From(d), "offer")
  <2>1. offers \in Seq(Sig!Signal) /\ offers # <<>>
    BY <1>6, Picked DEF Sig!Answering
  <2> HIDE DEF offers
  <2>2. offers[Len(offers)] \in Sig!Signal
    BY <2>1
  <2>3. offers[Len(offers)].conn \in Nat
    BY <2>2 DEF Sig!Signal
  <2>4. Sig!NewPeer(d, "stable", offers[Len(offers)].conn) \in PeerType
    BY <1>3, <2>3
  <2>5. [kind |-> "answer", conn |-> Sig!Fresh(d), to |-> answer[d].online] \in WorkType
    BY <1>1, <1>2 DEF WorkType
  <2>6. /\ peer' = [peer EXCEPT ![d] = Sig!NewPeer(d, "stable", offers[Len(offers)].conn)]
        /\ work' = [work EXCEPT ![d] = [kind |-> "answer", conn |-> Sig!Fresh(d), to |-> answer[d].online]]
        /\ made' = [made EXCEPT ![d] = Sig!Fresh(d)]
    BY <1>6 DEF Sig!Answering, offers
  <2> QED
    BY <1>1, <1>2, <2>4, <2>5, <2>6
<1>7. CASE Sig!Completing(d)
  <2> DEFINE answers == Sig!Kind(Sig!From(d), "answer")
             p == IF Sig!Kept(d).state = "have-local-offer" /\ answers # <<>>
                    THEN [Sig!Kept(d) EXCEPT !.state = "stable", !.remote = answers[1].conn]
                    ELSE Sig!Kept(d)
  <2>1. peer' = [peer EXCEPT ![d] = p] /\ work' = work /\ made' = made
    BY <1>7 DEF Sig!Completing
  <2>2. answers \in Seq(Sig!Signal)
    BY Picked
  <2> HIDE DEF answers
  <2>3. ASSUME answers # <<>> PROVE answers[1].conn \in Nat
    <3>1. answers[1] \in Sig!Signal
      BY <2>2, <2>3
    <3> QED
      BY <3>1 DEF Sig!Signal
  <2>4. p \in PeerType
    BY <1>5, <2>3 DEF PeerType
  <2> HIDE DEF p
  <2> QED
    BY <1>1, <2>1, <2>4
<1>8. CASE Sig!Offering(d)
  <2>1. Sig!NewPeer(d, "have-local-offer", 0) \in PeerType
    BY <1>3
  <2>2. [kind |-> "offer", conn |-> Sig!Fresh(d), to |-> answer[d].online] \in WorkType
    BY <1>1, <1>2 DEF WorkType
  <2>3. CASE answer[d].online # 0
    BY <1>1, <1>2, <1>8, <2>1, <2>2, <2>3 DEF Sig!Offering
  <2>4. CASE answer[d].online = 0
    BY <1>1, <1>4, <1>8, <2>4 DEF Sig!Offering
  <2> QED
    BY <2>3, <2>4
<1> QED
  BY <1>6, <1>7, <1>8

(* The newest of signals that ascend from beyond b is the last, or b.      *)
LEMMA Highest ==
  ASSUME NEW s \in Seq(Sig!Signal), Ascending(s), NEW b \in Nat,
         \A i \in DOMAIN s : s[i].seq > b
  PROVE  LET at == {b} \cup {s[i].seq : i \in DOMAIN s}
         IN  \E n \in at : \A m \in at : m <= n
<1> DEFINE at == {b} \cup {s[i].seq : i \in DOMAIN s}
<1>1. Len(s) \in Nat /\ DOMAIN s = 1..Len(s) /\ \A i \in DOMAIN s : s[i] \in Sig!Signal
  OBVIOUS
<1>2. \A i \in DOMAIN s : s[i].seq \in Nat
  BY <1>1 DEF Sig!Signal
<1>3. CASE s = <<>>
  <2>1. b \in at /\ \A m \in at : m <= b
    BY <1>3
  <2> QED
    BY <2>1
<1>4. CASE s # <<>>
  <2>1. Len(s) \in DOMAIN s
    BY <1>4
  <2>2. ASSUME NEW i \in DOMAIN s PROVE s[i].seq <= s[Len(s)].seq
    <3>1. i = Len(s) \/ i < Len(s)
      BY <1>1
    <3> QED
      BY <1>2, <2>1, <3>1 DEF Ascending
  <2>3. b <= s[Len(s)].seq
    BY <1>2, <2>1
  <2>4. s[Len(s)].seq \in at /\ \A m \in at : m <= s[Len(s)].seq
    BY <2>1, <2>2, <2>3
  <2> QED
    BY <2>4
<1> QED
  BY <1>3, <1>4

LEMMA SignalHandle ==
  ASSUME SignalInv, NEW d \in Sig!Device, Sig!Handle(d)
  PROVE  SignalInv'
<1> DEFINE e == answer[d].epoch
           s == answer[d].signals
           b == Base(d)
           n == Sig!NextCursor(d)
<1>1. /\ answer[d] # Sig!NoAnswer
      /\ known' = [known EXCEPT ![d] = e] /\ cursor' = [cursor EXCEPT ![d] = n]
      /\ handled' = [handled EXCEPT ![d] = @ \cup Sig!Numbers(d)]
      /\ twice' = (twice \/ handled[d] \cap Sig!Numbers(d) # {})
      /\ answer' = [answer EXCEPT ![d] = Sig!NoAnswer]
      /\ UNCHANGED <<epoch, sequence, presence, queue, session, trouble>>
  BY DEF Sig!Handle, Sig!service
<1>2. /\ s \in Seq(Sig!Signal) /\ e \in Nat /\ epoch \in Nat /\ sequence \in Nat
      /\ known[d] \in Nat /\ cursor[d] \in Nat /\ session[d] \in Nat
      /\ handled[d] \in SUBSET (Nat \X Nat) /\ queue[d] \in Seq(Sig!Signal)
  BY DEF SignalInv, Sig!TypeOK
<1>3. /\ e >= 1 /\ e <= epoch /\ known[d] <= e /\ Ascending(s)
      /\ \A i \in DOMAIN s : s[i].seq > b
      /\ e = epoch => Stands(d)
  BY <1>1 DEF SignalInv, SAnswerInv
<1>4. b \in Nat
  BY <1>2 DEF Base
<1>5. \A i \in DOMAIN s : s[i].seq \in Nat
  <2>1. \A i \in DOMAIN s : s[i] \in Sig!Signal
    BY <1>2
  <2> QED
    BY <2>1 DEF Sig!Signal
<1>6. Sig!Numbers(d) = {<<e, s[i].seq>> : i \in DOMAIN s}
  BY DEF Sig!Numbers
<1>7. /\ n = b \/ \E i \in DOMAIN s : n = s[i].seq
      /\ b <= n /\ \A i \in DOMAIN s : s[i].seq <= n
  <2> DEFINE at == {b} \cup {s[i].seq : i \in DOMAIN s}
  <2>1. \E m \in at : \A k \in at : k <= m
    BY <1>2, <1>3, <1>4, Highest
  <2>2. {x[2] : x \in Sig!Numbers(d)} = {s[i].seq : i \in DOMAIN s}
    <3>1. ASSUME NEW x \in Sig!Numbers(d) PROVE x[2] \in {s[i].seq : i \in DOMAIN s}
      BY <1>6, <3>1
    <3>2. ASSUME NEW i \in DOMAIN s PROVE s[i].seq \in {x[2] : x \in Sig!Numbers(d)}
      <4>1. <<e, s[i].seq>> \in Sig!Numbers(d) /\ <<e, s[i].seq>>[2] = s[i].seq
        BY <1>6, <3>2
      <4> QED
        BY <4>1
    <3> QED
      BY <3>1, <3>2
  <2>3. n = CHOOSE m \in at : \A k \in at : k <= m
    BY <2>2 DEF Sig!NextCursor, Sig!Newest, Base
  <2>4. n \in at /\ \A k \in at : k <= n
    BY <2>1, <2>3
  <2> QED
    BY <2>4
<1>8. n \in Nat
  BY <1>4, <1>5, <1>7
<1> HIDE DEF n
<1>9. /\ known'[d] = e /\ cursor'[d] = n /\ handled'[d] = handled[d] \cup Sig!Numbers(d)
      /\ answer'[d] = Sig!NoAnswer
      /\ \A c \in Sig!Device \ {d} : /\ known'[c] = known[c] /\ cursor'[c] = cursor[c]
                                     /\ handled'[c] = handled[c] /\ answer'[c] = answer[c]
  BY <1>1 DEF SignalInv, Sig!TypeOK
<1>10. \A h \in handled[d] : h[1] <= known[d] /\ (h[1] = known[d] => h[2] <= cursor[d])
  BY DEF SignalInv, SHeardInv
\* What the session handled before in the answer's epoch is not beyond b.
<1>11. \A h \in handled[d] : h[1] \in Nat /\ h[2] \in Nat /\ h[1] <= e /\ (h[1] = e => h[2] <= b)
  <2> TAKE h \in handled[d]
  <2>1. h[1] \in Nat /\ h[2] \in Nat
    BY <1>2
  <2>2. h[1] <= e
    BY <1>2, <1>3, <1>10, <2>1
  <2>3. h[1] = e => known[d] = e
    BY <1>2, <1>3, <1>10, <2>1
  <2>4. h[1] = e => h[2] <= b
    BY <1>10, <2>3 DEF Base
  <2> QED
    BY <2>1, <2>2, <2>4
<1>12. handled[d] \cap Sig!Numbers(d) = {}
  <2> SUFFICES ASSUME NEW i \in DOMAIN s, <<e, s[i].seq>> \in handled[d] PROVE FALSE
    BY <1>6
  <2>1. s[i].seq <= b
    BY <1>11
  <2> QED
    BY <1>3, <1>4, <1>5, <2>1
<1>13. ~twice'
  BY <1>1, <1>12 DEF SignalInv
<1>14. Sig!TypeOK'
  <2>1. Sig!Numbers(d) \in SUBSET (Nat \X Nat)
    BY <1>2, <1>5, <1>6
  <2>2. handled' \in [Sig!Device -> SUBSET (Nat \X Nat)]
    BY <1>1, <1>2, <2>1 DEF SignalInv, Sig!TypeOK
  <2>3. Sig!NoAnswer \in [online : Nat, signals : Seq(Sig!Signal), epoch : Nat]
    BY DEF Sig!NoAnswer
  <2>4. answer' \in [Sig!Device -> [online : Nat, signals : Seq(Sig!Signal), epoch : Nat]]
    BY <1>1, <2>3 DEF SignalInv, Sig!TypeOK
  <2>5. known' \in [Sig!Device -> Nat] /\ cursor' \in [Sig!Device -> Nat]
    BY <1>1, <1>2, <1>8 DEF SignalInv, Sig!TypeOK
  <2>6. /\ peer' \in [Sig!Device -> PeerType]
        /\ work' \in [Sig!Device -> WorkType]
        /\ made' \in [Sig!Device -> Nat]
    BY SignalHandleTypes DEF Sig!Handle
  <2>7. twice' \in BOOLEAN
    <3>1. twice = FALSE
      BY DEF SignalInv, Sig!TypeOK
    <3>2. twice' = (FALSE \/ FALSE)
      BY <1>1, <1>12, <3>1
    <3> QED
      BY <3>2
  <2> QED
    BY <1>1, <2>2, <2>4, <2>5, <2>6, <2>7 DEF SignalInv, Sig!TypeOK, PeerType, WorkType
<1>15. SQueueInv'
  BY <1>1 DEF SignalInv, SQueueInv, Ascending
<1>16. SHeardInv'
  <2> SUFFICES ASSUME NEW c \in Sig!Device PROVE SHeardInv!(c)'
    BY DEF SHeardInv
  <2>1. CASE c # d
    BY <1>1, <1>9, <2>1 DEF SignalInv, SHeardInv
  <2>2. ASSUME e = epoch PROVE n <= sequence
    <3>1. b <= sequence
      BY <1>2, <2>2 DEF Base, SignalInv, SHeardInv
    <3>2. \A i \in DOMAIN s : s[i].seq <= sequence
      BY <1>3, <2>2 DEF Stands
    <3> QED
      BY <1>7, <3>1, <3>2
  <2>3. ASSUME NEW h \in handled'[d] PROVE h[1] <= e /\ (h[1] = e => h[2] <= n)
    <3>1. CASE h \in handled[d]
      BY <1>4, <1>7, <1>8, <1>11, <3>1
    <3>2. CASE h \in Sig!Numbers(d)
      BY <1>2, <1>6, <1>7, <3>2
    <3> QED
      BY <1>9, <2>3, <3>1, <3>2
  <2>4. CASE c = d
    BY <1>1, <1>3, <1>9, <2>2, <2>3, <2>4
  <2> QED
    BY <2>1, <2>4
<1>17. SAnswerInv'
  BY <1>1, <1>9 DEF SignalInv, SAnswerInv, Base, Stands, Ascending
<1>18. ASSUME e = epoch, NEW k \in DOMAIN queue[d], queue[d][k].targetSession = session[d]
       PROVE  queue[d][k].seq <= n <=> <<epoch, queue[d][k].seq>> \in handled'[d]
  <2> DEFINE q == queue[d][k].seq
  <2>1. q \in Nat /\ q >= 1
    <3>1. queue[d][k] \in Sig!Signal
      BY <1>2
    <3> QED
      BY <3>1 DEF Sig!Signal, SignalInv, SQueueInv
  <2>2. session[d] # 0
    BY <1>1 DEF SignalInv, SAnswerInv
  <2>3. CASE q <= b
    <3>1. known[d] = epoch /\ q <= cursor[d]
      BY <1>2, <1>18, <2>1, <2>3 DEF Base
    <3>2. <<epoch, q>> \in handled[d]
      BY <1>18, <2>2, <3>1 DEF SignalInv, Sig!NonePassedOver
    <3>3. q <= n
      BY <1>4, <1>7, <1>8, <2>1, <2>3
    <3> QED
      BY <1>9, <3>2, <3>3
  <2>4. CASE \E i \in DOMAIN s : s[i].seq = q
    BY <1>6, <1>7, <1>9, <1>18, <2>4
  <2>5. CASE q > b /\ \A i \in DOMAIN s : s[i].seq < q
    <3>1. ~(q <= n)
      BY <1>4, <1>5, <1>7, <1>8, <2>1, <2>5
    <3>2. <<epoch, q>> \notin handled[d]
      BY <1>4, <1>11, <1>18, <2>1, <2>5
    <3>3. <<epoch, q>> \notin Sig!Numbers(d)
      BY <1>5, <1>6, <2>1, <2>5
    <3> QED
      BY <1>9, <3>1, <3>2, <3>3
  <2>6. q <= b \/ (\E i \in DOMAIN s : s[i].seq = q) \/ (q > b /\ \A i \in DOMAIN s : s[i].seq < q)
    BY <1>3, <1>4, <1>18, <2>1 DEF Stands
  <2> QED
    BY <2>3, <2>4, <2>5, <2>6
<1>19. Sig!NonePassedOver'
  <2> SUFFICES ASSUME NEW c \in Sig!Device, session[c] # 0, known'[c] = epoch,
                      NEW k \in DOMAIN queue[c], queue[c][k].targetSession = session[c]
               PROVE  queue[c][k].seq <= cursor'[c] <=> <<epoch, queue[c][k].seq>> \in handled'[c]
    BY <1>1 DEF Sig!NonePassedOver
  <2>1. CASE c # d
    BY <1>9, <2>1 DEF SignalInv, Sig!NonePassedOver
  <2>2. CASE c = d
    BY <1>9, <1>18, <2>2
  <2> QED
    BY <2>1, <2>2
<1> QED
  BY <1>1, <1>13, <1>14, <1>15, <1>16, <1>17, <1>19 DEF SignalInv

LEMMA SignalStutter ==
  ASSUME SignalInv, UNCHANGED signaling
  PROVE  SignalInv'
<1>1. Sig!TypeOK'
  BY DEF SignalInv, Sig!TypeOK, signaling
<1> QED
  BY <1>1, SignalFrame DEF signaling

(* Steps that only touch presence or a connection.                         *)
LEMMA SignalAside ==
  ASSUME SignalInv, NEW d \in Sig!Device, trouble' \in Nat,
         Sig!Lapse(d) \/ Sig!GiveUp(d) \/ Sig!Fails(d) \/ Sig!Ages(d)
  PROVE  SignalInv'
<1>1. /\ presence \in [Sig!Device -> Nat] /\ peer \in [Sig!Device -> PeerType]
      /\ work \in [Sig!Device -> WorkType]
  BY DEF SignalInv, Sig!TypeOK, PeerType, WorkType
<1>2. Sig!NoPeer \in PeerType
  BY DEF Sig!NoPeer, PeerType
<1>3. UNCHANGED <<epoch, sequence, queue, session, known, cursor, answer, made, handled, twice>>
  BY DEF Sig!Lapse, Sig!GiveUp, Sig!Fails, Sig!Ages, Sig!service, Sig!engine, Sig!history
<1>4. /\ presence' \in [Sig!Device -> Nat] /\ peer' \in [Sig!Device -> PeerType]
      /\ work' \in [Sig!Device -> WorkType]
  <2>1. CASE Sig!Lapse(d)
    BY <1>1, <2>1 DEF Sig!Lapse, Sig!engine
  <2>2. CASE Sig!GiveUp(d)
    BY <1>1, <1>2, <2>2 DEF Sig!GiveUp, Sig!service, WorkType
  <2>3. CASE Sig!Fails(d)
    <3>1. [peer[d] EXCEPT !.link = "failed"] \in PeerType
      BY <1>1 DEF PeerType
    <3>2. peer' = [peer EXCEPT ![d] = [peer[d] EXCEPT !.link = "failed"]]
      BY <2>3 DEF Sig!Fails
    <3>3. presence' = presence /\ work' = work
      BY <2>3 DEF Sig!Fails, Sig!service
    <3> QED
      BY <1>1, <3>1, <3>2, <3>3
  <2>4. CASE Sig!Ages(d)
    <3>1. [peer[d] EXCEPT !.old = TRUE] \in PeerType
      BY <1>1 DEF PeerType
    <3>2. peer' = [peer EXCEPT ![d] = [peer[d] EXCEPT !.old = TRUE]]
      BY <2>4 DEF Sig!Ages
    <3>3. presence' = presence /\ work' = work
      BY <2>4 DEF Sig!Ages, Sig!service
    <3> QED
      BY <1>1, <3>1, <3>2, <3>3
  <2> QED
    BY <2>1, <2>2, <2>3, <2>4
<1>5. Sig!TypeOK'
  BY <1>3, <1>4 DEF SignalInv, Sig!TypeOK, PeerType, WorkType
<1> QED
  BY <1>3, <1>5, SignalFrame

LEMMA SignalConnect ==
  ASSUME SignalInv, Sig!Connect
  PROVE  SignalInv'
<1>1. peer \in [Sig!Device -> PeerType]
  BY DEF SignalInv, Sig!TypeOK, PeerType
<1>2. \A d \in Sig!Device : [peer[d] EXCEPT !.link = "connected"] \in PeerType
  BY <1>1 DEF PeerType
<1>3. peer' \in [Sig!Device -> PeerType]
  BY <1>2 DEF Sig!Connect
<1>4. UNCHANGED <<epoch, sequence, presence, queue, session, known, cursor, answer, work, made,
                  handled, twice, trouble>>
  BY DEF Sig!Connect, Sig!service, Sig!history
<1>5. Sig!TypeOK'
  BY <1>3, <1>4 DEF SignalInv, Sig!TypeOK, PeerType
<1> QED
  BY <1>4, <1>5, SignalFrame

(* A session that ends, or an answer that is lost.                         *)
LEMMA SignalEnds ==
  ASSUME SignalInv, NEW d \in Sig!Device, trouble' \in Nat, Sig!Close(d) \/ Sig!LoseAnswer(d)
  PROVE  SignalInv'
<1>1. Sig!NoPeer \in PeerType
  BY DEF Sig!NoPeer, PeerType
<1>2. Sig!NoAnswer \in [online : Nat, signals : Seq(Sig!Signal), epoch : Nat]
  BY DEF Sig!NoAnswer
<1>3. UNCHANGED <<epoch, sequence, presence, queue, known, cursor, made, handled, twice>>
  BY DEF Sig!Close, Sig!LoseAnswer, Sig!service, Sig!history
<1>4. answer' = [answer EXCEPT ![d] = Sig!NoAnswer]
  BY DEF Sig!Close, Sig!LoseAnswer
<1>5. answer' \in [Sig!Device -> [online : Nat, signals : Seq(Sig!Signal), epoch : Nat]]
  BY <1>2, <1>4 DEF SignalInv, Sig!TypeOK
<1>6. session' = session \/ session' = [session EXCEPT ![d] = 0]
  BY DEF Sig!Close, Sig!LoseAnswer
<1>7. /\ session \in [Sig!Device -> Nat] /\ peer \in [Sig!Device -> PeerType]
      /\ work \in [Sig!Device -> WorkType]
  BY DEF SignalInv, Sig!TypeOK, PeerType, WorkType
<1>8. session' \in [Sig!Device -> Nat]
  BY <1>6, <1>7
<1>9. peer' \in [Sig!Device -> PeerType] /\ work' \in [Sig!Device -> WorkType]
  <2>1. Sig!NoWork \in WorkType
    BY DEF WorkType
  <2>2. CASE Sig!Close(d)
    BY <1>1, <1>7, <2>1, <2>2 DEF Sig!Close
  <2>3. CASE Sig!LoseAnswer(d)
    BY <1>7, <2>3 DEF Sig!LoseAnswer
  <2> QED
    BY <2>2, <2>3
<1>10. Sig!TypeOK'
  BY <1>3, <1>5, <1>8, <1>9 DEF SignalInv, Sig!TypeOK, PeerType, WorkType
<1>11. \A c \in Sig!Device : session'[c] = session[c] \/ (c = d /\ session'[c] = 0)
  BY <1>6, <1>7
<1> QED
  BY <1>3, <1>4, <1>10, <1>11, SignalDrop

LEMMA SignalStep ==
  ASSUME SignalInv, Sig!Next
  PROVE  SignalInv'
<1>1. trouble \in Nat
  BY DEF SignalInv, Sig!TypeOK
<1>2. CASE Sig!Trouble
  <2>1. trouble' \in Nat
    BY <1>1, <1>2 DEF Sig!Trouble
  <2>2. CASE Sig!Restart
    BY <2>1, <2>2, SignalRestart
  <2>3. ASSUME NEW d \in Sig!Device, Sig!Expire(d) PROVE SignalInv'
    BY <2>1, <2>3, SignalExpire
  <2>4. ASSUME NEW d \in Sig!Device, Sig!Close(d) \/ Sig!LoseAnswer(d) PROVE SignalInv'
    BY <2>1, <2>4, SignalEnds
  <2>5. ASSUME NEW d \in Sig!Device, Sig!Lapse(d) \/ Sig!GiveUp(d) \/ Sig!Breaks(d) \/ Sig!Ages(d)
        PROVE  SignalInv'
    BY <2>1, <2>5, SignalAside DEF Sig!Breaks
  <2> QED
    BY <1>2, <2>2, <2>3, <2>4, <2>5 DEF Sig!Trouble
<1>3. CASE Sig!Connect
  BY <1>3, SignalConnect
<1>4. ASSUME NEW d \in Sig!Device, Sig!Open(d) PROVE SignalInv'
  BY <1>4, SignalOpen
<1>5. ASSUME NEW d \in Sig!Device, Sig!Step(d) PROVE SignalInv'
  <2>1. CASE Sig!Poll(d)
    BY <2>1, SignalPoll
  <2>2. CASE Sig!Handle(d)
    BY <2>2, SignalHandle
  <2>3. CASE Sig!Send(d)
    BY <2>3, SignalSend
  <2>4. CASE Sig!Gone(d)
    BY <1>1, <2>4, SignalAside DEF Sig!Gone
  <2>5. CASE Sig!LosesEnd(d)
    BY <1>1, <2>5, SignalAside DEF Sig!LosesEnd
  <2>6. CASE Sig!TimesOut(d)
    BY <1>1, <2>6, SignalAside DEF Sig!TimesOut
  <2> QED
    BY <1>5, <2>1, <2>2, <2>3, <2>4, <2>5, <2>6 DEF Sig!Step
<1> QED
  BY <1>2, <1>3, <1>4, <1>5 DEF Sig!Next

(* However answers are lost, sessions change and the service restarts, no   *)
(* session handles a signal twice, and none that waits for it is one it     *)
(* counts as handled and did not (snapshot of lobby.ts, update of peers.ts). *)
THEOREM SignalsHappenOnce == ServiceSpec => []SignalsOnce
<1>1. ServiceInit => SignalInv
  BY SignalInit DEF ServiceInit
<1>2. SignalInv /\ [ServiceNext]_all => SignalInv'
  <2> SUFFICES ASSUME SignalInv, [ServiceNext]_all PROVE SignalInv'
    OBVIOUS
  <2>1. CASE Rooms(Next)
    BY <2>1, SignalStutter DEF Rooms
  <2>2. CASE Signals(Sig!Next)
    BY <2>2, SignalStep DEF Signals
  <2>3. CASE UNCHANGED all
    BY <2>3, SignalStutter DEF all
  <2> QED
    BY <2>1, <2>2, <2>3 DEF ServiceNext
<1>3. SignalInv => SignalsOnce
  BY DEF SignalInv, SignalsOnce, Sig!SignalsOnce
<1> QED
  BY <1>1, <1>2, <1>3, PTL DEF ServiceSpec
=============================================================================
