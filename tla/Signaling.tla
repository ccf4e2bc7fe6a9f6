----------------------------- MODULE Signaling -----------------------------
(***************************************************************************)
(* How two devices of a room find each other: presence and queued signals  *)
(* in the room service's memory (server/browser/lobby.ts), the poll loop   *)
(* of a tab (src/browser/source.ts, background.ts) or of an agent's bridge *)
(* (server/browser-agent.ts), and the offers and answers that make a peer  *)
(* connection (src/browser/peers.ts).  The device with the lower id offers.*)
(*                                                                         *)
(* WebRTC is external: two connections reach each other once each holds    *)
(* the description made by the other.  Descriptions are numbers.  The      *)
(* 20 s a connection may take are many polls: they pass without trouble    *)
(* only when nothing that could still connect it is under way.             *)
(***************************************************************************)
EXTENDS Subsequences

CONSTANTS
  Low, High,   \* the two devices, by the order of their ids
  Bridge,      \* those whose engine is an agent's bridge
  MaxTrouble   \* bound on restarts, closed tabs, lost answers and slowness

Device == {Low, High}
Other(d) == IF d = Low THEN High ELSE Low

VARIABLES
  epoch,     \* service: this.epoch, new at each start
  sequence,  \* service: the last signal's number
  presence,  \* service: the session each device polls with, 0 if none
  queue,     \* service: signals waiting for each device
  session,   \* device: the session of its engine, 0 if none runs
  known,     \* device: the epoch it heard last, 0 at first
  cursor,    \* device: the last signal it handled
  answer,    \* device: the status it was answered and has not handled
  work,      \* device: the description it prepares to send
  peer,      \* device: its connection to the other
  made,      \* device: sessions and connections it made so far
  handled,   \* history: signals each session handled
  twice,     \* history: a session handled a signal it had handled before
  trouble    \* how often something went wrong

service == <<epoch, sequence, presence, queue>>
engine == <<session, known, cursor, answer, work, peer, made>>
history == <<handled, twice>>
vars == <<service, engine, history, trouble>>

NoAnswer == [online |-> 0, signals |-> <<>>, epoch |-> 0]
NoWork == [kind |-> "none", conn |-> 0, to |-> 0]
NoPeer == [conn |-> 0, to |-> 0, state |-> "none", remote |-> 0, link |-> "none", old |-> FALSE]

Signal == [seq : Nat, kind : {"offer", "answer"}, session : Nat, targetSession : Nat, conn : Nat]

TypeOK ==
  /\ epoch \in Nat /\ sequence \in Nat /\ trouble \in Nat
  /\ presence \in [Device -> Nat] /\ session \in [Device -> Nat]
  /\ queue \in [Device -> Seq(Signal)]
  /\ known \in [Device -> Nat] /\ cursor \in [Device -> Nat] /\ made \in [Device -> Nat]
  /\ answer \in [Device -> [online : Nat, signals : Seq(Signal), epoch : Nat]]
  /\ work \in [Device -> {NoWork} \cup [kind : {"offer", "answer"}, conn : Nat, to : Nat]]
  /\ peer \in [Device -> [conn : Nat, to : Nat, state : {"none", "have-local-offer", "stable"},
                          remote : Nat, link : {"none", "connected", "failed"}, old : BOOLEAN]]
  /\ handled \in [Device -> SUBSET (Nat \X Nat)]
  /\ twice \in BOOLEAN

Init ==
  /\ epoch = 1 /\ sequence = 0 /\ trouble = 0
  /\ presence = [d \in Device |-> 0]
  /\ queue = [d \in Device |-> <<>>]
  /\ session = [d \in Device |-> 0]
  /\ known = [d \in Device |-> 0]
  /\ cursor = [d \in Device |-> 0]
  /\ answer = [d \in Device |-> NoAnswer]
  /\ work = [d \in Device |-> NoWork]
  /\ peer = [d \in Device |-> NoPeer]
  /\ made = [d \in Device |-> 0]
  /\ handled = [d \in Device |-> {}]
  /\ twice = FALSE

-----------------------------------------------------------------------------
(* The room service.                                                       *)

Restart ==
  /\ epoch' = epoch + 1
  /\ sequence' = 0
  /\ presence' = [d \in Device |-> 0]
  /\ queue' = [d \in Device |-> <<>>]
  /\ UNCHANGED <<engine, history>>

(* A device that has not polled for PRESENCE_MS no longer counts as present:     *)
(* one whose session ended, or one that is slow.                                 *)
Lapse(d) ==
  /\ presence[d] # 0
  /\ presence' = [presence EXCEPT ![d] = 0]
  /\ UNCHANGED <<epoch, sequence, queue, engine, history>>
Gone(d) == presence[d] # session[d] /\ Lapse(d) /\ UNCHANGED trouble

(* Signals nobody fetched within 30 s are dropped.                         *)
Expire(d) ==
  /\ queue[d] # <<>>
  /\ queue' = [queue EXCEPT ![d] = <<>>]
  /\ UNCHANGED <<epoch, sequence, presence, engine, history>>

(* What a status tells the device that polls: signals for its session past the *)
(* cursor, which counts only in the epoch it was heard in.                     *)
CursorAsIs(d) == cursor[d] \* mutant
CursorIn(d) == IF known[d] = epoch THEN cursor[d] ELSE 0

SignalsFor(d) ==
  At(queue[d], {i \in DOMAIN queue[d] : /\ queue[d][i].targetSession = session[d]
                                        /\ queue[d][i].seq > CursorIn(d)})

-----------------------------------------------------------------------------
(* A device's engine: one session, polling until it ends.                  *)

Resting(d) == session[d] # 0 /\ answer[d] = NoAnswer /\ work[d] = NoWork

(* A tab opens the room, or a runner starts, with a session of its own.      *)
Open(d) ==
  /\ session[d] = 0
  /\ made' = [made EXCEPT ![d] = @ + 1]
  /\ session' = [session EXCEPT ![d] = made'[d]]
  /\ known' = [known EXCEPT ![d] = 0]
  /\ cursor' = [cursor EXCEPT ![d] = 0]
  /\ handled' = [handled EXCEPT ![d] = {}]
  /\ UNCHANGED <<service, answer, work, peer, twice, trouble>>

(* It ends without a word, whatever it was doing.                            *)
Close(d) ==
  /\ session[d] # 0
  /\ session' = [session EXCEPT ![d] = 0]
  /\ answer' = [answer EXCEPT ![d] = NoAnswer]
  /\ work' = [work EXCEPT ![d] = NoWork]
  /\ peer' = [peer EXCEPT ![d] = NoPeer]
  /\ UNCHANGED <<service, known, cursor, made, history>>

(* `status`: the service marks the device present and answers.               *)
Poll(d) ==
  /\ Resting(d)
  /\ presence' = [presence EXCEPT ![d] = session[d]]
  /\ answer' = [answer EXCEPT ![d] =
       [online |-> presence[Other(d)], signals |-> SignalsFor(d), epoch |-> epoch]]
  /\ UNCHANGED <<epoch, sequence, queue, session, known, cursor, work, peer, made, history, trouble>>

(* The answer is lost: the device polls again with the cursor it had.        *)
LoseAnswer(d) ==
  /\ answer[d] # NoAnswer
  /\ answer' = [answer EXCEPT ![d] = NoAnswer]
  /\ UNCHANGED <<service, session, known, cursor, work, peer, made, history>>

-----------------------------------------------------------------------------
(* engine.update(): what an answered status does.                          *)

(* A new epoch drops every connection; one whose device is gone or came back  *)
(* under another session, that failed, or that took too long is dropped.      *)
KeepsSlow(d) == \* mutant: however long the connection takes
  /\ known[d] \in {0, answer[d].epoch}
  /\ answer[d].online # 0 /\ answer[d].online = peer[d].to
  /\ peer[d].link # "failed"
Keeps(d) ==
  /\ known[d] \in {0, answer[d].epoch}
  /\ answer[d].online # 0 /\ answer[d].online = peer[d].to
  /\ peer[d].link # "failed"
  /\ ~(peer[d].link = "none" /\ peer[d].old)

(* Signals from the session the other device is online with now.             *)
From(d) ==
  LET s == answer[d].signals IN At(s, {i \in DOMAIN s : s[i].session = answer[d].online})
Kind(s, kind) == At(s, {i \in DOMAIN s : s[i].kind = kind})

Fresh(d) == made[d] + 1
NewPeer(d, state, remote) ==
  [conn |-> Fresh(d), to |-> answer[d].online, state |-> state, remote |-> remote,
   link |-> "none", old |-> FALSE]

(* The device with the higher id answers the newest offer on a connection of   *)
(* its own, whatever it had before.                                           *)
Answering(d) ==
  LET offers == Kind(From(d), "offer") IN
  /\ d = High /\ offers # <<>>
  /\ peer' = [peer EXCEPT ![d] = NewPeer(d, "stable", offers[Len(offers)].conn)]
  /\ work' = [work EXCEPT ![d] = [kind |-> "answer", conn |-> Fresh(d), to |-> answer[d].online]]
  /\ made' = [made EXCEPT ![d] = Fresh(d)]

(* The other takes the first answer if it waits for one, ...                   *)
Kept(d) == IF Keeps(d) THEN peer[d] ELSE NoPeer
Completing(d) ==
  LET answers == Kind(From(d), "answer") IN
  /\ d = Low => Kept(d) # NoPeer
  /\ d = High => Kind(From(d), "offer") = <<>>
  /\ peer' = [peer EXCEPT ![d] =
       IF Kept(d).state = "have-local-offer" /\ answers # <<>>
       THEN [Kept(d) EXCEPT !.state = "stable", !.remote = answers[1].conn] ELSE Kept(d)]
  /\ UNCHANGED <<work, made>>

(* ... and offers a connection to a device that is online and has none.        *)
Offering(d) ==
  /\ d = Low /\ Kept(d) = NoPeer
  /\ IF answer[d].online # 0
       THEN /\ peer' = [peer EXCEPT ![d] = NewPeer(d, "have-local-offer", 0)]
            /\ work' = [work EXCEPT ![d] = [kind |-> "offer", conn |-> Fresh(d), to |-> answer[d].online]]
            /\ made' = [made EXCEPT ![d] = Fresh(d)]
       ELSE /\ peer' = [peer EXCEPT ![d] = NoPeer]
            /\ UNCHANGED <<work, made>>

Numbers(d) == {<<answer[d].epoch, answer[d].signals[i].seq>> : i \in DOMAIN answer[d].signals}
Newest(d, start) ==
  LET at == {start} \cup {n[2] : n \in Numbers(d)} IN CHOOSE n \in at : \A m \in at : m <= n

NextCursorStays(d) == Newest(d, cursor[d]) \* mutant: the number survives a new epoch
NextCursor(d) == Newest(d, IF known[d] = answer[d].epoch THEN cursor[d] ELSE 0)

Handle(d) ==
  /\ answer[d] # NoAnswer
  /\ Answering(d) \/ Completing(d) \/ Offering(d)
  /\ known' = [known EXCEPT ![d] = answer[d].epoch]
  /\ cursor' = [cursor EXCEPT ![d] = NextCursor(d)]
  /\ handled' = [handled EXCEPT ![d] = @ \cup Numbers(d)]
  /\ twice' = (twice \/ handled[d] \cap Numbers(d) # {})
  /\ answer' = [answer EXCEPT ![d] = NoAnswer]
  /\ UNCHANGED <<service, session, trouble>>

(* `signal`: the service queues the description while both sessions are the      *)
(* ones it was made for, and refuses it otherwise.                               *)
Accepts(d) == presence[d] = session[d] /\ presence[Other(d)] = work[d].to
Queued(d) ==
  /\ sequence' = sequence + 1
  /\ queue' = [queue EXCEPT ![Other(d)] = Append(@,
       [seq |-> sequence', kind |-> work[d].kind, session |-> session[d],
        targetSession |-> work[d].to, conn |-> work[d].conn])]
Send(d) ==
  /\ work[d] # NoWork
  /\ IF Accepts(d) THEN Queued(d) ELSE UNCHANGED <<sequence, queue>>
  /\ work' = [work EXCEPT ![d] = NoWork]
  /\ UNCHANGED <<epoch, presence, session, known, cursor, answer, peer, made, history, trouble>>

(* A bridge does not wait for a description longer than its pass may take: it    *)
(* gives the connection up.                                                      *)
GiveUp(d) ==
  /\ d \in Bridge /\ work[d] # NoWork
  /\ work' = [work EXCEPT ![d] = NoWork]
  /\ peer' = [peer EXCEPT ![d] = NoPeer]
  /\ UNCHANGED <<service, session, known, cursor, answer, made, history>>

-----------------------------------------------------------------------------
(* The connections.                                                        *)

Matched ==
  /\ \A d \in Device : peer[d].state = "stable"
  /\ \A d \in Device : peer[d].remote = peer[Other(d)].conn
Linked == Matched /\ \A d \in Device : peer[d].link = "connected"

Connect ==
  /\ Matched /\ \A d \in Device : peer[d].link = "none"
  /\ peer' = [d \in Device |-> [peer[d] EXCEPT !.link = "connected"]]
  /\ UNCHANGED <<service, session, known, cursor, answer, work, made, history, trouble>>

Fails(d) ==
  /\ peer' = [peer EXCEPT ![d].link = "failed"]
  /\ UNCHANGED <<service, session, known, cursor, answer, work, made, history>>
(* A connection notices that its other end is gone, or fails by itself.          *)
LosesEnd(d) == peer[d].link = "connected" /\ ~Linked /\ Fails(d) /\ UNCHANGED trouble
Breaks(d) == peer[d].link = "connected" /\ Linked /\ Fails(d)

(* Nothing is under way that a connection still waits for.                       *)
Settled ==
  \A d \in Device : /\ answer[d].signals = <<>> /\ work[d] = NoWork /\ SignalsFor(d) = <<>>
                    /\ presence[d] \in {0, session[d]}
Ages(d) ==
  /\ peer[d] # NoPeer /\ peer[d].link = "none" /\ ~peer[d].old
  /\ peer' = [peer EXCEPT ![d].old = TRUE]
  /\ UNCHANGED <<service, session, known, cursor, answer, work, made, history>>
TimesOut(d) == Settled /\ ~Matched /\ Ages(d) /\ UNCHANGED trouble

-----------------------------------------------------------------------------
Trouble ==
  /\ trouble < MaxTrouble
  /\ trouble' = trouble + 1
  /\ \/ Restart
     \/ \E d \in Device : \/ Lapse(d) \/ Expire(d) \/ Close(d) \/ LoseAnswer(d)
                          \/ GiveUp(d) \/ Breaks(d) \/ Ages(d)

Step(d) == Poll(d) \/ Handle(d) \/ Send(d) \/ Gone(d) \/ LosesEnd(d) \/ TimesOut(d)

Next == Trouble \/ Connect \/ \E d \in Device : Open(d) \/ Step(d)

Fairness ==
  /\ WF_vars(Connect)
  /\ \A d \in Device : /\ WF_vars(Poll(d)) /\ WF_vars(Handle(d)) /\ WF_vars(Send(d))
                       /\ WF_vars(Gone(d)) /\ WF_vars(LosesEnd(d)) /\ WF_vars(TimesOut(d))
Spec == Init /\ [][Next]_vars
FairSpec == Spec /\ Fairness

-----------------------------------------------------------------------------
(* A session handles each signal at most once and passes over none: what waits   *)
(* for it in the queue is either past its cursor or handled already, whatever     *)
(* answers were lost and however often the numbers started over.                  *)
NonePassedOver ==
  \A d \in Device : session[d] # 0 /\ known[d] = epoch =>
    \A i \in DOMAIN queue[d] : queue[d][i].targetSession = session[d] =>
      (queue[d][i].seq <= cursor[d] <=> <<epoch, queue[d][i].seq>> \in handled[d])
SignalsOnce == TypeOK /\ ~twice /\ NonePassedOver

(* Once both devices stay in the room and nothing more goes wrong, they end up    *)
(* connected and stay so, whatever stale offers, answers and connections earlier   *)
(* sessions and restarts left behind.                                              *)
PeersConnect == <>[](\A d \in Device : session[d] # 0) => <>[]Linked
=============================================================================
