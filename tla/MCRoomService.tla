--------------------------- MODULE MCRoomService ---------------------------
(***************************************************************************)
(* The instance that is checked of the room service beyond admission: the  *)
(* life of two rooms, and the signals between two devices.  These share no *)
(* state, so a behaviour runs one of them and leaves the other at its      *)
(* start.                                                                  *)
(***************************************************************************)
EXTENDS RoomLifecycle
CONSTANTS
  r1, r2,
  Low, High, Bridge, MaxTrouble
VARIABLES
  part,
  epoch, sequence, presence, queue, session, known, cursor, answer, work, peer,
  made, handled, twice, trouble

Sig == INSTANCE Signaling

signaling == <<epoch, sequence, presence, queue, session, known, cursor, answer,
               work, peer, made, handled, twice, trouble>>
all == <<part, vars, signaling>>

Rooms(A) == part = "rooms" /\ A /\ UNCHANGED <<part, signaling>>
Signals(A) == part = "signals" /\ A /\ UNCHANGED <<part, vars>>

ServiceInit ==
  /\ part \in {"rooms", "signals"}
  /\ Init /\ Sig!Init
  /\ part # "rooms" => rooms = {}

ServiceNext == Rooms(Next) \/ Signals(Sig!Next)

ServiceSpec ==
  /\ ServiceInit /\ [][ServiceNext]_all
  /\ WF_all(Rooms(Tick)) /\ WF_all(Rooms(Due)) /\ WF_all(Rooms(Start))
  /\ WF_all(Rooms(Sweep)) /\ WF_all(Rooms(Swept))
  /\ \A r \in Room : WF_all(Rooms(Expire(r)))
  /\ WF_all(Signals(Sig!Connect))
  /\ \A d \in Sig!Device :
       /\ WF_all(Signals(Sig!Poll(d))) /\ WF_all(Signals(Sig!Handle(d)))
       /\ WF_all(Signals(Sig!Send(d))) /\ WF_all(Signals(Sig!Gone(d)))
       /\ WF_all(Signals(Sig!LosesEnd(d))) /\ WF_all(Signals(Sig!TimesOut(d)))

\* No signal is handled twice by a session, none is passed over.
SignalsOnce == Sig!SignalsOnce
\* Two devices that stay in a room end up connected once trouble ends.
PeersConnect == part = "signals" => Sig!PeersConnect
=============================================================================
