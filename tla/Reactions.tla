----------------------------- MODULE Reactions -----------------------------
(***************************************************************************)
(* One member's reactions, on their devices and those of others            *)
(* (src/browser/reactions.ts, peers.ts): operations per message, each      *)
(* replacing the one before.  Those for a message a device does not hold   *)
(* wait for it, a few of them; and no more than Cap of a member's          *)
(* reactions may be live on a device.  The emoji is part of the message's  *)
(* name.                                                                   *)
(***************************************************************************)
EXTENDS Naturals, FiniteSets

CONSTANTS
  Mine, Others,  \* the member's devices and everybody else's, as numbers
  Message,      \* messages somebody may react to, as numbers
  Cap,          \* MAX_REACTION_KEYS_PER_MEMBER
  MaxPending,   \* MAX_PENDING_PER_MEMBER
  CompactAt,    \* COMPACT_REACTIONS_AT
  MaxRev        \* bound on changes to one reaction

Place == Mine \cup Others

VARIABLES
  messages,  \* messages each device holds
  evicted,   \* messages that left a device's window
  log,       \* reactionOps
  pending    \* pendingReactions

vars == <<messages, evicted, log, pending>>

Op == [message : Message, rev : 1..MaxRev, by : Mine, removed : BOOLEAN]

TypeOK ==
  /\ messages \in [Place -> SUBSET Message]
  /\ evicted \in [Place -> SUBSET Message]
  /\ log \in [Place -> SUBSET Op]
  /\ pending \in [Place -> SUBSET Op]

-----------------------------------------------------------------------------
(* The fold: the latest operation of each message, by revision, then by id.  *)
(* The number of the device that made it stands for the operation's id.      *)

Earlier(o, p) ==
  \/ o.rev < p.rev
  \/ o.rev = p.rev /\ o.by < p.by
  \/ o.rev = p.rev /\ o.by = p.by /\ o.message < p.message
Of(S, m) == {o \in S : o.message = m}
Latest(S) == {o \in S : \A p \in Of(S, o.message) : ~Earlier(o, p)}
Live(S) == {o.message : o \in {p \in Latest(S) : ~p.removed}}
currentRevision(S, m) ==
  IF Of(S, m) = {} THEN 0 ELSE (CHOOSE o \in Of(S, m) : \A p \in Of(S, m) : p.rev <= o.rev).rev

LiveOnly(S) == {o \in Latest(S) : ~o.removed} \* mutant: a cleared reaction is forgotten
Bounded(S) == IF Cardinality(S) > CompactAt THEN Latest(S) ELSE S

(* Removals come first; an operation that is superseded, or on a message the    *)
(* member's reaction is live on already, changes no count; of the others those   *)
(* that come first fill what the cap leaves.                                    *)
Removals(S) == {o \in S : o.removed}
Over(held, o, incoming) ==
  LET base == held \cup Removals(incoming)
      free(p) == p.message \in Live(base) \/ p \notin Latest(base \cup {p})
      before == {p \in incoming : ~p.removed /\ ~free(p) /\ Earlier(p, o) /\ p.message # o.message}
  IN /\ ~o.removed /\ ~free(o)
     /\ Cardinality(Live(base)) + Cardinality({p.message : p \in before}) >= Cap
withinReactionKeyCap(held, incoming) == {o \in incoming : ~Over(held, o, incoming)}

mayHoldPending(waiting, incoming) == Cardinality(waiting \cup incoming) <= MaxPending

(* addReactionOps, for a device that holds the messages `held`.                 *)
Fresh(d, incoming) == incoming \ (log[d] \cup pending[d])
Ready(d, incoming, held) == {o \in Fresh(d, incoming) : o.message \in held}
Early(d, incoming, held) ==
  {o \in Fresh(d, incoming) : o.message \notin held}
addReactionOps(d, ready) ==
  log' = [log EXCEPT ![d] = Bounded(@ \cup withinReactionKeyCap(@, ready))]
Hold(d, early) ==
  \E some \in SUBSET early :
    /\ mayHoldPending(pending[d], some)
    /\ \A o \in early \ some : ~mayHoldPending(pending[d], some \cup {o})
    /\ pending' = [pending EXCEPT ![d] = @ \cup some]

-----------------------------------------------------------------------------
Init ==
  /\ messages = [d \in Place |-> {}]
  /\ evicted = messages
  /\ log = messages /\ pending = messages

(* A message is stored, and the reactions that waited for it are taken.         *)
Kept(d, m) == pending[d] \* mutant
Due(d, m) == pending[d] \ Of(pending[d], m)
Store(d, m) ==
  /\ m \notin messages[d] \cup evicted[d]
  /\ messages' = [messages EXCEPT ![d] = @ \cup {m}]
  /\ pending' = [pending EXCEPT ![d] = Due(d, m)]
  /\ addReactionOps(d, Of(pending[d], m))
  /\ UNCHANGED evicted

(* The oldest message leaves the window; its reactions stay.                    *)
Evict(d, m) ==
  /\ m \in messages[d]
  /\ messages' = [messages EXCEPT ![d] = @ \ {m}]
  /\ evicted' = [evicted EXCEPT ![d] = @ \cup {m}]
  /\ UNCHANGED <<log, pending>>

(* react: the reaction on a message is toggled.                                 *)
React(d, m) ==
  LET remove == m \in Live(log[d])
      rev == currentRevision(log[d], m) + 1
  IN /\ d \in Mine /\ m \in messages[d] /\ rev <= MaxRev
     /\ remove \/ Cardinality(Live(log[d])) < Cap
     /\ addReactionOps(d, {[message |-> m, rev |-> rev, by |-> d, removed |-> remove]})
     /\ UNCHANGED <<messages, evicted, pending>>

(* An operation arrives as it was made, or all that another device holds.       *)
Accept(d, incoming) ==
  /\ Fresh(d, incoming) # {}
  /\ addReactionOps(d, Ready(d, incoming, messages[d]))
  /\ Hold(d, Early(d, incoming, messages[d]))
  /\ UNCHANGED <<messages, evicted>>
Receive(d, e) == \E o \in log[e] : Accept(d, {o})
Exchange(d, e) == Accept(d, log[e])

Next ==
  \E d \in Place :
    \/ \E m \in Message : Store(d, m) \/ Evict(d, m) \/ React(d, m)
    \/ \E e \in Place \ {d} : Receive(d, e) \/ Exchange(d, e)

Spec == Init /\ [][Next]_vars
FairSpec == Spec /\ \A d, e \in Place : WF_vars(Exchange(d, e))

-----------------------------------------------------------------------------
(* No device holds more of the member's reactions live than the cap, and none   *)
(* waits for a message that is there.                                           *)
CapHolds ==
  /\ TypeOK
  /\ \A d \in Place :
       /\ Cardinality(Live(log[d])) <= Cap
       /\ Cardinality(pending[d]) <= MaxPending
       /\ \A o \in pending[d] : o.message \notin messages[d]

(* Devices that hold the same messages show the same reactions in the end, in     *)
(* whatever order and pieces they came and whatever waited or was refused on the   *)
(* way, as long as the member has no more than Cap on all devices together.        *)
Everything == UNION {log[d] : d \in Place}
ReactionsConverge ==
  <>[](/\ \A d \in Place : messages[d] = Message
       /\ Cardinality(Live(Everything)) <= Cap)
    => <>[](\A d, e \in Place : Live(log[d]) = Live(log[e]))

=============================================================================
