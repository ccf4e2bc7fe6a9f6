------------------------------ MODULE Delivery ------------------------------
(***************************************************************************)
(* Messages between the devices of one room: the engine of src/browser/    *)
(* peers.ts with the rolling window of history.ts.  A message is stored by *)
(* its author with the devices it is for, sent over every open channel     *)
(* until each of them confirms it, and stored before it is confirmed.      *)
(* Receipts are kept in memory first and written within a second.          *)
(*                                                                         *)
(* A channel delivers in order and loses what is in flight when it closes; *)
(* engines crash and restart from their disk; devices leave the room and   *)
(* come back; each learns of it only at its next poll.  Which tab of a     *)
(* browser runs the engine is RoomOwner's subject, how the channel came    *)
(* about Signaling's.                                                      *)
(***************************************************************************)
EXTENDS Integers, FiniteSets, Sequences, SequencesExt, Subsequences

CONSTANTS
  Device,
  Message,    \* message ids; each is sent at most once
  Author,     \* the device that sends each message
  MaxStored,  \* MAX_STORED_MESSAGES
  MaxOutbox,  \* MAX_PENDING_OUTBOX
  Batch,      \* messages one flush sends to a peer: 16
  Buffer,     \* packets a channel takes before a flush stops
  MaxFaults   \* bound on crashes, cuts, refusals and comings and goings

ASSUME AuthorAssumption == Author \in [Message -> Device]
ASSUME WindowAssumption ==
  /\ {MaxStored, MaxOutbox, Batch, Buffer} \subseteq Nat \ {0}
  /\ MaxOutbox < MaxStored
  /\ MaxFaults \in Nat

VARIABLES
  room,   \* the devices in the room, as the service has it
  view,   \* status.devices of each engine; empty when it is no member
  up,     \* engines that run
  mem,    \* `messages` of each engine
  disk,   \* the history it stored
  link,   \* pairs of devices with an open channel
  wire,   \* packets in flight, by sender and receiver
  sent,   \* peer.sent: ids sent over this connection within RESEND_MS
  seen,   \* every message a device ever stored
  faults

vars == <<room, view, up, mem, disk, link, wire, sent, seen, faults>>

Pair == {x \in Device \X Device : x[1] # x[2]}
Entry == [id : Message, targets : SUBSET Device, receipts : SUBSET Device]
Packet == [kind : {"message", "receipt"}, id : Message]

TypeOK ==
  /\ room \subseteq Device /\ up \subseteq Device
  /\ view \in [Device -> SUBSET Device]
  /\ mem \in [Device -> Seq(Entry)] /\ disk \in [Device -> Seq(Entry)]
  /\ \A d \in Device : Len(mem[d]) <= MaxStored /\ Len(disk[d]) <= MaxStored
  /\ link \subseteq {{x[1], x[2]} : x \in Pair}
  /\ wire \in [Pair -> Seq(Packet)]
  /\ sent \in [Pair -> SUBSET Message]
  /\ seen \in [Device -> SUBSET Message]
  /\ faults \in 0..MaxFaults

Init ==
  /\ room = Device /\ up = Device
  /\ view = [d \in Device |-> {}]
  /\ mem = [d \in Device |-> <<>>] /\ disk = mem
  /\ link = {} /\ wire = [x \in Pair |-> <<>>] /\ sent = [x \in Pair |-> {}]
  /\ seen = [d \in Device |-> {}]
  /\ faults = 0

Fault == faults < MaxFaults /\ faults' = faults + 1

Ids(s) == {s[i].id : i \in DOMAIN s}
Linked(d, p) == {d, p} \in link

(***************************************************************************)
(* The rolling window.                                                     *)
(***************************************************************************)

\* awaitingDelivery: one of d's own that a device in the room has not stored.
Awaiting(e, d) ==
  Author[e.id] = d /\ (e.targets \ e.receipts) \cap view[d] # {}

\* mutant: the oldest of the outbox are protected
Oldest(s, d) ==
  LET own == {i \in DOMAIN s : Awaiting(s[i], d)}
  IN {i \in own : Place(own, i) <= MaxOutbox}

\* windowHistory: the newest MaxOutbox of those are protected.
Protected(s, d) ==
  LET own == {i \in DOMAIN s : Awaiting(s[i], d)}
  IN {i \in own : Cardinality(own) - Place(own, i) < MaxOutbox}

\* windowMessages: past MaxStored, the oldest that are not protected go.
Window(s, d) ==
  LET free == DOMAIN s \ Protected(s, d)
      evicted == {i \in free : Place(free, i) <= Len(s) - MaxStored}
  IN At(s, DOMAIN s \ evicted)

\* mutant: the window is cut before the new message is added
StoredPast(d, e) == Append(Window(mem[d], d), e)

\* save(): one put of the whole history, receipts recorded so far included.
Stored(d, e) == Window(Append(mem[d], e), d)
SaveInMemory(d, e) == \* mutant: the put is forgotten
  /\ mem' = [mem EXCEPT ![d] = Stored(d, e)]
  /\ seen' = [seen EXCEPT ![d] = @ \cup {e.id}]
  /\ UNCHANGED disk
Save(d, e) ==
  /\ mem' = [mem EXCEPT ![d] = Stored(d, e)]
  /\ disk' = [disk EXCEPT ![d] = Stored(d, e)]
  /\ seen' = [seen EXCEPT ![d] = @ \cup {e.id}]

(***************************************************************************)
(* Sending.                                                                *)
(***************************************************************************)

\* What one flush sends from x[1] to x[2]: its oldest unconfirmed messages
\* not sent lately, while the channel takes them.
Unconfirmed(x, s, lately) ==
  {i \in DOMAIN s : /\ Author[s[i].id] = x[1] /\ x[2] \in s[i].targets \ s[i].receipts
                    /\ s[i].id \notin lately}
Due(x, s, w, lately) ==
  LET due == Unconfirmed(x, s, lately)
      fits(n) == n <= Batch /\ Len(w) + n <= Buffer
  IN At(s, {i \in due : fits(Place(due, i))})

\* flush() of the engines in ds, over the links l with w in flight.
Flush(ds, s, l, w, lately) ==
  LET due(x) == IF x[1] \in ds /\ {x[1], x[2]} \in l
                THEN Due(x, s[x[1]], w[x], lately[x]) ELSE <<>>
      packets(es) == [i \in DOMAIN es |-> [kind |-> "message", id |-> es[i].id]]
  IN /\ wire' = [x \in Pair |-> w[x] \o packets(due(x))]
     /\ sent' = [x \in Pair |-> lately[x] \cup Ids(due(x))]

\* A person, or an agent, sends m: stored first, for the devices known now.
Send(m) ==
  LET d == Author[m]
      e == [id |-> m, targets |-> view[d] \ {d}, receipts |-> {}]
  IN /\ d \in up /\ d \in view[d] /\ m \notin seen[d]
     /\ Save(d, e)
     /\ Flush({d}, mem', link, wire, sent)
     /\ UNCHANGED <<room, view, up, link, faults>>

\* Nothing of a closed channel is left: not what was in flight, not what was
\* sent lately.
Dropped(f, gone, empty) == [x \in Pair |-> IF {x[1], x[2]} \in gone THEN empty ELSE f[x]]

\* One status poll: the devices of the room, those gone disconnected, and a
\* flush to the others.
Poll(d) ==
  LET now == IF d \in room THEN room ELSE {}
      gone == {l \in link : d \in l /\ ~ l \subseteq now}
  IN /\ d \in up
     /\ view' = [view EXCEPT ![d] = now]
     /\ link' = link \ gone
     /\ Flush({d}, mem, link', Dropped(wire, gone, <<>>), Dropped(sent, gone, {}))
     /\ UNCHANGED <<room, up, mem, disk, seen, faults>>

\* The channel of two devices that know each other opens, and both flush.
Connect(d, p) ==
  /\ d # p /\ {d, p} \subseteq up /\ ~ Linked(d, p)
  /\ {d, p} \subseteq view[d] \cap view[p]
  /\ link' = link \cup {{d, p}}
  /\ Flush({d, p}, mem, link', wire, sent)
  /\ UNCHANGED <<room, view, up, mem, disk, seen, faults>>

\* RESEND_MS passed: what was sent and not confirmed may be sent again.  An
\* answer still on its way by then is a late one, and counts as a fault.
Expire(d, p) ==
  /\ sent[<<d, p>>] # {}
  /\ sent' = [sent EXCEPT ![<<d, p>>] = {}]
  /\ IF wire[<<d, p>>] = <<>> /\ wire[<<p, d>>] = <<>>
     THEN UNCHANGED faults ELSE Fault
  /\ UNCHANGED <<room, view, up, mem, disk, link, wire, seen>>

(***************************************************************************)
(* Receiving: the handler of connectChannel.                               *)
(***************************************************************************)

Received(d, p) == Head(wire[<<p, d>>])
Arrives(d, p) == wire[<<p, d>>] # <<>> /\ {d, p} \subseteq view[d]
Handled(d, p) == [wire EXCEPT ![<<p, d>>] = Tail(@)]
Confirmed(d, p) ==
  [Handled(d, p) EXCEPT
     ![<<d, p>>] = Append(@, [kind |-> "receipt", id |-> Received(d, p).id])]

\* mutant: a message is looked for among those received by others
HeldElsewhere(d, m) == m \in Ids(mem[d]) /\ d = Author[m]
Held(d, m) == m \in Ids(mem[d])

\* mutant: a message already held is taken for confirmed
OnlyNew(d, p) ==
  /\ Arrives(d, p) /\ Received(d, p).kind = "message"
  /\ IF Held(d, Received(d, p).id)
     THEN UNCHANGED <<mem, disk, seen>> /\ wire' = Handled(d, p)
     ELSE /\ Save(d, [id |-> Received(d, p).id, targets |-> {}, receipts |-> {}])
          /\ wire' = Confirmed(d, p)
  /\ UNCHANGED <<room, view, up, link, sent, faults>>

\* A message not held yet is stored; then, as for one repeated, a receipt.
TakeMessage(d, p) ==
  /\ Arrives(d, p) /\ Received(d, p).kind = "message"
  /\ IF Held(d, Received(d, p).id)
     THEN UNCHANGED <<mem, disk, seen>>
     ELSE Save(d, [id |-> Received(d, p).id, targets |-> {}, receipts |-> {}])
  /\ wire' = Confirmed(d, p)
  /\ UNCHANGED <<room, view, up, link, sent, faults>>

\* mutant: a message that could not be stored is confirmed all the same
RefuseConfirmed(d, p) ==
  /\ Fault
  /\ Arrives(d, p)
  /\ wire' = Confirmed(d, p)
  /\ UNCHANGED <<room, view, up, mem, disk, link, sent, seen>>

\* Too many packets wait already, the member is over quota, or the message
\* cannot be stored: the packet is dropped, and nothing answers it.
Refuse(d, p) ==
  /\ Fault
  /\ Arrives(d, p)
  /\ wire' = Handled(d, p)
  /\ UNCHANGED <<room, view, up, mem, disk, link, sent, seen>>

\* A receipt is recorded in memory, once, if the message is still held.
TakeReceipt(d, p) ==
  LET m == Received(d, p).id
      recorded(e) == IF e.id = m /\ Author[m] = d /\ p \in e.targets
                     THEN [e EXCEPT !.receipts = @ \cup {p}] ELSE e
  IN /\ Arrives(d, p) /\ Received(d, p).kind = "receipt"
     /\ mem' = [mem EXCEPT ![d] = [i \in DOMAIN @ |-> recorded(@[i])]]
     /\ wire' = Handled(d, p)
     /\ UNCHANGED <<room, view, up, disk, link, sent, seen, faults>>

\* writeReceipts, a second later at most.
WriteReceipts(d) ==
  /\ d \in up /\ disk[d] # mem[d]
  /\ disk' = [disk EXCEPT ![d] = mem[d]]
  /\ UNCHANGED <<room, view, up, mem, link, wire, sent, seen, faults>>

(***************************************************************************)
(* What goes wrong.                                                        *)
(***************************************************************************)

Close(gone) ==
  /\ link' = link \ gone
  /\ wire' = Dropped(wire, gone, <<>>)
  /\ sent' = Dropped(sent, gone, {})

Cut(l) ==
  /\ Fault
  /\ Close({l})
  /\ UNCHANGED <<room, view, up, mem, disk, seen>>

\* The page or the bridge dies: receipts not written yet are forgotten.
Crash(d) ==
  /\ Fault
  /\ d \in up /\ up' = up \ {d}
  /\ Close({l \in link : d \in l})
  /\ view' = [view EXCEPT ![d] = {}]
  /\ mem' = [mem EXCEPT ![d] = <<>>]
  /\ UNCHANGED <<room, disk, seen>>

\* load()
Restart(d) ==
  /\ d \notin up /\ up' = up \cup {d}
  /\ mem' = [mem EXCEPT ![d] = disk[d]]
  /\ UNCHANGED <<room, view, disk, link, wire, sent, seen, faults>>

\* A device leaves the room, or is let in again.
Leave(d) == Fault /\ room' = room \ {d}
            /\ UNCHANGED <<view, up, mem, disk, link, wire, sent, seen>>
Join(d) == Fault /\ d \notin room /\ room' = room \cup {d}
           /\ UNCHANGED <<view, up, mem, disk, link, wire, sent, seen>>

Handle(d, p) == TakeMessage(d, p) \/ TakeReceipt(d, p)

Next ==
  \/ \E m \in Message : Send(m)
  \/ \E d \in Device :
       Poll(d) \/ WriteReceipts(d) \/ Crash(d) \/ Restart(d) \/ Leave(d) \/ Join(d)
  \/ \E x \in Pair :
       \/ Handle(x[1], x[2]) \/ Refuse(x[1], x[2])
       \/ Connect(x[1], x[2]) \/ Expire(x[1], x[2])
  \/ \E l \in link : Cut(l)

Spec == Init /\ [][Next]_vars

\* Polls, timers, restarts and channels that can open: each happens in time.
Fairness ==
  /\ \A d \in Device : WF_vars(Poll(d)) /\ WF_vars(WriteReceipts(d)) /\ WF_vars(Restart(d))
  /\ \A x \in Pair : /\ WF_vars(Handle(x[1], x[2]))
                     /\ WF_vars(Connect(x[1], x[2]))
                     /\ WF_vars(Expire(x[1], x[2]))

FairSpec == Spec /\ Fairness

(***************************************************************************)
(* Properties.                                                             *)
(***************************************************************************)

\* However often a message is sent again, no history holds it twice
\* (`existing` in the handler).
NoDuplicates ==
  \A d \in Device : \A i, j \in DOMAIN mem[d] :
    mem[d][i].id = mem[d][j].id => i = j

\* A receipt recorded at the author is true: that device did store the
\* message (save before the receipt is sent).
ReceiptsAreTrue ==
  \A d \in Device : \A e \in Range(mem[d]) \cup Range(disk[d]) :
    \A t \in e.receipts : t \in e.targets /\ e.id \in seen[t]

\* Whatever a running engine shows, or confirms, is on its disk, so a crash
\* loses nothing but receipts.
ShownIsStored ==
  \A d \in up : /\ Len(mem[d]) = Len(disk[d])
                /\ \A i \in DOMAIN mem[d] :
                     /\ mem[d][i].id = disk[d][i].id
                     /\ disk[d][i].receipts \subseteq mem[d][i].receipts

\* A history can be relied on, in memory and on disk.
HistoriesSound == NoDuplicates /\ ShownIsStored

\* What a device holds and what was confirmed to it, all of it.
MessagesSound == TypeOK /\ HistoriesSound /\ ReceiptsAreTrue

\* An own message somebody in the room still waits for is evicted only when
\* MaxOutbox newer ones wait as well (windowHistory), whatever arrives.
OutboxKept ==
  [][\A d \in up' : \A i \in DOMAIN mem[d] :
       LET older == Ids(SubSeq(mem[d], 1, i))
           newer == {e \in Range(mem'[d]) : Awaiting(e, d) /\ e.id \notin older}
       IN \/ mem[d][i].id \in Ids(mem'[d])
          \/ ~ Awaiting(mem[d][i], d)
          \/ Cardinality(newer) >= MaxOutbox]_vars

\* m is stored by its author for t, and t has not confirmed it.
Owed(m, t) ==
  /\ {Author[m], t} \subseteq room
  /\ \E e \in Range(disk[Author[m]]) : e.id = m /\ t \in e.targets \ e.receipts

\* Senders retry until stored: once faults and sending end, every message
\* still in its author's history is confirmed by every device it is for.
AllConfirmed == <>[](\A m \in Message, t \in Device : ~ Owed(m, t))
=============================================================================
