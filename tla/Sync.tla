-------------------------------- MODULE Sync --------------------------------
(***************************************************************************)
(* How two connected devices come to hold the same board, decisions and    *)
(* reactions though each may drop what the other sends (src/browser/       *)
(* pacer.ts, quota.ts and the handlers of peers.ts): every change is sent  *)
(* as it is made; what a device holds is sent, paced, when a channel opens *)
(* and when it is asked for; a receiver drops changes over the author's    *)
(* quota and packets beyond the few that may wait, and asks for what it    *)
(* dropped.                                                                *)
(*                                                                         *)
(* A channel delivers in order until it closes.  What is held is a set of  *)
(* operations; what they mean is in Board, Decisions and Reactions.        *)
(***************************************************************************)
EXTENDS Naturals, Sequences, FiniteSets

CONSTANTS
  Device,      \* the two of them
  Author,      \* those that change something
  Burst,       \* QUOTA_BURST: changes taken before the quota is refilled
  MaxWaiting,  \* MAX_PENDING_INCOMING
  Buffer,      \* what a channel's send buffer holds below its high-water mark
  MaxOps,      \* bound on changes of each author
  MaxTrouble   \* bound on channels that close and packets that come too fast

VARIABLES
  open,       \* the channel
  held,       \* operations each device holds
  wire,       \* packets on their way to each device
  queue,      \* envelopes each device has still to send, paced
  waiting,    \* packets each device has admitted and not handled
  tokens,     \* what is left of the other's quota
  over,       \* QuotaDrops: something of the other's was dropped over quota
  gated,      \* IncomingGate: something of the other's was dropped
  requested,  \* Resync: the other asked
  recent,     \* Resync: full state was queued less than RESYNC_INTERVAL_MS ago
  trouble

vars == <<open, held, wire, queue, waiting, tokens, over, gated, requested, recent, trouble>>

Peer(d) == CHOOSE e \in Device : e # d
Op == Author \X (1..MaxOps)

Live(o) == [kind |-> "live", ops |-> {o}]
Envelope(o) == [kind |-> "envelope", ops |-> {o}]
Request == [kind |-> "request", ops |-> {}]
Packet == [kind : {"live", "envelope", "request"}, ops : SUBSET Op]

TypeOK ==
  /\ open \in BOOLEAN /\ trouble \in 0..MaxTrouble
  /\ held \in [Device -> SUBSET Op]
  /\ wire \in [Device -> Seq(Packet)] /\ queue \in [Device -> Seq(Packet)]
  /\ waiting \in [Device -> Seq(Packet)]
  /\ \A d \in Device : Len(waiting[d]) <= MaxWaiting
  /\ tokens \in [Device -> 0..Burst]
  /\ over \in [Device -> BOOLEAN] /\ gated \in [Device -> BOOLEAN]
  /\ requested \in [Device -> BOOLEAN] /\ recent \in [Device -> BOOLEAN]

Init ==
  /\ open = FALSE /\ trouble = 0
  /\ held = [d \in Device |-> {}]
  /\ wire = [d \in Device |-> <<>>] /\ queue = wire /\ waiting = wire
  /\ tokens = [d \in Device |-> Burst]
  /\ over = [d \in Device |-> FALSE] /\ gated = over /\ requested = over /\ recent = over

-----------------------------------------------------------------------------
(* Sending.                                                                *)

(* What a device holds, in envelopes; an envelope is one operation here.   *)
Chunks(d) ==
  CHOOSE s \in [1..Cardinality(held[d]) -> {Envelope(o) : o \in held[d]}] :
    {s[i] : i \in DOMAIN s} = {Envelope(o) : o \in held[d]}

Change(d) ==
  LET mine == Cardinality({o \in held[d] : o[1] = d})
      o == <<d, mine + 1>>
  IN /\ d \in Author /\ mine < MaxOps
     /\ held' = [held EXCEPT ![d] = @ \cup {o}]
     /\ wire' = IF open THEN [wire EXCEPT ![Peer(d)] = Append(@, Live(o))] ELSE wire
     /\ UNCHANGED <<open, queue, waiting, tokens, over, gated, requested, recent, trouble>>

(* onopen: each sends what it holds.                                       *)
Open ==
  /\ ~open
  /\ open' = TRUE
  /\ queue' = [d \in Device |-> Chunks(d)]
  /\ recent' = [d \in Device |-> TRUE]
  /\ requested' = [d \in Device |-> FALSE]
  /\ UNCHANGED <<held, wire, waiting, tokens, over, gated, trouble>>

(* What is on its way or queued is lost, and what waits is handled no more;   *)
(* what was dropped is remembered by device, for a channel that opens later.  *)
Close ==
  /\ open /\ trouble < MaxTrouble
  /\ open' = FALSE /\ trouble' = trouble + 1
  /\ wire' = [d \in Device |-> <<>>] /\ queue' = wire' /\ waiting' = wire'
  /\ UNCHANGED <<held, tokens, over, gated, requested, recent>>

(* SendQueue.pump: on a tick, or when the buffer has drained.                 *)
Pump(d) ==
  /\ queue[d] # <<>> /\ Len(wire[Peer(d)]) < Buffer
  /\ wire' = [wire EXCEPT ![Peer(d)] = Append(@, Head(queue[d]))]
  /\ queue' = [queue EXCEPT ![d] = Tail(@)]
  /\ UNCHANGED <<open, held, waiting, tokens, over, gated, requested, recent, trouble>>

-----------------------------------------------------------------------------
(* Receiving.                                                              *)

Arrives(d, p) == wire[d] # <<>> /\ p = Head(wire[d]) /\ wire' = [wire EXCEPT ![d] = Tail(@)]

(* A request for state bypasses the gate.                                  *)
TakeRequest(d) ==
  /\ Arrives(d, Request)
  /\ requested' = [requested EXCEPT ![d] = TRUE]
  /\ UNCHANGED <<open, held, queue, waiting, tokens, over, gated, recent, trouble>>

(* Packets come faster than they are handled only for a while: what a device      *)
(* holds already costs it next to nothing.                                         *)
Admit(d) ==
  /\ \E p \in Packet : p # Request /\ Arrives(d, p)
  /\ Len(waiting[d]) < MaxWaiting
  /\ waiting' = [waiting EXCEPT ![d] = Append(@, Head(wire[d]))]
  /\ UNCHANGED <<open, held, queue, tokens, over, gated, requested, recent, trouble>>

Drop(d) ==
  /\ \E p \in Packet : p # Request /\ Arrives(d, p)
  /\ Len(waiting[d]) = MaxWaiting /\ trouble < MaxTrouble
  /\ trouble' = trouble + 1
  /\ gated' = [gated EXCEPT ![d] = TRUE]
  /\ UNCHANGED <<open, held, queue, waiting, tokens, over, requested, recent>>

(* The handler: a change is charged to its author's quota unless it is held; an   *)
(* envelope is not.  When nothing waits any more, the other is asked for what the  *)
(* gate dropped.                                                                   *)
NoneLeft(d) == waiting[d] = <<>> \* mutant: the packet in hand still counts
Done(d) == Len(waiting[d]) = 1
Asks(d, now) == wire' = IF now THEN [wire EXCEPT ![Peer(d)] = Append(@, Request)] ELSE wire
Handle(d) ==
  /\ waiting[d] # <<>>
  /\ LET p == Head(waiting[d])
         charged == p.kind = "live" /\ ~(p.ops \subseteq held[d])
     IN IF charged /\ tokens[d] = 0
          THEN /\ over' = [over EXCEPT ![d] = TRUE]
               /\ UNCHANGED <<held, tokens>>
          ELSE /\ held' = [held EXCEPT ![d] = @ \cup p.ops]
               /\ tokens' = IF charged THEN [tokens EXCEPT ![d] = @ - 1] ELSE tokens
               /\ UNCHANGED over
  /\ waiting' = [waiting EXCEPT ![d] = Tail(@)]
  /\ Asks(d, Done(d) /\ gated[d])
  /\ gated' = IF Done(d) THEN [gated EXCEPT ![d] = FALSE] ELSE gated
  /\ UNCHANGED <<open, queue, requested, recent, trouble>>

(* A minute passes for the quota.                                            *)
Refill(d) ==
  /\ tokens[d] < Burst
  /\ tokens' = [tokens EXCEPT ![d] = Burst]
  /\ UNCHANGED <<open, held, wire, queue, waiting, over, gated, requested, recent, trouble>>

(* Ticks.  Nothing was dropped over quota for a while: the other is asked, or     *)
(* its state comes when the channel opens.                                        *)
AskAgain(d) ==
  /\ over[d]
  /\ over' = [over EXCEPT ![d] = FALSE]
  /\ Asks(d, open)
  /\ UNCHANGED <<open, held, queue, waiting, tokens, gated, requested, recent, trouble>>

(* RESYNC_INTERVAL_MS pass.                                                       *)
Interval(d) ==
  /\ recent[d]
  /\ recent' = [recent EXCEPT ![d] = FALSE]
  /\ UNCHANGED <<open, held, wire, queue, waiting, tokens, over, gated, requested, trouble>>

Due(d) == requested[d] /\ queue[d] = <<>> /\ ~recent[d]
Resend(d) ==
  /\ open /\ Due(d)
  /\ requested' = [requested EXCEPT ![d] = FALSE]
  /\ recent' = [recent EXCEPT ![d] = TRUE]
  /\ queue' = [queue EXCEPT ![d] = Chunks(d)]
  /\ UNCHANGED <<open, held, wire, waiting, tokens, over, gated, trouble>>

Step(d) ==
  \/ Pump(d) \/ TakeRequest(d) \/ Admit(d) \/ Drop(d) \/ Handle(d) \/ Refill(d)
  \/ AskAgain(d) \/ Interval(d) \/ Resend(d)
Next == Open \/ Close \/ \E d \in Device : Change(d) \/ Step(d)

Spec == Init /\ [][Next]_vars
FairSpec ==
  /\ Spec /\ WF_vars(Open)
  /\ \A d \in Device :
       /\ WF_vars(Pump(d)) /\ WF_vars(TakeRequest(d)) /\ WF_vars(Admit(d)) /\ WF_vars(Handle(d))
       /\ WF_vars(AskAgain(d)) /\ WF_vars(Interval(d)) /\ WF_vars(Resend(d))

-----------------------------------------------------------------------------
(* Whatever was dropped over quota, at the gate or with a channel, both devices   *)
(* hold the same in the end, once nobody changes anything.                        *)
StateConverges == <>[](held[Peer(CHOOSE d \in Device : TRUE)] = held[CHOOSE d \in Device : TRUE])
=============================================================================
