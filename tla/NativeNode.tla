----------------------------- MODULE NativeNode -----------------------------
(***************************************************************************)
(* Two native nodes and a room they both have (src/server/node.ts,         *)
(* src/server/peer-bridge.ts): making the room, sending a message once,    *)
(* pairing, and delivering what was said since to the other node, its      *)
(* files first.  Messages go one way, from Sender to Receiver; the other   *)
(* way runs the same code on other state.                                  *)
(* A write that fails may or may not have reached the store; the node then *)
(* refuses every change until it is started again.  Packets may be lost,   *)
(* repeated and reordered: they stay in net, and are taken or not.         *)
(* A message and its file are named by the request they came with.  All    *)
(* files hold the same bytes, so one stored copy serves them all.  Limits  *)
(* of sizes and counts, retry times, the floor, the task board, setup's    *)
(* settings and the names granted in a pairing are left out.               *)
(***************************************************************************)
EXTENDS Naturals, Sequences, Functions, FiniteSets

CONSTANTS
  Sender, Receiver,
  Request, Attached,   \* messages, and those that carry a file
  Chunks,              \* packets a message is split into
  MaxAssemblies,       \* messages put together at once for one room
  Nothing,
  MaxFailures, MaxRestarts

Node == {Sender, Receiver}

VARIABLES
  disk,      \* what a node's store holds
  mem,       \* what it answers from
  bytes,     \* whether the file's bytes are stored
  blocked,   \* the nodes whose storage failed since they started
  told,      \* what a node said it stored
  net,       \* packets sent
  pieces,    \* the packets Receiver has of a message it is putting together
  failures, restarts

nodes == <<disk, mem, bytes, blocked, told, net, pieces, failures, restarts>>

Fresh == [setup |-> FALSE, room |-> "none", history |-> Nothing, index |-> {},
          paired |-> FALSE, excluded |-> {}, acknowledged |-> {}, files |-> {}]

NodesInit ==
  /\ disk = [n \in Node |-> Fresh] /\ mem = disk /\ bytes = [n \in Node |-> FALSE]
  /\ blocked = {} /\ told = [n \in Node |-> {}]
  /\ net = {} /\ pieces = [q \in Request |-> {}] /\ failures = 0 /\ restarts = 0

Messages(s) == IF s.history = Nothing THEN {} ELSE Range(s.history)

-----------------------------------------------------------------------------
(* Storing.  A command's writes are made in order; the first that fails     *)
(* ends it, and what the node answers from is not changed.                   *)

Saved(n) == mem'[n] # mem[n]
Writes(n, stores) ==
  /\ n \notin blocked
  /\ \/ /\ disk' = [disk EXCEPT ![n] = stores[Len(stores)]] /\ mem' = [mem EXCEPT ![n] = stores[Len(stores)]]
        /\ UNCHANGED <<blocked, failures>>
     \/ /\ failures < MaxFailures /\ failures' = failures + 1
        /\ \E s \in {disk[n]} \cup Range(stores) : disk' = [disk EXCEPT ![n] = s]
        /\ blocked' = blocked \cup {n} /\ UNCHANGED mem
  /\ UNCHANGED restarts

\* The answer is given once everything is stored, and again to a request
\* sent again.
Told(n, what) == told' = IF Saved(n) THEN [told EXCEPT ![n] = @ \cup {what}] ELSE told
SaysAgain(n, what) ==
  /\ n \notin blocked /\ told' = [told EXCEPT ![n] = @ \cup {what}]
  /\ UNCHANGED <<disk, mem, bytes, blocked, net, pieces, failures, restarts>>

-----------------------------------------------------------------------------
(* The room and its messages.                                                *)

Prepares(n) ==
  /\ mem[n].room = "none" /\ Writes(n, <<[mem[n] EXCEPT !.room = "prepared"]>>)
  /\ Told(n, "prepared") /\ UNCHANGED <<bytes, net, pieces>>

\* mutant
NamedFirst(s, setup) ==
  <<[s EXCEPT !.room = "made", !.setup = setup],
    [s EXCEPT !.history = <<>>, !.room = "made", !.setup = setup]>>
\* The history is stored before the catalog names the room.
WithRoom(s, setup) ==
  <<[s EXCEPT !.history = <<>>],
    [s EXCEPT !.history = <<>>, !.room = "made", !.setup = setup]>>
CompletesSetup(n) ==
  /\ ~mem[n].setup
  /\ Writes(n, IF mem[n].room = "prepared" THEN WithRoom(mem[n], TRUE)
               ELSE <<[mem[n] EXCEPT !.setup = TRUE]>>)
  /\ UNCHANGED <<bytes, told, net, pieces>>
Creates(n) ==
  IF mem[n].room = "made" THEN SaysAgain(n, "made")
  ELSE /\ mem[n].room = "none" /\ Writes(n, WithRoom(mem[n], mem[n].setup))
       /\ Told(n, "made") /\ UNCHANGED <<bytes, net, pieces>>

\* The bytes are stored before the record that names them.
Stores(n, q) ==
  /\ bytes' = [bytes EXCEPT ![n] = TRUE]
  /\ Writes(n, <<[mem[n] EXCEPT !.index = @ \cup {q}]>>)
Uploads(q) ==
  /\ mem[Sender].room = "made" /\ q \in Attached \ mem[Sender].index
  /\ Stores(Sender, q) /\ UNCHANGED <<told, net, pieces>>
Sends(q) ==
  /\ mem[Sender].room = "made"
  /\ IF q \in Messages(mem[Sender]) THEN SaysAgain(Sender, q)
     ELSE /\ q \in Attached => q \in mem[Sender].index
          /\ Writes(Sender, <<[mem[Sender] EXCEPT !.history = Append(@, q)]>>)
          /\ Told(Sender, q) /\ UNCHANGED <<bytes, net, pieces>>

\* What was said before stays private to the node.
Pairs(n) ==
  /\ mem[n].setup /\ mem[n].room = "made" /\ ~mem[n].paired
  /\ Writes(n, <<[mem[n] EXCEPT !.paired = TRUE, !.excluded = Messages(mem[n])]>>)
  /\ UNCHANGED <<bytes, told, net, pieces>>

-----------------------------------------------------------------------------
(* Delivery.  Only the first message the other node has not confirmed is on  *)
(* its way, and only after the other node confirmed the file it carries.     *)

\* mutant
KeptToo(s, q) == q \notin s.acknowledged
Kept(s, q) == q \notin s.excluded \cup s.acknowledged
Pending(s) == IF s.paired THEN SelectSeq(s.history, LAMBDA q : Kept(s, q)) ELSE <<>>
Packets(q) == IF q \in Attached \ mem[Sender].files THEN {<<"file", q>>}
              ELSE {<<"chunk", q, i>> : i \in 1 .. Chunks}
Pumps ==
  /\ Pending(mem[Sender]) # <<>>
  /\ LET q == Head(Pending(mem[Sender])) IN ~Packets(q) \subseteq net /\ net' = net \cup Packets(q)
  /\ UNCHANGED <<disk, mem, bytes, blocked, told, pieces, failures, restarts>>

\* A receipt goes out once the thing is stored, and again when it comes again.
Receipt(p) == IF Saved(Receiver) THEN net' = net \cup {p} ELSE net' = net
HasIt(p) ==
  /\ Receiver \notin blocked /\ net' = net \cup {p}
  /\ UNCHANGED <<disk, mem, bytes, blocked, failures, restarts>>

TakesFile(q) ==
  /\ <<"file", q>> \in net /\ mem[Receiver].paired
  /\ IF q \in mem[Receiver].index THEN HasIt(<<"file-ack", q>>)
     ELSE Stores(Receiver, q) /\ Receipt(<<"file-ack", q>>)
  /\ UNCHANGED <<told, pieces>>

Receives(q) ==
  /\ q \in Attached => q \in mem[Receiver].index
  /\ IF q \in Messages(mem[Receiver]) THEN HasIt(<<"ack", q>>)
     ELSE /\ Writes(Receiver, <<[mem[Receiver] EXCEPT !.history = Append(@, q)]>>)
          /\ Receipt(<<"ack", q>>) /\ UNCHANGED bytes
  /\ UNCHANGED told
\* Whatever comes of it, what was put together is let go.
Refuses(q) ==
  /\ \/ Receiver \in blocked
     \/ q \in Attached \ mem[Receiver].index
  /\ UNCHANGED <<disk, mem, bytes, blocked, told, net, failures, restarts>>

TakesChunk(q, i) ==
  /\ <<"chunk", q, i>> \in net /\ mem[Receiver].paired
  /\ pieces[q] = {} => Cardinality({r \in Request : pieces[r] # {}}) < MaxAssemblies
  /\ IF pieces[q] \cup {i} = 1 .. Chunks
     THEN pieces' = [pieces EXCEPT ![q] = {}] /\ (Receives(q) \/ Refuses(q))
     ELSE /\ i \notin pieces[q] /\ pieces' = [pieces EXCEPT ![q] = @ \cup {i}]
          /\ UNCHANGED <<disk, mem, bytes, blocked, told, net, failures, restarts>>
Expires(q) ==
  /\ pieces[q] # {} /\ pieces' = [pieces EXCEPT ![q] = {}]
  /\ UNCHANGED <<disk, mem, bytes, blocked, told, net, failures, restarts>>

\* The sender retires what the receiver has stored.
Acknowledged(q) ==
  /\ <<"ack", q>> \in net
  /\ q \in Messages(mem[Sender]) /\ Kept(mem[Sender], q)
  /\ Writes(Sender, <<[mem[Sender] EXCEPT !.acknowledged = @ \cup {q}]>>)
  /\ UNCHANGED <<bytes, told, net, pieces>>
FileAcknowledged(q) ==
  /\ <<"file-ack", q>> \in net /\ bytes[Sender]
  /\ q \in (Messages(mem[Sender]) \cap mem[Sender].index) \ (mem[Sender].excluded \cup mem[Sender].files)
  /\ Writes(Sender, <<[mem[Sender] EXCEPT !.files = @ \cup {q}]>>)
  /\ UNCHANGED <<bytes, told, net, pieces>>

-----------------------------------------------------------------------------
(* Starting again.  A node reads its store, and drops the uploads no message *)
(* used for a day, then bytes no record names.  It refuses to start on a     *)
(* store that does not hold together.                                        *)

Recoverable(s, other) ==
  /\ s.room = "made" => s.history # Nothing
  /\ s.history # Nothing => Cardinality(Messages(s)) = Len(s.history)
  /\ s.excluded \cup s.acknowledged \subseteq Messages(s) /\ s.acknowledged \cap s.excluded = {}
  /\ other /\ Messages(s) # {} => s.paired

\* mutant
Uploaded(s) == s.index
Unused(s) == s.index \ Messages(s)
Starts(n) ==
  /\ restarts < MaxRestarts /\ restarts' = restarts + 1
  /\ Recoverable(disk[n], n = Receiver)
  /\ \E old \in {{}, Unused(disk[n])} :
       LET s == [disk[n] EXCEPT !.index = @ \ old] IN
         /\ disk' = [disk EXCEPT ![n] = s] /\ mem' = [mem EXCEPT ![n] = s]
         /\ bytes' = [bytes EXCEPT ![n] = @ /\ s.index # {}]
  /\ blocked' = blocked \ {n}
  /\ pieces' = IF n = Receiver THEN [q \in Request |-> {}] ELSE pieces
  /\ UNCHANGED <<told, net, failures>>

NodesNext ==
  \/ \E n \in Node : Prepares(n) \/ CompletesSetup(n) \/ Creates(n) \/ Pairs(n) \/ Starts(n)
  \/ \E q \in Request :
       \/ Uploads(q) \/ Sends(q) \/ TakesFile(q) \/ Expires(q)
       \/ Acknowledged(q) \/ FileAcknowledged(q)
       \/ \E i \in 1 .. Chunks : TakesChunk(q, i)
  \/ Pumps

NodesSpec == NodesInit /\ [][NodesNext]_nodes

-----------------------------------------------------------------------------
(* What is relied on.                                                        *)

\* What a node said it stored is in its store, whatever fails after.
ToldIsStored ==
  /\ \A n \in Node : "made" \in told[n] => disk[n].room = "made"
  /\ \A n \in Node : "prepared" \in told[n] => disk[n].room # "none"
  /\ told[Sender] \cap Request \subseteq Messages(disk[Sender])

\* A node can always be started again on what it stored.
StartsAgain == \A n \in Node : Recoverable(disk[n], n = Receiver)

\* What arrived is what was said since the pairing, each once and in order.
InOrder ==
  Messages(disk[Receiver]) # {} =>
    LET said == SelectSeq(disk[Sender].history, LAMBDA q : q \notin disk[Sender].excluded)
        arrived == disk[Receiver].history
    IN Len(arrived) <= Len(said) /\ arrived = SubSeq(said, 1, Len(arrived))

\* A message that counts as delivered is stored by the other node, and a
\* message comes with its file, whose bytes are there.
Delivered ==
  /\ disk[Sender].acknowledged \subseteq Messages(disk[Receiver])
  /\ \A n \in Node : Messages(disk[n]) \cap Attached \subseteq disk[n].index
  /\ \A n \in Node : disk[n].index # {} => bytes[n]

NodesSound == ToldIsStored /\ StartsAgain /\ InOrder /\ Delivered
=============================================================================
