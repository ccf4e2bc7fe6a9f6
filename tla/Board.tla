------------------------------- MODULE Board -------------------------------
(***************************************************************************)
(* One task of a room's board (src/browser/board.ts): every change is an   *)
(* operation that carries the whole task at one revision; devices send     *)
(* them as they happen and exchange what they hold, in any order, and fold *)
(* what they hold to what they show.  A device whose board is large drops  *)
(* operations that no longer decide anything (compactBoard).               *)
(*                                                                         *)
(* An operation's content is its id: what a task says is which operation   *)
(* wins.  Only the assignment is looked into, since a task also shows who  *)
(* made it.                                                                *)
(***************************************************************************)
EXTENDS Naturals, FiniteSets, FiniteSetsExt

CONSTANTS
  Device,     \* each of another member
  Assignee,   \* who the task may be assigned to
  CompactAt,  \* a board of more operations is compacted
  Tail,       \* KEPT_TAIL
  Jump,       \* MAX_REVISION_JUMP
  MaxOps      \* bound on changes

VARIABLES
  ops,   \* what each device holds
  seen,  \* history: every operation a device accepted
  late   \* history: devices that took an operation into a part already compacted

vars == <<ops, seen, late>>

Op == [rev : 1..MaxOps, id : 1..MaxOps, assignee : Assignee, removed : BOOLEAN]

TypeOK ==
  /\ ops \in [Device -> SUBSET Op]
  /\ seen \in [Device -> SUBSET Op]
  /\ late \subseteq Device

-----------------------------------------------------------------------------
(* The fold.                                                               *)

Highest(S) == Max({0} \cup {o.rev : o \in S})

(* At each revision only the operation with the highest id counts.         *)
Chain(S) == {o \in S : \A p \in S : p.rev = o.rev => p.id <= o.id}
Removals(S) == {o \in S : o.removed}
First(S) == CHOOSE o \in S : \A p \in S : o.rev < p.rev \/ (o.rev = p.rev /\ o.id <= p.id)
Last(S) == CHOOSE o \in Chain(S) : o.rev = Highest(S)

(* Where the present assignee was set: the earliest step of the chain from which *)
(* on the assignee has not changed.                                              *)
Assigned(S) ==
  LET steps == Chain(S)
      since(o) == \A p \in steps : p.rev >= o.rev => p.assignee = Last(S).assignee
  IN First({o \in steps : since(o)})

(* A removal always wins.                                                      *)
Content(S) ==
  IF S = {} \/ Removals(S) # {} THEN {}
  ELSE {<<Last(S), First(Chain(S))>>}
Credit(S) == IF Content(S) = {} THEN {} ELSE {Assigned(S)}

-----------------------------------------------------------------------------
(* What is kept and what is taken.                                         *)

(* The last Tail steps from `at` on.                                       *)
Recent(steps, at) ==
  {o \in steps : o.rev >= at.rev /\ Cardinality({p \in steps : p.rev > o.rev}) < Tail}
NothingBefore(steps, at) == {} \* mutant
Before(steps, at) ==
  LET earlier == {o \in steps : o.rev < at.rev} IN {o \in earlier : o.rev = Highest(earlier)}

compactBoard(S) ==
  IF Removals(S) # {} THEN {First(Removals(S))}
  ELSE LET steps == Chain(S) at == Assigned(S)
       IN {First(steps), at} \cup Before(steps, at) \cup Recent(steps, at)

Bounded(S) == IF Cardinality(S) > CompactAt THEN compactBoard(S) ELSE S

(* An operation is taken when no more than Jump revisions lie between it and    *)
(* what is held or taken before it.                                             *)
FarFromHeld(held, incoming) == {o \in incoming : o.rev <= Highest(held) + Jump} \* mutant
withinRevisionJump(held, incoming) ==
  LET high == Highest(held)
      revs == {high} \cup {o.rev : o \in {p \in incoming : p.rev > high}}
      reached(o) == \A r \in {x \in revs : x < o.rev} : \E n \in revs : n > r /\ n <= r + Jump
  IN {o \in incoming : reached(o)}

(* addOps: what a device holds after it was given `incoming`.                   *)
Fresh(held, incoming) == withinRevisionJump(held, incoming \ held)
addOps(held, incoming) == Bounded(held \cup Fresh(held, incoming))

Take(d, incoming) ==
  LET fresh == Fresh(ops[d], incoming) IN
  /\ fresh # {}
  /\ ops' = [ops EXCEPT ![d] = addOps(@, incoming)]
  /\ seen' = [seen EXCEPT ![d] = @ \cup fresh]
  /\ late' = IF \E o \in fresh : o.rev <= Highest(ops[d]) /\ ops[d] # seen[d]
             THEN late \cup {d} ELSE late

-----------------------------------------------------------------------------
Init ==
  /\ ops = [d \in Device |-> {}]
  /\ seen = ops
  /\ late = {}

Made == UNION {seen[d] : d \in Device}
Unused == 1..MaxOps \ {o.id : o \in Made}

(* changeTask: a new task, or the next revision of the task as the device shows *)
(* it or as it did when the form was opened.                                    *)
Create(d) ==
  /\ Made = {}
  /\ \E a \in Assignee :
       Take(d, {[rev |-> 1, id |-> 1, assignee |-> a, removed |-> FALSE]})

Change(d) ==
  /\ Content(ops[d]) # {}
  /\ \E c \in Chain(ops[d]), i \in Unused, a \in Assignee, r \in BOOLEAN :
       Take(d, {[rev |-> c.rev + 1, id |-> i, assignee |-> a, removed |-> r]})

(* An operation sent as it was made, or one of those another device holds or      *)
(* held: what arrives late was sent before the sender compacted.                 *)
Receive(d) == \E e \in Device \ {d} : \E o \in seen[e] : Take(d, {o})

(* Two devices connect and each is sent what the other holds.                    *)
Exchange(d, e) ==
  /\ ops[d] # ops[e]
  /\ Take(d, ops[e])

Next ==
  \E d \in Device :
    \/ Create(d) \/ Change(d) \/ Receive(d)
    \/ \E e \in Device \ {d} : Exchange(d, e)

Spec == Init /\ [][Next]_vars

-----------------------------------------------------------------------------
(* A device shows the task, and who created it, as everything it was ever given  *)
(* says, whatever it dropped and whatever came late; and who assigned it too,    *)
(* unless a change came late into what it had compacted.                         *)
CompactionKeeps ==
  \A d \in Device :
    /\ Content(ops[d]) = Content(seen[d])
    /\ d \in late \/ Credit(ops[d]) = Credit(seen[d])

(* Two devices that exchange what they hold show the same task and the same       *)
(* credit afterwards, however much either missed or dropped.                      *)
ExchangeAgrees ==
  \A d \in Device : \A e \in Device \ {d} :
    LET mine == addOps(ops[d], ops[e])
        theirs == addOps(ops[e], ops[d])
    IN Content(mine) = Content(theirs) /\ Credit(mine) = Credit(theirs)

BoardsAgree == TypeOK /\ CompactionKeeps /\ ExchangeAgrees
=============================================================================
