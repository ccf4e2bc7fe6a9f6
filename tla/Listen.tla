------------------------------- MODULE Listen --------------------------------
(***************************************************************************)
(* What `listen` gives an agent and where the next one continues           *)
(* (src/server/browser-agent.ts, src/collab.ts): messages after a cursor,  *)
(* and the changes of the board and of decisions after a number each.      *)
(* The runner stores what arrives while a listen reads; both only share    *)
(* files, and each step below reads or writes one of them.                 *)
(* A change may or may not be for the agent: an assignment, or a decision  *)
(* that asks it.  Whether it still is when it is read is left out.         *)
(***************************************************************************)
EXTENDS Integers, FiniteSets

CONSTANTS
  Stream,        \* the logs of numbered changes: tasks and decisions
  Window,        \* messages the history keeps
  MaxMessages, MaxChanges, MaxListens

VARIABLES
  last,          \* messages that arrived; the history holds the newest Window
  addressed,     \* those for the agent
  changes,       \* per stream, the number of the newest change in its file
  counter,       \* per stream, the number in the file beside it
  asked,         \* per stream, the changes for the agent
  cursor,        \* what the last listen saved
  phase, plan,    \* the listen under way, and the cursors it works from
  history,       \* it is a first one, or one from the start
  newest,          \* the newest change it read of each stream, and message
  given,         \* messages returned to the agent
  told,          \* per stream, the changes returned to it
  torn,          \* streams whose counter was read ahead of their changes
  listens

vars == <<last, addressed, changes, counter, asked, cursor, phase, plan, history, newest, given, told, torn, listens>>
stored == <<last, addressed, changes, counter, asked>>

Unread == [after |-> 0, numbers |-> [s \in Stream |-> 0]]
NoCursor == [after |-> -1, numbers |-> [s \in Stream |-> 0]]
Cursor == [after : -1..MaxMessages, numbers : [Stream -> 0..MaxChanges]]
Larger(a, b) == IF a > b THEN a ELSE b

TypeOK ==
  /\ last \in 0..MaxMessages /\ addressed \cup given \subseteq 1..last
  /\ changes \in [Stream -> 0..MaxChanges] /\ counter \in [Stream -> 0..MaxChanges]
  /\ \A s \in Stream : asked[s] \cup told[s] \subseteq 1..Larger(changes[s], counter[s])
  /\ {cursor, plan, newest} \subseteq Cursor
  /\ phase \in {"idle", "listen", "read"} /\ history \in BOOLEAN /\ torn \subseteq Stream

Init ==
  /\ last = 0 /\ addressed = {} /\ changes = Unread.numbers /\ counter = Unread.numbers
  /\ asked = [s \in Stream |-> {}]
  /\ cursor = NoCursor /\ phase = "idle" /\ plan = Unread /\ history = FALSE /\ newest = Unread
  /\ given = {} /\ told = asked /\ torn = {} /\ listens = 0

-----------------------------------------------------------------------------
(* The runner.                                                               *)

listening == <<cursor, phase, plan, history, newest, given, told, torn, listens>>

Arrive ==
  /\ last < MaxMessages /\ last' = last + 1
  /\ addressed' \in {addressed, addressed \cup {last'}}
  /\ UNCHANGED <<changes, counter, asked, listening>>
Writing(s) == counter[s] > changes[s]
\* A change is appended; when the log is compacted for it, its number is
\* written to the counter first and the log after.
Append(s) ==
  /\ ~Writing(s) /\ changes[s] < MaxChanges
  /\ changes' = [changes EXCEPT ![s] = @ + 1]
  /\ asked' \in {asked, [asked EXCEPT ![s] = @ \cup {changes'[s]}]}
  /\ UNCHANGED <<last, addressed, counter, listening>>
CountFirst(s) ==
  /\ ~Writing(s) /\ changes[s] < MaxChanges
  /\ counter' = [counter EXCEPT ![s] = changes[s] + 1]
  /\ asked' \in {asked, [asked EXCEPT ![s] = @ \cup {counter'[s]}]}
  /\ UNCHANGED <<last, addressed, changes, listening>>
Compact(s) ==
  /\ Writing(s) /\ changes' = [changes EXCEPT ![s] = counter[s]]
  /\ UNCHANGED <<last, addressed, counter, asked, listening>>

-----------------------------------------------------------------------------
(* A listen.                                                                 *)

Oldest == Larger(last - Window, 0)
\* A cursor for a message that has left the history starts over.
After(c) == IF c.after > Oldest THEN c.after ELSE 0
\* listenPlan; with nothing saved, or from the start, it asks for history.
Begin(fromStart) ==
  /\ phase = "idle" /\ listens < MaxListens /\ listens' = listens + 1
  /\ phase' = "listen" /\ history' = (cursor = NoCursor \/ fromStart)
  /\ plan' = IF history' THEN Unread
             ELSE [after |-> After(cursor), numbers |-> cursor.numbers]
  /\ UNCHANGED <<stored, cursor, newest, given, told, torn>>

\* The changes are read, then the counters.
ReadChanges ==
  /\ phase = "listen"
  /\ newest' = [after |-> last, numbers |-> changes]
  /\ phase' = "read"
  /\ UNCHANGED <<stored, cursor, plan, history, given, told, torn, listens>>
RevisionNow(s) == Larger(counter[s], changes[s]) \* mutant
Revision(s) == Larger(counter[s], newest.numbers[s])
For(s) == {n \in asked[s] : plan.numbers[s] < n /\ n <= newest.numbers[s]}
Messages == {n \in 1..newest.after : n > Larger(plan.after, newest.after - Window)}
IsHistory == plan.after = 0 /\ Messages # {}
Wakes(s) == For(s) # {}
Spoken == Messages \cap addressed # {}

\* It answers at once with what is for the agent, or with the history;
\* the number of the board moves when a message or a task woke it, that of the
\* decisions always, and the message cursor not for a decision alone.
Answers(first) == IsHistory \/ Spoken \/ first \/ \E s \in Stream : Wakes(s)
Moves(s, first) == s # "tasks" \/ IsHistory \/ Spoken \/ Wakes("tasks") \/ first
Tells(s) == For(s)
Over == phase' = "idle" /\ plan' = Unread /\ history' = FALSE /\ newest' = Unread
Answer ==
  /\ phase = "read" /\ Over
  /\ \E first \in {FALSE, history /\ plan.after = 0} :
       /\ Answers(first)
       /\ cursor' =
            [after |-> IF Messages # {} /\ (IsHistory \/ Spoken \/ Wakes("tasks"))
                       THEN newest.after ELSE plan.after,
             numbers |-> [s \in Stream |-> IF Moves(s, first) THEN Revision(s) ELSE plan.numbers[s]]]
  /\ given' = given \cup Messages
  /\ told' = [s \in Stream |-> told[s] \cup Tells(s)]
  /\ torn' = torn \cup {s \in Stream : counter[s] > newest.numbers[s]}
  /\ UNCHANGED <<stored, listens>>

\* Nothing yet: it looks again, or its time ends, the room closes or the runner
\* stops, and the cursors stay.
Again ==
  /\ phase = "read" /\ ~Answers(FALSE) /\ phase' = "listen" /\ newest' = Unread
  /\ UNCHANGED <<stored, cursor, plan, history, given, told, torn, listens>>
Observed == newest \* mutant
Unchanged == plan
Ends ==
  /\ phase # "idle" /\ cursor' = Unchanged /\ Over
  /\ UNCHANGED <<stored, given, told, torn, listens>>
\* The command dies before it saved: nothing was returned.
Dies ==
  /\ phase # "idle" /\ Over
  /\ UNCHANGED <<stored, cursor, given, told, torn, listens>>

Next ==
  \/ Arrive \/ \E s \in Stream : Append(s) \/ CountFirst(s) \/ Compact(s)
  \/ \E fromStart \in BOOLEAN : Begin(fromStart)
  \/ ReadChanges \/ Answer \/ Again \/ Ends \/ Dies
Spec == Init /\ [][Next]_vars

-----------------------------------------------------------------------------
\* The saved cursors are never past something for the agent that no listen
\* returned, of what the history still held; a change whose number a listen
\* read before the change itself excepted.
NothingSkipped ==
  /\ \A n \in addressed : n <= cursor.after => n \in given \/ n <= last - Window
  /\ \A s \in Stream \ torn, n \in 1..MaxChanges :
       n \in asked[s] /\ n <= cursor.numbers[s] => n \in told[s]
\* The same without the exception.
CompactionSkipsNothing == \A s \in Stream, n \in 1..MaxChanges :
  n \in asked[s] /\ n <= cursor.numbers[s] => n \in told[s]
=============================================================================
