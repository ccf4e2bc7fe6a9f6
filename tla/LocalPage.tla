------------------------------ MODULE LocalPage ------------------------------
(***************************************************************************)
(* The room as the page on 127.0.0.1 shows it (src/src/browser/            *)
(* local-source.ts).  The room's runner writes the room's files; the       *)
(* daemon's event feed (src/server/local-api.ts) looks at them once a      *)
(* second and numbers what changed; the page waits for events with a       *)
(* cursor and reads the room's view (src/server/person.ts) again after     *)
(* each answer, one read at a time.                                        *)
(* Messages are numbered as they arrive; everything else in the room the   *)
(* page shows (its tasks, decisions, reactions, files and members) is a    *)
(* count of its changes.  A poll that fails is tried again with the same   *)
(* cursor, so it changes nothing and is no step.  A room that is closed or *)
(* still starting, the room list and the read position are left out.       *)
(***************************************************************************)
EXTENDS Naturals

CONSTANTS
  Limit, Older,              \* messages of a view, and of an older page
  Stored,                    \* messages the device stores (5000)
  KeptEvents, Batch,         \* events the feed keeps, and hands out at once
  MaxMessages, MaxRest, MaxRestarts, MaxFailures

VARIABLES
  low, high,       \* the messages stored: low .. high
  rest,            \* how often anything else in the room changed
  epoch,           \* which daemon runs
  seen, seq, from, \* what its feed last saw, its events, and the first it keeps
  token,           \* the daemon whose session this page holds
  cursor, polling, \* where the page is in the feed, and whether it asks
  timer, reading, again,  \* a read due, the answers on their way, one more after
  shown, added, other,    \* what the page shows: messages, older pages, the rest
  first, more,     \* no view has landed yet; earlier messages can be asked for
  failed, failures

roomFiles == <<low, high, rest>>
feed == <<epoch, seen, seq, from>>
showing == <<shown, added, other, first, more>>
viewing == <<token, cursor, polling, timer, reading, again, failed, showing>>
page == <<roomFiles, feed, viewing, failures>>

Start == <<0, 0>>   \* no cursor yet

LocalPageInit ==
  /\ low = 1 /\ high \in 0 .. Limit + 1 /\ rest = 0
  /\ epoch = 1 /\ seen = <<high, rest>> /\ seq = 0 /\ from = 1
  /\ token = 1 /\ cursor = Start /\ polling = TRUE
  /\ timer = TRUE /\ reading = {} /\ again = FALSE
  /\ shown = {} /\ added = {} /\ other = 0 /\ first = TRUE /\ more = FALSE
  /\ failed = FALSE /\ failures = 0

-----------------------------------------------------------------------------
(* The room's files, and the daemon's feed of what changed in them.          *)

\* A message is stored; the window drops the oldest.
Stores ==
  /\ high < MaxMessages /\ high' = high + 1
  /\ low' = IF high' - low + 1 > Stored THEN low + 1 ELSE low
  /\ UNCHANGED <<rest, feed, viewing, failures>>
Changes ==
  /\ rest < MaxRest /\ rest' = rest + 1
  /\ UNCHANGED <<low, high, feed, viewing, failures>>

\* One event for each new message, and one for everything else.
News == (high - seen[1]) + (IF rest # seen[2] THEN 1 ELSE 0)
FeedPoll ==
  /\ News > 0
  /\ seq' = seq + News /\ seen' = <<high, rest>>
  /\ from' = IF seq' - from + 1 > KeptEvents THEN seq' - KeptEvents + 1 ELSE from
  /\ UNCHANGED <<roomFiles, epoch, viewing, failures>>

\* A daemon that starts numbers from nothing, with what is there as its
\* baseline, and knows none of the sessions.
Restarts ==
  /\ epoch <= MaxRestarts /\ epoch' = epoch + 1
  /\ seen' = <<high, rest>> /\ seq' = 0 /\ from' = 1
  /\ UNCHANGED <<roomFiles, viewing, failures>>

-----------------------------------------------------------------------------
(* What the daemon answers: an events request, and the room's view.          *)

\* A cursor of another daemon, or of events no longer kept.
Reset == cursor[1] # epoch \/ cursor[2] > seq \/ cursor[2] + 1 < from
Answer ==
  IF cursor = Start \/ Reset THEN <<epoch, seq>>
  ELSE <<epoch, IF cursor[2] + Batch < seq THEN cursor[2] + Batch ELSE seq>>
\* An answer that moves nothing only ends the wait.
Something == cursor = Start \/ Answer # cursor

Newest(n) == IF high - low + 1 > n THEN high - n + 1 .. high ELSE low .. high
RoomView == [messages |-> Newest(Limit), rest |-> rest, more |-> high - low + 1 > Limit]

-----------------------------------------------------------------------------
(* The page's two loops.                                                     *)

SignedIn == token = epoch
Tells == TRUE   \* the listeners hear of every answer that brings something

\* The daemon no longer knows the session: polling ends.
PollRefused ==
  /\ polling /\ ~SignedIn /\ polling' = FALSE /\ token' = 0
  /\ UNCHANGED <<roomFiles, feed, cursor, timer, reading, again, failed, showing, failures>>
PollAnswered ==
  /\ polling /\ SignedIn /\ Something
  /\ cursor' = Answer /\ timer' = (timer \/ Tells)
  /\ UNCHANGED <<roomFiles, feed, token, polling, reading, again, failed, showing, failures>>

AlwaysFree == TRUE \* mutant: a read starts beside another
Free == reading = {}
\* A read is due: it starts, or the one under way is followed by another.
Reads ==
  /\ timer /\ timer' = FALSE
  /\ IF ~Free THEN again' = TRUE /\ UNCHANGED <<reading, failed, token>>
     ELSE /\ UNCHANGED again
          /\ IF SignedIn THEN reading' = reading \cup {RoomView} /\ UNCHANGED <<failed, token>>
             ELSE failed' = TRUE /\ token' = 0 /\ UNCHANGED reading
  /\ UNCHANGED <<roomFiles, feed, cursor, polling, showing, failures>>

AgainForgotten == FALSE \* mutant: a change during a read is not read again
Again == again
Followed(rs) == IF Again /\ SignedIn THEN rs \cup {RoomView} ELSE rs
\* A view lands: it replaces what the page shows, but for older pages asked for.
Lands(v) ==
  /\ v \in reading /\ reading' = Followed(reading \ {v}) /\ again' = FALSE
  /\ shown' = added \cup v.messages /\ other' = v.rest
  /\ more' = IF first THEN v.more ELSE more
  /\ first' = FALSE /\ failed' = (again /\ ~SignedIn)
  /\ UNCHANGED <<roomFiles, feed, token, cursor, polling, timer, added, failures>>
ReadFails(v) ==
  /\ v \in reading /\ failures < MaxFailures /\ failures' = failures + 1
  /\ reading' = Followed(reading \ {v}) /\ again' = FALSE /\ failed' = TRUE
  /\ UNCHANGED <<roomFiles, feed, token, cursor, polling, timer, showing>>

Oldest == CHOOSE m \in shown : \A n \in shown : m <= n
OldPage == IF Oldest - low > Older THEN Oldest - Older .. Oldest - 1 ELSE low .. Oldest - 1
\* Show earlier messages: a page before the oldest shown, then a read.  An
\* oldest that has left the window is an error.
LoadsOlder ==
  /\ more /\ shown # {} /\ SignedIn /\ Oldest >= low /\ ~timer
  /\ added' = added \cup OldPage /\ more' = (Oldest - low > Older)
  /\ timer' = TRUE
  /\ UNCHANGED <<roomFiles, feed, token, cursor, polling, reading, again, failed,
                 shown, other, first, failures>>

\* The person opens the app's link again: a page of its own starts.
Reopens ==
  /\ ~SignedIn /\ token' = epoch /\ cursor' = Start /\ polling' = TRUE
  /\ timer' = TRUE /\ reading' = {} /\ again' = FALSE /\ failed' = FALSE
  /\ shown' = {} /\ added' = {} /\ other' = 0 /\ first' = TRUE /\ more' = FALSE
  /\ UNCHANGED <<roomFiles, feed, failures>>

LocalPageNext ==
  \/ Stores \/ Changes \/ FeedPoll \/ Restarts
  \/ PollRefused \/ PollAnswered \/ Reads \/ LoadsOlder \/ Reopens
  \/ \E v \in reading : Lands(v) \/ ReadFails(v)

LocalPageSpec == LocalPageInit /\ [][LocalPageNext]_page

-----------------------------------------------------------------------------
\* Nothing is under way between the room's files and the page.
Quiet ==
  /\ polling /\ SignedIn /\ ~timer /\ reading = {} /\ ~first
  /\ cursor = <<epoch, seq>> /\ seen = <<high, rest>>

\* A page that shows no error and has nothing under way shows the newest
\* messages and everything else as they are: no change falls between its reads
\* and its events, whatever the feed dropped meanwhile.
NothingMissed ==
  Quiet /\ ~failed => Newest(Limit) \subseteq shown /\ other = rest

\* An older answer never lands after a newer one (local-source.ts): what a page
\* shows never goes back while it stays open.
NeverBack ==
  [][shown' # {} => other <= other' /\ \A m \in shown : \E n \in shown' : m <= n]_page
=============================================================================
