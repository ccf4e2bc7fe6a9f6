------------------------------- MODULE Notices -------------------------------
(***************************************************************************)
(* What the person hears of while no tab is open: the daemon gathers items *)
(* (messages for the person, requests and approvals waiting, agents that   *)
(* stopped) into a feed of entries, one per room at a time and only so     *)
(* many in a minute (src/server/notifications.ts), and the desktop app     *)
(* reads that feed with a cursor and posts each entry                      *)
(* (src/desktop/src-tauri/src/notify.rs).                                  *)
(* A read that fails keeps the cursor and posts nothing, so it is no step. *)
(* An entry's text, which rooms are set to notify, and the app's summary   *)
(* of its agents are left out.                                             *)
(***************************************************************************)
EXTENDS Naturals, Sequences, FiniteSets, Functions

CONSTANTS
  Key,                       \* rooms, and the agents and the approvals
  Thing,                     \* requests and approvals that wait until settled
  WaitingKey,                \* what those are gathered under
  Unset,
  CoalesceTime, Minute, CapPerMinute, KeptNotices, PageSize,
  MaxItems, MaxTime, MaxRestarts

VARIABLES
  now,
  daemon,        \* which daemon runs
  bucket,        \* per key: when its last entry went out, its items, since when
  entries,       \* every entry of this daemon; it keeps the newest
  standing, known, settled,  \* things that wait; those it knows; those settled
  items, taken,  \* items so far; those this daemon added
  at,            \* the app's cursor
  base, posted   \* where its reading of this daemon began; how often it posted each

noticing == <<now, daemon, bucket, entries, standing, known, settled, items, taken, at, base, posted>>

Empty == [last |-> Unset, items |-> {}, since |-> 0]
Item == (1 .. MaxItems) \cup Thing
NonePosted == [i \in Item |-> 0]
Nowhere == <<0, 0>>   \* no cursor yet, as if of no daemon

NoticesInit ==
  /\ now = 1 /\ daemon = 1 /\ bucket = [k \in Key |-> Empty] /\ entries = <<>>
  /\ standing \in SUBSET Thing /\ known = {} /\ settled = {}
  /\ items = 0 /\ taken = {} /\ at = Nowhere /\ base = 0 /\ posted = NonePosted

-----------------------------------------------------------------------------
(* The feed: items come in, entries go out.                                  *)

Over(b, t) == b.last = Unset \/ t - b.last >= CoalesceTime
Added(b, S, t) ==
  IF S = {} THEN b ELSE [b EXCEPT !.items = @ \cup S, !.since = IF b.items = {} THEN t ELSE @]
Forgotten(b, t) == b.items = {} /\ Over(b, t)
Recent(t) == {n \in DOMAIN entries : t - entries[n].at < Minute}
NoCap(t) == Cardinality(Key) \* mutant: the minute's cap is not looked at
Room(t) == CapPerMinute - Cardinality(Recent(t))
\* What never went out goes first, then what went out longest ago.
Anyhow(a, b) == FALSE \* mutant: the buckets go in any order
First(a, b) ==
  IF a.last = Unset THEN b.last # Unset \/ a.since < b.since
  ELSE b.last # Unset /\ a.last < b.last
InOrder(out, bs) ==
  CHOOSE row \in Bijection(1 .. Cardinality(out), out) :
    \A i, j \in DOMAIN row : i < j => ~First(bs[row[j]], bs[row[i]])

\* What may go now goes, in order; `bs` are the buckets with what was added.
Flush(bs, t) ==
  LET due == {k \in Key : bs[k].items # {} /\ Over(bs[k], t)}
  IN \E out \in SUBSET due :
       /\ Cardinality(out) = IF Cardinality(due) < Room(t) THEN Cardinality(due) ELSE Room(t)
       /\ \A k \in out, j \in due \ out : ~First(bs[j], bs[k])
       /\ LET row == InOrder(out, bs)
          IN entries' = entries \o [n \in DOMAIN row |->
                          [key |-> row[n], at |-> t, items |-> bs[row[n]].items]]
       /\ bucket' = [k \in Key |->
            IF k \in out THEN [last |-> t, items |-> {}, since |-> 0]
            ELSE IF Forgotten(bs[k], t) THEN Empty ELSE bs[k]]

\* A message for the person, or an agent of theirs that stopped.
Adds(k) ==
  /\ items < MaxItems /\ items' = items + 1 /\ taken' = taken \cup {items'}
  /\ Flush([bucket EXCEPT ![k] = Added(@, {items'}, now)], now)
  /\ UNCHANGED <<now, daemon, standing, known, settled, at, base, posted>>

\* A request or an approval comes, or is settled.
Arrives(x) ==
  /\ x \notin standing \cup settled /\ standing' = standing \cup {x}
  /\ UNCHANGED <<now, daemon, bucket, entries, known, settled, items, taken, at, base, posted>>
Settles(x) ==
  /\ x \in standing /\ standing' = standing \ {x} /\ settled' = settled \cup {x}
  /\ UNCHANGED <<now, daemon, bucket, entries, known, items, taken, at, base, posted>>

EachTime == standing \* mutant: what waits is announced at every look
News == standing \ known
\* Once a second: what newly waits is added, and what may go goes.
Polls ==
  /\ now < MaxTime /\ now' = now + 1
  /\ known' = standing /\ taken' = taken \cup News
  /\ Flush([bucket EXCEPT ![WaitingKey] = Added(@, News, now')], now')
  /\ UNCHANGED <<daemon, standing, settled, items, at, base, posted>>

\* A new daemon: everything it gathered is gone.
Restarts ==
  /\ daemon <= MaxRestarts /\ daemon' = daemon + 1
  /\ bucket' = [k \in Key |-> Empty] /\ entries' = <<>> /\ known' = {} /\ taken' = {}
  /\ UNCHANGED <<now, standing, settled, items, at, base, posted>>

-----------------------------------------------------------------------------
(* The app's reader.                                                         *)

Gone(s) == FALSE \* mutant: entries no longer kept are skipped
Dropped(s) == s + KeptNotices < Len(entries)
Reset == at[1] # daemon \/ at[2] > Len(entries) \/ Dropped(at[2])
ToTheEnd(s) == Len(entries) \* mutant: the cursor moves past entries not handed out
Upto(s) == IF s + PageSize < Len(entries) THEN s + PageSize ELSE Len(entries)
Handed(s) ==
  {n \in s + 1 .. (IF s + PageSize < Len(entries) THEN s + PageSize ELSE Len(entries)) :
     n + KeptNotices > Len(entries)}

\* The app's first answer, and one of another daemon, start from the feed's end.
StartsOver ==
  /\ Reset
  /\ at' = <<daemon, Len(entries)>> /\ base' = Len(entries) /\ posted' = NonePosted
  /\ UNCHANGED <<now, daemon, bucket, entries, standing, known, settled, items, taken>>
\* It posts what it was handed.
Posts ==
  /\ ~Reset /\ at[2] < Len(entries)
  /\ posted' = [i \in Item |->
       posted[i] + Cardinality({n \in Handed(at[2]) : i \in entries[n].items})]
  /\ at' = <<daemon, Upto(at[2])>>
  /\ UNCHANGED <<now, daemon, bucket, entries, standing, known, settled, items, taken, base>>
\* The app starts again.
AppStarts ==
  /\ at # Nowhere /\ at' = Nowhere /\ base' = 0 /\ posted' = NonePosted
  /\ UNCHANGED <<now, daemon, bucket, entries, standing, known, settled, items, taken>>

NoticesNext ==
  \/ \E k \in Key : Adds(k)
  \/ \E x \in Thing : Arrives(x) \/ Settles(x)
  \/ Polls \/ Restarts \/ StartsOver \/ Posts \/ AppStarts

NoticesSpec == NoticesInit /\ [][NoticesNext]_noticing

-----------------------------------------------------------------------------
\* Every item a daemon added is in one entry, or waits in a bucket, once: none
\* is lost to merging, the cap or forgetting a bucket, and none is told twice.
CountedOnce ==
  \A i \in Item :
    Cardinality({n \in DOMAIN entries : i \in entries[n].items})
      + Cardinality({k \in Key : i \in bucket[k].items}) = IF i \in taken THEN 1 ELSE 0

\* The app posted every item of the entries its cursor passed, each once
\* (notify.rs: after a hiccup it "goes on where it was").
PostedOnce ==
  at[1] = daemon =>
    \A i \in Item :
      posted[i] = Cardinality({n \in base + 1 .. at[2] : i \in entries[n].items})

\* Entries of a key are far enough apart, and no minute has more than its cap.
Paced ==
  /\ \A m, n \in DOMAIN entries :
       m < n /\ entries[m].key = entries[n].key => entries[n].at - entries[m].at >= CoalesceTime
  /\ \A t \in 1 .. now :
       Cardinality({n \in DOMAIN entries : entries[n].at \in t .. t + Minute - 1}) <= CapPerMinute

\* Under the cap "a busy room can't starve the others" (notifications.ts): while
\* what never went out waits, no other key has a second entry.
NoneStarves ==
  \A k \in Key : bucket[k].last = Unset /\ bucket[k].items # {} =>
    \A j \in Key \ {k} :
      Cardinality({n \in DOMAIN entries : entries[n].key = j /\ entries[n].at > bucket[k].since}) <= 1

NoticesSound == CountedOnce /\ PostedOnce /\ Paced /\ NoneStarves
=============================================================================
