------------------------------ MODULE MCDesktop ------------------------------
(***************************************************************************)
(* The instances that are checked of the desktop app and of a person's own *)
(* machine: approvals, wakes of one agent, the identities a machine keeps, *)
(* joining and pairing, the local page, the notices the app posts and the  *)
(* native nodes.  They share no state, so a behaviour runs one of them and *)
(* leaves the others at their start.                                       *)
(***************************************************************************)
LOCAL INSTANCE Naturals
CONSTANTS
  Unset,
  Requests, Draft, MaxEdits, MaxReads, MaxLosses,
  MaxWakes, Hour, MaxIdle, Backoff, RetryAfter, Overdue, MaxRuns, MaxBindings, MaxMisfires, MaxHours,
  MaxBinds, MaxHolds, MaxFaults,
  PersonRoom, Secret, MaxWrong, MaxLinks, MaxJoins, MaxAccidents,
  Limit, Older, Stored, KeptEvents, Batch, MaxAdded, MaxRest, MaxRestarts, MaxFailures,
  Key, Thing, WaitingKey, CoalesceTime, Minute, CapPerMinute, KeptNotices, PageSize, MaxItems,
  MaxMinutes,
  Sender, Receiver, NodeMessage, Attached, PerMessage, MaxAssemblies

VARIABLES
  part,
  binds, said, labels, acting, made, list, offered, changed, busy, up, preview, custom, confirming,
  reads, answering, viewed, clicked, drafted, edits, losses,
  bound, enabled, watch, under, alive, began, active, resting, halted, backoff, idle, woken,
  breached, cut, clock, misfires,
  named, record, folder, departed, runner, binding, hold, watcher, change, tardy, refused,
  unanswered, overtaken, generations, holds, faults,
  request, member, sole, key, paired, inList, heard, pair, unpair, titling, join, pairing,
  unpairing, joining, links, joins, accidents, severed, orphaned,
  low, high, rest, daemonEpoch, fed, seq, from, token, place, polling, timer, reading, again,
  shown, added, other, first, more, failed, failures,
  minute, daemon, bucket, entries, standing, known, settled, items, taken, at, base, posted,
  disk, answers, bytes, blocked, said2, packets, pieces, breakdowns, restarts

App == INSTANCE Approvals WITH
  Asked <- Requests, Nothing <- Unset, given <- offered, shown <- preview, seen <- viewed
Wat == INSTANCE Watch WITH
  Retry <- RetryAfter, MaxFaults <- MaxMisfires, MaxTime <- MaxHours, phase <- watch, paused <- resting,
  faults <- misfires
Ide == INSTANCE Identities WITH
  Nothing <- Unset, listed <- named, left <- departed, asked <- refused,
  standing <- unanswered, torn <- overtaken, late <- tardy
Per == INSTANCE Pairing WITH
  Nothing <- Unset, Room <- PersonRoom, MaxTrouble <- MaxAccidents, listed <- inList,
  trouble <- accidents, torn <- severed
Pag == INSTANCE LocalPage WITH
  MaxMessages <- MaxAdded, epoch <- daemonEpoch, seen <- fed, cursor <- place
Not == INSTANCE Notices WITH MaxTime <- MaxMinutes, now <- minute
Nod == INSTANCE NativeNode WITH
  Request <- NodeMessage, Chunks <- PerMessage, Nothing <- Unset, mem <- answers, told <- said2, net <- packets, failures <- breakdowns

approving == <<binds, said, labels, acting, made, list, offered, changed, busy, up, preview, custom,
               confirming, reads, answering, viewed, clicked, drafted, edits, losses>>
watching == <<bound, enabled, watch, under, alive, began, active, resting, halted, backoff, idle,
              woken, breached, cut, clock, misfires>>
identities == <<named, record, folder, departed, runner, binding, hold, watcher, change, tardy,
                refused, unanswered, overtaken, generations, holds, faults>>
person == <<request, member, sole, key, paired, inList, heard, pair, unpair, titling, join, pairing,
            unpairing, joining, links, joins, accidents, severed, orphaned>>
page == <<low, high, rest, daemonEpoch, fed, seq, from, token, place, polling, timer, reading,
          again, shown, added, other, first, more, failed, failures>>
noticing == <<minute, daemon, bucket, entries, standing, known, settled, items, taken, at, base,
              posted>>
nodes == <<disk, answers, bytes, blocked, said2, packets, pieces, breakdowns, restarts>>

desktop == <<approving, watching, identities, person, page, noticing, nodes>>

DesktopInit ==
  /\ App!ApprovalsInit /\ Wat!WatchInit /\ Ide!IdentitiesInit /\ Pag!LocalPageInit
  /\ Not!NoticesInit /\ Nod!NodesInit
  \* One behaviour looks at a person's links, another at joins beside one link.
  /\ Per!PersonInit
  /\ \/ links = 0 /\ joins = MaxJoins
     \/ links = MaxLinks - 1 /\ joins = 0
  \* The other parts start in one of their states only.
  /\ part # "approvals" => binds = {} /\ said = [r \in Requests |-> 0]
  /\ part # "person" => links = 0
  /\ part # "page" => high = 0
  /\ part # "notices" => standing = {}

DesktopNext ==
  /\ UNCHANGED part
  /\ \/ /\ part = "approvals" /\ App!ApprovalsNext
        /\ UNCHANGED <<watching, identities, person, page, noticing, nodes>>
     \/ /\ part = "wakes" /\ Wat!WatchNext
        /\ UNCHANGED <<approving, identities, person, page, noticing, nodes>>
     \/ /\ part = "identities" /\ Ide!IdentitiesNext
        /\ UNCHANGED <<approving, watching, person, page, noticing, nodes>>
     \/ /\ part = "person" /\ Per!PersonNext
        /\ UNCHANGED <<approving, watching, identities, page, noticing, nodes>>
     \/ /\ part = "page" /\ Pag!LocalPageNext
        /\ UNCHANGED <<approving, watching, identities, person, noticing, nodes>>
     \/ /\ part = "notices" /\ Not!NoticesNext
        /\ UNCHANGED <<approving, watching, identities, person, page, nodes>>
     \/ /\ part = "nodes" /\ Nod!NodesNext
        /\ UNCHANGED <<approving, watching, identities, person, page, noticing>>

\* What the person approved is what is made; a held binding starts no wake, no
\* wake starts beside another, and wakes are capped; a hold stands until it is
\* answered; a person is one, and who left keeps nothing; the page misses nothing
\* and never goes back; notices come once and paced; and a message a native node
\* calls stored survives.
DesktopSound ==
  /\ [](/\ part = "approvals" => App!AsPromised
        /\ part = "wakes" => Wat!Capped
        /\ part = "identities" => Ide!IdentitySound
        /\ part = "person" => Per!PersonSound
        /\ part = "page" => Pag!NothingMissed
        /\ part = "notices" => Not!NoticesSound
        /\ part = "nodes" => Nod!NodesSound)
  /\ Wat!HoldsHold /\ Wat!NeverBeside /\ Pag!NeverBack
=============================================================================
