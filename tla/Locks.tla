-------------------------------- MODULE Locks --------------------------------
(***************************************************************************)
(* The lock files the bridge's processes share on one machine              *)
(* (src/server/locks.ts): taken by creating the file with its owner in it, *)
(* taken over from a process that crashed, under a second file that keeps  *)
(* two processes from doing that at once.                                  *)
(* Reading a file, creating it and removing it are single steps; anything  *)
(* may happen between two of them.  Of a lock that passes a maximum age    *)
(* (the session ledger's, agent-watch.ts) only what a crash left grows     *)
(* older than that: a process has a lock or a marker for moments.          *)
(***************************************************************************)
EXTENDS Naturals, FiniteSets
CONSTANTS
  Process,
  MaxFiles,    \* files created
  MaxCrashes,
  MaxAge       \* whether this lock's users pass a maximum age, and so remove a marker a crash left
ASSUME LocksAssumption == MaxFiles \in Nat /\ MaxCrashes \in Nat /\ MaxAge \in BOOLEAN

VARIABLES
  lock, marker,   \* the files at <lock> and <lock>.reclaim, 0 for none
  files,          \* how many were created
  left,           \* those of processes that crashed
  mine,           \* the files of each process
  step, seen,     \* where each process is in tryLock, and the stale lock it saw
  crashes,
  snatched          \* history: a marker of a process that runs was removed by another

locking == <<lock, marker, files, left, mine, step, seen, crashes, snatched>>

LocksInit ==
  /\ lock = 0 /\ marker = 0 /\ files = 0 /\ left = {} /\ crashes = 0 /\ snatched = FALSE
  /\ mine = [p \in Process |-> {}]
  /\ step = [p \in Process |-> "out"] /\ seen = [p \in Process |-> 0]

Creates(p) ==
  /\ files < MaxFiles /\ files' = files + 1
  /\ mine' = [mine EXCEPT ![p] = @ \cup {files'}]
Goes(p, s) == step' = [step EXCEPT ![p] = s]

\* takeLock; a lock that is found is looked at, a stale one remembered.
TryLock(p) ==
  /\ step[p] = "out"
  /\ \/ /\ lock = 0 /\ Creates(p) /\ lock' = files' /\ Goes(p, "held") /\ UNCHANGED seen
     \/ /\ lock \in left /\ seen' = [seen EXCEPT ![p] = lock] /\ Goes(p, "stale")
        /\ UNCHANGED <<lock, files, mine>>
  /\ UNCHANGED <<marker, left, crashes, snatched>>

\* The marker: taken, or another process has it, or a crash left it.
Mark(p) ==
  /\ step[p] = "stale"
  /\ \/ /\ marker = 0 /\ Creates(p) /\ marker' = files' /\ Goes(p, "marked")
     \/ /\ marker # 0 /\ UNCHANGED <<marker, files, mine>>
        /\ Goes(p, IF MaxAge /\ marker \in left THEN "clearing" ELSE "out")
  /\ UNCHANGED <<lock, left, seen, crashes, snatched>>

\* The marker is removed by its name, once it was looked at twice.  Between the
\* look and this step another process may have removed it and made its own.
Clear(p) ==
  /\ step[p] = "clearing" /\ marker' = 0 /\ Goes(p, "out")
  /\ snatched' = (snatched \/ marker \notin left \cup {0})
  /\ UNCHANGED <<lock, files, left, mine, seen, crashes>>

\* mutant: whatever lock is there now is replaced
AnyLock(p) == lock # 0
\* Replaced only while it still is the lock that was found stale.
Same(p) == lock = seen[p]
Verify(p) ==
  /\ step[p] = "marked" /\ Goes(p, IF Same(p) THEN "same" ELSE "unmark")
  /\ UNCHANGED <<lock, marker, files, left, mine, seen, crashes, snatched>>

Unlink(p) ==
  /\ step[p] = "same" /\ Goes(p, IF lock = 0 THEN "unmark" ELSE "free") /\ lock' = 0
  /\ UNCHANGED <<marker, files, left, mine, seen, crashes, snatched>>

Retake(p) ==
  /\ step[p] = "free"
  /\ IF lock = 0 THEN Creates(p) /\ lock' = files' /\ Goes(p, "taken")
     ELSE Goes(p, "unmark") /\ UNCHANGED <<lock, files, mine>>
  /\ UNCHANGED <<marker, left, seen, crashes, snatched>>

\* A marker that is gone is an error, also where the lock was just taken.
Unmark(p) ==
  /\ step[p] \in {"unmark", "taken"} /\ marker' = 0
  /\ Goes(p, IF step[p] = "taken" /\ marker # 0 THEN "held" ELSE "out")
  /\ UNCHANGED <<lock, files, left, mine, seen, crashes, snatched>>

Release(p) ==
  /\ step[p] = "held" /\ lock' = 0 /\ Goes(p, "out")
  /\ UNCHANGED <<marker, files, left, mine, seen, crashes, snatched>>

\* A process that starts again is another process to its files.
Exits(p) ==
  /\ step[p] # "out" /\ crashes < MaxCrashes /\ crashes' = crashes + 1
  /\ left' = left \cup mine[p] /\ mine' = [mine EXCEPT ![p] = {}]
  /\ Goes(p, "out")
  /\ UNCHANGED <<lock, marker, files, seen, snatched>>

LocksNext == \E p \in Process :
  \/ TryLock(p) \/ Mark(p) \/ Clear(p) \/ Verify(p) \/ Unlink(p)
  \/ Retake(p) \/ Unmark(p) \/ Release(p) \/ Exits(p)

LocksSpec == LocksInit /\ [][LocksNext]_locking

Holders == {p \in Process : step[p] \in {"taken", "held"}}
Turns == INSTANCE Mutex WITH holders <- Holders

\* locks.ts: taking a stale lock over is exclusive too, whoever crashed and whatever
\* was found before, until a marker of a process that runs was removed.
LockIsMutex == Turns!Init /\ [][snatched' \/ Turns!Next]_Holders

\* locks.ts:53-54 without the exception: "only the holder of <lock>.reclaim may replace
\* it ... so two processes can never both take it".
NeverBoth == Cardinality(Holders) <= 1
=============================================================================
