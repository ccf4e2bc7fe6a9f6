---------------------------- MODULE Safety_proofs ----------------------------
(***************************************************************************)
(* What the parts that are checked for safety together (MCSafety) keep for *)
(* every value of their constants: the owner of a room's connection in a   *)
(* browser, a lock file, commands sent again, what an agent is told, and   *)
(* what the devices of a room keep: files, reactions and tasks.  Each part *)
(* is proved about by itself first; the results of all but the first are   *)
(* then carried over to the composition, in which each runs alone.         *)
(***************************************************************************)
EXTENDS MCSafety, FiniteSetTheorems, FunctionTheorems, SequenceTheorems, TLAPS

-----------------------------------------------------------------------------
(* The owner of a room's connection.  For any number of tabs, messages,    *)
(* crashes and thefts: the history that a browser stores is written by one *)
(* owner at a time, only grows, and holds every message that was confirmed *)
(* to its author.                                                          *)

(* Who holds the locks: a tab at work on the room holds the connection or    *)
(* was robbed of it, and only a tab that shows the room holds its lock.      *)
ConnectionInv ==
  /\ \A v \in Viewer : roomLock = v <=> pc[v] \notin {"none", "lost"}
  /\ \A t \in Other : pc[t] \notin {"queued", "lost"}
  /\ \A t \in Tab : conn = t => pc[t] \in {"granted"} \cup Running \cup Ending
  /\ \A t \in Tab : pc[t] \in Running \cup Ending => conn = t \/ t \in robbed
  /\ \A t \in Tab : pc[t] = "granted" =>
       conn = t \/ t \in robbed \/ t \in Other \cap stopping
  /\ conn \notin robbed

(* Epochs: every engine that runs has its own, and every write in flight is  *)
(* the only one of its epoch and belongs to the engine of that epoch.        *)
FenceInv ==
  /\ \A t \in Tab : fence[t] <= epoch
  /\ \A t \in Tab : pc[t] \in Running \cup Ending => fence[t] > 0
  /\ \A t \in Tab : pc[t] \in {"none", "queued", "granted", "lost"} => fence[t] = 0
  /\ \A t, u \in Tab : fence[t] = fence[u] /\ fence[t] > 0 => t = u
  /\ \A w \in tx : w.epoch > 0 /\ w.epoch <= epoch /\ w.adds \notin w.copy
  /\ \A w \in tx, t \in Tab : w.epoch = fence[t] => w.by = t
  /\ \A w, x \in tx : w.epoch = x.epoch => w = x

(* Copies: what the current owner holds, and would write, is what is stored; *)
(* nobody knows or confirmed more than that.                                 *)
DataInv ==
  /\ \A w \in tx : w.epoch = epoch => w.copy = stored
  /\ \A t \in Tab : pc[t] = "live" /\ fence[t] = epoch => mem[t] = stored
  /\ \A t \in Tab : mem[t] \subseteq stored
  /\ acked \subseteq stored

IInv == TypeOK /\ ConnectionInv /\ FenceInv /\ DataInv

LEMMA TypeStep ==
  ASSUME TypeOK, ConnectionInv, Next
  PROVE  TypeOK'
<1> USE DEF TypeOK, ConnectionInv, Write, Tab, Running, Ending, locks, lead, data
<1>1. ASSUME NEW v \in Viewer, OpenRoom(v) PROVE TypeOK'
  BY <1>1, TabAssumption, TurnAssumption DEF OpenRoom, Turn, Become
<1>2. ASSUME NEW v \in Viewer, Granted(v) PROVE TypeOK'
  BY <1>2, TabAssumption DEF Granted, Enter, End, Become
<1>3. ASSUME NEW v \in Viewer, Steal(v) PROVE TypeOK'
  BY <1>3, TabAssumption DEF Steal, Enter, End, Become
<1>4. ASSUME NEW v \in Viewer, Dispose(v) PROVE TypeOK'
  BY <1>4, TabAssumption DEF Dispose, Become
<1>5. ASSUME NEW t \in Other, Lead(t) PROVE TypeOK'
  BY <1>5, TabAssumption DEF Lead
<1>6. ASSUME Look PROVE TypeOK'
  BY <1>6, TabAssumption DEF Look
<1>7. ASSUME StopRoom PROVE TypeOK'
  BY <1>7, TabAssumption DEF StopRoom, Halt, Become
<1>8. ASSUME Stopped PROVE TypeOK'
  BY <1>8, TabAssumption DEF Stopped
<1>9. ASSUME StartRoom PROVE TypeOK'
  BY <1>9, TabAssumption DEF StartRoom, Become
<1>10. ASSUME HandOver PROVE TypeOK'
  BY <1>10, TabAssumption, TurnAssumption DEF HandOver, Turn, Halt, Become
<1>11. ASSUME Resign PROVE TypeOK'
  BY <1>11, TabAssumption DEF Resign
<1>12. ASSUME NEW t \in Other, Notice(t) PROVE TypeOK'
  BY <1>12, TabAssumption DEF Notice, End, Become
<1>13. ASSUME NEW t \in Tab, Claim(t) PROVE TypeOK'
  BY <1>13, TabAssumption DEF Claim, End, Become, LetGo
<1>14. ASSUME NEW t \in Tab, Load(t) PROVE TypeOK'
  BY <1>14, TabAssumption DEF Load, Become
<1>15. ASSUME NEW t \in Tab, Fail(t) PROVE TypeOK'
  BY <1>15, TabAssumption, TurnAssumption DEF Fail, Turn, End, Become, LetGo, LeaveRoom
<1>16. ASSUME NEW t \in Tab, NEW m \in Message, Save(t, m) PROVE TypeOK'
  BY <1>16, TabAssumption DEF Save, InFlight
<1>17. ASSUME NEW w \in tx, Commit(w) PROVE TypeOK'
  BY <1>17, TabAssumption DEF Commit, Stands, Own
<1>18. ASSUME NEW w \in tx, FencedOut(w) PROVE TypeOK'
  BY <1>18, TabAssumption DEF FencedOut, Stands, Own
<1>19. ASSUME NEW w \in tx, Abort(w) PROVE TypeOK'
  BY <1>19, TabAssumption, TurnAssumption DEF Abort, Turn
<1>20. ASSUME NEW t \in Tab, NEW m \in Message, Receipt(t, m) PROVE TypeOK'
  BY <1>20, TabAssumption DEF Receipt
<1>21. ASSUME NEW t \in Tab, Finish(t) PROVE TypeOK'
  BY <1>21, TabAssumption DEF Finish, End, Become, LetGo, LeaveRoom
<1>22. ASSUME NEW t \in Tab, Crash(t) PROVE TypeOK'
  BY <1>22, TabAssumption, TurnAssumption DEF Crash, Turn, End, Become, LetGo, LeaveRoom
<1>23. ASSUME Pause PROVE TypeOK'
  BY <1>23, TabAssumption, TurnAssumption DEF Pause, Turn
<1> QED
  BY <1>1, <1>2, <1>3, <1>4, <1>5, <1>6, <1>7, <1>8, <1>9, <1>10, <1>11, <1>12, <1>13, <1>14, <1>15, <1>16, <1>17, <1>18, <1>19, <1>20, <1>21, <1>22, <1>23
     DEF Next, Environment, Leading, Writing, Viewing, Engine

LEMMA ConnectionStep ==
  ASSUME TypeOK, ConnectionInv, Next
  PROVE  ConnectionInv'
<1> USE DEF TypeOK, ConnectionInv, Tab, Running, Ending, locks, lead, data
<1>1. ASSUME NEW v \in Viewer, OpenRoom(v) PROVE ConnectionInv'
  BY <1>1, TabAssumption, TurnAssumption DEF OpenRoom, Turn, Become
<1>2. ASSUME NEW v \in Viewer, Granted(v) PROVE ConnectionInv'
  BY <1>2, TabAssumption DEF Granted, Enter, End, Become
<1>3. ASSUME NEW v \in Viewer, Steal(v) PROVE ConnectionInv'
  BY <1>3, TabAssumption DEF Steal, Enter, End, Become
<1>4. ASSUME NEW v \in Viewer, Dispose(v) PROVE ConnectionInv'
  BY <1>4, TabAssumption DEF Dispose, Become
<1>5. ASSUME NEW t \in Other, Lead(t) PROVE ConnectionInv'
  BY <1>5, TabAssumption DEF Lead
<1>6. ASSUME Look PROVE ConnectionInv'
  BY <1>6, TabAssumption DEF Look
<1>7. ASSUME StopRoom PROVE ConnectionInv'
  BY <1>7, TabAssumption DEF StopRoom, Halt, Become
<1>8. ASSUME Stopped PROVE ConnectionInv'
  BY <1>8, TabAssumption DEF Stopped
<1>9. ASSUME StartRoom PROVE ConnectionInv'
  BY <1>9, TabAssumption DEF StartRoom, Become
<1>10. ASSUME HandOver PROVE ConnectionInv'
  BY <1>10, TabAssumption, TurnAssumption DEF HandOver, Turn, Halt, Become
<1>11. ASSUME Resign PROVE ConnectionInv'
  BY <1>11, TabAssumption DEF Resign
<1>12. ASSUME NEW t \in Other, Notice(t) PROVE ConnectionInv'
  BY <1>12, TabAssumption DEF Notice, End, Become
<1>13. ASSUME NEW t \in Tab, Claim(t) PROVE ConnectionInv'
  BY <1>13, TabAssumption DEF Claim, End, Become, LetGo
<1>14. ASSUME NEW t \in Tab, Load(t) PROVE ConnectionInv'
  BY <1>14, TabAssumption DEF Load, Become
<1>15. ASSUME NEW t \in Tab, Fail(t) PROVE ConnectionInv'
  BY <1>15, TabAssumption, TurnAssumption DEF Fail, Turn, End, Become, LetGo, LeaveRoom
<1>16. ASSUME NEW t \in Tab, NEW m \in Message, Save(t, m) PROVE ConnectionInv'
  BY <1>16, TabAssumption DEF Save, InFlight
<1>17. ASSUME NEW w \in tx, Commit(w) PROVE ConnectionInv'
  BY <1>17, TabAssumption DEF Commit, Stands, Own
<1>18. ASSUME NEW w \in tx, FencedOut(w) PROVE ConnectionInv'
  BY <1>18, TabAssumption DEF FencedOut, Stands, Own
<1>19. ASSUME NEW w \in tx, Abort(w) PROVE ConnectionInv'
  BY <1>19, TabAssumption, TurnAssumption DEF Abort, Turn
<1>20. ASSUME NEW t \in Tab, NEW m \in Message, Receipt(t, m) PROVE ConnectionInv'
  BY <1>20, TabAssumption DEF Receipt
<1>21. ASSUME NEW t \in Tab, Finish(t) PROVE ConnectionInv'
  BY <1>21, TabAssumption DEF Finish, End, Become, LetGo, LeaveRoom
<1>22. ASSUME NEW t \in Tab, Crash(t) PROVE ConnectionInv'
  BY <1>22, TabAssumption, TurnAssumption DEF Crash, Turn, End, Become, LetGo, LeaveRoom
<1>23. ASSUME Pause PROVE ConnectionInv'
  BY <1>23, TabAssumption, TurnAssumption DEF Pause, Turn
<1> QED
  BY <1>1, <1>2, <1>3, <1>4, <1>5, <1>6, <1>7, <1>8, <1>9, <1>10, <1>11, <1>12, <1>13, <1>14, <1>15, <1>16, <1>17, <1>18, <1>19, <1>20, <1>21, <1>22, <1>23
     DEF Next, Environment, Leading, Writing, Viewing, Engine

LEMMA FenceStep ==
  ASSUME TypeOK, ConnectionInv, FenceInv, Next
  PROVE  FenceInv'
<1> USE DEF TypeOK, ConnectionInv, FenceInv, Write, Tab, Running, Ending, locks, lead, data
<1>1. ASSUME NEW v \in Viewer, OpenRoom(v) PROVE FenceInv'
  BY <1>1 DEF OpenRoom, Turn, Become
<1>2. ASSUME NEW v \in Viewer, Granted(v) PROVE FenceInv'
  BY <1>2 DEF Granted, Enter, End, Become
<1>3. ASSUME NEW v \in Viewer, Steal(v) PROVE FenceInv'
  BY <1>3 DEF Steal, Enter, End, Become
<1>4. ASSUME NEW v \in Viewer, Dispose(v) PROVE FenceInv'
  BY <1>4 DEF Dispose, Become
<1>5. ASSUME NEW t \in Other, Lead(t) PROVE FenceInv'
  BY <1>5 DEF Lead
<1>6. ASSUME Look PROVE FenceInv'
  BY <1>6 DEF Look
<1>7. ASSUME StopRoom PROVE FenceInv'
  BY <1>7 DEF StopRoom, Halt, Become
<1>8. ASSUME Stopped PROVE FenceInv'
  BY <1>8 DEF Stopped
<1>9. ASSUME StartRoom PROVE FenceInv'
  BY <1>9 DEF StartRoom, Become
<1>10. ASSUME HandOver PROVE FenceInv'
  BY <1>10 DEF HandOver, Turn, Halt, Become
<1>11. ASSUME Resign PROVE FenceInv'
  BY <1>11 DEF Resign
<1>12. ASSUME NEW t \in Other, Notice(t) PROVE FenceInv'
  BY <1>12 DEF Notice, End, Become
<1>13. ASSUME NEW t \in Tab, Claim(t) PROVE FenceInv'
  BY <1>13 DEF Claim, End, Become, LetGo
<1>14. ASSUME NEW t \in Tab, Load(t) PROVE FenceInv'
  BY <1>14 DEF Load, Become
<1>15. ASSUME NEW t \in Tab, Fail(t) PROVE FenceInv'
  BY <1>15 DEF Fail, Turn, End, Become, LetGo, LeaveRoom
<1>16. ASSUME NEW t \in Tab, NEW m \in Message, Save(t, m) PROVE FenceInv'
  BY <1>16 DEF Save, InFlight
<1>17. ASSUME NEW w \in tx, Commit(w) PROVE FenceInv'
  BY <1>17 DEF Commit, Stands, Own
<1>18. ASSUME NEW w \in tx, FencedOut(w) PROVE FenceInv'
  BY <1>18 DEF FencedOut, Stands, Own
<1>19. ASSUME NEW w \in tx, Abort(w) PROVE FenceInv'
  BY <1>19 DEF Abort, Turn
<1>20. ASSUME NEW t \in Tab, NEW m \in Message, Receipt(t, m) PROVE FenceInv'
  BY <1>20 DEF Receipt
<1>21. ASSUME NEW t \in Tab, Finish(t) PROVE FenceInv'
  BY <1>21 DEF Finish, End, Become, LetGo, LeaveRoom
<1>22. ASSUME NEW t \in Tab, Crash(t) PROVE FenceInv'
  BY <1>22 DEF Crash, Turn, End, Become, LetGo, LeaveRoom
<1>23. ASSUME Pause PROVE FenceInv'
  BY <1>23 DEF Pause, Turn
<1> QED
  BY <1>1, <1>2, <1>3, <1>4, <1>5, <1>6, <1>7, <1>8, <1>9, <1>10, <1>11, <1>12, <1>13, <1>14, <1>15, <1>16, <1>17, <1>18, <1>19, <1>20, <1>21, <1>22, <1>23
     DEF Next, Environment, Leading, Writing, Viewing, Engine

LEMMA DataStep ==
  ASSUME TypeOK, FenceInv, DataInv, Next
  PROVE  DataInv'
<1> USE DEF TypeOK, FenceInv, DataInv, Write, Tab, Running, Ending, locks, lead, data
<1>1. ASSUME NEW v \in Viewer, OpenRoom(v) PROVE DataInv'
  BY <1>1 DEF OpenRoom, Turn, Become
<1>2. ASSUME NEW v \in Viewer, Granted(v) PROVE DataInv'
  BY <1>2 DEF Granted, Enter, End, Become
<1>3. ASSUME NEW v \in Viewer, Steal(v) PROVE DataInv'
  BY <1>3 DEF Steal, Enter, End, Become
<1>4. ASSUME NEW v \in Viewer, Dispose(v) PROVE DataInv'
  BY <1>4 DEF Dispose, Become
<1>5. ASSUME NEW t \in Other, Lead(t) PROVE DataInv'
  BY <1>5 DEF Lead
<1>6. ASSUME Look PROVE DataInv'
  BY <1>6 DEF Look
<1>7. ASSUME StopRoom PROVE DataInv'
  BY <1>7 DEF StopRoom, Halt, Become
<1>8. ASSUME Stopped PROVE DataInv'
  BY <1>8 DEF Stopped
<1>9. ASSUME StartRoom PROVE DataInv'
  BY <1>9 DEF StartRoom, Become
<1>10. ASSUME HandOver PROVE DataInv'
  BY <1>10 DEF HandOver, Turn, Halt, Become
<1>11. ASSUME Resign PROVE DataInv'
  BY <1>11 DEF Resign
<1>12. ASSUME NEW t \in Other, Notice(t) PROVE DataInv'
  BY <1>12 DEF Notice, End, Become
<1>13. ASSUME NEW t \in Tab, Claim(t) PROVE DataInv'
  BY <1>13 DEF Claim, End, Become, LetGo
<1>14. ASSUME NEW t \in Tab, Load(t) PROVE DataInv'
  BY <1>14 DEF Load, Become
<1>15. ASSUME NEW t \in Tab, Fail(t) PROVE DataInv'
  BY <1>15 DEF Fail, Turn, End, Become, LetGo, LeaveRoom
<1>16. ASSUME NEW t \in Tab, NEW m \in Message, Save(t, m) PROVE DataInv'
  BY <1>16 DEF Save, InFlight
<1>17. ASSUME NEW w \in tx, Commit(w) PROVE DataInv'
  BY <1>17 DEF Commit, Stands, Own
<1>18. ASSUME NEW w \in tx, FencedOut(w) PROVE DataInv'
  BY <1>18 DEF FencedOut, Stands, Own
<1>19. ASSUME NEW w \in tx, Abort(w) PROVE DataInv'
  BY <1>19 DEF Abort, Turn
<1>20. ASSUME NEW t \in Tab, NEW m \in Message, Receipt(t, m) PROVE DataInv'
  BY <1>20 DEF Receipt
<1>21. ASSUME NEW t \in Tab, Finish(t) PROVE DataInv'
  BY <1>21 DEF Finish, End, Become, LetGo, LeaveRoom
<1>22. ASSUME NEW t \in Tab, Crash(t) PROVE DataInv'
  BY <1>22 DEF Crash, Turn, End, Become, LetGo, LeaveRoom
<1>23. ASSUME Pause PROVE DataInv'
  BY <1>23 DEF Pause, Turn
<1> QED
  BY <1>1, <1>2, <1>3, <1>4, <1>5, <1>6, <1>7, <1>8, <1>9, <1>10, <1>11, <1>12, <1>13, <1>14, <1>15, <1>16, <1>17, <1>18, <1>19, <1>20, <1>21, <1>22, <1>23
     DEF Next, Environment, Leading, Writing, Viewing, Engine

LEMMA InitIInv == Init => IInv
<1> SUFFICES ASSUME Init PROVE IInv
  OBVIOUS
<1> USE DEF Init, Tab, Running, Ending
<1>1. TypeOK
  <2>1. turns \in 0..MaxTurns
    BY TurnAssumption
  <2> QED
    BY <2>1 DEF TypeOK
<1>2. ConnectionInv
  BY TabAssumption DEF ConnectionInv
<1>3. FenceInv
  BY DEF FenceInv
<1>4. DataInv
  BY DEF DataInv
<1> QED
  BY <1>1, <1>2, <1>3, <1>4 DEF IInv

LEMMA Step == IInv /\ [Next]_vars => IInv'
<1> SUFFICES ASSUME IInv, [Next]_vars PROVE IInv'
  OBVIOUS
<1>1. CASE Next
  BY <1>1, TypeStep, ConnectionStep, FenceStep, DataStep DEF IInv
<1>2. CASE UNCHANGED vars
  BY <1>2 DEF vars, IInv, TypeOK, ConnectionInv, FenceInv, DataInv
<1> QED
  BY <1>1, <1>2

LEMMA Invariance == Spec => []IInv
<1>1. Init => IInv
  BY InitIInv
<1>2. IInv /\ [Next]_vars => IInv'
  BY Step
<1> QED
  BY <1>1, <1>2, PTL DEF Spec

(* Every variable keeps its type: in particular only a background tab is     *)
(* ever robbed of its lock (the ifAvailable request of BackgroundRoom).      *)
THEOREM TypeCorrect == Spec => []TypeOK
<1>1. IInv => TypeOK
  BY DEF IInv
<1> QED
  BY <1>1, Invariance, PTL

(* At most one tab runs the room's connection, but for those that were       *)
(* robbed of it and have not heard (the connection lock, halt and close).    *)
THEOREM ConnectionHeld == Spec => []OneConnection
<1>1. IInv => OneConnection
  BY DEF IInv, ConnectionInv, OneConnection
<1> QED
  BY <1>1, Invariance, PTL

(* The tab that owns the room's records has loaded everything that earlier   *)
(* owners stored (claimRoom before load, the fence in every put).            *)
THEOREM OwnerComplete == Spec => []OwnerIsComplete
<1>1. IInv => OwnerIsComplete
  BY DEF IInv, DataInv, OwnerIsComplete
<1> QED
  BY <1>1, Invariance, PTL

(* One tab owns the room (locks, claimFence), and knows all that is stored.   *)
THEOREM RoomOwned == Spec => []OneOwner
<1>1. TypeOK /\ OneConnection /\ OwnerIsComplete => OneOwner
  BY DEF OneOwner
<1> QED
  BY <1>1, TypeCorrect, ConnectionHeld, OwnerComplete, PTL

(* All the tabs together implement the record one browser promises: it only  *)
(* grows, and only what it holds is confirmed.                               *)
THEOREM RecordImplemented == Spec => RecordKept
<1> USE DEF Record!Next, Record!Store, Record!Confirm
<1>1. Init => Record!Init
  BY DEF Init, Record!Init
<1>2. ASSUME IInv, Next PROVE Record!Next \/ UNCHANGED <<stored, acked>>
  <2>1. ASSUME NEW w \in tx, Commit(w) PROVE Record!Next
    <3>1. w.adds \in Message /\ w.copy = stored /\ w.adds \notin w.copy
      BY <1>2, <2>1 DEF IInv, TypeOK, Write, FenceInv, DataInv, Commit, Stands
    <3>2. stored' = stored \cup {w.adds} /\ UNCHANGED acked
      BY <2>1, <3>1 DEF Commit
    <3> QED
      BY <3>1, <3>2
  <2>2. ASSUME NEW t \in Tab, NEW m \in Message, Receipt(t, m) PROVE Record!Next
    <3>1. m \in stored
      BY <1>2, <2>2 DEF Receipt, IInv, DataInv
    <3> QED
      BY <2>2, <3>1 DEF Receipt
  <2>3. ASSUME NEW t \in Tab,
               \/ Fail(t) \/ Crash(t) \/ Claim(t) \/ Load(t) \/ Finish(t)
               \/ \E m \in Message : Save(t, m)
        PROVE  UNCHANGED <<stored, acked>>
    BY <2>3 DEF Fail, Crash, Claim, Load, Finish, Save
  <2>4. ASSUME NEW v \in Viewer,
               OpenRoom(v) \/ Dispose(v) \/ Granted(v) \/ Steal(v)
        PROVE  UNCHANGED <<stored, acked>>
    BY <2>4 DEF OpenRoom, Dispose, Granted, Steal, data
  <2>5. ASSUME NEW w \in tx, FencedOut(w) \/ Abort(w)
        PROVE  UNCHANGED <<stored, acked>>
    BY <2>5 DEF FencedOut, Abort
  <2>6. ASSUME \/ \E t \in Other : Lead(t) \/ Notice(t)
               \/ Look \/ StopRoom \/ Stopped \/ StartRoom \/ Resign
               \/ HandOver \/ Pause
        PROVE  UNCHANGED <<stored, acked>>
    BY <2>6 DEF Lead, Notice, Look, StopRoom, Stopped, StartRoom, Resign, HandOver,
                Pause, data
  <2> QED
    BY <1>2, <2>1, <2>2, <2>3, <2>4, <2>5, <2>6
       DEF Next, Environment, Leading, Writing, Viewing, Engine
<1>3. IInv /\ [Next]_vars => [Record!Next]_<<stored, acked>>
  BY <1>2 DEF vars
<1> QED
  BY <1>1, <1>3, Invariance, PTL DEF Spec, RecordKept, Record!Spec
(* While every tab answers in time, no lock is stolen; so the tab at work    *)
(* holds the connection and the newest epoch, and no write finds a newer one.*)
CalmInv ==
  /\ robbed = {}
  /\ \A t \in Tab : pc[t] = "granted" => conn = t
  /\ \A t \in Tab : pc[t] \in Running \cup Ending => conn = t /\ fence[t] = epoch
  /\ NobodyFencedOut

LEMMA CalmStep ==
  ASSUME ~ CanFreeze, IInv, CalmInv, Next
  PROVE  CalmInv'
<1> USE DEF IInv, TypeOK, CalmInv, NobodyFencedOut, Tab, Running, Ending, locks, lead, data
<1>1. ASSUME NEW v \in Viewer, OpenRoom(v) PROVE CalmInv'
  BY <1>1, TabAssumption DEF OpenRoom, Become
<1>2. ASSUME NEW v \in Viewer, Granted(v) PROVE CalmInv'
  BY <1>2, TabAssumption DEF Granted, Enter, End, Become
<1>3. ASSUME NEW v \in Viewer PROVE ~ Steal(v)
  BY DEF Steal
<1>4. ASSUME NEW v \in Viewer, Dispose(v) PROVE CalmInv'
  BY <1>4, TabAssumption DEF Dispose, Become
<1>5. ASSUME StopRoom PROVE CalmInv'
  BY <1>5, TabAssumption DEF StopRoom, Halt, Become, ConnectionInv
<1>6. ASSUME StartRoom PROVE CalmInv'
  BY <1>6, TabAssumption DEF StartRoom, Become
<1>7. ASSUME HandOver PROVE CalmInv'
  BY <1>7, TabAssumption DEF HandOver, Halt, Become, ConnectionInv
<1>8. ASSUME NEW t \in Other, Notice(t) PROVE CalmInv'
  BY <1>8 DEF Notice
<1>9. ASSUME NEW t \in Tab, Claim(t) PROVE CalmInv'
  BY <1>9, TabAssumption DEF Claim, End, LetGo, Become
<1>10. ASSUME NEW t \in Tab, Load(t) PROVE CalmInv'
  BY <1>10, TabAssumption DEF Load, Become
<1>11. ASSUME NEW t \in Tab, Fail(t) PROVE CalmInv'
  BY <1>11, TabAssumption DEF Fail, End, LetGo, Become
<1>12. ASSUME NEW t \in Tab, Finish(t) PROVE CalmInv'
  BY <1>12, TabAssumption DEF Finish, End, LetGo, Become
<1>13. ASSUME NEW t \in Tab, Crash(t) PROVE CalmInv'
  BY <1>13, TabAssumption DEF Crash, End, LetGo, Become
<1>14. ASSUME NEW w \in tx, FencedOut(w) PROVE CalmInv'
  BY <1>14, TabAssumption DEF FencedOut, Stands, Own, Write
<1>15. ASSUME \/ \E w \in tx : Commit(w) \/ Abort(w)
              \/ \E t \in Tab, m \in Message : Save(t, m) \/ Receipt(t, m)
              \/ \E t \in Other : Lead(t)
              \/ Look \/ Stopped \/ Resign \/ Pause
       PROVE  CalmInv'
  BY <1>15 DEF Commit, Abort, Save, Receipt, Lead, Look, Stopped, Resign, Pause
<1> QED
  BY <1>1, <1>2, <1>3, <1>4, <1>5, <1>6, <1>7, <1>8, <1>9, <1>10, <1>11, <1>12, <1>13,
     <1>14, <1>15 DEF Next, Environment, Leading, Writing, Viewing, Engine

(* Handing a room over, however it goes, never shows a person the Reload     *)
(* notice while tabs answer within TAKEOVER_MS (holdConnection, fenced()).   *)
THEOREM HandOversAreQuiet ==
  ASSUME ~ CanFreeze
  PROVE  Spec => []NobodyFencedOut
<1>1. Init => CalmInv
  BY DEF Init, CalmInv, NobodyFencedOut, Running, Ending, Tab
<1>2. IInv /\ CalmInv /\ [Next]_vars => CalmInv'
  <2>1. ASSUME UNCHANGED vars, CalmInv PROVE CalmInv'
    BY <2>1 DEF vars, CalmInv, NobodyFencedOut
  <2> QED
    BY <2>1, CalmStep
<1>3. CalmInv => NobodyFencedOut
  BY DEF CalmInv
<1> QED
  BY <1>1, <1>2, <1>3, Invariance, PTL DEF Spec

-----------------------------------------------------------------------------
(* A lock file.                                                              *)

Reclaiming == {"marked", "same", "free", "taken", "unmark"}
Having == {"taken", "held"}

LockTypes ==
  /\ {lock, marker, files} \subseteq Nat
  /\ lock <= files /\ marker <= files
  /\ left \in SUBSET (1 .. files)
  /\ mine \in [Process -> SUBSET (1 .. files)]
  /\ step \in [Process -> Reclaiming \cup {"out", "stale", "clearing", "held"}]
  /\ seen \in [Process -> Nat]

(* A file is one process's, or was left by one that is gone.                 *)
FilesApart ==
  /\ \A p \in Process : mine[p] \cap left = {}
  /\ \A p, q \in Process : p # q => mine[p] \cap mine[q] = {}

(* Who is past the marker made it.                                           *)
MarkerHeld == \A p \in Process : step[p] \in Reclaiming => marker \in mine[p]

(* Who has the lock made it; who is about to remove one knows that its       *)
(* process is gone, and the lock is still that one.                          *)
LockHeld ==
  /\ \A p \in Process : step[p] \in Having => lock \in mine[p]
  /\ \A p \in Process : step[p] \in {"stale", "marked", "same"} => seen[p] \in left
  /\ \A p \in Process : step[p] = "same" => lock = seen[p]

(* Where no maximum age is passed nobody clears a marker.                    *)
ClearsByAge == MaxAge \/ (~snatched /\ \A p \in Process : step[p] # "clearing")

LocksInv == LockTypes /\ FilesApart /\ ClearsByAge /\ (snatched \/ (MarkerHeld /\ LockHeld))

LEMMA LocksStart == LocksInit => LocksInv
BY DEF LocksInit, LocksInv, LockTypes, FilesApart, ClearsByAge, MarkerHeld, LockHeld, Reclaiming, Having

LEMMA LocksStep ==
  ASSUME LocksInv, [LocksNext]_locking
  PROVE  LocksInv'
<1> USE DEF LocksInv, LockTypes, FilesApart, ClearsByAge, MarkerHeld, LockHeld, Reclaiming, Having, Goes
<1>1. ASSUME NEW p \in Process, TryLock(p) PROVE LocksInv'
  BY <1>1 DEF TryLock, Creates
<1>2. ASSUME NEW p \in Process, Mark(p) PROVE LocksInv'
  BY <1>2 DEF Mark, Creates
<1>3. ASSUME NEW p \in Process, Clear(p) PROVE LocksInv'
  <2>1. LockTypes' /\ FilesApart' /\ ClearsByAge'
    BY <1>3 DEF Clear
  <2>2. ASSUME ~ snatched' PROVE MarkerHeld' /\ LockHeld'
    <3>1. ~ snatched /\ marker \in left \cup {0}
      BY <1>3, <2>2 DEF Clear
    <3>2. \A q \in Process : step[q] \notin Reclaiming
      BY <3>1
    <3> QED
      BY <1>3, <3>1, <3>2 DEF Clear
  <2> QED
    BY <2>1, <2>2
<1>4. ASSUME NEW p \in Process, Verify(p) PROVE LocksInv'
  BY <1>4 DEF Verify, Same
<1>5. ASSUME NEW p \in Process, Unlink(p) PROVE LocksInv'
  BY <1>5 DEF Unlink
<1>6. ASSUME NEW p \in Process, Retake(p) PROVE LocksInv'
  BY <1>6 DEF Retake, Creates
<1>7. ASSUME NEW p \in Process, Unmark(p) PROVE LocksInv'
  BY <1>7 DEF Unmark
<1>8. ASSUME NEW p \in Process, Release(p) PROVE LocksInv'
  BY <1>8 DEF Release
<1>9. ASSUME NEW p \in Process, Exits(p) PROVE LocksInv'
  <2>4. /\ \A q \in Process : mine'[q] = IF q = p THEN {} ELSE mine[q]
        /\ left' = left \cup mine[p]
    BY <1>9 DEF Exits
  <2>5. LockTypes'
    BY <1>9 DEF Exits
  <2>1. FilesApart'
    BY <2>4
  <2>3. ClearsByAge'
    BY <1>9 DEF Exits
  <2>2. ASSUME ~ snatched' PROVE MarkerHeld' /\ LockHeld'
    BY <1>9, <2>2 DEF Exits
  <2> QED
    BY <2>1, <2>2, <2>3, <2>5
<1>10. ASSUME UNCHANGED locking PROVE LocksInv'
  BY <1>10 DEF locking
<1> QED
  BY <1>1, <1>2, <1>3, <1>4, <1>5, <1>6, <1>7, <1>8, <1>9, <1>10 DEF LocksNext

(* Every step hands the lock to one process that finds nobody has it, takes  *)
(* it from the one that has it, or leaves it where it is.                    *)
LEMMA LockStep ==
  ASSUME LocksInv, [LocksNext]_locking, ~ snatched'
  PROVE  [Turns!Next]_Holders
<1>0. ~ snatched
  BY DEF LocksNext, TryLock, Mark, Clear, Verify, Unlink, Retake, Unmark, Release, Exits, locking
<1> USE <1>0 DEF LocksInv, LockTypes, FilesApart, MarkerHeld, LockHeld, Having, Reclaiming, Goes, Holders,
            Turns!Next, Turns!Take, Turns!Leave
<1>1. \A p, q \in Holders : p = q
  OBVIOUS
<1>2. lock = 0 => Holders = {}
  OBVIOUS
<1>3. ASSUME NEW p \in Process, TryLock(p) PROVE Turns!Next \/ UNCHANGED Holders
  <2>1. CASE lock = 0
    <3>1. Holders' = {p}
      BY <1>2, <1>3, <2>1 DEF TryLock
    <3> QED
      BY <1>2, <2>1, <3>1
  <2>2. CASE lock # 0
    BY <1>3, <2>2 DEF TryLock
  <2> QED
    BY <2>1, <2>2
<1>4. ASSUME NEW p \in Process, Retake(p) PROVE Turns!Next \/ UNCHANGED Holders
  <2>1. CASE lock = 0
    <3>1. Holders' = {p}
      BY <1>2, <1>4, <2>1 DEF Retake
    <3> QED
      BY <1>2, <2>1, <3>1
  <2>2. CASE lock # 0
    BY <1>4, <2>2 DEF Retake
  <2> QED
    BY <2>1, <2>2
<1>5. ASSUME NEW p \in Process, Release(p) \/ Exits(p)
      PROVE  Turns!Next \/ UNCHANGED Holders
  <2>1. Holders' = Holders \ {p}
    BY <1>5 DEF Release, Exits
  <2> QED
    BY <1>1, <2>1
<1>6. ASSUME NEW p \in Process, Mark(p) \/ Clear(p) \/ Verify(p) \/ Unlink(p) \/ Unmark(p)
      PROVE  UNCHANGED Holders
  BY <1>6 DEF Mark, Clear, Verify, Unlink, Unmark
<1>7. ASSUME UNCHANGED locking PROVE UNCHANGED Holders
  BY <1>7 DEF locking
<1> QED
  BY <1>3, <1>4, <1>5, <1>6, <1>7 DEF LocksNext

-----------------------------------------------------------------------------
(* Commands and their receipts.                                              *)

(* What the limits must be for the service to work at all.                   *)
LimitsMakeSense ==
  /\ {Window, Keep, Skew, CreateLimit, MaxTime, MaxIds} \subseteq Nat
  /\ Uses \in Nat \ {0}

(* What was carried out has its receipt, until its time is over; who has a   *)
(* receipt, or was told of success, found the room made.                     *)
ReceiptInv ==
  /\ \A i \in log : i.at <= now
  /\ \A i \in log : i \in receipts \/ now - i.at > Keep
  /\ receipts # {} => room # "absent"
  /\ reply = "ok" => room # "absent"

CommandsInv == Com!CommandsOnce /\ ReceiptInv

LEMMA CommandsStart ==
  ASSUME LimitsMakeSense, Com!Init
  PROVE  CommandsInv
BY DEF LimitsMakeSense, Com!Init, CommandsInv, Com!CommandsOnce, Com!TypeOK,
       Com!CreateUsesOneCode, Com!OncePerReceipt, ReceiptInv, Com!NoCall, Com!Nothing, Com!Answer, Com!Wish

(* A command that arrives is one the page sent, and is carried out, answered *)
(* again or refused.                                                         *)
LEMMA ArrivalSound ==
  ASSUME LimitsMakeSense, CommandsInv, NEW e \in net, Com!Arrive(e)
  PROVE  CommandsInv'
<1> USE DEF LimitsMakeSense, CommandsInv, Com!CommandsOnce, Com!TypeOK, ReceiptInv,
            Com!CreateUsesOneCode, Com!OncePerReceipt, Com!Arrive, Com!Answers, Com!Answer, Com!page
<1>1. e.wish \in Com!Wish /\ e.id \in 1..MaxIds /\ e.at \in Int
  OBVIOUS
<1>2. CASE Com!CarryOut(e)
  <2>1. charged' \in 0..CreateLimit
    BY <1>2 DEF Com!CarryOut, Com!Charge
  <2>2. room' # "absent" /\ room' \in {"open", "closed"}
    BY <1>2 DEF Com!CarryOut, Com!CanDo, Com!Do
  <2>3. remaining' \in 0..Uses /\ remaining' = Uses - 1
    BY <1>2, <2>2 DEF Com!CarryOut, Com!CanDo, Com!Do
  <2>4. receipts' \subseteq [id : 1..MaxIds, at : Nat]
    BY <1>1, <1>2 DEF Com!CarryOut, Com!Receipts
  <2>5. /\ log' = log \cup {[id |-> e.id, at |-> now]}
        /\ log' \subseteq [id : 1..MaxIds, at : Nat]
        /\ \A i \in log' : i.at <= now'
    BY <1>1, <1>2 DEF Com!CarryOut
  <2>6. \A i \in log : i.id = e.id => now - i.at > Keep
    BY <1>2 DEF Com!CarryOut, Com!Answered
  <2>7. Com!OncePerReceipt'
    BY <2>5, <2>6
  <2>8. \A i \in log' : i \in receipts' \/ now' - i.at > Keep
    BY <1>2, <2>5 DEF Com!CarryOut, Com!Receipts
  <2> QED
    BY <1>2, <2>1, <2>2, <2>3, <2>4, <2>5, <2>7, <2>8 DEF Com!CarryOut
<1>3. CASE Com!Repeat(e)
  BY <1>3 DEF Com!Repeat, Com!Answered, Com!store
<1>4. CASE Com!Refuse(e)
  BY <1>4 DEF Com!Refuse, Com!Charge, Com!store
<1>5. CASE Com!Fail(e)
  BY <1>5 DEF Com!Fail, Com!Charge, Com!store
<1> QED
  BY <1>2, <1>3, <1>4, <1>5

(* Asking for the room is as good as hearing that it was made.               *)
LEMMA FoundSound ==
  ASSUME wanted \in BOOLEAN, wanted \/ room # "absent", Com!Found
  PROVE  wanted' \in BOOLEAN /\ (wanted' \/ room # "absent")
<1>1. CASE room = "open"
  BY <1>1 DEF Com!Found
<1>2. CASE room # "open"
  BY <1>2 DEF Com!Found
<1> QED
  BY <1>1, <1>2

LEMMA CommandsStep ==
  ASSUME LimitsMakeSense, CommandsInv, [Com!Next]_commands
  PROVE  CommandsInv'
<1> USE DEF LimitsMakeSense, CommandsInv, Com!CommandsOnce, Com!TypeOK, ReceiptInv,
            Com!CreateUsesOneCode, Com!OncePerReceipt, Com!page, Com!store, Com!Answer,
            Com!Nothing, Com!NoCall
<1>1. CASE Com!Tick
  BY <1>1 DEF Com!Tick
<1>2. ASSUME NEW w \in Com!Wish, Com!Submit(w) PROVE CommandsInv'
  <2>1. Com!IdFor(w) \in 1..MaxIds /\ ids' \in 0..MaxIds
    BY <1>2 DEF Com!Submit, Com!IdFor
  <2>2. call' \in [wish : Com!Wish, id : 1..MaxIds, at : Int]
    <3>1. PICK sent \in (now - Skew)..(now + Skew) :
            call' = [wish |-> w, id |-> Com!IdFor(w), at |-> sent]
      BY <1>2 DEF Com!Submit
    <3> QED
      BY <2>1, <3>1
  <2>3. pending' \in [Com!Wish -> 0..MaxIds]
    BY <1>2, <2>1 DEF Com!Submit
  <2>4. call' \in [wish : Com!Wish \cup {Com!Nothing}, id : Nat, at : Int]
    BY <2>2
  <2> QED
    BY <1>2, <2>1, <2>2, <2>3, <2>4 DEF Com!Submit
<1>3. CASE Com!GiveUp
  <2>1. wanted' \in BOOLEAN /\ (wanted' \/ room # "absent")
    BY <1>3, FoundSound DEF Com!GiveUp
  <2> QED
    BY <1>3, <2>1 DEF Com!GiveUp
<1>4. CASE Com!Hear
  <2>1. wanted' \in BOOLEAN /\ (wanted' \/ room # "absent")
    <3>1. CASE wanted' = wanted
      BY <3>1
    <3>2. CASE wanted' = FALSE /\ reply = "ok"
      BY <3>2
    <3>3. CASE Com!Found
      BY <3>3, FoundSound
    <3> QED
      BY <1>4, <3>1, <3>2, <3>3 DEF Com!Hear
  <2>2. pending' \in [Com!Wish -> 0..MaxIds]
    <3>1. pending' = pending \/ pending' = [pending EXCEPT ![call.wish] = 0]
      BY <1>4 DEF Com!Hear
    <3> QED
      BY <3>1
  <2> QED
    BY <1>4, <2>1, <2>2 DEF Com!Hear
<1>5. CASE Com!Reload
  BY <1>5 DEF Com!Reload
<1>6. CASE Com!Restart
  BY <1>6 DEF Com!Restart
<1>7. ASSUME NEW e \in net, Com!Lose(e) PROVE CommandsInv'
  BY <1>7 DEF Com!Lose
<1>8. CASE UNCHANGED commands
  BY <1>8 DEF commands
<1> QED
  BY <1>1, <1>2, <1>3, <1>4, <1>5, <1>6, <1>7, <1>8, ArrivalSound DEF Com!Next

-----------------------------------------------------------------------------
(* What an agent is told.                                                    *)

ListenLimits == RecentOps \in Nat

ListenTypes ==
  /\ last \in Nat
  /\ changes \in [Stream -> Nat] /\ counter \in [Stream -> Nat]
  /\ asked \in [Stream -> SUBSET (Nat \ {0})] /\ told \in [Stream -> SUBSET Nat]
  /\ addressed \subseteq Nat \ {0}
  /\ cursor \in [after : Int, numbers : [Stream -> Nat]]
  /\ plan \in [after : Nat, numbers : [Stream -> Nat]]
  /\ newest \in [after : Nat, numbers : [Stream -> Nat]]

(* A place to go on from skips nothing: what it is past was returned, or has *)
(* left the history; and what it is past is there already.                   *)
Covers(c) ==
  /\ c.after <= last
  /\ \A n \in addressed : n <= c.after => n \in given \/ n <= last - RecentOps
  /\ \A s \in Stream \ torn :
       /\ c.numbers[s] <= changes[s]
       /\ \A n \in asked[s] : n <= c.numbers[s] => n \in told[s]

ListenInv ==
  /\ ListenTypes
  /\ Covers(cursor) /\ Covers(plan)
  /\ newest.after <= last
  /\ \A s \in Stream : newest.numbers[s] <= changes[s]
  /\ Lis!NothingSkipped

LEMMA ListenStart == Lis!Init => ListenInv
BY DEF Lis!Init, ListenInv, ListenTypes, Covers, Lis!NothingSkipped, Lis!Unread, Lis!NoCursor

(* Nothing is skipped as long as the saved cursors skip nothing.             *)
LEMMA CoveredIsNotSkipped ==
  ASSUME Covers(cursor)
  PROVE  Lis!NothingSkipped
BY DEF Covers, Lis!NothingSkipped

Place == [after : Int, numbers : [Stream -> Nat]]

(* What the runner stores is past every place that skips nothing.            *)
LEMMA ArrivalCovers ==
  ASSUME ListenLimits, ListenInv, Lis!Arrive
  PROVE  ListenTypes' /\ \A c \in Place : Covers(c) => Covers(c)'
<1> USE DEF ListenInv, ListenTypes, ListenLimits, Lis!Arrive, Lis!listening
<1>1. ListenTypes'
  <2>1. last' = last + 1 /\ last' \in Nat \ {0} /\ addressed' \subseteq addressed \cup {last'}
    OBVIOUS
  <2> QED
    BY <2>1
<1>2. ASSUME NEW c \in Place, Covers(c) PROVE Covers(c)'
  <2>1. last' = last + 1 /\ addressed' \subseteq addressed \cup {last'}
    OBVIOUS
  <2>2. c.after <= last'
    BY <1>2, <2>1 DEF Covers, Place
  <2>3. ASSUME NEW n \in addressed', n <= c.after PROVE n \in given' \/ n <= last' - RecentOps
    <3>1. n \in addressed /\ n \in Nat
      BY <1>2, <2>1, <2>3 DEF Covers, Place
    <3>2. n \in given \/ n <= last - RecentOps
      BY <1>2, <2>3, <3>1 DEF Covers
    <3> QED
      BY <2>1, <3>1, <3>2
  <2> QED
    BY <1>2, <2>2, <2>3 DEF Covers
<1> QED
  BY <1>1, <1>2

LEMMA ChangeCovers ==
  ASSUME ListenLimits, ListenInv, NEW t \in Stream,
         Lis!Append(t) \/ Lis!CountFirst(t) \/ Lis!Compact(t)
  PROVE  /\ ListenTypes'
         /\ \A c \in Place : Covers(c) => Covers(c)'
         /\ \A s \in Stream : changes[s] <= changes'[s]
<1> USE DEF ListenInv, ListenTypes, Lis!listening, Lis!Writing
<1>1. CASE Lis!Append(t)
  <2>1. /\ changes' = [changes EXCEPT ![t] = @ + 1] /\ UNCHANGED <<last, addressed, counter, given, told, torn, cursor, plan, newest>>
        /\ asked' \in {asked, [asked EXCEPT ![t] = @ \cup {changes'[t]}]}
    BY <1>1 DEF Lis!Append
  <2>2. /\ changes' \in [Stream -> Nat] /\ changes'[t] = changes[t] + 1
        /\ \A s \in Stream : s # t => changes'[s] = changes[s]
    BY <2>1
  <2>3. /\ asked' \in [Stream -> SUBSET (Nat \ {0})]
        /\ \A s \in Stream : asked'[s] \subseteq asked[s] \cup {changes[t] + 1}
        /\ \A s \in Stream : s # t => asked'[s] = asked[s]
    <3>1. CASE asked' = asked
      BY <3>1
    <3>2. CASE asked' = [asked EXCEPT ![t] = @ \cup {changes'[t]}]
      BY <2>2, <3>2
    <3> QED
      BY <2>1, <3>1, <3>2
  <2>4. ASSUME NEW c \in Place, Covers(c) PROVE Covers(c)'
    <3>1. ASSUME NEW s \in Stream, s \notin torn
          PROVE  /\ c.numbers[s] <= changes'[s]
                 /\ \A n \in asked'[s] : n <= c.numbers[s] => n \in told[s]
      <4>1. c.numbers[s] \in Nat /\ c.numbers[s] <= changes[s]
            /\ \A n \in asked[s] : n <= c.numbers[s] => n \in told[s]
        BY <2>4, <3>1 DEF Covers, Place
      <4> QED
        BY <2>2, <2>3, <4>1
    <3> QED
      BY <2>1, <2>4, <3>1 DEF Covers
  <2>5. ListenTypes'
    BY <2>1, <2>2, <2>3
  <2>6. \A s \in Stream : changes[s] <= changes'[s]
    BY <2>2
  <2> QED
    BY <2>4, <2>5, <2>6
<1>2. CASE Lis!CountFirst(t)
  <2>1. /\ counter' = [counter EXCEPT ![t] = changes[t] + 1]
        /\ UNCHANGED <<last, addressed, changes, given, told, torn, cursor, plan, newest>>
        /\ asked' \in {asked, [asked EXCEPT ![t] = @ \cup {counter'[t]}]}
    BY <1>2 DEF Lis!CountFirst
  <2>2. counter' \in [Stream -> Nat] /\ counter'[t] = changes[t] + 1
    BY <2>1
  <2>3. /\ asked' \in [Stream -> SUBSET (Nat \ {0})]
        /\ \A s \in Stream : asked'[s] \subseteq asked[s] \cup {changes[t] + 1}
        /\ \A s \in Stream : s # t => asked'[s] = asked[s]
    <3>1. CASE asked' = asked
      BY <3>1
    <3>2. CASE asked' = [asked EXCEPT ![t] = @ \cup {counter'[t]}]
      BY <2>2, <3>2
    <3> QED
      BY <2>1, <3>1, <3>2
  <2>4. ASSUME NEW c \in Place, Covers(c) PROVE Covers(c)'
    <3>1. ASSUME NEW s \in Stream, s \notin torn
          PROVE  /\ c.numbers[s] <= changes[s]
                 /\ \A n \in asked'[s] : n <= c.numbers[s] => n \in told[s]
      <4>1. c.numbers[s] \in Nat /\ c.numbers[s] <= changes[s]
            /\ \A n \in asked[s] : n <= c.numbers[s] => n \in told[s]
        BY <2>4, <3>1 DEF Covers, Place
      <4> QED
        BY <2>3, <4>1
    <3> QED
      BY <2>1, <2>4, <3>1 DEF Covers
  <2>5. ListenTypes'
    BY <2>1, <2>2, <2>3
  <2> QED
    BY <2>1, <2>4, <2>5
<1>3. CASE Lis!Compact(t)
  <2>1. /\ changes' = [changes EXCEPT ![t] = counter[t]] /\ counter[t] > changes[t]
        /\ UNCHANGED <<last, addressed, counter, asked, given, told, torn, cursor, plan, newest>>
    BY <1>3 DEF Lis!Compact
  <2>2. changes' \in [Stream -> Nat] /\ \A s \in Stream : changes[s] <= changes'[s]
    BY <2>1
  <2>3. ASSUME NEW c \in Place, Covers(c) PROVE Covers(c)'
    <3>1. ASSUME NEW s \in Stream, s \notin torn PROVE c.numbers[s] <= changes'[s]
      <4>1. c.numbers[s] \in Nat /\ c.numbers[s] <= changes[s]
        BY <2>3, <3>1 DEF Covers, Place
      <4> QED
        BY <2>2, <4>1
    <3> QED
      BY <2>1, <2>3, <3>1 DEF Covers
  <2>4. ListenTypes'
    BY <2>1, <2>2
  <2> QED
    BY <2>2, <2>3, <2>4
<1> QED
  BY <1>1, <1>2, <1>3

(* What is saved with an answer: of each kind either what was worked from,   *)
(* or the newest that was read, all of which for the agent was just given.   *)
LEMMA AnswerCovers ==
  ASSUME ListenLimits, ListenInv, Lis!Answer
  PROVE  cursor' \in Place /\ Covers(cursor)'
<1> USE DEF ListenLimits, ListenInv, ListenTypes
<1>1. PICK whole \in {FALSE, history /\ plan.after = 0} :
        cursor' = [after |-> IF Lis!Messages # {}
                                /\ (Lis!IsHistory \/ Lis!Spoken \/ Lis!Wakes("tasks"))
                             THEN newest.after ELSE plan.after,
                   numbers |-> [s \in Stream |-> IF Lis!Moves(s, whole) THEN Lis!Revision(s)
                                                 ELSE plan.numbers[s]]]
  BY DEF Lis!Answer
<1>2. /\ given' = given \cup Lis!Messages
      /\ told' = [s \in Stream |-> told[s] \cup Lis!For(s)]
      /\ torn' = torn \cup {s \in Stream : counter[s] > newest.numbers[s]}
      /\ UNCHANGED <<last, addressed, changes, counter, asked>>
  BY DEF Lis!Answer, Lis!stored, Lis!Tells
<1>3. cursor'.after \in {newest.after, plan.after}
  BY <1>1
<1>4. \A s \in Stream : cursor'.numbers[s] \in {Lis!Revision(s), plan.numbers[s]}
  BY <1>1
<1>5. \A s \in Stream : Lis!Revision(s) \in Nat
  BY DEF Lis!Revision, Lis!Larger
<1>6. cursor' \in Place
  <2>1. [s \in Stream |-> IF Lis!Moves(s, whole) THEN Lis!Revision(s) ELSE plan.numbers[s]]
          \in [Stream -> Nat]
    BY <1>5
  <2>2. newest.after \in Int /\ plan.after \in Int
    OBVIOUS
  <2> QED
    BY <1>1, <2>1, <2>2 DEF Place
<1>7. cursor'.after <= last
  BY <1>3 DEF Covers
<1>8. ASSUME NEW n \in addressed, n <= cursor'.after PROVE n \in given' \/ n <= last - RecentOps
  <2>0. n \in Nat \ {0} /\ newest.after \in Nat /\ plan.after \in Nat /\ last \in Nat
    OBVIOUS
  <2>1. CASE n <= plan.after
    BY <1>2, <2>1 DEF Covers
  <2>2. CASE ~(n <= plan.after)
    <3>1. n <= newest.after
      BY <1>3, <1>8, <2>2
    <3>2. CASE n > newest.after - RecentOps
      <4>1. n \in 1..newest.after /\ n > plan.after
        BY <2>0, <2>2, <3>1
      <4>2. n \in Lis!Messages
        BY <2>0, <3>2, <4>1 DEF Lis!Messages, Lis!Larger
      <4> QED
        BY <1>2, <4>2
    <3>3. CASE ~(n > newest.after - RecentOps)
      BY <2>0, <3>3
    <3> QED
      BY <3>2, <3>3
  <2> QED
    BY <2>1, <2>2
<1>9. ASSUME NEW s \in Stream, s \notin torn'
      PROVE  /\ cursor'.numbers[s] <= changes[s]
             /\ \A n \in asked[s] : n <= cursor'.numbers[s] => n \in told'[s]
  <2>1. s \notin torn /\ Lis!Revision(s) = newest.numbers[s]
    BY <1>2, <1>9 DEF Lis!Revision, Lis!Larger
  <2>2. /\ newest.numbers[s] \in Nat /\ plan.numbers[s] \in Nat /\ changes[s] \in Nat
        /\ newest.numbers[s] <= changes[s] /\ plan.numbers[s] <= changes[s]
        /\ \A n \in asked[s] : n <= plan.numbers[s] => n \in told[s]
    BY <2>1 DEF Covers
  <2>3. told'[s] = told[s] \cup {n \in asked[s] : plan.numbers[s] < n /\ n <= newest.numbers[s]}
    BY <1>2 DEF Lis!For
  <2>4. cursor'.numbers[s] \in {newest.numbers[s], plan.numbers[s]}
    BY <1>4, <2>1
  <2>5. ASSUME NEW n \in asked[s], n <= cursor'.numbers[s] PROVE n \in told'[s]
    <3>1. n \in Nat
      OBVIOUS
    <3>2. CASE n <= plan.numbers[s]
      BY <2>2, <2>3, <3>2
    <3>3. CASE ~(n <= plan.numbers[s])
      BY <2>2, <2>3, <2>4, <2>5, <3>1, <3>3
    <3> QED
      BY <3>2, <3>3
  <2> QED
    BY <2>2, <2>4, <2>5
<1> QED
  BY <1>2, <1>6, <1>7, <1>8, <1>9 DEF Covers

LEMMA ListenStep ==
  ASSUME ListenLimits, ListenInv, [Lis!Next]_listening
  PROVE  ListenInv'
<1> USE DEF ListenInv
<1>1. cursor \in Place /\ plan \in Place
  BY DEF ListenTypes, Place
<1>2. ASSUME Lis!Arrive PROVE ListenInv'
  <2>1. ListenTypes' /\ \A c \in Place : Covers(c) => Covers(c)'
    BY <1>2, ArrivalCovers
  <2>2. /\ last <= last'
        /\ UNCHANGED <<changes, given, told, torn, cursor, plan, newest>>
    BY <1>2 DEF Lis!Arrive, Lis!listening, ListenTypes
  <2>3. Covers(cursor)' /\ Covers(plan)'
    BY <1>1, <2>1, <2>2 DEF Covers
  <2>4. newest'.after <= last' /\ \A s \in Stream : newest'.numbers[s] <= changes'[s]
    BY <2>1, <2>2 DEF ListenTypes
  <2> QED
    BY <2>1, <2>3, <2>4 DEF Covers, Lis!NothingSkipped
<1>3. ASSUME NEW t \in Stream, Lis!Append(t) \/ Lis!CountFirst(t) \/ Lis!Compact(t)
      PROVE  ListenInv'
  <2>1. /\ ListenTypes' /\ \A c \in Place : Covers(c) => Covers(c)'
        /\ \A s \in Stream : changes[s] <= changes'[s]
    BY <1>3, ChangeCovers
  <2>2. UNCHANGED <<last, cursor, plan, newest>>
    BY <1>3 DEF Lis!Append, Lis!CountFirst, Lis!Compact, Lis!listening
  <2>3. Covers(cursor)' /\ Covers(plan)'
    BY <1>1, <2>1, <2>2 DEF Covers
  <2>4. newest'.after <= last' /\ \A s \in Stream : newest'.numbers[s] <= changes'[s]
    BY <2>1, <2>2 DEF ListenTypes
  <2> QED
    BY <2>1, <2>3, <2>4 DEF Covers, Lis!NothingSkipped
<1>4. ASSUME NEW fromStart \in BOOLEAN, Lis!Begin(fromStart) PROVE ListenInv'
  <2>1. UNCHANGED <<last, addressed, changes, counter, asked, cursor, newest, given, told, torn>>
    BY <1>4 DEF Lis!Begin, Lis!stored
  <2>2. plan' \in [after : Nat, numbers : [Stream -> Nat]] /\ Covers(plan)'
    <3>1. CASE plan' = Lis!Unread
      BY <2>1, <3>1 DEF Lis!Unread, Covers, ListenTypes
    <3>2. CASE plan' = [after |-> Lis!After(cursor), numbers |-> cursor.numbers]
      <4>1. Lis!After(cursor) = 0 \/ (Lis!After(cursor) = cursor.after /\ cursor.after \in Nat)
        BY DEF Lis!After, Lis!Oldest, Lis!Larger, ListenTypes, ListenLimits
      <4>2. plan'.after = Lis!After(cursor) /\ plan'.numbers = cursor.numbers
        BY <3>2
      <4> QED
        BY <2>1, <3>2, <4>1, <4>2 DEF Covers, ListenTypes
    <3> QED
      BY <1>4, <3>1, <3>2 DEF Lis!Begin
  <2>3. Covers(cursor)'
    BY <2>1 DEF Covers
  <2>4. ListenTypes'
    BY <2>1, <2>2 DEF ListenTypes
  <2> QED
    BY <2>1, <2>2, <2>3, <2>4 DEF Covers, Lis!NothingSkipped
<1>5. ASSUME Lis!ReadChanges PROVE ListenInv'
  <2>1. /\ newest' = [after |-> last, numbers |-> changes]
        /\ UNCHANGED <<last, addressed, changes, counter, asked, cursor, plan, given, told, torn>>
    BY <1>5 DEF Lis!ReadChanges, Lis!stored
  <2>2. ListenTypes' /\ newest'.after = last /\ newest'.numbers = changes
    BY <2>1 DEF ListenTypes
  <2> QED
    BY <2>1, <2>2 DEF Covers, ListenTypes, Lis!NothingSkipped
<1>6. ASSUME Lis!Answer PROVE ListenInv'
  <2>1. cursor' \in Place /\ Covers(cursor)'
    BY <1>6, AnswerCovers
  <2>2. /\ plan' = Lis!Unread /\ newest' = Lis!Unread
        /\ UNCHANGED <<last, addressed, changes, counter, asked>>
        /\ told' = [s \in Stream |-> told[s] \cup Lis!For(s)]
    BY <1>6 DEF Lis!Answer, Lis!Over, Lis!stored, Lis!Tells
  <2>3. told' \in [Stream -> SUBSET Nat]
    BY <2>2 DEF ListenTypes, Lis!For
  <2>4. ListenTypes'
    BY <2>1, <2>2, <2>3 DEF ListenTypes, Place, Lis!Unread
  <2>5. Covers(plan)'
    BY <2>2, <2>4 DEF Covers, Lis!Unread, ListenTypes
  <2> QED
    BY <2>1, <2>2, <2>4, <2>5 DEF Covers, Lis!NothingSkipped, Lis!Unread, ListenTypes
<1>7. ASSUME Lis!Again \/ Lis!Ends \/ Lis!Dies PROVE ListenInv'
  <2>1. /\ plan' \in {plan, Lis!Unread} /\ newest' = Lis!Unread
        /\ cursor' \in {cursor, plan}
        /\ UNCHANGED <<last, addressed, changes, counter, asked, given, told, torn>>
    BY <1>7 DEF Lis!Again, Lis!Ends, Lis!Dies, Lis!Over, Lis!stored, Lis!Unchanged
  <2>2. ListenTypes'
    BY <2>1 DEF ListenTypes, Lis!Unread
  <2>3. Covers(plan)' /\ Covers(cursor)'
    BY <2>1 DEF Covers, Lis!Unread, ListenTypes
  <2> QED
    BY <2>1, <2>2, <2>3 DEF Covers, Lis!NothingSkipped, Lis!Unread, ListenTypes
<1>8. ASSUME UNCHANGED listening PROVE ListenInv'
  BY <1>8 DEF listening, ListenTypes, Covers, Lis!NothingSkipped
<1> QED
  BY <1>2, <1>3, <1>4, <1>5, <1>6, <1>7, <1>8 DEF Lis!Next

-----------------------------------------------------------------------------
(* Files, for any number of files, holders and chunks: only who sent wrong  *)
(* bytes is distrusted, and no more is fetched or served at a time than      *)
(* there are places.                                                         *)

(* Some file may be sent, and there are finitely many. *)
FilesLimits ==
  /\ File # {} /\ IsFiniteSet(File)
  /\ Size \in Nat /\ Parallel \in Nat /\ Slots \in Nat /\ MaxTrouble \in Nat

LEMMA FilesCount == \A S : Fil!Cardinality(S) = Cardinality(S)
  BY Zenon DEF Cardinality, Fil!Cardinality

(* A finite set laid out in a row. *)
LEMMA LaidOut ==
  ASSUME NEW S, IsFiniteSet(S)
  PROVE  Fil!SetToSeq(S) \in Seq(S) /\ Len(Fil!SetToSeq(S)) = Cardinality(S)
<1>1. Cardinality(S) \in Nat /\ ExistsBijection(1..Cardinality(S), S)
  BY FS_CardinalityType
<1>2. PICK f \in Bijection(1..Cardinality(S), S) : TRUE
  BY <1>1, Fun_ExistsBij
<1>3. f \in [1..Cardinality(S) -> S] /\ \A j, k \in 1..Cardinality(S) : f[j] = f[k] => j = k
  BY <1>2, Fun_BijectionProperties
<1>4. \E g \in [1..Cardinality(S) -> S] : Fil!IsInjective(g)
  BY <1>3 DEF Fil!IsInjective
<1>5. Fil!SetToSeq(S) = CHOOSE g \in [1..Cardinality(S) -> S] : Fil!IsInjective(g)
  BY FilesCount, Zenon DEF Fil!SetToSeq
<1>6. Fil!SetToSeq(S) \in [1..Cardinality(S) -> S]
  BY <1>4, <1>5
<1> QED
  BY <1>1, <1>6

(* What a holder is asked for. *)
Request1 == [file : File, offset : 0..Size]

LEMMA PumpKeeps ==
  ASSUME FilesLimits, NEW them \in [File -> Fil!Item], NEW requests \in [Holder -> Seq(Request1)],
         open' \subseteq Holder, Fil!Pump(them, requests)
  PROVE  /\ item' \in [File -> Fil!Item] /\ ask' \in [Holder -> Seq(Request1)]
         /\ \A p \in Holder : ask'[p] # <<>> => requests[p] # <<>> \/ p \in open'
         /\ \A f \in File : /\ item'[f].right = them[f].right
                            /\ item'[f].source # them[f].source => verifying'[f] = Fil!Nobody
         /\ Cardinality({f \in File : item'[f].source # Fil!Nobody}) <= Parallel
<1>0. PICK fs \in SUBSET Fil!Due(them) :
        /\ Fil!Cardinality(fs) + Fil!Cardinality(Fil!Fetched(them)) <= Parallel
        /\ \E h \in [fs -> Holder] :
             /\ \A f \in fs : h[f] \in Fil!Askable(them, f)
             /\ item' = [f \in File |-> IF f \in fs THEN [them[f] EXCEPT !.source = h[f]] ELSE them[f]]
             /\ ask' = [p \in Holder |->
                  requests[p] \o Fil!SetToSeq({[file |-> f, offset |-> them[f].received] : f \in {x \in fs : h[x] = p}})]
  BY Zenon DEF Fil!Pump
<1>1. PICK h \in [fs -> Holder] :
        /\ \A f \in fs : h[f] \in Fil!Askable(them, f)
        /\ item' = [f \in File |-> IF f \in fs THEN [them[f] EXCEPT !.source = h[f]] ELSE them[f]]
        /\ ask' = [p \in Holder |->
             requests[p] \o Fil!SetToSeq({[file |-> f, offset |-> them[f].received] : f \in {x \in fs : h[x] = p}})]
  BY <1>0
<1>2. fs \subseteq File /\ \A f \in fs : verifying'[f] = Fil!Nobody /\ h[f] \in open'
  BY <1>1 DEF Fil!Due, Fil!Askable
<1>3. \A f \in File : item'[f] = IF f \in fs THEN [them[f] EXCEPT !.source = h[f]] ELSE them[f]
  BY <1>1
<1>4. ASSUME NEW f \in File PROVE item'[f] \in Fil!Item /\ item'[f].right = them[f].right
                 /\ (item'[f].source # them[f].source => verifying'[f] = Fil!Nobody)
                 /\ (item'[f].source # Fil!Nobody => f \in fs \/ them[f].source # Fil!Nobody)
  <2>1. CASE f \in fs
    <3>1. item'[f] = [them[f] EXCEPT !.source = h[f]] /\ h[f] \in Holder /\ them[f] \in Fil!Item
      BY <1>3, <2>1
    <3> QED
      BY <1>2, <2>1, <3>1 DEF Fil!Item
  <2>2. CASE f \notin fs
    BY <1>3, <2>2
  <2> QED
    BY <2>1, <2>2
<1>5. item' \in [File -> Fil!Item]
  BY <1>1, <1>4
<1>6. Cardinality({f \in File : item'[f].source # Fil!Nobody}) <= Parallel
  <2> DEFINE F == Fil!Fetched(them)
             G == {f \in File : item'[f].source # Fil!Nobody}
  <2>1. F \in SUBSET File /\ fs \in SUBSET File /\ G \in SUBSET (fs \cup F)
    BY <1>2, <1>4 DEF Fil!Fetched
  <2>2. Cardinality(fs) + Cardinality(F) <= Parallel
    BY <1>0, FilesCount
  <2> HIDE DEF F, G
  <2>3. IsFiniteSet(fs) /\ IsFiniteSet(F)
    BY <2>1, FS_Subset DEF FilesLimits
  <2>4. IsFiniteSet(fs \cup F) /\ Cardinality(fs \cup F) = Cardinality(fs) + Cardinality(F) - Cardinality(fs \cap F)
    BY <2>3, FS_Union
  <2>5. IsFiniteSet(fs \cap F)
    <3>1. fs \cap F \in SUBSET fs
      OBVIOUS
    <3> QED
      BY <2>3, <3>1, FS_Subset
  <2>6. IsFiniteSet(G) /\ Cardinality(G) <= Cardinality(fs \cup F)
    BY <2>1, <2>4, FS_Subset
  <2>7. /\ Cardinality(fs) \in Nat /\ Cardinality(F) \in Nat /\ Cardinality(fs \cap F) \in Nat
        /\ Cardinality(G) \in Nat
    BY <2>3, <2>5, <2>6, FS_CardinalityType
  <2>8. Cardinality(G) <= Parallel
    BY <2>2, <2>4, <2>6, <2>7 DEF FilesLimits
  <2> QED
    BY <2>8 DEF G
<1>7. ASSUME NEW p \in Holder
      PROVE  /\ ask'[p] \in Seq(Request1)
             /\ ask'[p] # <<>> => requests[p] # <<>> \/ p \in open'
  <2> DEFINE share == {x \in fs : h[x] = p}
             S == {[file |-> f, offset |-> them[f].received] : f \in share}
  <2>1. ask'[p] = requests[p] \o Fil!SetToSeq(S)
    BY <1>1
  <2>2. S \subseteq Request1
    BY <1>2 DEF Request1, Fil!Item
  <2>3. IsFiniteSet(S)
    <3> DEFINE fileOf == [r \in S |-> r.file]
    <3>1. share \in SUBSET File /\ IsFiniteSet(share)
      BY <1>2, FS_Subset DEF FilesLimits
    <3>2. \A r \in S : r.file \in share /\ r = [file |-> r.file, offset |-> them[r.file].received]
      OBVIOUS
    <3> HIDE DEF S, share
    <3>3. fileOf \in [S -> share] /\ \A r, t \in S : fileOf[r] = fileOf[t] => r = t
      BY <3>2
    <3> HIDE DEF fileOf
    <3>4. fileOf \in Injection(S, share)
      BY <3>3, Fun_IsInj
    <3> QED
      BY <3>1, <3>4, FS_Injection
  <2>4. p \notin open' => S = {}
    BY <1>2
  <2> HIDE DEF S
  <2>5. Fil!SetToSeq(S) \in Seq(Request1) /\ Len(Fil!SetToSeq(S)) = Cardinality(S)
    BY <2>2, <2>3, LaidOut
  <2>6. S = {} => Len(Fil!SetToSeq(S)) = 0
    BY <2>5, FS_EmptySet
  <2>7. ASSUME p \notin open', requests[p] = <<>> PROVE ask'[p] = <<>>
    <3>1. Fil!SetToSeq(S) = <<>>
      BY <2>4, <2>5, <2>6, <2>7
    <3> QED
      BY <2>1, <2>7, <3>1
  <2>8. ask'[p] \in Seq(Request1)
    BY <2>1, <2>5
  <2> QED
    BY <2>7, <2>8
<1> QED
  BY <1>1, <1>4, <1>5, <1>6, <1>7

(* What a device fetches: wrong bytes are somebody's, a file that is checked is   *)
(* fetched from nobody, and no more than Parallel files are on their way.          *)
ItemPart ==
  /\ item \in [File -> Fil!Item] /\ verifying \in [File -> Holder \cup {Fil!Nobody}]
  /\ \A f \in File : /\ ~item[f].right => f \in spoiled
                     /\ verifying[f] # Fil!Nobody => item[f].source = Fil!Nobody
  /\ Cardinality({f \in File : item[f].source # Fil!Nobody}) <= Parallel
(* Only who is connected is asked for something, or has something on its way; and *)
(* wrong bytes on their way are somebody's.                                        *)
AskPart ==
  /\ ask \in [Holder -> Seq(Request1)]
  /\ \A p \in Holder : ask[p] # <<>> => p \in open
GivePart ==
  /\ give \in [Holder -> Seq(Fil!Packet)]
  /\ \A p \in Holder : give[p] # <<>> => p \in open
  /\ \A p \in Holder : \A i \in DOMAIN give[p] :
       give[p][i].kind = "chunk" /\ ~give[p][i].right => give[p][i].file \in spoiled
(* Uploads that are not cancelled go to who is connected, in no more than Slots.   *)
UploadPart ==
  /\ uploads \in [Holder -> [File -> Fil!Upload]]
  /\ \A p \in Holder, f \in File :
       uploads[p][f].phase # "none" /\ ~uploads[p][f].cancelled => p \in open
  /\ \A p \in Holder : Cardinality({f \in File : uploads[p][f].phase # "none"}) <= Slots
(* Who is distrusted, and the rest.                                                *)
TrustPart ==
  /\ open \subseteq Holder /\ capable \subseteq open /\ trouble \in 0..MaxTrouble
  /\ fetched \subseteq File /\ spoiled \subseteq File /\ distrusted \subseteq Holder \X File
  /\ Fil!HonestTrusted

FilesInv == ItemPart /\ AskPart /\ GivePart /\ UploadPart /\ TrustPart

LEMMA FilesStart == ASSUME FilesLimits, Fil!Init PROVE FilesInv
<1>1. ItemPart
  <2>1. item \in [File -> Fil!Item] /\ verifying \in [File -> Holder \cup {Fil!Nobody}]
    BY DEF FilesLimits, Fil!Init, Fil!Item
  <2>2. {f \in File : item[f].source # Fil!Nobody} = {}
    BY DEF Fil!Init
  <2>3. \A f \in File : item[f].right /\ item[f].source = Fil!Nobody
    BY DEF Fil!Init
  <2> QED
    BY <2>1, <2>2, <2>3, FS_EmptySet DEF ItemPart, FilesLimits
<1>2. AskPart /\ GivePart
  BY DEF Fil!Init, AskPart, GivePart
<1>3. UploadPart
  <2>1. uploads \in [Holder -> [File -> Fil!Upload]]
    BY DEF FilesLimits, Fil!Init, Fil!Upload, Fil!NoUpload
  <2>2. \A p \in Holder : \A f \in File : uploads[p][f].phase = "none"
    BY DEF Fil!Init, Fil!NoUpload
  <2>3. \A p \in Holder : {f \in File : uploads[p][f].phase # "none"} = {}
    BY <2>2
  <2>4. \A p \in Holder : Cardinality({f \in File : uploads[p][f].phase # "none"}) <= Slots
    <3> SUFFICES ASSUME NEW p \in Holder PROVE Cardinality({f \in File : uploads[p][f].phase # "none"}) <= Slots
      OBVIOUS
    <3>1. Cardinality({f \in File : uploads[p][f].phase # "none"}) = Cardinality({})
      BY <2>3
    <3> QED
      BY <3>1, FS_EmptySet DEF FilesLimits
  <2> QED
    BY <2>1, <2>2, <2>4 DEF UploadPart
<1>4. TrustPart
  BY DEF Fil!Init, TrustPart, Fil!HonestTrusted, FilesLimits
<1> QED
  BY <1>1, <1>2, <1>3, <1>4 DEF FilesInv

LEMMA FilesSoundByInv == ASSUME FilesInv PROVE Fil!FilesSound
<1>1. Fil!TypeOK
  BY DEF FilesInv, ItemPart, AskPart, GivePart, UploadPart, TrustPart, Request1, Fil!TypeOK
<1>2. Fil!Places
  BY FilesCount DEF FilesInv, ItemPart, UploadPart, Fil!Places, Fil!Fetched
<1> QED
  BY <1>1, <1>2 DEF FilesInv, TrustPart, Fil!FilesSound

(* Files are asked for, among those that no holder sends and that are not    *)
(* being checked.                                                            *)
LEMMA PumpSound ==
  ASSUME FilesLimits, FilesInv, NEW them \in [File -> Fil!Item], NEW requests \in [Holder -> Seq(Request1)],
         open' \subseteq Holder, verifying' \in [File -> Holder \cup {Fil!Nobody}],
         \A f \in File : ~them[f].right => f \in spoiled',
         \A f \in File : verifying'[f] # Fil!Nobody => them[f].source = Fil!Nobody,
         \A p \in Holder : requests[p] # <<>> => p \in open',
         Fil!Pump(them, requests)
  PROVE  ItemPart' /\ AskPart'
<1>1. /\ item' \in [File -> Fil!Item] /\ ask' \in [Holder -> Seq(Request1)]
      /\ \A p \in Holder : ask'[p] # <<>> => requests[p] # <<>> \/ p \in open'
      /\ \A f \in File : /\ item'[f].right = them[f].right
                         /\ item'[f].source # them[f].source => verifying'[f] = Fil!Nobody
      /\ Cardinality({f \in File : item'[f].source # Fil!Nobody}) <= Parallel
  BY PumpKeeps
<1>2. ItemPart'
  BY <1>1 DEF ItemPart
<1>3. AskPart'
  BY <1>1 DEF AskPart
<1> QED
  BY <1>2, <1>3

LEMMA TroubleTyped ==
  ASSUME FilesLimits, FilesInv, Fil!Bothers \/ UNCHANGED trouble
  PROVE  trouble' \in 0..MaxTrouble
BY DEF FilesLimits, FilesInv, TrustPart, Fil!Bothers

(* What a step leaves alone. *)
LEMMA FilesAlone ==
  ASSUME FilesInv
  PROVE  /\ UNCHANGED <<item, verifying, spoiled>> => ItemPart'
         /\ UNCHANGED <<ask, open>> => AskPart'
         /\ UNCHANGED <<give, open, spoiled>> => GivePart'
         /\ UNCHANGED <<uploads, open>> => UploadPart'
<1>1. ASSUME UNCHANGED <<item, verifying, spoiled>> PROVE ItemPart'
  BY <1>1 DEF FilesInv, ItemPart
<1>2. ASSUME UNCHANGED <<ask, open>> PROVE AskPart'
  BY <1>2 DEF FilesInv, AskPart
<1>3. ASSUME UNCHANGED <<give, open, spoiled>> PROVE GivePart'
  BY <1>3 DEF FilesInv, GivePart
<1>4. ASSUME UNCHANGED <<uploads, open>> PROVE UploadPart'
  BY <1>4 DEF FilesInv, UploadPart
<1> QED
  BY <1>1, <1>2, <1>3, <1>4

(* A packet is taken. *)
LEMMA TakesSound ==
  ASSUME FilesInv, NEW p \in Holder, NEW kind, Fil!Takes(p, kind), UNCHANGED <<open, spoiled>>
  PROVE  /\ GivePart' /\ p \in open /\ Head(give[p]) \in Fil!Packet /\ Head(give[p]).kind = kind
         /\ kind = "chunk" /\ ~Head(give[p]).right => Head(give[p]).file \in spoiled
<1>1. give[p] \in Seq(Fil!Packet) /\ give[p] # <<>>
  BY DEF FilesInv, GivePart, Fil!Takes
<1>2. /\ give' = [give EXCEPT ![p] = Tail(give[p])] /\ Head(give[p]).kind = kind
      /\ p \in open
  BY <1>1 DEF FilesInv, GivePart, Fil!Takes
<1>3. /\ Head(give[p]) = give[p][1] /\ 1 \in DOMAIN give[p] /\ Head(give[p]) \in Fil!Packet
      /\ Tail(give[p]) \in Seq(Fil!Packet)
      /\ \A i \in DOMAIN Tail(give[p]) : i + 1 \in DOMAIN give[p] /\ Tail(give[p])[i] = give[p][i + 1]
  BY <1>1
<1>4. give' \in [Holder -> Seq(Fil!Packet)]
  BY <1>2, <1>3 DEF FilesInv, GivePart
<1>5. ASSUME NEW q \in Holder, NEW i \in DOMAIN give'[q],
             give'[q][i].kind = "chunk", ~give'[q][i].right
      PROVE  give'[q][i].file \in spoiled
  <2>1. CASE q = p
    <3>1. give'[q] = Tail(give[p])
      BY <1>2, <2>1 DEF FilesInv, GivePart
    <3> QED
      BY <1>3, <1>5, <2>1, <3>1 DEF FilesInv, GivePart
  <2>2. CASE q # p
    <3>1. give'[q] = give[q]
      BY <1>2, <2>2 DEF FilesInv, GivePart
    <3> QED
      BY <1>5, <3>1 DEF FilesInv, GivePart
  <2> QED
    BY <2>1, <2>2
<1>6. \A q \in Holder : give'[q] # <<>> => q \in open
  BY <1>2 DEF FilesInv, GivePart
<1>7. GivePart'
  BY <1>4, <1>5, <1>6 DEF GivePart
<1> QED
  BY <1>2, <1>3, <1>7 DEF FilesInv, GivePart

(* A packet is sent on an open channel. *)
LEMMA SaysSound ==
  ASSUME FilesInv, NEW p \in open, NEW kind \in {"chunk", "done", "missing"}, NEW f \in File,
         NEW n \in 0..Size, NEW intact \in BOOLEAN, Fil!Says(p, kind, f, n, intact), UNCHANGED open,
         spoiled \subseteq spoiled', kind = "chunk" /\ ~intact => f \in spoiled'
  PROVE  GivePart'
<1> DEFINE c == [kind |-> kind, file |-> f, at |-> n, right |-> intact]
<1>1. c \in Fil!Packet
  BY DEF Fil!Packet
<1>2. give' = [give EXCEPT ![p] = Append(give[p], c)] /\ p \in Holder /\ give[p] \in Seq(Fil!Packet)
  BY DEF Fil!Says, FilesInv, TrustPart, GivePart
<1>3. c.kind = kind /\ c.right = intact /\ c.file = f
  OBVIOUS
<1> HIDE DEF c
<1>4. /\ Append(give[p], c) \in Seq(Fil!Packet)
      /\ \A i \in DOMAIN Append(give[p], c) :
           \/ i \in DOMAIN give[p] /\ Append(give[p], c)[i] = give[p][i]
           \/ Append(give[p], c)[i] = c
  BY <1>1, <1>2
<1>5. give' \in [Holder -> Seq(Fil!Packet)]
  BY <1>2, <1>4 DEF FilesInv, GivePart
<1>6. ASSUME NEW q \in Holder, NEW i \in DOMAIN give'[q],
             give'[q][i].kind = "chunk", ~give'[q][i].right
      PROVE  give'[q][i].file \in spoiled'
  <2>1. CASE q = p
    <3>1. give'[q] = Append(give[p], c)
      BY <1>2, <2>1 DEF FilesInv, GivePart
    <3> QED
      BY <1>3, <1>4, <1>6, <2>1, <3>1 DEF FilesInv, GivePart
  <2>2. CASE q # p
    <3>1. give'[q] = give[q]
      BY <1>2, <2>2 DEF FilesInv, GivePart
    <3> QED
      BY <1>6, <3>1 DEF FilesInv, GivePart
  <2> QED
    BY <2>1, <2>2
<1>7. \A q \in Holder : give'[q] # <<>> => q \in open
  BY <1>2 DEF FilesInv, GivePart
<1> QED
  BY <1>5, <1>6, <1>7 DEF GivePart

(* One upload changes: it ends, goes on, or takes a place that is free. *)
LEMMA UploadSound ==
  ASSUME FilesLimits, FilesInv, NEW p \in Holder, NEW f \in File, NEW u \in Fil!Upload, UNCHANGED open,
         u.phase # "none" /\ ~u.cancelled => p \in open, uploads' = [uploads EXCEPT ![p][f] = u],
         \/ u.phase = "none" \/ uploads[p][f].phase # "none"
         \/ Cardinality({g \in File \ {f} : uploads[p][g].phase # "none"}) < Slots
  PROVE  UploadPart'
<1> DEFINE old == {g \in File : uploads[p][g].phase # "none"}
           new == {g \in File : uploads'[p][g].phase # "none"}
           others == {g \in File \ {f} : uploads[p][g].phase # "none"}
<1>1. p \in Holder /\ uploads \in [Holder -> [File -> Fil!Upload]]
  BY DEF FilesInv, TrustPart, UploadPart
<1>2. /\ uploads' \in [Holder -> [File -> Fil!Upload]]
      /\ \A q \in Holder \ {p} : uploads'[q] = uploads[q]
      /\ \A g \in File \ {f} : uploads'[p][g] = uploads[p][g]
      /\ uploads'[p][f] = u
  BY <1>1
<1>3. IsFiniteSet(old) /\ IsFiniteSet(others) /\ Cardinality(old) <= Slots
  <2>1. old \in SUBSET File /\ others \in SUBSET File
    OBVIOUS
  <2>2. Cardinality(old) <= Slots
    BY <1>1 DEF FilesInv, UploadPart
  <2> HIDE DEF old, others
  <2> QED
    BY <2>1, <2>2, FS_Subset DEF FilesLimits
<1>4. Cardinality(new) <= Slots
  <2>1. CASE u.phase = "none" \/ uploads[p][f].phase # "none"
    <3>1. new \in SUBSET old
      BY <1>2, <2>1
    <3> HIDE DEF new, old
    <3>2. Cardinality(new) <= Cardinality(old) /\ IsFiniteSet(new)
      BY <1>3, <3>1, FS_Subset
    <3>3. Cardinality(new) \in Nat /\ Cardinality(old) \in Nat
      BY <1>3, <3>2, FS_CardinalityType
    <3> QED
      BY <1>3, <3>2, <3>3 DEF FilesLimits
  <2>2. CASE Cardinality(others) < Slots
    <3>1. new \in SUBSET (others \cup {f})
      BY <1>2
    <3>2. f \notin others
      OBVIOUS
    <3> HIDE DEF new, others
    <3>3. IsFiniteSet(others \cup {f}) /\ Cardinality(others \cup {f}) = Cardinality(others) + 1
      BY <1>3, <3>2, FS_AddElement
    <3>4. Cardinality(new) <= Cardinality(others \cup {f}) /\ IsFiniteSet(new)
      BY <3>1, <3>3, FS_Subset
    <3>5. Cardinality(new) \in Nat /\ Cardinality(others) \in Nat
      BY <1>3, <3>4, FS_CardinalityType
    <3> QED
      BY <2>2, <3>3, <3>4, <3>5 DEF FilesLimits
  <2> QED
    BY <2>1, <2>2
<1>5. ASSUME NEW q \in Holder PROVE Cardinality({g \in File : uploads'[q][g].phase # "none"}) <= Slots
  <2>1. CASE q = p
    BY <1>4, <2>1
  <2>2. CASE q # p
    <3>1. uploads'[q] = uploads[q]
      BY <1>2, <2>2
    <3> QED
      BY <3>1 DEF FilesInv, UploadPart
  <2> QED
    BY <2>1, <2>2
<1>6. ASSUME NEW q \in Holder, NEW g \in File, uploads'[q][g].phase # "none", ~uploads'[q][g].cancelled
      PROVE  q \in open
  <2>1. CASE q = p /\ g = f
    BY <1>2, <1>6, <2>1
  <2>3. CASE q = p /\ g # f
    BY <1>2, <1>6, <2>3 DEF FilesInv, UploadPart
  <2>2. CASE q # p
    BY <1>2, <1>6, <2>2 DEF FilesInv, UploadPart
  <2> QED
    BY <2>1, <2>2, <2>3
<1> QED
  BY <1>2, <1>5, <1>6 DEF UploadPart

LEMMA OpenSound ==
  ASSUME FilesLimits, FilesInv, NEW p \in Holder, Fil!Open(p)
  PROVE  FilesInv'
<1> DEFINE c == [kind |-> "files", file |-> CHOOSE f \in File : TRUE, at |-> 0, right |-> TRUE]
<1>1. /\ open' = open \cup {p} /\ give' = [give EXCEPT ![p] = <<c>>]
      /\ UNCHANGED <<item, verifying, fetched, distrusted, capable, ask, uploads, spoiled, trouble>>
  BY DEF Fil!Open, Fil!fetching
<1>2. c \in Fil!Packet /\ c.kind = "files"
  BY DEF FilesLimits, Fil!Packet
<1> HIDE DEF c
<1>3. give' \in [Holder -> Seq(Fil!Packet)] /\ give'[p] = <<c>> /\ \A q \in Holder \ {p} : give'[q] = give[q]
  BY <1>1, <1>2 DEF FilesInv, GivePart
<1>4. ASSUME NEW q \in Holder, NEW i \in DOMAIN give'[q],
             give'[q][i].kind = "chunk", ~give'[q][i].right
      PROVE  give'[q][i].file \in spoiled
  <2>1. CASE q = p
    BY <1>2, <1>3, <1>4, <2>1
  <2>2. CASE q # p
    <3>1. give'[q] = give[q]
      BY <1>3, <2>2
    <3> QED
      BY <1>4, <3>1 DEF FilesInv, GivePart
  <2> QED
    BY <2>1, <2>2
<1>5. \A q \in Holder : give'[q] # <<>> => q \in open'
  BY <1>1, <1>3 DEF FilesInv, GivePart
<1>6. GivePart'
  BY <1>1, <1>3, <1>4, <1>5 DEF GivePart
<1>7. ItemPart'
  BY <1>1, FilesAlone
<1>8. AskPart'
  BY <1>1 DEF FilesInv, AskPart
<1>9. UploadPart'
  BY <1>1 DEF FilesInv, UploadPart
<1>10. TrustPart'
  BY <1>1 DEF FilesInv, TrustPart, Fil!HonestTrusted
<1> QED
  BY <1>6, <1>7, <1>8, <1>9, <1>10 DEF FilesInv

(* What was being served is cancelled. *)
LEMMA CloseSound ==
  ASSUME FilesLimits, FilesInv, NEW p \in Holder, Fil!Close(p)
  PROVE  FilesInv'
<1> DEFINE them == [f \in File |-> IF item[f].source = p THEN [item[f] EXCEPT !.source = Fil!Nobody] ELSE item[f]]
           requests == [ask EXCEPT ![p] = <<>>]
<1>1. /\ Fil!Bothers /\ open' = open \ {p} /\ capable' = capable \ {p}
      /\ give' = [give EXCEPT ![p] = <<>>]
      /\ uploads' = [uploads EXCEPT ![p] = [f \in File |->
           [uploads[p][f] EXCEPT !.cancelled = uploads[p][f].phase # "none"]]]
      /\ UNCHANGED <<verifying, fetched, distrusted, spoiled>>
  BY DEF Fil!Close
<1>2. Fil!Pump(them, requests)
  BY DEF Fil!Close
<1>3. ASSUME NEW f \in File
      PROVE  /\ them[f] \in Fil!Item /\ them[f].right = item[f].right
             /\ them[f].source = item[f].source \/ them[f].source = Fil!Nobody
  <2>1. item[f] \in Fil!Item
    BY DEF FilesInv, ItemPart
  <2>2. CASE item[f].source = p
    <3>1. them[f] = [item[f] EXCEPT !.source = Fil!Nobody]
      BY <2>2
    <3> QED
      BY <2>1, <3>1 DEF Fil!Item
  <2>3. CASE item[f].source # p
    BY <2>1, <2>3
  <2> QED
    BY <2>2, <2>3
<1>4. them \in [File -> Fil!Item]
  BY <1>3
<1>5. requests \in [Holder -> Seq(Request1)] /\ \A q \in Holder : requests[q] # <<>> => q \in open'
  BY <1>1 DEF FilesInv, AskPart
<1>6. /\ \A f \in File : ~them[f].right => f \in spoiled'
      /\ \A f \in File : verifying'[f] # Fil!Nobody => them[f].source = Fil!Nobody
  BY <1>1, <1>3 DEF FilesInv, ItemPart
<1> HIDE DEF them, requests
<1>7. ItemPart' /\ AskPart'
  <2>1. open' \subseteq Holder /\ verifying' \in [File -> Holder \cup {Fil!Nobody}]
    BY <1>1 DEF FilesInv, TrustPart, ItemPart
  <2> QED
    BY <1>2, <1>4, <1>5, <1>6, <2>1, PumpSound
<1>8. GivePart'
  <2>1. /\ give' \in [Holder -> Seq(Fil!Packet)] /\ give'[p] = <<>>
        /\ \A q \in Holder \ {p} : give'[q] = give[q]
    BY <1>1 DEF FilesInv, GivePart
  <2> QED
    BY <1>1, <2>1 DEF FilesInv, GivePart
<1>9. UploadPart'
  <2>1. uploads \in [Holder -> [File -> Fil!Upload]]
    BY DEF FilesInv, UploadPart
  <2>2. ASSUME NEW f \in File
        PROVE  /\ [uploads[p][f] EXCEPT !.cancelled = uploads[p][f].phase # "none"] \in Fil!Upload
               /\ uploads'[p][f].phase = uploads[p][f].phase
               /\ uploads'[p][f].phase # "none" => uploads'[p][f].cancelled
    <3>1. uploads[p][f] \in Fil!Upload
      BY <2>1
    <3>2. uploads'[p][f] = [uploads[p][f] EXCEPT !.cancelled = uploads[p][f].phase # "none"]
      BY <1>1, <2>1
    <3>3. (uploads[p][f].phase # "none") \in BOOLEAN
      BY Zenon
    <3> QED
      BY <3>1, <3>2, <3>3 DEF Fil!Upload
  <2>3. uploads' \in [Holder -> [File -> Fil!Upload]]
    BY <1>1, <2>1, <2>2
  <2>4. \A q \in Holder \ {p} : uploads'[q] = uploads[q]
    BY <1>1, <2>1
  <2>5. ASSUME NEW q \in Holder PROVE Cardinality({f \in File : uploads'[q][f].phase # "none"}) <= Slots
    <3>1. \A f \in File : uploads'[q][f].phase = uploads[q][f].phase
      BY <2>2, <2>4
    <3>2. {f \in File : uploads'[q][f].phase # "none"} = {f \in File : uploads[q][f].phase # "none"}
      BY <3>1
    <3> QED
      BY <3>2 DEF FilesInv, UploadPart
  <2>6. ASSUME NEW q \in Holder, NEW f \in File, uploads'[q][f].phase # "none", ~uploads'[q][f].cancelled
        PROVE  q \in open'
    <3>1. q # p
      BY <2>2, <2>6
    <3> QED
      BY <1>1, <2>4, <2>6, <3>1 DEF FilesInv, UploadPart
  <2> QED
    BY <2>3, <2>5, <2>6 DEF UploadPart
<1>10. TrustPart'
  <2>1. trouble' \in 0..MaxTrouble
    BY <1>1, TroubleTyped
  <2> QED
    BY <1>1, <2>1 DEF FilesInv, TrustPart, Fil!HonestTrusted
<1> QED
  BY <1>7, <1>8, <1>9, <1>10 DEF FilesInv

(* One file changes before others are asked for. *)
LEMMA OneItem ==
  ASSUME FilesLimits, FilesInv, NEW f \in File, NEW j \in Fil!Item, UNCHANGED <<open, spoiled>>,
         verifying' \in [File -> Holder \cup {Fil!Nobody}],
         \A g \in File \ {f} : verifying'[g] \in {verifying[g], Fil!Nobody},
         ~j.right => f \in spoiled,
         verifying'[f] # Fil!Nobody => j.source = Fil!Nobody,
         Fil!Pump([item EXCEPT ![f] = j], ask)
  PROVE  ItemPart' /\ AskPart'
<1> DEFINE them == [item EXCEPT ![f] = j]
<1>1. them \in [File -> Fil!Item] /\ them[f] = j /\ \A g \in File \ {f} : them[g] = item[g]
  BY DEF FilesInv, ItemPart
<1>2. \A g \in File : ~them[g].right => g \in spoiled'
  BY <1>1 DEF FilesInv, ItemPart
<1>3. ASSUME NEW g \in File, verifying'[g] # Fil!Nobody PROVE them[g].source = Fil!Nobody
  <2>1. CASE g = f
    BY <1>1, <1>3, <2>1
  <2>2. CASE g # f
    <3>1. verifying[g] # Fil!Nobody /\ them[g] = item[g]
      BY <1>1, <1>3, <2>2
    <3> QED
      BY <3>1 DEF FilesInv, ItemPart
  <2> QED
    BY <2>1, <2>2
<1>4. /\ ask \in [Holder -> Seq(Request1)] /\ open' \subseteq Holder
      /\ \A p \in Holder : ask[p] # <<>> => p \in open'
  BY DEF FilesInv, AskPart, TrustPart
<1>5. Fil!Pump(them, ask)
  OBVIOUS
<1> HIDE DEF them
<1> QED
  BY <1>1, <1>2, <1>3, <1>4, <1>5, PumpSound

(* A holder that was asked is given up for a while. *)
LEMMA SkipSound ==
  ASSUME FilesLimits, FilesInv, NEW f \in File, item[f].source \in Holder, UNCHANGED <<open, spoiled, verifying>>,
         Fil!Pump(Fil!Skip(f), ask)
  PROVE  ItemPart' /\ AskPart'
<1> DEFINE j == [item[f] EXCEPT !.source = Fil!Nobody, !.tried = item[f].tried \cup {item[f].source}]
<1>1. item \in [File -> Fil!Item] /\ item[f] \in Fil!Item
  BY DEF FilesInv, ItemPart
<1>2. item[f].source \in Holder
  OBVIOUS
<1>3. j \in Fil!Item /\ j.right = item[f].right /\ j.source = Fil!Nobody
  BY <1>1, <1>2 DEF Fil!Item
<1>4. Fil!Skip(f) = [item EXCEPT ![f] = j]
  BY <1>1 DEF Fil!Skip, Fil!Item
<1>5. ~j.right => f \in spoiled
  BY <1>3 DEF FilesInv, ItemPart
<1>6. verifying' \in [File -> Holder \cup {Fil!Nobody}] /\ \A g \in File \ {f} : verifying'[g] \in {verifying[g], Fil!Nobody}
  BY DEF FilesInv, ItemPart
<1> HIDE DEF j
<1> QED
  BY <1>3, <1>4, <1>5, <1>6, OneItem

LEMMA TakeFilesSound ==
  ASSUME FilesLimits, FilesInv, NEW p \in Holder, Fil!TakeFiles(p)
  PROVE  FilesInv'
<1> DEFINE them == [f \in File |-> [item[f] EXCEPT !.tried = @ \ {p}]]
<1>1. /\ Fil!Takes(p, "files") /\ capable' = capable \cup {p} /\ Fil!Pump(them, ask)
      /\ UNCHANGED <<open, verifying, fetched, distrusted, uploads, spoiled, trouble>>
  BY DEF Fil!TakeFiles
<1>2. GivePart' /\ p \in open
  BY <1>1, TakesSound
<1>3. ASSUME NEW f \in File
      PROVE  them[f] \in Fil!Item /\ them[f].right = item[f].right /\ them[f].source = item[f].source
  <2>1. item[f] \in Fil!Item
    BY DEF FilesInv, ItemPart
  <2>2. them[f] = [item[f] EXCEPT !.tried = item[f].tried \ {p}]
    OBVIOUS
  <2> HIDE DEF them
  <2> QED
    BY <2>1, <2>2 DEF Fil!Item
<1>4. them \in [File -> Fil!Item]
  BY <1>3
<1>5. /\ \A f \in File : ~them[f].right => f \in spoiled'
      /\ \A f \in File : verifying'[f] # Fil!Nobody => them[f].source = Fil!Nobody
      /\ verifying' \in [File -> Holder \cup {Fil!Nobody}]
  BY <1>1, <1>3 DEF FilesInv, ItemPart
<1>6. /\ ask \in [Holder -> Seq(Request1)] /\ open' \subseteq Holder
      /\ \A q \in Holder : ask[q] # <<>> => q \in open'
  BY <1>1 DEF FilesInv, AskPart, TrustPart
<1> HIDE DEF them
<1>7. ItemPart' /\ AskPart'
  BY <1>1, <1>4, <1>5, <1>6, PumpSound
<1>8. UploadPart'
  BY <1>1, FilesAlone
<1>9. TrustPart'
  BY <1>1, <1>2 DEF FilesInv, TrustPart, Fil!HonestTrusted
<1> QED
  BY <1>2, <1>7, <1>8, <1>9 DEF FilesInv

(* A chunk that counts is wrong only if wrong bytes were sent. *)
LEMMA TakeChunkSound ==
  ASSUME FilesLimits, FilesInv, NEW p \in Holder, Fil!TakeChunk(p)
  PROVE  FilesInv'
<1> DEFINE c == Head(give[p])
           i == item[c.file]
<1>1. /\ Fil!Takes(p, "chunk")
      /\ UNCHANGED <<open, capable, verifying, fetched, distrusted, uploads, spoiled, trouble>>
  BY DEF Fil!TakeChunk
<1>2. GivePart' /\ p \in open /\ c \in Fil!Packet /\ (~c.right => c.file \in spoiled)
  BY <1>1, TakesSound
<1>3. /\ c.file \in File /\ c.right \in BOOLEAN /\ item \in [File -> Fil!Item] /\ i \in Fil!Item
  BY <1>2 DEF FilesInv, ItemPart, Fil!Packet
<1>4. UploadPart' /\ TrustPart'
  BY <1>1, FilesAlone DEF FilesInv, TrustPart, Fil!HonestTrusted
<1>5. CASE UNCHANGED <<item, ask>>
  BY <1>1, <1>2, <1>4, <1>5, FilesAlone DEF FilesInv
<1>6. CASE Fil!Served(p) /\ Fil!Pump(Fil!Skip(c.file), ask)
  <2>1. item[c.file].source \in Holder
    BY <1>6 DEF Fil!Served
  <2> HIDE DEF c
  <2>2. ItemPart' /\ AskPart'
    BY <1>1, <1>3, <1>6, <2>1, SkipSound
  <2> QED
    BY <1>2, <1>4, <2>2 DEF FilesInv
<1>7. CASE /\ Fil!Served(p) /\ i.received < Size /\ UNCHANGED ask
           /\ item' = [item EXCEPT ![c.file].received = @ + 1, ![c.file].contributors = @ \cup {p},
                                    ![c.file].right = @ /\ c.right /\ c.at = i.received]
           /\ Fil!InPlace(c)
  <2> DEFINE stays == i.right /\ c.right /\ c.at = i.received
             j == [i EXCEPT !.received = i.received + 1, !.contributors = i.contributors \cup {p}, !.right = stays]
  <2>1. c.at = i.received
    BY <1>7 DEF Fil!InPlace
  <2>2. stays \in BOOLEAN
    BY Zenon
  <2>3. ~stays => c.file \in spoiled
    BY <1>2, <1>3, <2>1 DEF FilesInv, ItemPart
  <2>4. item' = [item EXCEPT ![c.file] = j]
    BY <1>3, <1>7
  <2> HIDE DEF c, stays
  <2>5. j \in Fil!Item /\ j.right = stays /\ j.source = i.source
    <3>1. i.received + 1 \in 0..Size
      BY <1>3, <1>7 DEF Fil!Item, FilesLimits
    <3> QED
      BY <1>3, <2>2, <3>1 DEF Fil!Item
  <2> HIDE DEF j
  <2>6. /\ item' \in [File -> Fil!Item] /\ item'[c.file] = j
        /\ \A g \in File \ {c.file} : item'[g] = item[g]
    BY <1>3, <2>4, <2>5
  <2>7. ASSUME NEW g \in File
        PROVE  /\ item'[g].source = item[g].source
               /\ ~item'[g].right => g \in spoiled
    <3>1. CASE g = c.file
      BY <2>3, <2>5, <2>6, <3>1
    <3>2. CASE g # c.file
      <4>1. item'[g] = item[g]
        BY <2>6, <3>2
      <4> QED
        BY <4>1 DEF FilesInv, ItemPart
    <3> QED
      BY <3>1, <3>2
  <2>8. Cardinality({g \in File : item'[g].source # Fil!Nobody}) <= Parallel
    <3>1. {g \in File : item'[g].source # Fil!Nobody} = {g \in File : item[g].source # Fil!Nobody}
      BY <2>7
    <3> QED
      BY <3>1 DEF FilesInv, ItemPart
  <2>9. ItemPart'
    BY <1>1, <2>6, <2>7, <2>8 DEF FilesInv, ItemPart
  <2>10. AskPart'
    BY <1>1, <1>7, FilesAlone
  <2> QED
    BY <1>2, <1>4, <2>9, <2>10 DEF FilesInv
<1> QED
  BY <1>5, <1>6, <1>7 DEF Fil!TakeChunk

LEMMA TakeMissingSound ==
  ASSUME FilesLimits, FilesInv, NEW p \in Holder, Fil!TakeMissing(p)
  PROVE  FilesInv'
<1> DEFINE f == Head(give[p]).file
<1>1. /\ Fil!Takes(p, "missing")
      /\ UNCHANGED <<open, capable, verifying, fetched, distrusted, uploads, spoiled, trouble>>
  BY DEF Fil!TakeMissing
<1>2. GivePart' /\ f \in File
  BY <1>1, TakesSound DEF Fil!Packet
<1>3. UploadPart' /\ TrustPart'
  BY <1>1, FilesAlone DEF FilesInv, TrustPart, Fil!HonestTrusted
<1>4. CASE UNCHANGED <<item, ask>>
  BY <1>1, <1>2, <1>3, <1>4, FilesAlone DEF FilesInv
<1>5. CASE Fil!Served(p) /\ Fil!Pump(Fil!Skip(f), ask)
  <2>1. item[f].source \in Holder
    BY <1>5 DEF Fil!Served
  <2> HIDE DEF f
  <2>2. ItemPart' /\ AskPart'
    BY <1>1, <1>2, <1>5, <2>1, SkipSound
  <2> QED
    BY <1>2, <1>3, <2>2 DEF FilesInv
<1> QED
  BY <1>4, <1>5 DEF Fil!TakeMissing

LEMMA TakeDoneSound ==
  ASSUME FilesLimits, FilesInv, NEW p \in Holder, Fil!TakeDone(p)
  PROVE  FilesInv'
<1> DEFINE f == Head(give[p]).file
<1>1. /\ Fil!Takes(p, "done")
      /\ UNCHANGED <<open, capable, fetched, distrusted, uploads, spoiled, trouble>>
  BY DEF Fil!TakeDone
<1>2. GivePart' /\ f \in File
  BY <1>1, TakesSound DEF Fil!Packet
<1>3. UploadPart' /\ TrustPart'
  BY <1>1, FilesAlone DEF FilesInv, TrustPart, Fil!HonestTrusted
<1>4. CASE UNCHANGED <<item, verifying, ask>>
  BY <1>1, <1>2, <1>3, <1>4, FilesAlone DEF FilesInv
<1>5. CASE Fil!Served(p) /\ UNCHANGED verifying /\ Fil!Pump(Fil!Skip(f), ask)
  <2>1. item[f].source \in Holder
    BY <1>5 DEF Fil!Served
  <2> HIDE DEF f
  <2>2. ItemPart' /\ AskPart'
    BY <1>1, <1>2, <1>5, <2>1, SkipSound
  <2> QED
    BY <1>2, <1>3, <2>2 DEF FilesInv
<1>6. CASE /\ item' = [item EXCEPT ![f].source = Fil!Nobody]
           /\ verifying' = [verifying EXCEPT ![f] = p] /\ UNCHANGED ask
  <2> HIDE DEF f
  <2>1. item \in [File -> Fil!Item] /\ verifying \in [File -> Holder \cup {Fil!Nobody}]
    BY DEF FilesInv, ItemPart
  <2>2. item' \in [File -> Fil!Item] /\ verifying' \in [File -> Holder \cup {Fil!Nobody}]
    BY <1>2, <1>6, <2>1 DEF Fil!Item
  <2>3. /\ \A g \in File \ {f} : item'[g] = item[g] /\ verifying'[g] = verifying[g]
        /\ item'[f].source = Fil!Nobody /\ item'[f].right = item[f].right
    BY <1>2, <1>6, <2>1 DEF Fil!Item
  <2>4. Cardinality({g \in File : item'[g].source # Fil!Nobody}) <= Parallel
    <3> DEFINE new == {g \in File : item'[g].source # Fil!Nobody}
               old == {g \in File : item[g].source # Fil!Nobody}
    <3>1. old \in SUBSET File /\ new \in SUBSET old /\ Cardinality(old) <= Parallel
      BY <2>3 DEF FilesInv, ItemPart
    <3> HIDE DEF new, old
    <3>2. IsFiniteSet(old)
      BY <3>1, FS_Subset DEF FilesLimits
    <3>3. Cardinality(new) <= Cardinality(old) /\ IsFiniteSet(new)
      BY <3>1, <3>2, FS_Subset
    <3>4. Cardinality(new) \in Nat /\ Cardinality(old) \in Nat
      BY <3>2, <3>3, FS_CardinalityType
    <3>5. Cardinality(new) <= Parallel
      BY <3>1, <3>3, <3>4 DEF FilesLimits
    <3> QED
      BY <3>5 DEF new
  <2>5. ItemPart'
    BY <1>1, <1>2, <2>2, <2>3, <2>4 DEF FilesInv, ItemPart
  <2>6. AskPart'
    BY <1>1, <1>6, FilesAlone
  <2> QED
    BY <1>2, <1>3, <2>5, <2>6 DEF FilesInv
<1> QED
  BY <1>4, <1>5, <1>6 DEF Fil!TakeDone

(* A complete file that is right is stored, or cannot be written. *)
LEMMA VerifiedSound ==
  ASSUME FilesLimits, FilesInv, NEW f \in File, Fil!Verified(f)
  PROVE  FilesInv'
<1>1. /\ verifying[f] # Fil!Nobody /\ verifying' = [verifying EXCEPT ![f] = Fil!Nobody]
      /\ UNCHANGED <<open, capable, give, distrusted, uploads, spoiled>>
  BY DEF Fil!Verified
<1>2. GivePart' /\ UploadPart'
  BY <1>1, FilesAlone
<1>3. item \in [File -> Fil!Item] /\ item[f] \in Fil!Item /\ verifying[f] \in Holder
  BY <1>1 DEF FilesInv, ItemPart
<1>4. /\ verifying' \in [File -> Holder \cup {Fil!Nobody}] /\ verifying'[f] = Fil!Nobody
      /\ \A g \in File \ {f} : verifying'[g] \in {verifying[g], Fil!Nobody}
  BY <1>1 DEF FilesInv, ItemPart
<1>5. ~item[f].right => f \in spoiled
  BY DEF FilesInv, ItemPart
<1>6. CASE fetched' = fetched \cup {f} /\ UNCHANGED trouble /\ Fil!Pump([item EXCEPT ![f].wanted = FALSE], ask)
  <2> DEFINE j == [item[f] EXCEPT !.wanted = FALSE]
  <2>1. j \in Fil!Item /\ j.right = item[f].right
    BY <1>3 DEF Fil!Item
  <2>2. [item EXCEPT ![f].wanted = FALSE] = [item EXCEPT ![f] = j]
    BY <1>3
  <2> HIDE DEF j
  <2>3. ItemPart' /\ AskPart'
    BY <1>1, <1>4, <1>5, <1>6, <2>1, <2>2, OneItem
  <2>4. TrustPart'
    BY <1>1, <1>6 DEF FilesInv, TrustPart, Fil!HonestTrusted
  <2> QED
    BY <1>2, <2>3, <2>4 DEF FilesInv
<1>7. CASE Fil!Bothers /\ UNCHANGED fetched /\ Fil!Pump([item EXCEPT ![f].tried = @ \cup {verifying[f]}], ask)
  <2> DEFINE j == [item[f] EXCEPT !.tried = item[f].tried \cup {verifying[f]}]
  <2>1. j \in Fil!Item /\ j.right = item[f].right
    BY <1>3 DEF Fil!Item
  <2>2. [item EXCEPT ![f].tried = @ \cup {verifying[f]}] = [item EXCEPT ![f] = j]
    BY <1>3
  <2> HIDE DEF j
  <2>3. ItemPart' /\ AskPart'
    BY <1>1, <1>4, <1>5, <1>7, <2>1, <2>2, OneItem
  <2>4. TrustPart'
    BY <1>1, <1>7, TroubleTyped DEF FilesInv, TrustPart, Fil!HonestTrusted
  <2> QED
    BY <1>2, <2>3, <2>4 DEF FilesInv
<1> QED
  BY <1>6, <1>7 DEF Fil!Verified

(* Who sent a part of a file that is wrong is trusted no more: a wrong part    *)
(* was sent.                                                                   *)
LEMMA DamagedSound ==
  ASSUME FilesLimits, FilesInv, NEW f \in File, Fil!Damaged(f)
  PROVE  FilesInv'
<1> DEFINE j == Fil!StartOver(item[f])
<1>1. /\ verifying[f] # Fil!Nobody /\ ~item[f].right /\ verifying' = [verifying EXCEPT ![f] = Fil!Nobody]
      /\ distrusted' = distrusted \cup (item[f].contributors \X {f})
      /\ UNCHANGED <<open, capable, give, fetched, uploads, spoiled, trouble>>
      /\ Fil!Pump([item EXCEPT ![f] = j], ask)
  BY DEF Fil!Damaged
<1>2. GivePart' /\ UploadPart'
  BY <1>1, FilesAlone
<1>3. item[f] \in Fil!Item /\ f \in spoiled
  BY <1>1 DEF FilesInv, ItemPart
<1>4. /\ verifying' \in [File -> Holder \cup {Fil!Nobody}] /\ verifying'[f] = Fil!Nobody
      /\ \A g \in File \ {f} : verifying'[g] \in {verifying[g], Fil!Nobody}
  BY <1>1 DEF FilesInv, ItemPart
<1>5. j \in Fil!Item
  <2>1. 0 \in 0..Size /\ TRUE \in BOOLEAN /\ {} \in SUBSET Holder
    BY DEF FilesLimits
  <2>2. j = [item[f] EXCEPT !.received = 0, !.right = TRUE, !.contributors = {}]
    BY DEF Fil!StartOver
  <2> HIDE DEF j
  <2> QED
    BY <1>3, <2>1, <2>2 DEF Fil!Item
<1> HIDE DEF j
<1>6. ItemPart' /\ AskPart'
  BY <1>1, <1>3, <1>4, <1>5, OneItem
<1>7. distrusted' \subseteq Holder \X File
  BY <1>1, <1>3 DEF FilesInv, TrustPart, Fil!Item
<1>8. \A p \in Holder, g \in File : <<p, g>> \in distrusted' => g \in spoiled
  BY <1>1, <1>3 DEF FilesInv, TrustPart, Fil!HonestTrusted
<1>9. TrustPart'
  BY <1>1, <1>7, <1>8 DEF FilesInv, TrustPart, Fil!HonestTrusted
<1> QED
  BY <1>2, <1>6, <1>9 DEF FilesInv

(* Holders are skipped, tried again, and trusted again in time. *)
LEMMA TickSound ==
  ASSUME FilesLimits, FilesInv, NEW f \in File,
         Fil!Stall(f) \/ Fil!Retry(f) \/ (\E p \in Holder : Fil!Trust(p, f))
  PROVE  FilesInv'
<1>1. UNCHANGED <<open, capable, verifying, fetched, give, uploads, spoiled>> /\ distrusted' \subseteq distrusted
  BY DEF Fil!Stall, Fil!Retry, Fil!Trust
<1>2. GivePart' /\ UploadPart'
  BY <1>1, FilesAlone
<1>3. Fil!Bothers \/ UNCHANGED trouble
  BY DEF Fil!Stall, Fil!Retry, Fil!Trust, Fil!Later
<1>4. TrustPart'
  BY <1>1, <1>3, TroubleTyped DEF FilesInv, TrustPart, Fil!HonestTrusted
<1>5. /\ item \in [File -> Fil!Item] /\ item[f] \in Fil!Item
      /\ ~item[f].right => f \in spoiled
      /\ verifying[f] # Fil!Nobody => item[f].source = Fil!Nobody
      /\ verifying' \in [File -> Holder \cup {Fil!Nobody}]
      /\ \A g \in File \ {f} : verifying'[g] \in {verifying[g], Fil!Nobody}
  BY <1>1 DEF FilesInv, ItemPart
<1>6. CASE item[f].source # Fil!Nobody /\ Fil!Pump(Fil!Skip(f), ask)
  <2>1. item[f].source \in Holder
    BY <1>5, <1>6 DEF Fil!Item
  <2>2. ItemPart' /\ AskPart'
    BY <1>1, <1>6, <2>1, SkipSound
  <2> QED
    BY <1>2, <1>4, <2>2 DEF FilesInv
<1>7. CASE Fil!Pump([item EXCEPT ![f].tried = {}], ask)
  <2> DEFINE j == [item[f] EXCEPT !.tried = {}]
  <2>1. j \in Fil!Item /\ j.right = item[f].right /\ j.source = item[f].source
    BY <1>5 DEF Fil!Item
  <2>2. [item EXCEPT ![f].tried = {}] = [item EXCEPT ![f] = j]
    BY <1>5
  <2> HIDE DEF j
  <2>3. ItemPart' /\ AskPart'
    BY <1>1, <1>5, <1>7, <2>1, <2>2, OneItem
  <2> QED
    BY <1>2, <1>4, <2>3 DEF FilesInv
<1>8. CASE Fil!Pump(item, ask)
  <2>1. item = [item EXCEPT ![f] = item[f]]
    BY <1>5
  <2>2. ItemPart' /\ AskPart'
    BY <1>1, <1>5, <1>8, <2>1, OneItem
  <2> QED
    BY <1>2, <1>4, <2>2 DEF FilesInv
<1> QED
  BY <1>6, <1>7, <1>8 DEF Fil!Stall, Fil!Retry, Fil!Trust

(* A request takes a place, is refused, or passed over. *)
LEMMA RequestSound ==
  ASSUME FilesLimits, FilesInv, NEW p \in Holder, Fil!Request(p)
  PROVE  FilesInv'
<1> DEFINE r == Head(ask[p])
           f == r.file
<1>1. /\ ask[p] # <<>> /\ ask' = [ask EXCEPT ![p] = Tail(ask[p])]
      /\ UNCHANGED <<open, capable, item, verifying, fetched, distrusted, spoiled>>
  BY DEF Fil!Request, Fil!fetching
<1>2. ask[p] \in Seq(Request1) /\ p \in open
  BY <1>1 DEF FilesInv, AskPart
<1>3. r \in Request1 /\ Tail(ask[p]) \in Seq(Request1)
  BY <1>1, <1>2
<1>4. f \in File /\ r.offset \in 0..Size
  BY <1>3 DEF Request1
<1>5. ItemPart'
  BY <1>1, FilesAlone
<1>6. AskPart'
  <2>1. ask' \in [Holder -> Seq(Request1)]
    BY <1>1, <1>3 DEF FilesInv, AskPart
  <2>2. \A q \in Holder : ask'[q] # <<>> => q \in open
    BY <1>1, <1>2 DEF FilesInv, AskPart
  <2> QED
    BY <1>1, <2>1, <2>2 DEF AskPart
<1>7. CASE UNCHANGED <<give, uploads, trouble>>
  <2>1. GivePart' /\ UploadPart' /\ TrustPart'
    BY <1>1, <1>7, FilesAlone DEF FilesInv, TrustPart, Fil!HonestTrusted
  <2> QED
    BY <1>5, <1>6, <2>1 DEF FilesInv
<1>8. CASE /\ Fil!Says(p, "missing", f, 0, TRUE) /\ UNCHANGED uploads
           /\ Fil!Bothers \/ UNCHANGED trouble
  <2>1. 0 \in 0..Size /\ TRUE \in BOOLEAN
    BY DEF FilesLimits
  <2> HIDE DEF f
  <2>2. GivePart'
    BY <1>1, <1>2, <1>4, <1>8, <2>1, SaysSound
  <2>3. UploadPart'
    BY <1>1, <1>8, FilesAlone
  <2>4. TrustPart'
    BY <1>1, <1>8, TroubleTyped DEF FilesInv, TrustPart, Fil!HonestTrusted
  <2> QED
    BY <1>5, <1>6, <2>2, <2>3, <2>4 DEF FilesInv
<1>9. CASE /\ ~(Fil!Cardinality({g \in File \ {f} : uploads[p][g].phase # "none"}) >= Slots)
           /\ uploads' = [uploads EXCEPT ![p][f] =
                [phase |-> "loading", at |-> r.offset, cancelled |-> FALSE]]
           /\ UNCHANGED <<give, trouble>>
  <2> DEFINE u == [phase |-> "loading", at |-> r.offset, cancelled |-> FALSE]
             others == {g \in File \ {f} : uploads[p][g].phase # "none"}
  <2>1. u \in Fil!Upload
    BY <1>4 DEF Fil!Upload
  <2>2. ~(Cardinality(others) >= Slots) /\ uploads' = [uploads EXCEPT ![p][f] = u]
    BY <1>9, FilesCount
  <2>3. others \in SUBSET File
    OBVIOUS
  <2>4. Cardinality(others) < Slots
    <3> HIDE DEF others
    <3>1. IsFiniteSet(others)
      BY <2>3, FS_Subset DEF FilesLimits
    <3> QED
      BY <2>2, <3>1, FS_CardinalityType DEF FilesLimits
  <2> HIDE DEF u, r
  <2>5. UploadPart'
    BY <1>1, <1>2, <1>4, <2>1, <2>2, <2>4, UploadSound
  <2>6. GivePart' /\ TrustPart'
    BY <1>1, <1>9, FilesAlone DEF FilesInv, TrustPart, Fil!HonestTrusted
  <2> QED
    BY <1>5, <1>6, <2>5, <2>6 DEF FilesInv
<1> QED
  BY <1>7, <1>8, <1>9 DEF Fil!Request

(* A file is read, and sent chunk by chunk. *)
LEMMA ServeSound ==
  ASSUME FilesLimits, FilesInv, NEW p \in Holder, NEW f \in File, Fil!Load(p, f) \/ Fil!SendChunk(p, f)
  PROVE  FilesInv'
<1> DEFINE u == uploads[p][f]
<1>1. u \in Fil!Upload /\ uploads \in [Holder -> [File -> Fil!Upload]]
  BY DEF FilesInv, UploadPart
<1>2. /\ UNCHANGED <<open, capable, item, verifying, fetched, distrusted, ask>> /\ u.phase # "none"
      /\ spoiled \subseteq spoiled' /\ spoiled' \subseteq spoiled \cup {f}
      /\ Fil!Bothers \/ UNCHANGED trouble
  BY DEF Fil!Load, Fil!SendChunk, Fil!fetching
<1>3. ItemPart' /\ AskPart'
  <2>1. ItemPart'
    BY <1>2 DEF FilesInv, ItemPart
  <2> QED
    BY <1>2, <2>1, FilesAlone
<1>4. TrustPart'
  BY <1>2, TroubleTyped DEF FilesInv, TrustPart, Fil!HonestTrusted
<1>5. ~u.cancelled => p \in open
  BY <1>2 DEF FilesInv, UploadPart
<1>6. PICK w \in Fil!Upload : uploads' = [uploads EXCEPT ![p][f] = w] /\ (~w.cancelled /\ w.phase # "none" => ~u.cancelled)
  <2>1. CASE Fil!Ends(p, f)
    <3>1. Fil!NoUpload \in Fil!Upload /\ Fil!NoUpload.phase = "none"
      BY DEF Fil!NoUpload, Fil!Upload, FilesLimits
    <3> QED
      BY <2>1, <3>1 DEF Fil!Ends
  <2>2. CASE uploads' = [uploads EXCEPT ![p][f].phase = "sending"]
    <3> DEFINE w == [u EXCEPT !.phase = "sending"]
    <3>1. w \in Fil!Upload /\ w.cancelled = u.cancelled
      BY <1>1 DEF Fil!Upload
    <3>2. uploads' = [uploads EXCEPT ![p][f] = w]
      BY <1>1, <2>2
    <3> QED
      BY <3>1, <3>2
  <2>3. CASE u.at < Size /\ uploads' = [uploads EXCEPT ![p][f].at = @ + 1]
    <3> DEFINE w == [u EXCEPT !.at = u.at + 1]
    <3>1. u.at + 1 \in 0..Size
      BY <1>1, <2>3 DEF Fil!Upload, FilesLimits
    <3>2. w \in Fil!Upload /\ w.cancelled = u.cancelled
      BY <1>1, <3>1 DEF Fil!Upload
    <3>3. uploads' = [uploads EXCEPT ![p][f] = w]
      BY <1>1, <2>3
    <3> QED
      BY <3>2, <3>3
  <2> QED
    BY <2>1, <2>2, <2>3 DEF Fil!Load, Fil!SendChunk
<1>7. UploadPart'
  BY <1>2, <1>5, <1>6, UploadSound
<1>8. CASE UNCHANGED give
  <2>1. GivePart'
    BY <1>2, <1>8 DEF FilesInv, GivePart
  <2> QED
    BY <1>3, <1>4, <1>7, <2>1 DEF FilesInv
<1>9. CASE \E kind \in {"chunk", "done", "missing"}, n \in 0..Size, intact \in BOOLEAN :
             ~u.cancelled /\ Fil!Says(p, kind, f, n, intact) /\ (kind = "chunk" /\ ~intact => f \in spoiled')
  <2>1. GivePart'
    BY <1>2, <1>5, <1>9, SaysSound
  <2> QED
    BY <1>3, <1>4, <1>7, <2>1 DEF FilesInv
<1>10. 0 \in 0..Size /\ Size \in 0..Size /\ u.at \in 0..Size
  BY <1>1 DEF Fil!Upload, FilesLimits
<1> QED
  BY <1>8, <1>9, <1>10 DEF Fil!Load, Fil!SendChunk

LEMMA FilesStep ==
  ASSUME FilesLimits
  PROVE  FilesInv /\ [Fil!Next]_transfers => FilesInv'
<1> SUFFICES ASSUME FilesInv, [Fil!Next]_transfers PROVE FilesInv'
  OBVIOUS
<1>1. CASE UNCHANGED transfers
  BY <1>1, FilesAlone DEF transfers, FilesInv, TrustPart, Fil!HonestTrusted
<1>2. ASSUME NEW p \in Holder, Fil!Open(p) \/ Fil!Close(p) \/ Fil!TakeFiles(p) \/ Fil!TakeChunk(p)
                                  \/ Fil!TakeMissing(p) \/ Fil!TakeDone(p) \/ Fil!Request(p)
      PROVE  FilesInv'
  BY <1>2, OpenSound, CloseSound, TakeFilesSound, TakeChunkSound, TakeMissingSound, TakeDoneSound, RequestSound
<1>3. ASSUME NEW p \in Holder, NEW f \in File, Fil!Load(p, f) \/ Fil!SendChunk(p, f) \/ Fil!Trust(p, f)
      PROVE  FilesInv'
  BY <1>3, ServeSound, TickSound
<1>4. ASSUME NEW f \in File, Fil!Verified(f) \/ Fil!Damaged(f) \/ Fil!Stall(f) \/ Fil!Retry(f)
      PROVE  FilesInv'
  BY <1>4, VerifiedSound, DamagedSound, TickSound
<1> QED
  BY <1>1, <1>2, <1>3, <1>4 DEF Fil!Next

-----------------------------------------------------------------------------
(* Reactions.  What orders changes has a last one among finitely many: the  *)
(* last reaction that is taken has all the others before it, and is not over *)
(* the cap.                                                                  *)

(* A finite set has an element that no other is above. *)
LEMMA Extreme ==
  ASSUME NEW S, IsFiniteSet(S), S # {}, NEW R,
         \A x \in S : <<x, x>> \notin R,
         \A x, y, z \in S : <<x, y>> \in R /\ <<y, z>> \in R => <<x, z>> \in R
  PROVE  \E x \in S : \A y \in S : <<x, y>> \notin R
<1> DEFINE Above(x) == {y \in S : <<x, y>> \in R}
           Aboves == {Above(x) : x \in S}
<1>1. IsWellFoundedOn(StrictSubsetOrdering(S), SUBSET S)
  BY FS_StrictSubsetOrderingWellFounded, FS_FiniteSubsetsOfFinite
<1>2. Aboves \subseteq SUBSET S /\ Aboves # {}
  <2>1. PICK x \in S : TRUE
    OBVIOUS
  <2>2. Above(x) \in Aboves /\ \A y \in S : Above(y) \in SUBSET S
    OBVIOUS
  <2> HIDE DEF Above
  <2> QED
    BY <2>2
<1>3. PICK A \in Aboves : \A B \in Aboves : ~(<<B, A>> \in StrictSubsetOrdering(S))
  <2> HIDE DEF Aboves
  <2> QED
    BY <1>1, <1>2, WFMin
<1>4. PICK x \in S : A = Above(x)
  OBVIOUS
<1>5. ASSUME NEW y \in S, <<x, y>> \in R PROVE FALSE
  <2>1. Above(y) \in SUBSET S /\ Above(x) \in SUBSET S /\ Above(y) \subseteq Above(x) /\ y \in Above(x) /\ y \notin Above(y)
    BY <1>5
  <2>2. <<Above(y), Above(x)>> \in StrictSubsetOrdering(S)
    <3> HIDE DEF Above
    <3> QED
      BY <2>1 DEF StrictSubsetOrdering
  <2>3. Above(y) \in Aboves
    OBVIOUS
  <2> QED
    BY <1>3, <1>4, <2>2, <2>3
<1> QED
  BY <1>5

(* The numbers are numbers, and the member's devices and the messages finitely many. *)
ReactionLimits ==
  /\ Mine \subseteq Nat /\ Reacted \subseteq Nat /\ IsFiniteSet(Mine) /\ IsFiniteSet(Reacted)
  /\ Cap \in Nat /\ MaxPending \in Nat /\ MaxRev \in Nat

LEMMA ReactionsCount == \A S : Rea!Cardinality(S) = Cardinality(S)
  BY Zenon DEF Cardinality, Rea!Cardinality

LEMMA OpFields ==
  ASSUME NEW o \in Rea!Op
  PROVE  /\ o.message \in Reacted /\ o.rev \in 1..MaxRev /\ o.by \in Mine /\ o.removed \in BOOLEAN
         /\ o = [message |-> o.message, rev |-> o.rev, by |-> o.by, removed |-> o.removed]
BY Zenon DEF Rea!Op

LEMMA OpsFinite ==
  ASSUME ReactionLimits
  PROVE  IsFiniteSet(Rea!Op)
<1> DEFINE gone(o) == IF o.removed THEN 1 ELSE 0
           parts == (Reacted \X (1..MaxRev)) \X (Mine \X (0..1))
           split == [o \in Rea!Op |-> <<<<o.message, o.rev>>, <<o.by, gone(o)>>>>]
<1>1. IsFiniteSet(1..MaxRev) /\ IsFiniteSet(0..1)
  <2>1. MaxRev \in Int /\ 0 \in Int /\ 1 \in Int
    BY DEF ReactionLimits
  <2> QED
    BY <2>1, FS_Interval
<1>2. IsFiniteSet(Reacted \X (1..MaxRev)) /\ IsFiniteSet(Mine \X (0..1))
  BY <1>1, FS_Product DEF ReactionLimits
<1>3. IsFiniteSet(parts)
  BY <1>2, FS_Product
<1>4. ASSUME NEW o \in Rea!Op
      PROVE  split[o] \in parts
  <2>1. o.message \in Reacted /\ o.rev \in 1..MaxRev /\ o.by \in Mine
    BY OpFields
  <2>2. gone(o) \in 0..1
    OBVIOUS
  <2> HIDE DEF gone
  <2> QED
    BY <2>1, <2>2
<1>5. split \in [Rea!Op -> parts]
  BY <1>4
<1>6. ASSUME NEW o \in Rea!Op, NEW p \in Rea!Op, split[o] = split[p] PROVE o = p
  <2>1. o.message = p.message /\ o.rev = p.rev /\ o.by = p.by /\ gone(o) = gone(p)
    <3> HIDE DEF gone
    <3> QED
      BY <1>6
  <2>2. o.removed <=> p.removed
    BY <2>1
  <2>3. o.removed \in BOOLEAN /\ p.removed \in BOOLEAN
    BY OpFields
  <2>4. o.removed = p.removed
    <3>1. (o.removed = TRUE \/ o.removed = FALSE) /\ (p.removed = TRUE \/ p.removed = FALSE)
      BY <2>3, Zenon
    <3>2. CASE o.removed = TRUE /\ p.removed = TRUE
      BY <3>2
    <3>3. CASE o.removed = FALSE /\ p.removed = FALSE
      BY <3>3
    <3>4. CASE o.removed = TRUE /\ p.removed = FALSE
      BY <2>2, <3>4
    <3>5. CASE o.removed = FALSE /\ p.removed = TRUE
      BY <2>2, <3>5
    <3> QED
      BY <3>1, <3>2, <3>3, <3>4, <3>5, Zenon
  <2>5. /\ o = [message |-> o.message, rev |-> o.rev, by |-> o.by, removed |-> o.removed]
        /\ p = [message |-> p.message, rev |-> p.rev, by |-> p.by, removed |-> p.removed]
    BY OpFields
  <2> QED
    BY <2>1, <2>4, <2>5, Zenon
<1> HIDE DEF parts, split
<1>7. split \in Injection(Rea!Op, parts)
  BY <1>5, <1>6, Fun_IsInj
<1> QED
  BY <1>3, <1>7, FS_Injection

(* Operations have an order, in which those of two messages are never equal. *)
LEMMA EarlierOrders ==
  ASSUME ReactionLimits
  PROVE  /\ \A o \in Rea!Op : ~Rea!Earlier(o, o)
         /\ \A o, p, q \in Rea!Op : Rea!Earlier(o, p) /\ Rea!Earlier(p, q) => Rea!Earlier(o, q)
         /\ \A o, p \in Rea!Op : o.message # p.message => Rea!Earlier(o, p) \/ Rea!Earlier(p, o)
<1>1. ASSUME NEW o \in Rea!Op PROVE o.rev \in Nat /\ o.by \in Nat /\ o.message \in Nat
  <2>1. o.message \in Reacted /\ o.rev \in 1..MaxRev /\ o.by \in Mine
    BY OpFields
  <2>2. Reacted \subseteq Nat /\ Mine \subseteq Nat /\ MaxRev \in Nat
    BY DEF ReactionLimits
  <2>3. o.rev \in Nat
    BY <2>1, <2>2, SMT
  <2> QED
    BY <2>1, <2>2, <2>3, Zenon
<1>2. \A o, p \in Rea!Op : o.message # p.message => Rea!Earlier(o, p) \/ Rea!Earlier(p, o)
  BY <1>1 DEF Rea!Earlier
<1>3. \A o \in Rea!Op : ~Rea!Earlier(o, o)
  BY <1>1 DEF Rea!Earlier
<1>4. \A o, p, q \in Rea!Op : Rea!Earlier(o, p) /\ Rea!Earlier(p, q) => Rea!Earlier(o, q)
  BY <1>1 DEF Rea!Earlier
<1> QED
  BY <1>2, <1>3, <1>4, Zenon

(* Only the latest operations say what is live. *)
LEMMA BoundedLive ==
  ASSUME NEW S
  PROVE  Rea!Live(Rea!Bounded(S)) = Rea!Live(S) /\ Rea!Bounded(S) \subseteq S
<1>1. Rea!Latest(S) \subseteq S /\ Rea!Latest(Rea!Latest(S)) = Rea!Latest(S)
  BY DEF Rea!Latest, Rea!Of
<1> QED
  BY <1>1 DEF Rea!Bounded, Rea!Live

(* What is taken of what comes in keeps the member's reactions within the cap. *)
LEMMA CapKept ==
  ASSUME ReactionLimits, NEW H \in SUBSET Rea!Op, NEW I \in SUBSET Rea!Op, Cardinality(Rea!Live(H)) <= Cap
  PROVE  Cardinality(Rea!Live(H \cup Rea!withinReactionKeyCap(H, I))) <= Cap
<1> DEFINE root == H \cup Rea!Removals(I)
           free(p) == p.message \in Rea!Live(root) \/ p \notin Rea!Latest(root \cup {p})
           A == Rea!withinReactionKeyCap(H, I)
           S == H \cup A
           U == {o \in A : ~o.removed /\ ~free(o)}
           before(o) == {p \in I : ~p.removed /\ ~free(p) /\ Rea!Earlier(p, o) /\ p.message # o.message}
           Named(T) == {p.message : p \in T}
<1>1. A \subseteq I /\ Rea!Removals(I) \subseteq A
  BY DEF Rea!withinReactionKeyCap, Rea!Over, Rea!Removals
<1>2. ASSUME NEW T, T \subseteq Rea!Op PROVE Rea!Live(T) \in SUBSET Reacted /\ IsFiniteSet(Rea!Live(T))
  <2>1. Rea!Live(T) \in SUBSET Reacted
    BY <1>2 DEF Rea!Live, Rea!Latest, Rea!Op
  <2> QED
    BY <2>1, FS_Subset DEF ReactionLimits
<1>3. Rea!Live(root) \subseteq Rea!Live(H)
  <2> SUFFICES ASSUME NEW o \in Rea!Latest(root), ~o.removed PROVE o \in Rea!Latest(H)
    BY DEF Rea!Live
  <2>1. o \in H
    BY DEF Rea!Latest, Rea!Removals
  <2> QED
    BY <2>1 DEF Rea!Latest, Rea!Of
<1>4. Rea!Live(S) \subseteq Rea!Live(root) \cup Named(U)
  <2> SUFFICES ASSUME NEW o \in Rea!Latest(S), ~o.removed PROVE o.message \in Rea!Live(root) \/ o \in U
    BY DEF Rea!Live
  <2>1. root \subseteq S
    BY <1>1
  <2>2. o \in S /\ \A p \in S : p.message = o.message => ~Rea!Earlier(o, p)
    BY DEF Rea!Latest, Rea!Of
  <2>3. CASE o \in H
    <3>1. o \in Rea!Latest(root)
      BY <2>1, <2>2, <2>3 DEF Rea!Latest, Rea!Of
    <3> QED
      BY <3>1 DEF Rea!Live
  <2>4. CASE o \in A
    <3>1. o \in Rea!Latest(root \cup {o})
      BY <2>1, <2>2, <2>4 DEF Rea!Latest, Rea!Of
    <3> QED
      BY <2>4, <3>1
  <2> QED
    BY <2>2, <2>3, <2>4
<1>5. A \in SUBSET Rea!Op /\ root \in SUBSET Rea!Op /\ S \in SUBSET Rea!Op /\ U \in SUBSET Rea!Op
  BY <1>1 DEF Rea!Removals
<1>6. ASSUME NEW T, T \subseteq Rea!Op PROVE IsFiniteSet(Named(T)) /\ Cardinality(Named(T)) \in Nat
  <2>1. Named(T) \in SUBSET Reacted
    BY <1>6, OpFields
  <2> HIDE DEF Named
  <2> QED
    BY <2>1, FS_Subset, FS_CardinalityType DEF ReactionLimits
<1>7. ASSUME NEW o \in U PROVE Cardinality(Rea!Live(root)) + Cardinality(Named(before(o))) < Cap
  <2>1. o \in I /\ ~Rea!Over(H, o, I) /\ ~o.removed /\ ~free(o)
    BY DEF Rea!withinReactionKeyCap
  <2>2. ~(Rea!Cardinality(Rea!Live(root)) + Rea!Cardinality(Named(before(o))) >= Cap)
    BY <2>1 DEF Rea!Over
  <2>3. Cardinality(Rea!Live(root)) \in Nat
    BY <1>2, <1>5, FS_CardinalityType
  <2>4. before(o) \subseteq Rea!Op
    OBVIOUS
  <2>5. Cardinality(Named(before(o))) \in Nat
    <3> HIDE DEF Named, before
    <3> QED
      BY <1>6, <2>4
  <2>6. ~(Cardinality(Rea!Live(root)) + Cardinality(Named(before(o))) >= Cap)
    BY <2>2, ReactionsCount
  <2> HIDE DEF Named, before
  <2> QED
    BY <2>3, <2>5, <2>6 DEF ReactionLimits
<1>8. /\ IsFiniteSet(Rea!Live(S)) /\ IsFiniteSet(Rea!Live(root)) /\ IsFiniteSet(Rea!Live(H))
      /\ Cardinality(Rea!Live(S)) \in Nat /\ Cardinality(Rea!Live(root)) \in Nat /\ Cardinality(Rea!Live(H)) \in Nat
  <2> HIDE DEF S, root
  <2> QED
    BY <1>2, <1>5, FS_CardinalityType
<1>9. CASE U = {}
  <2>1. Rea!Live(S) \in SUBSET Rea!Live(H)
    BY <1>3, <1>4, <1>9
  <2>2. Cardinality(Rea!Live(S)) <= Cardinality(Rea!Live(H))
    <3> HIDE DEF S
    <3> QED
      BY <1>8, <2>1, FS_Subset
  <2>3. Cardinality(Rea!Live(S)) <= Cap
    <3> HIDE DEF S
    <3> QED
      BY <1>8, <2>2 DEF ReactionLimits
  <2> QED
    BY <2>3
<1>10. CASE U # {}
  <2> DEFINE R == {two \in Rea!Op \X Rea!Op : Rea!Earlier(two[1], two[2])}
  <2>1. IsFiniteSet(U)
    <3> HIDE DEF U
    <3> QED
      BY <1>5, OpsFinite, FS_Subset
  <2>2. \A o, p \in Rea!Op : <<o, p>> \in R <=> Rea!Earlier(o, p)
    OBVIOUS
  <2>3. PICK o \in U : \A p \in U : <<o, p>> \notin R
    <3> HIDE DEF R, U
    <3>1. \A q \in U : <<q, q>> \notin R
      BY <1>5, <2>2, EarlierOrders
    <3>2. \A x, y, z \in U : <<x, y>> \in R /\ <<y, z>> \in R => <<x, z>> \in R
      BY <1>5, <2>2, EarlierOrders
    <3> QED
      BY <1>10, <2>1, <3>1, <3>2, Extreme
  <2>4. o \in Rea!Op /\ \A p \in U : p.message = o.message \/ Rea!Earlier(p, o)
    BY <1>5, <2>2, <2>3, EarlierOrders
  <2>5. Named(U) \subseteq Named(before(o)) \cup {o.message}
    BY <1>1, <2>4
  <2>6. Rea!Live(S) \in SUBSET (Rea!Live(root) \cup (Named(before(o)) \cup {o.message}))
    <3> HIDE DEF Named, S, root
    <3> QED
      BY <1>4, <2>5
  <2>7. before(o) \subseteq Rea!Op
    OBVIOUS
  <2> DEFINE B == Named(before(o))
             L == Rea!Live(root)
             message == o.message
  <2>8. IsFiniteSet(B) /\ Cardinality(B) \in Nat
    <3> HIDE DEF before, Named
    <3> QED
      BY <1>6, <2>7
  <2>9. Cardinality(L) + Cardinality(B) < Cap
    BY <1>7
  <2>10. IsFiniteSet(L) /\ Cardinality(L) \in Nat
    BY <1>8
  <2>11. Rea!Live(S) \in SUBSET (L \cup (B \cup {message}))
    BY <2>6
  <2> HIDE DEF B, L, S, message
  <2>12. IsFiniteSet(B \cup {message}) /\ Cardinality(B \cup {message}) <= Cardinality(B) + 1
    <3>1. IsFiniteSet(B \cup {message})
      BY <2>8, FS_AddElement
    <3>2. CASE message \in B
      <4>1. B \cup {message} = B
        BY <3>2
      <4> QED
        BY <2>8, <4>1
    <3>3. CASE message \notin B
      <4>1. Cardinality(B \cup {message}) = Cardinality(B) + 1
        BY <2>8, <3>3, FS_AddElement
      <4> QED
        BY <2>8, <3>1, <4>1
    <3> QED
      BY <3>2, <3>3
  <2>13. IsFiniteSet(L \cup (B \cup {message})) /\ Cardinality(L \cup (B \cup {message})) <= Cardinality(L) + Cardinality(B \cup {message})
    <3>1. IsFiniteSet(L \cap (B \cup {message}))
      <4>1. L \cap (B \cup {message}) \in SUBSET L
        OBVIOUS
      <4> QED
        BY <2>10, <4>1, FS_Subset
    <3>2. /\ IsFiniteSet(L \cup (B \cup {message}))
          /\ Cardinality(L \cup (B \cup {message})) =
               Cardinality(L) + Cardinality(B \cup {message}) - Cardinality(L \cap (B \cup {message}))
      BY <2>10, <2>12, FS_Union
    <3>3. Cardinality(L \cap (B \cup {message})) \in Nat /\ Cardinality(B \cup {message}) \in Nat
      BY <2>12, <3>1, FS_CardinalityType
    <3> QED
      BY <2>10, <3>2, <3>3
  <2>14. Cardinality(Rea!Live(S)) <= Cardinality(L \cup (B \cup {message}))
    BY <2>11, <2>13, FS_Subset
  <2>15. Cardinality(B \cup {message}) \in Nat /\ Cardinality(L \cup (B \cup {message})) \in Nat
    BY <2>12, <2>13, FS_CardinalityType
  <2>16. Cardinality(Rea!Live(S)) <= Cap
    BY <1>8, <2>8, <2>9, <2>10, <2>12, <2>13, <2>14, <2>15 DEF ReactionLimits
  <2> QED
    BY <2>16 DEF S
<1> QED
  BY <1>9, <1>10

(* What is to hold of the reactions is inductive as it stands. *)
ReactionsInv == Rea!CapHolds

LEMMA ReactionsStart ==
  ASSUME ReactionLimits, Rea!Init
  PROVE  ReactionsInv
<1>1. Rea!TypeOK
  BY DEF Rea!Init, Rea!TypeOK
<1>2. ASSUME NEW d \in Rea!Place
      PROVE  /\ Cardinality(Rea!Live(reactionOps[d])) <= Cap
             /\ Cardinality(pendingReactions[d]) <= MaxPending
             /\ \A o \in pendingReactions[d] : o.message \notin messages[d]
  <2>1. reactionOps[d] = {} /\ pendingReactions[d] = {}
    BY DEF Rea!Init
  <2>2. Rea!Live({}) = {}
    BY DEF Rea!Live, Rea!Latest
  <2>3. Cardinality({}) = 0
    BY FS_EmptySet
  <2> QED
    BY <2>1, <2>2, <2>3 DEF ReactionLimits
<1> QED
  BY <1>1, <1>2, ReactionsCount, Zenon DEF ReactionsInv, Rea!CapHolds

(* What a device keeps after it was given operations stays within the cap. *)
LEMMA LogKept ==
  ASSUME ReactionLimits, ReactionsInv, NEW d \in Rea!Place, NEW I \in SUBSET Rea!Op,
         Rea!addReactionOps(d, I)
  PROVE  /\ reactionOps' \in [Rea!Place -> SUBSET Rea!Op]
         /\ \A e \in Rea!Place : Cardinality(Rea!Live(reactionOps'[e])) <= Cap
<1> DEFINE H == reactionOps[d]
           S == H \cup Rea!withinReactionKeyCap(H, I)
           B == Rea!Bounded(S)
<1>1. H \in SUBSET Rea!Op /\ reactionOps \in [Rea!Place -> SUBSET Rea!Op]
  BY DEF ReactionsInv, Rea!CapHolds, Rea!TypeOK
<1>2. \A e \in Rea!Place : Cardinality(Rea!Live(reactionOps[e])) <= Cap
  BY ReactionsCount, Zenon DEF ReactionsInv, Rea!CapHolds
<1>3. Cardinality(Rea!Live(S)) <= Cap
  <2> HIDE DEF H
  <2>1. H \in SUBSET Rea!Op /\ Cardinality(Rea!Live(H)) <= Cap
    BY <1>1, <1>2 DEF H
  <2> QED
    BY <2>1, CapKept
<1>4. Rea!Live(B) = Rea!Live(S) /\ B \subseteq S
  <2> HIDE DEF S
  <2> QED
    BY BoundedLive
<1>5. S \in SUBSET Rea!Op
  BY <1>1 DEF Rea!withinReactionKeyCap
<1>6. reactionOps' = [reactionOps EXCEPT ![d] = B]
  BY Zenon DEF Rea!addReactionOps
<1> HIDE DEF B, S
<1>7. reactionOps' \in [Rea!Place -> SUBSET Rea!Op]
  BY <1>1, <1>4, <1>5, <1>6
<1>8. ASSUME NEW e \in Rea!Place PROVE Cardinality(Rea!Live(reactionOps'[e])) <= Cap
  <2>1. CASE e = d
    <3>1. reactionOps'[e] = B
      BY <1>1, <1>6, <2>1
    <3> QED
      BY <1>3, <1>4, <3>1
  <2>2. CASE e # d
    <3>1. reactionOps'[e] = reactionOps[e]
      BY <1>1, <1>6, <2>2
    <3> QED
      BY <1>2, <3>1
  <2> QED
    BY <2>1, <2>2
<1> QED
  BY <1>7, <1>8

(* The number of a next change to a reaction. *)
LEMMA NextRevision ==
  ASSUME ReactionLimits, NEW S \in SUBSET Rea!Op, NEW m
  PROVE  Rea!currentRevision(S, m) \in Nat
<1>1. CASE Rea!Of(S, m) = {}
  BY <1>1 DEF Rea!currentRevision
<1>2. CASE Rea!Of(S, m) # {}
  <2> DEFINE T == Rea!Of(S, m)
             R == {two \in Rea!Op \X Rea!Op : two[1].rev < two[2].rev}
  <2>1. T \in SUBSET Rea!Op
    BY DEF Rea!Of
  <2>2. IsFiniteSet(T)
    BY <2>1, OpsFinite, FS_Subset
  <2>3. \A o \in Rea!Op : o.rev \in Nat
    <3> TAKE o \in Rea!Op
    <3>1. o.rev \in 1..MaxRev /\ MaxRev \in Nat
      BY OpFields DEF ReactionLimits
    <3> QED
      BY <3>1
  <2>4. \A o, p \in Rea!Op : <<o, p>> \in R <=> o.rev < p.rev
    OBVIOUS
  <2> HIDE DEF T, R
  <2>5. PICK o \in T : \A p \in T : <<o, p>> \notin R
    <3>1. \A q \in T : <<q, q>> \notin R
      BY <2>1, <2>3, <2>4
    <3>2. \A x, y, z \in T : <<x, y>> \in R /\ <<y, z>> \in R => <<x, z>> \in R
      BY <2>1, <2>3, <2>4
    <3>3. T # {}
      BY <1>2 DEF T
    <3> QED
      BY <2>2, <3>1, <3>2, <3>3, Extreme
  <2>6. \A p \in T : p.rev <= o.rev
    <3> TAKE p \in T
    <3>1. o \in Rea!Op /\ p \in Rea!Op
      BY <2>1
    <3>2. ~(o.rev < p.rev)
      BY <2>4, <2>5, <3>1
    <3>3. o.rev \in Nat /\ p.rev \in Nat
      BY <2>3, <3>1
    <3> QED
      BY <3>2, <3>3
  <2> DEFINE c == CHOOSE q \in T : \A p \in T : p.rev <= q.rev
  <2>7. c \in T
    BY <2>5, <2>6
  <2>8. Rea!currentRevision(S, m) = c.rev
    BY <1>2 DEF Rea!currentRevision, T
  <2> HIDE DEF c
  <2> QED
    BY <2>1, <2>3, <2>7, <2>8
<1> QED
  BY <1>1, <1>2

LEMMA ReactionsParts ==
  ASSUME ReactionsInv
  PROVE  /\ messages \in [Rea!Place -> SUBSET Reacted] /\ evicted \in [Rea!Place -> SUBSET Reacted]
         /\ reactionOps \in [Rea!Place -> SUBSET Rea!Op] /\ pendingReactions \in [Rea!Place -> SUBSET Rea!Op]
         /\ \A d \in Rea!Place : Cardinality(Rea!Live(reactionOps[d])) <= Cap
         /\ \A d \in Rea!Place : Cardinality(pendingReactions[d]) <= MaxPending
         /\ \A d \in Rea!Place : \A o \in pendingReactions[d] : o.message \notin messages[d]
BY ReactionsCount, Zenon DEF ReactionsInv, Rea!CapHolds, Rea!TypeOK

(* Fewer than what waits is not too many. *)
LEMMA FewerWait ==
  ASSUME ReactionLimits, ReactionsInv, NEW d \in Rea!Place, NEW T \in SUBSET pendingReactions[d]
  PROVE  Cardinality(T) <= MaxPending
<1>1. pendingReactions[d] \in SUBSET Rea!Op /\ Cardinality(pendingReactions[d]) <= MaxPending
  BY ReactionsParts
<1>2. IsFiniteSet(pendingReactions[d])
  BY <1>1, OpsFinite, FS_Subset
<1>3. IsFiniteSet(T) /\ Cardinality(T) <= Cardinality(pendingReactions[d])
  BY <1>2, FS_Subset
<1>4. Cardinality(T) \in Nat /\ Cardinality(pendingReactions[d]) \in Nat
  BY <1>2, <1>3, FS_CardinalityType
<1> QED
  BY <1>1, <1>3, <1>4 DEF ReactionLimits

LEMMA StoreKeeps ==
  ASSUME ReactionLimits, ReactionsInv, NEW d \in Rea!Place, NEW m \in Reacted, Rea!Store(d, m)
  PROVE  ReactionsInv'
<1> USE ReactionsParts
<1>1. /\ messages' = [messages EXCEPT ![d] = @ \cup {m}]
      /\ pendingReactions' = [pendingReactions EXCEPT ![d] = Rea!Due(d, m)]
      /\ Rea!addReactionOps(d, Rea!Of(pendingReactions[d], m))
      /\ evicted' = evicted
  BY Zenon DEF Rea!Store
<1>2. Rea!Of(pendingReactions[d], m) \in SUBSET Rea!Op
  BY DEF Rea!Of
<1>3. /\ reactionOps' \in [Rea!Place -> SUBSET Rea!Op]
      /\ \A e \in Rea!Place : Cardinality(Rea!Live(reactionOps'[e])) <= Cap
  BY <1>1, <1>2, LogKept
<1>4. messages' \in [Rea!Place -> SUBSET Reacted] /\ evicted' \in [Rea!Place -> SUBSET Reacted]
  BY <1>1
<1>5. Rea!Due(d, m) \subseteq pendingReactions[d] /\ \A o \in Rea!Due(d, m) : o.message # m
  BY DEF Rea!Due, Rea!Of
<1>6. pendingReactions' \in [Rea!Place -> SUBSET Rea!Op]
  BY <1>1, <1>5
<1>7. ASSUME NEW e \in Rea!Place
      PROVE  /\ Cardinality(pendingReactions'[e]) <= MaxPending
             /\ \A o \in pendingReactions'[e] : o.message \notin messages'[e]
  <2>1. CASE e = d
    <3>1. pendingReactions'[e] = Rea!Due(d, m) /\ messages'[e] = messages[d] \cup {m}
      BY <1>1, <2>1
    <3>2. Cardinality(Rea!Due(d, m)) <= MaxPending
      BY <1>5, FewerWait
    <3> QED
      BY <1>5, <3>1, <3>2
  <2>2. CASE e # d
    <3>1. pendingReactions'[e] = pendingReactions[e] /\ messages'[e] = messages[e]
      BY <1>1, <2>2
    <3> QED
      BY <3>1
  <2> QED
    BY <2>1, <2>2
<1> QED
  BY <1>3, <1>4, <1>6, <1>7, ReactionsCount, Zenon DEF ReactionsInv, Rea!CapHolds, Rea!TypeOK

LEMMA EvictKeeps ==
  ASSUME ReactionLimits, ReactionsInv, NEW d \in Rea!Place, NEW m \in Reacted, Rea!Evict(d, m)
  PROVE  ReactionsInv'
<1> USE ReactionsParts
<1>1. /\ messages' = [messages EXCEPT ![d] = @ \ {m}]
      /\ evicted' = [evicted EXCEPT ![d] = @ \cup {m}]
      /\ reactionOps' = reactionOps /\ pendingReactions' = pendingReactions
  BY Zenon DEF Rea!Evict
<1>2. messages' \in [Rea!Place -> SUBSET Reacted] /\ evicted' \in [Rea!Place -> SUBSET Reacted]
  BY <1>1
<1>3. ASSUME NEW e \in Rea!Place PROVE messages'[e] \subseteq messages[e]
  BY <1>1
<1>4. ASSUME NEW e \in Rea!Place
      PROVE  \A o \in pendingReactions'[e] : o.message \notin messages'[e]
  BY <1>1, <1>3
<1>5. ASSUME NEW e \in Rea!Place
      PROVE  Cardinality(Rea!Live(reactionOps'[e])) <= Cap /\ Cardinality(pendingReactions'[e]) <= MaxPending
  BY <1>1
<1>6. reactionOps' \in [Rea!Place -> SUBSET Rea!Op] /\ pendingReactions' \in [Rea!Place -> SUBSET Rea!Op]
  BY <1>1
<1> QED
  BY <1>2, <1>4, <1>5, <1>6, ReactionsCount, Zenon DEF ReactionsInv, Rea!CapHolds, Rea!TypeOK

LEMMA ReactKeeps ==
  ASSUME ReactionLimits, ReactionsInv, NEW d \in Rea!Place, NEW m \in Reacted, Rea!React(d, m)
  PROVE  ReactionsInv'
<1> USE ReactionsParts
<1> DEFINE remove == m \in Rea!Live(reactionOps[d])
           rev == Rea!currentRevision(reactionOps[d], m) + 1
           o == [message |-> m, rev |-> rev, by |-> d, removed |-> remove]
<1>1. /\ d \in Mine /\ rev <= MaxRev
      /\ Rea!addReactionOps(d, {o})
      /\ messages' = messages /\ evicted' = evicted /\ pendingReactions' = pendingReactions
  BY DEF Rea!React
<1>2. rev \in 1..MaxRev
  <2>1. Rea!currentRevision(reactionOps[d], m) \in Nat
    <3>1. reactionOps[d] \in SUBSET Rea!Op
      OBVIOUS
    <3> QED
      BY <3>1, NextRevision
  <2> QED
    BY <1>1, <2>1 DEF ReactionLimits
<1>3. remove \in BOOLEAN
  OBVIOUS
<1> HIDE DEF rev, remove
<1>4. {o} \in SUBSET Rea!Op
  BY <1>1, <1>2, <1>3 DEF Rea!Op
<1> HIDE DEF o
<1>5. /\ reactionOps' \in [Rea!Place -> SUBSET Rea!Op]
      /\ \A e \in Rea!Place : Cardinality(Rea!Live(reactionOps'[e])) <= Cap
  BY <1>1, <1>4, LogKept
<1>6. ASSUME NEW e \in Rea!Place
      PROVE  /\ Cardinality(pendingReactions'[e]) <= MaxPending
             /\ \A q \in pendingReactions'[e] : q.message \notin messages'[e]
  BY <1>1
<1>7. /\ messages' \in [Rea!Place -> SUBSET Reacted] /\ evicted' \in [Rea!Place -> SUBSET Reacted]
      /\ pendingReactions' \in [Rea!Place -> SUBSET Rea!Op]
  BY <1>1
<1> QED
  BY <1>5, <1>6, <1>7, ReactionsCount, Zenon DEF ReactionsInv, Rea!CapHolds, Rea!TypeOK

LEMMA AcceptKeeps ==
  ASSUME ReactionLimits, ReactionsInv, NEW d \in Rea!Place, NEW I \in SUBSET Rea!Op, Rea!Accept(d, I)
  PROVE  ReactionsInv'
<1> USE ReactionsParts
<1>1. /\ Rea!addReactionOps(d, Rea!Ready(d, I, messages[d]))
      /\ Rea!Hold(d, Rea!Early(d, I, messages[d]))
      /\ messages' = messages /\ evicted' = evicted
  BY Zenon DEF Rea!Accept
<1>2. /\ Rea!Ready(d, I, messages[d]) \in SUBSET Rea!Op
      /\ Rea!Early(d, I, messages[d]) \in SUBSET Rea!Op
      /\ \A o \in Rea!Early(d, I, messages[d]) : o.message \notin messages[d]
  BY DEF Rea!Ready, Rea!Early, Rea!Fresh
<1>3. /\ reactionOps' \in [Rea!Place -> SUBSET Rea!Op]
      /\ \A e \in Rea!Place : Cardinality(Rea!Live(reactionOps'[e])) <= Cap
  BY <1>1, <1>2, LogKept
<1>4. PICK some \in SUBSET Rea!Early(d, I, messages[d]) :
        /\ Rea!mayHoldPending(pendingReactions[d], some)
        /\ pendingReactions' = [pendingReactions EXCEPT ![d] = @ \cup some]
  BY <1>1, Zenon DEF Rea!Hold
<1>5. Cardinality(pendingReactions[d] \cup some) <= MaxPending
  BY <1>4, ReactionsCount, Zenon DEF Rea!mayHoldPending
<1>6. pendingReactions' \in [Rea!Place -> SUBSET Rea!Op]
  BY <1>2, <1>4
<1>7. messages' \in [Rea!Place -> SUBSET Reacted] /\ evicted' \in [Rea!Place -> SUBSET Reacted]
  BY <1>1
<1>8. ASSUME NEW e \in Rea!Place
      PROVE  /\ Cardinality(pendingReactions'[e]) <= MaxPending
             /\ \A o \in pendingReactions'[e] : o.message \notin messages'[e]
  <2>1. CASE e = d
    <3>1. pendingReactions'[e] = pendingReactions[d] \cup some /\ messages'[e] = messages[d]
      BY <1>1, <1>4, <2>1
    <3>2. \A o \in pendingReactions[d] \cup some : o.message \notin messages[d]
      BY <1>2
    <3> QED
      BY <1>5, <3>1, <3>2
  <2>2. CASE e # d
    <3>1. pendingReactions'[e] = pendingReactions[e] /\ messages'[e] = messages[e]
      BY <1>1, <1>4, <2>2
    <3> QED
      BY <3>1
  <2> QED
    BY <2>1, <2>2
<1> QED
  BY <1>3, <1>6, <1>7, <1>8, ReactionsCount, Zenon DEF ReactionsInv, Rea!CapHolds, Rea!TypeOK

(* No step of the reactions breaks the caps. *)
LEMMA ReactionsStep ==
  ASSUME ReactionLimits
  PROVE  ReactionsInv /\ [Rea!Next]_reactions => ReactionsInv'
<1> SUFFICES ASSUME ReactionsInv, [Rea!Next]_reactions PROVE ReactionsInv'
  OBVIOUS
<1>1. CASE UNCHANGED reactions
  <2>1. messages' = messages /\ evicted' = evicted /\ reactionOps' = reactionOps /\ pendingReactions' = pendingReactions
    BY <1>1 DEF reactions
  <2> QED
    BY <2>1, ReactionsParts, ReactionsCount, Zenon DEF ReactionsInv, Rea!CapHolds, Rea!TypeOK
<1>2. CASE Rea!Next
  <2>1. PICK d \in Rea!Place :
          \/ \E m \in Reacted : Rea!Store(d, m) \/ Rea!Evict(d, m) \/ Rea!React(d, m)
          \/ \E e \in Rea!Place \ {d} : Rea!Receive(d, e) \/ Rea!Exchange(d, e)
    BY <1>2, Zenon DEF Rea!Next
  <2>2. ASSUME NEW m \in Reacted, Rea!Store(d, m) \/ Rea!Evict(d, m) \/ Rea!React(d, m)
        PROVE  ReactionsInv'
    BY <2>2, StoreKeeps, EvictKeeps, ReactKeeps, Zenon
  <2>3. ASSUME NEW e \in Rea!Place \ {d}, Rea!Receive(d, e) \/ Rea!Exchange(d, e)
        PROVE  ReactionsInv'
    <3>1. reactionOps[e] \in SUBSET Rea!Op
      BY ReactionsParts
    <3>2. CASE Rea!Receive(d, e)
      <4>1. PICK o \in reactionOps[e] : Rea!Accept(d, {o})
        BY <3>2 DEF Rea!Receive
      <4>2. {o} \in SUBSET Rea!Op
        BY <3>1
      <4> QED
        BY <4>1, <4>2, AcceptKeeps, Zenon
    <3>3. CASE Rea!Exchange(d, e)
      <4>1. Rea!Accept(d, reactionOps[e])
        BY <3>3 DEF Rea!Exchange
      <4> QED
        BY <3>1, <4>1, AcceptKeeps, Zenon
    <3> QED
      BY <2>3, <3>2, <3>3, Zenon
  <2> QED
    BY <2>1, <2>2, <2>3, Zenon
<1> QED
  BY <1>1, <1>2

-----------------------------------------------------------------------------
(* The board of a task.  A device shows the last change and the first step   *)
(* it was given, and the step that set the present assignee; these it keeps  *)
(* when it compacts, and they are found again among what it kept.            *)

(* The bounds of the board: a task has at least one change and no more than a jump    *)
(* (as the comment at MAX_REVISION_JUMP has it), and one recent step is kept.         *)
BoardLimits ==
  /\ CompactAt \in Nat /\ KeptTail \in Nat \ {0} /\ MaxOps \in Nat \ {0}
  /\ Jump \in Nat /\ Jump >= MaxOps

LEMMA BoardCount == \A S : Boa!Cardinality(S) = Cardinality(S)
  BY Zenon DEF Cardinality, Boa!Cardinality

(* Changes of one task, no two with one id. *)
OneEach(S) == S \in SUBSET Boa!Op /\ \A o, p \in S : o.id = p.id => o = p

(* The last of a set of changes; the first step of its chain; the first of all. *)
Tops(o, S) == o \in S /\ \A p \in S : p.rev < o.rev \/ (p.rev = o.rev /\ p.id <= o.id)
Opens(o, S) == o \in S /\ \A p \in S : o.rev < p.rev \/ (o.rev = p.rev /\ p.id <= o.id)
Leads(o, S) == o \in S /\ \A p \in S : o.rev < p.rev \/ (o.rev = p.rev /\ o.id <= p.id)

(* The step that set the present assignee. *)
Stays(S, o, a) == \A p \in Boa!Chain(S) : p.rev >= o.rev => p.assignee = a
Settles(o, S) ==
  /\ o \in Boa!Chain(S) /\ Stays(S, o, Boa!Last(S).assignee)
  /\ \A p \in Boa!Chain(S) : p.rev < o.rev => ~Stays(S, p, Boa!Last(S).assignee)

LEMMA ChangeFields ==
  ASSUME BoardLimits, NEW o \in Boa!Op
  PROVE  /\ o.rev \in Nat /\ o.id \in Nat /\ o.rev >= 1 /\ o.rev <= MaxOps
         /\ o.id \in 1..MaxOps /\ o.rev \in 1..MaxOps
<1>1. o.rev \in 1..MaxOps /\ o.id \in 1..MaxOps
  BY DEF Boa!Op
<1>2. MaxOps \in Nat
  BY DEF BoardLimits
<1> QED
  BY <1>1, <1>2

LEMMA ChangesFinite ==
  ASSUME BoardLimits, NEW S, OneEach(S)
  PROVE  IsFiniteSet(S)
<1> DEFINE f == [o \in S |-> o.id]
<1>1. f \in [S -> 1..MaxOps]
  BY ChangeFields DEF OneEach
<1>2. \A o, p \in S : f[o] = f[p] => o = p
  BY DEF OneEach
<1> HIDE DEF f
<1>3. f \in Injection(S, 1..MaxOps)
  BY <1>1, <1>2, Fun_IsInj
<1>4. MaxOps \in Int /\ 1 \in Int
  BY DEF BoardLimits
<1>5. IsFiniteSet(1..MaxOps)
  BY <1>4, FS_Interval
<1> QED
  BY <1>3, <1>5, FS_Injection

LEMMA PartOfEach ==
  ASSUME NEW S, OneEach(S), NEW T \in SUBSET S
  PROVE  OneEach(T)
BY DEF OneEach

LEMMA TopsExists ==
  ASSUME BoardLimits, NEW S, OneEach(S), S # {}
  PROVE  \E o \in S : Tops(o, S)
<1> DEFINE R == {two \in S \X S : two[1].rev < two[2].rev \/ (two[1].rev = two[2].rev /\ two[1].id < two[2].id)}
<1>1. \A o, p \in S : <<o, p>> \in R <=> o.rev < p.rev \/ (o.rev = p.rev /\ o.id < p.id)
  OBVIOUS
<1>2. \A o \in S : o.rev \in Nat /\ o.id \in Nat
  BY ChangeFields DEF OneEach
<1>3. IsFiniteSet(S)
  BY ChangesFinite
<1> HIDE DEF R
<1>4. \A x \in S : <<x, x>> \notin R
  BY <1>1, <1>2
<1>5. \A x, y, z \in S : <<x, y>> \in R /\ <<y, z>> \in R => <<x, z>> \in R
  BY <1>1, <1>2
<1>6. PICK o \in S : \A p \in S : <<o, p>> \notin R
  BY <1>3, <1>4, <1>5, Extreme
<1>7. ASSUME NEW p \in S PROVE p.rev < o.rev \/ (p.rev = o.rev /\ p.id <= o.id)
  <2>1. ~(o.rev < p.rev) /\ ~(o.rev = p.rev /\ o.id < p.id)
    BY <1>1, <1>6
  <2>2. o.rev \in Nat /\ p.rev \in Nat /\ o.id \in Nat /\ p.id \in Nat
    BY <1>2
  <2> QED
    BY <2>1, <2>2
<1> QED
  BY <1>7 DEF Tops

LEMMA OpensExists ==
  ASSUME BoardLimits, NEW S, OneEach(S), S # {}
  PROVE  \E o \in S : Opens(o, S)
<1> DEFINE R == {two \in S \X S : two[2].rev < two[1].rev \/ (two[1].rev = two[2].rev /\ two[1].id < two[2].id)}
<1>1. \A o, p \in S : <<o, p>> \in R <=> p.rev < o.rev \/ (o.rev = p.rev /\ o.id < p.id)
  OBVIOUS
<1>2. \A o \in S : o.rev \in Nat /\ o.id \in Nat
  BY ChangeFields DEF OneEach
<1>3. IsFiniteSet(S)
  BY ChangesFinite
<1> HIDE DEF R
<1>4. \A x \in S : <<x, x>> \notin R
  BY <1>1, <1>2
<1>5. \A x, y, z \in S : <<x, y>> \in R /\ <<y, z>> \in R => <<x, z>> \in R
  BY <1>1, <1>2
<1>6. PICK o \in S : \A p \in S : <<o, p>> \notin R
  BY <1>3, <1>4, <1>5, Extreme
<1>7. ASSUME NEW p \in S PROVE o.rev < p.rev \/ (o.rev = p.rev /\ p.id <= o.id)
  <2>1. ~(p.rev < o.rev) /\ ~(o.rev = p.rev /\ o.id < p.id)
    BY <1>1, <1>6
  <2>2. o.rev \in Nat /\ p.rev \in Nat /\ o.id \in Nat /\ p.id \in Nat
    BY <1>2
  <2> QED
    BY <2>1, <2>2
<1> QED
  BY <1>7 DEF Opens

LEMMA LeadsExists ==
  ASSUME BoardLimits, NEW S, OneEach(S), S # {}
  PROVE  \E o \in S : Leads(o, S)
<1> DEFINE R == {two \in S \X S : two[2].rev < two[1].rev \/ (two[1].rev = two[2].rev /\ two[2].id < two[1].id)}
<1>1. \A o, p \in S : <<o, p>> \in R <=> p.rev < o.rev \/ (o.rev = p.rev /\ p.id < o.id)
  OBVIOUS
<1>2. \A o \in S : o.rev \in Nat /\ o.id \in Nat
  BY ChangeFields DEF OneEach
<1>3. IsFiniteSet(S)
  BY ChangesFinite
<1> HIDE DEF R
<1>4. \A x \in S : <<x, x>> \notin R
  BY <1>1, <1>2
<1>5. \A x, y, z \in S : <<x, y>> \in R /\ <<y, z>> \in R => <<x, z>> \in R
  BY <1>1, <1>2
<1>6. PICK o \in S : \A p \in S : <<o, p>> \notin R
  BY <1>3, <1>4, <1>5, Extreme
<1>7. ASSUME NEW p \in S PROVE o.rev < p.rev \/ (o.rev = p.rev /\ o.id <= p.id)
  <2>1. ~(p.rev < o.rev) /\ ~(o.rev = p.rev /\ p.id < o.id)
    BY <1>1, <1>6
  <2>2. o.rev \in Nat /\ p.rev \in Nat /\ o.id \in Nat /\ p.id \in Nat
    BY <1>2
  <2> QED
    BY <2>1, <2>2
<1> QED
  BY <1>7 DEF Leads

LEMMA FirstIs ==
  ASSUME BoardLimits, NEW S, OneEach(S), NEW o, Leads(o, S)
  PROVE  Boa!First(S) = o
<1>1. o \in S /\ \A p \in S : o.rev < p.rev \/ (o.rev = p.rev /\ o.id <= p.id)
  BY DEF Leads
<1>2. ASSUME NEW q \in S, \A p \in S : q.rev < p.rev \/ (q.rev = p.rev /\ q.id <= p.id) PROVE q = o
  <2>1. o.rev \in Nat /\ q.rev \in Nat /\ o.id \in Nat /\ q.id \in Nat
    BY <1>1, ChangeFields DEF OneEach
  <2>2. o.id = q.id
    BY <1>1, <1>2, <2>1
  <2> QED
    BY <1>1, <2>2 DEF OneEach
<1> QED
  BY <1>1, <1>2 DEF Boa!First

LEMMA ChainOf ==
  ASSUME BoardLimits, NEW S, OneEach(S)
  PROVE  /\ OneEach(Boa!Chain(S)) /\ Boa!Chain(S) \in SUBSET S
         /\ \A o, p \in Boa!Chain(S) : o.rev = p.rev => o = p
<1>1. Boa!Chain(S) \in SUBSET S
  BY DEF Boa!Chain
<1>2. ASSUME NEW o \in Boa!Chain(S), NEW p \in Boa!Chain(S), o.rev = p.rev PROVE o = p
  <2>1. o \in S /\ p \in S /\ o.id <= p.id /\ p.id <= o.id
    BY <1>2 DEF Boa!Chain
  <2>2. o.id \in Nat /\ p.id \in Nat
    BY <2>1, ChangeFields DEF OneEach
  <2>3. o.id = p.id
    BY <2>1, <2>2
  <2> QED
    BY <2>1, <2>3 DEF OneEach
<1> QED
  BY <1>1, <1>2, PartOfEach

LEMMA OpenIs ==
  ASSUME BoardLimits, NEW S, OneEach(S), NEW o, Opens(o, S)
  PROVE  Boa!First(Boa!Chain(S)) = o /\ o \in Boa!Chain(S)
<1>1. o \in S /\ \A p \in S : o.rev < p.rev \/ (o.rev = p.rev /\ p.id <= o.id)
  BY DEF Opens
<1>2. \A p \in S : p.rev \in Nat /\ p.id \in Nat
  BY ChangeFields DEF OneEach
<1>3. o \in Boa!Chain(S)
  BY <1>1, <1>2 DEF Boa!Chain
<1>4. ASSUME NEW p \in Boa!Chain(S) PROVE o.rev < p.rev \/ (o.rev = p.rev /\ o.id <= p.id)
  <2>1. p \in S /\ (o.rev = p.rev => o.id <= p.id)
    BY <1>1 DEF Boa!Chain
  <2> QED
    BY <1>1, <2>1
<1> QED
  BY <1>3, <1>4, ChainOf, FirstIs DEF Leads

LEMMA LastIs ==
  ASSUME BoardLimits, NEW S, OneEach(S), NEW o, Tops(o, S)
  PROVE  Boa!Last(S) = o /\ o \in Boa!Chain(S) /\ Boa!Highest(S) = o.rev
<1>1. o \in S /\ \A p \in S : p.rev < o.rev \/ (p.rev = o.rev /\ p.id <= o.id)
  BY DEF Tops
<1>2. \A p \in S : p.rev \in Nat /\ p.id \in Nat
  BY ChangeFields DEF OneEach
<1>3. o \in Boa!Chain(S)
  BY <1>1, <1>2 DEF Boa!Chain
<1>4. Boa!Highest(S) = o.rev
  <2> DEFINE M == {0} \cup {p.rev : p \in S}
  <2>1. o.rev \in M /\ \A r \in M : r \in Nat /\ o.rev >= r
    BY <1>1, <1>2
  <2>2. ASSUME NEW r \in M, \A n \in M : r >= n PROVE r = o.rev
    <3>1. r \in Nat /\ o.rev \in Nat /\ r >= o.rev /\ o.rev >= r
      BY <2>1, <2>2
    <3> QED
      BY <3>1
  <2> HIDE DEF M
  <2>3. Boa!Max(M) = o.rev
    BY <2>1, <2>2 DEF Boa!Max
  <2> QED
    BY <2>3 DEF Boa!Highest, M
<1>5. \A p \in Boa!Chain(S) : p.rev = o.rev => p = o
  BY <1>3, ChainOf
<1> QED
  BY <1>3, <1>4, <1>5 DEF Boa!Last

LEMMA SettlesIs ==
  ASSUME BoardLimits, NEW S, OneEach(S), NEW o, Settles(o, S)
  PROVE  Boa!Assigned(S) = o
<1> DEFINE A == {q \in Boa!Chain(S) : Stays(S, q, Boa!Last(S).assignee)}
<1>1. Boa!Assigned(S) = Boa!First(A)
  BY DEF Boa!Assigned, Stays
<1>2. OneEach(A)
  BY ChainOf, PartOfEach
<1>3. o \in A
  BY DEF Settles
<1>4. ASSUME NEW p \in A PROVE o.rev < p.rev \/ (o.rev = p.rev /\ o.id <= p.id)
  <2>1. p \in Boa!Chain(S) /\ o \in Boa!Chain(S) /\ ~(p.rev < o.rev)
    BY DEF Settles
  <2>2. p.rev \in Nat /\ o.rev \in Nat /\ o.id \in Nat /\ p.id \in Nat
    BY <2>1, ChainOf, ChangeFields DEF OneEach
  <2>3. CASE o.rev = p.rev
    <3>1. o = p
      BY <2>1, <2>3, ChainOf
    <3> QED
      BY <2>2, <3>1
  <2> QED
    BY <2>1, <2>2, <2>3
<1> HIDE DEF A
<1> QED
  BY <1>1, <1>2, <1>3, <1>4, FirstIs DEF Leads

LEMMA SettlesExists ==
  ASSUME BoardLimits, NEW S, OneEach(S), S # {}
  PROVE  \E o \in S : Settles(o, S)
<1> DEFINE A == {q \in Boa!Chain(S) : Stays(S, q, Boa!Last(S).assignee)}
<1>1. PICK l \in S : Tops(l, S)
  BY TopsExists
<1>2. Boa!Last(S) = l /\ l \in Boa!Chain(S) /\ Boa!Chain(S) \in SUBSET S
  BY <1>1, LastIs, ChainOf
<1>3. Stays(S, l, l.assignee)
  <2> SUFFICES ASSUME NEW p \in Boa!Chain(S), p.rev >= l.rev PROVE p = l
    BY DEF Stays
  <2>1. p \in S /\ p.rev \in Nat /\ l.rev \in Nat
    BY <1>2, ChangeFields DEF OneEach
  <2>2. p.rev < l.rev \/ p.rev = l.rev
    BY <1>1, <2>1 DEF Tops
  <2>3. p.rev = l.rev
    BY <2>1, <2>2
  <2> QED
    BY <1>2, <2>3, ChainOf
<1>4. l \in A
  BY <1>2, <1>3
<1>5. OneEach(A)
  BY ChainOf, PartOfEach
<1> HIDE DEF A
<1>6. PICK o \in A : Leads(o, A)
  BY <1>4, <1>5, LeadsExists
<1>7. o \in Boa!Chain(S) /\ Stays(S, o, Boa!Last(S).assignee)
  BY DEF A
<1>8. ASSUME NEW p \in Boa!Chain(S), p.rev < o.rev PROVE ~Stays(S, p, Boa!Last(S).assignee)
  <2>1. p \notin A
    <3>1. p.rev \in Nat /\ o.rev \in Nat
      BY <1>7, ChainOf, ChangeFields DEF OneEach
    <3> QED
      BY <1>6, <1>8, <3>1 DEF Leads
  <2> QED
    BY <2>1 DEF A
<1> QED
  BY <1>2, <1>7, <1>8 DEF Settles

(* A device shows what everything it was given says, once as much of it is kept as this. *)
Keeps(O, S) ==
  /\ OneEach(S) /\ O \subseteq S
  /\ S # {} => O # {}
  /\ Boa!Removals(S) # {} => Boa!Removals(O) # {}
  /\ S # {} /\ Boa!Removals(S) = {} =>
       (\E o \in O : Tops(o, S)) /\ (\E o \in O : Opens(o, S))
KeepsCredit(O, S) ==
  S # {} /\ Boa!Removals(S) = {} => \E o \in O : Settles(o, S) /\ Settles(o, O)

LEMMA InPart ==
  ASSUME NEW S, NEW T \in SUBSET S, NEW o \in T
  PROVE  /\ Tops(o, S) => Tops(o, T)
         /\ Opens(o, S) => Opens(o, T)
BY DEF Tops, Opens

LEMMA Unremoved ==
  ASSUME NEW S, NEW T \in SUBSET S, Boa!Removals(S) = {}
  PROVE  Boa!Removals(T) = {}
BY DEF Boa!Removals

LEMMA KeepsAll ==
  ASSUME BoardLimits, NEW S, OneEach(S)
  PROVE  Keeps(S, S) /\ KeepsCredit(S, S)
<1>1. S # {} => (\E o \in S : Tops(o, S)) /\ (\E o \in S : Opens(o, S)) /\ (\E o \in S : Settles(o, S))
  BY TopsExists, OpensExists, SettlesExists
<1> QED
  BY <1>1 DEF Keeps, KeepsCredit

LEMMA ShownAlike ==
  ASSUME BoardLimits, NEW S, NEW O, Keeps(O, S)
  PROVE  Boa!Content(O) = Boa!Content(S)
<1>1. OneEach(S) /\ O \in SUBSET S
  BY DEF Keeps
<1>2. OneEach(O)
  BY <1>1, PartOfEach
<1>3. CASE S = {} \/ Boa!Removals(S) # {}
  BY <1>1, <1>3 DEF Keeps, Boa!Content
<1>4. CASE S # {} /\ Boa!Removals(S) = {}
  <2>1. PICK l \in O : Tops(l, S)
    BY <1>4 DEF Keeps
  <2>2. PICK f \in O : Opens(f, S)
    BY <1>4 DEF Keeps
  <2>3. Tops(l, O) /\ Opens(f, O)
    BY <1>1, <2>1, <2>2, InPart
  <2>4. Boa!Last(S) = l /\ Boa!Last(O) = l
    BY <1>1, <1>2, <2>1, <2>3, LastIs
  <2>5. Boa!First(Boa!Chain(S)) = f /\ Boa!First(Boa!Chain(O)) = f
    BY <1>1, <1>2, <2>2, <2>3, OpenIs
  <2>6. O # {} /\ Boa!Removals(O) = {}
    BY <1>1, <1>4, <2>1, Unremoved
  <2> QED
    BY <1>4, <2>4, <2>5, <2>6 DEF Boa!Content
<1> QED
  BY <1>3, <1>4

LEMMA CreditedAlike ==
  ASSUME BoardLimits, NEW S, NEW O, Keeps(O, S), KeepsCredit(O, S)
  PROVE  Boa!Credit(O) = Boa!Credit(S)
<1>1. Boa!Content(O) = Boa!Content(S)
  BY ShownAlike
<1>2. CASE S = {} \/ Boa!Removals(S) # {}
  BY <1>1, <1>2 DEF Boa!Credit, Boa!Content
<1>3. CASE S # {} /\ Boa!Removals(S) = {}
  <2>1. PICK o \in O : Settles(o, S) /\ Settles(o, O)
    BY <1>3 DEF KeepsCredit
  <2>2. OneEach(S) /\ OneEach(O)
    BY PartOfEach DEF Keeps
  <2>3. Boa!Assigned(O) = o /\ Boa!Assigned(S) = o
    BY <2>1, <2>2, SettlesIs
  <2> QED
    BY <1>1, <2>3 DEF Boa!Credit
<1> QED
  BY <1>2, <1>3

(* What is kept is kept by who keeps it. *)
LEMMA KeptOfKept ==
  ASSUME BoardLimits, NEW S, NEW T, NEW O, Keeps(T, S), Keeps(O, T)
  PROVE  /\ Keeps(O, S)
         /\ KeepsCredit(T, S) /\ KeepsCredit(O, T) => KeepsCredit(O, S)
<1>1. OneEach(S) /\ OneEach(T) /\ T \in SUBSET S /\ O \in SUBSET T
  BY DEF Keeps
<1>2. S # {} => O # {}
  BY DEF Keeps
<1>3. Boa!Removals(S) # {} => Boa!Removals(O) # {}
  BY DEF Keeps
<1>4. ASSUME S # {}, Boa!Removals(S) = {}
      PROVE  (\E o \in O : Tops(o, S)) /\ (\E o \in O : Opens(o, S))
  <2>1. T # {} /\ Boa!Removals(T) = {}
    BY <1>1, <1>4, Unremoved DEF Keeps
  <2>2. PICK l \in T : Tops(l, S)
    BY <1>4 DEF Keeps
  <2>3. PICK f \in T : Opens(f, S)
    BY <1>4 DEF Keeps
  <2>4. PICK k \in O : Tops(k, T)
    BY <2>1 DEF Keeps
  <2>5. PICK g \in O : Opens(g, T)
    BY <2>1 DEF Keeps
  <2>6. Tops(l, T) /\ Opens(f, T)
    BY <1>1, <2>2, <2>3, InPart
  <2>7. l = k
    BY <1>1, <2>4, <2>6, LastIs
  <2>8. f = g
    BY <1>1, <2>5, <2>6, OpenIs
  <2> QED
    BY <2>2, <2>3, <2>4, <2>5, <2>7, <2>8
<1>5. Keeps(O, S)
  <2>1. O \subseteq S
    BY <1>1
  <2> QED
    BY <1>1, <1>2, <1>3, <1>4, <2>1 DEF Keeps
<1>6. ASSUME KeepsCredit(T, S), KeepsCredit(O, T), S # {}, Boa!Removals(S) = {}
      PROVE  \E o \in O : Settles(o, S) /\ Settles(o, O)
  <2>1. T # {} /\ Boa!Removals(T) = {}
    BY <1>1, <1>6, Unremoved DEF Keeps
  <2>2. PICK o \in T : Settles(o, S) /\ Settles(o, T)
    BY <1>6 DEF KeepsCredit
  <2>3. PICK q \in O : Settles(q, T) /\ Settles(q, O)
    BY <1>6, <2>1 DEF KeepsCredit
  <2>4. o = q
    BY <1>1, <2>2, <2>3, SettlesIs
  <2> QED
    BY <2>2, <2>3, <2>4
<1> QED
  BY <1>5, <1>6 DEF KeepsCredit

(* What comes in on top changes nothing of this. *)
LEMMA KeptWithMore ==
  ASSUME BoardLimits, NEW S, NEW O, NEW F, Keeps(O, S), OneEach(S \cup F)
  PROVE  Keeps(O \cup F, S \cup F)
<1>1. O \cup F \subseteq S \cup F /\ O \in SUBSET S
  BY DEF Keeps
<1>2. S \cup F # {} => O \cup F # {}
  BY DEF Keeps
<1>3. Boa!Removals(S \cup F) # {} => Boa!Removals(O \cup F) # {}
  <2>1. Boa!Removals(S \cup F) = Boa!Removals(S) \cup Boa!Removals(F)
    BY DEF Boa!Removals
  <2>2. Boa!Removals(O \cup F) = Boa!Removals(O) \cup Boa!Removals(F)
    BY DEF Boa!Removals
  <2> QED
    BY <2>1, <2>2 DEF Keeps
<1>4. ASSUME S \cup F # {}, Boa!Removals(S \cup F) = {}
      PROVE  (\E o \in O \cup F : Tops(o, S \cup F)) /\ (\E o \in O \cup F : Opens(o, S \cup F))
  <2>1. PICK l \in S \cup F : Tops(l, S \cup F)
    BY <1>4, TopsExists
  <2>2. PICK f \in S \cup F : Opens(f, S \cup F)
    BY <1>4, OpensExists
  <2>3. Boa!Removals(S) = {}
    BY <1>4, Unremoved
  <2>4. OneEach(S)
    BY DEF Keeps
  <2>5. ASSUME l \in S PROVE l \in O
    <3>1. Tops(l, S)
      BY <2>1, <2>5, InPart
    <3>2. PICK k \in O : Tops(k, S)
      BY <2>3, <2>5 DEF Keeps
    <3> QED
      BY <2>4, <3>1, <3>2, LastIs
  <2>6. ASSUME f \in S PROVE f \in O
    <3>1. Opens(f, S)
      BY <2>2, <2>6, InPart
    <3>2. PICK k \in O : Opens(k, S)
      BY <2>3, <2>6 DEF Keeps
    <3> QED
      BY <2>4, <3>1, <3>2, OpenIs
  <2> QED
    BY <2>1, <2>2, <2>5, <2>6
<1> QED
  BY <1>1, <1>2, <1>3, <1>4 DEF Keeps

(* compactBoard keeps what decides. *)
LEMMA CompactKeeps ==
  ASSUME BoardLimits, NEW S, OneEach(S), S # {}
  PROVE  Keeps(Boa!compactBoard(S), S) /\ KeepsCredit(Boa!compactBoard(S), S)
<1> DEFINE C == Boa!compactBoard(S)
           steps == Boa!Chain(S)
<1>1. CASE Boa!Removals(S) # {}
  <2>1. OneEach(Boa!Removals(S))
    BY PartOfEach DEF Boa!Removals
  <2>2. PICK o \in Boa!Removals(S) : Leads(o, Boa!Removals(S))
    BY <1>1, <2>1, LeadsExists
  <2>3. C = {o}
    BY <1>1, <2>1, <2>2, FirstIs DEF Boa!compactBoard
  <2>4. o \in S /\ o \in Boa!Removals(C)
    BY <2>2, <2>3 DEF Boa!Removals
  <2> HIDE DEF C
  <2>5. Keeps(C, S) /\ KeepsCredit(C, S)
    <3>1. C # {} /\ C \subseteq S /\ Boa!Removals(C) # {}
      BY <2>3, <2>4
    <3> QED
      BY <1>1, <3>1 DEF Keeps, KeepsCredit
  <2> QED
    BY <2>5 DEF C
<1>2. CASE Boa!Removals(S) = {}
  <2>1. PICK l \in S : Tops(l, S)
    BY TopsExists
  <2>2. PICK f \in S : Opens(f, S)
    BY OpensExists
  <2>3. PICK set \in S : Settles(set, S)
    BY SettlesExists
  <2>4. Boa!Last(S) = l /\ l \in steps /\ Boa!First(steps) = f /\ f \in steps /\ Boa!Assigned(S) = set /\ set \in steps
    BY <2>1, <2>2, <2>3, LastIs, OpenIs, SettlesIs DEF Settles
  <2>5. C = {f, set} \cup Boa!Before(steps, set) \cup Boa!Recent(steps, set)
    BY <1>2, <2>4 DEF Boa!compactBoard
  <2>6. C \in SUBSET steps
    BY <2>4, <2>5 DEF Boa!Before, Boa!Recent
  <2>7. /\ OneEach(steps) /\ steps \in SUBSET S
        /\ \A o, p \in steps : o.rev = p.rev => o = p
        /\ \A o \in steps : o.rev \in Nat /\ o.id \in Nat
    BY ChainOf, ChangeFields DEF OneEach
  <2> HIDE DEF C, steps
  <2>8. l \in C
    <3>1. {p \in steps : p.rev > l.rev} = {}
      <4> SUFFICES ASSUME NEW p \in steps, p.rev > l.rev PROVE FALSE
        OBVIOUS
      <4>1. p.rev \in Nat /\ l.rev \in Nat /\ p \in S
        BY <2>4, <2>7
      <4>2. p.rev < l.rev \/ p.rev = l.rev
        BY <2>1, <4>1 DEF Tops
      <4> QED
        BY <4>1, <4>2
    <3>2. Boa!Cardinality({p \in steps : p.rev > l.rev}) = 0
      BY <3>1, FS_EmptySet, BoardCount
    <3>3. 0 < KeptTail
      BY DEF BoardLimits
    <3>4. l.rev >= set.rev
      <4>1. set.rev \in Nat /\ l.rev \in Nat
        BY <2>4, <2>7
      <4>2. set.rev < l.rev \/ set.rev = l.rev
        BY <2>1 DEF Tops
      <4> QED
        BY <4>1, <4>2
    <3>5. l \in Boa!Recent(steps, set)
      BY <2>4, <3>2, <3>3, <3>4 DEF Boa!Recent
    <3> QED
      BY <2>5, <3>5
  <2>9. f \in C /\ set \in C
    BY <2>5
  <2>10. C \in SUBSET S
    BY <2>6, <2>7
  <2>11. Keeps(C, S)
    BY <1>2, <2>1, <2>2, <2>8, <2>9, <2>10 DEF Keeps
  <2>12. OneEach(C)
    BY <2>10, PartOfEach
  <2>13. Boa!Chain(C) = C
    <3>1. ASSUME NEW o \in C, NEW p \in C, p.rev = o.rev PROVE p.id <= o.id
      <4>1. p = o /\ p.id \in Nat
        BY <2>6, <2>7, <3>1
      <4> QED
        BY <4>1
    <3> QED
      BY <3>1 DEF Boa!Chain
  <2>14. Boa!Last(C) = l
    <3>1. Tops(l, C)
      BY <2>1, <2>8, <2>10, InPart
    <3> QED
      BY <2>12, <3>1, LastIs
  <2>15. Stays(C, set, l.assignee)
    <3>1. \A p \in steps : p.rev >= set.rev => p.assignee = l.assignee
      BY <2>3, <2>4 DEF Settles, Stays, steps
    <3> QED
      BY <2>6, <2>13, <3>1 DEF Stays
  <2>16. ASSUME NEW p \in C, p.rev < set.rev, Stays(C, p, l.assignee) PROVE FALSE
    <3> DEFINE earlier == {o \in steps : o.rev < set.rev}
    <3>1. earlier \in SUBSET steps /\ p \in earlier
      BY <2>6, <2>16
    <3>2. OneEach(earlier)
      BY <2>7, <3>1, PartOfEach
    <3>3. PICK b \in earlier : Tops(b, earlier)
      <4> HIDE DEF earlier
      <4> QED
        BY <3>1, <3>2, TopsExists
    <3>4. Boa!Highest(earlier) = b.rev
      <4> HIDE DEF earlier
      <4> QED
        BY <3>2, <3>3, LastIs
    <3>5. b \in Boa!Before(steps, set)
      BY <3>3, <3>4 DEF Boa!Before
    <3>6. b \in C /\ b \in steps /\ b.rev < set.rev
      BY <2>5, <3>1, <3>5
    <3>7. p.rev < b.rev \/ p.rev = b.rev
      BY <3>1, <3>3 DEF Tops
    <3>8. p.rev \in Nat /\ b.rev \in Nat /\ set.rev \in Nat
      BY <2>4, <2>6, <2>7, <3>6
    <3>9. b.assignee = l.assignee
      <4>1. b.rev >= p.rev
        BY <3>7, <3>8
      <4> QED
        BY <2>13, <2>16, <3>6, <4>1 DEF Stays
    <3>10. ASSUME NEW q \in steps, q.rev >= b.rev PROVE q.assignee = l.assignee
      <4>1. q.rev \in Nat
        BY <2>7
      <4>2. CASE q.rev >= set.rev
        BY <2>3, <2>4, <4>2 DEF Settles, Stays, steps
      <4>3. CASE q.rev < set.rev
        <5>1. q \in earlier
          BY <4>3
        <5>2. q.rev < b.rev \/ q.rev = b.rev
          BY <3>3, <5>1 DEF Tops
        <5>3. q.rev = b.rev
          BY <3>8, <3>10, <4>1, <5>2
        <5>4. q = b
          BY <2>7, <3>6, <5>3
        <5> QED
          BY <3>9, <5>4
      <4> QED
        BY <3>8, <4>1, <4>2, <4>3
    <3>11. Stays(S, b, l.assignee)
      BY <3>10 DEF Stays, steps
    <3> QED
      BY <2>3, <2>4, <3>6, <3>11 DEF Settles, steps
  <2>17. Settles(set, C)
    BY <2>9, <2>13, <2>14, <2>15, <2>16 DEF Settles
  <2>18. KeepsCredit(C, S)
    BY <2>3, <2>9, <2>17 DEF KeepsCredit
  <2> QED
    BY <2>11, <2>18 DEF C
<1> QED
  BY <1>1, <1>2

(* A change above all others is a new step, or one of several; what they say of who *)
(* assigned the task is the same for who kept enough and for who kept all.          *)
LEMMA CreditWithMore ==
  ASSUME BoardLimits, NEW S, NEW O, NEW F, Keeps(O, S), KeepsCredit(O, S), OneEach(S \cup F),
         \A o \in F : \A p \in O : p.rev < o.rev
  PROVE  KeepsCredit(O \cup F, S \cup F)
<1> DEFINE T == O \cup F
           V == S \cup F
<1>1. OneEach(S) /\ OneEach(T) /\ OneEach(V) /\ O \in SUBSET S /\ T \in SUBSET V /\ OneEach(O)
  <2>1. O \in SUBSET S /\ OneEach(S)
    BY DEF Keeps
  <2>2. T \in SUBSET V
    BY <2>1
  <2> QED
    BY <2>1, <2>2, PartOfEach
<1> SUFFICES ASSUME V # {}, Boa!Removals(V) = {}
             PROVE  \E o \in T : Settles(o, T) /\ Settles(o, V)
  BY DEF KeepsCredit
<1>2. CASE S = {}
  <2>1. O = {}
    BY <1>1, <1>2
  <2>2. T = V
    BY <1>2, <2>1
  <2> QED
    BY <1>1, <2>2, SettlesExists
<1>3. CASE F = {}
  <2>1. T = O /\ V = S
    BY <1>3
  <2> QED
    BY <2>1 DEF KeepsCredit
<1>4. CASE S # {} /\ F # {}
  <2>1. Boa!Removals(S) = {}
    BY Unremoved
  <2>2. PICK l \in O : Tops(l, S)
    BY <1>4, <2>1 DEF Keeps
  <2>3. PICK w \in O : Settles(w, S) /\ Settles(w, O)
    BY <1>4, <2>1 DEF KeepsCredit
  <2>4. OneEach(F)
    <3>1. F \in SUBSET V
      OBVIOUS
    <3> QED
      BY <1>1, <3>1, PartOfEach
  <2>5. PICK m \in F : Tops(m, F)
    BY <1>4, <2>4, TopsExists
  <2>6. \A o \in V : o.rev \in Nat /\ o.id \in Nat
    BY <1>1, ChangeFields DEF OneEach
  <2>7. \A p \in S : p.rev <= l.rev
    <3> TAKE p \in S
    <3>1. p.rev < l.rev \/ p.rev = l.rev
      BY <2>2 DEF Tops
    <3>2. p.rev \in Nat /\ l.rev \in Nat
      BY <1>1, <2>2, <2>6
    <3> QED
      BY <3>1, <3>2
  <2>8. \A o \in F : \A p \in S : p.rev < o.rev
    <3> TAKE o \in F
    <3> TAKE p \in S
    <3>1. p.rev <= l.rev /\ l.rev < o.rev
      BY <2>2, <2>7
    <3>2. p.rev \in Nat /\ l.rev \in Nat /\ o.rev \in Nat
      BY <1>1, <2>2, <2>6
    <3> QED
      BY <3>1, <3>2
  <2>9. Boa!Chain(V) = Boa!Chain(S) \cup Boa!Chain(F)
    <3>1. ASSUME NEW o \in S, NEW p \in F PROVE o.rev # p.rev
      <4>1. o.rev < p.rev /\ o.rev \in Nat /\ p.rev \in Nat
        BY <2>6, <2>8
      <4> QED
        BY <4>1
    <3> QED
      BY <3>1 DEF Boa!Chain
  <2>10. Boa!Chain(T) = Boa!Chain(O) \cup Boa!Chain(F)
    <3>1. ASSUME NEW o \in O, NEW p \in F PROVE o.rev # p.rev
      <4>1. o.rev < p.rev /\ o.rev \in Nat /\ p.rev \in Nat
        BY <1>1, <2>6
      <4> QED
        BY <4>1
    <3> QED
      BY <3>1 DEF Boa!Chain
  <2>11. Boa!Last(V) = m /\ Boa!Last(T) = m /\ Boa!Last(S) = l /\ Boa!Last(O) = l
    <3>1. Tops(m, V) /\ Tops(m, T)
      <4>1. \A p \in V : p.rev < m.rev \/ (p.rev = m.rev /\ p.id <= m.id)
        BY <2>5, <2>8 DEF Tops
      <4> QED
        BY <1>1, <2>5, <4>1 DEF Tops
    <3>2. Tops(l, O)
      BY <1>1, <2>2, InPart
    <3> QED
      BY <1>1, <2>2, <3>1, <3>2, LastIs
  <2>12. l \in Boa!Chain(S) /\ l \in Boa!Chain(O)
    <3>1. Tops(l, O)
      BY <1>1, <2>2, InPart
    <3> QED
      BY <1>1, <2>2, <3>1, LastIs
  <2>13. /\ Boa!Chain(S) \in SUBSET S /\ Boa!Chain(O) \in SUBSET O /\ Boa!Chain(F) \in SUBSET F
         /\ \A o, p \in Boa!Chain(O) : o.rev = p.rev => o = p
    BY <1>1, <2>4, ChainOf
  <2>14. PICK a \in T : Settles(a, T)
    BY <1>1, <1>4, SettlesExists
  <2> DEFINE mark == m.assignee
             CS == Boa!Chain(S)
             CO == Boa!Chain(O)
             CF == Boa!Chain(F)
  <2>15. /\ a \in CO \cup CF
         /\ \A p \in CO \cup CF : p.rev >= a.rev => p.assignee = mark
         /\ \A p \in CO \cup CF : p.rev < a.rev =>
              \E q \in CO \cup CF : q.rev >= p.rev /\ q.assignee # mark
    BY <2>10, <2>11, <2>14 DEF Settles, Stays
  <2>16. SUFFICES /\ a \in CS \cup CF
                  /\ \A p \in CS \cup CF : p.rev >= a.rev => p.assignee = mark
                  /\ \A p \in CS \cup CF : p.rev < a.rev =>
                       \E q \in CS \cup CF : q.rev >= p.rev /\ q.assignee # mark
    BY <2>9, <2>11, <2>14 DEF Settles, Stays
  <2> HIDE DEF CS, CO, CF, mark, T, V
  <2>17. /\ \A o \in CS : o.rev \in Nat /\ o.rev <= l.rev
         /\ \A o \in CO : o.rev \in Nat /\ o.rev <= l.rev
         /\ \A o \in CF : o.rev \in Nat /\ l.rev < o.rev
         /\ l.rev \in Nat /\ l \in CS /\ l \in CO
         /\ \A o \in CO : o.rev = l.rev => o = l
    <3>1. \A o \in CS : o.rev \in Nat /\ o.rev <= l.rev
      BY <2>6, <2>7, <2>13 DEF V, CS
    <3>2. \A o \in CO : o.rev \in Nat /\ o.rev <= l.rev
      BY <1>1, <2>6, <2>7, <2>13 DEF V, CO
    <3>3. \A o \in CF : o.rev \in Nat /\ l.rev < o.rev
      BY <2>2, <2>6, <2>13 DEF V, CF
    <3> QED
      BY <2>12, <2>13, <3>1, <3>2, <3>3 DEF CS, CO
  <2>18. CASE a \in CF
    <3>1. a \in CS \cup CF
      BY <2>18
    <3>2. ASSUME NEW p \in CS \cup CF, p.rev >= a.rev PROVE p.assignee = mark
      <4>1. p \in CF
        BY <2>17, <2>18, <3>2
      <4> QED
        BY <2>15, <3>2, <4>1
    <3>3. ASSUME NEW p \in CS \cup CF, p.rev < a.rev
          PROVE  \E q \in CS \cup CF : q.rev >= p.rev /\ q.assignee # mark
      <4>1. CASE p \in CF
        <5>1. PICK q \in CO \cup CF : q.rev >= p.rev /\ q.assignee # mark
          BY <2>15, <3>3, <4>1
        <5>2. q \in CF
          BY <2>17, <4>1, <5>1
        <5> QED
          BY <5>1, <5>2
      <4>2. CASE p \in CS
        <5>1. l.rev < a.rev
          BY <2>17, <2>18
        <5>2. PICK q \in CO \cup CF : q.rev >= l.rev /\ q.assignee # mark
          BY <2>15, <2>17, <5>1
        <5>3. q = l \/ q \in CF
          BY <2>17, <5>2
        <5>4. q.rev >= p.rev
          <6>1. q.rev \in Nat /\ p.rev \in Nat /\ l.rev \in Nat /\ p.rev <= l.rev
            BY <2>17, <4>2
          <6> QED
            BY <5>2, <6>1
        <5> QED
          BY <2>17, <5>2, <5>3, <5>4
      <4> QED
        BY <4>1, <4>2
    <3> QED
      BY <3>1, <3>2, <3>3
  <2>19. CASE a \in CO
    <3>1. a.rev \in Nat /\ a.rev <= l.rev
      BY <2>17, <2>19
    <3>2. l.assignee = mark
      BY <2>15, <2>17, <3>1
    <3>3. \A p \in CF : p.assignee = mark
      <4> TAKE p \in CF
      <4>1. p.rev \in Nat /\ l.rev < p.rev /\ l.rev \in Nat
        BY <2>17
      <4>2. p.rev >= a.rev
        BY <3>1, <4>1
      <4> QED
        BY <2>15, <4>2
    <3>4. Settles(a, O)
      <4>1. \A p \in CO : p.rev >= a.rev => p.assignee = mark
        BY <2>15
      <4>2. \A p \in CO : p.rev < a.rev => \E q \in CO : q.rev >= p.rev /\ q.assignee # mark
        BY <2>15, <3>3
      <4> QED
        BY <2>11, <2>19, <3>2, <4>1, <4>2 DEF Settles, Stays, CO
    <3>5. a = w
      BY <1>1, <2>3, <3>4, SettlesIs
    <3>6. /\ a \in CS
          /\ \A p \in CS : p.rev >= a.rev => p.assignee = mark
          /\ \A p \in CS : p.rev < a.rev => \E q \in CS : q.rev >= p.rev /\ q.assignee # mark
      BY <2>3, <2>11, <3>2, <3>5 DEF Settles, Stays, CS
    <3>7. \A p \in CF : ~(p.rev < a.rev)
      BY <2>17, <3>1
    <3> QED
      BY <3>3, <3>6, <3>7
  <2> QED
    BY <2>15, <2>18, <2>19
<1> QED
  BY <1>2, <1>3, <1>4

LEMMA HighestNumber ==
  ASSUME BoardLimits, NEW S, OneEach(S)
  PROVE  Boa!Highest(S) \in Nat /\ \A o \in S : o.rev <= Boa!Highest(S)
<1>1. CASE S = {}
  <2>1. {0} \cup {o.rev : o \in S} = {0}
    BY <1>1
  <2>2. Boa!Max({0}) = 0
    BY DEF Boa!Max
  <2> QED
    BY <1>1, <2>1, <2>2 DEF Boa!Highest
<1>2. CASE S # {}
  <2>1. PICK l \in S : Tops(l, S)
    BY <1>2, TopsExists
  <2>2. Boa!Highest(S) = l.rev
    BY <2>1, LastIs
  <2>3. ASSUME NEW o \in S PROVE o.rev <= l.rev
    <3>1. o.rev \in Nat /\ l.rev \in Nat
      BY ChangeFields DEF OneEach
    <3>2. o.rev < l.rev \/ o.rev = l.rev
      BY <2>1 DEF Tops
    <3> QED
      BY <3>1, <3>2
  <2>4. l.rev \in Nat
    BY ChangeFields DEF OneEach
  <2> QED
    BY <2>2, <2>3, <2>4
<1> QED
  BY <1>1, <1>2

(* Within a jump of each other all are taken. *)
LEMMA AllTaken ==
  ASSUME BoardLimits, NEW H, OneEach(H), NEW I \in SUBSET Boa!Op
  PROVE  Boa!Fresh(H, I) = I \ H
<1> DEFINE J == I \ H
           top == Boa!Highest(H)
           revs == {top} \cup {o.rev : o \in {p \in J : p.rev > top}}
<1>1. ASSUME NEW o \in J PROVE \A r \in {x \in revs : x < o.rev} : \E n \in revs : n > r /\ n <= r + Jump
  <2> TAKE r \in {x \in revs : x < o.rev}
  <2>1. o.rev \in Nat /\ o.rev <= MaxOps
    BY ChangeFields
  <2>2. MaxOps \in Nat /\ Jump \in Nat /\ MaxOps <= Jump
    BY DEF BoardLimits
  <2>3. CASE o.rev > top
    <3>1. o.rev \in revs
      BY <2>3
    <3>2. r \in Nat
      <4>1. top \in Nat
        BY HighestNumber
      <4>2. \A p \in J : p.rev \in Nat
        BY ChangeFields
      <4> QED
        BY <4>1, <4>2
    <3>3. r < o.rev
      OBVIOUS
    <3>4. o.rev > r /\ o.rev <= r + Jump
      BY <2>1, <2>2, <3>2, <3>3
    <3> QED
      BY <3>1, <3>4
  <2>4. CASE ~(o.rev > top)
    <3>1. top \in Nat /\ \A p \in J : p.rev \in Nat
      BY HighestNumber, ChangeFields
    <3>2. r \in Nat /\ r >= top /\ r < o.rev
      BY <3>1
    <3> QED
      BY <2>1, <2>4, <3>1, <3>2
  <2> QED
    BY <2>3, <2>4
<1>2. J \subseteq Boa!withinRevisionJump(H, J)
  BY <1>1 DEF Boa!withinRevisionJump
<1> QED
  BY <1>2 DEF Boa!Fresh, Boa!withinRevisionJump

(* What a device keeps of what it holds and takes. *)
LEMMA GivenMore ==
  ASSUME BoardLimits, NEW S, NEW O, NEW F, Keeps(O, S), OneEach(S \cup F), F # {}
  PROVE  /\ Keeps(Boa!Bounded(O \cup F), S \cup F)
         /\ KeepsCredit(O \cup F, S \cup F) => KeepsCredit(Boa!Bounded(O \cup F), S \cup F)
<1> DEFINE T == O \cup F
           V == S \cup F
<1>1. Keeps(T, V)
  BY KeptWithMore
<1>2. OneEach(T) /\ T # {}
  <2>1. T \in SUBSET V
    BY DEF Keeps
  <2> QED
    BY <2>1, PartOfEach
<1> HIDE DEF T, V
<1>3. Boa!Bounded(T) = T \/ Boa!Bounded(T) = Boa!compactBoard(T)
  BY DEF Boa!Bounded
<1>4. Keeps(Boa!Bounded(T), T) /\ KeepsCredit(Boa!Bounded(T), T)
  BY <1>2, <1>3, KeepsAll, CompactKeeps
<1>5. Keeps(Boa!Bounded(T), V) /\ (KeepsCredit(T, V) => KeepsCredit(Boa!Bounded(T), V))
  BY <1>1, <1>4, KeptOfKept
<1> QED
  BY <1>5 DEF T, V

Ids(S) == {o.id : o \in S}

(* Changes have ids of their own, there are no more revisions than changes, and every *)
(* device keeps of what it was given what decides.                                    *)
BoardInv ==
  /\ ops \in [Device -> SUBSET Boa!Op] /\ learned \in [Device -> SUBSET Boa!Op] /\ late \subseteq Device
  /\ OneEach(Boa!Made)
  /\ \A o \in Boa!Made : o.rev <= Cardinality(Ids(Boa!Made))
  /\ \A d \in Device : Keeps(ops[d], learned[d])
  /\ \A d \in Device : d \notin late => KeepsCredit(ops[d], learned[d])

LEMMA BoardStart ==
  ASSUME BoardLimits, Boa!Init
  PROVE  BoardInv
<1>1. ops = [d \in Device |-> {}] /\ learned = [d \in Device |-> {}] /\ late = {}
  BY DEF Boa!Init
<1>2. OneEach({})
  BY DEF OneEach
<1>3. Keeps({}, {}) /\ KeepsCredit({}, {})
  BY <1>2, KeepsAll
<1>4. Boa!Made = {}
  BY <1>1 DEF Boa!Made
<1> QED
  BY <1>1, <1>2, <1>3, <1>4 DEF BoardInv

LEMMA BoardSoundByInv ==
  ASSUME BoardLimits, BoardInv
  PROVE  Boa!BoardsAgree
<1>1. Boa!TypeOK
  BY DEF BoardInv, Boa!TypeOK
<1>2. Boa!CompactionKeeps
  BY ShownAlike, CreditedAlike DEF BoardInv, Boa!CompactionKeeps
<1>3. ASSUME NEW d \in Device, NEW e \in Device
      PROVE  Boa!addOps(ops[d], ops[e]) = Boa!Bounded(ops[d] \cup ops[e])
  <2>1. OneEach(ops[d]) /\ ops[e] \in SUBSET Boa!Op
    BY PartOfEach DEF BoardInv, Keeps
  <2>2. ops[d] \cup Boa!Fresh(ops[d], ops[e]) = ops[d] \cup ops[e]
    BY <2>1, AllTaken
  <2> QED
    BY <2>2 DEF Boa!addOps
<1>4. Boa!ExchangeAgrees
  <2> SUFFICES ASSUME NEW d \in Device, NEW e \in Device
               PROVE  Boa!addOps(ops[d], ops[e]) = Boa!addOps(ops[e], ops[d])
    BY Zenon DEF Boa!ExchangeAgrees
  <2>1. ops[d] \cup ops[e] = ops[e] \cup ops[d]
    OBVIOUS
  <2> QED
    BY <1>3, <2>1
<1> QED
  BY <1>1, <1>2, <1>4 DEF Boa!BoardsAgree

(* Whatever a device is given of the changes made, or of a new one. *)
LEMMA TakeKeeps ==
  ASSUME BoardLimits, BoardInv, NEW d \in Device, NEW I, Boa!Take(d, I),
         OneEach(Boa!Made \cup I),
         \A o \in Boa!Made \cup I : o.rev <= Cardinality(Ids(Boa!Made \cup I))
  PROVE  BoardInv'
<1> DEFINE O == ops[d]
           S == learned[d]
           F == I \ O
<1>1. /\ ops \in [Device -> SUBSET Boa!Op] /\ learned \in [Device -> SUBSET Boa!Op] /\ late \subseteq Device
      /\ \A e \in Device : Keeps(ops[e], learned[e])
      /\ \A e \in Device : e \notin late => KeepsCredit(ops[e], learned[e])
  BY DEF BoardInv
<1>2. Keeps(O, S) /\ OneEach(S) /\ O \in SUBSET S /\ S \in SUBSET Boa!Made
  BY <1>1 DEF Keeps, Boa!Made
<1>3. I \in SUBSET Boa!Op
  BY DEF OneEach
<1>4. OneEach(O)
  BY <1>2, PartOfEach
<1>5. Boa!Fresh(O, I) = F
  BY <1>3, <1>4, AllTaken
<1>6. O \cup Boa!Fresh(O, I) = O \cup F
  BY <1>5
<1>7. F # {}
  BY <1>5, Zenon DEF Boa!Take
<1>8. ops' = [ops EXCEPT ![d] = Boa!Bounded(O \cup F)]
  BY <1>6 DEF Boa!Take, Boa!addOps
<1>9. learned' = [learned EXCEPT ![d] = S \cup F]
  BY <1>5, Zenon DEF Boa!Take
<1>10. late' = IF \E o \in F : o.rev <= Boa!Highest(O) /\ O # S THEN late \cup {d} ELSE late
  BY <1>5, Zenon DEF Boa!Take
<1>11. S \cup F \in SUBSET (Boa!Made \cup I) /\ S \cup F \in SUBSET Boa!Op
  <2>1. S \in SUBSET Boa!Op
    BY <1>1
  <2> QED
    BY <1>2, <1>3, <2>1
<1>12. OneEach(S \cup F)
  BY <1>11, PartOfEach
<1>13. /\ Keeps(Boa!Bounded(O \cup F), S \cup F)
       /\ KeepsCredit(O \cup F, S \cup F) => KeepsCredit(Boa!Bounded(O \cup F), S \cup F)
  <2> HIDE DEF O, S, F
  <2> QED
    BY <1>2, <1>7, <1>12, GivenMore
<1>14. ASSUME d \notin late' PROVE KeepsCredit(O \cup F, S \cup F)
  <2>1. ~(\E o \in F : o.rev <= Boa!Highest(O) /\ O # S) /\ d \notin late
    BY <1>10, <1>14
  <2>2. CASE O = S
    BY <1>12, <2>2, KeepsAll
  <2>3. CASE O # S
    <3>1. ASSUME NEW o \in F, NEW p \in O PROVE p.rev < o.rev
      <4>1. ~(o.rev <= Boa!Highest(O))
        BY <2>1, <2>3
      <4>2. p.rev <= Boa!Highest(O) /\ Boa!Highest(O) \in Nat
        BY <1>4, HighestNumber
      <4>3. o.rev \in Nat /\ p.rev \in Nat
        BY <1>1, <1>3, ChangeFields
      <4> QED
        BY <4>1, <4>2, <4>3
    <3>2. KeepsCredit(O, S)
      BY <1>1, <2>1
    <3> HIDE DEF O, S, F
    <3> QED
      BY <1>2, <1>12, <3>1, <3>2, CreditWithMore
  <2> QED
    BY <2>2, <2>3
<1>15. Boa!Made' = Boa!Made \cup I
  <2>1. \A e \in Device : learned'[e] = IF e = d THEN S \cup F ELSE learned[e]
    BY <1>1, <1>9
  <2>2. Boa!Made' \subseteq Boa!Made \cup I
    BY <1>11, <2>1 DEF Boa!Made
  <2>3. Boa!Made \subseteq Boa!Made'
    <3>1. \A e \in Device : learned[e] \subseteq learned'[e]
      BY <2>1
    <3> QED
      BY <3>1 DEF Boa!Made
  <2>4. I \subseteq Boa!Made'
    <3>1. I \subseteq S \cup F
      BY <1>2
    <3> QED
      BY <2>1, <3>1 DEF Boa!Made
  <2> QED
    BY <2>2, <2>3, <2>4
<1> DEFINE B == Boa!Bounded(O \cup F)
           V == S \cup F
<1>16. B \in SUBSET Boa!Op
  BY <1>11, <1>13 DEF Keeps
<1> HIDE DEF O, S, F, B, V
<1>17. /\ ops' = [ops EXCEPT ![d] = B] /\ learned' = [learned EXCEPT ![d] = V]
       /\ B \in SUBSET Boa!Op /\ V \in SUBSET Boa!Op /\ Keeps(B, V)
       /\ d \notin late' => KeepsCredit(B, V)
  BY <1>8, <1>9, <1>11, <1>13, <1>14, <1>16 DEF B, V
<1>18. ops' \in [Device -> SUBSET Boa!Op] /\ learned' \in [Device -> SUBSET Boa!Op] /\ late' \subseteq Device
  BY <1>1, <1>10, <1>17
<1>19. ASSUME NEW e \in Device
       PROVE  Keeps(ops'[e], learned'[e]) /\ (e \notin late' => KeepsCredit(ops'[e], learned'[e]))
  <2>1. CASE e = d
    <3>1. ops'[e] = B /\ learned'[e] = V
      BY <1>1, <1>17, <2>1
    <3> QED
      BY <1>17, <2>1, <3>1
  <2>2. CASE e # d
    <3>1. ops'[e] = ops[e] /\ learned'[e] = learned[e]
      BY <1>1, <1>17, <2>2
    <3>2. late \subseteq late'
      BY <1>10
    <3> QED
      BY <1>1, <3>1, <3>2
  <2> QED
    BY <2>1, <2>2
<1>20. OneEach(Boa!Made') /\ \A o \in Boa!Made' : o.rev <= Cardinality(Ids(Boa!Made'))
  BY <1>15
<1>21. /\ OneEach(Boa!Made)' <=> OneEach(Boa!Made')
       /\ \A e \in Device : (Keeps(ops[e], learned[e]))' <=> Keeps(ops'[e], learned'[e])
       /\ \A e \in Device : (KeepsCredit(ops[e], learned[e]))' <=> KeepsCredit(ops'[e], learned'[e])
  OBVIOUS
<1> QED
  BY <1>18, <1>19, <1>20, <1>21 DEF BoardInv

LEMMA CreateKeeps ==
  ASSUME BoardLimits, BoardInv, NEW d \in Device, Boa!Create(d)
  PROVE  BoardInv'
<1>1. Boa!Made = {}
  BY Zenon DEF Boa!Create
<1>2. PICK a \in Assignee : Boa!Take(d, {[rev |-> 1, id |-> 1, assignee |-> a, removed |-> FALSE]})
  BY Zenon DEF Boa!Create
<1> DEFINE o == [rev |-> 1, id |-> 1, assignee |-> a, removed |-> FALSE]
<1>3. 1 \in 1..MaxOps
  BY DEF BoardLimits
<1>4. o \in Boa!Op /\ o.rev = 1 /\ o.id = 1
  BY <1>3 DEF Boa!Op
<1>5. Boa!Take(d, {o})
  BY <1>2
<1> HIDE DEF o
<1>6. Boa!Made \cup {o} = {o}
  BY <1>1
<1>7. OneEach({o})
  BY <1>4 DEF OneEach
<1>8. Ids({o}) = {1}
  BY <1>4 DEF Ids
<1>9. Cardinality({1}) = 1
  BY FS_Singleton
<1>10. \A p \in {o} : p.rev <= Cardinality(Ids({o}))
  BY <1>4, <1>8, <1>9
<1>11. OneEach(Boa!Made \cup {o}) /\ \A p \in Boa!Made \cup {o} : p.rev <= Cardinality(Ids(Boa!Made \cup {o}))
  BY <1>6, <1>7, <1>10
<1> QED
  BY <1>5, <1>11, TakeKeeps

LEMMA ChangeKeeps ==
  ASSUME BoardLimits, BoardInv, NEW d \in Device, Boa!Change(d)
  PROVE  BoardInv'
<1>1. PICK c \in Boa!Chain(ops[d]), i \in Boa!Unused, a \in Assignee, r \in BOOLEAN :
        Boa!Take(d, {[rev |-> c.rev + 1, id |-> i, assignee |-> a, removed |-> r]})
  BY Zenon DEF Boa!Change
<1> DEFINE o == [rev |-> c.rev + 1, id |-> i, assignee |-> a, removed |-> r]
           N == Cardinality(Ids(Boa!Made))
           M == Cardinality(Ids(Boa!Made) \cup {i})
<1>2. OneEach(Boa!Made) /\ (\A p \in Boa!Made : p.rev <= N) /\ c \in Boa!Made
  <2>1. Keeps(ops[d], learned[d])
    BY DEF BoardInv
  <2>2. c \in learned[d]
    BY <2>1 DEF Keeps, Boa!Chain
  <2> QED
    BY <2>2 DEF BoardInv, Boa!Made
<1>3. i \in 1..MaxOps /\ i \notin Ids(Boa!Made)
  BY DEF Boa!Unused, Ids
<1>4. Ids(Boa!Made) \in SUBSET (1..MaxOps)
  BY <1>2, ChangeFields DEF OneEach, Ids
<1>5. MaxOps \in Nat /\ MaxOps \in Int /\ 1 \in Int
  BY DEF BoardLimits
<1>6. IsFiniteSet(1..MaxOps) /\ Cardinality(1..MaxOps) = MaxOps
  <2>1. Cardinality(1..MaxOps) = IF 1 > MaxOps THEN 0 ELSE MaxOps - 1 + 1
    BY <1>5, FS_Interval
  <2>2. IsFiniteSet(1..MaxOps)
    BY <1>5, FS_Interval
  <2> QED
    BY <1>5, <2>1, <2>2 DEF BoardLimits
<1>7. IsFiniteSet(Ids(Boa!Made)) /\ N \in Nat
  BY <1>4, <1>6, FS_Subset, FS_CardinalityType
<1>8. M = N + 1
  BY <1>3, <1>7, FS_AddElement
<1>9. M <= MaxOps
  <2>1. Ids(Boa!Made) \cup {i} \in SUBSET (1..MaxOps)
    BY <1>3, <1>4
  <2> QED
    BY <1>6, <2>1, FS_Subset
<1>10. c \in Boa!Op /\ c.rev \in Nat /\ c.rev <= N
  BY <1>2, ChangeFields DEF OneEach
<1>11. c.rev + 1 \in 1..MaxOps /\ c.rev + 1 <= M /\ \A n \in Nat : n <= N => n <= M
  BY <1>5, <1>7, <1>8, <1>9, <1>10
<1>12. o \in Boa!Op
  BY <1>3, <1>11 DEF Boa!Op
<1>13. o.rev = c.rev + 1 /\ o.id = i
  OBVIOUS
<1>14. Boa!Take(d, {o})
  BY <1>1
<1> HIDE DEF o, N, M
<1>15. Ids(Boa!Made \cup {o}) = Ids(Boa!Made) \cup {i}
  BY <1>13 DEF Ids
<1>16. OneEach(Boa!Made \cup {o})
  <2>1. \A p \in Boa!Made : p.id # i
    BY <1>3 DEF Ids
  <2> QED
    BY <1>2, <1>12, <1>13, <2>1 DEF OneEach
<1>17. ASSUME NEW p \in Boa!Made \cup {o} PROVE p.rev <= M
  <2>1. CASE p = o
    BY <1>11, <1>13, <2>1
  <2>2. CASE p \in Boa!Made
    <3>1. p.rev \in Nat /\ p.rev <= N
      BY <1>2, <2>2, ChangeFields DEF OneEach
    <3> QED
      BY <1>11, <3>1
  <2> QED
    BY <2>1, <2>2
<1>18. \A p \in Boa!Made \cup {o} : p.rev <= Cardinality(Ids(Boa!Made \cup {o}))
  BY <1>15, <1>17 DEF M
<1> QED
  BY <1>14, <1>16, <1>18, TakeKeeps

LEMMA HandedOnKeeps ==
  ASSUME BoardLimits, BoardInv, NEW d \in Device, NEW I \in SUBSET Boa!Made, Boa!Take(d, I)
  PROVE  BoardInv'
<1>1. Boa!Made \cup I = Boa!Made
  OBVIOUS
<1>2. OneEach(Boa!Made) /\ \A o \in Boa!Made : o.rev <= Cardinality(Ids(Boa!Made))
  BY DEF BoardInv
<1>3. OneEach(Boa!Made \cup I) /\ \A o \in Boa!Made \cup I : o.rev <= Cardinality(Ids(Boa!Made \cup I))
  BY <1>1, <1>2
<1> QED
  BY <1>3, TakeKeeps

(* No step of a task's board loses what decides. *)
LEMMA BoardStep ==
  ASSUME BoardLimits
  PROVE  BoardInv /\ [Boa!Next]_board => BoardInv'
<1> SUFFICES ASSUME BoardInv, [Boa!Next]_board PROVE BoardInv'
  OBVIOUS
<1>1. CASE UNCHANGED board
  <2>1. ops' = ops /\ learned' = learned /\ late' = late
    BY <1>1 DEF board
  <2>2. Boa!Made' = Boa!Made
    BY <2>1 DEF Boa!Made
  <2>3. /\ OneEach(Boa!Made)' <=> OneEach(Boa!Made')
        /\ \A e \in Device : (Keeps(ops[e], learned[e]))' <=> Keeps(ops'[e], learned'[e])
        /\ \A e \in Device : (KeepsCredit(ops[e], learned[e]))' <=> KeepsCredit(ops'[e], learned'[e])
    OBVIOUS
  <2> QED
    BY <2>1, <2>2, <2>3 DEF BoardInv
<1>2. CASE Boa!Next
  <2>1. PICK d \in Device :
          \/ Boa!Create(d) \/ Boa!Change(d) \/ Boa!Receive(d)
          \/ \E e \in Device \ {d} : Boa!Exchange(d, e)
    BY <1>2, Zenon DEF Boa!Next
  <2>2. CASE Boa!Receive(d)
    <3>1. PICK e \in Device \ {d} : \E o \in learned[e] : Boa!Take(d, {o})
      BY <2>2, Zenon DEF Boa!Receive
    <3>2. PICK o \in learned[e] : Boa!Take(d, {o})
      BY <3>1
    <3>3. {o} \in SUBSET Boa!Made
      BY DEF Boa!Made
    <3> QED
      BY <3>2, <3>3, HandedOnKeeps
  <2>3. ASSUME NEW e \in Device \ {d}, Boa!Exchange(d, e) PROVE BoardInv'
    <3>1. Boa!Take(d, ops[e])
      BY <2>3, Zenon DEF Boa!Exchange
    <3>2. ops[e] \in SUBSET learned[e]
      BY DEF BoardInv, Keeps
    <3>3. ops[e] \in SUBSET Boa!Made
      BY <3>2 DEF Boa!Made
    <3> QED
      BY <3>1, <3>3, HandedOnKeeps
  <2> QED
    BY <2>1, <2>2, <2>3, CreateKeeps, ChangeKeeps, Zenon
<1> QED
  BY <1>1, <1>2

-----------------------------------------------------------------------------
(* The parts together: each runs alone, and the others stay at their start.  *)

LEMMA PartsStart ==
  SafetyInit => LocksInit /\ Com!Init /\ Lis!Init /\ Boa!Init /\ Rea!Init /\ Fil!Init
BY DEF SafetyInit

LEMMA PartsStep ==
  [SafetyNext]_<<part, vars, locking, commands, board, reactions, transfers,
                 listening, desktop>> =>
    /\ [LocksNext]_locking /\ [Com!Next]_commands /\ [Lis!Next]_listening
    /\ [Boa!Next]_board /\ [Rea!Next]_reactions /\ [Fil!Next]_transfers
BY DEF SafetyNext

(* A lock file implements a mutex (locks.ts: tryLock, takeLock), whoever     *)
(* crashes, until a marker of a process that runs is removed; which nobody   *)
(* does where the lock's users pass no maximum age.                          *)
THEOREM LockExcludes ==
  SafetySpec => LockIsMutex /\ (~ MaxAge => Turns!Spec)
<1>1. LocksInit => Turns!Init
  BY DEF LocksInit, Turns!Init, Holders
<1>2. LocksInv /\ [LocksNext]_locking => LocksInv'
  BY LocksStep
<1>3. LocksInv /\ [LocksNext]_locking => [snatched' \/ Turns!Next]_Holders
  BY LockStep
<1>4. LocksInv /\ LocksInv' /\ ~ MaxAge /\ [LocksNext]_locking => [Turns!Next]_Holders
  BY LockStep DEF LocksInv, ClearsByAge
<1>5. SafetySpec => LockIsMutex
  BY <1>1, <1>2, <1>3, LocksStart, PartsStart, PartsStep, PTL DEF SafetySpec, LockIsMutex
<1>6. ASSUME ~ MaxAge PROVE SafetySpec => Turns!Spec
  <2>1. LocksInv /\ LocksInv' /\ [LocksNext]_locking => [Turns!Next]_Holders
    BY <1>4, <1>6
  <2> QED
    BY <1>1, <1>2, <2>1, LocksStart, PartsStart, PartsStep, PTL DEF SafetySpec, Turns!Spec
<1> QED
  BY <1>5, <1>6

(* A command is carried out once while its receipt is kept, a creation pays  *)
(* with one use of its code, and a page that goes on has its room (the       *)
(* receipts of lobby.ts, `pending` in client.ts).                            *)
THEOREM CommandsHappenOnce ==
  ASSUME LimitsMakeSense
  PROVE  SafetySpec => []CommandsOnce
<1>1. CommandsInv => CommandsOnce
  BY DEF CommandsInv, CommandsOnce
<1>2. CommandsInv /\ [Com!Next]_commands => CommandsInv'
  BY CommandsStep
<1>3. Com!Init => CommandsInv
  BY CommandsStart
<1> QED
  BY <1>1, <1>2, <1>3, PartsStart, PartsStep, PTL DEF SafetySpec

(* The cursors that a listen saves are never past something for the agent    *)
(* that none returned, of what the history still held; but for a change      *)
(* whose number was read before it (browser-agent.ts: listen).               *)
THEOREM ListensMissNothing ==
  ASSUME ListenLimits
  PROVE  SafetySpec => []NothingSkipped
<1>1. ListenInv => NothingSkipped
  BY DEF ListenInv, NothingSkipped
<1>2. ListenInv /\ [Lis!Next]_listening => ListenInv'
  BY ListenStep
<1>3. Lis!Init => ListenInv
  BY ListenStart
<1> QED
  BY <1>1, <1>2, <1>3, PartsStart, PartsStep, PTL DEF SafetySpec

(* Tasks look the same on every device, whatever was dropped (board.ts:      *)
(* compactBoard), a device keeps no more of a member's reactions than the    *)
(* cap (reactions.ts: withinReactionKeyCap), and of those who sent a file    *)
(* only who sent wrong bytes is distrusted (files.ts).                       *)
THEOREM DevicesKeepSound ==
  ASSUME FilesLimits, ReactionLimits, BoardLimits
  PROVE  SafetySpec => []DevicesSound
<1>1. BoardInv /\ ReactionsInv /\ FilesInv => DevicesSound
  BY BoardSoundByInv, FilesSoundByInv DEF DevicesSound, ReactionsInv
<1>2. BoardInv /\ [Boa!Next]_board => BoardInv'
  BY BoardStep
<1>3. ReactionsInv /\ [Rea!Next]_reactions => ReactionsInv'
  BY ReactionsStep
<1>4. FilesInv /\ [Fil!Next]_transfers => FilesInv'
  BY FilesStep
<1>5. Boa!Init => BoardInv
  BY BoardStart
<1>6. Rea!Init => ReactionsInv
  BY ReactionsStart
<1>7. Fil!Init => FilesInv
  BY FilesStart
<1> QED
  BY <1>1, <1>2, <1>3, <1>4, <1>5, <1>6, <1>7, PartsStart, PartsStep, PTL DEF SafetySpec
=============================================================================
