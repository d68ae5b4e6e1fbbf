-------------------------- MODULE ChangeFeedProofs --------------------------
(***************************************************************************)
(* What TLAPS proves of ChangeFeed for every set of items, every threshold  *)
(* and every bound: the types, and, for one engine on the directory, that   *)
(* neither a version nor a deletion is ever behind the cursor unhandled.    *)
(***************************************************************************)
EXTENDS ChangeFeed, TLAPS

(* Every variable holds what the code can store in it, whatever the number  *)
(* of engines.                                                              *)
THEOREM TypeCorrect == Spec => []TypeOK
<1>1. Init => TypeOK
  BY DEF Init, TypeOK, Phases
<1>2. TypeOK /\ [Next]_vars => TypeOK'
  <2> SUFFICES ASSUME TypeOK, [Next]_vars PROVE TypeOK'
    OBVIOUS
  <2> USE DEF TypeOK, Phases, server, store, pass, history
  <2>1. ASSUME NEW i \in Item, RemoteWrite(i) PROVE TypeOK'
    BY <2>1 DEF RemoteWrite
  <2>2. ASSUME NEW i \in Item, RemoteRename(i) PROVE TypeOK'
    BY <2>2 DEF RemoteRename
  <2>3. ASSUME NEW i \in Item, RemoteDelete(i) PROVE TypeOK'
    BY <2>3 DEF RemoteDelete
  <2>4. ASSUME NEW i \in Item, LocalRemove(i) PROVE TypeOK'
    BY <2>4 DEF LocalRemove
  <2>5. ASSUME NEW e \in Engine, Restart(e) PROVE TypeOK'
    BY <2>5 DEF Restart, Rest
  <2>6. ASSUME NEW e \in Engine, ClearQuarantine(e) PROVE TypeOK'
    BY <2>6 DEF ClearQuarantine
  <2>7. ASSUME NEW e \in Engine, StartRepair(e) PROVE TypeOK'
    BY <2>7 DEF StartRepair
  <2>8. ASSUME NEW e \in Engine, StartVerify(e) PROVE TypeOK'
    BY <2>8 DEF StartVerify, Fetch, Live
  <2>9. ASSUME NEW e \in Engine, StartFull(e) PROVE TypeOK'
    BY <2>9 DEF StartFull, Fetch, Live, Deleted, Unmentioned
  <2>10. ASSUME NEW e \in Engine, ForgetCursor(e) PROVE TypeOK'
    BY <2>10 DEF ForgetCursor
  <2>11. ASSUME NEW e \in Engine, EndFiles(e) PROVE TypeOK'
    BY <2>11 DEF EndFiles
  <2>12. ASSUME NEW e \in Engine, EndDeletes(e) PROVE TypeOK'
    BY <2>12 DEF EndDeletes
  <2>13. ASSUME NEW e \in Engine, EndPass(e) PROVE TypeOK'
    BY <2>13 DEF EndPass, NextCursor
  <2>14. ASSUME NEW e \in Engine, ReconcileFails(e) PROVE TypeOK'
    BY <2>14 DEF ReconcileFails
  <2>15. ASSUME NEW e \in Engine, NEW i \in Item, DropStaleRow(e, i)
         PROVE TypeOK'
    BY <2>15 DEF DropStaleRow
  <2>16. ASSUME NEW e \in Engine, NEW i \in Item, SkipQuarantined(e, i)
         PROVE TypeOK'
    BY <2>16 DEF SkipQuarantined
  <2>17. ASSUME NEW e \in Engine, NEW i \in Item, RefuseItem(e, i)
         PROVE TypeOK'
    BY <2>17 DEF RefuseItem, NoteFailure
  <2>18. ASSUME NEW e \in Engine, NEW i \in Item, SettleWithoutDownload(e, i)
         PROVE TypeOK'
    BY <2>18 DEF SettleWithoutDownload, Handled
  <2>19. ASSUME NEW e \in Engine, NEW i \in Item, SpawnDownload(e, i)
         PROVE TypeOK'
    BY <2>19 DEF SpawnDownload
  <2>20. ASSUME NEW e \in Engine, NEW i \in Item, CollectDownload(e, i)
         PROVE TypeOK'
    BY <2>20 DEF CollectDownload, Handled
  <2>21. ASSUME NEW e \in Engine, NEW i \in Item, CollectFailure(e, i)
         PROVE TypeOK'
    BY <2>21 DEF CollectFailure, NoteFailure
  <2>22. ASSUME NEW e \in Engine, NEW i \in Item, RemoveLocal(e, i)
         PROVE TypeOK'
    BY <2>22 DEF RemoveLocal, RowsAfterRemoval
  <2>23. ASSUME NEW e \in Engine, NEW i \in Item, RemoveLocalFails(e, i)
         PROVE TypeOK'
    BY <2>23 DEF RemoveLocalFails
  <2>24. ASSUME NEW e \in Engine, NEW i \in Item, Push(e, i) PROVE TypeOK'
    BY <2>24 DEF Push
  <2>25. ASSUME NEW e \in Engine, NEW i \in Item, DeleteMissing(e, i)
         PROVE TypeOK'
    BY <2>25 DEF DeleteMissing
  <2>26. CASE UNCHANGED vars
    BY <2>26 DEF vars
  <2>27. QED
    BY <2>1, <2>2, <2>3, <2>4, <2>5, <2>6, <2>7, <2>8, <2>9, <2>10, <2>11,
       <2>12, <2>13, <2>14, <2>15, <2>16, <2>17, <2>18, <2>19, <2>20, <2>21,
       <2>22, <2>23, <2>24, <2>25, <2>26
       DEF Next, Environment, Launch, Advance
<1>3. QED
  BY <1>1, <1>2, PTL DEF Spec
-----------------------------------------------------------------------------
(* The environment only ever raises stamps above every horizon, and never   *)
(* brings a deleted object back.                                            *)
LEMMA EnvironmentKeepsIInv ==
  ASSUME TypeOK, IInv, Environment PROVE IInv'
<1> USE DEF IInv, SnapshotCurrent, PhasesDrained, WindowCovers,
            DeletionsCovered, NothingHidden, DeletionsTaken, InFull,
            Applying, Live, Deleted, TypeOK, store, pass, history
<1>1. ASSUME NEW i \in Item, RemoteWrite(i) PROVE IInv'
  BY <1>1 DEF RemoteWrite
<1>2. ASSUME NEW i \in Item, RemoteRename(i) PROVE IInv'
  BY <1>2 DEF RemoteRename
<1>3. ASSUME NEW i \in Item, RemoteDelete(i) PROVE IInv'
  BY <1>3 DEF RemoteDelete
<1>4. ASSUME NEW i \in Item, LocalRemove(i) PROVE IInv'
  BY <1>4 DEF LocalRemove, server
<1>5. QED
  BY <1>1, <1>2, <1>3, <1>4 DEF Environment

(* Starting, stopping and repairing: no window outlives its pass, and a     *)
(* cursor that is forgotten covers less than the one before.                *)
LEMMA LaunchKeepsIInv ==
  ASSUME TypeOK, IInv, OneEngine,
         NEW e \in Engine,
         \/ Launch(e) \/ ForgetCursor(e)
         \/ \E i \in Item : DropStaleRow(e, i)
  PROVE  IInv'
<1> USE DEF IInv, SnapshotCurrent, PhasesDrained, WindowCovers,
            DeletionsCovered, NothingHidden, DeletionsTaken, InFull,
            Applying, Live, Deleted, TypeOK, OneEngine, server, store,
            history, pass
<1>1. CASE Restart(e)
  BY <1>1 DEF Restart, Rest
<1>2. CASE ClearQuarantine(e)
  BY <1>2 DEF ClearQuarantine
<1>3. CASE StartRepair(e)
  BY <1>3 DEF StartRepair
<1>4. CASE StartVerify(e)
  BY <1>4 DEF StartVerify, Fetch
<1>5. CASE ForgetCursor(e)
  BY <1>5 DEF ForgetCursor
<1>6. ASSUME NEW i \in Item, DropStaleRow(e, i) PROVE IInv'
  BY <1>6 DEF DropStaleRow
<1>7. QED
  BY <1>1, <1>2, <1>3, <1>4, <1>5, <1>6 DEF Launch

(* A full pass starts: what the cursor has passed is handled already, the   *)
(* rest is in the window, and a deletion is listed, below the cursor, or    *)
(* one the answer left out.                                                 *)
LEMMA StartFullKeepsIInv ==
  ASSUME TypeOK, IInv, OneEngine, NEW e \in Engine, StartFull(e)
  PROVE  IInv'
<1> USE DEF IInv, SnapshotCurrent, PhasesDrained, WindowCovers,
            DeletionsCovered, NothingHidden, DeletionsTaken, InFull,
            Applying, Live, Deleted, TypeOK, OneEngine, server, store,
            StartFull, Fetch, Unmentioned
<1>1. SnapshotCurrent' /\ PhasesDrained'
  OBVIOUS
<1>2. WindowCovers'
  OBVIOUS
<1>3. DeletionsCovered'
  OBVIOUS
<1>4. NothingHidden' /\ DeletionsTaken'
  OBVIOUS
<1>5. QED
  BY <1>1, <1>2, <1>3, <1>4

(* The files of the window: an item leaves it handled, in flight, or        *)
(* holding the cursor.                                                      *)
LEMMA FilesKeepIInv ==
  ASSUME TypeOK, IInv, OneEngine,
         NEW e \in Engine, NEW i \in Item,
         \/ SkipQuarantined(e, i) \/ RefuseItem(e, i)
         \/ SettleWithoutDownload(e, i) \/ SpawnDownload(e, i)
         \/ CollectDownload(e, i) \/ CollectFailure(e, i)
  PROVE  IInv'
<1> USE DEF IInv, SnapshotCurrent, PhasesDrained, WindowCovers,
            DeletionsCovered, NothingHidden, DeletionsTaken, InFull,
            Applying, Live, Deleted, TypeOK, OneEngine, server, store,
            history
<1>1. CASE SkipQuarantined(e, i)
  BY <1>1 DEF SkipQuarantined
<1>2. CASE RefuseItem(e, i)
  BY <1>2 DEF RefuseItem, NoteFailure
<1>3. CASE SettleWithoutDownload(e, i)
  BY <1>3 DEF SettleWithoutDownload, Handled
<1>4. CASE SpawnDownload(e, i)
  BY <1>4 DEF SpawnDownload
<1>5. CASE CollectDownload(e, i)
  BY <1>5 DEF CollectDownload, Handled
<1>6. CASE CollectFailure(e, i)
  BY <1>6 DEF CollectFailure, NoteFailure
<1>7. QED
  BY <1>1, <1>2, <1>3, <1>4, <1>5, <1>6

(* The rest of the pass: deletions, the local half, and the cursor, which   *)
(* moves to the horizon only when everything below it is handled.           *)
LEMMA LaterPhasesKeepIInv ==
  ASSUME TypeOK, IInv, OneEngine,
         NEW e \in Engine,
         \/ EndFiles(e) \/ EndDeletes(e) \/ EndPass(e) \/ ReconcileFails(e)
         \/ \E i \in Item :
              \/ RemoveLocal(e, i) \/ RemoveLocalFails(e, i)
              \/ Push(e, i) \/ DeleteMissing(e, i)
  PROVE  IInv'
<1> USE DEF IInv, SnapshotCurrent, PhasesDrained, WindowCovers,
            DeletionsCovered, NothingHidden, DeletionsTaken, InFull,
            Applying, Live, Deleted, TypeOK, OneEngine, server, store,
            history, pass
<1>1. CASE EndFiles(e)
  BY <1>1 DEF EndFiles
<1>2. CASE EndDeletes(e)
  BY <1>2 DEF EndDeletes
<1>3. CASE EndPass(e)
  <2>1. SnapshotCurrent' /\ PhasesDrained' /\ WindowCovers' /\ DeletionsCovered'
    BY <1>3 DEF EndPass
  <2>2. CASE held[e]
    <3>1. cursor' = cursor
      BY <1>3, <2>2 DEF EndPass, NextCursor
    <3>2. QED
      BY <1>3, <2>1, <3>1 DEF EndPass
  <2>3. CASE ~held[e]
    <3>1. cursor' = horizon[e]
      BY <1>3, <2>3 DEF EndPass, NextCursor
    <3>2. \A i \in Live \ dropped : stamp[i] <= horizon[e] => applied[i] = stamp[i]
      BY <1>3, <2>3 DEF EndPass
    <3>3. \A i \in Deleted \ untold : stamp[i] <= horizon[e] => i \notin tracked
      BY <1>3, <2>3 DEF EndPass
    <3>4. QED
      BY <1>3, <2>1, <3>1, <3>2, <3>3 DEF EndPass
  <2>4. QED
    BY <2>2, <2>3
<1>4. CASE ReconcileFails(e)
  BY <1>4 DEF ReconcileFails
<1>5. ASSUME NEW i \in Item, RemoveLocal(e, i) PROVE IInv'
  BY <1>5 DEF RemoveLocal, RowsAfterRemoval
<1>6. ASSUME NEW i \in Item, RemoveLocalFails(e, i) PROVE IInv'
  BY <1>6 DEF RemoveLocalFails
<1>7. ASSUME NEW i \in Item, Push(e, i) PROVE IInv'
  BY <1>7 DEF Push
<1>8. ASSUME NEW i \in Item, DeleteMissing(e, i) PROVE IInv'
  BY <1>8 DEF DeleteMissing
<1>9. QED
  BY <1>1, <1>2, <1>3, <1>4, <1>5, <1>6, <1>7, <1>8

-----------------------------------------------------------------------------
(* The inductive invariant, for one engine on the directory.                *)
LEMMA Inductive == ASSUME OneEngine PROVE Spec => []IInv
<1>1. Init => IInv
  BY DEF Init, IInv, SnapshotCurrent, PhasesDrained, WindowCovers,
         DeletionsCovered, NothingHidden, DeletionsTaken, InFull, Applying,
         Live, Deleted
<1>2. TypeOK /\ IInv /\ [Next]_vars => IInv'
  <2> SUFFICES ASSUME TypeOK, IInv, [Next]_vars PROVE IInv'
    OBVIOUS
  <2>1. CASE Environment
    BY <2>1, EnvironmentKeepsIInv
  <2>2. ASSUME NEW e \in Engine, Launch(e) PROVE IInv'
    BY <2>2, LaunchKeepsIInv
  <2>3. ASSUME NEW e \in Engine, Advance(e) PROVE IInv'
    BY <2>3, LaunchKeepsIInv, StartFullKeepsIInv, FilesKeepIInv,
       LaterPhasesKeepIInv DEF Advance
  <2>4. CASE UNCHANGED vars
    BY <2>4 DEF vars, server, store, pass, history, IInv, SnapshotCurrent,
       PhasesDrained, WindowCovers, DeletionsCovered, NothingHidden,
       DeletionsTaken, InFull, Applying, Live, Deleted
  <2>5. QED
    BY <2>1, <2>2, <2>3, <2>4 DEF Next
<1>3. QED
  BY <1>1, <1>2, TypeCorrect, PTL DEF Spec

(* One engine never hides a version: whatever fails, is skipped, changes    *)
(* during the pass or is cut short by a restart, a live object the cursor   *)
(* has passed was handled at the version it has (advance_cursor).           *)
THEOREM CursorHidesNothing == ASSUME OneEngine PROVE Spec => []NothingHidden
<1>1. IInv => NothingHidden
  BY DEF IInv
<1>2. QED
  BY <1>1, Inductive, PTL

(* One engine never hides a deletion that a fetch with a cursor could       *)
(* report: once the cursor has passed it, no row tracks the object.         *)
THEOREM CursorHidesNoDeletion == ASSUME OneEngine PROVE Spec => []DeletionsTaken
<1>1. IInv => DeletionsTaken
  BY DEF IInv
<1>2. QED
  BY <1>1, Inductive, PTL
-----------------------------------------------------------------------------
(* The refinement: every step of one engine is a step of Delivery or none.  *)

Outside == <<clock, status, stamp, cursor, tracked, applied, dropped, untold>>
(* What a step leaves alone, Delivery does not see.                         *)
LEMMA UnseenByDelivery == UNCHANGED Outside => UNCHANGED Feed!vars
  BY DEF Outside, Feed!vars, Owed, Live, Deleted

(* Two sets that differ in one member at most.                              *)
LEMMA OneMember ==
  ASSUME NEW S, NEW T, NEW i, \A j : j # i => (j \in S <=> j \in T)
  PROVE  T = S \cup {i} \/ T = S \ {i}
  OBVIOUS

(* A change on the server, somebody else's or this client's own.            *)
LEMMA PublishesOne ==
  ASSUME TypeOK, NEW i \in Item,
         \/ RemoteWrite(i) \/ RemoteRename(i) \/ RemoteDelete(i)
         \/ \E e \in Engine : Push(e, i) \/ DeleteMissing(e, i)
  PROVE  Feed!Publish(i)
<1> USE DEF TypeOK, RemoteWrite, RemoteRename, RemoteDelete, Push,
            DeleteMissing, server, store, history
<1>1. clock' = clock + 1 /\ stamp' = [stamp EXCEPT ![i] = clock']
  OBVIOUS
<1>2. UNCHANGED <<cursor, untold>> /\ dropped' \in {dropped, dropped \ {i}}
  OBVIOUS
<1>3. \A j : j # i => (j \in Owed <=> j \in Owed')
  BY DEF Owed, Live, Deleted
<1>4. Owed' = Owed \cup {i} \/ Owed' = Owed \ {i}
  BY <1>3, OneMember
<1>5. \/ (dropped \cup untold)' = dropped \cup untold
      \/ (dropped \cup untold)' = (dropped \cup untold) \ {i}
  BY <1>2
<1>6. QED
  BY <1>1, <1>2, <1>4, <1>5 DEF Feed!Publish

(* Work on one item: what it leaves owed was stamped after the fetch, and   *)
(* the cursor is not past the fetch.                                        *)
LEMMA HandlesOne ==
  ASSUME TypeOK, IInv, NEW i \in Item, NEW e \in Engine,
         \/ DropStaleRow(e, i) \/ SettleWithoutDownload(e, i)
         \/ CollectDownload(e, i) \/ RemoveLocal(e, i)
  PROVE  Feed!Handle(i)
<1> USE DEF TypeOK, DropStaleRow, SettleWithoutDownload, CollectDownload,
            RemoveLocal, RowsAfterRemoval, Handled, server
<1>1. UNCHANGED <<clock, stamp, status, cursor, untold>>
  BY DEF store, history
<1>2. dropped' \in {dropped, dropped \cup {i}, dropped \ {i}}
  BY DEF store, history
<1>3. \A j : j # i => (j \in Owed <=> j \in Owed')
  BY <1>1 DEF Owed, Live, Deleted, store, history
<1>4. Owed' = Owed \cup {i} \/ Owed' = Owed \ {i}
  BY <1>3, OneMember
<1>5. \/ (dropped \cup untold)' = dropped \cup untold
      \/ (dropped \cup untold)' = (dropped \cup untold) \cup {i}
      \/ (dropped \cup untold)' = (dropped \cup untold) \ {i}
  BY <1>1, <1>2
<1>6. i \in Owed' \ (dropped \cup untold)' => stamp[i] > cursor
  <2>1. CASE DropStaleRow(e, i)
    BY <2>1, <1>1
  <2>2. CASE SettleWithoutDownload(e, i) \/ CollectDownload(e, i)
    BY <2>2, <1>1 DEF Owed, Live, Deleted, Applying, InFull, IInv,
       SnapshotCurrent
  <2>3. CASE RemoveLocal(e, i)
    BY <2>3, <1>1 DEF Owed, Live, Deleted, history, IInv, NothingHidden
  <2>4. QED
    BY <2>1, <2>2, <2>3
<1>7. QED
  BY <1>1, <1>4, <1>5, <1>6 DEF Feed!Handle

(* A pass ends: the cursor stays, or moves to a horizon nothing owed is     *)
(* behind.                                                                  *)
LEMMA EndPassAdvances ==
  ASSUME TypeOK, IInv, IInv', NEW e \in Engine, EndPass(e)
  PROVE  Feed!Advance
<1> USE DEF EndPass, server, history
<1>1. UNCHANGED <<clock, stamp, status, tracked, applied, dropped, untold>>
  OBVIOUS
<1>2. Owed' = Owed /\ (dropped \cup untold)' = dropped \cup untold
  BY <1>1 DEF Owed, Live, Deleted
<1>3. cursor' \in cursor .. clock
  BY DEF NextCursor, TypeOK, IInv, SnapshotCurrent, InFull
<1>4. ASSUME NEW i \in Owed \ (dropped \cup untold) PROVE stamp[i] > cursor'
  BY <1>1, <1>3 DEF TypeOK, Owed, Live, Deleted, IInv, NothingHidden,
     DeletionsTaken
<1>5. QED
  BY <1>1, <1>2, <1>3, <1>4 DEF Feed!Advance

(* The steps of an engine that neither fetch nor settle an item.            *)
LEMMA OtherStepsUnseen ==
  ASSUME NEW e \in Engine,
         \/ Restart(e) \/ ClearQuarantine(e) \/ StartRepair(e)
         \/ StartVerify(e) \/ EndFiles(e) \/ EndDeletes(e)
         \/ ReconcileFails(e)
         \/ \E i \in Item : \/ SkipQuarantined(e, i) \/ RefuseItem(e, i)
                           \/ SpawnDownload(e, i) \/ CollectFailure(e, i)
                           \/ RemoveLocalFails(e, i)
  PROVE  UNCHANGED Feed!vars
<1>1. UNCHANGED Outside
  BY DEF Outside, server, store, history, Restart, ClearQuarantine,
     StartRepair, StartVerify, EndFiles, EndDeletes, ReconcileFails,
     SkipQuarantined, RefuseItem, SpawnDownload, CollectFailure,
     RemoveLocalFails
<1>2. QED
  BY <1>1, UnseenByDelivery

(* One engine is a reader that keeps Delivery's promise, through failures,  *)
(* skips, repairs and restarts (full_sync with advance_cursor).             *)
THEOREM Implements == ASSUME OneEngine PROVE Spec => Delivers
<1>1. Init => Feed!Init
  BY DEF Init, Feed!Init, Owed, Live, Deleted
<1>2. TypeOK /\ IInv /\ IInv' /\ [Next]_vars => [Feed!Next]_(Feed!vars)
  <2> SUFFICES ASSUME TypeOK, IInv, IInv', [Next]_vars
               PROVE  Feed!Next \/ UNCHANGED Feed!vars
    OBVIOUS
  <2>1. CASE UNCHANGED vars
    <3>1. UNCHANGED Outside
      BY <2>1 DEF vars, server, store, history, Outside
    <3>2. QED
      BY <3>1, UnseenByDelivery
  <2>2. CASE Environment
    <3>1. PICK i \in Item :
            RemoteWrite(i) \/ RemoteRename(i) \/ RemoteDelete(i) \/ LocalRemove(i)
      BY <2>2 DEF Environment
    <3>2. CASE LocalRemove(i)
      <4>1. UNCHANGED Outside
        BY <3>2 DEF LocalRemove, server, history, Outside
      <4>2. QED
        BY <4>1, UnseenByDelivery
    <3>3. CASE ~LocalRemove(i)
      <4>1. Feed!Publish(i)
        BY <3>1, <3>3, PublishesOne
      <4>2. QED
        BY <4>1 DEF Feed!Next
    <3>4. QED
      BY <3>2, <3>3
  <2>3. ASSUME NEW e \in Engine, Launch(e) \/ Advance(e)
        PROVE  Feed!Next \/ UNCHANGED Feed!vars
    <3>1. CASE ForgetCursor(e)
      <4>1. Feed!Forget
        BY <3>1 DEF ForgetCursor, Feed!Forget, Owed, Live, Deleted, server,
           history
      <4>2. QED
        BY <4>1 DEF Feed!Next
    <3>2. CASE StartFull(e)
      <4>1. Feed!Excuse
        BY <3>2 DEF StartFull, Unmentioned, Feed!Excuse, Owed, Live, Deleted,
           TypeOK, server, store
      <4>2. QED
        BY <4>1 DEF Feed!Next
    <3>3. CASE EndPass(e)
      BY <3>3, EndPassAdvances DEF Feed!Next
    <3>4. ASSUME NEW i \in Item, Push(e, i) \/ DeleteMissing(e, i)
          PROVE  Feed!Next
      BY <3>4, PublishesOne DEF Feed!Next
    <3>5. ASSUME NEW i \in Item,
                 \/ DropStaleRow(e, i) \/ SettleWithoutDownload(e, i)
                 \/ CollectDownload(e, i) \/ RemoveLocal(e, i)
          PROVE  Feed!Next
      BY <3>5, HandlesOne DEF Feed!Next
    <3>6. CASE Restart(e) \/ ClearQuarantine(e) \/ StartRepair(e)
               \/ StartVerify(e) \/ EndFiles(e) \/ EndDeletes(e)
               \/ ReconcileFails(e)
      BY <3>6, OtherStepsUnseen
    <3>7. ASSUME NEW i \in Item,
                 \/ SkipQuarantined(e, i) \/ RefuseItem(e, i)
                 \/ SpawnDownload(e, i) \/ CollectFailure(e, i)
                 \/ RemoveLocalFails(e, i)
          PROVE  UNCHANGED Feed!vars
      BY <3>7, OtherStepsUnseen
    <3>8. QED
      BY <2>3, <3>1, <3>2, <3>3, <3>4, <3>5, <3>6, <3>7 DEF Launch, Advance
  <2>4. QED
    BY <2>1, <2>2, <2>3 DEF Next
<1>3. QED
  BY <1>1, <1>2, TypeCorrect, Inductive, PTL DEF Spec, Delivers, Feed!Spec

(* What the abstract reader's steps keep: nothing it still owes lies behind *)
(* its mark.                                                                *)
LEMMA NothingBehind == Feed!Spec => []Feed!Covered
<1>1. Feed!Init => Feed!TypeOK /\ Feed!Covered
  BY DEF Feed!Init, Feed!TypeOK, Feed!Covered
<1>2. Feed!TypeOK /\ Feed!Covered /\ [Feed!Next]_(Feed!vars)
        => (Feed!TypeOK /\ Feed!Covered)'
  <2> SUFFICES ASSUME Feed!TypeOK, Feed!Covered, [Feed!Next]_(Feed!vars)
               PROVE  (Feed!TypeOK /\ Feed!Covered)'
    OBVIOUS
  <2> USE DEF Feed!TypeOK, Feed!Covered
  <2>1. ASSUME NEW i \in Item, Feed!Publish(i) PROVE (Feed!TypeOK /\ Feed!Covered)'
    BY <2>1 DEF Feed!Publish
  <2>2. ASSUME NEW i \in Item, Feed!Handle(i) PROVE (Feed!TypeOK /\ Feed!Covered)'
    BY <2>2 DEF Feed!Handle
  <2>3. CASE Feed!Excuse
    BY <2>3 DEF Feed!Excuse
  <2>4. CASE Feed!Advance
    BY <2>4 DEF Feed!Advance
  <2>5. CASE Feed!Forget
    BY <2>5 DEF Feed!Forget
  <2>6. CASE UNCHANGED Feed!vars
    BY <2>6 DEF Feed!vars
  <2>7. QED
    BY <2>1, <2>2, <2>3, <2>4, <2>5, <2>6 DEF Feed!Next
<1>3. QED
  BY <1>1, <1>2, PTL DEF Feed!Spec

(* So one engine, which reads from its cursor onwards in every pass, is told *)
(* of every change it has not dealt with, but for the two cases set apart   *)
(* (dropped, untold).                                                       *)
THEOREM EngineOwesNothingBehind == ASSUME OneEngine PROVE Spec => []Feed!Covered
<1>1. Spec => Feed!Spec
  BY Implements DEF Delivers
<1>2. QED
  BY <1>1, NothingBehind, PTL
=============================================================================
