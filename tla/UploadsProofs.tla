---------------------------- MODULE UploadsProofs ----------------------------
(***************************************************************************)
(* Proofs about Uploads, for every value of its constants.                 *)
(***************************************************************************)
EXTENDS Uploads, FiniteSetTheorems, TLAPS

\* The locals of a request keep their types when one of them is assigned.
LEMMA RequestUpdates ==
    ASSUME NEW q \in Request
    PROVE  /\ q.id \in Ids /\ q.sid \in Sids /\ q.off \in Chunks
           /\ \A r \in Recs : [q EXCEPT !.rec = r] \in Request
           /\ \A r \in Recs : [q EXCEPT !.ino = r] \in Request
           /\ \A d \in Slots : [q EXCEPT !.slot = d] \in Request
           /\ \A r \in Recs : [q EXCEPT !.rec = r].rec = r
           /\ \A r \in Recs : [q EXCEPT !.ino = r].ino = r /\ [q EXCEPT !.ino = r].rec = q.rec
           /\ \A d \in Slots : [q EXCEPT !.slot = d].slot = d
                               /\ [q EXCEPT !.slot = d].rec = q.rec
  BY DEF Request

\* A task moves on to l with locals q: only that task has to be looked at.
LEMMA TaskMoves ==
    ASSUME TaskType, NEW p \in Procs, NEW l \in Pcs \ {"idle"}, NEW q \in Request,
           LocalsSet(l, q), Goto(p, l), req' = [req EXCEPT ![p] = q]
    PROVE  TaskType'
<1>1. pc' \in [Procs -> Pcs] /\ req' \in [Procs -> Request \cup {None}]
  BY DEF TaskType, Goto
<1>2. ASSUME NEW x \in Procs
      PROVE  (pc'[x] # "idle" => req'[x] \in Request) /\ LocalsSet(pc'[x], req'[x])
  <2>1. CASE x = p
    BY <2>1 DEF TaskType, Goto
  <2>2. CASE x # p
    BY <2>2 DEF TaskType, Goto
  <2> QED BY <2>1, <2>2
<1>3. QED BY <1>1, <1>2 DEF TaskType, LocalsSet

\* A task moves on to l and assigns no local.
LEMMA TaskSteps ==
    ASSUME TaskType, NEW p \in Procs, NEW l \in Pcs \ {"idle"}, pc[p] # "idle",
           LocalsSet(l, req[p]), Goto(p, l), req' = req
    PROVE  TaskType'
<1>1. req[p] \in Request /\ req' = [req EXCEPT ![p] = req[p]]
  BY DEF TaskType
<1>2. QED BY <1>1, TaskMoves

\* A task ends: its locals and its guards go.
LEMMA TaskReturns ==
    ASSUME TaskType, LockType, NEW p \in Procs, Return(p)
    PROVE  TaskType' /\ LockType'
<1>1. pc' \in [Procs -> Pcs] /\ req' \in [Procs -> Request \cup {None}]
  BY DEF TaskType, Return, Goto, Pcs
<1>2. ASSUME NEW x \in Procs
      PROVE  (pc'[x] # "idle" => req'[x] \in Request) /\ LocalsSet(pc'[x], req'[x])
  <2>1. CASE x = p
    BY <2>1 DEF TaskType, Return, Goto, LocalsSet
  <2>2. CASE x # p
    BY <2>2 DEF TaskType, Return, Goto
  <2> QED BY <2>1, <2>2
<1>3. LockType'
  BY DEF LockType, Return
<1>4. QED BY <1>1, <1>2, <1>3 DEF TaskType, LocalsSet

\* The file operations keep the disk well typed.
LEMMA DiskEffects ==
    ASSUME TableType, DiskType, NEW q \in Request
    PROVE  /\ FsCreate(q) => DiskType' /\ made' \in 0..MaxRecs /\ made' \in Recs
           /\ q.ino \in Recs /\ FsWrite(q) => DiskType'
           /\ q.slot \in Slots /\ FsMove(q) => DiskType'
           /\ FsCopy(q) => DiskType'
           /\ q.slot \in Slots /\ FsPublish(q) => DiskType'
           /\ FsUnlink(q.id) => DiskType'
<1> USE ConstantsAssumption
<1>0. q.id \in Ids /\ q.off \in Chunks
  BY RequestUpdates
<1>1. ASSUME FsCreate(q) PROVE DiskType' /\ made' \in 0..MaxRecs /\ made' \in Recs
  BY <1>0, <1>1 DEF TableType, DiskType, FsCreate, Recs
<1>2. ASSUME q.ino \in Recs, FsWrite(q) PROVE DiskType'
  BY <1>0, <1>2 DEF DiskType, FsWrite
<1>3. ASSUME q.slot \in Slots, FsMove(q) PROVE DiskType'
  <2>1. part[q.id] \in Recs /\ [ino |-> part[q.id], data |-> data[part[q.id]]] \in File
    BY <1>0, <1>3 DEF DiskType, FsMove, File
  <2>2. QED BY <1>0, <1>3, <2>1 DEF DiskType, FsMove
<1>4. ASSUME FsCopy(q) PROVE DiskType'
  <2>1. [ino |-> part[q.id], data |-> data[part[q.id]]] \in File
    BY <1>0, <1>4 DEF DiskType, FsCopy, File
  <2>2. QED BY <1>0, <1>4, <2>1 DEF DiskType, FsCopy
<1>5. ASSUME q.slot \in Slots, FsPublish(q) PROVE DiskType'
  <2>1. temp[q.id] \in File /\ temp[q.id].ino \in Recs
    BY <1>0, <1>5 DEF DiskType, FsPublish, File
  <2>2. QED BY <1>0, <1>5, <2>1 DEF DiskType, FsPublish
<1>6. ASSUME FsUnlink(q.id) PROVE DiskType'
  BY <1>0, <1>6 DEF DiskType, FsUnlink
<1>7. QED BY <1>1, <1>2, <1>3, <1>4, <1>5, <1>6

\* A part of the state that a step leaves alone stays well typed.
LEMMA TypesUnchanged ==
    /\ SessionType /\ UNCHANGED sessionVars => SessionType'
    /\ TableType /\ UNCHANGED tableVars => TableType'
    /\ LockType /\ UNCHANGED lockVars => LockType'
    /\ ResultType /\ UNCHANGED resultVars => ResultType'
    /\ DiskType /\ UNCHANGED diskVars => DiskType'
    /\ EnvType /\ UNCHANGED envVars => EnvType'
    /\ TaskType /\ UNCHANGED <<pc, req>> => TaskType'
  BY DEF SessionType, TableType, LockType, ResultType, DiskType, EnvType, TaskType,
         sessionVars, tableVars, lockVars, resultVars, diskVars, envVars

\* Every variable keeps its type, every index stays in range and every task and
\* abandoned file operation has the locals its next step reads.
THEOREM TypeCorrect == Spec => []TypeOK
<1>1. Init => TypeOK
  <2> SUFFICES ASSUME Init PROVE TypeOK
    OBVIOUS
  <2> USE DEF Init
  <2>1. 1 \in Sids /\ 0 \in 0..Size /\ 0 \in 0..MaxRecs /\ 0 \in 0..MaxDrops
    BY ConstantsAssumption DEF Sids
  <2>2. NotEnding \in [pc : {"idle", "close", "collect", "unlink", "session"}, sid : Sids,
                       todo : SUBSET Ids]
    BY <2>1 DEF NotEnding
  <2>3. SessionType
    <3>1. ender \in [Enders -> [pc : {"idle", "close", "collect", "unlink", "session"},
                               sid : Sids, todo : SUBSET Ids]]
      BY <2>2
    <3>2. QED BY <2>1, <3>1 DEF SessionType
  <2>4. TableType /\ LockType /\ ResultType
    BY <2>1 DEF TableType, LockType, ResultType
  <2>5. DiskType /\ EnvType
    BY <2>1 DEF DiskType, EnvType
  <2>6. TaskType
    BY DEF TaskType, LocalsSet, Pcs
  <2>7. QED BY <2>3, <2>4, <2>5, <2>6 DEF TypeOK
<1>2. TypeOK /\ [Next]_vars => TypeOK'
  <2> SUFFICES ASSUME TypeOK, [Next]_vars PROVE TypeOK'
    OBVIOUS
  <2>1. ASSUME NEW p \in Procs, CreateUploadLookup(p) PROVE TypeOK'
    <3>1. TaskType'
      BY <2>1, TaskSteps DEF CreateUploadLookup, TypeOK, TaskType, LocalsSet, Pcs,
         AwaitPcs, LatePcs
    <3>2. QED BY <2>1, <3>1, TypesUnchanged DEF CreateUploadLookup, TypeOK,
       sessionVars, tableVars, lockVars, resultVars, diskVars, envVars
  <2>2. ASSUME NEW p \in Procs, CreateUploadOpen(p) PROVE TypeOK'
    <3>1. req[p] \in Request
      BY <2>2 DEF CreateUploadOpen, TypeOK, TaskType
    <3>2. DiskType' /\ made' \in 0..MaxRecs /\ made + 1 \in Recs
      BY <2>2, <3>1, DiskEffects DEF CreateUploadOpen, TypeOK, FsCreate
    <3>3. TableType'
      BY <2>2, <3>1, <3>2, RequestUpdates DEF CreateUploadOpen, TypeOK, TableType
    <3>4. req' = [req EXCEPT ![p] = [req[p] EXCEPT !.rec = made + 1]]
      BY <2>2 DEF CreateUploadOpen, TypeOK, TaskType
    <3>5. LocalsSet("insert", [req[p] EXCEPT !.rec = made + 1])
      BY <2>2, <3>1, <3>2, RequestUpdates DEF LocalsSet
    <3>6. TaskType'
      BY <2>2, <3>1, <3>2, <3>4, <3>5, TaskMoves, RequestUpdates DEF
         CreateUploadOpen, TypeOK, Pcs
    <3>7. QED BY <2>2, <3>2, <3>3, <3>6, TypesUnchanged DEF CreateUploadOpen,
       TypeOK, sessionVars, tableVars, lockVars, resultVars, diskVars, envVars
  <2>3. ASSUME NEW p \in Procs, CreateUploadInsert(p) PROVE TypeOK'
    <3>1. req[p] \in Request
      BY <2>3 DEF CreateUploadInsert, TypeOK, TaskType
    <3>2. req[p].id \in Ids
      BY <3>1, RequestUpdates
    <3>3. TableType'
      BY <2>3, <3>1, <3>2 DEF CreateUploadInsert, TypeOK, TableType, TaskType,
         LocalsSet
    <3>4. TaskType' /\ LockType'
      BY <2>3, TaskReturns DEF CreateUploadInsert, TypeOK
    <3>5. QED BY <2>3, <3>3, <3>4, TypesUnchanged DEF CreateUploadInsert, TypeOK,
       sessionVars, tableVars, lockVars, resultVars, diskVars, envVars
  <2>4. ASSUME NEW p \in Procs, CreateUploadAnswer(p) PROVE TypeOK'
    <3>1. TaskType' /\ LockType'
      BY <2>4, TaskReturns DEF CreateUploadAnswer, TypeOK
    <3>2. QED BY <2>4, <3>1, TypesUnchanged DEF CreateUploadAnswer, TypeOK,
       sessionVars, tableVars, lockVars, resultVars, diskVars, envVars
  <2>5. ASSUME NEW p \in Procs, WriteUploadChunkFind(p) PROVE TypeOK'
    <3>1. req[p] \in Request
      BY <2>5 DEF WriteUploadChunkFind, TypeOK, TaskType
    <3>2. uploads[req[p].id] \in Recs
      BY <2>5, <3>1, RequestUpdates DEF WriteUploadChunkFind, TypeOK, TableType,
         UploadRecord
    <3>3. req' = [req EXCEPT ![p] = [req[p] EXCEPT !.rec = uploads[req[p].id]]]
      BY <2>5 DEF WriteUploadChunkFind, TypeOK, TaskType
    <3>4. LocalsSet("lock", [req[p] EXCEPT !.rec = uploads[req[p].id]])
      BY <2>5, <3>1, <3>2, RequestUpdates DEF WriteUploadChunkFind, TypeOK,
         TaskType, LocalsSet
    <3>5. TaskType'
      BY <2>5, <3>1, <3>2, <3>3, <3>4, TaskMoves, RequestUpdates DEF
         WriteUploadChunkFind, TypeOK, Pcs, AwaitPcs, LatePcs
    <3>6. QED BY <2>5, <3>5, TypesUnchanged DEF WriteUploadChunkFind, TypeOK,
       sessionVars, tableVars, lockVars, resultVars, diskVars, envVars
  <2>6. ASSUME NEW p \in Procs, WriteUploadChunkLock(p) PROVE TypeOK'
    <3>1. req[p] \in Request
      BY <2>6 DEF WriteUploadChunkLock, TypeOK, TaskType
    <3>2. LockType'
      BY <2>6, <3>1 DEF WriteUploadChunkLock, TypeOK, LockType, TaskType, LocalsSet
    <3>3. TaskType'
      BY <2>6, TaskSteps DEF WriteUploadChunkLock, TypeOK, TaskType, LocalsSet, Pcs,
         AwaitPcs, LatePcs
    <3>4. QED BY <2>6, <3>2, <3>3, TypesUnchanged DEF WriteUploadChunkLock, TypeOK,
       sessionVars, tableVars, lockVars, resultVars, diskVars, envVars
  <2>7. ASSUME NEW p \in Procs, WriteUploadChunkOpen(p) PROVE TypeOK'
    <3>1. req[p] \in Request
      BY <2>7 DEF WriteUploadChunkOpen, TypeOK, TaskType
    <3>2. part[req[p].id] \in Recs
      BY <2>7, <3>1, RequestUpdates DEF WriteUploadChunkOpen, TypeOK, DiskType
    <3>3. req' = [req EXCEPT ![p] = [req[p] EXCEPT !.ino = part[req[p].id]]]
      BY <2>7 DEF WriteUploadChunkOpen, TypeOK, TaskType
    <3>4. LocalsSet("write", [req[p] EXCEPT !.ino = part[req[p].id]])
      BY <2>7, <3>1, <3>2, RequestUpdates DEF WriteUploadChunkOpen, TypeOK,
         TaskType, LocalsSet
    <3>5. TaskType'
      BY <2>7, <3>1, <3>2, <3>3, <3>4, TaskMoves, RequestUpdates DEF
         WriteUploadChunkOpen, TypeOK, Pcs, AwaitPcs, LatePcs
    <3>6. QED BY <2>7, <3>5, TypesUnchanged DEF WriteUploadChunkOpen, TypeOK,
       sessionVars, tableVars, lockVars, resultVars, diskVars, envVars
  <2>8. ASSUME NEW p \in Procs, WriteUploadChunkWrite(p) PROVE TypeOK'
    <3>1. req[p] \in Request
      BY <2>8 DEF WriteUploadChunkWrite, TypeOK, TaskType
    <3>2. DiskType'
      BY <2>8, <3>1, DiskEffects DEF WriteUploadChunkWrite, TypeOK, TaskType,
         LocalsSet
    <3>3. TaskType'
      BY <2>8, TaskSteps DEF WriteUploadChunkWrite, TypeOK, TaskType, LocalsSet,
         Pcs, AwaitPcs, LatePcs
    <3>4. QED BY <2>8, <3>2, <3>3, TypesUnchanged DEF WriteUploadChunkWrite, TypeOK,
       sessionVars, tableVars, lockVars, resultVars, diskVars, envVars
  <2>9. ASSUME NEW p \in Procs, WriteUploadChunkCommit(p) PROVE TypeOK'
    <3>1. req[p] \in Request
      BY <2>9 DEF WriteUploadChunkCommit, TypeOK, TaskType
    <3>2. TableType'
      BY <2>9, <3>1, RequestUpdates, ConstantsAssumption DEF WriteUploadChunkCommit,
         TypeOK, TableType, TaskType, LocalsSet, Chunks
    <3>3. LockType'
      BY <2>9, <3>1 DEF WriteUploadChunkCommit, TypeOK, LockType, TaskType,
         LocalsSet
    <3>4. TaskType'
      BY <2>9, TaskSteps DEF WriteUploadChunkCommit, TypeOK, TaskType, LocalsSet,
         Pcs, AwaitPcs, LatePcs
    <3>5. QED BY <2>9, <3>2, <3>3, <3>4, TypesUnchanged DEF WriteUploadChunkCommit,
       TypeOK, sessionVars, tableVars, lockVars, resultVars, diskVars, envVars
  <2>10. ASSUME NEW p \in Procs, WriteUploadChunkAnswer(p) PROVE TypeOK'
    <3>1. TaskType' /\ LockType'
      BY <2>10, TaskReturns DEF WriteUploadChunkAnswer, TypeOK
    <3>2. QED BY <2>10, <3>1, TypesUnchanged DEF WriteUploadChunkAnswer, TypeOK,
       sessionVars, tableVars, lockVars, resultVars, diskVars, envVars
  <2>11. ASSUME NEW p \in Procs, CompleteUploadFinalize(p) PROVE TypeOK'
    <3>1. LockType'
      BY <2>11 DEF CompleteUploadFinalize, TypeOK, LockType
    <3>2. TaskType'
      BY <2>11, TaskSteps DEF CompleteUploadFinalize, TypeOK, TaskType, LocalsSet,
         Pcs, AwaitPcs, LatePcs
    <3>3. QED BY <2>11, <3>1, <3>2, TypesUnchanged DEF CompleteUploadFinalize,
       TypeOK, sessionVars, tableVars, lockVars, resultVars, diskVars, envVars
  <2>12. ASSUME NEW p \in Procs, CompleteUploadFind(p) PROVE TypeOK'
    <3>1. req[p] \in Request
      BY <2>12 DEF CompleteUploadFind, TypeOK, TaskType
    <3>2. uploads[req[p].id] \in Recs
      BY <2>12, <3>1, RequestUpdates DEF CompleteUploadFind, TypeOK, TableType,
         UploadRecord
    <3>3. req' = [req EXCEPT ![p] = [req[p] EXCEPT !.rec = uploads[req[p].id]]]
      BY <2>12 DEF CompleteUploadFind, TypeOK, TaskType
    <3>4. LocalsSet("check", [req[p] EXCEPT !.rec = uploads[req[p].id]])
      BY <2>12, <3>1, <3>2, RequestUpdates DEF CompleteUploadFind, TypeOK, TaskType,
         LocalsSet
    <3>5. TaskType'
      BY <2>12, <3>1, <3>2, <3>3, <3>4, TaskMoves, RequestUpdates DEF
         CompleteUploadFind, TypeOK, Pcs, AwaitPcs, LatePcs
    <3>6. QED BY <2>12, <3>5, TypesUnchanged DEF CompleteUploadFind, TypeOK,
       sessionVars, tableVars, lockVars, resultVars, diskVars, envVars
  <2>13. ASSUME NEW p \in Procs, CompleteUploadCheck(p) PROVE TypeOK'
    <3>1. TaskType'
      BY <2>13, TaskSteps DEF CompleteUploadCheck, TypeOK, TaskType, LocalsSet, Pcs,
         AwaitPcs, LatePcs
    <3>2. QED BY <2>13, <3>1, TypesUnchanged DEF CompleteUploadCheck, TypeOK,
       sessionVars, tableVars, lockVars, resultVars, diskVars, envVars
  <2>14. ASSUME NEW p \in Procs, CompleteUploadHash(p) PROVE TypeOK'
    <3>1. req[p] \in Request
      BY <2>14 DEF CompleteUploadHash, TypeOK, TaskType
    <3>2. PICK d \in Slots : req' = [req EXCEPT ![p].slot = d]
      BY <2>14 DEF CompleteUploadHash
    <3>3. req' = [req EXCEPT ![p] = [req[p] EXCEPT !.slot = d]]
      BY <3>2 DEF TypeOK, TaskType
    <3>4. \A l \in {"copy", "move"} : LocalsSet(l, [req[p] EXCEPT !.slot = d])
      BY <2>14, <3>1, RequestUpdates DEF CompleteUploadHash, TypeOK, TaskType,
         LocalsSet
    <3>5. TaskType'
      BY <2>14, <3>1, <3>3, <3>4, TaskMoves, RequestUpdates DEF CompleteUploadHash,
         TypeOK, Pcs, AwaitPcs, LatePcs
    <3>6. QED BY <2>14, <3>5, TypesUnchanged DEF CompleteUploadHash, TypeOK,
       sessionVars, tableVars, lockVars, resultVars, diskVars, envVars
  <2>15. ASSUME NEW p \in Procs, MoveCompletedFile(p) PROVE TypeOK'
    <3>1. req[p] \in Request
      BY <2>15 DEF MoveCompletedFile, TypeOK, TaskType
    <3>2. DiskType'
      BY <2>15, <3>1, DiskEffects DEF MoveCompletedFile, TypeOK, TaskType, LocalsSet
    <3>3. TaskType'
      BY <2>15, TaskSteps DEF MoveCompletedFile, TypeOK, TaskType, LocalsSet, Pcs,
         AwaitPcs, LatePcs
    <3>4. QED BY <2>15, <3>2, <3>3, TypesUnchanged DEF MoveCompletedFile, TypeOK,
       sessionVars, tableVars, lockVars, resultVars, diskVars, envVars
  <2>16. ASSUME NEW p \in Procs, MoveCompletedCopy(p) PROVE TypeOK'
    <3>1. req[p] \in Request
      BY <2>16 DEF MoveCompletedCopy, TypeOK, TaskType
    <3>2. DiskType'
      BY <2>16, <3>1, DiskEffects DEF MoveCompletedCopy, TypeOK, TaskType, LocalsSet
    <3>3. TaskType'
      BY <2>16, TaskSteps DEF MoveCompletedCopy, TypeOK, TaskType, LocalsSet, Pcs,
         AwaitPcs, LatePcs
    <3>4. QED BY <2>16, <3>2, <3>3, TypesUnchanged DEF MoveCompletedCopy, TypeOK,
       sessionVars, tableVars, lockVars, resultVars, diskVars, envVars
  <2>17. ASSUME NEW p \in Procs, MoveCompletedShort(p) PROVE TypeOK'
    <3>1. req[p] \in Request
      BY <2>17 DEF MoveCompletedShort, TypeOK, TaskType
    <3>2. DiskType'
      BY <2>17, <3>1, RequestUpdates DEF MoveCompletedShort, TypeOK, DiskType
    <3>3. TaskType' /\ LockType'
      BY <2>17, TaskReturns DEF MoveCompletedShort, TypeOK
    <3>4. QED BY <2>17, <3>2, <3>3, TypesUnchanged DEF MoveCompletedShort, TypeOK,
       sessionVars, tableVars, lockVars, resultVars, diskVars, envVars
  <2>18. ASSUME NEW p \in Procs, MoveCompletedPublish(p) PROVE TypeOK'
    <3>1. req[p] \in Request
      BY <2>18 DEF MoveCompletedPublish, TypeOK, TaskType
    <3>2. DiskType'
      BY <2>18, <3>1, DiskEffects DEF MoveCompletedPublish, TypeOK, TaskType,
         LocalsSet
    <3>3. TaskType'
      BY <2>18, TaskSteps DEF MoveCompletedPublish, TypeOK, TaskType, LocalsSet,
         Pcs, AwaitPcs, LatePcs
    <3>4. QED BY <2>18, <3>2, <3>3, TypesUnchanged DEF MoveCompletedPublish, TypeOK,
       sessionVars, tableVars, lockVars, resultVars, diskVars, envVars
  <2>19. ASSUME NEW p \in Procs, MoveCompletedRemoveSource(p) PROVE TypeOK'
    <3>1. req[p] \in Request
      BY <2>19 DEF MoveCompletedRemoveSource, TypeOK, TaskType
    <3>2. DiskType'
      BY <2>19, <3>1, DiskEffects DEF MoveCompletedRemoveSource, TypeOK, TaskType,
         LocalsSet
    <3>3. TaskType'
      BY <2>19, TaskSteps DEF MoveCompletedRemoveSource, TypeOK, TaskType,
         LocalsSet, Pcs, AwaitPcs, LatePcs
    <3>4. QED BY <2>19, <3>2, <3>3, TypesUnchanged DEF MoveCompletedRemoveSource,
       TypeOK, sessionVars, tableVars, lockVars, resultVars, diskVars, envVars
  <2>20. ASSUME NEW p \in Procs, CompleteUploadRecord(p) PROVE TypeOK'
    <3>1. req[p] \in Request
      BY <2>20 DEF CompleteUploadRecord, TypeOK, TaskType
    <3>2. req[p].id \in Ids
      BY <3>1, RequestUpdates
    <3>3. TableType'
      BY <2>20, <3>2 DEF CompleteUploadRecord, TypeOK, TableType
    <3>4. [id |-> req[p].id, sid |-> req[p].sid, slot |-> req[p].slot, at |->
       uploads_completed] \in Ticket
      BY <2>20, <3>1, RequestUpdates DEF CompleteUploadRecord, TypeOK, TaskType,
         LocalsSet, ResultType, Ticket
    <3>5. ResultType'
      BY <2>20, <3>4 DEF CompleteUploadRecord, TypeOK, ResultType, PushTicket
    <3>6. TaskType' /\ LockType'
      BY <2>20, TaskReturns DEF CompleteUploadRecord, TypeOK
    <3>7. QED BY <2>20, <3>3, <3>5, <3>6, TypesUnchanged DEF CompleteUploadRecord,
       TypeOK, sessionVars, tableVars, lockVars, resultVars, diskVars, envVars
  <2>21. ASSUME NEW p \in Procs, CompleteUploadAnswer(p) PROVE TypeOK'
    <3>1. TaskType' /\ LockType'
      BY <2>21, TaskReturns DEF CompleteUploadAnswer, TypeOK
    <3>2. QED BY <2>21, <3>1, TypesUnchanged DEF CompleteUploadAnswer, TypeOK,
       sessionVars, tableVars, lockVars, resultVars, diskVars, envVars
  <2>22. ASSUME NEW p \in Procs, CancelUploadFind(p) PROVE TypeOK'
    <3>1. req[p] \in Request
      BY <2>22 DEF CancelUploadFind, TypeOK, TaskType
    <3>2. uploads[req[p].id] \in Recs
      BY <2>22, <3>1, RequestUpdates DEF CancelUploadFind, TypeOK, TableType,
         UploadRecord
    <3>3. req' = [req EXCEPT ![p] = [req[p] EXCEPT !.rec = uploads[req[p].id]]]
      BY <2>22 DEF CancelUploadFind, TypeOK, TaskType
    <3>4. LocalsSet("cremove", [req[p] EXCEPT !.rec = uploads[req[p].id]])
      BY <2>22, <3>1, <3>2, RequestUpdates DEF CancelUploadFind, TypeOK, TaskType,
         LocalsSet
    <3>5. TaskType'
      BY <2>22, <3>1, <3>2, <3>3, <3>4, TaskMoves, RequestUpdates DEF
         CancelUploadFind, TypeOK, Pcs, AwaitPcs, LatePcs
    <3>6. QED BY <2>22, <3>5, TypesUnchanged DEF CancelUploadFind, TypeOK,
       sessionVars, tableVars, lockVars, resultVars, diskVars, envVars
  <2>23. ASSUME NEW p \in Procs, CancelUploadRemove(p) PROVE TypeOK'
    <3>1. req[p] \in Request
      BY <2>23 DEF CancelUploadRemove, TypeOK, TaskType
    <3>2. req[p].id \in Ids
      BY <3>1, RequestUpdates
    <3>3. TableType'
      BY <2>23, <3>2 DEF CancelUploadRemove, TypeOK, TableType
    <3>4. TaskType'
      BY <2>23, TaskSteps DEF CancelUploadRemove, TypeOK, TaskType, LocalsSet, Pcs,
         AwaitPcs, LatePcs
    <3>5. QED BY <2>23, <3>3, <3>4, TypesUnchanged DEF CancelUploadRemove, TypeOK,
       sessionVars, tableVars, lockVars, resultVars, diskVars, envVars
  <2>24. ASSUME NEW p \in Procs, CancelUploadLock(p) PROVE TypeOK'
    <3>1. req[p] \in Request
      BY <2>24 DEF CancelUploadLock, TypeOK, TaskType
    <3>2. LockType'
      BY <2>24, <3>1 DEF CancelUploadLock, TypeOK, LockType, TaskType, LocalsSet
    <3>3. TaskType'
      BY <2>24, TaskSteps DEF CancelUploadLock, TypeOK, TaskType, LocalsSet, Pcs,
         AwaitPcs, LatePcs
    <3>4. QED BY <2>24, <3>2, <3>3, TypesUnchanged DEF CancelUploadLock, TypeOK,
       sessionVars, tableVars, lockVars, resultVars, diskVars, envVars
  <2>25. ASSUME NEW p \in Procs, CancelUploadUnlink(p) PROVE TypeOK'
    <3>1. req[p] \in Request
      BY <2>25 DEF CancelUploadUnlink, TypeOK, TaskType
    <3>2. DiskType'
      BY <2>25, <3>1, DiskEffects DEF CancelUploadUnlink, TypeOK, TaskType,
         LocalsSet
    <3>3. EnvType'
      BY <2>25, <3>1 DEF CancelUploadUnlink, TypeOK, EnvType, TaskType, LocalsSet, envVars
    <3>4. TaskType' /\ LockType'
      BY <2>25, TaskReturns DEF CancelUploadUnlink, TypeOK
    <3>5. QED BY <2>25, <3>2, <3>3, <3>4, TypesUnchanged DEF CancelUploadUnlink,
       TypeOK, sessionVars, tableVars, lockVars, resultVars, diskVars, envVars
  <2>26. ASSUME NEW p \in Procs, CancelUploadAnswer(p) PROVE TypeOK'
    <3>1. TaskType' /\ LockType'
      BY <2>26, TaskReturns DEF CancelUploadAnswer, TypeOK
    <3>2. QED BY <2>26, <3>1, TypesUnchanged DEF CancelUploadAnswer, TypeOK,
       sessionVars, tableVars, lockVars, resultVars, diskVars, envVars
  <2>27. ASSUME NEW p \in Procs, Drop(p) PROVE TypeOK'
    <3>1. req[p] \in Request
      BY <2>27 DEF Drop, TypeOK, TaskType, AwaitPcs, LatePcs
    <3>2. LocalsSet(pc[p], req[p])
      BY DEF TypeOK, TaskType
    <3>3. late' \subseteq [pc : LatePcs, q : Request] /\ drops' \in 0..MaxDrops
      BY <2>27, <3>1, ConstantsAssumption DEF Drop, TypeOK, EnvType
    <3>4. \A o \in late' : LocalsSet(o.pc, o.q)
      BY <2>27, <3>1, <3>2 DEF Drop, TypeOK, EnvType
    <3>5. EnvType'
      BY <2>27, <3>3, <3>4 DEF Drop, TypeOK, EnvType, LocalsSet
    <3>6. TaskType' /\ LockType'
      BY <2>27, TaskReturns DEF Drop, TypeOK
    <3>7. QED BY <2>27, <3>5, <3>6, TypesUnchanged DEF Drop, TypeOK, sessionVars,
       tableVars, lockVars, resultVars, diskVars, envVars
  <2>28. ASSUME NEW p \in Procs, NEW op \in DOMAIN Entry, NEW id \in Ids, NEW off
     \in Chunks, Arrive(p, op, id, off) PROVE TypeOK'
    <3>1. EnvType'
      BY <2>28 DEF Arrive, TypeOK, EnvType
    <3>2. [id |-> id, sid |-> sid, off |-> off, rec |-> None, ino |-> None, slot |->
       None] \in Request
      BY <2>28 DEF TypeOK, SessionType, Request
    <3>3. \A q : LocalsSet(Entry[op], q)
      BY DEF Entry, LocalsSet
    <3>4. Entry[op] \in Pcs \ {"idle"}
      BY DEF Entry, Pcs, AwaitPcs, LatePcs
    <3>5. TaskType'
      BY <2>28, <3>2, <3>3, <3>4, TaskMoves DEF Arrive, TypeOK
    <3>6. QED BY <2>28, <3>1, <3>5, TypesUnchanged DEF Arrive, TypeOK, sessionVars,
       tableVars, lockVars, resultVars, diskVars, envVars
  <2>29. ASSUME Pair PROVE TypeOK'
    <3>1. SessionType'
      BY <2>29 DEF Pair, TypeOK, SessionType
    <3>2. QED BY <2>29, <3>1, TypesUnchanged DEF Pair, TypeOK, sessionVars,
       tableVars, lockVars, resultVars, diskVars, envVars
  <2>30. ASSUME NEW e \in Enders, StartEnd(e) PROVE TypeOK'
    <3>1. SessionType'
      BY <2>30, ConstantsAssumption DEF StartEnd, TypeOK, SessionType, NotEnding,
         Sids, Enders
    <3>2. QED BY <2>30, <3>1, TypesUnchanged DEF StartEnd, TypeOK, sessionVars,
       tableVars, lockVars, resultVars, diskVars, envVars
  <2>31. ASSUME NEW e \in Enders, DisconnectPeerClosed(e) PROVE TypeOK'
    <3>1. SessionType'
      BY <2>31, ConstantsAssumption DEF DisconnectPeerClosed, TypeOK, SessionType,
         NotEnding, Sids, Enders
    <3>2. QED BY <2>31, <3>1, TypesUnchanged DEF DisconnectPeerClosed, TypeOK,
       sessionVars, tableVars, lockVars, resultVars, diskVars, envVars
  <2>32. ASSUME NEW e \in Enders, CancelSessionCollect(e) PROVE TypeOK'
    <3>1. SessionType'
      BY <2>32, ConstantsAssumption DEF CancelSessionCollect, TypeOK, SessionType,
         NotEnding, Sids, Enders
    <3>2. TableType'
      BY <2>32 DEF CancelSessionCollect, TypeOK, TableType
    <3>3. QED BY <2>32, <3>1, <3>2, TypesUnchanged DEF CancelSessionCollect, TypeOK,
       sessionVars, tableVars, lockVars, resultVars, diskVars, envVars
  <2>33. ASSUME NEW e \in Enders, NEW id \in Ids, CancelSessionUnlink(e, id) PROVE
     TypeOK'
    <3>1. SessionType'
      BY <2>33, ConstantsAssumption DEF CancelSessionUnlink, TypeOK, SessionType,
         NotEnding, Sids, Enders
    <3>2. DiskType'
      BY <2>33 DEF CancelSessionUnlink, TypeOK, DiskType, FsUnlink
    <3>3. QED BY <2>33, <3>1, <3>2, TypesUnchanged DEF CancelSessionUnlink, TypeOK,
       sessionVars, tableVars, lockVars, resultVars, diskVars, envVars
  <2>34. ASSUME NEW e \in Enders, CancelSessionTickets(e) PROVE TypeOK'
    <3>1. SessionType'
      BY <2>34, ConstantsAssumption DEF CancelSessionTickets, TypeOK, SessionType,
         NotEnding, Sids, Enders
    <3>2. ResultType'
      BY <2>34 DEF CancelSessionTickets, TypeOK, ResultType
    <3>3. QED BY <2>34, <3>1, <3>2, TypesUnchanged DEF CancelSessionTickets, TypeOK,
       sessionVars, tableVars, lockVars, resultVars, diskVars, envVars
  <2>35. ASSUME NEW e \in Enders, EndSession(e) PROVE TypeOK'
    <3>1. sid' \in Sids
      BY <2>35, ConstantsAssumption DEF EndSession, TypeOK, SessionType, Sids
    <3>2. NotEnding \in [pc : {"idle", "close", "collect", "unlink", "session"}, sid
       : Sids, todo : SUBSET Ids]
      BY ConstantsAssumption DEF NotEnding, Sids
    <3>3. SessionType'
      BY <2>35, <3>1, <3>2 DEF EndSession, TypeOK, SessionType
    <3>4. QED BY <2>35, <3>3, TypesUnchanged DEF EndSession, TypeOK, sessionVars,
       tableVars, lockVars, resultVars, diskVars, envVars
  <2>36. ASSUME NEW o \in late, Late(o) PROVE TypeOK'
    <3>1. o.q \in Request /\ o.pc \in LatePcs /\ LocalsSet(o.pc, o.q)
      BY DEF TypeOK, EnvType
    <3>2. EnvType'
      BY <2>36 DEF Late, TypeOK, EnvType, LocalsSet
    <3>3. DiskType' /\ made' \in 0..MaxRecs
      BY <2>36, <3>1, DiskEffects, TypesUnchanged DEF Late, TypeOK, TableType,
         LocalsSet, LatePcs
    <3>4. TableType'
      BY <2>36, <3>3 DEF Late, TypeOK, TableType
    <3>5. QED BY <2>36, <3>2, <3>3, <3>4, TypesUnchanged DEF Late, TypeOK,
       sessionVars, tableVars, lockVars, resultVars, diskVars, envVars
  <2>37. CASE UNCHANGED vars
    BY <2>37, TypesUnchanged DEF TypeOK, vars
  <2>38. QED
    BY <2>1, <2>2, <2>3, <2>4, <2>5, <2>6, <2>7, <2>8, <2>9, <2>10, <2>11, <2>12,
       <2>13, <2>14, <2>15, <2>16, <2>17, <2>18, <2>19, <2>20, <2>21, <2>22, <2>23,
       <2>24, <2>25, <2>26, <2>27, <2>28, <2>29, <2>30, <2>31, <2>32, <2>33, <2>34,
       <2>35, <2>36, <2>37 DEF Next, Handler, CreateUpload, WriteUploadChunk,
       CompleteUpload, CancelUpload, SessionEnd
<1>3. QED BY <1>1, <1>2, PTL DEF Spec

-----------------------------------------------------------------------------
(* While no client goes away (MaxDrops = 0) finalize_lock makes looking for  *)
(* a free Inbox path and renaming to it one step for everybody else.        *)

FinalizeInv == late = {} /\ DestinationReserved

\* A task other than the finalizing ones moves, or a finalizing one returns:
\* nothing changes for the others.
LEMMA FinalizeKept ==
    ASSUME TypeOK, FinalizeInv, NEW p \in Procs, NEW l \in Pcs \ FinalizePcs,
           Goto(p, l), late' = late, inbox' = inbox,
           fin' = fin \/ fin' = IF fin = p THEN None ELSE fin,
           \A x \in Procs \ {p} : req'[x] = req[x]
    PROVE  FinalizeInv'
<1>1. ASSUME NEW x \in Procs
      PROVE  /\ pc'[x] \in FinalizePcs => fin' = x
             /\ pc'[x] \in {"move", "copy", "publish"} => inbox'[req'[x].slot] = None
  <2>1. CASE x = p
    BY <2>1 DEF TypeOK, TaskType, Goto, FinalizePcs
  <2>2. CASE x # p
    BY <2>2 DEF TypeOK, TaskType, Goto, FinalizeInv, DestinationReserved
  <2>3. QED BY <2>1, <2>2
<1>2. QED BY <1>1 DEF FinalizeInv, DestinationReserved

\* The finalizing task moves on: everybody else is outside.
LEMMA FinalizeAlone ==
    ASSUME TypeOK, FinalizeInv, NEW p \in Procs, NEW l \in FinalizePcs, fin' = p,
           pc[p] \in FinalizePcs \/ fin = None,
           Goto(p, l), late' = late,
           l \in {"move", "copy", "publish"} => inbox'[req'[p].slot] = None
    PROVE  FinalizeInv'
<1>1. ASSUME NEW x \in Procs \ {p} PROVE pc'[x] \notin FinalizePcs
  BY ConstantsAssumption DEF TypeOK, TaskType, Goto, FinalizeInv, DestinationReserved
<1>2. QED BY <1>1 DEF TypeOK, TaskType, Goto, FinalizeInv, DestinationReserved, FinalizePcs

\* The inductive step.
LEMMA FinalizeStep ==
    ASSUME MaxDrops = 0, TypeOK, FinalizeInv, [Next]_vars
    PROVE  /\ FinalizeInv'
           /\ \A d \in Slots : inbox[d] # None => inbox'[d] = inbox[d]
<1> USE DEF sessionVars, tableVars, lockVars, resultVars, diskVars, envVars
<1> DEFINE Kept == \A d \in Slots : inbox[d] # None => inbox'[d] = inbox[d]
<1>1. ASSUME NEW p \in Procs, CreateUpload(p) PROVE FinalizeInv' /\ Kept
  <2>1. inbox' = inbox /\ late' = late
    BY <1>1 DEF CreateUpload, CreateUploadLookup, CreateUploadOpen, FsCreate,
       CreateUploadInsert, CreateUploadAnswer
  <2>2. PICK l \in {"open", "insert", "idle"} : Goto(p, l)
    BY <1>1 DEF CreateUpload, CreateUploadLookup, CreateUploadOpen,
       CreateUploadInsert, CreateUploadAnswer, Return
  <2>3. fin' = fin \/ fin' = IF fin = p THEN None ELSE fin
    BY <1>1 DEF CreateUpload, CreateUploadLookup, CreateUploadOpen,
       CreateUploadInsert, CreateUploadAnswer, Return
  <2>4. \A x \in Procs \ {p} : req'[x] = req[x]
    BY <1>1 DEF CreateUpload, CreateUploadLookup, CreateUploadOpen,
       CreateUploadInsert, CreateUploadAnswer, Return, TypeOK, TaskType
  <2>5. l \in Pcs \ FinalizePcs
    BY <2>2 DEF Pcs, AwaitPcs, LatePcs, FinalizePcs
  <2>6. QED BY <2>1, <2>2, <2>3, <2>4, <2>5, FinalizeKept
<1>2. ASSUME NEW p \in Procs, WriteUploadChunk(p) PROVE FinalizeInv' /\ Kept
  <2> USE DEF WriteUploadChunk, WriteUploadChunkFind, WriteUploadChunkLock,
       WriteUploadChunkOpen, WriteUploadChunkWrite, WriteUploadChunkCommit,
       WriteUploadChunkAnswer, FsWrite
  <2>1. inbox' = inbox /\ late' = late
    BY <1>2
  <2>2. PICK l \in {"lock", "wopen", "write", "commit", "pace", "idle"} : Goto(p, l)
    BY <1>2 DEF Return
  <2>3. fin' = fin \/ fin' = IF fin = p THEN None ELSE fin
    BY <1>2 DEF Return
  <2>4. \A x \in Procs \ {p} : req'[x] = req[x]
    BY <1>2 DEF Return, TypeOK, TaskType
  <2>5. l \in Pcs \ FinalizePcs
    BY <2>2 DEF Pcs, AwaitPcs, LatePcs, FinalizePcs
  <2>6. QED BY <2>1, <2>2, <2>3, <2>4, <2>5, FinalizeKept
<1>3. ASSUME NEW p \in Procs, CancelUpload(p) PROVE FinalizeInv' /\ Kept
  <2> USE DEF CancelUpload, CancelUploadFind, CancelUploadRemove, CancelUploadLock,
       CancelUploadUnlink, CancelUploadAnswer, FsUnlink
  <2>1. inbox' = inbox /\ late' = late
    BY <1>3
  <2>2. PICK l \in {"cremove", "cwait", "unlink", "idle"} : Goto(p, l)
    BY <1>3 DEF Return
  <2>3. fin' = fin \/ fin' = IF fin = p THEN None ELSE fin
    BY <1>3 DEF Return
  <2>4. \A x \in Procs \ {p} : req'[x] = req[x]
    BY <1>3 DEF Return, TypeOK, TaskType
  <2>5. l \in Pcs \ FinalizePcs
    BY <2>2 DEF Pcs, AwaitPcs, LatePcs, FinalizePcs
  <2>6. QED BY <2>1, <2>2, <2>3, <2>4, <2>5, FinalizeKept
<1>4. ASSUME NEW p \in Procs, CompleteUploadFinalize(p) PROVE FinalizeInv' /\ Kept
  BY <1>4, FinalizeAlone DEF CompleteUploadFinalize, FinalizePcs
<1>5. ASSUME NEW p \in Procs, CompleteUploadFind(p) PROVE FinalizeInv' /\ Kept
  BY <1>5, FinalizeAlone DEF CompleteUploadFind, FinalizePcs, FinalizeInv, DestinationReserved
<1>6. ASSUME NEW p \in Procs, CompleteUploadCheck(p) PROVE FinalizeInv' /\ Kept
  BY <1>6, FinalizeAlone DEF CompleteUploadCheck, FinalizePcs, FinalizeInv, DestinationReserved
<1>7. ASSUME NEW p \in Procs, CompleteUploadHash(p) PROVE FinalizeInv' /\ Kept
  <2>1. PICK d \in Slots : UniqueDestination(d) /\ req' = [req EXCEPT ![p].slot = d]
    BY <1>7 DEF CompleteUploadHash
  <2>2. req[p] \in Request
    BY <1>7 DEF CompleteUploadHash, TypeOK, TaskType
  <2>3. req'[p].slot = d /\ inbox[d] = None
    BY <2>1, <2>2, RequestUpdates DEF UniqueDestination, TypeOK, TaskType
  <2>4. PICK l \in {"copy", "move"} : Goto(p, l)
    BY <1>7 DEF CompleteUploadHash
  <2>5. QED
    BY <1>7, <2>3, <2>4, FinalizeAlone
    DEF CompleteUploadHash, FinalizePcs, FinalizeInv, DestinationReserved
<1>8. ASSUME NEW p \in Procs, MoveCompletedFile(p) PROVE FinalizeInv' /\ Kept
  <2>1. inbox[req[p].slot] = None
    BY <1>8 DEF MoveCompletedFile, FinalizeInv, DestinationReserved
  <2>2. Kept
    BY <1>8, <2>1 DEF MoveCompletedFile, FsMove, TypeOK, DiskType
  <2>3. QED
    BY <1>8, <2>2, FinalizeAlone
    DEF MoveCompletedFile, FinalizePcs, FinalizeInv, DestinationReserved
<1>9. ASSUME NEW p \in Procs, MoveCompletedCopy(p) PROVE FinalizeInv' /\ Kept
  BY <1>9, FinalizeAlone
  DEF MoveCompletedCopy, FsCopy, FinalizePcs, FinalizeInv, DestinationReserved
<1>10. ASSUME NEW p \in Procs, MoveCompletedPublish(p) PROVE FinalizeInv' /\ Kept
  <2>1. inbox[req[p].slot] = None
    BY <1>10 DEF MoveCompletedPublish, FinalizeInv, DestinationReserved
  <2>2. Kept
    BY <1>10, <2>1 DEF MoveCompletedPublish, FsPublish, TypeOK, DiskType
  <2>3. QED
    BY <1>10, <2>2, FinalizeAlone
    DEF MoveCompletedPublish, FinalizePcs, FinalizeInv, DestinationReserved
<1>11. ASSUME NEW p \in Procs, MoveCompletedRemoveSource(p) PROVE FinalizeInv' /\ Kept
  BY <1>11, FinalizeAlone
  DEF MoveCompletedRemoveSource, FsUnlink, FinalizePcs, FinalizeInv, DestinationReserved
<1>12. ASSUME NEW p \in Procs,
              MoveCompletedShort(p) \/ CompleteUploadRecord(p) \/ CompleteUploadAnswer(p)
       PROVE  FinalizeInv' /\ Kept
  <2>1. Return(p) /\ inbox' = inbox /\ late' = late
    BY <1>12 DEF MoveCompletedShort, CompleteUploadRecord, CompleteUploadAnswer
  <2>2. \A x \in Procs \ {p} : req'[x] = req[x]
    BY <2>1 DEF Return, TypeOK, TaskType
  <2>3. "idle" \in Pcs \ FinalizePcs
    BY DEF Pcs, FinalizePcs
  <2>4. QED BY <2>1, <2>2, <2>3, FinalizeKept DEF Return
<1>13. ASSUME NEW p \in Procs, NEW op \in DOMAIN Entry, NEW id \in Ids, NEW off \in Chunks,
              Arrive(p, op, id, off)
       PROVE  FinalizeInv' /\ Kept
  <2>1. \A x \in Procs \ {p} : req'[x] = req[x]
    BY <1>13 DEF Arrive, TypeOK, TaskType
  <2>2. Entry[op] \in Pcs \ FinalizePcs
    BY DEF Entry, Pcs, AwaitPcs, LatePcs, FinalizePcs
  <2>3. QED BY <1>13, <2>1, <2>2, FinalizeKept DEF Arrive
<1>14. ASSUME NEW p \in Procs, Drop(p) PROVE FALSE
  BY <1>14 DEF Drop, TypeOK, EnvType
<1>15. ASSUME NEW o \in late, Late(o) PROVE FALSE
  BY <1>15 DEF FinalizeInv
<1>16. ASSUME Pair \/ \E e \in Enders : SessionEnd(e) PROVE FinalizeInv' /\ Kept
  <2>1. UNCHANGED <<pc, req, fin, late, inbox>>
    BY <1>16 DEF Pair, SessionEnd, StartEnd, DisconnectPeerClosed, CancelSessionCollect,
       CancelSessionUnlink, CancelSessionTickets, EndSession, FsUnlink
  <2>2. QED BY <2>1 DEF FinalizeInv, DestinationReserved
<1>17. CASE UNCHANGED vars
  BY <1>17 DEF vars, FinalizeInv, DestinationReserved
<1>18. QED
  BY <1>1, <1>2, <1>3, <1>4, <1>5, <1>6, <1>7, <1>8, <1>9, <1>10, <1>11, <1>12, <1>13,
     <1>14, <1>15, <1>16, <1>17
  DEF Next, Handler, CompleteUpload

\* At the start nobody finalizes.
LEMMA FinalizeInit == Init => FinalizeInv
  BY DEF Init, FinalizeInv, DestinationReserved, FinalizePcs

\* From unique_destination to the rename the chosen Inbox path stays free and
\* its finalizer is alone, for any number of requests, uploads and sessions.
THEOREM DestinationStaysReserved ==
    ASSUME MaxDrops = 0 PROVE Spec => []DestinationReserved
<1>1. TypeOK /\ FinalizeInv /\ [Next]_vars => FinalizeInv'
  BY FinalizeStep
<1>2. FinalizeInv => DestinationReserved
  BY DEF FinalizeInv
<1>3. QED BY <1>1, <1>2, FinalizeInit, TypeCorrect, PTL DEF Spec

\* complete_upload never replaces a file of the Inbox, for any number of
\* concurrent completions, cancellations and session ends.
THEOREM InboxNeverOverwritten ==
    ASSUME MaxDrops = 0 PROVE Spec => NeverOverwritesInbox
<1>1. TypeOK /\ FinalizeInv /\ [Next]_vars => FinalizeInv'
  BY FinalizeStep
<1>2. TypeOK /\ FinalizeInv /\ [Next]_vars
      => [\A d \in Slots : inbox[d] # None => inbox'[d] = inbox[d]]_vars
  BY FinalizeStep
<1>3. QED BY <1>1, <1>2, FinalizeInit, TypeCorrect, PTL DEF Spec, NeverOverwritesInbox
-----------------------------------------------------------------------------
(* While no create request is sent twice for one upload id, an id names one *)
(* record and one staging file for good.                                    *)

\* The locals of a request name the record own[id] of their upload, or nothing.
NamesOwn(own, q) == q.rec \in {None, own[q.id]} /\ q.ino \in {None, own[q.id]}

\* own[id] is the one record ever made for id: whoever names a record names that.
Owner(own) ==
    /\ \A id \in Ids : /\ part[id] \in {None, own[id]}
                       /\ uploads[id] \in {None, own[id]}
                       /\ own[id] # None => id \in created
    /\ \A e \in Enders : \A id \in ender[e].todo : own[id] # None
    /\ \A p \in Procs : pc[p] # "idle" => NamesOwn(own, req[p])
    /\ \A o \in late : NamesOwn(own, o.q)

\* The part file of an id is still to be made, by one create request at most.
Creating == {"lookup", "open"}
Creators(own) ==
    /\ \A p \in Procs : pc[p] \in Creating =>
          own[req[p].id] = None /\ req[p].id \in created
    /\ \A o \in late : o.pc = "open" => own[o.q.id] = None /\ o.q.id \in created
    /\ \A p, x \in Procs : /\ pc[p] \in Creating /\ pc[x] \in Creating
                           /\ req[p].id = req[x].id
                           => p = x
    /\ \A p \in Procs, o \in late :
          pc[p] \in Creating /\ o.pc = "open" => req[p].id # o.q.id
    /\ \A o, n \in late : o.pc = "open" /\ n.pc = "open" /\ o.q.id = n.q.id => o = n

OwnerInv == \E own \in [Ids -> Recs \cup {None}] : Owner(own) /\ Creators(own)

\* Locals that name the own record keep doing so when one is assigned from the
\* table or from the part path.
LEMMA NamesAssigned ==
    ASSUME NEW own, NEW q \in Request, NamesOwn(own, q)
    PROVE  /\ \A r \in Recs : r = own[q.id] => NamesOwn(own, [q EXCEPT !.rec = r])
           /\ \A r \in Recs : r = own[q.id] => NamesOwn(own, [q EXCEPT !.ino = r])
           /\ \A d \in Slots : NamesOwn(own, [q EXCEPT !.slot = d])
  BY DEF NamesOwn, Request

\* A task moves on with locals that name its own record: so do all the others.
LEMMA TaskNames ==
    ASSUME TaskType, NEW own, Owner(own), NEW p \in Procs, NEW l, Goto(p, l),
           l # "idle" => NamesOwn(own, req'[p]),
           \A x \in Procs \ {p} : req'[x] = req[x]
    PROVE  \A x \in Procs : pc'[x] # "idle" => NamesOwn(own, req'[x])
<1> SUFFICES ASSUME NEW x \in Procs, pc'[x] # "idle" PROVE NamesOwn(own, req'[x])
  OBVIOUS
<1>1. CASE x = p
  BY <1>1 DEF TaskType, Goto
<1>2. CASE x # p
  <2>1. pc'[x] = pc[x] /\ req'[x] = req[x]
    BY <1>2 DEF TaskType, Goto
  <2>2. NamesOwn(own, req[x])
    BY <2>1 DEF Owner
  <2>3. QED BY <2>1, <2>2 DEF NamesOwn
<1>3. QED BY <1>1, <1>2

\* No record is made and what is named afterwards is named before or is own.
LEMMA OwnerKept ==
    ASSUME NEW own, Owner(own),
           \A id \in Ids : part'[id] \in {None, part[id]},
           \A id \in Ids : uploads'[id] \in {None, own[id]},
           \A e \in Enders : \A id \in ender'[e].todo : own[id] # None,
           created \subseteq created',
           \A x \in Procs : pc'[x] # "idle" => NamesOwn(own, req'[x]),
           \A o \in late' : NamesOwn(own, o.q)
    PROVE  Owner(own)'
<1>1. \A id \in Ids : part'[id] \in {None, own[id]} /\ (own[id] # None => id \in created')
  BY DEF Owner
<1>2. QED BY <1>1 DEF Owner, NamesOwn

\* Nobody starts to create: who creates afterwards creates the same id before.
LEMMA CreatorsKept ==
    ASSUME NEW own, Creators(own), created \subseteq created',
           \A x \in Procs : pc'[x] \in Creating => pc[x] \in Creating /\ req'[x] = req[x],
           \A o \in late' : o.pc = "open" => o \in late
    PROVE  Creators(own)'
  BY DEF Creators

\* A task leaves the create handler, or was never in it.
LEMMA TaskCreators ==
    ASSUME TaskType, NEW own, Creators(own), NEW p \in Procs, NEW l, Goto(p, l),
           l \notin Creating, \A x \in Procs \ {p} : req'[x] = req[x],
           created' = created, late' \subseteq late
    PROVE  Creators(own)'
<1>1. ASSUME NEW x \in Procs, pc'[x] \in Creating
      PROVE  pc[x] \in Creating /\ req'[x] = req[x]
  BY <1>1 DEF TaskType, Goto
<1>2. QED BY <1>1, CreatorsKept

\* Every step of a handler but the two that make a part file: the id keeps its
\* one record.
LEMMA HandlerKeepsOwner ==
    ASSUME TypeOK, NEW own \in [Ids -> Recs \cup {None}], Owner(own), Creators(own),
           NEW p \in Procs, Handler(p), ~CreateUploadOpen(p)
    PROVE  Owner(own)' /\ Creators(own)'
<1> USE DEF sessionVars, tableVars, lockVars, resultVars, diskVars, envVars
<1>0. /\ TaskType /\ pc \in [Procs -> Pcs] /\ req \in [Procs -> Request \cup {None}]
      /\ \A id \in Ids : part[id] \in {None, own[id]} /\ uploads[id] \in {None, own[id]}
      /\ \A e \in Enders : \A id \in ender[e].todo : own[id] # None
      /\ \A o \in late : NamesOwn(own, o.q)
  BY DEF TypeOK, TaskType, Owner
<1>1. ASSUME CreateUploadLookup(p) PROVE Owner(own)' /\ Creators(own)'
  <2>1. /\ pc' = [pc EXCEPT ![p] = "open"] /\ pc[p] = "lookup"
        /\ UNCHANGED <<ender, uploads, part, req, created, late>>
    BY <1>1 DEF CreateUploadLookup, Goto
  <2>2. \A x \in Procs : pc'[x] \in Creating => pc[x] \in Creating
    BY <1>0, <2>1 DEF Creating
  <2>3. Creators(own)'
    BY <2>1, <2>2, CreatorsKept
  <2>4. \A x \in Procs : pc'[x] # "idle" => pc[x] # "idle"
    BY <1>0, <2>1
  <2>5. Owner(own)'
    BY <1>0, <2>1, <2>4 DEF Owner, NamesOwn
  <2>6. QED BY <2>3, <2>5
<1>2. ASSUME NEW l \in {"idle", "lock", "wopen", "write", "commit", "pace", "ticket", "check",
                        "hash", "move", "copy", "publish", "rmsrc", "record", "cremove",
                        "cwait", "unlink"},
             Goto(p, l), l # "idle" => NamesOwn(own, req'[p]),
             \A x \in Procs \ {p} : req'[x] = req[x],
             \A id \in Ids : part'[id] \in {None, part[id]},
             \A id \in Ids : uploads'[id] \in {None, own[id]},
             UNCHANGED <<ender, created, late>>
      PROVE  Owner(own)' /\ Creators(own)'
  <2>1. Creators(own)'
    BY <1>0, <1>2, TaskCreators DEF Creating
  <2>2. \A x \in Procs : pc'[x] # "idle" => NamesOwn(own, req'[x])
    BY <1>0, <1>2, TaskNames
  <2>3. Owner(own)'
    BY <1>0, <1>2, <2>2, OwnerKept
  <2>4. QED BY <2>1, <2>3
<1>3. ASSUME CreateUploadInsert(p) PROVE Owner(own)' /\ Creators(own)'
  <2>1. /\ Goto(p, "idle") /\ pc[p] = "insert" /\ UNCHANGED <<part, ender, created, late>>
        /\ uploads' = [uploads EXCEPT ![req[p].id] = req[p].rec]
        /\ req' = [req EXCEPT ![p] = None]
    BY <1>3 DEF CreateUploadInsert, Return
  <2>2. req[p] \in Request /\ req[p].id \in Ids /\ NamesOwn(own, req[p])
    BY <2>1, RequestUpdates DEF TypeOK, TaskType, Owner
  <2>3. \A id \in Ids : uploads'[id] \in {None, own[id]}
    BY <1>0, <2>1, <2>2 DEF NamesOwn, TypeOK, TableType
  <2>4. QED BY <1>0, <1>2, <2>1, <2>3
<1>4. ASSUME Return(p), UNCHANGED <<part, uploads, ender, created, late>>
      PROVE  Owner(own)' /\ Creators(own)'
  BY <1>0, <1>2, <1>4 DEF Return
<1>5. ASSUME CreateUploadAnswer(p) \/ WriteUploadChunkAnswer(p) \/ CompleteUploadAnswer(p)
             \/ CancelUploadAnswer(p) \/ MoveCompletedShort(p)
      PROVE  Owner(own)' /\ Creators(own)'
  <2>1. Return(p) /\ UNCHANGED <<part, uploads, ender, created, late>>
    BY <1>5 DEF CreateUploadAnswer, WriteUploadChunkAnswer, CompleteUploadAnswer,
       CancelUploadAnswer, MoveCompletedShort
  <2>2. QED BY <1>4, <2>1
<1>6. ASSUME CompleteUploadRecord(p) \/ CancelUploadUnlink(p)
      PROVE  Owner(own)' /\ Creators(own)'
  <2>1. /\ Goto(p, "idle") /\ UNCHANGED <<ender, created, late>>
        /\ req' = [req EXCEPT ![p] = None]
    BY <1>6 DEF CompleteUploadRecord, CancelUploadUnlink, Return
  <2>2. uploads' = uploads \/ uploads' = [uploads EXCEPT ![req[p].id] = None]
    BY <1>6 DEF CompleteUploadRecord, CancelUploadUnlink
  <2>3. part' = part \/ part' = [part EXCEPT ![req[p].id] = None]
    BY <1>6 DEF CompleteUploadRecord, CancelUploadUnlink, FsUnlink
  <2>4. /\ \A id \in Ids : uploads'[id] \in {None, own[id]}
        /\ \A id \in Ids : part'[id] \in {None, part[id]}
    BY <1>0, <2>2, <2>3 DEF TypeOK, TableType, DiskType
  <2>5. QED BY <1>0, <1>2, <2>1, <2>4
<1>7. ASSUME WriteUploadChunkFind(p) \/ CompleteUploadFind(p) \/ CancelUploadFind(p)
      PROVE  Owner(own)' /\ Creators(own)'
  <2>1. pc[p] # "idle" /\ UNCHANGED <<part, uploads, ender, created, late>>
    BY <1>7 DEF WriteUploadChunkFind, CompleteUploadFind, CancelUploadFind
  <2>2. PICK l \in {"lock", "check", "cremove"} : Goto(p, l)
    BY <1>7 DEF WriteUploadChunkFind, CompleteUploadFind, CancelUploadFind
  <2>3. UploadRecord(req[p].id, req[p].sid) /\ req' = [req EXCEPT ![p].rec = uploads[req[p].id]]
    BY <1>7 DEF WriteUploadChunkFind, CompleteUploadFind, CancelUploadFind
  <2>4. req[p] \in Request /\ req[p].id \in Ids /\ NamesOwn(own, req[p])
    BY <2>1, RequestUpdates DEF TypeOK, TaskType, Owner
  <2>5. uploads[req[p].id] \in Recs /\ uploads[req[p].id] = own[req[p].id]
    BY <1>0, <2>3, <2>4 DEF UploadRecord, TypeOK, TableType
  <2>6. req'[p] = [req[p] EXCEPT !.rec = uploads[req[p].id]]
    BY <1>0, <2>3
  <2>7. NamesOwn(own, req'[p])
    BY <2>4, <2>5, <2>6, NamesAssigned
  <2>8. QED BY <1>0, <1>2, <2>1, <2>2, <2>3, <2>7
<1>8. ASSUME WriteUploadChunkOpen(p) PROVE Owner(own)' /\ Creators(own)'
  <2>1. /\ pc[p] # "idle" /\ UNCHANGED <<part, uploads, ender, created, late>>
        /\ Goto(p, "write") /\ part[req[p].id] # None
        /\ req' = [req EXCEPT ![p].ino = part[req[p].id]]
    BY <1>8 DEF WriteUploadChunkOpen
  <2>2. req[p] \in Request /\ req[p].id \in Ids /\ NamesOwn(own, req[p])
    BY <2>1, RequestUpdates DEF TypeOK, TaskType, Owner
  <2>3. part[req[p].id] \in Recs /\ part[req[p].id] = own[req[p].id]
    BY <1>0, <2>1, <2>2 DEF TypeOK, DiskType
  <2>4. req'[p] = [req[p] EXCEPT !.ino = part[req[p].id]]
    BY <1>0, <2>1
  <2>5. NamesOwn(own, req'[p])
    BY <2>2, <2>3, <2>4, NamesAssigned
  <2>6. QED BY <1>0, <1>2, <2>1, <2>5
<1>9. ASSUME CompleteUploadHash(p) PROVE Owner(own)' /\ Creators(own)'
  <2>1. pc[p] # "idle" /\ UNCHANGED <<part, uploads, ender, created, late>>
    BY <1>9 DEF CompleteUploadHash
  <2>2. PICK l \in {"copy", "move"} : Goto(p, l)
    BY <1>9 DEF CompleteUploadHash
  <2>3. PICK d \in Slots : req' = [req EXCEPT ![p].slot = d]
    BY <1>9 DEF CompleteUploadHash
  <2>4. req[p] \in Request /\ NamesOwn(own, req[p])
    BY <2>1 DEF TypeOK, TaskType, Owner
  <2>5. req'[p] = [req[p] EXCEPT !.slot = d]
    BY <1>0, <2>3
  <2>6. NamesOwn(own, req'[p])
    BY <2>4, <2>5, NamesAssigned
  <2>7. QED BY <1>0, <1>2, <2>1, <2>2, <2>3, <2>6
<1>10. ASSUME \/ WriteUploadChunkLock(p) \/ WriteUploadChunkWrite(p)
              \/ WriteUploadChunkCommit(p) \/ CompleteUploadFinalize(p)
              \/ CompleteUploadCheck(p) \/ MoveCompletedFile(p) \/ MoveCompletedCopy(p)
              \/ MoveCompletedPublish(p) \/ MoveCompletedRemoveSource(p)
              \/ CancelUploadRemove(p) \/ CancelUploadLock(p)
       PROVE  Owner(own)' /\ Creators(own)'
  <2> USE DEF WriteUploadChunkLock, WriteUploadChunkWrite, WriteUploadChunkCommit,
       CompleteUploadFinalize, CompleteUploadCheck, MoveCompletedFile, MoveCompletedCopy,
       MoveCompletedPublish, MoveCompletedRemoveSource, CancelUploadRemove, CancelUploadLock
  <2>1. pc[p] # "idle" /\ UNCHANGED <<req, ender, created, late>>
    BY <1>10
  <2>2. PICK l \in {"wopen", "commit", "pace", "ticket", "hash", "record", "publish", "rmsrc",
                    "cwait", "unlink"} : Goto(p, l)
    BY <1>10
  <2>3. uploads' = uploads \/ uploads' = [uploads EXCEPT ![req[p].id] = None]
    BY <1>10
  <2>4. part' = part \/ part' = [part EXCEPT ![req[p].id] = None]
    BY <1>10 DEF FsWrite, FsMove, FsCopy, FsPublish, FsUnlink
  <2> HIDE DEF WriteUploadChunkLock, WriteUploadChunkWrite, WriteUploadChunkCommit,
       CompleteUploadFinalize, CompleteUploadCheck, MoveCompletedFile, MoveCompletedCopy,
       MoveCompletedPublish, MoveCompletedRemoveSource, CancelUploadRemove, CancelUploadLock
  <2>5. /\ \A id \in Ids : uploads'[id] \in {None, own[id]}
        /\ \A id \in Ids : part'[id] \in {None, part[id]}
    BY <1>0, <2>3, <2>4 DEF TypeOK, TableType, DiskType
  <2>6. NamesOwn(own, req'[p])
    BY <2>1 DEF Owner
  <2>7. QED BY <1>0, <1>2, <2>1, <2>2, <2>5, <2>6
<1>11. QED
  BY <1>1, <1>3, <1>5, <1>6, <1>7, <1>8, <1>9, <1>10
  DEF Handler, CreateUpload, WriteUploadChunk, CompleteUpload, CancelUpload

\* A part file is made for an id that had no record: it becomes the own record,
\* and whoever else names a record of its upload names another upload.
LEMMA OwnerMade ==
    ASSUME TypeOK, NEW own \in [Ids -> Recs \cup {None}], Owner(own), Creators(own),
           NEW q \in Request, FsCreate(q), own[q.id] = None, q.id \in created,
           \A x \in Procs : pc'[x] # "idle" => pc[x] # "idle",
           \A x \in Procs : req'[x] = req[x] \/ req'[x] = [req[x] EXCEPT !.rec = made + 1],
           \A x \in Procs : req'[x] # req[x] => req[x].id = q.id /\ pc[x] # "idle",
           \A x \in Procs : pc'[x] \in Creating =>
              pc[x] \in Creating /\ req'[x] = req[x] /\ req[x].id # q.id,
           \A o \in late' : o \in late /\ (o.pc = "open" => o.q.id # q.id),
           UNCHANGED <<uploads, ender, created>>,
           NEW now, now = [own EXCEPT ![q.id] = made + 1]
    PROVE  now \in [Ids -> Recs \cup {None}] /\ Owner(now)' /\ Creators(now)'
<1>0. q.id \in Ids /\ made + 1 \in Recs /\ part' = [part EXCEPT ![q.id] = made + 1]
  BY RequestUpdates, ConstantsAssumption DEF FsCreate, TypeOK, TableType, Recs
<1>1. /\ now \in [Ids -> Recs \cup {None}] /\ now[q.id] = made + 1
      /\ \A id \in Ids : id # q.id => now[id] = own[id]
  BY <1>0
<1>2. \A id \in Ids : /\ part'[id] \in {None, now[id]} /\ uploads'[id] \in {None, now[id]}
                      /\ now[id] # None => id \in created'
  <2> SUFFICES ASSUME NEW id \in Ids
               PROVE  /\ part'[id] \in {None, now[id]} /\ uploads'[id] \in {None, now[id]}
                      /\ now[id] # None => id \in created'
    OBVIOUS
  <2>1. CASE id = q.id
    BY <1>0, <1>1, <2>1 DEF Owner, TypeOK, DiskType
  <2>2. CASE id # q.id
    BY <1>0, <1>1, <2>2 DEF Owner, TypeOK, DiskType
  <2>3. QED BY <2>1, <2>2
<1>3. \A e \in Enders : \A id \in ender'[e].todo : now[id] # None
  BY <1>0, <1>1, ConstantsAssumption DEF Owner, TypeOK, SessionType, Recs
<1>4. ASSUME NEW x \in Procs, pc'[x] # "idle" PROVE NamesOwn(now, req'[x])
  <2>1. req[x] \in Request /\ NamesOwn(own, req[x]) /\ req[x].id \in Ids
    BY <1>4, RequestUpdates DEF TypeOK, TaskType, Owner
  <2>2. CASE req[x].id = q.id
    <3>1. req[x].rec = None /\ req[x].ino = None
      BY <2>1, <2>2 DEF NamesOwn
    <3>2. CASE req'[x] = req[x]
      BY <1>1, <2>2, <3>1, <3>2 DEF NamesOwn
    <3>3. CASE req'[x] = [req[x] EXCEPT !.rec = made + 1]
      BY <1>1, <2>1, <2>2, <3>1, <3>3 DEF NamesOwn, Request
    <3>4. QED BY <3>2, <3>3
  <2>3. CASE req[x].id # q.id
    <3>1. req'[x] = req[x]
      BY <2>3
    <3>2. now[req[x].id] = own[req[x].id]
      BY <1>1, <2>1, <2>3
    <3>3. QED BY <2>1, <3>1, <3>2 DEF NamesOwn
  <2>4. QED BY <2>2, <2>3
<1>5. ASSUME NEW o \in late' PROVE NamesOwn(now, o.q)
  <2>1. o.q \in Request /\ o.q.id \in Ids /\ NamesOwn(own, o.q)
    BY <1>5, RequestUpdates DEF TypeOK, EnvType, Owner
  <2>2. CASE o.q.id = q.id
    BY <2>1, <2>2 DEF NamesOwn
  <2>3. CASE o.q.id # q.id
    BY <1>1, <2>1, <2>3 DEF NamesOwn
  <2>4. QED BY <2>2, <2>3
<1>6. Owner(now)'
  BY <1>2, <1>3, <1>4, <1>5 DEF Owner, NamesOwn
<1>7. Creators(now)'
  <2>1. \A x \in Procs : pc'[x] \in Creating => /\ pc[x] \in Creating /\ req'[x] = req[x]
                                                /\ req[x].id \in Ids /\ req[x].id # q.id
    BY RequestUpdates DEF TypeOK, TaskType, Creating
  <2>2. \A o \in late' : o.pc = "open" => /\ o \in late /\ o.q.id \in Ids /\ o.q.id # q.id
    BY RequestUpdates DEF TypeOK, EnvType
  <2>3. \A x \in Procs : pc'[x] \in Creating =>
           now[req'[x].id] = None /\ req'[x].id \in created'
    BY <1>1, <2>1 DEF Creators
  <2>4. \A o \in late' : o.pc = "open" => now[o.q.id] = None /\ o.q.id \in created'
    BY <1>1, <2>2 DEF Creators
  <2>5. QED BY <2>1, <2>2, <2>3, <2>4 DEF Creators
<1>8. QED BY <1>1, <1>6, <1>7

\* create_new in the create handler.
LEMMA OpenMakesOwner ==
    ASSUME TypeOK, NEW own \in [Ids -> Recs \cup {None}], Owner(own), Creators(own),
           NEW p \in Procs, CreateUploadOpen(p),
           NEW now, now = [own EXCEPT ![req[p].id] = made + 1]
    PROVE  now \in [Ids -> Recs \cup {None}] /\ Owner(now)' /\ Creators(now)'
<1> USE DEF sessionVars, tableVars, lockVars, resultVars, diskVars, envVars
<1>1. /\ pc[p] = "open" /\ FsCreate(req[p]) /\ pc' = [pc EXCEPT ![p] = "insert"]
      /\ req' = [req EXCEPT ![p].rec = made + 1]
      /\ UNCHANGED <<uploads, ender, created, late>>
  BY DEF CreateUploadOpen, Goto
<1>2. /\ pc \in [Procs -> Pcs] /\ req \in [Procs -> Request \cup {None}]
      /\ req[p] \in Request
  BY <1>1 DEF TypeOK, TaskType
<1>3. own[req[p].id] = None /\ req[p].id \in created
  BY <1>1 DEF Creators, Creating
<1>4. /\ \A x \in Procs : pc'[x] # "idle" => pc[x] # "idle"
      /\ \A x \in Procs : req'[x] = req[x] \/ req'[x] = [req[x] EXCEPT !.rec = made + 1]
      /\ \A x \in Procs : req'[x] # req[x] => req[x].id = req[p].id /\ pc[x] # "idle"
  BY <1>1, <1>2
<1>5. ASSUME NEW x \in Procs, pc'[x] \in Creating
      PROVE  pc[x] \in Creating /\ req'[x] = req[x] /\ req[x].id # req[p].id
  <2>1. x # p
    BY <1>1, <1>2, <1>5 DEF Creating
  <2>2. pc'[x] = pc[x] /\ req'[x] = req[x] /\ pc[p] \in Creating
    BY <1>1, <1>2, <2>1 DEF Creating
  <2>3. QED BY <1>5, <2>1, <2>2 DEF Creators
<1>6. \A o \in late' : o \in late /\ (o.pc = "open" => o.q.id # req[p].id)
  BY <1>1 DEF Creators, Creating
<1>7. QED BY <1>1, <1>2, <1>3, <1>4, <1>5, <1>6, OwnerMade

\* create_new in the blocking pool, after the client is gone.
LEMMA LateMakesOwner ==
    ASSUME TypeOK, NEW own \in [Ids -> Recs \cup {None}], Owner(own), Creators(own),
           NEW o \in late, o.pc = "open", FsCreate(o.q), late' = late \ {o},
           UNCHANGED <<uploads, ender, created, pc, req>>,
           NEW now, now = [own EXCEPT ![o.q.id] = made + 1]
    PROVE  now \in [Ids -> Recs \cup {None}] /\ Owner(now)' /\ Creators(now)'
<1>1. o.q \in Request
  BY DEF TypeOK, EnvType
<1>2. own[o.q.id] = None /\ o.q.id \in created
  BY DEF Creators
<1>3. \A x \in Procs : pc'[x] \in Creating =>
         pc[x] \in Creating /\ req'[x] = req[x] /\ req[x].id # o.q.id
  BY DEF Creators
<1>4. \A n \in late' : n \in late /\ (n.pc = "open" => n.q.id # o.q.id)
  BY DEF Creators
<1>5. QED BY <1>1, <1>2, <1>3, <1>4, OwnerMade

\* A request arrives: a create request only for an id that had none.
LEMMA ArriveKeepsOwner ==
    ASSUME ~Retries, TypeOK, NEW own \in [Ids -> Recs \cup {None}], Owner(own), Creators(own),
           NEW p \in Procs, NEW op \in DOMAIN Entry, NEW id \in Ids, NEW off \in Chunks,
           Arrive(p, op, id, off)
    PROVE  Owner(own)' /\ Creators(own)'
<1> DEFINE q == [id |-> id, sid |-> sid, off |-> off, rec |-> None, ino |-> None, slot |-> None]
<1>1. /\ pc[p] = "idle" /\ Goto(p, Entry[op]) /\ req' = [req EXCEPT ![p] = q]
      /\ UNCHANGED <<part, uploads, ender, late>>
      /\ op = "create" => id \notin created
      /\ created' = IF op = "create" THEN created \cup {id} ELSE created
  BY DEF Arrive, sessionVars, tableVars, diskVars
<1>2. TaskType /\ pc \in [Procs -> Pcs] /\ req \in [Procs -> Request \cup {None}]
  BY DEF TypeOK, TaskType
<1>3. req'[p] = q /\ (\A x \in Procs \ {p} : req'[x] = req[x]) /\ NamesOwn(own, req'[p])
  BY <1>1, <1>2 DEF NamesOwn
<1>4. \A x \in Procs : pc'[x] # "idle" => NamesOwn(own, req'[x])
  BY <1>1, <1>2, <1>3, TaskNames
<1>5. Owner(own)'
  <2>1. created \subseteq created'
    BY <1>1
  <2>2. /\ \A i \in Ids : part'[i] \in {None, part[i]} /\ uploads'[i] \in {None, own[i]}
        /\ \A e \in Enders : \A i \in ender'[e].todo : own[i] # None
        /\ \A o \in late' : NamesOwn(own, o.q)
    BY <1>1 DEF Owner
  <2>3. QED BY <1>4, <2>1, <2>2, OwnerKept
<1>6. CASE op # "create"
  <2>1. Entry[op] \notin Creating
    BY <1>6 DEF Entry, Creating
  <2>2. QED BY <1>1, <1>2, <1>3, <1>5, <1>6, <2>1, TaskCreators
<1>7. CASE op = "create"
  <2>1. created' = created \cup {id} /\ id \notin created /\ Entry[op] = "lookup"
    BY <1>1, <1>7 DEF Entry
  <2>2. own[id] = None
    BY <2>1 DEF Owner
  <2>3. \A x \in Procs \ {p} : pc'[x] = pc[x] /\ req'[x] = req[x]
    BY <1>1, <1>2 DEF Goto
  <2>4. req'[p].id = id /\ req'[p].id \in created'
    BY <1>3, <2>1
  <2>5. ASSUME NEW x \in Procs \ {p}, pc'[x] \in Creating
        PROVE  own[req'[x].id] = None /\ req'[x].id \in created /\ req'[x].id # id
    BY <2>1, <2>3, <2>5 DEF Creators
  <2>6. ASSUME NEW o \in late', o.pc = "open"
        PROVE  own[o.q.id] = None /\ o.q.id \in created /\ o.q.id # id
    BY <1>1, <2>1, <2>6 DEF Creators
  <2>7. ASSUME NEW x \in Procs, pc'[x] \in Creating
        PROVE  own[req'[x].id] = None /\ req'[x].id \in created'
    BY <2>1, <2>2, <2>4, <2>5, <2>7
  <2>8. ASSUME NEW x \in Procs, NEW y \in Procs, pc'[x] \in Creating, pc'[y] \in Creating,
               req'[x].id = req'[y].id
        PROVE  x = y
    <3>1. CASE x = p \/ y = p
      BY <2>4, <2>5, <2>8, <3>1
    <3>2. CASE x # p /\ y # p
      BY <2>3, <2>8, <3>2 DEF Creators
    <3>3. QED BY <3>1, <3>2
  <2>9. ASSUME NEW x \in Procs, NEW o \in late', pc'[x] \in Creating, o.pc = "open"
        PROVE  req'[x].id # o.q.id
    <3>1. CASE x = p
      BY <2>4, <2>6, <2>9, <3>1
    <3>2. CASE x # p
      BY <1>1, <2>3, <2>9, <3>2 DEF Creators
    <3>3. QED BY <3>1, <3>2
  <2>10. \A o, n \in late' : o.pc = "open" /\ n.pc = "open" /\ o.q.id = n.q.id => o = n
    BY <1>1 DEF Creators
  <2>11. \A o \in late' : o.pc = "open" => own[o.q.id] = None /\ o.q.id \in created'
    BY <2>1, <2>6
  <2>12. Creators(own)'
    BY <2>7, <2>8, <2>9, <2>10, <2>11 DEF Creators
  <2>13. QED BY <1>5, <2>12
<1>8. QED BY <1>6, <1>7

\* A client goes away: its file operation, if any, takes the handler's place.
LEMMA DropKeepsOwner ==
    ASSUME TypeOK, NEW own \in [Ids -> Recs \cup {None}], Owner(own), Creators(own),
           NEW p \in Procs, Drop(p)
    PROVE  Owner(own)' /\ Creators(own)'
<1> DEFINE n == [pc |-> pc[p], q |-> req[p]]
<1>1. /\ pc[p] \in AwaitPcs /\ pc' = [pc EXCEPT ![p] = "idle"]
      /\ req' = [req EXCEPT ![p] = None]
      /\ late' \subseteq late \cup {n}
      /\ UNCHANGED <<part, uploads, ender, created>>
  BY DEF Drop, Return, Goto, sessionVars, tableVars, diskVars
<1>2. /\ TaskType /\ pc \in [Procs -> Pcs] /\ req \in [Procs -> Request \cup {None}]
      /\ pc[p] # "idle" /\ NamesOwn(own, req[p])
  BY <1>1 DEF TypeOK, TaskType, Owner, AwaitPcs, LatePcs
<1>3. pc'[p] = "idle" /\ \A x \in Procs \ {p} : pc'[x] = pc[x] /\ req'[x] = req[x]
  BY <1>1, <1>2
<1>4. \A x \in Procs : pc'[x] # "idle" => NamesOwn(own, req'[x])
  BY <1>3 DEF Owner, NamesOwn
<1>5. \A o \in late' : NamesOwn(own, o.q)
  BY <1>1, <1>2 DEF Owner, NamesOwn
<1>6. Owner(own)'
  BY <1>1, <1>4, <1>5, OwnerKept DEF Owner
<1>7. \A x \in Procs : pc'[x] \in Creating => x # p /\ pc[x] \in Creating /\ req'[x] = req[x]
  BY <1>3 DEF Creating
<1>8. \A o \in late' : o \in late \/ o = n
  BY <1>1
<1>9. n.pc = "open" => pc[p] \in Creating
  BY DEF Creating
<1>10. \A x \in Procs : pc'[x] \in Creating => own[req'[x].id] = None /\ req'[x].id \in created'
  BY <1>1, <1>7 DEF Creators
<1>11. \A o \in late' : o.pc = "open" => own[o.q.id] = None /\ o.q.id \in created'
  BY <1>1, <1>8, <1>9 DEF Creators
<1>12. \A x, y \in Procs : pc'[x] \in Creating /\ pc'[y] \in Creating /\ req'[x].id = req'[y].id
                           => x = y
  BY <1>7 DEF Creators
<1>13. \A x \in Procs, o \in late' : pc'[x] \in Creating /\ o.pc = "open" => req'[x].id # o.q.id
  BY <1>7, <1>8, <1>9 DEF Creators
<1>14. \A o, m \in late' : o.pc = "open" /\ m.pc = "open" /\ o.q.id = m.q.id => o = m
  BY <1>8, <1>9 DEF Creators
<1>15. Creators(own)'
  BY <1>10, <1>11, <1>12, <1>13, <1>14 DEF Creators
<1>16. QED BY <1>6, <1>15

\* A step that makes no record leaves every id its one record.
LEMMA OwnerStays ==
    ASSUME ~Retries, TypeOK, NEW own \in [Ids -> Recs \cup {None}], Owner(own), Creators(own),
           [Next]_vars, made' = made
    PROVE  Owner(own)' /\ Creators(own)'
<1> USE DEF sessionVars, tableVars, lockVars, resultVars, diskVars, envVars
<1>1. ASSUME NEW p \in Procs, Handler(p) PROVE Owner(own)' /\ Creators(own)'
  <2>1. ~CreateUploadOpen(p)
    BY DEF CreateUploadOpen, FsCreate, TypeOK, TableType
  <2>2. QED BY <1>1, <2>1, HandlerKeepsOwner
<1>2. ASSUME NEW o \in late, Late(o) PROVE Owner(own)' /\ Creators(own)'
  <2>1. late' = late \ {o} /\ UNCHANGED <<uploads, ender, pc, req, created>>
    BY <1>2 DEF Late
  <2>2. part' = part \/ part' = [part EXCEPT ![o.q.id] = None]
    BY <1>2 DEF Late, FsCreate, FsWrite, FsMove, FsCopy, FsPublish, FsUnlink, TypeOK, TableType
  <2>3. \A id \in Ids : part'[id] \in {None, part[id]}
    BY <2>2 DEF TypeOK, DiskType
  <2>4. Creators(own)'
    BY <2>1, CreatorsKept
  <2>5. Owner(own)'
    BY <2>1, <2>3, OwnerKept DEF Owner
  <2>6. QED BY <2>4, <2>5
<1>3. ASSUME NEW e \in Enders, SessionEnd(e) PROVE Owner(own)' /\ Creators(own)'
  <2>1. UNCHANGED <<pc, req, created, late>>
    BY <1>3 DEF SessionEnd, StartEnd, DisconnectPeerClosed, CancelSessionCollect,
       CancelSessionUnlink, CancelSessionTickets, EndSession
  <2>2. Creators(own)'
    BY <2>1, CreatorsKept
  <2>3. part' = part \/ \E id \in Ids : part' = [part EXCEPT ![id] = None]
    BY <1>3 DEF SessionEnd, StartEnd, DisconnectPeerClosed, CancelSessionCollect,
       CancelSessionUnlink, CancelSessionTickets, EndSession, FsUnlink
  <2>4. \A id \in Ids : part'[id] \in {None, part[id]}
    BY <2>3 DEF TypeOK, DiskType
  <2>5. /\ \A id \in Ids : uploads'[id] \in {None, own[id]}
        /\ \A x \in Enders : \A id \in ender'[x].todo : own[id] # None
    <3>0. /\ \A id \in Ids : uploads[id] \in {None, own[id]}
          /\ \A x \in Enders : \A id \in ender[x].todo : own[id] # None
          /\ ender \in [Enders -> [pc : {"idle", "close", "collect", "unlink", "session"},
                                   sid : Sids, todo : SUBSET Ids]]
      BY DEF Owner, TypeOK, SessionType
    <3>1. CASE CancelSessionCollect(e)
      <4>1. /\ uploads' = [id \in Ids |-> IF id \in {j \in Ids : UploadRecord(j, ender[e].sid)}
                                         THEN None ELSE uploads[id]]
            /\ ender' = [ender EXCEPT ![e].pc = "unlink",
                               ![e].todo = {j \in Ids : UploadRecord(j, ender[e].sid)}]
        BY <3>1 DEF CancelSessionCollect
      <4>2. \A j \in Ids : UploadRecord(j, ender[e].sid) => own[j] # None
        BY <3>0 DEF UploadRecord
      <4>3. QED BY <3>0, <4>1, <4>2
    <3>2. CASE ~CancelSessionCollect(e)
      <4>1. uploads' = uploads
        BY <1>3, <3>2 DEF SessionEnd, StartEnd, DisconnectPeerClosed, CancelSessionUnlink,
           CancelSessionTickets, EndSession
      <4>2. \A x \in Enders : ender'[x].todo \subseteq ender[x].todo
        <5>1. CASE StartEnd(e)
          BY <3>0, <5>1 DEF StartEnd
        <5>2. CASE DisconnectPeerClosed(e)
          BY <3>0, <5>2 DEF DisconnectPeerClosed
        <5>3. CASE CancelSessionTickets(e)
          BY <3>0, <5>3 DEF CancelSessionTickets, NotEnding
        <5>4. CASE EndSession(e)
          BY <3>0, <5>4 DEF EndSession, NotEnding
        <5>5. ASSUME NEW id \in Ids, CancelSessionUnlink(e, id)
              PROVE  \A x \in Enders : ender'[x].todo \subseteq ender[x].todo
          BY <3>0, <5>5 DEF CancelSessionUnlink
        <5>6. QED BY <1>3, <3>2, <5>1, <5>2, <5>3, <5>4, <5>5 DEF SessionEnd
      <4>3. QED BY <3>0, <4>1, <4>2
    <3>3. QED BY <3>1, <3>2
  <2>6. Owner(own)'
    BY <2>1, <2>4, <2>5, OwnerKept DEF Owner
  <2>7. QED BY <2>2, <2>6
<1>4. CASE Pair \/ UNCHANGED vars
  <2>1. UNCHANGED <<part, uploads, ender, pc, req, created, late>>
    BY <1>4 DEF Pair, vars
  <2>2. QED BY <2>1 DEF Owner, Creators, NamesOwn
<1>5. QED
  BY <1>1, <1>2, <1>3, <1>4, ArriveKeepsOwner, DropKeepsOwner DEF Next

\* Who writes what: each of these variables has one action, or one kind of actor, that
\* writes it, and every other step leaves it alone.
LEMMA Writers ==
    ASSUME [Next]_vars
    PROVE  /\ \/ made' = made
              \/ \E p \in Procs : CreateUploadOpen(p)
              \/ \E o \in late : Late(o) /\ o.pc = "open" /\ FsCreate(o.q)
           /\ rsid' = rsid \/ \E p \in Procs : CreateUploadOpen(p)
           /\ received' = received \/ \E p \in Procs : WriteUploadChunkCommit(p)
           /\ drops' = drops \/ \E p \in Procs : Drop(p)
           /\ UNCHANGED <<ended, ender>> \/ \E e \in Enders : SessionEnd(e)
           /\ \/ UNCHANGED <<tickets, uploads_completed>>
              \/ \E p \in Procs : CompleteUploadRecord(p)
              \/ \E e \in Enders : CancelSessionTickets(e)
<1> USE DEF sessionVars, tableVars, lockVars, resultVars, diskVars, envVars
<1> DEFINE Results == UNCHANGED <<tickets, uploads_completed>>
           Table == made' = made /\ rsid' = rsid
           Rest == UNCHANGED <<drops, ended, ender>>
<1>1. ASSUME NEW p \in Procs, CreateUpload(p)
      PROVE  Results /\ Rest /\ received' = received /\ (Table \/ CreateUploadOpen(p))
  <2>1. CASE CreateUploadOpen(p)
    BY <2>1 DEF CreateUploadOpen
  <2>2. CASE CreateUploadLookup(p) \/ CreateUploadInsert(p)
    BY <2>2 DEF CreateUploadLookup, CreateUploadInsert
  <2>3. CASE CreateUploadAnswer(p)
    BY <2>3 DEF CreateUploadAnswer
  <2>4. QED BY <1>1, <2>1, <2>2, <2>3 DEF CreateUpload
<1>2. ASSUME NEW p \in Procs, WriteUploadChunk(p)
      PROVE  Results /\ Rest /\ Table /\ (received' = received \/ WriteUploadChunkCommit(p))
  <2>1. CASE WriteUploadChunkCommit(p) \/ WriteUploadChunkAnswer(p)
    BY <2>1 DEF WriteUploadChunkCommit, WriteUploadChunkAnswer
  <2>2. CASE WriteUploadChunkFind(p) \/ WriteUploadChunkLock(p)
    BY <2>2 DEF WriteUploadChunkFind, WriteUploadChunkLock
  <2>3. CASE WriteUploadChunkOpen(p) \/ WriteUploadChunkWrite(p)
    BY <2>3 DEF WriteUploadChunkOpen, WriteUploadChunkWrite
  <2>4. QED BY <1>2, <2>1, <2>2, <2>3 DEF WriteUploadChunk
<1>3. ASSUME NEW p \in Procs, CompleteUpload(p)
      PROVE  Rest /\ Table /\ received' = received /\ (Results \/ CompleteUploadRecord(p))
  <2>1. CASE CompleteUploadFinalize(p) \/ CompleteUploadFind(p) \/ CompleteUploadCheck(p)
    BY <2>1 DEF CompleteUploadFinalize, CompleteUploadFind, CompleteUploadCheck
  <2>2. CASE CompleteUploadHash(p) \/ MoveCompletedFile(p) \/ MoveCompletedCopy(p)
    BY <2>2 DEF CompleteUploadHash, MoveCompletedFile, MoveCompletedCopy
  <2>3. CASE MoveCompletedShort(p) \/ MoveCompletedPublish(p) \/ MoveCompletedRemoveSource(p)
    BY <2>3 DEF MoveCompletedShort, MoveCompletedPublish, MoveCompletedRemoveSource
  <2>4. CASE CompleteUploadRecord(p) \/ CompleteUploadAnswer(p)
    BY <2>4 DEF CompleteUploadRecord, CompleteUploadAnswer
  <2>5. QED BY <1>3, <2>1, <2>2, <2>3, <2>4 DEF CompleteUpload
<1>4. ASSUME NEW p \in Procs, CancelUpload(p)
      PROVE  Results /\ Rest /\ Table /\ received' = received
  <2>1. CASE CancelUploadFind(p) \/ CancelUploadRemove(p) \/ CancelUploadLock(p)
    BY <2>1 DEF CancelUploadFind, CancelUploadRemove, CancelUploadLock
  <2>2. CASE CancelUploadUnlink(p) \/ CancelUploadAnswer(p)
    BY <2>2 DEF CancelUploadUnlink, CancelUploadAnswer
  <2>3. QED BY <1>4, <2>1, <2>2 DEF CancelUpload
<1>5. ASSUME NEW e \in Enders, SessionEnd(e)
      PROVE  /\ drops' = drops /\ Table /\ received' = received
             /\ Results \/ CancelSessionTickets(e)
  <2>1. CASE StartEnd(e) \/ DisconnectPeerClosed(e) \/ CancelSessionCollect(e)
    BY <2>1 DEF StartEnd, DisconnectPeerClosed, CancelSessionCollect
  <2>2. CASE CancelSessionTickets(e) \/ EndSession(e)
    BY <2>2 DEF CancelSessionTickets, EndSession
  <2>3. CASE \E id \in Ids : CancelSessionUnlink(e, id)
    BY <2>3 DEF CancelSessionUnlink
  <2>4. QED BY <1>5, <2>1, <2>2, <2>3 DEF SessionEnd
<1>6. ASSUME NEW o \in late, Late(o)
      PROVE  /\ Results /\ Rest /\ rsid' = rsid /\ received' = received
             /\ made' = made \/ (o.pc = "open" /\ FsCreate(o.q))
  BY <1>6 DEF Late
<1>7. ASSUME NEW p \in Procs, Drop(p)
      PROVE  Results /\ Table /\ received' = received /\ UNCHANGED <<ended, ender>>
  BY <1>7 DEF Drop
<1>8. CASE \/ Pair \/ UNCHANGED vars
           \/ \E p \in Procs, op \in DOMAIN Entry, id \in Ids, off \in Chunks :
                 Arrive(p, op, id, off)
  <2>1. Results /\ Rest /\ Table /\ received' = received
    BY <1>8 DEF Pair, vars, Arrive
  <2>2. QED BY <2>1
<1> HIDE DEF Results
<1>9. CASE \E p \in Procs : Handler(p)
  BY <1>1, <1>2, <1>3, <1>4, <1>9 DEF Handler, Results
<1>10. CASE \E e \in Enders : SessionEnd(e)
  BY <1>5, <1>10 DEF Results
<1>11. CASE \E o \in late : Late(o)
  BY <1>6, <1>11 DEF Results
<1>12. CASE \E p \in Procs : Drop(p)
  BY <1>7, <1>12 DEF Results
<1>13. QED BY <1>8, <1>9, <1>10, <1>11, <1>12 DEF Next

\* One record per upload id, for good.
LEMMA OwnerStep ==
    ASSUME ~Retries, TypeOK, OwnerInv, [Next]_vars
    PROVE  OwnerInv'
<1> USE DEF sessionVars, tableVars, lockVars, resultVars, diskVars, envVars
<1>1. PICK own \in [Ids -> Recs \cup {None}] : Owner(own) /\ Creators(own)
  BY DEF OwnerInv
<1>2. CASE made' = made
  BY <1>1, <1>2, OwnerStays DEF OwnerInv
<1>3. CASE made' # made
  <2>1. \/ \E p \in Procs : CreateUploadOpen(p)
        \/ \E o \in late : Late(o) /\ o.pc = "open" /\ FsCreate(o.q)
    BY <1>3, Writers
  <2>2. ASSUME NEW p \in Procs, CreateUploadOpen(p) PROVE OwnerInv'
    <3>1. PICK now : now = [own EXCEPT ![req[p].id] = made + 1]
      OBVIOUS
    <3>2. now \in [Ids -> Recs \cup {None}] /\ Owner(now)' /\ Creators(now)'
      BY <1>1, <2>2, <3>1, OpenMakesOwner
    <3>3. QED BY <3>2 DEF OwnerInv
  <2>3. ASSUME NEW o \in late, Late(o), o.pc = "open", FsCreate(o.q) PROVE OwnerInv'
    <3>1. late' = late \ {o} /\ UNCHANGED <<uploads, ender, created, pc, req>>
      BY <2>3 DEF Late
    <3>2. PICK now : now = [own EXCEPT ![o.q.id] = made + 1]
      OBVIOUS
    <3>3. now \in [Ids -> Recs \cup {None}] /\ Owner(now)' /\ Creators(now)'
      BY <1>1, <2>3, <3>1, <3>2, LateMakesOwner
    <3>4. QED BY <3>3 DEF OwnerInv
  <2>4. QED BY <2>1, <2>2, <2>3
<1>4. QED BY <1>2, <1>3

\* At the start no part file has an owner.
LEMMA OwnerInit == Init => OwnerInv
<1> SUFFICES ASSUME Init PROVE OwnerInv
  OBVIOUS
<1> DEFINE own == [id \in Ids |-> None]
<1>1. own \in [Ids -> Recs \cup {None}]
  OBVIOUS
<1>2. Owner(own) /\ Creators(own)
  BY DEF Init, Owner, Creators, Creating, NotEnding
<1>3. QED BY <1>1, <1>2 DEF OwnerInv

-----------------------------------------------------------------------------
(* What is in the Inbox is whole.                                            *)

\* Chunks below the verified offset are in the staging file, and the handler
\* between the offset check and the commit holds the record's mutex.
WrittenInv ==
    /\ \A r \in Recs : \A c \in Chunks : c < received[r] => c \in data[r]
    /\ \A p \in Procs : pc[p] \in {"wopen", "write", "commit"} =>
          lock[req[p].rec] = p /\ received[req[p].rec] = req[p].off
    /\ \A p \in Procs : pc[p] = "commit" => req[p].off \in data[req[p].ino]

\* What is being moved to the Inbox, lies beside it or is in it is whole.
WholeInv ==
    /\ \A p \in Procs : pc[p] \in {"hash", "move", "copy"} => received[req[p].rec] = Size
    /\ \A o \in late : o.pc \in {"move", "copy"} => received[o.q.rec] = Size
    /\ \A id \in Ids : temp[id] # None => temp[id].data = Chunks
    /\ PublishedWhole

\* A task moves on and the staging files only grow.
LEMMA WrittenKept ==
    ASSUME TypeOK, WrittenInv, NEW p \in Procs, NEW l, Goto(p, l),
           \A x \in Procs \ {p} : req'[x] = req[x],
           received' = received, \A r \in Recs : data[r] \subseteq data'[r],
           \A r \in Recs : \A x \in Procs \ {p} : lock[r] = x => lock'[r] = x,
           l \in {"wopen", "write", "commit"} =>
              lock'[req'[p].rec] = p /\ received[req'[p].rec] = req'[p].off,
           l = "commit" => req'[p].off \in data'[req'[p].ino]
    PROVE  WrittenInv'
<1>1. \A r \in Recs : \A c \in Chunks : c < received'[r] => c \in data'[r]
  BY DEF WrittenInv
<1>2. ASSUME NEW x \in Procs
      PROVE  /\ pc'[x] \in {"wopen", "write", "commit"} =>
                   lock'[req'[x].rec] = x /\ received'[req'[x].rec] = req'[x].off
             /\ pc'[x] = "commit" => req'[x].off \in data'[req'[x].ino]
  <2>1. CASE x = p
    BY <2>1 DEF TypeOK, TaskType, Goto
  <2>2. CASE x # p
    <3>1. pc'[x] = pc[x] /\ req'[x] = req[x]
      BY <2>2 DEF TypeOK, TaskType, Goto
    <3>2. pc[x] \in {"wopen", "write", "commit"} => req[x].rec \in Recs
      BY DEF TypeOK, TaskType, LocalsSet
    <3>3. pc[x] = "commit" => req[x].ino \in Recs
      BY DEF TypeOK, TaskType, LocalsSet
    <3>4. QED BY <2>2, <3>1, <3>2, <3>3 DEF WrittenInv
  <2>3. QED BY <2>1, <2>2
<1>3. QED BY <1>1, <1>2 DEF WrittenInv

\* The handler between check and commit writes to the file of its own record.
LEMMA WritesOwnFile ==
    ASSUME TypeOK, OwnerInv, NEW p \in Procs, pc[p] = "commit"
    PROVE  req[p] \in Request /\ req[p].rec \in Recs /\ req[p].ino = req[p].rec
<1>1. PICK own \in [Ids -> Recs \cup {None}] : Owner(own)
  BY DEF OwnerInv
<1>2. /\ NamesOwn(own, req[p]) /\ req[p] \in Request /\ req[p].rec \in Recs
      /\ req[p].ino \in Recs
  BY <1>1 DEF Owner, TypeOK, TaskType, LocalsSet
<1>3. QED BY <1>2, ConstantsAssumption DEF NamesOwn, Recs

\* The verified offset advances over a chunk that is there.
LEMMA CommitWritten ==
    ASSUME TypeOK, OwnerInv, WrittenInv, NEW p \in Procs, WriteUploadChunkCommit(p)
    PROVE  WrittenInv'
<1>1. /\ pc[p] = "commit" /\ pc' = [pc EXCEPT ![p] = "pace"] /\ data' = data /\ req' = req
      /\ received' = [received EXCEPT ![req[p].rec] = req[p].off + 1]
      /\ lock' = [lock EXCEPT ![req[p].rec] = None]
  BY DEF WriteUploadChunkCommit, Goto, diskVars
<1>2. req[p] \in Request /\ req[p].rec \in Recs /\ req[p].ino = req[p].rec
  BY <1>1, WritesOwnFile
<1>3. /\ lock[req[p].rec] = p /\ received[req[p].rec] = req[p].off
      /\ req[p].off \in data[req[p].rec] /\ req[p].off \in Chunks
  BY <1>1, <1>2, RequestUpdates DEF WrittenInv
<1>4. ASSUME NEW r \in Recs, NEW c \in Chunks, c < received'[r] PROVE c \in data'[r]
  <2>1. CASE r = req[p].rec
    <3>1. c < req[p].off + 1 /\ c \in Nat /\ req[p].off \in Nat
      BY <1>1, <1>2, <1>3, <1>4, <2>1, ConstantsAssumption DEF TypeOK, TableType, Chunks
    <3>2. CASE c = req[p].off
      BY <1>1, <1>3, <2>1, <3>2
    <3>3. CASE c # req[p].off
      BY <1>1, <1>3, <2>1, <3>1, <3>3 DEF WrittenInv
    <3>4. QED BY <3>2, <3>3
  <2>2. CASE r # req[p].rec
    BY <1>1, <1>4, <2>2 DEF WrittenInv, TypeOK, TableType
  <2>3. QED BY <2>1, <2>2
<1>5. ASSUME NEW x \in Procs, pc'[x] \in {"wopen", "write", "commit"}
      PROVE  /\ lock'[req'[x].rec] = x /\ received'[req'[x].rec] = req'[x].off
             /\ pc'[x] = "commit" => req'[x].off \in data'[req'[x].ino]
  <2>1. x # p /\ pc'[x] = pc[x]
    BY <1>1, <1>5 DEF TypeOK, TaskType
  <2>2. lock[req[x].rec] = x /\ received[req[x].rec] = req[x].off /\ req[x].rec \in Recs
    BY <1>5, <2>1 DEF WrittenInv, TypeOK, TaskType, LocalsSet
  <2>3. req[x].rec # req[p].rec
    BY <1>3, <2>1, <2>2
  <2>4. QED
    BY <1>1, <1>5, <2>1, <2>2, <2>3 DEF WrittenInv, TypeOK, TableType, LockType
<1>6. QED BY <1>4, <1>5 DEF WrittenInv

\* The inductive step of WrittenInv.
LEMMA WrittenStep ==
    ASSUME TypeOK, OwnerInv, WrittenInv, [Next]_vars
    PROVE  WrittenInv'
<1> USE DEF sessionVars, tableVars, lockVars, resultVars, diskVars, envVars
<1>0. /\ pc \in [Procs -> Pcs] /\ req \in [Procs -> Request \cup {None}]
      /\ lock \in [Recs -> Procs \cup {None}] /\ data \in [Recs -> SUBSET Chunks]
  BY DEF TypeOK, TaskType, LockType, DiskType
<1>1. ASSUME UNCHANGED <<pc, req, lock, received>>, \A r \in Recs : data[r] \subseteq data'[r]
      PROVE  WrittenInv'
  <2>1. \A p \in Procs : pc[p] = "commit" => req[p].ino \in Recs
    BY DEF TypeOK, TaskType, LocalsSet
  <2>2. QED BY <1>1, <2>1 DEF WrittenInv
<1>2. ASSUME NEW p \in Procs, Return(p), received' = received, data' = data PROVE WrittenInv'
  <2>1. /\ Goto(p, "idle") /\ \A x \in Procs \ {p} : req'[x] = req[x]
        /\ \A r \in Recs : \A x \in Procs \ {p} : lock[r] = x => lock'[r] = x
    BY <1>0, <1>2 DEF Return
  <2>2. QED BY <1>2, <2>1, WrittenKept
<1>3. ASSUME NEW p \in Procs, UNCHANGED <<received, lock, data>>,
             NEW l \in Pcs \ {"wopen", "write", "commit"}, Goto(p, l),
             \A x \in Procs \ {p} : req'[x] = req[x]
      PROVE  WrittenInv'
  BY <1>3, WrittenKept
<1>4. ASSUME NEW p \in Procs, CreateUpload(p) PROVE WrittenInv'
  <2>1. CASE CreateUploadInsert(p) \/ CreateUploadAnswer(p)
    BY <1>2, <2>1 DEF CreateUploadInsert, CreateUploadAnswer
  <2>2. CASE CreateUploadLookup(p)
    BY <1>3, <2>2 DEF CreateUploadLookup, Pcs, AwaitPcs, LatePcs
  <2>3. CASE CreateUploadOpen(p)
    <3>1. Goto(p, "insert") /\ UNCHANGED <<received, lock, data>>
          /\ req' = [req EXCEPT ![p].rec = made + 1]
      BY <2>3 DEF CreateUploadOpen, FsCreate
    <3>2. \A x \in Procs \ {p} : req'[x] = req[x]
      BY <1>0, <3>1
    <3>3. QED BY <1>3, <3>1, <3>2 DEF Pcs
  <2>4. QED BY <1>4, <2>1, <2>2, <2>3 DEF CreateUpload
<1>5. ASSUME NEW p \in Procs, WriteUploadChunk(p) PROVE WrittenInv'
  <2>1. CASE WriteUploadChunkFind(p)
    <3>1. Goto(p, "lock") /\ UNCHANGED <<received, lock, data>>
          /\ req' = [req EXCEPT ![p].rec = uploads[req[p].id]]
      BY <2>1 DEF WriteUploadChunkFind
    <3>2. \A x \in Procs \ {p} : req'[x] = req[x]
      BY <1>0, <3>1
    <3>3. QED BY <1>3, <3>1, <3>2 DEF Pcs, AwaitPcs
  <2>2. CASE WriteUploadChunkLock(p)
    <3>1. /\ pc[p] = "lock" /\ Goto(p, "wopen") /\ UNCHANGED <<received, data, req>>
          /\ lock[req[p].rec] = None /\ req[p].off = received[req[p].rec]
          /\ lock' = [lock EXCEPT ![req[p].rec] = p]
      BY <2>2 DEF WriteUploadChunkLock, Free
    <3>2. req[p].rec \in Recs
      BY <3>1 DEF TypeOK, TaskType, LocalsSet
    <3>3. /\ lock'[req[p].rec] = p
          /\ \A r \in Recs : \A x \in Procs \ {p} : lock[r] = x => lock'[r] = x
      BY <1>0, <3>1, <3>2, ConstantsAssumption
    <3>4. QED BY <3>1, <3>3, WrittenKept
  <2>3. CASE WriteUploadChunkOpen(p)
    <3>1. /\ pc[p] = "wopen" /\ Goto(p, "write") /\ UNCHANGED <<received, data, lock>>
          /\ req' = [req EXCEPT ![p].ino = part[req[p].id]]
      BY <2>3 DEF WriteUploadChunkOpen
    <3>2. req[p] \in Request
      BY <3>1 DEF TypeOK, TaskType
    <3>3. /\ \A x \in Procs \ {p} : req'[x] = req[x]
          /\ req'[p].rec = req[p].rec /\ req'[p].off = req[p].off
      BY <1>0, <3>1, <3>2 DEF Request
    <3>4. lock[req[p].rec] = p /\ received[req[p].rec] = req[p].off
      BY <3>1 DEF WrittenInv
    <3>5. QED BY <3>1, <3>3, <3>4, WrittenKept
  <2>4. CASE WriteUploadChunkWrite(p)
    <3>1. /\ pc[p] = "write" /\ Goto(p, "commit") /\ UNCHANGED <<received, req, lock>>
          /\ data' = [data EXCEPT ![req[p].ino] = @ \cup {req[p].off}]
      BY <2>4 DEF WriteUploadChunkWrite, FsWrite
    <3>2. req[p].ino \in Recs
      BY <3>1 DEF TypeOK, TaskType, LocalsSet
    <3>3. /\ \A r \in Recs : data[r] \subseteq data'[r]
          /\ req[p].off \in data'[req[p].ino]
      BY <1>0, <3>1, <3>2
    <3>4. lock[req[p].rec] = p /\ received[req[p].rec] = req[p].off
      BY <3>1 DEF WrittenInv
    <3>5. QED BY <3>1, <3>3, <3>4, WrittenKept
  <2>5. CASE WriteUploadChunkCommit(p)
    BY <2>5, CommitWritten
  <2>6. CASE WriteUploadChunkAnswer(p)
    BY <1>2, <2>6 DEF WriteUploadChunkAnswer
  <2>7. QED BY <1>5, <2>1, <2>2, <2>3, <2>4, <2>5, <2>6 DEF WriteUploadChunk
<1>6. ASSUME NEW p \in Procs, CompleteUpload(p) PROVE WrittenInv'
  <2>1. CASE MoveCompletedShort(p) \/ CompleteUploadRecord(p) \/ CompleteUploadAnswer(p)
    BY <1>2, <2>1 DEF MoveCompletedShort, CompleteUploadRecord, CompleteUploadAnswer
  <2>2. CASE \/ CompleteUploadFinalize(p) \/ CompleteUploadFind(p) \/ CompleteUploadCheck(p)
             \/ CompleteUploadHash(p) \/ MoveCompletedFile(p) \/ MoveCompletedCopy(p)
             \/ MoveCompletedPublish(p) \/ MoveCompletedRemoveSource(p)
    <3> USE DEF CompleteUploadFinalize, CompleteUploadFind, CompleteUploadCheck,
         CompleteUploadHash, MoveCompletedFile, MoveCompletedCopy, MoveCompletedPublish,
         MoveCompletedRemoveSource
    <3>1. UNCHANGED <<received, lock, data>>
      BY <2>2 DEF FsMove, FsCopy, FsPublish, FsUnlink
    <3>2. PICK l \in {"ticket", "check", "hash", "copy", "move", "record", "publish", "rmsrc"} :
             Goto(p, l)
      BY <2>2
    <3>3. \A x \in Procs \ {p} : req'[x] = req[x]
      BY <1>0, <2>2
    <3>4. l \in Pcs \ {"wopen", "write", "commit"}
      BY DEF Pcs, AwaitPcs, LatePcs
    <3>5. QED BY <1>3, <3>1, <3>2, <3>3, <3>4
  <2>3. QED BY <1>6, <2>1, <2>2 DEF CompleteUpload
<1>7. ASSUME NEW p \in Procs, CancelUpload(p) PROVE WrittenInv'
  <2>1. CASE CancelUploadUnlink(p) \/ CancelUploadAnswer(p)
    BY <1>2, <2>1 DEF CancelUploadUnlink, CancelUploadAnswer, FsUnlink
  <2>2. CASE CancelUploadFind(p) \/ CancelUploadRemove(p)
    <3>1. UNCHANGED <<received, lock, data>>
      BY <2>2 DEF CancelUploadFind, CancelUploadRemove
    <3>2. PICK l \in {"cremove", "cwait"} : Goto(p, l)
      BY <2>2 DEF CancelUploadFind, CancelUploadRemove
    <3>3. \A x \in Procs \ {p} : req'[x] = req[x]
      BY <1>0, <2>2 DEF CancelUploadFind, CancelUploadRemove
    <3>4. QED BY <1>3, <3>1, <3>2, <3>3 DEF Pcs, AwaitPcs
  <2>3. CASE CancelUploadLock(p)
    <3>1. /\ pc[p] = "cwait" /\ Goto(p, "unlink") /\ UNCHANGED <<received, data, req>>
          /\ lock[req[p].rec] = None /\ lock' = [lock EXCEPT ![req[p].rec] = p]
      BY <2>3 DEF CancelUploadLock, Free
    <3>2. \A r \in Recs : \A x \in Procs \ {p} : lock[r] = x => lock'[r] = x
      BY <1>0, <3>1, ConstantsAssumption
    <3>3. QED BY <3>1, <3>2, WrittenKept
  <2>4. QED BY <1>7, <2>1, <2>2, <2>3 DEF CancelUpload
<1>8. ASSUME NEW p \in Procs, NEW op \in DOMAIN Entry, NEW id \in Ids, NEW off \in Chunks,
             Arrive(p, op, id, off)
      PROVE  WrittenInv'
  <2>1. UNCHANGED <<received, lock, data>> /\ Goto(p, Entry[op])
    BY <1>8 DEF Arrive
  <2>2. \A x \in Procs \ {p} : req'[x] = req[x]
    BY <1>0, <1>8 DEF Arrive
  <2>3. Entry[op] \in Pcs \ {"wopen", "write", "commit"}
    BY DEF Entry, Pcs, AwaitPcs, LatePcs
  <2>4. QED BY <1>3, <2>1, <2>2, <2>3
<1>9. ASSUME NEW p \in Procs, Drop(p) PROVE WrittenInv'
  BY <1>2, <1>9 DEF Drop
<1>10. ASSUME NEW o \in late, Late(o) PROVE WrittenInv'
  <2>1. UNCHANGED <<pc, req, lock, received>>
    BY <1>10 DEF Late
  <2>2. data' = data \/ data' = [data EXCEPT ![o.q.ino] = @ \cup {o.q.off}]
    BY <1>10 DEF Late, FsCreate, FsWrite, FsMove, FsCopy, FsPublish, FsUnlink
  <2>3. \A r \in Recs : data[r] \subseteq data'[r]
    BY <1>0, <2>2
  <2>4. QED BY <1>1, <2>1, <2>3
<1>11. CASE Pair \/ (\E e \in Enders : SessionEnd(e)) \/ UNCHANGED vars
  <2>1. UNCHANGED <<pc, req, lock, received, data>>
    BY <1>11 DEF vars, Pair, SessionEnd, StartEnd, DisconnectPeerClosed, CancelSessionCollect,
       CancelSessionUnlink, CancelSessionTickets, EndSession, FsUnlink
  <2>2. QED BY <1>1, <2>1
<1>12. QED
  BY <1>4, <1>5, <1>6, <1>7, <1>8, <1>9, <1>10, <1>11 DEF Next, Handler

\* Every chunk is in the part file that a completion moves or copies.
LEMMA SourceWhole ==
    ASSUME TypeOK, OwnerInv, WrittenInv, NEW q \in Request, q.rec \in Recs,
           \A own \in [Ids -> Recs \cup {None}] : Owner(own) => NamesOwn(own, q),
           received[q.rec] = Size, part[q.id] # None
    PROVE  data[part[q.id]] = Chunks
<1>1. PICK own \in [Ids -> Recs \cup {None}] : Owner(own)
  BY DEF OwnerInv
<1>2. q.id \in Ids /\ part[q.id] = q.rec
  BY <1>1, RequestUpdates, ConstantsAssumption DEF Owner, NamesOwn, Recs
<1>3. \A c \in Chunks : c \in data[q.rec]
  BY ConstantsAssumption DEF WrittenInv, Chunks
<1>4. QED BY <1>2, <1>3 DEF TypeOK, DiskType

\* The Inbox and the copies beside it, after a move and after a rename.
LEMMA MoveWhole ==
    ASSUME TypeOK, WholeInv, NEW q \in Request, part[q.id] # None => data[part[q.id]] = Chunks
    PROVE  /\ FsMove(q) => temp' = temp /\ PublishedWhole'
           /\ FsPublish(q) => PublishedWhole' /\ \A id \in Ids : temp'[id] \in {None, temp[id]}
           /\ FsCopy(q) => inbox' = inbox
                           /\ \A id \in Ids : temp'[id] # None => temp'[id].data = Chunks
<1>0. q.id \in Ids
  BY RequestUpdates
<1>1. ASSUME FsMove(q) PROVE temp' = temp /\ PublishedWhole'
  BY <1>1 DEF FsMove, TypeOK, DiskType, WholeInv, PublishedWhole
<1>2. ASSUME FsPublish(q)
      PROVE  PublishedWhole' /\ \A id \in Ids : temp'[id] \in {None, temp[id]}
  BY <1>0, <1>2 DEF FsPublish, TypeOK, DiskType, WholeInv, PublishedWhole
<1>3. ASSUME FsCopy(q)
      PROVE  inbox' = inbox /\ \A id \in Ids : temp'[id] # None => temp'[id].data = Chunks
  BY <1>3 DEF FsCopy, TypeOK, DiskType, WholeInv
<1>4. QED BY <1>1, <1>2, <1>3

\* A complete record stays complete: no chunk lies past the end.
LEMMA CompleteStays ==
    ASSUME TypeOK, WrittenInv, [Next]_vars
    PROVE  \A r \in Recs : received[r] = Size => received'[r] = Size
<1> USE DEF sessionVars, tableVars, lockVars, resultVars, diskVars, envVars
<1>1. ASSUME NEW p \in Procs, WriteUploadChunkCommit(p)
      PROVE  \A r \in Recs : received[r] = Size => received'[r] = Size
  <2>1. /\ pc[p] = "commit"
        /\ received' = [received EXCEPT ![req[p].rec] = req[p].off + 1]
    BY <1>1 DEF WriteUploadChunkCommit
  <2>2. received[req[p].rec] = req[p].off /\ req[p] \in Request
    BY <2>1 DEF WrittenInv, TypeOK, TaskType
  <2>3. received[req[p].rec] # Size
    BY <2>2, RequestUpdates, ConstantsAssumption DEF Chunks
  <2>4. QED BY <2>1, <2>3 DEF TypeOK, TableType
<1>2. CASE ~\E p \in Procs : WriteUploadChunkCommit(p)
  <2>1. received' = received
    BY <1>2, Writers
  <2>2. QED BY <2>1
<1>3. QED BY <1>1, <1>2

\* The inductive step of WholeInv.
LEMMA WholeStep ==
    ASSUME TypeOK, OwnerInv, WrittenInv, WholeInv, [Next]_vars
    PROVE  WholeInv'
<1> USE DEF sessionVars, tableVars, lockVars, resultVars, diskVars, envVars
<1> DEFINE Finishing == {"hash", "move", "copy"}
<1>0. /\ pc \in [Procs -> Pcs] /\ req \in [Procs -> Request \cup {None}]
      /\ \A r \in Recs : received[r] = Size => received'[r] = Size
      /\ \A x \in Procs : pc[x] \in Finishing => /\ req[x].rec \in Recs /\ req[x] \in Request
                                                 /\ received[req[x].rec] = Size
      /\ \A o \in late : o.pc \in {"move", "copy"} => /\ o.q.rec \in Recs /\ o.q \in Request
                                                      /\ received[o.q.rec] = Size
  BY CompleteStays DEF TypeOK, TaskType, EnvType, LocalsSet, WholeInv
\* Nothing enters the Inbox or the temporary paths, nobody starts to finish.
<1>1. ASSUME \A x \in Procs : pc'[x] \in Finishing =>
                pc[x] \in Finishing /\ req'[x].rec = req[x].rec,
             \A o \in late' : o \in late \/ \E x \in Procs :
                pc[x] = o.pc /\ req[x] = o.q,
             \A id \in Ids : temp'[id] # None => temp'[id].data = Chunks,
             PublishedWhole'
      PROVE  WholeInv'
  <2>1. \A x \in Procs : pc'[x] \in Finishing => received'[req'[x].rec] = Size
    BY <1>0, <1>1
  <2>2. \A o \in late' : o.pc \in {"move", "copy"} => received'[o.q.rec] = Size
    BY <1>0, <1>1
  <2>3. QED BY <1>1, <2>1, <2>2 DEF WholeInv
<1>2. ASSUME UNCHANGED inbox PROVE PublishedWhole'
  BY <1>2 DEF WholeInv, PublishedWhole
<1>3. ASSUME NEW p \in Procs, NEW l, l \notin {"hash", "copy", "move"}, Goto(p, l),
             \A x \in Procs \ {p} : req'[x] = req[x], late' = late,
             \A id \in Ids : temp'[id] # None => temp'[id].data = Chunks,
             PublishedWhole'
      PROVE  WholeInv'
  <2>1. \A x \in Procs : pc'[x] \in Finishing => pc[x] \in Finishing /\ req'[x].rec = req[x].rec
    BY <1>0, <1>3 DEF Goto
  <2>2. QED BY <1>1, <1>3, <2>1
<1>4. ASSUME NEW p \in Procs, NEW l, l \notin {"hash", "copy", "move"}, Goto(p, l),
             \A x \in Procs \ {p} : req'[x] = req[x], UNCHANGED <<late, temp, inbox>>
      PROVE  WholeInv'
  BY <1>2, <1>3, <1>4 DEF WholeInv
<1>5. ASSUME NEW p \in Procs, CreateUpload(p) \/ WriteUploadChunk(p) \/ CancelUpload(p)
      PROVE  WholeInv'
  <2> USE DEF CreateUpload, CreateUploadLookup, CreateUploadOpen, CreateUploadInsert,
       CreateUploadAnswer, WriteUploadChunk, WriteUploadChunkFind, WriteUploadChunkLock,
       WriteUploadChunkOpen, WriteUploadChunkWrite, WriteUploadChunkCommit,
       WriteUploadChunkAnswer, CancelUpload, CancelUploadFind, CancelUploadRemove,
       CancelUploadLock, CancelUploadUnlink, CancelUploadAnswer
  <2>1. UNCHANGED <<late, temp, inbox>>
    BY <1>5 DEF FsCreate, FsWrite, FsUnlink
  <2>2. PICK l \in {"open", "insert", "idle", "lock", "wopen", "write", "commit", "pace",
                    "cremove", "cwait", "unlink"} : Goto(p, l)
    BY <1>5 DEF Return
  <2>3. \A x \in Procs \ {p} : req'[x] = req[x]
    BY <1>0, <1>5 DEF Return
  <2>4. QED BY <1>4, <2>1, <2>2, <2>3
<1>6. ASSUME NEW p \in Procs,
             \/ CompleteUploadFinalize(p) \/ CompleteUploadFind(p) \/ CompleteUploadRecord(p)
             \/ CompleteUploadAnswer(p) \/ MoveCompletedRemoveSource(p)
      PROVE  WholeInv'
  <2> USE DEF CompleteUploadFinalize, CompleteUploadFind, CompleteUploadRecord,
       CompleteUploadAnswer, MoveCompletedRemoveSource
  <2>1. UNCHANGED <<late, temp, inbox>>
    BY <1>6 DEF FsUnlink
  <2>2. PICK l \in {"idle", "ticket", "check", "record"} : Goto(p, l)
    BY <1>6 DEF Return
  <2>3. \A x \in Procs \ {p} : req'[x] = req[x]
    BY <1>0, <1>6 DEF Return
  <2>4. QED BY <1>4, <2>1, <2>2, <2>3
<1>7. ASSUME NEW p \in Procs, CompleteUploadCheck(p) PROVE WholeInv'
  <2>1. /\ pc[p] = "check" /\ received[req[p].rec] = Size /\ Goto(p, "hash")
        /\ UNCHANGED <<received, req, late, temp, inbox>>
    BY <1>7 DEF CompleteUploadCheck
  <2>2. \A x \in Procs : pc'[x] \in Finishing => received'[req'[x].rec] = Size
    BY <1>0, <2>1 DEF Goto
  <2>3. QED BY <1>2, <2>1, <2>2 DEF WholeInv
<1>8. ASSUME NEW p \in Procs, CompleteUploadHash(p) PROVE WholeInv'
  <2>1. pc[p] = "hash" /\ UNCHANGED <<received, late, temp, inbox>>
    BY <1>8 DEF CompleteUploadHash
  <2>2. PICK l \in {"copy", "move"} : Goto(p, l)
    BY <1>8 DEF CompleteUploadHash
  <2>3. PICK d \in Slots : req' = [req EXCEPT ![p].slot = d]
    BY <1>8 DEF CompleteUploadHash
  <2>4. req'[p].rec = req[p].rec /\ \A x \in Procs \ {p} : req'[x] = req[x]
    BY <1>0, <2>1, <2>3 DEF Request
  <2>5. \A x \in Procs : pc'[x] \in Finishing => pc[x] \in Finishing /\ req'[x].rec = req[x].rec
    BY <1>0, <2>1, <2>2, <2>4 DEF Goto
  <2>6. QED BY <1>1, <1>2, <2>1, <2>5 DEF WholeInv
<1>9. ASSUME NEW p \in Procs, pc[p] \in {"move", "copy"}, part[req[p].id] # None
      PROVE  data[part[req[p].id]] = Chunks
  <2>1. \A own \in [Ids -> Recs \cup {None}] : Owner(own) => NamesOwn(own, req[p])
    BY <1>9 DEF Owner
  <2>2. QED BY <1>0, <1>9, <2>1, SourceWhole
<1>10. ASSUME NEW p \in Procs,
              MoveCompletedFile(p) \/ MoveCompletedCopy(p) \/ MoveCompletedPublish(p)
       PROVE  WholeInv'
  <2>1. req[p] \in Request /\ pc[p] \in {"move", "copy", "publish"}
    BY <1>10 DEF MoveCompletedFile, MoveCompletedCopy, MoveCompletedPublish, TypeOK, TaskType
  <2>2. UNCHANGED <<req, late>>
    BY <1>10 DEF MoveCompletedFile, MoveCompletedCopy, MoveCompletedPublish
  <2>3. PICK l \in {"record", "publish", "rmsrc"} : Goto(p, l)
    BY <1>10 DEF MoveCompletedFile, MoveCompletedCopy, MoveCompletedPublish
  <2>4. \/ FsMove(req[p]) /\ pc[p] = "move"
        \/ FsCopy(req[p]) /\ pc[p] = "copy"
        \/ FsPublish(req[p]) /\ pc[p] = "publish"
    BY <1>10 DEF MoveCompletedFile, MoveCompletedCopy, MoveCompletedPublish
  <2>5. PublishedWhole' /\ \A id \in Ids : temp'[id] # None => temp'[id].data = Chunks
    <3>1. CASE FsMove(req[p]) /\ pc[p] = "move"
      BY <1>9, <2>1, <3>1, MoveWhole DEF WholeInv
    <3>2. CASE FsCopy(req[p]) /\ pc[p] = "copy"
      BY <1>2, <1>9, <2>1, <3>2, MoveWhole
    <3>3. CASE FsPublish(req[p]) /\ pc[p] = "publish"
      BY <2>1, <3>3 DEF FsPublish, TypeOK, DiskType, WholeInv, PublishedWhole, Request
    <3>4. QED BY <2>4, <3>1, <3>2, <3>3
  <2>6. QED BY <1>3, <2>2, <2>3, <2>5
<1>11. ASSUME NEW p \in Procs, MoveCompletedShort(p) PROVE WholeInv'
  <2>1. /\ Return(p) /\ UNCHANGED <<late, inbox>>
        /\ temp' = [temp EXCEPT ![req[p].id] = None]
    BY <1>11 DEF MoveCompletedShort
  <2>2. \A x \in Procs \ {p} : req'[x] = req[x]
    BY <1>0, <2>1 DEF Return
  <2>3. \A id \in Ids : temp'[id] # None => temp'[id].data = Chunks
    BY <2>1 DEF WholeInv, TypeOK, DiskType
  <2>4. QED BY <1>2, <1>3, <2>1, <2>2, <2>3 DEF Return
<1>12. ASSUME NEW p \in Procs, NEW op \in DOMAIN Entry, NEW id \in Ids, NEW off \in Chunks,
             Arrive(p, op, id, off)
      PROVE  WholeInv'
  <2>1. UNCHANGED <<late, temp, inbox>> /\ Goto(p, Entry[op])
    BY <1>12 DEF Arrive
  <2>2. \A x \in Procs \ {p} : req'[x] = req[x]
    BY <1>0, <1>12 DEF Arrive
  <2>3. Entry[op] \notin {"hash", "copy", "move"}
    BY DEF Entry
  <2>4. QED BY <1>4, <2>1, <2>2, <2>3
<1>13. ASSUME NEW p \in Procs, Drop(p) PROVE WholeInv'
  <2>1. Return(p) /\ UNCHANGED <<temp, inbox>>
    BY <1>13 DEF Drop
  <2>2. \A x \in Procs : pc'[x] \in Finishing => pc[x] \in Finishing /\ req'[x].rec = req[x].rec
    BY <1>0, <2>1 DEF Return, Goto
  <2>3. \A o \in late' : o \in late \/ \E x \in Procs : pc[x] = o.pc /\ req[x] = o.q
    BY <1>13 DEF Drop
  <2>4. QED BY <1>1, <1>2, <2>1, <2>2, <2>3 DEF WholeInv
<1>14. ASSUME NEW o \in late, Late(o) PROVE WholeInv'
  <2>1. UNCHANGED <<pc, req>> /\ late' = late \ {o}
    BY <1>14 DEF Late
  <2>2. o.q \in Request
    BY DEF TypeOK, EnvType
  <2>3. ASSUME o.pc \in {"move", "copy"}, part[o.q.id] # None
        PROVE  data[part[o.q.id]] = Chunks
    <3>1. \A own \in [Ids -> Recs \cup {None}] : Owner(own) => NamesOwn(own, o.q)
      BY DEF Owner
    <3>2. QED BY <1>0, <2>2, <2>3, <3>1, SourceWhole
  <2>4. \/ UNCHANGED <<temp, inbox>>
        \/ FsMove(o.q) /\ o.pc = "move"
        \/ FsCopy(o.q) /\ o.pc = "copy"
        \/ FsPublish(o.q) /\ o.pc = "publish"
    BY <1>14 DEF Late, FsCreate, FsWrite, FsUnlink
  <2>5. PublishedWhole' /\ \A id \in Ids : temp'[id] # None => temp'[id].data = Chunks
    <3>1. CASE FsMove(o.q) /\ o.pc = "move"
      BY <2>2, <2>3, <3>1, MoveWhole DEF WholeInv
    <3>2. CASE FsCopy(o.q) /\ o.pc = "copy"
      BY <1>2, <2>2, <2>3, <3>2, MoveWhole
    <3>3. CASE FsPublish(o.q) /\ o.pc = "publish"
      BY <2>2, <3>3 DEF FsPublish, TypeOK, DiskType, WholeInv, PublishedWhole, Request
    <3>4. CASE UNCHANGED <<temp, inbox>>
      BY <1>2, <3>4 DEF WholeInv
    <3>5. QED BY <2>4, <3>1, <3>2, <3>3, <3>4
  <2>6. QED BY <1>1, <2>1, <2>5
<1>15. CASE Pair \/ (\E e \in Enders : SessionEnd(e)) \/ UNCHANGED vars
  <2>1. UNCHANGED <<pc, req, late, temp, inbox>>
    BY <1>15 DEF vars, Pair, SessionEnd, StartEnd, DisconnectPeerClosed, CancelSessionCollect,
       CancelSessionUnlink, CancelSessionTickets, EndSession, FsUnlink
  <2>2. QED BY <1>1, <1>2, <2>1 DEF WholeInv
<1>16. QED
  BY <1>5, <1>6, <1>7, <1>8, <1>10, <1>11, <1>12, <1>13, <1>14, <1>15
  DEF Next, Handler, CompleteUpload

\* At the start nothing is written or published.
LEMMA WholeInit == Init => WrittenInv /\ WholeInv
  BY ConstantsAssumption DEF Init, WrittenInv, WholeInv, PublishedWhole, Chunks

\* While no create request is repeated, every file of the Inbox has every chunk
\* of its upload, wherever clients go away, sessions end and uploads are
\* canceled, for any number of them: complete_upload checks the record's counter
\* and moves what the part path names, and both belong to one upload.
THEOREM InboxFilesWhole ==
    ASSUME ~Retries PROVE Spec => []PublishedWhole
<1>1. Init => OwnerInv /\ WrittenInv /\ WholeInv
  BY OwnerInit, WholeInit
<1>2. TypeOK /\ OwnerInv /\ WrittenInv /\ WholeInv /\ [Next]_vars
      => (OwnerInv /\ WrittenInv /\ WholeInv)'
  BY OwnerStep, WrittenStep, WholeStep
<1>3. WholeInv => PublishedWhole
  BY DEF WholeInv
<1>4. QED BY <1>1, <1>2, <1>3, TypeCorrect, PTL DEF Spec

-----------------------------------------------------------------------------
(* While no client goes away in the middle of a request, whoever leaves the  *)
(* staging directory and the table in disagreement is on the way to settle it. *)

\* A part file whose record is on its way into the table is there, and nobody
\* knows the record yet.
InsertInv ==
    \A p \in Procs : pc[p] = "insert" =>
        /\ part[req[p].id] # None /\ uploads[req[p].id] = None
        /\ \A e \in Enders : req[p].id \notin ender[e].todo
        /\ \A x \in Procs \ {p} :
              pc[x] # "idle" /\ req[x].id = req[p].id => req[x].rec = None

\* Somebody is about to make the staging directory and the table agree on id.
Settles(id) ==
    \/ \E p \in Procs : /\ pc[p] \in {"insert", "cwait", "unlink"} /\ req[p].id = id
                        /\ part[id] # None /\ uploads[id] = None
    \/ \E e \in Enders : /\ ender[e].pc = "unlink" /\ id \in ender[e].todo
                         /\ part[id] # None /\ uploads[id] = None
    \/ \E p \in Procs : /\ pc[p] = "record" /\ req[p].id = id
                        /\ part[id] = None /\ uploads[id] # None

\* A record somebody removes is in the table no more, and who has published an
\* upload has left no part file.
RemovedInv ==
    /\ \A p \in Procs : /\ pc[p] \in {"cwait", "unlink"} => uploads[req[p].id] = None
                        /\ pc[p] = "record" => part[req[p].id] = None
    /\ \A e \in Enders : \A id \in ender[e].todo : uploads[id] = None /\ ender[e].pc = "unlink"

StagingInv ==
    /\ late = {} /\ InsertInv /\ RemovedInv
    /\ \A id \in Ids : part[id] = uploads[id] \/ Settles(id)

\* Nothing happens to an id and to those who settle it.
LEMMA SettledKept ==
    ASSUME NEW id \in Ids, part[id] = uploads[id] \/ Settles(id),
           part'[id] = part[id], uploads'[id] = uploads[id],
           \A x \in Procs : /\ pc[x] \in {"insert", "cwait", "unlink"} /\ req[x].id = id
                            => pc'[x] \in {"insert", "cwait", "unlink"} /\ req'[x].id = id,
           \A x \in Procs : pc[x] = "record" /\ req[x].id = id
                            => pc'[x] = "record" /\ req'[x].id = id,
           \A e \in Enders : ender[e].pc = "unlink" /\ id \in ender[e].todo
                             => ender'[e].pc = "unlink" /\ id \in ender'[e].todo
    PROVE  part'[id] = uploads'[id] \/ Settles(id)'
  BY DEF Settles

\* A task moves on without making or inserting a record: what it takes off the
\* disk or out of the table belongs to its own upload.
LEMMA TaskSettles ==
    ASSUME TypeOK, StagingInv, NEW p \in Procs, NEW l, Goto(p, l),
           pc[p] # "insert", l # "insert",
           \A x \in Procs \ {p} : req'[x] = req[x],
           UNCHANGED <<late, ender>>,
           \A id \in Ids : part'[id] = part[id] \/ (part'[id] = None /\ id = req[p].id),
           \A id \in Ids : uploads'[id] = uploads[id] \/ (uploads'[id] = None /\ id = req[p].id),
           part' # part => pc[p] # "idle" /\ req[p].rec # None,
           l # "idle" => \A x \in Procs \ {p} :
                            pc[x] = "insert" /\ req[x].id = req'[p].id => req'[p].rec = None,
           l \in {"cwait", "unlink"} => uploads'[req'[p].id] = None,
           l = "record" => part'[req'[p].id] = None,
           \A id \in Ids : \/ id # req[p].id
                           \/ /\ part'[id] = part[id] /\ uploads'[id] = uploads[id]
                              /\ pc[p] \notin {"cwait", "unlink", "record"}
                           \/ part'[id] = uploads'[id] \/ Settles(id)'
    PROVE  StagingInv'
<1>0. pc'[p] = l /\ \A x \in Procs \ {p} : pc'[x] = pc[x] /\ req'[x] = req[x]
  BY DEF Goto, TypeOK, TaskType
<1>1. late' = {}
  BY DEF StagingInv
<1>2. InsertInv'
  <2> SUFFICES ASSUME NEW x \in Procs, pc'[x] = "insert"
               PROVE  /\ part'[req'[x].id] # None /\ uploads'[req'[x].id] = None
                      /\ \A e \in Enders : req'[x].id \notin ender'[e].todo
                      /\ \A y \in Procs \ {x} :
                            pc'[y] # "idle" /\ req'[y].id = req'[x].id => req'[y].rec = None
    BY DEF InsertInv
  <2>1. x # p /\ pc[x] = "insert" /\ req'[x] = req[x] /\ req[x].id \in Ids
    BY <1>0, RequestUpdates DEF TypeOK, TaskType
  <2>2. /\ part[req[x].id] # None /\ uploads[req[x].id] = None
        /\ \A e \in Enders : req[x].id \notin ender[e].todo
        /\ \A y \in Procs \ {x} : pc[y] # "idle" /\ req[y].id = req[x].id => req[y].rec = None
    BY <2>1 DEF StagingInv, InsertInv
  <2>3. part' # part => req[x].id # req[p].id
    BY <2>1, <2>2
  <2>4. part'[req'[x].id] # None /\ uploads'[req'[x].id] = None
    BY <2>1, <2>2, <2>3
  <2>5. ASSUME NEW y \in Procs \ {x}, pc'[y] # "idle", req'[y].id = req'[x].id
        PROVE  req'[y].rec = None
    <3>1. CASE y = p
      BY <1>0, <2>1, <2>5, <3>1
    <3>2. CASE y # p
      BY <1>0, <2>1, <2>2, <2>5, <3>2
    <3>3. QED BY <3>1, <3>2
  <2>6. QED BY <2>1, <2>2, <2>4, <2>5
<1>3. RemovedInv'
  <2>1. ASSUME NEW x \in Procs
        PROVE  /\ pc'[x] \in {"cwait", "unlink"} => uploads'[req'[x].id] = None
               /\ pc'[x] = "record" => part'[req'[x].id] = None
    <3>1. CASE x = p
      BY <1>0, <3>1
    <3>2. CASE x # p
      <4>1. pc[x] # "idle" => req[x].id \in Ids
        BY RequestUpdates DEF TypeOK, TaskType
      <4>2. QED BY <1>0, <3>2, <4>1 DEF StagingInv, RemovedInv
    <3>3. QED BY <3>1, <3>2
  <2>2. ASSUME NEW e \in Enders, NEW id \in ender'[e].todo
        PROVE  uploads'[id] = None /\ ender'[e].pc = "unlink"
    <3>1. id \in Ids
      BY <2>2 DEF TypeOK, SessionType
    <3>2. QED BY <2>2, <3>1 DEF StagingInv, RemovedInv
  <2>3. QED BY <2>1, <2>2 DEF RemovedInv
<1>4. ASSUME NEW id \in Ids PROVE part'[id] = uploads'[id] \/ Settles(id)'
  <2>1. CASE \/ id # req[p].id
             \/ /\ part'[id] = part[id] /\ uploads'[id] = uploads[id]
                /\ pc[p] \notin {"cwait", "unlink", "record"}
    <3>1. part'[id] = part[id] /\ uploads'[id] = uploads[id]
      BY <2>1
    <3>2. part[id] = uploads[id] \/ Settles(id)
      BY DEF StagingInv
    <3>3. \A x \in Procs : /\ pc[x] \in {"insert", "cwait", "unlink", "record"} /\ req[x].id = id
                           => x # p
      BY <2>1
    <3>4. QED BY <1>0, <3>1, <3>2, <3>3, SettledKept
  <2>2. QED BY <2>1
<1>5. QED BY <1>1, <1>2, <1>3, <1>4 DEF StagingInv

\* The part file of a new upload: its maker is on the way to insert the record.
LEMMA OpenSettles ==
    ASSUME TypeOK, OwnerInv, StagingInv, NEW p \in Procs, CreateUploadOpen(p)
    PROVE  StagingInv'
<1> USE DEF sessionVars, tableVars, lockVars, resultVars, diskVars, envVars
<1>1. PICK own \in [Ids -> Recs \cup {None}] : Owner(own) /\ Creators(own)
  BY DEF OwnerInv
<1>2. /\ pc[p] = "open" /\ pc' = [pc EXCEPT ![p] = "insert"]
      /\ req' = [req EXCEPT ![p].rec = made + 1]
      /\ part' = [part EXCEPT ![req[p].id] = made + 1]
      /\ UNCHANGED <<uploads, ender, late>>
  BY DEF CreateUploadOpen, FsCreate, Goto
<1>3. /\ req[p] \in Request /\ req[p].id \in Ids /\ own[req[p].id] = None
      /\ made + 1 # None
  BY <1>1, <1>2, RequestUpdates, ConstantsAssumption
  DEF TypeOK, TaskType, TableType, Creators, Creating
<1>4. /\ pc'[p] = "insert" /\ req'[p].id = req[p].id
      /\ \A x \in Procs \ {p} : pc'[x] = pc[x] /\ req'[x] = req[x]
      /\ part'[req[p].id] # None /\ \A id \in Ids : id # req[p].id => part'[id] = part[id]
  BY <1>2, <1>3 DEF TypeOK, TaskType, DiskType, Request
<1>5. ASSUME NEW x \in Procs, pc[x] # "idle", req[x].id = req[p].id
      PROVE  req[x].rec = None
  BY <1>1, <1>3, <1>5 DEF Owner, NamesOwn
<1>6. /\ uploads[req[p].id] = None
      /\ \A e \in Enders : req[p].id \notin ender[e].todo
  BY <1>1, <1>3 DEF Owner
<1>7. \A x \in Procs : pc[x] \in {"insert", "cwait", "unlink", "record"} =>
         req[x].rec # None /\ req[x].id \in Ids
  BY ConstantsAssumption, RequestUpdates DEF TypeOK, TaskType, LocalsSet, Recs
<1>8. InsertInv'
  <2> SUFFICES ASSUME NEW x \in Procs, pc'[x] = "insert"
               PROVE  /\ part'[req'[x].id] # None /\ uploads'[req'[x].id] = None
                      /\ \A e \in Enders : req'[x].id \notin ender'[e].todo
                      /\ \A y \in Procs \ {x} :
                            pc'[y] # "idle" /\ req'[y].id = req'[x].id => req'[y].rec = None
    BY DEF InsertInv
  <2>1. CASE x = p
    BY <1>2, <1>4, <1>5, <1>6, <2>1
  <2>2. CASE x # p
    <3>1. /\ pc[x] = "insert" /\ req'[x] = req[x] /\ req[x].id # req[p].id
          /\ req[x].id \in Ids
      BY <1>4, <1>5, <1>7, <2>2
    <3>2. /\ part[req[x].id] # None /\ uploads[req[x].id] = None
          /\ \A e \in Enders : req[x].id \notin ender[e].todo
          /\ \A y \in Procs \ {x} : pc[y] # "idle" /\ req[y].id = req[x].id => req[y].rec = None
      BY <3>1 DEF StagingInv, InsertInv
    <3>3. QED BY <1>2, <1>4, <3>1, <3>2
  <2>3. QED BY <2>1, <2>2
<1>9. RemovedInv'
  <2>1. ASSUME NEW x \in Procs
        PROVE  /\ pc'[x] \in {"cwait", "unlink"} => uploads'[req'[x].id] = None
               /\ pc'[x] = "record" => part'[req'[x].id] = None
    BY <1>2, <1>4, <1>5, <1>7 DEF StagingInv, RemovedInv
  <2>2. QED BY <1>2, <2>1 DEF StagingInv, RemovedInv
<1>10. ASSUME NEW id \in Ids PROVE part'[id] = uploads'[id] \/ Settles(id)'
  <2>1. CASE id = req[p].id
    BY <1>2, <1>4, <1>6, <2>1 DEF Settles
  <2>2. CASE id # req[p].id
    BY <1>2, <1>4, <2>2, SettledKept DEF StagingInv
  <2>3. QED BY <2>1, <2>2
<1>11. QED BY <1>2, <1>8, <1>9, <1>10 DEF StagingInv

\* The record of a new upload enters the table: nobody has touched it before.
LEMMA InsertSettles ==
    ASSUME TypeOK, OwnerInv, StagingInv, NEW p \in Procs, CreateUploadInsert(p)
    PROVE  StagingInv'
<1> USE DEF sessionVars, tableVars, lockVars, resultVars, diskVars, envVars
<1>1. PICK own \in [Ids -> Recs \cup {None}] : Owner(own)
  BY DEF OwnerInv
<1>2. /\ pc[p] = "insert" /\ pc' = [pc EXCEPT ![p] = "idle"]
      /\ req' = [req EXCEPT ![p] = None]
      /\ uploads' = [uploads EXCEPT ![req[p].id] = req[p].rec]
      /\ UNCHANGED <<part, ender, late>>
  BY DEF CreateUploadInsert, Return, Goto
<1>3. /\ req[p] \in Request /\ req[p].id \in Ids
      /\ part[req[p].id] # None /\ uploads[req[p].id] = None
      /\ \A e \in Enders : req[p].id \notin ender[e].todo
      /\ \A x \in Procs \ {p} : pc[x] # "idle" /\ req[x].id = req[p].id => req[x].rec = None
  BY <1>2, RequestUpdates DEF TypeOK, TaskType, StagingInv, InsertInv
<1>4. /\ pc'[p] = "idle" /\ \A x \in Procs \ {p} : pc'[x] = pc[x] /\ req'[x] = req[x]
      /\ uploads'[req[p].id] = req[p].rec
      /\ \A id \in Ids : id # req[p].id => uploads'[id] = uploads[id]
  BY <1>2, <1>3 DEF TypeOK, TaskType, TableType
<1>5. part[req[p].id] = req[p].rec
  <2>1. NamesOwn(own, req[p]) /\ req[p].rec \in Recs
    BY <1>1, <1>2 DEF Owner, TypeOK, TaskType, LocalsSet
  <2>2. req[p].rec = own[req[p].id]
    BY <2>1, ConstantsAssumption DEF NamesOwn, Recs
  <2>3. QED BY <1>1, <1>3, <2>2 DEF Owner
<1>6. ASSUME NEW x \in Procs \ {p}, pc[x] \in {"insert", "cwait", "unlink", "record"}
      PROVE  req[x].id # req[p].id /\ req[x].id \in Ids
  BY <1>3, <1>6, ConstantsAssumption, RequestUpdates DEF TypeOK, TaskType, LocalsSet, Recs
<1>7. InsertInv'
  <2> SUFFICES ASSUME NEW x \in Procs, pc'[x] = "insert"
               PROVE  /\ part'[req'[x].id] # None /\ uploads'[req'[x].id] = None
                      /\ \A e \in Enders : req'[x].id \notin ender'[e].todo
                      /\ \A y \in Procs \ {x} :
                            pc'[y] # "idle" /\ req'[y].id = req'[x].id => req'[y].rec = None
    BY DEF InsertInv
  <2>1. x # p /\ pc[x] = "insert" /\ req'[x] = req[x]
    BY <1>4
  <2>2. req[x].id # req[p].id /\ req[x].id \in Ids
    BY <1>6, <2>1
  <2>3. /\ part[req[x].id] # None /\ uploads[req[x].id] = None
        /\ \A e \in Enders : req[x].id \notin ender[e].todo
        /\ \A y \in Procs \ {x} : pc[y] # "idle" /\ req[y].id = req[x].id => req[y].rec = None
    BY <2>1 DEF StagingInv, InsertInv
  <2>4. QED BY <1>2, <1>4, <2>1, <2>2, <2>3
<1>8. RemovedInv'
  <2>1. ASSUME NEW x \in Procs
        PROVE  /\ pc'[x] \in {"cwait", "unlink"} => uploads'[req'[x].id] = None
               /\ pc'[x] = "record" => part'[req'[x].id] = None
    BY <1>2, <1>4, <1>6 DEF StagingInv, RemovedInv
  <2>2. ASSUME NEW e \in Enders, NEW id \in ender'[e].todo
        PROVE  uploads'[id] = None /\ ender'[e].pc = "unlink"
    <3>1. id \in Ids /\ id # req[p].id
      BY <1>2, <1>3, <2>2 DEF TypeOK, SessionType
    <3>2. QED BY <1>2, <1>4, <2>2, <3>1 DEF StagingInv, RemovedInv
  <2>3. QED BY <2>1, <2>2 DEF RemovedInv
<1>9. ASSUME NEW id \in Ids PROVE part'[id] = uploads'[id] \/ Settles(id)'
  <2>1. CASE id = req[p].id
    BY <1>2, <1>4, <1>5, <2>1
  <2>2. CASE id # req[p].id
    BY <1>2, <1>4, <2>2, SettledKept DEF StagingInv
  <2>3. QED BY <2>1, <2>2
<1>10. QED BY <1>2, <1>7, <1>8, <1>9 DEF StagingInv

\* A session ends: the records it takes out of the table go to its list first.
LEMMA SessionSettles ==
    ASSUME TypeOK, StagingInv, NEW e \in Enders, SessionEnd(e)
    PROVE  StagingInv'
<1> USE DEF sessionVars, tableVars, lockVars, resultVars, diskVars, envVars
<1>0. /\ ender \in [Enders -> [pc : {"idle", "close", "collect", "unlink", "session"},
                               sid : Sids, todo : SUBSET Ids]]
      /\ late = {} /\ InsertInv /\ RemovedInv
      /\ \A id \in Ids : part[id] = uploads[id] \/ Settles(id)
      /\ \A x \in Procs : pc[x] # "idle" => req[x].id \in Ids
  BY RequestUpdates DEF TypeOK, SessionType, TaskType, StagingInv
<1>1. UNCHANGED <<pc, req, late>>
  BY DEF SessionEnd, StartEnd, DisconnectPeerClosed, CancelSessionCollect,
     CancelSessionUnlink, CancelSessionTickets, EndSession
\* The list of the session end that does not collect or remove is empty.
<1>2. ASSUME UNCHANGED <<part, uploads>>, ender'[e].todo = {},
             \A f \in Enders \ {e} : ender'[f] = ender[f],
             ender[e].pc = "unlink" => ender[e].todo = {}
      PROVE  StagingInv'
  <2>1. \A f \in Enders : ender'[f].todo \subseteq ender[f].todo
    BY <1>2
  <2>2. InsertInv'
    BY <1>0, <1>1, <1>2, <2>1 DEF InsertInv
  <2>3. RemovedInv'
    BY <1>0, <1>1, <1>2 DEF RemovedInv
  <2>4. ASSUME NEW id \in Ids PROVE part'[id] = uploads'[id] \/ Settles(id)'
    BY <1>0, <1>1, <1>2, SettledKept
  <2>5. QED BY <1>0, <1>1, <2>2, <2>3, <2>4 DEF StagingInv
<1>3. CASE StartEnd(e)
  BY <1>0, <1>2, <1>3 DEF StartEnd
<1>4. CASE DisconnectPeerClosed(e)
  <2>1. ender[e].pc = "close" /\ ender[e].todo = {}
    BY <1>0, <1>4 DEF DisconnectPeerClosed, RemovedInv
  <2>2. QED BY <1>0, <1>2, <1>4, <2>1 DEF DisconnectPeerClosed
<1>5. CASE CancelSessionTickets(e)
  <2>1. ender'[e].todo = {} /\ ender[e].todo = {} /\ \A f \in Enders \ {e} : ender'[f] = ender[f]
    BY <1>0, <1>5 DEF CancelSessionTickets, NotEnding
  <2>2. QED BY <1>2, <1>5, <2>1 DEF CancelSessionTickets
<1>6. CASE EndSession(e)
  BY <1>0, <1>2, <1>6 DEF EndSession, NotEnding
<1>7. CASE CancelSessionCollect(e)
  <2> DEFINE mine == {id \in Ids : UploadRecord(id, ender[e].sid)}
  <2>1. /\ ender[e].pc = "collect" /\ part' = part
        /\ uploads' = [id \in Ids |-> IF id \in mine THEN None ELSE uploads[id]]
        /\ ender' = [ender EXCEPT ![e].pc = "unlink", ![e].todo = mine]
    BY <1>7 DEF CancelSessionCollect
  <2>2. \A id \in mine : uploads[id] # None
    BY DEF UploadRecord
  <2>3. ender'[e].pc = "unlink" /\ ender'[e].todo = mine /\ \A f \in Enders \ {e} : ender'[f] = ender[f]
    BY <1>0, <2>1
  <2> HIDE DEF mine
  <2>4. \A id \in Ids : /\ id \in mine => uploads'[id] = None
                        /\ id \notin mine => uploads'[id] = uploads[id]
    BY <2>1
  <2>5. InsertInv'
    <3> SUFFICES ASSUME NEW x \in Procs, pc[x] = "insert"
                 PROVE  /\ part'[req[x].id] # None /\ uploads'[req[x].id] = None
                        /\ \A f \in Enders : req[x].id \notin ender'[f].todo
                        /\ \A y \in Procs \ {x} :
                              pc[y] # "idle" /\ req[y].id = req[x].id => req[y].rec = None
      BY <1>1 DEF InsertInv
    <3>1. /\ part[req[x].id] # None /\ uploads[req[x].id] = None /\ req[x].id \in Ids
          /\ \A f \in Enders : req[x].id \notin ender[f].todo
          /\ \A y \in Procs \ {x} : pc[y] # "idle" /\ req[y].id = req[x].id => req[y].rec = None
      BY <1>0 DEF InsertInv
    <3>2. req[x].id \notin mine
      BY <2>2, <3>1
    <3>3. part'[req[x].id] # None /\ uploads'[req[x].id] = None
      BY <2>1, <2>4, <3>1, <3>2
    <3>4. \A f \in Enders : req[x].id \notin ender'[f].todo
      BY <2>3, <3>1, <3>2
    <3>5. QED BY <3>1, <3>3, <3>4
  <2>6. RemovedInv'
    <3>1. ASSUME NEW x \in Procs
          PROVE  /\ pc'[x] \in {"cwait", "unlink"} => uploads'[req'[x].id] = None
                 /\ pc'[x] = "record" => part'[req'[x].id] = None
      BY <1>0, <1>1, <2>1, <2>4 DEF RemovedInv
    <3>2. ASSUME NEW f \in Enders, NEW id \in ender'[f].todo
          PROVE  uploads'[id] = None /\ ender'[f].pc = "unlink"
      <4>1. CASE f = e
        BY <2>3, <2>4, <3>2, <4>1 DEF mine
      <4>2. CASE f # e
        <5>1. ender'[f] = ender[f] /\ id \in Ids
          BY <1>0, <2>3, <3>2, <4>2
        <5>2. uploads[id] = None /\ ender[f].pc = "unlink"
          BY <1>0, <3>2, <5>1 DEF RemovedInv
        <5>3. QED BY <2>4, <5>1, <5>2
      <4>3. QED BY <4>1, <4>2
    <3>3. QED BY <3>1, <3>2 DEF RemovedInv
  <2>7. ASSUME NEW id \in Ids PROVE part'[id] = uploads'[id] \/ Settles(id)'
    <3>1. CASE id \in mine
      BY <2>1, <2>3, <2>4, <3>1 DEF Settles
    <3>2. CASE id \notin mine
      <4>1. part'[id] = part[id] /\ uploads'[id] = uploads[id]
        BY <2>1, <2>4, <3>2
      <4>2. \A f \in Enders : ender[f].pc = "unlink" => ender'[f] = ender[f]
        BY <2>1, <2>3
      <4>3. QED BY <1>0, <1>1, <4>1, <4>2, SettledKept
    <3>3. QED BY <3>1, <3>2
  <2>8. QED BY <1>0, <1>1, <2>5, <2>6, <2>7 DEF StagingInv
<1>8. ASSUME NEW i \in Ids, CancelSessionUnlink(e, i) PROVE StagingInv'
  <2>1. /\ ender[e].pc = "unlink" /\ i \in ender[e].todo /\ uploads' = uploads
        /\ part' = [part EXCEPT ![i] = None]
        /\ ender' = [ender EXCEPT ![e].todo = @ \ {i}]
    BY <1>8 DEF CancelSessionUnlink, FsUnlink
  <2>2. /\ ender'[e].pc = "unlink" /\ ender'[e].todo = ender[e].todo \ {i}
        /\ \A f \in Enders \ {e} : ender'[f] = ender[f]
    BY <1>0, <2>1
  <2>3. part'[i] = None /\ \A id \in Ids : id # i => part'[id] = part[id]
    BY <2>1 DEF TypeOK, DiskType
  <2>4. uploads[i] = None
    BY <1>0, <2>1 DEF RemovedInv
  <2>5. \A f \in Enders : ender'[f].todo \subseteq ender[f].todo /\ ender'[f].pc = ender[f].pc
    BY <2>1, <2>2
  <2>6. InsertInv'
    <3> SUFFICES ASSUME NEW x \in Procs, pc[x] = "insert"
                 PROVE  /\ part'[req[x].id] # None /\ uploads'[req[x].id] = None
                        /\ \A f \in Enders : req[x].id \notin ender'[f].todo
                        /\ \A y \in Procs \ {x} :
                              pc[y] # "idle" /\ req[y].id = req[x].id => req[y].rec = None
      BY <1>1 DEF InsertInv
    <3>1. /\ part[req[x].id] # None /\ uploads[req[x].id] = None /\ req[x].id \in Ids
          /\ \A f \in Enders : req[x].id \notin ender[f].todo
          /\ \A y \in Procs \ {x} : pc[y] # "idle" /\ req[y].id = req[x].id => req[y].rec = None
      BY <1>0 DEF InsertInv
    <3>2. req[x].id # i
      BY <2>1, <3>1
    <3>3. QED BY <2>1, <2>3, <2>5, <3>1, <3>2
  <2>7. RemovedInv'
    <3>1. ASSUME NEW x \in Procs
          PROVE  /\ pc'[x] \in {"cwait", "unlink"} => uploads'[req'[x].id] = None
                 /\ pc'[x] = "record" => part'[req'[x].id] = None
      BY <1>0, <1>1, <2>1, <2>3 DEF RemovedInv
    <3>2. QED BY <1>0, <2>1, <2>5, <3>1 DEF RemovedInv
  <2>8. ASSUME NEW id \in Ids PROVE part'[id] = uploads'[id] \/ Settles(id)'
    <3>1. CASE id = i
      BY <2>1, <2>3, <2>4, <3>1
    <3>2. CASE id # i
      <4>1. \A f \in Enders : ender[f].pc = "unlink" /\ id \in ender[f].todo
                              => ender'[f].pc = "unlink" /\ id \in ender'[f].todo
        BY <2>1, <2>2, <3>2
      <4>2. QED BY <1>0, <1>1, <2>1, <2>3, <3>2, <4>1, SettledKept
    <3>3. QED BY <3>1, <3>2
  <2>9. QED BY <1>0, <1>1, <2>6, <2>7, <2>8 DEF StagingInv
<1>9. QED BY <1>3, <1>4, <1>5, <1>6, <1>7, <1>8 DEF SessionEnd

\* The inductive step.
LEMMA StagingStep ==
    ASSUME TypeOK, OwnerInv, drops = 0 => StagingInv, [Next]_vars, drops' = 0
    PROVE  StagingInv'
<1> USE DEF sessionVars, tableVars, lockVars, resultVars, diskVars, envVars
<1>0. drops = 0 /\ StagingInv /\ late = {} /\ ~\E p \in Procs : Drop(p)
  <2>1. ~\E p \in Procs : Drop(p)
    BY DEF Drop, TypeOK, EnvType
  <2>2. drops = 0
    BY <2>1, Writers
  <2>3. QED BY <2>1, <2>2 DEF StagingInv
<1>1. /\ pc \in [Procs -> Pcs] /\ req \in [Procs -> Request \cup {None}]
      /\ \A x \in Procs : pc[x] # "idle" => req[x] \in Request /\ req[x].id \in Ids
      /\ \A x \in Procs : pc[x] \in {"move", "rmsrc", "unlink"} => req[x].rec # None
      /\ InsertInv /\ RemovedInv
  BY <1>0, RequestUpdates, ConstantsAssumption DEF TypeOK, TaskType, LocalsSet, Recs, StagingInv
\* A task that changes neither the staging directory nor the table.
<1>2. ASSUME NEW p \in Procs, NEW l \in Pcs \ {"insert", "cwait", "unlink", "record"}, Goto(p, l),
             pc[p] \notin {"insert", "cwait", "unlink", "record"},
             \A x \in Procs \ {p} : req'[x] = req[x], UNCHANGED <<part, uploads, late, ender>>,
             l # "idle" => \A x \in Procs \ {p} :
                              pc[x] = "insert" /\ req[x].id = req'[p].id => req'[p].rec = None
      PROVE  StagingInv'
  BY <1>0, <1>2, TaskSettles
<1>3. ASSUME NEW p \in Procs, pc[p] # "idle", req'[p].id = req[p].id, req'[p].rec = req[p].rec
      PROVE  \A x \in Procs \ {p} : pc[x] = "insert" /\ req[x].id = req'[p].id => req'[p].rec = None
  BY <1>1, <1>3 DEF InsertInv
<1>4. ASSUME NEW p \in Procs, \/ CreateUploadAnswer(p) \/ WriteUploadChunkAnswer(p)
                              \/ CompleteUploadAnswer(p) \/ CancelUploadAnswer(p)
                              \/ MoveCompletedShort(p)
      PROVE  StagingInv'
  <2>1. Return(p) /\ UNCHANGED <<part, uploads, late, ender>>
    BY <1>4 DEF CreateUploadAnswer, WriteUploadChunkAnswer, CompleteUploadAnswer,
       CancelUploadAnswer, MoveCompletedShort
  <2>2. pc[p] \notin {"insert", "cwait", "unlink", "record"}
    BY <1>4 DEF CreateUploadAnswer, WriteUploadChunkAnswer, CompleteUploadAnswer,
       CancelUploadAnswer, MoveCompletedShort
  <2>3. \A x \in Procs \ {p} : req'[x] = req[x]
    BY <1>1, <2>1 DEF Return
  <2>4. "idle" \in Pcs \ {"insert", "cwait", "unlink", "record"}
    BY DEF Pcs
  <2>5. QED BY <1>2, <2>1, <2>2, <2>3, <2>4 DEF Return
<1>5. ASSUME NEW p \in Procs,
             \/ CreateUploadLookup(p) \/ WriteUploadChunkLock(p) \/ WriteUploadChunkWrite(p)
             \/ WriteUploadChunkCommit(p) \/ CompleteUploadFinalize(p) \/ CompleteUploadCheck(p)
             \/ MoveCompletedCopy(p) \/ MoveCompletedPublish(p)
      PROVE  StagingInv'
  <2> USE DEF CreateUploadLookup, WriteUploadChunkLock, WriteUploadChunkWrite,
       WriteUploadChunkCommit, CompleteUploadFinalize, CompleteUploadCheck, MoveCompletedCopy,
       MoveCompletedPublish
  <2>1. UNCHANGED <<part, uploads, late, ender, req>>
    BY <1>5 DEF FsWrite, FsCopy, FsPublish
  <2>2. pc[p] \notin {"idle", "insert", "cwait", "unlink", "record"}
    BY <1>5
  <2>3. PICK l \in {"open", "wopen", "commit", "pace", "ticket", "hash", "publish", "rmsrc"} :
           Goto(p, l)
    BY <1>5
  <2>4. l \in Pcs \ {"insert", "cwait", "unlink", "record"}
    BY DEF Pcs, AwaitPcs, LatePcs
  <2> HIDE DEF CreateUploadLookup, WriteUploadChunkLock, WriteUploadChunkWrite,
       WriteUploadChunkCommit, CompleteUploadFinalize, CompleteUploadCheck, MoveCompletedCopy,
       MoveCompletedPublish
  <2>5. QED BY <1>2, <1>3, <2>1, <2>2, <2>3, <2>4
<1>6. ASSUME NEW p \in Procs, WriteUploadChunkOpen(p) \/ CompleteUploadHash(p)
      PROVE  StagingInv'
  <2>1. UNCHANGED <<part, uploads, late, ender>> /\ pc[p] \in {"wopen", "hash"}
    BY <1>6 DEF WriteUploadChunkOpen, CompleteUploadHash
  <2>2. PICK l \in {"write", "copy", "move"} : Goto(p, l)
    BY <1>6 DEF WriteUploadChunkOpen, CompleteUploadHash
  <2>3. \/ req' = [req EXCEPT ![p].ino = part[req[p].id]]
        \/ \E d \in Slots : req' = [req EXCEPT ![p].slot = d]
    BY <1>6 DEF WriteUploadChunkOpen, CompleteUploadHash
  <2>4. /\ \A x \in Procs \ {p} : req'[x] = req[x]
        /\ req'[p].id = req[p].id /\ req'[p].rec = req[p].rec
    BY <1>1, <2>1, <2>3 DEF Request
  <2>5. l \in Pcs \ {"insert", "cwait", "unlink", "record"}
    BY DEF Pcs, AwaitPcs, LatePcs
  <2>6. QED BY <1>2, <1>3, <2>1, <2>2, <2>4, <2>5
<1>7. ASSUME NEW p \in Procs,
             WriteUploadChunkFind(p) \/ CompleteUploadFind(p) \/ CancelUploadFind(p)
      PROVE  StagingInv'
  <2>1. UNCHANGED <<part, uploads, late, ender>> /\ pc[p] \in {"find", "ticket", "cfind"}
    BY <1>7 DEF WriteUploadChunkFind, CompleteUploadFind, CancelUploadFind
  <2>2. PICK l \in {"lock", "check", "cremove"} : Goto(p, l)
    BY <1>7 DEF WriteUploadChunkFind, CompleteUploadFind, CancelUploadFind
  <2>3. uploads[req[p].id] # None /\ req' = [req EXCEPT ![p].rec = uploads[req[p].id]]
    BY <1>7 DEF WriteUploadChunkFind, CompleteUploadFind, CancelUploadFind, UploadRecord
  <2>4. (\A x \in Procs \ {p} : req'[x] = req[x]) /\ req'[p].id = req[p].id
    BY <1>1, <2>1, <2>3 DEF Request
  <2>5. \A x \in Procs \ {p} : pc[x] = "insert" => req[x].id # req'[p].id
    BY <1>1, <2>3, <2>4 DEF InsertInv
  <2>6. l \in Pcs \ {"insert", "cwait", "unlink", "record"}
    BY DEF Pcs, AwaitPcs, LatePcs
  <2>7. QED BY <1>2, <2>1, <2>2, <2>4, <2>5, <2>6
<1>8. ASSUME NEW p \in Procs, MoveCompletedFile(p) \/ MoveCompletedRemoveSource(p)
      PROVE  StagingInv'
  <2>1. /\ pc[p] \in {"move", "rmsrc"} /\ Goto(p, "record")
        /\ UNCHANGED <<uploads, late, ender, req>>
        /\ part' = [part EXCEPT ![req[p].id] = None]
    BY <1>8 DEF MoveCompletedFile, MoveCompletedRemoveSource, FsMove, FsUnlink
  <2>2. /\ pc'[p] = "record" /\ part'[req[p].id] = None /\ req[p].id \in Ids
        /\ \A id \in Ids : id # req[p].id => part'[id] = part[id]
    BY <1>1, <2>1 DEF Goto, TypeOK, DiskType
  <2>3. part'[req[p].id] = uploads'[req[p].id] \/ Settles(req[p].id)'
    BY <2>1, <2>2 DEF Settles
  <2>4. req[p].rec # None /\ pc[p] # "idle" /\ pc[p] # "insert"
    BY <1>1, <2>1
  <2>5. \A id \in Ids : id = req[p].id => part'[id] = uploads'[id] \/ Settles(id)'
    BY <2>1, <2>3
  <2>6. QED BY <1>0, <1>3, <2>1, <2>2, <2>4, <2>5, TaskSettles
<1>9. ASSUME NEW p \in Procs, CompleteUploadRecord(p) PROVE StagingInv'
  <2>1. /\ pc[p] = "record" /\ Return(p) /\ UNCHANGED <<part, late, ender>>
        /\ uploads' = [uploads EXCEPT ![req[p].id] = None]
    BY <1>9 DEF CompleteUploadRecord
  <2>2. /\ uploads'[req[p].id] = None /\ part[req[p].id] = None
        /\ \A id \in Ids : id # req[p].id => uploads'[id] = uploads[id]
    BY <1>1, <2>1 DEF TypeOK, TableType, RemovedInv
  <2>3. \A x \in Procs \ {p} : req'[x] = req[x]
    BY <1>1, <2>1 DEF Return
  <2>4. QED BY <1>0, <2>1, <2>2, <2>3, TaskSettles DEF Return
<1>10. ASSUME NEW p \in Procs, CancelUploadRemove(p) PROVE StagingInv'
  <2>1. /\ pc[p] = "cremove" /\ Goto(p, "cwait") /\ UNCHANGED <<part, late, ender, req>>
        /\ uploads' = [uploads EXCEPT ![req[p].id] = None]
    BY <1>10 DEF CancelUploadRemove
  <2>2. /\ pc'[p] = "cwait" /\ uploads'[req[p].id] = None /\ req[p].id \in Ids
        /\ \A id \in Ids : id # req[p].id => uploads'[id] = uploads[id]
    BY <1>1, <2>1 DEF Goto, TypeOK, TableType
  <2>3. \A id \in Ids : id = req[p].id => part'[id] = uploads'[id] \/ Settles(id)'
    BY <2>1, <2>2 DEF Settles
  <2>4. QED BY <1>0, <1>3, <2>1, <2>2, <2>3, TaskSettles
<1>11. ASSUME NEW p \in Procs, CancelUploadLock(p) PROVE StagingInv'
  <2>1. pc[p] = "cwait" /\ Goto(p, "unlink") /\ UNCHANGED <<part, uploads, late, ender, req>>
    BY <1>11 DEF CancelUploadLock
  <2>2. pc'[p] = "unlink" /\ uploads[req[p].id] = None /\ req[p].id \in Ids
    BY <1>1, <2>1 DEF Goto, RemovedInv
  <2>3. \A id \in Ids : id = req[p].id => part'[id] = uploads'[id] \/ Settles(id)'
    BY <2>1, <2>2 DEF Settles
  <2>4. QED BY <1>0, <1>3, <2>1, <2>2, <2>3, TaskSettles
<1>12. ASSUME NEW p \in Procs, CancelUploadUnlink(p) PROVE StagingInv'
  <2>1. /\ pc[p] = "unlink" /\ Return(p) /\ UNCHANGED <<uploads, late, ender>>
        /\ part' = [part EXCEPT ![req[p].id] = None]
    BY <1>12 DEF CancelUploadUnlink, FsUnlink
  <2>2. /\ uploads[req[p].id] = None /\ part'[req[p].id] = None
        /\ \A id \in Ids : id # req[p].id => part'[id] = part[id]
        /\ req[p].rec # None
    BY <1>1, <2>1 DEF TypeOK, DiskType, RemovedInv
  <2>3. \A x \in Procs \ {p} : req'[x] = req[x]
    BY <1>1, <2>1 DEF Return
  <2>4. QED BY <1>0, <2>1, <2>2, <2>3, TaskSettles DEF Return
<1>13. ASSUME NEW p \in Procs, NEW op \in DOMAIN Entry, NEW i \in Ids, NEW off \in Chunks,
              Arrive(p, op, i, off)
       PROVE  StagingInv'
  <2>1. /\ pc[p] = "idle" /\ Goto(p, Entry[op]) /\ UNCHANGED <<part, uploads, late, ender>>
        /\ req' = [req EXCEPT ![p] = [id |-> i, sid |-> sid, off |-> off, rec |-> None,
                                      ino |-> None, slot |-> None]]
    BY <1>13 DEF Arrive
  <2>2. req'[p].rec = None /\ \A x \in Procs \ {p} : req'[x] = req[x]
    BY <1>1, <2>1
  <2>3. Entry[op] \in Pcs \ {"insert", "cwait", "unlink", "record"}
    BY DEF Entry, Pcs, AwaitPcs, LatePcs
  <2>4. QED BY <1>2, <2>1, <2>2, <2>3
<1>14. CASE Pair \/ UNCHANGED vars
  <2>1. UNCHANGED <<part, uploads, ender, pc, req, late>>
    BY <1>14 DEF Pair, vars
  <2>2. QED BY <1>0, <2>1 DEF StagingInv, InsertInv, RemovedInv, Settles
<1>15. ASSUME NEW p \in Procs, Handler(p) PROVE StagingInv'
  BY <1>0, <1>4, <1>5, <1>6, <1>7, <1>8, <1>9, <1>10, <1>11, <1>12, <1>15, OpenSettles,
     InsertSettles
  DEF Handler, CreateUpload, WriteUploadChunk, CompleteUpload, CancelUpload
<1>16. QED BY <1>0, <1>13, <1>14, <1>15, SessionSettles DEF Next

\* While no create request is repeated and no client goes away in the middle of
\* its request, a quiet manager has exactly the part files of its records, for
\* any number of concurrent creates, chunks, completions, cancellations and
\* session ends.
THEOREM StagingSettled ==
    ASSUME ~Retries PROVE Spec => []NoStagingLeak
<1>1. Init => OwnerInv /\ (drops = 0 => StagingInv)
  BY OwnerInit DEF Init, StagingInv, InsertInv, RemovedInv, NotEnding
<1>2. TypeOK /\ OwnerInv /\ (drops = 0 => StagingInv) /\ [Next]_vars
      => (OwnerInv /\ (drops = 0 => StagingInv))'
  BY OwnerStep, StagingStep
<1>3. TypeOK /\ (drops = 0 => StagingInv) => NoStagingLeak
  <2> SUFFICES ASSUME TypeOK, StagingInv, Quiet PROVE part = uploads
    BY DEF NoStagingLeak
  <2>1. ASSUME NEW id \in Ids PROVE part[id] = uploads[id]
    BY DEF StagingInv, Settles, Quiet
  <2>2. QED BY <2>1 DEF TypeOK, DiskType, TableType
<1>4. QED BY <1>1, <1>2, <1>3, TypeCorrect, PTL DEF Spec

-----------------------------------------------------------------------------
(* While no create request is repeated and no client goes away, complete_upload *)
(* implements Inbox: a finalizing task finds the Inbox as unique_destination   *)
(* saw it, and no part file or copy of a delivered upload is left to deliver.  *)

\* The staging files whose content was put in the Inbox.
DeliveredFiles == {x[2] : x \in published}

\* Two uploads never share a record.
OwnDistinct(own) ==
    /\ \A i, j \in Ids : own[i] # None /\ own[i] = own[j] => i = j
    /\ \A i \in Ids : own[i] # None => own[i] <= made

\* The path chosen for the finalizing upload is still the first free one.
StillFirst ==
    \A p \in Procs : pc[p] \in {"move", "copy", "publish"} => UniqueDestination(req[p].slot)

\* A copy beside the Inbox is the one its finalizer is about to rename.
CopyInv(own) ==
    \A id \in Ids : temp[id] # None =>
        /\ temp[id].ino = own[id]
        /\ \E p \in Procs : pc[p] = "publish" /\ req[p].id = id

\* Of a delivered upload nothing is left but the source its finalizer removes.
LeftInv(own) ==
    \A x \in published :
        /\ x[2] = own[x[1]] /\ temp[x[1]] = None
        /\ part[x[1]] = None \/ \E p \in Procs : pc[p] = "rmsrc" /\ req[p].id = x[1]

\* Who has delivered and not yet counted makes the difference.
CountInv ==
    /\ IsFiniteSet(DeliveredFiles)
    /\ uploads_completed <= Cardinality(DeliveredFiles)
    /\ \A p \in Procs : pc[p] \in {"rmsrc", "record"} =>
          uploads_completed < Cardinality(DeliveredFiles)

DeliverInv ==
    /\ StillFirst /\ CountInv
    /\ \E own \in [Ids -> Recs \cup {None}] :
          /\ Owner(own) /\ Creators(own)
          /\ OwnDistinct(own) /\ CopyInv(own) /\ LeftInv(own)

\* The places of complete_upload from unique_destination to the bookkeeping.
DeliverPcs == {"move", "copy", "publish", "rmsrc", "record"}

\* Nobody moves in or out of these places, and nothing but part files goes away.
LEMMA DeliverKept ==
    ASSUME TypeOK, StillFirst, CountInv, NEW own, CopyInv(own), LeftInv(own),
           \A x \in Procs : pc[x] \in DeliverPcs \/ pc'[x] \in DeliverPcs
                            => pc'[x] = pc[x] /\ req'[x] = req[x],
           UNCHANGED <<inbox, temp, published, uploads_completed>>,
           \A id \in Ids : part'[id] \in {None, part[id]}
    PROVE  StillFirst' /\ CountInv' /\ CopyInv(own)' /\ LeftInv(own)'
<1>1. StillFirst'
  BY DEF StillFirst, UniqueDestination, DeliverPcs
<1>2. CountInv'
  BY DEF CountInv, DeliveredFiles, DeliverPcs
<1>3. CopyInv(own)'
  BY DEF CopyInv, DeliverPcs
<1>4. LeftInv(own)'
  <2> SUFFICES ASSUME NEW x \in published
               PROVE  /\ x[2] = own[x[1]] /\ temp'[x[1]] = None
                      /\ \/ part'[x[1]] = None
                         \/ \E p \in Procs : pc'[p] = "rmsrc" /\ req'[p].id = x[1]
    BY DEF LeftInv
  <2>1. x[1] \in Ids
    BY DEF TypeOK, DiskType
  <2>2. QED BY <2>1 DEF LeftInv, DeliverPcs
<1>5. QED BY <1>1, <1>2, <1>3, <1>4

\* The finalizing task is alone: what the invariants say of somebody, they say of it.
LEMMA FinalizerView ==
    ASSUME TypeOK, FinalizeInv, NEW own, CopyInv(own), LeftInv(own),
           NEW p \in Procs, pc[p] \in FinalizePcs
    PROVE  /\ \A x \in Procs \ {p} : pc[x] \notin FinalizePcs
           /\ \A id \in Ids : temp[id] # None =>
                 temp[id].ino = own[id] /\ pc[p] = "publish" /\ req[p].id = id
           /\ \A x \in published : /\ x[2] = own[x[1]] /\ temp[x[1]] = None
                                   /\ \/ part[x[1]] = None
                                      \/ pc[p] = "rmsrc" /\ req[p].id = x[1]
<1>1. \A x \in Procs \ {p} : pc[x] \notin FinalizePcs
  BY DEF FinalizeInv, DestinationReserved
<1>2. QED BY <1>1 DEF CopyInv, LeftInv, FinalizePcs

\* It moves on from place to place: the invariants, for it alone.
LEMMA FinalizerMoves ==
    ASSUME TypeOK, NEW own, NEW p \in Procs, NEW l,
           Goto(p, l), \A x \in Procs \ {p} : pc[x] \notin FinalizePcs,
           l \in {"move", "copy", "publish"} => UniqueDestination(req[p].slot)',
           \A id \in Ids : temp'[id] # None =>
              temp'[id].ino = own[id] /\ l = "publish" /\ req'[p].id = id,
           \A x \in published' : /\ x[2] = own[x[1]] /\ temp'[x[1]] = None
                                 /\ part'[x[1]] = None \/ (l = "rmsrc" /\ req'[p].id = x[1])
    PROVE  StillFirst' /\ CopyInv(own)' /\ LeftInv(own)'
<1>1. pc'[p] = l /\ \A x \in Procs \ {p} : pc'[x] \notin FinalizePcs
  BY DEF Goto, TypeOK, TaskType
<1>2. StillFirst'
  BY <1>1 DEF StillFirst, FinalizePcs
<1>3. CopyInv(own)'
  BY <1>1 DEF CopyInv
<1>4. LeftInv(own)'
  BY <1>1 DEF LeftInv
<1>5. QED BY <1>2, <1>3, <1>4

\* A file is delivered that was not: one more, and nothing counted yet.
LEMMA OneMore ==
    ASSUME CountInv, TypeOK, NEW f, f \notin DeliveredFiles, NEW i, NEW d,
           published' = published \cup {<<i, f, d>>}, uploads_completed' = uploads_completed
    PROVE  /\ DeliveredFiles' = DeliveredFiles \cup {f}
           /\ IsFiniteSet(DeliveredFiles')
           /\ uploads_completed' < Cardinality(DeliveredFiles')
<1>1. DeliveredFiles' = DeliveredFiles \cup {f}
  <2>1. DeliveredFiles \subseteq DeliveredFiles'
    BY DEF DeliveredFiles
  <2>2. <<i, f, d>> \in published' /\ <<i, f, d>>[2] = f
    OBVIOUS
  <2>3. f \in DeliveredFiles'
    BY <2>2 DEF DeliveredFiles
  <2>4. ASSUME NEW y \in DeliveredFiles' PROVE y \in DeliveredFiles \cup {f}
    <3>1. PICK x \in published' : y = x[2]
      BY <2>4 DEF DeliveredFiles
    <3>2. QED BY <2>2, <3>1 DEF DeliveredFiles
  <2>5. QED BY <2>1, <2>3, <2>4
<1>2. Cardinality(DeliveredFiles) \in Nat /\ IsFiniteSet(DeliveredFiles)
  BY FS_CardinalityType DEF CountInv
<1>3. /\ IsFiniteSet(DeliveredFiles \cup {f})
      /\ Cardinality(DeliveredFiles \cup {f}) = Cardinality(DeliveredFiles) + 1
  BY <1>2, FS_AddElement
<1>4. uploads_completed \in Nat /\ uploads_completed <= Cardinality(DeliveredFiles)
  BY DEF TypeOK, ResultType, CountInv
<1>5. QED BY <1>1, <1>2, <1>3, <1>4

\* What a step promises to the Inbox.
InboxStep == [AtomicInbox!Next]_<<inbox, DeliveredFiles, uploads_completed>>

\* The rename of the part file: a delivery.
LEMMA MoveDelivers ==
    ASSUME TypeOK, OwnerInv, WrittenInv, WholeInv, FinalizeInv, StillFirst, CountInv,
           NEW own \in [Ids -> Recs \cup {None}], Owner(own), OwnDistinct(own),
           CopyInv(own), LeftInv(own), NEW p \in Procs, MoveCompletedFile(p)
    PROVE  StillFirst' /\ CountInv' /\ CopyInv(own)' /\ LeftInv(own)' /\ InboxStep
<1> USE DEF sessionVars, tableVars, lockVars, resultVars, diskVars, envVars
<1> DEFINE id == req[p].id
           f  == part[req[p].id]
           d  == req[p].slot
<1>1. /\ pc[p] = "move" /\ Goto(p, "record") /\ req' = req /\ temp' = temp
      /\ uploads_completed' = uploads_completed
      /\ f # None /\ part' = [part EXCEPT ![id] = None]
      /\ inbox' = [inbox EXCEPT ![d] = [ino |-> f, data |-> data[f]]]
      /\ published' = published \cup {<<id, f, d>>}
  BY DEF MoveCompletedFile, FsMove
<1>2. req[p] \in Request /\ req[p].rec \in Recs /\ d \in Slots /\ id \in Ids
  BY <1>1, RequestUpdates DEF TypeOK, TaskType, LocalsSet
<1>3. f \in Recs /\ f = own[id]
  BY <1>1, <1>2 DEF TypeOK, DiskType, Owner
<1>4. data[f] = Chunks
  <2>1. \A o \in [Ids -> Recs \cup {None}] : Owner(o) => NamesOwn(o, req[p])
    BY <1>1 DEF Owner
  <2>2. received[req[p].rec] = Size
    BY <1>1 DEF WholeInv
  <2>3. QED BY <1>1, <1>2, <2>1, <2>2, SourceWhole
<1>5. /\ \A x \in Procs \ {p} : pc[x] \notin FinalizePcs
      /\ \A i \in Ids : temp[i] = None
      /\ \A x \in published : x[2] = own[x[1]] /\ temp[x[1]] = None /\ part[x[1]] = None
  BY <1>1, FinalizerView DEF FinalizePcs
<1> HIDE DEF id, f, d
<1>6. f \notin DeliveredFiles
  <2> SUFFICES ASSUME NEW x \in published, x[2] = f PROVE FALSE
    BY DEF DeliveredFiles
  <2>1. x[1] \in Ids /\ own[x[1]] = own[id] /\ own[id] # None
    BY <1>1, <1>3, <1>5 DEF TypeOK, DiskType
  <2>2. x[1] = id
    BY <1>2, <2>1 DEF OwnDistinct
  <2>3. QED BY <1>1, <1>5, <2>2 DEF f, id
<1>7. /\ DeliveredFiles' = DeliveredFiles \cup {f} /\ IsFiniteSet(DeliveredFiles')
      /\ uploads_completed' < Cardinality(DeliveredFiles')
  BY <1>1, <1>6, OneMore
<1>8. CountInv'
  <2>1. uploads_completed' \in Nat /\ Cardinality(DeliveredFiles') \in Nat
    BY <1>1, <1>7, FS_CardinalityType DEF TypeOK, ResultType
  <2>2. QED BY <1>7, <2>1 DEF CountInv
<1>9. \A x \in published' : x[2] = own[x[1]] /\ temp'[x[1]] = None /\ part'[x[1]] = None
  <2> SUFFICES ASSUME NEW x \in published'
               PROVE  x[2] = own[x[1]] /\ temp'[x[1]] = None /\ part'[x[1]] = None
    OBVIOUS
  <2>1. CASE x \in published
    <3>1. x[1] \in Ids
      BY <2>1 DEF TypeOK, DiskType
    <3>2. QED BY <1>1, <1>5, <2>1, <3>1 DEF TypeOK, DiskType
  <2>2. CASE x = <<id, f, d>>
    BY <1>1, <1>2, <1>3, <1>5, <2>2 DEF TypeOK, DiskType
  <2>3. QED BY <1>1, <2>1, <2>2
<1>10. StillFirst' /\ CopyInv(own)' /\ LeftInv(own)'
  BY <1>1, <1>5, <1>9, FinalizerMoves
<1>11. InboxStep
  <2>1. UniqueDestination(d)
    BY <1>1 DEF StillFirst, d
  <2>2. PICK g \in Recs, e \in Slots : g = f /\ e = d
    BY <1>2, <1>3
  <2>3. AtomicInbox!Deliver(g, e)
    BY <1>1, <1>4, <1>6, <1>7, <2>1, <2>2
    DEF AtomicInbox!Deliver, AtomicInbox!FirstFree, UniqueDestination, DeliveredFiles
  <2>4. AtomicInbox!Next
    BY <2>3 DEF AtomicInbox!Next
  <2>5. QED BY <2>4 DEF InboxStep
<1>12. QED BY <1>8, <1>10, <1>11

\* The rename of the copy: a delivery too, and its source is still there.
LEMMA PublishDelivers ==
    ASSUME TypeOK, WholeInv, FinalizeInv, StillFirst, CountInv,
           NEW own \in [Ids -> Recs \cup {None}], OwnDistinct(own),
           CopyInv(own), LeftInv(own), NEW p \in Procs, MoveCompletedPublish(p)
    PROVE  StillFirst' /\ CountInv' /\ CopyInv(own)' /\ LeftInv(own)' /\ InboxStep
<1> USE DEF sessionVars, tableVars, lockVars, resultVars, diskVars, envVars
<1> DEFINE id == req[p].id
           f  == temp[req[p].id].ino
           d  == req[p].slot
<1>1. /\ pc[p] = "publish" /\ Goto(p, "rmsrc") /\ req' = req /\ part' = part
      /\ uploads_completed' = uploads_completed
      /\ temp[id] # None /\ temp' = [temp EXCEPT ![id] = None]
      /\ inbox' = [inbox EXCEPT ![d] = temp[id]]
      /\ published' = published \cup {<<id, f, d>>}
  BY DEF MoveCompletedPublish, FsPublish
<1>2. req[p] \in Request /\ d \in Slots /\ id \in Ids
  BY <1>1, RequestUpdates DEF TypeOK, TaskType, LocalsSet
<1>3. /\ \A x \in Procs \ {p} : pc[x] \notin FinalizePcs
      /\ \A i \in Ids : temp[i] # None => temp[i].ino = own[i] /\ i = id
      /\ \A x \in published : x[2] = own[x[1]] /\ temp[x[1]] = None /\ part[x[1]] = None
  BY <1>1, FinalizerView DEF FinalizePcs
<1>4. /\ temp[id] \in File /\ f \in Recs /\ f = own[id]
      /\ temp[id] = [ino |-> f, data |-> Chunks]
  BY <1>1, <1>2, <1>3 DEF TypeOK, DiskType, File, WholeInv
<1> HIDE DEF id, f, d
<1>5. f \notin DeliveredFiles
  <2> SUFFICES ASSUME NEW x \in published, x[2] = f PROVE FALSE
    BY DEF DeliveredFiles
  <2>1. x[1] \in Ids /\ own[x[1]] = own[id] /\ own[id] # None
    BY <1>3, <1>4, ConstantsAssumption DEF TypeOK, DiskType, Recs
  <2>2. x[1] = id
    BY <1>2, <2>1 DEF OwnDistinct
  <2>3. QED BY <1>1, <1>3, <2>2
<1>6. /\ DeliveredFiles' = DeliveredFiles \cup {f} /\ IsFiniteSet(DeliveredFiles')
      /\ uploads_completed' < Cardinality(DeliveredFiles')
  BY <1>1, <1>5, OneMore
<1>7. CountInv'
  <2>1. uploads_completed' \in Nat /\ Cardinality(DeliveredFiles') \in Nat
    BY <1>1, <1>6, FS_CardinalityType DEF TypeOK, ResultType
  <2>2. QED BY <1>6, <2>1 DEF CountInv
<1>8. \A i \in Ids : temp'[i] = None
  BY <1>1, <1>3 DEF TypeOK, DiskType
<1>9. \A x \in published' : /\ x[2] = own[x[1]] /\ temp'[x[1]] = None
                            /\ part'[x[1]] = None \/ req'[p].id = x[1]
  <2> SUFFICES ASSUME NEW x \in published'
               PROVE  /\ x[2] = own[x[1]] /\ temp'[x[1]] = None
                      /\ part'[x[1]] = None \/ req'[p].id = x[1]
    OBVIOUS
  <2>1. CASE x \in published
    <3>1. x[1] \in Ids
      BY <2>1 DEF TypeOK, DiskType
    <3>2. QED BY <1>1, <1>3, <1>8, <2>1, <3>1
  <2>2. CASE x = <<id, f, d>>
    BY <1>1, <1>2, <1>4, <1>8, <2>2 DEF id
  <2>3. QED BY <1>1, <2>1, <2>2
<1>10. StillFirst' /\ CopyInv(own)' /\ LeftInv(own)'
  BY <1>1, <1>3, <1>8, <1>9, FinalizerMoves
<1>11. InboxStep
  <2>1. UniqueDestination(d)
    BY <1>1 DEF StillFirst, d
  <2>2. PICK g \in Recs, e \in Slots : g = f /\ e = d
    BY <1>2, <1>4
  <2>3. AtomicInbox!Deliver(g, e)
    BY <1>1, <1>4, <1>5, <1>6, <2>1, <2>2
    DEF AtomicInbox!Deliver, AtomicInbox!FirstFree, UniqueDestination, DeliveredFiles
  <2>4. AtomicInbox!Next
    BY <2>3 DEF AtomicInbox!Next
  <2>5. QED BY <2>4 DEF InboxStep
<1>12. QED BY <1>7, <1>10, <1>11

\* Inbox counts with its own copy of the standard module.
LEMMA SameCount ==
    ASSUME NEW S PROVE AtomicInbox!Cardinality(S) = Cardinality(S)
  BY DEF AtomicInbox!Cardinality, Cardinality

\* The other steps of the finalizing task: nothing is delivered.
LEMMA FinalizerSteps ==
    ASSUME TypeOK, FinalizeInv, StillFirst, CountInv,
           NEW own \in [Ids -> Recs \cup {None}], Owner(own), CopyInv(own), LeftInv(own),
           NEW p \in Procs,
           \/ CompleteUploadHash(p) \/ MoveCompletedCopy(p) \/ MoveCompletedShort(p)
           \/ MoveCompletedRemoveSource(p) \/ CompleteUploadRecord(p)
           \/ CompleteUploadAnswer(p)
    PROVE  StillFirst' /\ CountInv' /\ CopyInv(own)' /\ LeftInv(own)' /\ InboxStep
<1> USE DEF sessionVars, tableVars, lockVars, resultVars, diskVars, envVars
<1>0. /\ pc[p] \in FinalizePcs /\ inbox' = inbox /\ published' = published
      /\ pc[p] # "idle" => req[p] \in Request /\ req[p].id \in Ids
      /\ \A x \in published : x[1] \in Ids
  BY RequestUpdates
  DEF CompleteUploadHash, MoveCompletedCopy, MoveCompletedShort, MoveCompletedRemoveSource,
      CompleteUploadRecord, CompleteUploadAnswer, FsCopy, FsUnlink, FinalizePcs, TypeOK,
      TaskType, DiskType
<1>1. /\ \A x \in Procs \ {p} : pc[x] \notin FinalizePcs
      /\ \A id \in Ids : temp[id] # None =>
            temp[id].ino = own[id] /\ pc[p] = "publish" /\ req[p].id = id
      /\ \A x \in published : /\ x[2] = own[x[1]] /\ temp[x[1]] = None
                              /\ \/ part[x[1]] = None
                                 \/ pc[p] = "rmsrc" /\ req[p].id = x[1]
  BY <1>0, FinalizerView
<1>2. ASSUME NEW l, Goto(p, l), uploads_completed' = uploads_completed,
             l \in {"rmsrc", "record"} => uploads_completed < Cardinality(DeliveredFiles)
      PROVE  CountInv'
  <2>1. pc'[p] = l /\ \A x \in Procs \ {p} : pc'[x] \notin {"rmsrc", "record"}
    BY <1>1, <1>2 DEF Goto, TypeOK, TaskType, FinalizePcs
  <2>2. DeliveredFiles' = DeliveredFiles
    BY <1>0 DEF DeliveredFiles
  <2>3. QED BY <1>2, <2>1, <2>2 DEF CountInv
<1>3. ASSUME uploads_completed' = uploads_completed PROVE InboxStep
  BY <1>0, <1>3 DEF InboxStep, DeliveredFiles
<1>4. CASE CompleteUploadHash(p)
  <2>1. pc[p] = "hash" /\ UNCHANGED <<part, temp, uploads_completed>>
    BY <1>4 DEF CompleteUploadHash
  <2>2. PICK d \in Slots : UniqueDestination(d) /\ req' = [req EXCEPT ![p].slot = d]
    BY <1>4 DEF CompleteUploadHash
  <2>3. PICK l \in {"copy", "move"} : Goto(p, l)
    BY <1>4 DEF CompleteUploadHash
  <2>4. req'[p].slot = d
    BY <1>0, <2>1, <2>2, RequestUpdates DEF TypeOK, TaskType
  <2>5. UniqueDestination(req[p].slot)'
    BY <1>0, <2>2, <2>4 DEF UniqueDestination
  <2>6. StillFirst' /\ CopyInv(own)' /\ LeftInv(own)'
    BY <1>0, <1>1, <2>1, <2>3, <2>5, FinalizerMoves
  <2>7. QED BY <1>2, <1>3, <2>1, <2>3, <2>6
<1>5. CASE MoveCompletedCopy(p)
  <2>1. /\ pc[p] = "copy" /\ Goto(p, "publish") /\ UNCHANGED <<part, req, uploads_completed>>
        /\ part[req[p].id] # None
        /\ temp' = [temp EXCEPT ![req[p].id] =
                       [ino |-> part[req[p].id], data |-> data[part[req[p].id]]]]
    BY <1>5 DEF MoveCompletedCopy, FsCopy
  <2>2. req[p].id \in Ids /\ part[req[p].id] = own[req[p].id]
    BY <1>0, <2>1 DEF Owner
  <2>3. \A id \in Ids : temp'[id] # None => temp'[id].ino = own[id] /\ req'[p].id = id
    BY <1>1, <2>1, <2>2 DEF TypeOK, DiskType
  <2>4. \A x \in published : x[1] # req[p].id
    BY <1>1, <2>1
  <2>5. \A x \in published' : x[2] = own[x[1]] /\ temp'[x[1]] = None /\ part'[x[1]] = None
    BY <1>0, <1>1, <2>1, <2>4 DEF TypeOK, DiskType
  <2>6. UniqueDestination(req[p].slot)'
    BY <1>0, <2>1 DEF StillFirst, UniqueDestination
  <2>7. StillFirst' /\ CopyInv(own)' /\ LeftInv(own)'
    BY <1>1, <2>1, <2>3, <2>5, <2>6, FinalizerMoves
  <2>8. QED BY <1>2, <1>3, <2>1, <2>7
<1>6. CASE MoveCompletedShort(p)
  <2>1. /\ pc[p] = "copy" /\ Goto(p, "idle") /\ UNCHANGED <<part, uploads_completed>>
        /\ temp' = [temp EXCEPT ![req[p].id] = None]
    BY <1>6 DEF MoveCompletedShort, Return
  <2>2. \A id \in Ids : temp'[id] = None
    BY <1>1, <2>1 DEF TypeOK, DiskType
  <2>3. \A x \in published' : x[2] = own[x[1]] /\ temp'[x[1]] = None /\ part'[x[1]] = None
    BY <1>0, <1>1, <2>1, <2>2
  <2>4. StillFirst' /\ CopyInv(own)' /\ LeftInv(own)'
    BY <1>1, <2>1, <2>2, <2>3, FinalizerMoves
  <2>5. QED BY <1>2, <1>3, <2>1, <2>4
<1>7. CASE MoveCompletedRemoveSource(p)
  <2>1. /\ pc[p] = "rmsrc" /\ Goto(p, "record") /\ UNCHANGED <<temp, uploads_completed>>
        /\ part' = [part EXCEPT ![req[p].id] = None]
    BY <1>7 DEF MoveCompletedRemoveSource, FsUnlink
  <2>2. \A id \in Ids : temp'[id] = None
    BY <1>1, <2>1
  <2>3. \A x \in published' : x[2] = own[x[1]] /\ temp'[x[1]] = None /\ part'[x[1]] = None
    BY <1>0, <1>1, <2>1, <2>2 DEF TypeOK, DiskType
  <2>4. StillFirst' /\ CopyInv(own)' /\ LeftInv(own)'
    BY <1>1, <2>1, <2>2, <2>3, FinalizerMoves
  <2>5. uploads_completed < Cardinality(DeliveredFiles)
    BY <2>1 DEF CountInv
  <2>6. QED BY <1>2, <1>3, <2>1, <2>4, <2>5
<1>8. CASE CompleteUploadRecord(p)
  <2>1. /\ pc[p] = "record" /\ Goto(p, "idle") /\ UNCHANGED <<part, temp>>
        /\ uploads_completed' = uploads_completed + 1
    BY <1>8 DEF CompleteUploadRecord, Return
  <2>2. StillFirst' /\ CopyInv(own)' /\ LeftInv(own)'
    BY <1>0, <1>1, <2>1, FinalizerMoves
  <2>3. DeliveredFiles' = DeliveredFiles
    BY <1>0 DEF DeliveredFiles
  <2>4. /\ uploads_completed < Cardinality(DeliveredFiles) /\ uploads_completed \in Nat
        /\ IsFiniteSet(DeliveredFiles) /\ Cardinality(DeliveredFiles) \in Nat
    BY <2>1, FS_CardinalityType DEF CountInv, TypeOK, ResultType
  <2>5. \A x \in Procs : pc'[x] \notin {"rmsrc", "record"}
    BY <1>1, <2>1 DEF Goto, TypeOK, TaskType, FinalizePcs
  <2>6. CountInv'
    BY <2>1, <2>3, <2>4, <2>5 DEF CountInv
  <2>7. AtomicInbox!Acknowledge
    <3>1. uploads_completed < AtomicInbox!Cardinality({x[2] : x \in published})
      BY <2>4, SameCount DEF DeliveredFiles
    <3>2. UNCHANGED <<inbox, {x[2] : x \in published}>>
      BY <1>0
    <3>3. QED BY <2>1, <3>1, <3>2 DEF AtomicInbox!Acknowledge
  <2>8. QED BY <2>2, <2>6, <2>7 DEF InboxStep, AtomicInbox!Next
<1>9. CASE CompleteUploadAnswer(p)
  <2>1. /\ Goto(p, "idle") /\ UNCHANGED <<part, temp, uploads_completed>>
        /\ pc[p] # "rmsrc" /\ (pc[p] = "publish" => temp[req[p].id] = None)
    BY <1>9 DEF CompleteUploadAnswer, Return
  <2>2. \A id \in Ids : temp'[id] = None
    BY <1>1, <2>1
  <2>3. StillFirst' /\ CopyInv(own)' /\ LeftInv(own)'
    BY <1>0, <1>1, <2>1, <2>2, FinalizerMoves
  <2>4. QED BY <1>2, <1>3, <2>1, <2>3
<1>10. QED BY <1>4, <1>5, <1>6, <1>7, <1>8, <1>9

\* A new record is nobody else's and nothing of it is delivered.
LEMMA OpenDelivers ==
    ASSUME TypeOK, StillFirst, CountInv,
           NEW own \in [Ids -> Recs \cup {None}], Owner(own), Creators(own),
           OwnDistinct(own), CopyInv(own), LeftInv(own), NEW p \in Procs, CreateUploadOpen(p),
           NEW now, now = [own EXCEPT ![req[p].id] = made + 1]
    PROVE  /\ StillFirst' /\ CountInv' /\ OwnDistinct(now)' /\ CopyInv(now)' /\ LeftInv(now)'
           /\ InboxStep
<1> USE DEF sessionVars, tableVars, lockVars, resultVars, diskVars, envVars
<1>1. /\ pc[p] = "open" /\ pc' = [pc EXCEPT ![p] = "insert"] /\ made' = made + 1
      /\ req' = [req EXCEPT ![p].rec = made + 1]
      /\ part' = [part EXCEPT ![req[p].id] = made + 1]
      /\ UNCHANGED <<inbox, temp, published, uploads_completed>>
  BY DEF CreateUploadOpen, FsCreate, Goto
<1>2. /\ req[p].id \in Ids /\ own[req[p].id] = None /\ made \in Nat
      /\ \A x \in Procs \ {p} : pc'[x] = pc[x] /\ req'[x] = req[x]
      /\ pc'[p] = "insert"
  BY <1>1, RequestUpdates, ConstantsAssumption
  DEF TypeOK, TaskType, TableType, Creators, Creating
<1>3. now[req[p].id] = made + 1 /\ \A i \in Ids : i # req[p].id => now[i] = own[i]
  BY <1>2
<1>4. \A i \in Ids : own[i] # None => own[i] \in Nat /\ own[i] <= made
  BY ConstantsAssumption DEF OwnDistinct, Recs
<1>5. OwnDistinct(now)'
  <2>1. \A i \in Ids : now[i] # None => now[i] <= made'
    BY <1>1, <1>2, <1>3, <1>4
  <2>2. ASSUME NEW i \in Ids, NEW j \in Ids, now[i] # None, now[i] = now[j] PROVE i = j
    <3>1. CASE i = req[p].id
      BY <1>2, <1>3, <1>4, <2>2, <3>1
    <3>2. CASE j = req[p].id
      BY <1>2, <1>3, <1>4, <2>2, <3>2
    <3>3. CASE i # req[p].id /\ j # req[p].id
      BY <1>3, <2>2, <3>3 DEF OwnDistinct
    <3>4. QED BY <3>1, <3>2, <3>3
  <2>3. QED BY <2>1, <2>2 DEF OwnDistinct
<1>6. StillFirst' /\ CountInv'
  BY <1>1, <1>2 DEF StillFirst, UniqueDestination, CountInv, DeliveredFiles
<1>7. CopyInv(now)'
  <2> SUFFICES ASSUME NEW id \in Ids, temp[id] # None
               PROVE  /\ temp[id].ino = now[id]
                      /\ \E x \in Procs : pc'[x] = "publish" /\ req'[x].id = id
    BY <1>1 DEF CopyInv
  <2>1. temp[id].ino = own[id] /\ \E x \in Procs : pc[x] = "publish" /\ req[x].id = id
    BY DEF CopyInv
  <2>2. temp[id].ino # None
    BY ConstantsAssumption DEF TypeOK, DiskType, File, Recs
  <2>3. id # req[p].id
    BY <1>2, <2>1, <2>2
  <2>4. QED BY <1>1, <1>2, <1>3, <2>1, <2>3
<1>8. LeftInv(now)'
  <2> SUFFICES ASSUME NEW x \in published
               PROVE  /\ x[2] = now[x[1]] /\ temp[x[1]] = None
                      /\ \/ part'[x[1]] = None
                         \/ \E y \in Procs : pc'[y] = "rmsrc" /\ req'[y].id = x[1]
    BY <1>1 DEF LeftInv
  <2>1. x[1] \in Ids /\ x[2] # None
    BY ConstantsAssumption DEF TypeOK, DiskType, Recs
  <2>2. /\ x[2] = own[x[1]] /\ temp[x[1]] = None
        /\ part[x[1]] = None \/ \E y \in Procs : pc[y] = "rmsrc" /\ req[y].id = x[1]
    BY DEF LeftInv
  <2>3. x[1] # req[p].id
    BY <1>2, <2>1, <2>2
  <2>4. part'[x[1]] = part[x[1]]
    BY <1>1, <2>1, <2>3 DEF TypeOK, DiskType
  <2>5. QED BY <1>1, <1>2, <1>3, <2>1, <2>2, <2>3, <2>4
<1>9. InboxStep
  BY <1>1 DEF InboxStep, DeliveredFiles
<1>10. QED BY <1>5, <1>6, <1>7, <1>8, <1>9

\* Every step of the manager is a step of Inbox or none.
LEMMA DeliverStep ==
    ASSUME ~Retries, MaxDrops = 0, TypeOK, WrittenInv, WholeInv, FinalizeInv, DeliverInv,
           [Next]_vars
    PROVE  DeliverInv' /\ InboxStep
<1> USE DEF sessionVars, tableVars, lockVars, resultVars, diskVars, envVars
<1>1. PICK own \in [Ids -> Recs \cup {None}] :
         /\ Owner(own) /\ Creators(own) /\ OwnDistinct(own) /\ CopyInv(own) /\ LeftInv(own)
  BY DEF DeliverInv
<1>2. StillFirst /\ CountInv /\ OwnerInv
  BY <1>1 DEF DeliverInv, OwnerInv
<1>3. /\ \A p \in Procs : ~Drop(p)
      /\ \A o \in late : ~Late(o)
  BY DEF Drop, TypeOK, EnvType, FinalizeInv
<1>4. ASSUME NEW p \in Procs, CreateUploadOpen(p) PROVE DeliverInv' /\ InboxStep
  <2>1. PICK now : now = [own EXCEPT ![req[p].id] = made + 1]
    OBVIOUS
  <2>2. now \in [Ids -> Recs \cup {None}] /\ Owner(now)' /\ Creators(now)'
    BY <1>1, <1>4, <2>1, OpenMakesOwner
  <2>3. /\ StillFirst' /\ CountInv' /\ OwnDistinct(now)' /\ CopyInv(now)' /\ LeftInv(now)'
        /\ InboxStep
    BY <1>1, <1>2, <1>4, <2>1, OpenDelivers
  <2>4. QED BY <2>2, <2>3 DEF DeliverInv
<1>5. ASSUME made' = made, StillFirst', CountInv', CopyInv(own)', LeftInv(own)' PROVE DeliverInv'
  <2>1. Owner(own)' /\ Creators(own)'
    BY <1>1, <1>5, OwnerStays
  <2>2. OwnDistinct(own)'
    BY <1>1, <1>5 DEF OwnDistinct
  <2>3. QED BY <1>1, <1>5, <2>1, <2>2 DEF DeliverInv
\* A step outside the delivery.
<1>6. ASSUME UNCHANGED <<made, inbox, temp, published, uploads_completed>>,
             \A x \in Procs : pc[x] \in DeliverPcs \/ pc'[x] \in DeliverPcs
                              => pc'[x] = pc[x] /\ req'[x] = req[x],
             part' = part \/ \E id : part' = [part EXCEPT ![id] = None]
      PROVE  DeliverInv' /\ InboxStep
  <2>1. \A id \in Ids : part'[id] \in {None, part[id]}
    BY <1>6 DEF TypeOK, DiskType
  <2>2. InboxStep
    BY <1>6 DEF InboxStep, DeliveredFiles
  <2>3. QED BY <1>1, <1>2, <1>5, <1>6, <2>1, <2>2, DeliverKept
<1>7. ASSUME NEW p \in Procs, NEW l, Goto(p, l), l \notin DeliverPcs, pc[p] \notin DeliverPcs,
             \A x \in Procs \ {p} : req'[x] = req[x]
      PROVE  \A x \in Procs : pc[x] \in DeliverPcs \/ pc'[x] \in DeliverPcs
                              => pc'[x] = pc[x] /\ req'[x] = req[x]
  BY <1>7 DEF Goto, TypeOK, TaskType
<1>8. ASSUME NEW p \in Procs,
             \/ CreateUploadLookup(p) \/ CreateUploadInsert(p) \/ CreateUploadAnswer(p)
             \/ CompleteUploadFinalize(p) \/ CompleteUploadFind(p) \/ CompleteUploadCheck(p)
      PROVE  DeliverInv' /\ InboxStep
  <2> USE DEF CreateUploadLookup, CreateUploadInsert, CreateUploadAnswer,
       CompleteUploadFinalize, CompleteUploadFind, CompleteUploadCheck
  <2>1. UNCHANGED <<made, part, inbox, temp, published, uploads_completed>>
    BY <1>8
  <2>2. pc[p] \notin DeliverPcs
    BY <1>8 DEF DeliverPcs
  <2>3. PICK l \in {"open", "idle", "ticket", "check", "hash"} : Goto(p, l)
    BY <1>8 DEF Return
  <2>4. \A x \in Procs \ {p} : req'[x] = req[x]
    BY <1>8 DEF Return, TypeOK, TaskType
  <2> HIDE DEF CreateUploadLookup, CreateUploadInsert, CreateUploadAnswer,
       CompleteUploadFinalize, CompleteUploadFind, CompleteUploadCheck
  <2>5. l \notin DeliverPcs
    BY DEF DeliverPcs
  <2>6. QED BY <1>6, <1>7, <2>1, <2>2, <2>3, <2>4, <2>5
<1>9. ASSUME NEW p \in Procs, WriteUploadChunk(p) \/ CancelUpload(p)
      PROVE  DeliverInv' /\ InboxStep
  <2> USE DEF WriteUploadChunk, WriteUploadChunkFind, WriteUploadChunkLock,
       WriteUploadChunkOpen, WriteUploadChunkWrite, WriteUploadChunkCommit,
       WriteUploadChunkAnswer, CancelUpload, CancelUploadFind, CancelUploadRemove,
       CancelUploadLock, CancelUploadUnlink, CancelUploadAnswer
  <2>1. UNCHANGED <<made, inbox, temp, published, uploads_completed>>
    BY <1>9 DEF FsWrite, FsUnlink
  <2>2. part' = part \/ \E id : part' = [part EXCEPT ![id] = None]
    BY <1>9 DEF FsWrite, FsUnlink
  <2>3. pc[p] \notin DeliverPcs
    BY <1>9 DEF DeliverPcs
  <2>4. PICK l \in {"idle", "lock", "wopen", "write", "commit", "pace", "cremove", "cwait",
                    "unlink"} : Goto(p, l)
    BY <1>9 DEF Return
  <2>5. \A x \in Procs \ {p} : req'[x] = req[x]
    BY <1>9 DEF Return, TypeOK, TaskType
  <2> HIDE DEF WriteUploadChunk, WriteUploadChunkFind, WriteUploadChunkLock,
       WriteUploadChunkOpen, WriteUploadChunkWrite, WriteUploadChunkCommit,
       WriteUploadChunkAnswer, CancelUpload, CancelUploadFind, CancelUploadRemove,
       CancelUploadLock, CancelUploadUnlink, CancelUploadAnswer
  <2>6. l \notin DeliverPcs
    BY DEF DeliverPcs
  <2>7. QED BY <1>6, <1>7, <2>1, <2>2, <2>3, <2>4, <2>5, <2>6
<1>10. ASSUME NEW p \in Procs, NEW op \in DOMAIN Entry, NEW id \in Ids, NEW off \in Chunks,
              Arrive(p, op, id, off)
       PROVE  DeliverInv' /\ InboxStep
  <2>1. /\ UNCHANGED <<made, part, inbox, temp, published, uploads_completed>>
        /\ pc[p] = "idle" /\ Goto(p, Entry[op])
    BY <1>10 DEF Arrive
  <2>2. \A x \in Procs \ {p} : req'[x] = req[x]
    BY <1>10 DEF Arrive, TypeOK, TaskType
  <2>3. Entry[op] \notin DeliverPcs /\ pc[p] \notin DeliverPcs
    BY <2>1 DEF Entry, DeliverPcs
  <2>4. QED BY <1>6, <1>7, <2>1, <2>2, <2>3
<1>11. ASSUME NEW p \in Procs, MoveCompletedFile(p) \/ MoveCompletedPublish(p)
       PROVE  DeliverInv' /\ InboxStep
  <2>1. made' = made
    BY <1>11 DEF MoveCompletedFile, MoveCompletedPublish
  <2>2. StillFirst' /\ CountInv' /\ CopyInv(own)' /\ LeftInv(own)' /\ InboxStep
    BY <1>1, <1>2, <1>11, MoveDelivers, PublishDelivers
  <2>3. QED BY <1>5, <2>1, <2>2
<1>12. ASSUME NEW p \in Procs,
              \/ CompleteUploadHash(p) \/ MoveCompletedCopy(p) \/ MoveCompletedShort(p)
              \/ MoveCompletedRemoveSource(p) \/ CompleteUploadRecord(p)
              \/ CompleteUploadAnswer(p)
       PROVE  DeliverInv' /\ InboxStep
  <2>1. made' = made
    BY <1>12 DEF CompleteUploadHash, MoveCompletedCopy, MoveCompletedShort,
       MoveCompletedRemoveSource, CompleteUploadRecord, CompleteUploadAnswer
  <2>2. StillFirst' /\ CountInv' /\ CopyInv(own)' /\ LeftInv(own)' /\ InboxStep
    BY <1>1, <1>2, <1>12, FinalizerSteps
  <2>3. QED BY <1>5, <2>1, <2>2
<1>13. CASE Pair \/ (\E e \in Enders : SessionEnd(e)) \/ UNCHANGED vars
  <2>1. UNCHANGED <<made, inbox, temp, published, uploads_completed, pc, req>>
    BY <1>13 DEF vars, Pair, SessionEnd, StartEnd, DisconnectPeerClosed, CancelSessionCollect,
       CancelSessionUnlink, CancelSessionTickets, EndSession, FsUnlink
  <2>2. part' = part \/ \E id : part' = [part EXCEPT ![id] = None]
    BY <1>13 DEF vars, Pair, SessionEnd, StartEnd, DisconnectPeerClosed, CancelSessionCollect,
       CancelSessionUnlink, CancelSessionTickets, EndSession, FsUnlink
  <2>3. QED BY <1>6, <2>1, <2>2
<1>14. ASSUME NEW p \in Procs, Handler(p) PROVE DeliverInv' /\ InboxStep
  BY <1>4, <1>8, <1>9, <1>11, <1>12, <1>14 DEF Handler, CreateUpload, CompleteUpload
<1>15. QED BY <1>3, <1>10, <1>13, <1>14 DEF Next

\* The start maps to the start of Inbox.
LEMMA DeliverInit == Init => DeliverInv /\ AtomicInbox!Init
<1> SUFFICES ASSUME Init PROVE DeliverInv /\ AtomicInbox!Init
  OBVIOUS
<1> DEFINE own == [id \in Ids |-> None]
<1>1. own \in [Ids -> Recs \cup {None}]
  OBVIOUS
<1>2. Owner(own) /\ Creators(own)
  BY DEF Init, Owner, Creators, Creating, NotEnding
<1>3. OwnDistinct(own) /\ CopyInv(own) /\ LeftInv(own) /\ StillFirst
  BY DEF Init, OwnDistinct, CopyInv, LeftInv, StillFirst
<1>4. DeliveredFiles = {}
  BY DEF Init, DeliveredFiles
<1>5. CountInv
  BY <1>4, FS_EmptySet DEF Init, CountInv
<1>6. AtomicInbox!Init
  BY <1>4 DEF Init, AtomicInbox!Init, DeliveredFiles
<1>7. QED BY <1>1, <1>2, <1>3, <1>5, <1>6 DEF DeliverInv

\* While no create request is repeated and no client goes away, the awaits of
\* complete_upload look like one delivery and one acknowledgement: every
\* completed upload appears in the Inbox in one step, whole, under the first free
\* name and once, and is counted after that, whatever else runs in between.
THEOREM ImplementsInbox ==
    ASSUME ~Retries, MaxDrops = 0 PROVE Spec => DeliversAtomically
<1>1. Init => OwnerInv /\ WrittenInv /\ WholeInv /\ FinalizeInv /\ DeliverInv /\ AtomicInbox!Init
  BY OwnerInit, WholeInit, FinalizeInit, DeliverInit
<1>2. TypeOK /\ OwnerInv /\ WrittenInv /\ WholeInv /\ FinalizeInv /\ DeliverInv /\ [Next]_vars
      => (OwnerInv /\ WrittenInv /\ WholeInv /\ FinalizeInv /\ DeliverInv)'
  BY OwnerStep, WrittenStep, WholeStep, FinalizeStep, DeliverStep
<1>3. TypeOK /\ WrittenInv /\ WholeInv /\ FinalizeInv /\ DeliverInv /\ [Next]_vars
      => [AtomicInbox!Next]_<<inbox, {x[2] : x \in published}, uploads_completed>>
  BY DeliverStep DEF InboxStep, DeliveredFiles
<1>4. QED
  BY <1>1, <1>2, <1>3, TypeCorrect, PTL DEF Spec, DeliversAtomically, AtomicInbox!Spec

-----------------------------------------------------------------------------
(* A result is remembered: the ticket a completion writes is the one of the  *)
(* record it has published, and only the end of that record's session or a   *)
(* full table takes it away.                                                 *)

\* A completion works for the session of the record it has found.
FoundInv ==
    \A p \in Procs :
        pc[p] \in {"check", "hash", "move", "copy", "publish", "rmsrc", "record"} =>
            req[p].sid = rsid[req[p].rec]

\* Tickets are forgotten for a session that has ended, and there are no more of
\* them than completions.
ForgetInv ==
    /\ \A e \in Enders : ender[e].pc \in {"collect", "unlink"} => ender[e].sid \in ended
    /\ IsFiniteSet(tickets) /\ Cardinality(tickets) <= uploads_completed

\* The result is in the table or its completion is about to put it there.
Remembered(x) ==
    \/ rsid[x[2]] \in ended
    \/ uploads_completed > MaxTickets
    \/ \E t \in tickets : t.id = x[1] /\ t.sid = rsid[x[2]] /\ t.slot = x[3]
    \/ \E p \in Procs : /\ pc[p] \in {"rmsrc", "record"}
                        /\ req[p].id = x[1] /\ req[p].rec = x[2] /\ req[p].slot = x[3]
ResultInv == FoundInv /\ ForgetInv /\ \A x \in published : Remembered(x)

\* A step outside the last part of complete_upload that forgets no ticket.
LEMMA ResultKept ==
    ASSUME TypeOK, ResultInv,
           \A x \in published : rsid'[x[2]] = rsid[x[2]],
           ended \subseteq ended', UNCHANGED <<published, tickets, uploads_completed>>,
           \A x \in Procs : pc[x] \in {"rmsrc", "record"}
                            => pc'[x] \in {"rmsrc", "record"} /\ req'[x] = req[x]
    PROVE  \A x \in published' : Remembered(x)'
  BY DEF ResultInv, Remembered

\* The table after a completion: no more tickets than completions, and none is
\* lost before there are more results than it keeps.
LEMMA PushRemembers ==
    ASSUME TypeOK, ForgetInv, NEW t,
           tickets' = PushTicket(t), uploads_completed' = uploads_completed + 1
    PROVE  /\ IsFiniteSet(tickets') /\ Cardinality(tickets') <= uploads_completed'
           /\ t \in tickets'
           /\ tickets \subseteq tickets' \/ uploads_completed' > MaxTickets
<1>1. /\ IsFiniteSet(tickets) /\ Cardinality(tickets) <= uploads_completed
      /\ Cardinality(tickets) \in Nat /\ uploads_completed \in Nat
  BY FS_CardinalityType DEF ForgetInv, TypeOK, ResultType
<1>2. CASE Cardinality(tickets) < MaxTickets
  <2>1. tickets' = tickets \cup {t}
    BY <1>2 DEF PushTicket
  <2>2. /\ IsFiniteSet(tickets \cup {t})
        /\ Cardinality(tickets \cup {t}) =
              IF t \in tickets THEN Cardinality(tickets) ELSE Cardinality(tickets) + 1
    BY <1>1, FS_AddElement
  <2>3. Cardinality(tickets') <= Cardinality(tickets) + 1
    BY <1>1, <2>1, <2>2
  <2>4. QED BY <1>1, <2>1, <2>2, <2>3
<1>3. CASE ~(Cardinality(tickets) < MaxTickets)
  <2> DEFINE rest == {x \in tickets : \E y \in tickets : y.at < x.at}
  <2>1. tickets' = rest \cup {t}
    BY <1>3 DEF PushTicket
  <2>2. rest \subseteq tickets
    OBVIOUS
  <2> HIDE DEF rest
  <2>3. IsFiniteSet(rest) /\ Cardinality(rest) <= Cardinality(tickets) /\ Cardinality(rest) \in Nat
    BY <1>1, <2>2, FS_Subset, FS_CardinalityType
  <2>4. /\ IsFiniteSet(rest \cup {t})
        /\ Cardinality(rest \cup {t}) =
              IF t \in rest THEN Cardinality(rest) ELSE Cardinality(rest) + 1
    BY <2>3, FS_AddElement
  <2>5. Cardinality(tickets') <= Cardinality(rest) + 1
    BY <2>1, <2>3, <2>4
  <2>6. Cardinality(tickets') \in Nat
    BY <2>1, <2>4, FS_CardinalityType
  <2>7. uploads_completed' > MaxTickets
    BY <1>1, <1>3, ConstantsAssumption
  <2>8. QED BY <1>1, <2>1, <2>3, <2>4, <2>5, <2>6, <2>7
<1>4. QED BY <1>2, <1>3

\* The session of a record is written once, when the record is made.
LEMMA SessionWritten ==
    ASSUME MaxDrops = 0, TypeOK, FinalizeInv, [Next]_vars
    PROVE  \A r \in Recs : r <= made => rsid'[r] = rsid[r]
<1> USE DEF sessionVars, tableVars, lockVars, resultVars, diskVars, envVars
<1>1. ASSUME NEW p \in Procs, CreateUploadOpen(p)
      PROVE  \A r \in Recs : r <= made => rsid'[r] = rsid[r]
  BY <1>1, ConstantsAssumption DEF CreateUploadOpen, TypeOK, TableType, Recs
<1>2. CASE ~\E p \in Procs : CreateUploadOpen(p)
  <2>1. rsid' = rsid
    BY <1>2, Writers
  <2>2. QED BY <2>1
<1>3. QED BY <1>1, <1>2

\* The records that completions and deliveries name are made.
LEMMA NamedMade ==
    ASSUME TypeOK, DeliverInv
    PROVE  /\ \A p \in Procs : pc[p] # "idle" /\ req[p].rec \in Recs => req[p].rec <= made
           /\ \A id \in Ids : uploads[id] # None => uploads[id] <= made
           /\ \A x \in published : x[2] \in Recs /\ x[2] <= made
           /\ \A p \in Procs : pc[p] = "move" /\ part[req[p].id] # None =>
                 part[req[p].id] = req[p].rec
           /\ \A p \in Procs : pc[p] = "publish" /\ temp[req[p].id] # None =>
                 temp[req[p].id].ino = req[p].rec
<1>1. PICK own \in [Ids -> Recs \cup {None}] : Owner(own) /\ OwnDistinct(own) /\ CopyInv(own)
                                               /\ LeftInv(own)
  BY DEF DeliverInv
<1>2. ASSUME NEW p \in Procs, pc[p] # "idle", req[p].rec \in Recs
      PROVE  req[p].id \in Ids /\ req[p].rec = own[req[p].id] /\ req[p].rec # None
  BY <1>1, <1>2, RequestUpdates, ConstantsAssumption
  DEF Owner, NamesOwn, TypeOK, TaskType, Recs
<1>3. \A p \in Procs : pc[p] \in {"move", "publish"} => req[p].rec \in Recs
  BY DEF TypeOK, TaskType, LocalsSet
<1>4. \A p \in Procs : pc[p] # "idle" /\ req[p].rec \in Recs => req[p].rec <= made
  BY <1>1, <1>2 DEF OwnDistinct
<1>5. \A id \in Ids : uploads[id] # None => uploads[id] <= made
  BY <1>1 DEF Owner, OwnDistinct
<1>6. ASSUME NEW x \in published PROVE x[2] \in Recs /\ x[2] <= made
  <2>1. x[1] \in Ids /\ x[2] \in Recs /\ x[2] # None
    BY ConstantsAssumption DEF TypeOK, DiskType, Recs
  <2>2. QED BY <1>1, <2>1 DEF LeftInv, OwnDistinct
<1>7. \A p \in Procs : pc[p] = "move" /\ part[req[p].id] # None => part[req[p].id] = req[p].rec
  BY <1>1, <1>2, <1>3 DEF Owner
<1>8. \A p \in Procs : pc[p] = "publish" /\ temp[req[p].id] # None =>
         temp[req[p].id].ino = req[p].rec
  BY <1>1, <1>2, <1>3 DEF CopyInv
<1>9. QED BY <1>4, <1>5, <1>6, <1>7, <1>8

\* The inductive step of FoundInv.
LEMMA FoundStep ==
    ASSUME MaxDrops = 0, TypeOK, FinalizeInv, DeliverInv, FoundInv, [Next]_vars
    PROVE  FoundInv'
<1> USE DEF sessionVars, tableVars, lockVars, resultVars, diskVars, envVars
<1> DEFINE Found == {"check", "hash", "move", "copy", "publish", "rmsrc", "record"}
<1>1. /\ \A r \in Recs : r <= made => rsid'[r] = rsid[r]
      /\ \A x \in Procs : pc[x] \in Found => /\ req[x].rec \in Recs /\ req[x].rec <= made
                                             /\ req[x].sid = rsid[req[x].rec]
      /\ pc \in [Procs -> Pcs] /\ req \in [Procs -> Request \cup {None}]
  BY SessionWritten, NamedMade DEF TypeOK, TaskType, LocalsSet, FoundInv
<1>2. ASSUME \A x \in Procs : pc'[x] \in Found =>
                pc[x] \in Found /\ req'[x].rec = req[x].rec /\ req'[x].sid = req[x].sid
      PROVE  FoundInv'
  BY <1>1, <1>2 DEF FoundInv
<1>3. ASSUME NEW p \in Procs, NEW l, Goto(p, l), l \notin Found \/ pc[p] \in Found,
             \A x \in Procs \ {p} : req'[x] = req[x],
             l \in Found => req'[p].rec = req[p].rec /\ req'[p].sid = req[p].sid
      PROVE  FoundInv'
  <2>1. \A x \in Procs : pc'[x] \in Found =>
           pc[x] \in Found /\ req'[x].rec = req[x].rec /\ req'[x].sid = req[x].sid
    BY <1>1, <1>3 DEF Goto
  <2>2. QED BY <1>2, <2>1
<1>4. ASSUME NEW p \in Procs, CreateUpload(p) \/ WriteUploadChunk(p) \/ CancelUpload(p)
      PROVE  FoundInv'
  <2> USE DEF CreateUpload, CreateUploadLookup, CreateUploadOpen, CreateUploadInsert,
       CreateUploadAnswer, WriteUploadChunk, WriteUploadChunkFind, WriteUploadChunkLock,
       WriteUploadChunkOpen, WriteUploadChunkWrite, WriteUploadChunkCommit,
       WriteUploadChunkAnswer, CancelUpload, CancelUploadFind, CancelUploadRemove,
       CancelUploadLock, CancelUploadUnlink, CancelUploadAnswer
  <2>1. PICK l \in {"open", "insert", "idle", "lock", "wopen", "write", "commit", "pace",
                    "cremove", "cwait", "unlink"} : Goto(p, l)
    BY <1>4 DEF Return
  <2>2. \A x \in Procs \ {p} : req'[x] = req[x]
    BY <1>1, <1>4 DEF Return
  <2>3. QED BY <1>3, <2>1, <2>2
<1>5. ASSUME NEW p \in Procs,
             \/ CompleteUploadFinalize(p) \/ MoveCompletedShort(p) \/ CompleteUploadRecord(p)
             \/ CompleteUploadAnswer(p)
      PROVE  FoundInv'
  <2>1. PICK l \in {"ticket", "idle"} : Goto(p, l)
    BY <1>5 DEF CompleteUploadFinalize, MoveCompletedShort, CompleteUploadRecord,
       CompleteUploadAnswer, Return
  <2>2. \A x \in Procs \ {p} : req'[x] = req[x]
    BY <1>1, <1>5 DEF CompleteUploadFinalize, MoveCompletedShort, CompleteUploadRecord,
       CompleteUploadAnswer, Return
  <2>3. QED BY <1>3, <2>1, <2>2
<1>6. ASSUME NEW p \in Procs,
             \/ CompleteUploadCheck(p) \/ MoveCompletedFile(p) \/ MoveCompletedCopy(p)
             \/ MoveCompletedPublish(p) \/ MoveCompletedRemoveSource(p)
      PROVE  FoundInv'
  <2>1. req' = req /\ pc[p] \in Found
    BY <1>6 DEF CompleteUploadCheck, MoveCompletedFile, MoveCompletedCopy,
       MoveCompletedPublish, MoveCompletedRemoveSource
  <2>2. PICK l : Goto(p, l)
    BY <1>6 DEF CompleteUploadCheck, MoveCompletedFile, MoveCompletedCopy,
       MoveCompletedPublish, MoveCompletedRemoveSource
  <2>3. QED BY <1>3, <2>1, <2>2
<1>7. ASSUME NEW p \in Procs, CompleteUploadHash(p) PROVE FoundInv'
  <2>1. pc[p] = "hash" /\ \E l \in {"copy", "move"} : Goto(p, l)
    BY <1>7 DEF CompleteUploadHash
  <2>2. PICK d \in Slots : req' = [req EXCEPT ![p].slot = d]
    BY <1>7 DEF CompleteUploadHash
  <2>3. req[p] \in Request
    BY <2>1 DEF TypeOK, TaskType
  <2>4. /\ req'[p].rec = req[p].rec /\ req'[p].sid = req[p].sid
        /\ \A x \in Procs \ {p} : req'[x] = req[x]
    BY <1>1, <2>2, <2>3 DEF Request
  <2>5. QED BY <1>3, <2>1, <2>4
<1>8. ASSUME NEW p \in Procs, CompleteUploadFind(p) PROVE FoundInv'
  <2>1. /\ pc[p] = "ticket" /\ Goto(p, "check") /\ rsid' = rsid
        /\ uploads[req[p].id] # None /\ rsid[uploads[req[p].id]] = req[p].sid
        /\ req' = [req EXCEPT ![p].rec = uploads[req[p].id]]
    BY <1>8 DEF CompleteUploadFind, UploadRecord
  <2>2. req[p] \in Request
    BY <2>1 DEF TypeOK, TaskType
  <2>3. /\ req'[p].rec = uploads[req[p].id] /\ req'[p].sid = req[p].sid
        /\ \A x \in Procs \ {p} : req'[x] = req[x]
    BY <1>1, <2>1, <2>2 DEF Request
  <2>4. \A x \in Procs \ {p} : pc'[x] = pc[x]
    BY <1>1, <2>1 DEF Goto
  <2>5. QED BY <2>1, <2>3, <2>4 DEF FoundInv
<1>9. ASSUME NEW p \in Procs, NEW op \in DOMAIN Entry, NEW id \in Ids, NEW off \in Chunks,
             Arrive(p, op, id, off)
      PROVE  FoundInv'
  <2>1. Goto(p, Entry[op]) /\ \A x \in Procs \ {p} : req'[x] = req[x]
    BY <1>1, <1>9 DEF Arrive
  <2>2. Entry[op] \notin Found
    BY DEF Entry
  <2>3. QED BY <1>3, <2>1, <2>2
<1>10. CASE Pair \/ (\E e \in Enders : SessionEnd(e)) \/ UNCHANGED vars
  <2>1. UNCHANGED <<pc, req>>
    BY <1>10 DEF vars, Pair, SessionEnd, StartEnd, DisconnectPeerClosed, CancelSessionCollect,
       CancelSessionUnlink, CancelSessionTickets, EndSession
  <2>2. QED BY <1>2, <2>1
<1>11. (\A p \in Procs : ~Drop(p)) /\ \A o \in late : ~Late(o)
  BY DEF Drop, TypeOK, EnvType, FinalizeInv
<1>12. QED
  BY <1>4, <1>5, <1>6, <1>7, <1>8, <1>9, <1>10, <1>11 DEF Next, Handler, CompleteUpload

\* The steps that leave the table of results and the session ends alone.
LEMMA OthersForgetNothing ==
    ASSUME [Next]_vars, \A p \in Procs : ~CompleteUploadRecord(p),
           \A e \in Enders : ~CancelSessionTickets(e)
    PROVE  UNCHANGED <<tickets, uploads_completed>>
  BY Writers

\* A session end works for a session it has entered in the history.
LEMMA EnderStep ==
    ASSUME TypeOK, ForgetInv, [Next]_vars
    PROVE  /\ ended \subseteq ended'
           /\ \A e \in Enders : ender'[e].pc \in {"collect", "unlink"} => ender'[e].sid \in ended'
<1> USE DEF sessionVars, tableVars, lockVars, resultVars, diskVars, envVars
<1> DEFINE Good == /\ ended \subseteq ended'
                   /\ \A e \in Enders : ender'[e].pc \in {"collect", "unlink"}
                                        => ender'[e].sid \in ended'
<1>1. /\ \A e \in Enders : ender[e].pc \in {"collect", "unlink"} => ender[e].sid \in ended
      /\ ender \in [Enders -> [pc : {"idle", "close", "collect", "unlink", "session"},
                               sid : Sids, todo : SUBSET Ids]]
  BY DEF ForgetInv, TypeOK, SessionType
<1>2. ASSUME NEW e \in Enders, ended \subseteq ended',
             \A x \in Enders \ {e} : ender'[x] = ender[x],
             ender'[e].pc \in {"collect", "unlink"} => ender'[e].sid \in ended'
      PROVE  Good
  BY <1>1, <1>2
<1>3. ASSUME NEW e \in Enders, StartEnd(e) PROVE Good
  BY <1>1, <1>2, <1>3 DEF StartEnd
<1>4. ASSUME NEW e \in Enders, DisconnectPeerClosed(e) PROVE Good
  BY <1>1, <1>2, <1>4 DEF DisconnectPeerClosed
<1>5. ASSUME NEW e \in Enders, CancelSessionCollect(e) PROVE Good
  <2>1. /\ ended' = ended /\ ender[e].pc = "collect"
        /\ ender'[e].sid = ender[e].sid /\ \A x \in Enders \ {e} : ender'[x] = ender[x]
    BY <1>1, <1>5 DEF CancelSessionCollect
  <2>2. QED BY <1>1, <1>2, <2>1
<1>6. ASSUME NEW e \in Enders, CancelSessionTickets(e) \/ EndSession(e) PROVE Good
  <2>1. ended' = ended /\ \A x \in Enders \ {e} : ender'[x] = ender[x]
    BY <1>1, <1>6 DEF CancelSessionTickets, EndSession
  <2>2. ender'[e].pc \in {"idle", "session"}
    BY <1>1, <1>6 DEF CancelSessionTickets, EndSession, NotEnding
  <2>3. QED BY <1>2, <2>1, <2>2
<1>7. ASSUME NEW e \in Enders, NEW id \in Ids, CancelSessionUnlink(e, id) PROVE Good
  <2>1. /\ ended' = ended /\ ender[e].pc = "unlink" /\ ender'[e].sid = ender[e].sid
        /\ \A x \in Enders \ {e} : ender'[x] = ender[x]
    BY <1>1, <1>7 DEF CancelSessionUnlink
  <2>2. QED BY <1>1, <1>2, <2>1
<1>8. CASE ~\E e \in Enders : SessionEnd(e)
  <2>1. UNCHANGED <<ended, ender>>
    BY <1>8, Writers
  <2>2. QED BY <1>1, <2>1
<1>9. QED BY <1>3, <1>4, <1>5, <1>6, <1>7, <1>8 DEF SessionEnd

\* The inductive step of ForgetInv.
LEMMA ForgetStep ==
    ASSUME TypeOK, ForgetInv, [Next]_vars
    PROVE  ForgetInv'
<1>1. \A e \in Enders : ender'[e].pc \in {"collect", "unlink"} => ender'[e].sid \in ended'
  BY EnderStep
<1>2. ASSUME NEW p \in Procs, CompleteUploadRecord(p)
      PROVE  IsFiniteSet(tickets') /\ Cardinality(tickets') <= uploads_completed'
  BY <1>2, PushRemembers DEF CompleteUploadRecord
<1>3. ASSUME NEW e \in Enders, CancelSessionTickets(e)
      PROVE  IsFiniteSet(tickets') /\ Cardinality(tickets') <= uploads_completed'
  <2>1. tickets' \subseteq tickets /\ uploads_completed' = uploads_completed
    BY <1>3 DEF CancelSessionTickets
  <2>2. IsFiniteSet(tickets) /\ Cardinality(tickets) <= uploads_completed
    BY DEF ForgetInv
  <2>3. IsFiniteSet(tickets') /\ Cardinality(tickets') <= Cardinality(tickets)
    BY <2>1, <2>2, FS_Subset
  <2>4. Cardinality(tickets') \in Nat /\ Cardinality(tickets) \in Nat /\ uploads_completed \in Nat
    BY <2>2, <2>3, FS_CardinalityType DEF TypeOK, ResultType
  <2>5. QED BY <2>1, <2>2, <2>3, <2>4
<1>4. IsFiniteSet(tickets') /\ Cardinality(tickets') <= uploads_completed'
  BY <1>2, <1>3, OthersForgetNothing DEF ForgetInv
<1>5. QED BY <1>1, <1>4 DEF ForgetInv

\* The completion of p has put x in the Inbox and waits to record it.
LEMMA DeliveredRemembered ==
    ASSUME TypeOK, ResultInv, NEW p \in Procs, NEW l \in {"rmsrc", "record"}, Goto(p, l),
           UNCHANGED <<req, rsid, ended, tickets, uploads_completed>>,
           published' = published \cup {<<req[p].id, req[p].rec, req[p].slot>>}
    PROVE  \A x \in published' : Remembered(x)'
<1>1. \A y \in Procs : pc[y] \in {"rmsrc", "record"} => pc'[y] \in {"rmsrc", "record"}
  BY DEF Goto, TypeOK, TaskType
<1>2. ASSUME NEW x \in published PROVE Remembered(x)'
  BY <1>1, <1>2 DEF ResultInv, Remembered
<1>3. pc'[p] \in {"rmsrc", "record"}
  BY DEF Goto, TypeOK, TaskType
<1>4. Remembered(<<req[p].id, req[p].rec, req[p].slot>>)'
  BY <1>3 DEF Remembered
<1>5. QED BY <1>2, <1>4

\* The inductive step of ResultInv.
LEMMA ResultStep ==
    ASSUME MaxDrops = 0, TypeOK, FinalizeInv, DeliverInv, ResultInv, [Next]_vars
    PROVE  ResultInv'
<1> USE DEF sessionVars, tableVars, lockVars, resultVars, diskVars, envVars
<1> DEFINE All == \A x \in published' : Remembered(x)'
<1>1. /\ FoundInv' /\ ForgetInv' /\ ended \subseteq ended'
      /\ \A x \in published : rsid'[x[2]] = rsid[x[2]]
  BY FoundStep, ForgetStep, EnderStep, SessionWritten, NamedMade DEF ResultInv
<1>2. pc \in [Procs -> Pcs] /\ req \in [Procs -> Request \cup {None}]
  BY DEF TypeOK, TaskType
<1>3. ASSUME UNCHANGED <<published, tickets, uploads_completed>>,
             \A x \in Procs : pc[x] \in {"rmsrc", "record"}
                              => pc'[x] \in {"rmsrc", "record"} /\ req'[x] = req[x]
      PROVE  All
  BY <1>1, <1>3, ResultKept
<1>4. ASSUME NEW p \in Procs, NEW l, Goto(p, l), pc[p] \notin {"rmsrc", "record"},
             \A x \in Procs \ {p} : req'[x] = req[x],
             UNCHANGED <<published, tickets, uploads_completed>>
      PROVE  All
  <2>1. \A x \in Procs : pc[x] \in {"rmsrc", "record"}
                         => pc'[x] \in {"rmsrc", "record"} /\ req'[x] = req[x]
    BY <1>2, <1>4 DEF Goto
  <2>2. QED BY <1>3, <1>4, <2>1
<1>5. ASSUME NEW p \in Procs, MoveCompletedFile(p) PROVE All
  <2>1. /\ pc[p] = "move" /\ part[req[p].id] # None /\ Goto(p, "record")
        /\ published' = published \cup {<<req[p].id, part[req[p].id], req[p].slot>>}
        /\ UNCHANGED <<req, rsid, ended, tickets, uploads_completed>>
    BY <1>5 DEF MoveCompletedFile, FsMove
  <2>2. part[req[p].id] = req[p].rec
    BY <2>1, NamedMade
  <2>3. QED BY <2>1, <2>2, DeliveredRemembered
<1>6. ASSUME NEW p \in Procs, MoveCompletedPublish(p) PROVE All
  <2>1. /\ pc[p] = "publish" /\ temp[req[p].id] # None /\ Goto(p, "rmsrc")
        /\ published' = published \cup {<<req[p].id, temp[req[p].id].ino, req[p].slot>>}
        /\ UNCHANGED <<req, rsid, ended, tickets, uploads_completed>>
    BY <1>6 DEF MoveCompletedPublish, FsPublish
  <2>2. temp[req[p].id].ino = req[p].rec
    BY <2>1, NamedMade
  <2>3. QED BY <2>1, <2>2, DeliveredRemembered
<1>7. ASSUME NEW p \in Procs, MoveCompletedRemoveSource(p) PROVE All
  <2>1. Goto(p, "record") /\ UNCHANGED <<req, published, tickets, uploads_completed>>
    BY <1>7 DEF MoveCompletedRemoveSource, FsUnlink
  <2>2. QED BY <1>2, <1>3, <2>1 DEF Goto
<1>8. ASSUME NEW p \in Procs, CompleteUploadRecord(p) PROVE All
  <2>1. PICK t : t = [id |-> req[p].id, sid |-> req[p].sid,
                      slot |-> req[p].slot, at |-> uploads_completed]
    OBVIOUS
  <2>2. /\ pc[p] = "record" /\ tickets' = PushTicket(t)
        /\ uploads_completed' = uploads_completed + 1
        /\ published' = published /\ Goto(p, "idle") /\ req' = [req EXCEPT ![p] = None]
    BY <1>8, <2>1 DEF CompleteUploadRecord, Return
  <2>3. t \in tickets' /\ (tickets \subseteq tickets' \/ uploads_completed' > MaxTickets)
    BY <2>2, PushRemembers DEF ResultInv
  <2>4. t.id = req[p].id /\ t.sid = rsid[req[p].rec] /\ t.slot = req[p].slot
    BY <2>1, <2>2 DEF ResultInv, FoundInv
  <2>5. \A x \in Procs \ {p} : pc'[x] = pc[x] /\ req'[x] = req[x]
    BY <1>2, <2>2 DEF Goto
  <2>6. ASSUME NEW x \in published PROVE Remembered(x)'
    <3>1. Remembered(x) /\ rsid'[x[2]] = rsid[x[2]]
      BY <1>1 DEF ResultInv
    <3>2. CASE uploads_completed' > MaxTickets
      BY <3>2 DEF Remembered
    <3>3. CASE tickets \subseteq tickets'
      <4>1. CASE \E y \in Procs : /\ pc[y] \in {"rmsrc", "record"} /\ req[y].id = x[1]
                                  /\ req[y].rec = x[2] /\ req[y].slot = x[3]
        BY <2>3, <2>4, <2>5, <3>1, <4>1 DEF Remembered
      <4>2. CASE uploads_completed > MaxTickets
        BY <2>2, <4>2, ConstantsAssumption DEF Remembered, TypeOK, ResultType
      <4>3. CASE rsid[x[2]] \in ended
        BY <1>1, <3>1, <4>3 DEF Remembered
      <4>4. CASE \E y \in tickets : y.id = x[1] /\ y.sid = rsid[x[2]] /\ y.slot = x[3]
        BY <3>1, <3>3, <4>4 DEF Remembered
      <4>5. QED BY <3>1, <4>1, <4>2, <4>3, <4>4 DEF Remembered
    <3>4. QED BY <2>3, <3>2, <3>3
  <2>7. QED BY <2>2, <2>6
<1>9. ASSUME NEW e \in Enders, CancelSessionTickets(e) PROVE All
  <2>1. /\ tickets' = {t \in tickets : t.sid # ender[e].sid} /\ ender[e].pc = "unlink"
        /\ UNCHANGED <<published, pc, req, uploads_completed, ended>>
    BY <1>9 DEF CancelSessionTickets
  <2>2. ender[e].sid \in ended
    BY <2>1 DEF ResultInv, ForgetInv
  <2>3. ASSUME NEW x \in published PROVE Remembered(x)'
    BY <1>1, <2>1, <2>2 DEF ResultInv, Remembered
  <2>4. QED BY <2>1, <2>3
<1>10. ASSUME NEW p \in Procs, CreateUpload(p) \/ WriteUploadChunk(p) \/ CancelUpload(p)
       PROVE  All
  <2> USE DEF CreateUpload, CreateUploadLookup, CreateUploadOpen, CreateUploadInsert,
       CreateUploadAnswer, WriteUploadChunk, WriteUploadChunkFind, WriteUploadChunkLock,
       WriteUploadChunkOpen, WriteUploadChunkWrite, WriteUploadChunkCommit,
       WriteUploadChunkAnswer, CancelUpload, CancelUploadFind, CancelUploadRemove,
       CancelUploadLock, CancelUploadUnlink, CancelUploadAnswer
  <2>1. PICK l : Goto(p, l)
    BY <1>10 DEF Return
  <2>2. \A x \in Procs \ {p} : req'[x] = req[x]
    BY <1>2, <1>10 DEF Return
  <2>3. UNCHANGED <<published, tickets, uploads_completed>> /\ pc[p] \notin {"rmsrc", "record"}
    BY <1>10 DEF FsCreate, FsWrite, FsUnlink
  <2>4. QED BY <1>4, <2>1, <2>2, <2>3
<1>11. ASSUME NEW p \in Procs,
              \/ CompleteUploadFinalize(p) \/ CompleteUploadFind(p) \/ CompleteUploadCheck(p)
              \/ CompleteUploadHash(p) \/ MoveCompletedCopy(p) \/ MoveCompletedShort(p)
              \/ CompleteUploadAnswer(p)
       PROVE  All
  <2> USE DEF CompleteUploadFinalize, CompleteUploadFind, CompleteUploadCheck,
       CompleteUploadHash, MoveCompletedCopy, MoveCompletedShort, CompleteUploadAnswer
  <2>1. PICK l : Goto(p, l)
    BY <1>11 DEF Return
  <2>2. \A x \in Procs \ {p} : req'[x] = req[x]
    BY <1>2, <1>11 DEF Return
  <2>3. UNCHANGED <<published, tickets, uploads_completed>> /\ pc[p] \notin {"rmsrc", "record"}
    BY <1>11 DEF FsCopy
  <2>4. QED BY <1>4, <2>1, <2>2, <2>3
<1>12. ASSUME NEW p \in Procs, NEW op \in DOMAIN Entry, NEW id \in Ids, NEW off \in Chunks,
              Arrive(p, op, id, off)
       PROVE  All
  <2>1. /\ pc[p] = "idle" /\ Goto(p, Entry[op]) /\ \A x \in Procs \ {p} : req'[x] = req[x]
        /\ UNCHANGED <<published, tickets, uploads_completed>>
    BY <1>2, <1>12 DEF Arrive
  <2>2. QED BY <1>4, <2>1
<1>13. ASSUME \/ Pair \/ UNCHANGED vars
              \/ \E e \in Enders : SessionEnd(e) /\ ~CancelSessionTickets(e)
       PROVE  All
  <2>1. UNCHANGED <<pc, req, published, tickets, uploads_completed>>
    BY <1>13 DEF vars, Pair, SessionEnd, StartEnd, DisconnectPeerClosed, CancelSessionCollect,
       CancelSessionUnlink, EndSession, FsUnlink
  <2>2. QED BY <1>3, <2>1
<1>14. (\A p \in Procs : ~Drop(p)) /\ \A o \in late : ~Late(o)
  BY DEF Drop, TypeOK, EnvType, FinalizeInv
<1>15. All
  BY <1>5, <1>6, <1>7, <1>8, <1>9, <1>10, <1>11, <1>12, <1>13, <1>14
  DEF Next, Handler, CompleteUpload
<1>16. QED BY <1>1, <1>15 DEF ResultInv

\* Nothing is published and nobody is at work at the start.
LEMMA ResultInit == Init => ResultInv
  BY FS_EmptySet DEF Init, ResultInv, FoundInv, ForgetInv, NotEnding

\* While no create request is repeated and no client goes away, the result of an
\* upload in the Inbox is in completed_uploads from the moment its completion is
\* over, whatever cancels, completes or ends in between: only the end of its own
\* session or more results than the table keeps take it away.
THEOREM ResultsRemembered ==
    ASSUME ~Retries, MaxDrops = 0 PROVE Spec => []ResultRemembered
<1>1. Init => OwnerInv /\ WrittenInv /\ WholeInv /\ FinalizeInv /\ DeliverInv /\ ResultInv
  BY OwnerInit, WholeInit, FinalizeInit, DeliverInit, ResultInit
<1>2. TypeOK /\ OwnerInv /\ WrittenInv /\ WholeInv /\ FinalizeInv /\ DeliverInv /\ ResultInv
      /\ [Next]_vars
      => (OwnerInv /\ WrittenInv /\ WholeInv /\ FinalizeInv /\ DeliverInv /\ ResultInv)'
  BY OwnerStep, WrittenStep, WholeStep, FinalizeStep, DeliverStep, ResultStep
<1>3. FinalizeInv /\ ResultInv => ResultRemembered
  BY DEF FinalizeInv, DestinationReserved, FinalizePcs, ResultInv, Remembered, ResultRemembered
<1>4. QED BY <1>1, <1>2, <1>3, TypeCorrect, PTL DEF Spec
==============================================================================
