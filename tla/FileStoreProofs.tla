--------------------------- MODULE FileStoreProofs ---------------------------
(***************************************************************************)
(* Files keep their bytes and no blob is forgotten: proofs about           *)
(* FileStore, for every number of files, folders and requests.             *)
(***************************************************************************)
EXTENDS FileStore, FiniteSetTheorems, TLAPS

Inserted(f) == row[f].state # "none"

(* A file that is not complete has its own key, and so has a row that is   *)
(* not inserted yet; keys are those of uploads that began.                 *)
NamesInv ==
  \A f \in Files :
    /\ ~row[f].whole => row[f].key = f
    /\ IF Inserted(f) THEN Inserted(row[f].key) ELSE ~row[f].whole

(* What a request has read stays: rows are not inserted twice, a complete  *)
(* file is not opened again, and an upload keeps its key.                  *)
TaskInv ==
  \A r \in Requests : \A f \in task[r].todo :
    /\ Inserted(f)
    /\ task[r].pc = "copy" => row[f].whole
    /\ task[r].pc = "abort" => row[f].key = f

(* The worker's batch is still in the queue, as only the worker takes from *)
(* it, and names keys of uploads that began.                               *)
QueueInv ==
  /\ \A k \in Files : queue[k] > 0 => Inserted(k)
  /\ \A k \in Files : cleaner.todo[k] <= queue[k]
  /\ cleaner.pc # "idle" => cleaner.key \in Files /\ cleaner.todo[cleaner.key] > 0

(* From the count to the unlink, only late copies come to refer to a key.  *)
UnlinkInv == cleaner.pc = "unlink" => Refs(cleaner.key) \subseteq late

(* The row that is about to leave the queue is not the only one of a blob  *)
(* that is there and that nothing refers to.                               *)
DropInv ==
  cleaner.pc = "drop" /\ cleaner.key \in blob /\ Refs(cleaner.key) = {} =>
    queue[cleaner.key] > 1 \/ cleaner.key \in leaked

IInv ==
  /\ TypeOK /\ NamesInv /\ TaskInv /\ QueueInv /\ UnlinkInv /\ DropInv
  /\ FilesKeepTheirBytes /\ UnreferencedIsQueued

LEMMA InitIInv == Init => IInv
<1> SUFFICES ASSUME Init PROVE IInv
  OBVIOUS
<1> USE DEF Init, Idle, AtRest
<1>1. TypeOK
  BY NoneAssumption DEF TypeOK, Row, Task
<1>2. NamesInv /\ TaskInv /\ QueueInv /\ UnlinkInv /\ DropInv
  BY DEF NamesInv, TaskInv, QueueInv, UnlinkInv, DropInv, Inserted
<1>3. FilesKeepTheirBytes /\ UnreferencedIsQueued
  BY DEF FilesKeepTheirBytes, UnreferencedIsQueued, Stored
<1> QED
  BY <1>1, <1>2, <1>3 DEF IInv

(***************************************************************************)
(* Types.                                                                  *)
(***************************************************************************)
(* The row of an upload that begins, and of a file that is restored.       *)
LEMMA ActiveRow ==
  ASSUME NEW t \in Row, NEW h \in Folders \cup {None}
  PROVE  LET n == [t EXCEPT !.state = "active", !.home = h] IN
         /\ n \in Row /\ n.state = "active" /\ n.home = h
         /\ n.whole = t.whole /\ n.key = t.key /\ n.chunks = t.chunks
BY DEF Row

(* The row of an upload that completes.                                    *)
LEMMA WholeRow ==
  ASSUME NEW t \in Row
  PROVE  LET n == [t EXCEPT !.whole = TRUE, !.chunks = TRUE] IN
         /\ n \in Row /\ n.whole /\ n.chunks
         /\ n.state = t.state /\ n.key = t.key
BY DEF Row

LEMMA UploadType == TypeOK /\ Upload => TypeOK'
<1> SUFFICES ASSUME TypeOK, NEW f \in Files,
                    \/ \E h \in Folders \cup {None} : UploadBegin(f, h)
                    \/ UploadMove(f) \/ UploadFinish(f)
             PROVE  TypeOK'
  BY DEF Upload
<1> USE DEF TypeOK, tables, history
<1>1. ASSUME NEW h \in Folders \cup {None}, UploadBegin(f, h) PROVE TypeOK'
  <2> DEFINE n == [row[f] EXCEPT !.state = "active", !.home = h]
  <2>1. n \in Row
    BY ActiveRow
  <2>2. /\ row' = [row EXCEPT ![f] = n]
        /\ UNCHANGED <<folder, queue, used, blob, task, cleaner, ledger, history>>
    BY <1>1 DEF UploadBegin
  <2> HIDE DEF n
  <2> QED
    BY <2>1, <2>2
<1>2. CASE UploadMove(f)
  BY <1>2 DEF UploadMove
<1>3. CASE UploadFinish(f)
  <2> DEFINE n == [row[f] EXCEPT !.whole = TRUE, !.chunks = TRUE]
  <2>1. n \in Row
    <3>1. row[f] \in Row
      OBVIOUS
    <3> QED
      BY <3>1, WholeRow, Zenon
  <2>2. /\ row' = [row EXCEPT ![f] = n] /\ used' = used + 1
        /\ UNCHANGED <<folder, queue, blob, task, cleaner, ledger, history>>
    BY <1>3 DEF UploadFinish
  <2> HIDE DEF n
  <2> QED
    BY <2>1, <2>2
<1> QED
  BY <1>1, <1>2, <1>3

(* A request that arrives changes no table; it has read rows that are      *)
(* inserted, complete ones to copy, and open ones to abort.                *)
HasRead(t) ==
  \A f \in t.todo :
    /\ Inserted(f)
    /\ t.pc = "copy" => row[f].whole
    /\ t.pc = "abort" => row[f].key = f

LEMMA ArriveReads ==
  ASSUME TypeOK, NamesInv, NEW r \in Requests, Arrive(r)
  PROVE  \E t \in Task : /\ HasRead(t) /\ task' = [task EXCEPT ![r] = t]
                        /\ UNCHANGED <<tables, blob, cleaner, ledger, history>>
<1>. DEFINE Reads(t) == HasRead(t) /\ task' = [task EXCEPT ![r] = t]
<1>1. \E t \in Task : Reads(t)
  <2>. USE DEF TypeOK, Idle, Task, Row, Begin, HasRead, Inserted
  <2>1. CASE EmptyTrash(r)
    BY <2>1 DEF EmptyTrash, Trashed
  <2>2. ASSUME NEW f \in Files, AbortRead(r, f)
        PROVE  \E t \in Task : Reads(t)
    BY <2>2 DEF AbortRead, NamesInv, Stored
  <2>3. ASSUME NEW f \in Files, DeleteRead(r, f) \/ PurgeFile(r, f)
        PROVE  \E t \in Task : Reads(t)
    BY <2>3 DEF DeleteRead, PurgeFile, Trashed
  <2>4. ASSUME NEW f \in Files, RestoreRead(r, f)
        PROVE  \E t \in Task : Reads(t)
    BY <2>4 DEF RestoreRead, RestoreHome, Trashed
  <2>5. ASSUME NEW fs \in SUBSET Files, PurgeExpired(r, fs)
        PROVE  \E t \in Task : Reads(t)
    BY <2>5 DEF PurgeExpired, Trashed
  <2>6. ASSUME NEW d \in Folders, PurgeFolder(r, d)
        PROVE  \E t \in Task : Reads(t)
    BY <2>6 DEF PurgeFolder, Inside, Stored
  <2>7. ASSUME NEW d \in Folders, FolderRead(r, d)
        PROVE  \E t \in Task : Reads(t)
    BY <2>7 DEF FolderRead
  <2>8. ASSUME NEW f \in Files, NEW d \in Folders, CopyRead(r, f, d)
        PROVE  \E t \in Task : Reads(t)
    BY <2>8 DEF CopyRead
  <2>. QED
    BY <2>1, <2>2, <2>3, <2>4, <2>5, <2>6, <2>7, <2>8 DEF Arrive
<1>2. UNCHANGED <<tables, blob, cleaner, ledger, history>>
  BY DEF Arrive, EmptyTrash, AbortRead, DeleteRead, PurgeFile, RestoreRead, PurgeExpired,
         PurgeFolder, FolderRead, CopyRead
<1>. QED
  BY <1>1, <1>2

LEMMA ArriveType ==
  ASSUME TypeOK, NamesInv, NEW r \in Requests, Arrive(r)
  PROVE  TypeOK'
<1>1. PICK t \in Task : /\ task' = [task EXCEPT ![r] = t]
                       /\ UNCHANGED <<tables, blob, cleaner, ledger, history>>
  BY ArriveReads
<1>. QED
  BY <1>1 DEF TypeOK, tables, history

(* A row and a task keep their types when one field is set.                *)
LEMMA StateRow ==
  ASSUME NEW t \in Row, NEW s \in {"active", "trash", "gone"}
  PROVE  LET n == [t EXCEPT !.state = s] IN
         /\ n \in Row /\ n.state = s
         /\ n.whole = t.whole /\ n.key = t.key /\ n.chunks = t.chunks
BY DEF Row

LEMMA TaskEnds ==
  ASSUME NEW t \in Task
  PROVE  [t EXCEPT !.pc = "purge", !.todo = {}, !.home = None] \in Task
BY DEF Task

LEMMA StepType ==
  ASSUME TypeOK, NEW r \in Requests, Step(r)
  PROVE  TypeOK'
<1>1. row \in [Files -> Row] /\ queue \in [Files -> Nat] /\ used \in Nat
      /\ folder \in [Folders -> {"active", "trash", "gone"}]
      /\ late \in SUBSET Files /\ leaked \in SUBSET Files
      /\ task \in [Requests -> Task]
  BY DEF TypeOK
<1>. DEFINE Kept == /\ row' \in [Files -> Row] /\ queue' \in [Files -> Nat] /\ used' \in Nat
                    /\ folder' \in [Folders -> {"active", "trash", "gone"}]
                    /\ late' \in SUBSET Files /\ leaked' \in SUBSET Files
                    /\ task' \in [Requests -> Task]
                    /\ UNCHANGED <<blob, cleaner, ledger>>
<1>2. Kept
  <2>. USE <1>1 DEF tables, history
  <2>1. \A f \in Files, s \in {"active", "trash", "gone"} : [row[f] EXCEPT !.state = s] \in Row
    BY StateRow, Zenon
  <2>20. \A S : [f \in Files |-> IF f \in S THEN [row[f] EXCEPT !.state = "gone"] ELSE row[f]]
                 \in [Files -> Row]
    BY <2>1
  <2>2. \A n \in Nat : Refund(n) \in Nat
    BY DEF Refund
  <2>3. ASSUME NEW f \in Files, PurgeRow(f)
        PROVE  row' \in [Files -> Row] /\ queue' \in [Files -> Nat] /\ used' \in Nat
    <3>1. row' \in [Files -> Row] /\ used' \in Nat
      BY <2>1, <2>2, <2>3 DEF PurgeRow
    <3>2. row[f].key \in Files
      BY DEF Row
    <3>. QED
      BY <2>3, <3>1, <3>2 DEF PurgeRow, Queued
  <2>4. ASSUME NEW fs \in SUBSET Files PROVE Retire(fs) \in [Files -> Row]
    BY <2>1 DEF Retire
  <2>24. ASSUME task' = [task EXCEPT ![r].pc = "purge", ![r].todo = {}, ![r].home = None]
         PROVE  task' \in [Requests -> Task]
    <3>. DEFINE n == [task[r] EXCEPT !.pc = "purge", !.todo = {}, !.home = None]
    <3>1. n \in Task
      BY TaskEnds, Zenon
    <3>2. task' = [task EXCEPT ![r] = n]
      BY <2>24, Zenon
    <3>. HIDE DEF n
    <3>. QED
      BY <3>1, <3>2
  <2>5. CASE DropTree(r)
    <3>. DEFINE added(k) == IF k \in task[r].todo THEN 1 ELSE 0
                d == task[r].home
    <3>1. \A k \in Files : added(k) \in Nat
      OBVIOUS
    <3>2. /\ queue' = [k \in Files |-> queue[k] + added(k)]
          /\ folder' = [folder EXCEPT ![d] = "gone"]
          /\ UNCHANGED <<used, blob, cleaner, ledger, late>>
      BY <2>5 DEF DropTree
    <3>3. row' \in [Files -> Row]
      BY <2>5, <2>20 DEF DropTree
    <3>4. leaked' \in SUBSET Files
      <4>1. \A f \in Files : row[f].key \in Files
        BY DEF Row
      <4>. QED
        BY <2>5, <4>1 DEF DropTree, Inside
    <3>5. task' \in [Requests -> Task]
      BY <2>5, <2>24 DEF DropTree
    <3>. HIDE DEF added, d
    <3>6. queue' \in [Files -> Nat]
      <4>1. \A k \in Files : queue[k] + added(k) \in Nat
        BY <3>1
      <4>. QED
        BY <3>2, <4>1
    <3>7. folder' \in [Folders -> {"active", "trash", "gone"}]
      BY <3>2
    <3>. QED
      BY <3>2, <3>3, <3>4, <3>5, <3>6, <3>7
  <2>6. Reply(r) => task' \in [Requests -> Task]
    BY DEF Reply, Idle, Task
  <2>7. task[r].todo \in SUBSET Files /\ task[r].dirs \in SUBSET Folders
    BY DEF Task
  <2>8. CASE AbortWrite(r)
    BY <2>1, <2>6, <2>7, <2>8 DEF AbortWrite
  <2>9. CASE DeleteToTrash(r)
    BY <2>4, <2>6, <2>7, <2>9 DEF DeleteToTrash
  <2>10. CASE DeleteHard(r)
    BY <2>3, <2>6, <2>7, <2>10 DEF DeleteHard
  <2>11. CASE RestoreWrite(r)
    <3>1. task[r].home \in Folders \cup {None}
      BY DEF Task
    <3>2. \A f \in Files : [row[f] EXCEPT !.state = "active", !.home = task[r].home] \in Row
      BY <3>1, ActiveRow, Zenon
    <3>. QED
      BY <2>6, <2>11, <3>2 DEF RestoreWrite
  <2>12. ASSUME NEW f \in Files, PurgeOne(r, f) \/ PurgeSkip(r, f)
         PROVE  task' \in [Requests -> Task]
    BY <2>12 DEF PurgeOne, PurgeSkip, Task
  <2>13. ASSUME NEW f \in Files, CopyWrite(r, f)
         PROVE  row' \in [Files -> Row] /\ late' \in SUBSET Files
    BY <2>7, <2>13 DEF CopyWrite, Row, Task
  <2>14. ASSUME NEW ds \in SUBSET Folders, ExpiredFolders(r, ds)
         PROVE  task' \in [Requests -> Task]
    BY <2>14 DEF ExpiredFolders, Idle, Task
  <2>15. ASSUME NEW d \in Folders, QueueTree(r, d)
         PROVE  task' \in [Requests -> Task]
    <3>1. {row[f].key : f \in Inside(d)} \in SUBSET Files
      BY DEF Inside, Row
    <3>. QED
      BY <2>7, <2>15, <3>1 DEF QueueTree, Task
  <2>16. CASE EmptyFolders(r)
    <3>1. \A f \in Files : row[f].key \in Files
      BY DEF Row
    <3>2. row' \in [Files -> Row]
      BY <2>16, <2>20 DEF EmptyFolders
    <3>3. leaked' \in SUBSET Files
      BY <2>16, <3>1 DEF EmptyFolders, Inside
    <3>. QED
      BY <2>6, <2>16, <3>2, <3>3 DEF EmptyFolders
  <2>17. CASE FolderToTrash(r)
    BY <2>4, <2>6, <2>17 DEF FolderToTrash, Inside
  <2>18. CASE TreeFails(r)
    BY <2>18, <2>24 DEF TreeFails
  <2>19. CASE FolderRestore(r)
    BY <2>1, <2>6, <2>19 DEF FolderRestore
  <2>21. ASSUME NEW f \in Files, PurgeOne(r, f) \/ PurgeSkip(r, f) \/ CopyWrite(r, f)
         PROVE  Kept
    BY <2>3, <2>6, <2>12, <2>13, <2>21 DEF PurgeOne, PurgeSkip, CopyWrite
  <2>22. (\E ds \in SUBSET Folders : ExpiredFolders(r, ds)) \/ PurgeEnd(r) \/ Fail(r) => Kept
    BY <2>6, <2>14 DEF ExpiredFolders, PurgeEnd, Fail
  <2>23. ASSUME NEW d \in Folders, QueueTree(r, d) PROVE Kept
    BY <2>15, <2>23 DEF QueueTree
  <2>. QED
    BY <2>5, <2>8, <2>9, <2>10, <2>11, <2>16, <2>17, <2>18, <2>19, <2>21, <2>22, <2>23 DEF Step
<1>. QED
  BY <1>2 DEF TypeOK

LEMMA CleanerType == TypeOK /\ QueueInv /\ Cleaner => TypeOK'
<1>. SUFFICES ASSUME TypeOK, QueueInv, Cleaner PROVE TypeOK'
  OBVIOUS
<1>. USE DEF TypeOK, tables, history, AtRest
<1>1. CASE CleanerRead
  BY <1>1 DEF CleanerRead
<1>2. ASSUME NEW k \in Files, CleanerCount(k) PROVE TypeOK'
  BY <1>2 DEF CleanerCount
<1>3. CASE CleanerUnlink
  BY <1>3 DEF CleanerUnlink
<1>4. CASE CleanerUnlinkFails
  BY <1>4 DEF CleanerUnlinkFails, QueueInv
<1>5. CASE CleanerDrop
  <2>1. /\ cleaner.key \in Files /\ cleaner.todo[cleaner.key] > 0
        /\ queue[cleaner.key] > 0
    BY <1>5 DEF CleanerDrop, QueueInv
  <2>. QED
    BY <1>5, <2>1 DEF CleanerDrop
<1>6. CASE CleanerStops
  BY <1>6 DEF CleanerStops
<1>. QED
  BY <1>1, <1>2, <1>3, <1>4, <1>5, <1>6 DEF Cleaner

LEMMA RepairType ==
  TypeOK /\ (ReconcileRead \/ ReconcileWrite \/ Crash) => TypeOK'
<1>1. Usage \in Nat
  BY FilesAssumption, FS_Subset, FS_CardinalityType DEF Usage
<1>. QED
  BY <1>1 DEF ReconcileRead, ReconcileWrite, Crash, TypeOK, tables, history, AtRest, Idle, Task

LEMMA NextType == TypeOK /\ NamesInv /\ QueueInv /\ [Next]_vars => TypeOK'
<1>1. TypeOK /\ UNCHANGED vars => TypeOK'
  BY DEF TypeOK, vars, tables, history
<1>. QED
  BY <1>1, UploadType, ArriveType, StepType, CleanerType, RepairType DEF Next

(***************************************************************************)
(* What a step may do to the rows that requests have read.                 *)
(***************************************************************************)
Grows ==
  \A f \in Files : Inserted(f) =>
    /\ row'[f].state # "none"
    /\ row'[f].key = row[f].key
    /\ row[f].whole => row'[f].whole

LEMMA TasksKeep ==
  ASSUME TypeOK, TaskInv, Grows, NEW r \in Requests, NEW t \in Task,
         t = Idle \/ HasRead(t), task' = [task EXCEPT ![r] = t]
  PROVE  TaskInv'
BY DEF TypeOK, Task, TaskInv, Grows, HasRead, Inserted, Idle

LEMMA TasksShrink ==
  ASSUME TaskInv, Grows,
         \A q \in Requests : /\ task[q].todo \subseteq Files
                             /\ task'[q].todo \subseteq task[q].todo
                             /\ task'[q].pc = task[q].pc \/ task'[q].todo = {}
  PROVE  TaskInv'
BY DEF TaskInv, Grows, Inserted

LEMMA TasksStay == ASSUME TypeOK, TaskInv, Grows, task' = task PROVE TaskInv'
BY DEF TypeOK, Task, TaskInv, Grows, Inserted

(* A step that only marks rows, as trashed, restored or moved, keeps all.  *)
LEMMA MarkKeeps ==
  ASSUME IInv, TypeOK', TaskInv', UNCHANGED <<blob, queue, cleaner, late, leaked>>,
         \A f \in Files :
           /\ row'[f].key = row[f].key
           /\ row'[f].whole = row[f].whole /\ row'[f].chunks = row[f].chunks
           /\ Inserted(f)' <=> Inserted(f)
           /\ Stored(f)' <=> Stored(f)
  PROVE  IInv'
<1>1. \A k : Refs(k)' = Refs(k)
  BY DEF Refs
<1>2. NamesInv' /\ QueueInv'
  BY DEF IInv, TypeOK, Row, NamesInv, QueueInv, Inserted
<1>3. UnlinkInv' /\ DropInv' /\ UnreferencedIsQueued'
  BY <1>1 DEF IInv, UnlinkInv, DropInv, UnreferencedIsQueued
<1>4. FilesKeepTheirBytes'
  BY DEF IInv, FilesKeepTheirBytes
<1>. QED
  BY <1>2, <1>3, <1>4 DEF IInv

(* So does one that deletes rows, when it queues the key of each, or says  *)
(* that it does not.                                                       *)
LEMMA RemoveKeeps ==
  ASSUME IInv, TypeOK', TaskInv', UNCHANGED <<blob, cleaner, late>>,
         NEW fs \in SUBSET Files,
         \A f \in fs : Inserted(f),
         \A f \in Files : row'[f] = IF f \in fs THEN [row[f] EXCEPT !.state = "gone"] ELSE row[f],
         \A k \in Files : queue'[k] >= queue[k],
         \A k \in Files : queue'[k] > 0 => Inserted(k),
         leaked \subseteq leaked',
         \A f \in fs : Stored(f) =>
           \/ queue'[row[f].key] > queue[row[f].key]
           \/ row[f].key \in leaked' \/ row[f].key \notin blob
  PROVE  IInv'
<1>1. /\ TypeOK /\ NamesInv /\ QueueInv /\ UnlinkInv /\ DropInv
      /\ FilesKeepTheirBytes /\ UnreferencedIsQueued
  BY DEF IInv
<1>2. \A f \in Files :
         /\ row'[f].key = row[f].key /\ row[f].key \in Files
         /\ row'[f].whole = row[f].whole /\ row'[f].chunks = row[f].chunks
         /\ Inserted(f)' <=> Inserted(f)
         /\ Stored(f)' <=> Stored(f) /\ f \notin fs
  BY <1>1 DEF TypeOK, Row, Inserted, Stored
<1>3. \A k : Refs(k)' = Refs(k) \ fs
  BY <1>2 DEF Refs
<1>4. \A k \in Files : queue[k] \in Nat /\ queue'[k] \in Nat /\ cleaner.todo[k] \in Nat
  BY <1>1 DEF TypeOK
<1>5. NamesInv' /\ FilesKeepTheirBytes'
  BY <1>1, <1>2 DEF NamesInv, FilesKeepTheirBytes
<1>6. QueueInv'
  BY <1>1, <1>2, <1>4 DEF QueueInv
<1>7. UnlinkInv'
  BY <1>1, <1>3 DEF UnlinkInv
<1>8. \A k \in blob : Refs(k) # {} /\ Refs(k)' = {} => queue'[k] > queue[k] \/ k \in leaked'
  BY <1>3 DEF Refs
<1>9. DropInv'
  BY <1>1, <1>3, <1>4, <1>8 DEF DropInv, QueueInv
<1>10. UnreferencedIsQueued'
  BY <1>1, <1>3, <1>4, <1>8 DEF UnreferencedIsQueued, TypeOK
<1>. QED
  BY <1>5, <1>6, <1>7, <1>9, <1>10 DEF IInv

(***************************************************************************)
(* The steps.                                                              *)
(***************************************************************************)
LEMMA UploadKeeps == ASSUME IInv, TypeOK', Upload PROVE IInv'
<1>. SUFFICES ASSUME NEW f \in Files,
                     \/ \E h \in Folders \cup {None} : UploadBegin(f, h)
                     \/ UploadMove(f) \/ UploadFinish(f)
              PROVE  IInv'
  BY DEF Upload
<1>1. /\ TypeOK /\ NamesInv /\ TaskInv /\ QueueInv /\ UnlinkInv /\ DropInv
      /\ FilesKeepTheirBytes /\ UnreferencedIsQueued
  BY DEF IInv
<1>2. ASSUME NEW h \in Folders \cup {None}, UploadBegin(f, h) PROVE IInv'
  <2>1. /\ row' = [row EXCEPT ![f] = row'[f]]
        /\ row'[f].state = "active" /\ row'[f].whole = row[f].whole
        /\ row'[f].key = row[f].key /\ row[f].key = f /\ ~row[f].whole /\ ~Inserted(f)
        /\ UNCHANGED <<queue, blob, task, cleaner, late, leaked>>
    <3>. DEFINE n == [row[f] EXCEPT !.state = "active", !.home = h]
    <3>1. row[f] \in Row
      BY <1>1 DEF TypeOK
    <3>2. /\ row' = [row EXCEPT ![f] = n] /\ row[f].state = "none"
          /\ UNCHANGED <<queue, blob, task, cleaner, late, leaked>>
      BY <1>2 DEF UploadBegin, history
    <3>3. n.state = "active" /\ n.whole = row[f].whole /\ n.key = row[f].key
      BY <3>1, ActiveRow, Zenon
    <3>. HIDE DEF n
    <3>4. row[f].key = f /\ ~row[f].whole
      BY <1>1, <3>2 DEF NamesInv, Inserted
    <3>. QED
      BY <1>1, <3>2, <3>3, <3>4 DEF TypeOK, Inserted
  <2>2. Grows /\ NamesInv'
    BY <1>1, <2>1 DEF Grows, NamesInv, Inserted, TypeOK, Row
  <2>3. /\ \A k : Refs(k) \subseteq Refs(k)' /\ (k # f => Refs(k)' = Refs(k))
        /\ \A g \in Files : g # f => (Stored(g)' <=> Stored(g)) /\ row'[g] = row[g]
    BY <1>1, <2>1 DEF Refs, Stored, TypeOK
  <2>4. cleaner.pc # "idle" => cleaner.key # f
    BY <1>1, <2>1 DEF QueueInv, TypeOK
  <2>5. TaskInv'
    BY <1>1, <2>1, <2>2, TasksStay
  <2>6. QueueInv'
    BY <1>1, <2>1, <2>2 DEF QueueInv, Grows, Inserted
  <2>7. UnlinkInv' /\ DropInv'
    BY <1>1, <2>1, <2>3, <2>4 DEF UnlinkInv, DropInv
  <2>8. FilesKeepTheirBytes' /\ UnreferencedIsQueued'
    BY <1>1, <2>1, <2>3 DEF FilesKeepTheirBytes, UnreferencedIsQueued, TypeOK
  <2>. QED
    BY <2>2, <2>5, <2>6, <2>7, <2>8 DEF IInv
<1>3. CASE UploadMove(f)
  <2>1. /\ blob' = blob \cup {f} /\ leaked' = IF Stored(f) THEN leaked ELSE leaked \cup {f}
        /\ UNCHANGED <<row, queue, task, cleaner, late>>
        /\ Stored(f) => f \in Refs(f)
    BY <1>1, <1>3 DEF UploadMove, tables, NamesInv, Refs
  <2>2. NamesInv' /\ TaskInv' /\ QueueInv' /\ UnlinkInv' /\ FilesKeepTheirBytes'
    BY <1>1, <2>1 DEF NamesInv, TaskInv, QueueInv, UnlinkInv, FilesKeepTheirBytes, Refs, Stored,
                      Inserted
  <2>3. DropInv' /\ UnreferencedIsQueued'
    BY <1>1, <2>1 DEF DropInv, UnreferencedIsQueued, Refs, Stored
  <2>. QED
    BY <2>2, <2>3 DEF IInv
<1>4. CASE UploadFinish(f)
  <2>1. /\ row' = [row EXCEPT ![f] = row'[f]]
        /\ row'[f].whole /\ row'[f].chunks /\ row'[f].state = row[f].state
        /\ row'[f].key = row[f].key /\ row[f].key = f /\ f \in blob /\ Inserted(f)
        /\ UNCHANGED <<queue, blob, task, cleaner, late, leaked>>
    <3>. DEFINE n == [row[f] EXCEPT !.whole = TRUE, !.chunks = TRUE]
    <3>1. row[f] \in Row
      BY <1>1 DEF TypeOK
    <3>2. /\ row' = [row EXCEPT ![f] = n] /\ f \in blob /\ Stored(f) /\ ~row[f].whole
          /\ UNCHANGED <<queue, blob, task, cleaner, late, leaked>>
      BY <1>4 DEF UploadFinish, history
    <3>3. n.state = row[f].state /\ n.whole /\ n.chunks /\ n.key = row[f].key
      BY <3>1, WholeRow, Zenon
    <3>. HIDE DEF n
    <3>. QED
      BY <1>1, <3>2, <3>3 DEF TypeOK, NamesInv, Inserted, Stored
  <2>2. Grows /\ NamesInv'
    BY <1>1, <2>1 DEF Grows, NamesInv, Inserted, TypeOK, Row
  <2>3. /\ \A k : Refs(k)' = Refs(k)
        /\ \A g \in Files : g # f => (Stored(g)' <=> Stored(g)) /\ row'[g] = row[g]
    BY <1>1, <2>1 DEF Refs, Stored, TypeOK
  <2>4. TaskInv'
    BY <1>1, <2>1, <2>2, TasksStay
  <2>5. QueueInv' /\ UnlinkInv' /\ DropInv'
    BY <1>1, <2>1, <2>2, <2>3 DEF QueueInv, UnlinkInv, DropInv, Grows, Inserted
  <2>6. FilesKeepTheirBytes' /\ UnreferencedIsQueued'
    BY <1>1, <2>1, <2>3 DEF FilesKeepTheirBytes, UnreferencedIsQueued
  <2>. QED
    BY <2>2, <2>4, <2>5, <2>6 DEF IInv
<1>. QED
  BY <1>2, <1>3, <1>4

LEMMA ArriveKeeps ==
  ASSUME IInv, TypeOK', NEW r \in Requests, Arrive(r)
  PROVE  IInv'
<1>1. PICK t \in Task : /\ HasRead(t) /\ task' = [task EXCEPT ![r] = t]
                       /\ UNCHANGED <<tables, blob, cleaner, ledger, history>>
  BY ArriveReads DEF IInv
<1>2. TaskInv'
  BY <1>1, TasksKeep DEF IInv, Grows, Inserted, tables
<1>. QED
  BY <1>1, <1>2, MarkKeeps DEF tables, history, Inserted, Stored

(* A request ends, or goes on with less to do.                             *)
LEMMA GoesOn ==
  ASSUME TypeOK, TypeOK', TaskInv, Grows, NEW r \in Requests,
         \/ Reply(r)
         \/ \E f \in Files : task' = [task EXCEPT ![r].todo = @ \ {f}]
         \/ \E ds : task' = [task EXCEPT ![r] = [Idle EXCEPT !.pc = "purge", !.dirs = ds]]
         \/ task' = [task EXCEPT ![r].pc = "purge", ![r].todo = {}, ![r].home = None]
  PROVE  TaskInv'
<1>1. /\ task \in [Requests -> Task] /\ task' \in [Requests -> Task]
      /\ \A q \in Requests : q # r => task'[q] = task[q]
  BY DEF TypeOK, Reply
<1>2. /\ task'[r].todo \subseteq task[r].todo
      /\ task'[r].pc = task[r].pc \/ task'[r].todo = {}
  <2>1. CASE Reply(r)
    BY <1>1, <2>1 DEF Reply, Idle
  <2>2. ASSUME NEW f \in Files, task' = [task EXCEPT ![r].todo = @ \ {f}]
        PROVE  task'[r].todo \subseteq task[r].todo /\ task'[r].pc = task[r].pc
    BY <1>1, <2>2 DEF Task
  <2>3. ASSUME NEW ds, task' = [task EXCEPT ![r] = [Idle EXCEPT !.pc = "purge", !.dirs = ds]]
        PROVE  task'[r].todo = {}
    BY <1>1, <2>3 DEF Idle
  <2>4. CASE task' = [task EXCEPT ![r].pc = "purge", ![r].todo = {}, ![r].home = None]
    BY <1>1, <2>4 DEF Task
  <2>. QED
    BY <2>1, <2>2, <2>3, <2>4, Zenon
<1>3. \A q \in Requests : task[q].todo \subseteq Files
  BY <1>1 DEF Task
<1>4. \A q \in Requests : /\ task'[q].todo \subseteq task[q].todo
                          /\ task'[q].pc = task[q].pc \/ task'[q].todo = {}
  BY <1>1, <1>2
<1>. QED
  BY <1>3, <1>4, TasksShrink

(* Trashing, restoring and moving.                                         *)
LEMMA MarkSteps ==
  ASSUME IInv, TypeOK', NEW r \in Requests,
         \/ DeleteToTrash(r) \/ RestoreWrite(r) \/ FolderToTrash(r) \/ FolderRestore(r)
         \/ PurgeEnd(r) \/ TreeFails(r) \/ Fail(r)
         \/ \E f \in Files : PurgeSkip(r, f)
         \/ \E ds \in SUBSET Folders : ExpiredFolders(r, ds)
  PROVE  IInv'
<1>1. /\ TypeOK /\ TaskInv /\ \A f \in Files : row[f] \in Row
  BY DEF IInv, TypeOK
<1>2. /\ UNCHANGED <<blob, queue, cleaner, late, leaked>>
      /\ \/ Reply(r)
         \/ \E f \in Files : task' = [task EXCEPT ![r].todo = @ \ {f}]
         \/ \E ds : task' = [task EXCEPT ![r] = [Idle EXCEPT !.pc = "purge", !.dirs = ds]]
         \/ task' = [task EXCEPT ![r].pc = "purge", ![r].todo = {}, ![r].home = None]
  BY DEF DeleteToTrash, RestoreWrite, FolderToTrash, FolderRestore, PurgeEnd, TreeFails, Fail,
         PurgeSkip, ExpiredFolders, tables, history
<1>3. \A f \in Files :
        \/ row'[f] = row[f]
        \/ Stored(f) /\ \E s \in {"active", "trash"} : row'[f] = [row[f] EXCEPT !.state = s]
        \/ Stored(f) /\ \E h \in Folders \cup {None} :
              row'[f] = [row[f] EXCEPT !.state = "active", !.home = h]
  <2>1. task[r].home \in Folders \cup {None}
    BY <1>1 DEF TypeOK, Task
  <2>2. CASE DeleteToTrash(r) \/ FolderToTrash(r)
    BY <2>2 DEF DeleteToTrash, FolderToTrash, Retire
  <2>3. CASE RestoreWrite(r)
    BY <2>1, <2>3 DEF RestoreWrite
  <2>4. CASE FolderRestore(r)
    BY <2>4 DEF FolderRestore, Inside
  <2>5. CASE UNCHANGED row
    BY <2>5
  <2>. QED
    BY <2>2, <2>3, <2>4, <2>5 DEF PurgeEnd, TreeFails, Fail, PurgeSkip, ExpiredFolders, tables
<1>4. \A f \in Files :
        /\ row'[f].key = row[f].key
        /\ row'[f].whole = row[f].whole /\ row'[f].chunks = row[f].chunks
        /\ Inserted(f)' <=> Inserted(f)
        /\ Stored(f)' <=> Stored(f)
  <2>. TAKE f \in Files
  <2>1. CASE row'[f] = row[f]
    BY <2>1 DEF Inserted, Stored
  <2>2. ASSUME Stored(f), NEW s \in {"active", "trash"}, row'[f] = [row[f] EXCEPT !.state = s]
        PROVE  /\ row'[f].key = row[f].key /\ row'[f].state = s
               /\ row'[f].whole = row[f].whole /\ row'[f].chunks = row[f].chunks
    <3>. DEFINE n == [row[f] EXCEPT !.state = s]
    <3>1. row[f] \in Row /\ s \in {"active", "trash", "gone"}
      BY <1>1
    <3>2. /\ n.key = row[f].key /\ n.state = s
          /\ n.whole = row[f].whole /\ n.chunks = row[f].chunks
      BY <3>1, StateRow, Zenon
    <3>3. row'[f] = n
      BY <2>2
    <3>. HIDE DEF n
    <3>. QED
      BY <3>2, <3>3
  <2>3. ASSUME Stored(f), NEW h \in Folders \cup {None},
               row'[f] = [row[f] EXCEPT !.state = "active", !.home = h]
        PROVE  /\ row'[f].key = row[f].key /\ row'[f].state = "active"
               /\ row'[f].whole = row[f].whole /\ row'[f].chunks = row[f].chunks
    <3>. DEFINE n == [row[f] EXCEPT !.state = "active", !.home = h]
    <3>1. row[f] \in Row
      BY <1>1
    <3>2. /\ n.key = row[f].key /\ n.state = "active"
          /\ n.whole = row[f].whole /\ n.chunks = row[f].chunks
      BY <3>1, ActiveRow, Zenon
    <3>3. row'[f] = n
      BY <2>3
    <3>. HIDE DEF n
    <3>. QED
      BY <3>2, <3>3
  <2>. QED
    BY <1>3, <2>1, <2>2, <2>3 DEF Inserted, Stored
<1>5. Grows
  BY <1>4 DEF Grows, Inserted
<1>6. TaskInv'
  BY <1>1, <1>2, <1>5, GoesOn
<1>. QED
  BY <1>2, <1>4, <1>6, MarkKeeps

(* A step that deletes the rows fs, and what becomes of their blobs.       *)
Removes(fs) ==
  /\ \A f \in fs : Inserted(f)
  /\ \A f \in Files : row'[f] = IF f \in fs THEN [row[f] EXCEPT !.state = "gone"] ELSE row[f]
  /\ \A k \in Files : queue'[k] >= queue[k]
  /\ \A k \in Files : queue'[k] # queue[k] => Inserted(k)
  /\ leaked \subseteq leaked'
  /\ \A f \in fs : Stored(f) =>
       \/ queue'[row[f].key] > queue[row[f].key]
       \/ row[f].key \in leaked' \/ row[f].key \notin blob

LEMMA PurgeRemoves ==
  ASSUME TypeOK, NamesInv, NEW f \in Files, Inserted(f), PurgeRow(f), leaked' = leaked
  PROVE  Removes({f})
<1>1. row[f].key \in Files /\ queue \in [Files -> Nat] /\ row \in [Files -> Row]
  BY DEF TypeOK, Row
<1>2. queue' = [queue EXCEPT ![row[f].key] = @ + 1] /\ row' = [row EXCEPT ![f].state = "gone"]
  BY DEF PurgeRow, Queued
<1>3. \A g \in Files : row'[g] = IF g \in {f} THEN [row[g] EXCEPT !.state = "gone"] ELSE row[g]
  BY <1>1, <1>2
<1>4. \A k \in Files : queue'[k] = IF k = row[f].key THEN queue[k] + 1 ELSE queue[k]
  BY <1>1, <1>2
<1>5. \A k \in Files : queue'[k] >= queue[k] /\ (queue'[k] # queue[k] => Inserted(k))
  BY <1>1, <1>4 DEF NamesInv
<1>6. queue'[row[f].key] > queue[row[f].key]
  BY <1>1, <1>4
<1>. QED
  BY <1>3, <1>5, <1>6 DEF Removes

LEMMA DropRemoves ==
  ASSUME TypeOK, TaskInv, NEW r \in Requests, DropTree(r)
  PROVE  \E fs \in SUBSET Files : Removes(fs)
<1>. DEFINE lost == Inside(task[r].home)
<1>1. queue \in [Files -> Nat] /\ \A f \in Files : row[f].key \in Files
  BY DEF TypeOK, Row
<1>2. /\ \A k \in Files : queue'[k] = queue[k] + IF k \in task[r].todo THEN 1 ELSE 0
      /\ \A f \in Files : row'[f] = IF f \in lost THEN [row[f] EXCEPT !.state = "gone"] ELSE row[f]
      /\ leaked' = leaked \cup ({row[f].key : f \in lost} \ task[r].todo)
  BY <1>1 DEF DropTree
<1>3. lost \in SUBSET Files /\ \A f \in lost : Inserted(f)
  BY DEF Inside, Stored, Inserted
<1>. HIDE DEF lost
<1>4. \A k \in Files : queue'[k] >= queue[k] /\ (queue'[k] # queue[k] => k \in task[r].todo)
  BY <1>1, <1>2
<1>5. \A k \in task[r].todo : Inserted(k)
  BY DEF TaskInv
<1>6. \A f \in lost : queue'[row[f].key] > queue[row[f].key] \/ row[f].key \in leaked'
  <2>. SUFFICES ASSUME NEW f \in lost
                PROVE  queue'[row[f].key] > queue[row[f].key] \/ row[f].key \in leaked'
    OBVIOUS
  <2>. DEFINE k == row[f].key
  <2>1. k \in Files /\ k \in {row[g].key : g \in lost}
    BY <1>1, <1>3
  <2>. HIDE DEF k
  <2>. QED
    BY <1>1, <1>2, <2>1 DEF k
<1>7. Removes(lost)
  BY <1>2, <1>3, <1>4, <1>5, <1>6 DEF Removes
<1>. QED
  BY <1>3, <1>7

LEMMA AbortRemoves ==
  ASSUME TypeOK, TaskInv, NEW r \in Requests, AbortWrite(r)
  PROVE  \E f \in Files : Removes({f})
<1>1. PICK f \in task[r].todo :
        /\ row' = [row EXCEPT ![f].state = "gone"]
        /\ leaked' = IF f \in blob THEN leaked \cup {f} ELSE leaked
        /\ queue' = queue
  BY DEF AbortWrite
<1>2. f \in Files /\ row[f].key = f /\ Inserted(f)
  BY <1>1 DEF TypeOK, Task, TaskInv, AbortWrite
<1>3. \A g \in Files : row'[g] = IF g \in {f} THEN [row[g] EXCEPT !.state = "gone"] ELSE row[g]
  BY <1>1 DEF TypeOK
<1>4. \A k \in Files : queue'[k] >= queue[k] /\ queue'[k] = queue[k]
  BY <1>1 DEF TypeOK
<1>. QED
  BY <1>1, <1>2, <1>3, <1>4 DEF Removes

LEMMA EmptyRemoves ==
  ASSUME TypeOK, NEW r \in Requests, EmptyFolders(r)
  PROVE  \E fs \in SUBSET Files : Removes(fs)
<1>. DEFINE lost == UNION {Inside(d) : d \in {d \in Folders : folder[d] = "trash"}}
<1>1. /\ row' = [f \in Files |-> IF f \in lost THEN [row[f] EXCEPT !.state = "gone"] ELSE row[f]]
      /\ leaked' = leaked \cup {row[f].key : f \in lost} /\ queue' = queue
  BY DEF EmptyFolders
<1>2. lost \in SUBSET Files /\ \A f \in lost : Inserted(f)
  BY DEF Inside, Stored, Inserted
<1>. HIDE DEF lost
<1>3. \A k \in Files : queue'[k] >= queue[k] /\ queue'[k] = queue[k]
  BY <1>1 DEF TypeOK
<1>4. Removes(lost)
  BY <1>1, <1>2, <1>3 DEF Removes
<1>. QED
  BY <1>2, <1>4

LEMMA RemoveSteps ==
  ASSUME IInv, TypeOK', NEW r \in Requests,
         \/ AbortWrite(r) \/ DeleteHard(r) \/ DropTree(r) \/ EmptyFolders(r)
         \/ \E f \in Files : PurgeOne(r, f)
  PROVE  IInv'
<1>1. /\ TypeOK /\ TaskInv /\ NamesInv /\ QueueInv /\ task[r] \in Task
  BY DEF IInv, TypeOK
<1>2. /\ task[r].todo \in SUBSET Files /\ \A f \in task[r].todo : Inserted(f)
      /\ task[r].dirs \in SUBSET Folders /\ \A d : Inside(d) \in SUBSET Files
  BY <1>1 DEF Task, TaskInv, Inside
<1>3. \E fs \in SUBSET Files : Removes(fs)
  <2>1. CASE DeleteHard(r)
    <3>1. PICK f \in task[r].todo : PurgeRow(f)
      BY <2>1 DEF DeleteHard
    <3>. QED
      BY <1>1, <1>2, <2>1, <3>1, PurgeRemoves DEF DeleteHard, history
  <2>2. ASSUME NEW f \in Files, PurgeOne(r, f) PROVE Removes({f})
    BY <1>1, <1>2, <2>2, PurgeRemoves DEF PurgeOne, history
  <2>. QED
    BY <1>1, <1>2, <2>1, <2>2, AbortRemoves, DropRemoves, EmptyRemoves
<1>4. PICK fs \in SUBSET Files : Removes(fs)
  BY <1>3
<1>5. /\ UNCHANGED <<blob, cleaner, late>>
      /\ \/ Reply(r)
         \/ \E f \in Files : task' = [task EXCEPT ![r].todo = @ \ {f}]
         \/ task' = [task EXCEPT ![r].pc = "purge", ![r].todo = {}, ![r].home = None]
  BY DEF AbortWrite, DeleteHard, DropTree, EmptyFolders, PurgeOne, history
<1>6. Grows
  BY <1>1, <1>4 DEF Removes, Grows, Inserted, TypeOK, Row
<1>7. TaskInv'
  BY <1>1, <1>5, <1>6, GoesOn
<1>8. \A k \in Files : queue'[k] > 0 => Inserted(k)
  BY <1>1, <1>4 DEF Removes, NamesInv, QueueInv
<1>. QED
  BY <1>4, <1>5, <1>7, <1>8, RemoveKeeps DEF Removes

(* What the first statement of a tree's deletion selects are keys that     *)
(* uploads began with.                                                     *)
LEMMA QueueTreeKeeps ==
  ASSUME IInv, TypeOK', NEW r \in Requests, NEW d \in Folders, QueueTree(r, d)
  PROVE  IInv'
<1>. DEFINE t == [pc |-> "tree", todo |-> {row[f].key : f \in Inside(d)},
                  dirs |-> task[r].dirs \ {d}, home |-> d]
<1>1. /\ TypeOK /\ TaskInv /\ NamesInv /\ task[r] \in Task
      /\ \A f \in Files : row[f].key \in Files
  BY DEF IInv, TypeOK, Row
<1>2. task' = [task EXCEPT ![r] = t] /\ UNCHANGED <<tables, blob, cleaner, ledger, history>>
  BY DEF QueueTree
<1>3. \A f \in Inside(d) : f \in Files /\ Inserted(row[f].key)
  BY <1>1 DEF Inside, Stored, NamesInv, Inserted
<1>4. t \in Task /\ HasRead(t)
  BY <1>1, <1>3 DEF Task, HasRead
<1>. HIDE DEF t
<1>5. TaskInv'
  BY <1>1, <1>2, <1>4, TasksKeep DEF Grows, Inserted, tables
<1>. QED
  BY <1>2, <1>5, MarkKeeps DEF tables, history, Inserted, Stored

(* A copy refers to its source's key; when the source is gone by then, it  *)
(* is late, and so is a copy of a late one.                                *)
LEMMA CopyKeeps ==
  ASSUME IInv, TypeOK', NEW r \in Requests, NEW g \in Files, CopyWrite(r, g)
  PROVE  IInv'
<1>1. /\ TypeOK /\ NamesInv /\ TaskInv /\ QueueInv /\ UnlinkInv /\ DropInv
      /\ FilesKeepTheirBytes /\ UnreferencedIsQueued
  BY DEF IInv
<1>2. PICK f \in task[r].todo :
        /\ row' = [row EXCEPT ![g] = [state |-> "active", whole |-> TRUE, key |-> row[f].key,
                    home |-> task[r].home, chunks |-> Stored(f) /\ row[f].chunks]]
        /\ late' = IF ~Stored(f) \/ f \in late THEN late \cup {g} ELSE late
  BY DEF CopyWrite
<1>3. f \in Files /\ Inserted(f) /\ row[f].whole /\ row[f].key \in Files /\ ~Inserted(g)
  BY <1>1, <1>2 DEF TypeOK, Task, Row, TaskInv, CopyWrite, Inserted
<1>4. /\ \A x \in Files : x # g => row'[x] = row[x]
      /\ row'[g].state = "active" /\ row'[g].whole /\ row'[g].key = row[f].key
      /\ row'[g].chunks <=> Stored(f) /\ row[f].chunks
  BY <1>1, <1>2 DEF TypeOK
<1>5. UNCHANGED <<queue, blob, cleaner, leaked>> /\ Reply(r)
  BY DEF CopyWrite
<1>6. Inserted(row[f].key) /\ row[f].key # g
  BY <1>1, <1>3 DEF NamesInv
<1>7. Grows
  BY <1>3, <1>4 DEF Grows, Inserted
<1>8. TaskInv'
  BY <1>1, <1>5, <1>7, GoesOn
<1>9. NamesInv'
  <2>. SUFFICES ASSUME NEW x \in Files
                PROVE  /\ ~row'[x].whole => row'[x].key = x
                       /\ IF row'[x].state # "none" THEN row'[row'[x].key].state # "none"
                                                   ELSE ~row'[x].whole
    BY DEF NamesInv, Inserted
  <2>1. CASE x = g
    <3>1. row'[row[f].key].state # "none"
      BY <1>3, <1>4, <1>6 DEF Inserted
    <3>. QED
      BY <1>4, <2>1, <3>1
  <2>2. CASE x # g
    <3>1. row'[x] = row[x] /\ row[x].key \in Files
      BY <1>1, <1>4, <2>2 DEF TypeOK, Row
    <3>2. /\ ~row[x].whole => row[x].key = x
          /\ IF row[x].state # "none" THEN row[row[x].key].state # "none" ELSE ~row[x].whole
      BY <1>1 DEF NamesInv, Inserted
    <3>3. row[row[x].key].state # "none" => row'[row[x].key].state # "none"
      BY <1>4, <3>1
    <3>. QED
      BY <3>1, <3>2, <3>3
  <2>. QED
    BY <2>1, <2>2
<1>10. /\ \A k \in Files : Refs(k) \subseteq Refs(k)' /\ Refs(k)' \subseteq Refs(k) \cup {g}
       /\ \A k \in Files : g \in Refs(k)' => k = row[f].key
  BY <1>3, <1>4 DEF Refs, Stored, Inserted
<1>11. QueueInv'
  BY <1>1, <1>5, <1>7 DEF QueueInv, Grows, Inserted
<1>12. late \subseteq late' /\ ((~Stored(f) \/ f \in late) => g \in late')
  BY <1>2
<1>13. UnlinkInv'
  <2>. SUFFICES ASSUME cleaner.pc = "unlink" PROVE Refs(cleaner.key)' \subseteq late'
    BY <1>5 DEF UnlinkInv
  <2>1. cleaner.key \in Files /\ Refs(cleaner.key) \subseteq late
    BY <1>1 DEF QueueInv, UnlinkInv
  <2>2. cleaner.key = row[f].key => ~Stored(f) \/ f \in late
    BY <1>3, <2>1 DEF Refs
  <2>3. Refs(cleaner.key)' \subseteq Refs(cleaner.key) \cup {g}
    BY <1>5, <1>10, <2>1
  <2>4. g \in Refs(cleaner.key)' => cleaner.key = row[f].key
    BY <1>5, <1>10, <2>1
  <2>. QED
    BY <1>12, <2>1, <2>2, <2>3, <2>4
<1>14. DropInv' /\ UnreferencedIsQueued'
  BY <1>1, <1>5, <1>10 DEF DropInv, QueueInv, UnreferencedIsQueued, TypeOK
<1>15. FilesKeepTheirBytes'
  BY <1>1, <1>3, <1>4, <1>5, <1>12 DEF FilesKeepTheirBytes, Stored
<1>. QED
  BY <1>8, <1>9, <1>11, <1>13, <1>14, <1>15 DEF IInv

LEMMA StepKeeps ==
  ASSUME IInv, TypeOK', NEW r \in Requests, Step(r)
  PROVE  IInv'
BY MarkSteps, RemoveSteps, QueueTreeKeeps, CopyKeeps DEF Step

(***************************************************************************)
(* The worker.                                                             *)
(***************************************************************************)
LEMMA CleanerKeeps == ASSUME IInv, TypeOK', Cleaner PROVE IInv'
<1>1. /\ TypeOK /\ NamesInv /\ TaskInv /\ QueueInv /\ UnlinkInv /\ DropInv
      /\ FilesKeepTheirBytes /\ UnreferencedIsQueued
  BY DEF IInv
<1>2. UNCHANGED <<row, task, late>>
  BY DEF Cleaner, CleanerRead, CleanerCount, CleanerUnlink, CleanerUnlinkFails, CleanerDrop,
         CleanerStops, tables, history
<1>3. NamesInv' /\ TaskInv' /\ \A k : Refs(k)' = Refs(k)
  BY <1>1, <1>2 DEF NamesInv, TaskInv, Inserted, Refs, Stored
<1>. USE DEF QueueInv, UnlinkInv, DropInv, FilesKeepTheirBytes, UnreferencedIsQueued, Inserted,
             Stored
<1>4. CASE CleanerRead
  <2>1. /\ cleaner' = [AtRest EXCEPT !.todo = queue]
        /\ UNCHANGED <<queue, blob, leaked>>
    BY <1>4 DEF CleanerRead, tables, history
  <2>2. cleaner'.pc = "idle" /\ cleaner'.todo = queue
    BY <2>1 DEF AtRest
  <2>. QED
    BY <1>1, <1>2, <1>3, <2>1, <2>2 DEF IInv, TypeOK
<1>5. ASSUME NEW k \in Files, CleanerCount(k) PROVE IInv'
  <2>1. /\ cleaner'.pc = IF Refs(k) = {} THEN "unlink" ELSE "drop"
        /\ cleaner'.key = k /\ cleaner'.todo = cleaner.todo /\ cleaner.todo[k] > 0
        /\ UNCHANGED <<queue, blob, leaked>>
    BY <1>1, <1>5 DEF CleanerCount, Unreferenced, TypeOK, tables, history
  <2>. QED
    BY <1>1, <1>2, <1>3, <2>1 DEF IInv
<1>6. CASE CleanerUnlink
  <2>1. /\ cleaner.pc = "unlink" /\ blob' = blob \ {cleaner.key}
        /\ cleaner'.pc = "drop" /\ cleaner'.key = cleaner.key /\ cleaner'.todo = cleaner.todo
        /\ UNCHANGED <<queue, leaked>>
    BY <1>1, <1>6 DEF CleanerUnlink, TypeOK, tables, history
  <2>2. FilesKeepTheirBytes'
    BY <1>1, <1>2, <2>1 DEF Refs
  <2>. QED
    BY <1>1, <1>2, <1>3, <2>1, <2>2 DEF IInv
<1>7. CASE CleanerUnlinkFails
  <2>1. /\ cleaner.pc = "unlink" /\ leaked' = leaked \cup {cleaner.key}
        /\ cleaner'.pc = "drop" /\ cleaner'.key = cleaner.key /\ cleaner'.todo = cleaner.todo
        /\ UNCHANGED <<queue, blob>>
    BY <1>1, <1>7 DEF CleanerUnlinkFails, TypeOK, tables
  <2>. QED
    BY <1>1, <1>2, <1>3, <2>1 DEF IInv
<1>8. CASE CleanerDrop
  <2>. DEFINE k == cleaner.key
  <2>1. /\ cleaner.pc = "drop" /\ k \in Files /\ cleaner.todo[k] > 0 /\ cleaner.todo[k] <= queue[k]
        /\ UNCHANGED <<blob, leaked>>
    BY <1>1, <1>8 DEF CleanerDrop, history
  <2>2. /\ queue' = [queue EXCEPT ![k] = @ - 1] /\ cleaner'.pc = "idle"
        /\ cleaner'.todo = [cleaner.todo EXCEPT ![k] = @ - 1]
    BY <1>8 DEF CleanerDrop
  <2>3. \A x \in Files :
          /\ queue[x] \in Nat /\ cleaner.todo[x] \in Nat
          /\ queue'[x] = IF x = k THEN queue[x] - 1 ELSE queue[x]
          /\ cleaner'.todo[x] = IF x = k THEN cleaner.todo[x] - 1 ELSE cleaner.todo[x]
    BY <1>1, <2>2 DEF TypeOK
  <2>4. QueueInv'
    BY <1>1, <1>2, <2>1, <2>2, <2>3
  <2>5. UnreferencedIsQueued'
    BY <1>1, <1>3, <2>1, <2>2, <2>3 DEF TypeOK
  <2>. QED
    BY <1>1, <1>2, <1>3, <2>1, <2>2, <2>4, <2>5 DEF IInv
<1>9. CASE CleanerStops
  <2>1. cleaner' = AtRest /\ UNCHANGED <<queue, blob, leaked>>
    BY <1>9 DEF CleanerStops, tables, history
  <2>. QED
    BY <1>1, <1>2, <1>3, <2>1 DEF IInv, AtRest, TypeOK
<1>. QED
  BY <1>4, <1>5, <1>6, <1>7, <1>8, <1>9 DEF Cleaner

LEMMA RepairKeeps ==
  ASSUME IInv, TypeOK', ReconcileRead \/ ReconcileWrite \/ Crash \/ UNCHANGED vars
  PROVE  IInv'
<1>1. /\ UNCHANGED <<row, blob, queue, late, leaked>>
      /\ UNCHANGED <<task, cleaner>> \/ (task' = [r \in Requests |-> Idle] /\ cleaner' = AtRest)
  BY DEF ReconcileRead, ReconcileWrite, Crash, vars, tables, history
<1>2. \A k : Refs(k)' = Refs(k)
  BY <1>1 DEF Refs, Stored
<1>. QED
  BY <1>1, <1>2 DEF IInv, NamesInv, TaskInv, QueueInv, UnlinkInv, DropInv, FilesKeepTheirBytes,
     UnreferencedIsQueued, Inserted, Stored, Idle, AtRest, TypeOK

LEMMA NextIInv == IInv /\ [Next]_vars => IInv'
<1>. SUFFICES ASSUME IInv, [Next]_vars PROVE IInv'
  OBVIOUS
<1>1. TypeOK'
  BY NextType DEF IInv
<1>. QED
  BY <1>1, UploadKeeps, ArriveKeeps, StepKeeps, CleanerKeeps, RepairKeeps DEF Next

-----------------------------------------------------------------------------
(* The tables and the tasks keep their types; the number of queue rows of  *)
(* a key and disk_used never become negative.                              *)
THEOREM TypeCorrect == Spec => []TypeOK
<1>. QED
  BY InitIInv, NextIInv, PTL DEF Spec, IInv

(* A complete file keeps its blob and its chunk rows, but for late copies. *)
THEOREM BytesKept == Spec => []FilesKeepTheirBytes
<1>. QED
  BY InitIInv, NextIInv, PTL DEF Spec, IInv

(* A blob that no row refers to stays in the queue until it is removed,    *)
(* but for those of the five ways that leak.                               *)
THEOREM OrphansQueued == Spec => []UnreferencedIsQueued
<1>. QED
  BY InitIInv, NextIInv, PTL DEF Spec, IInv
=============================================================================
