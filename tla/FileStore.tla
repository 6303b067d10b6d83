------------------------------ MODULE FileStore ------------------------------
(***************************************************************************)
(* The life of a stored file after its upload: trash, restore, permanent   *)
(* deletion, copies that share one blob, the durable queue of blobs to     *)
(* remove and its worker, and the daily repair of users.disk_used.         *)
(* Handlers: routes/files.py, routes/folders.py, routes/trash.py; services *)
(* trash.py, folder_cleanup.py, blob_cleanup.py, maintenance.py.           *)
(*                                                                         *)
(* A file is named by the storage key it was uploaded under; a copy has a  *)
(* name of its own and its source's key.  All files have one size, one     *)
(* owner and one volume; folders hold files and are not nested.  What a    *)
(* handler reads before an await is in its task, and may be out of date    *)
(* when the task writes.                                                   *)
(***************************************************************************)
EXTENDS Naturals, FiniteSets

CONSTANTS
  Files,     \* file identifiers, and the storage keys of uploaded files
  Folders,   \* folders, of the one owner
  Requests,  \* handler tasks, the purge of expired trash among them
  None       \* the root folder; no file

ASSUME FilesAssumption == IsFiniteSet(Files)
ASSUME NoneAssumption == None \notin Files \cup Folders

VARIABLES
  row,      \* files: state, upload_complete, storage_key, folder_id, chunk rows
  folder,   \* folders: "active", "trash" (deleted_at is set) or "gone"
  blob,     \* the storage keys whose blob is on the volume
  queue,    \* blob_cleanup_queue: how many rows name the key
  used,     \* users.disk_used, in files
  task,     \* the handler tasks
  cleaner,  \* the blob cleanup worker: batch read, row in hand
  ledger,   \* the daily repair: the disk usage it computed, or None
  late,     \* history: copies made of a row that was gone, and copies of those
  leaked    \* history: keys that were orphaned, or kept after an unlink, unqueued

tables  == <<row, folder, queue, used>>
history == <<late, leaked>>
vars    == <<tables, blob, task, cleaner, ledger, history>>

Idle == [pc |-> "idle", todo |-> {}, dirs |-> {}, home |-> None]
AtRest == [pc |-> "idle", todo |-> [k \in Files |-> 0], key |-> None]

(* A file has a row unless it was never inserted or has been deleted.      *)
Stored(f) == row[f].state \in {"active", "trash"}
Refs(k)   == {f \in Files : Stored(f) /\ row[f].key = k}
Inside(d) == {f \in Files : Stored(f) /\ row[f].home = d}

Init ==
  /\ row = [f \in Files |-> [state |-> "none", whole |-> FALSE, key |-> f,
                             home |-> None, chunks |-> FALSE]]
  /\ folder = [d \in Folders |-> "active"]
  /\ blob = {}
  /\ queue = [k \in Files |-> 0]
  /\ used = 0
  /\ task = [r \in Requests |-> Idle]
  /\ cleaner = AtRest
  /\ ledger = None
  /\ late = {}
  /\ leaked = {}

Begin(r, t) == task[r] = Idle /\ task' = [task EXCEPT ![r] = t]
Reply(r)    == task' = [task EXCEPT ![r] = Idle]

(***************************************************************************)
(* Uploads, as TusUpload has them: rows first; bytes, charge and the       *)
(* complete flag at the end, whether or not the row has gone to the trash. *)
(***************************************************************************)
UploadBegin(f, h) ==
  /\ row[f].state = "none"
  /\ h # None => folder[h] = "active"
  /\ row' = [row EXCEPT ![f].state = "active", ![f].home = h]
  /\ UNCHANGED <<folder, queue, used, blob, task, cleaner, ledger, history>>

(* finalize_upload moves the staging blob before the transaction, and does *)
(* not ask whether the row is still there.                                 *)
UploadMove(f) ==
  /\ row[f].state # "none"
  /\ ~row[f].whole
  /\ blob' = blob \cup {f}
  /\ leaked' = IF Stored(f) THEN leaked ELSE leaked \cup {f}
  /\ UNCHANGED <<tables, task, cleaner, ledger, late>>

UploadFinish(f) ==
  /\ Stored(f)
  /\ ~row[f].whole
  /\ f \in blob
  /\ row' = [row EXCEPT ![f].whole = TRUE, ![f].chunks = TRUE]
  /\ used' = used + 1
  /\ UNCHANGED <<folder, queue, blob, task, cleaner, ledger, history>>

(* An abort, or the expiry of the upload, deletes the row it found open,   *)
(* even if it has completed since.                                         *)
AbortRead(r, f) ==
  /\ Stored(f)
  /\ ~row[f].whole
  /\ Begin(r, [Idle EXCEPT !.pc = "abort", !.todo = {f}])
  /\ UNCHANGED <<tables, blob, cleaner, ledger, history>>

AbortWrite(r) ==
  /\ task[r].pc = "abort"
  /\ \E f \in task[r].todo :
       /\ row' = [row EXCEPT ![f].state = "gone"]
       /\ leaked' = IF f \in blob THEN leaked \cup {f} ELSE leaked
  /\ Reply(r)
  /\ UNCHANGED <<folder, queue, used, blob, cleaner, ledger, late>>

(***************************************************************************)
(* Deleting one row for good: the blob is queued, the size refunded and    *)
(* the row deleted in one transaction, on what was read before it.         *)
(***************************************************************************)
Queued_RowOnly(f) == queue
Queued(f) == [queue EXCEPT ![row[f].key] = @ + 1]

Refund(n) == IF n > 0 THEN n - 1 ELSE 0

PurgeRow(f) ==
  /\ queue' = Queued(f)
  /\ used' = Refund(used)
  /\ row' = [row EXCEPT ![f].state = "gone"]

(* DELETE /files/{id}: read, then trash the row or, with trash disabled,   *)
(* delete it.                                                              *)
DeleteRead(r, f) ==
  /\ row[f].state = "active"
  /\ Begin(r, [Idle EXCEPT !.pc = "delete", !.todo = {f}])
  /\ UNCHANGED <<tables, blob, cleaner, ledger, history>>

Retire(fs) == [f \in Files |->
  IF f \in fs /\ Stored(f) THEN [row[f] EXCEPT !.state = "trash"] ELSE row[f]]

DeleteToTrash(r) ==
  /\ task[r].pc = "delete"
  /\ row' = Retire(task[r].todo)
  /\ Reply(r)
  /\ UNCHANGED <<folder, queue, used, blob, cleaner, ledger, history>>

DeleteHard(r) ==
  /\ task[r].pc = "delete"
  /\ \E f \in task[r].todo : PurgeRow(f)
  /\ Reply(r)
  /\ UNCHANGED <<folder, blob, cleaner, ledger, history>>

(***************************************************************************)
(* Purging: the rows to purge are selected, then deleted one transaction   *)
(* each; what follows depends on who asked.                                *)
(***************************************************************************)
Trashed == {f \in Files : row[f].state = "trash"}

PurgeFile(r, f) ==
  /\ f \in Trashed
  /\ Begin(r, [Idle EXCEPT !.pc = "purge", !.todo = {f}])
  /\ UNCHANGED <<tables, blob, cleaner, ledger, history>>

(* The files of a trashed folder, in the trash or not, then its tree.      *)
PurgeFolder(r, d) ==
  /\ folder[d] = "trash"
  /\ Begin(r, [Idle EXCEPT !.pc = "purge", !.todo = Inside(d), !.dirs = {d}])
  /\ UNCHANGED <<tables, blob, cleaner, ledger, history>>

(* Retention has run out for some of the trash.                            *)
PurgeExpired(r, fs) ==
  /\ fs \subseteq Trashed
  /\ fs # {} \/ \E d \in Folders : folder[d] = "trash"
  /\ Begin(r, [Idle EXCEPT !.pc = "expired", !.todo = fs])
  /\ UNCHANGED <<tables, blob, cleaner, ledger, history>>

EmptyTrash(r) ==
  /\ Begin(r, [Idle EXCEPT !.pc = "empty", !.todo = Trashed])
  /\ UNCHANGED <<tables, blob, cleaner, ledger, history>>

PurgeOne(r, f) ==
  /\ f \in task[r].todo
  /\ task[r].pc \in {"purge", "expired", "empty"}
  /\ PurgeRow(f)
  /\ task' = [task EXCEPT ![r].todo = @ \ {f}]
  /\ UNCHANGED <<folder, blob, cleaner, ledger, history>>

(* A transaction that fails is swallowed and the loop goes on.             *)
PurgeSkip(r, f) ==
  /\ f \in task[r].todo
  /\ task[r].pc \in {"purge", "expired", "empty"}
  /\ task' = [task EXCEPT ![r].todo = @ \ {f}]
  /\ UNCHANGED <<tables, blob, cleaner, ledger, history>>

(* _purge_expired goes on to the folders that have run out.                *)
ExpiredFolders(r, ds) ==
  /\ task[r].pc = "expired"
  /\ task[r].todo = {}
  /\ ds \subseteq {d \in Folders : folder[d] = "trash"}
  /\ task' = [task EXCEPT ![r] = [Idle EXCEPT !.pc = "purge", !.dirs = ds]]
  /\ UNCHANGED <<tables, blob, cleaner, ledger, history>>

(* hard_delete_folder_tree, for a purge and for DELETE /folders/{id} with  *)
(* trash disabled: two statements of one READ COMMITTED transaction.  The  *)
(* first selects the keys in the folder and queues each once.              *)
QueueTree(r, d) ==
  /\ task[r].pc \in {"trashDir", "purge"} /\ task[r].todo = {}
  /\ d \in task[r].dirs
  /\ task' = [task EXCEPT ![r] =
       [pc |-> "tree", todo |-> {row[f].key : f \in Inside(d)},
        dirs |-> task[r].dirs \ {d}, home |-> d]]
  /\ UNCHANGED <<tables, blob, cleaner, ledger, history>>

(* The last deletes the folder, whose cascade takes the rows that are in   *)
(* it by then, those that were not seen too; with it the transaction       *)
(* commits.  Nothing is refunded.                                          *)
DropTree(r) ==
  LET d == task[r].home
      lost == Inside(d) IN
  /\ task[r].pc = "tree"
  /\ queue' = [k \in Files |-> queue[k] + IF k \in task[r].todo THEN 1 ELSE 0]
  /\ row' = [f \in Files |-> IF f \in lost THEN [row[f] EXCEPT !.state = "gone"]
                             ELSE row[f]]
  /\ folder' = [folder EXCEPT ![d] = "gone"]
  /\ leaked' = leaked \cup ({row[f].key : f \in lost} \ task[r].todo)
  /\ task' = [task EXCEPT ![r].pc = "purge", ![r].todo = {}, ![r].home = None]
  /\ UNCHANGED <<used, blob, cleaner, ledger, late>>

(* It fails and is rolled back: the purge of expired trash goes on.        *)
TreeFails(r) ==
  /\ task[r].pc = "tree"
  /\ task' = [task EXCEPT ![r].pc = "purge", ![r].todo = {}, ![r].home = None]
  /\ UNCHANGED <<tables, blob, cleaner, ledger, history>>

PurgeEnd(r) ==
  /\ task[r].pc = "purge"
  /\ task[r].todo = {}
  /\ task[r].dirs = {}
  /\ Reply(r)
  /\ UNCHANGED <<tables, blob, cleaner, ledger, history>>

(* The last statement of empty_trash deletes the trashed folders; the      *)
(* cascade takes the rows in them and queues nothing.                      *)
EmptyFolders(r) ==
  LET ds == {d \in Folders : folder[d] = "trash"}
      lost == UNION {Inside(d) : d \in ds} IN
  /\ task[r].pc = "empty"
  /\ task[r].todo = {}
  /\ folder' = [d \in Folders |-> IF d \in ds THEN "gone" ELSE folder[d]]
  /\ row' = [f \in Files |-> IF f \in lost THEN [row[f] EXCEPT !.state = "gone"] ELSE row[f]]
  /\ leaked' = leaked \cup {row[f].key : f \in lost}
  /\ Reply(r)
  /\ UNCHANGED <<queue, used, blob, cleaner, ledger, late>>

(***************************************************************************)
(* Restoring a file: its row and its folder are read, then it is updated   *)
(* by id.                                                                  *)
(***************************************************************************)
RestoreHome(f) ==
  IF row[f].home # None /\ folder[row[f].home] # "active" THEN None ELSE row[f].home

RestoreRead(r, f) ==
  /\ f \in Trashed
  /\ Begin(r, [Idle EXCEPT !.pc = "restore", !.todo = {f}, !.home = RestoreHome(f)])
  /\ UNCHANGED <<tables, blob, cleaner, ledger, history>>

RestoreWrite(r) ==
  /\ task[r].pc = "restore"
  /\ task[r].home # None => folder[task[r].home] # "gone"
  /\ row' = [f \in Files |-> IF f \in task[r].todo /\ Stored(f)
               THEN [row[f] EXCEPT !.state = "active", !.home = task[r].home] ELSE row[f]]
  /\ Reply(r)
  /\ UNCHANGED <<folder, queue, used, blob, cleaner, ledger, history>>

(***************************************************************************)
(* Folders: both directions mark every file inside in one transaction.     *)
(***************************************************************************)
FolderRead(r, d) ==
  /\ folder[d] # "gone"
  /\ Begin(r, [Idle EXCEPT !.pc = IF folder[d] = "active" THEN "trashDir" ELSE "restoreDir",
                           !.dirs = {d}])
  /\ UNCHANGED <<tables, blob, cleaner, ledger, history>>

FolderToTrash(r) ==
  LET ds == {d \in task[r].dirs : folder[d] # "gone"} IN
  /\ task[r].pc = "trashDir"
  /\ folder' = [d \in Folders |-> IF d \in ds THEN "trash" ELSE folder[d]]
  /\ row' = Retire(UNION {Inside(d) : d \in ds})
  /\ Reply(r)
  /\ UNCHANGED <<queue, used, blob, cleaner, ledger, history>>

FolderRestore(r) ==
  LET ds == {d \in task[r].dirs : folder[d] # "gone"} IN
  /\ task[r].pc = "restoreDir"
  /\ folder' = [d \in Folders |-> IF d \in ds THEN "active" ELSE folder[d]]
  /\ row' = [f \in Files |-> IF f \in UNION {Inside(d) : d \in ds}
                             THEN [row[f] EXCEPT !.state = "active"] ELSE row[f]]
  /\ Reply(r)
  /\ UNCHANGED <<queue, used, blob, cleaner, ledger, history>>

(***************************************************************************)
(* Copying: the source row is read; a later transaction inserts a row with *)
(* the source's key and copies what chunk rows the source has by then.     *)
(***************************************************************************)
CopyRead(r, f, d) ==
  /\ row[f].state = "active"
  /\ row[f].whole
  /\ folder[d] = "active"
  /\ Begin(r, [Idle EXCEPT !.pc = "copy", !.todo = {f}, !.home = d])
  /\ UNCHANGED <<tables, blob, cleaner, ledger, history>>

CopyWrite(r, g) ==
  /\ task[r].pc = "copy"
  /\ row[g].state = "none"
  /\ folder[task[r].home] # "gone"
  /\ \E f \in task[r].todo :
       /\ row' = [row EXCEPT ![g] = [state |-> "active", whole |-> TRUE, key |-> row[f].key,
                    home |-> task[r].home, chunks |-> Stored(f) /\ row[f].chunks]]
       /\ late' = IF ~Stored(f) \/ f \in late THEN late \cup {g} ELSE late
  /\ used' = used + 1
  /\ Reply(r)
  /\ UNCHANGED <<folder, queue, blob, cleaner, ledger, leaked>>

(* A request is refused, or its transaction fails and is rolled back.      *)
Fail(r) ==
  /\ task[r].pc \in {"abort", "delete", "restore", "trashDir", "restoreDir", "copy"}
  /\ Reply(r)
  /\ UNCHANGED <<tables, blob, cleaner, ledger, history>>

(***************************************************************************)
(* _process_queue: a batch is read; for each of its rows the references    *)
(* are counted, the blob deleted if there are none, and the row removed.   *)
(***************************************************************************)
CleanerRead ==
  /\ cleaner = AtRest
  /\ \E k \in Files : queue[k] > 0
  /\ cleaner' = [cleaner EXCEPT !.todo = queue]
  /\ UNCHANGED <<tables, blob, task, ledger, history>>

Unreferenced_Live(k) == \A f \in Refs(k) : row[f].state = "trash"
Unreferenced(k)      == Refs(k) = {}

CleanerCount(k) ==
  /\ cleaner.pc = "idle"
  /\ cleaner.todo[k] > 0
  /\ cleaner' = [cleaner EXCEPT !.pc = IF Unreferenced(k) THEN "unlink" ELSE "drop",
                                !.key = k]
  /\ UNCHANGED <<tables, blob, task, ledger, history>>

CleanerUnlink ==
  /\ cleaner.pc = "unlink"
  /\ blob' = blob \ {cleaner.key}
  /\ cleaner' = [cleaner EXCEPT !.pc = "drop"]
  /\ UNCHANGED <<tables, task, ledger, history>>

CleanerUnlinkFails_Stops ==
  /\ cleaner.pc = "unlink"
  /\ cleaner' = AtRest
  /\ UNCHANGED <<tables, blob, task, ledger, history>>

(* The count fails, or _soft_delete logs that the unlink did; the queue    *)
(* row goes all the same.                                                  *)
CleanerUnlinkFails ==
  /\ cleaner.pc = "unlink"
  /\ leaked' = leaked \cup {cleaner.key}
  /\ cleaner' = [cleaner EXCEPT !.pc = "drop"]
  /\ UNCHANGED <<tables, blob, task, ledger, late>>

CleanerDrop ==
  /\ cleaner.pc = "drop"
  /\ queue' = [queue EXCEPT ![cleaner.key] = @ - 1]
  /\ cleaner' = [pc |-> "idle", key |-> None,
                 todo |-> [cleaner.todo EXCEPT ![cleaner.key] = @ - 1]]
  /\ UNCHANGED <<row, folder, used, blob, task, ledger, history>>

(* A statement of the pass fails: the rest of the batch is left for later. *)
CleanerStops ==
  /\ cleaner # AtRest
  /\ cleaner' = AtRest
  /\ UNCHANGED <<tables, blob, task, ledger, history>>

(***************************************************************************)
(* _reconcile_disk_usage: one aggregate over the rows that are complete    *)
(* and not in the trash; where it differs from disk_used it is written.    *)
(***************************************************************************)
Usage == Cardinality({f \in Files : row[f].state = "active" /\ row[f].whole})

ReconcileRead ==
  /\ ledger = None
  /\ used # Usage
  /\ ledger' = Usage
  /\ UNCHANGED <<tables, blob, task, cleaner, history>>

ReconcileWrite ==
  /\ ledger # None
  /\ used' = ledger
  /\ ledger' = None
  /\ UNCHANGED <<row, folder, queue, blob, task, cleaner, history>>

(* The process dies; tables and blobs stay.                                *)
Crash ==
  /\ task # [r \in Requests |-> Idle] \/ cleaner # AtRest \/ ledger # None
  /\ task' = [r \in Requests |-> Idle]
  /\ cleaner' = AtRest
  /\ ledger' = None
  /\ UNCHANGED <<tables, blob, history>>

Upload ==
  \E f \in Files :
    \/ \E h \in Folders \cup {None} : UploadBegin(f, h)
    \/ UploadMove(f) \/ UploadFinish(f)

Arrive(r) ==
  \/ EmptyTrash(r)
  \/ \E f \in Files :
       AbortRead(r, f) \/ DeleteRead(r, f) \/ PurgeFile(r, f) \/ RestoreRead(r, f)
  \/ \E fs \in SUBSET Files : PurgeExpired(r, fs)
  \/ \E d \in Folders : PurgeFolder(r, d) \/ FolderRead(r, d)
  \/ \E f \in Files, d \in Folders : CopyRead(r, f, d)

Step(r) ==
  \/ AbortWrite(r) \/ DeleteToTrash(r) \/ DeleteHard(r) \/ RestoreWrite(r)
  \/ \E f \in Files : PurgeOne(r, f) \/ PurgeSkip(r, f) \/ CopyWrite(r, f)
  \/ \E ds \in SUBSET Folders : ExpiredFolders(r, ds)
  \/ \E d \in Folders : QueueTree(r, d)
  \/ DropTree(r) \/ TreeFails(r)
  \/ PurgeEnd(r) \/ EmptyFolders(r)
  \/ FolderToTrash(r) \/ FolderRestore(r)
  \/ Fail(r)

Cleaner ==
  \/ CleanerRead
  \/ \E k \in Files : CleanerCount(k)
  \/ CleanerUnlink \/ CleanerUnlinkFails \/ CleanerDrop \/ CleanerStops

Next ==
  \/ Upload
  \/ \E r \in Requests : Arrive(r) \/ Step(r)
  \/ Cleaner
  \/ ReconcileRead \/ ReconcileWrite
  \/ Crash

Spec == Init /\ [][Next]_vars

(* The worker runs every five minutes and at every start; strong fairness  *)
(* says that not every one of its passes is cut short.                     *)
Fairness ==
  /\ SF_vars(CleanerRead)
  /\ \A k \in Files : SF_vars(CleanerCount(k))
  /\ SF_vars(CleanerUnlink \/ CleanerUnlinkFails)
  /\ SF_vars(CleanerDrop)

FairSpec == Spec /\ Fairness

-----------------------------------------------------------------------------
Row == [state : {"none", "active", "trash", "gone"}, whole : BOOLEAN, key : Files,
        home : Folders \cup {None}, chunks : BOOLEAN]

Task == [pc : {"idle", "abort", "delete", "purge", "tree", "expired", "empty", "restore",
               "trashDir", "restoreDir", "copy"},
         todo : SUBSET Files, dirs : SUBSET Folders, home : Folders \cup {None}]

(* Rows, tasks and counters have the types of their columns; disk_used and *)
(* the number of queue rows of a key are never negative.                   *)
TypeOK ==
  /\ row \in [Files -> Row]
  /\ folder \in [Folders -> {"active", "trash", "gone"}]
  /\ blob \in SUBSET Files
  /\ queue \in [Files -> Nat]
  /\ used \in Nat
  /\ task \in [Requests -> Task]
  /\ cleaner \in [pc : {"idle", "unlink", "drop"}, todo : [Files -> Nat],
                  key : Files \cup {None}]
  /\ ledger \in Nat \cup {None}
  /\ late \in SUBSET Files
  /\ leaked \in SUBSET Files

(* A complete file has its blob and its chunk rows, in the trash and out   *)
(* of it and however its copies come and go.  The one exception is a copy  *)
(* whose source row was deleted between its two steps, and copies of that. *)
FilesKeepTheirBytes ==
  \A f \in Files : Stored(f) /\ row[f].whole /\ f \notin late =>
    row[f].key \in blob /\ row[f].chunks

(* A blob no row refers to is in the queue: no purge, crash or failed pass *)
(* forgets it, but for the five that do: an abort of a moved upload, a     *)
(* move after the row has gone, the last statement of empty_trash, the     *)
(* deletion of a folder that has got a file since its files were queued,   *)
(* and an unlink whose failure is swallowed.                               *)
UnreferencedIsQueued ==
  \A k \in blob : Refs(k) = {} => queue[k] > 0 \/ k \in leaked

(* What is queued is dealt with, whatever crashes.                         *)
QueueDrains == \A k \in Files : queue[k] > 0 ~> queue[k] = 0

-----------------------------------------------------------------------------
(* What comments of the code say and the code does not do.                 *)

(* blob_cleanup.py: "blobs shared across multiple file rows (copies) are   *)
(* only removed when the last reference is gone".                          *)
SharedBlobsSurvive ==
  \A f \in Files : Stored(f) /\ row[f].whole => row[f].key \in blob
=============================================================================
