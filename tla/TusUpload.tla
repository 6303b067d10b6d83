------------------------------ MODULE TusUpload ------------------------------
(***************************************************************************)
(* The resumable upload protocol of tusShare: the handlers of              *)
(* backend/app/routes/uploads.py over the tables files, tus_uploads,       *)
(* file_chunks, file_storage_locations and users, and over the staging and *)
(* permanent directories of storage/providers/local.py.                    *)
(*                                                                         *)
(* One identifier u stands for the tus_uploads row, its files row, its     *)
(* staging blob and its storage key: create_upload draws all four from     *)
(* uuid4 and never reuses one.  Lengths are counted in full encrypted      *)
(* chunks (chunk_size + 16 bytes); every upload is Size units long.        *)
(* Statements outside a transaction commit one by one, and every await     *)
(* ends a step: a handler is a task with a program counter.                *)
(***************************************************************************)
EXTENDS Naturals, Sequences, FiniteSets

CONSTANTS
  Uploads,   \* upload identifiers
  Requests,  \* handler tasks the server can run at once
  Ciphers,   \* encryptions of one plaintext chunk, each under a fresh IV
  Size,      \* Upload-Length, in units
  Quota,     \* users.disk_quota of the one owner, in units
  Overlap,   \* may two PATCHes of one upload be in the server together?
  None,      \* no upload, no chunk, no file
  Hole       \* a unit of a sparse file nothing was written to

ASSUME SizeAssumption == Size \in Nat \ {0}
ASSUME QuotaAssumption == Quota \in Nat
ASSUME OverlapAssumption == Overlap \in BOOLEAN
ASSUME NoneAssumption == None \notin Uploads
ASSUME FiniteAssumption == IsFiniteSet(Uploads)

(* A file_chunks row, and equally the payload of the PATCH it records.     *)
Chunk == [index : 0..Size, offset : 0..Size, size : 1..Size, iv : Ciphers]

\* What is read of a file is never the absence of one.
ASSUME NoFileAssumption == None \notin Seq(Chunk \cup {Hole})

PatchPc == {"body", "open", "write", "record", "finalize", "locate", "check", "commit"}
Pc == {"idle", "create", "abortRows", "abortBlob"} \cup PatchPc

VARIABLES
  file,      \* files row: "none", "incomplete", "complete" or "deleted"
  tusRow,    \* does the tus_uploads row exist?
  offset,    \* tus_uploads.current_offset
  nextChunk, \* tus_uploads.next_chunk
  expired,   \* tus_uploads.expires_at < now
  chunks,    \* file_chunks rows
  located,   \* does the file_storage_locations row exist?
  diskUsed,  \* users.disk_used
  finished,  \* history: the uploads whose files row was ever set complete
  staging,   \* UPLOADS_DIR / upload_id
  blob,      \* FILES_DIR / storage_key
  task,      \* the handler tasks
  sweep      \* the expiry task: rows still to delete, staging file to unlink

rows  == <<file, tusRow, offset, nextChunk, expired, chunks, located>>
usage == <<diskUsed, finished>>
disk  == <<staging, blob>>
vars  == <<rows, usage, disk, task, sweep>>

Idle == [pc |-> "idle", up |-> None, chunk |-> None, fd |-> "none", actual |-> 0]
Resting == [todo |-> {}, unlink |-> None]

Init ==
  /\ file = [u \in Uploads |-> "none"]
  /\ tusRow = [u \in Uploads |-> FALSE]
  /\ offset = [u \in Uploads |-> 0]
  /\ nextChunk = [u \in Uploads |-> 0]
  /\ expired = [u \in Uploads |-> FALSE]
  /\ chunks = [u \in Uploads |-> {}]
  /\ located = [u \in Uploads |-> FALSE]
  /\ diskUsed = 0
  /\ finished = {}
  /\ staging = [u \in Uploads |-> None]
  /\ blob = [u \in Uploads |-> None]
  /\ task = [r \in Requests |-> Idle]
  /\ sweep = Resting

Goto(r, pc) == task' = [task EXCEPT ![r].pc = pc]
Reply(r)    == task' = [task EXCEPT ![r] = Idle]
Exists(u)   == file[u] \in {"incomplete", "complete"}

(***************************************************************************)
(* POST /uploads.  The quota is read in one statement and the rows are     *)
(* inserted in a later transaction.                                        *)
(***************************************************************************)
WithinQuota(used) == used + Size <= Quota

CreateCheck(r, u) ==
  /\ task[r].pc = "idle"
  /\ file[u] = "none"
  /\ \A q \in Requests : task[q].up # u
  /\ WithinQuota(diskUsed)
  /\ task' = [task EXCEPT ![r] = [Idle EXCEPT !.pc = "create", !.up = u]]
  /\ UNCHANGED <<rows, usage, disk, sweep>>

CreateRows(r) ==
  LET u == task[r].up IN
  /\ task[r].pc = "create"
  /\ file' = [file EXCEPT ![u] = "incomplete"]
  /\ tusRow' = [tusRow EXCEPT ![u] = TRUE]
  /\ Reply(r)
  /\ UNCHANGED <<offset, nextChunk, expired, chunks, located, usage, disk, sweep>>

(***************************************************************************)
(* PATCH /uploads/{id}.  The upload row is read once, before the body is   *)
(* awaited; offset and chunk index are used as read to the end.            *)
(***************************************************************************)
Patching(u) == {q \in Requests : task[q].up = u /\ task[q].pc \in PatchPc}

OffsetMatches_Unchecked(u, c) == TRUE
OffsetMatches(u, c) == c.offset = offset[u]

PatchSelect(r, u, c) ==
  /\ task[r].pc = "idle"
  /\ Overlap \/ Patching(u) = {}
  /\ tusRow[u]
  /\ ~expired[u]
  /\ OffsetMatches(u, c)
  /\ c.index = nextChunk[u]
  /\ task' = [task EXCEPT ![r] = [Idle EXCEPT !.pc = "body", !.up = u, !.chunk = c]]
  /\ UNCHANGED <<rows, usage, disk, sweep>>

Fits_Unchecked(c) == TRUE
Last_OneShort(c)  == c.offset + c.size >= Size - 1

Fits(c)    == c.offset + c.size <= Size
Last(c)    == c.offset + c.size = Size
Regular(c) == Last(c) \/ c.size = 1

(* The body has arrived and its hash agrees; a missing file row, a transfer *)
(* lock, a bandwidth limit or a wrong length ends the request (Fail).       *)
PatchBody(r) ==
  LET t == task[r] IN
  /\ t.pc = "body"
  /\ Fits(t.chunk)
  /\ Exists(t.up)
  /\ Regular(t.chunk)
  /\ Goto(r, "open")
  /\ UNCHANGED <<rows, usage, disk, sweep>>

(* _write_at opens the staging path, which it creates when it is missing;  *)
(* the descriptor stays with the file even if that is moved or unlinked.   *)
PatchOpen(r) ==
  LET u == task[r].up IN
  /\ task[r].pc = "open"
  /\ staging' = IF staging[u] = None THEN [staging EXCEPT ![u] = <<>>] ELSE staging
  /\ task' = [task EXCEPT ![r].pc = "write", ![r].fd = "staging"]
  /\ UNCHANGED <<rows, usage, blob, sweep>>

(* seek, write, truncate.                                                  *)
WriteAt(f, c) ==
  [p \in 1 .. c.offset + c.size |->
     IF p > c.offset THEN c ELSE IF p <= Len(f) THEN f[p] ELSE Hole]

PatchWrite(r) ==
  LET t == task[r] IN
  /\ t.pc = "write"
  /\ staging' = IF t.fd = "staging"
                THEN [staging EXCEPT ![t.up] = WriteAt(@, t.chunk)] ELSE staging
  /\ blob' = IF t.fd = "blob"
             THEN [blob EXCEPT ![t.up] = WriteAt(@, t.chunk)] ELSE blob
  /\ task' = [task EXCEPT ![r].pc = "record", ![r].fd = "none"]
  /\ UNCHANGED <<rows, usage, sweep>>

(* UNIQUE (file_id, chunk_index) on file_chunks.                           *)
IndexFree_NoUnique(u, c) == TRUE
IndexFree(u, c) == \A d \in chunks[u] : d.index # c.index

(* The transaction of _record_chunk_in_db.  When the INSERT is refused the *)
(* request ends (Fail); the bytes it wrote to the staging file stay.       *)
PatchRecord(r) ==
  LET u == task[r].up
      c == task[r].chunk IN
  /\ task[r].pc = "record"
  /\ Exists(u)
  /\ IndexFree(u, c)
  /\ chunks' = [chunks EXCEPT ![u] = @ \cup {c}]
  /\ IF tusRow[u]
     THEN /\ offset' = [offset EXCEPT ![u] = c.offset + c.size]
          /\ nextChunk' = [nextChunk EXCEPT ![u] = c.index + 1]
          /\ expired' = [expired EXCEPT ![u] = FALSE]
     ELSE UNCHANGED <<offset, nextChunk, expired>>
  /\ IF Last(c) THEN Goto(r, "finalize") ELSE Reply(r)
  /\ UNCHANGED <<file, tusRow, located, usage, disk, sweep>>

(***************************************************************************)
(* _finalize_completed_upload: rename the staging file, insert the         *)
(* location row (autocommit), compare the length; then, in a transaction,  *)
(* count the chunk rows and complete the file.                             *)
(***************************************************************************)
Moved(u) == [r \in Requests |->
  IF task[r].up = u /\ task[r].fd = "staging" THEN [task[r] EXCEPT !.fd = "blob"]
  ELSE IF task[r].up = u /\ task[r].fd = "blob" THEN [task[r] EXCEPT !.fd = "lost"]
  ELSE task[r]]

FinalizeRename(r) ==
  LET u == task[r].up IN
  /\ task[r].pc = "finalize"
  /\ staging[u] # None
  /\ blob' = [blob EXCEPT ![u] = staging[u]]
  /\ staging' = [staging EXCEPT ![u] = None]
  /\ task' = [Moved(u) EXCEPT ![r].pc = "locate", ![r].actual = Len(staging[u])]
  /\ UNCHANGED <<rows, usage, sweep>>

FinalizeLocate(r) ==
  /\ task[r].pc = "locate"
  /\ Exists(task[r].up)
  /\ located' = [located EXCEPT ![task[r].up] = TRUE]
  /\ Goto(r, "check")
  /\ UNCHANGED <<file, tusRow, offset, nextChunk, expired, chunks, usage, disk, sweep>>

Unlinked(u) == [r \in Requests |->
  IF task[r].up = u /\ task[r].fd = "staging" THEN [task[r] EXCEPT !.fd = "lost"]
  ELSE task[r]]

SizeAgrees(r)  == task[r].actual = task[r].chunk.offset + task[r].chunk.size
CountAgrees(r) == Cardinality(chunks[task[r].up]) = task[r].chunk.index + 1

FinalizeMismatch(r) ==
  LET u == task[r].up IN
  /\ task[r].pc = "check"
  /\ ~SizeAgrees(r)
  /\ staging' = [staging EXCEPT ![u] = None]
  /\ task' = [Unlinked(u) EXCEPT ![r] = Idle]
  /\ UNCHANGED <<rows, usage, blob, sweep>>

FinalizeCount(r) ==
  /\ task[r].pc = "check"
  /\ SizeAgrees(r)
  /\ CountAgrees(r)
  /\ Goto(r, "commit")
  /\ UNCHANGED <<rows, usage, disk, sweep>>

(* The av_scan_queue row that the transaction inserts refers to the files  *)
(* row: when that was deleted after the count, nothing is committed.       *)
Queueable_Later(u) == TRUE
Queueable(u)       == Exists(u)

FinalizeCommit(r) ==
  LET u == task[r].up IN
  /\ task[r].pc = "commit"
  /\ Queueable(u)
  /\ file' = IF Exists(u) THEN [file EXCEPT ![u] = "complete"] ELSE file
  /\ tusRow' = [tusRow EXCEPT ![u] = FALSE]
  /\ diskUsed' = diskUsed + Size
  /\ finished' = IF Exists(u) THEN finished \cup {u} ELSE finished
  /\ Reply(r)
  /\ UNCHANGED <<offset, nextChunk, expired, chunks, located, disk, sweep>>

(* A request ends without further effect: a refused length, lock, limit or *)
(* INSERT, a disconnect while the body is read, a failing statement.  The  *)
(* transaction it was in is rolled back, its file work is not.             *)
Fail(r) ==
  /\ task[r].pc \notin {"idle", "write"}
  /\ Reply(r)
  /\ UNCHANGED <<rows, usage, disk, sweep>>

(***************************************************************************)
(* Deleting the files row cascades to its chunks and its location.         *)
(***************************************************************************)
DeleteRows(u) ==
  /\ tusRow' = [tusRow EXCEPT ![u] = FALSE]
  /\ file' = IF Exists(u) THEN [file EXCEPT ![u] = "deleted"] ELSE file
  /\ chunks' = [chunks EXCEPT ![u] = {}]
  /\ located' = [located EXCEPT ![u] = FALSE]
  /\ UNCHANGED <<offset, nextChunk, expired>>

(* DELETE /uploads/{id}.                                                   *)
AbortSelect(r, u) ==
  /\ task[r].pc = "idle"
  /\ tusRow[u]
  /\ task' = [task EXCEPT ![r] = [Idle EXCEPT !.pc = "abortRows", !.up = u]]
  /\ UNCHANGED <<rows, usage, disk, sweep>>

AbortRows(r) ==
  /\ task[r].pc = "abortRows"
  /\ DeleteRows(task[r].up)
  /\ Goto(r, "abortBlob")
  /\ UNCHANGED <<usage, disk, sweep>>

AbortBlob(r) ==
  LET u == task[r].up IN
  /\ task[r].pc = "abortBlob"
  /\ staging' = [staging EXCEPT ![u] = None]
  /\ task' = [Unlinked(u) EXCEPT ![r] = Idle]
  /\ UNCHANGED <<rows, usage, blob, sweep>>

(***************************************************************************)
(* The hourly expiry task: one SELECT, then a transaction and an unlink    *)
(* per selected row.                                                       *)
(***************************************************************************)
Expire(u) ==
  /\ tusRow[u]
  /\ ~expired[u]
  /\ expired' = [expired EXCEPT ![u] = TRUE]
  /\ UNCHANGED <<file, tusRow, offset, nextChunk, chunks, located, usage, disk, task, sweep>>

Abandoned_Unstarted == {u \in Uploads : tusRow[u] /\ expired[u] /\ offset[u] = 0}
Abandoned == {u \in Uploads : tusRow[u] /\ expired[u]}

SweepSelect ==
  /\ sweep = Resting
  /\ Abandoned # {}
  /\ sweep' = [sweep EXCEPT !.todo = Abandoned]
  /\ UNCHANGED <<rows, usage, disk, task>>

SweepRows(u) ==
  /\ sweep.unlink = None
  /\ u \in sweep.todo
  /\ DeleteRows(u)
  /\ sweep' = [todo |-> sweep.todo \ {u}, unlink |-> u]
  /\ UNCHANGED <<usage, disk, task>>

(* The transaction of one row fails: it is logged and skipped.             *)
SweepSkip(u) ==
  /\ sweep.unlink = None
  /\ u \in sweep.todo
  /\ sweep' = [sweep EXCEPT !.todo = @ \ {u}]
  /\ UNCHANGED <<rows, usage, disk, task>>

SweepBlob ==
  /\ sweep.unlink # None
  /\ staging' = [staging EXCEPT ![sweep.unlink] = None]
  /\ task' = Unlinked(sweep.unlink)
  /\ sweep' = [sweep EXCEPT !.unlink = None]
  /\ UNCHANGED <<rows, usage, blob>>

(* The process dies: tables and files stay, every task is gone.            *)
Crash ==
  /\ task # [r \in Requests |-> Idle] \/ sweep # Resting
  /\ task' = [r \in Requests |-> Idle]
  /\ sweep' = Resting
  /\ UNCHANGED <<rows, usage, disk>>

Step(r) ==
  \/ CreateRows(r) \/ PatchBody(r) \/ PatchOpen(r) \/ PatchWrite(r)
  \/ PatchRecord(r) \/ FinalizeRename(r) \/ FinalizeLocate(r)
  \/ FinalizeMismatch(r) \/ FinalizeCount(r) \/ FinalizeCommit(r)
  \/ AbortRows(r) \/ AbortBlob(r) \/ Fail(r)

Arrive(r, u) ==
  \/ CreateCheck(r, u)
  \/ AbortSelect(r, u)
  \/ \E c \in Chunk : PatchSelect(r, u, c)

Sweep ==
  \/ SweepSelect
  \/ \E u \in Uploads : SweepRows(u) \/ SweepSkip(u)
  \/ SweepBlob

Next ==
  \/ \E r \in Requests : Step(r) \/ \E u \in Uploads : Arrive(r, u)
  \/ \E u \in Uploads : Expire(u)
  \/ Sweep
  \/ Crash

Spec == Init /\ [][Next]_vars

(* Time passes for an upload nobody touches.  The expiry task runs every   *)
(* hour; strong fairness of its transactions says that the process does    *)
(* not die, and the transaction does not fail, in every one of those runs. *)
Fairness ==
  /\ \A u \in Uploads : WF_vars(Expire(u)) /\ SF_vars(SweepRows(u))
  /\ WF_vars(SweepSelect) /\ WF_vars(SweepBlob)

FairSpec == Spec /\ Fairness

-----------------------------------------------------------------------------
FileBytes == Seq(Chunk \cup {Hole}) \cup {None}

Task == [pc : Pc, up : Uploads \cup {None}, chunk : Chunk \cup {None},
         fd : {"none", "staging", "blob", "lost"}, actual : Nat]

(* Every variable has the type its column, file or task has.               *)
TypeOK ==
  /\ file \in [Uploads -> {"none", "incomplete", "complete", "deleted"}]
  /\ tusRow \in [Uploads -> BOOLEAN]
  /\ offset \in [Uploads -> 0..Size]
  /\ nextChunk \in [Uploads -> 0..Size]
  /\ expired \in [Uploads -> BOOLEAN]
  /\ chunks \in [Uploads -> SUBSET Chunk]
  /\ located \in [Uploads -> BOOLEAN]
  /\ diskUsed \in Nat
  /\ finished \in SUBSET Uploads
  /\ staging \in [Uploads -> FileBytes]
  /\ blob \in [Uploads -> FileBytes]
  /\ task \in [Requests -> Task]
  /\ sweep \in [todo : SUBSET Uploads, unlink : Uploads \cup {None}]

(* The recorded chunks of a file are consecutive, each index once, each    *)
(* starting where the one before it ended, and the resume point of the     *)
(* upload row is their end: whatever requests interleave, the offset a     *)
(* client resumes from is the sum of what was recorded.                    *)
ChunksTile ==
  \A u \in Uploads : Exists(u) =>
    /\ {c.index : c \in chunks[u]} = {i \in 0..Size : i < nextChunk[u]}
    /\ \A c, d \in chunks[u] : c.index = d.index => c = d
    /\ \A c \in chunks[u] : /\ c.offset = c.index
                            /\ IF c.index + 1 = nextChunk[u]
                               THEN c.offset + c.size = offset[u]
                               ELSE c.size = 1
    /\ nextChunk[u] = 0 => offset[u] = 0

(* The resume point of an upload never moves back: a request that read an  *)
(* old offset cannot overwrite a newer one, although the UPDATE of         *)
(* _record_chunk_in_db has no condition on the offset.                     *)
OffsetNeverRewinds ==
  [][\A u \in Uploads : offset'[u] >= offset[u]]_vars

(* The protocol keeps its contract: uploads only begin, receive, complete  *)
(* with all bytes and one charge, and end, each in one step of the tables, *)
(* whatever PATCHes, aborts, sweeps and crashes do in between.             *)
Contract == INSTANCE UploadContract
  WITH stage <- file, held <- offset, charged <- diskUsed

KeepsContract == Contract!Spec

(* A complete file has all its bytes recorded, no upload row left and a    *)
(* storage location, and it has been charged.                              *)
CompletionIsWhole ==
  \A u \in Uploads : file[u] = "complete" =>
    /\ offset[u] = Size
    /\ ~tusRow[u]
    /\ located[u]
    /\ u \in finished

(* disk_used is the total size of the uploads that became complete files:  *)
(* none is charged twice, and none that was aborted, swept or deleted      *)
(* before its completion committed is charged at all.                      *)
ChargedOnce == diskUsed = Size * Cardinality(finished)

(* What the server says it has, it has: every recorded chunk lies, under   *)
(* the IV recorded for it, at its offset in the staging file, or in the    *)
(* permanent file once that has been renamed.                              *)
Holds(f, c) == f # None /\ \A p \in c.offset + 1 .. c.offset + c.size :
                              p <= Len(f) /\ f[p] = c

RecordedBytesAreHeld ==
  \A u \in Uploads : Exists(u) => \A c \in chunks[u] :
    Holds(IF staging[u] # None THEN staging[u] ELSE blob[u], c)

(* A complete file reads back as it was recorded.                          *)
CompletedReadsBack ==
  \A u \in Uploads : file[u] = "complete" =>
    /\ blob[u] # None
    /\ Len(blob[u]) = Size
    /\ \A c \in chunks[u] : Holds(blob[u], c)

(* Every upload is completed or removed in the end.                        *)
EveryUploadSettles == \A u \in Uploads : tusRow[u] ~> ~tusRow[u]
=============================================================================
