--------------------------- MODULE TusUploadProofs ---------------------------
(***************************************************************************)
(* Safety of the upload protocol for every number of uploads, requests and *)
(* chunks, whether or not PATCHes of one upload overlap.                   *)
(***************************************************************************)
EXTENDS TusUpload, FiniteSetTheorems, TLAPS

Bytes == Seq(Chunk \cup {Hole})
Finalizing == {"finalize", "locate", "check", "commit"}
Accepted == PatchPc \ {"body"}

(* What a task knows of itself: which upload and chunk it works on, and    *)
(* that its descriptor names a file that is there.                         *)
TaskInv ==
  \A r \in Requests : LET t == task[r] IN
    /\ t.pc # "idle" => t.up \in Uploads
    /\ t.pc \in PatchPc => t.chunk \in Chunk
    /\ t.pc \in Accepted => Fits(t.chunk) /\ Regular(t.chunk)
    /\ t.fd # "none" => t.pc = "write"
    /\ t.fd = "staging" => staging[t.up] \in Bytes
    /\ t.fd = "blob" => blob[t.up] \in Bytes

(* The life of the rows: they are inserted together, and a completed or    *)
(* deleted file has left the others in a known state.                      *)
RowInv ==
  \A u \in Uploads :
    /\ tusRow[u] <=> file[u] = "incomplete"
    /\ file[u] = "none" => nextChunk[u] = 0 /\ offset[u] = 0
    /\ ~Exists(u) => chunks[u] = {}
    /\ u \in finished => file[u] \in {"complete", "deleted"}

(* A fresh identifier is known to the request that drew it only.           *)
CreateInv ==
  \A r \in Requests : task[r].pc = "create" =>
    /\ file[task[r].up] = "none"
    /\ \A q \in Requests : task[q].up = task[r].up => q = r

(* Rows are one unit long but for the last.                                *)
RegularInv ==
  \A u \in Uploads : Exists(u) =>
    /\ \A c \in chunks[u] : Fits(c) /\ Regular(c)
    /\ offset[u] \in {nextChunk[u], Size}

(* What a PATCH read of the resume point is either still true or its index *)
(* has been recorded since.                                                *)
StaleInv ==
  \A r \in Requests : LET c == task[r].chunk  u == task[r].up IN
    task[r].pc \in PatchPc /\ Exists(u) =>
      \/ c.index < nextChunk[u]
      \/ c.index = nextChunk[u] /\ c.offset = offset[u]

(* The request that recorded the last chunk is the only one to finalize.   *)
FinalInv ==
  \A r \in Requests : LET c == task[r].chunk  u == task[r].up IN
    task[r].pc \in Finalizing /\ Exists(u) =>
      /\ file[u] = "incomplete"
      /\ offset[u] = Size
      /\ task[r].pc \in {"check", "commit"} => located[u]
      /\ \A q \in Requests : task[q].up = u /\ task[q].pc \in Finalizing => q = r

IInv ==
  /\ TypeOK
  /\ TaskInv
  /\ RowInv
  /\ CreateInv
  /\ RegularInv
  /\ ChunksTile
  /\ StaleInv
  /\ FinalInv
  /\ CompletionIsWhole
  /\ ChargedOnce

-----------------------------------------------------------------------------
LEMMA WriteAtBytes ==
  ASSUME NEW f \in Bytes, NEW c \in Chunk
  PROVE  WriteAt(f, c) \in Bytes
<1>1. c.offset + c.size \in Nat
  BY SizeAssumption DEF Chunk
<1>2. \A p \in 1 .. c.offset + c.size :
        (IF p > c.offset THEN c ELSE IF p <= Len(f) THEN f[p] ELSE Hole)
          \in Chunk \cup {Hole}
  BY DEF Bytes, Chunk
<1>. QED
  BY <1>1, <1>2 DEF WriteAt, Bytes

LEMMA IdleType == Idle \in Task
BY DEF Idle, Task, Pc

LEMMA TaskUpdate ==
  ASSUME NEW t \in Task, NEW pc \in Pc, NEW fd \in {"none", "staging", "blob", "lost"},
         NEW n \in Nat
  PROVE  /\ [t EXCEPT !.pc = pc] \in Task
         /\ [t EXCEPT !.fd = fd] \in Task
         /\ [t EXCEPT !.pc = pc, !.fd = fd] \in Task
         /\ [t EXCEPT !.pc = pc, !.actual = n] \in Task
BY DEF Task

LEMMA InitInv == Init => IInv
<1>. SUFFICES ASSUME Init PROVE IInv
  OBVIOUS
<1>1. TypeOK
  BY SizeAssumption DEF Init, TypeOK, FileBytes, Task, Idle, Resting, Pc
<1>2. TaskInv /\ CreateInv /\ StaleInv /\ FinalInv
  BY DEF Init, TaskInv, CreateInv, StaleInv, FinalInv, Idle, PatchPc, Accepted, Finalizing
<1>3. RowInv /\ RegularInv /\ ChunksTile /\ CompletionIsWhole
  BY DEF Init, RowInv, RegularInv, ChunksTile, CompletionIsWhole, Exists
<1>4. ChargedOnce
  BY FS_EmptySet, SizeAssumption DEF Init, ChargedOnce
<1>. QED
  BY <1>1, <1>2, <1>3, <1>4 DEF IInv

(* Steps that leave the tables alone keep what is said of the tables.      *)
LEMMA RowsFrame ==
  ASSUME IInv, UNCHANGED <<rows, usage>>
  PROVE  RowInv' /\ RegularInv' /\ ChunksTile' /\ CompletionIsWhole' /\ ChargedOnce'
BY DEF IInv, rows, usage, RowInv, RegularInv, ChunksTile, CompletionIsWhole,
       ChargedOnce, Exists, Fits, Regular, Last

-----------------------------------------------------------------------------
(* Steps of one task that move neither rows nor files.                     *)
LEMMA CreateCheckInv ==
  ASSUME IInv, NEW r \in Requests, NEW u \in Uploads, CreateCheck(r, u)
  PROVE  IInv'
<1>. USE DEF CreateCheck, Goto, Reply, rows, usage, disk
<1>1. TypeOK'
  <2>1. [Idle EXCEPT !.pc = "create", !.up = u] \in Task
    BY IdleType DEF Idle, Task, Pc
  <2>2. task' \in [Requests -> Task]
    BY <2>1 DEF IInv, TypeOK
  <2>. QED
    BY <2>2 DEF IInv, TypeOK
<1>. USE DEF Idle
<1>2. TaskInv'
  BY DEF IInv, TypeOK, Task, TaskInv, PatchPc, Accepted, Fits, Regular, Last
<1>3. CreateInv'
  BY DEF IInv, TypeOK, Task, TaskInv, RowInv, CreateInv
<1>4. StaleInv'
  BY DEF IInv, TypeOK, Task, StaleInv, PatchPc, Exists, OffsetMatches
<1>5. FinalInv'
  BY DEF IInv, TypeOK, Task, FinalInv, Finalizing, Exists
<1>. QED
  BY <1>1, <1>2, <1>3, <1>4, <1>5, RowsFrame DEF IInv

LEMMA PatchSelectInv ==
  ASSUME IInv, NEW r \in Requests, NEW u \in Uploads, NEW c \in Chunk, PatchSelect(r, u, c)
  PROVE  IInv'
<1>. USE DEF PatchSelect, Goto, Reply, Idle, rows, usage, disk
<1>1. TypeOK'
  <2>2. task' \in [Requests -> Task]
    BY DEF IInv, TypeOK, Task, Pc, PatchPc
  <2>. QED
    BY <2>2 DEF IInv, TypeOK
<1>2. TaskInv'
  BY DEF IInv, TypeOK, Task, TaskInv, PatchPc, Accepted, Fits, Regular, Last
<1>3. CreateInv'
  BY DEF IInv, TypeOK, Task, TaskInv, RowInv, CreateInv
<1>4. StaleInv'
  BY DEF IInv, TypeOK, Task, StaleInv, PatchPc, Exists, OffsetMatches
<1>5. FinalInv'
  BY DEF IInv, TypeOK, Task, FinalInv, Finalizing, Exists
<1>. QED
  BY <1>1, <1>2, <1>3, <1>4, <1>5, RowsFrame DEF IInv

LEMMA AbortSelectInv ==
  ASSUME IInv, NEW r \in Requests, NEW u \in Uploads, AbortSelect(r, u)
  PROVE  IInv'
<1>. USE DEF AbortSelect, Goto, Reply, Idle, rows, usage, disk
<1>1. TypeOK'
  <2>2. task' \in [Requests -> Task]
    BY DEF IInv, TypeOK, Task, Pc, PatchPc
  <2>. QED
    BY <2>2 DEF IInv, TypeOK
<1>2. TaskInv'
  BY DEF IInv, TypeOK, Task, TaskInv, PatchPc, Accepted, Fits, Regular, Last
<1>3. CreateInv'
  BY DEF IInv, TypeOK, Task, TaskInv, RowInv, CreateInv
<1>4. StaleInv'
  BY DEF IInv, TypeOK, Task, StaleInv, PatchPc, Exists, OffsetMatches
<1>5. FinalInv'
  BY DEF IInv, TypeOK, Task, FinalInv, Finalizing, Exists
<1>. QED
  BY <1>1, <1>2, <1>3, <1>4, <1>5, RowsFrame DEF IInv

LEMMA PatchBodyInv ==
  ASSUME IInv, NEW r \in Requests, PatchBody(r)
  PROVE  IInv'
<1>. USE DEF PatchBody, Goto, Reply, Idle, rows, usage, disk
<1>1. TypeOK'
  <2>2. task' \in [Requests -> Task]
    BY DEF IInv, TypeOK, Task, Pc, PatchPc
  <2>. QED
    BY <2>2 DEF IInv, TypeOK
<1>2. TaskInv'
  BY DEF IInv, TypeOK, Task, TaskInv, PatchPc, Accepted, Fits, Regular, Last
<1>3. CreateInv'
  BY DEF IInv, TypeOK, Task, TaskInv, RowInv, CreateInv
<1>4. StaleInv'
  BY DEF IInv, TypeOK, Task, StaleInv, PatchPc, Exists, OffsetMatches
<1>5. FinalInv'
  BY DEF IInv, TypeOK, Task, FinalInv, Finalizing, Exists
<1>. QED
  BY <1>1, <1>2, <1>3, <1>4, <1>5, RowsFrame DEF IInv

LEMMA FinalizeCountInv ==
  ASSUME IInv, NEW r \in Requests, FinalizeCount(r)
  PROVE  IInv'
<1>. USE DEF FinalizeCount, Goto, rows, usage, disk
<1>1. TypeOK'
  <2>1. [task[r] EXCEPT !.pc = "commit"] \in Task
    BY TaskUpdate DEF IInv, TypeOK, Pc, PatchPc
  <2>2. task' \in [Requests -> Task]
    BY <2>1 DEF IInv, TypeOK
  <2>. QED
    BY <2>2 DEF IInv, TypeOK
<1>2. TaskInv'
  BY DEF IInv, TypeOK, Task, TaskInv, PatchPc, Accepted, Fits, Regular, Last
<1>3. CreateInv'
  BY DEF IInv, TypeOK, Task, TaskInv, RowInv, CreateInv
<1>4. StaleInv'
  BY DEF IInv, TypeOK, Task, StaleInv, PatchPc, Exists
<1>5. FinalInv'
  BY DEF IInv, TypeOK, Task, FinalInv, Finalizing, Exists
<1>. QED
  BY <1>1, <1>2, <1>3, <1>4, <1>5, RowsFrame DEF IInv

LEMMA FailInv ==
  ASSUME IInv, NEW r \in Requests, Fail(r)
  PROVE  IInv'
<1>. USE DEF Fail, Goto, Reply, rows, usage, disk
<1>1. TypeOK'
  <2>1. Idle \in Task
    BY IdleType DEF Idle, Task, Pc
  <2>2. task' \in [Requests -> Task]
    BY <2>1 DEF IInv, TypeOK
  <2>. QED
    BY <2>2 DEF IInv, TypeOK
<1>. USE DEF Idle
<1>2. TaskInv'
  BY DEF IInv, TypeOK, Task, TaskInv, PatchPc, Accepted, Fits, Regular, Last
<1>3. CreateInv'
  BY NoneAssumption DEF IInv, TypeOK, Task, TaskInv, CreateInv
<1>4. StaleInv'
  BY DEF IInv, TypeOK, Task, StaleInv, PatchPc, Exists, OffsetMatches
<1>5. FinalInv'
  BY DEF IInv, TypeOK, Task, FinalInv, Finalizing, Exists
<1>. QED
  BY <1>1, <1>2, <1>3, <1>4, <1>5, RowsFrame DEF IInv

-----------------------------------------------------------------------------
(* Steps that touch files, or the expiry task, but not the tables.         *)
(* A step of task r that keeps every other task's place, upload and chunk. *)
Keeps(r) ==
  /\ task' \in [Requests -> Task]
  /\ \A q \in Requests : task'[q].up = task[q].up /\ task'[q].chunk = task[q].chunk
  /\ \A q \in Requests : q # r => task'[q].pc = task[q].pc

LEMMA KeepsFrame ==
  ASSUME IInv, NEW r \in Requests, Keeps(r), UNCHANGED <<rows, usage>>,
         task[r].pc \in PatchPc, task'[r].pc \in PatchPc \ {"check", "commit"},
         task'[r].pc \in Finalizing => task[r].pc \in Finalizing
  PROVE  CreateInv' /\ StaleInv' /\ FinalInv'
<1>1. CreateInv'
  BY DEF IInv, TypeOK, CreateInv, rows, Keeps, PatchPc
<1>2. StaleInv'
  BY DEF IInv, TypeOK, StaleInv, Exists, rows, Keeps, PatchPc
<1>3. FinalInv'
  BY DEF IInv, TypeOK, FinalInv, Exists, rows, Keeps, Finalizing
<1>. QED
  BY <1>1, <1>2, <1>3

LEMMA PatchOpenInv ==
  ASSUME IInv, NEW r \in Requests, PatchOpen(r)
  PROVE  IInv'
<1>. DEFINE u == task[r].up
<1>0. u \in Uploads /\ task[r].pc \in PatchPc
  BY DEF IInv, TaskInv, PatchPc, PatchOpen
<1>1. /\ staging' \in [Uploads -> FileBytes] /\ blob' = blob
      /\ staging'[u] \in Bytes
      /\ \A v \in Uploads : staging[v] \in Bytes => staging'[v] \in Bytes
  BY <1>0 DEF IInv, TypeOK, FileBytes, Bytes, PatchOpen
<1>2. Keeps(r) /\ task'[r].pc = "write"
  <2>1. [task[r] EXCEPT !.pc = "write", !.fd = "staging"] \in Task
    BY TaskUpdate DEF IInv, TypeOK, Pc, PatchPc
  <2>2. task' \in [Requests -> Task]
    BY <2>1 DEF IInv, TypeOK, PatchOpen
  <2>. QED
    BY <2>2 DEF IInv, TypeOK, Task, PatchOpen, Keeps
<1>3. UNCHANGED <<rows, usage>>
  BY DEF PatchOpen
<1>4. TypeOK'
  BY <1>1, <1>2 DEF IInv, TypeOK, Keeps, PatchOpen, rows, usage
<1>5. TaskInv'
  BY <1>0, <1>1 DEF IInv, TypeOK, Task, TaskInv, PatchOpen, PatchPc, Accepted, Fits, Regular, Last
<1>. QED
  BY <1>0, <1>2, <1>3, <1>4, <1>5, RowsFrame, KeepsFrame DEF IInv, PatchPc, Finalizing

LEMMA PatchWriteInv ==
  ASSUME IInv, NEW r \in Requests, PatchWrite(r)
  PROVE  IInv'
<1>. DEFINE u == task[r].up
<1>0. u \in Uploads /\ task[r].pc \in PatchPc /\ task[r].chunk \in Chunk
  BY DEF IInv, TaskInv, PatchPc, PatchWrite
<1>1. /\ staging' \in [Uploads -> FileBytes]
      /\ blob' \in [Uploads -> FileBytes]
      /\ \A v \in Uploads : staging[v] \in Bytes => staging'[v] \in Bytes
      /\ \A v \in Uploads : blob[v] \in Bytes => blob'[v] \in Bytes
  <2>1. task[r].fd = "staging" => WriteAt(staging[u], task[r].chunk) \in Bytes
    BY <1>0, WriteAtBytes DEF IInv, TaskInv
  <2>2. task[r].fd = "blob" => WriteAt(blob[u], task[r].chunk) \in Bytes
    BY <1>0, WriteAtBytes DEF IInv, TaskInv
  <2>. QED
    BY <1>0, <2>1, <2>2 DEF IInv, TypeOK, FileBytes, Bytes, PatchWrite
<1>2. Keeps(r) /\ task'[r].pc = "record"
  <2>1. [task[r] EXCEPT !.pc = "record", !.fd = "none"] \in Task
    BY TaskUpdate DEF IInv, TypeOK, Pc, PatchPc
  <2>2. task' \in [Requests -> Task]
    BY <2>1 DEF IInv, TypeOK, PatchWrite
  <2>. QED
    BY <2>2 DEF IInv, TypeOK, Task, PatchWrite, Keeps
<1>3. UNCHANGED <<rows, usage>>
  BY DEF PatchWrite
<1>4. TypeOK'
  BY <1>1, <1>2 DEF IInv, TypeOK, Keeps, PatchWrite, rows, usage
<1>5. TaskInv'
  BY <1>0, <1>1 DEF IInv, TypeOK, Task, TaskInv, PatchWrite, PatchPc, Accepted, Fits, Regular, Last
<1>. QED
  BY <1>0, <1>2, <1>3, <1>4, <1>5, RowsFrame, KeepsFrame DEF IInv, PatchPc, Finalizing

LEMMA FinalizeRenameInv ==
  ASSUME IInv, NEW r \in Requests, FinalizeRename(r)
  PROVE  IInv'
<1>. DEFINE u == task[r].up
<1>0. u \in Uploads /\ task[r].pc \in PatchPc /\ staging[u] \in Bytes
  BY DEF IInv, TypeOK, TaskInv, PatchPc, FileBytes, Bytes, FinalizeRename
<1>1. /\ staging' \in [Uploads -> FileBytes]
      /\ blob' \in [Uploads -> FileBytes]
      /\ blob'[u] \in Bytes
      /\ \A v \in Uploads : v # u => staging'[v] = staging[v] /\ blob'[v] = blob[v]
  BY <1>0 DEF IInv, TypeOK, FileBytes, Bytes, FinalizeRename
<1>2. Moved(u) \in [Requests -> Task]
  BY DEF IInv, TypeOK, Task, Moved
<1>3. Keeps(r) /\ task'[r].pc = "locate"
  <2>1. Len(staging[u]) \in Nat
    BY <1>0 DEF Bytes
  <2>2. [Moved(u)[r] EXCEPT !.pc = "locate", !.actual = Len(staging[u])] \in Task
    BY <1>2, <2>1, TaskUpdate DEF Pc, PatchPc
  <2>3. task' \in [Requests -> Task]
    BY <1>2, <2>2 DEF FinalizeRename
  <2>4. \A q \in Requests : /\ Moved(u)[q].up = task[q].up
                            /\ Moved(u)[q].chunk = task[q].chunk
                            /\ Moved(u)[q].pc = task[q].pc
    BY DEF IInv, TypeOK, Task, Moved
  <2>5. task' = [Moved(u) EXCEPT ![r].pc = "locate", ![r].actual = Len(staging[u])]
    BY DEF FinalizeRename
  <2>. HIDE DEF u
  <2>. QED
    BY <1>2, <2>3, <2>4, <2>5 DEF Task, Keeps
<1>4. UNCHANGED <<rows, usage>>
  BY DEF FinalizeRename
<1>5. TypeOK'
  BY <1>1, <1>3 DEF IInv, TypeOK, Keeps, FinalizeRename, rows, usage
<1>6. \A q \in Requests :
        \/ task'[q].fd = task[q].fd /\ (task[q].up = u => task[q].fd \notin {"staging", "blob"})
        \/ task'[q].fd = "blob" /\ task[q].up = u /\ task[q].fd = "staging"
        \/ task'[q].fd = "lost" /\ task[q].fd = "blob"
  BY DEF IInv, TypeOK, Task, Moved, FinalizeRename
<1>7. TaskInv'
  <2>1. task[r].pc \in Accepted /\ task'[r].pc \in Accepted /\ task[r].pc # "write"
    BY <1>3 DEF FinalizeRename, Accepted, PatchPc
  <2>2. ASSUME NEW q \in Requests
        PROVE  /\ task'[q].pc # "idle" => task'[q].up \in Uploads
               /\ task'[q].pc \in PatchPc => task'[q].chunk \in Chunk
               /\ task'[q].pc \in Accepted => Fits(task'[q].chunk) /\ Regular(task'[q].chunk)
    BY <2>1, <1>3 DEF IInv, TaskInv, Keeps, Accepted, PatchPc
  <2>3. ASSUME NEW q \in Requests
        PROVE  /\ task'[q].fd # "none" => task'[q].pc = "write"
               /\ task'[q].fd = "staging" => staging'[task'[q].up] \in Bytes
               /\ task'[q].fd = "blob" => blob'[task'[q].up] \in Bytes
    BY <2>1, <1>0, <1>1, <1>3, <1>6 DEF IInv, TaskInv, Keeps
  <2>. QED
    BY <2>2, <2>3 DEF TaskInv
<1>. QED
  BY <1>0, <1>3, <1>4, <1>5, <1>7, RowsFrame, KeepsFrame DEF IInv, PatchPc, Finalizing, FinalizeRename

(* Unlinking a staging file costs nobody more than a descriptor.           *)
LEMMA UnlinkedTasks ==
  ASSUME IInv, NEW u
  PROVE  /\ Unlinked(u) \in [Requests -> Task]
         /\ \A q \in Requests : /\ Unlinked(u)[q].pc = task[q].pc
                                /\ Unlinked(u)[q].up = task[q].up
                                /\ Unlinked(u)[q].chunk = task[q].chunk
                                /\ \/ Unlinked(u)[q].fd = task[q].fd
                                      /\ ~(task[q].up = u /\ task[q].fd = "staging")
                                   \/ /\ Unlinked(u)[q].fd = "lost"
                                      /\ task[q].fd = "staging" /\ task[q].up = u
BY DEF IInv, TypeOK, Task, Unlinked

(* A step that ends some requests and leaves the others where they are.    *)
Ends ==
  /\ task' \in [Requests -> Task]
  /\ \A q \in Requests :
       \/ task'[q] = Idle
       \/ /\ task'[q].pc = task[q].pc
          /\ task'[q].up = task[q].up
          /\ task'[q].chunk = task[q].chunk

LEMMA EndsFrame ==
  ASSUME IInv, Ends, UNCHANGED <<rows, usage>>
  PROVE  CreateInv' /\ StaleInv' /\ FinalInv'
<1>. USE DEF Idle
<1>1. CreateInv'
  BY NoneAssumption DEF IInv, TaskInv, CreateInv, rows, Ends
<1>2. StaleInv'
  BY DEF IInv, StaleInv, Exists, rows, Ends, PatchPc
<1>3. FinalInv'
  BY DEF IInv, FinalInv, Exists, rows, Ends, Finalizing
<1>. QED
  BY <1>1, <1>2, <1>3

(* ... and unlinks the staging file of u.                                  *)
Unlinks(u) ==
  /\ task' \in [Requests -> Task]
  /\ \A q \in Requests :
       \/ task'[q] = Idle
       \/ /\ task'[q].pc = task[q].pc
          /\ task'[q].up = task[q].up
          /\ task'[q].chunk = task[q].chunk
          /\ \/ task'[q].fd = task[q].fd
                /\ ~(task[q].up = u /\ task[q].fd = "staging")
             \/ task'[q].fd = "lost" /\ task[q].fd = "staging" /\ task[q].up = u
  /\ staging' = [staging EXCEPT ![u] = None]

LEMMA UnlinkFrame ==
  ASSUME IInv, NEW u \in Uploads, Unlinks(u), blob' = blob,
         sweep' \in [todo : SUBSET Uploads, unlink : Uploads \cup {None}],
         UNCHANGED <<rows, usage>>
  PROVE  IInv'
<1>1. staging' \in [Uploads -> FileBytes]
  BY DEF IInv, TypeOK, FileBytes, Unlinks
<1>2. TypeOK'
  BY <1>1 DEF IInv, TypeOK, rows, usage, Unlinks
<1>3. TaskInv'
  BY DEF IInv, TypeOK, TaskInv, Idle, PatchPc, Accepted, Fits, Regular, Last, Unlinks
<1>4. Ends
  BY DEF Ends, Unlinks
<1>. QED
  BY <1>2, <1>3, <1>4, EndsFrame, RowsFrame DEF IInv

LEMMA UnlinkInv ==
  ASSUME IInv
  PROVE  /\ \A r \in Requests : AbortBlob(r) \/ FinalizeMismatch(r) => IInv'
         /\ SweepBlob => IInv'
<1>1. ASSUME NEW r \in Requests, AbortBlob(r) \/ FinalizeMismatch(r)
      PROVE  IInv'
  <2>. DEFINE u == task[r].up
  <2>1. u \in Uploads
    BY <1>1 DEF IInv, TaskInv, AbortBlob, FinalizeMismatch
  <2>2. /\ task' = [Unlinked(u) EXCEPT ![r] = Idle]
        /\ staging' = [staging EXCEPT ![u] = None]
        /\ UNCHANGED <<rows, usage, blob, sweep>>
    BY <1>1 DEF AbortBlob, FinalizeMismatch
  <2>. HIDE DEF u
  <2>3. Unlinks(u)
    BY <2>2, UnlinkedTasks, IdleType DEF Unlinks
  <2>. QED
    BY <2>1, <2>2, <2>3, UnlinkFrame DEF IInv, TypeOK
<1>2. ASSUME SweepBlob
      PROVE  IInv'
  <2>. DEFINE u == sweep.unlink
  <2>1. u \in Uploads /\ sweep' \in [todo : SUBSET Uploads, unlink : Uploads \cup {None}]
    BY <1>2 DEF IInv, TypeOK, SweepBlob
  <2>2. /\ task' = Unlinked(u)
        /\ staging' = [staging EXCEPT ![u] = None]
        /\ UNCHANGED <<rows, usage, blob>>
    BY <1>2 DEF SweepBlob
  <2>. HIDE DEF u
  <2>3. Unlinks(u)
    BY <2>2, UnlinkedTasks DEF Unlinks
  <2>. QED
    BY <2>1, <2>2, <2>3, UnlinkFrame
<1>. QED
  BY <1>1, <1>2

LEMMA RestInv ==
  ASSUME IInv, Crash \/ SweepSelect \/ (\E u \in Uploads : SweepSkip(u)) \/ UNCHANGED vars
  PROVE  IInv'
<1>1. UNCHANGED <<rows, usage, disk>>
  BY DEF Crash, SweepSelect, SweepSkip, vars
<1>2. sweep' \in [todo : SUBSET Uploads, unlink : Uploads \cup {None}]
  BY DEF IInv, TypeOK, Crash, SweepSelect, SweepSkip, Resting, Abandoned, vars
<1>3. task' = task \/ task' = [q \in Requests |-> Idle]
  BY DEF Crash, SweepSelect, SweepSkip, vars
<1>4. TypeOK'
  BY <1>1, <1>2, <1>3, IdleType DEF IInv, TypeOK, rows, usage, disk
<1>5. TaskInv'
  BY <1>1, <1>3 DEF IInv, TaskInv, Idle, PatchPc, Accepted, disk
<1>6. Ends
  BY <1>3, IdleType DEF IInv, TypeOK, Ends
<1>. QED
  BY <1>1, <1>4, <1>5, <1>6, EndsFrame, RowsFrame DEF IInv

-----------------------------------------------------------------------------
(* Steps that change the tables.                                           *)
LEMMA ExpireInv ==
  ASSUME IInv, NEW u \in Uploads, Expire(u)
  PROVE  IInv'
<1>. USE DEF Expire, usage, disk, Exists
<1>1. TypeOK'
  BY DEF IInv, TypeOK
<1>2. TaskInv' /\ CreateInv' /\ StaleInv' /\ FinalInv'
  BY DEF IInv, TaskInv, CreateInv, StaleInv, FinalInv
<1>3. RowInv' /\ RegularInv' /\ ChunksTile' /\ CompletionIsWhole' /\ ChargedOnce'
  BY DEF IInv, RowInv, RegularInv, ChunksTile, CompletionIsWhole, ChargedOnce
<1>. QED
  BY <1>1, <1>2, <1>3 DEF IInv

LEMMA CreateRowsInv ==
  ASSUME IInv, NEW r \in Requests, CreateRows(r)
  PROVE  IInv'
<1>. DEFINE u == task[r].up
<1>. USE DEF CreateRows, Reply, usage, disk
<1>1. u \in Uploads /\ file[u] = "none"
  BY DEF IInv, TaskInv, CreateInv
<1>2. \A q \in Requests : task'[q] = Idle \/ (task'[q] = task[q] /\ task[q].up # u)
  <2>1. \A q \in Requests : task[q].up = u => q = r
    BY DEF IInv, CreateInv
  <2>2. task' = [task EXCEPT ![r] = Idle] /\ DOMAIN task = Requests
    BY DEF IInv, TypeOK
  <2>. HIDE DEF u
  <2>. QED
    BY <2>1, <2>2
<1>3. TypeOK'
  <2>1. task' \in [Requests -> Task]
    BY IdleType DEF IInv, TypeOK
  <2>. QED
    BY <1>1, <2>1 DEF IInv, TypeOK
<1>4. TaskInv'
  BY <1>2 DEF IInv, TaskInv, Idle, PatchPc, Accepted
<1>5. CreateInv'
  BY <1>1, <1>2, NoneAssumption DEF IInv, TypeOK, TaskInv, CreateInv, Idle
<1>6. StaleInv' /\ FinalInv'
  BY <1>2 DEF IInv, TypeOK, TaskInv, StaleInv, FinalInv, Idle, Exists, PatchPc, Finalizing
<1>7. RowInv' /\ CompletionIsWhole' /\ ChargedOnce'
  BY <1>1 DEF IInv, TypeOK, RowInv, CompletionIsWhole, ChargedOnce, Exists
<1>8. RegularInv' /\ ChunksTile'
  <2>1. chunks[u] = {} /\ nextChunk[u] = 0 /\ offset[u] = 0
    BY <1>1 DEF IInv, RowInv, Exists
  <2>. QED
    BY <1>1, <2>1 DEF IInv, TypeOK, RegularInv, ChunksTile, Exists, Fits, Regular, Last
<1>. QED
  BY <1>3, <1>4, <1>5, <1>6, <1>7, <1>8 DEF IInv

LEMMA FinalizeLocateInv ==
  ASSUME IInv, NEW r \in Requests, FinalizeLocate(r)
  PROVE  IInv'
<1>. DEFINE u == task[r].up
<1>. USE DEF FinalizeLocate, Goto, usage, disk, Exists
<1>1. u \in Uploads /\ task[r].fd = "none"
  BY DEF IInv, TypeOK, Task, TaskInv, Exists
<1>2. Keeps(r)
  <2>1. [task[r] EXCEPT !.pc = "check"] \in Task
    BY TaskUpdate DEF IInv, TypeOK, Pc, PatchPc
  <2>. QED
    BY <2>1 DEF IInv, TypeOK, Task, Keeps
<1>3. TypeOK'
  BY <1>2 DEF IInv, TypeOK, Keeps
<1>4. TaskInv'
  BY DEF IInv, TypeOK, Task, TaskInv, PatchPc, Accepted, Fits, Regular, Last
<1>5. CreateInv'
  BY <1>2 DEF IInv, TypeOK, CreateInv, Keeps
<1>6. StaleInv'
  BY <1>2 DEF IInv, TypeOK, StaleInv, Keeps, PatchPc
<1>7. FinalInv'
  <2>1. located'[u] /\ \A v \in Uploads : located[v] => located'[v]
    BY <1>1 DEF IInv, TypeOK
  <2>2. \A q \in Requests : /\ task'[q].up = task[q].up
                            /\ task'[q].pc \in Finalizing <=> task[q].pc \in Finalizing
                            /\ task'[q].pc \in {"check", "commit"} =>
                                 task[q].pc \in {"check", "commit"} \/ q = r
    BY <1>2 DEF Keeps, Finalizing, IInv, TypeOK
  <2>3. ASSUME NEW q \in Requests, task'[q].pc \in Finalizing, Exists(task[q].up)'
        PROVE  /\ file'[task'[q].up] = "incomplete"
               /\ offset'[task'[q].up] = Size
               /\ \A w \in Requests : task'[w].up = task'[q].up /\ task'[w].pc \in Finalizing => w = q
    BY <2>2, <2>3 DEF IInv, FinalInv
  <2>4. ASSUME NEW q \in Requests, task'[q].pc \in {"check", "commit"},
               Exists(task[q].up)'
        PROVE  located'[task'[q].up]
    <3>1. task[q].up \in Uploads
      BY <2>4, <2>2, <1>1 DEF IInv, TaskInv
    <3>2. CASE q = r
      BY <2>1, <2>2, <3>2
    <3>3. CASE q # r
      BY <2>1, <2>2, <2>4, <3>1, <3>3 DEF IInv, FinalInv, Finalizing
    <3>. QED
      BY <3>2, <3>3
  <2>. QED
    BY <2>3, <2>4 DEF FinalInv
<1>8. RowInv' /\ RegularInv' /\ ChunksTile' /\ CompletionIsWhole' /\ ChargedOnce'
  BY DEF IInv, TypeOK, RowInv, RegularInv, ChunksTile, CompletionIsWhole, ChargedOnce
<1>. QED
  BY <1>3, <1>4, <1>5, <1>6, <1>7, <1>8 DEF IInv

(* Deleting the rows of an upload, by the abort or by the expiry task.     *)
LEMMA DeleteRowsFrame ==
  ASSUME IInv, NEW u \in Uploads, DeleteRows(u), UNCHANGED usage
  PROVE  /\ RowInv' /\ RegularInv' /\ ChunksTile' /\ CompletionIsWhole' /\ ChargedOnce'
         /\ ~Exists(u)'
         /\ \A v \in Uploads : Exists(v)' => Exists(v) /\ file'[v] = file[v] /\ located'[v] = located[v]
         /\ UNCHANGED <<offset, nextChunk>>
         /\ file[u] = "none" => file'[u] = "none"
<1>. USE DEF DeleteRows, usage, Exists
<1>1. RowInv'
  BY DEF IInv, TypeOK, RowInv
<1>2. RegularInv' /\ ChunksTile' /\ CompletionIsWhole' /\ ChargedOnce'
  BY DEF IInv, TypeOK, RegularInv, ChunksTile, CompletionIsWhole, ChargedOnce
<1>. QED
  BY <1>1, <1>2 DEF IInv, TypeOK

LEMMA AbortRowsInv ==
  ASSUME IInv, NEW r \in Requests, AbortRows(r)
  PROVE  IInv'
<1>. DEFINE u == task[r].up
<1>1. u \in Uploads /\ DeleteRows(u) /\ UNCHANGED usage /\ UNCHANGED <<disk, sweep>>
        /\ task' = [task EXCEPT ![r].pc = "abortBlob"] /\ task[r].pc = "abortRows"
  BY DEF IInv, TaskInv, AbortRows, Goto
<1>2. Keeps(r)
  <2>1. [task[r] EXCEPT !.pc = "abortBlob"] \in Task
    BY TaskUpdate DEF IInv, TypeOK, Pc
  <2>. QED
    BY <1>1, <2>1 DEF IInv, TypeOK, Task, Keeps
<1>3. TypeOK'
  BY <1>1, <1>2 DEF IInv, TypeOK, Keeps, DeleteRows, usage, disk
<1>4. TaskInv'
  BY <1>1 DEF IInv, TypeOK, Task, TaskInv, PatchPc, Accepted, Fits, Regular, Last, disk
<1>5. CreateInv'
  BY <1>1, <1>2 DEF IInv, TypeOK, TaskInv, CreateInv, Keeps, DeleteRows, Exists
<1>. HIDE DEF u
<1>6. StaleInv' /\ FinalInv'
  BY <1>1, <1>2, DeleteRowsFrame DEF IInv, TypeOK, TaskInv, StaleInv, FinalInv, Keeps, PatchPc, Finalizing
<1>. QED
  BY <1>1, <1>3, <1>4, <1>5, <1>6, DeleteRowsFrame DEF IInv

LEMMA SweepRowsInv ==
  ASSUME IInv, NEW u \in Uploads, SweepRows(u)
  PROVE  IInv'
<1>1. DeleteRows(u) /\ UNCHANGED usage /\ UNCHANGED <<disk, task>>
  BY DEF SweepRows
<1>2. TypeOK'
  BY <1>1 DEF IInv, TypeOK, DeleteRows, SweepRows, usage, disk
<1>3. TaskInv' /\ CreateInv'
  BY <1>1 DEF IInv, TypeOK, TaskInv, CreateInv, DeleteRows, Exists, disk
<1>4. StaleInv' /\ FinalInv'
  BY <1>1, DeleteRowsFrame DEF IInv, TypeOK, TaskInv, StaleInv, FinalInv, PatchPc, Finalizing
<1>. QED
  BY <1>1, <1>2, <1>3, <1>4, DeleteRowsFrame DEF IInv

(* A PATCH whose INSERT is accepted has read the resume point that is      *)
(* still there: its index was recorded by nobody since, and no index is    *)
(* recorded out of turn.                                                   *)
LEMMA PatchRecordFacts ==
  ASSUME IInv, NEW r \in Requests, PatchRecord(r),
         NEW u, u = task[r].up, NEW c, c = task[r].chunk
  PROVE  /\ u \in Uploads /\ c \in Chunk
         /\ Fits(c) /\ Regular(c)
         /\ c.index = nextChunk[u] /\ c.offset = offset[u]
         /\ offset[u] = nextChunk[u] /\ offset[u] < Size
         /\ file[u] = "incomplete" /\ tusRow[u]
         /\ \A q \in Requests : task[q].up = u => task[q].pc \notin Finalizing
<1>1. u \in Uploads /\ c \in Chunk /\ Fits(c) /\ Regular(c) /\ Exists(u)
  BY DEF IInv, TaskInv, PatchRecord, PatchPc, Accepted
<1>2. c.index = nextChunk[u] /\ c.offset = offset[u]
  <2>1. ~(c.index < nextChunk[u])
    <3>1. SUFFICES ASSUME c.index < nextChunk[u] PROVE FALSE
      OBVIOUS
    <3>2. c.index \in {i \in 0..Size : i < nextChunk[u]}
      BY <1>1, <3>1 DEF Chunk
    <3>3. PICK d \in chunks[u] : d.index = c.index
      BY <1>1, <3>2 DEF IInv, ChunksTile
    <3>. QED
      BY <3>3 DEF PatchRecord, IndexFree
  <2>. QED
    BY <1>1, <2>1 DEF IInv, StaleInv, PatchRecord, PatchPc
<1>3. offset[u] < Size
  BY <1>1, <1>2, SizeAssumption DEF Fits, Chunk
<1>4. file[u] = "incomplete" /\ tusRow[u]
  BY <1>1, <1>3, SizeAssumption DEF IInv, CompletionIsWhole, RowInv, Exists
<1>5. offset[u] = nextChunk[u]
  BY <1>1, <1>3, SizeAssumption DEF IInv, RegularInv
<1>6. \A q \in Requests : task[q].up = u => task[q].pc \notin Finalizing
  BY <1>1, <1>3, SizeAssumption DEF IInv, FinalInv
<1>. QED
  BY <1>1, <1>2, <1>3, <1>4, <1>5, <1>6

LEMMA PatchRecordInv ==
  ASSUME IInv, NEW r \in Requests, PatchRecord(r)
  PROVE  IInv'
<1>. DEFINE u == task[r].up
            c == task[r].chunk
<1>1. /\ u \in Uploads /\ c \in Chunk
      /\ Fits(c) /\ Regular(c)
      /\ c.index = nextChunk[u] /\ c.offset = offset[u]
      /\ offset[u] = nextChunk[u] /\ offset[u] < Size
      /\ file[u] = "incomplete" /\ tusRow[u]
      /\ \A q \in Requests : task[q].up = u => task[q].pc \notin Finalizing
  BY PatchRecordFacts
<1>2. /\ chunks' = [chunks EXCEPT ![u] = @ \cup {c}]
      /\ offset' = [offset EXCEPT ![u] = c.offset + c.size]
      /\ nextChunk' = [nextChunk EXCEPT ![u] = c.index + 1]
      /\ expired' = [expired EXCEPT ![u] = FALSE]
      /\ UNCHANGED <<file, tusRow, located, usage, disk, sweep>>
  BY <1>1 DEF PatchRecord
<1>3. /\ task[r].pc = "record"
      /\ Last(c) => task' = [task EXCEPT ![r].pc = "finalize"]
      /\ ~Last(c) => task' = [task EXCEPT ![r] = Idle]
  BY DEF PatchRecord, Goto, Reply
<1>4. /\ c.index \in 0..Size /\ c.offset \in 0..Size /\ c.size \in 1..Size
      /\ c.index + 1 \in 0..Size /\ c.offset + c.size \in 0..Size
      /\ c.size = 1 \/ c.offset + c.size = Size
  BY <1>1, SizeAssumption DEF Chunk, Fits, Regular, Last
<1>5. /\ task' \in [Requests -> Task]
      /\ \A q \in Requests \ {r} : task'[q] = task[q]
      /\ \/ task'[r] = Idle
         \/ /\ Last(c) /\ task'[r].pc = "finalize" /\ task'[r].up = u
            /\ task'[r].chunk = c /\ task'[r].fd = task[r].fd
  <2>1. [task[r] EXCEPT !.pc = "finalize"] \in Task
    BY TaskUpdate DEF IInv, TypeOK, Pc, PatchPc
  <2>2. task \in [Requests -> Task]
    BY DEF IInv, TypeOK
  <2>3. CASE Last(c)
    <3>1. task' = [task EXCEPT ![r] = [@ EXCEPT !.pc = "finalize"]]
      BY <1>3, <2>3
    <3>. QED
      BY <2>1, <2>2, <2>3, <3>1 DEF Task
  <2>4. CASE ~Last(c)
    BY <1>3, <2>2, <2>4, IdleType
  <2>. QED
    BY <2>3, <2>4
<1>0. u = task[r].up /\ c = task[r].chunk
  OBVIOUS
<1>. HIDE DEF u, c
<1>6. TypeOK'
  <2>1. chunks' \in [Uploads -> SUBSET Chunk]
    BY <1>1, <1>2 DEF IInv, TypeOK
  <2>. QED
    BY <1>1, <1>2, <1>4, <1>5, <2>1 DEF IInv, TypeOK, usage, disk
<1>7. TaskInv'
  <2>1. task[r].fd = "none"
    BY <1>3 DEF IInv, TaskInv
  <2>. QED
    BY <1>1, <1>2, <1>3, <1>5, <2>1 DEF IInv, TaskInv, Idle, PatchPc, Accepted, Fits, Regular, Last, disk
<1>8. CreateInv'
  BY <1>1, <1>2, <1>5, NoneAssumption DEF IInv, TaskInv, CreateInv, Idle
<1>9. RowInv' /\ CompletionIsWhole' /\ ChargedOnce'
  BY <1>1, <1>2 DEF IInv, TypeOK, RowInv, CompletionIsWhole, ChargedOnce, Exists, usage
<1>10. RegularInv'
  BY <1>1, <1>2, <1>4, SizeAssumption DEF IInv, TypeOK, RegularInv, Exists, Fits, Regular, Last
<1>11. ChunksTile'
  <2>1. ASSUME NEW v \in Uploads, v # u
        PROVE  chunks'[v] = chunks[v] /\ offset'[v] = offset[v] /\ nextChunk'[v] = nextChunk[v]
    BY <1>1, <1>2, <2>1 DEF IInv, TypeOK
  <2>2. chunks'[u] = chunks[u] \cup {c} /\ offset'[u] = c.offset + c.size /\ nextChunk'[u] = nextChunk[u] + 1
    BY <1>1, <1>2 DEF IInv, TypeOK
  <2>3. nextChunk[u] \in 0..Size /\ chunks[u] \subseteq Chunk
    BY <1>1 DEF IInv, TypeOK
  <2>4. /\ {d.index : d \in chunks[u]} = {i \in 0..Size : i < nextChunk[u]}
        /\ \A d, e \in chunks[u] : d.index = e.index => d = e
        /\ \A d \in chunks[u] : /\ d.offset = d.index
                                /\ IF d.index + 1 = nextChunk[u]
                                   THEN d.offset + d.size = offset[u]
                                   ELSE d.size = 1
    BY <1>1 DEF IInv, ChunksTile, Exists
  <2>5. \A d \in chunks[u] : /\ d.index \in 0..Size /\ d.index < nextChunk[u]
                             /\ d.offset = d.index /\ d.size = 1
    BY <1>1, <2>3, <2>4, SizeAssumption DEF Chunk
  <2>6. {d.index : d \in chunks'[u]} = {i \in 0..Size : i < nextChunk'[u]}
    <3>1. {d.index : d \in chunks'[u]} = {i \in 0..Size : i < nextChunk[u]} \cup {c.index}
      BY <2>2, <2>4
    <3>. QED
      BY <1>1, <1>4, <2>2, <2>3, <3>1, SizeAssumption
  <2>7. \A d, e \in chunks'[u] : d.index = e.index => d = e
    BY <1>1, <2>2, <2>3, <2>4, <2>5, SizeAssumption
  <2>8. \A d \in chunks'[u] : /\ d.offset = d.index
                              /\ IF d.index + 1 = nextChunk'[u]
                                 THEN d.offset + d.size = offset'[u]
                                 ELSE d.size = 1
    BY <1>1, <1>4, <2>2, <2>3, <2>5, SizeAssumption
  <2>9. nextChunk'[u] # 0
    BY <2>2, <2>3, SizeAssumption
  <2>. QED
    BY <1>2, <2>1, <2>6, <2>7, <2>8, <2>9 DEF IInv, ChunksTile, Exists
<1>12. StaleInv'
  <2>1. ASSUME NEW q \in Requests, task'[q].pc \in PatchPc, task'[q].up \in Uploads,
               file[task'[q].up] \in {"incomplete", "complete"}
        PROVE  \/ task'[q].chunk.index < nextChunk'[task'[q].up]
               \/ /\ task'[q].chunk.index = nextChunk'[task'[q].up]
                  /\ task'[q].chunk.offset = offset'[task'[q].up]
    <3>1. task[q].pc \in PatchPc /\ task'[q].up = task[q].up /\ task'[q].chunk = task[q].chunk
      BY <1>0, <1>3, <1>5, <2>1 DEF Idle, PatchPc
    <3>2. task[q].chunk.index \in 0..Size
      BY <3>1 DEF IInv, TaskInv, Chunk
    <3>3. CASE task[q].up = u
      BY <1>1, <1>2, <1>4, <2>1, <3>1, <3>2, <3>3, SizeAssumption DEF IInv, TypeOK, StaleInv, Exists
    <3>4. CASE task[q].up # u
      BY <1>2, <2>1, <3>1, <3>4 DEF IInv, TypeOK, StaleInv, Exists
    <3>. QED
      BY <3>3, <3>4
  <2>. QED
    BY <1>2, <1>7, <2>1 DEF StaleInv, TaskInv, Exists, PatchPc
<1>13. FinalInv'
  BY <1>1, <1>2, <1>4, <1>5 DEF IInv, TypeOK, FinalInv, Idle, Exists, Finalizing, Last
<1>. QED
  BY <1>6, <1>7, <1>8, <1>9, <1>10, <1>11, <1>12, <1>13 DEF IInv

(* The row the transaction inserts into av_scan_queue is what tells it     *)
(* that its file is still there; the request is then the only finalizer.   *)
LEMMA FinalizeCommitInv ==
  ASSUME IInv, NEW r \in Requests, FinalizeCommit(r)
  PROVE  IInv'
<1>. DEFINE u == task[r].up
<1>1. u \in Uploads /\ task[r].chunk \in Chunk /\ task[r].pc = "commit"
  BY DEF IInv, TaskInv, FinalizeCommit, PatchPc
<1>2. Exists(u)
  BY DEF FinalizeCommit, Queueable
<1>3. /\ file[u] = "incomplete" /\ offset[u] = Size /\ located[u]
      /\ \A q \in Requests : task[q].up = u /\ task[q].pc \in Finalizing => q = r
  BY <1>1, <1>2 DEF IInv, FinalInv, Finalizing
<1>4. u \notin finished
  BY <1>1, <1>3 DEF IInv, RowInv
<1>5. /\ file' = [file EXCEPT ![u] = "complete"]
      /\ tusRow' = [tusRow EXCEPT ![u] = FALSE]
      /\ diskUsed' = diskUsed + Size
      /\ finished' = finished \cup {u}
      /\ task' = [task EXCEPT ![r] = Idle]
      /\ UNCHANGED <<offset, nextChunk, expired, chunks, located, disk, sweep>>
  BY <1>2 DEF FinalizeCommit, Reply
<1>6. /\ task' \in [Requests -> Task]
      /\ task'[r] = Idle
      /\ \A q \in Requests \ {r} : task'[q] = task[q]
  BY <1>5, IdleType DEF IInv, TypeOK
<1>. HIDE DEF u
<1>7. TypeOK'
  BY <1>1, <1>5, <1>6, SizeAssumption DEF IInv, TypeOK, disk
<1>8. TaskInv'
  BY <1>5, <1>6 DEF IInv, TaskInv, Idle, PatchPc, Accepted, disk
<1>9. CreateInv'
  BY <1>1, <1>3, <1>5, <1>6, NoneAssumption DEF IInv, TypeOK, TaskInv, CreateInv, Idle
<1>10. StaleInv'
  BY <1>3, <1>5, <1>6 DEF IInv, TypeOK, TaskInv, StaleInv, Idle, Exists, PatchPc
<1>11. FinalInv'
  <2>1. \A q \in Requests : task'[q].pc \in Finalizing =>
          q # r /\ task'[q] = task[q] /\ task[q].up # u /\ task[q].up \in Uploads
    BY <1>3, <1>6 DEF IInv, TaskInv, Idle, Finalizing
  <2>2. \A v \in Uploads : v # u => file'[v] = file[v]
    BY <1>5 DEF IInv, TypeOK
  <2>. QED
    BY <1>5, <2>1, <2>2 DEF IInv, FinalInv, Exists
<1>12. RowInv' /\ CompletionIsWhole'
  BY <1>1, <1>3, <1>5 DEF IInv, TypeOK, RowInv, CompletionIsWhole, Exists
<1>13. RegularInv' /\ ChunksTile'
  BY <1>1, <1>3, <1>5 DEF IInv, TypeOK, RegularInv, ChunksTile, Exists, Fits, Regular, Last
<1>14. ChargedOnce'
  <2>1. IsFiniteSet(finished)
    BY FiniteAssumption, FS_Subset DEF IInv, TypeOK
  <2>2. Cardinality(finished) \in Nat
    BY <2>1, FS_CardinalityType
  <2>3. Cardinality(finished') = Cardinality(finished) + 1
    BY <1>4, <1>5, <2>1, FS_AddElement
  <2>4. Size * (Cardinality(finished) + 1) = Size * Cardinality(finished) + Size
    BY <2>2, SizeAssumption
  <2>. QED
    BY <1>5, <2>3, <2>4 DEF IInv, ChargedOnce
<1>. QED
  BY <1>7, <1>8, <1>9, <1>10, <1>11, <1>12, <1>13, <1>14 DEF IInv

-----------------------------------------------------------------------------
LEMMA NextInv == IInv /\ [Next]_vars => IInv'
<1>. SUFFICES ASSUME IInv, [Next]_vars PROVE IInv'
  OBVIOUS
<1>1. ASSUME NEW r \in Requests, Step(r) PROVE IInv'
  BY <1>1, CreateRowsInv, PatchBodyInv, PatchOpenInv, PatchWriteInv, PatchRecordInv,
     FinalizeRenameInv, FinalizeLocateInv, FinalizeCountInv, FinalizeCommitInv,
     AbortRowsInv, UnlinkInv,
     FailInv
  DEF Step
<1>2. ASSUME NEW r \in Requests, NEW u \in Uploads, Arrive(r, u) PROVE IInv'
  BY <1>2, CreateCheckInv, AbortSelectInv, PatchSelectInv DEF Arrive
<1>3. ASSUME NEW u \in Uploads, Expire(u) PROVE IInv'
  BY <1>3, ExpireInv
<1>4. CASE Sweep
  BY <1>4, RestInv, SweepRowsInv, UnlinkInv DEF Sweep
<1>5. CASE Crash \/ UNCHANGED vars
  BY <1>5, RestInv
<1>. QED
  BY <1>1, <1>2, <1>3, <1>4, <1>5 DEF Next

(* The invariant holds in every reachable state.                           *)
THEOREM Invariance == Spec => []IInv
<1>. QED
  BY InitInv, NextInv, PTL DEF Spec

(* Every column, file and task keeps its type: the offset and the chunk    *)
(* index of no upload leave 0..Size, however requests interleave.          *)
THEOREM TypeCorrect == Spec => []TypeOK
<1>1. IInv => TypeOK
  BY DEF IInv
<1>. QED
  BY <1>1, Invariance, PTL

(* The chunk rows of a file tile it up to the resume point.                *)
THEOREM ChunksAlwaysTile == Spec => []ChunksTile
<1>1. IInv => ChunksTile
  BY DEF IInv
<1>. QED
  BY <1>1, Invariance, PTL

(* A file is complete only with every byte recorded, located and charged.  *)
THEOREM CompletionAlwaysWhole == Spec => []CompletionIsWhole
<1>1. IInv => CompletionIsWhole
  BY DEF IInv
<1>. QED
  BY <1>1, Invariance, PTL

(* disk_used counts each upload that completed once, and no other.         *)
THEOREM AlwaysChargedOnce == Spec => []ChargedOnce
<1>1. IInv => ChargedOnce
  BY DEF IInv
<1>. QED
  BY <1>1, Invariance, PTL

(* The resume point only moves forward: the one step that assigns it, the  *)
(* transaction of a PATCH, was found to start from the current one.        *)
THEOREM OffsetsAdvance == Spec => OffsetNeverRewinds
<1>1. ASSUME IInv, [Next]_vars, NEW u \in Uploads
      PROVE  offset'[u] >= offset[u]
  <2>1. offset[u] \in Nat
    BY <1>1, SizeAssumption DEF IInv, TypeOK
  <2>2. CASE offset' = offset
    BY <2>1, <2>2
  <2>3. ASSUME NEW r \in Requests, PatchRecord(r)
        PROVE  offset'[u] >= offset[u]
    <3>1. /\ task[r].up \in Uploads /\ task[r].chunk \in Chunk
          /\ task[r].chunk.offset = offset[task[r].up]
          /\ tusRow[task[r].up]
      BY <1>1, <2>3, PatchRecordFacts
    <3>2. offset' = [offset EXCEPT ![task[r].up] = task[r].chunk.offset + task[r].chunk.size]
      BY <2>3, <3>1 DEF PatchRecord
    <3>. QED
      BY <1>1, <2>1, <3>1, <3>2, SizeAssumption DEF IInv, TypeOK, Chunk
  <2>4. offset' = offset \/ \E r \in Requests : PatchRecord(r)
    BY <1>1 DEF Next, Step, Arrive, Sweep, vars, rows, CreateRows, PatchBody, PatchOpen,
       PatchWrite, FinalizeRename, FinalizeLocate, FinalizeMismatch, FinalizeCount,
       FinalizeCommit, AbortRows, AbortBlob, Fail, CreateCheck, AbortSelect, PatchSelect, Expire,
       SweepSelect, SweepRows, SweepSkip, SweepBlob, Crash, DeleteRows
  <2>. QED
    BY <2>2, <2>3, <2>4
<1>2. IInv /\ [Next]_vars => [\A u \in Uploads : offset'[u] >= offset[u]]_vars
  BY <1>1
<1>. QED
  BY <1>2, Invariance, PTL DEF Spec, OffsetNeverRewinds

-----------------------------------------------------------------------------
(* The tables move as the contract allows: the five transactions that      *)
(* write files, current_offset or disk_used, one step of the contract each,*)
(* and every other step leaves the three alone.                            *)
LEMMA DeleteIsRemove ==
  ASSUME IInv, NEW u \in Uploads, DeleteRows(u), UNCHANGED usage
  PROVE  [Contract!Next]_(Contract!vars)
<1>1. offset' = offset /\ diskUsed' = diskUsed
  BY DEF DeleteRows, usage
<1>2. CASE Exists(u)
  <2>1. Contract!Remove(u)
    BY <1>1, <1>2 DEF DeleteRows, Exists, Contract!Remove
  <2>. QED
    BY <2>1 DEF Contract!Next
<1>3. CASE ~Exists(u)
  BY <1>1, <1>3 DEF DeleteRows, Contract!vars
<1>. QED
  BY <1>2, <1>3

LEMMA RecordIsReceive ==
  ASSUME IInv, NEW r \in Requests, PatchRecord(r)
  PROVE  Contract!Next
<1>. DEFINE u == task[r].up
            c == task[r].chunk
<1>1. /\ u \in Uploads /\ c \in Chunk /\ Fits(c)
      /\ c.offset = offset[u] /\ file[u] = "incomplete" /\ tusRow[u]
  BY PatchRecordFacts
<1>2. /\ offset' = [offset EXCEPT ![u] = c.offset + c.size]
      /\ file' = file /\ diskUsed' = diskUsed
  BY <1>1 DEF PatchRecord, usage
<1>3. offset[u] \in 0..Size /\ c.size \in 1..Size /\ offset[u] + c.size <= Size
  BY <1>1 DEF IInv, TypeOK, Chunk, Fits
<1>4. offset[u] + c.size \in 1..Size /\ offset[u] + c.size > offset[u]
  BY <1>3, SizeAssumption
<1>5. Contract!Receive(u)
  BY <1>1, <1>2, <1>4 DEF Contract!Receive
<1>. QED
  BY <1>1, <1>5 DEF Contract!Next

LEMMA CommitIsComplete ==
  ASSUME IInv, NEW r \in Requests, FinalizeCommit(r)
  PROVE  Contract!Next
<1>. DEFINE u == task[r].up
<1>1. u \in Uploads /\ task[r].pc = "commit"
  BY DEF IInv, TaskInv, FinalizeCommit, PatchPc
<1>2. Exists(u)
  BY DEF FinalizeCommit, Queueable
<1>3. file[u] = "incomplete" /\ offset[u] = Size
  BY <1>1, <1>2 DEF IInv, FinalInv, Finalizing
<1>4. Contract!Complete(u)
  BY <1>2, <1>3 DEF FinalizeCommit, Contract!Complete
<1>. QED
  BY <1>1, <1>4 DEF Contract!Next

LEMMA StepKeepsContract ==
  IInv /\ [Next]_vars => [Contract!Next]_(Contract!vars)
<1>. SUFFICES ASSUME IInv, [Next]_vars PROVE [Contract!Next]_(Contract!vars)
  OBVIOUS
<1>1. ASSUME NEW r \in Requests, CreateRows(r)
      PROVE  Contract!Next
  <2>1. task[r].up \in Uploads /\ file[task[r].up] = "none"
    BY <1>1 DEF IInv, TaskInv, CreateInv, CreateRows
  <2>2. Contract!Begin(task[r].up)
    BY <1>1, <2>1 DEF CreateRows, usage, Contract!Begin
  <2>. QED
    BY <2>1, <2>2 DEF Contract!Next
<1>2. ASSUME NEW r \in Requests, AbortRows(r)
      PROVE  [Contract!Next]_(Contract!vars)
  <2>1. task[r].up \in Uploads /\ DeleteRows(task[r].up) /\ UNCHANGED usage
    BY <1>2 DEF IInv, TaskInv, AbortRows
  <2>. QED
    BY <2>1, DeleteIsRemove
<1>3. ASSUME NEW u \in Uploads, SweepRows(u)
      PROVE  [Contract!Next]_(Contract!vars)
  BY <1>3, DeleteIsRemove DEF SweepRows
<1>4. ASSUME NEW r \in Requests, Step(r)
      PROVE  [Contract!Next]_(Contract!vars)
  <2>1. CASE CreateRows(r) \/ PatchRecord(r) \/ FinalizeCommit(r) \/ AbortRows(r)
    BY <1>1, <1>2, <2>1, RecordIsReceive, CommitIsComplete
  <2>2. CASE \/ PatchBody(r) \/ PatchOpen(r) \/ PatchWrite(r) \/ FinalizeRename(r)
             \/ FinalizeLocate(r) \/ FinalizeMismatch(r) \/ FinalizeCount(r)
             \/ AbortBlob(r) \/ Fail(r)
    <3>1. UNCHANGED <<file, offset, diskUsed>>
      BY <2>2 DEF rows, usage, PatchBody, PatchOpen, PatchWrite, FinalizeRename,
         FinalizeLocate, FinalizeMismatch, FinalizeCount, AbortBlob, Fail
    <3>. QED
      BY <3>1 DEF Contract!vars
  <2>. QED
    BY <1>4, <2>1, <2>2 DEF Step
<1>5. CASE \/ \E r \in Requests, u \in Uploads : Arrive(r, u)
           \/ \E u \in Uploads : Expire(u)
           \/ SweepSelect \/ (\E u \in Uploads : SweepSkip(u)) \/ SweepBlob
           \/ Crash \/ UNCHANGED vars
  <2>1. UNCHANGED <<file, offset, diskUsed>>
    BY <1>5 DEF vars, rows, usage, Arrive, CreateCheck, AbortSelect, PatchSelect,
       Expire, SweepSelect, SweepSkip, SweepBlob, Crash
  <2>. QED
    BY <2>1 DEF Contract!vars
<1>. QED
  BY <1>3, <1>4, <1>5 DEF Next, Sweep

(* The detailed protocol implements its contract, for every number of      *)
(* uploads, requests and chunks: each step is one of the contract's or     *)
(* changes nothing the client can see.                                     *)
THEOREM ContractKept == Spec => KeepsContract
<1>1. Init => Contract!Init
  BY DEF Init, Contract!Init
<1>. QED
  BY <1>1, StepKeepsContract, Invariance, PTL DEF Spec, KeepsContract, Contract!Spec

(***************************************************************************)
(* What is recorded is held, as long as PATCHes of one upload do not       *)
(* overlap.                                                                *)
(***************************************************************************)
(* A request that works on an upload works on one that began, and one that *)
(* unlinks a staging file has deleted the rows before.                     *)
BornInv ==
  /\ \A u \in Uploads : file[u] = "none" => staging[u] = None /\ blob[u] = None
  /\ \A r \in Requests :
       /\ task[r].pc \in PatchPc \cup {"abortRows"} => file[task[r].up] # "none"
       /\ task[r].pc = "abortBlob" => file[task[r].up] = "deleted"
  /\ \A u \in sweep.todo : file[u] # "none"
  /\ sweep.unlink # None => file[sweep.unlink] = "deleted"

OneByOne ==
  \A q, r \in Requests :
    task[q].pc \in PatchPc /\ task[r].pc \in PatchPc /\ task[q].up = task[r].up => q = r

(* What a PATCH read of the resume point is true until it records its      *)
(* chunk; its bytes are in the staging file until that is renamed.         *)
Placed(r) ==
  LET t == task[r]  u == t.up  c == t.chunk IN
  t.pc \in PatchPc /\ Exists(u) =>
    /\ t.pc \in {"body", "open", "write", "record"} =>
         c.index = nextChunk[u] /\ c.offset = offset[u]
    /\ t.pc = "write" => t.fd = "staging"
    /\ t.pc = "record" => Holds(staging[u], c) /\ Len(staging[u]) = c.offset + c.size
    /\ t.pc = "finalize" => staging[u] # None /\ Len(staging[u]) = Size
    /\ t.pc \in {"locate", "check", "commit"} => blob[u] # None

(* The permanent file is the whole upload, and replaces the staging file.  *)
Kept(u) ==
  Exists(u) =>
    /\ blob[u] # None => staging[u] = None /\ offset[u] = Size /\ Len(blob[u]) = Size
    /\ file[u] = "complete" => blob[u] # None
    /\ \A c \in chunks[u] : Holds(IF staging[u] # None THEN staging[u] ELSE blob[u], c)

SerialInv ==
  /\ BornInv /\ OneByOne
  /\ \A r \in Requests : Placed(r)
  /\ \A u \in Uploads : Kept(u)

LEMMA InitSerial == Init => SerialInv
  BY DEF Init, SerialInv, BornInv, OneByOne, Placed, Kept, Idle, Resting, PatchPc, Exists

(* A request keeps its place where neither it nor its upload moves.        *)
Rests(r) ==
  LET u == task[r].up IN
  /\ task'[r].pc = task[r].pc /\ task'[r].up = u
  /\ task'[r].chunk = task[r].chunk /\ task'[r].fd = task[r].fd
  /\ Exists(u)
  /\ offset'[u] = offset[u] /\ nextChunk'[u] = nextChunk[u]
  /\ staging'[u] = staging[u] /\ blob'[u] = blob[u]

LEMMA PlaceRests ==
  ASSUME NEW r \in Requests, Placed(r),
         (task[r].pc \in PatchPc /\ Exists(task[r].up))' => Rests(r)
  PROVE  Placed(r)'
BY DEF Placed, Rests, Holds

LEMMA KeptRests ==
  ASSUME NEW u \in Uploads, Kept(u),
         Exists(u)' => /\ Exists(u) /\ file'[u] = file[u] /\ chunks'[u] = chunks[u]
                       /\ offset'[u] = offset[u]
                       /\ staging'[u] = staging[u] /\ blob'[u] = blob[u]
  PROVE  Kept(u)'
BY DEF Kept, Exists, Holds

LEMMA OneStays ==
  ASSUME OneByOne,
         \A r \in Requests : task'[r].pc \in PatchPc =>
           task[r].pc \in PatchPc /\ task'[r].up = task[r].up
  PROVE  OneByOne'
BY DEF OneByOne

-----------------------------------------------------------------------------
(* A request arrives, ends or only looks; the rest of the system waits.    *)
LEMMA ArriveSerial ==
  ASSUME IInv, SerialInv, ~Overlap, NEW r \in Requests, NEW u \in Uploads, Arrive(r, u)
  PROVE  SerialInv'
<1>. task \in [Requests -> Task] /\ RowInv
  BY DEF IInv, TypeOK
<1>1. /\ UNCHANGED <<rows, usage, disk, sweep>>
      /\ \A q \in Requests : q # r => task'[q] = task[q]
      /\ task[r].pc = "idle" /\ task'[r].up = u
      /\ \/ task'[r].pc \in {"create", "abortRows"}
         \/ /\ task'[r].pc = "body" /\ Patching(u) = {}
            /\ task'[r].chunk.index = nextChunk[u] /\ task'[r].chunk.offset = offset[u]
      /\ task'[r].pc # "create" => tusRow[u]
  <2>1. CASE CreateCheck(r, u)
    BY <2>1 DEF CreateCheck, Idle
  <2>2. CASE AbortSelect(r, u)
    BY <2>2 DEF AbortSelect, Idle
  <2>3. CASE \E c \in Chunk : PatchSelect(r, u, c)
    <3>1. PICK c \in Chunk : PatchSelect(r, u, c)
      BY <2>3
    <3>2. task'[r] = [Idle EXCEPT !.pc = "body", !.up = u, !.chunk = c]
      BY <3>1 DEF PatchSelect
    <3>3. task'[r].pc = "body" /\ task'[r].up = u /\ task'[r].chunk = c
      BY <3>2 DEF Idle
    <3>. QED
      BY <3>1, <3>3 DEF PatchSelect, OffsetMatches
  <2>. QED
    BY <2>1, <2>2, <2>3 DEF Arrive
<1>2. BornInv'
  BY <1>1 DEF SerialInv, BornInv, RowInv, rows, disk, PatchPc
<1>3. OneByOne'
  BY <1>1 DEF SerialInv, OneByOne, Patching, PatchPc
<1>4. ASSUME NEW q \in Requests PROVE Placed(q)'
  <2>1. CASE q = r
    BY <1>1, <2>1 DEF Placed, PatchPc, Exists, rows
  <2>2. CASE q # r
    BY <1>1, <2>2, PlaceRests DEF SerialInv, Rests, Exists, rows, disk
  <2>. QED
    BY <2>1, <2>2
<1>5. \A v \in Uploads : Kept(v)'
  BY <1>1, KeptRests DEF SerialInv, rows, disk, Exists
<1>. QED
  BY <1>2, <1>3, <1>4, <1>5 DEF SerialInv

LEMMA EndsSerial ==
  ASSUME IInv, SerialInv, UNCHANGED <<rows, disk>>,
         \A r \in Requests : task'[r] \in {task[r], Idle},
         sweep'.todo \subseteq sweep.todo \cup Abandoned,
         sweep'.unlink \in {sweep.unlink, None}
  PROVE  SerialInv'
<1>1. BornInv'
  BY DEF IInv, TypeOK, RowInv, SerialInv, BornInv, Idle, PatchPc, rows, disk, Abandoned
<1>2. OneByOne'
  BY OneStays DEF SerialInv, Idle, PatchPc
<1>3. ASSUME NEW q \in Requests PROVE Placed(q)'
  BY PlaceRests DEF SerialInv, Rests, Exists, rows, disk, Idle, PatchPc
<1>4. \A v \in Uploads : Kept(v)'
  BY KeptRests DEF SerialInv, rows, disk, Exists
<1>. QED
  BY <1>1, <1>2, <1>3, <1>4 DEF SerialInv

LEMMA PlacesEnd ==
  ASSUME IInv, SerialInv, Crash \/ SweepSelect \/ (\E u \in Uploads : SweepSkip(u))
                          \/ (\E r \in Requests : Fail(r)) \/ UNCHANGED vars
  PROVE  SerialInv'
<1>. task \in [Requests -> Task]
  BY DEF IInv, TypeOK
<1>1. /\ UNCHANGED <<rows, disk>>
      /\ \A r \in Requests : task'[r] \in {task[r], Idle}
  BY DEF Crash, SweepSelect, SweepSkip, Fail, Reply, vars
<1>2. sweep'.todo \subseteq sweep.todo \cup Abandoned /\ sweep'.unlink \in {sweep.unlink, None}
  BY DEF Crash, SweepSelect, SweepSkip, Fail, Resting, vars, IInv, TypeOK
<1>. QED
  BY <1>1, <1>2, EndsSerial

LEMMA ExpireSerial ==
  ASSUME IInv, SerialInv, NEW u \in Uploads, Expire(u)
  PROVE  SerialInv'
<1>. USE DEF Expire, disk
<1>1. BornInv' /\ OneByOne'
  BY DEF SerialInv, BornInv, OneByOne
<1>2. ASSUME NEW q \in Requests PROVE Placed(q)'
  BY PlaceRests DEF SerialInv, Rests, Exists
<1>3. \A v \in Uploads : Kept(v)'
  BY KeptRests DEF SerialInv, Exists
<1>. QED
  BY <1>1, <1>2, <1>3 DEF SerialInv

LEMMA CreateRowsSerial ==
  ASSUME IInv, SerialInv, NEW r \in Requests, CreateRows(r)
  PROVE  SerialInv'
<1>. PICK u : u = task[r].up
  OBVIOUS
<1>. /\ task \in [Requests -> Task] /\ file \in [Uploads -> {"none", "incomplete", "complete", "deleted"}]
     /\ u \in Uploads /\ file[u] = "none" /\ chunks[u] = {}
  BY DEF IInv, TypeOK, CreateRows, CreateInv, TaskInv, RowInv, Exists
<1>. USE DEF CreateRows, Reply, disk
<1>1. /\ file' = [file EXCEPT ![u] = "incomplete"]
      /\ UNCHANGED <<offset, nextChunk, chunks, disk, sweep>>
      /\ \A q \in Requests : task'[q] \in {task[q], Idle}
  OBVIOUS
<1>2. BornInv'
  BY <1>1 DEF SerialInv, BornInv, Idle, PatchPc, IInv, TypeOK
<1>3. OneByOne'
  BY <1>1, OneStays DEF SerialInv, Idle, PatchPc
<1>4. ASSUME NEW q \in Requests PROVE Placed(q)'
  BY <1>1, PlaceRests DEF SerialInv, BornInv, Rests, Exists, Idle, PatchPc, IInv, TaskInv
<1>5. ASSUME NEW v \in Uploads PROVE Kept(v)'
  <2>1. CASE v = u
    BY <1>1, <2>1 DEF SerialInv, BornInv, Kept
  <2>2. CASE v # u
    BY <1>1, <2>2, KeptRests DEF SerialInv, Exists
  <2>. QED
    BY <2>1, <2>2
<1>. QED
  BY <1>2, <1>3, <1>4, <1>5 DEF SerialInv

-----------------------------------------------------------------------------
(* Rows are deleted first, and files unlinked when there are no rows.      *)
LEMMA DeleteSerial ==
  ASSUME IInv, SerialInv, NEW u \in Uploads, DeleteRows(u), UNCHANGED disk,
         file[u] # "none",
         \A q \in Requests :
           \/ task'[q] = task[q]
           \/ task[q].pc = "abortRows" /\ task[q].up = u /\ task'[q] = [task[q] EXCEPT !.pc = "abortBlob"],
         sweep'.todo \subseteq sweep.todo,
         sweep'.unlink \in {sweep.unlink, u}
  PROVE  SerialInv'
<1>. task \in [Requests -> Task] /\ file \in [Uploads -> {"none", "incomplete", "complete", "deleted"}]
  BY DEF IInv, TypeOK
<1>1. /\ file' = [file EXCEPT ![u] = "deleted"]
      /\ chunks' = [chunks EXCEPT ![u] = {}]
      /\ UNCHANGED <<offset, nextChunk, staging, blob>>
  BY DEF DeleteRows, Exists, disk
<1>0. ASSUME NEW q \in Requests
      PROVE  /\ task'[q].up = task[q].up
             /\ \/ task'[q].pc = task[q].pc /\ task'[q] = task[q]
                \/ task[q].pc = "abortRows" /\ task'[q].pc = "abortBlob" /\ task[q].up = u
  <2>1. [task[q] EXCEPT !.pc = "abortBlob"].pc = "abortBlob"
        /\ [task[q] EXCEPT !.pc = "abortBlob"].up = task[q].up
    BY DEF Task
  <2>. QED
    BY <2>1
<1>2. BornInv'
  <2>1. sweep.unlink \in Uploads \cup {None}
    BY DEF IInv, TypeOK
  <2>2. \A q \in Requests : task[q].pc # "idle" => task[q].up \in Uploads
    BY DEF IInv, TaskInv
  <2>3. \A v \in Uploads : file'[v] = "none" => file[v] = "none" /\ v # u
    BY <1>1
  <2>4. \A v \in Uploads : file[v] = "deleted" \/ v = u => file'[v] = "deleted"
    BY <1>1
  <2>5. \A q \in Requests :
          /\ (task[q].pc \in PatchPc \cup {"abortRows"} => file[task[q].up] # "none")'
          /\ (task[q].pc = "abortBlob" => file[task[q].up] = "deleted")'
    BY <1>0, <2>2, <2>3, <2>4 DEF SerialInv, BornInv, PatchPc
  <2>6. (\A v \in sweep.todo : file[v] # "none")'
    BY <2>3 DEF SerialInv, BornInv, IInv, TypeOK
  <2>7. (sweep.unlink # None => file[sweep.unlink] = "deleted")'
    BY <2>1, <2>4 DEF SerialInv, BornInv
  <2>. QED
    BY <1>1, <2>3, <2>5, <2>6, <2>7 DEF SerialInv, BornInv
<1>3. OneByOne'
  BY <1>0, OneStays DEF SerialInv, PatchPc
<1>4. ASSUME NEW q \in Requests PROVE Placed(q)'
  BY <1>0, <1>1, PlaceRests DEF SerialInv, Rests, Exists, PatchPc, IInv, TaskInv
<1>5. ASSUME NEW v \in Uploads PROVE Kept(v)'
  BY <1>1, KeptRests DEF SerialInv, Exists, IInv, TypeOK
<1>. QED
  BY <1>2, <1>3, <1>4, <1>5 DEF SerialInv

LEMMA DeletesSerial ==
  ASSUME IInv, SerialInv, (\E r \in Requests : AbortRows(r)) \/ (\E u \in Uploads : SweepRows(u))
  PROVE  SerialInv'
<1>. task \in [Requests -> Task]
  BY DEF IInv, TypeOK
<1>1. ASSUME NEW r \in Requests, AbortRows(r) PROVE SerialInv'
  <2>1. task[r].up \in Uploads /\ file[task[r].up] # "none"
    BY <1>1 DEF AbortRows, IInv, TaskInv, SerialInv, BornInv
  <2>. QED
    BY <1>1, <2>1, DeleteSerial DEF AbortRows, Goto
<1>2. ASSUME NEW u \in Uploads, SweepRows(u) PROVE SerialInv'
  BY <1>2, DeleteSerial DEF SweepRows, SerialInv, BornInv
<1>. QED
  BY <1>1, <1>2

LEMMA UnlinkSerial ==
  ASSUME IInv, SerialInv, SweepBlob \/ \E r \in Requests : AbortBlob(r) \/ FinalizeMismatch(r)
  PROVE  SerialInv'
<1>. task \in [Requests -> Task] /\ staging \in [Uploads -> FileBytes]
  BY DEF IInv, TypeOK
<1>1. PICK u \in Uploads :
        /\ Exists(u) => staging[u] = None
        /\ Unlinks(u)
        /\ UNCHANGED <<rows, blob>>
        /\ sweep' \in {sweep, [sweep EXCEPT !.unlink = None]}
  <2>1. CASE SweepBlob
    <3>1. sweep.unlink \in Uploads /\ ~Exists(sweep.unlink)
      BY <2>1 DEF SweepBlob, SerialInv, BornInv, Exists, IInv, TypeOK
    <3>2. Unlinks(sweep.unlink)
      BY <2>1, UnlinkedTasks DEF SweepBlob, Unlinks
    <3>. QED
      BY <2>1, <3>1, <3>2 DEF SweepBlob
  <2>2. ASSUME NEW r \in Requests, AbortBlob(r) \/ FinalizeMismatch(r)
        PROVE  /\ task[r].up \in Uploads
               /\ Exists(task[r].up) => staging[task[r].up] = None
               /\ Unlinks(task[r].up)
               /\ UNCHANGED <<rows, blob, sweep>>
    <3>1. task[r].up \in Uploads
      BY <2>2 DEF AbortBlob, FinalizeMismatch, IInv, TaskInv
    <3>2. Exists(task[r].up) => staging[task[r].up] = None
      BY <2>2, <3>1 DEF AbortBlob, FinalizeMismatch, SerialInv, BornInv, Placed, Kept, Exists, PatchPc
    <3>3. Unlinks(task[r].up)
      BY <2>2, UnlinkedTasks, IdleType DEF AbortBlob, FinalizeMismatch, Unlinks
    <3>. QED
      BY <2>2, <3>1, <3>2, <3>3 DEF AbortBlob, FinalizeMismatch
  <2>. QED
    BY <2>1, <2>2
<1>. UNCHANGED <<file, offset, nextChunk, chunks>>
  BY <1>1 DEF rows
<1>2. BornInv'
  BY <1>1 DEF SerialInv, BornInv, Unlinks, Idle, PatchPc, IInv, TypeOK
<1>3. OneByOne'
  BY <1>1, OneStays DEF SerialInv, Unlinks, Idle, PatchPc
<1>4. ASSUME NEW q \in Requests PROVE Placed(q)'
  <2>1. task[q].fd = "staging" => task[q].up \in Uploads /\ staging[task[q].up] # None
    BY NoFileAssumption DEF IInv, TaskInv, Bytes, PatchPc
  <2>. QED
    BY <1>1, <2>1, PlaceRests DEF SerialInv, Unlinks, Rests, Exists, Idle, PatchPc, IInv, TaskInv
<1>5. ASSUME NEW v \in Uploads PROVE Kept(v)'
  BY <1>1, KeptRests DEF SerialInv, Unlinks, Exists
<1>. QED
  BY <1>2, <1>3, <1>4, <1>5 DEF SerialInv

-----------------------------------------------------------------------------
(* The steps of a PATCH. No other one works on the same upload.            *)
LEMMA OtherUpload ==
  ASSUME IInv, SerialInv, NEW r \in Requests, NEW q \in Requests, q # r,
         task[r].pc \in PatchPc, task[q].pc \in PatchPc
  PROVE  task[q].up # task[r].up
BY DEF SerialInv, OneByOne

(* Whatever a PATCH does to files or rows, the files of others rest.       *)
LEMMA PatchFrame ==
  ASSUME IInv, SerialInv, NEW r \in Requests, NEW u, u = task[r].up, task[r].pc \in PatchPc,
         sweep' = sweep,
         \A v \in Uploads : file[v] = "none" => file'[v] = "none",
         \A v \in Uploads : file'[v] # file[v] => file[v] = "incomplete" /\ file'[v] # "none",
         \A v \in Uploads : v # u =>
           /\ file'[v] = file[v] /\ chunks'[v] = chunks[v]
           /\ offset'[v] = offset[v] /\ nextChunk'[v] = nextChunk[v]
           /\ staging'[v] = staging[v] /\ blob'[v] = blob[v],
         task'[r].up \in {u, None}, task'[r].pc \in PatchPc \cup {"idle"},
         task'[r].pc \in PatchPc => task'[r].up = u,
         \A q \in Requests : q # r =>
           /\ task'[q].pc = task[q].pc /\ task'[q].up = task[q].up /\ task'[q].chunk = task[q].chunk
           /\ task[q].up # u => task'[q].fd = task[q].fd
  PROVE  /\ BornInv' /\ OneByOne'
         /\ \A q \in Requests : q # r => Placed(q)'
         /\ \A v \in Uploads : v # u => Kept(v)'
<1>. u \in Uploads /\ file[u] # "none"
  BY DEF IInv, TaskInv, PatchPc, SerialInv, BornInv
<1>. \A q \in Requests : task[q].pc # "idle" => task[q].up \in Uploads
  BY DEF IInv, TaskInv
<1>1. BornInv'
  BY DEF IInv, TypeOK, SerialInv, BornInv, PatchPc
<1>2. OneByOne'
  BY OneStays DEF SerialInv, PatchPc
<1>3. ASSUME NEW q \in Requests, q # r PROVE Placed(q)'
  BY <1>3, OtherUpload, PlaceRests DEF SerialInv, Rests, Exists, PatchPc
<1>4. ASSUME NEW v \in Uploads, v # u PROVE Kept(v)'
  BY <1>4, KeptRests DEF SerialInv, Exists
<1>. QED
  BY <1>1, <1>2, <1>3, <1>4

(* The body agrees, the location row is inserted, the rows are counted.    *)
LEMMA LookSerial ==
  ASSUME IInv, SerialInv, NEW r \in Requests, PatchBody(r) \/ FinalizeLocate(r) \/ FinalizeCount(r)
  PROVE  SerialInv'
<1>. PICK u : u = task[r].up
  OBVIOUS
<1>. task \in [Requests -> Task] /\ u \in Uploads
  BY DEF IInv, TypeOK, TaskInv, PatchBody, FinalizeLocate, FinalizeCount
<1>1. PICK pc \in PatchPc :
        /\ task' = [task EXCEPT ![r].pc = pc]
        /\ <<task[r].pc, pc>> \in {<<"body", "open">>, <<"locate", "check">>, <<"check", "commit">>}
        /\ UNCHANGED <<file, offset, nextChunk, chunks, disk, sweep>>
  BY DEF PatchBody, FinalizeLocate, FinalizeCount, Goto, PatchPc, rows
<1>2. /\ BornInv' /\ OneByOne'
      /\ \A q \in Requests : q # r => Placed(q)'
      /\ \A v \in Uploads : v # u => Kept(v)'
  BY <1>1, PatchFrame DEF PatchPc, disk, Task
<1>3. Placed(r)'
  BY <1>1 DEF SerialInv, Placed, Exists, disk, Task, PatchPc
<1>4. Kept(u)'
  BY <1>1, KeptRests DEF SerialInv, Exists, disk
<1>. QED
  BY <1>2, <1>3, <1>4 DEF SerialInv

(* An upload that still takes chunks has no permanent file yet, and its    *)
(* rows end where the chunk begins.                                        *)
LEMMA Receiving ==
  ASSUME IInv, SerialInv, NEW r \in Requests, task[r].pc \in {"open", "write", "record"},
         NEW u, u = task[r].up, NEW c, c = task[r].chunk, Exists(u)
  PROVE  /\ u \in Uploads /\ c \in Chunk
         /\ blob[u] = None /\ file[u] # "complete"
         /\ \A d \in chunks[u] : d \in Chunk /\ d.offset + d.size <= c.offset
<1>1. u \in Uploads /\ c \in Chunk /\ Fits(c) /\ c.offset = offset[u]
  BY DEF IInv, TaskInv, PatchPc, Accepted, SerialInv, Placed
<1>2. c.offset \in Nat /\ c.size \in Nat \ {0} /\ offset[u] < Size
  BY <1>1, SizeAssumption DEF Chunk, Fits
<1>3. blob[u] = None /\ file[u] # "complete"
  BY <1>1, <1>2, SizeAssumption DEF SerialInv, Kept
<1>4. offset[u] = nextChunk[u] /\ nextChunk[u] \in Nat
  BY <1>1, <1>2, SizeAssumption DEF IInv, TypeOK, RegularInv
<1>5. ASSUME NEW d \in chunks[u] PROVE d \in Chunk /\ d.offset + d.size <= c.offset
  <2>1. d \in Chunk /\ d.offset = d.index /\ d.index < nextChunk[u]
        /\ (IF d.index + 1 = nextChunk[u] THEN d.offset + d.size = offset[u] ELSE d.size = 1)
    BY <1>1 DEF IInv, TypeOK, ChunksTile
  <2>2. d.index \in Nat
    BY <2>1, SizeAssumption DEF Chunk
  <2>. QED
    BY <1>1, <1>4, <2>1, <2>2
<1>. QED
  BY <1>1, <1>3, <1>5

LEMMA PatchOpenSerial ==
  ASSUME IInv, SerialInv, NEW r \in Requests, PatchOpen(r)
  PROVE  SerialInv'
<1>. PICK u : u = task[r].up
  OBVIOUS
<1>. /\ task \in [Requests -> Task] /\ staging \in [Uploads -> FileBytes]
     /\ u \in Uploads /\ task[r].pc \in PatchPc /\ task[r].pc = "open"
  BY DEF IInv, TypeOK, TaskInv, PatchOpen, PatchPc
<1>1. /\ task' = [task EXCEPT ![r].pc = "write", ![r].fd = "staging"]
      /\ staging' = IF staging[u] = None THEN [staging EXCEPT ![u] = <<>>] ELSE staging
      /\ UNCHANGED <<file, offset, nextChunk, chunks, blob, sweep>>
  BY DEF PatchOpen, rows
<1>2. /\ BornInv' /\ OneByOne'
      /\ \A q \in Requests : q # r => Placed(q)'
      /\ \A v \in Uploads : v # u => Kept(v)'
  BY <1>1, PatchFrame DEF PatchPc, Task
<1>3. Placed(r)'
  BY <1>1 DEF SerialInv, Placed, Exists, Task, PatchPc
<1>4. Kept(u)'
  <2>1. CASE Exists(u)
    BY <1>1, <2>1, Receiving DEF SerialInv, Kept, Exists, Holds
  <2>2. CASE ~Exists(u)
    BY <1>1, <2>2 DEF Kept, Exists
  <2>. QED
    BY <2>1, <2>2
<1>. QED
  BY <1>2, <1>3, <1>4 DEF SerialInv

LEMMA WriteHolds ==
  ASSUME NEW f \in Bytes, NEW c \in Chunk
  PROVE  /\ WriteAt(f, c) # None /\ Len(WriteAt(f, c)) = c.offset + c.size
         /\ Holds(WriteAt(f, c), c)
         /\ \A d \in Chunk : d.offset + d.size <= c.offset /\ Holds(f, d) => Holds(WriteAt(f, c), d)
<1>1. c.offset \in Nat /\ c.size \in Nat
  BY SizeAssumption DEF Chunk
<1>2. WriteAt(f, c) \in Bytes
  BY WriteAtBytes
<1>3. WriteAt(f, c) # None
  BY <1>2, NoFileAssumption DEF Bytes
<1>4. /\ Len(WriteAt(f, c)) = c.offset + c.size
      /\ \A p \in 1 .. c.offset + c.size :
           WriteAt(f, c)[p] = IF p > c.offset THEN c ELSE IF p <= Len(f) THEN f[p] ELSE Hole
  <2>1. DOMAIN WriteAt(f, c) = 1 .. c.offset + c.size
    BY DEF WriteAt
  <2>2. Len(WriteAt(f, c)) = c.offset + c.size
    BY <1>1, <1>2, <2>1 DEF Bytes
  <2>. QED
    BY <2>2 DEF WriteAt
<1>5. Holds(WriteAt(f, c), c)
  BY <1>1, <1>3, <1>4 DEF Holds
<1>6. ASSUME NEW d \in Chunk, d.offset + d.size <= c.offset, Holds(f, d)
      PROVE  Holds(WriteAt(f, c), d)
  <2>1. d.offset \in Nat /\ d.size \in Nat
    BY SizeAssumption DEF Chunk
  <2>. QED
    BY <1>1, <1>3, <1>4, <1>6, <2>1 DEF Holds
<1>. QED
  BY <1>3, <1>4, <1>5, <1>6

LEMMA PatchWriteSerial ==
  ASSUME IInv, SerialInv, NEW r \in Requests, PatchWrite(r)
  PROVE  SerialInv'
<1>. PICK u : u = task[r].up
  OBVIOUS
<1>. DEFINE c == task[r].chunk
<1>. /\ task \in [Requests -> Task] /\ staging \in [Uploads -> FileBytes]
     /\ blob \in [Uploads -> FileBytes]
     /\ u \in Uploads /\ task[r].pc \in PatchPc /\ task[r].pc = "write"
  BY DEF IInv, TypeOK, TaskInv, PatchWrite, PatchPc
<1>1. /\ task' = [task EXCEPT ![r].pc = "record", ![r].fd = "none"]
      /\ staging' = IF task[r].fd = "staging"
                    THEN [staging EXCEPT ![u] = WriteAt(@, c)] ELSE staging
      /\ blob' = IF task[r].fd = "blob" THEN [blob EXCEPT ![u] = WriteAt(@, c)] ELSE blob
      /\ UNCHANGED <<file, offset, nextChunk, chunks, sweep>>
  BY DEF PatchWrite, rows
<1>2. /\ BornInv' /\ OneByOne'
      /\ \A q \in Requests : q # r => Placed(q)'
      /\ \A v \in Uploads : v # u => Kept(v)'
  BY <1>1, PatchFrame DEF PatchPc, Task
<1>3. CASE Exists(u)
  <2>1. task[r].fd = "staging" /\ staging[u] \in Bytes
    BY <1>3 DEF SerialInv, Placed, IInv, TaskInv
  <2>2. staging[u] # None /\ c \in Chunk
    BY <2>1, NoFileAssumption DEF Bytes, IInv, TaskInv
  <2>3. /\ staging'[u] = WriteAt(staging[u], c) /\ blob'[u] = blob[u]
        /\ Holds(staging'[u], c) /\ Len(staging'[u]) = c.offset + c.size
        /\ staging'[u] # None
        /\ \A d \in Chunk : d.offset + d.size <= c.offset /\ Holds(staging[u], d)
                              => Holds(staging'[u], d)
    BY <1>1, <2>1, <2>2, WriteHolds
  <2>4. Placed(r)'
    <3>1. /\ task'[r].pc = "record" /\ task'[r].up = u /\ task'[r].chunk = c
          /\ c.index = nextChunk[u] /\ c.offset = offset[u]
      BY <1>1, <1>3 DEF SerialInv, Placed, Task
    <3>. QED
      BY <1>1, <2>3, <3>1 DEF Placed, Holds
  <2>5. Kept(u)'
    BY <1>1, <1>3, <2>2, <2>3, Receiving DEF SerialInv, Kept, Exists, Holds
  <2>. QED
    BY <1>2, <2>4, <2>5 DEF SerialInv
<1>4. CASE ~Exists(u)
  <2>1. Placed(r)' /\ Kept(u)'
    BY <1>1, <1>4 DEF Placed, Kept, Exists, Task
  <2>. QED
    BY <1>2, <2>1 DEF SerialInv
<1>. QED
  BY <1>3, <1>4

LEMMA PatchRecordSerial ==
  ASSUME IInv, SerialInv, NEW r \in Requests, PatchRecord(r)
  PROVE  SerialInv'
<1>. PICK u : u = task[r].up
  OBVIOUS
<1>. DEFINE c == task[r].chunk
<1>. /\ task \in [Requests -> Task] /\ chunks \in [Uploads -> SUBSET Chunk]
     /\ offset \in [Uploads -> 0..Size] /\ nextChunk \in [Uploads -> 0..Size]
     /\ u \in Uploads /\ c \in Chunk /\ task[r].pc \in PatchPc /\ task[r].pc = "record"
  BY DEF IInv, TypeOK, TaskInv, PatchRecord, PatchPc
<1>1. /\ Exists(u)
      /\ chunks' = [chunks EXCEPT ![u] = @ \cup {c}]
      /\ task' \in {[task EXCEPT ![r] = Idle], [task EXCEPT ![r].pc = "finalize"]}
      /\ task'[r].pc = "finalize" => Last(c)
      /\ \A v \in Uploads : v # u => offset'[v] = offset[v] /\ nextChunk'[v] = nextChunk[v]
      /\ UNCHANGED <<file, disk, sweep>>
  BY DEF PatchRecord, Goto, Reply, Idle
<1>2. /\ BornInv' /\ OneByOne'
      /\ \A q \in Requests : q # r => Placed(q)'
      /\ \A v \in Uploads : v # u => Kept(v)'
  BY <1>1, PatchFrame DEF PatchPc, Task, Idle, disk
<1>3. Holds(staging[u], c) /\ Len(staging[u]) = c.offset + c.size /\ staging[u] # None
  BY <1>1 DEF SerialInv, Placed, Holds
<1>4. Placed(r)'
  <2>1. Last(c) => staging'[u] # None /\ Len(staging'[u]) = Size
    BY <1>1, <1>3 DEF disk, Last
  <2>2. task'[r].pc = "idle" \/ (task'[r].pc = "finalize" /\ task'[r].up = u)
    BY <1>1 DEF Idle, Task
  <2>. QED
    BY <1>1, <2>1, <2>2 DEF Placed, PatchPc
<1>5. Kept(u)'
  BY <1>1, <1>3, Receiving DEF SerialInv, Kept, Exists, Holds, disk
<1>. QED
  BY <1>2, <1>4, <1>5 DEF SerialInv

LEMMA FinalizeRenameSerial ==
  ASSUME IInv, SerialInv, NEW r \in Requests, FinalizeRename(r)
  PROVE  SerialInv'
<1>. PICK u : u = task[r].up
  OBVIOUS
<1>. /\ task \in [Requests -> Task] /\ staging \in [Uploads -> FileBytes]
     /\ blob \in [Uploads -> FileBytes]
     /\ u \in Uploads /\ task[r].pc \in PatchPc /\ task[r].pc = "finalize"
  BY DEF IInv, TypeOK, TaskInv, FinalizeRename, PatchPc
<1>1. /\ staging[u] # None
      /\ blob' = [blob EXCEPT ![u] = staging[u]]
      /\ staging' = [staging EXCEPT ![u] = None]
      /\ task'[r].pc = "locate" /\ task'[r].up = u
      /\ \A q \in Requests : q # r =>
           /\ task'[q].pc = task[q].pc /\ task'[q].up = task[q].up /\ task'[q].chunk = task[q].chunk
           /\ task[q].up # u => task'[q].fd = task[q].fd
      /\ UNCHANGED <<file, offset, nextChunk, chunks, sweep>>
  <2>1. \A q \in Requests :
          /\ Moved(u)[q] \in Task
          /\ Moved(u)[q].pc = task[q].pc /\ Moved(u)[q].up = task[q].up
          /\ Moved(u)[q].chunk = task[q].chunk
          /\ task[q].up # u => Moved(u)[q].fd = task[q].fd
    BY DEF Moved, Task
  <2>2. task' = [Moved(u) EXCEPT ![r].pc = "locate", ![r].actual = Len(staging[u])]
    BY DEF FinalizeRename
  <2>3. DOMAIN Moved(u) = Requests
    BY DEF Moved
  <2>4. \A q \in Requests : q # r => task'[q] = Moved(u)[q]
    BY <2>2, <2>3
  <2>5. task'[r] = [[Moved(u)[r] EXCEPT !.pc = "locate"] EXCEPT !.actual = Len(staging[u])]
    BY <2>2, <2>3
  <2>6. task'[r].pc = "locate" /\ task'[r].up = u
    BY <2>1, <2>5 DEF Task
  <2>. QED
    BY <2>1, <2>4, <2>6 DEF FinalizeRename, rows
<1>2. /\ BornInv' /\ OneByOne'
      /\ \A q \in Requests : q # r => Placed(q)'
      /\ \A v \in Uploads : v # u => Kept(v)'
  BY <1>1, PatchFrame DEF PatchPc
<1>3. Placed(r)'
  BY <1>1 DEF Placed
<1>4. Kept(u)'
  <2>1. Exists(u) => Len(staging[u]) = Size /\ offset[u] = Size
    BY DEF SerialInv, Placed, IInv, FinalInv, Finalizing
  <2>. QED
    BY <1>1, <2>1 DEF SerialInv, Kept, Exists, Holds
<1>. QED
  BY <1>2, <1>3, <1>4 DEF SerialInv

LEMMA FinalizeCommitSerial ==
  ASSUME IInv, SerialInv, NEW r \in Requests, FinalizeCommit(r)
  PROVE  SerialInv'
<1>. PICK u : u = task[r].up
  OBVIOUS
<1>. /\ task \in [Requests -> Task] /\ file \in [Uploads -> {"none", "incomplete", "complete", "deleted"}]
     /\ u \in Uploads /\ task[r].pc \in PatchPc /\ task[r].pc = "commit"
  BY DEF IInv, TypeOK, TaskInv, FinalizeCommit, PatchPc
<1>1. /\ Exists(u) /\ file[u] = "incomplete"
      /\ file' = [file EXCEPT ![u] = "complete"]
      /\ task' = [task EXCEPT ![r] = Idle]
      /\ UNCHANGED <<offset, nextChunk, chunks, disk, sweep>>
  BY DEF FinalizeCommit, Queueable, Reply, IInv, FinalInv, Finalizing
<1>2. /\ BornInv' /\ OneByOne'
      /\ \A q \in Requests : q # r => Placed(q)'
      /\ \A v \in Uploads : v # u => Kept(v)'
  BY <1>1, PatchFrame DEF PatchPc, Idle, disk
<1>3. Placed(r)'
  BY <1>1 DEF Placed, Idle, PatchPc
<1>4. Kept(u)'
  BY <1>1 DEF SerialInv, Placed, Kept, Exists, Holds, disk
<1>. QED
  BY <1>2, <1>3, <1>4 DEF SerialInv

LEMMA NextSerial == ASSUME ~Overlap PROVE IInv /\ SerialInv /\ [Next]_vars => SerialInv'
<1>. SUFFICES ASSUME IInv, SerialInv, [Next]_vars PROVE SerialInv'
  OBVIOUS
<1>1. ASSUME NEW r \in Requests, Step(r) PROVE SerialInv'
  BY <1>1, CreateRowsSerial, LookSerial, PatchOpenSerial, PatchWriteSerial, PatchRecordSerial,
     FinalizeRenameSerial, FinalizeCommitSerial, DeletesSerial, UnlinkSerial, PlacesEnd
  DEF Step
<1>. QED
  BY <1>1, ArriveSerial, ExpireSerial, DeletesSerial, UnlinkSerial, PlacesEnd DEF Next, Sweep

LEMMA Serially == ASSUME ~Overlap PROVE Spec => []SerialInv
<1>. QED
  BY InitInv, NextInv, InitSerial, NextSerial, PTL DEF Spec

(* storage/providers/local.py _write_at: when PATCHes of one upload do not *)
(* overlap, the staging file holds every recorded chunk under the IV       *)
(* recorded for it, and the permanent file does once that is renamed.      *)
THEOREM BytesHeld == ASSUME ~Overlap PROVE Spec => []RecordedBytesAreHeld
<1>1. SerialInv => RecordedBytesAreHeld
  BY DEF SerialInv, Kept, RecordedBytesAreHeld
<1>. QED
  BY <1>1, Serially, PTL

(* And then a complete file has its whole length and reads back as it was  *)
(* recorded. With overlap this fails, which the run tus_idempotent shows.  *)
THEOREM ReadsBack == ASSUME ~Overlap PROVE Spec => []CompletedReadsBack
<1>1. SerialInv => CompletedReadsBack
  BY DEF SerialInv, Kept, CompletedReadsBack, Exists
<1>. QED
  BY <1>1, Serially, PTL
=============================================================================
