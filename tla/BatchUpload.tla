----------------------------- MODULE BatchUpload -----------------------------
(***************************************************************************)
(* The batches of one user: routes/batch_upload.py (register, cancel) and  *)
(* what completing an upload adds to its batch (routes/uploads.py).  A     *)
(* batch that is less than half complete locks out the next registration.  *)
(*                                                                         *)
(* The uploads of a batch are ordinary resumable ones; here an upload is   *)
(* open, full (its last chunk is recorded, a request is finishing it, or   *)
(* has failed to), complete or deleted.  TusUpload has the detail.         *)
(***************************************************************************)
EXTENDS Naturals, FiniteSets, Sequences

CONSTANTS
  Uploads,   \* file ids, each with its tus_uploads row
  Batches,   \* upload_batches ids
  Requests,  \* handler tasks
  Overlap,   \* may two registrations be in the server together?
  None       \* no batch, no upload

ConstantsOK ==
  /\ IsFiniteSet(Uploads)
  /\ Overlap \in BOOLEAN
  /\ None \notin Uploads \cup Batches

VARIABLES
  upload,   \* "none", "open", "full", "complete" or "deleted"
  of,       \* tus_uploads.batch_id
  batch,    \* upload_batches: total_files, complete_count, lock_released, status
  order,    \* the batch ids by created_at
  task      \* the handler tasks

tables == <<upload, of, batch>>
vars   == <<tables, order, task>>

Idle    == [pc |-> "idle", batch |-> None, todo |-> {}]
NoBatch == [total |-> 0, count |-> 0, released |-> FALSE, status |-> "none"]

Init ==
  /\ upload = [u \in Uploads |-> "none"]
  /\ of = [u \in Uploads |-> None]
  /\ batch = [b \in Batches |-> NoBatch]
  /\ order = <<>>
  /\ task = [r \in Requests |-> Idle]

Begin(r, t) == task[r] = Idle /\ task' = [task EXCEPT ![r] = t]
Reply(r)    == task' = [task EXCEPT ![r] = Idle]

Pending(u)  == upload[u] \in {"open", "full"}
Members(b)  == {u \in Uploads : of[u] = b}
Locking(b)  == batch[b].status = "active" /\ ~batch[b].released

(***************************************************************************)
(* POST /uploads/batch-register: the latest active batch is read, then the *)
(* limits, then the rows are inserted in one transaction.                  *)
(***************************************************************************)
Actives == {i \in DOMAIN order : batch[order[i]].status = "active"}

Latest(i) == \A j \in Actives : j <= i

RegisterRead(r) ==
  /\ Overlap \/ \A q \in Requests : task[q].pc \notin {"stamp", "insert"}
  /\ \A i \in Actives : Latest(i) => ~Locking(order[i])
  /\ Begin(r, [Idle EXCEPT !.pc = "stamp"])
  /\ UNCHANGED <<tables, order>>

RegisterStamp(r, b) ==
  /\ task[r].pc = "stamp"
  /\ \A i \in DOMAIN order : order[i] # b
  /\ order' = Append(order, b)
  /\ task' = [task EXCEPT ![r].pc = "insert", ![r].batch = b]
  /\ UNCHANGED tables

Total(us) == Cardinality(us)

RegisterInsert(r, us) ==
  LET b == task[r].batch IN
  /\ task[r].pc = "insert"
  /\ us # {}
  /\ \A u \in us : upload[u] = "none"
  /\ upload' = [u \in Uploads |-> IF u \in us THEN "open" ELSE upload[u]]
  /\ of' = [u \in Uploads |-> IF u \in us THEN b ELSE of[u]]
  /\ batch' = [batch EXCEPT ![b] = [NoBatch EXCEPT !.total = Total(us), !.status = "active"]]
  /\ Reply(r)
  /\ UNCHANGED order

(***************************************************************************)
(* The completing transaction of an upload counts it in its batch.         *)
(***************************************************************************)
FinishBegin(r, u) ==
  /\ upload[u] = "open"
  /\ upload' = [upload EXCEPT ![u] = "full"]
  /\ Begin(r, [Idle EXCEPT !.pc = "finish", !.todo = {u}])
  /\ UNCHANGED <<of, batch, order>>

Half_Floor(b, n) == n >= b.total \div 2
Half(b, n)       == 2 * n >= b.total

Progressed(b) ==
  LET n == b.count + 1 IN
  [b EXCEPT !.count = n,
            !.released = @ \/ Half(b, n),
            !.status = IF n >= b.total THEN "complete" ELSE @]

(* The av_scan_queue row of the transaction refers to the files row.       *)
Queueable(u) == Pending(u)

FinishCommit(r, u) ==
  /\ task[r].pc = "finish"
  /\ u \in task[r].todo
  /\ Queueable(u)
  /\ upload' = [upload EXCEPT ![u] = "complete"]
  /\ batch' = [batch EXCEPT ![of[u]] = Progressed(@)]
  /\ Reply(r)
  /\ UNCHANGED <<of, order>>

(* An abort, the expiry of the upload, or any later deletion of the file.  *)
Remove(u) ==
  /\ Pending(u) \/ upload[u] = "complete"
  /\ upload' = [upload EXCEPT ![u] = "deleted"]
  /\ UNCHANGED <<of, batch, order, task>>

(***************************************************************************)
(* DELETE /uploads/batch/{id}: the batch is read, then its uploads that    *)
(* are not complete, and a transaction deletes those.                      *)
(***************************************************************************)
CancelRead(r, b) ==
  /\ batch[b].status = "active"
  /\ Begin(r, [Idle EXCEPT !.pc = "list", !.batch = b])
  /\ UNCHANGED <<tables, order>>

Doomed(b) == {u \in Members(b) : Pending(u)}

CancelList(r) ==
  /\ task[r].pc = "list"
  /\ task' = [task EXCEPT ![r].pc = "cancel", ![r].todo = Doomed(task[r].batch)]
  /\ UNCHANGED <<tables, order>>

CancelCommit(r) ==
  LET t == task[r] IN
  /\ t.pc = "cancel"
  /\ upload' = [u \in Uploads |-> IF u \in t.todo THEN "deleted" ELSE upload[u]]
  /\ batch' = [batch EXCEPT ![t.batch].status = "cancelled", ![t.batch].released = TRUE]
  /\ Reply(r)
  /\ UNCHANGED <<of, order>>

(* A request is refused, or a statement fails and its transaction is       *)
(* rolled back; or the process dies.                                       *)
Fail(r) ==
  /\ task[r] # Idle
  /\ Reply(r)
  /\ UNCHANGED <<tables, order>>

Crash ==
  /\ task' = [r \in Requests |-> Idle]
  /\ UNCHANGED <<tables, order>>

Next ==
  \/ \E r \in Requests :
       \/ RegisterRead(r) \/ CancelList(r) \/ CancelCommit(r) \/ Fail(r)
       \/ \E b \in Batches : RegisterStamp(r, b) \/ CancelRead(r, b)
       \/ \E us \in SUBSET Uploads : RegisterInsert(r, us)
       \/ \E u \in Uploads : FinishBegin(r, u) \/ FinishCommit(r, u)
  \/ \E u \in Uploads : Remove(u)
  \/ Crash

Spec == Init /\ [][Next]_vars

-----------------------------------------------------------------------------
Batch == [total : Nat, count : Nat, released : BOOLEAN,
          status : {"none", "active", "complete", "cancelled"}]

Task == [pc : {"idle", "stamp", "insert", "finish", "list", "cancel"},
         batch : Batches \cup {None}, todo : SUBSET Uploads]

(* Rows and tasks have the types of their columns and locals, and a batch  *)
(* never counts more completions than it has files.                        *)
TypeOK ==
  /\ upload \in [Uploads -> {"none", "open", "full", "complete", "deleted"}]
  /\ of \in [Uploads -> Batches \cup {None}]
  /\ batch \in [Batches -> Batch]
  /\ \A b \in Batches : batch[b].count <= batch[b].total
  /\ order \in Seq(Batches)
  /\ task \in [Requests -> Task]

(* The lock of a batch is released when half of its files, rounded up, are *)
(* complete, or by a cancel, and not before.                               *)
LockFollowsProgress ==
  \A b \in Batches : batch[b].status # "none" =>
    (batch[b].released <=> 2 * batch[b].count >= batch[b].total
                             \/ batch[b].status = "cancelled")

(* When registrations come one at a time, at most one active batch holds   *)
(* the lock, although only the latest active one is looked at.             *)
PacingLock ==
  Overlap \/ \A a, b \in Batches : Locking(a) /\ Locking(b) => a = b
=============================================================================
