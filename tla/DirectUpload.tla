---------------------------- MODULE DirectUpload ----------------------------
(***************************************************************************)
(* Small files in one POST: POST /uploads/batch, which reads a multipart   *)
(* body part by part and stores all its files in one transaction, and the  *)
(* browser that sends such batches side by side and retries what was not   *)
(* stored.  routes/batch_upload.py, files.js.  One user.                   *)
(*                                                                         *)
(* A stored file stands for all its rows: files, rights copied from its    *)
(* folder, chunk, location, pending share keys and queued scan are written *)
(* by one transaction.  Its blob is not: it is on disk once written.       *)
(***************************************************************************)
EXTENDS FiniteSets, FiniteSetsExt, Naturals, SequencesExt

CONSTANTS
  Files,
  Batches,
  Group,    \* the files of a batch, in order
  Size,     \* encrypted_size
  Quota,    \* users.disk_quota
  Meta,     \* the 'metadata' part
  None,
  Faults    \* bound: failures of the wire, the store and the process

ConstantsOK ==
  /\ IsFiniteSet(Files)
  /\ Group \in [Batches -> Seq(Files)]
  /\ Files \cap Batches = {}
  /\ Size \in [Files -> Nat \ {0}]
  /\ Quota \in Nat
  /\ Meta \notin Files
  /\ None \notin Files
  /\ Faults \in Nat

\* A file is retried by a POST of its own.
Posts == Batches \cup Files
Order(p) == IF p \in Files THEN <<p>> ELSE Group[p]
Carried(p) == ToSet(Order(p))
Body(p) == <<Meta>> \o Order(p)

VARIABLES
  post,
  stored,  \* <<file, post>>: the committed rows
  blob,    \* <<file, post>>: on the default volume
  used,    \* users.disk_used
  told,    \* what the browser holds of a file
  lost,    \* ghost: files of POSTs whose outcome did not reach the browser
  left

vars == <<post, stored, blob, used, told, lost, left>>

Unsent == [pc |-> "unsent", parts |-> <<>>, read |-> <<>>, bad |-> {},
           done |-> {}, problem |-> None, cut |-> FALSE]

Init ==
  /\ post = [p \in Posts |-> Unsent]
  /\ stored = {} /\ blob = {} /\ used = 0
  /\ told = [f \in Files |-> "waiting"]
  /\ lost = {}
  /\ left = Faults

Disturb == left > 0 /\ left' = left - 1
Total(S) == MapThenSumSet(LAMBDA f : Size[f], S)

(***************************************************************************)
(* The browser.  Batches overlap; retries begin after the last of them and *)
(* go one at a time.                                                       *)
(***************************************************************************)
MaySend(p) ==
  \/ p \in Batches
  \/ /\ p \in Files /\ told[p] = "retry"
     /\ \A q \in Batches : post[q].pc = "over" \/ post[q].cut
     /\ \A f \in Files : post[f].pc \in {"unsent", "over"} \/ post[f].cut

Send(p) ==
  /\ post[p].pc = "unsent" /\ MaySend(p)
  /\ post' = [post EXCEPT ![p].pc = "body", ![p].parts = Body(p)]
  /\ told' = [f \in Carried(p) |-> "waiting"] @@ told
  /\ UNCHANGED <<stored, blob, used, lost, left>>

(* What arrives is cut short, altered, not in the order asked for, or has  *)
(* other metadata: None is a part that is refused for what it holds.       *)
Spoiled(p) ==
  {SubSeq(Body(p), 1, n) : n \in 1..Len(Order(p))}
    \cup {Reverse(Body(p)), <<Meta>> \o Body(p), <<None>> \o Order(p)}

Spoil(p) ==
  /\ post[p].pc = "body" /\ post[p].read = <<>>
  /\ Disturb
  /\ \/ \E q \in Spoiled(p) : post' = [post EXCEPT ![p].parts = q]
     \/ \E f \in Carried(p) : post' = [post EXCEPT ![p].bad = @ \cup {f}]
  /\ UNCHANGED <<stored, blob, used, told, lost>>

(***************************************************************************)
(* The parser's callbacks, and the loop that takes parts from them.        *)
(***************************************************************************)
\* The quota is compared with a disk_used read here, before the transaction.
WithinQuota(p) == used + Total(Carried(p)) <= Quota

Expected(p) == Body(p)[Len(post[p].read) + 1]

\* Every field of every entry is as the server wants it, and the user may
\* write to the folder.
Valid(part) == part # None

Proper(p) ==
  LET part == Head(post[p].parts) IN
  /\ Len(post[p].read) < Len(Body(p))
  /\ Valid(part) /\ part = Expected(p)
  /\ part = Meta => WithinQuota(p)

Read(p) ==
  /\ post[p].pc = "body" /\ post[p].parts # <<>>
  /\ Proper(p)
  /\ post' = [post EXCEPT ![p].read = Append(@, Head(post[p].parts)), ![p].parts = Tail(@)]
  /\ UNCHANGED <<stored, blob, used, told, lost, left>>

Complete(p) == post[p].parts = <<>> /\ post[p].read = Body(p)

\* Answered 4xx before anything is written; the browser does not retry.
Refuse(p) ==
  /\ post[p].pc = "body"
  /\ IF post[p].parts = <<>> THEN ~Complete(p) ELSE ~Proper(p)
  /\ post' = [post EXCEPT ![p].pc = "over"]
  /\ told' = [f \in Carried(p) |-> "failed"] @@ told
  /\ UNCHANGED <<stored, blob, used, lost, left>>

(* Every part is hashed; files that differ are left out of the write.      *)
Begin(p) ==
  /\ post[p].pc = "body" /\ Complete(p)
  /\ post' = [post EXCEPT ![p].pc = IF Carried(p) = post[p].bad THEN "answer" ELSE "write"]
  /\ UNCHANGED <<stored, blob, used, told, lost, left>>

(***************************************************************************)
(* _write_batch.  A transaction that has charged a file keeps the user's   *)
(* row locked until it ends.                                               *)
(***************************************************************************)
Verified(p) == SelectSeq(Order(p), LAMBDA f : f \notin post[p].bad)
Upcoming(p) == Verified(p)[Cardinality(post[p].done) + 1]
Unlocked(p) == \A q \in Posts \ {p} : post[q].pc = "write" => post[q].done = {}

Writing(p) ==
  /\ post[p].pc = "write"
  /\ Cardinality(post[p].done) < Len(Verified(p))
  /\ Unlocked(p)

InsertFile(p) ==
  /\ Writing(p)
  /\ blob' = blob \cup {<<Upcoming(p), p>>}
  /\ post' = [post EXCEPT ![p].done = @ \cup {Upcoming(p)}]
  /\ UNCHANGED <<stored, used, told, lost, left>>

(* A statement or the blob's write fails: all is rolled back, but blobs.   *)
InsertFails(p) ==
  /\ Writing(p)
  /\ Disturb
  /\ blob' \in {blob, blob \cup {<<Upcoming(p), p>>}}
  /\ post' = [post EXCEPT ![p].pc = "answer", ![p].done = {}, ![p].problem = Upcoming(p)]
  /\ UNCHANGED <<stored, used, told, lost>>

Wrote(p) == post[p].pc = "write" /\ Cardinality(post[p].done) = Len(Verified(p))

Store(p) ==
  /\ stored' = stored \cup (post[p].done \X {p})
  /\ used' = used + Total(post[p].done)

Commit(p) ==
  /\ Wrote(p)
  /\ Store(p)
  /\ post' = [post EXCEPT ![p].pc = "answer"]
  /\ UNCHANGED <<blob, told, lost, left>>

(* An exception of the commit: every file is answered "error", although    *)
(* the database may have committed.                                        *)
CommitFails(p) ==
  /\ Wrote(p)
  /\ Disturb
  /\ \/ Store(p) /\ lost' = lost \cup post[p].done
     \/ UNCHANGED <<stored, used, lost>>
  /\ post' = [post EXCEPT ![p].pc = "answer", ![p].done = {}]
  /\ UNCHANGED <<blob, told>>

(* The process stops: an open transaction is rolled back.  The browser     *)
(* takes a network error for a failure.                                    *)
Crash(p) ==
  /\ post[p].pc \in {"body", "write", "answer"}
  /\ Disturb
  /\ lost' = lost \cup (IF post[p].pc = "answer" THEN Carried(p) ELSE {})
  /\ post' = [post EXCEPT ![p] = [Unsent EXCEPT !.pc = "over"]]
  /\ told' = [f \in Carried(p) |-> "failed"] @@ told
  /\ UNCHANGED <<stored, blob, used>>

(* The connection is lost after the body: the handler goes on.             *)
Disconnect(p) ==
  /\ post[p].pc \in {"write", "answer"} /\ ~post[p].cut
  /\ Disturb
  /\ lost' = lost \cup Carried(p)
  /\ post' = [post EXCEPT ![p].cut = TRUE]
  /\ told' = [f \in Carried(p) |-> "failed"] @@ told
  /\ UNCHANGED <<stored, blob, used>>

(***************************************************************************)
(* The per-file results, and what the browser makes of them.               *)
(***************************************************************************)
Result(p, f) ==
  IF f \in post[p].done THEN "ok"
  ELSE IF f \in post[p].bad \/ post[p].problem \in {None, f} THEN "error"
  ELSE "rolled_back"

Heard(p, f) ==
  IF Result(p, f) = "ok" THEN "ok" ELSE IF p \in Batches THEN "retry" ELSE "failed"

Answer(p) ==
  /\ post[p].pc = "answer"
  /\ told' = IF post[p].cut THEN told ELSE [f \in Carried(p) |-> Heard(p, f)] @@ told
  /\ post' = [post EXCEPT ![p] = [Unsent EXCEPT !.pc = "over"]]
  /\ UNCHANGED <<stored, blob, used, lost, left>>

Next ==
  \E p \in Posts :
    \/ Send(p) \/ Spoil(p) \/ Read(p) \/ Refuse(p) \/ Begin(p)
    \/ InsertFile(p) \/ InsertFails(p) \/ Commit(p) \/ CommitFails(p)
    \/ Crash(p) \/ Disconnect(p) \/ Answer(p)

Spec == Init /\ [][Next]_vars

-----------------------------------------------------------------------------
Copies(f) == {row \in stored : row[1] = f}

\* What the browser lists as uploaded is stored once, what it lists as
\* failed or is about to retry is not stored, and only an outcome that never
\* reached it makes this wrong; every stored file has its blob, and is
\* charged once.  A batch that fails half-way has written files already, and
\* its rollback must take them back.
AnswersAreTrue ==
  /\ \A f \in Files \ lost :
       /\ told[f] = "ok" => Cardinality(Copies(f)) = 1
       /\ told[f] \in {"failed", "retry"} => Copies(f) = {}
  /\ stored \subseteq blob
  /\ used = MapThenSumSet(LAMBDA row : Size[row[1]], stored)
=============================================================================
