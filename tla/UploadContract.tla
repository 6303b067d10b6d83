--------------------------- MODULE UploadContract ---------------------------
(***************************************************************************)
(* What the resumable upload protocol promises its client, without         *)
(* requests, chunks, rows or files: an upload is begun, holds more and     *)
(* more of its bytes, and is completed and charged when it holds all of    *)
(* them, in one step, or is removed.  TusUpload implements this.           *)
(***************************************************************************)
EXTENDS Naturals

CONSTANTS
  Uploads,
  Size  \* Upload-Length, in units

VARIABLES
  stage,   \* "none", "incomplete", "complete" or "deleted"
  held,    \* the resume point HEAD reports
  charged  \* what the owner's quota counts

vars == <<stage, held, charged>>

Init ==
  /\ stage = [u \in Uploads |-> "none"]
  /\ held = [u \in Uploads |-> 0]
  /\ charged = 0

Begin(u) ==
  /\ stage[u] = "none"
  /\ stage' = [stage EXCEPT ![u] = "incomplete"]
  /\ UNCHANGED <<held, charged>>

Receive(u) ==
  /\ stage[u] = "incomplete"
  /\ \E n \in 1..Size : n > held[u] /\ held' = [held EXCEPT ![u] = n]
  /\ UNCHANGED <<stage, charged>>

Complete(u) ==
  /\ stage[u] = "incomplete"
  /\ held[u] = Size
  /\ stage' = [stage EXCEPT ![u] = "complete"]
  /\ charged' = charged + Size
  /\ UNCHANGED held

\* An abort that was accepted before the upload completed removes the
\* complete file, and then the charge stays.
Remove(u) ==
  /\ stage[u] \in {"incomplete", "complete"}
  /\ stage' = [stage EXCEPT ![u] = "deleted"]
  /\ UNCHANGED <<held, charged>>

Next == \E u \in Uploads : Begin(u) \/ Receive(u) \/ Complete(u) \/ Remove(u)

Spec == Init /\ [][Next]_vars
=============================================================================
