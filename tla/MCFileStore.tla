----------------------------- MODULE MCFileStore -----------------------------
(* FileStore with the symmetry of its identifiers, and the bound and the     *)
(* view of the run with two requests.                                        *)
EXTENDS FileStore, TLC

Symmetry == Permutations(Files) \cup Permutations(Folders) \cup Permutations(Requests)

(* Uploads go to the root there; copies still go to the folder.              *)
UploadsAtRoot == \A f \in Files : row[f].key = f => row[f].home = None

(* Neither invariant of that run depends on disk_used, and nothing but its   *)
(* own repair reads it: states that differ only there need one visit.        *)
Rows == <<row, folder, blob, queue, task, cleaner, history>>
=============================================================================
