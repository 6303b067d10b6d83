----------------------------- MODULE MCTusUpload -----------------------------
(* TusUpload with the symmetry of its identifiers, for the safety runs.      *)
EXTENDS TusUpload, TLC

Symmetry == Permutations(Uploads) \cup Permutations(Requests) \cup Permutations(Ciphers)
=============================================================================
