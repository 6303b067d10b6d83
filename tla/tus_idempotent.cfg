SPECIFICATION Spec
CONSTANTS
  Uploads = {u1}
  Requests = {r1, r2}
  Ciphers = {c1, c2}
  Size = 2
  Quota = 4
  Overlap = TRUE
  None = None
  Hole = Hole
INVARIANTS
  CompletedReadsBack
CHECK_DEADLOCK FALSE
