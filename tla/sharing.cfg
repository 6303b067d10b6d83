SPECIFICATION MCSpec
CONSTANTS
  f1 = f1
  f2 = f2
  a1 = a1
  v1 = v1
  v2 = v2
  v3 = v3
  Files = {a1}
  Foreign = {a1}
  Visitors = {v1, v2, v3}
  SignedIn = {v3}
  Owner = v3
  Recipient = v3
  Size <- AccessSize
  Quota = 2
  Default = 2
  Asked = {2}
  Limits = {1}
  Purges = {r1, r2}
  Changes = 1
  Items = {x1, x2, x3}
  Batches = {b1, b2}
  Requests = {r1, r2}
  None = None
  u1 = u1
  Ciphers = {y1, y2}
  Hole = Hole
  RightsChanges = 3
  TreeMoves = 3
INVARIANTS
  LimitHolds
  UploadsAccounted
  BatchLock
  TreeKept
  
  UploadsReadBack
SYMMETRY Symmetry
CHECK_DEADLOCK FALSE
