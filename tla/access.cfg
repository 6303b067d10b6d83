SPECIFICATION MCSpec
CONSTANTS
  f1 = f1
  f2 = f2
  d1 = d1
  d2 = d2
  p = p
  q = q
  c1 = c1
  c2 = c2
  e1 = e1
  e2 = e2
  e3 = e3
  u1 = u1
  t1 = t1
  t2 = t2
  Folders = {d1, d2}
  Target = d1
  Files = {f1, f2}
  Home <- KeyingHome
  V1 = {f1}
  Foreign = {f2}
  Clients = {k1}
  Visitors = {v1}
  Changes = 2
  LeftToVisits = 1
  None = None
INVARIANTS
  ObligationKept
  ShownIsServed
PROPERTIES
  PoliciesTakeHold
CHECK_DEADLOCK FALSE
