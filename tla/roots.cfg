SPECIFICATION Spec
CONSTANTS
  Folders = {f1, f2, f3}
  Requests = {r1}
  NoFolder = NoFolder
  MaxChanges = 3
INVARIANT
  RootsAgree
CHECK_DEADLOCK FALSE
