SPECIFICATION Spec
CONSTANTS
  Files = {f1, f2}
  Folders = {d1}
  Requests = {r1, r2}
  None = None
SYMMETRY Symmetry
VIEW Rows
CONSTRAINT UploadsAtRoot
INVARIANTS
  FilesKeepTheirBytes
  UnreferencedIsQueued
CHECK_DEADLOCK FALSE
