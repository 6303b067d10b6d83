SPECIFICATION FairSpec
CONSTANTS
  Files = {f1}
  Folders = {d1}
  Requests = {r1, r2}
  None = None
PROPERTY
  QueueDrains
CHECK_DEADLOCK FALSE
