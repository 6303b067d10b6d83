SPECIFICATION Spec
CONSTANTS
  Users = {u1, u2}
  Owner = u1
  Browsers = {u1, u2}
  Files = {f1}
  Links = {l1}
  None = None
  MaxKeys = 3
  Changes = 1
PROPERTIES
  LinkLetsAsk
CHECK_DEADLOCK FALSE
