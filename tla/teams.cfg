SPECIFICATION MCSpec
CONSTANTS
  Users = {u1, u2}
  Owner = u1
  Managers = {u1}
  Devices = {d1, d2}
  Device = d1
  RaceClients <- MCRaceClients
  Clients <- MCClients
  Files = {f1}
  Keys = {k1, k2, k3}
  FirstKey = k1
  OtherKeys = {q2, q3, q4}
  Encryptions = {e1}
  OtherEncryptions = {q5, q6}
  None = None
  Lost = Lost
  Racing = {"rotate", "confirm"}
SYMMETRY Symmetry
INVARIANTS
  FilesOpen
  SlotsCurrent
  OwnerKeepsKey
CHECK_DEADLOCK FALSE
