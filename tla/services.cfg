SPECIFICATION MCFairSpec
CONSTANTS
  None = None
  v0 = v0
  v1 = v1
  v2 = v2
  t1 = t1
  t2 = t2
  m1 = m1
  TiersChanges = 5
  Files = {a1, a2}
  Uploaded = {a1}
  Shared = {}
  Unescrowed = {}
  Infected = {a1}
  Workers = {w1, w2}
  Attempts = 2
  Changes = 2
  stream = stream
  siem = siem
  Resources = {volume}
  Channels = {channel}
  ChannelRoom = 1
  OpsChanges = 3
INVARIANTS
  OriginalsRead
  RecordFollowsChecks
PROPERTIES
  VerdictsHold
  QueueSettles
  EventsArrive
CHECK_DEADLOCK FALSE
