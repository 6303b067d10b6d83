SPECIFICATION MCSpec
CONSTANTS
  Tokens = {t1, t2, t3}
  Requests = {r1, r2}
  MaxFailures = 2
  FailureCap = 3
  None = None
  Twos = {p1, p2}
  Totp = {totp}
  Keys = {key}
  Changes = 1
INVARIANTS
  OneLivePerLogin
  EndedStaysEnded
  LockoutFollows
  OneSessionEach
  FactorAsked
  OneBootstrap
SYMMETRY Symmetry
VIEW View
CHECK_DEADLOCK FALSE
