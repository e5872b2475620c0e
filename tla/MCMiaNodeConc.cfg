SPECIFICATION Spec
CONSTANTS
  r1 = r1
  r2 = r2
  r3 = r3
  NoRequest = NoRequest
  Request = {r1, r2, r3}
  Priority <- Ranking
  Name <- Names
  Concurrent = TRUE
  Frames = 1
  Helper = {}
  MayFail = TRUE
PROPERTY
  ServesEachOnce
