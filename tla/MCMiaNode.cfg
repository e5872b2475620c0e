SPECIFICATION FairSpec
CONSTANTS
  r1 = r1
  r2 = r2
  r3 = r3
  NoRequest = NoRequest
  Request = {r1, r2, r3}
  Priority <- Ranking
  Name <- Names
  Concurrent = FALSE
  Frames = 2
  Helper = {"h1", "h2"}
  MayFail = TRUE
INVARIANTS
  TypeOK
  NoneStranded
  FlushesNamesake
PROPERTIES
  ServesEachOnce
  RequestsServed
