SPECIFICATION FairSpec
CONSTANTS
  a = a
  b = b
  c = c
  d = d
  p = p
  q = q
  s = s
  t = t
  NoGraph = NoGraph
  Node = {a, b, c, d}
  SourcePort = {p, q}
  SinkPort = {s, t}
  Graphs <- Others
  NumFrames = 2
  MayFail = TRUE
  Missing = {d}
  FlushCalls <- Forced
INVARIANT
  ImagesReturned
PROPERTY
  QuickFinishEnds
