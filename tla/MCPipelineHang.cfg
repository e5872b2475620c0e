SPECIFICATION FairSpec
CONSTANTS
  a = a
  b = b
  c = c
  d = d
  p = p
  q = q
  s = s
  t = t
  NoGraph = NoGraph
  Node = {a, b, c}
  SourcePort = {p, q}
  SinkPort = {s, t}
  Graphs <- Streams
  NumFrames = 2
  MayFail = FALSE
  Missing = {}
  FlushCalls <- Expedite
PROPERTY
  QuickFinishEnds
