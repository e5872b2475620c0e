SPECIFICATION FairSpec
CONSTANTS
  a = a
  b = b
  c = c
  d = d
  p = p
  q = q
  s = s
  t = t
  NoGraph = NoGraph
  Node = {a, b, c}
  SourcePort = {p, q}
  SinkPort = {s, t}
  Graphs <- Barriers
  NumFrames = 2
  MayFail = TRUE
  Missing = {}
  FlushCalls <- AnyFlush
INVARIANTS
  TypeOK
  IdleMeansQuiet
  InputsReady
  ImagesReturned
  CompletionIsLast
  FailureReported
PROPERTIES
  DispatchedWhenReady
  QuickFinishEnds
  RequestEnds
