\* Two calls of two fragments over rings that hold one or two, the first with a deadline,
\* under the fairness of the processes.
SPECIFICATION FairCallSpec
CONSTANTS
  k1 = k1
  a = a
  b = b
  Corr = {1, 2}
  Kinds = {k1}
  Stages <- MCStages
  Wid = {w1}
  Chunks = {a, b}
  Inbound <- NoFrames
  HandlerResults <- NoFrames
  HasHandler = TRUE
  MaxInFlight = 1
  MaxBody = 3
  ChunkCapacity = 1
  OutCap = 1
  MaxClock = 3
  NoWork = NoWork
  NoAssembly = NoAssembly
  Malformed = Malformed
  Body <- MCBody
  Timeout <- MCTimeout
  CallKind = k1
  ReqCap = 2
  RepCap = 1
INVARIANT
  OkIsWhole
PROPERTIES
  CallReturns
  NothingLeftBehind
