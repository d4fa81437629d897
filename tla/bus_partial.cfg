\* A request of two fragments through a ring of one slot.
SPECIFICATION CallSpec
CONSTANTS
  k1 = k1
  a = a
  b = b
  Corr = {1, 2}
  Kinds = {k1}
  Stages <- MCStages
  Wid = {w1}
  Chunks = {a, b}
  Inbound <- NoFrames
  HandlerResults <- NoFrames
  HasHandler = TRUE
  MaxInFlight = 1
  MaxBody = 3
  ChunkCapacity = 1
  OutCap = 1
  MaxClock = 3
  NoWork = NoWork
  NoAssembly = NoAssembly
  Malformed = Malformed
  Body <- MCBody
  Timeout <- MCTimeout
  CallKind = k1
  ReqCap = 1
  RepCap = 1
INVARIANT
  SendsLikeReply
