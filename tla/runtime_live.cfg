\* Two correlations and one place, deadlines the clock can pass, a ring of one frame.
SPECIFICATION FairSpec
CONSTANTS
  k1 = k1
  k2 = k2
  x = x
  Corr = {c1, c2}
  Kinds = {k1, k2}
  Stages <- MCStages
  Wid = {w1}
  Chunks = {x}
  Inbound <- Timed
  HandlerResults <- LongReply
  HasHandler = TRUE
  MaxInFlight = 1
  MaxBody = 2
  ChunkCapacity = 1
  OutCap = 1
  MaxClock = 2
  NoWork = NoWork
  NoAssembly = NoAssembly
  Malformed = Malformed
PROPERTIES
  JobIsAnswered
  StopsWhenTold
  HeartbeatKeepsUp
