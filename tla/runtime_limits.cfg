\* Three correlations compete for two places; the ring holds one frame.
SPECIFICATION Spec
CONSTANTS
  k1 = k1
  k2 = k2
  x = x
  Corr = {c1, c2, c3}
  Kinds = {k1, k2}
  Stages <- MCStages
  Wid = {w1, w2, w3}
  Chunks = {x}
  Inbound <- Competing
  HandlerResults <- MCResults
  HasHandler = TRUE
  MaxInFlight = 2
  MaxBody = 2
  ChunkCapacity = 1
  OutCap = 1
  MaxClock = 1
  NoWork = NoWork
  NoAssembly = NoAssembly
  Malformed = Malformed
SYMMETRY Symm
INVARIANTS
  TypeOK
  JobsAreTheWork
  DoneHasRoom
  AssemblingXorRunning
  OnlyCtxOrEpochStops
  DrainLeavesNoHandler
  FragmentsContiguous
