\* A pump buffer of two units, sockets of two, a cap the second unit exceeds, under the
\* fairness of the worker.
SPECIFICATION FairSpec
CONSTANTS
  Addr = {a1, a2}
  MaxCand = 2
  MaxSend = 2
  SockCap = 2
  BufSize = 2
  MaxBytes = 1
  Deadline = 1
  NoAddr = NoAddr
INVARIANTS
  TypeOK
  FailsClosed
  PassesInOrder
  EofAfterData
  CapHolds
  NothingLeaks
PROPERTY
  ServeReturns
