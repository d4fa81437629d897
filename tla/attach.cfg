\* A module or a caller joins and leaves the bus; the host may fail it at every step.
\* A process that has returned and whose context has ended does nothing more.
CHECK_DEADLOCK FALSE
SPECIFICATION FairSpec
CONSTANTS
  Hosts <- MCHosts
  Configs <- MCConfigs
  Interval = 3
  Delay = 2
  Stale = 6
INVARIANTS
  NothingHeld
  LayoutsAgree
  OnlyKeepAliveOutlives
  ReapedOnlyAfterCtx
PROPERTY
  ConnectReturns
