\* Two handlers at once, crashes and failing file operations anywhere, under the fairness of
\* goroutines and of sync.Mutex.
SPECIFICATION FairSpec
CONSTANTS
  r1 = r1
  r2 = r2
  a = a
  b = b
  bad = bad
  Thread = {t1, t2}
  Root = {r1, r2}
  Name = {a, b, bad}
  Valid = {a, b}
  Requests <- MCRequests
  InitFiles <- MCFiles
  Temp = {x1, x2}
  LearnMax = 2
  MaxStore = 4
  ReadErrors = TRUE
  Free = Free
  NoFile = NoFile
  Garbage = Garbage
  Null = Null
  Torn = Torn
INVARIANTS
  TypeOK
  ReportedIsPersisted
PROPERTIES
  EveryRequestReturns
  LoadReturnsReported
  GrowsSoundly
  OnlyFailureLeavesTemps
  RefinesLearnedSet
