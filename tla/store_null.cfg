\* A sidecar that holds the document null.
SPECIFICATION Spec
CONSTANTS
  r1 = r1
  r2 = r2
  a = a
  b = b
  bad = bad
  Thread = {t1, t2}
  Root = {r1, r2}
  Name = {a, b, bad}
  Valid = {a, b}
  Requests <- MCRequests
  InitFiles = {Null}
  Temp = {x1}
  LearnMax = 2
  MaxStore = 4
  ReadErrors = TRUE
  Free = Free
  NoFile = NoFile
  Garbage = Garbage
  Null = Null
  Torn = Torn
INVARIANT
  BrokenSidecarIsHarmless
