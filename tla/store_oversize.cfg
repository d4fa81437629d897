\* A store that grows past its size limit; no file operation of read() fails.
SPECIFICATION Spec
CONSTANTS
  r1 = r1
  r2 = r2
  a = a
  b = b
  bad = bad
  Thread = {t1, t2}
  Root = {r1, r2}
  Name = {a, b, bad}
  Valid = {a, b}
  Requests <- MCRequests
  InitFiles = {NoFile}
  Temp = {x1}
  LearnMax = 2
  MaxStore = 1
  ReadErrors = FALSE
  Free = Free
  NoFile = NoFile
  Garbage = Garbage
  Null = Null
  Torn = Torn
PROPERTY
  CapturedStays
