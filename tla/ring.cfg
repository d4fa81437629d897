\* Four times around a ring of two slots, and the wrap of the index words in between.
SPECIFICATION FairSpec
CONSTANTS
  Cap = 2
  W = 8
  Frames = {f1, f2}
  Bad = Bad
  Torn = Torn
INVARIANTS
  TypeOK
  NeverOvertakes
  ViewIsStable
PROPERTY
  RefinesBoundedFifo
