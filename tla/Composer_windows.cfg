CONSTANTS
  Windows = {w1, w2, w3}
  MaxSends = 2
  None = None
SYMMETRY WindowSymmetry
SPECIFICATION Spec
CHECK_DEADLOCK FALSE
INVARIANTS
  TypeOK
  LastExists
  ShownIsLast
  UnsentStays
