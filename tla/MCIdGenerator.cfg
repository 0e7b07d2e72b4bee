\* Three threads, three numbers in a second, three seconds.
CONSTANTS
  c1 = c1
  c2 = c2
  c3 = c3
  Caller = {c1, c2, c3}
  MaxSeq = 3
  SeqSpan = 4
  IndexSpan = 2
  MaxTick = 3
SPECIFICATION Spec
SYMMETRY CallerSymmetry
INVARIANTS
  IdsIncrease
  BlockIdsDecode
