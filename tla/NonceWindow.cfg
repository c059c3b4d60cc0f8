SPECIFICATION Spec
SYMMETRY Symmetry
CONSTANTS
  Submissions = {s1, s2}
  Workers = {w1, w2}
  Window = 2
  NonceTtl = 2
  Skew = 1
  Span = 1
  MaxTime = 6
  MaxCopies = 4
  MaxFaults = 1
INVARIANTS
  TypeOK
  ServedPaced
  RepeatExplained
CHECK_DEADLOCK FALSE
