CONSTANTS
  k1 = k1
  k2 = k2
  k3 = k3
  Keys = {k1, k2, k3}
  Offset <- MCOffset
  Files = {1, 2}
  Workers = {w1, w2}
  Empty = Empty
  None = None
SPECIFICATION Spec
INVARIANT AnswersExact
PROPERTY BatchGetEnds
CHECK_DEADLOCK FALSE
