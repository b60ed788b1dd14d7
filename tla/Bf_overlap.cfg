\* Any positions: two strings may share a bit.
CONSTANTS
  M = 4
  K = 2
  Overlap = TRUE
SPECIFICATION Spec
INVARIANTS
  NoFalseNegative
