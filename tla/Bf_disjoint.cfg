\* The script's three strings hash to pairwise disjoint positions.
CONSTANTS
  M = 4
  K = 2
  Overlap = FALSE
SPECIFICATION Spec
INVARIANTS
  TypeOK
  ScriptAcks
