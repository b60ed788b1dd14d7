\* Three runs of Sys.js over one /tmp, up to two of them ended by a crash.
CONSTANTS
  MaxRuns = 3
  MaxCrashes = 2
SPECIFICATION Spec
INVARIANTS
  TypeOK
  LeavesNoTrace
