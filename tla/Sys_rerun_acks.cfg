\* Two runs of Sys.js over one /tmp, the first of which may crash.
CONSTANTS
  MaxRuns = 2
  MaxCrashes = 1
SPECIFICATION Spec
INVARIANT ScriptAcks
