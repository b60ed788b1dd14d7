\* Three runs of Io.js over one /tmp, up to two of them dying on the way,
\* starting from any /tmp/io.file an earlier run may have left.
CONSTANTS
  MaxRuns = 3
  MaxCrashes = 2
  Absent = Absent
SPECIFICATION Spec
INVARIANTS
  TypeOK
  ScriptAcks
