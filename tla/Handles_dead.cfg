\* The Db.js script with one open that may fail.
CONSTANT MaxFailures = 1
SPECIFICATION Spec
INVARIANT NoCallOnDeadHandle
