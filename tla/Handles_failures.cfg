\* The whole Db.js script with up to two failing opens anywhere.
CONSTANT MaxFailures = 2
SPECIFICATION Spec
INVARIANTS
  NoHandleWithoutEnv
