\* Two runs, the first of which may crash: the WORDS acks after a crash.
CONSTANTS
  WordsFile <- MCWordsFile
  GroupsFile <- MCGroupsFile
  WA = WA
  GA = GA
  Wdj = Wdj
  Amuse = Amuse
  Illegal = Illegal
  Hole = Hole
  NotFound = NotFound
  KeyExists = KeyExists
  ForeignKeyViolation = ForeignKeyViolation
  MaxRuns = 2
  MaxCrashes = 1
SPECIFICATION Spec
INVARIANTS
  ScriptAcks
