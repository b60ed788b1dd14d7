\* Three runs of the script over one home, up to two of them ended by a crash.
CONSTANTS
  WordsFile <- MCWordsFile
  GroupsFile <- MCGroupsFile
  WA = WA
  GA = GA
  Wdj = Wdj
  Amuse = Amuse
  Illegal = Illegal
  Hole = Hole
  NotFound = NotFound
  KeyExists = KeyExists
  ForeignKeyViolation = ForeignKeyViolation
  MaxRuns = 3
  MaxCrashes = 2
SPECIFICATION Spec
INVARIANTS
  TypeOK
  IndexWords
  NoDangling
