\* Two instances of the Db.js transaction section share one environment;
\* either may die once and rerun.  An ack fails only in a
\* run another instance disturbed (SoloAcks).  The script ends, so the system really
\* stops: a stuck lock wait shows up as a violation of AllFinish.
CONSTANTS
    Clients = {c1, c2}
    Foo = Foo
    Bar = Bar
    NoValue = NoValue
    NoWrite = NoWrite
    NoClient = NoClient
    NotFound = NotFound
    DeadlockOrBusy = DeadlockOrBusy
    NotPositioned = NotPositioned
    MaxCrashes = 1
SPECIFICATION Spec
CHECK_DEADLOCK FALSE
INVARIANTS
    TypeOK
    CursorStability
    SoloAcks
PROPERTIES
    AllFinish
    AtomicCommit
