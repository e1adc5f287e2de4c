CONSTANTS
    t1 = t1
    t2 = t2
    t3 = t3
    Tests <- MC_Tests
    NoTest = NoTest
SPECIFICATION Spec
INVARIANTS
    TypeOK
    ContextConsistent
PROPERTIES
    StartTerminates
CHECK_DEADLOCK FALSE
