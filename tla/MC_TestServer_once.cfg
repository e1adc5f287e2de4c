CONSTANTS
    t1 = t1
    t2 = t2
    t3 = t3
    Tests <- MC_TwoTests
    NoTest = NoTest
SPECIFICATION Spec
INVARIANTS
    SingleServer
CHECK_DEADLOCK FALSE
