CONSTANTS
    e1 = e1
    e2 = e2
    Emails = {e1, e2}
    MaxRuns = 1
SPECIFICATION Spec
INVARIANTS
    AllPairedInserted
CHECK_DEADLOCK FALSE
