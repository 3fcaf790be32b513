SPECIFICATION FairSpec
CONSTANTS
    Workers = {w1, w2, w3}
    Owner = owner
    NoThread = none
    MaxJobs = 2
INVARIANTS
    LatchInv
PROPERTIES
    WaitEnds
CHECK_DEADLOCK FALSE
