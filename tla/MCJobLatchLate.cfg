SPECIFICATION Spec
CONSTANTS
    Workers = {w1, w2}
    Owner = owner
    NoThread = none
    MaxJobs = 2
SYMMETRY Symmetry
INVARIANTS
    NoLateSignaller
CHECK_DEADLOCK FALSE
