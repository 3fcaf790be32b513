CONSTANTS
    Threads = {t1, t2, t3}
    Values = {a, b}
    Capacity = 2
    MaxTicket = 3
    NoValue = NoValue
SPECIFICATION RingSpec
SYMMETRY Symmetry
INVARIANTS
    RingInv
    NoSlotRace
    AnswersAreHonest
PROPERTY ImplementsFifo
