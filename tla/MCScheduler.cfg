SPECIFICATION FairSpec
CONSTANTS
    WorkerCount = 2
    MaxSlices = 3
    Capacity = 2
    NoJob = noJob
    FrameThread = frameThread
    NoThread = noThread
INVARIANTS
    SchedulerInv
    NoStrandedJob
PROPERTIES
    NoWildStealInService
    ImplementsDispatch
    UsesLatch
    HangsOnlyByOversleeping
CHECK_DEADLOCK FALSE
