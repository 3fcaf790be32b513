SPECIFICATION FairSpec
CONSTANTS
    WorkerCount = 1
    MaxSlices = 1
    Capacity = 2
    NoJob = noJob
    FrameThread = frameThread
    NoThread = noThread
PROPERTIES
    FrameReturns
CHECK_DEADLOCK FALSE
