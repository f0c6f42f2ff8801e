SPECIFICATION FairSpec
CONSTANTS
    Packets <- Bundles
    MaxTime = 10
    MaxStarts = 2
CHECK_DEADLOCK FALSE
INVARIANTS JoinedOnce BundlesInOnePiece
PROPERTIES QueueIsScheduler StopReturns QueuedIsDispatched
