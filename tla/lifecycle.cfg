SPECIFICATION FairSpec
CONSTANTS
    Replays = {"r1"}
    ReplayFrom <- MCReplayFrom
    Addresses = {"a1"}
    BackfillBlocks <- MCBackfillBlocks
    BatchSize = 2
    MaxBlock = 3
    MaxFailures = 1
    MaxDBFailures = 0
    MaxBackfills = 1
    MaxConfigs = 2
    UnhealthyThreshold = 1
INVARIANT TypeOK
PROPERTY PurgeExcludesWorkers
PROPERTY ReplayAnswered
 
PROPERTY DeactivationStops
PROPERTY ActiveShutdownReturns
CHECK_DEADLOCK FALSE
