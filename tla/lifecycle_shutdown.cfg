SPECIFICATION FairSpec
CONSTANTS
    Replays = {}
    ReplayFrom <- MCReplayFrom
    Addresses = {}
    BackfillBlocks <- MCBackfillBlocks
    BatchSize = 2
    MaxBlock = 2
    MaxFailures = 0
    MaxDBFailures = 0
    MaxBackfills = 0
    MaxConfigs = 1
    UnhealthyThreshold = 2
PROPERTY ShutdownReturns
CHECK_DEADLOCK FALSE
