SPECIFICATION Spec
CONSTANTS
    MaxBlock = 5
    MaxReorgs = 1
    MaxRpcErrors = 1
    Busy <- BusyGap
    QueryLimit = 3
    MaxCheckDepth = 2
    ReorgCap = 1
    FinalityDepth = 2
    RetentionBlocks = 1
INVARIANT RowsBelowWatermark NoFalseAlarm
PROPERTY SettledRowsStay OldestOrphanReported
CHECK_DEADLOCK FALSE
