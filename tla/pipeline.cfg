\* Two workers per stage, unsplit jobs, one failure or replay.
CONSTANTS
    Sigs <- MCSigs
    BlockOf <- MCBlockOf
    InitChain <- MCSigs
    Undecodable <- MCOpaque
    MaxBlock = 5
    InitHead = 2
    InitWatermark = 1
    BatchSizes = {2}
    Lookback = 0
    MaxBatchTxs = 4
    JobCap = 1
    RawCap = 1
    NormCap = 1
    ReorgCap = 1
    Hashed = {}
    f1 = f1
    f2 = f2
    n1 = n1
    n2 = n2
    Fetchers = {f1, f2}
    Normalizers = {n1, n2}
    MaxRestarts = 2
    MaxReorgs = 0
SPECIFICATION Spec
INVARIANTS TypeOK PipelineInv NoGap
PROPERTY ImplementsIndex
CHECK_DEADLOCK FALSE
