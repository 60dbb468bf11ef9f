\* Jobs are split into sub-batches.
CONSTANTS
    Sigs <- MCSplitSigs
    BlockOf <- MCBlockOf
    InitChain <- MCSplitSigs
    Undecodable = {}
    MaxBlock = 4
    InitHead = 2
    InitWatermark = 1
    BatchSizes = {2}
    Lookback = 1
    MaxBatchTxs = 1
    JobCap = 1
    RawCap = 1
    NormCap = 1
    ReorgCap = 1
    Hashed = {}
    f1 = f1
    f2 = f2
    n1 = n1
    n2 = n2
    Fetchers = {f1, f2}
    Normalizers = {n1, n2}
    MaxRestarts = 2
    MaxReorgs = 0
SPECIFICATION Spec
INVARIANT NoGap
CHECK_DEADLOCK FALSE
