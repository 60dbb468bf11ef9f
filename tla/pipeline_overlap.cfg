\* No failure at all.
CONSTANTS
    Sigs <- MCSigs
    BlockOf <- MCBlockOf
    InitChain <- MCSigs
    Undecodable <- MCUndecodable
    MaxBlock = 4
    InitHead = 2
    InitWatermark = 1
    BatchSizes = {2}
    Lookback = 1
    MaxBatchTxs = 4
    JobCap = 1
    RawCap = 1
    NormCap = 1
    ReorgCap = 1
    Hashed = {}
    f1 = f1
    f2 = f2
    n1 = n1
    n2 = n2
    Fetchers = {f1, f2}
    Normalizers = {n1, n2}
    MaxRestarts = 0
    MaxReorgs = 0
SPECIFICATION Spec
INVARIANT CreditedOnce
CHECK_DEADLOCK FALSE
