SPECIFICATION Spec
CONSTANTS
    Order <- MCOrder
    Ingesters = {"w1", "w2", "w3", "w4"}
    KeyOf <- MCKeyOf
    HasSkewWait = TRUE
    NoKey = "none"
    Callers = {"c1", "c2", "c3"}
    FailureThreshold = 2
    SuccessThreshold = 2
    FailureBound = 3
    Addrs = {"a1", "a2", "a3"}
    Managed = {"a1"}
    HashOf <- MCHashOf
    BloomBits = 6
    BloomHashes = 2
    ShardOf <- MCShardOf
    PerShard = 2
    TTL = 1
    Chains = {"sol", "base"}
    Senders <- MCSenders
    Channels <- MCChannels
    UnhealthyThreshold = 2
    Cooldown = 2
    Wallets <- MCWallets
    Tokens = {"native", "usdc"}
    Native = "native"
    Slots <- MCSlots
    MaxAmount = 1
    MaxMoves = 1
    MaxTouched = 2
    WindowSize = 3
    Latencies = {5, 40}
INVARIANTS
    OneHolder
    CountsMeetState
    AnswersRecent
    VerdictSound
    WindowsExact
PROPERTIES
    PreferredFirst
    TurnServed
    Recovers
    FailureKeepsAlerting
