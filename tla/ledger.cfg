SPECIFICATION Spec
CONSTANTS
    Events = {1, 2, 3, 4, 5}
    Info <- MCInfo
    Accounts <- MCAccounts
    TokenOf <- MCTokenOf
    Native = {"native"}
    Gated = TRUE
    ScamChecked = TRUE
    Finalities = {"processed", "confirmed", "finalized"}
    MaxBlock = 2
    MaxIngests = 2
    MaxFaults = 1
    FinalityCap = 4
INVARIANTS TypeOK BalancesExact FinalizedIsApplied
PROPERTIES FinalityMonotone DeniedStaysOut
CHECK_DEADLOCK FALSE
