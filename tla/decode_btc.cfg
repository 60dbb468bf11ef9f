SPECIFICATION Spec
CONSTANTS
  Txs <- MCTxs
  Chains = {"btc"}
  Addresses = {1, 2}
  MaxDecodes = 1
INVARIANT BalanceExact
CHECK_DEADLOCK FALSE
