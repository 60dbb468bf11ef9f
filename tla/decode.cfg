SPECIFICATION Spec
CONSTANTS
  Txs <- MCTxs
  Chains = {"ethereum", "base", "solana", "btc"}
  Addresses = {1, 2, 99}
  MaxDecodes = 2
INVARIANTS
  NetExact
  UtxoMovesExact
  StoredExact
  FailedChargesOnce
CHECK_DEADLOCK FALSE
