------------------------ MODULE MCTransactionDecoding ------------------------
EXTENDS TransactionDecoding

CONSTANTS Chains

\* Value transfers of 3 and at most two logs of amounts 1 and 2 among the zero
\* address and two others, or of amount 0.
EvmLogs ==
  LET Log(v) == {[from |-> f, to |-> t, value |-> v] : f, t \in {1, 2, ZeroAddress}}
                  \ {[from |-> ZeroAddress, to |-> ZeroAddress, value |-> v]}
  IN {<<>>} \cup {<<l>> : l \in Log(0) \cup Log(1)} \cup {<<l, m>> : l \in Log(1), m \in Log(2)}

EvmTxs(chain) ==
  LET Tx(to, value, status, l1, logs) ==
        [chain |-> chain, from |-> 1, to |-> to, value |-> value, status |-> status,
         exec |-> 4, l1 |-> l1, logs |-> logs]
      DataFees == IF chain = "base" THEN {0, 5} ELSE {0}
  IN { Tx(to, v, "SUCCESS", d, l) :
       to \in {NoAddr, 1, 2}, v \in {0, 3}, d \in DataFees, l \in EvmLogs } \cup
     { Tx(to, v, "FAILED", d, <<>>) : to \in {1, 2}, v \in {0, 3}, d \in DataFees }

\* Transfers, mints and burns of the system and token programs, alone or
\* called by a program no plugin knows.
SolanaMoves(v) ==
  LET Ix(p, k, f, t) == [prog |-> p, kind |-> k, from |-> f, to |-> t,
                         amount |-> v, inner |-> <<>>]
  IN { Ix(p, "transfer", f, t) : p \in {"system", "spl"}, f, t \in {1, 2} } \cup
     { Ix("spl", k, 1, 2) : k \in {"mint", "burn"} }

SolanaTxs ==
  LET Call(inner) == [prog |-> "other", kind |-> "call", from |-> NoAddr, to |-> NoAddr,
                      amount |-> 0, inner |-> inner]
      Tx(status, ixs) == [chain |-> "solana", payer |-> 1, fee |-> 7, status |-> status,
                          ixs |-> ixs]
  IN { Tx("SUCCESS", <<Call(<<m, n>>)>>) : m \in SolanaMoves(1), n \in SolanaMoves(2) } \cup
     { Tx("SUCCESS", <<m, Call(<<n>>)>>) : m \in SolanaMoves(1), n \in SolanaMoves(2) } \cup
     { Tx(s, <<m>>) : s \in {"SUCCESS", "FAILED"}, m \in SolanaMoves(1) }

\* One or two inputs, some without an address, one or two outputs, a fee of zero
\* or more.
BtcTxs ==
  LET Coin(a, v) == [addr |-> a, value |-> v]
      Vins == {<<Coin(a, 6)>> : a \in {NoAddr, 1, 2}} \cup
              {<<Coin(a, 2), Coin(b, 4)>> : a \in {NoAddr, 1, 2}, b \in {1, 2}} \cup {<<>>}
      Vouts == {<<Coin(a, 3)>> : a \in {1, 2}} \cup
               {<<Coin(a, 1), Coin(b, v)>> : a, b \in {1, 2}, v \in {4, 5}}
  IN { [chain |-> "btc", vin |-> i, vout |-> o] : i \in Vins, o \in Vouts }

MCTxs ==
  { t \in EvmTxs("ethereum") \cup EvmTxs("base") : t.chain \in Chains } \cup
  { t \in SolanaTxs : t.chain \in Chains } \cup { t \in BtcTxs : t.chain \in Chains }
=============================================================================
