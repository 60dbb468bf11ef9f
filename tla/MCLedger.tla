----------------------------- MODULE MCLedger -----------------------------
(* Small instances of Ledger. *)
EXTENDS Ledger

Event(account, delta, block, kind) ==
    [account |-> account, delta |-> delta, block |-> block,
     staking |-> kind = "staking", fee |-> kind = "fee", scam |-> FALSE]

MCAccounts == {"wallet/native", "wallet/token"}
MCTokenOf == [a \in MCAccounts |-> IF a = "wallet/native" THEN "native" ELSE "token"]

\* A token deposit and a failed transaction's fee; then a native deposit, a stake
\* and a token withdrawal, which alone is a scam signal.
MCInfo == <<Event("wallet/token", 2, 1, "transfer"), Event("wallet/native", -1, 1, "fee"),
            Event("wallet/native", 4, 2, "transfer"), Event("wallet/native", -2, 2, "staking"),
            Event("wallet/token", -1, 2, "transfer")>>

\* Two deposits to one account.
MCSame == <<Event("wallet/native", 4, 1, "transfer"), Event("wallet/native", 3, 2, "transfer")>>
====
