--------------------------- MODULE Reconciliation ---------------------------
(***************************************************************************)
(* The comparison of on-chain and stored balances                          *)
(* (internal/reconciliation/service.go): one pass over the active          *)
(* addresses and their balance rows, each row compared at its own moment,  *)
(* while the chain moves and the ingester commits.                         *)
(***************************************************************************)
EXTENDS Integers, FiniteSets, Sequences

CONSTANTS
    Wallets,        \* active watched addresses, in the order GetActive lists them
    Tokens,         \* token ids; Native has the empty contract address
    Native,
    Slots,          \* the balances the addresses can have: address, token, type
    MaxAmount,      \* bound: balances
    MaxMoves,       \* bound: transactions on the chain
    MaxTouched      \* bound: balances one transaction changes

WalletSet == {Wallets[i] : i \in DOMAIN Wallets}

\* The balances table has one row for each address, token and balance type.
Kinds == {"liquid", "staked"}
Liquid(w, t) == [wallet |-> w, token |-> t, kind |-> "liquid"]

\* GetActive lists an address once.
ASSUME ReconcileConstants ==
    /\ Wallets \in Seq(WalletSet)
    /\ \A i, j \in DOMAIN Wallets : Wallets[i] = Wallets[j] => i = j
    /\ Native \in Tokens
    /\ MaxAmount \in Nat /\ MaxMoves \in Nat /\ MaxTouched \in Nat

\* An address has a native balance, and a liquid one of each token it has staked.
ASSUME SlotsAssumption ==
    /\ Slots \subseteq [wallet : WalletSet, token : Tokens, kind : Kinds] /\ IsFiniteSet(Slots)
    /\ \A w \in WalletSet : Liquid(w, Native) \in Slots
    /\ \A s \in Slots : Liquid(s.wallet, s.token) \in Slots

NoRow == -1

VARIABLES
    chainBal,       \* [Slots -> Nat]: what the chain holds now
    dbBal,          \* [Slots -> Nat or NoRow]: the balances table now
    pos,            \* index of the address at hand; 0 when no pass runs
    todo,           \* balance rows read for it (GetByAddress), not compared yet
    contracts,      \* tokenContractCache: the tokens looked up so far
    result,         \* counts of the pass: total, matched, mismatched, errors
    alerted,        \* the pass sent its alert
    saved,          \* snapshots persisted by the last pass, or -1
    moves,          \* transactions on the chain so far
    faults,         \* history: an RPC or a token lookup failed in this pass
    diverged,       \* history: slots that stood wrong since the pass began
    suspect         \* history: slots that were ever wrong since the pass began

historyVars == <<diverged, suspect>>
reconVars == <<chainBal, dbBal, pos, todo, contracts, result, alerted, saved, moves, faults, historyVars>>

\* GetBalance knows the address and the token, not the balance type.
GetBalance(s) == chainBal[Liquid(s.wallet, s.token)]

\* What a pass takes the table to say: a missing row is 0, and only a native
\* balance is asked for without one.
Stored(s) == IF dbBal[s] = NoRow THEN 0 ELSE dbBal[s]
Asked == {s \in Slots : dbBal[s] # NoRow \/ s = Liquid(s.wallet, Native)}
Wrong == {s \in Asked : Stored(s) # GetBalance(s)}

\* The slots a reading of an address's rows would list.
Shown == {s \in Asked : dbBal[s] # NoRow \/ \A r \in Slots : r.wallet = s.wallet => dbBal[r] = NoRow}

Zero == [total |-> 0, matched |-> 0, mismatched |-> 0, errors |-> 0]

ReconInit ==
    /\ chainBal \in [Slots -> 0..MaxAmount]
    /\ dbBal = [s \in Slots |-> IF chainBal[s] = 0 THEN NoRow ELSE chainBal[s]]
    /\ pos = 0 /\ todo = {} /\ contracts = {} /\ result = Zero
    /\ alerted = FALSE /\ saved = -1 /\ moves = 0 /\ faults = FALSE
    /\ diverged = {} /\ suspect = {}

\* A transaction changes balances; the ingester stores them later.
Transfer(now) ==
    /\ moves < MaxMoves
    /\ Cardinality({s \in Slots : now[s] # chainBal[s]}) \in 1..MaxTouched
    /\ chainBal' = now
    /\ moves' = moves + 1
    /\ UNCHANGED <<dbBal, pos, todo, contracts, result, alerted, saved, faults>>
    /\ suspect' = suspect \cup Wrong' /\ diverged' = diverged \cap Wrong'

\* A batch stores some of the balances that have changed, in one transaction.
Ingest(stored) ==
    /\ stored # {} /\ \A s \in stored : Stored(s) # chainBal[s]
    /\ dbBal' = [s \in Slots |-> IF s \in stored THEN chainBal[s] ELSE dbBal[s]]
    /\ UNCHANGED <<chainBal, pos, todo, contracts, result, alerted, saved, moves, faults>>
    /\ suspect' = suspect \cup Wrong'
    /\ diverged' = (diverged \ stored) \cap Wrong' \cap Shown'

\* Reconcile: a new result, and the addresses.
ReconBegin ==
    /\ pos = 0
    /\ pos' = 1 /\ result' = Zero /\ contracts' = {} /\ alerted' = FALSE
    /\ saved' = -1 /\ faults' = FALSE /\ todo' = {}
    /\ diverged' = Wrong \cap Shown /\ suspect' = Wrong
    /\ UNCHANGED <<chainBal, dbBal, moves>>

\* The rows compared for an address: its balances of every type, or the native
\* token as zero.
RowsOf(w) == {[slot |-> s, amount |-> dbBal[s], listed |-> TRUE] :
                  s \in {r \in Slots : r.wallet = w /\ dbBal[r] # NoRow}}
ToCompare(w) == IF RowsOf(w) = {} THEN {[slot |-> Liquid(w, Native), amount |-> 0, listed |-> FALSE]}
                ELSE RowsOf(w)

\* GetByAddress; on an error the address is counted and skipped.
ReadBalances ==
    /\ pos \in DOMAIN Wallets /\ todo = {}
    /\ \/ /\ todo' = ToCompare(Wallets[pos]) /\ UNCHANGED <<pos, result, faults>>
       \/ /\ result' = [result EXCEPT !.errors = @ + 1]
          /\ pos' = pos + 1 /\ faults' = TRUE /\ UNCHANGED todo
    /\ UNCHANGED <<chainBal, dbBal, contracts, alerted, saved, moves, historyVars>>

Count(ok) ==
    [total |-> result.total + 1, errors |-> result.errors,
     matched |-> result.matched + (IF ok THEN 1 ELSE 0),
     mismatched |-> result.mismatched + (IF ok THEN 0 ELSE 1)]

\* Mutant: only one row of an address is compared.
CompareFirst(row, found, answered) ==
    LET token == IF found THEN row.slot.token ELSE Native
        ok == answered /\ chainBal[Liquid(Wallets[pos], token)] = row.amount
    IN  /\ pos \in DOMAIN Wallets /\ row \in todo
        /\ result' = Count(ok)
        /\ contracts' = IF found THEN contracts \cup {token} ELSE contracts
        /\ faults' = (faults \/ ~found \/ ~answered)
        /\ todo' = {}
        /\ pos' = pos + 1
        /\ UNCHANGED <<chainBal, dbBal, alerted, saved, moves, historyVars>>

\* findTokenContract and reconcileOne.  A token that is not found is compared
\* as the native one; an RPC error counts as a mismatch.
CompareOne(row, found, answered) ==
    LET token == IF found THEN row.slot.token ELSE Native
        ok == answered /\ chainBal[Liquid(Wallets[pos], token)] = row.amount
    IN  /\ pos \in DOMAIN Wallets /\ row \in todo
        /\ row.slot.token \in contracts \/ ~row.listed => found
        /\ result' = Count(ok)
        /\ contracts' = IF found /\ row.listed THEN contracts \cup {token} ELSE contracts
        /\ faults' = (faults \/ ~found \/ ~answered)
        /\ todo' = todo \ {row}
        /\ pos' = IF todo' = {} THEN pos + 1 ELSE pos
        /\ UNCHANGED <<chainBal, dbBal, alerted, saved, moves, historyVars>>

\* The alert, then the snapshots in one transaction that may fail.
ReconFinish ==
    /\ pos = Len(Wallets) + 1
    /\ pos' = 0
    /\ alerted' = (result.mismatched > 0)
    /\ saved' \in {-1, result.total}
    /\ UNCHANGED <<chainBal, dbBal, todo, contracts, result, moves, faults, historyVars>>

ReconNext ==
    \/ ReconBegin \/ ReadBalances \/ ReconFinish
    \/ \E stored \in SUBSET Slots : Ingest(stored)
    \/ \E now \in [Slots -> 0..MaxAmount] : Transfer(now)
    \/ \E row \in todo, found, answered \in BOOLEAN : CompareOne(row, found, answered)

ReconSpec == ReconInit /\ [][ReconNext]_reconVars
-----------------------------------------------------------------------------
\* A pass without a failed call tells right from wrong although each row is
\* compared at its own moment, with an amount read earlier: every mismatch it
\* counts is a row that differed from GetBalance's answer at some moment of the
\* pass, it alerts only if there was one, and it counts every row that stood
\* wrong from its beginning to its end, whatever the ingester and the chain do
\* meanwhile (Reconcile, reconcileOne).
VerdictSound ==
    ~faults /\ result.errors = 0 =>
        /\ result.mismatched <= Cardinality(suspect) /\ (alerted => suspect # {})
        /\ pos = Len(Wallets) + 1 => Cardinality(diverged) <= result.mismatched

\* What one expects of an alert and the code does not meet: all is stored right
\* initially, so that only a transaction can make a balance differ.  GetByAddress
\* lists staked rows too, and each is compared with the liquid balance.
AlertNeedsTransfer == alerted /\ ~faults => moves > 0
=============================================================================
