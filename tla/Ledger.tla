------------------------------ MODULE Ledger ------------------------------
(***************************************************************************)
(* The tables the Ingester keeps: balance_events (finality, balance_       *)
(* applied), balances (liquid and staked rows) and tokens.is_denied; the   *)
(* in-memory denied-token cache; and the Finalizer that drives promotion   *)
(* (internal/pipeline/ingester, finalizer, replay, store/postgres).        *)
(*                                                                         *)
(* Every database transaction is one step.  A batch is the list of balance *)
(* events of a range of blocks; which batches arrive, and in which order,  *)
(* is IndexingPipeline's subject: here any range may come at any time, as  *)
(* its parallel workers, replays and overlapping jobs make possible.       *)
(***************************************************************************)
EXTENDS Integers, Sequences, FiniteSets, FiniteSetsExt

CONSTANTS
    Events,           \* event ids, numbered in batch order
    Info,             \* Events -> [account, delta, block, staking, fee, scam]
    Accounts,         \* (address, token) pairs of watched addresses
    TokenOf,          \* Accounts -> token contract
    Native,           \* the tokens of type NATIVE
    Gated,            \* the chain gates balances on finality (not Solana)
    ScamChecked,      \* the chain's tokens are checked for scams (not BTC)
    Finalities,       \* finality states decoded transactions carry
    MaxBlock,         \* bound: the highest block
    MaxIngests,       \* bound: batches committed
    MaxFaults,        \* bound: transactions the database rolls back
    FinalityCap       \* capacity of finalityCh

VARIABLES
    rows,             \* balance_events: event id -> [finality, applied]
    balances,         \* balances: <<account, balance_type>> -> amount
    deniedTokens,     \* tokens with is_denied
    deniedCache,      \* Ingester.deniedCache: token -> BOOLEAN
    chainFinalized,   \* the chain's finalized block number
    lastFinalized,    \* Finalizer.lastFinalized
    finalityCh,       \* promotions on their way to the Ingester
    ingests, faults,  \* counters the bounds apply to
    drifted           \* history: rows a statement gave an inexact amount

dbVars == <<rows, balances, deniedTokens>>
finalizerVars == <<chainFinalized, lastFinalized, finalityCh>>
vars == <<dbVars, deniedCache, finalizerVars, ingests, faults, drifted>>

ASSUME LedgerAssumption ==
    /\ Events \subseteq Nat /\ IsFiniteSet(Events)
    /\ \A e \in Events : /\ Info[e].block \in 1..MaxBlock /\ Info[e].account \in Accounts
                         /\ Info[e].delta \in Int
    /\ MaxBlock \in Nat /\ FinalityCap \in Nat
    /\ Finalities \subseteq {"processed", "confirmed", "safe", "finalized"}

Tokens == {TokenOf[a] : a \in Accounts}
Token(e) == TokenOf[Info[e].account]
Liquid(e) == <<Info[e].account, "">>
Staked(e) == <<Info[e].account, "staked">>
BalanceRows == Accounts \X {"", "staked"}

(***************************************************************************)
(* Finality: Go's rank (the balance gate) and SQL's rank (the upsert) give *)
(* different ranks to "" and to "processed".                               *)
(***************************************************************************)
finalityStateRank(f) ==
    CASE f = "processed" -> 1 [] f = "confirmed" -> 2 [] f = "safe" -> 3
      [] f \in {"finalized", ""} -> 4

finality_rank(f) ==
    CASE f = "finalized" -> 4 [] f = "safe" -> 3 [] f = "confirmed" -> 2
      [] f \in {"processed", ""} -> 0

\* The state an event of a batch decoded at finality f has: the synthetic fee
\* event of a failed transaction has none.
FinalityOf(e, f) == IF Info[e].fee THEN "" ELSE f

meetsBalanceThreshold(e, f) ==
    /\ ~Gated \/ finalityStateRank(FinalityOf(e, f)) >= 2
    /\ Token(e) \in Native \/ Info[e].delta # 0

detectScamSignal(e, balanceExists) ==
    /\ ScamChecked /\ Token(e) \notin Native
    /\ Info[e].scam \/ (Info[e].delta < 0 /\ ~balanceExists)

(***************************************************************************)
(* BulkAdjustBalanceTx.  An item is [row, delta, of].  Where a row exists, *)
(* UPDATE ... FROM uses ONE of the items that match it; where it does not, *)
(* every item is inserted, and two of them violate uq_balance.             *)
(***************************************************************************)
RowsOf(items) == {i.row : i \in items}

Repeated(items) == {r \in RowsOf(items) : \E i, j \in items : i # j /\ i.row = r /\ j.row = r}

UniqueViolation(bal, items) == Repeated(items) \ DOMAIN bal # {}

BulkAdjustBalance(bal, items) ==
    LET picks == {p \in [RowsOf(items) -> items] : \A r \in RowsOf(items) : p[r].row = r}
        Amount(r) == IF r \in DOMAIN bal THEN bal[r] ELSE 0
    IN  {[r \in DOMAIN bal \cup RowsOf(items) |->
             IF r \in RowsOf(items) THEN Amount(r) + p[r].delta ELSE bal[r]] : p \in picks}

SumOf(S, sign) == SumFunctionOnSet([e \in Events |-> sign * Info[e].delta], S)

\* One item per event, as purges and promotions build them; one item per row, as
\* the batch's aggregatedDeltas are.
LiquidItems(S, sign) == {[row |-> Liquid(e), delta |-> sign * Info[e].delta, of |-> e] : e \in S}
StakedItems(S, sign) ==
    {[row |-> Staked(e), delta |-> -sign * Info[e].delta, of |-> e] :
        e \in {x \in S : Info[x].staking}}
Aggregated(items) ==
    LET delta == [i \in items |-> i.delta]
    IN  {[row |-> r, delta |-> SumFunctionOnSet(delta, {i \in items : i.row = r}), of |-> 0] :
            r \in RowsOf(items)}

(***************************************************************************)
(* processBatch                                                            *)
(***************************************************************************)
\* The batch of blocks a..b: collectEvents lists its events in order.
Batch(a, b) == {e \in Events : Info[e].block \in a..b}

\* prefetchBulkData: the cached answer, or the one in the tokens table, which is
\* then cached.
cachedDenied(S) ==
    {t \in {Token(e) : e \in S} : IF t \in DOMAIN deniedCache THEN deniedCache[t]
                                                             ELSE t \in deniedTokens}

Prefetched(S, denied) ==
    [t \in DOMAIN deniedCache \cup {Token(e) : e \in S} |->
        IF t \in DOMAIN deniedCache THEN deniedCache[t] ELSE t \in denied]

\* One event of buildEventModels: those of a denied token are skipped; a scam signal
\* denies the token from here on; the others become models, and the balances they
\* are applied to exist for the events that follow.
BuildModel(S, f, e, acc) ==
    LET exists == \/ Liquid(e) \in DOMAIN balances
                  \/ \E m \in acc.models : Liquid(m) = Liquid(e) /\ meetsBalanceThreshold(m, f)
    IN  IF Token(e) \in cachedDenied(S) \cup acc.scam THEN acc
        ELSE IF detectScamSignal(e, exists)
             THEN [scam |-> acc.scam \cup {Token(e)}, models |-> acc.models]
             ELSE [scam |-> acc.scam, models |-> acc.models \cup {e}]

\* The events of the batch in order: the last one comes last.
buildEventModels(S, f) ==
    MapThenFoldSet(LAMBDA e, acc : BuildModel(S, f, e, acc), [scam |-> {}, models |-> {}],
                   LAMBDA e : e, Max, S)

\* Mutant: a token denied by the scam check is not cached.
ScamNotCached(S, built) == Prefetched(S, cachedDenied(S))

\* The cache after buildEventModels: deniedCache.Put runs before the commit.
CacheAfter(S, built) ==
    [t \in DOMAIN Prefetched(S, cachedDenied(S)) |->
        t \in built.scam \/ Prefetched(S, cachedDenied(S))[t]]

\* Mutant: a lower finality overwrites a higher one.
UpsertAlways(models, f) ==
    [e \in DOMAIN rows \cup models |->
        IF e \in models
        THEN [finality |-> FinalityOf(e, f), applied |-> meetsBalanceThreshold(e, f)]
        ELSE rows[e]]

\* BulkUpsertTx: ON CONFLICT (event_id) DO UPDATE ... WHERE rank(new) >= rank(old)
BulkUpsert(models, f) ==
    [e \in DOMAIN rows \cup models |->
        LET new == [finality |-> FinalityOf(e, f), applied |-> meetsBalanceThreshold(e, f)]
        IN  IF e \notin models THEN rows[e]
            ELSE IF e \notin DOMAIN rows THEN new
            ELSE IF finality_rank(new.finality) >= finality_rank(rows[e].finality)
                 THEN [new EXCEPT !.applied = @ \/ rows[e].applied]
                 ELSE rows[e]]

\* One transaction: upsert the events, apply the aggregated deltas of the applied
\* models (whether their row was inserted or not), commit.
processBatch(a, b, f) ==
    LET S == Batch(a, b)
        built == buildEventModels(S, f)
        credited == {e \in built.models : meetsBalanceThreshold(e, f)}
        items == Aggregated(LiquidItems(credited, 1) \cup StakedItems(credited, 1))
        again == {e \in credited \cap DOMAIN rows : rows[e].applied}
    IN  /\ ingests < MaxIngests
        /\ ingests' = ingests + 1
        /\ rows' = BulkUpsert(built.models, f)
        /\ balances' \in BulkAdjustBalance(balances, items)
        /\ deniedTokens' = deniedTokens \cup built.scam
        /\ deniedCache' = CacheAfter(S, built)
        /\ drifted' = drifted \cup RowsOf(LiquidItems(again, 1) \cup StakedItems(again, 1))
        /\ UNCHANGED <<finalizerVars, faults>>

\* The same transaction when a statement or the commit fails: deferred Rollback.
\* processBatchWithRetry tries again; what the cache learned stays.
RolledBackBatch(a, b, f) ==
    /\ faults < MaxFaults
    /\ faults' = faults + 1
    /\ deniedCache' = CacheAfter(Batch(a, b), buildEventModels(Batch(a, b), f))
    /\ UNCHANGED <<dbVars, finalizerVars, ingests, drifted>>

\* TTL expiry or eviction of the LRU.
Evict(t) ==
    /\ t \in DOMAIN deniedCache
    /\ deniedCache' = [u \in DOMAIN deniedCache \ {t} |-> deniedCache[u]]
    /\ UNCHANGED <<dbVars, finalizerVars, ingests, faults, drifted>>

(***************************************************************************)
(* Reversal: PurgeFromBlock, handleReorg                                   *)
(***************************************************************************)
\* Mutant: events that were never applied are reversed too.
ReversesAll(b) == {e \in DOMAIN rows : Info[e].block >= b}

Reversed(b) == {e \in DOMAIN rows : Info[e].block >= b /\ rows[e].applied}

\* Liquid rows and staked rows are adjusted by two statements, one item per event.
\* (A purge of an empty table is a stuttering step.)
Purge(b) ==
    LET liquid == LiquidItems(Reversed(b), -1)
        staked == StakedItems(Reversed(b), -1)
    IN  /\ DOMAIN rows # {}
        /\ ~UniqueViolation(balances, liquid \cup staked)
        /\ \E reverted \in BulkAdjustBalance(balances, liquid) :
              balances' \in BulkAdjustBalance(reverted, staked)
        /\ rows' = [e \in {x \in DOMAIN rows : Info[x].block < b} |-> rows[e]]
        /\ drifted' = drifted \cup Repeated(liquid \cup staked)
        /\ UNCHANGED <<deniedTokens, deniedCache, finalizerVars, ingests, faults>>

(***************************************************************************)
(* Promotion: Finalizer.check, handleFinalityPromotion                     *)
(***************************************************************************)
\* The chain finalizes another block.
ChainFinalizes ==
    /\ chainFinalized < MaxBlock
    /\ chainFinalized' = chainFinalized + 1
    /\ UNCHANGED <<dbVars, deniedCache, lastFinalized, finalityCh, ingests, faults, drifted>>

\* Mutant: the tick promotes one block too many.
FinalizerOffByOne ==
    /\ chainFinalized > lastFinalized
    /\ Len(finalityCh) < FinalityCap
    /\ finalityCh' = Append(finalityCh, chainFinalized + 1)
    /\ lastFinalized' = chainFinalized
    /\ UNCHANGED <<dbVars, deniedCache, chainFinalized, ingests, faults, drifted>>

FinalizerCheck ==
    /\ chainFinalized > lastFinalized
    /\ Len(finalityCh) < FinalityCap
    /\ finalityCh' = Append(finalityCh, chainFinalized)
    /\ lastFinalized' = chainFinalized
    /\ UNCHANGED <<dbVars, deniedCache, chainFinalized, ingests, faults, drifted>>

\* promoteBalanceEvents, step 1 then step 2.
Finalized(b) ==
    [e \in DOMAIN rows |->
        IF Info[e].block <= b /\ rows[e].finality # ""
        THEN [rows[e] EXCEPT !.finality = "finalized"] ELSE rows[e]]

\* Mutant: the credit is computed before finality is raised.
PromotedBeforeStep1(b) ==
    {e \in DOMAIN rows : /\ Info[e].block <= b
                         /\ ~rows[e].applied /\ rows[e].finality = "finalized"}

Promoted(b) ==
    {e \in DOMAIN rows : /\ Info[e].block <= b
                         /\ ~rows[e].applied /\ Finalized(b)[e].finality = "finalized"}

PromotionItems(b) == LiquidItems(Promoted(b), 1) \cup StakedItems(Promoted(b), 1)

handleFinalityPromotion ==
    LET b == Head(finalityCh)
    IN  /\ finalityCh # <<>>
        /\ ~UniqueViolation(balances, PromotionItems(b))
        /\ finalityCh' = Tail(finalityCh)
        /\ rows' = [e \in DOMAIN rows |->
                       [Finalized(b)[e] EXCEPT !.applied = @ \/ e \in Promoted(b)]]
        /\ balances' \in BulkAdjustBalance(balances, PromotionItems(b))
        /\ drifted' = drifted \cup Repeated(PromotionItems(b))
        /\ UNCHANGED <<deniedTokens, deniedCache, chainFinalized, lastFinalized, ingests, faults>>

\* A failed pipeline is rebuilt: new channels, a new Finalizer, a new cache.
NewPipeline ==
    /\ finalityCh' = <<>>
    /\ lastFinalized' = 0
    /\ deniedCache' = <<>>
    /\ UNCHANGED <<dbVars, chainFinalized, ingests, drifted>>

\* The promotion's INSERT violates uq_balance: rolled back, the Ingester returns
\* the error and the pipeline restarts.
PromotionFails ==
    /\ finalityCh # <<>>
    /\ UniqueViolation(balances, PromotionItems(Head(finalityCh)))
    /\ UNCHANGED faults
    /\ NewPipeline

\* Any other fatal error of a stage.
Restart ==
    /\ faults < MaxFaults
    /\ faults' = faults + 1
    /\ NewPipeline

Init ==
    /\ rows = <<>> /\ balances = <<>>
    /\ deniedTokens = {} /\ deniedCache = <<>>
    /\ chainFinalized = 0 /\ lastFinalized = 0 /\ finalityCh = <<>>
    /\ ingests = 0 /\ faults = 0 /\ drifted = {}

Ingest ==
    \E a, b \in 1..MaxBlock, f \in Finalities :
        /\ Batch(a, b) # {}
        /\ processBatch(a, b, f) \/ RolledBackBatch(a, b, f)

Promotion == FinalizerCheck \/ handleFinalityPromotion \/ PromotionFails

Next ==
    \/ Ingest
    \/ \E t \in Tokens : Evict(t)
    \/ \E b \in 1..MaxBlock : Purge(b)
    \/ ChainFinalizes
    \/ Promotion
    \/ Restart

Spec == Init /\ [][Next]_vars

\* Batches of blocks never ingested before, no purge: what promotion alone does.
FreshIngest ==
    \E a, b \in 1..MaxBlock, f \in Finalities :
        /\ Batch(a, b) # {} /\ Batch(a, b) \cap DOMAIN rows = {}
        /\ processBatch(a, b, f)

\* The Finalizer's ticker and the Ingester's select keep running.
FairSpecPromotion ==
    /\ Init /\ [][FreshIngest \/ ChainFinalizes \/ Promotion]_vars
    /\ WF_vars(FinalizerCheck) /\ WF_vars(handleFinalityPromotion) /\ WF_vars(PromotionFails)

\* Fresh batches and purges.
SpecPurge == Init /\ [][FreshIngest \/ \E b \in 1..MaxBlock : Purge(b)]_vars

(***************************************************************************)
(* Properties                                                              *)
(***************************************************************************)
\* Every variable has its type; a cached or denied token is a known one.
TypeOK ==
    /\ DOMAIN rows \subseteq Events
    /\ \A e \in DOMAIN rows : rows[e] \in [finality : Finalities \cup {"", "finalized"}, applied : BOOLEAN]
    /\ DOMAIN balances \subseteq BalanceRows /\ \A r \in DOMAIN balances : balances[r] \in Int
    /\ deniedTokens \subseteq Tokens /\ DOMAIN deniedCache \subseteq Tokens
    /\ chainFinalized \in 0..MaxBlock /\ lastFinalized \in 0..chainFinalized
    /\ \A i \in DOMAIN finalityCh : finalityCh[i] \in 1..chainFinalized
    /\ Len(finalityCh) <= FinalityCap
    /\ drifted \subseteq BalanceRows

Applied(a) == {e \in DOMAIN rows : rows[e].applied /\ Info[e].account = a}

Expected(r) ==
    IF r[2] = "" THEN SumOf(Applied(r[1]), 1)
                 ELSE SumOf({e \in Applied(r[1]) : Info[e].staking}, -1)

\* A balances row is the sum of the applied events that are stored, through any mix
\* of ingest, finality upgrade, promotion, purge and re-ingest, except where one
\* of two known statements ran: an applied event credited again (BulkAdjust
\* after a conflicting upsert), or two items of one row in one BulkAdjust.
BalancesExact == \A r \in DOMAIN balances \ drifted : balances[r] = Expected(r)

\* A finalized event counts in the balances, unless it moves nothing: neither the
\* upsert nor the promotion raises finality without balance_applied.
FinalizedIsApplied ==
    \A e \in DOMAIN rows :
        rows[e].finality = "finalized" => rows[e].applied \/ Info[e].delta = 0

\* While an event stays stored it never loses finality and is never un-applied,
\* whatever order weaker and stronger decodings of it arrive in.
FinalityMonotone ==
    [][\A e \in DOMAIN rows \cap DOMAIN rows' :
          /\ finality_rank(rows'[e].finality) >= finality_rank(rows[e].finality)
          /\ rows[e].applied => rows'[e].applied]_vars

\* Once tokens.is_denied is set no further event of the token is stored: neither a
\* stale "allowed" answer in the cache nor a restart lets one through.
DeniedStaysOut ==
    [][\A e \in DOMAIN rows' \ DOMAIN rows : Token(e) \notin deniedTokens]_vars

\* Every balances row is the sum of the applied events that are stored: PurgeFromBlock
\* reverts the deltas of what it deletes, a promotion applies the deltas of what
\* it finalizes.
BalancesAddUp == \A r \in DOMAIN balances : balances[r] = Expected(r)

\* An event under a queued promotion is eventually applied: the promotion commits, or
\* the pipeline restarts and sends it again until it does.
PromotionLands ==
    \A e \in Events :
        (e \in DOMAIN rows /\ \E i \in DOMAIN finalityCh : finalityCh[i] >= Info[e].block)
            ~> (e \in DOMAIN rows /\ rows[e].applied)
====
