---------------------------- MODULE Ledger_proofs ----------------------------
(***************************************************************************)
(* Proofs about the tables the Ingester keeps, for every set of events and *)
(* accounts and every bound: the finality of stored balance events, which  *)
(* events are stored at all, and that the balances are their sum.          *)
(***************************************************************************)
EXTENDS Ledger, FiniteSums

(***************************************************************************)
(* Finality.  The events a batch stores are any set here: what             *)
(* buildEventModels lets through does not matter.                          *)
(***************************************************************************)
States == {"", "processed", "confirmed", "safe", "finalized"}
RowType == [finality : States, applied : BOOLEAN]

RowsTyped == \A e \in DOMAIN rows : rows[e] \in RowType

\* A step of the database as the two properties see it: what becomes of a row
\* that was stored, and what a new row looks like.
Kept(e) ==
    /\ finality_rank(rows'[e].finality) >= finality_rank(rows[e].finality)
    /\ rows[e].applied => rows'[e].applied
Settled(row, e) == row.finality = "finalized" => row.applied \/ Info[e].delta = 0

\* finality_rank is a number for every state a row can have.
LEMMA RankType == \A f \in States : finality_rank(f) \in Nat
BY Zenon DEF States, finality_rank

\* The row a batch decoded at finality f brings.
NewRow(e, f) == [finality |-> FinalityOf(e, f), applied |-> meetsBalanceThreshold(e, f)]

\* A new row is finalized only if it is applied or moves nothing.
LEMMA NewRowSettled ==
    ASSUME NEW e, NEW f \in Finalities
    PROVE  NewRow(e, f) \in RowType /\ Settled(NewRow(e, f), e)
<1>1. f \in States
  BY LedgerAssumption, Zenon DEF States
<1>2. FinalityOf(e, f) \in States
  BY <1>1, Zenon DEF FinalityOf, States
<1>3. meetsBalanceThreshold(e, f) \in BOOLEAN
  BY Zenon DEF meetsBalanceThreshold
<1>4. FinalityOf(e, f) = "finalized" => meetsBalanceThreshold(e, f) \/ Info[e].delta = 0
  <2>1. finalityStateRank("finalized") = 4
    BY Zenon DEF finalityStateRank
  <2>2. finalityStateRank("finalized") >= 2
    BY <2>1
  <2> QED
    BY <2>2, Zenon DEF meetsBalanceThreshold
<1> QED
  BY <1>2, <1>3, <1>4, Zenon DEF NewRow, RowType, Settled

\* What one step does to the rows: a stored one is kept or goes, a new one is
\* settled.
RowsStep ==
    /\ \A e \in DOMAIN rows \cap DOMAIN rows' : Kept(e)
    /\ \A e \in DOMAIN rows' : rows'[e] \in RowType /\ Settled(rows'[e], e)

\* BulkUpsertTx keeps stored rows and settles new ones: a conflicting row only
\* gains finality, and one that becomes finalized is applied.
LEMMA UpsertStep ==
    ASSUME RowsTyped, FinalizedIsApplied, NEW models, NEW f \in Finalities,
           rows' = BulkUpsert(models, f)
    PROVE  RowsStep
<1>1. ASSUME NEW e \in DOMAIN rows'
      PROVE  rows'[e] \in RowType /\ Settled(rows'[e], e) /\ (e \in DOMAIN rows => Kept(e))
  <2> DEFINE new == NewRow(e, f)
             old == rows[e]
  <2>1. new \in RowType /\ Settled(new, e)
    BY NewRowSettled, Zenon
  <2>2. e \in DOMAIN rows => old \in RowType /\ Settled(old, e)
    BY Zenon DEF RowsTyped, FinalizedIsApplied, Settled
  <2>3. rows'[e] = IF e \notin models THEN old
                   ELSE IF e \notin DOMAIN rows THEN new
                   ELSE IF finality_rank(new.finality) >= finality_rank(old.finality)
                        THEN [new EXCEPT !.applied = @ \/ old.applied] ELSE old
    BY Zenon DEF BulkUpsert, NewRow
  <2>4. e \in DOMAIN rows \/ e \in models
    BY Zenon DEF BulkUpsert
  <2> HIDE DEF new, old
  <2>5. CASE rows'[e] = old /\ e \in DOMAIN rows
    <3>1. finality_rank(old.finality) \in Nat
      BY <2>2, <2>5, RankType, Zenon DEF RowType
    <3> QED
      BY <2>2, <2>5, <3>1 DEF Kept, old
  <2>6. CASE rows'[e] = new /\ e \notin DOMAIN rows
    BY <2>1, <2>6, Zenon
  <2>7. CASE /\ e \in DOMAIN rows /\ finality_rank(new.finality) >= finality_rank(old.finality)
             /\ rows'[e] = [new EXCEPT !.applied = @ \/ old.applied]
    <3>1. rows'[e].finality = new.finality /\ rows'[e].applied = (new.applied \/ old.applied)
      BY <2>1, <2>7, Zenon DEF RowType
    <3>2. rows'[e] \in RowType
      BY <2>1, <2>2, <2>7, Zenon DEF RowType
    <3> QED
      BY <2>1, <2>2, <2>7, <3>1, <3>2, Zenon DEF Kept, Settled, old
  <2> QED
    BY <2>3, <2>4, <2>5, <2>6, <2>7, Zenon
<1> QED
  BY <1>1, Zenon DEF RowsStep

\* promoteBalanceEvents applies what it finalizes.
LEMMA PromotionStep ==
    ASSUME RowsTyped, FinalizedIsApplied, NEW b,
           rows' = [e \in DOMAIN rows |-> [Finalized(b)[e] EXCEPT !.applied = @ \/ e \in Promoted(b)]]
    PROVE  RowsStep
<1>1. ASSUME NEW e \in DOMAIN rows'
      PROVE  rows'[e] \in RowType /\ Settled(rows'[e], e) /\ Kept(e)
  <2> DEFINE old == rows[e]
             mid == Finalized(b)[e]
  <2>1. e \in DOMAIN rows /\ old \in RowType /\ Settled(old, e)
    BY Zenon DEF RowsTyped, FinalizedIsApplied, Settled
  <2>2. mid = IF Info[e].block <= b /\ old.finality # "" THEN [old EXCEPT !.finality = "finalized"] ELSE old
    BY <2>1, Zenon DEF Finalized
  <2>3. rows'[e] = [mid EXCEPT !.applied = @ \/ e \in Promoted(b)]
    BY <2>1, Zenon
  <2>4. e \in Promoted(b) <=> Info[e].block <= b /\ ~old.applied /\ mid.finality = "finalized"
    BY <2>1, Zenon DEF Promoted
  <2> HIDE DEF old, mid
  <2>5. mid \in RowType /\ mid.applied = old.applied
    BY <2>1, <2>2, Zenon DEF RowType, States
  <2>6. finality_rank(mid.finality) >= finality_rank(old.finality)
    <3>1. finality_rank("finalized") = 4 /\ \A f \in States : finality_rank(f) \in 0..4
      BY DEF finality_rank, States
    <3>2. mid.finality = old.finality \/ mid.finality = "finalized"
      BY <2>1, <2>2, Zenon DEF RowType
    <3> QED
      BY <2>1, <3>1, <3>2 DEF RowType
  <2>7. rows'[e] \in RowType /\ rows'[e].finality = mid.finality
           /\ rows'[e].applied = (mid.applied \/ e \in Promoted(b))
    BY <2>3, <2>5, Zenon DEF RowType
  <2>8. Settled(rows'[e], e)
    BY <2>1, <2>2, <2>4, <2>5, <2>7, Zenon DEF Settled
  <2> QED
    BY <2>5, <2>6, <2>7, <2>8, Zenon DEF Kept, old
<1> QED
  BY <1>1, Zenon DEF RowsStep

\* Rows that stay as they are, or go.
LEMMA FewerStep ==
    ASSUME RowsTyped, FinalizedIsApplied, DOMAIN rows' \subseteq DOMAIN rows,
           \A e \in DOMAIN rows' : rows'[e] = rows[e]
    PROVE  RowsStep
<1>1. \A e \in DOMAIN rows : finality_rank(rows[e].finality) \in Nat
  BY RankType, Zenon DEF RowsTyped, RowType
<1>2. \A e \in DOMAIN rows' : rows'[e] \in RowType /\ Settled(rows'[e], e)
  BY Zenon DEF RowsTyped, FinalizedIsApplied, Settled
<1> QED
  BY <1>1, <1>2 DEF RowsStep, Kept

\* Every step of the ledger is a RowsStep, one case per action.
LEMMA LedgerStep == RowsTyped /\ FinalizedIsApplied /\ [Next]_vars => RowsStep
<1> SUFFICES ASSUME RowsTyped, FinalizedIsApplied, [Next]_vars PROVE RowsStep
  BY Zenon
<1>1. ASSUME NEW x \in 1..MaxBlock, NEW y \in 1..MaxBlock, NEW f \in Finalities, processBatch(x, y, f)
      PROVE  RowsStep
  BY <1>1, UpsertStep, Zenon DEF processBatch
<1>2. CASE handleFinalityPromotion
  BY <1>2, PromotionStep, Zenon DEF handleFinalityPromotion
<1>3. ASSUME NEW b \in 1..MaxBlock, Purge(b) PROVE RowsStep
  <2>1. rows' = [e \in {x \in DOMAIN rows : Info[x].block < b} |-> rows[e]]
    BY <1>3, Zenon DEF Purge
  <2> QED
    BY <2>1, FewerStep, Zenon
<1>4. CASE rows' = rows
  BY <1>4, FewerStep, Zenon
<1>5. ASSUME NEW x \in 1..MaxBlock, NEW y \in 1..MaxBlock, NEW f \in Finalities, RolledBackBatch(x, y, f)
      PROVE  rows' = rows
  BY <1>5, Zenon DEF RolledBackBatch, dbVars
<1>6. (\E t \in Tokens : Evict(t)) \/ ChainFinalizes \/ FinalizerCheck \/ PromotionFails \/ Restart
        \/ UNCHANGED vars => rows' = rows
  BY Zenon DEF Evict, ChainFinalizes, FinalizerCheck, PromotionFails, Restart, NewPipeline, vars, dbVars
<1> QED
  BY <1>1, <1>2, <1>3, <1>4, <1>5, <1>6, Zenon DEF Next, Ingest, Promotion

\* The tables are empty at first.
LEMMA SettledInit == Init => RowsTyped /\ FinalizedIsApplied
BY DEF Init, RowsTyped, FinalizedIsApplied

\* RowsTyped and FinalizedIsApplied are inductive together.
LEMMA SettledNext == RowsTyped /\ FinalizedIsApplied /\ [Next]_vars => RowsTyped' /\ FinalizedIsApplied'
BY LedgerStep, Zenon DEF RowsStep, RowsTyped, FinalizedIsApplied, Settled

\* Neither BulkUpsertTx nor promoteBalanceEvents leaves a row finalized that does
\* not count in the balances, unless it moves nothing.
THEOREM FinalizedIsAppliedAlways == Spec => []FinalizedIsApplied
BY SettledInit, SettledNext, PTL DEF Spec

\* Whatever order decodings, promotions and rollbacks come in, a stored event
\* never loses finality and is never un-applied.
THEOREM FinalityMonotoneAlways == Spec => FinalityMonotone
<1>1. RowsTyped /\ FinalizedIsApplied /\ [Next]_vars =>
        [\A e \in DOMAIN rows \cap DOMAIN rows' :
           /\ finality_rank(rows'[e].finality) >= finality_rank(rows[e].finality)
           /\ rows[e].applied => rows'[e].applied]_vars
  BY LedgerStep, Zenon DEF RowsStep, Kept
<1> QED
  BY <1>1, SettledInit, SettledNext, PTL DEF Spec, FinalityMonotone

(***************************************************************************)
(* buildEventModels: a fold over the events of the batch.                  *)
(***************************************************************************)
\* What buildEventModels can have collected from the events of S.
Allowed(S) == {e \in S : Token(e) \notin cachedDenied(S)}
Collected(S) == [scam : SUBSET {Token(e) : e \in S}, models : SUBSET Allowed(S)]

\* One event more.
LEMMA BuildKeeps ==
    ASSUME NEW S, NEW f, NEW e \in S, NEW acc \in Collected(S)
    PROVE  BuildModel(S, f, e, acc) \in Collected(S)
<1>1. /\ acc.scam \in SUBSET {Token(x) : x \in S} /\ acc.models \in SUBSET Allowed(S)
      /\ Token(e) \in {Token(x) : x \in S}
  BY Zenon DEF Collected
<1>2. [scam |-> acc.scam \cup {Token(e)}, models |-> acc.models] \in Collected(S)
  BY <1>1, Zenon DEF Collected
<1>3. Token(e) \notin cachedDenied(S) =>
        [scam |-> acc.scam, models |-> acc.models \cup {e}] \in Collected(S)
  BY <1>1, Zenon DEF Collected, Allowed
<1> QED
  BY <1>2, <1>3, Zenon DEF BuildModel

\* The models of a batch are events of it whose token is not known as denied.
LEMMA BuildCollects ==
    ASSUME NEW S \in SUBSET Events, NEW f
    PROVE  buildEventModels(S, f) \in Collected(S)
<1> DEFINE Y == Collected(S)
           base == [scam |-> {}, models |-> {}]
           Val(g, s) == IF s = {} THEN base ELSE BuildModel(S, f, Max(s), g[s \ {Max(s)}])
           E(g) == g = [s \in SUBSET S |-> Val(g, s)]
           ch == [s \in SUBSET S |-> Max(s)]
           step == [e \in S |-> [acc \in Y |-> BuildModel(S, f, e, acc)]]
<1>1. buildEventModels(S, f) = (CHOOSE g : E(g))[S]
  BY Zenon DEF buildEventModels, MapThenFoldSet
<1>2. IsFiniteSet(S) /\ S \in SUBSET Int
  <2>1. IsFiniteSet(Events) /\ Events \subseteq Nat
    BY LedgerAssumption, Zenon
  <2>2. IsFiniteSet(S)
    BY <2>1, FS_Subset, Zenon
  <2> QED
    BY <2>1, <2>2
<1>3. base \in Y
  BY Zenon DEF Collected
<1>4. Chooses(ch, S)
  <2>1. ASSUME NEW s \in SUBSET S, s # {} PROVE ch[s] \in s
    <3>1. IsFiniteSet(s) /\ s \in SUBSET Int
      BY <1>2, FS_Subset, Zenon
    <3>2. Max(s) \in s
      BY <2>1, <3>1, MaxIn, Zenon
    <3> QED
      BY <3>2, Zenon
  <2> QED
    BY <2>1, Zenon DEF Chooses
<1>5. step \in [S -> [Y -> Y]]
  BY BuildKeeps, Zenon
<1>6. \A s \in SUBSET S : ch[s] = Max(s)
  BY Zenon
<1>7. \A e \in S, acc \in Y : step[e][acc] = BuildModel(S, f, e, acc)
  BY Zenon
<1>8. \A s \in SUBSET S : s # {} => ch[s] \in S /\ s \ {ch[s]} \in SUBSET S
  BY <1>4, Zenon DEF Chooses
<1> HIDE DEF Y, base, ch, step
<1>9. \E g \in [SUBSET S -> Y] : Recurses(g, S, base, ch, step)
  BY <1>2, <1>3, <1>4, <1>5, Recursion, Zenon
<1>10. PICK g \in [SUBSET S -> Y] : Recurses(g, S, base, ch, step)
  BY <1>9, Zenon
<1>11. E(g)
  <2>1. ASSUME NEW s \in SUBSET S PROVE g[s] = Val(g, s)
    <3>1. CASE s = {}
      BY <1>10, <3>1, Zenon DEF Recurses
    <3>2. CASE s # {}
      <4>1. ch[s] \in S /\ s \ {ch[s]} \in SUBSET S
        BY <1>8, <3>2, Zenon
      <4>2. g[s \ {ch[s]}] \in Y
        BY <4>1, Zenon
      <4>3. g[s] = step[ch[s]][g[s \ {ch[s]}]]
        BY <1>10, <3>2, Zenon DEF Recurses
      <4>4. g[s] = BuildModel(S, f, ch[s], g[s \ {ch[s]}])
        BY <1>7, <4>1, <4>2, <4>3, Zenon
      <4> QED
        BY <1>6, <3>2, <4>4, Zenon
    <3> QED
      BY <3>1, <3>2, Zenon
  <2> HIDE DEF Val
  <2> QED
    BY <2>1, Zenon
<1> DEFINE h == CHOOSE k : E(k)
<1>12. E(h)
  <2> HIDE DEF E
  <2> QED
    BY <1>11, Zenon
<1>13. \A s \in SUBSET S : h[s] = Val(h, s)
  <2> HIDE DEF Val, h
  <2> QED
    BY <1>12, Zenon
<1> HIDE DEF h, E
<1>14. Follows(h, S, Y, base, ch, step)
  <2>1. h[{}] = base
    BY <1>13, Zenon
  <2>2. ASSUME NEW s \in SUBSET S, s # {}, h[s \ {ch[s]}] \in Y
        PROVE  h[s] = step[ch[s]][h[s \ {ch[s]}]]
    <3>1. h[s] = BuildModel(S, f, ch[s], h[s \ {ch[s]}])
      BY <1>6, <1>13, <2>2, Zenon
    <3>2. ch[s] \in S
      BY <1>8, <2>2, Zenon
    <3> QED
      BY <1>7, <2>2, <3>1, <3>2, Zenon
  <2> QED
    BY <2>1, <2>2, Zenon DEF Follows
<1>15. \A s \in SUBSET S : h[s] \in Y
  BY <1>2, <1>3, <1>4, <1>5, <1>14, FoldRange, Zenon
<1> QED
  BY <1>1, <1>15, Zenon DEF Y, h, E

(***************************************************************************)
(* BulkAdjustBalanceTx.                                                    *)
(***************************************************************************)
\* The items of an adjustment are amounts for rows of the balances table.
ItemsTyped(items) == \A i \in items : i.row \in BalanceRows /\ i.delta \in Int
BalancesTyped(bal) == DOMAIN bal \subseteq BalanceRows /\ \A r \in DOMAIN bal : bal[r] \in Int

\* The items events bring: one for the liquid row, and for staking one for the
\* staked row.
Items(S, sign) == LiquidItems(S, sign) \cup StakedItems(S, sign)

\* What is known of one event.
LEMMA EventFacts ==
    ASSUME NEW e \in Events
    PROVE  /\ Info[e].delta \in Int /\ Info[e].account \in Accounts
           /\ Liquid(e) \in BalanceRows /\ Staked(e) \in BalanceRows
           /\ Token(e) \in Tokens
BY LedgerAssumption, Zenon DEF Liquid, Staked, BalanceRows, Token, Tokens

\* The items of a finite set of events are finitely many and have their types.
LEMMA ItemsOfEvents ==
    ASSUME NEW S \in SUBSET Events, NEW sign \in {1, -1}
    PROVE  /\ ItemsTyped(LiquidItems(S, sign)) /\ ItemsTyped(StakedItems(S, sign))
           /\ IsFiniteSet(Items(S, sign))
<1>1. IsFiniteSet(Events)
  BY LedgerAssumption, Zenon
<1>2. IsFiniteSet(S)
  BY <1>1, FS_Subset, Zenon
<1>3. ItemsTyped(LiquidItems(S, sign)) /\ ItemsTyped(StakedItems(S, sign))
  <2>1. \A e \in S : sign * Info[e].delta \in Int /\ -sign * Info[e].delta \in Int
    BY EventFacts
  <2> QED
    BY <2>1, EventFacts DEF ItemsTyped, LiquidItems, StakedItems
<1>4. IsFiniteSet(LiquidItems(S, sign))
  <2> DEFINE g == [e \in S |-> [row |-> Liquid(e), delta |-> sign * Info[e].delta, of |-> e]]
  <2>1. g \in Surjection(S, LiquidItems(S, sign))
    BY Zenon DEF Surjection, LiquidItems
  <2> HIDE DEF g
  <2> QED
    BY <1>2, <2>1, FS_Surjection, Zenon
<1>5. IsFiniteSet(StakedItems(S, sign))
  <2> DEFINE St == {x \in S : Info[x].staking}
             g == [e \in St |-> [row |-> Staked(e), delta |-> -sign * Info[e].delta, of |-> e]]
  <2>1. g \in Surjection(St, StakedItems(S, sign))
    BY Zenon DEF Surjection, StakedItems
  <2>2. IsFiniteSet(St)
    BY <1>2, FS_Subset, Zenon
  <2> HIDE DEF g, St
  <2> QED
    BY <2>1, <2>2, FS_Surjection, Zenon
<1>6. IsFiniteSet(Items(S, sign))
  BY <1>4, <1>5, FS_Union, Zenon DEF Items
<1> QED
  BY <1>3, <1>6, Zenon

\* The delta of an aggregated item is the sum of those of its row.
LEMMA AggregatedTyped ==
    ASSUME NEW items, ItemsTyped(items), IsFiniteSet(items)
    PROVE  ItemsTyped(Aggregated(items))
<1> DEFINE delta == [i \in items |-> i.delta]
           At(r) == {i \in items : i.row = r}
<1>1. Summable(delta, items)
  BY Zenon DEF Summable, ItemsTyped
<1>2. \A r : At(r) \in SUBSET items
  BY Zenon
<1>3. ASSUME NEW r PROVE Sum(delta, At(r)) \in Int
  <2> HIDE DEF delta, At
  <2>1. Summable(delta, At(r))
    BY <1>1, <1>2, SummablePart, Zenon
  <2> QED
    BY <2>1, SumType, Zenon
<1>4. \A r \in RowsOf(items) : r \in BalanceRows
  BY Zenon DEF RowsOf, ItemsTyped
<1>5. Aggregated(items) = {[row |-> r, delta |-> Sum(delta, At(r)), of |-> 0] : r \in RowsOf(items)}
  BY Zenon DEF Aggregated, Sum
<1> HIDE DEF delta, At
<1> QED
  BY <1>3, <1>4, <1>5 DEF ItemsTyped

\* What a row of the balances table holds: 0 as long as there is none.
AmountOf(bal, r) == IF r \in DOMAIN bal THEN bal[r] ELSE 0

\* A row gets the one item that names it; a row that no item names stays.
Adjusts(bal, new, items) ==
    /\ BalancesTyped(new)
    /\ \A i \in items : i.row \notin Repeated(items) =>
                          AmountOf(new, i.row) = AmountOf(bal, i.row) + i.delta
    /\ \A r : (\A i \in items : i.row # r) => AmountOf(new, r) = AmountOf(bal, r)

\* So does BulkAdjustBalanceTx.
LEMMA BulkAdjusts ==
    ASSUME NEW bal, NEW items, BalancesTyped(bal), ItemsTyped(items),
           NEW new \in BulkAdjustBalance(bal, items)
    PROVE  Adjusts(bal, new, items)
<1> DEFINE R == RowsOf(items)
<1>1. PICK p \in [R -> items] :
        /\ \A r \in R : p[r].row = r
        /\ new = [r \in DOMAIN bal \cup R |-> IF r \in R THEN AmountOf(bal, r) + p[r].delta ELSE bal[r]]
  BY Zenon DEF BulkAdjustBalance, AmountOf
<1>2. \A r \in R : r \in BalanceRows /\ p[r].delta \in Int /\ p[r] \in items
  BY Zenon DEF RowsOf, ItemsTyped
<1>3. \A r : AmountOf(bal, r) \in Int
  BY DEF BalancesTyped, AmountOf
<1>4. /\ DOMAIN new = DOMAIN bal \cup R
      /\ \A r \in R : new[r] = AmountOf(bal, r) + p[r].delta
      /\ \A r \in DOMAIN bal \ R : new[r] = bal[r]
  <2> HIDE DEF R
  <2> QED
    BY <1>1, Zenon
<1>r. \A i \in items : i.row \in R
  BY Zenon DEF RowsOf
<1> HIDE DEF R
<1>5. BalancesTyped(new)
  <2>1. DOMAIN new \subseteq BalanceRows
    BY <1>2, <1>4, Zenon DEF BalancesTyped
  <2>2. ASSUME NEW r \in DOMAIN new PROVE new[r] \in Int
    <3>1. CASE r \in R
      BY <1>2, <1>3, <1>4, <3>1
    <3>2. CASE r \notin R
      BY <1>4, <3>2, Zenon DEF BalancesTyped
    <3> QED
      BY <3>1, <3>2, Zenon
  <2> QED
    BY <2>1, <2>2, Zenon DEF BalancesTyped
<1>6. ASSUME NEW i \in items, i.row \notin Repeated(items)
      PROVE  AmountOf(new, i.row) = AmountOf(bal, i.row) + i.delta
  <2>1. i.row \in R
    BY <1>r, Zenon
  <2>2. p[i.row] \in items /\ p[i.row].row = i.row
    BY <1>1, <1>2, <2>1, Zenon
  <2>3. p[i.row] = i
    BY <1>6, <2>2, Zenon DEF Repeated, RowsOf
  <2> QED
    BY <1>4, <2>1, <2>3, Zenon DEF AmountOf
<1>7. ASSUME NEW r, \A i \in items : i.row # r PROVE AmountOf(new, r) = AmountOf(bal, r)
  <2>1. r \notin R
    BY <1>1, <1>2, <1>7, Zenon
  <2> QED
    BY <1>4, <2>1, Zenon DEF AmountOf
<1> QED
  BY <1>5, <1>6, <1>7, Zenon DEF Adjusts

(***************************************************************************)
(* Types, and the denied tokens.                                           *)
(***************************************************************************)
\* The tables and what the Ingester holds in memory.  A token the cache answers
\* "allowed" for is not denied in the table: the cache may forget, not err.
StoredRow == [finality : Finalities \cup {"", "finalized"}, applied : BOOLEAN]
TypedRows(rs) == DOMAIN rs \subseteq Events /\ \A e \in DOMAIN rs : rs[e] \in StoredRow
TablesInv == TypedRows(rows) /\ BalancesTyped(balances) /\ drifted \subseteq BalanceRows
DeniedInv ==
    /\ deniedTokens \subseteq Tokens /\ DOMAIN deniedCache \subseteq Tokens
    /\ \A t \in DOMAIN deniedCache : deniedCache[t] \/ t \notin deniedTokens
QueueInv ==
    /\ chainFinalized \in 0..MaxBlock /\ lastFinalized \in 0..chainFinalized
    /\ finalityCh \in Seq(1..chainFinalized) /\ Len(finalityCh) <= FinalityCap
TypeInv == TablesInv /\ DeniedInv /\ QueueInv

\* All empty at first.
LEMMA TypeInvInit == Init => TypeInv
<1> SUFFICES ASSUME Init PROVE TypeInv
  BY Zenon
<1>1. TablesInv
  BY DEF Init, TablesInv, TypedRows, BalancesTyped
<1>2. DeniedInv
  BY DEF Init, DeniedInv
<1>3. QueueInv
  BY LedgerAssumption DEF Init, QueueInv
<1> QED
  BY <1>1, <1>2, <1>3, Zenon DEF TypeInv

\* A batch's rows have the type of stored rows.
LEMMA UpsertTyped ==
    ASSUME TypedRows(rows), NEW models \in SUBSET Events, NEW f \in Finalities
    PROVE  TypedRows(BulkUpsert(models, f))
<1> DEFINE new(e) == [finality |-> FinalityOf(e, f), applied |-> meetsBalanceThreshold(e, f)]
<1>1. \A e : new(e) \in StoredRow
  <2>1. \A e : FinalityOf(e, f) \in Finalities \cup {"", "finalized"}
    BY Zenon DEF FinalityOf
  <2>2. \A e : meetsBalanceThreshold(e, f) \in BOOLEAN
    BY Zenon DEF meetsBalanceThreshold
  <2> QED
    BY <2>1, <2>2, Zenon DEF StoredRow
<1>2. ASSUME NEW e \in DOMAIN rows \cup models PROVE BulkUpsert(models, f)[e] \in StoredRow
  <2>1. BulkUpsert(models, f)[e] =
          IF e \notin models THEN rows[e]
          ELSE IF e \notin DOMAIN rows THEN new(e)
          ELSE IF finality_rank(new(e).finality) >= finality_rank(rows[e].finality)
               THEN [new(e) EXCEPT !.applied = @ \/ rows[e].applied] ELSE rows[e]
    BY Zenon DEF BulkUpsert
  <2>2. e \in DOMAIN rows => rows[e] \in StoredRow
    BY Zenon DEF TypedRows
  <2> HIDE DEF new
  <2>3. e \in DOMAIN rows => [new(e) EXCEPT !.applied = @ \/ rows[e].applied] \in StoredRow
    BY <1>1, <2>2, Zenon DEF StoredRow
  <2> QED
    BY <1>1, <2>1, <2>2, <2>3, Zenon
<1>3. DOMAIN BulkUpsert(models, f) = DOMAIN rows \cup models
  BY Zenon DEF BulkUpsert
<1> QED
  BY <1>2, <1>3, Zenon DEF TypedRows

\* What a promotion makes of the rows.
PromotedRows(b) == [e \in DOMAIN rows |-> [Finalized(b)[e] EXCEPT !.applied = @ \/ e \in Promoted(b)]]

\* A promotion keeps the type of the rows.
LEMMA PromotedTyped == ASSUME TypedRows(rows), NEW b PROVE TypedRows(PromotedRows(b))
<1>1. ASSUME NEW e \in DOMAIN rows PROVE PromotedRows(b)[e] \in StoredRow
  <2> DEFINE mid == Finalized(b)[e]
  <2>1. rows[e] \in StoredRow
    BY Zenon DEF TypedRows
  <2>2. mid = IF Info[e].block <= b /\ rows[e].finality # ""
              THEN [rows[e] EXCEPT !.finality = "finalized"] ELSE rows[e]
    BY Zenon DEF Finalized
  <2>3. mid \in StoredRow
    <3>1. [rows[e] EXCEPT !.finality = "finalized"] \in StoredRow
      BY <2>1, Zenon DEF StoredRow
    <3> QED
      BY <2>1, <2>2, <3>1, Zenon
  <2>4. PromotedRows(b)[e] = [mid EXCEPT !.applied = @ \/ e \in Promoted(b)]
    BY Zenon DEF PromotedRows
  <2> HIDE DEF mid
  <2> QED
    BY <2>3, <2>4, Zenon DEF StoredRow
<1>2. DOMAIN PromotedRows(b) = DOMAIN rows
  BY Zenon DEF PromotedRows
<1> QED
  BY <1>1, <1>2, Zenon DEF TypedRows

\* The cache after a batch, committed or not: what the prefetch read and what the
\* scam check denied.
LEMMA CacheSteps ==
    ASSUME DeniedInv, NEW S \in SUBSET Events, NEW built \in Collected(S),
           deniedCache' = CacheAfter(S, built),
           deniedTokens' = deniedTokens \/ deniedTokens' = deniedTokens \cup built.scam
    PROVE  DeniedInv'
<1> DEFINE ofS == {Token(e) : e \in S}
           pre == Prefetched(S, cachedDenied(S))
<1>1. built.scam \subseteq ofS /\ ofS \subseteq Tokens
  BY EventFacts, Zenon DEF Collected
<1>2. DOMAIN pre = DOMAIN deniedCache \cup ofS
  BY Zenon DEF Prefetched
<1>3. DOMAIN deniedCache' = DOMAIN pre
  BY Zenon DEF CacheAfter
<1>4. ASSUME NEW t \in DOMAIN pre, t \notin built.scam, t \in deniedTokens PROVE pre[t]
  <2>1. CASE t \in DOMAIN deniedCache
    <3>1. pre[t] = deniedCache[t]
      BY <2>1, Zenon DEF Prefetched
    <3> QED
      BY <1>4, <2>1, <3>1, Zenon DEF DeniedInv
  <2>2. CASE t \notin DOMAIN deniedCache
    <3>1. t \in cachedDenied(S)
      BY <1>2, <1>4, <2>2, Zenon DEF cachedDenied
    <3>2. pre[t] = (t \in cachedDenied(S))
      BY <1>2, <2>2, Zenon DEF Prefetched
    <3> QED
      BY <3>1, <3>2, Zenon
  <2> QED
    BY <2>1, <2>2, Zenon
<1>5. ASSUME NEW t \in DOMAIN pre, t \in deniedTokens' PROVE deniedCache'[t]
  <2>1. deniedCache'[t] = (t \in built.scam \/ pre[t])
    BY Zenon DEF CacheAfter
  <2>2. t \in built.scam \/ t \in deniedTokens
    BY <1>5, Zenon
  <2> HIDE DEF pre
  <2> QED
    BY <1>4, <2>1, <2>2, Zenon
<1> HIDE DEF pre, ofS
<1>6. deniedTokens' \subseteq Tokens /\ DOMAIN deniedCache' \subseteq Tokens
  BY <1>1, <1>2, <1>3, Zenon DEF DeniedInv
<1>7. \A t \in DOMAIN deniedCache' : deniedCache'[t] \/ t \notin deniedTokens'
  BY <1>3, <1>5, Zenon
<1> QED
  BY <1>6, <1>7, Zenon DEF DeniedInv

\* A batch the Ingester works on.
LEMMA BatchEvents ==
    ASSUME NEW a, NEW b, NEW f
    PROVE  /\ Batch(a, b) \in SUBSET Events
           /\ buildEventModels(Batch(a, b), f) \in Collected(Batch(a, b))
           /\ buildEventModels(Batch(a, b), f).models \in SUBSET Events
<1>1. Batch(a, b) \in SUBSET Events
  BY Zenon DEF Batch
<1>2. buildEventModels(Batch(a, b), f) \in Collected(Batch(a, b))
  BY <1>1, BuildCollects, Zenon
<1> HIDE DEF Batch
<1> QED
  BY <1>1, <1>2, Zenon DEF Collected, Allowed

\* The rows typed items name are rows of the table.
LEMMA ItemRows ==
    ASSUME NEW items, ItemsTyped(items)
    PROVE  RowsOf(items) \subseteq BalanceRows /\ Repeated(items) \subseteq BalanceRows
BY Zenon DEF ItemsTyped, RowsOf, Repeated

\* The events a batch credits, and those of them that were applied before.
Credited(S, f) == {e \in buildEventModels(S, f).models : meetsBalanceThreshold(e, f)}
Again(S, f) == {e \in Credited(S, f) \cap DOMAIN rows : rows[e].applied}

\* processBatch, said with the two.
LEMMA BatchCommits ==
    ASSUME NEW a, NEW b, NEW f, processBatch(a, b, f)
    PROVE  /\ rows' = BulkUpsert(buildEventModels(Batch(a, b), f).models, f)
           /\ balances' \in BulkAdjustBalance(balances, Aggregated(Items(Credited(Batch(a, b), f), 1)))
           /\ deniedTokens' = deniedTokens \cup buildEventModels(Batch(a, b), f).scam
           /\ deniedCache' = CacheAfter(Batch(a, b), buildEventModels(Batch(a, b), f))
           /\ drifted' = drifted \cup RowsOf(Items(Again(Batch(a, b), f), 1))
           /\ UNCHANGED finalizerVars
BY Zenon DEF processBatch, Items, Credited, Again

\* A batch leaves the types of everything.
LEMMA BatchTyped ==
    ASSUME TypeInv, NEW a, NEW b, NEW f \in Finalities, processBatch(a, b, f)
    PROVE  TypeInv'
<1> DEFINE S == Batch(a, b)
           built == buildEventModels(S, f)
<1>1. S \in SUBSET Events /\ built \in Collected(S) /\ built.models \in SUBSET Events
  BY BatchEvents, Zenon
<1>2. /\ rows' = BulkUpsert(built.models, f)
      /\ balances' \in BulkAdjustBalance(balances, Aggregated(Items(Credited(S, f), 1)))
      /\ deniedTokens' = deniedTokens \cup built.scam
      /\ deniedCache' = CacheAfter(S, built)
      /\ drifted' = drifted \cup RowsOf(Items(Again(S, f), 1))
      /\ UNCHANGED finalizerVars
  BY BatchCommits, Zenon
<1>3. Credited(S, f) \in SUBSET Events /\ Again(S, f) \in SUBSET Events
  BY <1>1, Zenon DEF Credited, Again
<1> HIDE DEF S, built
<1>4. TypedRows(rows')
  BY <1>1, <1>2, UpsertTyped, Zenon DEF TypeInv, TablesInv
<1>5. /\ ItemsTyped(Items(Credited(S, f), 1)) /\ IsFiniteSet(Items(Credited(S, f), 1))
      /\ ItemsTyped(Items(Again(S, f), 1))
  BY <1>3, ItemsOfEvents, Zenon DEF Items, ItemsTyped
<1>6. BalancesTyped(balances')
  <2>1. ItemsTyped(Aggregated(Items(Credited(S, f), 1)))
    BY <1>5, AggregatedTyped, Zenon
  <2>2. BalancesTyped(balances)
    BY Zenon DEF TypeInv, TablesInv
  <2> QED
    BY <1>2, <2>1, <2>2, BulkAdjusts, Zenon DEF Adjusts
<1>7. drifted' \subseteq BalanceRows
  <2>1. RowsOf(Items(Again(S, f), 1)) \subseteq BalanceRows
    BY <1>5, ItemRows, Zenon
  <2> QED
    BY <1>2, <2>1, Zenon DEF TypeInv, TablesInv
<1>8. DeniedInv'
  BY <1>1, <1>2, CacheSteps, Zenon DEF TypeInv
<1>9. QueueInv'
  BY <1>2, Zenon DEF TypeInv, QueueInv, finalizerVars
<1> QED
  BY <1>4, <1>6, <1>7, <1>8, <1>9, Zenon DEF TypeInv, TablesInv

\* A purge leaves the types of everything.
LEMMA PurgeTyped ==
    ASSUME TypeInv, NEW b, Purge(b)
    PROVE  TypeInv'
<1> DEFINE R == Reversed(b)
<1>1. R \in SUBSET Events
  BY Zenon DEF Reversed, TypeInv, TablesInv, TypedRows
<1>2. PICK mid \in BulkAdjustBalance(balances, LiquidItems(R, -1)) :
             balances' \in BulkAdjustBalance(mid, StakedItems(R, -1))
  BY Zenon DEF Purge
<1>3. /\ rows' = [e \in {x \in DOMAIN rows : Info[x].block < b} |-> rows[e]]
      /\ drifted' = drifted \cup Repeated(Items(R, -1))
      /\ UNCHANGED <<deniedTokens, deniedCache, finalizerVars>>
  BY Zenon DEF Purge, Items
<1> HIDE DEF R
<1>4. ItemsTyped(LiquidItems(R, -1)) /\ ItemsTyped(StakedItems(R, -1)) /\ ItemsTyped(Items(R, -1))
  <2>1. -1 \in {1, -1}
    BY Zenon
  <2> QED
    BY <1>1, <2>1, ItemsOfEvents, Zenon DEF Items, ItemsTyped
<1>5. BalancesTyped(balances) /\ TypedRows(rows) /\ drifted \subseteq BalanceRows
  BY Zenon DEF TypeInv, TablesInv
<1>6. BalancesTyped(mid)
  BY <1>2, <1>4, <1>5, BulkAdjusts, Zenon DEF Adjusts
<1>7. BalancesTyped(balances')
  BY <1>2, <1>4, <1>6, BulkAdjusts, Zenon DEF Adjusts
<1>8. TypedRows(rows')
  BY <1>3, <1>5, Zenon DEF TypedRows
<1>9. drifted' \subseteq BalanceRows
  BY <1>3, <1>4, <1>5, ItemRows, Zenon
<1>10. DeniedInv' /\ QueueInv'
  BY <1>3, Zenon DEF TypeInv, DeniedInv, QueueInv, finalizerVars
<1> QED
  BY <1>7, <1>8, <1>9, <1>10, Zenon DEF TypeInv, TablesInv

\* Taking the first of the queued promotions.
LEMMA QueueTail ==
    ASSUME QueueInv, finalityCh # <<>>, finalityCh' = Tail(finalityCh),
           UNCHANGED <<chainFinalized, lastFinalized>>
    PROVE  QueueInv'
BY LedgerAssumption DEF QueueInv

\* A promotion leaves the types of everything.
LEMMA PromotionTyped ==
    ASSUME TypeInv, handleFinalityPromotion
    PROVE  TypeInv'
<1> DEFINE b == Head(finalityCh)
           P == Promoted(b)
<1>1. P \in SUBSET Events
  BY Zenon DEF Promoted, TypeInv, TablesInv, TypedRows
<1>2. /\ rows' = PromotedRows(b)
      /\ balances' \in BulkAdjustBalance(balances, Items(P, 1))
      /\ drifted' = drifted \cup Repeated(Items(P, 1))
      /\ finalityCh # <<>> /\ finalityCh' = Tail(finalityCh)
      /\ UNCHANGED <<deniedTokens, deniedCache, chainFinalized, lastFinalized>>
  BY Zenon DEF handleFinalityPromotion, PromotionItems, Items, PromotedRows
<1> HIDE DEF P, b
<1>4. ItemsTyped(Items(P, 1))
  BY <1>1, ItemsOfEvents, Zenon DEF Items, ItemsTyped
<1>5. BalancesTyped(balances) /\ TypedRows(rows) /\ drifted \subseteq BalanceRows
  BY Zenon DEF TypeInv, TablesInv
<1>6. BalancesTyped(balances')
  BY <1>2, <1>4, <1>5, BulkAdjusts, Zenon DEF Adjusts
<1>7. TypedRows(rows')
  BY <1>2, <1>5, PromotedTyped, Zenon
<1>8. drifted' \subseteq BalanceRows
  BY <1>2, <1>4, <1>5, ItemRows, Zenon
<1>9. DeniedInv'
  BY <1>2, Zenon DEF TypeInv, DeniedInv
<1>10. QueueInv'
  BY <1>2, QueueTail, Zenon DEF TypeInv
<1> QED
  BY <1>6, <1>7, <1>8, <1>9, <1>10, Zenon DEF TypeInv, TablesInv

\* The steps that touch no table.
LEMMA OtherTyped ==
    ASSUME TypeInv,
           \/ \E a, b \in 1..MaxBlock, f \in Finalities : RolledBackBatch(a, b, f)
           \/ \E t \in Tokens : Evict(t)
           \/ ChainFinalizes \/ FinalizerCheck \/ PromotionFails \/ Restart
           \/ UNCHANGED vars
    PROVE  TypeInv' /\ rows' = rows /\ balances' = balances /\ drifted' = drifted
<1>1. UNCHANGED <<rows, balances, deniedTokens, drifted>>
  BY Zenon DEF RolledBackBatch, Evict, ChainFinalizes, FinalizerCheck, PromotionFails, Restart,
               NewPipeline, vars, dbVars
<1>2. TablesInv'
  BY <1>1, Zenon DEF TypeInv, TablesInv, TypedRows, BalancesTyped
<1>3. ASSUME NEW a, NEW b, NEW f, RolledBackBatch(a, b, f) PROVE DeniedInv' /\ QueueInv'
  <2>1. deniedCache' = CacheAfter(Batch(a, b), buildEventModels(Batch(a, b), f))
    BY <1>3, Zenon DEF RolledBackBatch
  <2>2. DeniedInv'
    BY <1>1, <2>1, BatchEvents, CacheSteps, Zenon DEF TypeInv
  <2>3. QueueInv'
    BY <1>3, Zenon DEF RolledBackBatch, finalizerVars, TypeInv, QueueInv
  <2> QED
    BY <2>2, <2>3, Zenon
<1>4. ASSUME NEW t, Evict(t) PROVE DeniedInv' /\ QueueInv'
  <2>1. DeniedInv'
    BY <1>1, <1>4, Zenon DEF Evict, TypeInv, DeniedInv
  <2>2. QueueInv'
    BY <1>4, Zenon DEF Evict, finalizerVars, TypeInv, QueueInv
  <2> QED
    BY <2>1, <2>2
<1>5. ASSUME UNCHANGED <<deniedCache, finalizerVars>> PROVE DeniedInv' /\ QueueInv'
  BY <1>1, <1>5, Zenon DEF finalizerVars, TypeInv, QueueInv, DeniedInv
<1>6. ASSUME ChainFinalizes PROVE DeniedInv' /\ QueueInv'
  <2>1. DeniedInv'
    BY <1>1, <1>6, Zenon DEF ChainFinalizes, TypeInv, DeniedInv
  <2>2. QueueInv'
    BY <1>6, LedgerAssumption DEF ChainFinalizes, TypeInv, QueueInv
  <2> QED
    BY <2>1, <2>2
<1>7. ASSUME FinalizerCheck PROVE DeniedInv' /\ QueueInv'
  <2>1. DeniedInv'
    BY <1>1, <1>7, Zenon DEF FinalizerCheck, TypeInv, DeniedInv
  <2>2. QueueInv'
    BY <1>7, LedgerAssumption DEF FinalizerCheck, TypeInv, QueueInv
  <2> QED
    BY <2>1, <2>2
<1>8. ASSUME NewPipeline PROVE DeniedInv' /\ QueueInv'
  <2>1. DeniedInv'
    BY <1>1, <1>8 DEF NewPipeline, TypeInv, DeniedInv
  <2>2. QueueInv'
    BY <1>8, LedgerAssumption DEF NewPipeline, TypeInv, QueueInv
  <2> QED
    BY <2>1, <2>2
<1>9. DeniedInv' /\ QueueInv'
  BY <1>3, <1>4, <1>5, <1>6, <1>7, <1>8, Zenon DEF PromotionFails, Restart, vars
<1> QED
  BY <1>1, <1>2, <1>9, Zenon DEF TypeInv

\* TypeInv is inductive.
LEMMA TypeStep == TypeInv /\ [Next]_vars => TypeInv'
BY BatchTyped, PurgeTyped, PromotionTyped, OtherTyped, Zenon DEF Next, Ingest, Promotion

\* Every variable keeps its type, for every set of events, accounts and tokens and
\* every bound: a batch stores and credits only events of its range, however the
\* scam check and the denied cache thin it out.
THEOREM TypeOKAlways == Spec => []TypeOK
<1>1. TypeInv => TypeOK
  <2> SUFFICES ASSUME TypeInv PROVE TypeOK
    BY Zenon
  <2>1. \A i \in DOMAIN finalityCh : finalityCh[i] \in 1..chainFinalized
    BY DEF TypeInv, QueueInv
  <2> QED
    BY <2>1, Zenon DEF TypeInv, TypeOK, TablesInv, DeniedInv, QueueInv, TypedRows, BalancesTyped, StoredRow
<1> QED
  BY <1>1, TypeInvInit, TypeStep, PTL DEF Spec

\* No event of a denied token is stored: the rows a step adds are models of a batch,
\* whose tokens neither the cache nor the table denied when it was prefetched.
THEOREM DeniedStaysOutAlways == Spec => DeniedStaysOut
<1>1. TypeInv /\ [Next]_vars =>
        [\A e \in DOMAIN rows' \ DOMAIN rows : Token(e) \notin deniedTokens]_vars
  <2> SUFFICES ASSUME TypeInv, Next, NEW e \in DOMAIN rows' \ DOMAIN rows
               PROVE  Token(e) \notin deniedTokens
    BY Zenon
  <2>1. \/ \E a, b \in 1..MaxBlock, f \in Finalities : processBatch(a, b, f)
        \/ DOMAIN rows' \subseteq DOMAIN rows
    <3>1. ASSUME NEW b, Purge(b) PROVE DOMAIN rows' \subseteq DOMAIN rows
      <4>1. rows' = [x \in {y \in DOMAIN rows : Info[y].block < b} |-> rows[x]]
        BY <3>1, Zenon DEF Purge
      <4> QED
        BY <4>1, Zenon
    <3>2. CASE handleFinalityPromotion
      <4>1. rows' = PromotedRows(Head(finalityCh))
        BY <3>2, Zenon DEF handleFinalityPromotion, PromotedRows
      <4> QED
        BY <4>1, Zenon DEF PromotedRows
    <3>3. CASE rows' = rows
      BY <3>3, Zenon
    <3> QED
      BY <3>1, <3>2, <3>3, OtherTyped, Zenon DEF Next, Ingest, Promotion
  <2>2. PICK a, b \in 1..MaxBlock, f \in Finalities : processBatch(a, b, f)
    BY <2>1, Zenon
  <2> DEFINE S == Batch(a, b)
             built == buildEventModels(S, f)
  <2>3. rows' = BulkUpsert(built.models, f) /\ built \in Collected(S)
    BY <2>2, BatchCommits, BatchEvents, Zenon
  <2>4. DOMAIN rows' = DOMAIN rows \cup built.models
    BY <2>3, Zenon DEF BulkUpsert
  <2>5. e \in built.models /\ built.models \subseteq Allowed(S)
    BY <2>3, <2>4, Zenon DEF Collected
  <2>6. e \in S /\ Token(e) \notin cachedDenied(S)
    BY <2>5, Zenon DEF Allowed
  <2> QED
    BY <2>6, Zenon DEF TypeInv, DeniedInv, cachedDenied
<1> QED
  BY <1>1, TypeInvInit, TypeStep, PTL DEF Spec, DeniedStaysOut

(***************************************************************************)
(* Balances: what the items of a set of events do to one row.              *)
(***************************************************************************)
\* The events of S that count in row r, and whether they add to it or, staked,
\* subtract.
IsLiquid(r) == r[2] = ""
CountedIn(S, r) == {e \in S : Info[e].account = r[1] /\ (IsLiquid(r) \/ Info[e].staking)}
Sign(r) == IF IsLiquid(r) THEN 1 ELSE -1
AppliedIn(rs) == {e \in DOMAIN rs : rs[e].applied}
ItemFor(e, r, sign) == [row |-> r, delta |-> sign * Sign(r) * Info[e].delta, of |-> e]

\* The items that name row r are those of the events that count in it.
NamedBy(items, S, r, sign) ==
    /\ \A i \in items : i.row = r => \E e \in CountedIn(S, r) : i = ItemFor(e, r, sign)
    /\ \A e \in CountedIn(S, r) : ItemFor(e, r, sign) \in items
NoneNames(items, r) == \A i \in items : i.row # r

\* Which events name a row as their liquid or their staked one.
LEMMA RowParts ==
    ASSUME NEW r \in BalanceRows
    PROVE  /\ \A e : Liquid(e) = r <=> (IsLiquid(r) /\ Info[e].account = r[1])
           /\ \A e : Staked(e) = r <=> (~IsLiquid(r) /\ Info[e].account = r[1])
           /\ Sign(r) \in {1, -1}
<1> DEFINE liquid == ""
           staked == "staked"
<1>1. r \in Accounts \X {liquid, staked} /\ liquid # staked /\ (IsLiquid(r) <=> r[2] = liquid)
  BY Zenon DEF BalanceRows, IsLiquid
<1>2. \A e : Liquid(e) = <<Info[e].account, liquid>> /\ Staked(e) = <<Info[e].account, staked>>
  BY Zenon DEF Liquid, Staked
<1> HIDE DEF liquid, staked
<1> QED
  BY <1>1, <1>2 DEF Sign

\* What a row is expected to hold, in these terms.
LEMMA ExpectedIs ==
    ASSUME NEW r \in BalanceRows
    PROVE  Expected(r) = SumOf(CountedIn(AppliedIn(rows), r), Sign(r))
<1>1. Expected(r) = IF IsLiquid(r) THEN SumOf(Applied(r[1]), 1)
                    ELSE SumOf({e \in Applied(r[1]) : Info[e].staking}, -1)
  BY Zenon DEF Expected, IsLiquid
<1>2. CASE IsLiquid(r)
  <2>1. CountedIn(AppliedIn(rows), r) = Applied(r[1])
    BY <1>2, Zenon DEF CountedIn, AppliedIn, Applied
  <2> QED
    BY <1>1, <1>2, <2>1, Zenon DEF Sign
<1>3. CASE ~IsLiquid(r)
  <2>1. CountedIn(AppliedIn(rows), r) = {e \in Applied(r[1]) : Info[e].staking}
    BY <1>3, Zenon DEF CountedIn, AppliedIn, Applied
  <2> QED
    BY <1>1, <1>3, <2>1, Zenon DEF Sign
<1> QED
  BY <1>2, <1>3, Zenon

\* The items that name a liquid row.
LEMMA LiquidItemsOf ==
    ASSUME NEW S \in SUBSET Events, NEW sign \in {1, -1}, NEW r \in BalanceRows, IsLiquid(r)
    PROVE  NamedBy(LiquidItems(S, sign), S, r, sign) /\ NoneNames(StakedItems(S, sign), r)
<1>2. \A e \in S : sign * Sign(r) * Info[e].delta = sign * Info[e].delta
  BY EventFacts DEF Sign
<1>3. \A e \in S : Liquid(e) = r <=> e \in CountedIn(S, r)
  BY RowParts, Zenon DEF CountedIn
<1>4. ASSUME NEW i \in LiquidItems(S, sign), i.row = r
      PROVE  \E e \in CountedIn(S, r) : i = ItemFor(e, r, sign)
  <2>1. PICK e \in S : i = [row |-> Liquid(e), delta |-> sign * Info[e].delta, of |-> e]
    BY Zenon DEF LiquidItems
  <2>2. Liquid(e) = r
    BY <1>4, <2>1, Zenon
  <2> QED
    BY <1>2, <1>3, <2>1, <2>2, Zenon DEF ItemFor
<1>5. ASSUME NEW e \in CountedIn(S, r) PROVE ItemFor(e, r, sign) \in LiquidItems(S, sign)
  <2>1. e \in S /\ Liquid(e) = r
    BY <1>3, Zenon DEF CountedIn
  <2>2. ItemFor(e, r, sign) = [row |-> Liquid(e), delta |-> sign * Info[e].delta, of |-> e]
    BY <1>2, <2>1, Zenon DEF ItemFor
  <2> QED
    BY <2>1, <2>2, Zenon DEF LiquidItems
<1>6. ASSUME NEW i \in StakedItems(S, sign) PROVE i.row # r
  <2>1. PICK e \in S : i = [row |-> Staked(e), delta |-> -sign * Info[e].delta, of |-> e]
    BY Zenon DEF StakedItems
  <2> QED
    BY <2>1, RowParts, Zenon
<1> QED
  BY <1>4, <1>5, <1>6, Zenon DEF NamedBy, NoneNames

\* The items that name a staked row.
LEMMA StakedItemsOf ==
    ASSUME NEW S \in SUBSET Events, NEW sign \in {1, -1}, NEW r \in BalanceRows, ~IsLiquid(r)
    PROVE  NamedBy(StakedItems(S, sign), S, r, sign) /\ NoneNames(LiquidItems(S, sign), r)
<1>2. \A e \in S : sign * Sign(r) * Info[e].delta = -sign * Info[e].delta
  BY EventFacts DEF Sign
<1>3. \A e \in S : (Staked(e) = r /\ Info[e].staking) <=> e \in CountedIn(S, r)
  BY RowParts, Zenon DEF CountedIn
<1>4. ASSUME NEW i \in StakedItems(S, sign), i.row = r
      PROVE  \E e \in CountedIn(S, r) : i = ItemFor(e, r, sign)
  <2>1. PICK e \in S : /\ Info[e].staking
                       /\ i = [row |-> Staked(e), delta |-> -sign * Info[e].delta, of |-> e]
    BY Zenon DEF StakedItems
  <2>2. Staked(e) = r
    BY <1>4, <2>1, Zenon
  <2> QED
    BY <1>2, <1>3, <2>1, <2>2, Zenon DEF ItemFor
<1>5. ASSUME NEW e \in CountedIn(S, r) PROVE ItemFor(e, r, sign) \in StakedItems(S, sign)
  <2>1. e \in S /\ Staked(e) = r /\ Info[e].staking
    BY <1>3, Zenon DEF CountedIn
  <2>2. ItemFor(e, r, sign) = [row |-> Staked(e), delta |-> -sign * Info[e].delta, of |-> e]
    BY <1>2, <2>1, Zenon DEF ItemFor
  <2> QED
    BY <2>1, <2>2, Zenon DEF StakedItems
<1>6. ASSUME NEW i \in LiquidItems(S, sign) PROVE i.row # r
  <2>1. PICK e \in S : i = [row |-> Liquid(e), delta |-> sign * Info[e].delta, of |-> e]
    BY Zenon DEF LiquidItems
  <2> QED
    BY <2>1, RowParts, Zenon
<1> QED
  BY <1>4, <1>5, <1>6, Zenon DEF NamedBy, NoneNames

\* The items that name any one row.
LEMMA ItemsOf ==
    ASSUME NEW S \in SUBSET Events, NEW sign \in {1, -1}, NEW r \in BalanceRows
    PROVE  NamedBy(Items(S, sign), S, r, sign)
<1> DEFINE L == LiquidItems(S, sign)
           K == StakedItems(S, sign)
<1>1. \/ NamedBy(L, S, r, sign) /\ NoneNames(K, r)
      \/ NamedBy(K, S, r, sign) /\ NoneNames(L, r)
  BY LiquidItemsOf, StakedItemsOf, Zenon
<1>2. Items(S, sign) = L \cup K
  BY Zenon DEF Items
<1> HIDE DEF L, K
<1> QED
  BY <1>1, <1>2, Zenon DEF NamedBy, NoneNames

\* Sums of events: numbers, nothing for no event, one event's delta for one, and
\* additive.
LEMMA SumsOfEvents ==
    ASSUME NEW S \in SUBSET Events, NEW T \in SUBSET Events, S \cap T = {}, NEW s \in {1, -1}
    PROVE  /\ SumOf(S, s) \in Int /\ SumOf(T, s) \in Int
           /\ SumOf({}, s) = 0
           /\ \A e \in Events : SumOf({e}, s) = s * Info[e].delta
           /\ SumOf(S \cup T, s) = SumOf(S, s) + SumOf(T, s)
<1> DEFINE d == [e \in Events |-> s * Info[e].delta]
<1>1. \A X : SumOf(X, s) = Sum(d, X)
  BY Zenon DEF SumOf, Sum
<1>2. \A e \in Events : d[e] = s * Info[e].delta /\ d[e] \in Int
  BY EventFacts
<1> HIDE DEF d
<1>3. Summable(d, Events)
  BY <1>2, LedgerAssumption, Zenon DEF Summable
<1>4. Summable(d, S) /\ Summable(d, T)
  BY <1>3, SummablePart, Zenon
<1>5. Sum(d, S) \in Int /\ Sum(d, T) \in Int /\ Sum(d, {}) = 0
  BY <1>4, SumType, SumEmpty, Zenon
<1>6. \A e \in Events : Sum(d, {e}) = d[e]
  BY <1>2, SumSingleton, Zenon
<1>7. Sum(d, S \cup T) = Sum(d, S) + Sum(d, T)
  BY <1>4, SumUnion, Zenon
<1>8. \A e \in Events : SumOf({e}, s) = s * Info[e].delta
  BY <1>1, <1>2, <1>6, Zenon
<1>9. SumOf(S \cup T, s) = SumOf(S, s) + SumOf(T, s)
  <2>1. SumOf(S, s) = Sum(d, S) /\ SumOf(T, s) = Sum(d, T) /\ SumOf(S \cup T, s) = Sum(d, S \cup T)
    BY <1>1, Zenon
  <2> QED
    BY <1>7, <2>1, Zenon
<1> QED
  BY <1>1, <1>5, <1>8, <1>9, Zenon

\* The amount of a row moves by the events of S that count in it.
MovesBy(bal, new, S, r, sign) ==
    AmountOf(new, r) = AmountOf(bal, r) + SumOf(CountedIn(S, r), sign * Sign(r))

\* The events that count in a row, and the sign of the sum.
LEMMA CountedFacts ==
    ASSUME NEW S \in SUBSET Events, NEW r \in BalanceRows, NEW sign \in {1, -1}
    PROVE  /\ CountedIn(S, r) \in SUBSET Events /\ sign * Sign(r) \in {1, -1}
           /\ SumOf({}, sign * Sign(r)) = 0
           /\ \A e \in Events : SumOf({e}, sign * Sign(r)) = sign * Sign(r) * Info[e].delta
<1>1. Sign(r) \in {1, -1}
  BY RowParts, Zenon
<1>2. sign * Sign(r) \in {1, -1}
  BY <1>1
<1>3. CountedIn(S, r) \in SUBSET Events
  BY Zenon DEF CountedIn
<1>4. {} \in SUBSET Events /\ {} \cap {} = {}
  BY Zenon
<1> QED
  BY <1>2, <1>3, <1>4, SumsOfEvents, Zenon

\* The sum of one event.
LEMMA OneEventSum ==
    ASSUME NEW e \in Events, NEW r \in BalanceRows, NEW sign \in {1, -1}
    PROVE  SumOf({e}, sign * Sign(r)) = sign * Sign(r) * Info[e].delta
<1>1. {e} \in SUBSET Events
  OBVIOUS
<1> QED
  BY <1>1, CountedFacts, Zenon

\* Where the items of a row, if any, are those of one event, the statement moves it
\* by that event.
LEMMA OneItemMoves ==
    ASSUME NEW S \in SUBSET Events, NEW sign \in {1, -1}, NEW r \in BalanceRows,
           NEW items, NEW bal, NEW new,
           NamedBy(items, S, r, sign), r \notin Repeated(items),
           Adjusts(bal, new, items), AmountOf(bal, r) \in Int
    PROVE  MovesBy(bal, new, S, r, sign)
<1>1. CASE CountedIn(S, r) = {}
  <2>1. AmountOf(new, r) = AmountOf(bal, r)
    BY <1>1, Zenon DEF Adjusts, NamedBy
  <2>2. SumOf(CountedIn(S, r), sign * Sign(r)) = 0
    BY <1>1, CountedFacts, Zenon
  <2> QED
    BY <2>1, <2>2 DEF MovesBy
<1>2. CASE CountedIn(S, r) # {}
  <2>1. PICK e \in CountedIn(S, r) : TRUE
    BY <1>2, Zenon
  <2> DEFINE i == ItemFor(e, r, sign)
  <2>2. i \in items /\ i.row = r /\ i.delta = sign * Sign(r) * Info[e].delta
    BY Zenon DEF ItemFor, NamedBy
  <2>3. CountedIn(S, r) = {e}
    <3>1. ASSUME NEW x \in CountedIn(S, r) PROVE x = e
      <4> DEFINE j == ItemFor(x, r, sign)
      <4>1. j \in items /\ j.row = r /\ j.of = x /\ i.of = e
        BY Zenon DEF ItemFor, NamedBy
      <4> HIDE DEF i, j
      <4>2. i = j
        BY <2>2, <4>1, Zenon DEF Repeated, RowsOf
      <4> QED
        BY <4>1, <4>2, Zenon
    <3> QED
      BY <3>1, Zenon
  <2> HIDE DEF i
  <2>4. AmountOf(new, r) = AmountOf(bal, r) + sign * Sign(r) * Info[e].delta
    BY <2>2, Zenon DEF Adjusts
  <2>5. SumOf({e}, sign * Sign(r)) = sign * Sign(r) * Info[e].delta
    <3>1. e \in Events
      BY <2>1, Zenon DEF CountedIn
    <3> QED BY <3>1, OneEventSum, Zenon
  <2> QED
    BY <2>3, <2>4, <2>5, Zenon DEF MovesBy
<1> QED
  BY <1>1, <1>2, Zenon

\* One statement with an item per event, as a promotion runs it.
LEMMA ItemsMove ==
    ASSUME NEW S \in SUBSET Events, NEW sign \in {1, -1}, NEW r \in BalanceRows,
           NEW bal, BalancesTyped(bal), NEW new \in BulkAdjustBalance(bal, Items(S, sign)),
           r \notin Repeated(Items(S, sign))
    PROVE  MovesBy(bal, new, S, r, sign)
<1> DEFINE items == Items(S, sign)
<1>1. ItemsTyped(items)
  BY ItemsOfEvents, Zenon DEF Items, ItemsTyped
<1>2. NamedBy(items, S, r, sign)
  BY ItemsOf, Zenon
<1> HIDE DEF items
<1>3. Adjusts(bal, new, items)
  BY <1>1, BulkAdjusts, Zenon DEF items
<1>4. AmountOf(bal, r) \in Int
  BY DEF AmountOf, BalancesTyped
<1>5. r \notin Repeated(items)
  BY Zenon DEF items
<1> QED
  BY <1>2, <1>3, <1>4, <1>5, OneItemMoves, Zenon

\* Two statements, first for the liquid rows and then for the staked ones, as a
\* purge runs them.
LEMMA TwoStatementsMove ==
    ASSUME NEW S \in SUBSET Events, NEW sign \in {1, -1}, NEW r \in BalanceRows,
           NEW bal, BalancesTyped(bal), NEW mid \in BulkAdjustBalance(bal, LiquidItems(S, sign)),
           NEW new \in BulkAdjustBalance(mid, StakedItems(S, sign)),
           r \notin Repeated(Items(S, sign))
    PROVE  MovesBy(bal, new, S, r, sign)
<1> DEFINE L == LiquidItems(S, sign)
           K == StakedItems(S, sign)
<1>1. ItemsTyped(L) /\ ItemsTyped(K)
  BY ItemsOfEvents, Zenon
<1>2. r \notin Repeated(L) /\ r \notin Repeated(K)
  BY Zenon DEF Repeated, RowsOf, Items
<1>l. IsLiquid(r) => NamedBy(L, S, r, sign) /\ NoneNames(K, r)
  BY LiquidItemsOf, Zenon
<1>k. ~IsLiquid(r) => NamedBy(K, S, r, sign) /\ NoneNames(L, r)
  BY StakedItemsOf, Zenon
<1> HIDE DEF L, K
<1>3. Adjusts(bal, mid, L)
  BY <1>1, BulkAdjusts, Zenon DEF L
<1>t. BalancesTyped(mid)
  BY <1>3, Zenon DEF Adjusts
<1>4. Adjusts(mid, new, K)
  BY <1>1, <1>t, BulkAdjusts, Zenon DEF K
<1>5. AmountOf(bal, r) \in Int /\ AmountOf(mid, r) \in Int
  BY <1>t DEF AmountOf, BalancesTyped
<1>6. CASE IsLiquid(r)
  <2>1. MovesBy(bal, mid, S, r, sign)
    BY <1>2, <1>3, <1>5, <1>6, <1>l, OneItemMoves, Zenon
  <2>2. AmountOf(new, r) = AmountOf(mid, r)
    BY <1>4, <1>6, <1>l, Zenon DEF Adjusts, NoneNames
  <2> QED
    BY <2>1, <2>2, Zenon DEF MovesBy
<1>7. CASE ~IsLiquid(r)
  <2>1. MovesBy(mid, new, S, r, sign)
    BY <1>2, <1>4, <1>5, <1>7, <1>k, OneItemMoves, Zenon
  <2>2. AmountOf(mid, r) = AmountOf(bal, r)
    BY <1>3, <1>7, <1>k, Zenon DEF Adjusts, NoneNames
  <2> QED
    BY <2>1, <2>2, Zenon DEF MovesBy
<1> QED
  BY <1>6, <1>7, Zenon

\* One statement with an item per row, the sum of the events' items, as a batch runs
\* it: it moves each row by the events that count in it.
LEMMA AggregateMoves ==
    ASSUME NEW S \in SUBSET Events, NEW r \in BalanceRows, NEW bal, BalancesTyped(bal),
           NEW new \in BulkAdjustBalance(bal, Aggregated(Items(S, 1)))
    PROVE  MovesBy(bal, new, S, r, 1)
<1> DEFINE items == Items(S, 1)
           agg == Aggregated(items)
           delta == [i \in items |-> i.delta]
           At(q) == {i \in items : i.row = q}
           C == CountedIn(S, r)
           g == [e \in Events |-> ItemFor(e, r, 1)]
           d == [e \in Events |-> 1 * Sign(r) * Info[e].delta]
           h == [x \in C |-> delta[g[x]]]
<1>1. ItemsTyped(items) /\ IsFiniteSet(items)
  BY ItemsOfEvents, Zenon DEF Items, ItemsTyped
<1>2. C \in SUBSET Events /\ IsFiniteSet(C)
  <2>1. IsFiniteSet(Events)
    BY LedgerAssumption, Zenon
  <2>2. C \in SUBSET Events
    BY Zenon DEF CountedIn
  <2> QED
    BY <2>1, <2>2, FS_Subset, Zenon
<1>3. /\ \A i \in items : i.row = r => \E e \in C : i = ItemFor(e, r, 1)
      /\ \A e \in C : ItemFor(e, r, 1) \in items
  <2>1. 1 \in {1, -1}
    BY Zenon
  <2>2. NamedBy(items, S, r, 1)
    BY <2>1, ItemsOf, Zenon
  <2> QED BY <2>2, Zenon DEF NamedBy
<1>4. \A e \in Events : g[e] = ItemFor(e, r, 1) /\ g[e].row = r /\ g[e].of = e
                          /\ g[e].delta = 1 * Sign(r) * Info[e].delta
  BY Zenon DEF ItemFor
<1>5. \A x \in C : delta[g[x]] = d[x] /\ d[x] \in Int /\ h[x] = delta[g[x]]
  <2>1. ASSUME NEW x \in C PROVE delta[g[x]] = d[x] /\ d[x] \in Int
    <3>1. x \in Events /\ g[x] \in items
      BY <1>2, <1>3, <1>4, Zenon
    <3>2. delta[g[x]] = g[x].delta
      <4> HIDE DEF g, items
      <4> QED
        BY <3>1, Zenon
    <3>3. d[x] = 1 * Sign(r) * Info[x].delta
      BY <3>1, Zenon
    <3>4. Sign(r) \in {1, -1} /\ Info[x].delta \in Int
      BY <3>1, RowParts, EventFacts, Zenon
    <3>5. d[x] \in Int
      <4> HIDE DEF d
      <4> QED
        BY <3>3, <3>4
    <3> HIDE DEF d, delta, g
    <3> QED
      BY <1>4, <3>1, <3>2, <3>3, <3>5, Zenon
  <2>2. \A x \in C : h[x] = delta[g[x]]
    <3> HIDE DEF C, delta, g
    <3> QED
      BY Zenon
  <2> HIDE DEF h, delta, g, d, C
  <2> QED
    BY <2>1, <2>2, Zenon
<1>6. At(r) = {g[x] : x \in C}
  <2> HIDE DEF g, items, C
  <2> QED
    BY <1>2, <1>3, <1>4
<1>7. agg = {[row |-> q, delta |-> Sum(delta, At(q)), of |-> 0] : q \in RowsOf(items)}
  BY Zenon DEF Aggregated, Sum
<1>8. SumOf(C, 1 * Sign(r)) = Sum(d, C)
  BY Zenon DEF SumOf, Sum
<1>a. \A x, y \in C : g[x] = g[y] => x = y
  <2> HIDE DEF g, C
  <2> QED
    BY <1>2, <1>4, Zenon
<1>h. h = [x \in C |-> delta[g[x]]]
  BY Zenon
<1>t. \A i \in items : i.row \in RowsOf(items)
  BY Zenon DEF RowsOf
<1>u. \A q \in RowsOf(items) : \E i \in items : i.row = q
  BY Zenon DEF RowsOf
<1> HIDE DEF items, delta, C, g, d, h, At
<1>9. Sum(delta, At(r)) = Sum(d, C)
  <2>1. \A x \in C : delta[g[x]] \in Int
    BY <1>5, Zenon
  <2>2. Sum(delta, ImageOf(g, C)) = Sum(After(delta, g, C), C)
    BY <1>2, <1>a, <2>1, SumImage, Zenon
  <2>3. Summable(h, C) /\ \A x \in C : h[x] = d[x]
    BY <1>2, <1>5, Zenon DEF Summable
  <2>4. Sum(h, C) = Sum(d, C)
    BY <2>3, SumEqual, Zenon
  <2> QED
    BY <1>6, <1>h, <2>2, <2>4, Zenon DEF ImageOf, After
<1>10. ItemsTyped(agg)
  BY <1>1, AggregatedTyped, Zenon
<1>r. \A i, j \in agg : i.row = j.row => i = j
  BY <1>7
<1>s. \A q \in RowsOf(items) : [row |-> q, delta |-> Sum(delta, At(q)), of |-> 0] \in agg
  BY <1>7, Zenon
<1>v. \A i \in agg : i.row \in RowsOf(items)
  BY <1>7
<1> HIDE DEF agg
<1>11. Adjusts(bal, new, agg)
  BY <1>10, BulkAdjusts, Zenon DEF agg, items
<1>12. CASE C = {}
  <2>1. \A i \in agg : i.row # r
    BY <1>3, <1>12, <1>u, <1>v, Zenon
  <2>2. AmountOf(new, r) = AmountOf(bal, r) /\ AmountOf(bal, r) \in Int
    <3>1. AmountOf(bal, r) \in Int
      BY DEF AmountOf, BalancesTyped
    <3> QED
      BY <1>11, <2>1, <3>1, Zenon DEF Adjusts
  <2>3. SumOf(C, 1 * Sign(r)) = 0
    <3>1. 1 \in {1, -1}
      OBVIOUS
    <3> QED
      BY <1>12, <3>1, CountedFacts, Zenon
  <2> QED
    BY <2>2, <2>3 DEF MovesBy, C
<1>13. CASE C # {}
  <2> DEFINE j == [row |-> r, delta |-> Sum(delta, At(r)), of |-> 0]
  <2>1. r \in RowsOf(items)
    <3>1. PICK e \in C : TRUE
      BY <1>13, Zenon
    <3>2. ItemFor(e, r, 1) \in items /\ ItemFor(e, r, 1).row = r
      BY <1>3, Zenon DEF ItemFor
    <3> QED
      BY <1>t, <3>2, Zenon
  <2>2. j \in agg /\ j.row = r /\ j.delta = Sum(d, C)
    BY <1>9, <1>s, <2>1, Zenon
  <2> HIDE DEF j
  <2>3. j.row \notin Repeated(agg)
    BY <1>r, Zenon DEF Repeated
  <2>4. AmountOf(new, r) = AmountOf(bal, r) + Sum(d, C)
    BY <1>11, <2>2, <2>3, Zenon DEF Adjusts
  <2> QED
    BY <1>8, <2>4, Zenon DEF MovesBy, C
<1> QED
  BY <1>12, <1>13, Zenon

(***************************************************************************)
(* Balances: the flag and the sum never part.                              *)
(***************************************************************************)
\* An event that is not applied has the lowest finality, unless it moves nothing.
\* So a batch that credits it has at least its rank and the upsert marks it.
Low(row, e) == finality_rank(row.finality) = 0 \/ (Token(e) \notin Native /\ Info[e].delta = 0)
UnappliedLow == \A e \in DOMAIN rows : rows[e].applied \/ Low(rows[e], e)

\* Every row is exact that no statement is known to have missed, also one that is
\* not in the table yet.
Exactly(bal, A, r) == AmountOf(bal, r) = SumOf(CountedIn(A, r), Sign(r))
ExactInv == \A r \in BalanceRows \ drifted : Exactly(balances, AppliedIn(rows), r)

LedgerInv == TypeInv /\ UnappliedLow /\ ExactInv

\* finality_rank of a stored row is a number.
LEMMA StoredRank == ASSUME NEW row \in StoredRow PROVE finality_rank(row.finality) \in Nat
<1>1. row.finality \in Finalities \cup {"", "finalized"}
  BY Zenon DEF StoredRow
<1>2. row.finality \in States
  BY <1>1, LedgerAssumption, Zenon DEF States
<1> QED
  BY <1>2, RankType, Zenon

\* A batch that does not credit an event leaves it low.
LEMMA NewRowLow ==
    ASSUME NEW e, NEW f \in Finalities, ~meetsBalanceThreshold(e, f)
    PROVE  Low(NewRow(e, f), e)
<1>1. FinalityOf(e, f) \in States
  BY LedgerAssumption, Zenon DEF FinalityOf, States
<1>2. \A x \in States : finalityStateRank(x) >= 2 \/ finality_rank(x) = 0
  <2>1. /\ finalityStateRank("") = 4 /\ finalityStateRank("confirmed") = 2
        /\ finalityStateRank("safe") = 3 /\ finalityStateRank("finalized") = 4
        /\ finality_rank("processed") = 0
    BY Zenon DEF finalityStateRank, finality_rank
  <2> DEFINE high(x) == finalityStateRank(x) >= 2
  <2>2. 4 >= 2 /\ 2 >= 2 /\ 3 >= 2
    OBVIOUS
  <2> QED
    BY <2>1, <2>2, Zenon DEF States
<1>3. NewRow(e, f).finality = FinalityOf(e, f)
  BY Zenon DEF NewRow
<1> QED
  BY <1>1, <1>2, <1>3, Zenon DEF Low, meetsBalanceThreshold

\* What the upsert makes of one row: it keeps it, inserts it, or raises it.
Upserted(row, e, models, f) ==
    \/ /\ e \in DOMAIN rows /\ row = rows[e]
       /\ e \in models => ~(finality_rank(NewRow(e, f).finality) >= finality_rank(rows[e].finality))
    \/ e \in models \ DOMAIN rows /\ row = NewRow(e, f)
    \/ /\ e \in models \cap DOMAIN rows /\ row.finality = NewRow(e, f).finality
       /\ row.applied = (NewRow(e, f).applied \/ rows[e].applied)

\* BulkUpsertTx does one of the three to every row.
LEMMA UpsertRow ==
    ASSUME TypedRows(rows), NEW models, NEW f \in Finalities, NEW e \in DOMAIN rows \cup models
    PROVE  Upserted(BulkUpsert(models, f)[e], e, models, f)
<1> DEFINE row == BulkUpsert(models, f)[e]
           new == NewRow(e, f)
<1>1. row = IF e \notin models THEN rows[e]
            ELSE IF e \notin DOMAIN rows THEN new
            ELSE IF finality_rank(new.finality) >= finality_rank(rows[e].finality)
                 THEN [new EXCEPT !.applied = @ \/ rows[e].applied] ELSE rows[e]
  BY Zenon DEF BulkUpsert, NewRow
<1>2. new \in RowType
  BY NewRowSettled, Zenon
<1> HIDE DEF row, new
<1>3. /\ [new EXCEPT !.applied = @ \/ rows[e].applied].finality = new.finality
      /\ [new EXCEPT !.applied = @ \/ rows[e].applied].applied = (new.applied \/ rows[e].applied)
  BY <1>2, Zenon DEF RowType
<1>4. CASE e \notin models
  BY <1>1, <1>4, Zenon DEF row, Upserted
<1>5. CASE e \in models /\ e \notin DOMAIN rows
  BY <1>1, <1>5, Zenon DEF row, new, Upserted
<1>6. CASE e \in models /\ e \in DOMAIN rows /\ finality_rank(new.finality) >= finality_rank(rows[e].finality)
  <2>1. row = [new EXCEPT !.applied = @ \/ rows[e].applied]
    BY <1>1, <1>6, Zenon
  <2>2. row.finality = new.finality /\ row.applied = (new.applied \/ rows[e].applied)
    BY <1>3, <2>1, Zenon
  <2> QED
    BY <1>6, <2>2, Zenon DEF row, new, Upserted
<1>7. CASE e \in models /\ e \in DOMAIN rows /\ ~(finality_rank(new.finality) >= finality_rank(rows[e].finality))
  BY <1>1, <1>7, Zenon DEF row, new, Upserted
<1> QED
  BY <1>4, <1>5, <1>6, <1>7, Zenon

\* After the upsert the applied events are those from before and the credited ones.
LEMMA UpsertApplies ==
    ASSUME TypedRows(rows), UnappliedLow, NEW models \in SUBSET Events, NEW f \in Finalities,
           rows' = BulkUpsert(models, f)
    PROVE  /\ AppliedIn(rows') = AppliedIn(rows) \cup {e \in models : meetsBalanceThreshold(e, f)}
           /\ UnappliedLow'
<1>1. DOMAIN rows' = DOMAIN rows \cup models
  BY Zenon DEF BulkUpsert
<1>2. ASSUME NEW e \in DOMAIN rows \cup models
      PROVE  /\ rows'[e].applied <=> \/ e \in DOMAIN rows /\ rows[e].applied
                                     \/ e \in models /\ meetsBalanceThreshold(e, f)
             /\ rows'[e].applied \/ Low(rows'[e], e)
  <2> DEFINE row == rows'[e]
             new == NewRow(e, f)
  <2>n. /\ new.finality = FinalityOf(e, f) /\ (new.applied <=> meetsBalanceThreshold(e, f))
        /\ (meetsBalanceThreshold(e, f) \/ Low(new, e))
    <3>1. new.applied = meetsBalanceThreshold(e, f) /\ new.finality = FinalityOf(e, f)
      BY Zenon DEF NewRow
    <3> QED
      BY <3>1, NewRowLow, Zenon
  <2>o. e \in DOMAIN rows => rows[e] \in StoredRow /\ (rows[e].applied \/ Low(rows[e], e))
    BY Zenon DEF TypedRows, UnappliedLow
  <2>c. \/ e \in DOMAIN rows /\ row = rows[e]
             /\ (e \in models => ~(finality_rank(new.finality) >= finality_rank(rows[e].finality)))
        \/ e \in models \ DOMAIN rows /\ row = new
        \/ e \in models \cap DOMAIN rows /\ row.finality = new.finality
             /\ row.applied = (new.applied \/ rows[e].applied)
    <3>1. Upserted(row, e, models, f)
      BY UpsertRow, Zenon
    <3> QED
      BY <3>1, Zenon DEF Upserted
  <2>r. finality_rank(new.finality) >= 0
    <3>1. new \in RowType
      BY NewRowSettled, Zenon
    <3>2. new.finality \in States
      BY <3>1, Zenon DEF RowType
    <3>3. finality_rank(new.finality) \in Nat
      BY <3>2, RankType, Zenon
    <3> QED
      BY <3>3
  <2> HIDE DEF row, new
  <2>1. CASE e \in DOMAIN rows /\ row = rows[e]
               /\ (e \in models => ~(finality_rank(new.finality) >= finality_rank(rows[e].finality)))
    <3>1. e \in models /\ meetsBalanceThreshold(e, f) => rows[e].applied
      <4> SUFFICES ASSUME e \in models, meetsBalanceThreshold(e, f), ~rows[e].applied PROVE FALSE
        BY Zenon
      <4>1. finality_rank(rows[e].finality) # 0
        BY <2>1, <2>r, Zenon
      <4>2. Token(e) \notin Native /\ Info[e].delta = 0
        BY <2>1, <2>o, <4>1, Zenon DEF Low
      <4> QED
        BY <4>2, Zenon DEF meetsBalanceThreshold
    <3> QED
      BY <2>1, <2>o, <3>1, Zenon DEF row
  <2>2. CASE e \in models \ DOMAIN rows /\ row = new
    BY <2>2, <2>n, Zenon DEF row
  <2>3. CASE e \in models \cap DOMAIN rows /\ row.finality = new.finality
               /\ row.applied = (new.applied \/ rows[e].applied)
    <3>1. Low(new, e) => Low(row, e)
      BY <2>3, Zenon DEF Low
    <3> QED
      BY <2>3, <2>n, <3>1, Zenon DEF row
  <2> QED
    BY <2>c, <2>1, <2>2, <2>3, Zenon
<1>3. UnappliedLow'
  BY <1>1, <1>2, Zenon DEF UnappliedLow, Low
<1>4. AppliedIn(rows') = AppliedIn(rows) \cup {e \in models : meetsBalanceThreshold(e, f)}
  BY <1>1, <1>2, Zenon DEF AppliedIn
<1> QED
  BY <1>3, <1>4, Zenon

\* A row that was exact and moves by newly applied events stays exact.
LEMMA GrowsExact ==
    ASSUME NEW A \in SUBSET Events, NEW C \in SUBSET Events, NEW r \in BalanceRows,
           CountedIn(A, r) \cap CountedIn(C, r) = {}, NEW bal, NEW new,
           Exactly(bal, A, r), MovesBy(bal, new, C, r, 1)
    PROVE  Exactly(new, A \cup C, r)
<1>1. Sign(r) \in {1, -1}
  BY RowParts, Zenon
<1>2. 1 * Sign(r) = Sign(r)
  BY <1>1
<1>3. /\ CountedIn(A, r) \in SUBSET Events /\ CountedIn(C, r) \in SUBSET Events
      /\ CountedIn(A \cup C, r) = CountedIn(A, r) \cup CountedIn(C, r)
  BY Zenon DEF CountedIn
<1>4. SumOf(CountedIn(A, r) \cup CountedIn(C, r), Sign(r)) =
        SumOf(CountedIn(A, r), Sign(r)) + SumOf(CountedIn(C, r), Sign(r))
  BY <1>1, <1>3, SumsOfEvents, Zenon
<1>5. AmountOf(new, r) = AmountOf(bal, r) + SumOf(CountedIn(C, r), Sign(r))
  BY <1>2, Zenon DEF MovesBy
<1> QED
  BY <1>3, <1>4, <1>5, Zenon DEF Exactly

\* A row that was exact and is moved back by an event that goes stays exact.
LEMMA ShrinksExact ==
    ASSUME NEW B \in SUBSET Events, NEW R \in SUBSET Events, B \cap R = {}, NEW r \in BalanceRows,
           r \notin Repeated(Items(R, -1)), NEW bal, NEW new,
           Exactly(bal, B \cup R, r), MovesBy(bal, new, R, r, -1)
    PROVE  Exactly(new, B, r)
<1> DEFINE X == CountedIn(R, r)
           Y == CountedIn(B, r)
<1>1. Sign(r) \in {1, -1}
  BY RowParts, Zenon
<1>2. (-1) * Sign(r) \in {1, -1} /\ -1 \in {1, -1}
  BY <1>1
<1>3. /\ Y \in SUBSET Events /\ X \in SUBSET Events /\ Y \cap X = {}
      /\ CountedIn(B \cup R, r) = Y \cup X
  BY Zenon DEF CountedIn
<1>4. X = {} \/ \E e \in Events : X = {e}
  <2>1. ASSUME NEW x \in X, NEW y \in X PROVE x = y
    <3> DEFINE i == ItemFor(x, r, -1)
               j == ItemFor(y, r, -1)
    <3>1. i \in Items(R, -1) /\ j \in Items(R, -1)
      BY <1>2, ItemsOf, Zenon DEF NamedBy
    <3>2. i.row = r /\ j.row = r /\ i.of = x /\ j.of = y
      BY Zenon DEF ItemFor
    <3> HIDE DEF i, j
    <3>3. i = j
      BY <3>1, <3>2, Zenon DEF Repeated, RowsOf
    <3> QED
      BY <3>2, <3>3, Zenon
  <2> HIDE DEF X
  <2>2. CASE X # {}
    <3>1. PICK e \in X : TRUE
      BY <2>2, Zenon
    <3> QED
      BY <1>3, <2>1, <3>1
  <2> QED
    BY <2>2, Zenon
<1> HIDE DEF X, Y
<1>5. SumOf(X, (-1) * Sign(r)) = -SumOf(X, Sign(r))
  <2>1. /\ SumOf({}, Sign(r)) = 0 /\ SumOf({}, (-1) * Sign(r)) = 0
        /\ \A e \in Events : SumOf({e}, Sign(r)) = Sign(r) * Info[e].delta
        /\ \A e \in Events : SumOf({e}, (-1) * Sign(r)) = (-1) * Sign(r) * Info[e].delta
    BY <1>1, <1>2, <1>3, SumsOfEvents, Zenon
  <2>2. CASE X = {}
    BY <2>1, <2>2
  <2>3. ASSUME NEW e \in Events, X = {e} PROVE SumOf(X, (-1) * Sign(r)) = -SumOf(X, Sign(r))
    <3>1. Info[e].delta \in Int
      BY EventFacts, Zenon
    <3>2. (-1) * Sign(r) * Info[e].delta = -(Sign(r) * Info[e].delta)
      BY <1>1, <3>1
    <3> QED
      BY <2>1, <2>3, <3>2, Zenon
  <2> QED
    BY <1>4, <2>2, <2>3, Zenon
<1>6. /\ SumOf(Y \cup X, Sign(r)) = SumOf(Y, Sign(r)) + SumOf(X, Sign(r))
      /\ SumOf(Y, Sign(r)) \in Int /\ SumOf(X, Sign(r)) \in Int
  BY <1>1, <1>3, SumsOfEvents, Zenon
<1>7. AmountOf(new, r) = AmountOf(bal, r) + SumOf(X, (-1) * Sign(r))
  BY Zenon DEF MovesBy, X
<1>8. AmountOf(bal, r) = SumOf(Y \cup X, Sign(r))
  BY <1>3, Zenon DEF Exactly
<1> QED
  BY <1>5, <1>6, <1>7, <1>8 DEF Y, Exactly

\* A batch: rows of events that were applied before count as drifted, every other
\* row moves by what is newly applied.
LEMMA BatchExact ==
    ASSUME LedgerInv, NEW a, NEW b, NEW f \in Finalities, processBatch(a, b, f)
    PROVE  LedgerInv'
<1> DEFINE S == Batch(a, b)
           C == Credited(S, f)
           G == Again(S, f)
           A == AppliedIn(rows)
           models == buildEventModels(S, f).models
<1>1. TypeInv'
  BY BatchTyped, Zenon DEF LedgerInv
<1>2. /\ rows' = BulkUpsert(models, f)
      /\ balances' \in BulkAdjustBalance(balances, Aggregated(Items(C, 1)))
      /\ drifted' = drifted \cup RowsOf(Items(G, 1))
  BY BatchCommits
<1>3. models \in SUBSET Events
  BY BatchEvents, Zenon
<1>4. TypedRows(rows) /\ BalancesTyped(balances) /\ UnappliedLow
  BY Zenon DEF LedgerInv, TypeInv, TablesInv
<1>5. C = {e \in models : meetsBalanceThreshold(e, f)} /\ G = C \cap A
  BY Zenon DEF Credited, Again, AppliedIn
<1> HIDE DEF S, C, G, models
<1>6. AppliedIn(rows') = A \cup C /\ UnappliedLow'
  BY <1>2, <1>3, <1>4, <1>5, UpsertApplies, Zenon
<1>7. A \in SUBSET Events /\ C \in SUBSET Events /\ G \in SUBSET Events
  BY <1>3, <1>4, <1>5, Zenon DEF TypedRows, AppliedIn
<1> HIDE DEF A
<1>8. ASSUME NEW r \in BalanceRows \ drifted'
      PROVE  Exactly(balances', AppliedIn(rows'), r)
  <2>1. CountedIn(A, r) \cap CountedIn(C, r) = {}
    <3>1. 1 \in {1, -1} /\ r \in BalanceRows
      BY Zenon
    <3>2. \A e \in CountedIn(G, r) : ItemFor(e, r, 1) \in Items(G, 1)
      BY <1>7, <3>1, ItemsOf, Zenon DEF NamedBy
    <3>3. \A e : ItemFor(e, r, 1).row = r
      BY Zenon DEF ItemFor
    <3>4. r \notin RowsOf(Items(G, 1))
      BY <1>2, Zenon
    <3>5. CountedIn(G, r) = {}
      BY <3>2, <3>3, <3>4, Zenon DEF RowsOf
    <3> QED
      BY <1>5, <3>5, Zenon DEF CountedIn
  <2>2. MovesBy(balances, balances', C, r, 1)
    BY <1>2, <1>4, <1>7, AggregateMoves, Zenon
  <2>3. Exactly(balances, A, r)
    BY <1>2, Zenon DEF LedgerInv, ExactInv, A
  <2>4. r \in BalanceRows
    BY Zenon
  <2>5. Exactly(balances', A \cup C, r)
    BY <1>7, <2>1, <2>2, <2>3, <2>4, GrowsExact, Zenon
  <2> QED
    BY <1>6, <2>5, Zenon
<1> QED
  BY <1>1, <1>6, <1>8, Zenon DEF LedgerInv, ExactInv, Exactly, AmountOf

\* A purge: a row with one reversed event is moved back by it.
LEMMA PurgeExact ==
    ASSUME LedgerInv, NEW b \in 1..MaxBlock, Purge(b)
    PROVE  LedgerInv'
<1> DEFINE R == Reversed(b)
           B == AppliedIn(rows')
<1>1. TypeInv'
  BY PurgeTyped, Zenon DEF LedgerInv
<1>2. TypedRows(rows) /\ BalancesTyped(balances) /\ UnappliedLow
  BY Zenon DEF LedgerInv, TypeInv, TablesInv
<1>3. PICK mid \in BulkAdjustBalance(balances, LiquidItems(R, -1)) :
             balances' \in BulkAdjustBalance(mid, StakedItems(R, -1))
  BY Zenon DEF Purge
<1>4. /\ rows' = [e \in {x \in DOMAIN rows : Info[x].block < b} |-> rows[e]]
      /\ drifted' = drifted \cup Repeated(Items(R, -1))
  BY Zenon DEF Purge, Items
<1>5. /\ DOMAIN rows' = {x \in DOMAIN rows : Info[x].block < b}
      /\ \A e \in DOMAIN rows' : rows'[e] = rows[e]
  BY <1>4, Zenon
<1>6. AppliedIn(rows) = B \cup R /\ B \cap R = {}
  <2>1. \A e \in DOMAIN rows : Info[e].block \in Int
    <3>1. \A e \in DOMAIN rows : Info[e].block \in 1..MaxBlock
      BY <1>2, LedgerAssumption, Zenon DEF TypedRows
    <3> QED
      BY <3>1
  <2>2. \A e \in DOMAIN rows : (Info[e].block < b) <=> ~(Info[e].block >= b)
    BY <2>1
  <2> QED
    BY <1>5, <2>2, Zenon DEF AppliedIn, Reversed
<1>7. B \in SUBSET Events /\ R \in SUBSET Events
  BY <1>2, <1>6, Zenon DEF TypedRows, AppliedIn
<1>8. UnappliedLow'
  BY <1>2, <1>5, Zenon DEF UnappliedLow, Low
<1> HIDE DEF B, R
<1>9. ASSUME NEW r \in BalanceRows \ drifted'
      PROVE  Exactly(balances', B, r)
  <2>1. r \in BalanceRows /\ r \notin Repeated(Items(R, -1)) /\ r \notin drifted /\ -1 \in {1, -1}
    BY <1>4, Zenon
  <2>2. MovesBy(balances, balances', R, r, -1)
    BY <1>2, <1>3, <1>7, <2>1, TwoStatementsMove, Zenon
  <2>3. Exactly(balances, B \cup R, r)
    BY <1>6, <2>1, Zenon DEF LedgerInv, ExactInv
  <2> QED
    BY <1>6, <1>7, <2>1, <2>2, <2>3, ShrinksExact, Zenon
<1> QED
  BY <1>1, <1>8, <1>9, Zenon DEF LedgerInv, ExactInv, Exactly, AmountOf, B

\* A promotion: a row with one promoted event is moved by it.
LEMMA PromotionExact ==
    ASSUME LedgerInv, handleFinalityPromotion
    PROVE  LedgerInv'
<1> DEFINE b == Head(finalityCh)
           P == Promoted(b)
           A == AppliedIn(rows)
<1>1. TypeInv'
  BY PromotionTyped, Zenon DEF LedgerInv
<1>2. TypedRows(rows) /\ BalancesTyped(balances) /\ UnappliedLow
  BY Zenon DEF LedgerInv, TypeInv, TablesInv
<1>3. /\ rows' = PromotedRows(b)
      /\ balances' \in BulkAdjustBalance(balances, Items(P, 1))
      /\ drifted' = drifted \cup Repeated(Items(P, 1))
  BY Zenon DEF handleFinalityPromotion, PromotionItems, Items, PromotedRows
<1>4. DOMAIN rows' = DOMAIN rows
  BY <1>3, Zenon DEF PromotedRows
<1>5. ASSUME NEW e \in DOMAIN rows
      PROVE  /\ rows'[e].applied <=> rows[e].applied \/ e \in P
             /\ e \in P => ~rows[e].applied
             /\ rows'[e].applied \/ Low(rows'[e], e)
  <2> DEFINE mid == Finalized(b)[e]
  <2>1. rows[e] \in StoredRow /\ (rows[e].applied \/ Low(rows[e], e))
    BY <1>2, Zenon DEF TypedRows, UnappliedLow
  <2>2. mid = IF Info[e].block <= b /\ rows[e].finality # ""
              THEN [rows[e] EXCEPT !.finality = "finalized"] ELSE rows[e]
    BY Zenon DEF Finalized
  <2>3. rows'[e] = [mid EXCEPT !.applied = @ \/ e \in P]
    BY <1>3, Zenon DEF PromotedRows
  <2>4. e \in P <=> (Info[e].block <= b /\ ~rows[e].applied /\ mid.finality = "finalized")
    BY Zenon DEF Promoted
  <2> HIDE DEF mid, P, b
  <2>5. mid \in StoredRow /\ mid.applied = rows[e].applied
    BY <2>1, <2>2, Zenon DEF StoredRow
  <2>6. rows'[e].finality = mid.finality /\ rows'[e].applied = (mid.applied \/ e \in P)
    BY <2>3, <2>5, Zenon DEF StoredRow
  <2>7. e \notin P /\ ~rows[e].applied => mid.finality = rows[e].finality
    <3>1. CASE Info[e].block <= b /\ rows[e].finality # ""
      <4>1. mid.finality = "finalized"
        BY <2>1, <2>2, <3>1, Zenon DEF StoredRow
      <4> QED
        BY <2>4, <3>1, <4>1, Zenon
    <3>2. CASE ~(Info[e].block <= b /\ rows[e].finality # "")
      BY <2>2, <3>2, Zenon
    <3> QED
      BY <3>1, <3>2, Zenon
  <2>8. rows'[e].applied \/ Low(rows'[e], e)
    BY <2>1, <2>5, <2>6, <2>7, Zenon DEF Low
  <2> QED
    BY <2>4, <2>5, <2>6, <2>8, Zenon
<1>6. AppliedIn(rows') = A \cup P /\ A \cap P = {} /\ P \subseteq DOMAIN rows
  <2>1. P \subseteq DOMAIN rows
    BY Zenon DEF Promoted
  <2> HIDE DEF P
  <2> QED
    BY <1>4, <1>5, <2>1, Zenon DEF AppliedIn
<1>7. UnappliedLow'
  BY <1>4, <1>5, Zenon DEF UnappliedLow, Low
<1>8. A \in SUBSET Events /\ P \in SUBSET Events
  BY <1>2, <1>6, Zenon DEF TypedRows, AppliedIn
<1> HIDE DEF A, P, b
<1>9. ASSUME NEW r \in BalanceRows \ drifted'
      PROVE  Exactly(balances', AppliedIn(rows'), r)
  <2>1. r \in BalanceRows /\ r \notin Repeated(Items(P, 1)) /\ r \notin drifted /\ 1 \in {1, -1}
    BY <1>3, Zenon
  <2>2. MovesBy(balances, balances', P, r, 1)
    BY <1>2, <1>3, <1>8, <2>1, ItemsMove, Zenon
  <2>3. Exactly(balances, A, r)
    BY <2>1, Zenon DEF LedgerInv, ExactInv, A
  <2>4. CountedIn(A, r) \cap CountedIn(P, r) = {}
    BY <1>6, Zenon DEF CountedIn
  <2>5. Exactly(balances', A \cup P, r)
    BY <1>8, <2>1, <2>2, <2>3, <2>4, GrowsExact, Zenon
  <2> QED
    BY <1>6, <2>5, Zenon
<1> QED
  BY <1>1, <1>7, <1>9, Zenon DEF LedgerInv, ExactInv, Exactly, AmountOf

\* Nothing is applied and nothing held at first.
LEMMA LedgerInvInit == Init => LedgerInv
<1> SUFFICES ASSUME Init PROVE LedgerInv
  OBVIOUS
<1>1. TypeInv
  BY TypeInvInit, Zenon
<1>2. DOMAIN rows = {} /\ DOMAIN balances = {}
  BY DEF Init
<1>3. UnappliedLow
  BY <1>2, Zenon DEF UnappliedLow
<1>4. ASSUME NEW r \in BalanceRows
      PROVE  Exactly(balances, AppliedIn(rows), r)
  <2>1. CountedIn(AppliedIn(rows), r) = {}
    BY <1>2, Zenon DEF CountedIn, AppliedIn
  <2>2. Sign(r) \in {1, -1} /\ {} \in SUBSET Events /\ {} \cap {} = {}
    BY RowParts, Zenon
  <2>3. SumOf({}, Sign(r)) = 0
    BY <2>2, SumsOfEvents, Zenon
  <2> QED
    BY <1>2, <2>1, <2>3, Zenon DEF AmountOf, Exactly
<1> QED
  BY <1>1, <1>3, <1>4, Zenon DEF LedgerInv, ExactInv

\* LedgerInv is inductive, one case per kind of step.
LEMMA LedgerInvStep == LedgerInv /\ [Next]_vars => LedgerInv'
<1> SUFFICES ASSUME LedgerInv, [Next]_vars PROVE LedgerInv'
  BY Zenon
<1>1. ASSUME TypeInv', rows' = rows, balances' = balances, drifted' = drifted PROVE LedgerInv'
  BY <1>1, Zenon DEF LedgerInv, UnappliedLow, Low, ExactInv, Exactly, AmountOf
<1>2. TypeInv
  BY Zenon DEF LedgerInv
<1> QED
  BY <1>1, <1>2, BatchExact, PurgeExact, PromotionExact, OtherTyped, Zenon DEF Next, Ingest, Promotion

\* For every set of events, deltas, batches and orders of batches, finality changes,
\* promotions, purges, roll backs, evictions and restarts, a balances row that no
\* known inexact statement touched is the sum of the stored events that are marked
\* as applied: what the flag says and what was added never part.
THEOREM BalancesExactAlways == Spec => []BalancesExact
<1>1. LedgerInv => BalancesExact
  <2> SUFFICES ASSUME LedgerInv, NEW r \in DOMAIN balances \ drifted
               PROVE  balances[r] = Expected(r)
    BY Zenon DEF BalancesExact
  <2>1. r \in BalanceRows \ drifted
    BY Zenon DEF LedgerInv, TypeInv, TablesInv, BalancesTyped
  <2>2. AmountOf(balances, r) = Expected(r)
    BY <2>1, ExpectedIs, Zenon DEF LedgerInv, ExactInv, Exactly
  <2> QED
    BY <2>2, Zenon DEF AmountOf
<1> QED
  BY <1>1, LedgerInvInit, LedgerInvStep, PTL DEF Spec
==============================================================================
