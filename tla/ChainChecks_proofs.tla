------------------------ MODULE ChainChecks_proofs --------------------------
(***************************************************************************)
(* Proofs about the two services that compare what is stored with the      *)
(* chain: the reorg detector, for every chain length, every set of indexed *)
(* heights, every query limit, check depth and channel capacity, and the   *)
(* reconciliation of balances, for every set of watched addresses.         *)
(***************************************************************************)
EXTENDS ReorgDetector, Reconciliation, FiniteSetTheorems, TLAPS

(***************************************************************************)
(* ReorgDetector: no row past the watermark, no false alarm, no rollback   *)
(* below the lowest fork.                                                  *)
(***************************************************************************)
\* What the properties need to know of the state's types.
Shape ==
    /\ chain \in Seq(Nat) /\ Len(chain) >= 1 /\ finalized \in Nat /\ reorgs \in Nat
    /\ DOMAIN indexed \subseteq Nat \ {0}
    /\ watermark \in Nat
    /\ inflight.upto \in Nat
    /\ DOMAIN inflight.rows \subseteq Nat \ {0}
    /\ reorgCh \in Seq(Nat \ {0})
    /\ check.pc = "emit" => check.fork \in Nat \ {0}
    /\ check.pc = "verify" => DOMAIN check.todo \subseteq Nat \ {0}

\* A check only ever looks at rows of the table.
LEMMA ToCheckIndexed == ToCheck \subseteq DOMAIN indexed
BY Zenon DEF ToCheck, Listed, Newest, Unfinalized, Heights

\* The initial state has the shape.
LEMMA ShapeInit == Init => Shape
BY DEF Init, Shape, Empty, NoBatch, Idle

\* Going on to the next row reports nothing and keeps the remaining rows.
LEMMA AdvanceKeeps ==
    ASSUME NEW n, NEW verified, Advance(n, verified)
    PROVE  /\ check'.pc # "emit"
           /\ check'.pc = "verify" =>
                 /\ DOMAIN check'.todo \subseteq DOMAIN check.todo
                 /\ \A m \in DOMAIN check'.todo : check'.todo[m] = check.todo[m]
BY DEF Advance, Idle

\* Every step keeps the shape, one case per action.
LEMMA ShapeNext == Shape /\ [Next]_vars => Shape'
<1> SUFFICES ASSUME Shape, [Next]_vars PROVE Shape'
  BY Zenon
<1> USE DetectorConstants
<1>1. CASE NewBlock
  <2>1. chain' \in Seq(Nat) /\ Len(chain') >= 1
    BY <1>1 DEF NewBlock, Shape
  <2>2. finalized' \in Nat
    BY <1>1 DEF NewBlock, Larger, Shape
  <2> QED
    BY <1>1, <2>1, <2>2, Zenon DEF NewBlock, Shape, dbVars, detectorVars, finalizerVars
<1>2. ASSUME NEW fork \in 1..Len(chain), NEW len \in 1..Len(chain), ChainReorg(fork, len)
      PROVE  Shape'
  <2>1. \A n \in 1..len : chain[n] \in Nat
    BY DEF Shape
  <2>2. chain' \in [1..len -> Nat]
    BY <1>2, <2>1 DEF ChainReorg, Shape
  <2>3. chain' \in Seq(Nat) /\ Len(chain') = len
    BY <2>2
  <2> QED
    BY <1>2, <2>3 DEF ChainReorg, Shape, dbVars, detectorVars, finalizerVars
<1>3. ASSUME NEW end \in 1..Len(chain), ScanBlocks(end)
      PROVE  Shape'
  BY <1>3 DEF ScanBlocks, Shape, chainVars, dbVars, detectorVars, finalizerVars
<1>4. CASE CommitBatch
  <2>1. watermark' \in Nat
    BY <1>4, Zenon DEF CommitBatch, Larger, Shape
  <2>2. DOMAIN indexed' \subseteq Nat \ {0}
    BY <1>4, Zenon DEF CommitBatch, BulkUpsert, Shape
  <2> QED
    BY <1>4, <2>1, <2>2, Zenon DEF CommitBatch, Shape, NoBatch, Empty, chainVars, detectorVars, finalizerVars
<1>5. CASE StartCheck
  <2>1. ToCheck \subseteq Nat \ {0}
    BY ToCheckIndexed, Zenon DEF Shape
  <2>2. UNCHANGED <<chainVars, dbVars, inflight, reorgCh>>
    BY <1>5, Zenon DEF StartCheck
  <2>3. /\ check'.pc = "emit" => check'.fork \in Nat \ {0}
        /\ check'.pc = "verify" => DOMAIN check'.todo \subseteq Nat \ {0}
    <3>1. \/ check' = Idle
          \/ \E n \in ToCheck : check' = Report(n)
          \/ check' = [pc |-> "verify", down |-> Cut, first |-> TRUE, verified |-> {},
                       todo |-> [n \in ToCheck |-> indexed[n]]]
      BY <1>5, Zenon DEF StartCheck
    <3>2. CASE check' = Idle
      BY <3>2, Zenon DEF Idle
    <3>3. CASE \E n \in ToCheck : check' = Report(n)
      BY <2>1, <3>3 DEF Report
    <3>4. CASE check' = [pc |-> "verify", down |-> Cut, first |-> TRUE, verified |-> {},
                         todo |-> [n \in ToCheck |-> indexed[n]]]
      <4>1. DOMAIN check'.todo = ToCheck /\ check'.pc = "verify"
        BY <3>4, Zenon
      <4> QED
        BY <2>1, <4>1, Zenon
    <3> QED
      BY <3>1, <3>2, <3>3, <3>4, Zenon
  <2> QED
    BY <2>2, <2>3, Zenon DEF Shape, chainVars, dbVars
<1>6. CASE VerifyNext
  <2>1. PICK n \in DOMAIN check.todo : VerifyBlock(n)
    BY <1>6, Zenon DEF VerifyNext
  <2>2. UNCHANGED <<chainVars, dbVars, inflight, reorgCh>>
    BY <2>1, Zenon DEF VerifyBlock
  <2>3. check' = Report(n) \/ \E verified : Advance(n, verified)
    BY <2>1, Zenon DEF VerifyBlock
  <2>4. check.pc = "verify"
    BY <1>6, Zenon DEF VerifyNext
  <2>5. /\ check'.pc = "emit" => check'.fork \in Nat \ {0}
        /\ check'.pc = "verify" => DOMAIN check'.todo \subseteq Nat \ {0}
    BY <2>1, <2>3, <2>4, AdvanceKeeps DEF Report, Shape
  <2> QED
    BY <2>2, <2>5, Zenon DEF Shape, chainVars, dbVars
<1>7. CASE EmitReorg
  BY <1>7 DEF EmitReorg, Shape, Idle, chainVars, dbVars
<1>8. CASE HandleReorg
  <2>1. Head(reorgCh) \in Nat \ {0} /\ Tail(reorgCh) \in Seq(Nat \ {0})
    BY <1>8 DEF HandleReorg, Shape
  <2>2. watermark' \in Nat
    BY <1>8, <2>1 DEF HandleReorg, RollbackFrom, Larger
  <2>3. DOMAIN indexed' \subseteq Nat \ {0}
    BY <1>8, Zenon DEF HandleReorg, RollbackFrom, Heights, Shape
  <2> QED
    BY <1>8, <2>1, <2>2, <2>3, Zenon DEF HandleReorg, Shape, chainVars, detectorVars
<1>9. CASE HandleFinalityPromotion
  BY <1>9, Zenon DEF HandleFinalityPromotion, Heights, Shape, chainVars, detectorVars
<1>10. CASE SendPromotion
  BY <1>10, Zenon DEF SendPromotion, Shape, chainVars, dbVars, detectorVars
<1>11. CASE PurgeFinalizedBefore
  BY <1>11, Zenon DEF PurgeFinalizedBefore, Heights, Shape, chainVars, detectorVars
<1>12. CASE UNCHANGED vars
  BY <1>12, Zenon DEF vars, Shape, chainVars, dbVars, detectorVars
<1> QED
  BY <1>1, <1>2, <1>3, <1>4, <1>5, <1>6, <1>7, <1>8, <1>9, <1>10, <1>11, <1>12, Zenon DEF Next

-----------------------------------------------------------------------------
(* No row above the watermark *)

\* A batch in flight brings no row above the height it moves the watermark to.
WatermarkInv == RowsBelowWatermark /\ \A n \in DOMAIN inflight.rows : n <= inflight.upto

\* WatermarkInv is inductive: commits raise rows and watermark together,
\* rollbacks lower both.
LEMMA WatermarkNext == Shape /\ WatermarkInv /\ [Next]_vars => WatermarkInv'
<1> SUFFICES ASSUME Shape, WatermarkInv, [Next]_vars PROVE WatermarkInv'
  BY Zenon
<1> USE DEF WatermarkInv, RowsBelowWatermark, Heights
<1>1. ASSUME NEW end \in 1..Len(chain), ScanBlocks(end)
      PROVE  WatermarkInv'
  BY <1>1 DEF ScanBlocks, Shape, dbVars
<1>2. CASE CommitBatch
  BY <1>2 DEF CommitBatch, BulkUpsert, Larger, NoBatch, Empty, Shape
<1>3. CASE HandleReorg
  <2>1. Head(reorgCh) \in Nat \ {0}
    BY <1>3 DEF HandleReorg, Shape
  <2>2. watermark' = Head(reorgCh) - 1
    BY <1>3, <2>1 DEF HandleReorg, RollbackFrom, Larger
  <2>3. \A n \in DOMAIN indexed' : n \in Nat /\ n < Head(reorgCh)
    BY <1>3, Zenon DEF HandleReorg, RollbackFrom, Shape
  <2> QED
    BY <1>3, <2>1, <2>2, <2>3 DEF HandleReorg
<1>4. CASE PurgeFinalizedBefore
  BY <1>4, Zenon DEF PurgeFinalizedBefore
<1>5. CASE HandleFinalityPromotion
  BY <1>5, Zenon DEF HandleFinalityPromotion
<1>6. CASE UNCHANGED <<dbVars, inflight>>
  BY <1>6, Zenon DEF dbVars
<1>7. NewBlock \/ (\E fork, len \in 1..Len(chain) : ChainReorg(fork, len)) \/ StartCheck
        \/ VerifyNext \/ EmitReorg \/ SendPromotion \/ UNCHANGED vars
      => UNCHANGED <<dbVars, inflight>>
  BY Zenon DEF NewBlock, ChainReorg, StartCheck, VerifyNext, VerifyBlock, EmitReorg, SendPromotion, vars
<1> QED
  BY <1>1, <1>2, <1>3, <1>4, <1>5, <1>6, <1>7, Zenon DEF Next

\* indexed_blocks never holds a row the watermark has not passed.
THEOREM RowsBelowWatermarkAlways == Spec => []RowsBelowWatermark
<1>1. Init => WatermarkInv
  BY DEF Init, WatermarkInv, RowsBelowWatermark, Heights, Empty, NoBatch
<1>2. WatermarkInv => RowsBelowWatermark
  BY Zenon DEF WatermarkInv
<1> QED
  BY <1>1, <1>2, ShapeInit, ShapeNext, WatermarkNext, PTL DEF Spec
-----------------------------------------------------------------------------
(* Heights the chain never changed *)

\* The row of height n on a chain that never changed up to there.
FirstRow(n) == [hash : {<<n, 0>>}, parent : {<<n - 1, 0>>}, final : BOOLEAN]

\* Every row the detector or a batch holds for a height that never changed is that
\* height's only block, and every fork on its way to the ingester has changed.
SettledInv ==
    /\ reorgs = 0 => \A n \in 1..Len(chain) : chain[n] = 0
    /\ \A n \in DOMAIN indexed : ~Changed(n) => indexed[n] \in FirstRow(n)
    /\ \A n \in DOMAIN inflight.rows : ~Changed(n) => inflight.rows[n] \in FirstRow(n)
    /\ check.pc = "verify" =>
          \A n \in DOMAIN check.todo : ~Changed(n) => check.todo[n] \in FirstRow(n)
    /\ check.pc = "emit" => Changed(check.fork)
    /\ \A i \in DOMAIN reorgCh : Changed(reorgCh[i])

\* The finalizer prunes at a cutoff the retention allows.
PruneInv ==
    /\ pruneBefore \in Nat
    /\ pruneBefore > 0 => pruneBefore + RetentionBlocks <= finalized

\* A height that has changed stays so: a reorganisation from further up leaves its
\* branch number, one from further down puts its own in its place.
LEMMA ChangedStays ==
    ASSUME Shape, [Next]_vars, NEW n \in Nat, Changed(n)
    PROVE  Changed(n)'
<1>1. PICK m \in 1..n : m <= Len(chain) /\ chain[m] # 0
  BY Zenon DEF Changed
<1>2. CASE NewBlock
  BY <1>1, <1>2 DEF NewBlock, Changed, Shape
<1>3. ASSUME NEW fork \in 1..Len(chain), NEW len \in 1..Len(chain), ChainReorg(fork, len)
      PROVE  Changed(n)'
  <2>0. \A k \in 1..len : chain'[k] = IF k < fork THEN chain[k] ELSE reorgs + 1
    BY <1>3, Zenon DEF ChainReorg
  <2>1. fork \in 1..len /\ reorgs + 1 # 0 /\ len \in Nat
    BY <1>3 DEF ChainReorg, Shape
  <2>2. Len(chain') = len
    <3>1. chain' = [k \in 1..len |-> IF k < fork THEN chain[k] ELSE reorgs + 1]
      BY <1>3, Zenon DEF ChainReorg
    <3>2. \A k \in 1..len : (IF k < fork THEN chain[k] ELSE reorgs + 1) \in Nat
      BY DEF Shape
    <3>3. chain' \in [1..len -> Nat]
      BY <3>1, <3>2, Zenon
    <3> QED
      BY <2>1, <3>3
  <2>3. CASE m < fork
    BY <1>1, <2>0, <2>1, <2>2, <2>3 DEF Changed
  <2>4. CASE m >= fork
    BY <1>1, <2>0, <2>1, <2>2, <2>4 DEF Changed
  <2> QED
    BY <1>1, <2>1, <2>3, <2>4
<1>4. CASE chain' = chain
  BY <1>4, Zenon DEF Changed
<1> QED
  BY <1>2, <1>3, <1>4, Zenon DEF Next, vars, ScanBlocks, CommitBatch, StartCheck, VerifyNext, VerifyBlock, EmitReorg,
       HandleReorg, HandleFinalityPromotion, SendPromotion, PurgeFinalizedBefore, chainVars

\* Up to a height that never changed the chain is the first one.
LEMMA UnchangedHash ==
    ASSUME Shape, NEW n \in Nat, ~Changed(n), n <= Len(chain)
    PROVE  HashAt(chain, n) = <<n, 0>> /\ (n > 0 => HashAt(chain, n - 1) = <<n - 1, 0>>)
BY DEF Changed, HashAt, Shape

\* Every step keeps the invariant: what is new in it was read from the chain, or
\* contradicts the chain or a neighbour, which an unchanged height never does.
LEMMA SettledNext == Shape /\ SettledInv /\ [Next]_vars => SettledInv'
<1> SUFFICES ASSUME Shape, SettledInv, [Next]_vars PROVE SettledInv'
  BY Zenon
<1>0. \A n \in Nat : Changed(n) => Changed(n)'
  BY ChangedStays, Zenon
<1>1. /\ \A n \in DOMAIN indexed : n \in Nat
      /\ \A n \in DOMAIN inflight.rows : n \in Nat
      /\ check.pc = "verify" => \A n \in DOMAIN check.todo : n \in Nat
      /\ check.pc = "emit" => check.fork \in Nat
      /\ \A i \in DOMAIN reorgCh : reorgCh[i] \in Nat
  BY DEF Shape
<1>2. ASSUME UNCHANGED <<indexed, inflight, check, reorgCh>>,
             reorgs' = 0 => \A n \in 1..Len(chain') : chain'[n] = 0
      PROVE  SettledInv'
  BY <1>0, <1>1, <1>2, Zenon DEF SettledInv
<1>3. CASE NewBlock
  <2>1. reorgs' = 0 => \A n \in 1..Len(chain') : chain'[n] = 0
    BY <1>3 DEF NewBlock, Shape, SettledInv
  <2> QED
    BY <1>2, <1>3, <2>1, Zenon DEF NewBlock, dbVars, detectorVars
<1>4. ASSUME NEW fork \in 1..Len(chain), NEW len \in 1..Len(chain), ChainReorg(fork, len)
      PROVE  SettledInv'
  <2>1. reorgs' # 0
    BY <1>4 DEF ChainReorg, Shape
  <2> QED
    BY <1>2, <1>4, <2>1, Zenon DEF ChainReorg, dbVars, detectorVars
<1>5. ASSUME NEW end \in 1..Len(chain), ScanBlocks(end)
      PROVE  SettledInv'
  <2>1. \A n \in Busy \cap ((watermark + 1)..end) : ~Changed(n) => Row(chain, n) \in FirstRow(n)
    <3> SUFFICES ASSUME NEW n \in Busy \cap ((watermark + 1)..end), ~Changed(n)
                 PROVE  Row(chain, n) \in FirstRow(n)
      BY Zenon
    <3>1. n \in Nat /\ n > 0 /\ n <= Len(chain)
      BY DEF Shape
    <3>2. HashAt(chain, n) = <<n, 0>> /\ HashAt(chain, n - 1) = <<n - 1, 0>>
      BY UnchangedHash, <3>1, Zenon
    <3> QED
      BY <3>2, Zenon DEF Row, FirstRow
  <2>2. \A n \in DOMAIN inflight'.rows : ~Changed(n) => inflight'.rows[n] \in FirstRow(n)
    BY <1>5, <2>1, Zenon DEF ScanBlocks
  <2> QED
    BY <1>5, <2>2, Zenon DEF ScanBlocks, SettledInv, Changed, chainVars, dbVars, detectorVars
<1>6. CASE CommitBatch
  BY <1>6, Zenon DEF CommitBatch, BulkUpsert, NoBatch, Empty, SettledInv, Changed, chainVars, detectorVars
<1>7. CASE StartCheck
  <2>0. UNCHANGED <<chainVars, dbVars, inflight, reorgCh>>
    BY <1>7, Zenon DEF StartCheck
  <2>1. \A n \in ToCheck : BreaksAt(ToCheck, n) => Changed(n)
    <3> SUFFICES ASSUME NEW n \in ToCheck, (n - 1) \in ToCheck, ~Changed(n)
                 PROVE  indexed[n].parent = indexed[n - 1].hash
      BY Zenon DEF BreaksAt
    <3>1. n \in DOMAIN indexed /\ n - 1 \in DOMAIN indexed /\ n \in Nat /\ n - 1 \in Nat
      BY ToCheckIndexed, <1>1, Zenon
    <3>2. ~Changed(n - 1)
      BY <3>1 DEF Changed
    <3>3. indexed[n] \in FirstRow(n) /\ indexed[n - 1] \in FirstRow(n - 1)
      BY <3>1, <3>2, Zenon DEF SettledInv
    <3> QED
      BY <3>3, Zenon DEF FirstRow
  <2>2. /\ check'.pc = "emit" => Changed(check'.fork)
        /\ check'.pc = "verify" =>
              \A n \in DOMAIN check'.todo : ~Changed(n) => check'.todo[n] \in FirstRow(n)
    <3>1. \/ check' = Idle
          \/ \E n \in ToCheck : BreaksAt(ToCheck, n) /\ check' = Report(n)
          \/ check' = [pc |-> "verify", down |-> Cut, first |-> TRUE, verified |-> {},
                       todo |-> [n \in ToCheck |-> indexed[n]]]
      BY <1>7, Zenon DEF StartCheck
    <3>2. CASE check' = Idle
      BY <3>2, Zenon DEF Idle
    <3>3. CASE \E n \in ToCheck : BreaksAt(ToCheck, n) /\ check' = Report(n)
      BY <2>1, <3>3 DEF Report
    <3>4. CASE check' = [pc |-> "verify", down |-> Cut, first |-> TRUE, verified |-> {},
                         todo |-> [n \in ToCheck |-> indexed[n]]]
      <4>1. /\ check'.pc = "verify" /\ DOMAIN check'.todo = ToCheck
            /\ \A n \in ToCheck : check'.todo[n] = indexed[n]
        BY <3>4, Zenon
      <4> QED
        BY <4>1, ToCheckIndexed, Zenon DEF SettledInv
    <3> QED
      BY <3>1, <3>2, <3>3, <3>4, Zenon
  <2> QED
    BY <2>0, <2>2, Zenon DEF SettledInv, Changed, chainVars, dbVars
<1>8. CASE VerifyNext
  <2>1. PICK n \in DOMAIN check.todo : VerifyBlock(n)
    BY <1>8, Zenon DEF VerifyNext
  <2>2. check.pc = "verify"
    BY <1>8, Zenon DEF VerifyNext
  <2>3. n \in Nat \ {0} /\ (~Changed(n) => check.todo[n] \in FirstRow(n))
    BY <2>1, <2>2, Zenon DEF SettledInv, Shape
  <2>4. n <= Len(chain) /\ ~Changed(n) =>
            check.todo[n].hash = HashAt(chain, n) /\ check.todo[n].parent = HashAt(chain, n - 1)
    <3> SUFFICES ASSUME n <= Len(chain), ~Changed(n)
                 PROVE  check.todo[n].hash = HashAt(chain, n) /\ check.todo[n].parent = HashAt(chain, n - 1)
      BY Zenon
    <3>1. check.todo[n].hash = <<n, 0>> /\ check.todo[n].parent = <<n - 1, 0>>
      BY <2>3, Zenon DEF FirstRow
    <3>2. n \in Nat /\ n > 0
      BY <2>3
    <3> QED
      BY UnchangedHash, <3>1, <3>2, Zenon
  <2>5. (check' = Report(n) /\ Changed(n)) \/ \E verified : Advance(n, verified)
    BY <2>1, <2>4, Zenon DEF VerifyBlock
  <2>6. /\ check'.pc = "emit" => Changed(check'.fork)
        /\ check'.pc = "verify" =>
              \A m \in DOMAIN check'.todo : ~Changed(m) => check'.todo[m] \in FirstRow(m)
    <3>1. CASE check' = Report(n) /\ Changed(n)
      BY <3>1, Zenon DEF Report
    <3>2. CASE \E verified : Advance(n, verified)
      BY <2>2, <3>2, AdvanceKeeps, Zenon DEF SettledInv
    <3> QED
      BY <2>5, <3>1, <3>2, Zenon
  <2> QED
    BY <2>1, <2>6, Zenon DEF VerifyBlock, SettledInv, Changed, chainVars, dbVars
<1>9. CASE EmitReorg
  <2>1. \A i \in DOMAIN reorgCh' : Changed(reorgCh'[i])
    <3>1. /\ reorgCh \in Seq(Nat \ {0}) /\ check.fork \in Nat \ {0}
          /\ reorgCh' = Append(reorgCh, check.fork) /\ Changed(check.fork)
      BY <1>9, Zenon DEF EmitReorg, SettledInv, Shape
    <3> QED
      BY <3>1 DEF SettledInv
  <2> QED
    BY <1>9, <2>1, Zenon DEF EmitReorg, SettledInv, Changed, Idle, chainVars, dbVars
<1>10. CASE HandleReorg
  <2>0. reorgCh \in Seq(Nat \ {0}) /\ reorgCh # <<>> /\ reorgCh' = Tail(reorgCh)
    BY <1>10, Zenon DEF HandleReorg, Shape
  <2>1. \A i \in DOMAIN reorgCh' : i + 1 \in DOMAIN reorgCh /\ reorgCh'[i] = reorgCh[i + 1]
    BY <2>0
  <2>2. \A i \in DOMAIN reorgCh' : Changed(reorgCh'[i])
    BY <2>1, Zenon DEF SettledInv
  <2>3. \A n \in DOMAIN indexed' : n \in DOMAIN indexed /\ indexed'[n] = indexed[n]
    BY <1>10, Zenon DEF HandleReorg, RollbackFrom, Heights
  <2>4. UNCHANGED <<chain, reorgs, inflight, check>>
    BY <1>10, Zenon DEF HandleReorg, chainVars, detectorVars
  <2> QED
    BY <2>2, <2>3, <2>4, Zenon DEF SettledInv, Changed
<1>11. CASE HandleFinalityPromotion
  <2>1. \A n \in DOMAIN indexed' : ~Changed(n) => indexed'[n] \in FirstRow(n)
    <3> SUFFICES ASSUME NEW n \in DOMAIN indexed', ~Changed(n) PROVE indexed'[n] \in FirstRow(n)
      BY Zenon
    <3> DEFINE fin == indexed[n].final \/ n <= Head(finalityCh)
    <3>1. n \in DOMAIN indexed /\ indexed'[n] = [indexed[n] EXCEPT !.final = fin]
      BY <1>11, Zenon DEF HandleFinalityPromotion, Heights
    <3>2. indexed[n] \in FirstRow(n) /\ fin \in BOOLEAN
      BY <3>1, Zenon DEF SettledInv
    <3> HIDE DEF fin
    <3> QED
      BY <3>1, <3>2, Zenon DEF FirstRow
  <2> QED
    BY <1>11, <2>1, Zenon DEF HandleFinalityPromotion, SettledInv, Changed, chainVars, detectorVars
<1>12. CASE SendPromotion
  BY <1>2, <1>12, Zenon DEF SendPromotion, SettledInv, chainVars, dbVars, detectorVars
<1>13. CASE PurgeFinalizedBefore
  BY <1>13, Zenon DEF PurgeFinalizedBefore, Heights, SettledInv, Changed, chainVars, detectorVars
<1>14. CASE UNCHANGED vars
  BY <1>2, <1>14, Zenon DEF vars, SettledInv, chainVars, dbVars, detectorVars
<1> QED
  BY <1>3, <1>4, <1>5, <1>6, <1>7, <1>8, <1>9, <1>10, <1>11, <1>12, <1>13, <1>14, Zenon DEF Next

\* Nothing is indexed, in flight or reported initially.
LEMMA SettledInit == Init => SettledInv
BY DEF Init, SettledInv, Empty, NoBatch, Idle

\* Whatever heights are indexed and whichever RPC calls fail, a chain that has
\* never reorganised makes verifyParentHashChain and verifyBlock report nothing.
THEOREM NoFalseAlarmAlways == Spec => []NoFalseAlarm
<1>1. Shape /\ SettledInv => NoFalseAlarm
  <2> SUFFICES ASSUME Shape, SettledInv, reorgs = 0
               PROVE  check.pc # "emit" /\ reorgCh = <<>>
    BY Zenon DEF NoFalseAlarm
  <2>1. \A n : ~Changed(n)
    BY DEF Changed, SettledInv, Shape
  <2>2. DOMAIN reorgCh = {}
    BY <2>1, Zenon DEF SettledInv
  <2>3. reorgCh = <<>>
    BY <2>2 DEF Shape
  <2> QED
    BY <2>1, <2>3, Zenon DEF SettledInv
<1> QED
  BY <1>1, ShapeInit, ShapeNext, SettledInit, SettledNext, PTL DEF Spec

\* The cutoff stays within the retention: finality only moves on.
LEMMA PruneNext == Shape /\ PruneInv /\ [Next]_vars => PruneInv'
<1> SUFFICES ASSUME Shape, PruneInv, [Next]_vars PROVE PruneInv'
  BY Zenon
<1> USE DetectorConstants
<1>1. finalized \in Nat
  BY Zenon DEF Shape
<1>2. CASE NewBlock
  BY <1>1, <1>2 DEF NewBlock, Larger, PruneInv, Shape, finalizerVars
<1>3. CASE SendPromotion
  BY <1>1, <1>3 DEF SendPromotion, Larger, PruneInv, chainVars
<1>4. CASE PurgeFinalizedBefore
  BY <1>4 DEF PurgeFinalizedBefore, PruneInv
<1>5. CASE UNCHANGED <<finalized, pruneBefore>>
  BY <1>5, Zenon DEF PruneInv
<1> QED
  BY <1>2, <1>3, <1>4, <1>5, Zenon DEF Next, vars, ChainReorg, ScanBlocks, CommitBatch, StartCheck, VerifyNext,
       VerifyBlock, EmitReorg, HandleReorg, HandleFinalityPromotion, chainVars, finalizerVars

\* A row at a height the chain never changed keeps its block until it is final and
\* past the retention, however late a reported fork is rolled back.
THEOREM SettledRowsStayAlways == Spec => SettledRowsStay
<1> DEFINE Stays == \A n \in Heights : ~Changed(n) =>
                       \/ n \in DOMAIN indexed' /\ indexed'[n].hash = indexed[n].hash
                       \/ indexed[n].final /\ n + RetentionBlocks < finalized
<1>1. Shape /\ SettledInv /\ PruneInv /\ [Next]_vars => [Stays]_vars
  <2> SUFFICES ASSUME Shape, SettledInv, PruneInv, [Next]_vars,
                      NEW n \in DOMAIN indexed, ~Changed(n)
               PROVE  \/ n \in DOMAIN indexed' /\ indexed'[n].hash = indexed[n].hash
                      \/ indexed[n].final /\ n + RetentionBlocks < finalized
    BY Zenon DEF Heights
  <2>0. n \in Nat /\ indexed[n].hash = <<n, 0>>
    BY Zenon DEF Shape, SettledInv, FirstRow
  <2>1. CASE HandleReorg
    <3>1. 1 \in DOMAIN reorgCh /\ Head(reorgCh) = reorgCh[1] /\ Head(reorgCh) \in Nat
      BY <2>1 DEF HandleReorg, Shape
    <3>2. PICK m \in 1..Head(reorgCh) : m <= Len(chain) /\ chain[m] # 0
      BY <3>1, Zenon DEF SettledInv, Changed
    <3>3. ~(m \in 1..n)
      BY <3>2, Zenon DEF Changed
    <3>4. n < Head(reorgCh)
      BY <2>0, <3>1, <3>2, <3>3
    <3> QED
      BY <2>1, <3>4, Zenon DEF HandleReorg, RollbackFrom, Heights
  <2>2. CASE CommitBatch
    <3>1. n \in DOMAIN inflight.rows => inflight.rows[n].hash = <<n, 0>>
      BY Zenon DEF SettledInv, FirstRow
    <3> QED
      BY <2>0, <2>2, <3>1, Zenon DEF CommitBatch, BulkUpsert
  <2>3. CASE HandleFinalityPromotion
    <3> DEFINE fin == indexed[n].final \/ n <= Head(finalityCh)
    <3>1. n \in DOMAIN indexed' /\ indexed'[n] = [indexed[n] EXCEPT !.final = fin]
      BY <2>3, Zenon DEF HandleFinalityPromotion, Heights
    <3>2. indexed[n] \in FirstRow(n)
      BY Zenon DEF SettledInv
    <3> HIDE DEF fin
    <3> QED
      BY <3>1, <3>2, Zenon DEF FirstRow
  <2>4. CASE PurgeFinalizedBefore
    <3>1. \/ n \in DOMAIN indexed' /\ indexed'[n] = indexed[n]
          \/ indexed[n].final /\ ~(n >= pruneBefore)
      BY <2>4, Zenon DEF PurgeFinalizedBefore, Heights
    <3>2. pruneBefore > 0
      BY <2>4, Zenon DEF PurgeFinalizedBefore
    <3>3. ~(n >= pruneBefore) => n + RetentionBlocks < finalized
      BY <2>0, <3>2, DetectorConstants DEF PruneInv, Shape
    <3> QED
      BY <3>1, <3>3, Zenon
  <2>5. CASE indexed' = indexed
    BY <2>5, Zenon
  <2> QED
    BY <2>1, <2>2, <2>3, <2>4, <2>5, Zenon DEF Next, NewBlock, ChainReorg, ScanBlocks, StartCheck, VerifyNext,
                            VerifyBlock, EmitReorg, SendPromotion, vars, dbVars
<1>2. Init => PruneInv
  BY DEF Init, PruneInv
<1> QED
  BY <1>1, <1>2, ShapeInit, ShapeNext, SettledInit, SettledNext, PruneNext, PTL DEF Spec, SettledRowsStay

(***************************************************************************)
(* Reconciliation: a run's verdicts match what it read.                    *)
(***************************************************************************)
ReconTypeOK ==
    /\ chainBal \in [Slots -> Nat] /\ dbBal \in [Slots -> Nat \cup {NoRow}]
    /\ pos \in 0..Len(Wallets) + 1
    /\ todo \in SUBSET [slot : Slots, amount : Nat, listed : BOOLEAN]
    /\ todo # {} => pos \in DOMAIN Wallets
    /\ result \in [total : Nat, matched : Nat, mismatched : Nat, errors : Nat]
    /\ diverged \in SUBSET Slots /\ suspect \in SUBSET Slots

\* The slots the pass is through with: those of the addresses before the one at
\* hand, and those of this address that have no row left to compare.
Waiting == {row.slot : row \in todo}
Done == {s \in Slots :
            \/ \E i \in DOMAIN Wallets : i < pos /\ s.wallet = Wallets[i]
            \/ todo # {} /\ s.wallet = Wallets[pos] /\ s \notin Waiting}

NoFault == ~faults /\ result.errors = 0

\* The rows at hand are of this address, one for a slot.
RowsInv ==
    /\ \A row \in todo : row.slot.wallet = Wallets[pos] /\ row.slot \in Asked
    /\ \A row, other \in todo : row.slot = other.slot => row = other

\* A slot that has been right throughout is stored as it was when its row was read,
\* so each mismatch stands for a suspect that the pass is through with.
SuspectInv ==
    /\ pos # 0 => Wrong \subseteq suspect
    /\ \A row \in todo : row.slot \notin suspect => Stored(row.slot) = row.amount
    /\ NoFault => result.mismatched <= Cardinality(IF pos = 0 THEN suspect ELSE suspect \cap Done)

\* A slot that stood wrong is listed when its address is read, and counted.
DivergedInv ==
    /\ diverged \subseteq Wrong /\ diverged \subseteq Shown
    /\ \A row \in todo : row.slot \in diverged => Stored(row.slot) = row.amount
    /\ NoFault /\ pos # 0 => Cardinality(diverged \cap Done) <= result.mismatched

ReconInv ==
    /\ ReconTypeOK /\ RowsInv /\ SuspectInv /\ DivergedInv
    /\ alerted => pos = 0 /\ result.mismatched > 0

\* A set of slots has no more members than one that holds it.
LEMMA SlotsWithin ==
  ASSUME NEW A, NEW B \in SUBSET Slots, A \subseteq B
  PROVE  /\ Cardinality(A) \in Nat /\ Cardinality(B) \in Nat
         /\ Cardinality(A) <= Cardinality(B)
  <1>1. IsFiniteSet(B)
    BY SlotsAssumption, FS_Subset, Zenon
  <1> QED
    BY <1>1, FS_Subset, FS_CardinalityType, Zenon

\* One slot more makes the set one larger.
LEMMA SlotsAdd ==
  ASSUME NEW A \in SUBSET Slots, NEW s \in Slots
  PROVE  /\ Cardinality(A \cup {s}) <= Cardinality(A) + 1
         /\ s \notin A => Cardinality(A \cup {s}) = Cardinality(A) + 1
  <1>1. IsFiniteSet(A) /\ Cardinality(A) \in Nat
    BY SlotsAssumption, FS_Subset, FS_CardinalityType, Zenon
  <1>2. Cardinality(A \cup {s}) = IF s \in A THEN Cardinality(A) ELSE Cardinality(A) + 1
    BY <1>1, FS_AddElement, Zenon
  <1> QED
    BY <1>1, <1>2

\* Comparing a row is through with its slot, and with that one only.
LEMMA DoneCompare ==
  ASSUME ReconTypeOK, RowsInv, NEW row \in todo, pos \in DOMAIN Wallets,
         todo' = todo \ {row}, pos' = IF todo' = {} THEN pos + 1 ELSE pos
  PROVE  row.slot \in Slots /\ row.slot \notin Done /\ Done' = Done \cup {row.slot}
  <1>1. row.slot \in Slots /\ row.slot.wallet = Wallets[pos] /\ row.slot \in Waiting
    BY Zenon DEF ReconTypeOK, RowsInv, Waiting
  <1>2. DOMAIN Wallets \subseteq Int /\ pos \in Int
    BY ReconcileConstants
  <1>3. \A i \in DOMAIN Wallets : i < pos => Wallets[i] # Wallets[pos]
    BY <1>2, ReconcileConstants
  <1>4. row.slot \notin Done
    BY <1>1, <1>3, Zenon DEF Done
  <1>5. \A s : s \in Waiting' <=> s \in Waiting /\ s # row.slot
    BY Zenon DEF Waiting, RowsInv
  <1>6. \A s \in Waiting : s.wallet = Wallets[pos]
    BY Zenon DEF Waiting, RowsInv
  <1>7. CASE todo' = {}
    <2>1. pos' = pos + 1 /\ Waiting' = {}
      BY <1>7, Zenon DEF Waiting
    <2>2. \A i \in DOMAIN Wallets : i < pos' <=> i < pos \/ i = pos
      BY <1>2, <2>1
    <2>3. \A s : s \in Waiting <=> s = row.slot
      BY <1>1, <1>5, <2>1, Zenon
    <2>4. \A s \in Slots : s \in Done' <=> \E i \in DOMAIN Wallets : i < pos' /\ s.wallet = Wallets[i]
      BY <1>7, Zenon DEF Done
    <2>5. \A s \in Slots : s \in Done' <=> \/ \E i \in DOMAIN Wallets : i < pos /\ s.wallet = Wallets[i]
                                           \/ s.wallet = Wallets[pos]
      BY <2>4, <2>2, Zenon
    <2>6. \A s \in Slots : s \in Done <=> \/ \E i \in DOMAIN Wallets : i < pos /\ s.wallet = Wallets[i]
                                          \/ s.wallet = Wallets[pos] /\ s # row.slot
      BY <2>3, Zenon DEF Done
    <2>7. \A s \in Slots : s \in Done' <=> s \in Done \/ s = row.slot
      BY <1>1, <2>5, <2>6, Zenon
    <2> QED
      BY <1>1, <1>4, <2>7, Zenon DEF Done
  <1>8. CASE todo' # {}
    <2>1. pos' = pos
      BY <1>8, Zenon
    <2>2. \A s \in Slots : s \in Done' <=> \/ \E i \in DOMAIN Wallets : i < pos /\ s.wallet = Wallets[i]
                                           \/ s.wallet = Wallets[pos] /\ s \notin Waiting'
      BY <1>8, <2>1, Zenon DEF Done
    <2>3. \A s \in Slots : s \in Done <=> \/ \E i \in DOMAIN Wallets : i < pos /\ s.wallet = Wallets[i]
                                          \/ s.wallet = Wallets[pos] /\ s \notin Waiting
      BY Zenon DEF Done
    <2>4. \A s \in Slots : s \in Done' <=> s \in Done \/ s = row.slot
      BY <1>1, <1>5, <2>2, <2>3, Zenon
    <2> QED
      BY <1>1, <1>4, <2>4, Zenon DEF Done
  <1> QED
    BY <1>7, <1>8, Zenon

\* The initial state: no pass has begun.
LEMMA ReconInvInit == ReconInit => ReconInv
  <1> SUFFICES ASSUME ReconInit PROVE ReconInv
    BY Zenon
  <1>1. \A s \in Slots : chainBal[s] \in Nat
    BY ReconcileConstants DEF ReconInit
  <1>2. ReconTypeOK
    BY <1>1, ReconcileConstants DEF ReconInit, ReconTypeOK, Zero, NoRow
  <1>3. Cardinality({}) = 0 /\ result.mismatched = 0
    BY FS_EmptySet, Zenon DEF ReconInit, Zero
  <1>4. SuspectInv
    BY <1>3 DEF ReconInit, SuspectInv
  <1>5. RowsInv /\ DivergedInv
    BY Zenon DEF ReconInit, RowsInv, DivergedInv
  <1> QED
    BY <1>2, <1>4, <1>5, Zenon DEF ReconInv, ReconInit

\* While a pass rests, more suspects and fewer diverged slots keep its counts right.
LEMMA HistoryMoves ==
  ASSUME ReconInv, ReconTypeOK', UNCHANGED <<pos, todo, result, alerted, faults>>,
         suspect \subseteq suspect', diverged' \subseteq diverged
  PROVE  /\ NoFault' => result'.mismatched <= Cardinality(IF pos' = 0 THEN suspect' ELSE suspect' \cap Done')
         /\ NoFault' /\ pos' # 0 => Cardinality(diverged' \cap Done') <= result'.mismatched
  <1>1. Done' = Done /\ (NoFault' <=> NoFault) /\ Done \subseteq Slots
    BY Zenon DEF Done, Waiting, NoFault
  <1>2. /\ Cardinality(suspect) <= Cardinality(suspect')
        /\ Cardinality(suspect) \in Nat /\ Cardinality(suspect') \in Nat
    BY SlotsWithin, Zenon DEF ReconTypeOK
  <1>3. /\ Cardinality(suspect \cap Done) <= Cardinality(suspect' \cap Done)
        /\ Cardinality(suspect \cap Done) \in Nat /\ Cardinality(suspect' \cap Done) \in Nat
    BY <1>1, SlotsWithin, Zenon
  <1>4. /\ Cardinality(diverged' \cap Done) <= Cardinality(diverged \cap Done)
        /\ Cardinality(diverged' \cap Done) \in Nat /\ Cardinality(diverged \cap Done) \in Nat
    BY <1>1, SlotsWithin, Zenon
  <1>5. /\ NoFault => result.mismatched <= Cardinality(IF pos = 0 THEN suspect ELSE suspect \cap Done)
        /\ NoFault /\ pos # 0 => Cardinality(diverged \cap Done) <= result.mismatched
        /\ result.mismatched \in Nat
    BY Zenon DEF ReconInv, ReconTypeOK, SuspectInv, DivergedInv
  <1> QED
    BY <1>1, <1>2, <1>3, <1>4, <1>5

\* A transaction on the chain: what it makes differ is suspect.
LEMMA ReconTransfer ==
  ASSUME ReconInv, NEW now \in [Slots -> 0..MaxAmount], Transfer(now)
  PROVE  ReconInv'
  <1> USE DEF ReconInv
  <1>0. ReconTypeOK'
    <2>1. chainBal' \in [Slots -> Nat]
      BY ReconcileConstants DEF Transfer
    <2>2. Wrong' \subseteq Slots
      BY Zenon DEF Wrong, Asked
    <2> QED
      BY <2>1, <2>2, Zenon DEF ReconTypeOK, Transfer
  <1>1. /\ UNCHANGED <<dbBal, pos, todo, result, alerted, faults>>
        /\ suspect' = suspect \cup Wrong' /\ diverged' = diverged \cap Wrong'
    BY Zenon DEF Transfer
  <1>2. /\ NoFault' => result'.mismatched <= Cardinality(IF pos' = 0 THEN suspect' ELSE suspect' \cap Done')
        /\ NoFault' /\ pos' # 0 => Cardinality(diverged' \cap Done') <= result'.mismatched
    BY <1>0, <1>1, HistoryMoves, Zenon
  <1>3. Asked' = Asked /\ Shown' = Shown /\ \A s : Stored(s)' = Stored(s)
    BY <1>1, Zenon DEF Asked, Shown, Stored
  <1>4. RowsInv'
    BY <1>1, <1>3, Zenon DEF RowsInv
  <1>5. SuspectInv'
    BY <1>1, <1>2, <1>3, Zenon DEF SuspectInv
  <1>6. DivergedInv'
    BY <1>1, <1>2, <1>3, Zenon DEF DivergedInv
  <1> QED
    BY <1>0, <1>1, <1>4, <1>5, <1>6, Zenon

\* The ingester stores what has changed: a slot it rewrites was wrong, or is now.
LEMMA ReconIngest ==
  ASSUME ReconInv, NEW stored \in SUBSET Slots, Ingest(stored)
  PROVE  ReconInv'
  <1> USE DEF ReconInv
  <1>0. ReconTypeOK'
    <2>1. dbBal' \in [Slots -> Nat \cup {NoRow}]
      BY Zenon DEF Ingest, ReconTypeOK
    <2>2. Wrong' \subseteq Slots
      BY Zenon DEF Wrong, Asked
    <2> QED
      BY <2>1, <2>2, Zenon DEF ReconTypeOK, Ingest
  <1>1. /\ UNCHANGED <<chainBal, pos, todo, result, alerted, faults>>
        /\ suspect' = suspect \cup Wrong' /\ diverged' = (diverged \ stored) \cap Wrong' \cap Shown'
    BY Zenon DEF Ingest
  <1>2. /\ NoFault' => result'.mismatched <= Cardinality(IF pos' = 0 THEN suspect' ELSE suspect' \cap Done')
        /\ NoFault' /\ pos' # 0 => Cardinality(diverged' \cap Done') <= result'.mismatched
    BY <1>0, <1>1, HistoryMoves, Zenon
  <1>3. \A s \in Slots \ stored : dbBal'[s] = dbBal[s] /\ Stored(s)' = Stored(s)
    BY Zenon DEF Ingest, Stored
  <1>4. \A s \in stored : s \in Slots /\ dbBal'[s] = chainBal[s] /\ dbBal'[s] # NoRow
    BY DEF Ingest, ReconTypeOK, NoRow
  <1>5. \A s \in stored : Stored(s)' # Stored(s)
    BY <1>4, Zenon DEF Ingest, Stored
  <1>6. \A s \in Asked : s \in Asked' /\ s \in Slots
    BY <1>3, <1>4, Zenon DEF Asked
  <1>7. \A row \in todo : row.slot \in Slots /\ row.slot \in Asked /\ pos # 0
    BY ReconcileConstants DEF ReconTypeOK, RowsInv
  <1>8. RowsInv'
    BY <1>1, <1>6, Zenon DEF RowsInv
  <1>9. \A row \in todo : row.slot \notin suspect' => Stored(row.slot)' = row.amount
    <2> SUFFICES ASSUME NEW row \in todo, row.slot \notin suspect'
                 PROVE  Stored(row.slot)' = row.amount
      BY Zenon
    <2>1. Stored(row.slot) = row.amount /\ row.slot \notin Wrong
      BY <1>1, <1>7, Zenon DEF SuspectInv
    <2>2. Stored(row.slot) = GetBalance(row.slot)
      BY <1>7, <2>1, Zenon DEF Wrong
    <2>3. Stored(row.slot)' = GetBalance(row.slot)'
      BY <1>1, <1>6, <1>7, Zenon DEF Wrong
    <2>4. GetBalance(row.slot)' = GetBalance(row.slot)
      BY <1>1, Zenon DEF GetBalance
    <2> QED
      BY <2>1, <2>2, <2>3, <2>4, Zenon
  <1>10. SuspectInv'
    BY <1>1, <1>2, <1>9, Zenon DEF SuspectInv
  <1>11. \A row \in todo : row.slot \in diverged' => Stored(row.slot)' = row.amount
    BY <1>1, <1>3, <1>7, Zenon DEF DivergedInv
  <1>12. DivergedInv'
    BY <1>1, <1>2, <1>11, Zenon DEF DivergedInv
  <1> QED
    BY <1>0, <1>1, <1>8, <1>10, <1>12, Zenon

\* A new pass has counted nothing and is through with no slot.
LEMMA ReconBegins ==
  ASSUME ReconInv, ReconBegin
  PROVE  ReconInv'
  <1> USE DEF ReconInv
  <1>1. Wrong \subseteq Slots
    BY Zenon DEF Wrong, Asked
  <1>2. ReconTypeOK'
    BY <1>1, ReconcileConstants DEF ReconTypeOK, ReconBegin, Zero
  <1>3. /\ todo' = {} /\ result'.mismatched = 0 /\ alerted' = FALSE /\ pos' # 0
        /\ suspect' = Wrong /\ diverged' = Wrong \cap Shown /\ UNCHANGED <<chainBal, dbBal>>
    BY DEF ReconBegin, Zero
  <1>4. Done' = {}
    BY ReconcileConstants DEF Done, ReconBegin
  <1>5. Cardinality(suspect' \cap Done') = 0 /\ Cardinality(diverged' \cap Done') = 0
    BY <1>4, FS_EmptySet, Zenon
  <1>6. Wrong' = Wrong /\ Shown' = Shown
    BY <1>3, Zenon DEF Wrong, Shown, Asked, Stored, GetBalance
  <1>7. Wrong' \subseteq suspect' /\ diverged' \subseteq Wrong' /\ diverged' \subseteq Shown'
    BY <1>3, <1>6, Zenon
  <1>8. SuspectInv'
    BY <1>3, <1>5, <1>7 DEF SuspectInv
  <1>9. DivergedInv'
    BY <1>3, <1>5, <1>7 DEF DivergedInv
  <1>10. RowsInv'
    BY <1>3, Zenon DEF RowsInv
  <1> QED
    BY <1>2, <1>3, <1>8, <1>9, <1>10, Zenon

\* The rows of an address hold what the table holds, one for a slot, and every slot
\* that is shown is among them.
LEMMA RowsRead ==
  ASSUME ReconTypeOK, NEW w \in WalletSet
  PROVE  /\ ToCompare(w) # {}
         /\ \A row \in ToCompare(w) :
               /\ row \in [slot : Slots, amount : Nat, listed : BOOLEAN]
               /\ row.slot.wallet = w /\ row.slot \in Asked /\ row.amount = Stored(row.slot)
         /\ \A row, other \in ToCompare(w) : row.slot = other.slot => row = other
         /\ \A s \in Shown : s.wallet = w => \E row \in ToCompare(w) : row.slot = s
  <1>1. CASE RowsOf(w) = {}
    <2> DEFINE s0 == Liquid(w, Native)
               row0 == [slot |-> s0, amount |-> 0, listed |-> FALSE]
    <2>1. ToCompare(w) = {row0}
      BY <1>1, Zenon DEF ToCompare
    <2>2. s0 \in Slots /\ s0.wallet = w
      BY SlotsAssumption, Zenon DEF Liquid
    <2>3. \A r \in Slots : r.wallet = w => dbBal[r] = NoRow
      BY <1>1, Zenon DEF RowsOf
    <2>4. s0 \in Asked /\ Stored(s0) = 0
      BY <2>2, <2>3, Zenon DEF Asked, Stored
    <2>5. \A s \in Shown : s.wallet = w => s = s0
      BY <2>3, Zenon DEF Shown, Asked
    <2>6. row0.slot = s0 /\ row0.amount = 0 /\ row0 \in [slot : Slots, amount : Nat, listed : BOOLEAN]
      <3>1. 0 \in Nat /\ FALSE \in BOOLEAN
        BY Zenon
      <3> HIDE DEF s0
      <3> QED
        BY <2>2, <3>1, Zenon
    <2> HIDE DEF s0, row0
    <2> QED
      BY <2>1, <2>2, <2>4, <2>5, <2>6, Zenon
  <1>2. CASE RowsOf(w) # {}
    <2> DEFINE RowAt(s) == [slot |-> s, amount |-> dbBal[s], listed |-> TRUE]
    <2>1. ToCompare(w) = RowsOf(w)
      BY <1>2, Zenon DEF ToCompare
    <2>2. \A row \in ToCompare(w) : \E s \in Slots : s.wallet = w /\ dbBal[s] # NoRow /\ row = RowAt(s)
      BY <2>1, Zenon DEF RowsOf
    <2>3. \A s \in Slots : s.wallet = w /\ dbBal[s] # NoRow => RowAt(s) \in ToCompare(w)
      BY <2>1, Zenon DEF RowsOf
    <2>4. \A s \in Slots : dbBal[s] # NoRow =>
              /\ dbBal[s] \in Nat /\ RowAt(s).slot = s /\ RowAt(s).amount = dbBal[s]
              /\ RowAt(s) \in [slot : Slots, amount : Nat, listed : BOOLEAN]
              /\ s \in Asked /\ Stored(s) = dbBal[s]
      <3> SUFFICES ASSUME NEW s \in Slots, dbBal[s] # NoRow
                   PROVE  /\ dbBal[s] \in Nat /\ RowAt(s).slot = s /\ RowAt(s).amount = dbBal[s]
                          /\ RowAt(s) \in [slot : Slots, amount : Nat, listed : BOOLEAN]
                          /\ s \in Asked /\ Stored(s) = dbBal[s]
        BY Zenon
      <3>1. dbBal[s] \in Nat /\ TRUE \in BOOLEAN
        BY Zenon DEF ReconTypeOK
      <3>2. RowAt(s).slot = s /\ RowAt(s).amount = dbBal[s]
            /\ RowAt(s) \in [slot : Slots, amount : Nat, listed : BOOLEAN]
        BY <3>1, Zenon
      <3> HIDE DEF RowAt
      <3> QED
        BY <3>1, <3>2, Zenon DEF Asked, Stored
    <2>5. \A s \in Shown : s.wallet = w => s \in Slots /\ dbBal[s] # NoRow
      <3>1. \E r \in Slots : r.wallet = w /\ dbBal[r] # NoRow
        BY <1>2, Zenon DEF RowsOf
      <3> QED
        BY <3>1, Zenon DEF Shown, Asked
    <2> HIDE DEF RowAt
    <2>6. \A row, other \in ToCompare(w) : row.slot = other.slot => row = other
      <3> SUFFICES ASSUME NEW row \in ToCompare(w), NEW other \in ToCompare(w), row.slot = other.slot
                   PROVE  row = other
        BY Zenon
      <3>1. PICK s \in Slots : dbBal[s] # NoRow /\ row = RowAt(s)
        BY <2>2, Zenon
      <3>2. PICK r \in Slots : dbBal[r] # NoRow /\ other = RowAt(r)
        BY <2>2, Zenon
      <3>3. row.slot = s
        BY <2>4, <3>1, Zenon
      <3>4. other.slot = r
        BY <2>4, <3>2, Zenon
      <3> QED
        BY <3>1, <3>2, <3>3, <3>4, Zenon
    <2>7. \A row \in ToCompare(w) :
             /\ row \in [slot : Slots, amount : Nat, listed : BOOLEAN]
             /\ row.slot.wallet = w /\ row.slot \in Asked /\ row.amount = Stored(row.slot)
      <3> SUFFICES ASSUME NEW row \in ToCompare(w)
                   PROVE  /\ row \in [slot : Slots, amount : Nat, listed : BOOLEAN]
                          /\ row.slot.wallet = w /\ row.slot \in Asked /\ row.amount = Stored(row.slot)
        BY Zenon
      <3>1. PICK s \in Slots : s.wallet = w /\ dbBal[s] # NoRow /\ row = RowAt(s)
        BY <2>2, Zenon
      <3>2. row.slot = s /\ row.amount = dbBal[s]
        BY <2>4, <3>1, Zenon
      <3> QED
        BY <2>4, <3>1, <3>2, Zenon
    <2>8. \A s \in Shown : s.wallet = w => \E row \in ToCompare(w) : row.slot = s
      BY <2>3, <2>4, <2>5, Zenon
    <2> QED
      BY <1>2, <2>1, <2>6, <2>7, <2>8, Zenon
  <1> QED
    BY <1>1, <1>2, Zenon

\* GetByAddress answers: no slot that is shown is passed over.
LEMMA ReconRead ==
  ASSUME ReconInv, ReadBalances, todo' = ToCompare(Wallets[pos]),
         UNCHANGED <<pos, result, faults>>
  PROVE  ReconInv'
  <1> USE DEF ReconInv
  <1> DEFINE w == Wallets[pos]
  <1>1. /\ pos \in DOMAIN Wallets /\ todo = {} /\ w \in WalletSet /\ pos # 0
        /\ UNCHANGED <<chainBal, dbBal, alerted, diverged, suspect>>
    BY ReconcileConstants DEF ReadBalances, WalletSet, historyVars
  <1>2. /\ todo' # {}
        /\ \A row \in todo' :
              /\ row \in [slot : Slots, amount : Nat, listed : BOOLEAN]
              /\ row.slot.wallet = w /\ row.slot \in Asked /\ row.amount = Stored(row.slot)
        /\ \A row, other \in todo' : row.slot = other.slot => row = other
        /\ \A s \in Shown : s.wallet = w => \E row \in todo' : row.slot = s
    BY <1>1, RowsRead, Zenon
  <1>3. Asked' = Asked /\ Wrong' = Wrong /\ Shown' = Shown /\ \A s : Stored(s)' = Stored(s)
    BY <1>1, Zenon DEF Asked, Wrong, Shown, Stored, GetBalance
  <1>4. ReconTypeOK'
    BY <1>1, <1>2, Zenon DEF ReconTypeOK
  <1>5. RowsInv'
    BY <1>2, <1>3, Zenon DEF RowsInv
  <1>6. /\ Done \subseteq Done' /\ Done' \subseteq Slots /\ (NoFault' <=> NoFault)
        /\ \A s \in Done' \ Done : s.wallet = w /\ s \notin Waiting'
    BY <1>1, <1>2, Zenon DEF Done, NoFault
  <1>7. SuspectInv'
    <2>1. /\ Cardinality(suspect \cap Done) <= Cardinality(suspect \cap Done')
          /\ Cardinality(suspect \cap Done) \in Nat /\ Cardinality(suspect \cap Done') \in Nat
          /\ result.mismatched \in Nat
      BY <1>6, SlotsWithin, Zenon DEF ReconTypeOK
    <2>2. NoFault => result.mismatched <= Cardinality(suspect \cap Done)
      BY <1>1, Zenon DEF SuspectInv
    <2>3. NoFault' => result'.mismatched <= Cardinality(suspect \cap Done')
      BY <1>6, <2>1, <2>2
    <2> QED
      BY <1>1, <1>2, <1>3, <2>3, Zenon DEF SuspectInv
  <1>8. DivergedInv'
    <2>0. \A s \in Shown : s.wallet = w => s \in Waiting'
      BY <1>2, Zenon DEF Waiting
    <2>1. \A s \in diverged : s.wallet = w => s \in Waiting'
      BY <2>0, Zenon DEF DivergedInv
    <2>2. diverged \cap Done' = diverged \cap Done
      BY <1>6, <2>1, Zenon
    <2> QED
      BY <1>1, <1>2, <1>3, <1>6, <2>2, Zenon DEF DivergedInv
  <1> QED
    BY <1>1, <1>4, <1>5, <1>7, <1>8, Zenon

\* A step with a failed call: what it counts is no longer claimed.
LEMMA ReconFault ==
  ASSUME ReconInv, ReadBalances, result' = [result EXCEPT !.errors = @ + 1],
         pos' = pos + 1, UNCHANGED todo
  PROVE  ReconInv'
  <1> USE DEF ReconInv
  <1>1. /\ pos \in DOMAIN Wallets /\ pos # 0 /\ todo = {} /\ pos' # 0
        /\ UNCHANGED <<chainBal, dbBal, alerted, diverged, suspect>>
    BY ReconcileConstants DEF ReadBalances, historyVars
  <1>2. ReconTypeOK'
    <2>1. result' \in [total : Nat, matched : Nat, mismatched : Nat, errors : Nat]
      BY DEF ReconTypeOK
    <2>2. pos' \in 0..Len(Wallets) + 1
      BY <1>1, ReconcileConstants
    <2> QED
      BY <1>1, <2>1, <2>2, Zenon DEF ReconTypeOK
  <1>3. ~NoFault'
    BY DEF NoFault, ReconTypeOK
  <1>4. Wrong' = Wrong /\ Shown' = Shown
    BY <1>1, Zenon DEF Asked, Wrong, Shown, Stored, GetBalance
  <1> QED
    BY <1>1, <1>2, <1>3, <1>4, Zenon DEF RowsInv, SuspectInv, DivergedInv

\* reconcileOne: without a fault a mismatch is a suspect, and a slot that stood
\* wrong is a mismatch.
LEMMA ReconCompare ==
  ASSUME ReconInv, NEW row \in todo, NEW found \in BOOLEAN, NEW answered \in BOOLEAN,
         CompareOne(row, found, answered)
  PROVE  ReconInv'
  <1> USE DEF ReconInv
  <1> DEFINE slot == row.slot
  <1>1. /\ pos \in DOMAIN Wallets /\ pos # 0 /\ todo' = todo \ {row}
        /\ pos' = (IF todo' = {} THEN pos + 1 ELSE pos) /\ pos' # 0
        /\ UNCHANGED <<chainBal, dbBal, alerted, diverged, suspect>>
    BY ReconcileConstants DEF CompareOne, historyVars
  <1>2. todo' # {} => pos' = pos
    BY <1>1, Zenon
  <1>3. slot \in Slots /\ slot \notin Done /\ Done' = Done \cup {slot}
    BY <1>1, DoneCompare, Zenon
  <1>4. slot \in Asked /\ slot.wallet = Wallets[pos]
    BY Zenon DEF RowsInv
  <1>5. result' = Count(answered /\ chainBal[Liquid(Wallets[pos], IF found THEN slot.token ELSE Native)]
                                       = row.amount)
    BY Zenon DEF CompareOne
  <1>6. ReconTypeOK'
    <2>1. result' \in [total : Nat, matched : Nat, mismatched : Nat, errors : Nat]
      BY <1>5 DEF ReconTypeOK, Count
    <2>2. pos' \in 0..Len(Wallets) + 1
      BY <1>1, ReconcileConstants
    <2> QED
      BY <1>1, <1>2, <2>1, <2>2, Zenon DEF ReconTypeOK
  <1>7. NoFault' => /\ NoFault
                    /\ result'.mismatched = IF GetBalance(slot) = row.amount
                                            THEN result.mismatched ELSE result.mismatched + 1
    <2>1. NoFault' => found /\ answered /\ ~faults
      BY Zenon DEF NoFault, CompareOne
    <2>2. result'.errors = result.errors
      BY <1>5, Zenon DEF Count, ReconTypeOK
    <2>3. NoFault' => result' = Count(GetBalance(slot) = row.amount)
      BY <1>4, <1>5, <2>1, Zenon DEF GetBalance
    <2>4. NoFault' => NoFault
      BY <2>1, <2>2, Zenon DEF NoFault
    <2>5. \A ok : Count(ok).mismatched = result.mismatched + (IF ok THEN 0 ELSE 1)
      BY Zenon DEF Count
    <2>6. NoFault' => result'.mismatched = result.mismatched
                                           + (IF GetBalance(slot) = row.amount THEN 0 ELSE 1)
      BY <2>3, <2>5, Zenon
    <2>7. result.mismatched \in Nat
      BY Zenon DEF ReconTypeOK
    <2> HIDE DEF slot
    <2> QED
      BY <2>4, <2>6, <2>7
  <1>8. result.mismatched \in Nat /\ Done \subseteq Slots /\ suspect \subseteq Slots /\ diverged \subseteq Slots
    BY Zenon DEF ReconTypeOK, Done
  <1>9. Asked' = Asked /\ Wrong' = Wrong /\ Shown' = Shown /\ \A s : Stored(s)' = Stored(s)
    BY <1>1, Zenon DEF Asked, Wrong, Shown, Stored, GetBalance
  <1>10. RowsInv'
    BY <1>1, <1>2, <1>9, Zenon DEF RowsInv
  <1>11. SuspectInv'
    <2>1. GetBalance(slot) # row.amount => slot \in suspect
      BY <1>1, <1>4, Zenon DEF SuspectInv, Wrong
    <2>2. NoFault => result.mismatched <= Cardinality(suspect \cap Done)
      BY <1>1, Zenon DEF SuspectInv
    <2>3. Cardinality(suspect \cap Done) \in Nat /\ Cardinality(suspect \cap Done') \in Nat
          /\ Cardinality(suspect \cap Done) <= Cardinality(suspect \cap Done')
      BY <1>3, <1>8, SlotsWithin, Zenon
    <2>4. slot \in suspect => Cardinality(suspect \cap Done') = Cardinality(suspect \cap Done) + 1
      <3>1. slot \in suspect => suspect \cap Done' = (suspect \cap Done) \cup {slot}
        BY <1>3, Zenon
      <3>2. slot \notin suspect \cap Done /\ suspect \cap Done \in SUBSET Slots
        BY <1>3, <1>8, Zenon
      <3> QED
        BY <1>3, <3>1, <3>2, SlotsAdd, Zenon
    <2> HIDE DEF slot
    <2>5. NoFault' => result'.mismatched <= Cardinality(suspect \cap Done')
      BY <1>7, <1>8, <2>1, <2>2, <2>3, <2>4
    <2>6. \A r \in todo' : r.slot \notin suspect => Stored(r.slot) = r.amount
      BY <1>1, Zenon DEF SuspectInv
    <2>7. Wrong \subseteq suspect
      BY <1>1, Zenon DEF SuspectInv
    <2> QED
      BY <1>1, <1>9, <2>5, <2>6, <2>7, Zenon DEF SuspectInv
  <1>12. DivergedInv'
    <2>1. slot \in diverged => GetBalance(slot) # row.amount
      BY Zenon DEF DivergedInv, Wrong
    <2>2. NoFault => Cardinality(diverged \cap Done) <= result.mismatched
      BY <1>1, Zenon DEF DivergedInv
    <2>3. Cardinality(diverged \cap Done) \in Nat /\ Cardinality(diverged \cap Done') \in Nat
      BY <1>3, <1>8, SlotsWithin, Zenon
    <2>4. slot \notin diverged => diverged \cap Done' = diverged \cap Done
      BY <1>3, Zenon
    <2>5. slot \in diverged => Cardinality(diverged \cap Done') <= Cardinality(diverged \cap Done) + 1
      <3>1. slot \in diverged => diverged \cap Done' = (diverged \cap Done) \cup {slot}
        BY <1>3, Zenon
      <3> QED
        BY <1>3, <1>8, <3>1, SlotsAdd, Zenon
    <2> HIDE DEF slot
    <2>6. NoFault' => Cardinality(diverged \cap Done') <= result'.mismatched
      <3>1. CASE slot \in diverged
        BY <1>7, <1>8, <2>1, <2>2, <2>3, <2>5, <3>1
      <3>2. CASE slot \notin diverged
        <4>1. Cardinality(diverged \cap Done') = Cardinality(diverged \cap Done)
          BY <2>4, <3>2, Zenon
        <4> QED
          BY <1>7, <1>8, <2>2, <2>3, <4>1
      <3> QED
        BY <3>1, <3>2, Zenon
    <2>7. \A r \in todo' : r.slot \in diverged => Stored(r.slot) = r.amount
      BY <1>1, Zenon DEF DivergedInv
    <2> QED
      BY <1>1, <1>9, <2>6, <2>7, Zenon DEF DivergedInv
  <1> QED
    BY <1>1, <1>6, <1>10, <1>11, <1>12, Zenon

\* The end of a pass: it alerts when it counted a mismatch.
LEMMA ReconFinishes ==
  ASSUME ReconInv, ReconFinish
  PROVE  ReconInv'
  <1> USE DEF ReconInv
  <1>1. /\ pos # 0 /\ pos' = 0 /\ alerted' = (result.mismatched > 0) /\ todo = {}
        /\ UNCHANGED <<chainBal, dbBal, todo, result, faults, diverged, suspect>>
    BY ReconcileConstants DEF ReconFinish, ReconTypeOK, historyVars
  <1>2. ReconTypeOK'
    BY <1>1, ReconcileConstants DEF ReconTypeOK
  <1>3. (NoFault' <=> NoFault) /\ Wrong' = Wrong /\ Shown' = Shown
    BY <1>1, Zenon DEF NoFault, Asked, Wrong, Shown, Stored, GetBalance
  <1>4. NoFault => result.mismatched <= Cardinality(suspect)
    <2>1. /\ Cardinality(suspect \cap Done) <= Cardinality(suspect)
          /\ Cardinality(suspect \cap Done) \in Nat /\ Cardinality(suspect) \in Nat
      BY SlotsWithin, Zenon DEF ReconTypeOK
    <2>2. NoFault => result.mismatched <= Cardinality(suspect \cap Done)
      BY <1>1, Zenon DEF SuspectInv
    <2> QED
      BY <2>1, <2>2 DEF ReconTypeOK
  <1>5. SuspectInv'
    BY <1>1, <1>3, <1>4, Zenon DEF SuspectInv
  <1>6. RowsInv' /\ DivergedInv'
    BY <1>1, <1>3, Zenon DEF RowsInv, DivergedInv
  <1> QED
    BY <1>1, <1>2, <1>5, <1>6, Zenon

\* Every step keeps the invariant.
LEMMA ReconStep == ReconInv /\ [ReconNext]_reconVars => ReconInv'
  <1> SUFFICES ASSUME ReconInv, [ReconNext]_reconVars PROVE ReconInv'
    BY Zenon
  <1>1. CASE ReconBegin
    BY <1>1, ReconBegins, Zenon
  <1>2. CASE ReadBalances
    BY <1>2, ReconRead, ReconFault, Zenon DEF ReadBalances
  <1>3. CASE ReconFinish
    BY <1>3, ReconFinishes, Zenon
  <1>4. ASSUME NEW stored \in SUBSET Slots, Ingest(stored) PROVE ReconInv'
    BY <1>4, ReconIngest, Zenon
  <1>5. ASSUME NEW now \in [Slots -> 0..MaxAmount], Transfer(now) PROVE ReconInv'
    BY <1>5, ReconTransfer, Zenon
  <1>6. ASSUME NEW row \in todo, NEW found \in BOOLEAN, NEW answered \in BOOLEAN,
               CompareOne(row, found, answered)
        PROVE  ReconInv'
    BY <1>6, ReconCompare, Zenon
  <1>7. CASE UNCHANGED reconVars
    BY <1>7, Zenon DEF reconVars, historyVars, ReconInv, ReconTypeOK, RowsInv, DivergedInv, SuspectInv,
                       Done, Waiting, NoFault, Asked, Wrong, Shown, Stored, GetBalance
  <1> QED
    BY <1>1, <1>2, <1>3, <1>4, <1>5, <1>6, <1>7, Zenon DEF ReconNext

\* The invariant at the end of a pass: it is through with every slot.
LEMMA ReconImplies == ReconInv => VerdictSound
  <1> SUFFICES ASSUME ReconInv, NoFault
               PROVE  /\ result.mismatched <= Cardinality(suspect) /\ (alerted => suspect # {})
                      /\ pos = Len(Wallets) + 1 => Cardinality(diverged) <= result.mismatched
    BY Zenon DEF VerdictSound, NoFault
  <1> USE DEF ReconInv
  <1>1. result.mismatched <= Cardinality(suspect)
    <2>1. /\ Cardinality(suspect \cap Done) <= Cardinality(suspect)
          /\ Cardinality(suspect \cap Done) \in Nat /\ Cardinality(suspect) \in Nat
      BY SlotsWithin, Zenon DEF ReconTypeOK
    <2>2. result.mismatched <= Cardinality(IF pos = 0 THEN suspect ELSE suspect \cap Done)
      BY Zenon DEF SuspectInv
    <2> QED
      BY <2>1, <2>2 DEF ReconTypeOK
  <1>2. alerted => suspect # {}
    <2>1. Cardinality({}) = 0
      BY FS_EmptySet, Zenon
    <2>2. suspect = {} => Cardinality(suspect) = 0
      BY <2>1, Zenon
    <2>3. result.mismatched > 0 => Cardinality(suspect) # 0
      BY <1>1 DEF ReconTypeOK
    <2> QED
      BY <2>2, <2>3, Zenon
  <1>3. ASSUME pos = Len(Wallets) + 1 PROVE Cardinality(diverged) <= result.mismatched
    <2>1. \A w \in WalletSet : \E i \in DOMAIN Wallets : i < pos /\ w = Wallets[i]
      BY <1>3, ReconcileConstants DEF WalletSet
    <2>2. pos # 0
      BY <1>3, ReconcileConstants
    <2>3. \A s \in Slots : s.wallet \in WalletSet
      BY SlotsAssumption, Zenon
    <2>4. diverged \cap Done = diverged
      BY <2>1, <2>3, Zenon DEF Done, ReconTypeOK
    <2> QED
      BY <2>2, <2>4, Zenon DEF DivergedInv
  <1> QED
    BY <1>1, <1>2, <1>3, Zenon

\* A pass without a failed call counts only rows that were wrong at some moment of
\* it, and every row that stood wrong throughout (Reconcile), for any addresses,
\* tokens, balance types and amounts and any number of transactions.
THEOREM VerdictSoundAlways == ReconSpec => []VerdictSound
  <1>1. ReconInit => ReconInv
    BY ReconInvInit, Zenon
  <1>2. ReconInv /\ [ReconNext]_reconVars => ReconInv'
    BY ReconStep, Zenon
  <1>3. ReconInv => VerdictSound
    BY ReconImplies, Zenon
  <1> QED
    BY <1>1, <1>2, <1>3, PTL DEF ReconSpec
=============================================================================
