--------------------------- MODULE ReorgDetector ---------------------------
(***************************************************************************)
(* The reorg detector, the finalizer and the ingester's handlers around    *)
(* the table indexed_blocks (internal/pipeline/reorgdetector, finalizer,   *)
(* ingester, store/postgres/indexed_block_repo.go), for transactions that  *)
(* carry their block's hash.  A block's hash is its height with the number *)
(* of the reorganisation that brought it.                                  *)
(***************************************************************************)
EXTENDS Integers, Sequences, FiniteSets

CONSTANTS
    MaxBlock,         \* bound: chain length
    MaxReorgs,        \* bound: reorganisations of the chain
    MaxRpcErrors,     \* bound: failed GetBlockHash calls
    Busy,             \* heights whose blocks hold watched transactions
    QueryLimit,       \* rows GetUnfinalized returns at most (1000)
    MaxCheckDepth,    \* rows one check looks at (256)
    ReorgCap,         \* capacity of reorgCh and of finalityCh (4)
    FinalityDepth,    \* blocks the chain takes to finalize one
    RetentionBlocks   \* finalized rows to keep, 0: all

ASSUME DetectorConstants ==
    /\ MaxBlock \in Nat /\ MaxReorgs \in Nat /\ MaxRpcErrors \in Nat
    /\ Busy \subseteq Nat \ {0}
    /\ QueryLimit \in Nat \ {0} /\ MaxCheckDepth \in Nat \ {0}
    /\ ReorgCap \in Nat \ {0} /\ FinalityDepth \in Nat /\ RetentionBlocks \in Nat

VARIABLES
    chain,            \* the canonical chain: the reorganisation each height is from
    finalized,        \* the height the chain will not change any more
    reorgs,           \* reorganisations so far
    rpcErrors,        \* failed GetBlockHash calls so far
    indexed,          \* indexed_blocks: height -> [hash, parent, final]
    watermark,        \* pipeline_watermarks.ingested_sequence
    inflight,         \* a scanned batch on its way to the ingester
    check,            \* the detector's check in progress
    lastVerified,     \* Detector.lastVerified
    reorgCh,          \* fork heights on their way to the ingester
    lastFinalized,    \* Finalizer.lastFinalized
    finalityCh,       \* promotions on their way to the ingester
    pruneBefore       \* the cutoff the finalizer is about to prune at, 0: none

chainVars == <<chain, finalized, reorgs>>
dbVars == <<indexed, watermark>>
detectorVars == <<rpcErrors, check, lastVerified>>
finalizerVars == <<lastFinalized, pruneBefore>>
vars == <<chainVars, dbVars, inflight, detectorVars, reorgCh, finalityCh, finalizerVars>>

Empty == [n \in {} |-> 0]
NoBatch == [upto |-> 0, rows |-> Empty]
Idle == [pc |-> "idle"]
HashAt(c, n) == <<n, IF n = 0 THEN 0 ELSE c[n]>>
Row(c, n) == [hash |-> HashAt(c, n), parent |-> HashAt(c, n - 1), final |-> FALSE]
Heights == DOMAIN indexed
Orphan(n) == n \in Heights /\ n <= Len(chain) /\ indexed[n].hash # HashAt(chain, n)
Unfinalized == {n \in Heights : ~indexed[n].final}

Init ==
    /\ chain = <<0>> /\ finalized = 0 /\ reorgs = 0 /\ rpcErrors = 0
    /\ indexed = Empty /\ watermark = 0 /\ inflight = NoBatch
    /\ check = Idle /\ lastVerified = {}
    /\ reorgCh = <<>> /\ finalityCh = <<>>
    /\ lastFinalized = 0 /\ pruneBefore = 0
-----------------------------------------------------------------------------
(* The chain *)

Larger(a, b) == IF a > b THEN a ELSE b

NewBlock ==
    /\ Len(chain) < MaxBlock
    /\ chain' = Append(chain, chain[Len(chain)])
    /\ finalized' = Larger(finalized, Len(chain) + 1 - FinalityDepth)
    /\ UNCHANGED <<reorgs, dbVars, inflight, detectorVars, reorgCh, finalityCh, finalizerVars>>

\* Another branch from height fork on, at first as long as the old one or
\* shorter; no finalized block changes.
ChainReorg(fork, len) ==
    /\ reorgs < MaxReorgs
    /\ fork > finalized /\ fork <= len /\ len <= Len(chain)
    /\ chain' = [n \in 1..len |-> IF n < fork THEN chain[n] ELSE reorgs + 1]
    /\ reorgs' = reorgs + 1
    /\ UNCHANGED <<finalized, dbVars, inflight, detectorVars, reorgCh, finalityCh, finalizerVars>>
-----------------------------------------------------------------------------
(* The pipeline before the ingester: blocks after the watermark, as the     *)
(* chain has them at the moment of the scan.                                *)

ScanBlocks(end) ==
    /\ inflight = NoBatch
    /\ end > watermark /\ end <= Len(chain)
    /\ inflight' = [upto |-> end, rows |-> [n \in Busy \cap ((watermark + 1)..end) |-> Row(chain, n)]]
    /\ UNCHANGED <<chainVars, dbVars, detectorVars, reorgCh, finalityCh, finalizerVars>>

\* BulkUpsertTx overwrites the row of a height.
BulkUpsert(table, rows) ==
    [n \in DOMAIN table \cup DOMAIN rows |-> IF n \in DOMAIN rows THEN rows[n] ELSE table[n]]

\* UpdateWatermarkTx only raises the watermark.
CommitBatch ==
    /\ inflight # NoBatch
    /\ indexed' = BulkUpsert(indexed, inflight.rows)
    /\ watermark' = Larger(watermark, inflight.upto)
    /\ inflight' = NoBatch
    /\ UNCHANGED <<chainVars, detectorVars, reorgCh, finalityCh, finalizerVars>>
-----------------------------------------------------------------------------
(* Detector.check *)

\* The n largest members of S.
Newest(S, n) == {x \in S : Cardinality({y \in S : y > x}) < n}

\* The heights a check looks at.  GetUnfinalized sorts them ascending; only a
\* result longer than MaxCheckDepth is sorted the other way round and cut.
Listed == Newest(Unfinalized, QueryLimit)
Cut == Cardinality(Listed) > MaxCheckDepth
ToCheck == IF Cut THEN Newest(Listed, MaxCheckDepth) ELSE Listed

\* n comes first among the heights S of a list that runs up or down.
ComesFirst(n, S, down) == \A m \in S : IF down THEN m <= n ELSE n <= m

\* Mutant: the parent is taken to be the next lower row of the list.
BreakAny(list, n) ==
    \E m \in list : /\ m < n /\ \A x \in list : x < n => x <= m
                    /\ indexed[n].parent # indexed[m].hash

\* verifyParentHashChain: the row's parent is in the list and is another block.
BreaksAt(list, n) == (n - 1) \in list /\ indexed[n].parent # indexed[n - 1].hash

Report(n) == [pc |-> "emit", fork |-> n]

\* The query and the checks that need no RPC.
StartCheck ==
    LET breaks == {n \in ToCheck : BreaksAt(ToCheck, n)}
    IN  /\ check = Idle
        /\ \/ ToCheck = {} /\ check' = Idle /\ lastVerified' = {}
           \/ \E n \in breaks : /\ ComesFirst(n, breaks, Cut)
                               /\ check' = Report(n) /\ lastVerified' = {}
           \/ /\ ToCheck # {} /\ breaks = {}
              /\ check' = [pc |-> "verify", down |-> Cut, first |-> TRUE, verified |-> {},
                           todo |-> [n \in ToCheck |-> indexed[n]]]
              /\ UNCHANGED lastVerified
        /\ UNCHANGED <<chainVars, dbVars, inflight, rpcErrors, reorgCh, finalityCh, finalizerVars>>

\* The rest of the check once the row of height n is dealt with.
Advance(n, verified) ==
    LET rest == DOMAIN check.todo \ {n}
    IN  IF rest = {}
          THEN check' = Idle /\ lastVerified' = verified
          ELSE /\ check' = [pc |-> "verify", down |-> check.down, first |-> FALSE, verified |-> verified,
                            todo |-> [m \in rest |-> check.todo[m]]]
               /\ UNCHANGED lastVerified

\* Mutant: the first row is skipped like the others.
CachedTip(n) == <<n, check.todo[n].hash>> \in lastVerified

\* Every row but the first is skipped when an earlier check verified it.
Cached(n) == ~check.first /\ <<n, check.todo[n].hash>> \in lastVerified

\* verifyBlock, or the answer of an earlier check.  The table and the chain
\* may have changed since the query.
VerifyBlock(n) ==
    LET row == check.todo[n]
        verified == check.verified \cup {<<n, row.hash>>}
    IN  /\ ComesFirst(n, DOMAIN check.todo, check.down)
        /\ \/ Cached(n) /\ Advance(n, verified) /\ UNCHANGED rpcErrors
           \/ /\ ~Cached(n) /\ n <= Len(chain) /\ UNCHANGED rpcErrors
              /\ IF row.hash = HashAt(chain, n) /\ row.parent = HashAt(chain, n - 1)
                   THEN Advance(n, verified)
                   ELSE check' = Report(n) /\ lastVerified' = {}
           \/ ~Cached(n) /\ n > Len(chain) /\ Advance(n, check.verified) /\ UNCHANGED rpcErrors
           \/ /\ ~Cached(n) /\ n <= Len(chain) /\ rpcErrors < MaxRpcErrors
              /\ rpcErrors' = rpcErrors + 1 /\ Advance(n, check.verified)
        /\ UNCHANGED <<chainVars, dbVars, inflight, reorgCh, finalityCh, finalizerVars>>

VerifyNext == check.pc = "verify" /\ \E n \in DOMAIN check.todo : VerifyBlock(n)

\* emitReorg waits for room in the channel.
EmitReorg ==
    /\ check.pc = "emit" /\ Len(reorgCh) < ReorgCap
    /\ reorgCh' = Append(reorgCh, check.fork)
    /\ check' = Idle
    /\ UNCHANGED <<chainVars, dbVars, inflight, rpcErrors, lastVerified, finalityCh, finalizerVars>>
-----------------------------------------------------------------------------
(* Ingester.handleReorg and handleFinalityPromotion, between two batches *)

\* Mutant: the forked row itself is kept.
RollbackAbove(fork) ==
    /\ indexed' = [n \in {x \in Heights : x <= fork} |-> indexed[n]]
    /\ watermark' = Larger(fork - 1, 0)

\* Mutant: the rollback takes the fork's parent too.
RollbackParent(fork) ==
    /\ indexed' = [n \in {x \in Heights : x < fork - 1} |-> indexed[n]]
    /\ watermark' = Larger(fork - 1, 0)

\* DeleteFromBlockTx, then RewindWatermarkTx whatever the watermark is.
RollbackFrom(fork) ==
    /\ indexed' = [n \in {x \in Heights : x < fork} |-> indexed[n]]
    /\ watermark' = Larger(fork - 1, 0)

HandleReorg ==
    /\ reorgCh # <<>>
    /\ RollbackFrom(Head(reorgCh))
    /\ reorgCh' = Tail(reorgCh)
    /\ UNCHANGED <<chainVars, inflight, detectorVars, finalityCh, finalizerVars>>

HandleFinalityPromotion ==
    /\ finalityCh # <<>>
    /\ indexed' = [n \in Heights |-> [indexed[n] EXCEPT !.final = @ \/ n <= Head(finalityCh)]]
    /\ finalityCh' = Tail(finalityCh)
    /\ UNCHANGED <<chainVars, watermark, inflight, detectorVars, reorgCh, finalizerVars>>
-----------------------------------------------------------------------------
(* Finalizer.check: the promotion is sent, then old finalized rows are pruned *)

SendPromotion ==
    /\ pruneBefore = 0 /\ finalized > lastFinalized
    /\ Len(finalityCh) < ReorgCap
    /\ finalityCh' = Append(finalityCh, finalized)
    /\ lastFinalized' = finalized
    /\ pruneBefore' = IF RetentionBlocks > 0 THEN Larger(finalized - RetentionBlocks, 0) ELSE 0
    /\ UNCHANGED <<chainVars, dbVars, inflight, detectorVars, reorgCh>>

PurgeFinalizedBefore ==
    /\ pruneBefore > 0
    /\ indexed' = [n \in {x \in Heights : x >= pruneBefore \/ ~indexed[x].final} |-> indexed[n]]
    /\ pruneBefore' = 0
    /\ UNCHANGED <<chainVars, watermark, inflight, detectorVars, reorgCh, finalityCh, lastFinalized>>
-----------------------------------------------------------------------------
Next ==
    \/ NewBlock
    \/ \E fork, len \in 1..Len(chain) : ChainReorg(fork, len)
    \/ \E end \in 1..Len(chain) : ScanBlocks(end)
    \/ CommitBatch
    \/ StartCheck \/ VerifyNext \/ EmitReorg
    \/ HandleReorg \/ HandleFinalityPromotion
    \/ SendPromotion \/ PurgeFinalizedBefore

\* The detector's ticker fires and its calls return; the ingester serves each
\* of its channels again and again.
Spec ==
    /\ Init /\ [][Next]_vars
    /\ WF_vars(StartCheck) /\ WF_vars(VerifyNext) /\ WF_vars(EmitReorg)
    /\ WF_vars(CommitBatch) /\ WF_vars(HandleReorg) /\ WF_vars(HandleFinalityPromotion)
    /\ WF_vars(\E end \in 1..Len(chain) : ScanBlocks(end))
-----------------------------------------------------------------------------
(* Properties *)

\* indexed_blocks never holds a block the watermark has not passed: a rollback
\* of handleReorg deletes exactly what it will have scanned again.
RowsBelowWatermark == \A n \in Heights : n <= watermark

\* While the chain has never reorganised, the detector reports nothing,
\* whatever gaps the indexed heights have and whatever RPC calls fail.
NoFalseAlarm == reorgs = 0 => check.pc # "emit" /\ reorgCh = <<>>

\* A height has changed when a reorganisation ever reached it: the branch number
\* of its lowest fork stays in the chain, or a later branch's from further down.
Changed(n) == \E m \in 1..n : m <= Len(chain) /\ chain[m] # 0

\* Where the chain has never changed, a row stays and keeps its block, although
\* forks are reported from rows read earlier, wait in the channel and are rolled
\* back whatever has happened since (check, handleReorg); it goes only by pruning
\* (PurgeFinalizedBefore), when it is final and past the retention.
SettledRowsStay ==
    [][\A n \in Heights : ~Changed(n) =>
          \/ n \in DOMAIN indexed' /\ indexed'[n].hash = indexed[n].hash
          \/ indexed[n].final /\ n + RetentionBlocks < finalized]_vars

OldestOrphan ==
    /\ Cardinality(Unfinalized) \in 1..MaxCheckDepth
    /\ \E n \in Unfinalized : Orphan(n) /\ \A x \in Unfinalized : n <= x

\* If the oldest unfinalized row left the chain and one check covers all rows,
\* the detector reports a fork unless the row goes away or becomes final first.
OldestOrphanReported == OldestOrphan ~> (~OldestOrphan \/ reorgCh # <<>>)
-----------------------------------------------------------------------------
(* Two expectations the code does not meet *)

\* "Rewind watermark": handling a reorganisation never moves the watermark
\* forward.  A fork that waited behind a lower one does: RewindWatermarkTx sets
\* the watermark whatever it is, past blocks the first rollback deleted.
RollbackRewinds == [][HandleReorg => watermark' <= watermark]_vars

\* A row promoted to final holds the chain's block.  The promotion compares no
\* hash: an orphan the detector has not come to is marked final, and is checked
\* no more.
FinalRowsCanonical == \A n \in Heights : indexed[n].final => ~Orphan(n)
=============================================================================
