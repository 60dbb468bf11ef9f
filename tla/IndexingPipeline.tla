------------------------- MODULE IndexingPipeline -------------------------
(***************************************************************************)
(* One chain's indexing pipeline: Coordinator -> jobCh -> Fetcher workers  *)
(* -> rawBatchCh -> Normalizer workers -> normalizedCh -> the single       *)
(* Ingester -> PostgreSQL (internal/pipeline).                             *)
(*                                                                         *)
(* The data is abstracted to signatures (transactions of watched           *)
(* addresses); a signature stands for its balance events and their deltas. *)
(* `credit` counts how often a signature's deltas are in `balances`, and   *)
(* `stored` is the set of signatures that have rows in `balance_events`.   *)
(* Table details (finality, promotion, duplicate keys) are in Ledger.      *)
(***************************************************************************)
EXTENDS Integers, Sequences, FiniteSets, FiniteSetsExt

CONSTANTS
    Sigs,             \* transaction signatures of watched addresses
    BlockOf,          \* [Sigs -> 0..MaxBlock], the block (slot) a signature is in
    InitChain,        \* the signatures on the canonical chain at start
    Undecodable,      \* signatures the sidecar rejects with a terminal error
    Hashed,           \* signatures whose normalized transaction has a BlockHash:
                      \* none, the way normalizedTxFromResult fills it in
    MaxBlock,         \* bound: the highest block the chain head reaches
    InitHead,         \* chain head when the model starts
    InitWatermark,    \* pipeline_watermarks.ingested_sequence, -1: no row
    BatchSizes,       \* blocks per tick: what autotune or config may choose
    Lookback,         \* maxInitialLookbackBlocks, 0: disabled
    MaxBatchTxs,      \* effectiveBlockScanMaxBatchTxs
    JobCap, RawCap, NormCap, ReorgCap,    \* channel buffer sizes
    Fetchers, Normalizers,      \* worker pools
    MaxRestarts,      \* bound: failures of the run (crash or stage error)
    MaxReorgs         \* bound: chain reorganisations

ASSUME PipelineAssumption ==
    /\ BlockOf \in [Sigs -> 0..MaxBlock]
    /\ InitChain \subseteq Sigs
    /\ Undecodable \subseteq Sigs /\ Hashed \subseteq Sigs
    /\ MaxBlock \in Nat /\ InitHead \in 0..MaxBlock
    /\ InitWatermark \in Nat \cup {-1}
    /\ BatchSizes \subseteq Nat \ {0}
    /\ Lookback \in Nat
    /\ MaxBatchTxs \in Nat \ {0}
    /\ JobCap \in Nat /\ RawCap \in Nat /\ NormCap \in Nat /\ ReorgCap \in Nat
    /\ MaxRestarts \in Nat /\ MaxReorgs \in Nat
    /\ IsFiniteSet(Sigs)

VARIABLES
    chain,         \* signatures on the canonical chain
    head,          \* chain head (adapter.GetHeadSequence)
    reorgs,        \* number of reorganisations so far
    coord,         \* the job the Coordinator is blocked sending, or NoJob
    lastEnqueued,  \* hasEnqueued / lastEnqueuedStart / lastEnqueuedEnd
    jobCh, rawCh, normCh, reorgCh,    \* the channels of one run
    fetching,      \* [Fetchers -> the job being fetched, or Idle]
    normalizing,   \* [Normalizers -> the batch being decoded, or Idle]
    stored,        \* signatures with rows in balance_events
    credit,        \* [Sigs -> how often its deltas are in balances]
    watermark,     \* pipeline_watermarks.ingested_sequence, -1: no row
    restarts

chainVars == <<chain, head, reorgs>>
runVars == <<coord, lastEnqueued, jobCh, rawCh, normCh, reorgCh, fetching, normalizing>>
dbVars == <<stored, credit, watermark>>
vars == <<chainVars, runVars, dbVars, restarts>>

NoJob == [start |-> -1, end |-> -1]
Job == [start : Nat, end : Nat]
Idle == [job |-> NoJob, sigs |-> {}, newest |-> 0]

\* A batch between the stages.  job is the range it was cut from (only the
\* sentinel carries it in the code; here it is kept for the properties).
Batch == [job : Job, sigs : SUBSET Sigs, newSeq : Nat \cup {-1}]
NoBatch == [job |-> NoJob, sigs |-> {}, newSeq |-> -1]

SigsIn(first, last) == {s \in chain : first <= BlockOf[s] /\ BlockOf[s] <= last}

Larger(a, b) == IF a >= b THEN a ELSE b

Init ==
    /\ chain = InitChain /\ head = InitHead /\ reorgs = 0
    /\ coord = NoJob /\ lastEnqueued = NoJob
    /\ jobCh = <<>> /\ rawCh = <<>> /\ normCh = <<>> /\ reorgCh = <<>>
    /\ fetching = [f \in Fetchers |-> Idle]
    /\ normalizing = [n \in Normalizers |-> NoBatch]
    /\ stored = {} /\ credit = [s \in Sigs |-> 0]
    /\ watermark = InitWatermark
    /\ restarts = 0

-----------------------------------------------------------------------------
(* The chain *)

NewHead ==
    /\ head < MaxBlock
    /\ head' = head + 1
    /\ UNCHANGED <<chain, reorgs, runVars, dbVars, restarts>>

\* Blocks from fork on are replaced; their transactions become others.
ChainReorg(fork) ==
    /\ reorgs < MaxReorgs
    /\ \E s \in chain : BlockOf[s] >= fork /\ BlockOf[s] <= head
    /\ \E fresh \in SUBSET {s \in Sigs \ chain : BlockOf[s] >= fork} :
          chain' = {s \in chain : BlockOf[s] < fork} \cup fresh
    /\ reorgs' = reorgs + 1
    /\ UNCHANGED <<head, runVars, dbVars, restarts>>

-----------------------------------------------------------------------------
(* Coordinator *)

\* Mutant: the first unread block is passed over.
StartBlockOffByOne(reading, h) == IF reading > 0 THEN reading + 2 ELSE 0

\* startBlock from a watermark reading; 0 or none means first run.
StartBlock(reading, h) ==
    IF reading > 0 THEN reading + 1
    ELSE IF h > 0 /\ Lookback > 0 THEN Larger(0, h - Lookback + 1)
    ELSE 0

EndBlock(start, h, batchSize) ==
    IF h > 0 /\ h - start + 1 > batchSize THEN start + batchSize - 1 ELSE h

TickJob(reading, batchSize) ==
    LET start == StartBlock(reading, head)
    IN  [start |-> start, end |-> EndBlock(start, head, batchSize)]

NothingToScan(reading) == head > 0 /\ StartBlock(reading, head) > head

\* The job is built from the reading; the send comes later (Enqueue), because
\* it blocks while jobCh is full.
Tick(reading) ==
    /\ coord = NoJob
    /\ ~NothingToScan(reading)
    /\ \E b \in BatchSizes :
          /\ TickJob(reading, b) # lastEnqueued
          /\ coord' = TickJob(reading, b)
    /\ UNCHANGED <<chainVars, lastEnqueued, jobCh, rawCh, normCh, reorgCh,
                   fetching, normalizing, dbVars, restarts>>

TickBlockScan == Tick(watermark)

\* The watermark read failed: the tick logs a warning and goes on without one.
TickReadFailed == Tick(-1)

Enqueue ==
    /\ coord # NoJob
    /\ Len(jobCh) < JobCap
    /\ jobCh' = Append(jobCh, coord)
    /\ lastEnqueued' = coord
    /\ coord' = NoJob
    /\ UNCHANGED <<chainVars, rawCh, normCh, reorgCh, fetching, normalizing,
                   dbVars, restarts>>

-----------------------------------------------------------------------------
(* Fetcher *)

\* Mutant: no signature, no block.
NewestOrNone(sigs) == IF sigs = {} THEN -1 ELSE Max({BlockOf[s] : s \in sigs})

Newest(sigs) == IF sigs = {} THEN 0 ELSE Max({BlockOf[s] : s \in sigs})

\* A worker takes a job and scans its blocks.
ScanBlocks(f) ==
    /\ fetching[f] = Idle
    /\ jobCh # <<>>
    /\ LET job == Head(jobCh)
           found == SigsIn(job.start, job.end)
       IN  fetching' = [fetching EXCEPT ![f] =
                          [job |-> job, sigs |-> found, newest |-> Newest(found)]]
    /\ jobCh' = Tail(jobCh)
    /\ UNCHANGED <<chainVars, coord, lastEnqueued, rawCh, normCh, reorgCh,
                   normalizing, dbVars, restarts>>

\* The next sub-batch: the oldest MaxBatchTxs of the signatures left.
Chunks(sigs) ==
    {c \in SUBSET sigs :
        /\ Cardinality(c) = MaxBatchTxs
        /\ \A s \in c, t \in sigs \ c : BlockOf[s] <= BlockOf[t]}

\* No signatures: an empty batch that only moves the watermark to EndBlock.
SendSentinel(f) ==
    /\ fetching[f] # Idle /\ fetching[f].sigs = {}
    /\ Len(rawCh) < RawCap
    /\ rawCh' = Append(rawCh, [job |-> fetching[f].job, sigs |-> {},
                               newSeq |-> fetching[f].job.end])
    /\ fetching' = [fetching EXCEPT ![f] = Idle]
    /\ UNCHANGED <<chainVars, coord, lastEnqueued, jobCh, normCh, reorgCh,
                   normalizing, dbVars, restarts>>

SendLastChunk(f) ==
    /\ fetching[f].sigs # {}
    /\ Cardinality(fetching[f].sigs) <= MaxBatchTxs
    /\ Len(rawCh) < RawCap
    /\ rawCh' = Append(rawCh, [job |-> fetching[f].job, sigs |-> fetching[f].sigs,
                               newSeq |-> fetching[f].newest])
    /\ fetching' = [fetching EXCEPT ![f] = Idle]
    /\ UNCHANGED <<chainVars, coord, lastEnqueued, jobCh, normCh, reorgCh,
                   normalizing, dbVars, restarts>>

\* An intermediate sub-batch carries StartBlock - 1 as its cursor.
SendChunk(f) ==
    /\ Cardinality(fetching[f].sigs) > MaxBatchTxs
    /\ Len(rawCh) < RawCap
    /\ \E c \in Chunks(fetching[f].sigs) :
          /\ rawCh' = Append(rawCh, [job |-> fetching[f].job, sigs |-> c,
                                     newSeq |-> fetching[f].job.start - 1])
          /\ fetching' = [fetching EXCEPT ![f].sigs = @ \ c]
    /\ UNCHANGED <<chainVars, coord, lastEnqueued, jobCh, normCh, reorgCh,
                   normalizing, dbVars, restarts>>

-----------------------------------------------------------------------------
(* Normalizer *)

TakeRaw(n) ==
    /\ normalizing[n] = NoBatch
    /\ rawCh # <<>>
    /\ normalizing' = [normalizing EXCEPT ![n] = Head(rawCh)]
    /\ rawCh' = Tail(rawCh)
    /\ UNCHANGED <<chainVars, coord, lastEnqueued, jobCh, normCh, reorgCh,
                   fetching, dbVars, restarts>>

Decoded(b) == b.sigs \ Undecodable

\* The cursor starts at the batch's and moves up with each decoded signature
\* (shouldAdvanceCanonicalCursor).
NormalizedCursor(b) ==
    IF Decoded(b) = {} THEN b.newSeq ELSE Larger(b.newSeq, Newest(Decoded(b)))

\* Signatures with terminal decode errors are isolated, the rest goes on; an
\* empty sentinel passes through.
SendNormalized(n) ==
    LET b == normalizing[n]
    IN  /\ b # NoBatch
        /\ b.sigs = {} \/ Decoded(b) # {}
        /\ Len(normCh) < NormCap
        /\ normCh' = Append(normCh, [b EXCEPT !.sigs = Decoded(b),
                                              !.newSeq = NormalizedCursor(b)])
        /\ normalizing' = [normalizing EXCEPT ![n] = NoBatch]
        /\ UNCHANGED <<chainVars, coord, lastEnqueued, jobCh, rawCh, reorgCh,
                       fetching, dbVars, restarts>>

-----------------------------------------------------------------------------
(* A failing stage cancels the others; Pipeline.Run starts a new run with    *)
(* new channels and new stages.  A crash of the process looks the same.      *)

\* Mutant: the coordinator's last range survives the restart.
NewRunSameCoordinator ==
    /\ coord' = NoJob /\ lastEnqueued' = lastEnqueued
    /\ jobCh' = <<>> /\ rawCh' = <<>> /\ normCh' = <<>> /\ reorgCh' = <<>>
    /\ fetching' = [f \in Fetchers |-> Idle]
    /\ normalizing' = [n \in Normalizers |-> NoBatch]

NewRun ==
    /\ coord' = NoJob /\ lastEnqueued' = NoJob
    /\ jobCh' = <<>> /\ rawCh' = <<>> /\ normCh' = <<>> /\ reorgCh' = <<>>
    /\ fetching' = [f \in Fetchers |-> Idle]
    /\ normalizing' = [n \in Normalizers |-> NoBatch]

Restart ==
    /\ restarts < MaxRestarts
    /\ restarts' = restarts + 1
    /\ NewRun
    /\ UNCHANGED <<chainVars, dbVars>>

\* No signature of the batch can be decoded: a terminal error ends the run.
DecodeCollapse(n) ==
    /\ normalizing[n].sigs # {}
    /\ Decoded(normalizing[n]) = {}
    /\ Restart

-----------------------------------------------------------------------------
(* Ingester *)

\* Mutant: a late batch overwrites a higher watermark.
CommitOverwrites ==
    /\ normCh # <<>>
    /\ LET b == Head(normCh)
       IN  /\ stored' = stored \cup b.sigs
           /\ credit' = [s \in Sigs |-> credit[s] + (IF s \in b.sigs THEN 1 ELSE 0)]
           /\ watermark' = b.newSeq
    /\ normCh' = Tail(normCh)
    /\ UNCHANGED <<chainVars, coord, lastEnqueued, jobCh, rawCh, reorgCh,
                   fetching, normalizing, restarts>>

\* One transaction: events upserted, deltas added, watermark GREATEST.
CommitBatch ==
    /\ normCh # <<>>
    /\ LET b == Head(normCh)
       IN  /\ stored' = stored \cup b.sigs
           /\ credit' = [s \in Sigs |-> credit[s] + (IF s \in b.sigs THEN 1 ELSE 0)]
           /\ watermark' = Larger(watermark, b.newSeq)
    /\ normCh' = Tail(normCh)
    /\ UNCHANGED <<chainVars, coord, lastEnqueued, jobCh, rawCh, reorgCh,
                   fetching, normalizing, restarts>>

\* COMMIT failed without an answer and was not applied; the probe finds the
\* watermark at or past the batch and takes the batch for committed.  (With
\* the watermark below, the run fails: Restart.)
ReconcileLostCommit ==
    /\ normCh # <<>>
    /\ watermark >= 0 /\ watermark >= Head(normCh).newSeq
    /\ normCh' = Tail(normCh)
    /\ UNCHANGED <<chainVars, coord, lastEnqueued, jobCh, rawCh, reorgCh,
                   fetching, normalizing, dbVars, restarts>>

\* Mutant: the watermark is left on the block that was purged.
PurgeAbove(block) ==
    LET gone == {s \in stored : BlockOf[s] >= block}
    IN  /\ stored' = stored \ gone
        /\ credit' = [s \in Sigs |-> credit[s] - (IF s \in gone THEN 1 ELSE 0)]
        /\ watermark' = block

\* replay.Service.PurgeFromBlock: every row from block on goes, applied deltas
\* are reversed once per stored event, the watermark is set.
PurgeFrom(block) ==
    LET gone == {s \in stored : BlockOf[s] >= block}
    IN  /\ stored' = stored \ gone
        /\ credit' = [s \in Sigs |-> credit[s] - (IF s \in gone THEN 1 ELSE 0)]
        /\ watermark' = Larger(block - 1, 0)

\* indexed_blocks holds the blocks of stored transactions that carry a hash;
\* the detector reports one whose hash on the chain is another one now.
DetectReorg ==
    /\ Len(reorgCh) < ReorgCap
    /\ \E s \in (stored \cap Hashed) \ chain : reorgCh' = Append(reorgCh, BlockOf[s])
    /\ UNCHANGED <<chainVars, coord, lastEnqueued, jobCh, rawCh, normCh,
                   fetching, normalizing, dbVars, restarts>>

\* Handled by the ingester between two batches, with the run going on.
HandleReorg ==
    /\ reorgCh # <<>>
    /\ PurgeFrom(Head(reorgCh))
    /\ reorgCh' = Tail(reorgCh)
    /\ UNCHANGED <<chainVars, coord, lastEnqueued, jobCh, rawCh, normCh,
                   fetching, normalizing, restarts>>

\* Replay and backfill stop the run first, then purge, then start a new one.
ReplayPurge(block) ==
    /\ restarts < MaxRestarts
    /\ restarts' = restarts + 1
    /\ NewRun
    /\ PurgeFrom(block)
    /\ UNCHANGED chainVars

\* A replay from a block the index has reached, and with a lookback one that leaves
\* a watermark above 0: the coordinator takes a watermark of 0 for a first run.  The
\* admin API accepts any block from 0 on; NextReplay has the others.
ReplayIndexed(block) ==
    /\ block <= watermark + 1
    /\ Lookback = 0 \/ block > 1
    /\ ReplayPurge(block)

-----------------------------------------------------------------------------
StageStep ==
    \/ TickBlockScan
    \/ Enqueue
    \/ \E f \in Fetchers : ScanBlocks(f) \/ SendSentinel(f) \/ SendLastChunk(f) \/ SendChunk(f)
    \/ \E n \in Normalizers : TakeRaw(n) \/ SendNormalized(n) \/ DecodeCollapse(n)
    \/ CommitBatch
    \/ ReconcileLostCommit

\* Without reorganisations and failing watermark reads.
Next ==
    \/ NewHead
    \/ StageStep
    \/ Restart
    \/ \E block \in 1..MaxBlock : ReplayIndexed(block)

Spec == Init /\ [][Next]_vars

\* With replays that leave a watermark of 0.
NextReplayFirst == Next \/ \E block \in 0..1 : ReplayPurge(block)
SpecReplayFirst == Init /\ [][NextReplayFirst]_vars

\* With replays from any block that the admin API accepts.
NextReplay == NextReplayFirst \/ \E block \in 2..MaxBlock : ReplayPurge(block)
SpecReplay == Init /\ [][NextReplay]_vars

\* With failing reads of the watermark.
NextUnread == Next \/ TickReadFailed
SpecUnread == Init /\ [][NextUnread]_vars

\* With both, and the chain reorganising.
NextFull ==
    \/ NextReplay
    \/ NextUnread
    \/ \E fork \in 1..MaxBlock : ChainReorg(fork)
    \/ DetectReorg
    \/ HandleReorg
SpecFull == Init /\ [][NextFull]_vars

\* Every goroutine of a run that can go on does: the ticker fires, workers
\* take from their channels and send when there is room, the ingester commits.
Fairness ==
    /\ WF_vars(TickBlockScan) /\ WF_vars(Enqueue) /\ WF_vars(CommitBatch)
    /\ \A f \in Fetchers : WF_vars(ScanBlocks(f)) /\ WF_vars(SendSentinel(f) \/ SendLastChunk(f) \/ SendChunk(f))
    /\ \A n \in Normalizers : WF_vars(TakeRaw(n)) /\ WF_vars(SendNormalized(n))
FairSpec == Spec /\ Fairness
FairSpecFull == SpecFull /\ Fairness /\ WF_vars(DetectReorg) /\ WF_vars(HandleReorg)
-----------------------------------------------------------------------------
(* Properties *)

\* Every row and message of a run is of its kind.
TypeOK ==
    /\ chain \subseteq Sigs /\ head \in 0..MaxBlock /\ reorgs \in 0..MaxReorgs
    /\ coord \in Job \cup {NoJob} /\ lastEnqueued \in Job \cup {NoJob}
    /\ jobCh \in Seq(Job) /\ rawCh \in Seq(Batch) /\ normCh \in Seq(Batch)
    /\ reorgCh \in Seq(Nat)
    /\ fetching \in [Fetchers -> [job : Job, sigs : SUBSET Sigs, newest : Nat] \cup {Idle}]
    /\ normalizing \in [Normalizers -> Batch \cup {NoBatch}]
    /\ stored \subseteq Sigs /\ credit \in [Sigs -> Int]
    /\ watermark \in Nat \cup {-1} /\ restarts \in 0..MaxRestarts

\* The first block the pipeline is to index.
Base == InitWatermark + 1

Indexed(last) ==
    \A s \in chain : Base <= BlockOf[s] /\ BlockOf[s] <= last => s \in stored \cup Undecodable

\* No transaction at or below the watermark is missing, whatever the order in
\* which the workers finish their batches and wherever a run is cut off: the
\* coordinator never looks below the watermark again (coordinator.go:393).
NoGap == Indexed(watermark)

\* No job found more transactions than one batch may carry.
Unsplit == \A f \in Fetchers : Cardinality(fetching[f].sigs) <= MaxBatchTxs

Anchored(job) == job.start <= watermark + 1

\* b holds every transaction from its job's first block to its cursor.
Carries(b, lost) == Anchored(b.job) /\ SigsIn(b.job.start, b.newSeq) \subseteq b.sigs \cup lost

RawOK(b) == Carries(b, {}) /\ \A s \in b.sigs : BlockOf[s] <= b.newSeq

\* Why NoGap holds while jobs are not split: every job on its way starts at or
\* below the first block that is not indexed, and every batch holds all its
\* job found up to the cursor it will move the watermark to.  So a batch that
\* overtakes an older one (fetcher.go:199-237, normalizer.go:209-247) brings
\* everything the watermark then passes.
PipelineInv ==
    /\ NoGap
    /\ Lookback = 0 \/ watermark > 0
    /\ coord # NoJob => Anchored(coord)
    /\ \A i \in 1..Len(jobCh) : Anchored(jobCh[i])
    /\ \A f \in Fetchers : fetching[f] # Idle =>
          /\ Anchored(fetching[f].job)
          /\ fetching[f].sigs = SigsIn(fetching[f].job.start, fetching[f].job.end)
          /\ fetching[f].newest = Newest(fetching[f].sigs)
    /\ \A i \in 1..Len(rawCh) : RawOK(rawCh[i])
    /\ \A n \in Normalizers : normalizing[n] # NoBatch => RawOK(normalizing[n])
    /\ \A i \in 1..Len(normCh) : Carries(normCh[i], Undecodable)

\* The tables as a reader sees them.
Index == INSTANCE WatermarkIndex WITH
            Txs <- Sigs, Required <- {s \in InitChain \ Undecodable : BlockOf[s] >= Base}

\* The pipeline implements that promise: every commit moves the watermark
\* together with all it passes (ingester.go:1034-1127), every replay takes
\* back all above the new watermark (service.go:158-297), and nothing else
\* touches the tables.
ImplementsIndex == Index!IndexSpec

InFlight(job) ==
    \/ coord = job
    \/ \E i \in 1..Len(jobCh) : jobCh[i] = job
    \/ \E f \in Fetchers : fetching[f].job = job
    \/ \E i \in 1..Len(rawCh) : rawCh[i].job = job
    \/ \E n \in Normalizers : normalizing[n].job = job
    \/ \E i \in 1..Len(normCh) : normCh[i].job = job

\* A tick drops its range as "same range already in-flight" only when a job or
\* batch of that range really is on its way to the ingester; otherwise nothing
\* would ever move the watermark past it (coordinator.go:443-451).
SkipsOnlyInFlight ==
    \A b \in BatchSizes :
        ~NothingToScan(watermark) /\ TickJob(watermark, b) = lastEnqueued
            => InFlight(lastEnqueued)

\* The deltas of every stored transaction are in the balances exactly once and
\* those of any other not at all (ingester.go:1041-1065, "same data is not
\* fetched again", docs/testing.md:757).
CreditedOnce == \A s \in Sigs : credit[s] = IF s \in stored THEN 1 ELSE 0

\* The rows of transactions that left the chain are rolled back in the end:
\* "Reorg detection: rollback based on block hashes" (docs/architecture.md:31).
OrphansRolledBack == <>[](stored \subseteq chain)

\* Once the chain stops growing and the run stops failing, the watermark
\* reaches the head: no lost job, no skipped range, no full channel stops it.
CatchesUp == <>[](watermark = head)
=============================================================================
