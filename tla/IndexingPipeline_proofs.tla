---------------------- MODULE IndexingPipeline_proofs ----------------------
(***************************************************************************)
(* Proofs about IndexingPipeline for every chain, every number of workers, *)
(* every channel capacity and every number of failures.                    *)
(***************************************************************************)
EXTENDS IndexingPipeline, WellFoundedInduction, FiniteSetTheorems, TLAPS

(***************************************************************************)
(* The largest element of a non-empty bounded set of naturals exists, so   *)
(* Max, a CHOOSE, returns it.                                              *)
(***************************************************************************)
LEMMA MaxOfBounded ==
    ASSUME NEW S \in SUBSET Nat, S # {}, NEW B \in Nat, \A x \in S : x <= B
    PROVE  Max(S) \in S /\ \A x \in S : x <= Max(S)
<1> DEFINE U == {u \in Nat : \A x \in S : x <= u}
<1> DEFINE R == {p \in Nat \X Nat : p[1] < p[2]}
<1>1. U \subseteq Nat /\ U # {}
  BY Zenon
<1>2. IsWellFoundedOn(R, Nat)
  <2>1. OpToRel(<, Nat) = R
    BY Zenon DEF OpToRel
  <2> QED
    BY <2>1, NatLessThanWellFounded, Zenon
<1>p. \A a \in Nat, b \in Nat : a < b => <<a, b>> \in R
  BY Zenon
<1> HIDE DEF R
<1>3. PICK u \in U : \A y \in U : ~(<<y, u>> \in R)
  BY <1>1, <1>2, WFMin, Zenon
<1>m. \A y \in U : u <= y
  <2> SUFFICES ASSUME NEW y \in U PROVE u <= y
    BY Zenon
  <2>1. u \in Nat /\ y \in Nat
    BY <1>1, Zenon
  <2>2. ~(y < u)
    BY <1>3, <1>p, <2>1, Zenon
  <2> QED
    BY <2>1, <2>2
<1>4. u \in S
  <2> SUFFICES ASSUME u \notin S PROVE FALSE
    BY Zenon
  <2>1. PICK x \in S : TRUE
    BY Zenon
  <2>2. \A y \in S : y <= u - 1
    OBVIOUS
  <2>3. u - 1 \in U
    BY <2>1, <2>2
  <2> QED
    BY <1>m, <2>3
<1> HIDE DEF U
<1>5. \A x \in S : x <= u
  BY Zenon DEF U
<1> QED
  BY <1>4, <1>5, Zenon DEF Max

(***************************************************************************)
(* The newest block of a set of signatures (the last of the sorted list in *)
(* processBlockScanJob) is one of theirs and none is newer.                *)
(***************************************************************************)
LEMMA NewestProperties ==
    ASSUME NEW sigs \in SUBSET Sigs
    PROVE  /\ Newest(sigs) \in Nat
           /\ sigs # {} => \E s \in sigs : Newest(sigs) = BlockOf[s]
           /\ \A s \in sigs : BlockOf[s] <= Newest(sigs)
<1>1. CASE sigs = {}
  BY <1>1, Zenon DEF Newest
<1>2. CASE sigs # {}
  <2> DEFINE S == {BlockOf[s] : s \in sigs}
  <2>1. S \in SUBSET Nat /\ S # {}
    BY <1>2, PipelineAssumption
  <2>2. MaxBlock \in Nat /\ \A x \in S : x <= MaxBlock
    BY PipelineAssumption
  <2> HIDE DEF S
  <2>4. Max(S) \in S /\ \A x \in S : x <= Max(S)
    BY <2>1, <2>2, MaxOfBounded, Zenon
  <2>5. Newest(sigs) = Max(S)
    BY <1>2, Zenon DEF Newest, S
  <2> QED
    BY <2>1, <2>4, <2>5, Zenon DEF S
<1> QED
  BY <1>1, <1>2, Zenon

-----------------------------------------------------------------------------
(* Type correctness *)

\* A tick makes a job of blocks.
LEMMA TickJobType ==
    ASSUME TypeOK, NEW b \in BatchSizes, NEW reading \in Nat \cup {-1}
    PROVE  TickJob(reading, b) \in Job
<1>1. b \in Nat \ {0} /\ head \in Nat /\ Lookback \in Nat
  BY PipelineAssumption DEF TypeOK
<1>2. StartBlock(reading, head) \in Nat
  BY <1>1 DEF StartBlock, Larger
<1>3. EndBlock(StartBlock(reading, head), head, b) \in Nat
  BY <1>1, <1>2 DEF EndBlock
<1> QED
  BY <1>2, <1>3, Zenon DEF TickJob, Job

\* The mark of an empty place is not a job.
LEMMA NoJobIsNoJob == NoJob \notin Job
BY DEF NoJob, Job

\* A normalized batch is a batch.
LEMMA NormalizedType ==
    ASSUME NEW b \in Batch
    PROVE  [b EXCEPT !.sigs = Decoded(b), !.newSeq = NormalizedCursor(b)] \in Batch
<1>1. Decoded(b) \in SUBSET Sigs
  BY Zenon DEF Decoded, Batch
<1>2. Newest(Decoded(b)) \in Nat
  BY <1>1, NewestProperties, Zenon
<1>3. NormalizedCursor(b) \in Nat \cup {-1}
  BY <1>2, Zenon DEF NormalizedCursor, Larger, Batch
<1> QED
  BY <1>1, <1>3, Zenon DEF Batch

\* A new run starts with empty channels and idle workers.
LEMMA NewRunType ==
    ASSUME NewRun
    PROVE  /\ coord' \in Job \cup {NoJob} /\ lastEnqueued' \in Job \cup {NoJob}
           /\ jobCh' \in Seq(Job) /\ rawCh' \in Seq(Batch) /\ normCh' \in Seq(Batch)
           /\ reorgCh' \in Seq(Nat)
           /\ fetching' \in [Fetchers -> [job : Job, sigs : SUBSET Sigs, newest : Nat] \cup {Idle}]
           /\ normalizing' \in [Normalizers -> Batch \cup {NoBatch}]
BY DEF NewRun

\* A purge keeps the types of the tables.
LEMMA PurgeType ==
    ASSUME TypeOK, NEW block \in Nat, PurgeFrom(block)
    PROVE  stored' \subseteq Sigs /\ credit' \in [Sigs -> Int] /\ watermark' \in Nat
BY DEF TypeOK, PurgeFrom, Larger

(***************************************************************************)
(* Every step of the pipeline keeps its channels, workers and tables well  *)
(* typed.                                                                  *)
(***************************************************************************)
LEMMA TypeInductive == TypeOK /\ [Next]_vars => TypeOK'
<1> SUFFICES ASSUME TypeOK, [Next]_vars PROVE TypeOK'
  BY Zenon
<1> USE PipelineAssumption
<1>1. CASE NewHead
  BY <1>1 DEF TypeOK, NewHead, runVars, dbVars
<1>2. CASE TickBlockScan
  <2>1. PICK b \in BatchSizes : coord' = TickJob(watermark, b)
    BY <1>2, Zenon DEF TickBlockScan, Tick
  <2>2. coord' \in Job
    BY <2>1, TickJobType, Zenon DEF TypeOK
  <2> QED
    BY <1>2, <2>2, Zenon DEF TypeOK, TickBlockScan, Tick, chainVars, dbVars
<1>3. CASE Enqueue
  BY <1>3 DEF TypeOK, Enqueue, chainVars, dbVars
<1>4. ASSUME NEW f \in Fetchers, ScanBlocks(f) PROVE TypeOK'
  <2> DEFINE found == SigsIn(Head(jobCh).start, Head(jobCh).end)
  <2>1. Head(jobCh) \in Job /\ Tail(jobCh) \in Seq(Job)
    BY <1>4 DEF TypeOK, ScanBlocks
  <2>2. found \in SUBSET Sigs
    BY Zenon DEF TypeOK, SigsIn
  <2>3. Newest(found) \in Nat
    BY <2>2, NewestProperties, Zenon
  <2> QED
    BY <1>4, <2>1, <2>2, <2>3, Zenon DEF TypeOK, ScanBlocks, chainVars, dbVars
<1>5. ASSUME NEW f \in Fetchers, SendSentinel(f) \/ SendLastChunk(f) \/ SendChunk(f) PROVE TypeOK'
  <2> DEFINE w == fetching[f]
  <2>1. w \in [job : Job, sigs : SUBSET Sigs, newest : Nat] \cup {Idle}
    BY Zenon DEF TypeOK
  <2>2. w # Idle
    <3>1. Idle.sigs = {} /\ Cardinality(Idle.sigs) = 0
      BY FS_EmptySet, Zenon DEF Idle
    <3>2. CASE SendSentinel(f)
      BY <3>2, Zenon DEF SendSentinel
    <3>3. CASE SendLastChunk(f)
      BY <3>1, <3>3, Zenon DEF SendLastChunk
    <3>4. CASE SendChunk(f)
      <4>1. Cardinality(fetching[f].sigs) > MaxBatchTxs
        BY <3>4, Zenon DEF SendChunk
      <4>2. ~(0 > MaxBatchTxs)
        OBVIOUS
      <4> QED
        BY <3>1, <4>1, <4>2, Zenon
    <3> QED
      BY <1>5, <3>2, <3>3, <3>4, Zenon
  <2>3. w.job \in Job /\ w.sigs \in SUBSET Sigs /\ w.newest \in Nat
    BY <2>1, <2>2, Zenon
  <2>4. CASE SendSentinel(f)
    <3>1. [job |-> w.job, sigs |-> {}, newSeq |-> w.job.end] \in Batch
      BY <2>3, Zenon DEF Batch, Job
    <3> QED
      BY <2>4, <3>1 DEF TypeOK, SendSentinel, chainVars, dbVars
  <2>5. CASE SendLastChunk(f)
    <3>1. [job |-> w.job, sigs |-> w.sigs, newSeq |-> w.newest] \in Batch
      BY <2>3, Zenon DEF Batch, Job
    <3> QED
      BY <2>5, <3>1 DEF TypeOK, SendLastChunk, chainVars, dbVars
  <2>6. CASE SendChunk(f)
    <3>1. PICK c \in SUBSET w.sigs :
             /\ rawCh' = Append(rawCh, [job |-> w.job, sigs |-> c, newSeq |-> w.job.start - 1])
             /\ fetching' = [fetching EXCEPT ![f].sigs = @ \ c]
      BY <2>6, Zenon DEF SendChunk, Chunks
    <3>2. [job |-> w.job, sigs |-> c, newSeq |-> w.job.start - 1] \in Batch
      BY <2>3 DEF Batch, Job
    <3>3. fetching' \in [Fetchers -> [job : Job, sigs : SUBSET Sigs, newest : Nat] \cup {Idle}]
      BY <2>1, <2>2, <2>3, <3>1, Zenon DEF TypeOK
    <3>4. rawCh' \in Seq(Batch)
      BY <3>1, <3>2 DEF TypeOK
    <3>5. UNCHANGED <<chain, head, reorgs, coord, lastEnqueued, jobCh, normCh, reorgCh,
                      normalizing, stored, credit, watermark, restarts>>
      BY <2>6, Zenon DEF SendChunk, chainVars, dbVars
    <3> QED
      BY <3>3, <3>4, <3>5, Zenon DEF TypeOK
  <2> QED
    BY <1>5, <2>4, <2>5, <2>6, Zenon
<1>6. ASSUME NEW n \in Normalizers, TakeRaw(n) PROVE TypeOK'
  BY <1>6 DEF TypeOK, TakeRaw, chainVars, dbVars
<1>7. ASSUME NEW n \in Normalizers, SendNormalized(n) PROVE TypeOK'
  <2> DEFINE b == normalizing[n]
             out == [b EXCEPT !.sigs = Decoded(b), !.newSeq = NormalizedCursor(b)]
  <2>1. b \in Batch
    BY <1>7, Zenon DEF TypeOK, SendNormalized
  <2>2. out \in Batch
    BY <2>1, NormalizedType, Zenon
  <2>3. normCh' = Append(normCh, out) /\ normalizing' = [normalizing EXCEPT ![n] = NoBatch]
    BY <1>7, Zenon DEF SendNormalized
  <2> HIDE DEF out
  <2>4. normCh' \in Seq(Batch)
    BY <2>2, <2>3 DEF TypeOK
  <2>5. normalizing' \in [Normalizers -> Batch \cup {NoBatch}]
    BY <2>3, Zenon DEF TypeOK
  <2>6. UNCHANGED <<chainVars, coord, lastEnqueued, jobCh, rawCh, reorgCh, fetching, dbVars, restarts>>
    BY <1>7, Zenon DEF SendNormalized
  <2> QED
    BY <2>4, <2>5, <2>6, Zenon DEF TypeOK, chainVars, dbVars
<1>8. ASSUME NEW n \in Normalizers, DecodeCollapse(n) PROVE TypeOK'
  <2>1. NewRun /\ UNCHANGED <<chainVars, dbVars>>
    BY <1>8, Zenon DEF DecodeCollapse, Restart
  <2>2. restarts' \in 0..MaxRestarts
    <3>1. restarts \in 0..MaxRestarts /\ restarts < MaxRestarts /\ restarts' = restarts + 1
      BY <1>8, Zenon DEF TypeOK, DecodeCollapse, Restart
    <3> QED BY <3>1, PipelineAssumption
  <2> QED
    BY <2>1, <2>2, NewRunType, Zenon DEF TypeOK, chainVars, dbVars
<1>9. CASE CommitBatch
  <2>1. Head(normCh) \in Batch /\ Tail(normCh) \in Seq(Batch)
    BY <1>9 DEF TypeOK, CommitBatch
  <2>2. stored' \subseteq Sigs /\ credit' \in [Sigs -> Int] /\ watermark' \in Nat \cup {-1}
    BY <1>9, <2>1 DEF TypeOK, CommitBatch, Batch, Larger
  <2> QED
    BY <1>9, <2>1, <2>2, Zenon DEF TypeOK, CommitBatch, chainVars
<1>10. CASE ReconcileLostCommit
  BY <1>10 DEF TypeOK, ReconcileLostCommit, chainVars, dbVars
<1>11. CASE Restart
  BY <1>11, NewRunType DEF TypeOK, Restart, chainVars, dbVars
<1>12. ASSUME NEW block \in 1..MaxBlock, ReplayIndexed(block) PROVE TypeOK'
  BY <1>12, NewRunType, PurgeType DEF TypeOK, ReplayIndexed, ReplayPurge, chainVars
<1>13. CASE UNCHANGED vars
  BY <1>13, Zenon DEF TypeOK, vars, chainVars, runVars, dbVars
<1> QED
  BY <1>1, <1>2, <1>3, <1>4, <1>5, <1>6, <1>7, <1>8, <1>9, <1>10, <1>11, <1>12, <1>13, Zenon DEF Next, StageStep

\* The first run is well typed.
LEMMA TypeInit == Init => TypeOK
BY PipelineAssumption DEF Init, TypeOK

(***************************************************************************)
(* The messages of every run and the rows of every table have their types. *)
(***************************************************************************)
THEOREM TypeCorrect == Spec => []TypeOK
<1> QED
  BY TypeInit, TypeInductive, PTL DEF Spec

-----------------------------------------------------------------------------
(* A fresh run has nothing on its way. *)
LEMMA NewRunInv ==
    ASSUME NoGap', Lookback = 0 \/ watermark' > 0, NewRun
    PROVE  PipelineInv'
<1>1. /\ coord' = NoJob /\ jobCh' = <<>> /\ rawCh' = <<>> /\ normCh' = <<>>
      /\ \A f \in Fetchers : fetching'[f] = Idle
      /\ \A n \in Normalizers : normalizing'[n] = NoBatch
  BY Zenon DEF NewRun
<1> QED
  BY <1>1 DEF PipelineInv

(* What is on its way stays anchored when the watermark does not fall and   *)
(* the chain is the same.                                                   *)
LEMMA OnItsWay ==
    ASSUME TypeOK, TypeOK', watermark' >= watermark, chain' = chain
    PROVE  /\ \A j \in Job : Anchored(j) => Anchored(j)'
           /\ \A b \in Batch : RawOK(b) => RawOK(b)'
           /\ \A b \in Batch : Carries(b, Undecodable) => Carries(b, Undecodable)'
           /\ \A first, last : SigsIn(first, last)' = SigsIn(first, last)
<1>1. \A first, last : SigsIn(first, last)' = SigsIn(first, last)
  BY Zenon DEF SigsIn
<1>t. watermark \in Int /\ watermark' \in Int
  BY DEF TypeOK
<1>2. \A j \in Job : Anchored(j) => Anchored(j)'
  BY <1>t DEF Anchored, Job
<1>3. \A b \in Batch : b.job \in Job
  BY Zenon DEF Batch
<1> QED
  BY <1>1, <1>2, <1>3, Zenon DEF RawOK, Carries

(* Decoding keeps what a batch covers, but for the undecodable signatures,  *)
(* and its cursor.                                                          *)
LEMMA NormalizedCarries ==
    ASSUME TypeOK, NEW b \in Batch, RawOK(b)
    PROVE  Carries([b EXCEPT !.sigs = Decoded(b), !.newSeq = NormalizedCursor(b)], Undecodable)
<1>1. NormalizedCursor(b) = b.newSeq
  <2>1. CASE Decoded(b) = {}
    BY <2>1, Zenon DEF NormalizedCursor
  <2>2. CASE Decoded(b) # {}
    <3>1. Decoded(b) \in SUBSET Sigs
      BY Zenon DEF Decoded, Batch
    <3>2. PICK s \in Decoded(b) : BlockOf[s] = Newest(Decoded(b))
      BY <2>2, <3>1, NewestProperties, Zenon
    <3>3. Newest(Decoded(b)) <= b.newSeq
      BY <3>2, Zenon DEF RawOK, Decoded
    <3>4. Newest(Decoded(b)) \in Nat
      BY <3>1, NewestProperties, Zenon
    <3> QED
      BY <2>2, <3>3, <3>4, Zenon DEF NormalizedCursor, Larger, Batch
  <2> QED
    BY <2>1, <2>2, Zenon
<1> QED
  BY <1>1, Zenon DEF RawOK, Carries, Anchored, Decoded, Batch

(* A batch that carries all it stands for can be committed: what it moves   *)
(* the watermark past is in it.                                             *)
LEMMA CommitNoGap ==
    ASSUME TypeOK, PipelineInv, CommitBatch
    PROVE  NoGap'
<1> DEFINE b == Head(normCh)
<1>1. b \in Batch /\ Carries(b, Undecodable)
  BY DEF TypeOK, CommitBatch, PipelineInv
<1>2. /\ chain' = chain /\ stored' = stored \cup b.sigs
      /\ watermark' = Larger(watermark, b.newSeq)
  BY Zenon DEF CommitBatch, chainVars
<1> HIDE DEF b
<1> SUFFICES ASSUME NEW s \in chain, Base <= BlockOf[s], BlockOf[s] <= watermark'
             PROVE  s \in stored \cup b.sigs \cup Undecodable
  BY <1>2, Zenon DEF NoGap, Indexed, Base
<1>3. BlockOf[s] \in Nat
  BY PipelineAssumption DEF TypeOK
<1>4. CASE BlockOf[s] <= watermark
  BY <1>4, Zenon DEF PipelineInv, NoGap, Indexed
<1>5. CASE BlockOf[s] > watermark
  <2>1. BlockOf[s] <= b.newSeq /\ b.job.start <= BlockOf[s]
    BY <1>1, <1>2, <1>3, <1>5 DEF Larger, Carries, Anchored, TypeOK, Batch, Job
  <2> QED
    BY <1>1, <2>1, Zenon DEF Carries, SigsIn
<1> QED
  BY <1>3, <1>4, <1>5 DEF TypeOK

(* A rewind drops only rows above the watermark it sets.                    *)
LEMMA PurgeNoGap ==
    ASSUME TypeOK, NoGap, NEW block \in 1..MaxBlock, ReplayIndexed(block)
    PROVE  NoGap' /\ (Lookback = 0 \/ watermark' > 0)
<1>1. /\ watermark' = block - 1 /\ block - 1 <= watermark
      /\ Lookback = 0 \/ watermark' > 0
      /\ chain' = chain /\ stored' = stored \ {s \in stored : BlockOf[s] >= block}
  BY PipelineAssumption DEF ReplayIndexed, ReplayPurge, PurgeFrom, Larger, chainVars, TypeOK
<1> SUFFICES ASSUME NEW s \in chain, Base <= BlockOf[s], BlockOf[s] <= watermark'
             PROVE  s \in stored' \cup Undecodable
  BY <1>1, Zenon DEF NoGap, Indexed, Base
<1>2. BlockOf[s] \in Nat
  BY PipelineAssumption DEF TypeOK
<1>3. s \in stored \cup Undecodable
  BY <1>1, <1>2 DEF NoGap, Indexed, TypeOK
<1> QED
  BY <1>1, <1>2, <1>3

\* Nothing is under way at first, and nothing at or below the watermark is
\* missing.
LEMMA InvInit ==
    ASSUME InitWatermark > 0 \/ Lookback = 0, Init
    PROVE  PipelineInv
<1>1. NoGap
  BY PipelineAssumption DEF Init, NoGap, Indexed, Base
<1> QED
  BY <1>1 DEF Init, PipelineInv

(* The conjuncts of PipelineInv, one for each place a job or batch waits.   *)
CoordOK == coord # NoJob => Anchored(coord)
JobsOK == \A i \in 1..Len(jobCh) : Anchored(jobCh[i])
FetchOK(f) == fetching[f] # Idle =>
    /\ Anchored(fetching[f].job)
    /\ fetching[f].sigs = SigsIn(fetching[f].job.start, fetching[f].job.end)
    /\ fetching[f].newest = Newest(fetching[f].sigs)
RawsOK == \A i \in 1..Len(rawCh) : RawOK(rawCh[i])
DecodeOK(n) == normalizing[n] # NoBatch => RawOK(normalizing[n])
NormsOK == \A i \in 1..Len(normCh) : Carries(normCh[i], Undecodable)

\* PipelineInv by its conjuncts.
LEMMA InvParts ==
    PipelineInv <=> /\ NoGap /\ (Lookback = 0 \/ watermark > 0)
                    /\ CoordOK /\ JobsOK /\ (\A f \in Fetchers : FetchOK(f))
                    /\ RawsOK /\ (\A n \in Normalizers : DecodeOK(n)) /\ NormsOK
BY Zenon DEF PipelineInv, CoordOK, JobsOK, FetchOK, RawsOK, DecodeOK, NormsOK

\* The same for the next state.
LEMMA InvPartsNext ==
    ASSUME NoGap', Lookback = 0 \/ watermark' > 0, CoordOK', JobsOK',
           \A f \in Fetchers : FetchOK(f)', RawsOK',
           \A n \in Normalizers : DecodeOK(n)', NormsOK'
    PROVE  PipelineInv'
BY Zenon DEF PipelineInv, CoordOK, JobsOK, FetchOK, RawsOK, DecodeOK, NormsOK

\* Receiving from a channel shifts what is left in it.
LEMMA TailElements ==
    ASSUME NEW S, NEW q \in Seq(S), q # <<>>
    PROVE  \A i \in 1..Len(Tail(q)) : i + 1 \in 1..Len(q) /\ Tail(q)[i] = q[i + 1]
OBVIOUS

\* Channel q becomes r by a receive, or by sending e.
Received(q, r) ==
    /\ 1 \in 1..Len(q) /\ Head(q) = q[1]
    /\ \A i \in 1..Len(r) : i + 1 \in 1..Len(q) /\ r[i] = q[i + 1]
    /\ \A i \in 1..Len(q) : i # 1 => i - 1 \in 1..Len(r) /\ r[i - 1] = q[i]
Sent(q, r, e) ==
    /\ Len(r) \in 1..Len(r) /\ r[Len(r)] = e
    /\ \A i \in 1..Len(q) : i \in 1..Len(r) /\ r[i] = q[i]
    /\ \A i \in 1..Len(r) : (i \in 1..Len(q) /\ r[i] = q[i]) \/ r[i] = e

\* Tail receives the first message.
LEMMA TailReceives ==
    ASSUME NEW S, NEW q \in Seq(S), q # <<>>
    PROVE  Received(q, Tail(q)) /\ Head(q) \in S
BY DEF Received

\* Append sends a message.
LEMMA AppendSends ==
    ASSUME NEW S, NEW q \in Seq(S), NEW e \in S
    PROVE  Sent(q, Append(q, e), e)
BY DEF Sent

\* A busy fetcher holds a job, what it found and the newest of it.
LEMMA FetchType ==
    ASSUME TypeOK, NEW f \in Fetchers, fetching[f] # Idle
    PROVE  /\ fetching[f].job \in Job /\ fetching[f].sigs \in SUBSET Sigs /\ fetching[f].newest \in Nat
BY Zenon DEF TypeOK

(* A place that a step leaves alone keeps its conjunct.                     *)
LEMMA Frame ==
    ASSUME TypeOK, TypeOK', PipelineInv, watermark' >= watermark, chain' = chain
    PROVE  /\ coord' = coord => CoordOK'
           /\ jobCh' = jobCh => JobsOK'
           /\ \A f \in Fetchers : fetching'[f] = fetching[f] => FetchOK(f)'
           /\ rawCh' = rawCh => RawsOK'
           /\ \A n \in Normalizers : normalizing'[n] = normalizing[n] => DecodeOK(n)'
           /\ normCh' = normCh => NormsOK'
<1>1. /\ \A j \in Job : Anchored(j) => Anchored(j)'
      /\ \A b \in Batch : RawOK(b) => RawOK(b)'
      /\ \A b \in Batch : Carries(b, Undecodable) => Carries(b, Undecodable)'
      /\ \A first, last : SigsIn(first, last)' = SigsIn(first, last)
  BY OnItsWay, Zenon
<1>2. /\ CoordOK /\ JobsOK /\ (\A f \in Fetchers : FetchOK(f))
      /\ RawsOK /\ (\A n \in Normalizers : DecodeOK(n)) /\ NormsOK
  BY InvParts, Zenon
<1>3. coord' = coord => CoordOK'
  BY <1>1, <1>2, Zenon DEF CoordOK, TypeOK
<1>4. jobCh' = jobCh => JobsOK'
  BY <1>1, <1>2 DEF JobsOK, TypeOK
<1>5. ASSUME NEW f \in Fetchers, fetching'[f] = fetching[f] PROVE FetchOK(f)'
  <2> SUFFICES ASSUME fetching[f] # Idle
               PROVE  /\ Anchored(fetching[f].job)'
                      /\ fetching[f].sigs = SigsIn(fetching[f].job.start, fetching[f].job.end)
                      /\ fetching[f].newest = Newest(fetching[f].sigs)
    BY <1>1, <1>5, Zenon DEF FetchOK, Newest, Anchored
  <2> QED
    BY <1>1, <1>2, <1>5, Zenon DEF FetchOK, TypeOK
<1>6. rawCh' = rawCh => RawsOK'
  BY <1>1, <1>2 DEF RawsOK, TypeOK
<1>7. ASSUME NEW n \in Normalizers, normalizing'[n] = normalizing[n] PROVE DecodeOK(n)'
  BY <1>1, <1>2, <1>7, Zenon DEF DecodeOK, TypeOK
<1>8. normCh' = normCh => NormsOK'
  BY <1>1, <1>2 DEF NormsOK, TypeOK
<1> QED
  BY <1>3, <1>4, <1>5, <1>6, <1>7, <1>8, Zenon

\* PipelineInv is inductive while jobs are not split, one step per action.
LEMMA InvInductive ==
    ASSUME TypeOK, TypeOK', PipelineInv, Unsplit, [Next]_vars
    PROVE  PipelineInv'
<1> DEFINE Same == watermark' = watermark /\ chain' = chain /\ stored' = stored
<1>0. /\ CoordOK /\ JobsOK /\ (\A f \in Fetchers : FetchOK(f))
      /\ RawsOK /\ (\A n \in Normalizers : DecodeOK(n)) /\ NormsOK
  BY InvParts, Zenon
<1>1. ASSUME Same PROVE NoGap' /\ (Lookback = 0 \/ watermark' > 0) /\ watermark' >= watermark
  BY <1>1 DEF PipelineInv, NoGap, Indexed, Base, TypeOK
<1>r. ASSUME Same PROVE \A b : RawOK(b) => RawOK(b)'
  BY <1>r, Zenon DEF RawOK, Carries, Anchored, SigsIn
<1>n. ASSUME Same PROVE \A b : Carries(b, Undecodable) => Carries(b, Undecodable)'
  BY <1>n, Zenon DEF Carries, Anchored, SigsIn
<1>s. \A s \in chain : BlockOf[s] \in Nat
  BY PipelineAssumption DEF TypeOK
<1>f. /\ fetching \in [Fetchers -> [job : Job, sigs : SUBSET Sigs, newest : Nat] \cup {Idle}]
      /\ normalizing \in [Normalizers -> Batch \cup {NoBatch}]
  BY Zenon DEF TypeOK
<1>q. jobCh \in Seq(Job) /\ rawCh \in Seq(Batch) /\ normCh \in Seq(Batch)
  BY Zenon DEF TypeOK
<1>2. CASE NewHead
  <2>1. Same /\ UNCHANGED <<coord, jobCh, rawCh, normCh, fetching, normalizing>>
    BY <1>2, Zenon DEF NewHead, dbVars, runVars
  <2> QED
    BY <1>1, <2>1, Frame, InvPartsNext, Zenon
<1>3. CASE TickBlockScan
  <2>1. Same /\ UNCHANGED <<jobCh, rawCh, normCh, fetching, normalizing>>
    BY <1>3, Zenon DEF TickBlockScan, Tick, dbVars, chainVars
  <2>2. PICK b \in BatchSizes : coord' = TickJob(watermark, b)
    BY <1>3, Zenon DEF TickBlockScan, Tick
  <2>3. StartBlock(watermark, head) <= watermark + 1
    BY PipelineAssumption DEF StartBlock, PipelineInv, TypeOK, Larger
  <2>4. CoordOK'
    BY <2>1, <2>2, <2>3, Zenon DEF CoordOK, Anchored, TickJob
  <2> QED
    BY <1>1, <2>1, <2>4, Frame, InvPartsNext, Zenon
<1>4. CASE Enqueue
  <2>1. Same /\ UNCHANGED <<rawCh, normCh, fetching, normalizing>>
    BY <1>4, Zenon DEF Enqueue, dbVars, chainVars
  <2>2. coord \in Job /\ Anchored(coord) /\ coord' = NoJob /\ jobCh' = Append(jobCh, coord)
    BY <1>0, <1>4, Zenon DEF Enqueue, TypeOK, CoordOK
  <2>3. JobsOK'
    <3>1. \A i \in 1..Len(jobCh') : \/ i \in 1..Len(jobCh) /\ jobCh'[i] = jobCh[i]
                                    \/ jobCh'[i] = coord
      <4>1. Sent(jobCh, jobCh', coord)
        BY <1>q, <2>2, AppendSends, Zenon
      <4> QED BY <4>1, Zenon DEF Sent
    <3> QED
      BY <1>0, <2>1, <2>2, <3>1, Zenon DEF JobsOK, Anchored
  <2> QED
    BY <1>1, <2>1, <2>2, <2>3, Frame, InvPartsNext, Zenon DEF CoordOK
<1>5. ASSUME NEW f \in Fetchers, ScanBlocks(f) PROVE PipelineInv'
  <2> DEFINE j == Head(jobCh)
  <2>1. Same /\ UNCHANGED <<coord, rawCh, normCh, normalizing>>
    BY <1>5, Zenon DEF ScanBlocks, dbVars, chainVars
  <2>2. jobCh # <<>> /\ jobCh' = Tail(jobCh) /\ j \in Job /\ Anchored(j)
    <3>1. jobCh # <<>> /\ jobCh' = Tail(jobCh)
      BY <1>5, Zenon DEF ScanBlocks
    <3>2. 1 \in 1..Len(jobCh) /\ j = jobCh[1] /\ j \in Job
      BY <1>q, <3>1
    <3> QED
      BY <1>0, <3>1, <3>2, Zenon DEF JobsOK
  <2>3. JobsOK'
    <3>1. \A i \in 1..Len(jobCh') : i + 1 \in 1..Len(jobCh) /\ jobCh'[i] = jobCh[i + 1]
      BY <1>q, <2>2, TailElements, Zenon
    <3> QED
      BY <1>0, <2>1, <3>1, Zenon DEF JobsOK, Anchored
  <2>4. fetching' = [fetching EXCEPT ![f] = [job |-> j, sigs |-> SigsIn(j.start, j.end),
                                             newest |-> Newest(SigsIn(j.start, j.end))]]
    BY <1>5, Zenon DEF ScanBlocks
  <2>5. ASSUME NEW g \in Fetchers PROVE FetchOK(g)'
    <3>1. CASE g = f
      <4>1. /\ fetching'[f].job = j /\ fetching'[f].sigs = SigsIn(j.start, j.end)
            /\ fetching'[f].newest = Newest(SigsIn(j.start, j.end))
        BY <1>f, <2>4, Zenon
      <4>2. PICK k : k = j
        BY Zenon
      <4>3. fetching'[g].job = k /\ fetching'[g].sigs = SigsIn(k.start, k.end)
        BY <3>1, <4>1, <4>2, Zenon
      <4>4. fetching'[g].newest = Newest(fetching'[g].sigs)
        BY <3>1, <4>1, Zenon
      <4>5. k.start <= watermark' + 1
        BY <2>1, <2>2, <4>2, Zenon DEF Anchored
      <4> QED
        BY <2>1, <4>3, <4>4, <4>5, Zenon DEF FetchOK, Anchored, SigsIn
    <3>2. CASE g # f
      <4>1. fetching'[g] = fetching[g]
        BY <1>f, <2>4, <3>2, Zenon
      <4> QED
        BY <1>1, <2>1, <4>1, Frame, Zenon
    <3> QED
      BY <3>1, <3>2, Zenon
  <2> QED
    BY <1>1, <2>1, <2>3, <2>5, Frame, InvPartsNext, Zenon
<1>6. ASSUME NEW f \in Fetchers, SendSentinel(f) PROVE PipelineInv'
  <2> DEFINE w == fetching[f]
             b == [job |-> w.job, sigs |-> {}, newSeq |-> w.job.end]
  <2>1. Same /\ UNCHANGED <<coord, jobCh, normCh, normalizing>>
    BY <1>6, Zenon DEF SendSentinel, dbVars, chainVars
  <2>2. /\ w # Idle /\ w.sigs = {} /\ rawCh' = Append(rawCh, b)
        /\ fetching' = [fetching EXCEPT ![f] = Idle]
    BY <1>6, Zenon DEF SendSentinel
  <2>t. b \in Batch
    BY <2>2, FetchType, SMTT(30) DEF Batch, Job
  <2>3. RawOK(b)
    BY <1>0, <2>2, Zenon DEF FetchOK, RawOK, Carries, Anchored
  <2> HIDE DEF b
  <2>4. RawsOK'
    <3>1. \A i \in 1..Len(rawCh') : \/ i \in 1..Len(rawCh) /\ rawCh'[i] = rawCh[i]
                                    \/ rawCh'[i] = b
      <4>1. Sent(rawCh, rawCh', b)
        BY <1>q, <2>2, <2>t, AppendSends, Zenon
      <4> QED BY <4>1, Zenon DEF Sent
    <3> QED
      BY <1>0, <1>r, <2>1, <2>3, <3>1, Zenon DEF RawsOK
  <2>5. ASSUME NEW g \in Fetchers PROVE FetchOK(g)'
    <3>1. CASE g = f
      BY <1>f, <2>2, <3>1, Zenon DEF FetchOK
    <3>2. CASE g # f
      <4>1. fetching'[g] = fetching[g]
        BY <1>f, <2>2, <3>2, Zenon
      <4> QED
        BY <1>1, <2>1, <4>1, Frame, Zenon
    <3> QED
      BY <3>1, <3>2
  <2> QED
    BY <1>1, <2>1, <2>4, <2>5, Frame, InvPartsNext, Zenon
<1>7. ASSUME NEW f \in Fetchers, SendLastChunk(f) PROVE PipelineInv'
  <2> DEFINE w == fetching[f]
             b == [job |-> w.job, sigs |-> w.sigs, newSeq |-> w.newest]
  <2>1. Same /\ UNCHANGED <<coord, jobCh, normCh, normalizing>>
    BY <1>7, Zenon DEF SendLastChunk, dbVars, chainVars
  <2>2. /\ w.sigs # {} /\ rawCh' = Append(rawCh, b)
        /\ fetching' = [fetching EXCEPT ![f] = Idle]
    BY <1>7, Zenon DEF SendLastChunk
  <2>i. w # Idle
    BY <2>2 DEF Idle
  <2>t. b \in Batch /\ w.job \in Job /\ w.sigs \in SUBSET Sigs /\ w.newest \in Nat
    BY <2>i, FetchType, SMTT(30) DEF Batch, Job
  <2>3. RawOK(b)
    <3>1. /\ Anchored(w.job) /\ w.sigs = SigsIn(w.job.start, w.job.end)
          /\ w.newest = Newest(w.sigs)
      BY <1>0, <2>i, SMTT(30) DEF FetchOK
    <3>2. PICK s \in w.sigs : BlockOf[s] = w.newest
      BY <2>2, <2>t, <3>1, NewestProperties, Zenon
    <3>3. w.newest <= w.job.end
      BY <3>1, <3>2, Zenon DEF SigsIn
    <3>4. \A t \in w.sigs : BlockOf[t] <= w.newest
      BY <2>t, <3>1, NewestProperties, Zenon
    <3>5. SigsIn(w.job.start, w.newest) \subseteq w.sigs
      <4> SUFFICES ASSUME NEW t \in chain, w.job.start <= BlockOf[t], BlockOf[t] <= w.newest
                   PROVE  t \in w.sigs
        BY Zenon DEF SigsIn
      <4>1. BlockOf[t] \in Nat /\ w.newest \in Nat /\ w.job.end \in Nat
        BY <1>s, <2>t, Zenon DEF Job
      <4>2. BlockOf[t] <= w.job.end
        BY <3>3, <4>1
      <4>3. t \in SigsIn(w.job.start, w.job.end)
        BY <4>2, Zenon DEF SigsIn
      <4> QED
        BY <3>1, <4>3, Zenon
    <3> QED
      BY <3>1, <3>4, <3>5, Zenon DEF RawOK, Carries, Anchored
  <2> HIDE DEF b
  <2>4. RawsOK'
    <3>1. \A i \in 1..Len(rawCh') : \/ i \in 1..Len(rawCh) /\ rawCh'[i] = rawCh[i]
                                    \/ rawCh'[i] = b
      <4>1. Sent(rawCh, rawCh', b)
        BY <1>q, <2>2, <2>t, AppendSends, Zenon
      <4> QED BY <4>1, Zenon DEF Sent
    <3> QED
      BY <1>0, <1>r, <2>1, <2>3, <3>1 DEF RawsOK
  <2>5. ASSUME NEW g \in Fetchers PROVE FetchOK(g)'
    <3>1. CASE g = f
      BY <1>f, <2>2, <3>1, Zenon DEF FetchOK
    <3>2. CASE g # f
      <4>1. fetching'[g] = fetching[g]
        BY <1>f, <2>2, <3>2, Zenon
      <4> QED
        BY <1>1, <2>1, <4>1, Frame, Zenon
    <3> QED
      BY <3>1, <3>2
  <2> QED
    BY <1>1, <2>1, <2>4, <2>5, Frame, InvPartsNext, Zenon
<1>8. ASSUME NEW f \in Fetchers, SendChunk(f) PROVE PipelineInv'
  <2>1. FALSE
    <3>1. Cardinality(fetching[f].sigs) > MaxBatchTxs /\ Cardinality(fetching[f].sigs) <= MaxBatchTxs
      BY <1>8, Zenon DEF SendChunk, Unsplit
    <3>2. fetching[f].sigs \in SUBSET Sigs
      <4>1. \/ fetching[f] \in [job : Job, sigs : SUBSET Sigs, newest : Nat]
            \/ fetching[f] = Idle
        BY Zenon DEF TypeOK
      <4>2. Idle.sigs \in SUBSET Sigs
        BY Zenon DEF Idle
      <4> QED
        BY <4>1, <4>2, Zenon
    <3>3. Cardinality(fetching[f].sigs) \in Nat
      BY <3>2, PipelineAssumption, FS_Subset, FS_CardinalityType, Zenon
    <3> QED
      BY <3>1, <3>3, PipelineAssumption
  <2> QED
    BY <2>1, Zenon
<1>9. ASSUME NEW n \in Normalizers, TakeRaw(n) PROVE PipelineInv'
  <2>1. Same /\ UNCHANGED <<coord, jobCh, normCh, fetching>>
    BY <1>9, Zenon DEF TakeRaw, dbVars, chainVars
  <2>2. /\ rawCh # <<>> /\ rawCh' = Tail(rawCh)
        /\ normalizing' = [normalizing EXCEPT ![n] = Head(rawCh)]
    BY <1>9, Zenon DEF TakeRaw
  <2>h. RawOK(normalizing[n])'
    <3>1. Head(rawCh) = rawCh[1] /\ 1 \in 1..Len(rawCh)
      BY <2>2 DEF TypeOK
    <3>2. RawOK(rawCh[1])
      BY <1>0, <3>1, Zenon DEF RawsOK
    <3>3. normalizing'[n] = rawCh[1] /\ \A b : RawOK(b) => RawOK(b)'
      BY <1>r, <2>1, <2>2, <3>1, SMTT(30) DEF TypeOK
    <3> QED
      BY <3>2, <3>3, Zenon
  <2>3. RawsOK'
    <3>1. \A i \in 1..Len(rawCh') : i + 1 \in 1..Len(rawCh) /\ rawCh'[i] = rawCh[i + 1]
      BY <1>q, <2>2, TailElements, Zenon
    <3> QED
      BY <1>0, <1>r, <2>1, <3>1, Zenon DEF RawsOK
  <2>4. ASSUME NEW m \in Normalizers PROVE DecodeOK(m)'
    <3>1. CASE m = n
      BY <2>h, <3>1, Zenon DEF DecodeOK
    <3>2. CASE m # n
      <4>1. normalizing'[m] = normalizing[m]
        BY <1>f, <2>2, <3>2, Zenon
      <4> QED
        BY <1>1, <2>1, <4>1, Frame, Zenon
    <3> QED
      BY <3>1, <3>2
  <2> QED
    BY <1>1, <2>1, <2>3, <2>4, Frame, InvPartsNext, Zenon
<1>10. ASSUME NEW n \in Normalizers, SendNormalized(n) PROVE PipelineInv'
  <2> DEFINE b == normalizing[n]
             out == [b EXCEPT !.sigs = Decoded(b), !.newSeq = NormalizedCursor(b)]
  <2>1. Same /\ UNCHANGED <<coord, jobCh, rawCh, fetching>>
    BY <1>10, Zenon DEF SendNormalized, dbVars, chainVars
  <2>b. /\ b # NoBatch /\ normCh' = Append(normCh, out)
        /\ normalizing' = [normalizing EXCEPT ![n] = NoBatch]
    BY <1>10, Zenon DEF SendNormalized
  <2>2. /\ b \in Batch /\ RawOK(b) /\ normCh' = Append(normCh, out)
        /\ normalizing' = [normalizing EXCEPT ![n] = NoBatch]
    BY <1>0, <1>f, <2>b, Zenon DEF DecodeOK
  <2>3. Carries(out, Undecodable)
    BY <2>2, NormalizedCarries, Zenon
  <2>n. out \in Batch
    BY <2>2, NormalizedType, Zenon
  <2> HIDE DEF out
  <2>4. NormsOK'
    <3>1. \A i \in 1..Len(normCh') : \/ i \in 1..Len(normCh) /\ normCh'[i] = normCh[i]
                                     \/ normCh'[i] = out
      <4>1. Sent(normCh, normCh', out)
        BY <1>q, <2>2, <2>n, AppendSends, Zenon
      <4> QED BY <4>1, Zenon DEF Sent
    <3> QED
      BY <1>0, <1>n, <2>1, <2>3, <3>1, Zenon DEF NormsOK
  <2>5. ASSUME NEW m \in Normalizers PROVE DecodeOK(m)'
    <3>1. CASE m = n
      BY <1>f, <2>2, <3>1, Zenon DEF DecodeOK
    <3>2. CASE m # n
      <4>1. normalizing'[m] = normalizing[m]
        BY <1>f, <2>2, <3>2, Zenon
      <4> QED
        BY <1>1, <2>1, <4>1, Frame, Zenon
    <3> QED
      BY <3>1, <3>2
  <2> QED
    BY <1>1, <2>1, <2>4, <2>5, Frame, InvPartsNext, Zenon
<1>11. ASSUME NEW n \in Normalizers, DecodeCollapse(n) PROVE PipelineInv'
  <2>1. Same /\ NewRun
    BY <1>11, Zenon DEF DecodeCollapse, Restart, chainVars, dbVars
  <2> QED
    BY <1>1, <2>1, NewRunInv, Zenon
<1>12. CASE CommitBatch
  <2>1. /\ chain' = chain /\ normCh # <<>> /\ normCh' = Tail(normCh)
        /\ watermark' = Larger(watermark, Head(normCh).newSeq)
        /\ UNCHANGED <<coord, jobCh, rawCh, fetching, normalizing>>
    BY <1>12, Zenon DEF CommitBatch, chainVars
  <2>2. Head(normCh) \in Batch
    BY <1>q, <2>1
  <2>3. watermark' >= watermark
    <3>1. watermark \in Nat \cup {-1}
      BY Zenon DEF TypeOK
    <3>2. Head(normCh).newSeq \in Int
      BY <2>2 DEF Batch
    <3>3. watermark' = Larger(watermark, Head(normCh).newSeq)
      BY <2>1, Zenon
    <3> QED BY <3>1, <3>2, <3>3 DEF Larger
  <2>4. Lookback = 0 \/ watermark' > 0
    BY <2>3 DEF PipelineInv, TypeOK
  <2>5. \A b \in Batch : Carries(b, Undecodable) => Carries(b, Undecodable)'
    BY <2>1, <2>3, OnItsWay, SMTT(30)
  <2>6. NormsOK'
    <3>1. \A i \in 1..Len(normCh') : i + 1 \in 1..Len(normCh) /\ normCh'[i] = normCh[i + 1]
      BY <1>q, <2>1, TailElements, Zenon
    <3>2. \A i \in 1..Len(normCh) : normCh[i] \in Batch
      BY <1>q
    <3> QED
      BY <1>0, <2>5, <3>1, <3>2, Zenon DEF NormsOK
  <2> QED
    BY <1>12, <2>1, <2>3, <2>4, <2>6, CommitNoGap, Frame, InvPartsNext, Zenon
<1>13. CASE ReconcileLostCommit
  <2>1. Same /\ UNCHANGED <<coord, jobCh, rawCh, fetching, normalizing>>
    BY <1>13, Zenon DEF ReconcileLostCommit, chainVars, dbVars
  <2>2. normCh # <<>> /\ normCh' = Tail(normCh)
    BY <1>13, Zenon DEF ReconcileLostCommit
  <2>3. NormsOK'
    <3>1. \A i \in 1..Len(normCh') : i + 1 \in 1..Len(normCh) /\ normCh'[i] = normCh[i + 1]
      BY <1>q, <2>2, TailElements, Zenon
    <3> QED
      BY <1>0, <1>n, <2>1, <3>1, Zenon DEF NormsOK
  <2> QED
    BY <1>1, <2>1, <2>3, Frame, InvPartsNext, Zenon
<1>14. CASE Restart
  <2>1. Same /\ NewRun
    BY <1>14, Zenon DEF Restart, chainVars, dbVars
  <2> QED
    BY <1>1, <2>1, NewRunInv, Zenon
<1>15. ASSUME NEW block \in 1..MaxBlock, ReplayIndexed(block) PROVE PipelineInv'
  <2>1. NoGap' /\ (Lookback = 0 \/ watermark' > 0) /\ NewRun
    BY <1>15, PurgeNoGap, Zenon DEF PipelineInv, ReplayIndexed, ReplayPurge
  <2> QED
    BY <2>1, NewRunInv, Zenon
<1>16. CASE UNCHANGED vars
  <2>1. Same /\ UNCHANGED <<coord, jobCh, rawCh, normCh, fetching, normalizing>>
    BY <1>16, Zenon DEF vars, chainVars, dbVars, runVars
  <2> QED
    BY <1>1, <2>1, Frame, InvPartsNext, Zenon
<1> QED
  BY <1>2, <1>3, <1>4, <1>5, <1>6, <1>7, <1>8, <1>9, <1>10, <1>11, <1>12, <1>13, <1>14,
     <1>15, <1>16, Zenon DEF Next, StageStep

(***************************************************************************)
(* No transaction at or below the watermark is ever missing, for any       *)
(* number of workers, any channel sizes, any batch sizes, any failures and *)
(* any replay from an indexed block, as long as no job is split into       *)
(* sub-batches and the first run does not skip blocks by its lookback.     *)
(***************************************************************************)
THEOREM NoGapAlways ==
    ASSUME InitWatermark > 0 \/ Lookback = 0
    PROVE  Spec /\ []Unsplit => []NoGap
<1>1. Init => PipelineInv
  BY InvInit, Zenon
<1>2. TypeOK /\ TypeOK' /\ PipelineInv /\ Unsplit /\ [Next]_vars => PipelineInv'
  BY InvInductive, Zenon
<1>3. PipelineInv => NoGap
  BY Zenon DEF PipelineInv
<1> QED
  BY <1>1, <1>2, <1>3, TypeCorrect, PTL DEF Spec

(***************************************************************************)
(* Every job and batch on its way covers what the watermark will pass.     *)
(***************************************************************************)
THEOREM PipelineInvAlways ==
    ASSUME InitWatermark > 0 \/ Lookback = 0
    PROVE  Spec /\ []Unsplit => []PipelineInv
<1>1. Init => PipelineInv
  BY InvInit
<1>2. TypeOK /\ TypeOK' /\ PipelineInv /\ Unsplit /\ [Next]_vars => PipelineInv'
  BY InvInductive
<1> QED
  BY <1>1, <1>2, TypeCorrect, PTL DEF Spec

-----------------------------------------------------------------------------
(* Refinement *)

SameChain == chain = InitChain

\* On the specification without reorganisations the chain stays as it is.
LEMMA ChainFixed == Spec => []SameChain
<1>1. Init => SameChain
  BY Zenon DEF Init, SameChain
<1>2. SameChain /\ [Next]_vars => SameChain'
  BY Zenon DEF SameChain, Next, StageStep, vars, chainVars, NewHead, TickBlockScan, Tick, Enqueue, ScanBlocks,
     SendSentinel, SendLastChunk, SendChunk, TakeRaw, SendNormalized, DecodeCollapse,
     CommitBatch, ReconcileLostCommit, Restart, ReplayIndexed, ReplayPurge
<1> QED
  BY <1>1, <1>2, PTL DEF Spec

\* The initial states map to initial states of WatermarkIndex.
LEMMA RefinesInit == Init => Index!IndexInit
BY Zenon DEF Init, Index!IndexInit

(* Only a commit and a replay change the tables: the first is an Advance,   *)
(* the second a Rewind.                                                     *)
LEMMA RefinesStep ==
    ASSUME TypeOK, TypeOK', PipelineInv, PipelineInv', SameChain', [Next]_vars
    PROVE  [Index!IndexNext]_(Index!indexVars)
<1>1. CASE CommitBatch
  <2>1. stored \subseteq stored' /\ watermark' >= watermark
    <3>1. Head(normCh) \in Batch
      BY <1>1 DEF CommitBatch, TypeOK
    <3>2. Head(normCh).newSeq \in Int /\ watermark \in Int
      BY <3>1 DEF Batch, TypeOK
    <3>3. /\ stored' = stored \cup Head(normCh).sigs
          /\ watermark' = Larger(watermark, Head(normCh).newSeq)
      BY <1>1, Zenon DEF CommitBatch
    <3> QED
      BY <3>2, <3>3 DEF Larger
  <2>2. NoGap'
    BY Zenon DEF PipelineInv
  <2>3. ASSUME NEW s \in {t \in InitChain \ Undecodable : BlockOf[t] >= Base}, BlockOf[s] <= watermark'
        PROVE  s \in stored'
    <3>1. BlockOf[s] \in Nat /\ Base \in Int
      BY PipelineAssumption DEF Base
    <3> QED
      BY <2>2, <2>3, <3>1, Zenon DEF NoGap, Indexed, Base, SameChain
  <2> QED
    BY <2>1, <2>3, Zenon DEF Index!IndexNext, Index!Advance, Index!Complete, TypeOK
<1>2. ASSUME NEW block \in 1..MaxBlock, ReplayIndexed(block)
      PROVE  Index!Rewind
  <2>1. /\ watermark' = block - 1 /\ block - 1 <= watermark /\ block \in Nat
        /\ stored' = stored \ {s \in stored : BlockOf[s] >= block}
    BY <1>2, PipelineAssumption DEF ReplayIndexed, ReplayPurge, PurgeFrom, Larger, TypeOK
  <2>2. \A s \in stored : BlockOf[s] \in Nat
    BY PipelineAssumption DEF TypeOK
  <2>3. stored' = {s \in stored : BlockOf[s] <= watermark'}
    BY <2>1, <2>2
  <2> QED
    BY <2>1, <2>3, Zenon DEF Index!Rewind
<1>3. CASE NewHead \/ TickBlockScan \/ Enqueue \/ ReconcileLostCommit \/ Restart \/ UNCHANGED vars
  BY <1>3, Zenon DEF Index!indexVars, NewHead, TickBlockScan, Tick, Enqueue, ReconcileLostCommit, Restart,
     vars, dbVars
<1>4. ASSUME NEW f \in Fetchers, ScanBlocks(f) \/ SendSentinel(f) \/ SendLastChunk(f) \/ SendChunk(f)
      PROVE  UNCHANGED Index!indexVars
  BY <1>4, Zenon DEF Index!indexVars, ScanBlocks, SendSentinel, SendLastChunk, SendChunk, dbVars
<1>5. ASSUME NEW n \in Normalizers, TakeRaw(n) \/ SendNormalized(n) \/ DecodeCollapse(n)
      PROVE  UNCHANGED Index!indexVars
  BY <1>5, Zenon DEF Index!indexVars, TakeRaw, SendNormalized, DecodeCollapse, Restart, dbVars
<1> QED
  BY <1>1, <1>2, <1>3, <1>4, <1>5, Zenon DEF Next, StageStep, Index!IndexNext

(***************************************************************************)
(* The pipeline implements the promise it makes to readers of its tables.  *)
(***************************************************************************)
THEOREM PipelineImplementsIndex ==
    ASSUME InitWatermark > 0 \/ Lookback = 0
    PROVE  Spec /\ []Unsplit => ImplementsIndex
<1>1. Init => PipelineInv
  BY InvInit
<1>2. TypeOK /\ TypeOK' /\ PipelineInv /\ Unsplit /\ [Next]_vars => PipelineInv'
  BY InvInductive
<1>3. TypeOK /\ TypeOK' /\ PipelineInv /\ PipelineInv' /\ SameChain' /\ [Next]_vars
         => [Index!IndexNext]_(Index!indexVars)
  BY RefinesStep, Zenon
<1> QED
  BY <1>1, <1>2, <1>3, TypeCorrect, ChainFixed, RefinesInit, PTL
     DEF Spec, ImplementsIndex, Index!IndexSpec

-----------------------------------------------------------------------------
(***************************************************************************)
(* A tick of the coordinator drops a range it sent before only while that  *)
(* range is on its way: SkipsOnlyInFlight for every chain, every number of *)
(* workers and every channel capacity.                                     *)
(***************************************************************************)

(* The cursor of b moves the watermark to the first block of its job or     *)
(* past it; the cursor of an intermediate sub-batch does not.               *)
Closes(b) == b.newSeq >= b.job.start

\* The part of the job that will move the watermark is still on its way.
Underway(job) ==
    \/ \E i \in 1..Len(jobCh) : jobCh[i] = job
    \/ \E f \in Fetchers : fetching[f].job = job
    \/ \E i \in 1..Len(rawCh) : rawCh[i].job = job /\ Closes(rawCh[i])
    \/ \E n \in Normalizers : normalizing[n].job = job /\ Closes(normalizing[n])
    \/ \E i \in 1..Len(normCh) : normCh[i].job = job /\ Closes(normCh[i])

Scannable(job) == job.start <= job.end

Closing(w) ==
    w # Idle => Scannable(w.job) /\ (w.sigs # {} => w.newest >= w.job.start)

(* The inductive invariant behind SkipsOnlyInFlight: the last range sent is  *)
(* either on its way or the watermark has passed its first block, so that    *)
(* the next tick starts somewhere else.                                      *)
SkipInv ==
    /\ watermark > 0 /\ head > 0
    /\ coord # NoJob => Scannable(coord)
    /\ \A i \in 1..Len(jobCh) : Scannable(jobCh[i])
    /\ \A f \in Fetchers : Closing(fetching[f])
    /\ lastEnqueued # NoJob => lastEnqueued.start <= watermark \/ Underway(lastEnqueued)

\* At first nothing has been sent.
LEMMA SkipInit ==
    ASSUME InitWatermark > 0, InitHead > 0, Init
    PROVE  SkipInv
BY DEF Init, SkipInv, Closing

\* A new run has sent nothing yet.
LEMMA SkipNewRun ==
    ASSUME NewRun, watermark' > 0, head' > 0
    PROVE  SkipInv'
<1>1. /\ coord' = NoJob /\ jobCh' = <<>> /\ lastEnqueued' = NoJob
      /\ \A f \in Fetchers : fetching'[f] = Idle
  BY Zenon DEF NewRun
<1> QED
  BY <1>1 DEF SkipInv, Closing

(* The invariant implies the property: a tick that finds the watermark at    *)
(* or past the last range's first block starts above it.                     *)
LEMMA SkipImplies ==
    ASSUME TypeOK, SkipInv
    PROVE  SkipsOnlyInFlight
<1> SUFFICES ASSUME NEW b \in BatchSizes, TickJob(watermark, b) = lastEnqueued
             PROVE  InFlight(lastEnqueued)
  BY Zenon DEF SkipsOnlyInFlight
<1>1. TickJob(watermark, b) \in Job /\ watermark \in Nat
  BY TickJobType DEF TypeOK, SkipInv
<1>2. lastEnqueued # NoJob
  BY <1>1, NoJobIsNoJob, Zenon
<1>3. lastEnqueued.start = watermark + 1
  BY Zenon DEF TickJob, StartBlock, SkipInv
<1>4. Underway(lastEnqueued)
  BY <1>1, <1>2, <1>3 DEF SkipInv
<1> QED
  BY <1>4, Zenon DEF Underway, InFlight

\* Sending a range to the channel puts it on its way.
LEMMA SkipEnqueue ==
    ASSUME TypeOK, TypeOK', SkipInv, Enqueue
    PROVE  SkipInv'
<1>t. /\ jobCh \in Seq(Job) /\ rawCh \in Seq(Batch) /\ normCh \in Seq(Batch)
      /\ fetching \in [Fetchers -> [job : Job, sigs : SUBSET Sigs, newest : Nat] \cup {Idle}]
      /\ normalizing \in [Normalizers -> Batch \cup {NoBatch}]
      /\ watermark \in Int /\ lastEnqueued \in Job \cup {NoJob}
  BY DEF TypeOK
<1>a. Enqueue
  BY Zenon
<1>1. /\ jobCh' = Append(jobCh, coord) /\ lastEnqueued' = coord /\ coord \in Job /\ coord' = NoJob
      /\ UNCHANGED <<watermark, head, fetching>>
  BY <1>a, Zenon DEF Enqueue, chainVars, dbVars, TypeOK
<1>2. Scannable(coord)
  BY <1>a, Zenon DEF Enqueue, SkipInv
<1>s. Sent(jobCh, jobCh', coord)
  BY <1>t, <1>1, AppendSends, Zenon
<1>3. \A i \in 1..Len(jobCh') : Scannable(jobCh'[i])
  <2>1. \A i \in 1..Len(jobCh') : \/ i \in 1..Len(jobCh) /\ jobCh'[i] = jobCh[i]
                                  \/ jobCh'[i] = coord
    BY <1>s, Zenon DEF Sent
  <2> QED
    BY <1>2, <2>1, Zenon DEF SkipInv
<1>4. Underway(lastEnqueued)'
  <2>1. Len(jobCh') \in 1..Len(jobCh') /\ jobCh'[Len(jobCh')] = coord
    BY <1>s, Zenon DEF Sent
  <2> QED
    BY <1>1, <2>1, Zenon DEF Underway
<1> QED
  BY <1>1, <1>3, <1>4, Zenon DEF SkipInv, Closing, Scannable

\* A fetcher that takes a range off the channel holds it.
LEMMA SkipScan ==
    ASSUME TypeOK, TypeOK', SkipInv, NEW f \in Fetchers, ScanBlocks(f)
    PROVE  SkipInv'
<1>t. /\ jobCh \in Seq(Job) /\ rawCh \in Seq(Batch) /\ normCh \in Seq(Batch)
      /\ fetching \in [Fetchers -> [job : Job, sigs : SUBSET Sigs, newest : Nat] \cup {Idle}]
      /\ normalizing \in [Normalizers -> Batch \cup {NoBatch}]
      /\ watermark \in Int /\ lastEnqueued \in Job \cup {NoJob}
  BY DEF TypeOK
<1>i. Idle.job = NoJob /\ Idle.sigs = {} /\ NoBatch.job = NoJob
  BY Zenon DEF Idle, NoBatch
<1>c. /\ coord # NoJob => Scannable(coord)
      /\ \A i \in 1..Len(jobCh) : Scannable(jobCh[i])
      /\ \A g \in Fetchers : Closing(fetching[g])
      /\ watermark > 0 /\ head > 0
      /\ lastEnqueued # NoJob => lastEnqueued.start <= watermark \/ Underway(lastEnqueued)
  BY Zenon DEF SkipInv
<1>a. ScanBlocks(f)
  BY Zenon
<1> DEFINE j == Head(jobCh)
<1>1. /\ fetching[f] = Idle /\ jobCh # <<>> /\ jobCh' = Tail(jobCh)
      /\ fetching' = [fetching EXCEPT ![f] = [job |-> j, sigs |-> SigsIn(j.start, j.end),
                                              newest |-> Newest(SigsIn(j.start, j.end))]]
      /\ UNCHANGED <<watermark, head, coord, lastEnqueued, rawCh, normCh, normalizing>>
  BY <1>a, Zenon DEF ScanBlocks, chainVars, dbVars
<1>r. Received(jobCh, jobCh') /\ j \in Job
  BY <1>t, <1>1, TailReceives, Zenon
<1>2. j \in Job /\ j = jobCh[1] /\ 1 \in 1..Len(jobCh)
  BY <1>r, Zenon DEF Received
<1>3. \A i \in 1..Len(jobCh') : i + 1 \in 1..Len(jobCh) /\ jobCh'[i] = jobCh[i + 1]
  BY <1>r, Zenon DEF Received
<1>4. \A i \in 1..Len(jobCh) : i # 1 => i - 1 \in 1..Len(jobCh') /\ jobCh'[i - 1] = jobCh[i]
  BY <1>r, Zenon DEF Received
<1>5. fetching'[f].job = j /\ \A g \in Fetchers \ {f} : fetching'[g] = fetching[g]
  BY <1>t, <1>1, Zenon
<1>6. Closing(fetching'[f])
  <2> DEFINE found == SigsIn(j.start, j.end)
  <2>1. found \in SUBSET Sigs /\ \A s \in found : BlockOf[s] >= j.start
    BY <1>2, PipelineAssumption, Zenon DEF SigsIn, TypeOK, Job
  <2>2. found # {} => \E s \in found : BlockOf[s] = Newest(found)
    BY <2>1, NewestProperties, Zenon
  <2>3. fetching'[f].sigs = found /\ fetching'[f].newest = Newest(found)
    BY <1>t, <1>1, Zenon
  <2>4. Scannable(j)
    BY <1>c, <1>2, Zenon
  <2> HIDE DEF found, j
  <2> QED
    BY <1>5, <2>1, <2>2, <2>3, <2>4, Zenon DEF Closing
<1>7. ASSUME NEW job \in Job, Underway(job) PROVE Underway(job)'
  <2>1. CASE \E i \in 1..Len(jobCh) : jobCh[i] = job
    <3>1. PICK i \in 1..Len(jobCh) : jobCh[i] = job
      BY <2>1, Zenon
    <3>2. CASE i = 1
      BY <1>2, <1>5, <3>1, <3>2, Zenon DEF Underway
    <3>3. CASE i # 1
      BY <1>4, <3>1, <3>3, Zenon DEF Underway
    <3> QED BY <3>2, <3>3, Zenon
  <2>2. CASE \E g \in Fetchers : fetching[g].job = job
    BY <1>i, <1>1, <1>5, <2>2, NoJobIsNoJob, Zenon DEF Underway
  <2>3. CASE \/ \E i \in 1..Len(rawCh) : rawCh[i].job = job /\ Closes(rawCh[i])
             \/ \E n \in Normalizers : normalizing[n].job = job /\ Closes(normalizing[n])
             \/ \E i \in 1..Len(normCh) : normCh[i].job = job /\ Closes(normCh[i])
    BY <1>1, <2>3, Zenon DEF Underway, Closes
  <2> QED BY <1>7, <2>1, <2>2, <2>3, Zenon DEF Underway
<1>8. \A i \in 1..Len(jobCh') : Scannable(jobCh'[i])
  BY <1>c, <1>3, Zenon
<1>9. \A g \in Fetchers : Closing(fetching'[g])
  BY <1>c, <1>5, <1>6, Zenon
<1>10. lastEnqueued' # NoJob => lastEnqueued'.start <= watermark' \/ Underway(lastEnqueued)'
  BY <1>c, <1>t, <1>1, <1>7, Zenon
<1> HIDE DEF j
<1> QED
  BY <1>c, <1>1, <1>8, <1>9, <1>10, Zenon DEF SkipInv, Closing, Scannable

\* The last part a fetcher sends closes its range.
LEMMA SkipSend ==
    ASSUME TypeOK, TypeOK', SkipInv, NEW f \in Fetchers, SendSentinel(f) \/ SendLastChunk(f)
    PROVE  SkipInv'
<1>t. /\ jobCh \in Seq(Job) /\ rawCh \in Seq(Batch) /\ normCh \in Seq(Batch)
      /\ fetching \in [Fetchers -> [job : Job, sigs : SUBSET Sigs, newest : Nat] \cup {Idle}]
      /\ normalizing \in [Normalizers -> Batch \cup {NoBatch}]
      /\ watermark \in Int /\ lastEnqueued \in Job \cup {NoJob}
  BY DEF TypeOK
<1>i. Idle.job = NoJob /\ Idle.sigs = {} /\ NoBatch.job = NoJob
  BY Zenon DEF Idle, NoBatch
<1>c. /\ coord # NoJob => Scannable(coord)
      /\ \A i \in 1..Len(jobCh) : Scannable(jobCh[i])
      /\ \A g \in Fetchers : Closing(fetching[g])
      /\ watermark > 0 /\ head > 0
      /\ lastEnqueued # NoJob => lastEnqueued.start <= watermark \/ Underway(lastEnqueued)
  BY Zenon DEF SkipInv
<1>a. SendSentinel(f) \/ SendLastChunk(f)
  BY Zenon
<1> DEFINE w == fetching[f]
           b == [job |-> w.job, sigs |-> w.sigs,
                 newSeq |-> IF w.sigs = {} THEN w.job.end ELSE w.newest]
<1>1. /\ w # Idle /\ rawCh' = Append(rawCh, b)
      /\ fetching' = [fetching EXCEPT ![f] = Idle]
      /\ UNCHANGED <<watermark, head, coord, lastEnqueued, jobCh, normCh, normalizing>>
  BY <1>a, <1>i, Zenon DEF SendSentinel, SendLastChunk, chainVars, dbVars
<1>2. w.job \in Job /\ w.sigs \in SUBSET Sigs /\ w.newest \in Nat /\ b \in Batch
  BY <1>1, FetchType, Zenon DEF Batch, Job
<1>3. Closes(b) /\ b.job = w.job
  <2>1. Closing(w)
    BY <1>c, Zenon
  <2> QED
    BY <1>1, <1>2, <2>1, Zenon DEF Closing, Closes, Scannable, Job
<1> HIDE DEF b
<1>4. fetching'[f] = Idle /\ \A g \in Fetchers \ {f} : fetching'[g] = fetching[g]
  BY <1>t, <1>1, Zenon
<1>5. /\ Len(rawCh') \in 1..Len(rawCh') /\ rawCh'[Len(rawCh')] = b
      /\ \A i \in 1..Len(rawCh) : i \in 1..Len(rawCh') /\ rawCh'[i] = rawCh[i]
  <2>1. Sent(rawCh, rawCh', b)
    BY <1>t, <1>1, <1>2, AppendSends, Zenon
  <2> QED BY <2>1, Zenon DEF Sent
<1>6. ASSUME NEW job \in Job, Underway(job) PROVE Underway(job)'
  <2>1. CASE \E g \in Fetchers : fetching[g].job = job
    <3>1. PICK g \in Fetchers : fetching[g].job = job
      BY <2>1, Zenon
    <3>2. CASE g = f
      <4>1. rawCh'[Len(rawCh')].job = job /\ Closes(rawCh'[Len(rawCh')])
        BY <1>3, <1>5, <3>1, <3>2, Zenon
      <4> QED
        BY <1>5, <4>1, Zenon DEF Underway, Closes
    <3>3. CASE g # f
      BY <1>4, <3>1, <3>3, Zenon DEF Underway
    <3> QED BY <3>2, <3>3, Zenon
  <2>2. CASE \E i \in 1..Len(rawCh) : rawCh[i].job = job /\ Closes(rawCh[i])
    BY <1>5, <2>2, Zenon DEF Underway, Closes
  <2>3. CASE \/ \E i \in 1..Len(jobCh) : jobCh[i] = job
             \/ \E n \in Normalizers : normalizing[n].job = job /\ Closes(normalizing[n])
             \/ \E i \in 1..Len(normCh) : normCh[i].job = job /\ Closes(normCh[i])
    BY <1>1, <2>3, Zenon DEF Underway, Closes
  <2> QED BY <1>6, <2>1, <2>2, <2>3, Zenon DEF Underway
<1>7. \A g \in Fetchers : Closing(fetching'[g])
  BY <1>c, <1>4, Zenon DEF Closing
<1>8. lastEnqueued' # NoJob => lastEnqueued'.start <= watermark' \/ Underway(lastEnqueued)'
  BY <1>c, <1>t, <1>1, <1>6, Zenon
<1> QED
  BY <1>c, <1>1, <1>7, <1>8, Zenon DEF SkipInv, Closing, Scannable

\* After an intermediate sub-batch the fetcher still holds the range.
LEMMA SkipChunk ==
    ASSUME TypeOK, TypeOK', SkipInv, NEW f \in Fetchers, SendChunk(f)
    PROVE  SkipInv'
<1>t. /\ jobCh \in Seq(Job) /\ rawCh \in Seq(Batch) /\ normCh \in Seq(Batch)
      /\ fetching \in [Fetchers -> [job : Job, sigs : SUBSET Sigs, newest : Nat] \cup {Idle}]
      /\ normalizing \in [Normalizers -> Batch \cup {NoBatch}]
      /\ watermark \in Int /\ lastEnqueued \in Job \cup {NoJob}
  BY DEF TypeOK
<1>i. Idle.job = NoJob /\ Idle.sigs = {} /\ NoBatch.job = NoJob
  BY DEF Idle, NoBatch
<1>c. /\ coord # NoJob => Scannable(coord)
      /\ \A i \in 1..Len(jobCh) : Scannable(jobCh[i])
      /\ \A g \in Fetchers : Closing(fetching[g])
      /\ watermark > 0 /\ head > 0
      /\ lastEnqueued # NoJob => lastEnqueued.start <= watermark \/ Underway(lastEnqueued)
  BY DEF SkipInv
<1>a. SendChunk(f)
  OBVIOUS
<1> DEFINE w == fetching[f]
<1>1. PICK c \in Chunks(w.sigs) :
         /\ rawCh' = Append(rawCh, [job |-> w.job, sigs |-> c, newSeq |-> w.job.start - 1])
         /\ fetching' = [fetching EXCEPT ![f].sigs = @ \ c]
  BY <1>a, Zenon DEF SendChunk
<1>2. /\ Cardinality(w.sigs) > MaxBatchTxs
      /\ UNCHANGED <<watermark, head, coord, lastEnqueued, jobCh, normCh, normalizing>>
  BY <1>a, Zenon DEF SendChunk, chainVars, dbVars
<1>3. w # Idle
  BY <1>i, <1>2, FS_EmptySet, PipelineAssumption
<1>4. w.job \in Job /\ w.sigs \in SUBSET Sigs /\ w.newest \in Nat /\ w.sigs # {}
  <2>1. w.job \in Job /\ w.sigs \in SUBSET Sigs /\ w.newest \in Nat
    BY <1>3, FetchType, Zenon
  <2>2. w.sigs # {}
    <3>1. Cardinality({}) = 0 /\ MaxBatchTxs \in Nat
      BY FS_EmptySet, PipelineAssumption, Zenon
    <3>2. Cardinality({}) > MaxBatchTxs => FALSE
      BY <3>1
    <3> QED BY <1>2, <3>2, Zenon
  <2> QED BY <2>1, <2>2, Zenon
<1>5. /\ fetching'[f].job = w.job /\ fetching'[f].newest = w.newest
      /\ \A g \in Fetchers \ {f} : fetching'[g] = fetching[g]
  BY <1>t, <1>1, <1>3, Zenon
<1>6. Closing(fetching'[f])
  BY <1>c, <1>3, <1>4, <1>5, Zenon DEF Closing
<1>7. \A g \in Fetchers : Closing(fetching'[g])
  BY <1>c, <1>5, <1>6, Zenon
<1>8. \A i \in 1..Len(rawCh) : i \in 1..Len(rawCh') /\ rawCh'[i] = rawCh[i]
  <2> DEFINE b == [job |-> w.job, sigs |-> c, newSeq |-> w.job.start - 1]
  <2>1. rawCh' = Append(rawCh, b)
    BY <1>1, Zenon
  <2> HIDE DEF b
  <2> QED
    BY <1>t, <2>1
<1>9. ASSUME NEW job \in Job, Underway(job) PROVE Underway(job)'
  <2>1. CASE \E g \in Fetchers : fetching[g].job = job
    BY <1>5, <2>1, Zenon DEF Underway
  <2>2. CASE \E i \in 1..Len(rawCh) : rawCh[i].job = job /\ Closes(rawCh[i])
    BY <1>8, <2>2, Zenon DEF Underway, Closes
  <2>3. CASE \/ \E i \in 1..Len(jobCh) : jobCh[i] = job
             \/ \E n \in Normalizers : normalizing[n].job = job /\ Closes(normalizing[n])
             \/ \E i \in 1..Len(normCh) : normCh[i].job = job /\ Closes(normCh[i])
    BY <1>2, <2>3, Zenon DEF Underway, Closes
  <2> QED BY <1>9, <2>1, <2>2, <2>3, Zenon DEF Underway
<1>10. lastEnqueued' # NoJob => lastEnqueued'.start <= watermark' \/ Underway(lastEnqueued)'
  BY <1>c, <1>t, <1>2, <1>9, Zenon
<1> QED
  BY <1>c, <1>2, <1>7, <1>10 DEF SkipInv, Closing, Scannable

\* A normalizer that takes a batch holds it.
LEMMA SkipTake ==
    ASSUME TypeOK, TypeOK', SkipInv, NEW n \in Normalizers, TakeRaw(n)
    PROVE  SkipInv'
<1>t. /\ jobCh \in Seq(Job) /\ rawCh \in Seq(Batch) /\ normCh \in Seq(Batch)
      /\ fetching \in [Fetchers -> [job : Job, sigs : SUBSET Sigs, newest : Nat] \cup {Idle}]
      /\ normalizing \in [Normalizers -> Batch \cup {NoBatch}]
      /\ watermark \in Int /\ lastEnqueued \in Job \cup {NoJob}
  BY DEF TypeOK
<1>i. Idle.job = NoJob /\ Idle.sigs = {} /\ NoBatch.job = NoJob
  BY DEF Idle, NoBatch
<1>c. /\ coord # NoJob => Scannable(coord)
      /\ \A i \in 1..Len(jobCh) : Scannable(jobCh[i])
      /\ \A g \in Fetchers : Closing(fetching[g])
      /\ watermark > 0 /\ head > 0
      /\ lastEnqueued # NoJob => lastEnqueued.start <= watermark \/ Underway(lastEnqueued)
  BY Zenon DEF SkipInv
<1>a. TakeRaw(n)
  OBVIOUS
<1>1. /\ normalizing[n] = NoBatch /\ rawCh # <<>> /\ rawCh' = Tail(rawCh)
      /\ normalizing' = [normalizing EXCEPT ![n] = Head(rawCh)]
      /\ UNCHANGED <<watermark, head, coord, lastEnqueued, jobCh, normCh, fetching>>
  BY <1>a, Zenon DEF TakeRaw, chainVars, dbVars
<1>r. Received(rawCh, rawCh')
  BY <1>t, <1>1, TailReceives, Zenon
<1>2. Head(rawCh) = rawCh[1]
  BY <1>r, Zenon DEF Received
<1>3. /\ normalizing'[n] = rawCh[1]
      /\ \A m \in Normalizers \ {n} : normalizing'[m] = normalizing[m]
  BY <1>t, <1>1, <1>2, Zenon
<1>4. \A i \in 1..Len(rawCh) : i # 1 => i - 1 \in 1..Len(rawCh') /\ rawCh'[i - 1] = rawCh[i]
  BY <1>r, Zenon DEF Received
<1>5. ASSUME NEW job \in Job, Underway(job) PROVE Underway(job)'
  <2>1. CASE \E i \in 1..Len(rawCh) : rawCh[i].job = job /\ Closes(rawCh[i])
    <3>1. PICK i \in 1..Len(rawCh) : rawCh[i].job = job /\ Closes(rawCh[i])
      BY <2>1, Zenon
    <3>2. CASE i = 1
      <4>1. normalizing'[n].job = job /\ Closes(normalizing'[n])
        BY <1>3, <3>1, <3>2, Zenon
      <4> QED BY <4>1, Zenon DEF Underway, Closes
    <3>3. CASE i # 1
      BY <1>4, <3>1, <3>3, Zenon DEF Underway, Closes
    <3> QED BY <3>2, <3>3
  <2>2. CASE \E m \in Normalizers : normalizing[m].job = job /\ Closes(normalizing[m])
    BY <1>i, <1>1, <1>3, <2>2, NoJobIsNoJob DEF Underway, Closes
  <2>3. CASE \/ \E i \in 1..Len(jobCh) : jobCh[i] = job
             \/ \E f \in Fetchers : fetching[f].job = job
             \/ \E i \in 1..Len(normCh) : normCh[i].job = job /\ Closes(normCh[i])
    BY <1>1, <2>3, Zenon DEF Underway, Closes
  <2> QED BY <1>5, <2>1, <2>2, <2>3, Zenon DEF Underway
<1>6. lastEnqueued' # NoJob => lastEnqueued'.start <= watermark' \/ Underway(lastEnqueued)'
  BY <1>c, <1>t, <1>1, <1>5, Zenon
<1> QED
  BY <1>c, <1>1, <1>6, Zenon DEF SkipInv, Closing, Scannable

\* Normalising a batch does not lower its cursor: what closed a range still does.
LEMMA SkipNormalize ==
    ASSUME TypeOK, TypeOK', SkipInv, NEW n \in Normalizers, SendNormalized(n)
    PROVE  SkipInv'
<1>t. /\ jobCh \in Seq(Job) /\ rawCh \in Seq(Batch) /\ normCh \in Seq(Batch)
      /\ fetching \in [Fetchers -> [job : Job, sigs : SUBSET Sigs, newest : Nat] \cup {Idle}]
      /\ normalizing \in [Normalizers -> Batch \cup {NoBatch}]
      /\ watermark \in Int /\ lastEnqueued \in Job \cup {NoJob}
  BY DEF TypeOK
<1>c. /\ coord # NoJob => Scannable(coord)
      /\ \A i \in 1..Len(jobCh) : Scannable(jobCh[i])
      /\ \A g \in Fetchers : Closing(fetching[g])
      /\ watermark > 0 /\ head > 0
      /\ lastEnqueued # NoJob => lastEnqueued.start <= watermark \/ Underway(lastEnqueued)
  BY DEF SkipInv
<1>a. SendNormalized(n)
  OBVIOUS
<1> DEFINE b == normalizing[n]
           out == [b EXCEPT !.sigs = Decoded(b), !.newSeq = NormalizedCursor(b)]
<1>1. /\ b # NoBatch /\ normCh' = Append(normCh, out)
      /\ normalizing' = [normalizing EXCEPT ![n] = NoBatch]
      /\ UNCHANGED <<watermark, head, coord, lastEnqueued, jobCh, rawCh, fetching>>
  BY <1>a, Zenon DEF SendNormalized, chainVars, dbVars
<1>2. b \in Batch
  BY <1>t, <1>1, Zenon
<1>3. out \in Batch
  BY <1>2, NormalizedType, Zenon
<1>4. out.job = b.job /\ (Closes(b) => Closes(out))
  <2>1. out.job = b.job /\ out.newSeq = NormalizedCursor(b)
    BY <1>2, Zenon DEF Batch
  <2>2. NormalizedCursor(b) >= b.newSeq
    <3>1. Decoded(b) \in SUBSET Sigs
      BY <1>2, Zenon DEF Decoded, Batch
    <3>2. Newest(Decoded(b)) \in Nat
      BY <3>1, NewestProperties, Zenon
    <3> QED
      BY <1>2, <3>2 DEF NormalizedCursor, Larger, Batch
  <2> HIDE DEF out
  <2>3. out.newSeq \in Int /\ b.newSeq \in Int /\ b.job.start \in Int
    BY <1>2, <1>3 DEF Batch, Job
  <2> QED BY <2>1, <2>2, <2>3 DEF Closes
<1> HIDE DEF out
<1>5. \A m \in Normalizers \ {n} : normalizing'[m] = normalizing[m]
  BY <1>t, <1>1, Zenon
<1>6. /\ Len(normCh') \in 1..Len(normCh') /\ normCh'[Len(normCh')] = out
      /\ \A i \in 1..Len(normCh) : i \in 1..Len(normCh') /\ normCh'[i] = normCh[i]
  <2>1. Sent(normCh, normCh', out)
    BY <1>t, <1>1, <1>3, AppendSends, Zenon
  <2> QED BY <2>1, Zenon DEF Sent
<1>7. ASSUME NEW job \in Job, Underway(job) PROVE Underway(job)'
  <2>1. CASE \E m \in Normalizers : normalizing[m].job = job /\ Closes(normalizing[m])
    <3>1. PICK m \in Normalizers : normalizing[m].job = job /\ Closes(normalizing[m])
      BY <2>1, Zenon
    <3>2. CASE m = n
      <4>1. normCh'[Len(normCh')].job = job /\ Closes(normCh'[Len(normCh')])
        BY <1>4, <1>6, <3>1, <3>2, Zenon
      <4> QED BY <1>6, <4>1, Zenon DEF Underway, Closes
    <3>3. CASE m # n
      BY <1>5, <3>1, <3>3, Zenon DEF Underway, Closes
    <3> QED BY <3>2, <3>3, Zenon
  <2>2. CASE \E i \in 1..Len(normCh) : normCh[i].job = job /\ Closes(normCh[i])
    BY <1>6, <2>2, Zenon DEF Underway, Closes
  <2>3. CASE \/ \E i \in 1..Len(jobCh) : jobCh[i] = job
             \/ \E f \in Fetchers : fetching[f].job = job
             \/ \E i \in 1..Len(rawCh) : rawCh[i].job = job /\ Closes(rawCh[i])
    BY <1>1, <2>3, Zenon DEF Underway, Closes
  <2> QED BY <1>7, <2>1, <2>2, <2>3, Zenon DEF Underway
<1>8. lastEnqueued' # NoJob => lastEnqueued'.start <= watermark' \/ Underway(lastEnqueued)'
  BY <1>c, <1>t, <1>1, <1>7, Zenon
<1> QED
  BY <1>c, <1>1, <1>8, Zenon DEF SkipInv, Closing, Scannable

\* The batch that leaves the pipeline moves the watermark past its range.
LEMMA SkipCommit ==
    ASSUME TypeOK, TypeOK', SkipInv, CommitBatch \/ ReconcileLostCommit
    PROVE  SkipInv'
<1>t. /\ jobCh \in Seq(Job) /\ rawCh \in Seq(Batch) /\ normCh \in Seq(Batch)
      /\ fetching \in [Fetchers -> [job : Job, sigs : SUBSET Sigs, newest : Nat] \cup {Idle}]
      /\ normalizing \in [Normalizers -> Batch \cup {NoBatch}]
      /\ watermark \in Int /\ lastEnqueued \in Job \cup {NoJob}
  BY DEF TypeOK
<1>c. /\ coord # NoJob => Scannable(coord)
      /\ \A i \in 1..Len(jobCh) : Scannable(jobCh[i])
      /\ \A g \in Fetchers : Closing(fetching[g])
      /\ watermark > 0 /\ head > 0
      /\ lastEnqueued # NoJob => lastEnqueued.start <= watermark \/ Underway(lastEnqueued)
  BY Zenon DEF SkipInv
<1>a. CommitBatch \/ ReconcileLostCommit
  BY Zenon
<1> DEFINE b == Head(normCh)
<1>1. /\ normCh # <<>> /\ normCh' = Tail(normCh)
      /\ UNCHANGED <<head, coord, lastEnqueued, jobCh, rawCh, fetching, normalizing>>
  BY <1>a, Zenon DEF CommitBatch, ReconcileLostCommit, chainVars, dbVars
<1>r. Received(normCh, normCh') /\ b \in Batch
  BY <1>t, <1>1, TailReceives, Zenon
<1>2. b \in Batch /\ b = normCh[1]
  BY <1>r, Zenon DEF Received
<1>3. watermark' >= watermark /\ watermark' >= b.newSeq /\ watermark' \in Int
  <2>1. CASE CommitBatch
    BY <1>t, <1>2, <2>1 DEF CommitBatch, Larger, Batch
  <2>2. CASE ReconcileLostCommit
    BY <1>t, <2>2 DEF ReconcileLostCommit, dbVars
  <2> QED BY <1>a, <2>1, <2>2, Zenon
<1>4. \A i \in 1..Len(normCh) : i # 1 => i - 1 \in 1..Len(normCh') /\ normCh'[i - 1] = normCh[i]
  BY <1>r, Zenon DEF Received
<1>5. ASSUME NEW job \in Job, Underway(job) PROVE Underway(job)' \/ job.start <= watermark'
  <2>1. CASE \E i \in 1..Len(normCh) : normCh[i].job = job /\ Closes(normCh[i])
    <3>1. PICK i \in 1..Len(normCh) : normCh[i].job = job /\ Closes(normCh[i])
      BY <2>1, Zenon
    <3>2. CASE i = 1
      BY <1>2, <1>3, <3>1, <3>2 DEF Closes, Batch, Job
    <3>3. CASE i # 1
      BY <1>4, <3>1, <3>3, Zenon DEF Underway, Closes
    <3> QED BY <3>2, <3>3, Zenon
  <2>2. CASE \/ \E i \in 1..Len(jobCh) : jobCh[i] = job
             \/ \E f \in Fetchers : fetching[f].job = job
             \/ \E i \in 1..Len(rawCh) : rawCh[i].job = job /\ Closes(rawCh[i])
             \/ \E n \in Normalizers : normalizing[n].job = job /\ Closes(normalizing[n])
    BY <1>1, <2>2, Zenon DEF Underway, Closes
  <2> QED BY <1>5, <2>1, <2>2, Zenon DEF Underway
<1>6. lastEnqueued' # NoJob => lastEnqueued'.start <= watermark' \/ Underway(lastEnqueued)'
  BY <1>c, <1>t, <1>1, <1>3, <1>5 DEF Job
<1>7. watermark' > 0
  BY <1>c, <1>t, <1>3
<1> QED
  BY <1>c, <1>1, <1>6, <1>7, Zenon DEF SkipInv, Closing, Scannable

\* Every step keeps SkipInv.
LEMMA SkipStep ==
    ASSUME Lookback > 0, TypeOK, TypeOK', SkipInv, [Next]_vars
    PROVE  SkipInv'
<1>1. CASE NewHead
  <2>1. head \in 0..MaxBlock /\ head > 0 /\ head' = head + 1 /\ UNCHANGED <<dbVars, runVars>>
    BY <1>1, Zenon DEF NewHead, SkipInv, TypeOK
  <2>2. head' > 0
    BY <2>1
  <2> QED
    BY <2>1, <2>2, Zenon DEF SkipInv, Underway, Closing, Scannable, Closes, dbVars, runVars
<1>2. CASE TickBlockScan
  <2>1. PICK b \in BatchSizes : ~NothingToScan(watermark) /\ coord' = TickJob(watermark, b)
    BY <1>2, Zenon DEF TickBlockScan, Tick
  <2>2. b \in Nat \ {0} /\ head \in Nat /\ watermark \in Nat /\ watermark > 0 /\ head > 0
    <3>1. head \in 0..MaxBlock /\ watermark \in Nat \cup {-1} /\ watermark > 0 /\ head > 0
      BY Zenon DEF TypeOK, SkipInv
    <3>2. b \in Nat \ {0}
      BY PipelineAssumption, Zenon
    <3> QED BY <3>1, <3>2, PipelineAssumption
  <2>3. Scannable(coord')
    BY <2>1, <2>2 DEF NothingToScan, TickJob, StartBlock, EndBlock, Scannable
  <2> QED
    BY <1>2, <2>3, Zenon DEF TickBlockScan, Tick, SkipInv, Underway, Closing, Scannable, Closes, dbVars, chainVars
<1>3. CASE Enqueue
  BY <1>3, SkipEnqueue, Zenon
<1>c. /\ coord # NoJob => Scannable(coord)
      /\ \A i \in 1..Len(jobCh) : Scannable(jobCh[i])
      /\ \A g \in Fetchers : Closing(fetching[g])
      /\ watermark > 0 /\ head > 0
      /\ lastEnqueued # NoJob => lastEnqueued.start <= watermark \/ Underway(lastEnqueued)
  BY Zenon DEF SkipInv
<1>4. ASSUME NEW f \in Fetchers, ScanBlocks(f) PROVE SkipInv'
  BY <1>4, SkipScan, Zenon
<1>5. ASSUME NEW f \in Fetchers, SendSentinel(f) \/ SendLastChunk(f) PROVE SkipInv'
  BY <1>5, SkipSend, Zenon
<1>6. ASSUME NEW f \in Fetchers, SendChunk(f) PROVE SkipInv'
  BY <1>6, SkipChunk
<1>7. ASSUME NEW n \in Normalizers, TakeRaw(n) PROVE SkipInv'
  BY <1>7, SkipTake
<1>8. ASSUME NEW n \in Normalizers, SendNormalized(n) PROVE SkipInv'
  BY <1>8, SkipNormalize
<1>9. CASE CommitBatch \/ ReconcileLostCommit
  BY <1>9, SkipCommit, Zenon
<1>10. CASE Restart \/ \E n \in Normalizers : DecodeCollapse(n)
  <2>1. NewRun /\ watermark' = watermark /\ head' = head
    BY <1>10, Zenon DEF DecodeCollapse, Restart, chainVars, dbVars
  <2> QED
    BY <1>c, <2>1, SkipNewRun, Zenon
<1>11. ASSUME NEW block \in 1..MaxBlock, ReplayIndexed(block) PROVE SkipInv'
  <2>1. NewRun /\ watermark' > 0 /\ head' = head
    <3>0. ~(Lookback = 0)
      BY PipelineAssumption
    <3>1. NewRun /\ watermark' = Larger(block - 1, 0) /\ head' = head /\ block > 1
      BY <1>11, <3>0, Zenon DEF ReplayIndexed, ReplayPurge, PurgeFrom, chainVars
    <3>2. Larger(block - 1, 0) > 0
      BY <3>1 DEF Larger
    <3> QED BY <3>1, <3>2, Zenon
  <2> QED
    BY <1>c, <2>1, SkipNewRun, Zenon
<1>12. CASE UNCHANGED vars
  BY <1>12, Zenon DEF SkipInv, Underway, Closing, Scannable, Closes, vars, chainVars, dbVars, runVars
<1> QED
  BY <1>1, <1>2, <1>3, <1>4, <1>5, <1>6, <1>7, <1>8, <1>9, <1>10, <1>11, <1>12, Zenon DEF Next, StageStep

(***************************************************************************)
(* A tick never drops a range that nothing will index, whether or not jobs *)
(* are split, once the index and the chain have passed block 0.  With the  *)
(* watermark at 0 the statement is false: StartBlock takes 0 for a first   *)
(* run, the range just indexed is built again and dropped.  With a         *)
(* lookback no replay of Spec leaves it there.                             *)
(***************************************************************************)
THEOREM SkipsOnlyInFlightAlways ==
    ASSUME InitWatermark > 0, InitHead > 0, Lookback > 0
    PROVE  Spec => []SkipsOnlyInFlight
<1>1. Init => SkipInv
  BY SkipInit, Zenon
<1>2. TypeOK /\ TypeOK' /\ SkipInv /\ [Next]_vars => SkipInv'
  BY SkipStep, Zenon
<1>3. TypeOK /\ SkipInv => SkipsOnlyInFlight
  BY SkipImplies, Zenon
<1> QED
  BY <1>1, <1>2, <1>3, TypeCorrect, PTL DEF Spec
=============================================================================
