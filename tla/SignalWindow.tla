---------------------------- MODULE SignalWindow ----------------------------
(***************************************************************************)
(* The rolling telemetry of one chain (coordinator/autotune/signals.go):   *)
(* the error rate of the last RPC calls, kept as a ring of outcomes with a *)
(* running count, and the 95th percentile of the last commit latencies.    *)
(***************************************************************************)
EXTENDS Integers, FiniteSets, Sequences

CONSTANTS
    WindowSize,     \* autoTuneSignalRPCWindowSize, autoTuneSignalCommitWindowSize
    Latencies       \* commit latencies, in ms

ASSUME WindowConstants == WindowSize \in Nat \ {0} /\ Latencies \subseteq Nat

VARIABLES
    rpc,            \* rpcErrorRateSeries
    commits,        \* commitLatencySeries
    copying,        \* the field a Snapshot has copied so far, Copied(series, field, value)
    lastCalls,      \* history: the outcomes of the last WindowSize calls, oldest first
    lastCommits     \* history: the last WindowSize latencies

windowVars == <<rpc, commits, copying, lastCalls, lastCommits>>

Copied(series, field, value) == [series |-> series, field |-> field, value |-> value]
NoCopy == Copied("none", "none", 0)

Ring == [i \in 0..WindowSize - 1 |-> 0]

WindowInit ==
    /\ rpc = [samples |-> Ring, nextIndex |-> 0, sampleCount |-> 0, errorCount |-> 0]
    /\ commits = [samples |-> Ring, nextIndex |-> 0, sampleCount |-> 0]
    /\ copying = NoCopy
    /\ lastCalls = <<>> /\ lastCommits = <<>>

Following(i) == IF i + 1 >= WindowSize THEN 0 ELSE i + 1
Grown(n) == IF n < WindowSize THEN n + 1 ELSE n

\* Mutant: the overwritten outcome stays counted.
RecordForgetful(s, bit) ==
    [samples |-> [s.samples EXCEPT ![s.nextIndex] = bit],
     nextIndex |-> Following(s.nextIndex),
     sampleCount |-> Grown(s.sampleCount),
     errorCount |-> s.errorCount + bit]

\* rpcErrorRateSeries.record: a full ring forgets the outcome it overwrites.
Record(s, bit) ==
    LET old == s.samples[s.nextIndex]
        kept == IF s.sampleCount >= WindowSize /\ old = 1 THEN s.errorCount - 1 ELSE s.errorCount
    IN  [samples |-> [s.samples EXCEPT ![s.nextIndex] = bit],
         nextIndex |-> Following(s.nextIndex),
         sampleCount |-> Grown(s.sampleCount),
         errorCount |-> kept + bit]

\* commitLatencySeries.record.
RecordLatency(s, ms) ==
    [samples |-> [s.samples EXCEPT ![s.nextIndex] = ms],
     nextIndex |-> Following(s.nextIndex),
     sampleCount |-> Grown(s.sampleCount)]

LastOf(seq) == IF Len(seq) <= WindowSize THEN seq ELSE Tail(seq)

RecordRPCResult(bit) ==
    /\ rpc' = Record(rpc, bit)
    /\ lastCalls' = LastOf(Append(lastCalls, bit))
    /\ UNCHANGED <<commits, copying, lastCommits>>

RecordDBCommitLatencyMs(ms) ==
    /\ commits' = RecordLatency(commits, ms)
    /\ lastCommits' = LastOf(Append(lastCommits, ms))
    /\ UNCHANGED <<rpc, copying, lastCalls>>

\* What a read of errorCount may see: a record of an error that overwrites an
\* error takes the old one off before it adds the new one.
ErrorCounts ==
    {rpc.errorCount} \cup
    (IF rpc.sampleCount >= WindowSize /\ rpc.samples[rpc.nextIndex] = 1 THEN {rpc.errorCount - 1} ELSE {})

\* Snapshot releases the registry's lock and then copies one series after the
\* other (their methods have value receivers), while record may write them: the
\* two fields a result depends on are read at two moments, in either order.
SnapshotReads ==
    /\ copying.series = "none"
    /\ \/ copying' = Copied("rpc", "sampleCount", rpc.sampleCount)
       \/ \E e \in ErrorCounts : copying' = Copied("rpc", "errorCount", e)
       \/ copying' = Copied("commits", "sampleCount", commits.sampleCount)
       \/ copying' = Copied("commits", "samples", commits.samples)
    /\ UNCHANGED <<rpc, commits, lastCalls, lastCommits>>

\* The other field is read and the result returned.
SnapshotReturns ==
    /\ copying.series # "none"
    /\ copying' = NoCopy
    /\ UNCHANGED <<rpc, commits, lastCalls, lastCommits>>

WindowNext ==
    \/ \E bit \in {0, 1} : RecordRPCResult(bit)
    \/ \E ms \in Latencies : RecordDBCommitLatencyMs(ms)
    \/ SnapshotReads \/ SnapshotReturns

WindowSpec == WindowInit /\ [][WindowNext]_windowVars
-----------------------------------------------------------------------------
\* errorRateBps of a copy: the rate in basis points.
RateOf(errors, n) == IF n = 0 THEN 0 ELSE (errors * 10000) \div n

\* The rate when no record runs while the series is copied.
ErrorRateBps == RateOf(rpc.errorCount, rpc.sampleCount)

\* The 1-based place of the percentile among n sorted samples.
RankOf(n) == IF (n * 95 + 99) \div 100 > n THEN n ELSE (n * 95 + 99) \div 100

\* The first n samples in sorted order, given by their places.
Orders(n) == {p \in [1..n -> 1..n] : \A k \in 1..n : \E i \in 1..n : p[i] = k}
Sorts(p, samples, n) == \A i, j \in 1..n : i < j => samples[p[i] - 1] <= samples[p[j] - 1]
SortedOrder(samples, n) == CHOOSE p \in Orders(n) : Sorts(p, samples, n)

\* p95Ms of a copy.
P95Of(samples, n) == IF n = 0 THEN 0 ELSE samples[SortedOrder(samples, n)[RankOf(n)] - 1]

\* The percentile when no record runs while the series is copied.
P95Ms == P95Of(commits.samples, commits.sampleCount)

\* The rates a Snapshot under way may return now, when it reads the other field.
RatesNow ==
    CASE copying.field = "sampleCount" -> {RateOf(e, copying.value) : e \in ErrorCounts}
      [] copying.field = "errorCount" -> {RateOf(copying.value, rpc.sampleCount)}

RateIsOfLastCalls ==
    LET errors == Cardinality({i \in DOMAIN lastCalls : lastCalls[i] = 1})
    IN  ErrorRateBps = IF lastCalls = <<>> THEN 0 ELSE (errors * 10000) \div Len(lastCalls)

PercentileOfLastCommits ==
    LET below(v) == Cardinality({i \in DOMAIN lastCommits : lastCommits[i] <= v})
        enough(v) == 100 * below(v) >= 95 * Len(lastCommits)
    IN  lastCommits # <<>> =>
            /\ \E i \in DOMAIN lastCommits : lastCommits[i] = P95Ms
            /\ enough(P95Ms)
            /\ \A i \in DOMAIN lastCommits : lastCommits[i] < P95Ms => ~enough(lastCommits[i])

\* However often the rings have wrapped, the rate is that of the last
\* WindowSize calls, and the percentile is the least latency among the last
\* WindowSize commits that 95% of them do not exceed (record, errorRateBps,
\* p95Ms), for a Snapshot whose copy no record overlaps.
WindowsExact == RateIsOfLastCalls /\ PercentileOfLastCommits

\* What the name RPCErrorRateBps says of a Snapshot: a share of the calls, never
\* above all of them.  A Snapshot that a record overlaps can return more: it
\* reads sampleCount, a failed call is recorded, and it reads errorCount.
RateIsAShare == copying.series = "rpc" => \A r \in RatesNow : r \in 0..10000

\* Among n samples the index computed with integer division is the smallest
\* one that covers 95% of them (p95Ms); shown for every n in Services_proofs.
RankIsNearest(n) ==
    /\ RankOf(n) \in 1..n
    /\ 100 * RankOf(n) >= 95 * n /\ 100 * (RankOf(n) - 1) < 95 * n
=============================================================================
