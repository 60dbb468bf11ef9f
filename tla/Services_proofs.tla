-------------------------- MODULE Services_proofs ---------------------------
(***************************************************************************)
(* Proofs about the services the pipelines share, for every value of their *)
(* constants: the commit interleaver, the circuit breaker and the windows  *)
(* of the auto-tuner's signals.                                            *)
(***************************************************************************)
EXTENDS CommitInterleaver, CircuitBreaker, SignalWindow, FiniteSums

(***************************************************************************)
(* CommitInterleaver: one holder per key, preferred chains first.          *)
(***************************************************************************)
TurnTypeOK ==
    /\ turn \in [Ingesters -> {"idle", "checking", "asleep", "holding", "bypass"}]
    /\ active \in Keys \cup {NoKey}
    /\ next \in DOMAIN Order
    /\ waiting \in [Keys -> Int]

WaitersOf(k) == {w \in Ingesters : Waits(w) /\ KeyOf[w] = k}

\* OneHolder is inductive with the fact that only tracked callers wait or hold.
HolderInv ==
    /\ TurnTypeOK
    /\ \A w \in Ingesters : turn[w] \in {"checking", "asleep", "holding"} => Tracked(w)
    /\ OneHolder

\* waiting counts exactly the callers that wait, whether they got their turn
\* or gave up: what PreferredFirst needs of the map.
CountInv == \A k \in Keys : waiting[k] = Cardinality(WaitersOf(k))

TurnInv == HolderInv /\ CountInv

\* Finitely many ingesters wait for a chain's turn.
LEMMA WaitersFinite == ASSUME NEW k PROVE IsFiniteSet(WaitersOf(k))
<1>1. WaitersOf(k) \in SUBSET Ingesters
  BY Zenon DEF WaitersOf
<1> QED BY <1>1, FS_Subset, InterleaverConstants, Zenon

\* Nobody waits or holds at first.
LEMMA TurnStarts == TurnInit => TurnInv
<1> SUFFICES ASSUME TurnInit PROVE TurnInv
  BY Zenon
<1>1. 1 \in DOMAIN Order
  BY InterleaverConstants
<1>2. HolderInv
  BY <1>1, InterleaverConstants DEF TurnInit, HolderInv, TurnTypeOK, OneHolder
<1>3. ASSUME NEW k \in Keys PROVE waiting[k] = Cardinality(WaitersOf(k))
  <2>1. WaitersOf(k) = {}
    BY Zenon DEF TurnInit, WaitersOf, Waits
  <2> QED BY <2>1, FS_EmptySet, Zenon DEF TurnInit
<1> QED BY <1>2, <1>3, Zenon DEF TurnInv, CountInv

\* The next turn is again a place in the order.
LEMMA NextInOrder ==
  ASSUME NEW k \in Keys PROVE (IndexOf(k) % Len(Order)) + 1 \in DOMAIN Order
<1>1. IndexOf(k) \in DOMAIN Order
  BY Zenon DEF IndexOf, Keys
<1> QED BY <1>1, InterleaverConstants

\* One step per critical section: the turn is taken only when it is free.
LEMMA HolderSteps == HolderInv /\ [TurnNext]_turnVars => HolderInv'
<1> SUFFICES ASSUME HolderInv, [TurnNext]_turnVars PROVE HolderInv'
  BY Zenon
<1> USE InterleaverConstants DEF HolderInv, TurnTypeOK, OneHolder, Tracked
<1>1. ASSUME NEW w \in Ingesters, Acquire(w) PROVE HolderInv'
  BY <1>1 DEF Acquire
<1>2. ASSUME NEW w \in Ingesters, TakeTurn(w) PROVE HolderInv'
  <2>1. active = NoKey /\ \A v \in Ingesters : turn[v] # "holding"
    BY <1>2, Zenon DEF TakeTurn, canAcquireLocked
  <2> QED BY <1>2, <2>1 DEF TakeTurn
<1>3. ASSUME NEW w \in Ingesters, FallAsleep(w) \/ TimerFires(w) \/ DeadlinePasses(w) \/ BypassEnds(w)
      PROVE HolderInv'
  BY <1>3 DEF FallAsleep, TimerFires, DeadlinePasses, BypassEnds
<1>4. ASSUME NEW w \in Ingesters, CancelWaiter(w) PROVE HolderInv'
  <2>1. CASE waiting[KeyOf[w]] > 0
    <3>1. /\ turn' \in [Ingesters -> {"idle", "checking", "asleep", "holding", "bypass"}]
          /\ \A v \in Ingesters : turn'[v] = "holding" <=> turn[v] = "holding"
          /\ \A v \in Ingesters : turn'[v] \in {"checking", "asleep"} => Tracked(v)
      BY <1>4, <2>1, Zenon DEF CancelWaiter, Signalled
    <3>2. waiting' \in [Keys -> Int] /\ active' = active /\ next' = next
      BY <1>4, <2>1 DEF CancelWaiter
    <3> QED BY <3>1, <3>2, Zenon
  <2>2. CASE ~(waiting[KeyOf[w]] > 0)
    <3>1. turn' = [turn EXCEPT ![w] = "idle"] /\ UNCHANGED <<waiting, active, next>>
      BY <1>4, <2>2, Zenon DEF CancelWaiter
    <3>2. /\ turn' \in [Ingesters -> {"idle", "checking", "asleep", "holding", "bypass"}]
          /\ \A v \in Ingesters : turn'[v] = "idle" \/ turn'[v] = turn[v]
      BY <3>1, Zenon
    <3>3. turn[w] # "holding"
      BY <1>4, Zenon DEF CancelWaiter
    <3> QED BY <3>1, <3>2, <3>3, Zenon
  <2> QED BY <2>1, <2>2, Zenon
<1>5. ASSUME NEW w \in Ingesters, NEW committed \in BOOLEAN, Release(w, committed) PROVE HolderInv'
  <2>1. active' = NoKey /\ KeyOf[w] \in Keys /\ waiting' = waiting
    BY <1>5, Zenon DEF Release
  <2>2. \A v \in Ingesters : turn'[v] # "holding" /\ (turn'[v] \in {"checking", "asleep"} => Tracked(v))
    BY <1>5, Zenon DEF Release, Signalled
  <2>3. turn' \in [Ingesters -> {"idle", "checking", "asleep", "holding", "bypass"}]
    BY <1>5, Zenon DEF Release, Signalled
  <2>4. next' \in DOMAIN Order
    BY <1>5, <2>1, NextInOrder, Zenon DEF Release
  <2> QED BY <2>1, <2>2, <2>3, <2>4, Zenon
<1>6. CASE UNCHANGED turnVars
  BY <1>6, Zenon DEF turnVars
<1> QED BY <1>1, <1>2, <1>3, <1>4, <1>5, <1>6, Zenon DEF TurnNext

\* An action that takes one caller off the waiters of its key and leaves the
\* others waiting.
LEMMA OneWaiterLess ==
  ASSUME TurnInv, NEW w \in Ingesters, Waits(w), ~Waits(w)',
         \A v \in Ingesters \ {w} : Waits(v)' <=> Waits(v),
         waiting' = [waiting EXCEPT ![KeyOf[w]] = @ - 1]
  PROVE  CountInv'
<1> SUFFICES ASSUME NEW k \in Keys PROVE waiting'[k] = Cardinality(WaitersOf(k)')
  BY Zenon DEF CountInv
<1>0. KeyOf[w] \in Keys /\ waiting \in [Keys -> Int] /\ waiting[k] = Cardinality(WaitersOf(k))
  BY Zenon DEF TurnInv, HolderInv, TurnTypeOK, CountInv, Waits, Tracked
<1>1. CASE k = KeyOf[w]
  <2>1. w \in WaitersOf(k) /\ WaitersOf(k)' = WaitersOf(k) \ {w}
    BY <1>1, Zenon DEF WaitersOf
  <2> QED BY <1>0, <1>1, <2>1, WaitersFinite, FS_RemoveElement, Zenon
<1>2. CASE k # KeyOf[w]
  <2>1. WaitersOf(k)' = WaitersOf(k)
    BY <1>2, Zenon DEF WaitersOf
  <2> QED BY <1>0, <1>2, <2>1, Zenon
<1> QED BY <1>1, <1>2, Zenon

\* A step that changes neither the waiters nor the map keeps the count.
LEMMA SameWaiters ==
  ASSUME CountInv, waiting' = waiting, \A v \in Ingesters : Waits(v)' <=> Waits(v)
  PROVE  CountInv'
<1> SUFFICES ASSUME NEW k \in Keys PROVE waiting'[k] = Cardinality(WaitersOf(k)')
  BY Zenon DEF CountInv
<1>1. WaitersOf(k)' = WaitersOf(k)
  BY Zenon DEF WaitersOf
<1> QED BY <1>1, Zenon DEF CountInv

\* A waiter is counted once when it comes and once when it goes, granted or
\* cancelled.
LEMMA CountSteps == TurnInv /\ [TurnNext]_turnVars => CountInv'
<1> SUFFICES ASSUME TurnInv, [TurnNext]_turnVars PROVE CountInv'
  BY Zenon
<1>0. /\ turn \in [Ingesters -> {"idle", "checking", "asleep", "holding", "bypass"}]
      /\ waiting \in [Keys -> Int] /\ CountInv
  BY Zenon DEF TurnInv, HolderInv, TurnTypeOK
<1>1. ASSUME NEW w \in Ingesters, Acquire(w) PROVE CountInv'
  <2>1. CASE ~Tracked(w)
    BY <1>0, <1>1, <2>1, SameWaiters, Zenon DEF Acquire, Waits
  <2>2. CASE Tracked(w)
    <3> SUFFICES ASSUME NEW k \in Keys PROVE waiting'[k] = Cardinality(WaitersOf(k)')
      BY Zenon DEF CountInv
    <3>1. waiting[k] = Cardinality(WaitersOf(k))
      BY <1>0, Zenon DEF CountInv
    <3>2. CASE k = KeyOf[w]
      <4>1. w \notin WaitersOf(k) /\ WaitersOf(k)' = WaitersOf(k) \cup {w}
        BY <1>0, <1>1, <2>2, <3>2, Zenon DEF Acquire, Waits, WaitersOf
      <4>2. waiting'[k] = waiting[k] + 1
        BY <1>0, <1>1, <2>2, <3>2, Zenon DEF Acquire
      <4> QED BY <3>1, <4>1, <4>2, WaitersFinite, FS_AddElement, Zenon
    <3>3. CASE k # KeyOf[w]
      <4>1. WaitersOf(k)' = WaitersOf(k)
        BY <1>0, <1>1, <3>3, Zenon DEF Acquire, Waits, WaitersOf
      <4> QED BY <1>0, <1>1, <2>2, <3>1, <3>3, <4>1, Zenon DEF Acquire
    <3> QED BY <3>2, <3>3, Zenon
  <2> QED BY <2>1, <2>2, Zenon
<1>2. ASSUME NEW w \in Ingesters, TakeTurn(w) PROVE CountInv'
  <2>1. Waits(w) /\ ~Waits(w)' /\ \A v \in Ingesters \ {w} : Waits(v)' <=> Waits(v)
    BY <1>0, <1>2, Zenon DEF TakeTurn, Waits
  <2> QED BY <1>2, <2>1, OneWaiterLess, Zenon DEF TakeTurn
<1>3. ASSUME NEW w \in Ingesters, FallAsleep(w) \/ TimerFires(w) \/ DeadlinePasses(w) \/ BypassEnds(w)
      PROVE CountInv'
  BY <1>0, <1>3, SameWaiters, Zenon DEF FallAsleep, TimerFires, DeadlinePasses, BypassEnds, Waits
<1>4. ASSUME NEW w \in Ingesters, CancelWaiter(w) PROVE CountInv'
  <2>1. Waits(w) /\ ~Waits(w)' /\ \A v \in Ingesters \ {w} : Waits(v)' <=> Waits(v)
    BY <1>0, <1>4, Zenon DEF CancelWaiter, Signalled, Waits
  <2>2. w \in WaitersOf(KeyOf[w]) /\ KeyOf[w] \in Keys
    BY <2>1, Zenon DEF WaitersOf, TurnInv, HolderInv, Tracked, Waits
  <2>3. waiting[KeyOf[w]] > 0
    BY <1>0, <2>2, WaitersFinite, FS_EmptySet, FS_CardinalityType DEF CountInv
  <2>4. waiting' = [waiting EXCEPT ![KeyOf[w]] = @ - 1]
    BY <1>0, <1>4, <2>2, <2>3, Zenon DEF CancelWaiter
  <2> QED BY <2>1, <2>4, OneWaiterLess, Zenon
<1>5. ASSUME NEW w \in Ingesters, NEW committed \in BOOLEAN, Release(w, committed) PROVE CountInv'
  BY <1>0, <1>5, SameWaiters, Zenon DEF Release, Signalled, Waits
<1>6. CASE UNCHANGED turnVars
  BY <1>0, <1>6, SameWaiters, Zenon DEF turnVars, Waits
<1> QED BY <1>1, <1>2, <1>3, <1>4, <1>5, <1>6, Zenon DEF TurnNext

\* Both parts of the invariant hold throughout.
LEMMA TurnInvariant == TurnSpec => []TurnInv
<1>1. TurnInv /\ [TurnNext]_turnVars => TurnInv'
  BY HolderSteps, CountSteps, Zenon DEF TurnInv
<1> QED BY TurnStarts, <1>1, PTL DEF TurnSpec

\* At most one ingester of a tracked chain is between Acquire and release, and
\* active names it, whatever waits, deadlines and cancellations interleave.
THEOREM OneHolderAlways == TurnSpec => []OneHolder
<1>1. TurnInv => OneHolder
  BY Zenon DEF TurnInv, HolderInv
<1> QED BY TurnInvariant, <1>1, PTL

\* Nobody takes the turn before a waiting ingester of the chain whose turn it
\* is: canAcquireLocked relies on waiting, which counts exactly the waiters.
THEOREM PreferredFirstAlways == TurnSpec => PreferredFirst
<1> DEFINE Overtakes ==
      \E w \in Ingesters : /\ turn[w] # "holding" /\ turn'[w] = "holding" /\ KeyOf[w] # Preferred
                           /\ \E v \in Ingesters : Waits(v) /\ KeyOf[v] = Preferred
<1>1. TurnInv /\ [TurnNext]_turnVars => ~Overtakes \/ UNCHANGED turnVars
  <2> SUFFICES ASSUME TurnInv, TurnNext,
                      NEW w \in Ingesters, turn[w] # "holding", turn'[w] = "holding", KeyOf[w] # Preferred,
                      NEW v \in Ingesters, Waits(v), KeyOf[v] = Preferred
               PROVE  FALSE
    BY Zenon
  <2>0. turn \in [Ingesters -> {"idle", "checking", "asleep", "holding", "bypass"}]
    BY Zenon DEF TurnInv, HolderInv, TurnTypeOK
  <2>1. canAcquireLocked(w)
    <3>1. PICK u \in Ingesters :
            \/ Acquire(u) \/ TakeTurn(u) \/ FallAsleep(u)
            \/ DeadlinePasses(u) \/ TimerFires(u) \/ CancelWaiter(u)
            \/ \E committed \in BOOLEAN : Release(u, committed)
            \/ BypassEnds(u)
      BY Zenon DEF TurnNext
    <3>2. CASE TakeTurn(u)
      BY <2>0, <3>2, Zenon DEF TakeTurn
    <3>3. CASE ~TakeTurn(u)
      BY <2>0, <3>1, <3>3, Zenon DEF Acquire, FallAsleep, DeadlinePasses, TimerFires, CancelWaiter,
                              Release, BypassEnds, Signalled
    <3> QED BY <3>2, <3>3, Zenon
  <2>2. waiting[Preferred] = 0
    BY <2>1, Zenon DEF canAcquireLocked
  <2>3. Preferred \in Keys /\ v \in WaitersOf(Preferred)
    BY Zenon DEF TurnInv, HolderInv, Waits, Tracked, WaitersOf
  <2> QED BY <2>2, <2>3, WaitersFinite, FS_EmptySet, Zenon DEF TurnInv, CountInv
<1>2. ~Overtakes => \A w \in Ingesters : turn[w] # "holding" /\ turn'[w] = "holding" /\ KeyOf[w] # Preferred
          => ~\E v \in Ingesters : Waits(v) /\ KeyOf[v] = Preferred
  BY Zenon
<1> QED BY TurnInvariant, <1>1, <1>2, PTL DEF TurnSpec, PreferredFirst

(***************************************************************************)
(* CircuitBreaker: its counters meet its state.                            *)
(***************************************************************************)
BreakerTypeOK ==
    /\ state \in {"closed", "open", "half-open"}
    /\ failureCount \in Nat /\ successCount \in Nat /\ probes \in Nat

\* CountsMeetState is inductive once the counts are numbers: RecordFailure
\* trips a closed breaker at the threshold and clears the successes, a success
\* clears the failures and closes a half-open breaker at its threshold.
BreakerInv == BreakerTypeOK /\ CountsMeetState

\* A new breaker meets the invariant.
LEMMA BreakerStarts == BreakerInit => BreakerInv
  BY BreakerConstants DEF BreakerInit, BreakerInv, BreakerTypeOK, CountsMeetState

\* BreakerInv is inductive, also when an outcome is recorded in a later state
\* than its call began in.
LEMMA BreakerSteps == BreakerInv /\ [BreakerNext]_breakerVars => BreakerInv'
<1> SUFFICES ASSUME BreakerInv, [BreakerNext]_breakerVars PROVE BreakerInv'
  OBVIOUS
<1> USE BreakerConstants DEF BreakerInv, BreakerTypeOK, CountsMeetState
<1>1. ASSUME NEW c \in Callers, Allow(c) PROVE BreakerInv'
  BY <1>1 DEF Allow
<1>2. ASSUME NEW c \in Callers, RecordSuccess(c) PROVE BreakerInv'
  <2>1. CASE Closes
    BY <1>2, <2>1 DEF RecordSuccess, Closes
  <2>2. CASE ~Closes
    BY <1>2, <2>2 DEF RecordSuccess, Closes
  <2> QED BY <2>1, <2>2, Zenon
<1>3. ASSUME NEW c \in Callers, RecordFailure(c) PROVE BreakerInv'
  <2>1. CASE Trips
    BY <1>3, <2>1 DEF RecordFailure, Trips
  <2>2. CASE ~Trips
    BY <1>3, <2>2 DEF RecordFailure, Trips
  <2> QED BY <2>1, <2>2
<1>4. CASE \/ \E c \in Callers : CallEnds(c)
           \/ TimeoutPasses \/ BackendChanges
           \/ UNCHANGED breakerVars
  BY <1>4, Zenon DEF CallEnds, TimeoutPasses, BackendChanges, breakerVars
<1> QED BY <1>1, <1>2, <1>3, <1>4, Zenon DEF BreakerNext

\* In every run a closed breaker has seen fewer than FailureThreshold failures
\* in a row, a half-open one has counted exactly the successes recorded since
\* it became so, and no other state keeps successes (setState, RecordSuccess,
\* RecordFailure).
THEOREM BreakerCountsAlways == BreakerSpec => []CountsMeetState
<1>1. BreakerInv => CountsMeetState
  BY Zenon DEF BreakerInv
<1> QED BY BreakerStarts, BreakerSteps, <1>1, PTL DEF BreakerSpec

(***************************************************************************)
(* SignalWindow: ring buffers, rates and percentiles.                      *)
(***************************************************************************)
\* Among n samples the index p95Ms computes with integer division is within
\* the samples and is the least that covers 95% of them.
THEOREM RankNearest == ASSUME NEW n \in Nat \ {0} PROVE RankIsNearest(n)
<1> DEFINE q == (n * 95 + 99) \div 100
<1>1. q \in Int /\ 100 * q <= n * 95 + 99 /\ n * 95 + 99 < 100 * q + 100
  OBVIOUS
<1>2. RankOf(n) = IF q > n THEN n ELSE q
  BY Zenon DEF RankOf
<1> HIDE DEF q
<1> QED
  BY <1>1, <1>2 DEF RankIsNearest
-----------------------------------------------------------------------------
(* The running count of rpcErrorRateSeries *)

RingSlots == 0..WindowSize - 1
Errors(samples) == {i \in RingSlots : samples[i] = 1}

\* The ring fills from slot 0 on, and errorCount counts the errors in it.
RingInv ==
    /\ rpc = [samples |-> rpc.samples, nextIndex |-> rpc.nextIndex,
              sampleCount |-> rpc.sampleCount, errorCount |-> rpc.errorCount]
    /\ rpc.samples \in [RingSlots -> {0, 1}]
    /\ rpc.nextIndex \in RingSlots
    /\ rpc.sampleCount \in 0..WindowSize
    /\ rpc.sampleCount < WindowSize =>
          /\ rpc.nextIndex = rpc.sampleCount
          /\ \A i \in RingSlots : i >= rpc.sampleCount => rpc.samples[i] = 0
    /\ rpc.errorCount = Cardinality(Errors(rpc.samples))

\* The ring has WindowSize slots.
LEMMA RingFinite == IsFiniteSet(RingSlots) /\ Cardinality(RingSlots) = WindowSize
BY WindowConstants, FS_Interval DEF RingSlots

\* Overwriting one slot changes the number of errors by that slot alone.
LEMMA OverwriteCounts ==
    ASSUME NEW samples \in [RingSlots -> {0, 1}], NEW i \in RingSlots, NEW bit \in {0, 1}
    PROVE  LET kept == Cardinality(Errors(samples)) - samples[i]
           IN  kept \in Nat /\ Cardinality(Errors([samples EXCEPT ![i] = bit])) = kept + bit
<1> DEFINE new == [samples EXCEPT ![i] = bit]
           rest == Errors(samples) \ {i}
<1>1. IsFiniteSet(Errors(samples)) /\ IsFiniteSet(rest)
  BY RingFinite, FS_Subset, Zenon DEF Errors
<1>2. Cardinality(rest) = Cardinality(Errors(samples)) - samples[i] /\ Cardinality(rest) \in Nat
  <2>1. CASE samples[i] = 1
    <3>1. i \in Errors(samples)
      BY <2>1, Zenon DEF Errors
    <3> QED
      BY <1>1, <2>1, <3>1, FS_RemoveElement, FS_CardinalityType, Zenon
  <2>2. CASE samples[i] = 0
    <3>1. rest = Errors(samples)
      BY <2>2 DEF Errors
    <3>2. Cardinality(rest) = Cardinality(Errors(samples)) /\ Cardinality(rest) \in Nat
      BY <1>1, <3>1, FS_CardinalityType, Zenon
    <3> HIDE DEF rest
    <3> QED
      BY <2>2, <3>2
  <2> QED
    BY <2>1, <2>2, Zenon
<1>3. Cardinality(Errors(new)) = Cardinality(rest) + bit
  <2>1. CASE bit = 1
    <3>1. Errors(new) = rest \cup {i} /\ i \notin rest
      BY <2>1, Zenon DEF Errors
    <3> QED
      BY <1>1, <2>1, <3>1, FS_AddElement, Zenon
  <2>2. CASE bit = 0
    <3>1. Errors(new) = rest
      BY <2>2 DEF Errors
    <3>2. Cardinality(Errors(new)) = Cardinality(rest)
      BY <3>1, Zenon
    <3> HIDE DEF rest, new
    <3> QED
      BY <1>2, <2>2, <3>2
  <2> QED
    BY <2>1, <2>2, Zenon
<1> QED
  BY <1>2, <1>3, Zenon

\* An empty ring meets the invariant.
LEMMA RingInit == WindowInit => RingInv
<1> SUFFICES ASSUME WindowInit PROVE RingInv
  OBVIOUS
<1>1. rpc = [samples |-> Ring, nextIndex |-> 0, sampleCount |-> 0, errorCount |-> 0]
  BY Zenon DEF WindowInit
<1>2. Ring \in [RingSlots -> {0, 1}] /\ \A i \in RingSlots : Ring[i] = 0
  BY Zenon DEF Ring, RingSlots
<1>3. Errors(Ring) = {}
  BY <1>2 DEF Errors
<1>4. Cardinality(Errors(Ring)) = 0
  BY <1>3, FS_EmptySet, Zenon
<1> QED
  BY <1>1, <1>2, <1>4, WindowConstants DEF RingInv, RingSlots

\* RingInv is inductive: a full ring forgets exactly the outcome it overwrites.
LEMMA RingNext == RingInv /\ [WindowNext]_windowVars => RingInv'
<1> SUFFICES ASSUME RingInv, [WindowNext]_windowVars PROVE RingInv'
  OBVIOUS
<1>1. ASSUME NEW bit \in {0, 1}, RecordRPCResult(bit) PROVE RingInv'
  <2> DEFINE i == rpc.nextIndex
             old == rpc.samples[i]
             new == [rpc.samples EXCEPT ![i] = bit]
             kept == IF rpc.sampleCount >= WindowSize /\ old = 1 THEN rpc.errorCount - 1 ELSE rpc.errorCount
  <2>1. rpc' = [samples |-> new, nextIndex |-> Following(i),
                sampleCount |-> Grown(rpc.sampleCount), errorCount |-> kept + bit]
    BY <1>1, Zenon DEF RecordRPCResult, Record
  <2>2. rpc.samples \in [RingSlots -> {0, 1}] /\ i \in RingSlots /\ old \in {0, 1}
    BY Zenon DEF RingInv
  <2>3. rpc.sampleCount < WindowSize => old = 0
    BY <2>2 DEF RingInv
  <2>4. kept = Cardinality(Errors(rpc.samples)) - old
    <3>1. rpc.errorCount = Cardinality(Errors(rpc.samples)) /\ rpc.errorCount \in Nat
      BY RingFinite, FS_Subset, FS_CardinalityType DEF RingInv, Errors
    <3> QED
      BY <2>2, <2>3, <3>1, WindowConstants DEF RingInv
  <2>5. kept + bit = Cardinality(Errors(new))
    BY <2>2, <2>4, OverwriteCounts, Zenon
  <2>6. new \in [RingSlots -> {0, 1}]
    BY <2>2, Zenon
  <2>7. Following(i) \in RingSlots /\ Grown(rpc.sampleCount) \in 0..WindowSize
    BY <2>2, WindowConstants DEF Following, Grown, RingSlots, RingInv
  <2>8. Grown(rpc.sampleCount) < WindowSize =>
            /\ Following(i) = Grown(rpc.sampleCount)
            /\ \A j \in RingSlots : j >= Grown(rpc.sampleCount) => new[j] = 0
    BY <2>2, WindowConstants DEF Following, Grown, RingSlots, RingInv
  <2> HIDE DEF new, kept
  <2> QED
    BY <2>1, <2>5, <2>6, <2>7, <2>8, Zenon DEF RingInv
<1>2. CASE UNCHANGED rpc
  BY <1>2, Zenon DEF RingInv
<1> QED
  BY <1>1, <1>2, Zenon DEF WindowNext, RecordDBCommitLatencyMs, SnapshotReads, SnapshotReturns, windowVars

\* However often the ring has wrapped, errorCount is the number of errors in it
\* and at most sampleCount, so errorRateBps answers a rate of at most 100%.
CountMatchesRing ==
    /\ rpc.errorCount = Cardinality(Errors(rpc.samples))
    /\ rpc.errorCount \in 0..rpc.sampleCount

\* record keeps the running count and the ring together for every window size.
THEOREM CountMatchesRingAlways == WindowSpec => []CountMatchesRing
<1>1. RingInv => CountMatchesRing
  <2> SUFFICES ASSUME RingInv PROVE CountMatchesRing
    OBVIOUS
  <2> DEFINE n == rpc.sampleCount
  <2>1. n \in Nat /\ n - 1 \in Int
    BY WindowConstants DEF RingInv
  <2>2. Errors(rpc.samples) \subseteq 0..n - 1
    BY WindowConstants DEF Errors, RingSlots, RingInv
  <2>3. IsFiniteSet(0..n - 1) /\ Cardinality(0..n - 1) = n
    <3> HIDE DEF n
    <3> QED
      BY <2>1, FS_Interval
  <2> QED
    BY <2>1, <2>2, <2>3, FS_Subset, FS_CardinalityType DEF RingInv, CountMatchesRing
<1> QED
  BY <1>1, RingInit, RingNext, PTL DEF WindowSpec

\* The insertion step of sorting: the sample m + 1 finds its place in an order of
\* the first m.
LEMMA OrderGrows ==
    ASSUME NEW m \in Nat, NEW samples, \A k \in 1..m + 1 : samples[k - 1] \in Int,
           NEW p \in Orders(m), Sorts(p, samples, m)
    PROVE  \E q \in Orders(m + 1) : Sorts(q, samples, m + 1)
<1> DEFINE x == samples[m]
           val == [i \in 1..m |-> samples[p[i] - 1]]
           K == {k \in 1..m + 1 : \A i \in 1..m : i >= k => x < val[i]}
<1>1. p \in [1..m -> 1..m] /\ \A k \in 1..m : \E i \in 1..m : p[i] = k
  BY Zenon DEF Orders
<1>2. x \in Int /\ val \in [1..m -> Int] /\ \A i \in 1..m : val[i] = samples[p[i] - 1]
  <2>1. (m + 1) - 1 = m /\ m + 1 \in 1..m + 1
    OBVIOUS
  <2>2. x \in Int
    BY <2>1, Zenon
  <2>3. \A i \in 1..m : p[i] \in 1..m + 1
    BY <1>1
  <2> QED
    BY <2>2, <2>3, Zenon
<1>3. \A i, j \in 1..m : i < j => val[i] <= val[j]
  BY Zenon DEF Sorts
<1>4. m + 1 \in K /\ K \in SUBSET Nat
  OBVIOUS
<1>5. PICK k \in K : \A j \in K : k <= j
  <2> HIDE DEF K
  <2> QED
    BY <1>4, LeastOf, Zenon
<1>6. k \in 1..m + 1 /\ \A i \in 1..m : i >= k => x < val[i]
  BY Zenon
<1>7. \A i \in 1..m : i < k => val[i] <= x
  <2> SUFFICES ASSUME NEW i \in 1..m, i < k PROVE val[i] <= x
    BY Zenon
  <2>1. k - 1 \in 1..m /\ k - 1 \notin K /\ i <= k - 1
    <3>1. k - 1 \in 1..m /\ ~(k <= k - 1)
      BY <1>6
    <3> QED
      BY <1>5, <1>6, <3>1
  <2>2. PICK h \in 1..m : h >= k - 1 /\ ~(x < val[h])
    BY <2>1
  <2>3. h = k - 1
    BY <1>6, <2>2
  <2>4. val[i] <= val[h]
    BY <1>2, <1>3, <2>1, <2>3
  <2> QED
    BY <1>2, <2>2, <2>4
<1> DEFINE q == [i \in 1..m + 1 |-> IF i < k THEN p[i] ELSE IF i = k THEN m + 1 ELSE p[i - 1]]
<1> HIDE DEF val, K, x
<1>8. \A i \in 1..m + 1 : /\ i < k => i \in 1..m /\ q[i] = p[i]
                          /\ i = k => q[i] = m + 1
                          /\ i > k => i - 1 \in 1..m /\ q[i] = p[i - 1]
  BY <1>6
<1>9. q \in Orders(m + 1)
  <2>1. q \in [1..m + 1 -> 1..m + 1]
    <3>1. \A i \in 1..m : p[i] \in 1..m + 1
      BY <1>1
    <3>2. \A i \in 1..m + 1 : q[i] \in 1..m + 1
      BY <1>6, <1>8, <3>1
    <3> QED
      BY <3>2, Zenon
  <2>2. \A v \in 1..m + 1 : \E i \in 1..m + 1 : q[i] = v
    <3> SUFFICES ASSUME NEW v \in 1..m + 1 PROVE \E i \in 1..m + 1 : q[i] = v
      BY Zenon
    <3>1. CASE v = m + 1
      BY <1>6, <1>8, <3>1, Zenon
    <3>2. CASE v \in 1..m
      <4>1. PICK i \in 1..m : p[i] = v
        BY <1>1, <3>2, Zenon
      <4>2. i < k => i \in 1..m + 1 /\ q[i] = v
        BY <1>8, <4>1
      <4>3. ~(i < k) => i + 1 \in 1..m + 1 /\ q[i + 1] = v
        <5> SUFFICES ASSUME ~(i < k) PROVE i + 1 \in 1..m + 1 /\ q[i + 1] = v
          BY Zenon
        <5>1. i + 1 \in 1..m + 1 /\ i + 1 > k /\ (i + 1) - 1 = i
          BY <1>6
        <5> QED
          BY <1>8, <4>1, <5>1, Zenon
      <4> QED
        BY <4>2, <4>3, Zenon
    <3> QED
      BY <3>1, <3>2
  <2> QED
    BY <2>1, <2>2, Zenon DEF Orders
<1>10. Sorts(q, samples, m + 1)
  <2> DEFINE new(i) == samples[q[i] - 1]
  <2>1. \A i \in 1..m + 1 : /\ i < k => i \in 1..m /\ new(i) = val[i]
                            /\ i = k => new(i) = x
                            /\ i > k => i - 1 \in 1..m /\ new(i) = val[i - 1]
    <3> SUFFICES ASSUME NEW i \in 1..m + 1
                 PROVE /\ i < k => i \in 1..m /\ new(i) = val[i]
                       /\ i = k => new(i) = x
                       /\ i > k => i - 1 \in 1..m /\ new(i) = val[i - 1]
      BY Zenon
    <3>1. ASSUME i < k PROVE i \in 1..m /\ new(i) = val[i]
      BY <1>2, <1>8, <3>1, Zenon
    <3>2. ASSUME i = k PROVE new(i) = x
      <4>1. q[i] - 1 = m
        BY <1>8, <3>2
      <4> QED
        BY <4>1, Zenon DEF x
    <3>3. ASSUME i > k PROVE i - 1 \in 1..m /\ new(i) = val[i - 1]
      BY <1>2, <1>8, <3>3
    <3> QED
      BY <3>1, <3>2, <3>3, Zenon
  <2> HIDE DEF new
  <2>2. ASSUME NEW i \in 1..m + 1, NEW j \in 1..m + 1, i < j PROVE new(i) <= new(j)
    <3>1. CASE j < k
      <4>1. i < k /\ i \in 1..m /\ j \in 1..m
        BY <1>6, <2>1, <2>2, <3>1
      <4> QED
        BY <1>3, <2>1, <2>2, <3>1, <4>1, Zenon
    <3>2. CASE j = k
      BY <1>7, <2>1, <2>2, <3>2, Zenon
    <3>3. CASE j > k /\ i < k
      <4>1. i < j - 1 /\ j - 1 \in 1..m /\ i \in 1..m
        BY <1>6, <2>1, <3>3
      <4> QED
        BY <1>3, <2>1, <3>3, <4>1, Zenon
    <3>4. CASE j > k /\ i = k
      <4>1. j - 1 \in 1..m /\ j - 1 >= k
        BY <1>6, <2>1, <3>4
      <4>2. x < val[j - 1]
        BY <1>6, <4>1, Zenon
      <4> QED
        BY <1>2, <2>1, <3>4, <4>1, <4>2
    <3>5. CASE i > k
      <4>1. i - 1 \in 1..m /\ j - 1 \in 1..m /\ i - 1 < j - 1 /\ j > k
        BY <1>6, <2>1, <2>2, <3>5
      <4> QED
        BY <1>3, <2>1, <3>5, <4>1, Zenon
    <3> QED
      BY <1>6, <2>2, <3>1, <3>2, <3>3, <3>4, <3>5
  <2> QED
    BY <2>2, Zenon DEF Sorts, new
<1> QED
  BY <1>9, <1>10, Zenon

\* The samples have a sorted order, so that SortedOrder chooses one.
LEMMA OrderExists ==
    ASSUME NEW n \in Nat, NEW samples, \A k \in 1..n : samples[k - 1] \in Int
    PROVE  SortedOrder(samples, n) \in Orders(n) /\ Sorts(SortedOrder(samples, n), samples, n)
<1> DEFINE Sortable(m) == \E p \in Orders(m) : Sorts(p, samples, m)
           N == {m \in Nat : m <= n => Sortable(m)}
<1>1. 0 \in N
  <2>1. \A p : p \in [1..0 -> 1..0] => p \in Orders(0) /\ Sorts(p, samples, 0)
    BY DEF Orders, Sorts
  <2>2. [i \in 1..0 |-> i] \in [1..0 -> 1..0]
    BY Zenon
  <2> QED
    BY <2>1, <2>2, Zenon
<1>2. \A m \in N : m + 1 \in N
  <2> SUFFICES ASSUME NEW m \in Nat, m <= n => Sortable(m), m + 1 <= n PROVE Sortable(m + 1)
    OBVIOUS
  <2>1. Sortable(m) /\ \A k \in 1..m + 1 : samples[k - 1] \in Int
    OBVIOUS
  <2> QED
    BY <2>1, OrderGrows, Zenon
<1>3. N = Nat
  <2>1. N \in SUBSET Nat
    BY Zenon
  <2> HIDE DEF N
  <2> QED
    BY <1>1, <1>2, <2>1, NatSet, Zenon
<1>4. Sortable(n)
  BY <1>3
<1> QED
  BY <1>4, Zenon DEF SortedOrder

\* The samples that do not exceed u.
Below(samples, n, u) == {j \in 0..n - 1 : samples[j] <= u}

\* The sample at place r of a sorted order has r samples that do not exceed it,
\* and every lesser value has fewer.
LEMMA RankSplits ==
    ASSUME NEW n \in Nat, NEW samples, \A j \in 0..n - 1 : samples[j] \in Int,
           NEW p \in Orders(n), Sorts(p, samples, n), NEW r \in 1..n
    PROVE  LET v == samples[p[r] - 1]
           IN  /\ p[r] - 1 \in 0..n - 1
               /\ \A u \in Int : Cardinality(Below(samples, n, u)) \in Nat
               /\ Cardinality(Below(samples, n, v)) >= r
               /\ \A u \in Int : u < v => Cardinality(Below(samples, n, u)) <= r - 1
<1> DEFINE v == samples[p[r] - 1]
<1>1. p \in [1..n -> 1..n] /\ \A k \in 1..n : \E i \in 1..n : p[i] = k
  BY Zenon DEF Orders
<1>2. p \in Injection(1..n, 1..n)
  <2>1. p \in Surjection(1..n, 1..n)
    BY <1>1, Zenon DEF Surjection
  <2>2. IsFiniteSet(1..n)
    BY FS_Interval
  <2> QED
    BY <2>1, <2>2, FS_SurjSameCardinalityImpliesInj, Zenon
<1>3. \A i, j \in 1..n : p[i] = p[j] => i = j
  BY <1>1, <1>2, Zenon DEF Injection, IsInjective
<1>4. \A i \in 1..n : p[i] \in 1..n /\ p[i] - 1 \in 0..n - 1 /\ samples[p[i] - 1] \in Int
  <2>1. \A k \in 1..n : k - 1 \in 0..n - 1
    OBVIOUS
  <2> QED
    BY <1>1, <2>1, Zenon
<1>5. \A i, j \in 1..n : i <= j => samples[p[i] - 1] <= samples[p[j] - 1]
  <2> SUFFICES ASSUME NEW i \in 1..n, NEW j \in 1..n, i <= j
               PROVE  samples[p[i] - 1] <= samples[p[j] - 1]
    BY Zenon
  <2>1. CASE i = j
    BY <1>4, <2>1
  <2>2. CASE i < j
    BY <2>2, Zenon DEF Sorts
  <2> QED
    BY <2>1, <2>2
<1>6. \A u \in Int : IsFiniteSet(Below(samples, n, u)) /\ Cardinality(Below(samples, n, u)) \in Nat
  <2>1. IsFiniteSet(0..n - 1)
    BY FS_Interval
  <2> QED
    BY <2>1, FS_Subset, FS_CardinalityType, Zenon DEF Below
<1>7. Cardinality(Below(samples, n, v)) >= r
  <2> DEFINE f == [i \in 1..r |-> p[i] - 1]
  <2>1. f \in Injection(1..r, Below(samples, n, v))
    <3>1. \A i \in 1..r : f[i] \in Below(samples, n, v)
      BY <1>4, <1>5 DEF Below
    <3>2. \A i, j \in 1..r : f[i] = f[j] => i = j
      <4> SUFFICES ASSUME NEW i \in 1..r, NEW j \in 1..r, f[i] = f[j] PROVE i = j
        BY Zenon
      <4>1. i \in 1..n /\ j \in 1..n /\ p[i] = p[j]
        <5>1. i \in 1..n /\ j \in 1..n
          OBVIOUS
        <5>2. p[i] - 1 = p[j] - 1
          BY Zenon
        <5>3. p[i] \in 1..n /\ p[j] \in 1..n
          BY <1>4, <5>1, Zenon
        <5> HIDE DEF f
        <5> QED BY <5>1, <5>2, <5>3
      <4> QED
        BY <1>3, <4>1, Zenon
    <3> QED
      BY <3>1, <3>2, Zenon DEF Injection, IsInjective
  <2>2. Cardinality(1..r) = r
    BY FS_Interval
  <2>3. Cardinality(1..r) <= Cardinality(Below(samples, n, v))
    <3>1. IsFiniteSet(Below(samples, n, v))
      BY <1>4, <1>6, Zenon
    <3> HIDE DEF f, v
    <3> QED
      BY <2>1, <3>1, FS_Injection, Zenon
  <2> QED
    BY <1>4, <1>6, <2>2, <2>3, Zenon
<1>8. ASSUME NEW u \in Int, u < v PROVE Cardinality(Below(samples, n, u)) <= r - 1
  <2> DEFINE I == {p[i] - 1 : i \in 1..r - 1}
             f == [i \in 1..r - 1 |-> p[i] - 1]
  <2>1. f \in Surjection(1..r - 1, I)
    BY Zenon DEF Surjection
  <2>2. IsFiniteSet(1..r - 1) /\ Cardinality(1..r - 1) = r - 1
    <3>1. r - 1 \in Int /\ 1 \in Int /\ (r - 1) - 1 + 1 = r - 1 /\ r - 1 >= 0
      OBVIOUS
    <3>2. Cardinality(1..r - 1) = IF 1 > r - 1 THEN 0 ELSE (r - 1) - 1 + 1
      BY <3>1, FS_Interval, Zenon
    <3> QED
      BY <3>1, <3>2, FS_Interval
  <2>3. IsFiniteSet(I) /\ Cardinality(I) <= r - 1
    <3>1. IsFiniteSet(I) /\ Cardinality(I) <= Cardinality(1..r - 1)
      <4> HIDE DEF f, I
      <4> QED
        BY <2>1, <2>2, FS_Surjection, Zenon
    <3> QED
      BY <2>2, <3>1, Zenon
  <2>4. Below(samples, n, u) \subseteq I
    <3> SUFFICES ASSUME NEW j \in 0..n - 1, samples[j] <= u PROVE j \in I
      BY Zenon DEF Below
    <3>1. PICK i \in 1..n : p[i] = j + 1
      BY <1>1
    <3>2. p[i] - 1 = j
      BY <3>1
    <3>3. ~(r <= i)
      BY <1>4, <1>5, <1>8, <3>2
    <3> QED
      BY <3>2, <3>3
  <2>5. Cardinality(Below(samples, n, u)) <= Cardinality(I) /\ Cardinality(I) \in Nat
    BY <2>3, <2>4, FS_Subset, FS_CardinalityType, Zenon
  <2> QED
    BY <1>6, <2>3, <2>5
<1> QED
  BY <1>4, <1>6, <1>7, <1>8, Zenon
-----------------------------------------------------------------------------
\* The slot that holds the i-th of the last samples: a ring that is not full has
\* them from slot 0 on, a full one from nextIndex on.
SlotOf(i, slot, count) ==
    IF count < WindowSize THEN i - 1
    ELSE IF slot + i <= WindowSize THEN slot + i - 1 ELSE slot + i - 1 - WindowSize

\* A ring and the last samples of its series, oldest first.
Windowed(samples, slot, count, last) ==
    /\ DOMAIN samples = 0..WindowSize - 1
    /\ slot \in 0..WindowSize - 1 /\ count \in 0..WindowSize
    /\ count < WindowSize => slot = count
    /\ last \in Seq(Nat) /\ Len(last) = count
    /\ \A i \in 1..count : last[i] = samples[SlotOf(i, slot, count)]

\* SlotOf goes through the filled slots once.
LEMMA SlotOfBijective ==
    ASSUME NEW slot \in 0..WindowSize - 1, NEW count \in 0..WindowSize,
           count < WindowSize => slot = count
    PROVE  /\ \A i \in 1..count : SlotOf(i, slot, count) \in 0..count - 1
           /\ \A i, j \in 1..count : SlotOf(i, slot, count) = SlotOf(j, slot, count) => i = j
           /\ \A k \in 0..count - 1 : \E i \in 1..count : SlotOf(i, slot, count) = k
<1>0. WindowSize \in Nat /\ count \in Nat /\ slot \in Nat
  BY WindowConstants
<1>1. CASE count < WindowSize
  <2>1. \A i : SlotOf(i, slot, count) = i - 1
    BY <1>1, Zenon DEF SlotOf
  <2>2. \A k \in 0..count - 1 : k + 1 \in 1..count /\ (k + 1) - 1 = k
    BY <1>0
  <2>3. \A i \in 1..count : i - 1 \in 0..count - 1
    BY <1>0
  <2>4. \A i, j \in 1..count : i - 1 = j - 1 => i = j
    BY <1>0
  <2> QED
    <3>1. \A i \in 1..count : SlotOf(i, slot, count) \in 0..count - 1
      BY <2>1, <2>3, Zenon
    <3>2. \A i, j \in 1..count : SlotOf(i, slot, count) = SlotOf(j, slot, count) => i = j
      BY <2>1, <2>4, Zenon
    <3>3. \A k \in 0..count - 1 : \E i \in 1..count : SlotOf(i, slot, count) = k
      BY <2>1, <2>2, Zenon
    <3> QED
      BY <3>1, <3>2, <3>3, Zenon
<1>2. CASE count = WindowSize
  <2>1. \A i : SlotOf(i, slot, count) = IF slot + i <= WindowSize THEN slot + i - 1
                                        ELSE slot + i - 1 - WindowSize
    BY <1>0, <1>2 DEF SlotOf
  <2>2. \A i \in 1..count : SlotOf(i, slot, count) \in 0..count - 1
    BY <1>0, <1>2, <2>1
  <2>3. \A i, j \in 1..count : SlotOf(i, slot, count) = SlotOf(j, slot, count) => i = j
    BY <1>0, <1>2, <2>1
  <2>4. ASSUME NEW k \in 0..count - 1 PROVE \E i \in 1..count : SlotOf(i, slot, count) = k
    <3>1. CASE k >= slot
      <4>1. k - slot + 1 \in 1..count /\ slot + (k - slot + 1) <= WindowSize
            /\ slot + (k - slot + 1) - 1 = k
        BY <1>0, <1>2, <3>1
      <4> QED
        BY <2>1, <4>1, Zenon
    <3>2. CASE k < slot
      <4>1. /\ k - slot + 1 + WindowSize \in 1..count
            /\ ~(slot + (k - slot + 1 + WindowSize) <= WindowSize)
            /\ slot + (k - slot + 1 + WindowSize) - 1 - WindowSize = k
        BY <1>0, <1>2, <3>2
      <4> QED
        BY <2>1, <4>1, Zenon
    <3> QED
      BY <1>0, <3>1, <3>2
  <2> QED
    BY <2>2, <2>3, <2>4, Zenon
<1> QED
  BY <1>0, <1>1, <1>2

CountInSeries(last, V) == Cardinality({i \in DOMAIN last : last[i] \in V})
CountInRing(samples, count, V) == Cardinality({j \in 0..count - 1 : samples[j] \in V})

\* The ring has as many samples of a kind as the series it stands for.
LEMMA CountsAgree ==
    ASSUME NEW samples, NEW slot, NEW count, NEW last, Windowed(samples, slot, count, last), NEW V
    PROVE  CountInSeries(last, V) = CountInRing(samples, count, V)
<1> DEFINE A == {i \in DOMAIN last : last[i] \in V}
           B == {j \in 0..count - 1 : samples[j] \in V}
           f == [i \in A |-> SlotOf(i, slot, count)]
<1>1. /\ DOMAIN last = 1..count /\ count \in Nat
      /\ \A i \in 1..count : last[i] = samples[SlotOf(i, slot, count)]
      /\ \A i \in 1..count : SlotOf(i, slot, count) \in 0..count - 1
      /\ \A i, j \in 1..count : SlotOf(i, slot, count) = SlotOf(j, slot, count) => i = j
      /\ \A k \in 0..count - 1 : \E i \in 1..count : SlotOf(i, slot, count) = k
  <2>1. /\ slot \in 0..WindowSize - 1 /\ count \in 0..WindowSize
        /\ count < WindowSize => slot = count
        /\ DOMAIN last = 1..count /\ count \in Nat
    BY WindowConstants DEF Windowed
  <2>2. \A i \in 1..count : last[i] = samples[SlotOf(i, slot, count)]
    BY Zenon DEF Windowed
  <2> QED
    BY <2>1, <2>2, SlotOfBijective, Zenon
<1>2. IsFiniteSet(A)
  BY <1>1, FS_Interval, FS_Subset
<1>3. f \in [A -> B]
  BY <1>1, Zenon
<1>4. \A i, j \in A : f[i] = f[j] => i = j
  BY <1>1, Zenon
<1>5. \A k \in B : \E i \in A : f[i] = k
  BY <1>1, Zenon
<1>6. f \in Bijection(A, B)
  <2>1. DOMAIN f = A
    BY Zenon
  <2> HIDE DEF A, B, f
  <2> QED
    BY <1>3, <1>4, <1>5, <2>1, Zenon DEF Bijection, Injection, Surjection, IsInjective
<1> HIDE DEF A, B, f
<1>7. ExistsBijection(A, B)
  BY <1>6, Zenon DEF ExistsBijection
<1>8. Cardinality(A) = Cardinality(B)
  BY <1>2, <1>7, FS_Bijection, Zenon
<1> QED
  BY <1>8, Zenon DEF A, B, CountInSeries, CountInRing

\* Recording a sample overwrites the oldest one of a full ring.
LEMMA WindowGrows ==
    ASSUME NEW samples, NEW slot, NEW count, NEW last, Windowed(samples, slot, count, last),
           NEW x \in Nat
    PROVE  Windowed([samples EXCEPT ![slot] = x], Following(slot), Grown(count),
                    LastOf(Append(last, x)))
<1> DEFINE new == [samples EXCEPT ![slot] = x]
<1>0. /\ WindowSize \in Nat \ {0} /\ count \in Nat /\ slot \in Nat
      /\ slot \in 0..WindowSize - 1 /\ count \in 0..WindowSize
      /\ count < WindowSize => slot = count
  BY WindowConstants DEF Windowed
<1>1. /\ DOMAIN samples = 0..WindowSize - 1 /\ last \in Seq(Nat) /\ Len(last) = count
      /\ \A i \in 1..count : last[i] = samples[SlotOf(i, slot, count)]
  BY Zenon DEF Windowed
<1>2. /\ DOMAIN new = 0..WindowSize - 1 /\ new[slot] = x
      /\ \A k \in 0..WindowSize - 1 : k # slot => new[k] = samples[k]
  BY <1>0, <1>1, Zenon
<1>3. Following(slot) = IF slot = WindowSize - 1 THEN 0 ELSE slot + 1
  BY <1>0 DEF Following
<1> HIDE DEF new
<1>4. /\ Append(last, x) \in Seq(Nat) /\ Len(Append(last, x)) = count + 1
      /\ \A i \in 1..count : Append(last, x)[i] = last[i]
      /\ Append(last, x)[count + 1] = x
  BY <1>0, <1>1
<1>5. CASE count < WindowSize
  <2>1. Grown(count) = count + 1 /\ LastOf(Append(last, x)) = Append(last, x) /\ slot = count
    BY <1>0, <1>4, <1>5 DEF Grown, LastOf
  <2>2. \A i \in 1..count + 1 : SlotOf(i, Following(slot), count + 1) = i - 1
    BY <1>0, <1>3, <1>5, <2>1 DEF SlotOf
  <2>3. \A i \in 1..count : SlotOf(i, slot, count) = i - 1
    BY <1>0, <1>5, Zenon DEF SlotOf
  <2>4. \A i \in 1..count + 1 : Append(last, x)[i] = new[i - 1]
    <3>1. \A i \in 1..count : i - 1 \in 0..WindowSize - 1 /\ i - 1 # slot
      BY <1>0, <1>5, <2>1
    <3>2. \A i \in 1..count : Append(last, x)[i] = new[i - 1]
      BY <1>1, <1>2, <1>4, <2>3, <3>1
    <3>3. (count + 1) - 1 = slot
      BY <1>0, <2>1
    <3>4. Append(last, x)[count + 1] = new[(count + 1) - 1]
      BY <1>2, <1>4, <3>3, Zenon
    <3>5. \A i \in 1..count + 1 : i \in 1..count \/ i = count + 1
      BY <1>0
    <3> QED
      BY <3>2, <3>4, <3>5, Zenon
  <2>5. /\ Following(slot) \in 0..WindowSize - 1 /\ count + 1 \in 0..WindowSize
        /\ count + 1 < WindowSize => Following(slot) = count + 1
    BY <1>0, <1>3, <1>5, <2>1
  <2> QED
    BY <1>2, <1>4, <2>1, <2>2, <2>4, <2>5 DEF Windowed, new
<1>6. CASE count = WindowSize
  <2>1. Grown(count) = count /\ LastOf(Append(last, x)) = Tail(Append(last, x))
    BY <1>0, <1>4, <1>6 DEF Grown, LastOf
  <2> DEFINE tail == Tail(Append(last, x))
  <2>2. /\ tail \in Seq(Nat) /\ Len(tail) = count
        /\ \A i \in 1..count : tail[i] = Append(last, x)[i + 1]
    BY <1>0, <1>4, <1>6
  <2> HIDE DEF tail
  <2>3. /\ \A i \in 1..count - 1 : /\ SlotOf(i, Following(slot), count) = SlotOf(i + 1, slot, count)
                                   /\ SlotOf(i + 1, slot, count) # slot
                                   /\ SlotOf(i + 1, slot, count) \in 0..WindowSize - 1
        /\ SlotOf(count, Following(slot), count) = slot
    BY <1>0, <1>3, <1>6 DEF SlotOf
  <2>4. \A i \in 1..count : tail[i] = new[SlotOf(i, Following(slot), count)]
    <3> SUFFICES ASSUME NEW i \in 1..count
                 PROVE  tail[i] = new[SlotOf(i, Following(slot), count)]
      BY Zenon
    <3>1. CASE i = count
      BY <1>2, <1>4, <2>2, <2>3, <3>1, Zenon
    <3>2. CASE i # count
      <4>1. i \in 1..count - 1 /\ i + 1 \in 1..count
        BY <1>0, <3>2
      <4>2. tail[i] = samples[SlotOf(i + 1, slot, count)]
        BY <1>1, <1>4, <2>2, <4>1, Zenon
      <4> QED
        BY <1>2, <2>3, <4>1, <4>2, Zenon
    <3> QED
      BY <3>1, <3>2, Zenon
  <2>5. Following(slot) \in 0..WindowSize - 1
    BY <1>0, <1>3
  <2> QED
    BY <1>0, <1>2, <1>6, <2>1, <2>2, <2>4, <2>5 DEF Windowed, new, tail
<1> QED
  BY <1>0, <1>5, <1>6

WindowInv ==
    /\ RingInv
    /\ Windowed(rpc.samples, rpc.nextIndex, rpc.sampleCount, lastCalls)
    /\ commits.samples \in [0..WindowSize - 1 -> Nat]
    /\ Windowed(commits.samples, commits.nextIndex, commits.sampleCount, lastCommits)

\* Empty rings and empty histories.
LEMMA WindowInvInit == WindowInit => WindowInv
<1> SUFFICES ASSUME WindowInit PROVE WindowInv
  OBVIOUS
<1>1. Ring \in [0..WindowSize - 1 -> Nat] /\ DOMAIN Ring = 0..WindowSize - 1
  BY Zenon DEF Ring
<1>2. Windowed(Ring, 0, 0, <<>>)
  BY <1>1, WindowConstants DEF Windowed
<1>3. /\ rpc.samples = Ring /\ rpc.nextIndex = 0 /\ rpc.sampleCount = 0 /\ lastCalls = <<>>
      /\ commits.samples = Ring /\ commits.nextIndex = 0 /\ commits.sampleCount = 0
      /\ lastCommits = <<>>
  BY Zenon DEF WindowInit
<1> QED
  BY <1>1, <1>2, <1>3, RingInit, Zenon DEF WindowInv

\* Recording keeps each ring and its history together.
LEMMA WindowStep == WindowInv /\ [WindowNext]_windowVars => WindowInv'
<1> SUFFICES ASSUME WindowInv, [WindowNext]_windowVars PROVE WindowInv'
  OBVIOUS
<1>0. RingInv'
  BY RingNext, Zenon DEF WindowInv
<1>1. ASSUME NEW bit \in {0, 1}, RecordRPCResult(bit) PROVE WindowInv'
  <2>1. /\ rpc'.samples = [rpc.samples EXCEPT ![rpc.nextIndex] = bit]
        /\ rpc'.nextIndex = Following(rpc.nextIndex)
        /\ rpc'.sampleCount = Grown(rpc.sampleCount)
        /\ lastCalls' = LastOf(Append(lastCalls, bit))
        /\ UNCHANGED <<commits, lastCommits>>
    BY <1>1, Zenon DEF RecordRPCResult, Record
  <2>2. bit \in Nat
    OBVIOUS
  <2>3. Windowed([rpc.samples EXCEPT ![rpc.nextIndex] = bit], Following(rpc.nextIndex),
                 Grown(rpc.sampleCount), LastOf(Append(lastCalls, bit)))
    BY <2>2, WindowGrows, Zenon DEF WindowInv
  <2>4. Windowed(rpc.samples, rpc.nextIndex, rpc.sampleCount, lastCalls)'
    BY <2>1, <2>3, Zenon DEF Windowed, SlotOf
  <2>5. Windowed(commits.samples, commits.nextIndex, commits.sampleCount, lastCommits)'
        /\ commits'.samples \in [0..WindowSize - 1 -> Nat]
    BY <2>1, Zenon DEF Windowed, SlotOf, WindowInv
  <2> QED
    BY <1>0, <2>4, <2>5, Zenon DEF WindowInv
<1>2. ASSUME NEW ms \in Latencies, RecordDBCommitLatencyMs(ms) PROVE WindowInv'
  <2>1. /\ commits'.samples = [commits.samples EXCEPT ![commits.nextIndex] = ms]
        /\ commits'.nextIndex = Following(commits.nextIndex)
        /\ commits'.sampleCount = Grown(commits.sampleCount)
        /\ lastCommits' = LastOf(Append(lastCommits, ms))
        /\ UNCHANGED <<rpc, lastCalls>>
    BY <1>2, Zenon DEF RecordDBCommitLatencyMs, RecordLatency
  <2>2. ms \in Nat
    BY WindowConstants, Zenon
  <2>3. Windowed([commits.samples EXCEPT ![commits.nextIndex] = ms], Following(commits.nextIndex),
                 Grown(commits.sampleCount), LastOf(Append(lastCommits, ms)))
    BY <2>2, WindowGrows, Zenon DEF WindowInv
  <2>4. Windowed(commits.samples, commits.nextIndex, commits.sampleCount, lastCommits)'
    BY <2>1, <2>3, Zenon DEF Windowed, SlotOf
  <2>5. commits'.samples \in [0..WindowSize - 1 -> Nat]
    BY <2>1, <2>2, Zenon DEF WindowInv
  <2>6. Windowed(rpc.samples, rpc.nextIndex, rpc.sampleCount, lastCalls)'
    BY <2>1, Zenon DEF Windowed, SlotOf, WindowInv
  <2> QED
    BY <1>0, <2>4, <2>5, <2>6, Zenon DEF WindowInv
<1>3. CASE UNCHANGED <<rpc, commits, lastCalls, lastCommits>>
  BY <1>3 DEF WindowInv, RingInv, Windowed, SlotOf
<1> QED
  BY <1>1, <1>2, <1>3, Zenon DEF WindowNext, SnapshotReads, SnapshotReturns, windowVars

\* The running count is the number of errors among the last calls.
LEMMA RateExact == WindowInv => RateIsOfLastCalls
<1> SUFFICES ASSUME WindowInv PROVE RateIsOfLastCalls
  BY Zenon
<1> DEFINE n == rpc.sampleCount
           errors == Cardinality({i \in DOMAIN lastCalls : lastCalls[i] = 1})
<1>1. /\ n \in 0..WindowSize /\ WindowSize \in Nat /\ lastCalls \in Seq(Nat) /\ Len(lastCalls) = n
      /\ Windowed(rpc.samples, rpc.nextIndex, n, lastCalls)
  BY WindowConstants, Zenon DEF WindowInv, Windowed
<1>2. Cardinality({i \in DOMAIN lastCalls : lastCalls[i] \in {1}})
         = Cardinality({j \in 0..n - 1 : rpc.samples[j] \in {1}})
  <2>0. Windowed(rpc.samples, rpc.nextIndex, n, lastCalls)
    BY <1>1, Zenon
  <2>1. CountInSeries(lastCalls, {1}) = CountInRing(rpc.samples, n, {1})
    BY <2>0, CountsAgree, Zenon
  <2> QED
    BY <2>1, Zenon DEF CountInSeries, CountInRing
<1>3. {j \in 0..n - 1 : rpc.samples[j] \in {1}} = Errors(rpc.samples)
  BY <1>1 DEF WindowInv, RingInv, Errors, RingSlots
<1>4. {i \in DOMAIN lastCalls : lastCalls[i] \in {1}} = {i \in DOMAIN lastCalls : lastCalls[i] = 1}
  BY Zenon
<1>5. errors = rpc.errorCount
  BY <1>2, <1>3, <1>4, Zenon DEF WindowInv, RingInv
<1>6. lastCalls = <<>> <=> n = 0
  BY <1>1
<1> HIDE DEF errors
<1>7. ErrorRateBps = IF lastCalls = <<>> THEN 0 ELSE (errors * 10000) \div Len(lastCalls)
  <2>1. Len(lastCalls) = n
    BY <1>1
  <2>2. ErrorRateBps = IF n = 0 THEN 0 ELSE (errors * 10000) \div n
    BY <1>5 DEF ErrorRateBps, RateOf
  <2> HIDE DEF n
  <2> QED
    BY <1>6, <2>1, <2>2
<1> QED
  BY <1>7 DEF RateIsOfLastCalls, errors

\* The sample at the rank is the percentile of the last commits.
LEMMA PercentileExact == WindowInv => PercentileOfLastCommits
<1> SUFFICES ASSUME WindowInv, lastCommits # <<>> PROVE PercentileOfLastCommits
  BY Zenon DEF PercentileOfLastCommits
<1> DEFINE n == commits.sampleCount
           samples == commits.samples
           order == SortedOrder(samples, n)
           below(u) == Cardinality({i \in DOMAIN lastCommits : lastCommits[i] <= u})
<1>1. /\ n \in 0..WindowSize /\ WindowSize \in Nat /\ lastCommits \in Seq(Nat)
      /\ Len(lastCommits) = n /\ samples \in [0..WindowSize - 1 -> Nat]
      /\ Windowed(samples, commits.nextIndex, n, lastCommits)
  BY WindowConstants, Zenon DEF WindowInv, Windowed
<1> HIDE DEF n, samples
<1>2. n \in Nat \ {0} /\ DOMAIN lastCommits = 1..n
  BY <1>1
<1>3. /\ \A j \in 0..n - 1 : samples[j] \in Nat
      /\ \A k \in 1..n : samples[k - 1] \in Int
  BY <1>1
<1>4. order \in Orders(n) /\ Sorts(order, samples, n)
  BY <1>2, <1>3, OrderExists, Zenon
<1>5. RankOf(n) \in 1..n /\ 100 * RankOf(n) >= 95 * n /\ 100 * (RankOf(n) - 1) < 95 * n
  BY <1>2, RankNearest, Zenon DEF RankIsNearest
<1> DEFINE r == RankOf(n)
           v == samples[order[r] - 1]
<1> HIDE DEF order, r
<1>6. /\ order[r] - 1 \in 0..n - 1
      /\ \A u \in Int : Cardinality(Below(samples, n, u)) \in Nat
      /\ Cardinality(Below(samples, n, v)) >= r
      /\ \A u \in Int : u < v => Cardinality(Below(samples, n, u)) <= r - 1
  <2>1. \A j \in 0..n - 1 : samples[j] \in Int
    BY <1>3
  <2> QED
    BY <1>2, <1>4, <1>5, <2>1, RankSplits, Zenon DEF r
<1>7. P95Ms = v /\ v \in Nat
  BY <1>2, <1>3, <1>6, Zenon DEF P95Ms, P95Of, n, samples, order, r
<1>8. \A u \in Nat : below(u) = Cardinality(Below(samples, n, u))
  <2> SUFFICES ASSUME NEW u \in Nat PROVE below(u) = Cardinality(Below(samples, n, u))
    BY Zenon
  <2> DEFINE V == {y \in Nat : y <= u}
  <2>1. Cardinality({i \in DOMAIN lastCommits : lastCommits[i] \in V})
           = Cardinality({j \in 0..n - 1 : samples[j] \in V})
    <3>0. Windowed(samples, commits.nextIndex, n, lastCommits)
      BY <1>1, Zenon
    <3>1. CountInSeries(lastCommits, V) = CountInRing(samples, n, V)
      BY <3>0, CountsAgree, Zenon
    <3> QED
      BY <3>1, Zenon DEF CountInSeries, CountInRing
  <2>2. {j \in 0..n - 1 : samples[j] \in V} = Below(samples, n, u)
    BY <1>3, Zenon DEF Below
  <2>3. {i \in DOMAIN lastCommits : lastCommits[i] \in V}
           = {i \in DOMAIN lastCommits : lastCommits[i] <= u}
    BY <1>1
  <2> QED
    BY <2>1, <2>2, <2>3, Zenon
<1>9. \E i \in DOMAIN lastCommits : lastCommits[i] = v
  <2>1. \A k \in 0..n - 1 : \E i \in 1..n : SlotOf(i, commits.nextIndex, n) = k
    BY <1>1, SlotOfBijective, Zenon DEF Windowed, n
  <2>2. \A i \in 1..n : lastCommits[i] = samples[SlotOf(i, commits.nextIndex, n)]
    BY <1>1, Zenon DEF Windowed, n, samples
  <2> QED
    BY <1>2, <1>6, <2>1, <2>2, Zenon
<1> HIDE DEF below, v
<1>10. 100 * below(v) >= 95 * Len(lastCommits)
  <2>1. below(v) \in Nat /\ below(v) >= r
    BY <1>6, <1>7, <1>8
  <2>2. r \in Nat /\ 100 * r >= 95 * n /\ Len(lastCommits) = n
    BY <1>1, <1>2, <1>5 DEF n, r
  <2> QED
    BY <1>2, <2>1, <2>2
<1>11. ASSUME NEW i \in DOMAIN lastCommits, lastCommits[i] < v
       PROVE  ~(100 * below(lastCommits[i]) >= 95 * Len(lastCommits))
  <2> DEFINE u == lastCommits[i]
  <2>1. u \in Nat
    BY <1>1
  <2> HIDE DEF u
  <2>2. below(u) \in Nat /\ below(u) <= r - 1
    BY <1>6, <1>8, <1>11, <2>1 DEF u, v
  <2>3. r \in Nat /\ 100 * (r - 1) < 95 * n /\ Len(lastCommits) = n
    BY <1>1, <1>2, <1>5 DEF n, r
  <2>4. ~(100 * below(u) >= 95 * Len(lastCommits))
    BY <1>2, <2>2, <2>3
  <2> QED
    BY <2>4, Zenon DEF u
<1> QED
  BY <1>7, <1>9, <1>10, <1>11, Zenon DEF PercentileOfLastCommits, below

\* However often the rings have wrapped, the error rate and the percentile are
\* those of the last calls and commits, for every window size (record,
\* errorRateBps, p95Ms).
THEOREM WindowsExactAlways == WindowSpec => []WindowsExact
<1>1. WindowInv => WindowsExact
  BY RateExact, PercentileExact, Zenon DEF WindowsExact
<1> QED
  BY <1>1, WindowInvInit, WindowStep, PTL DEF WindowSpec
=============================================================================
