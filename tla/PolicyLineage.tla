---------------------------- MODULE PolicyLineage ----------------------------
(***************************************************************************)
(* The manifest digests of the coordinator's auto-tune policy and the      *)
(* rules that decide which of two digests owns a policy epoch              *)
(* (internal/pipeline/coordinator/autotune/policy_lineage.go,              *)
(* rollback_fence.go, rollback_fence_ordering.go,                          *)
(* rollback_fence_markers.go).                                             *)
(*                                                                         *)
(* A digest is a string of "key=value" tokens that every rule parses       *)
(* again.  Here it is a value, and Parse[digest] the record of what the    *)
(* parsers get out of the string:                                          *)
(*   lineage  <<from, to, forward>> of rollback-{from,to,forward}-seq, or  *)
(*            <<>> when one of them is missing or malformed                *)
(*   snapshot <<base, tail>> of snapshot-{base,tail}-seq, or <<>>          *)
(*   tomb     the rollback-fence-tombstone flag                            *)
(*   expiry, hold, release  the three fence epochs, Absent when missing    *)
(*            or not a natural number                                      *)
(*   own      the 12 optional ownership fields and then the 22 epoch       *)
(*            markers, in the order of the code's dependency chain         *)
(***************************************************************************)
EXTENDS Integers, Sequences

CONSTANT Parse   \* the digests of a deployment and what they parse to

Absent == -1
Malformed == -2

PrefixFields == 12
NumEpochMarkers == 22
OwnSlots == 1..(PrefixFields + NumEpochMarkers)

ASSUME ParseAssumption ==
    \A d \in DOMAIN Parse :
        /\ Parse[d].own \in [OwnSlots -> Int]
        /\ Parse[d].expiry \in Int /\ Parse[d].hold \in Int /\ Parse[d].release \in Int

\* A lineage is read only when all its numbers are there and none is negative.
parseRollbackLineage(from, to, forward) ==
    IF from >= 0 /\ to >= 0 /\ forward >= 0 THEN <<from, to, forward>> ELSE <<>>
parseSnapshotCutoverLineage(snapshotBase, tail) ==
    IF snapshotBase >= 0 /\ tail >= 0 THEN <<snapshotBase, tail>> ELSE <<>>

\* parseRollbackLineage succeeded and the rollback really goes back to epoch.
ValidateRollbackLineage(epoch, d) ==
    /\ d.lineage # <<>>
    /\ d.lineage[2] = epoch
    /\ d.lineage[1] > d.lineage[2]
    /\ d.lineage[3] >= d.lineage[1]

ValidateLineagePair(epoch, s, t) ==
    /\ ValidateRollbackLineage(epoch, s)
    /\ t.lineage = s.lineage

IsRollbackFenceTransition(epoch, d) ==
    /\ d.lineage # <<>>
    /\ d.lineage[2] = epoch
    /\ d.lineage[1] > d.lineage[2]

IsCompactionDigest(epoch, d) == d.tomb /\ ValidateRollbackLineage(epoch, d)

IsExpiryDigest(epoch, d) ==
    /\ ~d.tomb /\ d.hold = Absent /\ d.release = Absent
    /\ ValidateRollbackLineage(epoch, d)
    /\ d.expiry > epoch

IsQuarantineDigest(epoch, d) ==
    /\ ~d.tomb /\ d.release = Absent
    /\ ValidateRollbackLineage(epoch, d)
    /\ d.expiry > epoch
    /\ d.hold > d.expiry

IsReleaseDigest(epoch, d) ==
    /\ ~d.tomb
    /\ ValidateRollbackLineage(epoch, d)
    /\ d.expiry > epoch
    /\ d.hold > d.expiry
    /\ d.release > d.hold

-----------------------------------------------------------------------------
\* The ownership ordering of release digests.

Has(d, i) == d.own[i] >= 0

\* Every field needs its predecessor; the bridge sequence and the release
\* watermark (slots 1 and 2) come together.
DependenciesMet(d) ==
    /\ \A i \in OwnSlots \ {1} : Has(d, i) => Has(d, i - 1)
    /\ Has(d, 1) => Has(d, 2)

OrElse(d, i, default) == IF Has(d, i) THEN d.own[i] ELSE default
ReleaseWatermark(d) == OrElse(d, 2, d.release)
DrainWatermark(d) == OrElse(d, 3, ReleaseWatermark(d))
LiveHead(d) == OrElse(d, 4, DrainWatermark(d))
SteadyStateWatermark(d) == OrElse(d, 5, LiveHead(d))

\* parseRollbackFenceOwnershipOrdering accepts the digest.
HasOwnership(epoch, d) ==
    /\ IsReleaseDigest(epoch, d)
    /\ \A i \in 1..PrefixFields : d.own[i] # Malformed
    /\ DependenciesMet(d)
    /\ d.release <= ReleaseWatermark(d)
    /\ ReleaseWatermark(d) <= DrainWatermark(d)
    /\ DrainWatermark(d) <= LiveHead(d)
    /\ LiveHead(d) <= SteadyStateWatermark(d)
    /\ \A i \in (PrefixFields + 5)..(PrefixFields + NumEpochMarkers) :
          Has(d, i) => d.own[i] > d.own[i - 1]
    /\ OrElse(d, 7, 0) <= OrElse(d, 6, 0)

\* The compared fields; the release watermark itself is not one of them.
Ordering(epoch, d) ==
    <<epoch, OrElse(d, 1, 0), DrainWatermark(d), LiveHead(d),
      SteadyStateWatermark(d)>>
    \o [i \in 1..(PrefixFields + NumEpochMarkers - 5) |-> OrElse(d, i + 5, 0)]

\* Mutant: any smaller field makes the whole ordering smaller.
CompareAnyField(l, r) == \E i \in DOMAIN l : l[i] < r[i]

CompareLess(l, r) ==
    \E i \in DOMAIN l : l[i] < r[i] /\ \A j \in 1..(i - 1) : l[j] = r[j]

\* stageProgressionMarkers, as slots of own, in the order they are consulted.
StageProgressionMarkers == [k \in 1..9 |->
    PrefixFields + 1 + <<13, 14, 15, 16, 18, 12, 19, 20, 21>>[k]]

StageDiffers(s, t, k) ==
    Has(s, StageProgressionMarkers[k]) # Has(t, StageProgressionMarkers[k])

-----------------------------------------------------------------------------
\* The five transitions of a fence, each from a source to a target digest.

CompactionTransition(epoch, s, t) == t.tomb /\ ValidateLineagePair(epoch, s, t)

ExpiryTransition(epoch, s, t) ==
    /\ IsCompactionDigest(epoch, s)
    /\ IsExpiryDigest(epoch, t)
    /\ ValidateLineagePair(epoch, s, t)

QuarantineTransition(epoch, s, t) ==
    /\ IsExpiryDigest(epoch, s)
    /\ IsQuarantineDigest(epoch, t)
    /\ ValidateLineagePair(epoch, s, t)
    /\ s.expiry = t.expiry

ReleaseTransition(epoch, s, t) ==
    /\ IsQuarantineDigest(epoch, s)
    /\ IsReleaseDigest(epoch, t)
    /\ ValidateLineagePair(epoch, s, t)
    /\ s.expiry = t.expiry /\ s.hold = t.hold

ReleaseWindowTransition(epoch, s, t) ==
    /\ ValidateLineagePair(epoch, s, t)
    /\ s.expiry = t.expiry /\ s.hold = t.hold
    /\ HasOwnership(epoch, s) /\ HasOwnership(epoch, t)
    /\ \/ \E k \in 1..9 :
             /\ StageDiffers(s, t, k)
             /\ \A j \in 1..(k - 1) : ~StageDiffers(s, t, j)
             /\ Has(t, StageProgressionMarkers[k])
       \/ /\ \A k \in 1..9 : ~StageDiffers(s, t, k)
          /\ CompareLess(Ordering(epoch, s), Ordering(epoch, t))

\* sameEpochPolicyLineageRules: the five transitions from the previous to the
\* incoming digest come first and adopt it, then the same five backwards.
FenceTransition(epoch, s, t) ==
    \/ CompactionTransition(epoch, s, t)
    \/ ExpiryTransition(epoch, s, t)
    \/ QuarantineTransition(epoch, s, t)
    \/ ReleaseTransition(epoch, s, t)
    \/ ReleaseWindowTransition(epoch, s, t)

\* resolveSameEpochPolicyLineage: "adopt", "reject", or "unhandled".
ResolveSameEpoch(epoch, prev, inc) ==
    IF FenceTransition(epoch, prev, inc) THEN "adopt"
    ELSE IF FenceTransition(epoch, inc, prev) THEN "reject"
    ELSE "unhandled"

IsSnapshotCutover(prevEpoch, incEpoch, inc) ==
    /\ incEpoch > prevEpoch + 1
    /\ inc.snapshot = <<prevEpoch, incEpoch>>

\* Mutant: the rollback need not start at the epoch now served.
RollbackFromAnywhere(prevEpoch, incEpoch, inc) ==
    incEpoch < prevEpoch /\ ValidateRollbackLineage(incEpoch, inc)

IsRollbackLineage(prevEpoch, incEpoch, inc) ==
    /\ incEpoch < prevEpoch
    /\ ValidateRollbackLineage(incEpoch, inc)
    /\ inc.lineage[1] = prevEpoch

\* A digest that still speaks for the previous epoch's fence arrives with the
\* next epoch's number after the fence's release window.
IsEpochRolloverStale(prevEpoch, incEpoch, prev, inc) ==
    /\ incEpoch = prevEpoch + 1
    /\ IsReleaseDigest(prevEpoch, prev)
    /\ ValidateRollbackLineage(prevEpoch, inc)

Max2(a, b) == IF a > b THEN a ELSE b

\* normalizeTransitionActivationHold: the hold a new controller inherits.
InheritedHold(tr) ==
    IF ~tr.warm THEN tr.hold
    ELSE IF IsCompactionDigest(tr.epoch, Parse[tr.digest]) THEN 0
    ELSE IF IsRollbackFenceTransition(tr.epoch, Parse[tr.digest]) /\ tr.hold > 1 THEN 1
    ELSE tr.hold

\* reconcilePolicyTransition's decision about the incoming policy (version,
\* digest, epoch) given the previous controller's: which digest and epoch the
\* new controller serves, and whether the step opens a fresh activation hold,
\* keeps the inherited one, or drops it.
Pin(tr, hold) == [digest |-> tr.digest, epoch |-> tr.epoch, hold |-> hold]
Take(inc, epoch, hold) == [digest |-> inc.digest, epoch |-> epoch, hold |-> hold]

ReconcilePolicy(tr, inc) ==
    LET prev == Parse[tr.digest]
        next == Parse[inc.digest]
    IN
    CASE inc.version # tr.version ->
           Take(inc, Max2(tr.epoch + 1, inc.epoch), "fresh")
      [] inc.version = tr.version /\ inc.digest = tr.digest ->
           IF inc.epoch = tr.epoch + 1 THEN Take(inc, inc.epoch, "fresh_or_kept")
                                       ELSE Pin(tr, "kept")
      [] inc.version = tr.version /\ inc.digest # tr.digest /\ inc.epoch > tr.epoch ->
           IF IsEpochRolloverStale(tr.epoch, inc.epoch, prev, next)
             THEN Pin(tr, "kept")
           ELSE IF inc.epoch = tr.epoch + 1
                   \/ IsSnapshotCutover(tr.epoch, inc.epoch, next)
             THEN Take(inc, inc.epoch, "fresh")
           ELSE Pin(tr, "kept")
      [] inc.version = tr.version /\ inc.digest # tr.digest /\ inc.epoch < tr.epoch ->
           IF IsRollbackLineage(tr.epoch, inc.epoch, next)
             THEN Take(inc, inc.epoch, "fresh")
             ELSE Pin(tr, "kept")
      [] OTHER ->
           [adopt |-> Take(inc, inc.epoch, "dropped"),
            reject |-> Pin(tr, "dropped"),
            unhandled |-> Pin(tr, "kept")][ResolveSameEpoch(tr.epoch, prev, next)]
=============================================================================
