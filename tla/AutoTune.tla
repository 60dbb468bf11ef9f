------------------------------- MODULE AutoTune -------------------------------
(***************************************************************************)
(* The coordinator's batch-size controller                                 *)
(* (internal/pipeline/coordinator/autotune/autotune.go) and the way the    *)
(* coordinator builds, feeds, replaces and warm-starts it                  *)
(* (internal/pipeline/coordinator/coordinator.go).                         *)
(*                                                                         *)
(* A controller lives from one withAutoTune call to the next.  Tick is one *)
(* Resolve call, made by tickBlockScan with the load the environment       *)
(* chose; Deploy is withAutoTune on a running coordinator (a profile       *)
(* transition), Restart a new coordinator, cold or from a checkpoint that  *)
(* may be older than the controller that died.                             *)
(***************************************************************************)
EXTENDS PolicyLineage, FiniteSets

CONSTANT
    Menus         \* sequence of environments: the configurations an operator
                  \* deploys together (cfgs), the inputs tickBlockScan presents
                  \* to Resolve (loads), the base batch sizes of the config
                  \* watcher (bases) and a bound on the deployments (deploys)

\* tickBlockScan fills in neither RPCErrorRateBps nor DBCommitLatencyP95Ms, so
\* both are 0 and below the marks that make pressure critical.
ASSUME MenuAssumption ==
    \A m \in DOMAIN Menus :
        /\ Menus[m].bases \subseteq Int
        /\ \A cfg \in Menus[m].cfgs :
              /\ \A k \in {"min", "max", "stepUp", "stepDown", "hysteresis", "cooldown",
                           "override", "releaseHold", "activationHold"} : cfg[k] \in Int
              /\ cfg.digest \in DOMAIN Parse /\ cfg.epoch \in Nat
        /\ \A in \in Menus[m].loads : ~in.rpcHigh /\ ~in.commitHigh

VARIABLES
    menu,      \* the environment of this behaviour
    base,      \* Coordinator.batchSize
    load,      \* what the next tick will observe
    enabled,   \* c.autoTune # nil
    profile,   \* the controller's normalised configuration
    batch, lastSignal, lastApplied, saturation, streak, cooldown,
    tele,      \* telemetryArmed, telemetryFallback, ...StaleObserved, ...RecoverySeen
    releaseLeft,   \* overrideReleaseLeft
    policy,    \* [version, digest, epoch, left]: the policy and its activation hold
    ckpt,      \* the exported restart state, or NoCkpt
    deploys,
    seen       \* history: what the ticks of this controller have shown so far

control == <<batch, lastSignal, lastApplied, saturation, streak, cooldown, tele>>
vars == <<menu, base, load, enabled, profile, control, releaseLeft, policy,
          ckpt, deploys, seen>>

NoCkpt == [batch |-> 0]
Cfgs == Menus[menu].cfgs
LoadSet == Menus[menu].loads

-----------------------------------------------------------------------------
\* newAutoTuneControllerWithSeedMode: normalisation of a configuration.

ClampInt(v, lo, hi) == IF hi < lo \/ v < lo THEN lo ELSE IF v > hi THEN hi ELSE v
Positive(v, default) == IF v <= 0 THEN default ELSE v
Min2(a, b) == IF a < b THEN a ELSE b

Normalise(b, cfg) ==
    LET min == Positive(cfg.min, 1)
        max == Max2(Positive(cfg.max, b), min)
        lagHigh == Max2(cfg.lagHigh, 0)
        queueHigh == ClampInt(cfg.queueHigh, 1, 100)
        hysteresis == Positive(cfg.hysteresis, 2)
    IN [min |-> min, max |-> max,
        stepUp |-> Positive(cfg.stepUp, 1), stepDown |-> Positive(cfg.stepDown, 1),
        lagHigh |-> lagHigh, lagLow |-> Min2(Max2(cfg.lagLow, 0), lagHigh),
        queueHigh |-> queueHigh,
        queueLow |-> IF cfg.queueLow = 0 THEN Min2(30, queueHigh)
                     ELSE ClampInt(cfg.queueLow, 0, queueHigh),
        hysteresis |-> hysteresis,
        cooldown |-> Positive(cfg.cooldown, hysteresis),
        staleTicks |-> Positive(cfg.staleTicks, 2),
        recoveryTicks |-> Positive(cfg.recoveryTicks, 1),
        override |-> IF cfg.override > 0 THEN ClampInt(cfg.override, min, max) ELSE 0,
        releaseHold |-> Max2(cfg.releaseHold, 0),
        activationHold |-> Max2(cfg.activationHold, 0)]

BoundedWarmStart(b, seed, p) ==
    IF seed > b THEN ClampInt(b + Min2(seed - b, p.stepUp), p.min, p.max)
                ELSE ClampInt(b - Min2(b - seed, p.stepDown), p.min, p.max)

\* The first batch of a controller; seed 0 stands for a nil seedBatch.
StartBatch(b, p, seed, bounded) ==
    LET start == ClampInt(b, p.min, p.max)
        goal == ClampInt(seed, p.min, p.max)
    IN IF p.override > 0 THEN p.override
       ELSE IF seed <= 0 THEN start
       ELSE IF bounded THEN BoundedWarmStart(start, goal, p)
       ELSE goal

-----------------------------------------------------------------------------
\* One Resolve call.

Lag(in) == IF in.hasHead THEN Max2(in.head - in.cursor, 0) ELSE 0

IsQueueHigh(in, p) == in.capacity > 0 /\ in.depth * 100 >= p.queueHigh * in.capacity
IsQueueLow(in, p) == in.capacity > 0 /\ in.depth * 100 <= p.queueLow * in.capacity

ClassifySignal(in, p) ==
    IF in.rpcHigh \/ in.commitHigh \/ IsQueueHigh(in, p) THEN "decrease"
    ELSE IF in.hasHead /\ Lag(in) >= p.lagHigh THEN "increase"
    ELSE IF in.hasHead /\ Lag(in) <= p.lagLow /\ IsQueueLow(in, p) THEN "decrease"
    ELSE "hold"

IsOppositeSignal(s, applied) ==
    \/ s = "increase" /\ applied = "decrease"
    \/ s = "decrease" /\ applied = "increase"

IsCriticalSignal(s, in) == s = "decrease" /\ (in.rpcHigh \/ in.commitHigh)

IsSaturated(s, b) ==
    \/ s = "increase" /\ b >= profile.max
    \/ s = "decrease" /\ b <= profile.min

\* resolveTelemetryState: the next telemetry fields and the state returned.
ResolveTelemetry(in) ==
    LET armed == tele.armed \/ in.hasHead
        invalid == ~in.hasHead \/ in.head < in.cursor
        stale == tele.stale + 1
        fallback == tele.fallback \/ stale >= profile.staleTicks
        recovery == tele.recovery + 1
        recovered == recovery >= profile.recoveryTicks
    IN IF ~armed THEN [next |-> tele, state |-> "healthy"]
       ELSE IF invalid
         THEN [next |-> [armed |-> TRUE, fallback |-> fallback,
                         stale |-> Min2(stale, profile.staleTicks), recovery |-> 0],
               state |-> IF fallback THEN "stale_fallback" ELSE "healthy"]
       ELSE IF ~tele.fallback
         THEN [next |-> [armed |-> TRUE, fallback |-> FALSE, stale |-> 0, recovery |-> 0],
               state |-> "healthy"]
       ELSE [next |-> [armed |-> TRUE, fallback |-> ~recovered, stale |-> 0,
                       recovery |-> IF recovered THEN 0 ELSE recovery],
             state |-> "recovery_hold"]

ResetAdaptive ==
    /\ lastSignal' = "hold" /\ lastApplied' = "hold" /\ saturation' = "hold"
    /\ streak' = 0 /\ cooldown' = 0

\* A tick spent in an operator or policy hold.
HoldTick ==
    /\ ResetAdaptive
    /\ \/ /\ profile.override > 0
          /\ batch' = profile.override
          /\ UNCHANGED <<releaseLeft, policy>>
       \/ /\ profile.override = 0 /\ releaseLeft > 0
          /\ releaseLeft' = releaseLeft - 1
          /\ UNCHANGED <<batch, policy>>
       \/ /\ profile.override = 0 /\ releaseLeft = 0 /\ policy.left > 0
          /\ policy' = [policy EXCEPT !.left = @ - 1]
          /\ UNCHANGED <<batch, releaseLeft>>

InHold == profile.override > 0 \/ releaseLeft > 0 \/ policy.left > 0

\* Mutants: the streak never grows; a step is not clamped.
StreakRestarts(signal) == 1
SteppedUnclamped(signal) ==
    IF signal = "increase" THEN batch + profile.stepUp ELSE batch - profile.stepDown

NextStreak(signal) == IF lastSignal = signal THEN streak + 1 ELSE 1
CoolDown == cooldown' = IF cooldown > 0 THEN cooldown - 1 ELSE 0

\* The step of an applied or clamped change.
Stepped(signal) ==
    IF signal = "increase" THEN ClampInt(batch + profile.stepUp, profile.min, profile.max)
                           ELSE ClampInt(batch - profile.stepDown, profile.min, profile.max)

DeferCooldown(signal) ==
    /\ lastSignal' = signal
    /\ streak' = Min2(NextStreak(signal), profile.hysteresis)
    /\ CoolDown
    /\ UNCHANGED <<batch, lastApplied>>

NoSignal ==
    /\ lastSignal' = "hold" /\ saturation' = "hold" /\ streak' = 0
    /\ CoolDown
    /\ UNCHANGED <<batch, lastApplied>>

Pressure(signal) ==
    /\ lastSignal' = signal
    /\ \/ /\ saturation = signal /\ IsSaturated(signal, batch)
          /\ streak' = 0 /\ saturation' = saturation
          /\ CoolDown
          /\ UNCHANGED <<batch, lastApplied>>
       \/ /\ ~(saturation = signal /\ IsSaturated(signal, batch))
          /\ NextStreak(signal) < profile.hysteresis
          /\ streak' = NextStreak(signal)
          /\ saturation' = "hold"
          /\ CoolDown
          /\ UNCHANGED <<batch, lastApplied>>
       \/ /\ ~(saturation = signal /\ IsSaturated(signal, batch))
          /\ NextStreak(signal) >= profile.hysteresis
          /\ batch' = Stepped(signal)
          /\ streak' = 0
          /\ IF batch' # batch
               THEN /\ lastApplied' = signal
                    /\ cooldown' = profile.cooldown
                    /\ saturation' = IF IsSaturated(signal, batch') THEN signal ELSE "hold"
               ELSE /\ saturation' = signal
                    /\ CoolDown
                    /\ UNCHANGED lastApplied

\* Mutant: the cooldown blocks the direction that was just applied.
BlockedSameDirection(signal, in) == cooldown > 0 /\ signal = lastApplied

BlockedByCooldown(signal, in) ==
    /\ cooldown > 0
    /\ IsOppositeSignal(signal, lastApplied)
    /\ ~IsCriticalSignal(signal, in)

AdaptiveTick(in, telemetry) ==
    LET signal == IF telemetry = "healthy" THEN ClassifySignal(in, profile) ELSE "hold"
    IN /\ UNCHANGED <<releaseLeft, policy>>
       /\ \/ /\ BlockedByCooldown(signal, in)
             /\ DeferCooldown(signal)
             /\ saturation' = IF saturation = signal /\ IsSaturated(signal, batch)
                              THEN saturation ELSE "hold"
          \/ /\ ~BlockedByCooldown(signal, in)
             /\ signal = "hold"
             /\ NoSignal
          \/ /\ ~BlockedByCooldown(signal, in)
             /\ signal # "hold"
             /\ Pressure(signal)

Resolve(in) ==
    LET t == ResolveTelemetry(in)
    IN /\ tele' = t.next
       /\ \/ InHold /\ HoldTick
          \/ ~InHold /\ AdaptiveTick(in, t.state)

-----------------------------------------------------------------------------
\* The coordinator: building and replacing the controller.

Signals == {"hold", "increase", "decrease"}
FreshTelemetry == [armed |-> FALSE, fallback |-> FALSE, stale |-> 0, recovery |-> 0]
NoOverride == [manual |-> FALSE, left |-> 0]
NoPolicy == [has |-> FALSE]

ExportPolicy(warm) ==
    [has |-> TRUE, version |-> policy.version, digest |-> policy.digest,
     epoch |-> policy.epoch, hold |-> policy.left, warm |-> warm]
ExportOverride == [manual |-> profile.override > 0, left |-> releaseLeft]

\* Mutant: a hold that is being served is not handed on.
ReleaseHoldForgotten(p, tr) == IF p.override = 0 /\ tr.manual THEN p.releaseHold ELSE 0

\* reconcileOverrideTransition: the release hold of the new controller.
ReconcileOverride(p, tr) ==
    IF p.override > 0 THEN 0
    ELSE IF tr.left > 0 THEN tr.left
    ELSE IF tr.manual THEN p.releaseHold
    ELSE 0

\* reconcilePolicyTransition applied to a new controller's policy.
ReconciledPolicy(p, cfg, tr) ==
    IF ~tr.has
      THEN [version |-> cfg.version, digest |-> cfg.digest, epoch |-> cfg.epoch, left |-> 0]
      ELSE LET r == ReconcilePolicy(tr, cfg)
               kept == InheritedHold(tr)
           IN [version |-> cfg.version, digest |-> r.digest, epoch |-> r.epoch,
               left |-> [fresh |-> p.activationHold,
                         fresh_or_kept |-> Max2(p.activationHold, kept),
                         kept |-> kept,
                         dropped |-> 0][r.hold]]

\* History: how long the present run of equal signals is, the direction of
\* the last applied change and the ticks since, and the hold ticks that the
\* coordinator owes for a lifted override and for an accepted policy.
NothingSeen == [dir |-> "hold", ago |-> 0, owedRelease |-> 0, owedPolicy |-> 0]

Install(cfg, seed, bounded, override, transition) ==
    LET p == Normalise(base, cfg)
    IN IF ~cfg.enabled
         THEN /\ enabled' = FALSE
              /\ batch' = base
              /\ releaseLeft' = 0
              /\ UNCHANGED <<profile, policy>>
         ELSE /\ enabled' = TRUE
              /\ profile' = p
              /\ batch' = StartBatch(base, p, seed, bounded)
              /\ releaseLeft' = ReconcileOverride(p, override)
              /\ policy' = ReconciledPolicy(p, cfg, transition)

FreshControl ==
    /\ lastSignal' = "hold" /\ lastApplied' = "hold" /\ saturation' = "hold"
    /\ streak' = 0 /\ cooldown' = 0
    /\ tele' = FreshTelemetry

\* What the operator was promised when this controller replaces another.
OwedRelease(cfg) ==
    LET p == Normalise(base, cfg)
    IN IF ~enabled \/ ~cfg.enabled \/ p.override > 0 THEN 0
       ELSE IF profile.override > 0 THEN p.releaseHold
       ELSE seen.owedRelease

OwedPolicy(cfg) ==
    IF ~enabled \/ ~cfg.enabled THEN 0
    ELSE IF cfg.version # policy.version \/ policy'.epoch # policy.epoch
      THEN Normalise(base, cfg).activationHold
    ELSE IF cfg.epoch = policy.epoch /\ cfg.digest # policy.digest
            /\ ResolveSameEpoch(policy.epoch, Parse[policy.digest], Parse[cfg.digest]) # "unhandled"
      THEN 0
    ELSE seen.owedPolicy

\* withAutoTune(cfg, nil) on a coordinator that may already have a controller.
Deploy(cfg) ==
    /\ deploys < Menus[menu].deploys
    /\ deploys' = deploys + 1
    /\ IF enabled
         THEN Install(cfg, batch, FALSE, ExportOverride, ExportPolicy(FALSE))
         ELSE Install(cfg, 0, FALSE, NoOverride, NoPolicy)
    /\ FreshControl
    /\ seen' = [NothingSeen EXCEPT !.owedRelease = OwedRelease(cfg),
                                   !.owedPolicy = OwedPolicy(cfg)]
    /\ UNCHANGED <<menu, base, load, ckpt>>

\* ExportAutoTuneRestartState.
Checkpoint ==
    /\ enabled /\ deploys < Menus[menu].deploys
    /\ ckpt' = [batch |-> batch, override |-> ExportOverride, policy |-> ExportPolicy(TRUE)]
    /\ UNCHANGED <<menu, base, load, enabled, profile, control, releaseLeft, policy,
                   deploys, seen>>

\* A new coordinator.  WithAutoTune ignores the checkpoint; so does
\* WithAutoTuneWarmStart when it is another chain's or network's, or empty.
ColdStart(cfg) ==
    /\ deploys < Menus[menu].deploys
    /\ deploys' = deploys + 1
    /\ Install(cfg, 0, FALSE, NoOverride, NoPolicy)
    /\ FreshControl
    /\ seen' = NothingSeen
    /\ UNCHANGED <<menu, base, load, ckpt>>

\* WithAutoTuneWarmStart with an adopted checkpoint: the policy travels with
\* it, so the bounded warm start of the batch is never chosen.
WarmStart(cfg) ==
    /\ deploys < Menus[menu].deploys
    /\ ckpt # NoCkpt
    /\ deploys' = deploys + 1
    /\ Install(cfg, ckpt.batch,
               ~ckpt.override.manual /\ ckpt.override.left = 0 /\ ~ckpt.policy.has,
               ckpt.override, ckpt.policy)
    /\ FreshControl
    /\ seen' = NothingSeen
    /\ UNCHANGED <<menu, base, load, ckpt>>

\* UpdateBatchSize: a running controller keeps its batch.
UpdateBatchSize(b) ==
    /\ b > 0 /\ b # base
    /\ base' = b
    /\ batch' = IF enabled THEN batch ELSE b
    /\ UNCHANGED <<menu, load, enabled, profile, lastSignal, lastApplied, saturation,
                   streak, cooldown, tele, releaseLeft, policy, ckpt, deploys, seen>>

Observe ==
    LET dir == IF batch' > batch THEN "increase" ELSE IF batch' < batch THEN "decrease"
               ELSE IF InHold THEN "hold" ELSE seen.dir
    IN seen' = [dir |-> dir,
                ago |-> IF batch' # batch \/ InHold THEN 0 ELSE Min2(seen.ago + 1, profile.cooldown + 1),
                owedRelease |-> Max2(seen.owedRelease - 1, 0),
                owedPolicy |-> Max2(seen.owedPolicy - 1, 0)]

\* tickBlockScan's Resolve call.
Tick ==
    /\ enabled
    /\ Resolve(load)
    /\ Observe
    /\ UNCHANGED <<menu, base, load, enabled, profile, ckpt, deploys>>

LoadChanges ==
    /\ load' \in LoadSet \ {load}
    /\ UNCHANGED <<menu, base, enabled, profile, control, releaseLeft, policy, ckpt,
                   deploys, seen>>

Init ==
    /\ menu \in DOMAIN Menus
    /\ base \in Menus[menu].bases
    /\ load \in LoadSet
    /\ \E cfg \in Cfgs :
          /\ enabled = cfg.enabled
          /\ profile = Normalise(base, cfg)
          /\ batch = IF cfg.enabled THEN StartBatch(base, profile, 0, FALSE) ELSE base
          /\ policy = ReconciledPolicy(profile, cfg, NoPolicy)
    /\ lastSignal = "hold" /\ lastApplied = "hold" /\ saturation = "hold"
    /\ streak = 0 /\ cooldown = 0
    /\ tele = FreshTelemetry
    /\ releaseLeft = 0
    /\ ckpt = NoCkpt
    /\ deploys = 0
    /\ seen = NothingSeen

Next ==
    \/ Tick
    \/ LoadChanges
    \/ Checkpoint
    \/ \E b \in Menus[menu].bases : UpdateBatchSize(b)
    \/ \E cfg \in Cfgs : Deploy(cfg) \/ ColdStart(cfg) \/ WarmStart(cfg)

Spec == Init /\ [][Next]_vars /\ WF_vars(Tick)

-----------------------------------------------------------------------------
\* Properties.

\* The batch the controller hands to tickBlockScan lies within the deployed
\* bounds through every step, clamp, seed and warm start, and is exactly the
\* operator's value while an override is configured.
BatchInBounds ==
    enabled => /\ batch \in profile.min..profile.max
               /\ profile.override > 0 => batch = profile.override

ChangesBatch == Tick /\ batch' # batch
Direction == IF batch' > batch THEN "increase" ELSE "decrease"

\* A change against the last applied one comes only after CooldownTicks ticks
\* without a change: the batch does not flap between two sizes.
NoFlapping ==
    [][ChangesBatch /\ IsOppositeSignal(Direction, seen.dir)
         => seen.ago >= profile.cooldown]_vars

\* After the operator lifts an override, and after a policy step is accepted,
\* the batch stays where it is for the configured hold ticks, whatever is
\* deployed in the meantime (Resolve's hold_operator_release and
\* hold_policy_transition).
HoldsServed ==
    [][Tick /\ (seen.owedRelease > 0 \/ seen.owedPolicy > 0) => batch' = batch]_vars

\* Under one policy version a deployed epoch goes back only along a rollback
\* lineage and skips ahead only along a snapshot cutover; a new version
\* always moves the epoch forward (reconcilePolicyTransition).
EpochDiscipline ==
    [][\A cfg \in Cfgs :
          enabled /\ (policy'.epoch # policy.epoch \/ cfg.version # policy.version)
          /\ Deploy(cfg) /\ enabled' =>
          IF cfg.version # policy.version THEN policy'.epoch > policy.epoch
          ELSE /\ policy'.epoch < policy.epoch =>
                    Parse[policy'.digest].lineage # <<>>
                    /\ Parse[policy'.digest].lineage[1] = policy.epoch
               /\ policy'.epoch > policy.epoch + 1 =>
                    Parse[policy'.digest].snapshot = <<policy.epoch, policy'.epoch>>]_vars

\* The stages of a rollback fence, in order.
FenceRank(epoch, d) ==
    CASE IsReleaseDigest(epoch, d) -> 4
      [] IsQuarantineDigest(epoch, d) -> 3
      [] IsExpiryDigest(epoch, d) -> 2
      [] IsCompactionDigest(epoch, d) -> 1
      [] OTHER -> 0

FenceStep(cfg) ==
    /\ policy'.digest # policy.digest
    /\ policy'.version = policy.version /\ policy'.epoch = policy.epoch
    /\ enabled /\ Deploy(cfg) /\ enabled'

FenceMoves(before, after) ==
    LET d == Parse[before]
        e == Parse[after]
        from == FenceRank(policy.epoch, d)
        to == FenceRank(policy.epoch, e)
    IN to > from \/ (from = 4 /\ to = 4 /\ ~ReleaseWindowTransition(policy.epoch, e, d))

\* Within an epoch the ownership of a rollback fence moves forward: a late
\* digest of an earlier stage, or of an earlier release window, is not
\* adopted.  A digest with a tombstone is the exception the code makes.
FenceAdvances ==
    [][\A cfg \in Cfgs : FenceStep(cfg) /\ ~Parse[policy'.digest].tomb
          => FenceMoves(policy.digest, policy'.digest)]_vars

\* While the head stays far enough ahead and the queue has room, and nobody
\* deploys, the batch climbs to its maximum and stays there: hysteresis,
\* cooldown, telemetry recovery and holds delay the climb but never stall it.
RampsUp ==
    <>[](enabled /\ profile.override = 0 /\ load.head >= load.cursor
         /\ ClassifySignal(load, profile) = "increase")
      => <>[](batch = profile.max)
=============================================================================
