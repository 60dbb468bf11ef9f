--------------------------- MODULE AutoTune_proofs ---------------------------
(***************************************************************************)
(* Proofs about the auto-tune controller for every configuration, load and *)
(* manifest digest: the batch bounds, the holds, the cooldown, the         *)
(* discipline of policy epochs and the order of a rollback fence's stages. *)
(***************************************************************************)
EXTENDS AutoTune, TLAPS

\* What normalisation makes of any configuration.
ProfileOK(p) ==
    /\ p.min \in Nat \ {0} /\ p.max \in Nat /\ p.min <= p.max
    /\ p.stepUp \in Nat \ {0} /\ p.stepDown \in Nat \ {0}
    /\ p.override \in Nat /\ (p.override > 0 => p.override \in p.min..p.max)
    /\ p.releaseHold \in Nat /\ p.activationHold \in Nat

\* clampInt returns a value between its bounds (autotune.go:842-853).
LEMMA ClampBounds ==
    ASSUME NEW v \in Int, NEW lo \in Int, NEW hi \in Int, lo <= hi
    PROVE  ClampInt(v, lo, hi) \in lo..hi
BY DEF ClampInt

\* A deployable configuration has numbers where the controller calculates.
LEMMA ConfigTypes ==
    ASSUME NEW m \in DOMAIN Menus, NEW cfg \in Menus[m].cfgs
    PROVE  /\ cfg.min \in Int /\ cfg.max \in Int /\ cfg.stepUp \in Int /\ cfg.stepDown \in Int
           /\ cfg.override \in Int /\ cfg.releaseHold \in Int /\ cfg.activationHold \in Int
           /\ cfg.digest \in DOMAIN Parse /\ cfg.epoch \in Nat
BY MenuAssumption, Zenon

\* Every configuration, also one with zero or negative fields, is normalised to
\* a usable profile.
LEMMA NormaliseOK ==
    ASSUME NEW m \in DOMAIN Menus, NEW cfg \in Menus[m].cfgs, NEW b \in Int
    PROVE  ProfileOK(Normalise(b, cfg))
<1> DEFINE p == Normalise(b, cfg)
           min == Positive(cfg.min, 1)
           max == Max2(Positive(cfg.max, b), min)
<1>1. /\ p.min = min /\ p.max = max
      /\ p.stepUp = Positive(cfg.stepUp, 1) /\ p.stepDown = Positive(cfg.stepDown, 1)
      /\ p.override = IF cfg.override > 0 THEN ClampInt(cfg.override, min, max) ELSE 0
      /\ p.releaseHold = Max2(cfg.releaseHold, 0) /\ p.activationHold = Max2(cfg.activationHold, 0)
  BY Zenon DEF Normalise
<1>2. min \in Nat \ {0} /\ max \in Nat /\ min <= max
  BY ConfigTypes DEF Positive, Max2
<1>3. Positive(cfg.stepUp, 1) \in Nat \ {0} /\ Positive(cfg.stepDown, 1) \in Nat \ {0}
  BY ConfigTypes DEF Positive
<1>4. Max2(cfg.releaseHold, 0) \in Nat /\ Max2(cfg.activationHold, 0) \in Nat
  BY ConfigTypes DEF Max2
<1> HIDE DEF p, min, max
<1>5. p.override \in Nat /\ (p.override > 0 => p.override \in min..max)
  BY <1>1, <1>2, ConfigTypes DEF ClampInt
<1> QED
  BY <1>1, <1>2, <1>3, <1>4, <1>5, Zenon DEF ProfileOK, p

\* A new controller's batch, seeded or not, is within its bounds and obeys an
\* override.
LEMMA StartBatchOK ==
    ASSUME NEW b \in Int, NEW p, ProfileOK(p), NEW seed \in Int, NEW bounded
    PROVE  /\ StartBatch(b, p, seed, bounded) \in p.min..p.max
           /\ p.override > 0 => StartBatch(b, p, seed, bounded) = p.override
<1> DEFINE start == ClampInt(b, p.min, p.max)
           goal == ClampInt(seed, p.min, p.max)
<1>0. /\ p.min \in Int /\ p.max \in Int /\ p.min <= p.max
      /\ p.stepUp \in Int /\ p.stepDown \in Int
  BY DEF ProfileOK
<1>1. start \in p.min..p.max /\ goal \in p.min..p.max
  BY <1>0, ClampBounds, Zenon
<1> HIDE DEF start, goal
<1>2. BoundedWarmStart(start, goal, p) \in p.min..p.max
  <2>1. start + Min2(goal - start, p.stepUp) \in Int /\ start - Min2(start - goal, p.stepDown) \in Int
    BY <1>0, <1>1 DEF Min2
  <2>2. /\ ClampInt(start + Min2(goal - start, p.stepUp), p.min, p.max) \in p.min..p.max
        /\ ClampInt(start - Min2(start - goal, p.stepDown), p.min, p.max) \in p.min..p.max
    BY <1>0, <2>1, ClampBounds, Zenon
  <2> QED
    BY <2>2, Zenon DEF BoundedWarmStart
<1> QED
  BY <1>1, <1>2, Zenon DEF StartBatch, ProfileOK, start, goal
-----------------------------------------------------------------------------
(* What reconcilePolicyTransition may decide *)

\* reconcilePolicyTransition has one of these outcomes
\* (policy_lineage.go:22-148).
LEMMA Decision ==
    ASSUME NEW tr, NEW inc, tr.epoch \in Nat, inc.epoch \in Nat
    PROVE  LET r == ReconcilePolicy(tr, inc)
               resolved == ResolveSameEpoch(tr.epoch, Parse[tr.digest], Parse[inc.digest])
           IN  \/ inc.version # tr.version /\ r = Take(inc, Max2(tr.epoch + 1, inc.epoch), "fresh")
               \/ /\ inc.version = tr.version
                  /\ \/ r = Pin(tr, "kept")
                     \/ /\ r = Take(inc, inc.epoch, "fresh_or_kept")
                        /\ inc.epoch = tr.epoch + 1 /\ inc.digest = tr.digest
                     \/ /\ r = Take(inc, inc.epoch, "fresh")
                        /\ inc.epoch = tr.epoch + 1 \/ IsSnapshotCutover(tr.epoch, inc.epoch, Parse[inc.digest])
                     \/ /\ r = Take(inc, inc.epoch, "fresh")
                        /\ IsRollbackLineage(tr.epoch, inc.epoch, Parse[inc.digest])
                     \/ /\ inc.epoch = tr.epoch /\ inc.digest # tr.digest
                        /\ \/ r = Take(inc, inc.epoch, "dropped") /\ resolved = "adopt"
                           \/ r = Pin(tr, "dropped") /\ resolved = "reject"
<1> DEFINE r == ReconcilePolicy(tr, inc)
           resolved == ResolveSameEpoch(tr.epoch, Parse[tr.digest], Parse[inc.digest])
           next == Parse[inc.digest]
<1>1. CASE inc.version # tr.version
  <2>1. r = Take(inc, Max2(tr.epoch + 1, inc.epoch), "fresh")
    BY <1>1, Zenon DEF ReconcilePolicy
  <2> QED
    BY <1>1, <2>1, Zenon
<1>2. CASE inc.version = tr.version /\ inc.digest = tr.digest
  <2>1. r = IF inc.epoch = tr.epoch + 1 THEN Take(inc, inc.epoch, "fresh_or_kept") ELSE Pin(tr, "kept")
    BY <1>2, Zenon DEF ReconcilePolicy
  <2> QED
    BY <1>2, <2>1, Zenon
<1>3. CASE inc.version = tr.version /\ inc.digest # tr.digest /\ inc.epoch > tr.epoch
  <2>1. \/ r = Pin(tr, "kept")
        \/ /\ r = Take(inc, inc.epoch, "fresh")
           /\ inc.epoch = tr.epoch + 1 \/ IsSnapshotCutover(tr.epoch, inc.epoch, next)
    BY <1>3 DEF ReconcilePolicy
  <2> QED
    BY <1>3, <2>1, Zenon
<1>4. CASE inc.version = tr.version /\ inc.digest # tr.digest /\ inc.epoch < tr.epoch
  <2>1. r = IF IsRollbackLineage(tr.epoch, inc.epoch, next)
              THEN Take(inc, inc.epoch, "fresh") ELSE Pin(tr, "kept")
    BY <1>4 DEF ReconcilePolicy
  <2> QED
    BY <1>4, <2>1, Zenon
<1>5. CASE inc.version = tr.version /\ inc.digest # tr.digest /\ inc.epoch = tr.epoch
  <2>1. r = [adopt |-> Take(inc, inc.epoch, "dropped"),
             reject |-> Pin(tr, "dropped"),
             unhandled |-> Pin(tr, "kept")][resolved]
    BY <1>5 DEF ReconcilePolicy
  <2>2. resolved \in {"adopt", "reject", "unhandled"}
    BY Zenon DEF ResolveSameEpoch
  <2> HIDE DEF r, resolved
  <2>3. \/ r = Take(inc, inc.epoch, "dropped") /\ resolved = "adopt"
        \/ r = Pin(tr, "dropped") /\ resolved = "reject"
        \/ r = Pin(tr, "kept")
    BY <2>1, <2>2
  <2> QED
    BY <1>5, <2>3, Zenon DEF r, resolved
<1> QED
  BY <1>1, <1>2, <1>3, <1>4, <1>5

PolicyOK(q) ==
    /\ q = [version |-> q.version, digest |-> q.digest, epoch |-> q.epoch, left |-> q.left]
    /\ q.digest \in DOMAIN Parse /\ q.epoch \in Nat /\ q.left \in Nat

TransitionOK(tr) ==
    tr = NoPolicy \/ (tr.has /\ tr.digest \in DOMAIN Parse /\ tr.epoch \in Nat /\ tr.hold \in Nat)

\* The policy of a new controller is well formed, whatever was exported by the
\* old one.
LEMMA ReconciledPolicyOK ==
    ASSUME NEW m \in DOMAIN Menus, NEW cfg \in Menus[m].cfgs, NEW p, ProfileOK(p), NEW tr, TransitionOK(tr)
    PROVE  PolicyOK(ReconciledPolicy(p, cfg, tr))
<1> DEFINE q == ReconciledPolicy(p, cfg, tr)
           r == ReconcilePolicy(tr, cfg)
           kept == InheritedHold(tr)
<1>1. cfg.digest \in DOMAIN Parse /\ cfg.epoch \in Nat
  BY ConfigTypes, Zenon
<1>2. CASE tr = NoPolicy
  <2>1. q = [version |-> cfg.version, digest |-> cfg.digest, epoch |-> cfg.epoch, left |-> 0]
    BY <1>2, Zenon DEF ReconciledPolicy, NoPolicy
  <2> QED
    BY <1>1, <2>1 DEF PolicyOK
<1>3. CASE tr # NoPolicy
  <2>1. tr.has /\ tr.digest \in DOMAIN Parse /\ tr.epoch \in Nat /\ tr.hold \in Nat
    BY <1>3, Zenon DEF TransitionOK
  <2>2. kept \in Nat
    BY <2>1, Zenon DEF InheritedHold
  <2>3. p.activationHold \in Nat /\ Max2(p.activationHold, kept) \in Nat
    BY <2>2, Zenon DEF ProfileOK, Max2
  <2>4. q = [version |-> cfg.version, digest |-> r.digest, epoch |-> r.epoch,
             left |-> [fresh |-> p.activationHold,
                        fresh_or_kept |-> Max2(p.activationHold, kept),
                        kept |-> kept,
                        dropped |-> 0][r.hold]]
    BY <2>1, Zenon DEF ReconciledPolicy
  <2>5. Max2(tr.epoch + 1, cfg.epoch) \in Nat
    BY <1>1, <2>1 DEF Max2
  <2>6. /\ r.digest \in DOMAIN Parse /\ r.epoch \in Nat
        /\ r.hold \in {"fresh", "fresh_or_kept", "kept", "dropped"}
    <3>1. \/ \E e \in Nat, h \in {"fresh", "fresh_or_kept", "kept", "dropped"} : r = Take(cfg, e, h)
          \/ \E h \in {"fresh", "fresh_or_kept", "kept", "dropped"} : r = Pin(tr, h)
      BY <1>1, <2>1, <2>5, Decision, Zenon
    <3> HIDE DEF r
    <3> QED
      BY <1>1, <2>1, <3>1 DEF Take, Pin
  <2> HIDE DEF q, r, kept
  <2>7. q.left \in Nat
    BY <2>2, <2>3, <2>4, <2>6
  <2>8. /\ q = [version |-> q.version, digest |-> q.digest, epoch |-> q.epoch, left |-> q.left]
        /\ q.digest = r.digest /\ q.epoch = r.epoch
    BY <2>4, Zenon
  <2> QED
    BY <2>6, <2>7, <2>8, Zenon DEF PolicyOK, q
<1> QED
  BY <1>2, <1>3, Zenon
-----------------------------------------------------------------------------
(* The inductive invariant: the bounds of the batch, and every hold that is   *)
(* owed is still to be served.                                                *)

CkptOK ==
    /\ ckpt.batch \in Int
    /\ ckpt # NoCkpt => ckpt.override.left \in Nat /\ TransitionOK(ckpt.policy)

Owed ==
    /\ seen.owedRelease \in Nat /\ seen.owedPolicy \in Nat
    /\ seen.owedRelease <= releaseLeft /\ seen.owedPolicy <= policy.left

TuneInv ==
    /\ menu \in DOMAIN Menus /\ base \in Int
    /\ ProfileOK(profile) /\ batch \in Int /\ BatchInBounds
    /\ releaseLeft \in Nat /\ (profile.override > 0 => releaseLeft = 0)
    /\ PolicyOK(policy) /\ CkptOK /\ Owed

\* Every first controller meets the invariant.
LEMMA TuneInit == Init => TuneInv
<1> SUFFICES ASSUME Init PROVE TuneInv
  BY Zenon
<1>1. menu \in DOMAIN Menus /\ base \in Int
  BY MenuAssumption, Zenon DEF Init
<1>2. PICK cfg \in Menus[menu].cfgs :
          /\ enabled = cfg.enabled
          /\ profile = Normalise(base, cfg)
          /\ batch = IF cfg.enabled THEN StartBatch(base, profile, 0, FALSE) ELSE base
          /\ policy = ReconciledPolicy(profile, cfg, NoPolicy)
  BY Zenon DEF Init, Cfgs
<1>3. ProfileOK(profile)
  BY <1>1, <1>2, NormaliseOK, Zenon
<1>4. /\ StartBatch(base, profile, 0, FALSE) \in profile.min..profile.max
      /\ profile.override > 0 => StartBatch(base, profile, 0, FALSE) = profile.override
  <2>1. 0 \in Int
    OBVIOUS
  <2> QED
    BY <1>1, <1>3, <2>1, StartBatchOK, Zenon
<1>5. batch \in Int /\ BatchInBounds
  <2>1. CASE enabled
    <3>1. batch \in profile.min..profile.max /\ (profile.override > 0 => batch = profile.override)
      BY <1>2, <1>4, <2>1, Zenon
    <3> QED
      BY <1>3, <3>1 DEF BatchInBounds, ProfileOK
  <2>2. CASE ~enabled
    BY <1>1, <1>2, <2>2, Zenon DEF BatchInBounds
  <2> QED
    BY <2>1, <2>2, Zenon
<1>6. PolicyOK(policy)
  <2>1. TransitionOK(NoPolicy)
    BY Zenon DEF TransitionOK
  <2> QED
    BY <1>1, <1>2, <1>3, <2>1, ReconciledPolicyOK, Zenon
<1>7. CkptOK /\ Owed /\ releaseLeft = 0
  <2>1. releaseLeft = 0 /\ ckpt = NoCkpt /\ seen = NothingSeen
    BY Zenon DEF Init
  <2>2. policy.left \in Nat
    BY <1>6, Zenon DEF PolicyOK
  <2> QED
    BY <2>1, <2>2 DEF CkptOK, NoCkpt, Owed, NothingSeen
<1> QED
  BY <1>1, <1>3, <1>5, <1>6, <1>7, Zenon DEF TuneInv

\* What installing a configuration leaves behind.
LEMMA InstallOK ==
    ASSUME TuneInv, NEW cfg \in Cfgs, NEW seed \in Int, NEW bounded, NEW override, NEW transition,
           override.left \in Nat, TransitionOK(transition),
           Install(cfg, seed, bounded, override, transition)
    PROVE  /\ ProfileOK(profile') /\ batch' \in Int
           /\ enabled' => /\ batch' \in profile'.min..profile'.max
                          /\ profile'.override > 0 => batch' = profile'.override
           /\ releaseLeft' \in Nat /\ (profile'.override > 0 => releaseLeft' = 0)
           /\ PolicyOK(policy')
<1> DEFINE p == Normalise(base, cfg)
<1>1. ProfileOK(p)
  BY NormaliseOK, Zenon DEF TuneInv, Cfgs
<1>2. CASE ~cfg.enabled
  BY <1>2 DEF Install, TuneInv
<1>3. CASE cfg.enabled
  <2>1. /\ profile' = p /\ batch' = StartBatch(base, p, seed, bounded)
        /\ releaseLeft' = ReconcileOverride(p, override)
        /\ policy' = ReconciledPolicy(p, cfg, transition)
    BY <1>3, Zenon DEF Install
  <2> HIDE DEF p
  <2>2. /\ batch' \in p.min..p.max
        /\ p.override > 0 => batch' = p.override
    BY <1>1, <2>1, StartBatchOK, Zenon DEF TuneInv
  <2>3. ReconcileOverride(p, override) \in Nat /\ (p.override > 0 => ReconcileOverride(p, override) = 0)
    BY <1>1, Zenon DEF ReconcileOverride, ProfileOK
  <2>4. PolicyOK(policy')
    BY <1>1, <2>1, ReconciledPolicyOK, Zenon DEF TuneInv, Cfgs
  <2>5. batch' \in Int
    BY <1>1, <2>2 DEF ProfileOK
  <2> QED
    BY <1>1, <2>1, <2>2, <2>3, <2>4, <2>5, Zenon
<1> QED
  BY <1>2, <1>3, Zenon

\* What one Resolve call does to the batch and to the holds.
LEMMA TickEffect ==
    ASSUME TuneInv, Tick
    PROVE  \/ /\ profile.override > 0 /\ batch' = profile.override /\ UNCHANGED <<releaseLeft, policy>>
           \/ /\ profile.override = 0 /\ releaseLeft > 0 /\ releaseLeft' = releaseLeft - 1
              /\ UNCHANGED <<batch, policy>>
           \/ /\ profile.override = 0 /\ releaseLeft = 0 /\ policy.left > 0
              /\ policy' = [policy EXCEPT !.left = @ - 1]
              /\ UNCHANGED <<batch, releaseLeft>>
           \/ /\ profile.override = 0 /\ releaseLeft = 0 /\ policy.left = 0
              /\ UNCHANGED <<releaseLeft, policy>>
              /\ batch' = batch \/ \E signal : batch' = Stepped(signal)
<1>1. CASE InHold /\ HoldTick
  BY <1>1, Zenon DEF HoldTick
<1>2. CASE ~InHold /\ \E state : AdaptiveTick(load, state)
  <2>1. profile.override = 0 /\ releaseLeft = 0 /\ policy.left = 0
    BY <1>2 DEF InHold, TuneInv, ProfileOK, PolicyOK
  <2>2. UNCHANGED <<releaseLeft, policy>>
    BY <1>2, Zenon DEF AdaptiveTick
  <2>3. batch' = batch \/ \E signal : batch' = Stepped(signal)
    BY <1>2, Zenon DEF AdaptiveTick, DeferCooldown, NoSignal, Pressure
  <2> QED
    BY <2>1, <2>2, <2>3, Zenon
<1> QED
  BY <1>1, <1>2, Zenon DEF Tick, Resolve

\* A step up or down stays within the bounds.
LEMMA SteppedOK ==
    ASSUME ProfileOK(profile), batch \in Int, NEW signal
    PROVE  Stepped(signal) \in profile.min..profile.max
<1>1. /\ profile.min \in Int /\ profile.max \in Int /\ profile.min <= profile.max
      /\ batch + profile.stepUp \in Int /\ batch - profile.stepDown \in Int
  BY DEF ProfileOK
<1> QED
  BY <1>1, ClampBounds, Zenon DEF Stepped

\* A Resolve call keeps the invariant: a hold it serves is one fewer owed.
LEMMA TuneTick == ASSUME TuneInv, Tick PROVE TuneInv'
<1>1. /\ UNCHANGED <<menu, base, enabled, profile, ckpt>>
      /\ seen'.owedRelease = Max2(seen.owedRelease - 1, 0)
      /\ seen'.owedPolicy = Max2(seen.owedPolicy - 1, 0)
  BY Zenon DEF Tick, Observe
<1>2. /\ batch' \in Int
      /\ enabled => batch' \in profile.min..profile.max
      /\ profile.override > 0 => batch' = profile.override
  <2>1. CASE profile.override > 0
    BY <2>1, TickEffect DEF TuneInv, ProfileOK
  <2>2. CASE profile.override = 0
    <3>1. batch' = batch \/ \E signal : batch' = Stepped(signal)
      BY <2>2, TickEffect
    <3>2. \A signal : Stepped(signal) \in profile.min..profile.max
      BY SteppedOK, Zenon DEF TuneInv
    <3> QED
      BY <2>2, <3>1, <3>2 DEF TuneInv, BatchInBounds, ProfileOK
  <2> QED
    BY <2>1, <2>2 DEF TuneInv, ProfileOK
<1>3. /\ releaseLeft' \in Nat /\ releaseLeft' >= releaseLeft - 1
      /\ profile.override > 0 => releaseLeft' = 0
  BY TickEffect DEF TuneInv
<1>4. PolicyOK(policy') /\ policy'.left >= policy.left - 1
  <2>1. CASE policy' = policy
    BY <2>1 DEF TuneInv, PolicyOK
  <2>2. CASE policy.left > 0 /\ policy' = [policy EXCEPT !.left = @ - 1]
    <3>1. policy' = [version |-> policy.version, digest |-> policy.digest,
                     epoch |-> policy.epoch, left |-> policy.left - 1]
      BY <2>2, Zenon DEF TuneInv, PolicyOK
    <3> QED
      BY <2>2, <3>1 DEF TuneInv, PolicyOK
  <2> QED
    BY <2>1, <2>2, TickEffect, Zenon
<1>5. Owed'
  <2>1. /\ seen.owedRelease \in Nat /\ seen.owedPolicy \in Nat
        /\ seen.owedRelease <= releaseLeft /\ seen.owedPolicy <= policy.left
        /\ releaseLeft \in Nat /\ policy.left \in Nat /\ policy'.left \in Nat
    BY <1>4, Zenon DEF TuneInv, Owed, PolicyOK
  <2> QED
    BY <1>1, <1>3, <1>4, <2>1 DEF Owed, Max2
<1>6. CkptOK'
  BY <1>1, Zenon DEF TuneInv, CkptOK
<1> QED
  BY <1>1, <1>2, <1>3, <1>4, <1>5, <1>6, Zenon DEF TuneInv, BatchInBounds

\* What a running controller exports is a well-formed transition.
LEMMA ExportsOK ==
    ASSUME TuneInv, NEW warm
    PROVE  ExportOverride.left \in Nat /\ TransitionOK(ExportPolicy(warm))
BY Zenon DEF TuneInv, ExportOverride, ExportPolicy, TransitionOK, PolicyOK

\* So is what is exported when there is no controller.
LEMMA FreshExportsOK == NoOverride.left \in Nat /\ TransitionOK(NoPolicy)
BY Zenon DEF NoOverride, TransitionOK

\* An installed controller meets the invariant once its holds cover what is owed.
LEMMA InstallKeeps ==
    ASSUME TuneInv, NEW cfg \in Cfgs, NEW seed \in Int, NEW bounded, NEW override, NEW transition,
           override.left \in Nat, TransitionOK(transition),
           Install(cfg, seed, bounded, override, transition),
           UNCHANGED <<menu, base, ckpt>>, Owed'
    PROVE  TuneInv'
<1>1. /\ ProfileOK(profile') /\ batch' \in Int
      /\ enabled' => /\ batch' \in profile'.min..profile'.max
                     /\ profile'.override > 0 => batch' = profile'.override
      /\ releaseLeft' \in Nat /\ (profile'.override > 0 => releaseLeft' = 0)
      /\ PolicyOK(policy')
  BY InstallOK, Zenon
<1>2. CkptOK'
  BY Zenon DEF TuneInv, CkptOK
<1> QED
  BY <1>1, <1>2, Zenon DEF TuneInv, BatchInBounds

\* Nothing is owed by a controller that starts without a predecessor.
LEMMA NothingOwed ==
    ASSUME seen' = NothingSeen, releaseLeft' \in Nat, PolicyOK(policy')
    PROVE  Owed'
<1>1. seen'.owedRelease = 0 /\ seen'.owedPolicy = 0 /\ policy'.left \in Nat
  BY Zenon DEF NothingSeen, PolicyOK
<1> QED
  BY <1>1 DEF Owed

\* The policy of a controller that replaces an enabled one.
LEMMA DeployedPolicy ==
    ASSUME TuneInv, NEW cfg \in Cfgs, Deploy(cfg), enabled, cfg.enabled
    PROVE  /\ policy' = ReconciledPolicy(Normalise(base, cfg), cfg, ExportPolicy(FALSE))
           /\ releaseLeft' = ReconcileOverride(Normalise(base, cfg), ExportOverride)
BY Zenon DEF Deploy, Install

\* The fields of that policy, by the decision taken.
LEMMA DeployedFields ==
    ASSUME TuneInv, NEW cfg \in Cfgs, Deploy(cfg), enabled, cfg.enabled
    PROVE  LET r == ReconcilePolicy(ExportPolicy(FALSE), cfg)
               p == Normalise(base, cfg)
           IN  /\ policy'.version = cfg.version /\ policy'.digest = r.digest /\ policy'.epoch = r.epoch
               /\ r.hold = "fresh" => policy'.left = p.activationHold
               /\ r.hold = "fresh_or_kept" => policy'.left = Max2(p.activationHold, policy.left)
               /\ r.hold = "kept" => policy'.left = policy.left
               /\ r.hold = "dropped" => policy'.left = 0
<1> DEFINE tr == ExportPolicy(FALSE)
           r == ReconcilePolicy(tr, cfg)
           p == Normalise(base, cfg)
<1>1. tr.has /\ ~tr.warm /\ tr.hold = policy.left
  BY Zenon DEF ExportPolicy
<1>2. InheritedHold(tr) = policy.left
  BY <1>1, Zenon DEF InheritedHold
<1>3. policy' = [version |-> cfg.version, digest |-> r.digest, epoch |-> r.epoch,
                 left |-> [fresh |-> p.activationHold,
                            fresh_or_kept |-> Max2(p.activationHold, policy.left),
                            kept |-> policy.left,
                            dropped |-> 0][r.hold]]
  BY <1>1, <1>2, DeployedPolicy, Zenon DEF ReconciledPolicy
<1> HIDE DEF r, p
<1>4. /\ policy'.version = cfg.version /\ policy'.digest = r.digest /\ policy'.epoch = r.epoch
      /\ policy'.left = [fresh |-> p.activationHold,
                           fresh_or_kept |-> Max2(p.activationHold, policy.left),
                           kept |-> policy.left,
                           dropped |-> 0][r.hold]
  BY <1>3, Zenon
<1>5. /\ r.hold = "fresh" => policy'.left = p.activationHold
      /\ r.hold = "fresh_or_kept" => policy'.left = Max2(p.activationHold, policy.left)
      /\ r.hold = "kept" => policy'.left = policy.left
      /\ r.hold = "dropped" => policy'.left = 0
  BY <1>4
<1> QED
  BY <1>4, <1>5, Zenon DEF r, p

\* What a deployment on a running controller does to its policy.
LEMMA DeployCases ==
    ASSUME TuneInv, NEW cfg \in Cfgs, Deploy(cfg), enabled, cfg.enabled
    PROVE  LET fresh == Normalise(base, cfg).activationHold
               next == Parse[cfg.digest]
               resolved == ResolveSameEpoch(policy.epoch, Parse[policy.digest], next)
           IN  /\ policy'.version = cfg.version
               /\ \/ /\ cfg.version # policy.version
                     /\ policy'.epoch = Max2(policy.epoch + 1, cfg.epoch) /\ policy'.left = fresh
                  \/ /\ cfg.version = policy.version
                     /\ \/ /\ policy'.digest = policy.digest /\ policy'.epoch = policy.epoch
                           /\ policy'.left = policy.left
                        \/ /\ policy'.digest = policy.digest /\ policy'.epoch = policy.epoch + 1
                           /\ policy'.left = Max2(fresh, policy.left)
                        \/ /\ policy'.digest = cfg.digest /\ policy'.epoch = cfg.epoch
                           /\ policy'.left = fresh
                           /\ \/ cfg.epoch = policy.epoch + 1
                              \/ IsSnapshotCutover(policy.epoch, cfg.epoch, next)
                              \/ IsRollbackLineage(policy.epoch, cfg.epoch, next)
                        \/ /\ cfg.epoch = policy.epoch /\ cfg.digest # policy.digest
                           /\ policy'.epoch = policy.epoch /\ policy'.left = 0
                           /\ \/ policy'.digest = cfg.digest /\ resolved = "adopt"
                              \/ policy'.digest = policy.digest /\ resolved = "reject"
<1> DEFINE tr == ExportPolicy(FALSE)
           r == ReconcilePolicy(tr, cfg)
           fresh == Normalise(base, cfg).activationHold
           next == Parse[cfg.digest]
           resolved == ResolveSameEpoch(policy.epoch, Parse[policy.digest], next)
<1>1. tr.version = policy.version /\ tr.digest = policy.digest /\ tr.epoch = policy.epoch
  BY Zenon DEF ExportPolicy
<1>2. tr.epoch \in Nat /\ cfg.epoch \in Nat
  BY <1>1, ConfigTypes, Zenon DEF TuneInv, PolicyOK, Cfgs
<1> HIDE DEF tr
<1>3. \/ cfg.version # policy.version /\ r = Take(cfg, Max2(policy.epoch + 1, cfg.epoch), "fresh")
      \/ /\ cfg.version = policy.version
         /\ \/ r = Pin(tr, "kept")
            \/ /\ r = Take(cfg, cfg.epoch, "fresh_or_kept")
               /\ cfg.epoch = policy.epoch + 1 /\ cfg.digest = policy.digest
            \/ /\ r = Take(cfg, cfg.epoch, "fresh")
               /\ cfg.epoch = policy.epoch + 1 \/ IsSnapshotCutover(policy.epoch, cfg.epoch, next)
            \/ /\ r = Take(cfg, cfg.epoch, "fresh")
               /\ IsRollbackLineage(policy.epoch, cfg.epoch, next)
            \/ /\ cfg.epoch = policy.epoch /\ cfg.digest # policy.digest
               /\ \/ r = Take(cfg, cfg.epoch, "dropped") /\ resolved = "adopt"
                  \/ r = Pin(tr, "dropped") /\ resolved = "reject"
  BY <1>1, <1>2, Decision
<1>4. /\ policy'.version = cfg.version /\ policy'.digest = r.digest /\ policy'.epoch = r.epoch
      /\ r.hold = "fresh" => policy'.left = fresh
      /\ r.hold = "fresh_or_kept" => policy'.left = Max2(fresh, policy.left)
      /\ r.hold = "kept" => policy'.left = policy.left
      /\ r.hold = "dropped" => policy'.left = 0
  BY DeployedFields, Zenon DEF tr
<1> HIDE DEF r, fresh, resolved, next
<1>5. \A e, h : r = Take(cfg, e, h) => r.digest = cfg.digest /\ r.epoch = e /\ r.hold = h
  BY DEF Take
<1>6. \A h : r = Pin(tr, h) => r.digest = policy.digest /\ r.epoch = policy.epoch /\ r.hold = h
  BY <1>1 DEF Pin
<1> QED
  BY <1>3, <1>4, <1>5, <1>6 DEF fresh, resolved, next

\* A deployment hands on the holds that are still owed.
LEMMA DeployOwed == ASSUME TuneInv, NEW cfg \in Cfgs, Deploy(cfg), releaseLeft' \in Nat, PolicyOK(policy')
                    PROVE  Owed'
<1> DEFINE p == Normalise(base, cfg)
<1>1. seen'.owedRelease = OwedRelease(cfg) /\ seen'.owedPolicy = OwedPolicy(cfg)
  BY Zenon DEF Deploy, NothingSeen
<1>2. policy'.left \in Nat
  BY Zenon DEF PolicyOK
<1>3. CASE ~enabled \/ ~cfg.enabled
  <2>1. OwedRelease(cfg) = 0 /\ OwedPolicy(cfg) = 0
    BY <1>3, Zenon DEF OwedRelease, OwedPolicy
  <2> QED
    BY <1>1, <1>2, <2>1 DEF Owed
<1>4. CASE enabled /\ cfg.enabled
  <2>0. ProfileOK(p)
    BY NormaliseOK, Zenon DEF TuneInv, Cfgs
  <2>1. OwedRelease(cfg) \in Nat /\ OwedRelease(cfg) <= releaseLeft'
    <3>1. releaseLeft' = ReconcileOverride(p, ExportOverride)
      BY <1>4, DeployedPolicy, Zenon
    <3>2. ExportOverride.manual = (profile.override > 0) /\ ExportOverride.left = releaseLeft
      BY Zenon DEF ExportOverride
    <3>3. /\ seen.owedRelease \in Nat /\ seen.owedRelease <= releaseLeft /\ releaseLeft \in Nat
          /\ profile.override > 0 => releaseLeft = 0
      BY Zenon DEF TuneInv, Owed
    <3>4. p.releaseHold \in Nat
      BY <2>0, Zenon DEF ProfileOK
    <3>5. OwedRelease(cfg) = IF p.override > 0 THEN 0
                             ELSE IF profile.override > 0 THEN p.releaseHold ELSE seen.owedRelease
      BY <1>4, Zenon DEF OwedRelease
    <3>6. releaseLeft' = IF p.override > 0 THEN 0
                         ELSE IF releaseLeft > 0 THEN releaseLeft
                         ELSE IF profile.override > 0 THEN p.releaseHold ELSE 0
      BY <3>1, <3>2, Zenon DEF ReconcileOverride
    <3> HIDE DEF p
    <3> QED
      BY <3>3, <3>4, <3>5, <3>6
  <2>2. OwedPolicy(cfg) \in Nat /\ OwedPolicy(cfg) <= policy'.left
    <3> DEFINE fresh == p.activationHold
               resolved == ResolveSameEpoch(policy.epoch, Parse[policy.digest], Parse[cfg.digest])
    <3>1. fresh \in Nat
      BY <2>0, Zenon DEF ProfileOK
    <3>2. /\ seen.owedPolicy \in Nat /\ seen.owedPolicy <= policy.left /\ policy.left \in Nat
          /\ policy.epoch \in Nat /\ cfg.epoch \in Nat
      BY ConfigTypes, Zenon DEF TuneInv, Owed, PolicyOK, Cfgs
    <3>3. OwedPolicy(cfg) = IF cfg.version # policy.version \/ policy'.epoch # policy.epoch THEN fresh
                            ELSE IF cfg.epoch = policy.epoch /\ cfg.digest # policy.digest
                                    /\ resolved # "unhandled" THEN 0
                            ELSE seen.owedPolicy
      BY <1>4, Zenon DEF OwedPolicy
    <3>4. \/ cfg.version # policy.version /\ policy'.left = fresh
          \/ /\ cfg.version = policy.version
             /\ \/ policy'.epoch = policy.epoch /\ policy'.left = policy.left
                \/ policy'.epoch # policy.epoch /\ policy'.left \in {fresh, Max2(fresh, policy.left)}
                \/ /\ cfg.epoch = policy.epoch /\ cfg.digest # policy.digest
                   /\ policy'.epoch = policy.epoch /\ policy'.left = 0
                   /\ resolved \in {"adopt", "reject"}
      <4>1. /\ policy.epoch + 1 # policy.epoch
            /\ IsSnapshotCutover(policy.epoch, cfg.epoch, Parse[cfg.digest]) => cfg.epoch # policy.epoch
            /\ IsRollbackLineage(policy.epoch, cfg.epoch, Parse[cfg.digest]) => cfg.epoch # policy.epoch
        BY <3>2 DEF IsSnapshotCutover, IsRollbackLineage
      <4> HIDE DEF resolved
      <4> QED
        BY <1>4, <4>1, DeployCases, Zenon DEF resolved
    <3>5. Max2(fresh, policy.left) >= fresh /\ Max2(fresh, policy.left) \in Nat
      BY <3>1, <3>2 DEF Max2
    <3> HIDE DEF fresh, resolved
    <3> QED
      BY <1>2, <3>1, <3>2, <3>3, <3>4, <3>5
  <2> QED
    BY <1>1, <2>1, <2>2, Zenon DEF Owed
<1> QED
  BY <1>3, <1>4, Zenon

\* TuneInv is inductive.
LEMMA TuneNext == TuneInv /\ [Next]_vars => TuneInv'
<1> SUFFICES ASSUME TuneInv, [Next]_vars PROVE TuneInv'
  BY Zenon
<1>1. CASE Tick
  BY <1>1, TuneTick, Zenon
<1>2. CASE LoadChanges
  BY <1>2, Zenon DEF LoadChanges, control, TuneInv, BatchInBounds, CkptOK, Owed
<1>3. CASE Checkpoint
  <2>1. ckpt'.batch = batch /\ ckpt'.override = ExportOverride /\ ckpt'.policy = ExportPolicy(TRUE)
    BY <1>3, Zenon DEF Checkpoint
  <2>2. CkptOK'
    BY <2>1, ExportsOK, Zenon DEF TuneInv, CkptOK
  <2> QED
    BY <1>3, <2>2, Zenon DEF Checkpoint, control, TuneInv, BatchInBounds, Owed
<1>4. ASSUME NEW b \in Menus[menu].bases, UpdateBatchSize(b) PROVE TuneInv'
  <2>1. b \in Int
    BY MenuAssumption, Zenon DEF TuneInv
  <2>2. batch' \in Int /\ (enabled => batch' = batch) /\ base' \in Int
    BY <1>4, <2>1, Zenon DEF UpdateBatchSize, TuneInv
  <2> QED
    BY <1>4, <2>2, Zenon DEF UpdateBatchSize, TuneInv, BatchInBounds, CkptOK, Owed
<1>5. ASSUME NEW cfg \in Cfgs, Deploy(cfg) PROVE TuneInv'
  <2>1. CASE enabled
    <3>1. Install(cfg, batch, FALSE, ExportOverride, ExportPolicy(FALSE))
      BY <1>5, <2>1, Zenon DEF Deploy
    <3>2. batch \in Int /\ ExportOverride.left \in Nat /\ TransitionOK(ExportPolicy(FALSE))
      BY ExportsOK, Zenon DEF TuneInv
    <3>3. releaseLeft' \in Nat /\ PolicyOK(policy')
      BY <3>1, <3>2, InstallOK, Zenon
    <3>4. Owed' /\ UNCHANGED <<menu, base, ckpt>>
      BY <1>5, <3>3, DeployOwed, Zenon DEF Deploy
    <3> QED
      BY <3>1, <3>2, <3>4, InstallKeeps, Zenon
  <2>2. CASE ~enabled
    <3>1. Install(cfg, 0, FALSE, NoOverride, NoPolicy)
      BY <1>5, <2>2, Zenon DEF Deploy
    <3>2. 0 \in Int /\ NoOverride.left \in Nat /\ TransitionOK(NoPolicy)
      BY FreshExportsOK
    <3>3. releaseLeft' \in Nat /\ PolicyOK(policy')
      BY <3>1, <3>2, InstallOK, Zenon
    <3>4. Owed' /\ UNCHANGED <<menu, base, ckpt>>
      BY <1>5, <3>3, DeployOwed, Zenon DEF Deploy
    <3> QED
      BY <3>1, <3>2, <3>4, InstallKeeps, Zenon
  <2> QED
    BY <2>1, <2>2, Zenon
<1>6. ASSUME NEW cfg \in Cfgs, ColdStart(cfg) PROVE TuneInv'
  <2>1. Install(cfg, 0, FALSE, NoOverride, NoPolicy) /\ UNCHANGED <<menu, base, ckpt>> /\ seen' = NothingSeen
    BY <1>6, Zenon DEF ColdStart
  <2>2. 0 \in Int /\ NoOverride.left \in Nat /\ TransitionOK(NoPolicy)
    BY FreshExportsOK
  <2>3. releaseLeft' \in Nat /\ PolicyOK(policy')
    BY <2>1, <2>2, InstallOK, Zenon
  <2>4. Owed'
    BY <2>1, <2>3, NothingOwed, Zenon
  <2> QED
    BY <2>1, <2>2, <2>4, InstallKeeps, Zenon
<1>7. ASSUME NEW cfg \in Cfgs, WarmStart(cfg) PROVE TuneInv'
  <2> DEFINE bounded == ~ckpt.override.manual /\ ckpt.override.left = 0 /\ ~ckpt.policy.has
  <2>1. Install(cfg, ckpt.batch, bounded, ckpt.override, ckpt.policy)
          /\ UNCHANGED <<menu, base, ckpt>> /\ seen' = NothingSeen
    BY <1>7, Zenon DEF WarmStart
  <2>2. ckpt.batch \in Int /\ ckpt.override.left \in Nat /\ TransitionOK(ckpt.policy)
    BY <1>7, Zenon DEF WarmStart, TuneInv, CkptOK
  <2>3. releaseLeft' \in Nat /\ PolicyOK(policy')
    BY <2>1, <2>2, InstallOK, Zenon
  <2>4. Owed'
    BY <2>1, <2>3, NothingOwed, Zenon
  <2> QED
    BY <2>1, <2>2, <2>4, InstallKeeps, Zenon
<1>8. CASE UNCHANGED vars
  BY <1>8, Zenon DEF vars, control, TuneInv, BatchInBounds, CkptOK, Owed
<1> QED
  BY <1>1, <1>2, <1>3, <1>4, <1>5, <1>6, <1>7, <1>8, Zenon DEF Next

\* Resolve, seeds, overrides and warm starts keep the batch within the bounds of
\* the deployed configuration, whatever the configurations are.
THEOREM BatchInBoundsAlways == Spec => []BatchInBounds
<1>1. TuneInv => BatchInBounds
  BY Zenon DEF TuneInv
<1> QED
  BY <1>1, TuneInit, TuneNext, PTL DEF Spec

\* The release hold of a lifted override and the activation hold of a policy step
\* are served in full, through every deployment in between.
THEOREM HoldsServedAlways == Spec => HoldsServed
<1>1. TuneInv => [Tick /\ (seen.owedRelease > 0 \/ seen.owedPolicy > 0) => batch' = batch]_vars
  <2> SUFFICES ASSUME TuneInv, Tick, seen.owedRelease > 0 \/ seen.owedPolicy > 0
               PROVE  batch' = batch
    BY Zenon
  <2>1. releaseLeft > 0 \/ policy.left > 0
    BY DEF TuneInv, Owed, PolicyOK
  <2>2. profile.override > 0 => batch = profile.override
    BY Zenon DEF Tick, TuneInv, BatchInBounds
  <2> QED
    BY <2>1, <2>2, TickEffect
<1> QED
  BY <1>1, TuneInit, TuneNext, PTL DEF Spec, HoldsServed

-----------------------------------------------------------------------------
(* Flapping *)

(* What NoFlapping rests on: the last applied direction is the one the ticks  *)
(* have shown, and the cooldown that is left makes up for the ticks since.    *)
FlapInv ==
    /\ ~load.rpcHigh /\ ~load.commitHigh
    /\ profile.cooldown \in Nat /\ cooldown \in Nat /\ seen.ago \in Nat
    /\ seen.dir = lastApplied
    /\ lastApplied # "hold" => seen.ago + cooldown >= profile.cooldown

FlapStep ==
    ChangesBatch /\ IsOppositeSignal(Direction, seen.dir) => seen.ago >= profile.cooldown

\* A profile's cooldown is a number of ticks.
LEMMA CooldownType ==
    ASSUME NEW m \in DOMAIN Menus, NEW cfg \in Menus[m].cfgs, NEW b
    PROVE  Normalise(b, cfg).cooldown \in Nat
<1>1. cfg.cooldown \in Int /\ cfg.hysteresis \in Int
  BY MenuAssumption, Zenon
<1>2. Normalise(b, cfg).cooldown = Positive(cfg.cooldown, Positive(cfg.hysteresis, 2))
  BY Zenon DEF Normalise
<1> QED
  BY <1>1, <1>2 DEF Positive

\* A controller that has just been built has applied nothing.
LEMMA FlapFresh ==
    ASSUME FlapInv, NEW cfg \in Cfgs, NEW seed, NEW bounded, NEW override, NEW transition, menu \in DOMAIN Menus,
           Install(cfg, seed, bounded, override, transition), FreshControl, load' = load,
           seen'.dir = "hold" /\ seen'.ago = 0
    PROVE  FlapInv'
<1>1. profile'.cooldown \in Nat
  <2>1. Normalise(base, cfg).cooldown \in Nat
    BY CooldownType, Zenon DEF Cfgs
  <2> QED
    BY <2>1, Zenon DEF Install, FlapInv
<1> QED
  BY <1>1 DEF FreshControl, FlapInv

\* A step that changes the batch goes in the direction of its signal.
LEMMA SteppedDirection ==
    ASSUME TuneInv, enabled, NEW signal \in {"increase", "decrease"},
           batch' = Stepped(signal), batch' # batch
    PROVE  /\ Direction = signal
           /\ signal = "increase" => batch' > batch
           /\ signal = "decrease" => batch' < batch
<1>1. /\ batch \in Int /\ profile.min \in Int /\ profile.max \in Int
      /\ profile.min <= batch /\ batch <= profile.max
      /\ profile.stepUp \in Nat \ {0} /\ profile.stepDown \in Nat \ {0}
  BY DEF TuneInv, BatchInBounds, ProfileOK
<1>2. /\ signal = "increase" => batch' > batch
      /\ signal = "decrease" => batch' < batch
  BY <1>1 DEF Stepped, ClampInt
<1>3. batch' \in Int
  BY <1>1 DEF Stepped, ClampInt
<1> QED
  BY <1>1, <1>2, <1>3 DEF Direction

Kept == batch' = batch /\ lastApplied' = lastApplied /\ CoolDown

Applies(signal) ==
    /\ batch' = Stepped(signal) /\ batch' # batch
    /\ lastApplied' = signal /\ cooldown' = profile.cooldown
    /\ ~BlockedByCooldown(signal, load)

\* An adaptive tick counts the cooldown down or applies a change that the
\* cooldown does not block.
LEMMA AdaptiveEffect ==
    ASSUME NEW state, AdaptiveTick(load, state)
    PROVE  Kept \/ \E signal \in {"increase", "decrease"} : Applies(signal)
<1> DEFINE signal == IF state = "healthy" THEN ClassifySignal(load, profile) ELSE "hold"
<1>1. signal \in {"hold", "increase", "decrease"}
  BY Zenon DEF ClassifySignal
<1>2. \/ DeferCooldown(signal)
      \/ NoSignal
      \/ ~BlockedByCooldown(signal, load) /\ signal # "hold" /\ Pressure(signal)
  BY Zenon DEF AdaptiveTick
<1> HIDE DEF signal
<1>3. CASE DeferCooldown(signal)
  BY <1>3, Zenon DEF DeferCooldown, Kept
<1>4. CASE NoSignal
  BY <1>4, Zenon DEF NoSignal, Kept
<1>5. CASE ~BlockedByCooldown(signal, load) /\ signal # "hold" /\ Pressure(signal)
  <2>1. \/ Kept
        \/ /\ batch' = Stepped(signal) /\ batch' # batch
           /\ lastApplied' = signal /\ cooldown' = profile.cooldown
    BY <1>5, Zenon DEF Pressure, Kept
  <2> QED
    BY <1>1, <1>5, <2>1, Zenon DEF Applies
<1> QED
  BY <1>2, <1>3, <1>4, <1>5, Zenon

\* What a tick shows.
LEMMA Observed ==
    ASSUME TuneInv, batch' \in Int, Observe
    PROVE  /\ batch' > batch => seen'.dir = "increase" /\ seen'.ago = 0
           /\ batch' < batch => seen'.dir = "decrease" /\ seen'.ago = 0
           /\ batch' = batch /\ InHold => seen'.dir = "hold" /\ seen'.ago = 0
           /\ batch' = batch /\ ~InHold =>
                 seen'.dir = seen.dir /\ seen'.ago = Min2(seen.ago + 1, profile.cooldown + 1)
BY DEF TuneInv, Observe

\* A tick that changes the batch against the last change finds the cooldown over.
LEMMA FlapTick ==
    ASSUME TuneInv, FlapInv, Tick
    PROVE  FlapInv' /\ FlapStep
<1>1. /\ enabled /\ Observe /\ load' = load /\ profile' = profile
      /\ \/ InHold /\ HoldTick
         \/ ~InHold /\ \E state : AdaptiveTick(load, state)
  BY Zenon DEF Tick, Resolve
<1>2. batch' \in Int
  <2>1. TuneInv'
    BY TuneTick, Zenon
  <2> QED
    BY <2>1, Zenon DEF TuneInv
<1>3. CASE InHold /\ HoldTick
  <2>1. batch' = batch
    BY <1>1, <1>3, Zenon DEF HoldTick, TuneInv, BatchInBounds
  <2>2. lastApplied' = "hold" /\ cooldown' = 0
    BY <1>3, Zenon DEF HoldTick, ResetAdaptive
  <2>3. seen'.dir = "hold" /\ seen'.ago = 0
    BY <1>1, <1>2, <1>3, <2>1, Observed, Zenon
  <2> QED
    BY <1>1, <2>1, <2>2, <2>3 DEF FlapInv, FlapStep, ChangesBatch
<1>4. CASE ~InHold /\ Kept
  <2>1. seen'.dir = seen.dir /\ seen'.ago = Min2(seen.ago + 1, profile.cooldown + 1)
    BY <1>1, <1>2, <1>4, Observed, Zenon DEF Kept
  <2>2. /\ cooldown' = IF cooldown > 0 THEN cooldown - 1 ELSE 0
        /\ lastApplied' = lastApplied /\ batch' = batch
    BY <1>4, Zenon DEF Kept, CoolDown
  <2> QED
    BY <1>1, <2>1, <2>2 DEF FlapInv, FlapStep, ChangesBatch, Min2
<1>5. ASSUME ~InHold, NEW signal \in {"increase", "decrease"}, Applies(signal)
      PROVE  FlapInv' /\ FlapStep
  <2>1. /\ batch' = Stepped(signal) /\ batch' # batch
        /\ lastApplied' = signal /\ cooldown' = profile.cooldown
    BY <1>5, Zenon DEF Applies
  <2>2. /\ Direction = signal
        /\ signal = "increase" => batch' > batch
        /\ signal = "decrease" => batch' < batch
    BY <1>1, <2>1, SteppedDirection, Zenon
  <2>3. seen'.dir = signal /\ seen'.ago = 0
    BY <1>1, <1>2, <2>2, Observed, Zenon
  <2>4. FlapInv'
    BY <1>1, <2>1, <2>3 DEF FlapInv
  <2>5. ~(cooldown > 0 /\ IsOppositeSignal(signal, lastApplied))
    BY <1>5, Zenon DEF Applies, BlockedByCooldown, IsCriticalSignal, FlapInv
  <2>6. FlapStep
    <3> SUFFICES ASSUME IsOppositeSignal(signal, lastApplied) PROVE seen.ago >= profile.cooldown
      BY <2>2, Zenon DEF FlapStep, FlapInv
    <3>1. lastApplied # "hold"
      BY Zenon DEF IsOppositeSignal
    <3> QED
      BY <2>5, <3>1 DEF FlapInv
  <2> QED
    BY <2>4, <2>6, Zenon
<1> QED
  BY <1>1, <1>3, <1>4, <1>5, AdaptiveEffect, Zenon

\* At first nothing has been applied.
LEMMA FlapInit == Init => FlapInv
<1> SUFFICES ASSUME Init PROVE FlapInv
  OBVIOUS
<1>1. ~load.rpcHigh /\ ~load.commitHigh
  BY MenuAssumption, Zenon DEF Init, LoadSet
<1>2. profile.cooldown \in Nat
  <2>1. \E cfg \in Menus[menu].cfgs : profile = Normalise(base, cfg)
    BY Zenon DEF Init, Cfgs
  <2> QED
    BY <2>1, CooldownType, Zenon DEF Init
<1> QED
  BY <1>1, <1>2, Zenon DEF Init, FlapInv, NothingSeen

\* Every step keeps FlapInv, and no step flaps.
LEMMA FlapNext == TuneInv /\ FlapInv /\ [Next]_vars => FlapInv' /\ [FlapStep]_vars
<1> SUFFICES ASSUME TuneInv, FlapInv, [Next]_vars PROVE FlapInv' /\ [FlapStep]_vars
  BY Zenon
<1>m. menu \in DOMAIN Menus
  BY Zenon DEF TuneInv
<1>1. CASE Tick
  BY <1>1, FlapTick, Zenon
<1>2. ASSUME ~Tick, FlapInv' PROVE FlapInv' /\ [FlapStep]_vars
  BY <1>2, Zenon DEF FlapStep, ChangesBatch
<1>3. CASE LoadChanges
  <2>1. load' \in Menus[menu].loads
    BY <1>3, Zenon DEF LoadChanges, LoadSet
  <2>2. ~load'.rpcHigh /\ ~load'.commitHigh
    BY <1>m, <2>1, MenuAssumption, Zenon
  <2>3. FlapInv'
    BY <1>3, <2>2, Zenon DEF LoadChanges, control, FlapInv
  <2> QED BY <1>1, <1>2, <2>3, Zenon
<1>4. CASE Checkpoint \/ (\E b \in Menus[menu].bases : UpdateBatchSize(b)) \/ UNCHANGED vars
  <2>1. FlapInv'
    BY <1>4, Zenon DEF Checkpoint, UpdateBatchSize, vars, control, FlapInv
  <2> QED BY <1>1, <1>2, <2>1
<1>5. ASSUME NEW cfg \in Cfgs, Deploy(cfg) \/ ColdStart(cfg) \/ WarmStart(cfg)
      PROVE  FlapInv' /\ [FlapStep]_vars
  <2>1. /\ \E seed, bounded, override, transition : Install(cfg, seed, bounded, override, transition)
        /\ FreshControl /\ load' = load
    BY <1>5, Zenon DEF Deploy, ColdStart, WarmStart
  <2>2. seen'.dir = "hold" /\ seen'.ago = 0
    <3>1. CASE ColdStart(cfg) \/ WarmStart(cfg)
      <4>1. seen' = NothingSeen
        BY <3>1, Zenon DEF ColdStart, WarmStart
      <4> QED
        BY <4>1, Zenon DEF NothingSeen
    <3>2. CASE Deploy(cfg)
      <4> DEFINE r == OwedRelease(cfg)
                 q == OwedPolicy(cfg)
      <4>1. seen' = [NothingSeen EXCEPT !.owedRelease = r, !.owedPolicy = q]
        BY <3>2, Zenon DEF Deploy
      <4> HIDE DEF r, q
      <4> QED
        BY <4>1, Zenon DEF NothingSeen
    <3> QED
      BY <1>5, <3>1, <3>2, Zenon
  <2>3. FlapInv'
    BY <1>m, <2>1, <2>2, FlapFresh, Zenon
  <2> QED BY <1>1, <1>2, <2>3, Zenon
<1> QED
  BY <1>1, <1>3, <1>4, <1>5, Zenon DEF Next

\* The batch never goes back on its last change before CooldownTicks ticks
\* without a change have passed, whatever the loads and the deployments.
THEOREM NoFlappingAlways == Spec => NoFlapping
<1>1. TuneInv /\ FlapInv /\ [Next]_vars => [FlapStep]_vars
  BY FlapNext, Zenon
<1>2. TuneInv /\ FlapInv /\ [Next]_vars => FlapInv'
  BY FlapNext, Zenon
<1>3. ASSUME [FlapStep]_vars
      PROVE  [ChangesBatch /\ IsOppositeSignal(Direction, seen.dir) => seen.ago >= profile.cooldown]_vars
  BY <1>3, Zenon DEF FlapStep
<1> QED
  BY <1>1, <1>2, <1>3, TuneInit, TuneNext, FlapInit, PTL DEF Spec, NoFlapping

-----------------------------------------------------------------------------
(* Policy epochs *)

EpochStep(cfg) ==
    enabled /\ (policy'.epoch # policy.epoch \/ cfg.version # policy.version)
    /\ Deploy(cfg) /\ enabled' =>
    IF cfg.version # policy.version THEN policy'.epoch > policy.epoch
    ELSE /\ policy'.epoch < policy.epoch =>
              Parse[policy'.digest].lineage # <<>>
              /\ Parse[policy'.digest].lineage[1] = policy.epoch
         /\ policy'.epoch > policy.epoch + 1 =>
              Parse[policy'.digest].snapshot = <<policy.epoch, policy'.epoch>>

\* Only an enabled configuration leaves a controller running.
LEMMA DeployEnabled == ASSUME NEW cfg, Deploy(cfg), enabled' PROVE cfg.enabled
BY Zenon DEF Deploy, Install

\* For every set of manifests: an epoch goes back only along a rollback lineage
\* and skips ahead only along a snapshot cutover.
THEOREM EpochDisciplineAlways == Spec => EpochDiscipline
<1>1. ASSUME TuneInv, NEW cfg \in Cfgs PROVE EpochStep(cfg)
  <2> SUFFICES ASSUME enabled, Deploy(cfg), enabled'
               PROVE  IF cfg.version # policy.version THEN policy'.epoch > policy.epoch
                      ELSE /\ policy'.epoch < policy.epoch =>
                                Parse[policy'.digest].lineage # <<>>
                                /\ Parse[policy'.digest].lineage[1] = policy.epoch
                           /\ policy'.epoch > policy.epoch + 1 =>
                                Parse[policy'.digest].snapshot = <<policy.epoch, policy'.epoch>>
    BY <1>1, Zenon DEF EpochStep
  <2>1. cfg.enabled
    BY DeployEnabled, Zenon
  <2>2. policy.epoch \in Nat /\ cfg.epoch \in Nat
    BY <1>1, ConfigTypes, Zenon DEF TuneInv, PolicyOK, Cfgs
  <2>3. CASE cfg.version # policy.version
    <3>1. policy'.epoch = Max2(policy.epoch + 1, cfg.epoch)
      BY <1>1, <2>1, <2>3, DeployCases, Zenon
    <3> QED
      BY <2>2, <2>3, <3>1 DEF Max2
  <2>4. CASE cfg.version = policy.version
    <3>1. \/ policy'.epoch \in {policy.epoch, policy.epoch + 1}
          \/ /\ policy'.digest = cfg.digest /\ policy'.epoch = cfg.epoch
             /\ \/ IsSnapshotCutover(policy.epoch, cfg.epoch, Parse[cfg.digest])
                \/ IsRollbackLineage(policy.epoch, cfg.epoch, Parse[cfg.digest])
      BY <1>1, <2>1, <2>4, DeployCases, Zenon
    <3>2. CASE policy'.epoch \in {policy.epoch, policy.epoch + 1}
      BY <2>2, <2>4, <3>2
    <3>3. CASE /\ policy'.digest = cfg.digest /\ policy'.epoch = cfg.epoch
               /\ IsSnapshotCutover(policy.epoch, cfg.epoch, Parse[cfg.digest])
      BY <2>2, <2>4, <3>3 DEF IsSnapshotCutover
    <3>4. CASE /\ policy'.digest = cfg.digest /\ policy'.epoch = cfg.epoch
               /\ IsRollbackLineage(policy.epoch, cfg.epoch, Parse[cfg.digest])
      BY <2>2, <2>4, <3>4 DEF IsRollbackLineage, ValidateRollbackLineage
    <3> QED
      BY <3>1, <3>2, <3>3, <3>4, Zenon
  <2> QED
    BY <2>3, <2>4, Zenon
<1>2. TuneInv => [\A cfg \in Cfgs : EpochStep(cfg)]_vars
  BY <1>1, Zenon
<1>3. EpochDiscipline <=> [][\A cfg \in Cfgs : EpochStep(cfg)]_vars
  BY Zenon DEF EpochDiscipline, EpochStep
<1> QED
  BY <1>2, <1>3, TuneInit, TuneNext, PTL DEF Spec
-----------------------------------------------------------------------------
(* The order of a rollback fence's stages *)

\* An adopted digest of the same epoch follows one of the five transitions.
LEMMA AdoptedBy ==
    ASSUME NEW epoch, NEW s, NEW t, ResolveSameEpoch(epoch, s, t) = "adopt"
    PROVE  \/ CompactionTransition(epoch, s, t) \/ ExpiryTransition(epoch, s, t)
           \/ QuarantineTransition(epoch, s, t) \/ ReleaseTransition(epoch, s, t)
           \/ ReleaseWindowTransition(epoch, s, t)
BY Zenon DEF ResolveSameEpoch, FenceTransition

DigestOK(d) == d.own \in [OwnSlots -> Int] /\ d.expiry \in Int /\ d.hold \in Int /\ d.release \in Int

\* compareOwnershipOrdering is a strict order: not both ways round.
LEMMA CompareAsymmetric ==
    ASSUME NEW l \in Seq(Int), NEW r \in Seq(Int), Len(l) = Len(r), CompareLess(l, r)
    PROVE  ~CompareLess(r, l)
<1> SUFFICES ASSUME CompareLess(r, l) PROVE FALSE
  BY Zenon
<1>0. DOMAIN l = 1..Len(l) /\ DOMAIN r = 1..Len(l)
  OBVIOUS
<1>1. PICK i \in 1..Len(l) : l[i] < r[i] /\ \A j \in 1..(i - 1) : l[j] = r[j]
  BY <1>0, Zenon DEF CompareLess
<1>2. PICK k \in 1..Len(l) : r[k] < l[k] /\ \A j \in 1..(k - 1) : r[j] = l[j]
  BY <1>0, Zenon DEF CompareLess
<1>3. l[i] \in Int /\ r[i] \in Int /\ l[k] \in Int /\ r[k] \in Int
  OBVIOUS
<1>4. CASE i < k
  <2>1. i \in 1..(k - 1)
    BY <1>4
  <2> QED
    BY <1>1, <1>2, <1>3, <2>1
<1>5. CASE k < i
  <2>1. k \in 1..(i - 1)
    BY <1>5
  <2> QED
    BY <1>1, <1>2, <1>3, <2>1
<1>6. CASE i = k
  BY <1>1, <1>2, <1>3, <1>6
<1> QED
  BY <1>4, <1>5, <1>6

\* A function on 1..29 is a sequence of that length.
LEMMA TupleType == \A f \in [1..29 -> Int] : f \in Seq(Int) /\ Len(f) = 29
<1>1. ASSUME NEW n \in Nat, NEW f \in [1..n -> Int] PROVE f \in Seq(Int) /\ Len(f) = n
  OBVIOUS
<1>2. 29 \in Nat
  BY Zenon
<1> QED
  BY <1>1, <1>2, Zenon

\* All 34 compared fields are numbers.
LEMMA OrderingType ==
    ASSUME NEW epoch \in Nat, NEW d, DigestOK(d)
    PROVE  Ordering(epoch, d) \in Seq(Int) /\ Len(Ordering(epoch, d)) = 34
<1> DEFINE tail == [i \in 1..(PrefixFields + NumEpochMarkers - 5) |-> OrElse(d, i + 5, 0)]
           head == <<epoch, OrElse(d, 1, 0), DrainWatermark(d), LiveHead(d), SteadyStateWatermark(d)>>
<1>1. \A i \in OwnSlots, default \in Int : OrElse(d, i, default) \in Int
  BY Zenon DEF OrElse, DigestOK
<1>2. /\ 1 \in OwnSlots /\ 2 \in OwnSlots /\ 3 \in OwnSlots /\ 4 \in OwnSlots /\ 5 \in OwnSlots
      /\ \A i \in 1..29 : i + 5 \in OwnSlots
  BY DEF OwnSlots, PrefixFields, NumEpochMarkers
<1>3. ReleaseWatermark(d) \in Int
  BY <1>1, <1>2, Zenon DEF ReleaseWatermark, DigestOK
<1>4. DrainWatermark(d) \in Int
  BY <1>1, <1>2, <1>3, Zenon DEF DrainWatermark
<1>5. LiveHead(d) \in Int
  BY <1>1, <1>2, <1>4, Zenon DEF LiveHead
<1>6. SteadyStateWatermark(d) \in Int /\ OrElse(d, 1, 0) \in Int
  BY <1>1, <1>2, <1>5 DEF SteadyStateWatermark
<1>7. tail \in Seq(Int) /\ Len(tail) = 29
  <2>1. PrefixFields + NumEpochMarkers - 5 = 29
    BY DEF PrefixFields, NumEpochMarkers
  <2>2. ASSUME NEW i \in 1..29 PROVE OrElse(d, i + 5, 0) \in Int
    <3>1. i + 5 \in OwnSlots /\ 0 \in Int
      BY <1>2
    <3> QED
      BY <1>1, <3>1, Zenon
  <2>3. tail \in [1..29 -> Int]
    BY <2>1, <2>2, Zenon
  <2> HIDE DEF tail
  <2> QED
    BY <2>3, TupleType, Zenon
<1> HIDE DEF tail
<1>8. head \in Seq(Int) /\ Len(head) = 5
  BY <1>4, <1>5, <1>6
<1>9. Ordering(epoch, d) = head \o tail
  BY Zenon DEF Ordering, tail
<1> HIDE DEF head
<1>10. head \o tail \in Seq(Int) /\ Len(head \o tail) = Len(head) + Len(tail)
  <2>1. ASSUME NEW a \in Seq(Int), NEW b \in Seq(Int)
        PROVE  a \o b \in Seq(Int) /\ Len(a \o b) = Len(a) + Len(b)
    OBVIOUS
  <2> QED
    BY <1>7, <1>8, <2>1, Zenon
<1>11. Len(head) + Len(tail) = 34
  BY <1>7, <1>8
<1> QED
  BY <1>9, <1>10, <1>11, Zenon

\* Of two digests at most one may follow the other in a release window.
LEMMA WindowAsymmetric ==
    ASSUME NEW epoch \in Nat, NEW s, NEW t, DigestOK(s), DigestOK(t), ReleaseWindowTransition(epoch, s, t)
    PROVE  ~ReleaseWindowTransition(epoch, t, s)
<1> SUFFICES ASSUME ReleaseWindowTransition(epoch, t, s) PROVE FALSE
  BY Zenon
<1>1. \A k \in 1..9 : StageDiffers(s, t, k) <=> StageDiffers(t, s, k)
  BY Zenon DEF StageDiffers
<1>2. CASE \A k \in 1..9 : ~StageDiffers(s, t, k)
  <2>1. CompareLess(Ordering(epoch, s), Ordering(epoch, t)) /\ CompareLess(Ordering(epoch, t), Ordering(epoch, s))
    BY <1>1, <1>2, Zenon DEF ReleaseWindowTransition
  <2> QED
    BY <2>1, OrderingType, CompareAsymmetric, Zenon
<1>3. CASE \E k \in 1..9 : StageDiffers(s, t, k)
  <2>1. PICK k \in 1..9 : /\ StageDiffers(s, t, k) /\ Has(t, StageProgressionMarkers[k])
                          /\ \A j \in 1..(k - 1) : ~StageDiffers(s, t, j)
    BY <1>3, Zenon DEF ReleaseWindowTransition
  <2>2. PICK i \in 1..9 : /\ StageDiffers(t, s, i) /\ Has(s, StageProgressionMarkers[i])
                          /\ \A j \in 1..(i - 1) : ~StageDiffers(t, s, j)
    BY <1>1, <1>3, Zenon DEF ReleaseWindowTransition
  <2>3. ~(i < k) /\ ~(k < i)
    BY <1>1, <2>1, <2>2
  <2>4. i = k
    BY <2>3
  <2> QED
    BY <2>1, <2>2, <2>4, Zenon DEF StageDiffers
<1> QED
  BY <1>2, <1>3, Zenon

\* The stage of a digest that the code classifies as one.
LEMMA Stages ==
    ASSUME NEW epoch \in Nat, NEW d, DigestOK(d)
    PROVE  /\ IsReleaseDigest(epoch, d) => FenceRank(epoch, d) = 4
           /\ IsQuarantineDigest(epoch, d) => FenceRank(epoch, d) = 3
           /\ IsExpiryDigest(epoch, d) => FenceRank(epoch, d) = 2
           /\ IsCompactionDigest(epoch, d) => FenceRank(epoch, d) = 1
<1>1. /\ IsQuarantineDigest(epoch, d) => ~IsReleaseDigest(epoch, d)
      /\ IsExpiryDigest(epoch, d) => ~IsReleaseDigest(epoch, d) /\ ~IsQuarantineDigest(epoch, d)
      /\ IsCompactionDigest(epoch, d) =>
            ~IsReleaseDigest(epoch, d) /\ ~IsQuarantineDigest(epoch, d) /\ ~IsExpiryDigest(epoch, d)
  BY DEF IsReleaseDigest, IsQuarantineDigest, IsExpiryDigest, IsCompactionDigest, Absent, DigestOK
<1>2. CASE IsReleaseDigest(epoch, d)
  BY <1>1, <1>2, Zenon DEF FenceRank
<1>3. CASE ~IsReleaseDigest(epoch, d) /\ IsQuarantineDigest(epoch, d)
  BY <1>1, <1>3, Zenon DEF FenceRank
<1>4. CASE ~IsReleaseDigest(epoch, d) /\ ~IsQuarantineDigest(epoch, d) /\ IsExpiryDigest(epoch, d)
  BY <1>1, <1>4, Zenon DEF FenceRank
<1>5. CASE /\ ~IsReleaseDigest(epoch, d) /\ ~IsQuarantineDigest(epoch, d) /\ ~IsExpiryDigest(epoch, d)
           /\ IsCompactionDigest(epoch, d)
  BY <1>5, Zenon DEF FenceRank
<1> QED
  BY <1>1, <1>2, <1>3, <1>4, <1>5, Zenon

\* Whatever manifests are deployed, and in whatever order, a fence's ownership
\* within an epoch only moves forward, but for a tombstone digest.
THEOREM FenceAdvancesAlways == Spec => FenceAdvances
<1> DEFINE Forward == \A cfg \in Cfgs : FenceStep(cfg) /\ ~Parse[policy'.digest].tomb
                                          => FenceMoves(policy.digest, policy'.digest)
<1>1. TuneInv => [Forward]_vars
  <2> SUFFICES ASSUME TuneInv, NEW cfg \in Cfgs, FenceStep(cfg), ~Parse[policy'.digest].tomb
               PROVE  FenceMoves(policy.digest, policy'.digest)
    BY Zenon
  <2> DEFINE epoch == policy.epoch
             s == Parse[policy.digest]
             t == Parse[cfg.digest]
  <2>1. Deploy(cfg) /\ enabled /\ enabled' /\ cfg.enabled
    BY DeployEnabled, Zenon DEF FenceStep
  <2>2. policy'.digest # policy.digest /\ policy'.epoch = policy.epoch /\ policy'.version = policy.version
    BY Zenon DEF FenceStep
  <2>3. epoch \in Nat /\ cfg.epoch \in Nat /\ policy.digest \in DOMAIN Parse /\ cfg.digest \in DOMAIN Parse
    BY ConfigTypes, Zenon DEF TuneInv, PolicyOK, Cfgs
  <2>4. policy'.digest = cfg.digest /\ ResolveSameEpoch(epoch, s, t) = "adopt"
    <3>1. /\ policy.epoch + 1 # policy.epoch
          /\ IsSnapshotCutover(policy.epoch, cfg.epoch, t) => cfg.epoch # policy.epoch
          /\ IsRollbackLineage(policy.epoch, cfg.epoch, t) => cfg.epoch # policy.epoch
      BY <2>3 DEF IsSnapshotCutover, IsRollbackLineage
    <3>2. policy'.version = cfg.version
      BY <2>1, DeployCases, Zenon
    <3> QED
      BY <2>1, <2>2, <3>1, <3>2, DeployCases, Zenon
  <2>5. DigestOK(s) /\ DigestOK(t)
    BY <2>3, ParseAssumption, Zenon DEF DigestOK
  <2> HIDE DEF s, t, epoch
  <2>6. ~CompactionTransition(epoch, s, t)
    BY <2>4, Zenon DEF CompactionTransition, t
  <2>7. \/ FenceRank(epoch, t) > FenceRank(epoch, s)
        \/ /\ FenceRank(epoch, s) = 4 /\ FenceRank(epoch, t) = 4
           /\ ~ReleaseWindowTransition(epoch, t, s)
    <3>1. CASE ExpiryTransition(epoch, s, t)
      <4>1. FenceRank(epoch, s) = 1 /\ FenceRank(epoch, t) = 2
        BY <2>3, <2>5, <3>1, Stages, Zenon DEF ExpiryTransition
      <4> QED
        BY <4>1
    <3>2. CASE QuarantineTransition(epoch, s, t)
      <4>1. FenceRank(epoch, s) = 2 /\ FenceRank(epoch, t) = 3
        BY <2>3, <2>5, <3>2, Stages, Zenon DEF QuarantineTransition
      <4> QED
        BY <4>1
    <3>3. CASE ReleaseTransition(epoch, s, t)
      <4>1. FenceRank(epoch, s) = 3 /\ FenceRank(epoch, t) = 4
        BY <2>3, <2>5, <3>3, Stages, Zenon DEF ReleaseTransition
      <4> QED
        BY <4>1
    <3>4. CASE ReleaseWindowTransition(epoch, s, t)
      <4>1. FenceRank(epoch, s) = 4 /\ FenceRank(epoch, t) = 4
        <5>1. IsReleaseDigest(epoch, s) /\ IsReleaseDigest(epoch, t)
          BY <3>4, Zenon DEF ReleaseWindowTransition, HasOwnership
        <5> QED
          BY <2>3, <2>5, <5>1, Stages, Zenon
      <4> QED
        BY <2>3, <2>5, <3>4, <4>1, WindowAsymmetric, Zenon
    <3> QED
      BY <2>4, <2>6, <3>1, <3>2, <3>3, <3>4, AdoptedBy, Zenon
  <2> QED
    BY <2>4, <2>7, Zenon DEF FenceMoves, s, t, epoch
<1>2. FenceAdvances <=> [][Forward]_vars
  BY Zenon DEF FenceAdvances
<1> QED
  BY <1>1, <1>2, TuneInit, TuneNext, PTL DEF Spec
=============================================================================
