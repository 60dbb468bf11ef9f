------------------------------ MODULE MCAutoTune ------------------------------
(***************************************************************************)
(* Instances of AutoTune.  One menu exercises the control loop (override,  *)
(* narrower bounds, disabled), the other the policy lineage: the           *)
(* manifests of the repository's own rollback-fence tests.                 *)
(***************************************************************************)
EXTENDS AutoTune, TLC

Plain == [lineage |-> parseRollbackLineage(Absent, Absent, Absent),
          snapshot |-> parseSnapshotCutoverLineage(Absent, Absent), tomb |-> FALSE,
          expiry |-> Absent, hold |-> Absent, release |-> Absent,
          own |-> [i \in OwnSlots |-> Absent]]
Rollback == [Plain EXCEPT !.lineage = parseRollbackLineage(3, 2, 3)]
Quarantine == [Rollback EXCEPT !.expiry = 4, !.hold = 5]
Release(e) == [Quarantine EXCEPT !.release = e]
\* A release digest that carries every ownership field up to slot n; the
\* generation floor (slot 7) is not above the generation (slot 6).
Owned(n) == [Release(6) EXCEPT !.own = [i \in OwnSlots |->
                IF i > n THEN Absent ELSE IF i = 7 THEN 13 ELSE 7 + i]]
MCParse ==
    [d \in {"a", "b", "d"} |-> Plain]
    \* A rollback without its forward sequence is none.
    @@ "c" :> [Plain EXCEPT !.lineage = parseRollbackLineage(4, 3, Absent)]
    @@ "cutover" :> [Plain EXCEPT !.snapshot = parseSnapshotCutoverLineage(1, 3)]
    @@ "rollback" :> Rollback
    @@ "tombstone" :> [Rollback EXCEPT !.tomb = TRUE]
    @@ "expiry" :> [Rollback EXCEPT !.expiry = 4]
    @@ "quarantine" :> Quarantine
    @@ "release6" :> Release(6) @@ "release7" :> Release(7)
    @@ "owned20" :> Owned(20) @@ "owned26" :> Owned(26)
    @@ "bridge1" :> [Owned(3) EXCEPT !.own[1] = 1, !.own[3] = 20]

Control == [enabled |-> TRUE, min |-> 1, max |-> 3, stepUp |-> 1, stepDown |-> 2,
            lagHigh |-> 4, lagLow |-> 1, queueHigh |-> 80, queueLow |-> 0,
            hysteresis |-> 2, cooldown |-> 3, staleTicks |-> 2, recoveryTicks |-> 2,
            override |-> 0, releaseHold |-> 2, activationHold |-> 1,
            version |-> 1, digest |-> "a", epoch |-> 1]
ControlMenu == {Control,
                [Control EXCEPT !.override = 2, !.cooldown = 0],
                [Control EXCEPT !.max = 2, !.min = 0, !.version = 2, !.hysteresis = 1]}
OffMenu == {Control, [Control EXCEPT !.enabled = FALSE]}

Policy(d, e) == [Control EXCEPT !.max = 1, !.activationHold = 2, !.digest = d, !.epoch = e]
PolicyMenu == {Policy("a", 1), Policy("b", 2), Policy("c", 3), Policy("d", 4),
               Policy("cutover", 3), Policy("rollback", 2), Policy("tombstone", 2),
               [Policy("b", 2) EXCEPT !.version = 2]}
FenceMenu == {Policy(d, 2) : d \in {"rollback", "expiry", "quarantine", "release6",
                                    "release7", "owned20", "owned26", "bridge1",
                                    "tombstone"}}
             \cup {Policy("c", 3), Policy("expiry", 3)}

Load(head, depth) == [hasHead |-> TRUE, head |-> head, cursor |-> 1, depth |-> depth,
                      capacity |-> 2, rpcHigh |-> FALSE, commitHigh |-> FALSE]
MCLoads == {Load(9, 0),   \* far behind: increase
            Load(2, 0),   \* caught up and idle: decrease
            Load(4, 1),   \* in between: hold
            Load(0, 0)}   \* a head of zero: invalid telemetry
MCMenus == <<[cfgs |-> ControlMenu, loads |-> MCLoads, bases |-> {2}, deploys |-> 2],
             [cfgs |-> OffMenu, loads |-> {Load(9, 0), Load(2, 2)}, bases |-> {1, 2}, deploys |-> 2],
             [cfgs |-> PolicyMenu, loads |-> {Load(9, 0)}, bases |-> {2}, deploys |-> 3],
             [cfgs |-> FenceMenu, loads |-> {Load(9, 0)}, bases |-> {2}, deploys |-> 3]>>
=============================================================================
