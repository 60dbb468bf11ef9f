------------------------------ MODULE Alerting ------------------------------
(***************************************************************************)
(* The alerter that every pipeline, its reorg detector and the             *)
(* reconciliation share (internal/alert/alerter.go, MultiAlerter.Send),    *)
(* and the health record whose changes the pipeline reports                *)
(* (internal/pipeline/health.go and Pipeline.Run).                         *)
(***************************************************************************)
EXTENDS Integers, Sequences, FiniteSets

CONSTANTS
    Chains,
    Senders,                \* who raises alerts: records of "by" and "chain"
    Channels,               \* the alerters of the MultiAlerter, as a sequence
    UnhealthyThreshold,     \* failed runs in a row that make a pipeline unhealthy
    Cooldown                \* ticks within which a repeated alert is dropped

ASSUME AlertConstants ==
    /\ Senders \subseteq [by : {"pipeline", "detector", "reconciliation"}, chain : Chains]
    /\ UnhealthyThreshold \in Nat \ {0} /\ Cooldown \in Nat \ {0}

\* The pipeline, the detector and the reconciliation each raise their own type.
Types == {"UNHEALTHY", "RECOVERY", "reorg_detector_rpc_errors", "RECONCILE_MISMATCH"}
Quiet == [type |-> "none"]
ChannelSet == {Channels[i] : i \in DOMAIN Channels}

VARIABLES
    run,            \* per chain: "idle", "running", "failed" (before the backoff), "returned"
    health,         \* per chain: the status of PipelineHealth
    failures,       \* per chain: consecutiveFailures, up to the threshold
    cool,           \* per type and chain: ticks left since lastSent
    lastAlertType,  \* per chain
    sending         \* per sender: the alert that the channels are given in turn

alertVars == <<run, health, failures, cool, lastAlertType, sending>>

AlertInit ==
    /\ run = [c \in Chains |-> "idle"] /\ health = [c \in Chains |-> "UNKNOWN"]
    /\ failures = [c \in Chains |-> 0]
    /\ cool = [t \in Types, c \in Chains |-> 0]
    /\ lastAlertType = [c \in Chains |-> "none"]
    /\ sending = [s \in Senders |-> Quiet]

StateChanged(t, c) == lastAlertType[c] \notin {"none", t}

\* Mutant: a dropped repeat renews the cooldown.
SendSliding(s, t) ==
    /\ cool' = [cool EXCEPT ![t, s.chain] = Cooldown]
    /\ IF cool[t, s.chain] > 0 /\ ~StateChanged(t, s.chain)
         THEN UNCHANGED <<lastAlertType, sending>>
         ELSE /\ lastAlertType' = [lastAlertType EXCEPT ![s.chain] = t]
              /\ sending' = [sending EXCEPT ![s] =
                     [type |-> t, left |-> Channels, got |-> {}, missed |-> {}]]

\* Send under the lock: drop a repeat, or note it and hand it to the channels.
Send(s, t) ==
    IF cool[t, s.chain] > 0 /\ ~StateChanged(t, s.chain)
      THEN UNCHANGED <<cool, lastAlertType, sending>>
      ELSE /\ cool' = [cool EXCEPT ![t, s.chain] = Cooldown]
           /\ lastAlertType' = [lastAlertType EXCEPT ![s.chain] = t]
           /\ sending' = [sending EXCEPT ![s] =
                  [type |-> t, left |-> Channels, got |-> {}, missed |-> {}]]

NoSend == UNCHANGED <<cool, lastAlertType, sending>>

\* One alerter of the loop: an error is remembered and the loop goes on.
TryChannel(s, ok) ==
    /\ sending[s] # Quiet /\ sending[s].left # <<>>
    /\ sending' = [sending EXCEPT
           ![s].left = Tail(@),
           ![s].got = IF ok THEN @ \cup {Head(sending[s].left)} ELSE @,
           ![s].missed = IF ok THEN @ ELSE @ \cup {Head(sending[s].left)}]
    /\ UNCHANGED <<run, health, failures, cool, lastAlertType>>

SendReturns(s) ==
    /\ sending[s] # Quiet /\ sending[s].left = <<>>
    /\ sending' = [sending EXCEPT ![s] = Quiet]
    /\ UNCHANGED <<run, health, failures, cool, lastAlertType>>

AlertTick ==
    /\ \E k \in Types \X Chains : cool[k] > 0
    /\ cool' = [k \in Types \X Chains |-> IF cool[k] = 0 THEN 0 ELSE cool[k] - 1]
    /\ UNCHANGED <<run, health, failures, lastAlertType, sending>>
-----------------------------------------------------------------------------
Pipeline(c) == [by |-> "pipeline", chain |-> c]

\* Each iteration of Pipeline.Run starts as healthy.
RunStarts(c) ==
    /\ Pipeline(c) \in Senders /\ sending[Pipeline(c)] = Quiet
    /\ run[c] \in {"idle", "failed"}
    /\ run' = [run EXCEPT ![c] = "running"]
    /\ health' = [health EXCEPT ![c] = "HEALTHY"]
    /\ UNCHANGED failures /\ NoSend

\* RecordFailure and the alert for a pipeline that became unhealthy.
RunFails(c) ==
    LET n == IF failures[c] < UnhealthyThreshold THEN failures[c] + 1 ELSE failures[c]
        becameUnhealthy == n >= UnhealthyThreshold /\ health[c] # "UNHEALTHY"
    IN  /\ run[c] = "running"
        /\ run' = [run EXCEPT ![c] = "failed"]
        /\ failures' = [failures EXCEPT ![c] = n]
        /\ health' = [health EXCEPT ![c] = IF becameUnhealthy THEN "UNHEALTHY" ELSE @]
        /\ IF becameUnhealthy THEN Send(Pipeline(c), "UNHEALTHY") ELSE NoSend

\* RecordSuccessWithRecovery when the run ended without an error.
RunReturns(c) ==
    /\ run[c] = "running"
    /\ run' = [run EXCEPT ![c] = "returned"]
    /\ failures' = [failures EXCEPT ![c] = 0]
    /\ health' = [health EXCEPT ![c] = "HEALTHY"]
    /\ IF health[c] = "UNHEALTHY" THEN Send(Pipeline(c), "RECOVERY") ELSE NoSend

\* The detector of a running pipeline and the periodic reconciliation.
Report(s, t) ==
    /\ s \in Senders /\ sending[s] = Quiet
    /\ Send(s, t)
    /\ UNCHANGED <<run, health, failures>>

AlertNext ==
    \/ AlertTick
    \/ \E c \in Chains :
          \/ RunStarts(c) \/ RunFails(c) \/ RunReturns(c)
          \/ run[c] = "running" /\ Report([by |-> "detector", chain |-> c], "reorg_detector_rpc_errors")
          \/ Report([by |-> "reconciliation", chain |-> c], "RECONCILE_MISMATCH")
    \/ \E s \in Senders : SendReturns(s) \/ \E ok \in BOOLEAN : TryChannel(s, ok)

\* Time passes, a channel answers or times out, and a failed run starts again.
AlertFairness ==
    /\ WF_alertVars(AlertTick)
    /\ \A s \in Senders : WF_alertVars(SendReturns(s)) /\ WF_alertVars(\E ok \in BOOLEAN : TryChannel(s, ok))

AlertSpec == AlertInit /\ [][AlertNext]_alertVars /\ AlertFairness
-----------------------------------------------------------------------------
\* A pipeline that keeps failing keeps being reported: dropped repeats do not
\* extend the cooldown (lastSent is written only when the alert is sent).
FailureKeepsAlerting ==
    \A c \in {s.chain : s \in {t \in Senders : t.by = "pipeline"}} :
        []<>(run[c] = "failed" /\ health[c] = "UNHEALTHY") /\ []<>(run[c] = "running")
            => []<>(sending[Pipeline(c)] # Quiet)
=============================================================================
