------------------------- MODULE PipelineLifecycle -------------------------
(***************************************************************************)
(* Pipeline.Run: the loop that starts one run of the stages, restarts it   *)
(* after failures, stops it for replays and backfills, and parks while the *)
(* pipeline is deactivated (internal/pipeline/pipeline.go, health.go,      *)
(* config_watcher.go; the tick of coordinator.go, for its backfill half).  *)
(*                                                                         *)
(* The stages are abstracted to a run that raises the watermark, and may   *)
(* fail; IndexingPipeline has them in detail and takes a purge as one step *)
(* with no stage running, which PurgeExcludesWorkers justifies.            *)
(***************************************************************************)
EXTENDS Integers, Sequences, FiniteSets, FiniteSetsExt

CONSTANTS
    Replays,          \* requests of the admin API
    ReplayFrom,       \* Replays -> the block to purge from
    Addresses,        \* watched addresses
    BackfillBlocks,   \* blocks a backfill may be asked from
    BatchSize,        \* blocks per tick
    MaxBlock,         \* bound: the highest head of the chain
    MaxFailures,      \* bound: failures of a run
    MaxDBFailures,    \* bound: purges and clears the database fails
    MaxBackfills,     \* bound: backfill requests
    MaxConfigs,       \* bound: changes of the is_active runtime config
    UnhealthyThreshold

ASSUME LifecycleAssumption ==
    /\ MaxBlock \in Nat /\ MaxFailures \in Nat /\ BatchSize \in Nat \ {0}
    /\ ReplayFrom \in [Replays -> 0 .. MaxBlock + 1]
    /\ BackfillBlocks \subseteq Nat

VARIABLES
    ctxDone,          \* the process is shutting down
    pc, task,         \* where Run is, and what it stops the run for
    run,              \* "none", "up", or how it ended: "failed", "ended" (in errCh)
    head,             \* the head of the chain
    enqueued,         \* the range the run's coordinator enqueued last, or NoRange
    watermark,        \* what the run has indexed up to
    active,           \* active and stateFlag, only changed together under activeMu
    deactiveCh,       \* BOOLEAN: the channel of one slot is full
    waiter, watcher,  \* the goroutines of the inactive wait
    config, lastSeen, \* runtime_configs.is_active, and what ConfigWatcher saw
    replayCh, replay, \* the channel of one slot; each request's state
    flags,            \* watched_addresses.backfill_from_block
    backfillCh,       \* the channel of one slot
    wanted,           \* history: backfills that still need a rewind
    failures,         \* Pipeline.consecutiveFailures
    delay,            \* the last restart backoff, in seconds
    health,           \* PipelineHealth: status, consecutive failures
    configs, backfills, dbFailures

loopVars == <<ctxDone, pc, task, run>>
activationVars == <<active, deactiveCh, waiter, watcher>>
configVars == <<config, lastSeen, configs>>
replayVars == <<replayCh, replay>>
backfillVars == <<flags, backfillCh, wanted, backfills>>
healthVars == <<failures, delay, health>>
scanVars == <<head, enqueued, watermark>>
vars == <<loopVars, scanVars, activationVars, configVars, replayVars, backfillVars, healthVars, dbFailures>>

None == -1
NoRange == [start |-> None, end |-> None]
NoTask == [kind |-> "none", from |-> None, by |-> {}]

Init ==
    /\ ctxDone = FALSE /\ pc = "loop" /\ task = NoTask /\ run = "none"
    /\ head = 0 /\ enqueued = NoRange /\ watermark = 0
    /\ active = TRUE /\ deactiveCh = FALSE /\ waiter = "none" /\ watcher = "none"
    /\ config = "none" /\ lastSeen = "none" /\ configs = 0
    /\ replayCh = <<>> /\ replay = [r \in Replays |-> "idle"]
    /\ flags = [a \in Addresses |-> None] /\ backfillCh = <<>> /\ wanted = [a \in Addresses |-> None] /\ backfills = 0
    /\ failures = 0 /\ delay = 0 /\ health = [status |-> "UNKNOWN", failures |-> 0]
    /\ dbFailures = 0

(***************************************************************************)
(* The outside: shutdown, operators, and the run of the stages             *)
(***************************************************************************)
Cancel ==
    /\ ~ctxDone
    /\ ctxDone' = TRUE
    /\ UNCHANGED <<pc, task, run, scanVars, activationVars, configVars, replayVars, backfillVars, healthVars, dbFailures>>

\* The chain grows; nothing says that it does.
NewHead ==
    /\ head < MaxBlock /\ head' = head + 1
    /\ UNCHANGED <<loopVars, enqueued, watermark, activationVars, configVars, replayVars, backfillVars, healthVars, dbFailures>>

\* An operator writes is_active to runtime_configs.
SetConfig(v) ==
    /\ config # v /\ configs < MaxConfigs
    /\ config' = v /\ configs' = configs + 1
    /\ UNCHANGED <<loopVars, scanVars, activationVars, lastSeen, replayVars, backfillVars, healthVars, dbFailures>>

\* handleReplay -> RequestReplay: send the operation, wait for its result, or give
\* up when the request's context ends; the operation stays queued then.
RequestReplay(r) ==
    /\ replay[r] = "idle" /\ replayCh = <<>>
    /\ replayCh' = <<r>> /\ replay' = [replay EXCEPT ![r] = "waiting"]
    /\ UNCHANGED <<loopVars, scanVars, activationVars, configVars, backfillVars, healthVars, dbFailures>>

GiveUp(r) ==
    /\ replay[r] = "waiting"
    /\ replay' = [replay EXCEPT ![r] = "abandoned"]
    /\ UNCHANGED <<loopVars, scanVars, activationVars, configVars, replayCh, backfillVars, healthVars, dbFailures>>

\* handleBackfill -> SetBackfillFromBlock, of the addresses of one request. Blocks above
\* the watermark are still to be scanned: only a request at or below it needs a rewind.
handleBackfill(as, b) ==
    /\ backfills < MaxBackfills /\ backfills' = backfills + 1
    /\ flags' = [a \in Addresses |-> IF a \in as THEN b ELSE flags[a]]
    /\ wanted' = [a \in Addresses |-> IF a \notin as THEN wanted[a]
                                      ELSE IF watermark > 0 /\ b <= watermark THEN b ELSE None]
    /\ UNCHANGED <<loopVars, scanVars, activationVars, configVars, replayVars, backfillCh, healthVars, dbFailures>>

\* The later stages work off what the coordinator has enqueued.
RunIndexes ==
    /\ run = "up" /\ watermark < enqueued.end
    /\ watermark' = watermark + 1
    /\ UNCHANGED <<loopVars, head, enqueued, activationVars, configVars, replayVars, backfillVars, healthVars, dbFailures>>

RunFails ==
    /\ run = "up" /\ failures < MaxFailures
    /\ run' = "failed"
    /\ UNCHANGED <<ctxDone, pc, task, scanVars, activationVars, configVars, replayVars, backfillVars, healthVars, dbFailures>>

\* Mutant: the coordinator's send to a full backfillCh ignores the context.
RunEndsUnlessBlocked ==
    /\ run = "up" /\ (ctxDone \/ pc = "stopping") /\ backfillCh = <<>>
    /\ run' = "ended"
    /\ UNCHANGED <<ctxDone, pc, task, scanVars, activationVars, configVars, replayVars, backfillVars, healthVars, dbFailures>>

\* The stages return context.Canceled once runCtx is cancelled.
RunEnds ==
    /\ run = "up" /\ (ctxDone \/ pc = "stopping")
    /\ run' = "ended"
    /\ UNCHANGED <<ctxDone, pc, task, scanVars, activationVars, configVars, replayVars, backfillVars, healthVars, dbFailures>>

pending == {flags[a] : a \in {x \in Addresses : flags[x] # None}}

\* The range of a tick when no initial lookback is configured (IndexingPipeline has one).
startBlock == IF watermark > 0 THEN watermark + 1 ELSE 0
endBlock == IF head > 0 /\ head - startBlock + 1 > BatchSize THEN startBlock + BatchSize - 1 ELSE head

Tick(limit, room) ==
    /\ run = "up" /\ Addresses # {}
    /\ ~(head > 0 /\ startBlock > head)
    /\ enqueued # [start |-> startBlock, end |-> endBlock]
    /\ enqueued' = [start |-> startBlock, end |-> endBlock]
    /\ backfillCh' = IF watermark > 0 /\ pending # {} /\ Min(pending) < limit /\ Len(backfillCh) < room
                     THEN Append(backfillCh, Min(pending)) ELSE backfillCh
    /\ UNCHANGED <<loopVars, head, watermark, activationVars, configVars, replayVars, flags, wanted, backfills, healthVars, dbFailures>>

\* Mutant: a full backfillCh takes one more.
TickQueues == Tick(startBlock, 2)


\* A tick returns early when no address is watched, when the watermark is at the head,
\* and when it would enqueue the same range again. A tick that enqueues a range then
\* looks at the flags: the lowest flagged block, if it is below the range, goes to
\* backfillCh unless that is full.
tickBlockScan == Tick(startBlock, 1)

\* stateCond.Broadcast: wakes the waiter if it is on the notify list.
Woken == IF waiter = "waiting" THEN "checking" ELSE waiter

\* Mutant: nothing tells Run to stop.
DeactivatesSilently ==
    /\ run = "up" /\ config \notin {"none", lastSeen}
    /\ lastSeen' = config /\ active' = (config = "on")
    /\ UNCHANGED <<loopVars, scanVars, deactiveCh, waiter, watcher, config, configs, replayVars, backfillVars, healthVars, dbFailures>>

\* ConfigWatcher.poll -> applyConfig -> Deactivate or Activate, which hold activeMu.
ConfigPoll ==
    /\ run = "up" /\ config \notin {"none", lastSeen} /\ waiter # "adding"
    /\ lastSeen' = config
    /\ active' = (config = "on")
    /\ deactiveCh' = (deactiveCh \/ (active /\ config = "off"))
    /\ waiter' = IF active' # active THEN Woken ELSE waiter
    /\ health' = IF active /\ config = "off" THEN [health EXCEPT !.status = "INACTIVE"] ELSE health
    /\ UNCHANGED <<loopVars, scanVars, watcher, config, configs, replayVars, backfillVars, failures, delay, dbFailures>>

(***************************************************************************)
(* Run, with the pipeline inactive                                         *)
(***************************************************************************)
\* The top of the loop: return, park, or start a run.
Loop ==
    /\ pc = "loop"
    /\ CASE ctxDone -> pc' = "returned" /\ UNCHANGED <<run, enqueued, lastSeen, health, waiter, watcher>>
         [] ~ctxDone /\ ~active ->
               /\ pc' = "inactive" /\ waiter' = "checking" /\ watcher' = "armed"
               /\ UNCHANGED <<run, enqueued, lastSeen, health>>
         [] OTHER ->
               /\ pc' = "running" /\ run' = "up" /\ enqueued' = NoRange /\ lastSeen' = "none"
               /\ health' = [health EXCEPT !.status = "HEALTHY"]
               /\ UNCHANGED <<waiter, watcher>>
    /\ UNCHANGED <<ctxDone, task, head, watermark, active, deactiveCh, config, configs, replayVars, backfillVars, failures, delay, dbFailures>>

parked == <<loopVars, scanVars, active, deactiveCh, configVars, replayVars, backfillVars, healthVars, dbFailures>>

\* The waiter holds activeMu while it tests the condition; Cond.Wait then puts it
\* on the notify list and unlocks.
WaiterChecks ==
    /\ waiter = "checking"
    /\ waiter' = IF active \/ ctxDone THEN "done" ELSE "adding"
    /\ UNCHANGED <<parked, watcher>>

WaiterWaits ==
    /\ waiter = "adding"
    /\ waiter' = "waiting"
    /\ UNCHANGED <<parked, watcher>>

\* The context watcher broadcasts without holding activeMu.
CtxWatch ==
    /\ watcher = "armed" /\ (ctxDone \/ waiter = "done")
    /\ watcher' = "done"
    /\ waiter' = IF ctxDone THEN Woken ELSE waiter
    /\ UNCHANGED parked

\* case <-activated.
Reactivated ==
    /\ pc = "inactive" /\ waiter = "done" /\ watcher = "done"
    /\ pc' = IF ctxDone THEN "returned" ELSE "loop"
    /\ health' = IF ctxDone THEN health ELSE [health EXCEPT !.status = "HEALTHY"]
    /\ UNCHANGED <<ctxDone, task, run, scanVars, activationVars, configVars, replayVars, backfillVars, failures, delay, dbFailures>>

\* case <-ctx.Done: broadcast, then wait for both goroutines.
ShutdownInactive ==
    /\ pc = "inactive" /\ ctxDone
    /\ pc' = "draining"
    /\ waiter' = Woken
    /\ UNCHANGED <<ctxDone, task, run, scanVars, active, deactiveCh, watcher, configVars, replayVars, backfillVars, healthVars, dbFailures>>

Drained ==
    /\ pc = "draining" /\ waiter = "done" /\ watcher = "done"
    /\ pc' = "returned"
    /\ UNCHANGED <<ctxDone, task, run, scanVars, activationVars, configVars, replayVars, backfillVars, healthVars, dbFailures>>

(***************************************************************************)
(* Run, with a run of the stages up                                        *)
(***************************************************************************)
\* time.Second << uint(n) in 64 bits, then the cap: a second is 1953125 * 2^9 ns, so
\* bits of 1953125 reach the sign bit when fewer than 22 are left for them.
\* Seconds; a delay that is not positive fires at once.
calcRestartBackoff(n) ==
    LET bits == 64 - (n + 9)
        low == 1953125 % 2^bits
    IN  IF bits >= 22 THEN (IF n > 8 THEN 300 ELSE 2^n)
        ELSE IF bits <= 0 THEN 0
        ELSE IF low >= 2^(bits - 1) THEN 0 ELSE 300

becameUnhealthy ==
    health.failures + 1 >= UnhealthyThreshold /\ health.status # "UNHEALTHY"

\* case err := <-errCh, an error: count it, tell the alerter, back off.
RunFailed ==
    /\ pc = "running" /\ run = "failed"
    /\ run' = "none" /\ pc' = "backoff"
    /\ failures' = failures + 1
    /\ delay' = calcRestartBackoff(failures + 1)
    /\ health' = [status |-> IF becameUnhealthy THEN "UNHEALTHY" ELSE health.status,
                  failures |-> health.failures + 1]
    /\ UNCHANGED <<ctxDone, task, scanVars, activationVars, configVars, replayVars, backfillVars, dbFailures>>

Backoff ==
    /\ pc = "backoff"
    /\ pc' \in {"loop"} \cup (IF ctxDone THEN {"returned"} ELSE {})
    /\ UNCHANGED <<ctxDone, task, run, scanVars, activationVars, configVars, replayVars, backfillVars, healthVars, dbFailures>>

\* case err := <-errCh, nil or context.Canceled: Run returns.
RunSucceeded ==
    /\ pc = "running" /\ run = "ended"
    /\ run' = "none" /\ pc' = "returned"
    /\ failures' = 0
    /\ health' = [status |-> "HEALTHY", failures |-> 0]
    /\ UNCHANGED <<ctxDone, task, scanVars, activationVars, configVars, replayVars, backfillVars, delay, dbFailures>>

\* The other cases of the select: runCancel, and what to do once errCh answers.
Stop(kind, from, by) ==
    /\ pc = "running" /\ pc' = "stopping"
    /\ task' = [kind |-> kind, from |-> from, by |-> by]
    /\ UNCHANGED <<ctxDone, run, scanVars, configVars, healthVars, dbFailures>>

TakeReplay ==
    /\ replayCh # <<>> /\ replayCh' = <<>>
    /\ Stop("replay", ReplayFrom[Head(replayCh)], {Head(replayCh)})
    /\ UNCHANGED <<activationVars, replay, backfillVars>>

TakeBackfill ==
    /\ backfillCh # <<>> /\ backfillCh' = <<>>
    /\ Stop("backfill", Head(backfillCh), {})
    /\ UNCHANGED <<activationVars, replayVars, flags, wanted, backfills>>

TakeDeactivate ==
    /\ deactiveCh /\ deactiveCh' = FALSE
    /\ Stop("deactivate", None, {})
    /\ UNCHANGED <<active, waiter, watcher, replayVars, backfillVars>>

TakeShutdown ==
    /\ ctxDone
    /\ Stop("shutdown", None, {})
    /\ UNCHANGED <<activationVars, replayVars, backfillVars>>

\* Mutant: errCh is not waited for.
StoppedUnjoined == pc = "stopping"

\* <-errCh: the stages have returned.
Stopped == pc = "stopping" /\ run # "up"

StopEnds ==
    /\ Stopped /\ task.kind \in {"deactivate", "shutdown"}
    /\ pc' = IF task.kind = "deactivate" THEN "loop" ELSE "returned"
    /\ run' = "none" /\ task' = NoTask
    /\ UNCHANGED <<ctxDone, scanVars, activationVars, configVars, replayVars, backfillVars, healthVars, dbFailures>>

\* A database call fails once the context is cancelled, and may fail before.
DBWorks == ~ctxDone /\ UNCHANGED dbFailures
DBFails == dbFailures' = dbFailures + 1 /\ (ctxDone \/ dbFailures < MaxDBFailures)

\* PurgeFromBlock, in one transaction; the answer to a replay whose caller gave up
\* stays in its resultCh.
PurgeFromBlock ==
    /\ Stopped /\ task.kind \in {"replay", "backfill"}
    /\ \/ /\ watermark' = Max({task.from - 1, 0})
          /\ wanted' = [a \in Addresses |-> IF wanted[a] >= task.from \/ watermark' = 0 THEN None ELSE wanted[a]]
          /\ DBWorks
       \/ DBFails /\ UNCHANGED <<watermark, wanted>>
    /\ replay' = [r \in Replays |-> IF r \in task.by /\ replay[r] = "waiting" THEN "answered" ELSE replay[r]]
    /\ pc' = IF task.kind = "replay" THEN "loop" ELSE "clearing"
    /\ run' = "none" /\ task' = NoTask
    /\ UNCHANGED <<ctxDone, head, enqueued, activationVars, configVars, replayCh, flags, backfillCh, backfills, healthVars>>

\* ClearBackfill runs whether or not the purge succeeded.
ClearBackfill ==
    /\ pc = "clearing" /\ pc' = "loop"
    /\ \/ flags' = [a \in Addresses |-> None] /\ DBWorks
       \/ DBFails /\ UNCHANGED flags
    /\ UNCHANGED <<ctxDone, run, task, scanVars, activationVars, configVars, replayVars, backfillCh, wanted, backfills, healthVars>>

Environment ==
    \/ Cancel \/ \E v \in {"on", "off"} : SetConfig(v)
    \/ \E r \in Replays : RequestReplay(r) \/ GiveUp(r)
    \/ \E as \in SUBSET Addresses, b \in BackfillBlocks : as # {} /\ handleBackfill(as, b)
    \/ NewHead

Stages == RunIndexes \/ RunFails \/ RunEnds \/ tickBlockScan \/ ConfigPoll

Inactive ==
    \/ WaiterChecks \/ WaiterWaits \/ CtxWatch
    \/ Reactivated \/ ShutdownInactive \/ Drained

Serve == TakeReplay \/ TakeBackfill \/ TakeDeactivate \/ TakeShutdown

Run == Loop \/ RunFailed \/ Backoff \/ RunSucceeded \/ Serve \/ StopEnds \/ PurgeFromBlock \/ ClearBackfill

Next == Environment \/ Stages \/ Inactive \/ Run

Spec == Init /\ [][Next]_vars

\* The goroutines keep running; select picks among the ready cases at random, so a
\* case that is ready again and again is taken.
FairSpec ==
    /\ Spec
    /\ WF_vars(Loop) /\ WF_vars(RunFailed \/ RunSucceeded) /\ WF_vars(Backoff)
    /\ SF_vars(TakeReplay) /\ SF_vars(TakeBackfill) /\ SF_vars(TakeDeactivate) /\ SF_vars(TakeShutdown)
    /\ WF_vars(StopEnds) /\ WF_vars(PurgeFromBlock) /\ WF_vars(ClearBackfill)
    /\ WF_vars(RunEnds) /\ WF_vars(RunIndexes) /\ WF_vars(tickBlockScan) /\ WF_vars(ConfigPoll)
    /\ WF_vars(WaiterChecks) /\ WF_vars(WaiterWaits) /\ WF_vars(CtxWatch)
    /\ WF_vars(Reactivated) /\ WF_vars(ShutdownInactive) /\ WF_vars(Drained)

(***************************************************************************)
(* Properties                                                              *)
(***************************************************************************)
\* The types, and the bounds of the one-slot channels and of the restart backoff.
TypeOK ==
    /\ ctxDone \in BOOLEAN /\ active \in BOOLEAN /\ deactiveCh \in BOOLEAN
    /\ pc \in {"loop", "inactive", "draining", "running", "backoff", "stopping", "clearing", "returned"}
    /\ task.kind \in {"none", "replay", "backfill", "deactivate", "shutdown"}
    /\ run \in {"none", "up", "failed", "ended"}
    /\ watermark \in 0 .. MaxBlock /\ head \in 0 .. MaxBlock
    /\ enqueued.start \in None .. MaxBlock + 1 /\ enqueued.end \in None .. MaxBlock
    /\ waiter \in {"none", "checking", "adding", "waiting", "done"}
    /\ watcher \in {"none", "armed", "done"}
    /\ config \in {"none", "on", "off"} /\ lastSeen \in {"none", "on", "off"}
    /\ Len(replayCh) <= 1 /\ Len(backfillCh) <= 1
    /\ replay \in [Replays -> {"idle", "waiting", "abandoned", "answered"}]
    /\ flags \in [Addresses -> BackfillBlocks \cup {None}]
    /\ wanted \in [Addresses -> BackfillBlocks \cup {None}]
    /\ failures \in 0 .. MaxFailures /\ delay \in 0 .. 300
    /\ health.status \in {"UNKNOWN", "HEALTHY", "INACTIVE", "UNHEALTHY"}

\* Run waits for every stage before it purges (pipeline.go:410-414): the watermark is never rewound while
\* a run is up that could write above it again.
PurgeExcludesWorkers ==
    [][watermark' < watermark => run # "up" /\ run' # "up"]_vars

\* Run returns after the context is cancelled, whatever it is doing: indexing,
\* backing off, purging or parked (pipeline.go:283-336, 484-488).
ShutdownReturns ==
    ctxDone ~> pc = "returned"

\* An active pipeline does return, from a run, a backoff, a purge or a restart, also
\* when a deactivation comes in after the cancellation.
ActiveShutdownReturns ==
    ctxDone /\ active ~> pc = "returned"

Off == pc = "returned" \/ ~active

\* A replay request to an active pipeline is answered unless its caller gives up or
\* Run returns, whatever failures and backfills come in between (pipeline.go:254-270).
ReplayAnswered ==
    \A r \in Replays : replay[r] = "waiting" ~> (replay[r] # "waiting" \/ Off)

\* The head is beyond what the run's coordinator has enqueued: it will enqueue more.
Ahead == watermark < head /\ enqueued.end < head


\* What the admin API answers to a backfill request (admin/server.go:585): the next tick
\* initiates it. With everything up to the head enqueued no tick looks at the flags, and
\* none does until the chain grows.
BackfillInitiated ==
    \A a \in Addresses : wanted[a] # None ~> (wanted[a] = None \/ Off)

\* Deactivation stops the run, also when it races with a failure of the run
\* (pipeline.go:210-224, 476-482).
DeactivationStops ==
    ~active ~> (active \/ run = "none")

\* A pipeline whose is_active stays on runs again (pipeline.go:209, 227-236).
ReactivationRuns ==
    <>[](config = "on" /\ ~ctxDone) => []<>(pc = "running")

\* A failure backs off at least as long as the failure before it (pipeline.go:274-281).
BackoffGrows ==
    [][failures' = failures + 1 => delay' >= delay]_vars
====
