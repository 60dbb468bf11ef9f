------------------------- MODULE CommitInterleaver -------------------------
(***************************************************************************)
(* The turn-taking of the ingesters of several pipelines before each of    *)
(* their transactions (internal/pipeline/ingester/interleaver.go and       *)
(* Ingester.processBatch).  A step is a critical section of the mutex or   *)
(* the return of a wait.                                                   *)
(***************************************************************************)
EXTENDS Integers, Sequences, FiniteSets

CONSTANTS
    Order,            \* the keys that take turns, in order
    Ingesters,        \* the callers of Acquire
    KeyOf,            \* the key (chain and network) of each of them
    HasSkewWait,      \* maxSkewWait > 0
    NoKey             \* active == ""

Keys == {Order[i] : i \in DOMAIN Order}

ASSUME InterleaverConstants ==
    /\ Order \in Seq(Keys) /\ Len(Order) > 0
    /\ \A i, j \in DOMAIN Order : Order[i] = Order[j] => i = j
    /\ HasSkewWait \in BOOLEAN
    /\ NoKey \notin Keys
    /\ IsFiniteSet(Ingesters)

VARIABLES
    turn,             \* where each caller is
    late,             \* the caller's deadline has passed
    active,           \* the key whose ingester holds the turn, or NoKey
    next,             \* index in Order of the preferred key
    waiting           \* waiting callers per key

turnVars == <<turn, late, active, next, waiting>>

Tracked(w) == KeyOf[w] \in Keys
Waits(w) == turn[w] \in {"checking", "asleep"}
Preferred == Order[next]

TurnInit ==
    /\ turn = [w \in Ingesters |-> "idle"]
    /\ late = [w \in Ingesters |-> FALSE]
    /\ active = NoKey /\ next = 1
    /\ waiting = [k \in Keys |-> 0]

\* Acquire up to its loop; a key that is not in the order needs no turn.
Acquire(w) ==
    /\ turn[w] = "idle"
    /\ turn' = [turn EXCEPT ![w] = IF Tracked(w) THEN "checking" ELSE "bypass"]
    /\ late' = [late EXCEPT ![w] = FALSE]
    /\ waiting' = IF Tracked(w) THEN [waiting EXCEPT ![KeyOf[w]] = @ + 1] ELSE waiting
    /\ UNCHANGED <<active, next>>

\* Mutant: the preferred key does not ask whether the turn is taken.
CanAcquireHeld(w) == KeyOf[w] = Preferred \/ (active = NoKey /\ waiting[Preferred] = 0 /\ late[w])

\* Mutant: a late caller overtakes a preferred one that waits.
CanAcquireLate(w) == active = NoKey /\ (KeyOf[w] = Preferred \/ ~HasSkewWait \/ late[w])

\* Mutant: a late caller waits for a preferred chain that is silent.
CanAcquireInTurn(w) == active = NoKey /\ KeyOf[w] = Preferred

canAcquireLocked(w) ==
    /\ active = NoKey
    /\ \/ KeyOf[w] = Preferred
       \/ waiting[Preferred] = 0 /\ (~HasSkewWait \/ late[w])

TakeTurn(w) ==
    /\ turn[w] = "checking" /\ canAcquireLocked(w)
    /\ turn' = [turn EXCEPT ![w] = "holding"]
    /\ waiting' = [waiting EXCEPT ![KeyOf[w]] = @ - 1]
    /\ active' = KeyOf[w]
    /\ UNCHANGED <<late, next>>

\* The channel to wait on is read under the lock, so no signal is missed.
FallAsleep(w) ==
    /\ turn[w] = "checking" /\ ~canAcquireLocked(w)
    /\ turn' = [turn EXCEPT ![w] = "asleep"]
    /\ UNCHANGED <<late, active, next, waiting>>

\* maxSkewWait has gone by since the caller came.
DeadlinePasses(w) ==
    /\ HasSkewWait /\ Waits(w) /\ ~late[w]
    /\ late' = [late EXCEPT ![w] = TRUE]
    /\ UNCHANGED <<turn, active, next, waiting>>

\* The timer of the select: at the deadline and every millisecond after it, or
\* every millisecond when there is none.
TimerFires(w) ==
    /\ turn[w] = "asleep" /\ (late[w] \/ ~HasSkewWait)
    /\ turn' = [turn EXCEPT ![w] = "checking"]
    /\ UNCHANGED <<late, active, next, waiting>>

\* signalLocked wakes every sleeper.
Signalled(t) == [w \in Ingesters |-> IF t[w] = "asleep" THEN "checking" ELSE t[w]]

\* ctx.Done while waiting: cancelWaiter.
CancelWaiter(w) ==
    /\ turn[w] = "asleep"
    /\ IF waiting[KeyOf[w]] > 0
         THEN /\ waiting' = [waiting EXCEPT ![KeyOf[w]] = @ - 1]
              /\ turn' = Signalled([turn EXCEPT ![w] = "idle"])
         ELSE UNCHANGED waiting /\ turn' = [turn EXCEPT ![w] = "idle"]
    /\ UNCHANGED <<late, active, next>>

IndexOf(k) == CHOOSE i \in DOMAIN Order : Order[i] = k

\* The release function: the turn moves on only past a committed batch.
Release(w, committed) ==
    /\ turn[w] = "holding"
    /\ active' = IF active = KeyOf[w] THEN NoKey ELSE active
    /\ next' = IF committed THEN (IndexOf(KeyOf[w]) % Len(Order)) + 1 ELSE next
    /\ turn' = Signalled([turn EXCEPT ![w] = "idle"])
    /\ UNCHANGED <<late, waiting>>

\* The release function of an untracked key does nothing.
BypassEnds(w) ==
    /\ turn[w] = "bypass"
    /\ turn' = [turn EXCEPT ![w] = "idle"]
    /\ UNCHANGED <<late, active, next, waiting>>

TurnNext == \E w \in Ingesters :
    \/ Acquire(w) \/ TakeTurn(w) \/ FallAsleep(w)
    \/ DeadlinePasses(w) \/ TimerFires(w) \/ CancelWaiter(w)
    \/ \E committed \in BOOLEAN : Release(w, committed)
    \/ BypassEnds(w)

\* Transactions end, timers fire, and the mutex lets no waiter starve.
TurnFairness == \A w \in Ingesters :
    /\ WF_turnVars(DeadlinePasses(w)) /\ WF_turnVars(TimerFires(w)) /\ WF_turnVars(FallAsleep(w))
    /\ SF_turnVars(TakeTurn(w))
    /\ WF_turnVars(\E committed \in BOOLEAN : Release(w, committed))

TurnSpec == TurnInit /\ [][TurnNext]_turnVars /\ TurnFairness
-----------------------------------------------------------------------------
(* Properties *)

\* Between Acquire and release at most one ingester of a tracked chain is in
\* its transaction, and active names it: the turns serialise the commits.
OneHolder ==
    /\ \A v, w \in Ingesters : turn[v] = "holding" /\ turn[w] = "holding" => v = w
    /\ \A w \in Ingesters : turn[w] = "holding" => active = KeyOf[w]
    /\ active # NoKey => \E w \in Ingesters : turn[w] = "holding"

\* Nobody overtakes the chain whose turn it is while one of its ingesters
\* waits, however the waits, deadlines and cancellations interleave.
PreferredFirst ==
    [][\A w \in Ingesters : turn[w] # "holding" /\ turn'[w] = "holding" /\ KeyOf[w] # Preferred
          => ~\E v \in Ingesters : Waits(v) /\ KeyOf[v] = Preferred]_turnVars

\* An ingester that asks for a turn gets it or is cancelled, also when the
\* preferred chain is silent or its commits keep failing.
TurnServed == \A w \in Ingesters : Waits(w) ~> ~Waits(w)
=============================================================================
