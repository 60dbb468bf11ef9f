----------------------------- MODULE MCServices -----------------------------
(***************************************************************************)
(* Model checking the services beside the pipeline: the commit interleaver,*)
(* the circuit breaker, the address index, the alerter, the reconciliation *)
(* and the telemetry window.  They share no state, so a behaviour follows  *)
(* one of them, chosen initially, while the others rest.                   *)
(***************************************************************************)
EXTENDS CommitInterleaver, CircuitBreaker, AddressIndex, Alerting, Reconciliation, SignalWindow

VARIABLE focus      \* the service this behaviour follows

serviceVars == <<turnVars, breakerVars, indexVars, alertVars, reconVars, windowVars, focus>>

\* Three ingesters of the configured order and one that is not in it.
MCOrder == <<"sol", "base", "btc">>
MCKeyOf == [w1 |-> "sol", w2 |-> "base", w3 |-> "btc", w4 |-> "eth"]

\* The bits of a1 and a2 overlap; a1, a2 and a3 compete for one LRU shard.
MCHashOf == [a1 |-> <<1, 2>>, a2 |-> <<3, 2>>, a3 |-> <<5, 1>>]
MCShardOf == [a1 |-> 0, a2 |-> 0, a3 |-> 0]

\* Two senders of one chain and one of another.
MCSenders == {[by |-> "pipeline", chain |-> "sol"], [by |-> "detector", chain |-> "sol"],
              [by |-> "reconciliation", chain |-> "base"]}
MCChannels == <<"slack", "webhook">>

MCWallets == <<"w1", "w2">>

\* One address with a token and a stake beside the native balance, one without.
MCSlots == {Liquid("w1", "native"), Liquid("w1", "usdc"), Liquid("w2", "native"),
            [Liquid("w1", "native") EXCEPT !.kind = "staked"]}

At(name, init, rest) == IF focus = name THEN init ELSE init /\ rest

Init ==
    /\ focus \in {"turn", "breaker", "index", "alert", "reconciliation", "window"}
    /\ TurnInit /\ AlertInit /\ WindowInit
    /\ At("breaker", BreakerInit, backendUp)
    /\ At("index", IndexInit, \A a \in Addrs : rows[a] = Nil)
    /\ At("reconciliation", ReconInit, \A s \in Slots : chainBal[s] = 0)

Next ==
    /\ UNCHANGED focus
    /\ \/ /\ focus = "turn" /\ TurnNext
          /\ UNCHANGED <<breakerVars, indexVars, alertVars, reconVars, windowVars>>
       \/ /\ focus = "breaker" /\ BreakerNext
          /\ UNCHANGED <<turnVars, indexVars, alertVars, reconVars, windowVars>>
       \/ /\ focus = "index" /\ IndexNext
          /\ UNCHANGED <<turnVars, breakerVars, alertVars, reconVars, windowVars>>
       \/ /\ focus = "alert" /\ AlertNext
          /\ UNCHANGED <<turnVars, breakerVars, indexVars, reconVars, windowVars>>
       \/ /\ focus = "reconciliation" /\ ReconNext
          /\ UNCHANGED <<turnVars, breakerVars, indexVars, alertVars, windowVars>>
       \/ /\ focus = "window" /\ WindowNext
          /\ UNCHANGED <<turnVars, breakerVars, indexVars, alertVars, reconVars>>

\* The fairness of each service, for the behaviours that follow it.
Turn == focus = "turn"
Breaker == focus = "breaker"
Alerts == focus = "alert"

Spec ==
    /\ Init /\ [][Next]_serviceVars
    /\ \A w \in Ingesters :
          /\ WF_turnVars(Turn /\ DeadlinePasses(w))
          /\ WF_turnVars(Turn /\ TimerFires(w))
          /\ WF_turnVars(Turn /\ FallAsleep(w))
          /\ SF_turnVars(Turn /\ TakeTurn(w))
          /\ WF_turnVars(Turn /\ \E committed \in BOOLEAN : Release(w, committed))
    /\ \A c \in Callers :
          /\ WF_breakerVars(Breaker /\ Allow(c))
          /\ WF_breakerVars(Breaker /\ RecordSuccess(c))
          /\ WF_breakerVars(Breaker /\ CallEnds(c))
    /\ WF_breakerVars(Breaker /\ TimeoutPasses)
    /\ WF_alertVars(Alerts /\ AlertTick)
    /\ \A s \in Senders :
          /\ WF_alertVars(Alerts /\ SendReturns(s))
          /\ WF_alertVars(Alerts /\ \E ok \in BOOLEAN : TryChannel(s, ok))
=============================================================================
