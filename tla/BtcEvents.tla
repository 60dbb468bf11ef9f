----------------------------- MODULE BtcEvents -----------------------------
(***************************************************************************)
(* A Bitcoin transaction from inputs and outputs to canonical events: the  *)
(* decoder's decodeBTCTransaction and the normalizer's                     *)
(* buildCanonicalBTCBalanceEventsMulti.                                    *)
(*                                                                         *)
(* A transaction is [chain, vin, vout], the last two sequences of          *)
(* [addr, value].  A coinbase input is left out of vin, as the decoder     *)
(* skips it.                                                               *)
(***************************************************************************)
EXTENDS BalanceEvents

IsCoins(coins) ==
  IsList(coins) /\ \A i \in DOMAIN coins : coins[i].addr \in Nat /\ coins[i].value \in Nat
IsBtcTx(tx) == IsCoins(tx.vin) /\ IsCoins(tx.vout)

Total(coins) == SumFunction([i \in DOMAIN coins |-> coins[i].value])

\* Both take the difference; without inputs (coinbase) there is no fee.
btcFee(tx) == IF Total(tx.vin) >= Total(tx.vout) THEN Total(tx.vin) - Total(tx.vout) ELSE 0

\* The first address the inputs name, in string order, pays.
deterministicAddress(coins) ==
  LET named == {coins[i].addr : i \in DOMAIN coins} \ {NoAddr}
  IN IF named = {} THEN NoAddr ELSE Min(named)

\* An input has two metadata entries more than an output.
VinSpends(tx) ==
  { [Raw(<<"vin", i - 1>>, <<i - 1, -1>>, tx.vin[i].addr, "BTC", "TRANSFER",
         -tx.vin[i].value, NoAddr) EXCEPT !.meta = 2] : i \in DOMAIN tx.vin }

\* Mutant: every output is reported at index 0.
VoutReceivesNoIndex(tx) ==
  { Raw(<<"vout", 0>>, <<0, -1>>, tx.vout[i].addr, "BTC", "TRANSFER",
        tx.vout[i].value, NoAddr) : i \in DOMAIN tx.vout }

VoutReceives(tx) ==
  { Raw(<<"vout", i - 1>>, <<i - 1, -1>>, tx.vout[i].addr, "BTC", "TRANSFER",
        tx.vout[i].value, NoAddr) : i \in DOMAIN tx.vout }

decodeBTCTransaction(tx, watched) ==
  [status |-> "SUCCESS", payer |-> deterministicAddress(tx.vin), fee |-> btcFee(tx),
   events |-> { e \in VinSpends(tx) \cup VoutReceives(tx) :
                e.addr \in watched /\ e.delta # 0 }]

-----------------------------------------------------------------------------
\* The fee event is left out when the payer has an output of exactly the fee
\* and some other watched address received something.
hasBTCFeeRepresentedAsChangeOutput(events, payer, fee) ==
  /\ \E e \in events : e.path[1] = "vin"
  /\ \E e \in events : e.path[1] = "vout" /\ e.addr # payer
  /\ \E e \in events : e.path[1] = "vout" /\ e.addr = payer /\ e.delta = fee

BtcPath(e) == e.path

buildCanonicalBTCBalanceEvents(result, watched) ==
  LET moves == BuildRaw(result.events, watched, FALSE, [e \in result.events |-> BtcPath(e)])
      emitFee == /\ result.payer \in watched
                 /\ shouldEmitFee(result.status, result.payer, result.fee)
                 /\ ~hasBTCFeeRepresentedAsChangeOutput(moves, result.payer, result.fee)
  IN OnePerID(moves \cup
       (IF emitFee THEN {Event(<<"fee", 0>>, result.payer, "BTC", "FEE", -result.fee)} ELSE {}))

\* What the chain does to an address: outputs received less inputs spent.  The
\* fee is the part of the inputs that no output returns.
BtcEffect(tx, a, asset) ==
  LET Held(coins) == SumFunctionOnSet([i \in DOMAIN coins |-> coins[i].value],
                                      {i \in DOMAIN coins : coins[i].addr = a})
  IN IF asset = "BTC" THEN Held(tx.vout) - Held(tx.vin) ELSE 0
=============================================================================
