----------------------------- MODULE EvmEvents -----------------------------
(***************************************************************************)
(* An EVM transaction from receipt to canonical events: the decoder's      *)
(* decodeBaseTransaction and the normalizer's                              *)
(* buildCanonicalBaseBalanceEventsMulti, on an L1 ("ethereum") and on a    *)
(* rollup ("base").                                                        *)
(*                                                                         *)
(* A transaction is [chain, from, to, value, status, exec, l1, logs]: exec *)
(* is gasUsed * effectiveGasPrice, l1 the rollup's data fee, logs a        *)
(* sequence of ERC-20 Transfer logs [from, to, value] of one token.  Its   *)
(* index in the block is 0.                                                *)
(***************************************************************************)
EXTENDS BalanceEvents

ZeroAddress == 99

IsEvmTx(tx) ==
  /\ tx.status \in {"SUCCESS", "FAILED"}
  /\ tx.from \in Nat \ {NoAddr} /\ tx.to \in Nat /\ tx.value \in Nat
  /\ tx.exec \in Nat /\ tx.l1 \in Nat
  /\ IsList(tx.logs)
  /\ \A i \in DOMAIN tx.logs :
       tx.logs[i].from \in Nat /\ tx.logs[i].to \in Nat /\ tx.logs[i].value \in Nat

isEVML1Chain(chain) == chain = "ethereum"

\* The metadata every event carries: the execution fee (on an L1 as gas used
\* and price), and on a rollup the data fee when there is one.
WithFeeMetadata(tx, e) ==
  [e EXCEPT !.exec = tx.exec,
            !.data = IF ~isEVML1Chain(tx.chain) /\ tx.l1 > 0 THEN tx.l1 ELSE -1]

\* The value transfer, at path tx:0.
NativeMoves(tx) ==
  IF tx.value = 0 THEN {}
  ELSE { Debit(<<"tx", 0>>, <<0, -1>>, "ETH", "TRANSFER", tx.from, tx.to, tx.value),
         Credit(<<"tx", 0>>, <<0, -1>>, "ETH", "TRANSFER", tx.from, tx.to, tx.value) }

\* Log i: from the zero address it mints, to it it burns, else it transfers; a
\* mint reports only the receiver, a burn only the giver, a log of nothing
\* neither.  A log has three metadata entries more than a value transfer.
LogMoves(tx, i) ==
  LET l == tx.logs[i]
      path == <<"log", i - 1>>
      Gives(cat) == Debit(path, <<0, -1>>, "T", cat, l.from, l.to, l.value)
      Gets(cat) == Credit(path, <<0, -1>>, "T", cat, l.from, l.to, l.value)
      moves == IF l.value = 0 THEN {}
               ELSE IF l.from = ZeroAddress THEN {Gets("MINT")}
               ELSE IF l.to = ZeroAddress THEN {Gives("BURN")}
               ELSE {Gives("TRANSFER"), Gets("TRANSFER")}
  IN { [e EXCEPT !.meta = 3] : e \in moves }

\* A reverted transaction moved nothing; only its fee was taken.
decodeBaseTransaction(tx, watched) ==
  [status |-> tx.status, payer |-> tx.from, fee |-> tx.exec + tx.l1,
   events |->
     IF tx.status = "FAILED" THEN {}
     ELSE { WithFeeMetadata(tx, e) :
            e \in { m \in NativeMoves(tx) \cup UNION {LogMoves(tx, i) : i \in DOMAIN tx.logs} :
                    m.addr \in watched } }]

-----------------------------------------------------------------------------
\* The normalizer.
PathBefore(p, q) == IF p[1] = q[1] THEN p[2] < q[2] ELSE p[1] = "log" /\ q[1] = "tx"

\* decodedEventFingerprint's order: path, address, asset, delta.
FingerprintBefore(e, f) ==
  \/ PathBefore(e.path, f.path)
  \/ e.path = f.path /\ e.addr < f.addr
  \/ e.path = f.path /\ e.addr = f.addr /\ e.asset # f.asset /\ e.asset = "ETH"
  \/ e.path = f.path /\ e.addr = f.addr /\ e.asset = f.asset /\ DeltaBefore(e.delta, f.delta)

\* Whose metadata a fee event borrows: most entries, then first fingerprint.
shouldPreferFeeMetadata(e, f) ==
  e.meta > f.meta \/ (e.meta = f.meta /\ FingerprintBefore(e, f))

feeMetadataSource(raws) ==
  CHOOSE e \in raws : \A f \in raws : f = e \/ ~shouldPreferFeeMetadata(f, e)

resolveBaseFeeEventPath(raws) ==
  IF raws = {} THEN <<"log", 0>> ELSE feeMetadataSource(raws).path

\* Mutant: the execution event always carries the whole fee, data fee included.
feeEventsWhole(chain, result, watched) ==
  LET raws == result.events
      path == resolveBaseFeeEventPath(raws)
      data == IF raws = {} THEN -1 ELSE feeMetadataSource(raws).data
      Fee(act, amount) == Event(path, result.payer, "ETH", act, -amount)
  IN IF result.payer \notin watched \/ result.fee = 0 THEN {}
     ELSE IF isEVML1Chain(chain) THEN {Fee("FEE", result.fee)}
     ELSE {Fee("FEE_EXECUTION_L2", result.fee)} \cup
          (IF data >= 0 THEN {Fee("FEE_DATA_L1", data)} ELSE {})

\* The fee events of a watched payer: one on an L1; on a rollup the execution
\* fee, which is the whole fee when no event carries the components, and the
\* data fee when some event carries it.
feeEvents(chain, result, watched) ==
  LET raws == result.events
      path == resolveBaseFeeEventPath(raws)
      exec == IF raws = {} THEN result.fee ELSE feeMetadataSource(raws).exec
      data == IF raws = {} THEN -1 ELSE feeMetadataSource(raws).data
      Fee(act, amount) == Event(path, result.payer, "ETH", act, -amount)
  IN IF result.payer \notin watched \/ ~shouldEmitFee(result.status, result.payer, result.fee)
       THEN {}
     ELSE IF isEVML1Chain(chain) THEN {Fee("FEE", result.fee)}
     ELSE {Fee("FEE_EXECUTION_L2", exec)} \cup
          (IF data >= 0 THEN {Fee("FEE_DATA_L1", data)} ELSE {})

EvmPath(e) == e.path

\* Mutant: an event's path is its position in the report.
buildCanonicalByPosition(chain, result, watched) ==
  LET position == [e \in result.events |->
                      <<"pos", Cardinality({f \in result.events : FingerprintBefore(f, e)})>>]
  IN OnePerID((IF result.status = "FAILED" THEN {}
               ELSE BuildRaw(result.events, watched, TRUE, position))
              \cup feeEvents(chain, result, watched))

buildCanonicalBaseBalanceEvents(chain, result, watched) ==
  OnePerID((IF result.status = "FAILED" THEN {}
            ELSE BuildRaw(result.events, watched, TRUE, [e \in result.events |-> EvmPath(e)]))
           \cup feeEvents(chain, result, watched))

-----------------------------------------------------------------------------
\* What the chain itself does to an address, the yardstick of the model.  The zero
\* address holds no tokens: they come into being and cease to be there.
EvmEffect(tx, a, asset) ==
  LET Net(from, to, v) == (IF to = a THEN v ELSE 0) - (IF from = a THEN v ELSE 0)
      fee == IF a = tx.from THEN tx.exec + tx.l1 ELSE 0
      moved == tx.status = "SUCCESS"
  IN CASE asset = "ETH" -> (IF moved THEN Net(tx.from, tx.to, tx.value) ELSE 0) - fee
       [] asset = "T" -> IF ~moved \/ a = ZeroAddress THEN 0
            ELSE SumFunction([i \in DOMAIN tx.logs |->
                                Net(tx.logs[i].from, tx.logs[i].to, tx.logs[i].value)])
       [] OTHER -> 0
=============================================================================
