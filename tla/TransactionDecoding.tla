------------------------- MODULE TransactionDecoding -------------------------
(***************************************************************************)
(* One transaction on its way from the decoder service to the event store. *)
(*                                                                         *)
(* Overlapping block ranges hand the same transaction to the normalizer    *)
(* more than once, in batches that carry the watch set of the tick they    *)
(* were made at.  A normalizer worker has the decoder report the events of *)
(* the batch's watched addresses, merges the report with what the          *)
(* "coverage floor" (a cache shared by the workers) remembers of earlier   *)
(* reports, writes the merge back, rebuilds canonical events and sends the *)
(* batch on; the one ingester collects the events and stores each event id *)
(* once.  Reading and writing the floor are separate steps: another worker *)
(* may come between.                                                       *)
(***************************************************************************)
EXTENDS EvmEvents, BtcEvents, SolanaEvents

CONSTANTS
  Txs,          \* the transactions to consider
  Addresses,    \* the addresses an operator may watch
  MaxDecodes    \* how many batches may carry the transaction

\* The zero address may be watched, but then no log goes from it to itself: the
\* decoder takes such a log for a mint and credits the zero address with it.
ASSUME DecodingAssumption ==
  /\ MaxDecodes \in Nat /\ Addresses \subseteq Nat \ {NoAddr}
  /\ \A t \in Txs :
       /\ t.chain \in {"ethereum", "base"} =>
            /\ IsEvmTx(t)
            /\ ZeroAddress \in Addresses =>
                 \A i \in DOMAIN t.logs : t.logs[i].from # ZeroAddress \/ t.logs[i].to # ZeroAddress
       /\ t.chain = "btc" => IsBtcTx(t)
       /\ t.chain \notin {"ethereum", "base", "btc"} => IsSolanaTx(t)

VARIABLES
  tx,       \* the transaction, as the chain has it
  watch,    \* the watched addresses of the next batch
  job,      \* batch -> what its worker holds
  floor,    \* the coverage floor's entry for the transaction, or NoResult
  ch,       \* normalizedCh: batches on their way to the ingester
  stored,   \* balance_events rows of the transaction
  covered   \* addresses some stored batch was built for

vars == <<tx, watch, job, floor, ch, stored, covered>>

Batches == 1 .. MaxDecodes
NoResult == [status |-> "none"]
Idle == [pc |-> "idle"]

isEVM == tx.chain \in {"ethereum", "base"}

-----------------------------------------------------------------------------
\* The decoder service routes a payload by its shape.
decode(watched) ==
  CASE isEVM -> decodeBaseTransaction(tx, watched)
    [] tx.chain = "btc" -> decodeBTCTransaction(tx, watched)
    [] OTHER -> decodeSolanaTransaction(tx, watched)

\* Where an event happened: the metadata path on EVM chains; elsewhere only a
\* path of the form outer:i|inner:j counts, which no decoder writes, so the
\* instruction indices do (for Bitcoin: the input's or the output's index).
decodedEventPath(e) == IF isEVM THEN e.path ELSE <<"ix", e.ix>>

decodedCoverageEventKey(e) == <<decodedEventPath(e), e.addr, e.asset, e.cat>>

\* f replaces e under the same key: more metadata, else first fingerprint.
shouldReplaceDecodedCoverageEvent(e, f) ==
  f.meta > e.meta \/ (f.meta = e.meta /\ DeltaBefore(f.delta, e.delta))

mergeDecodedBalanceEvents(events) ==
  { e \in events :
    \A f \in events : decodedCoverageEventKey(f) = decodedCoverageEventKey(e)
                        => ~shouldReplaceDecodedCoverageEvent(e, f) }

\* Every report of one transaction agrees on status, payer and fee, so which
\* of the two results lends those does not show.
reconcileDecodedResultCoverage(existing, incoming) ==
  IF existing = NoResult THEN incoming
  ELSE [incoming EXCEPT !.events =
          mergeDecodedBalanceEvents(existing.events \cup incoming.events)]

normalizedEvents(result, watched) ==
  CASE isEVM -> buildCanonicalBaseBalanceEvents(tx.chain, result, watched)
    [] tx.chain = "btc" -> buildCanonicalBTCBalanceEvents(result, watched)
    [] OTHER -> buildCanonicalSolanaBalanceEvents(result, watched)

-----------------------------------------------------------------------------
Init ==
  /\ tx \in Txs
  /\ watch \in {{a} : a \in Addresses}
  /\ job = [k \in Batches |-> Idle]
  /\ floor = NoResult
  /\ ch = <<>>
  /\ stored = {}
  /\ covered = {}

\* An operator adds an address; batches made from now on watch it.
WatchAddress(a) ==
  /\ a \notin watch
  /\ watch' = watch \cup {a}
  /\ UNCHANGED <<tx, job, floor, ch, stored, covered>>

\* A worker takes the next batch and has the transaction decoded.
Decode(k) ==
  /\ job[k] = Idle
  /\ \A i \in 1 .. k - 1 : job[i] # Idle
  /\ job' = [job EXCEPT ![k] = [pc |-> "decoded", watched |-> watch, incoming |-> decode(watch)]]
  /\ UNCHANGED <<tx, watch, floor, ch, stored, covered>>

\* coverageFloor.Get.
ReadFloor(k) ==
  /\ job[k].pc = "decoded"
  /\ job' = [job EXCEPT ![k] = [pc |-> "read", watched |-> @.watched,
                                incoming |-> @.incoming, existing |-> floor]]
  /\ UNCHANGED <<tx, watch, floor, ch, stored, covered>>

\* Merge, coverageFloor.Put, build the canonical events and send the batch.
Reconcile(k) ==
  /\ job[k].pc = "read"
  /\ LET result == reconcileDecodedResultCoverage(job[k].existing, job[k].incoming)
     IN /\ floor' = result
        /\ ch' = Append(ch, [watched |-> job[k].watched, result |-> result,
                             fresh |-> job[k].existing = NoResult,
                             events |-> normalizedEvents(result, job[k].watched)])
  /\ job' = [job EXCEPT ![k] = [pc |-> "done"]]
  /\ UNCHANGED <<tx, watch, stored, covered>>

\* The floor's entry expires after ten minutes or is evicted.
FloorExpires ==
  /\ floor # NoResult
  /\ floor' = NoResult
  /\ UNCHANGED <<tx, watch, job, ch, stored, covered>>

\* Mutant: the synthetic fee does not ask whether the transaction has events.
collectEventsAlways(b) ==
  LET r == b.result
  IN b.events \cup
     (IF r.status = "FAILED" /\ r.fee # 0 /\ r.payer # NoAddr
      THEN {Event(<<"fee_only", 0>>, r.payer, "native", "FEE", -r.fee)} ELSE {})

\* The ingester charges the fee of a failed transaction that has no events.
collectEvents(b) ==
  LET r == b.result
  IN b.events \cup
     (IF r.status = "FAILED" /\ b.events = {} /\ r.fee # 0 /\ r.payer # NoAddr
      THEN {Event(<<"fee_only", 0>>, r.payer, "native", "FEE", -r.fee)} ELSE {})

\* A row whose event id is stored keeps its delta: ON CONFLICT (event_id) only
\* updates finality and where the event was found.
Ingest ==
  /\ ch # <<>>
  /\ stored' = stored \cup { e \in collectEvents(Head(ch)) :
                             \A s \in stored : EventID(s) # EventID(e) }
  /\ covered' = covered \cup Head(ch).watched
  /\ ch' = Tail(ch)
  /\ UNCHANGED <<tx, watch, job, floor>>

Next ==
  \/ \E a \in Addresses : WatchAddress(a)
  \/ \E k \in Batches : Decode(k) \/ ReadFloor(k) \/ Reconcile(k)
  \/ FloorExpires
  \/ Ingest

Spec == Init /\ [][Next]_vars

-----------------------------------------------------------------------------
Assets == {"ETH", "SOL", "BTC", "T"}
FeeActs == {"FEE", "FEE_EXECUTION_L2", "FEE_DATA_L1"}

Effect(a, asset) ==
  CASE isEVM -> EvmEffect(tx, a, asset)
    [] tx.chain = "btc" -> BtcEffect(tx, a, asset)
    [] OTHER -> SolEffect(tx, a, asset)

Of(events, a, asset) == {e \in events : e.addr = a /\ e.asset = asset}
Moves(events) == {e \in events : e.act \notin FeeActs}
Fees(events) == events \ Moves(events)

\* What the transaction costs an address in fees.
FeeOf(a, asset) ==
  LET r == decode({}) IN
  IF a = r.payer /\ asset = (IF isEVM THEN "ETH" ELSE "SOL") THEN r.fee ELSE 0

\* Whatever the floor held and whichever addresses were watched before, the
\* events a batch carries change every watched address of an account chain by
\* exactly what the transaction did to it, fee included, asset by asset
\* (normalizedTxFromResult after reconcileCoverageRegressionFlap).
NetExact ==
  tx.chain # "btc" =>
    \A i \in DOMAIN ch : \A a \in ch[i].watched, s \in Assets :
      SumDelta(Of(ch[i].events, a, s)) = Effect(a, s)

\* A Bitcoin batch merged with nothing carries, apart from the fee event, the
\* inputs and outputs of every watched address (decodeBTCTransaction,
\* canonicalizeBTCBalanceEvents).
UtxoMovesExact ==
  tx.chain = "btc" =>
    \A i \in DOMAIN ch : ch[i].fresh => \A a \in ch[i].watched :
      SumDelta(Of(Moves(ch[i].events), a, "BTC")) = Effect(a, "BTC")

\* The rows that stay after deduplication by event id, over every batch ever
\* ingested, still add up to what the transaction moved, for every address
\* that was watched when one of those batches was made (event ids of
\* buildCanonicalEventID do not depend on the watch set or on the floor).
StoredExact ==
  tx.chain # "btc" =>
    \A a \in covered, s \in Assets :
      SumDelta(Of(Moves(stored), a, s)) = Effect(a, s) + FeeOf(a, s)

\* A failed transaction costs its payer the fee once: either the normalizer
\* reports it, when the payer is watched, or the ingester's synthetic event
\* does (collectEvents, GAP-6).
FailedChargesOnce ==
  \A i \in DOMAIN ch :
    ch[i].result.status = "FAILED" =>
      SumDelta(collectEvents(ch[i])) = -ch[i].result.fee

\* The balance of every address stays what the chain says it is: the events of
\* a batch change it by what the transaction did to it (docs/architecture.md,
\* on what the ingester maintains).
BalanceExact ==
  \A i \in DOMAIN ch : \A a \in ch[i].watched, s \in Assets :
    SumDelta(Of(ch[i].events, a, s)) = Effect(a, s)
=============================================================================
