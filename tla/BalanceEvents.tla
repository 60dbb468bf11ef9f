--------------------------- MODULE BalanceEvents ---------------------------
(***************************************************************************)
(* Balance events as the decoder service reports them ("raw" events) and   *)
(* as the normalizer rebuilds them, and the helpers that the three chain   *)
(* families share.                                                         *)
(*                                                                         *)
(* A raw event keeps what the normalizer reads of BalanceEventInfo:        *)
(*   path  the event path in the metadata, <<kind, index>>, or NoPath;     *)
(*   ix    the pair <<outer, inner>> of instruction indices;               *)
(*   addr, asset, cat, delta, cp (counterparty);                           *)
(*   exec, data  the fee components in the metadata, -1 when absent;       *)
(*   meta  how many metadata entries it has beyond those every event of    *)
(*         the transaction has.                                            *)
(* A canonical event has path, addr, asset, act and delta; its event id is *)
(* the hash of everything but the delta, modelled as that tuple.  An       *)
(* address is a natural number (0 is the empty string) so that the string  *)
(* order the code sorts addresses by is the order of numbers.              *)
(***************************************************************************)
EXTENDS Integers, Sequences, FiniteSets, Functions, FiniteSetsExt

NoPath == <<"none", 0>>
NoAddr == 0

IsList(s) == Len(s) \in Nat /\ DOMAIN s = 1..Len(s)

Raw(path, ix, addr, asset, cat, delta, cp) ==
  [path |-> path, ix |-> ix, addr |-> addr, asset |-> asset, cat |-> cat,
   delta |-> delta, cp |-> cp, exec |-> -1, data |-> -1, meta |-> 0]

\* The debit and the credit of one movement, each naming the other side.
Debit(path, ix, asset, cat, from, to, amount) ==
  Raw(path, ix, from, asset, cat, -amount, to)
Credit(path, ix, asset, cat, from, to, amount) ==
  Raw(path, ix, to, asset, cat, amount, from)

Event(path, addr, asset, act, delta) ==
  [path |-> path, addr |-> addr, asset |-> asset, act |-> act, delta |-> delta]

\* Event ids hash the transaction, path, actor, asset and activity, not the
\* amount: two rows of the same id are the same event to the store.
EventID(e) == <<e.path, e.addr, e.asset, e.act>>

\* The categories today's decoders emit; a transfer is a deposit or a
\* withdrawal by the sign of its delta.
ClassifyActivity(cat, delta) ==
  CASE cat = "TRANSFER" -> IF delta > 0 THEN "DEPOSIT" ELSE "WITHDRAWAL"
    [] cat \in {"MINT", "BURN", "FEE"} -> cat
    [] OTHER -> "OTHER"

WatchedOnly(raws, watched) == {r \in raws : r.addr \in watched}

\* The activity of an event gets its name.  On account chains a transfer to
\* oneself becomes a SELF_TRANSFER of nothing.
NormalizedEvent(e, handleSelfTransfer, path) ==
  IF handleSelfTransfer /\ e.cat = "TRANSFER" /\ e.cp = e.addr
    THEN Event(path, e.addr, e.asset, "SELF_TRANSFER", 0)
    ELSE Event(path, e.addr, e.asset, ClassifyActivity(e.cat, e.delta), e.delta)

\* Keep the events of watched addresses.  pathOf is the event path the chain's
\* canonicalize step gives each raw event.
BuildRaw(raws, watched, handleSelfTransfer, pathOf) ==
  { NormalizedEvent(e, handleSelfTransfer, pathOf[e]) : e \in WatchedOnly(raws, watched) }

\* One event per id; of two with the same id the lower delta stays (their
\* finality, action and contract are equal here, so the earlier criteria of
\* shouldReplaceCanonical*Event never decide).
OnePerID(events) ==
  { e \in events : \A f \in events : EventID(f) = EventID(e) => e.delta <= f.delta }

\* The order of deltas as strings: "-1" < "-2" < "1" < "2".
DeltaBefore(d, e) == IF d < 0 /\ e < 0 THEN d > e ELSE d < e

\* A fee is owed by any transaction that ended, by a known payer, if not zero.
shouldEmitFee(status, payer, fee) ==
  status \in {"SUCCESS", "FAILED"} /\ payer # NoAddr /\ fee # 0

SumDelta(events) == SumFunction([e \in events |-> e.delta])
=============================================================================
