---------------------- MODULE TransactionDecoding_proofs ----------------------
(***************************************************************************)
(* Proofs about TransactionDecoding for every transaction of every length, *)
(* every set of addresses, every number of batches and every interleaving  *)
(* of the workers and the ingester.                                        *)
(*                                                                         *)
(* An account chain's transaction is a finite function of movements (the   *)
(* call's value, a log, an instruction), each with a debit and a credit    *)
(* side.  The lemmas of a chain family show that a report of the decoder   *)
(* is the sides of the watched addresses plus fee events; that merging     *)
(* such reports and rebuilding canonical events yields, for a watched      *)
(* address, exactly the events it is owed, one per movement that changes   *)
(* it; and that those sum to what the transaction did to it.  The last     *)
(* part shows that the floor, the workers, the channel and the table only  *)
(* ever hold such reports.                                                 *)
(***************************************************************************)
EXTENDS TransactionDecoding, FiniteSums

-----------------------------------------------------------------------------
\* Sums of deltas.

\* A set of events with integer deltas that can be summed.
Countable(events) == IsFiniteSet(events) /\ \A e \in events : e.delta \in Int

\* SumDelta is the sum of a function that holds the deltas.
LEMMA SumDeltaIs ==
    ASSUME NEW f, NEW events, Countable(events), \A e \in events : f[e] = e.delta
    PROVE  Summable(f, events) /\ SumDelta(events) = Sum(f, events)
<1> DEFINE d == [e \in events |-> e.delta]
<1>1. SumDelta(events) = Sum(d, events)
  BY Zenon DEF SumDelta, SumFunction, Sum
<1>2. Summable(d, events) /\ Summable(f, events) /\ \A e \in events : d[e] = f[e]
  BY Zenon DEF Summable, Countable
<1> HIDE DEF d
<1> QED
  BY <1>1, <1>2, SumEqual, Zenon

\* No events change nothing.
LEMMA SumDeltaEmpty == SumDelta({}) = 0
BY SumEmpty, Zenon DEF SumDelta, SumFunction, Sum

\* One event changes an address by its delta.
LEMMA SumDeltaOne ==
    ASSUME NEW e, e.delta \in Int
    PROVE  Countable({e}) /\ SumDelta({e}) = e.delta
<1> DEFINE f == [x \in {e} |-> x.delta]
<1>1. Countable({e}) /\ f[e] = e.delta
  BY FS_Singleton, Zenon DEF Countable
<1>2. SumDelta({e}) = Sum(f, {e})
  <2>1. \A x \in {e} : f[x] = x.delta
    BY Zenon
  <2> HIDE DEF f
  <2> QED BY <1>1, <2>1, SumDeltaIs, Zenon
<1> HIDE DEF f
<1> QED
  BY <1>1, <1>2, SumSingleton, Zenon

\* The deltas of two sets with no event in common add up.
LEMMA SumDeltaUnion ==
    ASSUME NEW S, NEW T, Countable(S), Countable(T), S \cap T = {}
    PROVE  Countable(S \cup T) /\ SumDelta(S \cup T) = SumDelta(S) + SumDelta(T)
<1> DEFINE f == [x \in S \cup T |-> x.delta]
<1>1. Countable(S \cup T)
  BY FS_Union, Zenon DEF Countable
<1>2. /\ \A x \in S : f[x] = x.delta
      /\ \A x \in T : f[x] = x.delta
      /\ \A x \in S \cup T : f[x] = x.delta
  BY Zenon
<1> HIDE DEF f
<1>3. Summable(f, S) /\ SumDelta(S) = Sum(f, S)
  BY <1>2, SumDeltaIs, Zenon
<1>4. Summable(f, T) /\ SumDelta(T) = Sum(f, T)
  BY <1>2, SumDeltaIs, Zenon
<1>5. SumDelta(S \cup T) = Sum(f, S \cup T)
  BY <1>1, <1>2, SumDeltaIs, Zenon
<1> QED
  BY <1>1, <1>3, <1>4, <1>5, SumUnion

\* Events taken one from each place of P that matters, all different: their
\* deltas add up to the net values of P when the other places have none.
LEMMA SumDeltaPlaces ==
    ASSUME NEW P, IsFiniteSet(P), NEW I \in SUBSET P, NEW ev, NEW net,
           \A p \in I : ev[p].delta = net[p],
           \A p \in P : net[p] \in Int,
           \A p \in P \ I : net[p] = 0,
           \A p, q \in I : ev[p] = ev[q] => p = q
    PROVE  Countable(ImageOf(ev, I)) /\ SumDelta(ImageOf(ev, I)) = Sum(net, P)
<1> DEFINE E == ImageOf(ev, I)
           f == [e \in E |-> e.delta]
           J == P \ I
<1>1. IsFiniteSet(I) /\ IsFiniteSet(J)
  BY FS_Subset, Zenon
<1>2. \A p \in I : ev[p] \in E /\ f[ev[p]] = net[p]
  BY Zenon DEF ImageOf
<1>3. Countable(E)
  <2>1. IsFiniteSet(E)
    BY <1>1, FiniteImage, Zenon
  <2> QED
    BY <2>1, Zenon DEF Countable, ImageOf
<1>4. \A e \in E : f[e] = e.delta
  BY Zenon
<1> HIDE DEF E, f
<1>5. SumDelta(E) = Sum(f, E)
  BY <1>3, <1>4, SumDeltaIs, Zenon
<1>6. Sum(f, E) = Sum(After(f, ev, I), I)
  <2>1. \A p \in I : f[ev[p]] \in Int
    BY <1>2, Zenon
  <2> QED
    BY <1>1, <2>1, SumImage, Zenon DEF E
<1>7. Sum(net, I) = Sum(After(f, ev, I), I)
  <2>1. Summable(net, I)
    BY <1>1, Zenon DEF Summable
  <2>2. \A p \in I : net[p] = After(f, ev, I)[p]
    BY <1>2, Zenon DEF After
  <2> QED
    BY <2>1, <2>2, SumEqual
<1>8. Sum(net, P) = Sum(net, I) + Sum(net, J)
  <2>1. Summable(net, I) /\ Summable(net, J) /\ I \cap J = {} /\ I \cup J = P
    BY <1>1, Zenon DEF Summable
  <2> HIDE DEF J
  <2>2. Sum(net, I \cup J) = Sum(net, I) + Sum(net, J)
    BY <2>1, SumUnion, Zenon
  <2> QED
    BY <2>1, <2>2, Zenon
<1>9. Sum(net, J) = 0
  BY <1>1, SumZero, Zenon
<1>10. Sum(net, I) \in Int
  BY <1>1, SumType, Zenon DEF Summable
<1> QED
  BY <1>3, <1>5, <1>6, <1>7, <1>8, <1>9, <1>10 DEF E

-----------------------------------------------------------------------------
\* Movements of an account chain, the raw events that report them, and the
\* canonical events an address is owed.

AllRaws == decode(Addresses).events
Canonical(r) == NormalizedEvent(r, TRUE, decodedEventPath(r))
RawMoves == {r \in AllRaws : r.cat # "FEE"}
Owed == {Canonical(r) : r \in RawMoves}
FeePath == <<"ix", <<-1, -1>>>>

\* Whether a movement reports an address, and the event it is owed.
Touches(m, a) == ("debit" \in m.sides /\ m.from = a) \/ ("credit" \in m.sides /\ m.to = a)

EventFor(m, a) ==
  IF m.cat = "TRANSFER" /\ m.from = m.to THEN Event(m.path, a, m.asset, "SELF_TRANSFER", 0)
  ELSE IF "debit" \in m.sides /\ m.from = a
       THEN Event(m.path, a, m.asset, ClassifyActivity(m.cat, -m.amount), -m.amount)
       ELSE Event(m.path, a, m.asset, ClassifyActivity(m.cat, m.amount), m.amount)

NetMove(m, a) == IF Touches(m, a) THEN EventFor(m, a).delta ELSE 0

\* r reports one side of movement m.
SideOf(r, m) ==
  /\ decodedEventPath(r) = m.path /\ r.asset = m.asset /\ r.cat = m.cat /\ r.meta = m.meta
  /\ \/ "debit" \in m.sides /\ r.addr = m.from /\ r.cp = m.to /\ r.delta = -m.amount
     \/ "credit" \in m.sides /\ r.addr = m.to /\ r.cp = m.from /\ r.delta = m.amount

\* The movements mv of a transaction, by place.
IsMovement(m) ==
  /\ m.amount \in Nat /\ m.meta \in Nat /\ m.cat \in {"TRANSFER", "MINT", "BURN"} /\ m.path # FeePath
  /\ m.from = m.to /\ m.from \in Addresses /\ m.cat # "TRANSFER"
       => ~("debit" \in m.sides /\ "credit" \in m.sides)

AreMovements(mv) ==
  /\ IsFiniteSet(DOMAIN mv)
  /\ \A p \in DOMAIN mv : IsMovement(mv[p])
  /\ \A p, q \in DOMAIN mv : mv[p].path = mv[q].path => p = q

\* The raw events are the sides of the movements.
Reported(mv) ==
  /\ \A r \in RawMoves : r.addr \in Addresses /\ \E p \in DOMAIN mv : SideOf(r, mv[p])
  /\ \A p \in DOMAIN mv : \A a \in Addresses :
       Touches(mv[p], a) => \E r \in RawMoves : r.addr = a /\ SideOf(r, mv[p])
  /\ \A r \in AllRaws : r.cat = "FEE" =>
       /\ r = solanaFee(tx.payer, tx.fee) /\ decodedEventPath(r) = FeePath
       /\ r.delta \in Int /\ r.meta \in Nat

Movements(mv) == AreMovements(mv) /\ Reported(mv)

\* The canonical event of either side of a movement is the one its address is
\* owed: NormalizedEvent makes one SELF_TRANSFER of both sides of a transfer to oneself.
LEMMA SideCanonical ==
    ASSUME NEW r, NEW m, IsMovement(m), SideOf(r, m), r.addr \in Addresses
    PROVE  Canonical(r) = EventFor(m, r.addr) /\ Touches(m, r.addr)
<1>1. Touches(m, r.addr)
  BY Zenon DEF SideOf, Touches
<1>2. CASE m.cat = "TRANSFER" /\ m.from = m.to
  BY <1>1, <1>2, Zenon DEF SideOf, Canonical, NormalizedEvent, EventFor
<1>3. CASE ~(m.cat = "TRANSFER" /\ m.from = m.to)
  <2>1. ~(r.cat = "TRANSFER" /\ r.cp = r.addr)
    BY <1>3, Zenon DEF SideOf
  <2>2. Canonical(r) = Event(m.path, r.addr, m.asset, ClassifyActivity(m.cat, r.delta), r.delta)
    BY <2>1, Zenon DEF Canonical, NormalizedEvent, SideOf
  <2>3. CASE "debit" \in m.sides /\ r.addr = m.from /\ r.delta = -m.amount
    BY <1>1, <1>3, <2>2, <2>3, Zenon DEF EventFor
  <2>4. CASE "credit" \in m.sides /\ r.addr = m.to /\ r.delta = m.amount /\ ~("debit" \in m.sides /\ m.from = r.addr)
    BY <1>1, <1>3, <2>2, <2>4, Zenon DEF EventFor
  <2>5. "credit" \in m.sides /\ r.addr = m.to /\ r.addr = m.from /\ "debit" \in m.sides => FALSE
    BY <1>3, Zenon DEF IsMovement
  <2> QED
    BY <1>1, <2>3, <2>4, <2>5, Zenon DEF SideOf
<1> QED
  BY <1>1, <1>2, <1>3, Zenon

\* What an owed event carries: its movement's path and asset, its address, and
\* no fee activity.
LEMMA EventFields ==
    ASSUME NEW m, NEW a, IsMovement(m)
    PROVE  /\ EventFor(m, a).path = m.path /\ EventFor(m, a).addr = a /\ EventFor(m, a).asset = m.asset
           /\ EventFor(m, a).delta \in Int /\ EventFor(m, a).act \notin FeeActs
           /\ EventFor(m, a).path # FeePath
BY DEF EventFor, Event, IsMovement, ClassifyActivity, FeeActs

\* What an address is owed in an asset: one event for each movement of it.
LEMMA OwedOf ==
    ASSUME NEW mv, Movements(mv), NEW a \in Addresses, NEW s
    PROVE  Of(Owed, a, s) =
             {EventFor(mv[p], a) : p \in {q \in DOMAIN mv : Touches(mv[q], a) /\ mv[q].asset = s}}
<1> USE DEF Movements
<1>1. ASSUME NEW d \in Of(Owed, a, s)
      PROVE  \E p \in DOMAIN mv : Touches(mv[p], a) /\ mv[p].asset = s /\ d = EventFor(mv[p], a)
  <2>1. PICK r \in RawMoves : d = Canonical(r)
    BY Zenon DEF Of, Owed
  <2>2. PICK p \in DOMAIN mv : r.addr \in Addresses /\ SideOf(r, mv[p])
    BY Zenon DEF Reported
  <2>3. IsMovement(mv[p])
    BY Zenon DEF AreMovements
  <2>4. d = EventFor(mv[p], r.addr) /\ Touches(mv[p], r.addr)
    BY <2>1, <2>2, <2>3, SideCanonical, Zenon
  <2>5. d.addr = r.addr /\ d.asset = mv[p].asset
    BY <2>3, <2>4, EventFields
  <2>6. r.addr = a /\ mv[p].asset = s
    BY <2>5, Zenon DEF Of
  <2> QED
    BY <2>4, <2>6, Zenon
<1>2. ASSUME NEW p \in DOMAIN mv, Touches(mv[p], a), mv[p].asset = s
      PROVE  EventFor(mv[p], a) \in Of(Owed, a, s)
  <2>1. PICK r \in RawMoves : r.addr = a /\ SideOf(r, mv[p])
    BY <1>2, Zenon DEF Reported
  <2>2. IsMovement(mv[p])
    BY Zenon DEF AreMovements
  <2>3. Canonical(r) = EventFor(mv[p], a)
    BY <2>1, <2>2, SideCanonical, Zenon
  <2>4. EventFor(mv[p], a) \in Owed
    BY <2>3, Zenon DEF Owed
  <2>5. EventFor(mv[p], a).addr = a /\ EventFor(mv[p], a).asset = s
    BY <1>2, <2>2, EventFields, Zenon
  <2> QED
    BY <2>4, <2>5, Zenon DEF Of
<1> QED
  BY <1>1, <1>2, Zenon

\* What the movements of mv change an address by in an asset.
NetOver(mv, a, s) == [p \in DOMAIN mv |-> IF mv[p].asset = s THEN NetMove(mv[p], a) ELSE 0]

\* What an address is owed in an asset adds up to the net of the movements.
LEMMA OwedSum ==
    ASSUME NEW mv, Movements(mv), NEW a \in Addresses, NEW s
    PROVE  /\ Countable(Of(Owed, a, s))
           /\ SumDelta(Of(Owed, a, s)) = Sum(NetOver(mv, a, s), DOMAIN mv)
<1> DEFINE P == DOMAIN mv
           I == {q \in P : Touches(mv[q], a) /\ mv[q].asset = s}
           ev == [p \in P |-> EventFor(mv[p], a)]
           net == NetOver(mv, a, s)
<1>m. /\ IsFiniteSet(P)
      /\ \A p \in P : IsMovement(mv[p])
      /\ \A p, q \in P : mv[p].path = mv[q].path => p = q
  BY Zenon DEF Movements, AreMovements
<1>e. \A p \in P : ev[p].path = mv[p].path /\ ev[p].delta \in Int
  BY <1>m, EventFields, Zenon
<1>1. \A p \in I : ev[p].delta = net[p]
  BY Zenon DEF NetOver, NetMove
<1>2. \A p \in P : net[p] \in Int
  BY <1>e DEF NetOver, NetMove
<1>3. \A p \in P \ I : net[p] = 0
  BY Zenon DEF NetOver, NetMove
<1>4. \A p, q \in I : ev[p] = ev[q] => p = q
  <2> HIDE DEF ev
  <2> QED BY <1>e, <1>m
<1>5. Of(Owed, a, s) = ImageOf(ev, I)
  BY OwedOf DEF ImageOf
<1>6. I \in SUBSET P
  BY Zenon
<1> HIDE DEF P, I, ev, net
<1>7. Countable(ImageOf(ev, I)) /\ SumDelta(ImageOf(ev, I)) = Sum(net, P)
  BY <1>m, <1>1, <1>2, <1>3, <1>4, <1>6, SumDeltaPlaces
<1> QED
  BY <1>5, <1>7, Zenon DEF net, P

\* Two raw events at one place, of one address and asset, are the same event to the normalizer.
Twins(r, q) ==
  decodedEventPath(r) = decodedEventPath(q) /\ r.addr = q.addr /\ r.asset = q.asset

\* Twins agree in all that the merge and the normalizer look at.
LEMMA TwinsAgree ==
    ASSUME NEW mv, Movements(mv), NEW r \in AllRaws, NEW q \in AllRaws, Twins(r, q)
    PROVE  /\ Canonical(r) = Canonical(q) /\ r.cat = q.cat
           /\ r.meta = q.meta /\ r.meta \in Nat /\ r.delta \in Int
           /\ r.delta = q.delta \/ r.delta = -q.delta
<1> USE DEF Movements
<1>1. ASSUME NEW e \in RawMoves
      PROVE  \E p \in DOMAIN mv : SideOf(e, mv[p]) /\ e.addr \in Addresses /\ IsMovement(mv[p])
                                  /\ Canonical(e) = EventFor(mv[p], e.addr)
                                  /\ decodedEventPath(e) # FeePath
  <2>1. PICK p \in DOMAIN mv : e.addr \in Addresses /\ SideOf(e, mv[p])
    BY Zenon DEF Reported
  <2>2. IsMovement(mv[p])
    BY Zenon DEF AreMovements
  <2>3. decodedEventPath(e) # FeePath
    BY <2>1, <2>2, Zenon DEF IsMovement, SideOf
  <2> QED
    BY <2>1, <2>2, <2>3, SideCanonical, Zenon
<1>2. CASE r.cat = "FEE"
  <2>1. decodedEventPath(q) = FeePath
    BY <1>2, Zenon DEF Reported, Twins
  <2>2. q.cat = "FEE"
    BY <1>1, <2>1, Zenon DEF RawMoves
  <2>3. r = q
    BY <1>2, <2>2, Zenon DEF Reported
  <2>4. r.delta \in Int /\ r.meta \in Nat
    BY <1>2, Zenon DEF Reported
  <2> QED
    BY <2>3, <2>4, Zenon
<1>3. CASE r.cat # "FEE"
  <2>1. r \in RawMoves
    BY <1>3, Zenon DEF RawMoves
  <2>2. q.cat # "FEE"
    BY <1>1, <2>1, Zenon DEF Reported, Twins
  <2>3. q \in RawMoves
    BY <2>2, Zenon DEF RawMoves
  <2>4. PICK p \in DOMAIN mv : SideOf(r, mv[p]) /\ IsMovement(mv[p]) /\ Canonical(r) = EventFor(mv[p], r.addr)
    BY <1>1, <2>1, Zenon
  <2>5. PICK o \in DOMAIN mv : SideOf(q, mv[o]) /\ IsMovement(mv[o]) /\ Canonical(q) = EventFor(mv[o], q.addr)
    BY <1>1, <2>3, Zenon
  <2>6. mv[p].path = mv[o].path
    BY <2>4, <2>5, Zenon DEF SideOf, Twins
  <2>7. p = o
    BY <2>6, Zenon DEF AreMovements
  <2>8. Canonical(r) = Canonical(q) /\ r.cat = q.cat /\ r.meta = q.meta /\ r.meta \in Nat
    BY <2>4, <2>5, <2>7, Zenon DEF SideOf, Twins, IsMovement
  <2>9. r.delta \in Int /\ (r.delta = q.delta \/ r.delta = -q.delta)
    BY <2>4, <2>5, <2>7 DEF SideOf, IsMovement
  <2> QED
    BY <2>8, <2>9, Zenon
<1> QED
  BY <1>2, <1>3, Zenon

\* What is owed is known by where it happened, to whom and in which asset.
LEMMA OwedFields ==
    ASSUME NEW mv, Movements(mv), NEW d \in Owed
    PROVE  /\ d.addr \in Addresses /\ d.act \notin FeeActs /\ d.delta \in Int
           /\ \E p \in DOMAIN mv : IsMovement(mv[p]) /\ d = EventFor(mv[p], d.addr)
                                   /\ d.path = mv[p].path
<1> USE DEF Movements
<1>1. PICK r \in RawMoves : d = Canonical(r)
  BY Zenon DEF Owed
<1>2. PICK p \in DOMAIN mv : r.addr \in Addresses /\ SideOf(r, mv[p])
  BY Zenon DEF Reported
<1>3. IsMovement(mv[p])
  BY Zenon DEF AreMovements
<1>4. d = EventFor(mv[p], r.addr)
  BY <1>1, <1>2, <1>3, SideCanonical, Zenon
<1>5. d.addr = r.addr /\ d.path = mv[p].path /\ d.act \notin FeeActs /\ d.delta \in Int
  BY <1>3, <1>4, EventFields, Zenon
<1> QED
  BY <1>2, <1>3, <1>4, <1>5, Zenon

\* No two owed events share a path and an address.
LEMMA OwedOnce ==
    ASSUME NEW mv, Movements(mv), NEW d \in Owed, NEW e \in Owed, d.path = e.path, d.addr = e.addr
    PROVE  d = e
<1>1. PICK p \in DOMAIN mv : d = EventFor(mv[p], d.addr) /\ d.path = mv[p].path
  BY OwedFields
<1>2. PICK q \in DOMAIN mv : e = EventFor(mv[q], e.addr) /\ e.path = mv[q].path
  BY OwedFields
<1>3. p = q
  BY <1>1, <1>2, Zenon DEF Movements, AreMovements
<1> QED
  BY <1>1, <1>2, <1>3, Zenon

\* Merging two reports loses no event: of the raw events of one coverage key one stays.
LEMMA MergeKeeps ==
    ASSUME NEW mv, Movements(mv), NEW G \in SUBSET AllRaws, NEW r \in G
    PROVE  \E q \in mergeDecodedBalanceEvents(G) : q.addr = r.addr /\ Canonical(q) = Canonical(r)
<1> DEFINE M == mergeDecodedBalanceEvents(G)
           Key(e) == decodedCoverageEventKey(e)
<1>1. ASSUME NEW e \in G, NEW f \in G, Key(e) = Key(f)
      PROVE  Twins(e, f) /\ e.addr = f.addr
  BY <1>1, Zenon DEF decodedCoverageEventKey, Twins
<1>2. CASE r \in M
  BY <1>2, Zenon
<1>3. CASE r \notin M
  <2>1. PICK f \in G : Key(f) = Key(r) /\ shouldReplaceDecodedCoverageEvent(r, f)
    BY <1>3, Zenon DEF mergeDecodedBalanceEvents
  <2>2. ASSUME NEW e \in G, Key(e) = Key(r)
        PROVE  /\ e.meta = r.meta /\ e.meta \in Nat /\ e.delta \in Int
               /\ e.delta = r.delta \/ e.delta = -r.delta
    BY <1>1, <2>2, TwinsAgree, Zenon
  <2>3. ASSUME NEW g \in G, Key(g) = Key(f) PROVE ~shouldReplaceDecodedCoverageEvent(f, g)
    <3>1. /\ f.meta = r.meta /\ g.meta = r.meta /\ r.meta \in Nat
          /\ r.delta \in Int /\ f.delta \in Int /\ g.delta \in Int
          /\ f.delta = r.delta \/ f.delta = -r.delta
          /\ g.delta = r.delta \/ g.delta = -r.delta
      BY <2>1, <2>2, <2>3, Zenon
    <3>2. DeltaBefore(f.delta, r.delta)
      BY <2>1, <3>1 DEF shouldReplaceDecodedCoverageEvent
    <3> QED
      BY <3>1, <3>2 DEF shouldReplaceDecodedCoverageEvent, DeltaBefore
  <2>4. f \in M
    BY <2>3, Zenon DEF mergeDecodedBalanceEvents
  <2>5. Canonical(f) = Canonical(r) /\ f.addr = r.addr
    BY <1>1, <2>1, TwinsAgree, Zenon
  <2> QED
    BY <2>4, <2>5, Zenon
<1> QED
  BY <1>2, <1>3, Zenon

-----------------------------------------------------------------------------
\* EVM transactions.

\* A raw event with its fee components and its metadata count.
FullRaw(path, ix, addr, asset, cat, delta, cp, exec, data, meta) ==
  [path |-> path, ix |-> ix, addr |-> addr, asset |-> asset, cat |-> cat,
   delta |-> delta, cp |-> cp, exec |-> exec, data |-> data, meta |-> meta]

\* The data fee an event of t carries, and an event of t with everything it carries.
DataOf(t) == IF ~isEVML1Chain(t.chain) /\ t.l1 > 0 THEN t.l1 ELSE -1
EvmRaw(t, path, addr, asset, cat, delta, cp, meta) ==
  FullRaw(path, <<0, -1>>, addr, asset, cat, delta, cp, t.exec, DataOf(t), meta)

\* WithFeeMetadata adds the fee components and changes nothing else.
LEMMA FeeMetadata ==
    ASSUME NEW t, NEW path, NEW addr, NEW asset, NEW cat, NEW delta, NEW cp
    PROVE  /\ WithFeeMetadata(t, Raw(path, <<0, -1>>, addr, asset, cat, delta, cp))
              = EvmRaw(t, path, addr, asset, cat, delta, cp, 0)
           /\ WithFeeMetadata(t, [Raw(path, <<0, -1>>, addr, asset, cat, delta, cp) EXCEPT !.meta = 3])
              = EvmRaw(t, path, addr, asset, cat, delta, cp, 3)
<1>1. \A e, x, y : [e EXCEPT !.exec = x, !.data = y] = [[e EXCEPT !.exec = x] EXCEPT !.data = y]
  BY Zenon
<1>2. ASSUME NEW e PROVE WithFeeMetadata(t, e) = [[e EXCEPT !.exec = t.exec] EXCEPT !.data = DataOf(t)]
  BY <1>1, Zenon DEF WithFeeMetadata, DataOf
<1> DEFINE R(exec, data, meta) == FullRaw(path, <<0, -1>>, addr, asset, cat, delta, cp, exec, data, meta)
<1>3. Raw(path, <<0, -1>>, addr, asset, cat, delta, cp) = R(-1, -1, 0)
  BY Zenon DEF Raw, FullRaw
<1>4. [R(-1, -1, 0) EXCEPT !.meta = 3] = R(-1, -1, 3)
  BY DEF FullRaw
<1>5. ASSUME NEW k PROVE WithFeeMetadata(t, R(-1, -1, k)) = R(t.exec, DataOf(t), k)
  <2>1. [R(-1, -1, k) EXCEPT !.exec = t.exec] = R(t.exec, -1, k)
    BY DEF FullRaw
  <2>2. [R(t.exec, -1, k) EXCEPT !.data = DataOf(t)] = R(t.exec, DataOf(t), k)
    BY DEF FullRaw
  <2> HIDE DEF R
  <2> QED
    BY <1>2, <2>1, <2>2, Zenon
<1> QED
  BY <1>3, <1>4, <1>5, Zenon DEF EvmRaw

LogCat(l) == IF l.from = ZeroAddress THEN "MINT" ELSE IF l.to = ZeroAddress THEN "BURN" ELSE "TRANSFER"

\* The sides of a log that are reported.
LogSides(l) ==
  IF l.value = 0 THEN {}
  ELSE IF l.from = ZeroAddress THEN {"credit"}
  ELSE IF l.to = ZeroAddress THEN {"debit"} ELSE {"debit", "credit"}

\* The movements of an EVM transaction: place 0 is the value transfer, place i log i.
EvmMovements(t) ==
  [i \in IF t.status = "FAILED" THEN {} ELSE {0} \cup DOMAIN t.logs |->
     IF i = 0
     THEN [path |-> <<"tx", 0>>, asset |-> "ETH", cat |-> "TRANSFER", from |-> t.from, to |-> t.to,
           amount |-> t.value, meta |-> 0, sides |-> IF t.value = 0 THEN {} ELSE {"debit", "credit"}]
     ELSE [path |-> <<"log", i - 1>>, asset |-> "T", cat |-> LogCat(t.logs[i]),
           from |-> t.logs[i].from, to |-> t.logs[i].to, amount |-> t.logs[i].value,
           meta |-> 3, sides |-> LogSides(t.logs[i])]]

DebitSide(t, m) == EvmRaw(t, m.path, m.from, m.asset, m.cat, -m.amount, m.to, m.meta)
CreditSide(t, m) == EvmRaw(t, m.path, m.to, m.asset, m.cat, m.amount, m.from, m.meta)

\* The raw events of the sides of a movement that are reported.
SidesOf(t, m) ==
  (IF "debit" \in m.sides THEN {DebitSide(t, m)} ELSE {}) \cup
  (IF "credit" \in m.sides THEN {CreditSide(t, m)} ELSE {})

\* The raw events of an EVM transaction are the sides of its movements.
LEMMA EvmRaws ==
    ASSUME NEW t, NEW W, DOMAIN t.logs \subseteq Nat \ {0}
    PROVE  LET mv == EvmMovements(t) IN
           decodeBaseTransaction(t, W).events =
             {r \in UNION {SidesOf(t, mv[p]) : p \in DOMAIN mv} : r.addr \in W}
<1> DEFINE mv == EvmMovements(t)
           Native == NativeMoves(t)
           Logs == UNION {LogMoves(t, i) : i \in DOMAIN t.logs}
           With(S) == {WithFeeMetadata(t, e) : e \in S}
<1>1. CASE t.status = "FAILED"
  <2>1. DOMAIN mv = {}
    BY <1>1, Zenon DEF EvmMovements
  <2>2. decodeBaseTransaction(t, W).events = {}
    BY <1>1, Zenon DEF decodeBaseTransaction
  <2> QED
    BY <2>1, <2>2, Zenon
<1>2. CASE t.status # "FAILED"
  <2>1. DOMAIN mv = {0} \cup DOMAIN t.logs
    BY <1>2, Zenon DEF EvmMovements
  <2>2. decodeBaseTransaction(t, W).events
        = {WithFeeMetadata(t, e) : e \in {m \in Native \cup Logs : m.addr \in W}}
    BY <1>2, Zenon DEF decodeBaseTransaction
  <2>a. /\ mv[0].path = <<"tx", 0>> /\ mv[0].asset = "ETH" /\ mv[0].cat = "TRANSFER"
        /\ mv[0].from = t.from /\ mv[0].to = t.to /\ mv[0].amount = t.value /\ mv[0].meta = 0
    BY <2>1, Zenon DEF EvmMovements
  <2>b. mv[0].sides = IF t.value = 0 THEN {} ELSE {"debit", "credit"}
    BY <2>1, Zenon DEF EvmMovements
  <2>3. With(Native) = SidesOf(t, mv[0])
    <3>1. CASE t.value = 0
      <4>1. mv[0].sides = {} /\ Native = {}
        BY <2>b, <3>1, Zenon DEF NativeMoves
      <4> HIDE DEF mv, Native
      <4> QED
        BY <4>1, Zenon DEF SidesOf
    <3>2. CASE t.value # 0
      <4> DEFINE d == Debit(<<"tx", 0>>, <<0, -1>>, "ETH", "TRANSFER", t.from, t.to, t.value)
                 c == Credit(<<"tx", 0>>, <<0, -1>>, "ETH", "TRANSFER", t.from, t.to, t.value)
      <4>1. WithFeeMetadata(t, d) = DebitSide(t, mv[0])
        <5> HIDE DEF mv
        <5>1. d = Raw(<<"tx", 0>>, <<0, -1>>, t.from, "ETH", "TRANSFER", -t.value, t.to)
          BY Zenon DEF Debit
        <5> HIDE DEF d
        <5>2. WithFeeMetadata(t, d) = EvmRaw(t, <<"tx", 0>>, t.from, "ETH", "TRANSFER", -t.value, t.to, 0)
          BY <5>1, FeeMetadata, Zenon
        <5> QED BY <2>a, <5>2, Zenon DEF DebitSide
      <4>2. WithFeeMetadata(t, c) = CreditSide(t, mv[0])
        <5> HIDE DEF mv
        <5>1. c = Raw(<<"tx", 0>>, <<0, -1>>, t.to, "ETH", "TRANSFER", t.value, t.from)
          BY Zenon DEF Credit
        <5> HIDE DEF c
        <5>2. WithFeeMetadata(t, c) = EvmRaw(t, <<"tx", 0>>, t.to, "ETH", "TRANSFER", t.value, t.from, 0)
          BY <5>1, FeeMetadata, Zenon
        <5> QED BY <2>a, <5>2, Zenon DEF CreditSide
      <4>3. Native = {d, c}
        BY <3>2, Zenon DEF NativeMoves
      <4>4. mv[0].sides = {"debit", "credit"}
        BY <2>b, <3>2, Zenon
      <4> HIDE DEF d, c, mv, Native
      <4>5. SidesOf(t, mv[0]) = {DebitSide(t, mv[0]), CreditSide(t, mv[0])}
        BY <4>4, Zenon DEF SidesOf
      <4> QED
        BY <4>1, <4>2, <4>3, <4>5, Zenon
    <3> QED BY <3>1, <3>2, Zenon
  <2>4. ASSUME NEW i \in DOMAIN t.logs PROVE With(LogMoves(t, i)) = SidesOf(t, mv[i])
    <3> DEFINE l == t.logs[i]
               d == [Debit(<<"log", i - 1>>, <<0, -1>>, "T", LogCat(l), l.from, l.to, l.value) EXCEPT !.meta = 3]
               c == [Credit(<<"log", i - 1>>, <<0, -1>>, "T", LogCat(l), l.from, l.to, l.value) EXCEPT !.meta = 3]
    <3>a. /\ mv[i].path = <<"log", i - 1>> /\ mv[i].asset = "T" /\ mv[i].cat = LogCat(l)
          /\ mv[i].from = l.from /\ mv[i].to = l.to /\ mv[i].amount = l.value /\ mv[i].meta = 3
      BY <2>1, Zenon DEF EvmMovements
    <3>1. WithFeeMetadata(t, d) = DebitSide(t, mv[i])
      BY <3>a, FeeMetadata DEF Debit, DebitSide
    <3>2. WithFeeMetadata(t, c) = CreditSide(t, mv[i])
      BY <3>a, FeeMetadata DEF Credit, CreditSide
    <3>b. mv[i].sides = LogSides(l)
      BY <2>1, Zenon DEF EvmMovements
    <3>3. LogMoves(t, i) = (IF "debit" \in LogSides(l) THEN {d} ELSE {}) \cup
                           (IF "credit" \in LogSides(l) THEN {c} ELSE {})
      <4>1. CASE l.value = 0
        <5>1. LogSides(l) = {} /\ LogMoves(t, i) = {}
          BY <4>1, Zenon DEF LogSides, LogMoves
        <5> HIDE DEF d, c, l
        <5> QED BY <5>1, Zenon
      <4>2. CASE l.value # 0 /\ l.from = ZeroAddress
        <5>1. LogSides(l) = {"credit"} /\ LogCat(l) = "MINT"
          BY <4>2, Zenon DEF LogSides, LogCat
        <5>2. LogMoves(t, i) = {c}
          BY <4>2, <5>1, Zenon DEF LogMoves
        <5> HIDE DEF d, c, l
        <5> QED BY <5>1, <5>2
      <4>3. CASE l.value # 0 /\ l.from # ZeroAddress /\ l.to = ZeroAddress
        <5>1. LogSides(l) = {"debit"} /\ LogCat(l) = "BURN"
          BY <4>3, Zenon DEF LogSides, LogCat
        <5>2. LogMoves(t, i) = {d}
          BY <4>3, <5>1, Zenon DEF LogMoves
        <5> HIDE DEF d, c, l
        <5> QED BY <5>1, <5>2
      <4>4. CASE l.value # 0 /\ l.from # ZeroAddress /\ l.to # ZeroAddress
        <5>1. LogSides(l) = {"debit", "credit"} /\ LogCat(l) = "TRANSFER"
          BY <4>4, Zenon DEF LogSides, LogCat
        <5>2. LogMoves(t, i) = {d, c}
          BY <4>4, <5>1, Zenon DEF LogMoves
        <5> HIDE DEF d, c, l
        <5> QED BY <5>1, <5>2
      <4> QED BY <4>1, <4>2, <4>3, <4>4, Zenon
    <3> HIDE DEF d, c, mv, l
    <3> QED
      BY <3>b, <3>1, <3>2, <3>3, Zenon DEF SidesOf
  <2>5. \A e \in Native \cup Logs : WithFeeMetadata(t, e).addr = e.addr
    <3>1. ASSUME NEW e \in Native \cup Logs PROVE "addr" \in DOMAIN e
      <4>1. CASE e \in Native
        BY <4>1 DEF NativeMoves, Debit, Credit, Raw
      <4>2. CASE e \in Logs
        <5>1. PICK i \in DOMAIN t.logs : e \in LogMoves(t, i)
          BY <4>2, Zenon
        <5> DEFINE Both(cat) ==
                     {Debit(<<"log", i - 1>>, <<0, -1>>, "T", cat, t.logs[i].from, t.logs[i].to, t.logs[i].value),
                      Credit(<<"log", i - 1>>, <<0, -1>>, "T", cat, t.logs[i].from, t.logs[i].to, t.logs[i].value)}
        <5>2. PICK cat, x : x \in Both(cat) /\ e = [x EXCEPT !.meta = 3]
          BY <5>1, Zenon DEF LogMoves
        <5>3. "addr" \in DOMAIN x
          BY <5>2 DEF Debit, Credit, Raw
        <5> QED BY <5>2, <5>3, Zenon
      <4> QED BY <4>1, <4>2, Zenon
    <3> QED
      BY <3>1, Zenon DEF WithFeeMetadata
  <2>8. {WithFeeMetadata(t, e) : e \in {m \in Native \cup Logs : m.addr \in W}}
        = {r \in With(Native \cup Logs) : r.addr \in W}
    <3> HIDE DEF Native, Logs
    <3> QED BY <2>5, Zenon
  <2>9. With(Native \cup Logs) = UNION {SidesOf(t, mv[p]) : p \in DOMAIN mv}
    <3>1. With(Native \cup Logs) = With(Native) \cup UNION {With(LogMoves(t, i)) : i \in DOMAIN t.logs}
      OBVIOUS
    <3> HIDE DEF Native, Logs, With, mv
    <3> QED BY <3>1, <2>1, <2>3, <2>4, Zenon
  <2> QED
    BY <2>2, <2>8, <2>9, Zenon
<1> QED
  BY <1>1, <1>2, Zenon

\* What the assumption on the constants says of an EVM transaction.
LEMMA EvmTyped ==
    ASSUME tx \in Txs, isEVM
    PROVE  /\ IsEvmTx(tx)
           /\ DOMAIN tx.logs = 1 .. Len(tx.logs) /\ Len(tx.logs) \in Nat
           /\ DOMAIN tx.logs \subseteq Nat \ {0} /\ IsFiniteSet(DOMAIN tx.logs)
           /\ \A i \in DOMAIN tx.logs :
                /\ tx.logs[i].from \in Nat /\ tx.logs[i].to \in Nat /\ tx.logs[i].value \in Nat
                /\ ZeroAddress \in Addresses => tx.logs[i].from # ZeroAddress \/ tx.logs[i].to # ZeroAddress
           /\ \A W : decode(W) = decodeBaseTransaction(tx, W)
<1>1. IsEvmTx(tx)
  BY DecodingAssumption, Zenon DEF isEVM
<1>2. DOMAIN tx.logs = 1 .. Len(tx.logs) /\ Len(tx.logs) \in Nat
  BY <1>1, Zenon DEF IsEvmTx, IsList
<1>3. IsFiniteSet(DOMAIN tx.logs) /\ DOMAIN tx.logs \subseteq Nat \ {0}
  <2>1. IsFiniteSet(1 .. Len(tx.logs))
    BY <1>2, FS_Interval
  <2> QED
    BY <1>2, <2>1
<1>4. ASSUME NEW W PROVE decode(W) = decodeBaseTransaction(tx, W)
  BY Zenon DEF decode, isEVM
<1>5. \A i \in DOMAIN tx.logs :
        ZeroAddress \in Addresses => tx.logs[i].from # ZeroAddress \/ tx.logs[i].to # ZeroAddress
  BY DecodingAssumption, Zenon DEF isEVM
<1> QED
  BY <1>1, <1>2, <1>3, <1>4, <1>5, Zenon DEF IsEvmTx

\* What the places of mv hold.
EvmShape(t, mv) ==
  /\ t.status = "FAILED" => DOMAIN mv = {}
  /\ t.status # "FAILED" =>
       /\ DOMAIN mv = {0} \cup DOMAIN t.logs
       /\ mv[0].path = <<"tx", 0>> /\ mv[0].asset = "ETH" /\ mv[0].cat = "TRANSFER"
       /\ mv[0].from = t.from /\ mv[0].to = t.to /\ mv[0].amount = t.value /\ mv[0].meta = 0
       /\ mv[0].sides = (IF t.value = 0 THEN {} ELSE {"debit", "credit"})
       /\ \A i \in DOMAIN t.logs :
            /\ mv[i].path = <<"log", i - 1>> /\ mv[i].asset = "T" /\ mv[i].cat = LogCat(t.logs[i])
            /\ mv[i].from = t.logs[i].from /\ mv[i].to = t.logs[i].to
            /\ mv[i].amount = t.logs[i].value /\ mv[i].meta = 3
            /\ mv[i].sides = LogSides(t.logs[i])

\* EvmMovements has the value transfer at place 0 and a movement for each log.
LEMMA EvmPlaces ==
    ASSUME NEW t, DOMAIN t.logs \subseteq Nat \ {0}
    PROVE  EvmShape(t, EvmMovements(t))
BY Zenon DEF EvmMovements, EvmShape

\* The movements of an EVM transaction are well formed.
LEMMA EvmAreMovements ==
    ASSUME tx \in Txs, isEVM
    PROVE  AreMovements(EvmMovements(tx))
<1> DEFINE mv == EvmMovements(tx)
<1>t. /\ DOMAIN tx.logs \subseteq Nat \ {0} /\ IsFiniteSet(DOMAIN tx.logs)
      /\ tx.value \in Nat
      /\ \A i \in DOMAIN tx.logs :
                /\ tx.logs[i].from \in Nat /\ tx.logs[i].to \in Nat /\ tx.logs[i].value \in Nat
                /\ ZeroAddress \in Addresses => tx.logs[i].from # ZeroAddress \/ tx.logs[i].to # ZeroAddress
  BY EvmTyped, Zenon DEF IsEvmTx
<1>p. EvmShape(tx, mv)
  BY <1>t, EvmPlaces, Zenon
<1> HIDE DEF mv
<1>1. IsFiniteSet(DOMAIN mv)
  <2>1. IsFiniteSet({0}) /\ IsFiniteSet({})
    BY FS_Singleton, FS_EmptySet, Zenon
  <2>2. IsFiniteSet({0} \cup DOMAIN tx.logs)
    BY <2>1, <1>t, FS_Union, Zenon
  <2> QED
    BY <1>p, <2>1, <2>2, Zenon DEF EvmShape
<1>2. ASSUME NEW p \in DOMAIN mv PROVE IsMovement(mv[p])
  <2>1. tx.status # "FAILED"
    BY <1>p, Zenon DEF EvmShape
  <2>2. CASE p = 0
    BY <1>p, <1>t, <2>1, <2>2 DEF EvmShape, IsMovement, FeePath
  <2>3. CASE p \in DOMAIN tx.logs
    BY <1>p, <1>t, <2>1, <2>3 DEF EvmShape, IsMovement, FeePath, LogCat, LogSides
  <2> QED
    BY <1>p, <2>2, <2>3, Zenon DEF EvmShape
<1>3. ASSUME NEW p \in DOMAIN mv, NEW q \in DOMAIN mv, mv[p].path = mv[q].path PROVE p = q
  BY <1>p, <1>t, <1>3 DEF EvmShape
<1> QED
  BY <1>1, <1>2, <1>3, Zenon DEF AreMovements, mv

\* The raw events of an EVM movement are its sides.
LEMMA EvmSides ==
    ASSUME isEVM, NEW m
    PROVE  /\ "debit" \in m.sides => /\ SideOf(DebitSide(tx, m), m)
                                     /\ DebitSide(tx, m).addr = m.from /\ DebitSide(tx, m).cat = m.cat
           /\ "credit" \in m.sides => /\ SideOf(CreditSide(tx, m), m)
                                      /\ CreditSide(tx, m).addr = m.to /\ CreditSide(tx, m).cat = m.cat
BY Zenon DEF DebitSide, CreditSide, EvmRaw, FullRaw, SideOf, decodedEventPath

\* decodeBaseTransaction reports each side of each movement.
LEMMA EvmReported ==
    ASSUME tx \in Txs, isEVM
    PROVE  Movements(EvmMovements(tx))
<1> DEFINE mv == EvmMovements(tx)
<1>t. DOMAIN tx.logs \subseteq Nat \ {0}
  BY EvmTyped, Zenon
<1>c. \A p \in DOMAIN mv : IsMovement(mv[p]) /\ mv[p].cat # "FEE"
  BY EvmAreMovements, Zenon DEF AreMovements, IsMovement
<1>1. AllRaws = {r \in UNION {SidesOf(tx, mv[p]) : p \in DOMAIN mv} : r.addr \in Addresses}
  BY <1>t, EvmRaws, EvmTyped, Zenon DEF AllRaws
<1> HIDE DEF mv
<1>2. ASSUME NEW r \in AllRaws
      PROVE  /\ r.addr \in Addresses /\ r.cat # "FEE"
             /\ \E p \in DOMAIN mv : SideOf(r, mv[p])
  <2>1. PICK p \in DOMAIN mv : r \in SidesOf(tx, mv[p]) /\ r.addr \in Addresses
    BY <1>1, Zenon
  <2>2. SideOf(r, mv[p]) /\ r.cat = mv[p].cat
    BY <2>1, EvmSides, Zenon DEF SidesOf
  <2> QED
    BY <2>1, <2>2, <1>c, Zenon
<1>3. ASSUME NEW p \in DOMAIN mv, NEW a \in Addresses, Touches(mv[p], a)
      PROVE  \E r \in AllRaws : r.addr = a /\ SideOf(r, mv[p])
  <2>1. \A r \in SidesOf(tx, mv[p]) : r.addr \in Addresses => r \in AllRaws
    BY <1>1, Zenon
  <2>2. CASE "debit" \in mv[p].sides /\ a = mv[p].from
    <3>1. DebitSide(tx, mv[p]).addr = a /\ SideOf(DebitSide(tx, mv[p]), mv[p])
      BY <2>2, EvmSides, Zenon
    <3>2. DebitSide(tx, mv[p]) \in SidesOf(tx, mv[p])
      BY <2>2, Zenon DEF SidesOf
    <3> QED BY <2>1, <3>1, <3>2, Zenon
  <2>3. CASE "credit" \in mv[p].sides /\ a = mv[p].to
    <3>1. CreditSide(tx, mv[p]).addr = a /\ SideOf(CreditSide(tx, mv[p]), mv[p])
      BY <2>3, EvmSides, Zenon
    <3>2. CreditSide(tx, mv[p]) \in SidesOf(tx, mv[p])
      BY <2>3, Zenon DEF SidesOf
    <3> QED BY <2>1, <3>1, <3>2, Zenon
  <2> QED
    BY <1>3, <2>2, <2>3, Zenon DEF Touches
<1>4. RawMoves = AllRaws
  BY <1>2, Zenon DEF RawMoves
<1>5. Reported(mv)
  BY <1>2, <1>3, <1>4, Zenon DEF Reported
<1> QED
  BY <1>5, EvmAreMovements, Zenon DEF Movements, mv

\* A movement with both sides changes an address by what it gets less what it gives.
Gains(m, a) == (IF m.to = a THEN m.amount ELSE 0) - (IF m.from = a THEN m.amount ELSE 0)

\* That is what the owed events say.
LEMMA BothSidesNet ==
    ASSUME NEW m, IsMovement(m), NEW a \in Addresses, m.sides = {"debit", "credit"}
    PROVE  NetMove(m, a) = Gains(m, a)
BY DEF IsMovement, NetMove, EventFor, Event, Touches, Gains

\* A log changes an address by what the address gets less what it gives, and the
\* zero address not at all: the side that is left out is the zero address's.
LEMMA LogNet ==
    ASSUME NEW l, NEW m, IsMovement(m), NEW a \in Addresses, l.value \in Nat,
           m.from = l.from, m.to = l.to, m.amount = l.value, m.sides = LogSides(l), m.cat = LogCat(l),
           ZeroAddress \in Addresses => l.from # ZeroAddress \/ l.to # ZeroAddress
    PROVE  NetMove(m, a) = IF a = ZeroAddress THEN 0 ELSE Gains(m, a)
<1>1. CASE l.value = 0
  <2>1. m.sides = {} /\ m.amount = 0
    BY <1>1, Zenon DEF LogSides
  <2>2. NetMove(m, a) = 0
    BY <2>1, Zenon DEF NetMove, Touches
  <2>3. Gains(m, a) = 0
    BY <2>1 DEF Gains
  <2> QED BY <2>2, <2>3, Zenon
<1>2. CASE l.value # 0 /\ l.from = ZeroAddress
  <2>1. m.sides = {"credit"} /\ m.cat = "MINT"
    BY <1>2, Zenon DEF LogSides, LogCat
  <2>2. NetMove(m, a) = IF m.to = a THEN m.amount ELSE 0
    BY <2>1 DEF NetMove, EventFor, Event, Touches
  <2>3. a # ZeroAddress => Gains(m, a) = IF m.to = a THEN m.amount ELSE 0
    BY <1>2 DEF Gains
  <2>4. a = ZeroAddress => m.to # a
    BY <1>2, Zenon
  <2> QED BY <2>2, <2>3, <2>4, Zenon
<1>3. CASE l.value # 0 /\ l.from # ZeroAddress /\ l.to = ZeroAddress
  <2>1. m.sides = {"debit"} /\ m.cat = "BURN"
    BY <1>3, Zenon DEF LogSides, LogCat
  <2>2. NetMove(m, a) = IF m.from = a THEN -m.amount ELSE 0
    BY <2>1 DEF NetMove, EventFor, Event, Touches
  <2>3. a # ZeroAddress => Gains(m, a) = IF m.from = a THEN -m.amount ELSE 0
    BY <1>3 DEF Gains
  <2>4. a = ZeroAddress => m.from # a
    BY <1>3, Zenon
  <2> QED BY <2>2, <2>3, <2>4, Zenon
<1>4. CASE l.value # 0 /\ l.from # ZeroAddress /\ l.to # ZeroAddress
  <2>1. m.sides = {"debit", "credit"}
    BY <1>4, Zenon DEF LogSides
  <2>2. NetMove(m, a) = Gains(m, a)
    BY <2>1, BothSidesNet, Zenon
  <2>3. a = ZeroAddress => Gains(m, a) = 0
    BY <1>4 DEF Gains
  <2> QED BY <2>2, <2>3, Zenon
<1> QED BY <1>1, <1>2, <1>3, <1>4, Zenon

\* What an EVM transaction's events owe an address is what it moved: its effect
\* without the fee.
LEMMA EvmOwedSum ==
    ASSUME tx \in Txs, isEVM, NEW a \in Addresses, NEW s \in Assets
    PROVE  SumDelta(Of(Owed, a, s)) = Effect(a, s) + FeeOf(a, s)
<1> DEFINE mv == EvmMovements(tx)
           net == NetOver(mv, a, s)
           logs == DOMAIN tx.logs
<1>1. SumDelta(Of(Owed, a, s)) = Sum(net, DOMAIN mv)
  BY EvmReported, OwedSum, Zenon
<1>t. /\ logs \subseteq Nat \ {0} /\ IsFiniteSet(logs) /\ tx.value \in Nat
      /\ tx.status \in {"SUCCESS", "FAILED"} /\ tx.exec \in Nat /\ tx.l1 \in Nat
      /\ \A i \in logs :
            /\ tx.logs[i].value \in Nat
            /\ ZeroAddress \in Addresses => tx.logs[i].from # ZeroAddress \/ tx.logs[i].to # ZeroAddress
  BY EvmTyped, Zenon DEF IsEvmTx
<1>p. EvmShape(tx, mv)
  BY <1>t, EvmPlaces, Zenon
<1>i. \A p \in DOMAIN mv : IsMovement(mv[p])
  BY EvmAreMovements, Zenon DEF AreMovements
<1>2. Effect(a, s) = EvmEffect(tx, a, s)
  BY Zenon DEF Effect, isEVM
<1>3. FeeOf(a, s) = IF a = tx.from /\ s = "ETH" THEN tx.exec + tx.l1 ELSE 0
  <2>1. decode({}).payer = tx.from /\ decode({}).fee = tx.exec + tx.l1
    BY EvmTyped DEF decodeBaseTransaction
  <2> QED
    BY <2>1, Zenon DEF FeeOf, isEVM
<1>4. \A p \in DOMAIN mv : net[p] = IF mv[p].asset = s THEN NetMove(mv[p], a) ELSE 0
  BY Zenon DEF NetOver
<1> HIDE DEF mv, net
<1>5. CASE tx.status = "FAILED"
  <2>1. Sum(net, DOMAIN mv) = 0
    BY <1>p, <1>5, SumEmpty, Zenon DEF EvmShape
  <2>2. EvmEffect(tx, a, s) + FeeOf(a, s) = 0
    BY <1>3, <1>5, <1>t DEF EvmEffect, Assets
  <2> QED
    BY <1>1, <1>2, <2>1, <2>2, Zenon
<1>6. CASE tx.status # "FAILED"
  <2>1. DOMAIN mv = {0} \cup logs /\ 0 \notin logs
    BY <1>p, <1>6, <1>t, Zenon DEF EvmShape
  <2>2. net[0] = IF s = "ETH" THEN (IF tx.to = a THEN tx.value ELSE 0) - (IF tx.from = a THEN tx.value ELSE 0) ELSE 0
    <3>0. IsMovement(mv[0]) /\ mv[0].asset = "ETH" /\ mv[0].from = tx.from /\ mv[0].to = tx.to /\ mv[0].amount = tx.value
      BY <1>p, <1>6, <1>i, <2>1, Zenon DEF EvmShape
    <3>1. CASE tx.value = 0
      <4>1. mv[0].sides = {}
        BY <1>p, <1>6, <3>1, Zenon DEF EvmShape
      <4>2. NetMove(mv[0], a) = 0
        BY <4>1, Zenon DEF NetMove, Touches
      <4> QED
        BY <1>4, <2>1, <3>0, <3>1, <4>2
    <3>2. CASE tx.value # 0
      <4>1. mv[0].sides = {"debit", "credit"}
        BY <1>p, <1>6, <3>2, Zenon DEF EvmShape
      <4>2. NetMove(mv[0], a) = Gains(mv[0], a)
        BY <3>0, <4>1, BothSidesNet, Zenon
      <4> QED
        BY <1>4, <2>1, <3>0, <4>2, Zenon DEF Gains
    <3> QED BY <3>1, <3>2, Zenon
  <2>3. ASSUME NEW i \in logs
        PROVE  net[i] = IF s = "T" /\ a # ZeroAddress
                        THEN (IF tx.logs[i].to = a THEN tx.logs[i].value ELSE 0)
                             - (IF tx.logs[i].from = a THEN tx.logs[i].value ELSE 0) ELSE 0
    <3>1. /\ IsMovement(mv[i]) /\ mv[i].asset = "T" /\ mv[i].from = tx.logs[i].from
          /\ mv[i].to = tx.logs[i].to /\ mv[i].amount = tx.logs[i].value
          /\ mv[i].sides = LogSides(tx.logs[i]) /\ mv[i].cat = LogCat(tx.logs[i])
      BY <1>p, <1>6, <1>i, <2>1, Zenon DEF EvmShape
    <3>2. NetMove(mv[i], a) = IF a = ZeroAddress THEN 0 ELSE Gains(mv[i], a)
      <4> DEFINE l == tx.logs[i]
                 m == mv[i]
      <4>1. /\ IsMovement(m) /\ m.from = l.from /\ m.to = l.to /\ m.amount = l.value
            /\ m.sides = LogSides(l) /\ m.cat = LogCat(l)
        BY <3>1, Zenon
      <4>2. /\ l.value \in Nat
            /\ ZeroAddress \in Addresses => l.from # ZeroAddress \/ l.to # ZeroAddress
        BY <1>t, Zenon
      <4>3. a \in Addresses
        OBVIOUS
      <4> HIDE DEF l, m
      <4>4. NetMove(m, a) = IF a = ZeroAddress THEN 0 ELSE Gains(m, a)
        BY <4>1, <4>2, <4>3, LogNet
      <4> QED BY <4>4, Zenon DEF m
    <3> QED
      BY <1>4, <2>1, <3>1, <3>2, Zenon DEF Gains
  <2>4. net[0] \in Int /\ \A i \in logs : net[i] \in Int
    BY <1>t, <2>2, <2>3
  <2>5. Sum(net, {0} \cup logs) = net[0] + Sum(net, logs) /\ Summable(net, logs)
    <3>1. Summable(net, logs)
      BY <1>t, <2>4, Zenon DEF Summable
    <3>2. Sum(net, logs \cup {0}) = net[0] + Sum(net, logs)
      BY <2>1, <2>4, <3>1, SumAdd, Zenon
    <3>3. logs \cup {0} = {0} \cup logs
      BY Zenon
    <3> QED
      BY <3>1, <3>2, <3>3, Zenon
  <2>6. CASE s = "T" /\ a # ZeroAddress
    <3> DEFINE g == [i \in logs |-> (IF tx.logs[i].to = a THEN tx.logs[i].value ELSE 0)
                                    - (IF tx.logs[i].from = a THEN tx.logs[i].value ELSE 0)]
    <3>1. EvmEffect(tx, a, s) = Sum(g, logs)
      BY <2>6, <1>6, <1>t, Zenon DEF EvmEffect, SumFunction, Sum
    <3>2. \A i \in logs : net[i] = g[i]
      BY <2>3, <2>6, Zenon
    <3> HIDE DEF g
    <3>3. Sum(net, logs) = Sum(g, logs)
      BY <2>5, <3>2, SumEqual
    <3>4. Sum(net, logs) \in Int
      BY <2>5, SumType, Zenon
    <3> QED
      BY <1>1, <1>2, <1>3, <2>1, <2>2, <2>5, <2>6, <3>1, <3>3, <3>4
  <2>7. CASE s # "T" \/ a = ZeroAddress
    <3>1. Sum(net, logs) = 0
      <4>1. \A i \in logs : net[i] = 0
        BY <2>3, <2>7, Zenon
      <4> QED
        BY <1>t, <4>1, SumZero, Zenon
    <3>2. EvmEffect(tx, a, s) + FeeOf(a, s) = net[0]
      BY <1>3, <1>6, <1>t, <2>2, <2>7 DEF EvmEffect, Assets
    <3> QED
      BY <1>1, <1>2, <2>1, <2>4, <2>5, <3>1, <3>2
  <2> QED BY <2>6, <2>7, Zenon
<1> QED BY <1>5, <1>6, Zenon

\* A finite set has a member that none precedes in a strict partial order.
LEMMA Foremost ==
    ASSUME NEW S, IsFiniteSet(S), S # {}, NEW R, \A x \in S : <<x, x>> \notin R,
           \A x, y, z \in S : <<x, y>> \in R /\ <<y, z>> \in R => <<x, z>> \in R
    PROVE  \E e \in S : \A f \in S : <<f, e>> \notin R
<1> DEFINE Top(s) == \E e \in s : \A f \in s : <<f, e>> \notin R
           G == {s \in SUBSET S : s = {} \/ Top(s)}
<1>1. {} \in G
  BY Zenon
<1>2. ASSUME NEW s \in G, NEW x \in S \ s PROVE s \cup {x} \in G
  <2>1. CASE s = {}
    BY <2>1, Zenon
  <2>2. CASE Top(s)
    <3>1. PICK e \in s : \A f \in s : <<f, e>> \notin R
      BY <2>2, Zenon
    <3>2. CASE <<x, e>> \notin R
      <4>1. \A f \in s \cup {x} : <<f, e>> \notin R
        BY <3>1, <3>2, Zenon
      <4> QED
        BY <4>1, Zenon
    <3>3. CASE <<x, e>> \in R
      <4>1. \A f \in s \cup {x} : <<f, x>> \notin R
        BY <3>1, <3>3, Zenon
      <4> QED
        BY <4>1, Zenon
    <3> QED BY <3>2, <3>3, Zenon
  <2> QED BY <2>1, <2>2, Zenon
<1>3. G = SUBSET S
  <2>1. G \in SUBSET (SUBSET S)
    BY Zenon
  <2> HIDE DEF G
  <2> QED
    BY <1>1, <1>2, <2>1, SubsetInduction, Zenon
<1> QED
  BY <1>3, Zenon

\* The order of paths and of deltas is strict.
LEMMA PathOrder ==
    ASSUME NEW o \in {"tx", "log"} \X Nat, NEW p \in {"tx", "log"} \X Nat, NEW q \in {"tx", "log"} \X Nat
    PROVE  ~PathBefore(p, p) /\ (PathBefore(o, p) /\ PathBefore(p, q) => PathBefore(o, q))
BY DEF PathBefore

\* The order of deltas as strings is strict.
LEMMA DeltaOrder ==
    ASSUME NEW c \in Int, NEW d \in Int, NEW e \in Int
    PROVE  ~DeltaBefore(d, d) /\ (DeltaBefore(c, d) /\ DeltaBefore(d, e) => DeltaBefore(c, e))
BY DEF DeltaBefore

\* A raw event of an EVM transaction.
Ranked(r) ==
  /\ r.path \in {"tx", "log"} \X Nat /\ r.addr \in Nat /\ r.asset \in {"ETH", "T"}
  /\ r.delta \in Int /\ r.meta \in Nat

\* So is the order of fingerprints,
LEMMA FingerprintOrder ==
    ASSUME NEW e, NEW f, NEW g, Ranked(e), Ranked(f), Ranked(g)
    PROVE  ~FingerprintBefore(e, e) /\ (FingerprintBefore(e, f) /\ FingerprintBefore(f, g) => FingerprintBefore(e, g))
<1>1. ~PathBefore(e.path, e.path) /\ (PathBefore(e.path, f.path) /\ PathBefore(f.path, g.path) => PathBefore(e.path, g.path))
  BY PathOrder, Zenon DEF Ranked
<1>2. ~DeltaBefore(e.delta, e.delta) /\ (DeltaBefore(e.delta, f.delta) /\ DeltaBefore(f.delta, g.delta) => DeltaBefore(e.delta, g.delta))
  BY DeltaOrder, Zenon DEF Ranked
<1> QED
  BY <1>1, <1>2 DEF FingerprintBefore, Ranked

\* and the order feeMetadataSource chooses by.
LEMMA PreferOrder ==
    ASSUME NEW e, NEW f, NEW g, Ranked(e), Ranked(f), Ranked(g)
    PROVE  /\ ~shouldPreferFeeMetadata(e, e)
           /\ shouldPreferFeeMetadata(e, f) /\ shouldPreferFeeMetadata(f, g) => shouldPreferFeeMetadata(e, g)
BY FingerprintOrder DEF shouldPreferFeeMetadata, Ranked

\* The event whose metadata a fee borrows is one of the report.
LEMMA SourceIn ==
    ASSUME NEW G, IsFiniteSet(G), G # {}, \A r \in G : Ranked(r)
    PROVE  feeMetadataSource(G) \in G
<1> DEFINE R == {x \in G \X G : shouldPreferFeeMetadata(x[1], x[2])}
<1>r. \A x, y \in G : <<x, y>> \in R <=> shouldPreferFeeMetadata(x, y)
  BY Zenon
<1> HIDE DEF R
<1>1. \A x \in G : <<x, x>> \notin R
  BY <1>r, PreferOrder, Zenon
<1>2. \A x, y, z \in G : <<x, y>> \in R /\ <<y, z>> \in R => <<x, z>> \in R
  BY <1>r, PreferOrder, Zenon
<1>3. \E e \in G : \A f \in G : <<f, e>> \notin R
  BY <1>1, <1>2, Foremost, Zenon
<1>4. \E e \in G : \A f \in G : f = e \/ ~shouldPreferFeeMetadata(f, e)
  BY <1>3, <1>r, Zenon
<1> QED
  BY <1>4, Zenon DEF feeMetadataSource

\* The raw events of an EVM transaction are finitely many and all carry its fee.
LEMMA EvmCarry ==
    ASSUME tx \in Txs, isEVM
    PROVE  /\ IsFiniteSet(AllRaws)
           /\ \A r \in AllRaws : /\ Ranked(r) /\ r.cat # "FEE"
                                 /\ r.exec = tx.exec /\ r.data = DataOf(tx)
           /\ tx.status = "FAILED" => AllRaws = {}
<1> DEFINE mv == EvmMovements(tx)
           Q == DOMAIN mv
           D == [p \in Q |-> DebitSide(tx, mv[p])]
           C == [p \in Q |-> CreditSide(tx, mv[p])]
<1>t. DOMAIN tx.logs \subseteq Nat \ {0} /\ IsEvmTx(tx)
  BY EvmTyped, Zenon
<1>p. EvmShape(tx, mv)
  BY <1>t, EvmPlaces, Zenon
<1>f. IsFiniteSet(DOMAIN mv) /\ \A p \in DOMAIN mv : IsMovement(mv[p])
  BY EvmAreMovements, Zenon DEF AreMovements
<1>0. AllRaws = {r \in UNION {SidesOf(tx, mv[p]) : p \in Q} : r.addr \in Addresses}
  BY <1>t, EvmRaws, EvmTyped, Zenon DEF AllRaws
<1>1. \A r \in AllRaws : r.addr \in Addresses /\
         \E p \in Q : r = DebitSide(tx, mv[p]) \/ r = CreditSide(tx, mv[p])
  <2> HIDE DEF mv
  <2> QED BY <1>0, Zenon DEF SidesOf
<1> HIDE DEF mv
<1>2. IsFiniteSet(Q)
  BY <1>f, Zenon
<1>3. IsFiniteSet(AllRaws)
  <2>1. IsFiniteSet(ImageOf(D, Q)) /\ IsFiniteSet(ImageOf(C, Q))
    <3> HIDE DEF D, C, Q
    <3> QED BY <1>2, FiniteImage, Zenon
  <2>2. IsFiniteSet(ImageOf(D, Q) \cup ImageOf(C, Q))
    <3> HIDE DEF D, C, Q
    <3> QED BY <2>1, FS_Union, Zenon
  <2>3. AllRaws \subseteq ImageOf(D, Q) \cup ImageOf(C, Q)
    BY <1>1, Zenon DEF ImageOf
  <2> HIDE DEF D, C, Q
  <2> QED
    BY <2>2, <2>3, FS_Subset, Zenon
<1>4. ASSUME NEW r \in AllRaws PROVE Ranked(r) /\ r.cat # "FEE" /\ r.exec = tx.exec /\ r.data = DataOf(tx)
  <2>1. PICK p \in Q : (r = DebitSide(tx, mv[p]) \/ r = CreditSide(tx, mv[p])) /\ r.addr \in Addresses
    BY <1>1, Zenon
  <2>2. r.addr \in Nat
    BY <2>1, DecodingAssumption, Zenon
  <2>3. /\ r.path = mv[p].path /\ r.asset = mv[p].asset /\ r.meta = mv[p].meta /\ r.cat = mv[p].cat
        /\ r.delta = mv[p].amount \/ r.delta = -mv[p].amount
        /\ r.exec = tx.exec /\ r.data = DataOf(tx)
    BY <2>1 DEF DebitSide, CreditSide, EvmRaw, FullRaw
  <2>4. r.delta \in Int /\ r.meta \in Nat /\ r.cat # "FEE"
    BY <2>3, <1>f DEF IsMovement
  <2>5. mv[p].path \in {"tx", "log"} \X Nat /\ mv[p].asset \in {"ETH", "T"}
    <3>1. tx.status # "FAILED" /\ (p = 0 \/ p \in DOMAIN tx.logs)
      BY <1>p, Zenon DEF EvmShape
    <3>2. CASE p = 0
      <4>1. mv[p].path = <<"tx", 0>> /\ mv[p].asset = "ETH"
        BY <1>p, <3>1, <3>2, Zenon DEF EvmShape
      <4> QED
        BY <4>1
    <3>3. CASE p \in DOMAIN tx.logs
      <4>1. mv[p].path = <<"log", p - 1>> /\ mv[p].asset = "T" /\ p - 1 \in Nat
        BY <1>p, <1>t, <3>1, <3>3 DEF EvmShape
      <4> QED
        BY <4>1
    <3> QED BY <3>1, <3>2, <3>3, Zenon
  <2> QED
    BY <2>2, <2>3, <2>4, <2>5, Zenon DEF Ranked
<1>5. tx.status = "FAILED" => AllRaws = {}
  BY <1>0, <1>p, Zenon DEF EvmShape
<1> QED
  BY <1>3, <1>4, <1>5, Zenon

\* A report of the transaction that carries the raw events E.
Report(E) == [status |-> decode(Addresses).status, payer |-> decode(Addresses).payer,
              fee |-> decode(Addresses).fee, events |-> E]

\* The raw events of R leave out no event of the addresses W.
Covers(R, W) == \A r \in AllRaws : r.addr \in W => \E q \in R : Canonical(q) = Canonical(r)

OwedTo(W) == {d \in Owed : d.addr \in W}

\* A canonical event keeps path, address and asset.
LEMMA CanonicalFields ==
    ASSUME NEW r
    PROVE  /\ Canonical(r).path = decodedEventPath(r) /\ Canonical(r).addr = r.addr
           /\ Canonical(r).asset = r.asset
BY Zenon DEF Canonical, NormalizedEvent, Event

\* From a report that covers the watched addresses exactly what they are owed is built.
LEMMA BuiltOwed ==
    ASSUME NEW mv, Movements(mv), NEW G \in SUBSET AllRaws, NEW W, Covers(G, W)
    PROVE  {Canonical(r) : r \in {q \in G : q.addr \in W /\ q.cat # "FEE"}} = OwedTo(W)
<1>1. ASSUME NEW r \in G, r.addr \in W, r.cat # "FEE" PROVE Canonical(r) \in OwedTo(W)
  BY <1>1, CanonicalFields, Zenon DEF OwedTo, Owed, RawMoves
<1>2. ASSUME NEW d \in OwedTo(W)
      PROVE  \E q \in G : q.addr \in W /\ q.cat # "FEE" /\ Canonical(q) = d
  <2>1. PICK r \in RawMoves : d = Canonical(r)
    BY Zenon DEF OwedTo, Owed
  <2>2. r \in AllRaws /\ r.addr \in W
    BY <2>1, CanonicalFields, Zenon DEF OwedTo, RawMoves
  <2>3. PICK q \in G : Canonical(q) = d
    BY <2>1, <2>2, Zenon DEF Covers
  <2>4. q.addr \in W
    BY <2>3, CanonicalFields, Zenon DEF OwedTo
  <2>5. d.path # FeePath
    <3>1. d \in Owed
      BY Zenon DEF OwedTo
    <3>2. PICK p \in DOMAIN mv : IsMovement(mv[p]) /\ d.path = mv[p].path
      BY <3>1, OwedFields
    <3> QED
      BY <3>2, Zenon DEF IsMovement
  <2>6. q.cat # "FEE"
    BY <2>3, <2>5, CanonicalFields DEF Movements, Reported
  <2> QED
    BY <2>3, <2>4, <2>6, Zenon
<1> QED
  BY <1>1, <1>2, Zenon

\* Nothing is dropped where no two events have one id.
LEMMA OnePerIDKeeps ==
    ASSUME NEW S, \A e \in S : e.delta \in Int, \A e, f \in S : EventID(e) = EventID(f) => e = f
    PROVE  OnePerID(S) = S
BY DEF OnePerID

\* Events of fees, at most one of each kind.
AreFees(F) ==
  /\ IsFiniteSet(F)
  /\ \A e \in F : e.act \in FeeActs /\ e.delta \in Int
  /\ \A e, f \in F : e.act = f.act => e = f

\* Nothing that is owed is dropped for sharing its id, with fee events beside it.
LEMMA OnePerIDWithFees ==
    ASSUME NEW mv, Movements(mv), NEW W, NEW F, AreFees(F)
    PROVE  OnePerID(OwedTo(W) \cup F) = OwedTo(W) \cup F
<1> DEFINE S == OwedTo(W) \cup F
<1>1. \A e \in OwedTo(W) : e \in Owed /\ e.delta \in Int /\ e.act \notin FeeActs
  BY OwedFields, Zenon DEF OwedTo
<1>2. \A e \in S : e.delta \in Int
  BY <1>1, Zenon DEF AreFees
<1>3. ASSUME NEW e \in S, NEW f \in S, EventID(e) = EventID(f) PROVE e = f
  <2>1. e.path = f.path /\ e.addr = f.addr /\ e.act = f.act
    BY <1>3, Zenon DEF EventID
  <2>2. CASE e \in F
    <3>1. f \in F
      BY <1>1, <2>1, <2>2, Zenon DEF AreFees
    <3> QED
      BY <2>1, <2>2, <3>1, Zenon DEF AreFees
  <2>3. CASE e \in OwedTo(W)
    <3>1. f \in OwedTo(W)
      BY <1>1, <2>1, <2>3, Zenon DEF AreFees
    <3> QED
      BY <1>1, <2>1, <2>3, <3>1, OwedOnce, Zenon
  <2> QED BY <2>2, <2>3, Zenon
<1> HIDE DEF S
<1> QED
  BY <1>2, <1>3, OnePerIDKeeps, Zenon DEF S

EvmFee(path, act, amount) == Event(path, tx.from, "ETH", act, -amount)

\* The fee events of an EVM transaction: the whole fee, or its two components.
LEMMA EvmFees ==
    ASSUME tx \in Txs, isEVM, NEW G \in SUBSET AllRaws, NEW W
    PROVE  LET F == feeEvents(tx.chain, Report(G), W)
               fee == tx.exec + tx.l1
               path == resolveBaseFeeEventPath(G)
           IN IF tx.from \notin W \/ fee = 0 THEN F = {}
              ELSE \/ F = {EvmFee(path, "FEE", fee)}
                   \/ F = {EvmFee(path, "FEE_EXECUTION_L2", fee)}
                   \/ /\ G # {}
                      /\ F = {EvmFee(path, "FEE_EXECUTION_L2", tx.exec), EvmFee(path, "FEE_DATA_L1", tx.l1)}
<1> DEFINE F == feeEvents(tx.chain, Report(G), W)
           fee == tx.exec + tx.l1
           path == resolveBaseFeeEventPath(G)
<1>t. /\ tx.exec \in Nat /\ tx.l1 \in Nat /\ tx.status \in {"SUCCESS", "FAILED"} /\ tx.from # NoAddr
  BY EvmTyped, Zenon DEF IsEvmTx
<1>r. Report(G) = [status |-> tx.status, payer |-> tx.from, fee |-> fee, events |-> G]
  BY EvmTyped DEF Report, decodeBaseTransaction
<1>1. CASE tx.from \notin W \/ fee = 0
  <2>1. F = {}
    BY <1>1, <1>r DEF feeEvents, shouldEmitFee
  <2> QED
    BY <1>1, <2>1, Zenon
<1>2. CASE ~(tx.from \notin W \/ fee = 0)
  <2>0. /\ Report(G).payer = tx.from /\ Report(G).fee = fee /\ Report(G).events = G
        /\ Report(G).payer \in W /\ shouldEmitFee(Report(G).status, Report(G).payer, Report(G).fee)
    BY <1>2, <1>r, <1>t DEF shouldEmitFee
  <2> HIDE DEF path, fee
  <2>1. CASE isEVML1Chain(tx.chain)
    <3>1. F = {EvmFee(path, "FEE", fee)}
      BY <2>0, <2>1, Zenon DEF feeEvents, EvmFee, path
    <3> QED
      BY <1>2, <3>1, Zenon DEF path, fee
  <2>2. CASE ~isEVML1Chain(tx.chain) /\ G = {}
    <3>1. F = {EvmFee(path, "FEE_EXECUTION_L2", fee)}
      BY <2>0, <2>2 DEF feeEvents, EvmFee, path
    <3> QED
      BY <1>2, <3>1, Zenon DEF path, fee
  <2>3. CASE ~isEVML1Chain(tx.chain) /\ G # {}
    <3>1. feeMetadataSource(G) \in G
      <4>1. IsFiniteSet(G) /\ \A r \in G : Ranked(r)
        BY EvmCarry, FS_Subset, Zenon
      <4> QED
        BY <2>3, <4>1, SourceIn, Zenon
    <3>2. feeMetadataSource(G).exec = tx.exec /\ feeMetadataSource(G).data = DataOf(tx)
      BY <3>1, EvmCarry, Zenon
    <3>3. CASE tx.l1 > 0
      <4>1. DataOf(tx) = tx.l1 /\ tx.l1 >= 0
        BY <2>3, <3>3, <1>t DEF DataOf
      <4>2. F = {EvmFee(path, "FEE_EXECUTION_L2", tx.exec)} \cup {EvmFee(path, "FEE_DATA_L1", tx.l1)}
        BY <2>0, <2>3, <3>2, <4>1, Zenon DEF feeEvents, EvmFee, path
      <4> QED
        BY <1>2, <2>3, <4>2, Zenon DEF path, fee
    <3>4. CASE ~(tx.l1 > 0)
      <4>1. DataOf(tx) = -1 /\ fee = tx.exec
        BY <3>4, <1>t DEF DataOf, fee
      <4>2. F = {EvmFee(path, "FEE_EXECUTION_L2", fee)}
        BY <2>0, <2>3, <3>2, <4>1 DEF feeEvents, EvmFee, path
      <4> QED
        BY <1>2, <4>2 DEF path, fee
    <3> QED BY <3>3, <3>4, Zenon
  <2> QED
    BY <2>1, <2>2, <2>3, Zenon
<1> QED
  BY <1>1, <1>2, Zenon

\* What the fee events of a report add up to.
FeesAdd(F, W) ==
  /\ AreFees(F)
  /\ \A a \in W, s \in Assets : SumDelta(Of(F, a, s)) = -FeeOf(a, s)

\* Fee events can be summed.
LEMMA FeesCountable ==
    ASSUME NEW F, AreFees(F), NEW a, NEW s
    PROVE  Countable(F) /\ Countable(Of(F, a, s))
BY FS_Subset, Zenon DEF AreFees, Countable, Of

\* However an EVM fee is split into events, they add up to the fee.
LEMMA EvmFeesAdd ==
    ASSUME tx \in Txs, isEVM, NEW G \in SUBSET AllRaws, NEW W
    PROVE  FeesAdd(feeEvents(tx.chain, Report(G), W), W)
<1> DEFINE F == feeEvents(tx.chain, Report(G), W)
           fee == tx.exec + tx.l1
           path == resolveBaseFeeEventPath(G)
<1>t. tx.exec \in Nat /\ tx.l1 \in Nat
  BY EvmTyped, Zenon DEF IsEvmTx
<1>f. ASSUME NEW a, NEW s PROVE FeeOf(a, s) = IF a = tx.from /\ s = "ETH" THEN fee ELSE 0
  <2>1. decode({}).payer = tx.from /\ decode({}).fee = tx.exec + tx.l1
    BY EvmTyped DEF decodeBaseTransaction
  <2> QED
    BY <2>1, Zenon DEF FeeOf, isEVM
<1>s. IF tx.from \notin W \/ fee = 0 THEN F = {}
      ELSE \/ F = {EvmFee(path, "FEE", fee)}
           \/ F = {EvmFee(path, "FEE_EXECUTION_L2", fee)}
           \/ F = {EvmFee(path, "FEE_EXECUTION_L2", tx.exec), EvmFee(path, "FEE_DATA_L1", tx.l1)}
  BY EvmFees, Zenon
<1>e. ASSUME NEW act, NEW n \in Nat
      PROVE  /\ EvmFee(path, act, n).addr = tx.from /\ EvmFee(path, act, n).asset = "ETH"
             /\ EvmFee(path, act, n).act = act /\ EvmFee(path, act, n).delta = -n
  BY Zenon DEF EvmFee, Event
<1>n. fee \in Nat
  BY <1>t
<1> HIDE DEF F, path, fee
<1>1. CASE F = {}
  <2>1. AreFees(F)
    BY <1>1, FS_EmptySet, Zenon DEF AreFees
  <2>2. ASSUME NEW a \in W, NEW s \in Assets PROVE SumDelta(Of(F, a, s)) = -FeeOf(a, s)
    <3>1. Of(F, a, s) = {}
      BY <1>1, Zenon DEF Of
    <3>2. FeeOf(a, s) = 0
      <4>1. tx.from \notin W \/ fee = 0
        BY <1>1, <1>s, Zenon
      <4> QED
        BY <1>f, <4>1, Zenon
    <3> QED
      BY <3>1, <3>2, SumDeltaEmpty
  <2> QED
    BY <2>1, <2>2, Zenon DEF FeesAdd, F
<1>2. ASSUME NEW act \in FeeActs, F = {EvmFee(path, act, fee)} PROVE FeesAdd(F, W)
  <2> DEFINE e == EvmFee(path, act, fee)
  <2>1. e.addr = tx.from /\ e.asset = "ETH" /\ e.act = act /\ e.delta = -fee
    BY <1>e, <1>n, Zenon
  <2> HIDE DEF e
  <2>f. F = {e}
    BY <1>2, Zenon DEF e
  <2>2. AreFees(F)
    BY <2>f, <2>1, <1>n, FS_Singleton DEF AreFees
  <2>3. ASSUME NEW a \in W, NEW s \in Assets PROVE SumDelta(Of(F, a, s)) = -FeeOf(a, s)
    <3>1. CASE a = tx.from /\ s = "ETH"
      <4>1. Of(F, a, s) = {e}
        BY <2>f, <2>1, <3>1, Zenon DEF Of
      <4>2. SumDelta({e}) = -fee
        BY <2>1, <1>n, SumDeltaOne
      <4> QED
        BY <1>f, <3>1, <4>1, <4>2, Zenon
    <3>2. CASE ~(a = tx.from /\ s = "ETH")
      <4>1. Of(F, a, s) = {}
        BY <2>f, <2>1, <3>2 DEF Of
      <4> QED
        BY <1>f, <3>2, <4>1, SumDeltaEmpty
    <3> QED BY <3>1, <3>2, Zenon
  <2> QED
    BY <2>2, <2>3, Zenon DEF FeesAdd
<1>3. CASE F = {EvmFee(path, "FEE_EXECUTION_L2", tx.exec), EvmFee(path, "FEE_DATA_L1", tx.l1)}
  <2> DEFINE e == EvmFee(path, "FEE_EXECUTION_L2", tx.exec)
             d == EvmFee(path, "FEE_DATA_L1", tx.l1)
  <2>1. /\ e.addr = tx.from /\ e.asset = "ETH" /\ e.act = "FEE_EXECUTION_L2" /\ e.delta = -tx.exec
        /\ d.addr = tx.from /\ d.asset = "ETH" /\ d.act = "FEE_DATA_L1" /\ d.delta = -tx.l1
    BY <1>e, <1>t
  <2> HIDE DEF e, d
  <2>f. F = {e, d} /\ F = {e} \cup {d} /\ {e} \cap {d} = {}
    BY <1>3, <2>1, Zenon DEF e, d
  <2>2. AreFees(F)
    <3>0. IsFiniteSet({e}) /\ IsFiniteSet({d})
      BY FS_Singleton, Zenon
    <3>1. IsFiniteSet({e} \cup {d})
      BY <3>0, FS_Union, Zenon
    <3> QED
      BY <2>f, <2>1, <1>t, <3>1 DEF AreFees, FeeActs
  <2>3. ASSUME NEW a \in W, NEW s \in Assets PROVE SumDelta(Of(F, a, s)) = -FeeOf(a, s)
    <3>1. CASE a = tx.from /\ s = "ETH"
      <4>1. Of(F, a, s) = F
        BY <2>f, <2>1, <3>1, Zenon DEF Of
      <4>2. /\ Countable({e}) /\ SumDelta({e}) = -tx.exec
            /\ Countable({d}) /\ SumDelta({d}) = -tx.l1
        BY <2>1, <1>t, SumDeltaOne
      <4>3. SumDelta({e} \cup {d}) = (-tx.exec) + (-tx.l1)
        BY <2>f, <4>2, SumDeltaUnion, Zenon
      <4>4. (-tx.exec) + (-tx.l1) = -fee
        BY <1>t DEF fee
      <4> QED
        BY <1>f, <2>f, <3>1, <4>1, <4>3, <4>4, Zenon
    <3>2. CASE ~(a = tx.from /\ s = "ETH")
      <4>1. Of(F, a, s) = {}
        BY <2>f, <2>1, <3>2, Zenon DEF Of
      <4> QED
        BY <1>f, <3>2, <4>1, SumDeltaEmpty
    <3> QED BY <3>1, <3>2, Zenon
  <2> QED
    BY <2>2, <2>3 DEF FeesAdd, F
<1> QED
  BY <1>s, <1>1, <1>2, <1>3, Zenon DEF FeeActs, F

\* The events built for an EVM batch: what its addresses are owed, and fees.
LEMMA EvmBuilt ==
    ASSUME tx \in Txs, isEVM, NEW G \in SUBSET AllRaws, NEW W, Covers(G, W)
    PROVE  normalizedEvents(Report(G), W) = OwedTo(W) \cup feeEvents(tx.chain, Report(G), W)
<1> DEFINE F == feeEvents(tx.chain, Report(G), W)
           mv == EvmMovements(tx)
           result == Report(G)
           B == IF result.status = "FAILED" THEN {}
                ELSE BuildRaw(result.events, W, TRUE, [e \in result.events |-> EvmPath(e)])
<1>m. Movements(mv)
  BY EvmReported, Zenon
<1>r. result.status = tx.status /\ result.events = G
  BY EvmTyped DEF Report, decodeBaseTransaction
<1>1. normalizedEvents(result, W) = OnePerID(B \cup F)
  BY Zenon DEF normalizedEvents, buildCanonicalBaseBalanceEvents, isEVM
<1>2. \A r \in AllRaws : r.cat # "FEE"
  BY EvmCarry, Zenon
<1>3. B = {Canonical(r) : r \in {q \in G : q.addr \in W /\ q.cat # "FEE"}}
  <2>1. CASE tx.status = "FAILED"
    <3>1. G = {}
      BY <2>1, EvmCarry, Zenon
    <3> QED
      BY <1>r, <2>1, <3>1, Zenon
  <2>2. CASE tx.status # "FAILED"
    <3> DEFINE P == [e \in G |-> EvmPath(e)]
               V == {q \in G : q.addr \in W}
    <3>1. B = {NormalizedEvent(r, TRUE, P[r]) : r \in V}
      BY <1>r, <2>2, Zenon DEF BuildRaw, WatchedOnly
    <3>2. \A r \in V : NormalizedEvent(r, TRUE, P[r]) = Canonical(r)
      BY Zenon DEF Canonical, decodedEventPath, EvmPath
    <3>3. V = {q \in G : q.addr \in W /\ q.cat # "FEE"}
      BY <1>2, Zenon
    <3> HIDE DEF B, P, V
    <3> QED
      BY <3>1, <3>2, <3>3, Zenon
  <2> QED BY <2>1, <2>2, Zenon
<1>4. B = OwedTo(W)
  BY <1>3, <1>m, BuiltOwed, Zenon
<1>5. AreFees(F)
  BY EvmFeesAdd, Zenon DEF FeesAdd
<1> HIDE DEF B, F, mv
<1>6. OnePerID(OwedTo(W) \cup F) = OwedTo(W) \cup F
  BY <1>m, <1>5, OnePerIDWithFees, Zenon
<1> QED
  BY <1>1, <1>4, <1>6, Zenon DEF F

-----------------------------------------------------------------------------
\* Solana transactions.

\* The movement an instruction of the two programs makes at indices at.
SolMovement(ix, at) ==
  [path |-> <<"ix", at>>, asset |-> IF ix.prog = "spl" THEN "T" ELSE "SOL",
   cat |-> IF ix.kind = "mint" THEN "MINT" ELSE IF ix.kind = "burn" THEN "BURN" ELSE "TRANSFER",
   from |-> ix.from, to |-> ix.to, amount |-> ix.amount, meta |-> 0,
   sides |-> IF ix.kind = "mint" THEN {"credit"}
             ELSE IF ix.kind = "burn" \/ (ix.prog = "spl" /\ ix.to = ix.from) THEN {"debit"}
             ELSE {"debit", "credit"}]

\* The raw events a Solana plugin reports are sides of the movement.
LEMMA SolSides ==
    ASSUME ~isEVM, NEW m, NEW at, m.path = <<"ix", at>>, m.meta = 0
    PROVE  LET d == Debit(NoPath, at, m.asset, m.cat, m.from, m.to, m.amount)
               c == Credit(NoPath, at, m.asset, m.cat, m.from, m.to, m.amount)
           IN /\ d.addr = m.from /\ d.cat = m.cat /\ ("debit" \in m.sides => SideOf(d, m))
              /\ c.addr = m.to /\ c.cat = m.cat /\ ("credit" \in m.sides => SideOf(c, m))
BY Zenon DEF Debit, Credit, Raw, SideOf, decodedEventPath

\* What the movement of an instruction carries.
LEMMA SolMovementFields ==
    ASSUME NEW ix, NEW at, IsInstruction(ix), Claimed(ix)
    PROVE  LET m == SolMovement(ix, at) IN
           /\ m.path = <<"ix", at>> /\ m.meta = 0 /\ m.from = ix.from /\ m.to = ix.to
           /\ m.amount = ix.amount /\ m.amount \in Nat
           /\ m.asset = (IF ix.prog = "spl" THEN "T" ELSE "SOL")
           /\ \/ ix.kind = "mint" /\ ix.prog = "spl" /\ m.cat = "MINT" /\ m.sides = {"credit"}
              \/ ix.kind = "burn" /\ ix.prog = "spl" /\ m.cat = "BURN" /\ m.sides = {"debit"}
              \/ /\ ix.kind = "transfer" /\ ix.prog = "spl" /\ ix.to = ix.from
                 /\ m.cat = "TRANSFER" /\ m.sides = {"debit"}
              \/ /\ ix.kind = "transfer" /\ ~(ix.prog = "spl" /\ ix.to = ix.from)
                 /\ m.cat = "TRANSFER" /\ m.sides = {"debit", "credit"}
BY Zenon DEF SolMovement, IsInstruction, Claimed

\* A plugin reports exactly the sides of the movement.
LEMMA SolParsed ==
    ASSUME NEW ix, NEW at, IsInstruction(ix), Claimed(ix)
    PROVE  LET m == SolMovement(ix, at) IN
           parse(ix, at) =
             (IF "debit" \in m.sides THEN {Debit(NoPath, at, m.asset, m.cat, m.from, m.to, m.amount)} ELSE {}) \cup
             (IF "credit" \in m.sides THEN {Credit(NoPath, at, m.asset, m.cat, m.from, m.to, m.amount)} ELSE {})
<1> DEFINE m == SolMovement(ix, at)
           d == Debit(NoPath, at, m.asset, m.cat, m.from, m.to, m.amount)
           c == Credit(NoPath, at, m.asset, m.cat, m.from, m.to, m.amount)
<1>f. /\ m.from = ix.from /\ m.to = ix.to /\ m.amount = ix.amount
      /\ m.asset = (IF ix.prog = "spl" THEN "T" ELSE "SOL")
      /\ \/ ix.kind = "mint" /\ ix.prog = "spl" /\ m.cat = "MINT" /\ m.sides = {"credit"}
         \/ ix.kind = "burn" /\ ix.prog = "spl" /\ m.cat = "BURN" /\ m.sides = {"debit"}
         \/ /\ ix.kind = "transfer" /\ ix.prog = "spl" /\ ix.to = ix.from
            /\ m.cat = "TRANSFER" /\ m.sides = {"debit"}
         \/ /\ ix.kind = "transfer" /\ ~(ix.prog = "spl" /\ ix.to = ix.from)
            /\ m.cat = "TRANSFER" /\ m.sides = {"debit", "credit"}
  BY SolMovementFields
<1> HIDE DEF m
<1>g. ix.prog = "system" \/ ix.prog = "spl"
  BY Zenon DEF Claimed
<1>1. CASE ix.kind = "mint" /\ ix.prog = "spl"
  <2>1. m.sides = {"credit"} /\ parse(ix, at) = {c}
    BY <1>1, <1>f, Zenon DEF parse, splEvents
  <2> HIDE DEF c, d
  <2> QED BY <2>1, Zenon DEF m, c, d
<1>2. CASE ix.kind = "burn" /\ ix.prog = "spl"
  <2>1. m.sides = {"debit"} /\ parse(ix, at) = {d}
    BY <1>2, <1>f, Zenon DEF parse, splEvents
  <2> QED BY <2>1, Zenon DEF m
<1>3. CASE ix.kind = "transfer" /\ ix.prog = "spl" /\ ix.to = ix.from
  <2>1. m.sides = {"debit"} /\ parse(ix, at) = {d}
    BY <1>3, <1>f, Zenon DEF parse, splEvents
  <2> QED BY <2>1 DEF m
<1>4. CASE ix.kind = "transfer" /\ ix.prog = "spl" /\ ix.to # ix.from
  <2>1. m.sides = {"debit", "credit"} /\ parse(ix, at) = {d} \cup {c}
    BY <1>4, <1>f, Zenon DEF parse, splEvents
  <2> QED BY <2>1, Zenon DEF m
<1>5. CASE ix.kind = "transfer" /\ ix.prog = "system"
  <2>1. m.sides = {"debit", "credit"} /\ parse(ix, at) = {d} \cup {c}
    BY <1>5, <1>f, Zenon DEF parse, systemEvents
  <2> QED BY <2>1 DEF m
<1> QED
  BY <1>f, <1>g, <1>1, <1>2, <1>3, <1>4, <1>5, Zenon

\* The movement of an instruction changes an address by what the instruction does.
LEMMA SolNet ==
    ASSUME NEW ix, NEW at, IsInstruction(ix), Claimed(ix), NEW a, NEW s
    PROVE  LET m == SolMovement(ix, at) IN
           (IF m.asset = s THEN NetMove(m, a) ELSE 0) = NetOf(ix, a, s)
<1> DEFINE m == SolMovement(ix, at)
<1>f. /\ m.from = ix.from /\ m.to = ix.to /\ m.amount = ix.amount /\ ix.amount \in Nat
      /\ m.asset = (IF ix.prog = "spl" THEN "T" ELSE "SOL")
      /\ \/ ix.kind = "mint" /\ ix.prog = "spl" /\ m.cat = "MINT" /\ m.sides = {"credit"}
         \/ ix.kind = "burn" /\ ix.prog = "spl" /\ m.cat = "BURN" /\ m.sides = {"debit"}
         \/ /\ ix.kind = "transfer" /\ ix.prog = "spl" /\ ix.to = ix.from
            /\ m.cat = "TRANSFER" /\ m.sides = {"debit"}
         \/ /\ ix.kind = "transfer" /\ ~(ix.prog = "spl" /\ ix.to = ix.from)
            /\ m.cat = "TRANSFER" /\ m.sides = {"debit", "credit"}
  BY SolMovementFields
<1> HIDE DEF m
<1>1. NetMove(m, a) = (IF ix.to = a /\ ix.kind # "burn" THEN ix.amount ELSE 0)
                      - (IF ix.from = a /\ ix.kind # "mint" THEN ix.amount ELSE 0)
  BY <1>f DEF NetMove, Touches, EventFor, Event
<1> QED
  BY <1>f, <1>1, Zenon DEF NetOf, m

At(p) == <<p[1] - 1, p[2] - 1>>

\* The instructions of a typed transaction.
LEMMA SolTyped ==
    ASSUME tx \in Txs, ~isEVM, tx.chain # "btc"
    PROVE  /\ IsSolanaTx(tx)
           /\ IsFiniteSet(DOMAIN tx.ixs) /\ DOMAIN tx.ixs \subseteq Nat \ {0}
           /\ \A o \in DOMAIN tx.ixs :
                /\ IsFiniteSet(DOMAIN tx.ixs[o].inner) /\ DOMAIN tx.ixs[o].inner \subseteq Nat \ {0}
                /\ IsInstruction(tx.ixs[o])
                /\ \A n \in DOMAIN tx.ixs[o].inner : IsInstruction(tx.ixs[o].inner[n])
           /\ \A W : decode(W) = decodeSolanaTransaction(tx, W)
<1>1. IsSolanaTx(tx)
  BY DecodingAssumption, Zenon DEF isEVM
<1>2. ASSUME NEW s, IsList(s) PROVE IsFiniteSet(DOMAIN s) /\ DOMAIN s \subseteq Nat \ {0}
  <2>1. DOMAIN s = 1 .. Len(s) /\ Len(s) \in Nat
    BY <1>2, Zenon DEF IsList
  <2>2. IsFiniteSet(1 .. Len(s))
    BY <2>1, FS_Interval
  <2> QED
    BY <2>1, <2>2
<1>3. ASSUME NEW W PROVE decode(W) = decodeSolanaTransaction(tx, W)
  BY Zenon DEF decode, isEVM
<1> QED
  BY <1>1, <1>2, <1>3, Zenon DEF IsSolanaTx

\* A place is that of an instruction itself, or of one that an instruction of another program called.
LEMMA PlacesAre ==
    ASSUME NEW t, NEW p
    PROVE  p \in Places(t) <=>
             \E o \in DOMAIN t.ixs :
               \/ Claimed(t.ixs[o]) /\ p = <<o, 0>>
               \/ /\ ~Claimed(t.ixs[o])
                  /\ \E n \in DOMAIN t.ixs[o].inner : Claimed(t.ixs[o].inner[n]) /\ p = <<o, n>>
<1> DEFINE Inner(o) == {m \in DOMAIN t.ixs[o].inner : Claimed(t.ixs[o].inner[m])}
           In(o) == {<<o, n>> : n \in Inner(o)}
           F(o) == IF Claimed(t.ixs[o]) THEN {<<o, 0>>} ELSE In(o)
<1>1. Places(t) = UNION {F(o) : o \in DOMAIN t.ixs}
  BY Zenon DEF Places
<1>2. p \in Places(t) <=> \E o \in DOMAIN t.ixs : p \in F(o)
  <2> HIDE DEF F
  <2> QED BY <1>1, Zenon
<1>3. ASSUME NEW o \in DOMAIN t.ixs
      PROVE  p \in F(o) <=> \/ Claimed(t.ixs[o]) /\ p = <<o, 0>>
                            \/ /\ ~Claimed(t.ixs[o])
                               /\ \E n \in DOMAIN t.ixs[o].inner : Claimed(t.ixs[o].inner[n]) /\ p = <<o, n>>
  <2>1. p \in In(o) <=> \E n \in DOMAIN t.ixs[o].inner : Claimed(t.ixs[o].inner[n]) /\ p = <<o, n>>
    BY Zenon
  <2>2. CASE Claimed(t.ixs[o])
    BY <2>2, Zenon
  <2>3. CASE ~Claimed(t.ixs[o])
    <3> HIDE DEF In
    <3> QED BY <2>1, <2>3, Zenon
  <2> QED BY <2>2, <2>3, Zenon
<1> HIDE DEF F
<1> QED
  BY <1>2, <1>3, Zenon

\* What stands at a place.
LEMMA PlaceHolds ==
    ASSUME tx \in Txs, ~isEVM, tx.chain # "btc", NEW p \in Places(tx)
    PROVE  /\ p = <<p[1], p[2]>> /\ p[1] \in Nat \ {0} /\ p[2] \in Nat /\ p[1] \in DOMAIN tx.ixs
           /\ IsInstruction(InstructionAt(tx, p)) /\ Claimed(InstructionAt(tx, p))
           /\ p[2] = 0 <=> Claimed(tx.ixs[p[1]])
<1>1. PICK o \in DOMAIN tx.ixs :
         \/ Claimed(tx.ixs[o]) /\ p = <<o, 0>>
         \/ /\ ~Claimed(tx.ixs[o])
            /\ \E n \in DOMAIN tx.ixs[o].inner : Claimed(tx.ixs[o].inner[n]) /\ p = <<o, n>>
  BY PlacesAre
<1>2. CASE Claimed(tx.ixs[o]) /\ p = <<o, 0>>
  BY <1>2, SolTyped, Zenon DEF InstructionAt
<1>3. CASE /\ ~Claimed(tx.ixs[o])
           /\ \E n \in DOMAIN tx.ixs[o].inner : Claimed(tx.ixs[o].inner[n]) /\ p = <<o, n>>
  <2>1. PICK n \in DOMAIN tx.ixs[o].inner : Claimed(tx.ixs[o].inner[n]) /\ p = <<o, n>>
    BY <1>3, Zenon
  <2>2. n \in Nat \ {0} /\ o \in Nat \ {0} /\ IsInstruction(tx.ixs[o].inner[n])
    BY SolTyped, Zenon
  <2>3. InstructionAt(tx, p) = tx.ixs[o].inner[n]
    BY <2>1, <2>2, Zenon DEF InstructionAt
  <2> QED
    BY <1>3, <2>1, <2>2, <2>3, Zenon
<1> QED
  BY <1>1, <1>2, <1>3, Zenon

\* There are finitely many.
LEMMA PlacesFinite ==
    ASSUME tx \in Txs, ~isEVM, tx.chain # "btc"
    PROVE  IsFiniteSet(Places(tx))
<1> DEFINE Inner(o) == {m \in DOMAIN tx.ixs[o].inner : Claimed(tx.ixs[o].inner[m])}
           In(o) == {<<o, n>> : n \in Inner(o)}
           f == [o \in DOMAIN tx.ixs |-> IF Claimed(tx.ixs[o]) THEN {<<o, 0>>} ELSE In(o)]
<1>1. Places(tx) = UNION ImageOf(f, DOMAIN tx.ixs)
  BY Zenon DEF Places, ImageOf
<1>2. ASSUME NEW o \in DOMAIN tx.ixs PROVE IsFiniteSet(f[o])
  <2>1. IsFiniteSet(Inner(o))
    BY SolTyped, FS_Subset, Zenon
  <2> DEFINE g == [n \in Inner(o) |-> <<o, n>>]
  <2>2. In(o) = ImageOf(g, Inner(o))
    BY Zenon DEF ImageOf
  <2>3. IsFiniteSet(ImageOf(g, Inner(o)))
    <3> HIDE DEF g, Inner
    <3> QED BY <2>1, FiniteImage, Zenon
  <2>4. IsFiniteSet({<<o, 0>>})
    BY FS_Singleton, Zenon
  <2>5. f[o] = {<<o, 0>>} \/ f[o] = In(o)
    BY Zenon
  <2> HIDE DEF In, f
  <2> QED
    BY <2>2, <2>3, <2>4, <2>5, Zenon
<1> HIDE DEF f
<1>3. IsFiniteSet(ImageOf(f, DOMAIN tx.ixs))
  BY SolTyped, FiniteImage, Zenon
<1>4. \A T \in ImageOf(f, DOMAIN tx.ixs) : IsFiniteSet(T)
  BY <1>2, Zenon DEF ImageOf
<1> QED
  BY <1>1, <1>3, <1>4, FS_UNION, Zenon

\* The dispatcher parses the instruction of every place and no other.
LEMMA DispatchPlaces ==
    ASSUME tx \in Txs, ~isEVM, tx.chain # "btc", NEW r
    PROVE  r \in dispatch(tx) <=> \E p \in Places(tx) : r \in parse(InstructionAt(tx, p), At(p))
<1>d. r \in dispatch(tx) <=>
        \E o \in DOMAIN tx.ixs :
          \/ r \in parse(tx.ixs[o], <<o - 1, -1>>)
          \/ /\ ~Claimed(tx.ixs[o])
             /\ \E n \in DOMAIN tx.ixs[o].inner : r \in parse(tx.ixs[o].inner[n], <<o - 1, n - 1>>)
  <2> DEFINE In(o) == UNION {parse(tx.ixs[o].inner[n], <<o - 1, n - 1>>) : n \in DOMAIN tx.ixs[o].inner}
             F(o) == parse(tx.ixs[o], <<o - 1, -1>>) \cup (IF Claimed(tx.ixs[o]) THEN {} ELSE In(o))
  <2>1. dispatch(tx) = UNION {F(o) : o \in DOMAIN tx.ixs}
    BY Zenon DEF dispatch
  <2>2. r \in dispatch(tx) <=> \E o \in DOMAIN tx.ixs : r \in F(o)
    <3> HIDE DEF F
    <3> QED BY <2>1, Zenon
  <2>3. ASSUME NEW o \in DOMAIN tx.ixs
        PROVE  r \in F(o) <=> \/ r \in parse(tx.ixs[o], <<o - 1, -1>>)
                              \/ ~Claimed(tx.ixs[o]) /\ r \in In(o)
    <3> HIDE DEF In
    <3>1. CASE Claimed(tx.ixs[o])
      BY <3>1, Zenon
    <3>2. CASE ~Claimed(tx.ixs[o])
      BY <3>2, Zenon
    <3> QED BY <3>1, <3>2, Zenon
  <2>4. ASSUME NEW o \in DOMAIN tx.ixs
        PROVE  r \in In(o) <=> \E n \in DOMAIN tx.ixs[o].inner : r \in parse(tx.ixs[o].inner[n], <<o - 1, n - 1>>)
    BY Zenon
  <2> HIDE DEF F, In
  <2> QED
    BY <2>2, <2>3, <2>4, Zenon
<1>u. ASSUME NEW ix, NEW at, ~Claimed(ix) PROVE parse(ix, at) = {}
  BY <1>u, Zenon DEF parse, Claimed
<1>1. ASSUME r \in dispatch(tx) PROVE \E p \in Places(tx) : r \in parse(InstructionAt(tx, p), At(p))
  <2>1. PICK o \in DOMAIN tx.ixs :
          \/ r \in parse(tx.ixs[o], <<o - 1, -1>>)
          \/ /\ ~Claimed(tx.ixs[o])
             /\ \E n \in DOMAIN tx.ixs[o].inner : r \in parse(tx.ixs[o].inner[n], <<o - 1, n - 1>>)
    BY <1>1, <1>d, Zenon
  <2>2. CASE r \in parse(tx.ixs[o], <<o - 1, -1>>)
    <3>1. <<o, 0>> \in Places(tx)
      BY <1>u, <2>2, PlacesAre, Zenon
    <3>2. InstructionAt(tx, <<o, 0>>) = tx.ixs[o] /\ At(<<o, 0>>) = <<o - 1, -1>>
      BY DEF InstructionAt, At
    <3> QED
      BY <2>2, <3>1, <3>2, Zenon
  <2>3. CASE /\ ~Claimed(tx.ixs[o])
             /\ \E n \in DOMAIN tx.ixs[o].inner : r \in parse(tx.ixs[o].inner[n], <<o - 1, n - 1>>)
    <3>1. PICK n \in DOMAIN tx.ixs[o].inner : r \in parse(tx.ixs[o].inner[n], <<o - 1, n - 1>>)
      BY <2>3, Zenon
    <3>2. Claimed(tx.ixs[o].inner[n])
      BY <1>u, <3>1, Zenon
    <3>3. <<o, n>> \in Places(tx)
      BY <2>3, <3>2, PlacesAre, Zenon
    <3>4. n # 0
      BY SolTyped, Zenon
    <3>5. InstructionAt(tx, <<o, n>>) = tx.ixs[o].inner[n] /\ At(<<o, n>>) = <<o - 1, n - 1>>
      BY <3>4, Zenon DEF InstructionAt, At
    <3> QED
      BY <3>1, <3>3, <3>5, Zenon
  <2> QED BY <2>1, <2>2, <2>3, Zenon
<1>2. ASSUME NEW p \in Places(tx), r \in parse(InstructionAt(tx, p), At(p)) PROVE r \in dispatch(tx)
  <2>1. PICK o \in DOMAIN tx.ixs :
         \/ Claimed(tx.ixs[o]) /\ p = <<o, 0>>
         \/ /\ ~Claimed(tx.ixs[o])
            /\ \E n \in DOMAIN tx.ixs[o].inner : Claimed(tx.ixs[o].inner[n]) /\ p = <<o, n>>
    BY PlacesAre
  <2>2. CASE Claimed(tx.ixs[o]) /\ p = <<o, 0>>
    <3>1. InstructionAt(tx, p) = tx.ixs[o] /\ At(p) = <<o - 1, -1>>
      BY <2>2 DEF InstructionAt, At
    <3> QED
      BY <1>2, <1>d, <3>1, Zenon
  <2>3. CASE /\ ~Claimed(tx.ixs[o])
             /\ \E n \in DOMAIN tx.ixs[o].inner : Claimed(tx.ixs[o].inner[n]) /\ p = <<o, n>>
    <3>1. PICK n \in DOMAIN tx.ixs[o].inner : Claimed(tx.ixs[o].inner[n]) /\ p = <<o, n>>
      BY <2>3
    <3>2. n # 0
      BY SolTyped, Zenon
    <3>3. InstructionAt(tx, p) = tx.ixs[o].inner[n] /\ At(p) = <<o - 1, n - 1>>
      BY <3>1, <3>2, Zenon DEF InstructionAt, At
    <3> QED
      BY <1>2, <1>d, <2>3, <3>3
  <2> QED BY <2>1, <2>2, <2>3
<1> QED
  BY <1>1, <1>2, Zenon

SolMovements(t) ==
  [p \in IF t.status = "FAILED" THEN {} ELSE Places(t) |-> SolMovement(InstructionAt(t, p), At(p))]

\* The raw events of a Solana transaction: its movements' and its fee's.
LEMMA SolRaws ==
    ASSUME tx \in Txs, ~isEVM, tx.chain # "btc"
    PROVE  /\ tx.status = "FAILED" => AllRaws = {}
           /\ tx.status # "FAILED" =>
                AllRaws = {e \in dispatch(tx) : e.addr \in Addresses} \cup
                          (IF tx.payer \in Addresses /\ tx.fee # 0 THEN {solanaFee(tx.payer, tx.fee)} ELSE {})
BY SolTyped DEF AllRaws, decodeSolanaTransaction

\* The movements of a Solana transaction are well formed.
LEMMA SolAreMovements ==
    ASSUME tx \in Txs, ~isEVM, tx.chain # "btc"
    PROVE  AreMovements(SolMovements(tx))
<1> DEFINE mv == SolMovements(tx)
<1>d. DOMAIN mv \subseteq Places(tx)
  BY Zenon DEF SolMovements
<1>1. IsFiniteSet(DOMAIN mv)
  BY <1>d, PlacesFinite, FS_Subset, Zenon
<1>2. ASSUME NEW p \in DOMAIN mv
      PROVE  /\ mv[p] = SolMovement(InstructionAt(tx, p), At(p)) /\ p \in Places(tx)
             /\ mv[p].path = <<"ix", At(p)>> /\ IsMovement(mv[p])
             /\ p = <<p[1], p[2]>> /\ p[1] \in Nat \ {0} /\ p[2] \in Nat
  <2> DEFINE ix == InstructionAt(tx, p)
             m == SolMovement(ix, At(p))
  <2>1. mv[p] = m /\ p \in Places(tx)
    BY Zenon DEF SolMovements
  <2>2. /\ p = <<p[1], p[2]>> /\ p[1] \in Nat \ {0} /\ p[2] \in Nat
        /\ IsInstruction(ix) /\ Claimed(ix)
    BY <2>1, PlaceHolds, Zenon
  <2> HIDE DEF ix
  <2>3. /\ m.path = <<"ix", At(p)>> /\ m.meta = 0 /\ m.amount \in Nat
        /\ m.cat \in {"TRANSFER", "MINT", "BURN"}
        /\ m.cat # "TRANSFER" => ~("debit" \in m.sides /\ "credit" \in m.sides)
    BY <2>2, SolMovementFields
  <2> HIDE DEF m
  <2>4. m.path # FeePath
    BY <2>2, <2>3 DEF At, FeePath
  <2>5. IsMovement(m)
    BY <2>3, <2>4 DEF IsMovement
  <2> HIDE DEF mv
  <2> QED
    BY <2>1, <2>2, <2>3, <2>5, Zenon DEF m, ix
<1> HIDE DEF mv
<1>3. ASSUME NEW p \in DOMAIN mv, NEW q \in DOMAIN mv, mv[p].path = mv[q].path PROVE p = q
  <2>1. At(p) = At(q)
    BY <1>2, <1>3
  <2>a. p[1] - 1 = q[1] - 1 /\ p[2] - 1 = q[2] - 1
    BY <2>1, Zenon DEF At
  <2>2. p[1] = q[1] /\ p[2] = q[2]
    BY <1>2, <2>a
  <2> QED
    BY <1>2, <2>2, Zenon
<1> QED
  BY <1>1, <1>2, <1>3, Zenon DEF AreMovements, mv

\* decodeSolanaTransaction reports each side of each movement, and the fee.
LEMMA SolReported ==
    ASSUME tx \in Txs, ~isEVM, tx.chain # "btc"
    PROVE  Movements(SolMovements(tx)) /\ \A r \in AllRaws : r.cat = "FEE" => tx.fee # 0
<1> DEFINE mv == SolMovements(tx)
<1>m. AreMovements(mv)
  BY SolAreMovements, Zenon
<1>d. DOMAIN mv = IF tx.status = "FAILED" THEN {} ELSE Places(tx)
  BY Zenon DEF SolMovements
<1>p. ASSUME NEW p \in DOMAIN mv
      PROVE  LET ix == InstructionAt(tx, p)
                 m == mv[p]
             IN /\ p \in Places(tx) /\ IsMovement(m) /\ m.path = <<"ix", At(p)>> /\ m.meta = 0 /\ m.cat # "FEE"
                /\ parse(ix, At(p)) =
                     (IF "debit" \in m.sides THEN {Debit(NoPath, At(p), m.asset, m.cat, m.from, m.to, m.amount)} ELSE {}) \cup
                     (IF "credit" \in m.sides THEN {Credit(NoPath, At(p), m.asset, m.cat, m.from, m.to, m.amount)} ELSE {})
  <2> DEFINE ix == InstructionAt(tx, p)
  <2>1. p \in Places(tx) /\ mv[p] = SolMovement(ix, At(p))
    BY Zenon DEF SolMovements
  <2>2. IsInstruction(ix) /\ Claimed(ix)
    BY <2>1, PlaceHolds, Zenon
  <2>3. IsMovement(mv[p]) /\ mv[p].cat # "FEE"
    BY <1>m, Zenon DEF AreMovements, IsMovement
  <2> HIDE DEF mv, ix
  <2> QED
    BY <2>1, <2>2, <2>3, SolMovementFields, SolParsed DEF ix
<1> HIDE DEF mv
<1>s. ASSUME NEW p \in DOMAIN mv, NEW r \in parse(InstructionAt(tx, p), At(p))
      PROVE  SideOf(r, mv[p]) /\ r.cat # "FEE"
  <2> DEFINE m == mv[p]
             d == Debit(NoPath, At(p), m.asset, m.cat, m.from, m.to, m.amount)
             c == Credit(NoPath, At(p), m.asset, m.cat, m.from, m.to, m.amount)
  <2>1. (r = d /\ "debit" \in m.sides) \/ (r = c /\ "credit" \in m.sides)
    BY <1>p, Zenon
  <2>2. m.path = <<"ix", At(p)>> /\ m.meta = 0 /\ m.cat # "FEE"
    BY <1>p, Zenon
  <2>3. /\ d.cat = m.cat /\ ("debit" \in m.sides => SideOf(d, m))
        /\ c.cat = m.cat /\ ("credit" \in m.sides => SideOf(c, m))
    BY <2>2, SolSides, Zenon
  <2> HIDE DEF d, c, m
  <2>4. SideOf(r, m) /\ r.cat # "FEE"
    BY <2>1, <2>2, <2>3, Zenon
  <2> QED BY <2>4, Zenon DEF m
<1>0. ASSUME NEW r \in AllRaws
      PROVE  \/ /\ r.cat # "FEE" /\ r.addr \in Addresses
                /\ \E p \in DOMAIN mv : SideOf(r, mv[p])
             \/ r.cat = "FEE" /\ r = solanaFee(tx.payer, tx.fee) /\ tx.fee # 0
  <2>1. tx.status # "FAILED"
    BY SolRaws, Zenon
  <2>2. CASE r \in dispatch(tx) /\ r.addr \in Addresses
    <3>1. PICK p \in Places(tx) : r \in parse(InstructionAt(tx, p), At(p))
      BY <2>2, DispatchPlaces, Zenon
    <3>2. p \in DOMAIN mv
      BY <1>d, <2>1, Zenon
    <3> QED
      BY <1>s, <2>2, <3>1, <3>2, Zenon
  <2>3. CASE r = solanaFee(tx.payer, tx.fee) /\ tx.fee # 0
    BY <2>3, Zenon DEF solanaFee, Raw
  <2> QED
    BY <2>1, <2>2, <2>3, SolRaws, Zenon
<1>1. ASSUME NEW r \in RawMoves PROVE r.addr \in Addresses /\ \E p \in DOMAIN mv : SideOf(r, mv[p])
  BY <1>0, Zenon DEF RawMoves
<1>2. ASSUME NEW p \in DOMAIN mv, NEW a \in Addresses, Touches(mv[p], a)
      PROVE  \E r \in RawMoves : r.addr = a /\ SideOf(r, mv[p])
  <2> DEFINE m == mv[p]
             P == parse(InstructionAt(tx, p), At(p))
             d == Debit(NoPath, At(p), m.asset, m.cat, m.from, m.to, m.amount)
             c == Credit(NoPath, At(p), m.asset, m.cat, m.from, m.to, m.amount)
  <2>1. tx.status # "FAILED" /\ p \in Places(tx)
    BY <1>d, <1>p, Zenon
  <2>2. m.path = <<"ix", At(p)>> /\ m.meta = 0
    BY <1>p, Zenon
  <2>3. d.addr = m.from /\ c.addr = m.to
    BY <2>2, SolSides, Zenon
  <2>4. ("debit" \in m.sides => d \in P) /\ ("credit" \in m.sides => c \in P)
    BY <1>p, Zenon
  <2>5. ("debit" \in m.sides /\ m.from = a) \/ ("credit" \in m.sides /\ m.to = a)
    BY <1>2, Zenon DEF Touches
  <2> HIDE DEF d, c, m, P
  <2>6. \E r \in P : r.addr = a
    BY <2>3, <2>4, <2>5, Zenon
  <2>7. PICK r \in P : r.addr = a
    BY <2>6, Zenon
  <2>8. SideOf(r, mv[p]) /\ r.cat # "FEE"
    BY <1>s, Zenon DEF P
  <2>9. r \in dispatch(tx)
    BY <2>1, DispatchPlaces, Zenon DEF P
  <2>10. r \in AllRaws
    BY <2>1, <2>7, <2>9, SolRaws, Zenon
  <2> QED
    BY <2>7, <2>8, <2>10, Zenon DEF RawMoves
<1>3. ASSUME NEW r \in AllRaws, r.cat = "FEE"
      PROVE  /\ r = solanaFee(tx.payer, tx.fee) /\ decodedEventPath(r) = FeePath
             /\ r.delta \in Int /\ r.meta \in Nat
  <2>1. r = solanaFee(tx.payer, tx.fee)
    BY <1>0, <1>3, Zenon
  <2>2. tx.fee \in Nat
    BY SolTyped, Zenon DEF IsSolanaTx
  <2> QED
    BY <2>1, <2>2 DEF solanaFee, Raw, decodedEventPath, FeePath
<1> QED
  BY <1>m, <1>0, <1>1, <1>2, <1>3, Zenon DEF Movements, Reported, mv

\* The fee is a charge in SOL to the payer.
LEMMA SolFeeOf ==
    ASSUME tx \in Txs, ~isEVM, tx.chain # "btc", NEW a, NEW s
    PROVE  FeeOf(a, s) = IF a = tx.payer /\ s = "SOL" THEN tx.fee ELSE 0
<1>1. decode({}).payer = tx.payer /\ decode({}).fee = tx.fee
  BY SolTyped DEF decodeSolanaTransaction
<1> QED
  BY <1>1, Zenon DEF FeeOf

\* What a Solana transaction's events owe an address is what it moved.
LEMMA SolOwedSum ==
    ASSUME tx \in Txs, ~isEVM, tx.chain # "btc", NEW a \in Addresses, NEW s \in Assets
    PROVE  SumDelta(Of(Owed, a, s)) = Effect(a, s) + FeeOf(a, s)
<1> DEFINE mv == SolMovements(tx)
           net == NetOver(mv, a, s)
           g == [p \in Places(tx) |-> NetOf(InstructionAt(tx, p), a, s)]
<1>1. SumDelta(Of(Owed, a, s)) = Sum(net, DOMAIN mv)
  BY SolReported, OwedSum, Zenon
<1>2. Effect(a, s) = SolEffect(tx, a, s)
  BY Zenon DEF Effect, isEVM
<1>3. tx.fee \in Nat
  BY SolTyped, Zenon DEF IsSolanaTx
<1>d. DOMAIN mv = IF tx.status = "FAILED" THEN {} ELSE Places(tx)
  BY Zenon DEF SolMovements
<1>4. CASE tx.status = "FAILED"
  <2>1. Sum(net, DOMAIN mv) = 0
    <3> HIDE DEF net, mv
    <3> QED BY <1>d, <1>4, SumEmpty, Zenon
  <2>2. SolEffect(tx, a, s) + FeeOf(a, s) = 0
    BY <1>3, <1>4, SolFeeOf DEF SolEffect
  <2> QED
    BY <1>1, <1>2, <2>1, <2>2, Zenon
<1>5. CASE tx.status # "FAILED"
  <2>1. ASSUME NEW p \in Places(tx) PROVE net[p] = g[p] /\ net[p] \in Int
    <3> DEFINE ix == InstructionAt(tx, p)
               m == SolMovement(ix, At(p))
    <3>1. IsInstruction(ix) /\ Claimed(ix)
      BY PlaceHolds, Zenon
    <3>2. mv[p] = m /\ net[p] = IF m.asset = s THEN NetMove(m, a) ELSE 0
      BY <1>5, Zenon DEF NetOver, SolMovements
    <3>3. net[p] = NetOf(ix, a, s)
      <4> HIDE DEF net, mv, ix
      <4> QED BY <3>1, <3>2, SolNet
    <3>4. NetOf(ix, a, s) \in Int
      <4> HIDE DEF ix
      <4> QED BY <3>1 DEF NetOf, IsInstruction
    <3>5. g[p] = NetOf(ix, a, s)
      BY Zenon
    <3> HIDE DEF net, mv, ix, g
    <3> QED BY <3>3, <3>4, <3>5, Zenon
  <2>2. SolEffect(tx, a, s) = Sum(g, Places(tx)) - (IF a = tx.payer /\ s = "SOL" THEN tx.fee ELSE 0)
    BY <1>5, Zenon DEF SolEffect, SumFunction, Sum
  <2> HIDE DEF net, mv, g
  <2>3. Summable(net, Places(tx))
    BY <2>1, PlacesFinite, Zenon DEF Summable
  <2>4. Sum(net, Places(tx)) = Sum(g, Places(tx)) /\ Sum(net, Places(tx)) \in Int
    BY <2>1, <2>3, SumEqual, SumType, Zenon
  <2> QED
    BY <1>1, <1>2, <1>3, <1>5, <1>d, <2>2, <2>4, SolFeeOf
<1> QED BY <1>4, <1>5, Zenon

SolFee == Event(FeePath, tx.payer, "SOL", "FEE", -tx.fee)
SolFees(W) == IF tx.payer \in W /\ tx.fee # 0 THEN {SolFee} ELSE {}

\* The fee event of a Solana batch is the fee.
LEMMA SolFeesAdd ==
    ASSUME tx \in Txs, ~isEVM, tx.chain # "btc", NEW W
    PROVE  FeesAdd(SolFees(W), W)
<1>t. tx.fee \in Nat
  BY SolTyped, Zenon DEF IsSolanaTx
<1>e. /\ SolFee.addr = tx.payer /\ SolFee.asset = "SOL" /\ SolFee.act = "FEE"
      /\ SolFee.delta = -tx.fee /\ SolFee.delta \in Int
  BY <1>t DEF SolFee, Event
<1>1. AreFees(SolFees(W))
  <2>1. IsFiniteSet(SolFees(W))
    <3>1. IsFiniteSet({SolFee}) /\ IsFiniteSet({})
      BY FS_Singleton, FS_EmptySet, Zenon
    <3> QED BY <3>1, Zenon DEF SolFees
  <2> QED
    BY <1>e, <2>1, Zenon DEF AreFees, SolFees, FeeActs
<1>2. ASSUME NEW a \in W, NEW s \in Assets PROVE SumDelta(Of(SolFees(W), a, s)) = -FeeOf(a, s)
  <2>f. FeeOf(a, s) = IF a = tx.payer /\ s = "SOL" THEN tx.fee ELSE 0
    BY SolFeeOf, Zenon
  <2>1. CASE a = tx.payer /\ s = "SOL" /\ tx.fee # 0
    <3>1. Of(SolFees(W), a, s) = {SolFee}
      BY <1>e, <2>1, Zenon DEF Of, SolFees
    <3>2. SumDelta({SolFee}) = -tx.fee
      BY <1>e, SumDeltaOne, Zenon
    <3> QED
      BY <2>1, <2>f, <3>1, <3>2, Zenon
  <2>2. CASE ~(a = tx.payer /\ s = "SOL" /\ tx.fee # 0)
    <3>1. Of(SolFees(W), a, s) = {}
      BY <1>e, <2>2, Zenon DEF Of, SolFees
    <3>2. FeeOf(a, s) = 0
      BY <2>2, <2>f, Zenon
    <3> QED
      BY <3>1, <3>2, SumDeltaEmpty
  <2> QED BY <2>1, <2>2, Zenon
<1> QED
  BY <1>1, <1>2, Zenon DEF FeesAdd

\* No event gives way to one of its outer instruction: that one was not parsed.
LEMMA NothingCollapses ==
    ASSUME tx \in Txs, ~isEVM, tx.chain # "btc", NEW W
    PROVE  CollapsedToOuter(OwedTo(W) \cup SolFees(W)) = OwedTo(W) \cup SolFees(W)
<1> DEFINE S == OwedTo(W) \cup SolFees(W)
           mv == SolMovements(tx)
<1>f. \A e \in SolFees(W) : e.act = "FEE"
  BY DEF SolFees, SolFee, Event
<1>o. ASSUME NEW d \in OwedTo(W)
      PROVE  d.act # "FEE" /\ \E p \in Places(tx) : d.path = <<"ix", At(p)>>
  <2>1. d \in Owed
    BY Zenon DEF OwedTo
  <2>2. Movements(mv)
    BY SolReported, Zenon
  <2>3. PICK p \in DOMAIN mv : d.path = mv[p].path /\ d.act \notin FeeActs
    BY <2>1, <2>2, OwedFields, Zenon
  <2>4. p \in Places(tx) /\ mv[p] = SolMovement(InstructionAt(tx, p), At(p))
    BY Zenon DEF SolMovements
  <2>5. IsInstruction(InstructionAt(tx, p)) /\ Claimed(InstructionAt(tx, p))
    BY <2>4, PlaceHolds, Zenon
  <2>6. mv[p].path = <<"ix", At(p)>>
    BY <2>4, <2>5, SolMovementFields
  <2> QED
    BY <2>3, <2>4, <2>6, Zenon DEF FeeActs
<1>1. ASSUME NEW e \in OwedTo(W), e.path[2][2] # -1,
             NEW f \in S, f.path = <<"ix", <<e.path[2][1], -1>>>>, f.act = e.act
      PROVE  FALSE
  <2>1. f \in OwedTo(W)
    BY <1>f, <1>o, <1>1, Zenon
  <2>2. PICK p \in Places(tx) : e.path = <<"ix", At(p)>>
    BY <1>o, Zenon
  <2>3. PICK q \in Places(tx) : f.path = <<"ix", At(q)>>
    BY <1>o, <2>1, Zenon
  <2>4. e.path[2][1] = p[1] - 1 /\ e.path[2][2] = p[2] - 1
    BY <2>2 DEF At
  <2>a. At(q) = <<e.path[2][1], -1>>
    BY <1>1, <2>3
  <2>5. q[1] - 1 = p[1] - 1 /\ q[2] - 1 = -1
    BY <2>4, <2>a, Zenon DEF At
  <2>6. p[1] \in Nat /\ q[1] \in Nat /\ p[2] \in Nat /\ q[2] \in Nat
    BY PlaceHolds, Zenon
  <2>7. q[1] = p[1] /\ q[2] = 0 /\ p[2] # 0
    BY <1>1, <2>4, <2>5, <2>6
  <2> QED
    BY <2>7, PlaceHolds, Zenon
<1> HIDE DEF mv
<1>2. \A e \in S : e \in CollapsedToOuter(S)
  BY <1>f, <1>1, Zenon DEF CollapsedToOuter
<1>3. CollapsedToOuter(S) \subseteq S
  BY Zenon DEF CollapsedToOuter
<1> QED
  BY <1>2, <1>3, Zenon

\* The events built for a Solana batch: what its addresses are owed, and the fee.
LEMMA SolBuilt ==
    ASSUME tx \in Txs, ~isEVM, tx.chain # "btc", NEW G \in SUBSET AllRaws, NEW W, Covers(G, W)
    PROVE  normalizedEvents(Report(G), W) = OwedTo(W) \cup SolFees(W)
<1> DEFINE result == Report(G)
           mv == SolMovements(tx)
           B == BuildRaw(result.events, W, TRUE, [e \in result.events |-> SolPath(e)])
           emit == /\ result.payer \in W
                   /\ shouldEmitFee(result.status, result.payer, result.fee)
                   /\ ~\E e \in B : e.act = "FEE" /\ e.addr = result.payer
           E == IF emit THEN {Event(<<"ix", <<-1, -1>>>>, result.payer, "SOL", "FEE", -result.fee)} ELSE {}
<1>m. Movements(mv)
  BY SolReported, Zenon
<1>t. tx.fee \in Nat /\ tx.payer # NoAddr /\ tx.status \in {"SUCCESS", "FAILED"}
  BY SolTyped, Zenon DEF IsSolanaTx
<1>r. result.status = tx.status /\ result.payer = tx.payer /\ result.fee = tx.fee /\ result.events = G
  BY SolTyped DEF Report, decodeSolanaTransaction
<1>1. normalizedEvents(result, W) = OnePerID(CollapsedToOuter(B \cup E))
  BY Zenon DEF normalizedEvents, buildCanonicalSolanaBalanceEvents, isEVM
<1>2. B = {Canonical(r) : r \in {q \in G : q.addr \in W}}
  <2> DEFINE P == [e \in G |-> SolPath(e)]
             V == {q \in G : q.addr \in W}
  <2>1. B = {NormalizedEvent(r, TRUE, P[r]) : r \in V}
    BY <1>r, Zenon DEF BuildRaw, WatchedOnly
  <2>2. \A r \in V : NormalizedEvent(r, TRUE, P[r]) = Canonical(r)
    BY Zenon DEF Canonical, decodedEventPath, SolPath
  <2> HIDE DEF B, P
  <2> QED
    BY <2>1, <2>2, Zenon
<1>3. {Canonical(r) : r \in {q \in G : q.addr \in W /\ q.cat # "FEE"}} = OwedTo(W)
  BY <1>m, BuiltOwed, Zenon
<1> DEFINE C == {Canonical(r) : r \in {q \in G : q.addr \in W /\ q.cat = "FEE"}}
<1>4. B = OwedTo(W) \cup C
  BY <1>2, <1>3, Zenon
<1>5. Canonical(solanaFee(tx.payer, tx.fee)) = SolFee
  <2> DEFINE f == solanaFee(tx.payer, tx.fee)
  <2>1. f.cat = "FEE" /\ f.addr = tx.payer /\ f.asset = "SOL" /\ f.delta = -tx.fee /\ f.ix = <<-1, -1>>
    BY Zenon DEF solanaFee, Raw
  <2> HIDE DEF f
  <2>2. decodedEventPath(f) = FeePath
    BY <2>1, Zenon DEF decodedEventPath, FeePath
  <2>3. Canonical(f) = SolFee
    BY <2>1, <2>2, Zenon DEF Canonical, NormalizedEvent, SolFee, ClassifyActivity
  <2> QED BY <2>3, Zenon DEF f
<1>6. C \subseteq SolFees(W)
  <2>1. ASSUME NEW q \in G, q.addr \in W, q.cat = "FEE" PROVE Canonical(q) \in SolFees(W)
    <3>1. q = solanaFee(tx.payer, tx.fee) /\ tx.fee # 0
      BY <2>1, SolReported, Zenon DEF Movements, Reported
    <3>2. q.addr = tx.payer
      BY <3>1, Zenon DEF solanaFee, Raw
    <3> QED
      BY <1>5, <2>1, <3>1, <3>2, Zenon DEF SolFees
  <2> QED BY <2>1, Zenon
<1>7. \A e \in OwedTo(W) : e.act # "FEE"
  BY <1>m, OwedFields, Zenon DEF OwedTo, FeeActs
<1>8. SolFee.act = "FEE" /\ SolFee.addr = tx.payer
  BY Zenon DEF SolFee, Event
<1>9. C # {} => SolFee \in C
  BY <1>6, Zenon DEF SolFees
<1>10. E = IF tx.payer \in W /\ tx.fee # 0 /\ C = {} THEN {SolFee} ELSE {}
  <2>1. (\E e \in B : e.act = "FEE" /\ e.addr = tx.payer) <=> C # {}
    <3> HIDE DEF B, C
    <3>1. ASSUME NEW e \in B, e.act = "FEE" PROVE C # {}
      BY <1>4, <1>7, <3>1, Zenon
    <3> QED
      BY <1>4, <1>8, <1>9, <3>1, Zenon
  <2>2. emit <=> tx.payer \in W /\ tx.fee # 0 /\ C = {}
    <3> HIDE DEF B, C
    <3> QED BY <1>r, <1>t, <2>1, Zenon DEF shouldEmitFee
  <2> HIDE DEF B, C, emit
  <2> QED
    BY <1>r, <2>2, Zenon DEF SolFee, FeePath
<1>11. B \cup E = OwedTo(W) \cup SolFees(W)
  <2> HIDE DEF B, C, E
  <2> QED BY <1>4, <1>6, <1>9, <1>10, Zenon DEF SolFees
<1>12. AreFees(SolFees(W))
  BY SolFeesAdd, Zenon DEF FeesAdd
<1>13. OnePerID(OwedTo(W) \cup SolFees(W)) = OwedTo(W) \cup SolFees(W)
  BY <1>m, <1>12, OnePerIDWithFees, Zenon
<1> HIDE DEF B, E, C
<1> QED
  BY <1>1, <1>11, <1>13, NothingCollapses, Zenon

-----------------------------------------------------------------------------
\* Bitcoin transactions.

\* What the assumption on the constants says of a Bitcoin transaction.
LEMMA BtcTyped ==
    ASSUME tx \in Txs, tx.chain = "btc"
    PROVE  /\ ~isEVM /\ \A W : decode(W) = decodeBTCTransaction(tx, W)
           /\ \A coins \in {tx.vin, tx.vout} :
                /\ IsFiniteSet(DOMAIN coins) /\ DOMAIN coins \subseteq Nat \ {0}
                /\ \A i \in DOMAIN coins : coins[i].value \in Nat
<1>1. IsCoins(tx.vin) /\ IsCoins(tx.vout)
  BY DecodingAssumption, Zenon DEF IsBtcTx
<1>2. ~isEVM
  BY Zenon DEF isEVM
<1>3. ASSUME NEW W PROVE decode(W) = decodeBTCTransaction(tx, W)
  BY <1>2, Zenon DEF decode
<1>4. ASSUME NEW s, IsCoins(s) PROVE IsFiniteSet(DOMAIN s) /\ DOMAIN s \subseteq Nat \ {0} /\ \A i \in DOMAIN s : s[i].value \in Nat
  <2>1. DOMAIN s = 1 .. Len(s) /\ Len(s) \in Nat
    BY <1>4, Zenon DEF IsCoins, IsList
  <2>2. IsFiniteSet(1 .. Len(s))
    BY <2>1, FS_Interval
  <2> QED
    BY <1>4, <2>1, <2>2 DEF IsCoins
<1> QED
  BY <1>1, <1>2, <1>3, <1>4, Zenon

VinRaw(i) == [Raw(<<"vin", i - 1>>, <<i - 1, -1>>, tx.vin[i].addr, "BTC", "TRANSFER",
                  -tx.vin[i].value, NoAddr) EXCEPT !.meta = 2]
VoutRaw(i) == Raw(<<"vout", i - 1>>, <<i - 1, -1>>, tx.vout[i].addr, "BTC", "TRANSFER",
                  tx.vout[i].value, NoAddr)

SpendEvent(i) == Event(<<"vin", i - 1>>, tx.vin[i].addr, "BTC", "WITHDRAWAL", -tx.vin[i].value)
ReceiptEvent(i) == Event(<<"vout", i - 1>>, tx.vout[i].addr, "BTC", "DEPOSIT", tx.vout[i].value)

\* The decoder's raw events are one for each input and output; each becomes a
\* withdrawal or a deposit at its own path.
LEMMA BtcRaws ==
    ASSUME tx \in Txs, tx.chain = "btc"
    PROVE  /\ VinSpends(tx) = {VinRaw(i) : i \in DOMAIN tx.vin}
           /\ VoutReceives(tx) = {VoutRaw(i) : i \in DOMAIN tx.vout}
           /\ \A i \in DOMAIN tx.vin :
                /\ VinRaw(i).addr = tx.vin[i].addr /\ VinRaw(i).delta = -tx.vin[i].value
                /\ tx.vin[i].value # 0 => NormalizedEvent(VinRaw(i), FALSE, BtcPath(VinRaw(i))) = SpendEvent(i)
           /\ \A i \in DOMAIN tx.vout :
                /\ VoutRaw(i).addr = tx.vout[i].addr /\ VoutRaw(i).delta = tx.vout[i].value
                /\ tx.vout[i].value # 0 => NormalizedEvent(VoutRaw(i), FALSE, BtcPath(VoutRaw(i))) = ReceiptEvent(i)
<1>1. VinSpends(tx) = {VinRaw(i) : i \in DOMAIN tx.vin} /\ VoutReceives(tx) = {VoutRaw(i) : i \in DOMAIN tx.vout}
  BY Zenon DEF VinSpends, VoutReceives, VinRaw, VoutRaw
<1>2. ASSUME NEW i \in DOMAIN tx.vin
      PROVE  /\ VinRaw(i).addr = tx.vin[i].addr /\ VinRaw(i).delta = -tx.vin[i].value
             /\ tx.vin[i].value # 0 => NormalizedEvent(VinRaw(i), FALSE, BtcPath(VinRaw(i))) = SpendEvent(i)
  <2> DEFINE r == VinRaw(i)
  <2>1. /\ r.path = <<"vin", i - 1>> /\ r.addr = tx.vin[i].addr /\ r.asset = "BTC" /\ r.cat = "TRANSFER"
        /\ r.delta = -tx.vin[i].value
    BY Zenon DEF VinRaw, Raw
  <2>2. tx.vin[i].value \in Nat
    BY BtcTyped, Zenon
  <2> HIDE DEF r
  <2>3. NormalizedEvent(r, FALSE, BtcPath(r)) = SpendEvent(i)
    BY <2>1, <2>2 DEF NormalizedEvent, ClassifyActivity, SpendEvent, BtcPath
  <2> QED
    BY <2>1, <2>3, Zenon DEF r
<1>3. ASSUME NEW i \in DOMAIN tx.vout
      PROVE  /\ VoutRaw(i).addr = tx.vout[i].addr /\ VoutRaw(i).delta = tx.vout[i].value
             /\ tx.vout[i].value # 0 => NormalizedEvent(VoutRaw(i), FALSE, BtcPath(VoutRaw(i))) = ReceiptEvent(i)
  <2> DEFINE r == VoutRaw(i)
  <2>1. /\ r.path = <<"vout", i - 1>> /\ r.addr = tx.vout[i].addr /\ r.asset = "BTC" /\ r.cat = "TRANSFER"
        /\ r.delta = tx.vout[i].value
    BY Zenon DEF VoutRaw, Raw
  <2>2. tx.vout[i].value \in Nat
    BY BtcTyped, Zenon
  <2> HIDE DEF r
  <2>3. tx.vout[i].value # 0 => NormalizedEvent(r, FALSE, BtcPath(r)) = ReceiptEvent(i)
    BY <2>1, <2>2 DEF NormalizedEvent, ClassifyActivity, ReceiptEvent, BtcPath
  <2> QED
    BY <2>1, <2>3, Zenon DEF r
<1> QED
  BY <1>1, <1>2, <1>3, Zenon

\* The events of a watched address in a report of its own: its inputs and outputs of value.
LEMMA BtcBuilt ==
    ASSUME tx \in Txs, tx.chain = "btc", NEW W, NEW a \in W
    PROVE  Of(Moves(normalizedEvents(decode(W), W)), a, "BTC") =
             {SpendEvent(i) : i \in {j \in DOMAIN tx.vin : tx.vin[j].addr = a /\ tx.vin[j].value # 0}} \cup
             {ReceiptEvent(i) : i \in {j \in DOMAIN tx.vout : tx.vout[j].addr = a /\ tx.vout[j].value # 0}}
<1> DEFINE r == decode(W)
           R == r.events
           B == BuildRaw(R, W, FALSE, [e \in R |-> BtcPath(e)])
           I(b) == {j \in DOMAIN tx.vin : tx.vin[j].addr = b /\ tx.vin[j].value # 0}
           O(b) == {j \in DOMAIN tx.vout : tx.vout[j].addr = b /\ tx.vout[j].value # 0}
           In == {j \in DOMAIN tx.vin : tx.vin[j].addr \in W /\ tx.vin[j].value # 0}
           Out == {j \in DOMAIN tx.vout : tx.vout[j].addr \in W /\ tx.vout[j].value # 0}
<1>1. \E F : normalizedEvents(r, W) = OnePerID(B \cup F) /\ \A e \in F : e.act = "FEE"
  <2> DEFINE emit == /\ r.payer \in W
                     /\ shouldEmitFee(r.status, r.payer, r.fee)
                     /\ ~hasBTCFeeRepresentedAsChangeOutput(B, r.payer, r.fee)
             F == IF emit THEN {Event(<<"fee", 0>>, r.payer, "BTC", "FEE", -r.fee)} ELSE {}
  <2>1. normalizedEvents(r, W) = OnePerID(B \cup F)
    BY Zenon DEF normalizedEvents, buildCanonicalBTCBalanceEvents, isEVM
  <2>2. \A e \in F : e.act = "FEE"
    <3> HIDE DEF emit
    <3>1. Event(<<"fee", 0>>, r.payer, "BTC", "FEE", -r.fee).act = "FEE"
      BY Zenon DEF Event
    <3> QED BY <3>1, Zenon
  <2> HIDE DEF F
  <2> QED BY <2>1, <2>2, Zenon
<1>2. PICK F : normalizedEvents(r, W) = OnePerID(B \cup F) /\ \A e \in F : e.act = "FEE"
  BY <1>1, Zenon
<1>v. /\ \A i \in DOMAIN tx.vin : tx.vin[i].value \in Nat /\ i \in Nat
      /\ \A i \in DOMAIN tx.vout : tx.vout[i].value \in Nat /\ i \in Nat
  BY BtcTyped, Zenon
<1>3. R = {VinRaw(i) : i \in In} \cup {VoutRaw(i) : i \in Out}
  <2>1. R = {e \in VinSpends(tx) \cup VoutReceives(tx) : e.addr \in W /\ e.delta # 0}
    BY BtcTyped DEF decodeBTCTransaction
  <2>2. VinSpends(tx) = {VinRaw(i) : i \in DOMAIN tx.vin} /\ VoutReceives(tx) = {VoutRaw(i) : i \in DOMAIN tx.vout}
    BY BtcRaws, Zenon
  <2>3. ASSUME NEW i \in DOMAIN tx.vin PROVE VinRaw(i).addr \in W /\ VinRaw(i).delta # 0 <=> i \in In
    <3>1. VinRaw(i).addr = tx.vin[i].addr /\ VinRaw(i).delta = -tx.vin[i].value /\ tx.vin[i].value \in Nat
      BY <1>v, BtcRaws, Zenon
    <3> QED BY <3>1
  <2>4. ASSUME NEW i \in DOMAIN tx.vout PROVE VoutRaw(i).addr \in W /\ VoutRaw(i).delta # 0 <=> i \in Out
    <3>1. VoutRaw(i).addr = tx.vout[i].addr /\ VoutRaw(i).delta = tx.vout[i].value
      BY BtcRaws, Zenon
    <3> QED BY <3>1, Zenon
  <2>5. In \subseteq DOMAIN tx.vin /\ Out \subseteq DOMAIN tx.vout
    BY Zenon
  <2> HIDE DEF R, In, Out
  <2> QED
    BY <2>1, <2>2, <2>3, <2>4, <2>5, Zenon
<1>4. B = {SpendEvent(i) : i \in In} \cup {ReceiptEvent(i) : i \in Out}
  <2>1. \A e \in R : e.addr \in W
    BY BtcTyped DEF decodeBTCTransaction
  <2>2. B = {NormalizedEvent(e, FALSE, BtcPath(e)) : e \in R}
    <3> DEFINE P == [e \in R |-> BtcPath(e)]
    <3>1. B = {NormalizedEvent(e, FALSE, P[e]) : e \in {q \in R : q.addr \in W}}
      BY Zenon DEF BuildRaw, WatchedOnly
    <3>2. {q \in R : q.addr \in W} = R /\ \A e \in R : P[e] = BtcPath(e)
      BY <2>1, Zenon
    <3> HIDE DEF B, P, R
    <3> QED BY <3>1, <3>2, Zenon
  <2>3. \A i \in In : NormalizedEvent(VinRaw(i), FALSE, BtcPath(VinRaw(i))) = SpendEvent(i)
    BY BtcRaws, Zenon
  <2>4. \A i \in Out : NormalizedEvent(VoutRaw(i), FALSE, BtcPath(VoutRaw(i))) = ReceiptEvent(i)
    BY BtcRaws, Zenon
  <2> HIDE DEF B, R, In, Out
  <2> QED
    BY <1>3, <2>2, <2>3, <2>4, Zenon
<1>s. ASSUME NEW i \in In
      PROVE  /\ SpendEvent(i).path = <<"vin", i - 1>> /\ SpendEvent(i).act = "WITHDRAWAL"
             /\ SpendEvent(i).addr = tx.vin[i].addr /\ SpendEvent(i).asset = "BTC"
             /\ SpendEvent(i).delta \in Int
  BY <1>v DEF SpendEvent, Event
<1>t. ASSUME NEW i \in Out
      PROVE  /\ ReceiptEvent(i).path = <<"vout", i - 1>> /\ ReceiptEvent(i).act = "DEPOSIT"
             /\ ReceiptEvent(i).addr = tx.vout[i].addr /\ ReceiptEvent(i).asset = "BTC"
             /\ ReceiptEvent(i).delta \in Int
  BY <1>v DEF ReceiptEvent, Event
<1>5. ASSUME NEW e \in B
      PROVE  /\ e.act \in {"DEPOSIT", "WITHDRAWAL"} /\ e.delta \in Int
             /\ \A f \in B : e.path = f.path => e = f
  <2> HIDE DEF B
  <2>1. e.act \in {"DEPOSIT", "WITHDRAWAL"} /\ e.delta \in Int
    BY <1>4, <1>s, <1>t, Zenon
  <2>2. ASSUME NEW f \in B, e.path = f.path PROVE e = f
    BY <1>4, <1>s, <1>t, <1>v, <2>2
  <2> QED BY <2>1, <2>2, Zenon
<1>6. Moves(OnePerID(B \cup F)) = B
  <2> HIDE DEF B
  <2>1. \A e \in B : e \in OnePerID(B \cup F)
    <3>1. ASSUME NEW e \in B, NEW f \in B \cup F, EventID(f) = EventID(e) PROVE e.delta <= f.delta
      <4>1. f.act = e.act /\ f.path = e.path
        BY <3>1, Zenon DEF EventID
      <4>2. f \in B
        BY <1>2, <1>5, <4>1, Zenon
      <4> QED
        BY <1>5, <4>1, <4>2
    <3> QED BY <3>1, Zenon DEF OnePerID
  <2>2. \A e \in B : e.act \notin FeeActs
    BY <1>5, Zenon DEF FeeActs
  <2>3. \A e \in OnePerID(B \cup F) : e \in B \/ e.act \in FeeActs
    BY <1>2, Zenon DEF OnePerID, FeeActs
  <2> QED
    BY <2>1, <2>2, <2>3, Zenon DEF Moves
<1>7. Of(B, a, "BTC") = {SpendEvent(i) : i \in I(a)} \cup {ReceiptEvent(i) : i \in O(a)}
  <2>1. I(a) = {i \in In : tx.vin[i].addr = a} /\ O(a) = {i \in Out : tx.vout[i].addr = a}
    BY Zenon
  <2> HIDE DEF B, In, Out, I, O
  <2> QED
    BY <1>4, <1>s, <1>t, <2>1 DEF Of
<1> QED
  BY <1>2, <1>6, <1>7, Zenon

\* The events of a Bitcoin report built for its own addresses, the fee left out,
\* add up to what the inputs and outputs do to an address.
LEMMA BtcMovesSum ==
    ASSUME tx \in Txs, tx.chain = "btc", NEW W, NEW a \in W
    PROVE  SumDelta(Of(Moves(normalizedEvents(decode(W), W)), a, "BTC")) = Effect(a, "BTC")
<1> DEFINE PI == {i \in DOMAIN tx.vin : tx.vin[i].addr = a}
           PO == {i \in DOMAIN tx.vout : tx.vout[i].addr = a}
           I == {j \in DOMAIN tx.vin : tx.vin[j].addr = a /\ tx.vin[j].value # 0}
           O == {j \in DOMAIN tx.vout : tx.vout[j].addr = a /\ tx.vout[j].value # 0}
           si == [i \in PI |-> SpendEvent(i)]
           ro == [i \in PO |-> ReceiptEvent(i)]
           vi == [i \in DOMAIN tx.vin |-> tx.vin[i].value]
           vo == [i \in DOMAIN tx.vout |-> tx.vout[i].value]
           ni == [i \in PI |-> -tx.vin[i].value]
           S == ImageOf(si, I)
           T == ImageOf(ro, O)
<1>v. /\ IsFiniteSet(PI) /\ \A i \in PI : tx.vin[i].value \in Nat /\ i \in Nat
      /\ IsFiniteSet(PO) /\ \A i \in PO : tx.vout[i].value \in Nat /\ i \in Nat
  BY BtcTyped, FS_Subset, Zenon
<1>1. Of(Moves(normalizedEvents(decode(W), W)), a, "BTC") = S \cup T
  <2>1. S = {SpendEvent(i) : i \in I} /\ T = {ReceiptEvent(i) : i \in O}
    BY Zenon DEF ImageOf
  <2> HIDE DEF S, T
  <2> QED BY <2>1, BtcBuilt, Zenon
<1>2. \A i \in PI : si[i].delta = -tx.vin[i].value /\ si[i].path = <<"vin", i - 1>>
  BY Zenon DEF SpendEvent, Event
<1>3. \A i \in PO : ro[i].delta = tx.vout[i].value /\ ro[i].path = <<"vout", i - 1>>
  BY Zenon DEF ReceiptEvent, Event
<1>i. I \in SUBSET PI /\ O \in SUBSET PO
  BY Zenon
<1>4. Countable(S) /\ SumDelta(S) = Sum(ni, PI)
  <2>1. \A i \in I : si[i].delta = ni[i]
    <3> HIDE DEF si
    <3> QED BY <1>2, Zenon
  <2>2. \A i \in PI : ni[i] \in Int
    BY <1>v
  <2>3. \A i \in PI \ I : ni[i] = 0
    BY <1>v
  <2>4. \A i, j \in I : si[i] = si[j] => i = j
    <3> HIDE DEF si
    <3> QED BY <1>2, <1>v
  <2> HIDE DEF si, ni, I, PI
  <2> QED
    BY <1>v, <1>i, <2>1, <2>2, <2>3, <2>4, SumDeltaPlaces
<1>5. Countable(T) /\ SumDelta(T) = Sum(vo, PO)
  <2>1. \A i \in O : ro[i].delta = vo[i]
    <3> HIDE DEF ro
    <3> QED BY <1>3, Zenon
  <2>2. \A i \in PO : vo[i] \in Int
    BY <1>v
  <2>3. \A i \in PO \ O : vo[i] = 0
    BY <1>v, Zenon
  <2>4. \A i, j \in O : ro[i] = ro[j] => i = j
    <3> HIDE DEF ro
    <3> QED BY <1>3, <1>v
  <2> HIDE DEF ro, vo, O, PO
  <2> QED
    BY <1>v, <1>i, <2>1, <2>2, <2>3, <2>4, SumDeltaPlaces
<1>6. Sum(ni, PI) = -Sum(vi, PI) /\ Sum(vi, PI) \in Int
  <2>1. Summable(vi, PI)
    BY <1>v DEF Summable
  <2>2. \A i \in PI : ni[i] = -vi[i]
    BY Zenon
  <2> HIDE DEF ni, vi, PI
  <2> QED
    BY <2>1, <2>2, SumOpposite, SumType, Zenon
<1>7. Sum(vo, PO) \in Int
  <2>1. Summable(vo, PO)
    BY <1>v DEF Summable
  <2> HIDE DEF vo, PO
  <2> QED
    BY <2>1, SumType, Zenon
<1>8. S \cap T = {}
  <2>1. ASSUME NEW i \in I, NEW j \in O PROVE si[i] # ro[j]
    <3> HIDE DEF si, ro
    <3>1. si[i].path = <<"vin", i - 1>> /\ ro[j].path = <<"vout", j - 1>>
      BY <1>2, <1>3, Zenon
    <3> QED BY <3>1
  <2> HIDE DEF si, ro, I, O
  <2> QED BY <2>1, Zenon DEF ImageOf
<1>9. Effect(a, "BTC") = Sum(vo, PO) - Sum(vi, PI)
  BY BtcTyped, Zenon DEF Effect, BtcEffect, Sum
<1> HIDE DEF S, T, vi, vo, ni, PI, PO
<1>10. SumDelta(S \cup T) = SumDelta(S) + SumDelta(T)
  BY <1>4, <1>5, <1>8, SumDeltaUnion, Zenon
<1>11. SumDelta(S) + SumDelta(T) = Sum(vo, PO) - Sum(vi, PI)
  <2> DEFINE x == Sum(vi, PI)  y == Sum(vo, PO)
  <2>1. x \in Int /\ y \in Int /\ SumDelta(S) = -x /\ SumDelta(T) = y
    BY <1>4, <1>5, <1>6, <1>7, Zenon
  <2> HIDE DEF x, y
  <2>2. SumDelta(S) + SumDelta(T) = y - x
    BY <2>1
  <2> QED BY <2>2, Zenon DEF x, y
<1> QED
  BY <1>1, <1>9, <1>10, <1>11, Zenon

-----------------------------------------------------------------------------
\* The families together.

\* Both account families have movements.
LEMMA AccountMovements ==
    ASSUME tx \in Txs, tx.chain # "btc"
    PROVE  \E mv : Movements(mv)
BY EvmReported, SolReported, Zenon

\* A report for some of the addresses is the report for all of them, cut down.
LEMMA DecodeReports ==
    ASSUME tx \in Txs, NEW W \in SUBSET Addresses
    PROVE  decode(W) = Report({r \in AllRaws : r.addr \in W})
<1>1. CASE isEVM
  <2> DEFINE mv == EvmMovements(tx)
             S == UNION {SidesOf(tx, mv[p]) : p \in DOMAIN mv}
  <2>1. \A V : decodeBaseTransaction(tx, V).events = {r \in S : r.addr \in V}
    BY <1>1, EvmTyped, EvmRaws, Zenon
  <2>2. \A V : decode(V) = [status |-> tx.status, payer |-> tx.from, fee |-> tx.exec + tx.l1,
                            events |-> decode(V).events]
    BY <1>1, EvmTyped DEF decodeBaseTransaction
  <2>3. \A V : decode(V).events = {r \in S : r.addr \in V}
    BY <1>1, <2>1, EvmTyped, Zenon
  <2> HIDE DEF S
  <2>4. decode(W).events = {r \in AllRaws : r.addr \in W}
    BY <2>3, Zenon DEF AllRaws
  <2>5. /\ decode(Addresses).status = tx.status /\ decode(Addresses).payer = tx.from
        /\ decode(Addresses).fee = tx.exec + tx.l1
    BY <2>2
  <2> QED
    BY <2>2, <2>4, <2>5, Zenon DEF Report
<1>2. CASE tx.chain = "btc"
  <2> DEFINE S == VinSpends(tx) \cup VoutReceives(tx)
  <2>1. \A V : decode(V) = [status |-> "SUCCESS", payer |-> deterministicAddress(tx.vin), fee |-> btcFee(tx),
                            events |-> {e \in S : e.addr \in V /\ e.delta # 0}]
    BY <1>2, BtcTyped, Zenon DEF decodeBTCTransaction
  <2> HIDE DEF S
  <2>2. AllRaws = {e \in S : e.addr \in Addresses /\ e.delta # 0}
    BY <2>1, Zenon DEF AllRaws
  <2>3. {e \in S : e.addr \in W /\ e.delta # 0} = {r \in AllRaws : r.addr \in W}
    BY <2>2, Zenon
  <2>4. /\ decode(Addresses).status = "SUCCESS" /\ decode(Addresses).payer = deterministicAddress(tx.vin)
        /\ decode(Addresses).fee = btcFee(tx)
    BY <2>1, Zenon
  <2> QED
    BY <2>1, <2>3, <2>4, Zenon DEF Report
<1>3. CASE ~isEVM /\ tx.chain # "btc"
  <2> DEFINE S == dispatch(tx)
             P(V) == IF tx.payer \in V /\ tx.fee # 0 THEN {solanaFee(tx.payer, tx.fee)} ELSE {}
             E(V) == IF tx.status = "FAILED" THEN {} ELSE {e \in S : e.addr \in V} \cup P(V)
  <2>1. \A V : decode(V) = [status |-> tx.status, payer |-> tx.payer, fee |-> tx.fee, events |-> E(V)]
    BY <1>3, SolTyped, Zenon DEF decodeSolanaTransaction
  <2>2. E(W) = {r \in E(Addresses) : r.addr \in W}
    <3>1. solanaFee(tx.payer, tx.fee).addr = tx.payer
      BY Zenon DEF solanaFee, Raw
    <3> HIDE DEF S
    <3> QED BY <3>1, Zenon
  <2> HIDE DEF E
  <2>3. AllRaws = E(Addresses)
    BY <2>1, Zenon DEF AllRaws
  <2>4. /\ decode(Addresses).status = tx.status /\ decode(Addresses).payer = tx.payer
        /\ decode(Addresses).fee = tx.fee
    BY <2>1, Zenon
  <2> QED
    BY <2>1, <2>2, <2>3, <2>4, Zenon DEF Report
<1> QED BY <1>1, <1>2, <1>3, Zenon

\* The events built for a batch of an account chain.
LEMMA AccountBuilt ==
    ASSUME tx \in Txs, tx.chain # "btc", NEW G \in SUBSET AllRaws, NEW W, Covers(G, W)
    PROVE  \E F : FeesAdd(F, W) /\ normalizedEvents(Report(G), W) = OwedTo(W) \cup F
<1>1. CASE isEVM
  BY <1>1, EvmFeesAdd, EvmBuilt, Zenon
<1>2. CASE ~isEVM
  BY <1>2, SolFeesAdd, SolBuilt, Zenon
<1> QED BY <1>1, <1>2, Zenon

\* What an address is owed adds up to what the transaction moved.
LEMMA AccountOwed ==
    ASSUME tx \in Txs, tx.chain # "btc", NEW a \in Addresses, NEW s \in Assets
    PROVE  Countable(Of(Owed, a, s)) /\ SumDelta(Of(Owed, a, s)) = Effect(a, s) + FeeOf(a, s)
<1>1. Countable(Of(Owed, a, s))
  BY AccountMovements, OwedSum, Zenon
<1>2. SumDelta(Of(Owed, a, s)) = Effect(a, s) + FeeOf(a, s)
  BY EvmOwedSum, SolOwedSum, Zenon
<1> QED BY <1>1, <1>2

\* What the chain does to an address, and what the fee costs it, are numbers.
LEMMA AccountTyped ==
    ASSUME tx \in Txs, tx.chain # "btc", NEW a \in Addresses, NEW s \in Assets
    PROVE  Effect(a, s) \in Int /\ FeeOf(a, s) \in Int
<1>1. CASE isEVM
  <2>1. tx.exec \in Nat /\ tx.l1 \in Nat /\ tx.value \in Nat /\ IsFiniteSet(DOMAIN tx.logs)
    BY <1>1, EvmTyped DEF IsEvmTx
  <2>2. decode({}).fee = tx.exec + tx.l1
    BY <1>1, EvmTyped DEF decodeBaseTransaction
  <2>3. FeeOf(a, s) \in Int
    BY <2>1, <2>2 DEF FeeOf
  <2> DEFINE g == [i \in DOMAIN tx.logs |-> (IF tx.logs[i].to = a THEN tx.logs[i].value ELSE 0)
                                            - (IF tx.logs[i].from = a THEN tx.logs[i].value ELSE 0)]
  <2>4. Sum(g, DOMAIN tx.logs) \in Int
    <3>1. \A i \in DOMAIN tx.logs : tx.logs[i].value \in Nat
      BY <1>1, EvmTyped, Zenon
    <3>2. \A i \in DOMAIN tx.logs : g[i] \in Int
      BY <3>1
    <3> HIDE DEF g
    <3> QED BY <2>1, <3>2, SumType DEF Summable
  <2>5. Effect(a, s) = EvmEffect(tx, a, s)
    BY <1>1, Zenon DEF Effect
  <2>6. CASE s = "ETH"
    <3>1. EvmEffect(tx, a, s) \in Int
      BY <2>1, <2>6 DEF EvmEffect
    <3> QED BY <2>3, <2>5, <3>1, Zenon
  <2>7. CASE s = "T"
    <3>1. EvmEffect(tx, a, s) =
            IF ~(tx.status = "SUCCESS") \/ a = ZeroAddress THEN 0 ELSE Sum(g, DOMAIN tx.logs)
      BY <2>7, Zenon DEF EvmEffect, SumFunction, Sum
    <3> HIDE DEF g
    <3> QED BY <2>3, <2>4, <2>5, <3>1
  <2>8. CASE s \notin {"ETH", "T"}
    <3>1. EvmEffect(tx, a, s) = 0
      BY <2>8, Zenon DEF EvmEffect
    <3> QED BY <2>3, <2>5, <3>1
  <2> QED BY <2>6, <2>7, <2>8
<1>2. CASE ~isEVM
  <2>1. tx.fee \in Nat
    BY <1>2, SolTyped, Zenon DEF IsSolanaTx
  <2>2. FeeOf(a, s) \in Int
    BY <1>2, <2>1, SolFeeOf
  <2> DEFINE g == [p \in Places(tx) |-> NetOf(InstructionAt(tx, p), a, s)]
  <2>3. Sum(g, Places(tx)) \in Int
    <3>1. ASSUME NEW p \in Places(tx) PROVE g[p] \in Int
      <4>1. IsInstruction(InstructionAt(tx, p))
        BY <1>2, PlaceHolds, Zenon
      <4> QED BY <4>1 DEF NetOf, IsInstruction
    <3> HIDE DEF g
    <3> QED BY <1>2, <3>1, PlacesFinite, SumType, Zenon DEF Summable
  <2>4. Effect(a, s) = SolEffect(tx, a, s)
    BY <1>2, Zenon DEF Effect
  <2>5. SolEffect(tx, a, s) = (IF tx.status = "FAILED" THEN 0 ELSE Sum(g, Places(tx)))
                              - (IF a = tx.payer /\ s = "SOL" THEN tx.fee ELSE 0)
    BY Zenon DEF SolEffect, SumFunction, Sum
  <2> HIDE DEF g
  <2> QED BY <2>1, <2>2, <2>3, <2>4, <2>5
<1> QED BY <1>1, <1>2

\* The events built for a batch change its addresses by what the transaction did.
LEMMA AccountNet ==
    ASSUME tx \in Txs, tx.chain # "btc", NEW G \in SUBSET AllRaws, NEW W \in SUBSET Addresses, Covers(G, W),
           NEW a \in W, NEW s \in Assets
    PROVE  SumDelta(Of(normalizedEvents(Report(G), W), a, s)) = Effect(a, s)
<1>1. PICK F : FeesAdd(F, W) /\ normalizedEvents(Report(G), W) = OwedTo(W) \cup F
  BY AccountBuilt, Zenon
<1> DEFINE S == Of(Owed, a, s)
           T == Of(F, a, s)
<1>2. Of(normalizedEvents(Report(G), W), a, s) = S \cup T
  BY <1>1, Zenon DEF Of, OwedTo
<1>3. AreFees(F) /\ SumDelta(T) = -FeeOf(a, s)
  BY <1>1, Zenon DEF FeesAdd
<1>4. Countable(T)
  BY <1>3, FeesCountable, Zenon
<1>5. S \cap T = {}
  <2>1. \A e \in S : e.act \notin FeeActs
    BY AccountMovements, OwedFields, Zenon DEF Of
  <2>2. \A e \in T : e.act \in FeeActs
    BY <1>3, Zenon DEF AreFees, Of
  <2> HIDE DEF S, T
  <2> QED BY <2>1, <2>2, Zenon
<1>6. Countable(S) /\ SumDelta(S) = Effect(a, s) + FeeOf(a, s)
  BY AccountOwed, Zenon
<1> HIDE DEF S, T
<1>7. SumDelta(S \cup T) = SumDelta(S) + SumDelta(T)
  BY <1>4, <1>5, <1>6, SumDeltaUnion, Zenon
<1>8. Effect(a, s) \in Int /\ FeeOf(a, s) \in Int
  BY AccountTyped, Zenon
<1>9. (Effect(a, s) + FeeOf(a, s)) + (-FeeOf(a, s)) = Effect(a, s)
  BY <1>8
<1> QED
  BY <1>2, <1>3, <1>6, <1>7, <1>9, Zenon

\* Of a failed transaction nothing is built but the fee, for a watched payer.
LEMMA FailedEvents ==
    ASSUME tx \in Txs, decode(Addresses).status = "FAILED", NEW G \in SUBSET AllRaws, NEW W
    PROVE  LET r == Report(G)
               E == normalizedEvents(r, W)
           IN /\ r.fee \in Nat /\ r.payer # NoAddr
              /\ \/ E = {} /\ (r.payer \notin W \/ r.fee = 0)
                 \/ \E e : E = {e} /\ e.delta = -r.fee
<1> DEFINE r == Report(G)
           E == normalizedEvents(r, W)
<1>0. tx.chain # "btc"
  BY BtcTyped DEF decodeBTCTransaction
<1>1. CASE isEVM
  <2>1. tx.exec \in Nat /\ tx.l1 \in Nat /\ tx.from # NoAddr
    BY <1>1, EvmTyped, Zenon DEF IsEvmTx
  <2>2. r.payer = tx.from /\ r.fee = tx.exec + tx.l1 /\ tx.status = "FAILED"
    BY <1>1, EvmTyped DEF Report, decodeBaseTransaction
  <2>3. AllRaws = {}
    BY <1>1, <2>2, EvmCarry, Zenon
  <2>4. G = {} /\ Covers(G, W) /\ OwedTo(W) = {}
    BY <2>3, Zenon DEF Covers, OwedTo, Owed, RawMoves
  <2>5. E = feeEvents(tx.chain, r, W)
    BY <1>1, <2>4, EvmBuilt
  <2>6. \A path, act : EvmFee(path, act, r.fee).delta = -r.fee
    BY Zenon DEF EvmFee, Event
  <2>7. \/ E = {} /\ (r.payer \notin W \/ r.fee = 0)
        \/ \E path, act : E = {EvmFee(path, act, r.fee)}
    <3> HIDE DEF r, E
    <3> QED BY <1>1, <2>2, <2>4, <2>5, EvmFees DEF r
  <2>8. r.fee \in Nat /\ r.payer # NoAddr
    BY <2>1, <2>2
  <2> HIDE DEF r, E
  <2>9. (E = {} /\ (r.payer \notin W \/ r.fee = 0)) \/ \E e : E = {e} /\ e.delta = -r.fee
    BY <2>6, <2>7, Zenon
  <2> QED BY <2>8, <2>9, Zenon DEF r, E
<1>2. CASE ~isEVM
  <2>1. tx.fee \in Nat /\ tx.payer # NoAddr
    BY <1>0, <1>2, SolTyped, Zenon DEF IsSolanaTx
  <2>2. r.payer = tx.payer /\ r.fee = tx.fee /\ tx.status = "FAILED"
    BY <1>0, <1>2, SolTyped DEF Report, decodeSolanaTransaction
  <2>3. AllRaws = {}
    BY <1>0, <1>2, <2>2, SolRaws, Zenon
  <2>4. G = {} /\ Covers(G, W) /\ OwedTo(W) = {}
    BY <2>3 DEF Covers, OwedTo, Owed, RawMoves
  <2>5. E = SolFees(W)
    BY <1>0, <1>2, <2>4, SolBuilt, Zenon
  <2>6. SolFee.delta = -r.fee
    BY <2>2, Zenon DEF SolFee, Event
  <2> HIDE DEF r, E
  <2>9. (E = {} /\ (r.payer \notin W \/ r.fee = 0)) \/ \E e : E = {e} /\ e.delta = -r.fee
    BY <2>2, <2>5, <2>6, Zenon DEF SolFees
  <2> QED BY <2>1, <2>2, <2>9, Zenon DEF r, E
<1> QED BY <1>1, <1>2, Zenon

-----------------------------------------------------------------------------
\* The flow of batches: the inductive invariant.

\* What the floor may hold, what a worker may hold, and what a batch may carry.
Reports == {Report(G) : G \in SUBSET AllRaws}
DecodedJob(W) == [pc |-> "decoded", watched |-> W, incoming |-> decode(W)]
ReadJob(W, e) == [pc |-> "read", watched |-> W, incoming |-> decode(W), existing |-> e]
Done == [pc |-> "done"]

GoodJob(j) ==
  \/ j = Idle \/ j = Done
  \/ \E W \in SUBSET Addresses : j = DecodedJob(W)
  \/ \E W \in SUBSET Addresses : \E e \in {NoResult} \cup Reports : j = ReadJob(W, e)

Batch(W, G, f) ==
  [watched |-> W, result |-> Report(G), fresh |-> f, events |-> normalizedEvents(Report(G), W)]

AllBatches == {Batch(W, G, f) : W \in SUBSET Addresses, G \in SUBSET AllRaws, f \in BOOLEAN}

GoodBatch(b) ==
  \E W \in SUBSET Addresses, G \in SUBSET AllRaws, f \in BOOLEAN :
    /\ b = Batch(W, G, f)
    /\ f => Report(G) = decode(W)
    /\ tx.chain # "btc" => Covers(G, W)

\* What is stored of an account chain's transaction.
GoodStore(rows, addresses) ==
  tx.chain # "btc" => /\ Moves(rows) \subseteq Owed
                      /\ \A d \in Owed : d.addr \in addresses => d \in rows

GoodJobs == DOMAIN job = Batches /\ \A k \in Batches : GoodJob(job[k])

\* The inductive invariant.
DInv ==
  /\ tx \in Txs /\ watch \in SUBSET Addresses /\ covered \in SUBSET Addresses
  /\ GoodJobs
  /\ floor \in {NoResult} \cup Reports
  /\ ch \in Seq(AllBatches) /\ \A i \in DOMAIN ch : GoodBatch(ch[i])
  /\ GoodStore(stored, covered)

\* The transaction does not change, and neither does what is said of it.
LEMMA SameTx ==
    ASSUME tx' = tx
    PROVE  /\ AllRaws' = AllRaws /\ Owed' = Owed /\ Reports' = Reports /\ AllBatches' = AllBatches
           /\ \A j : GoodJob(j)' <=> GoodJob(j)
           /\ \A b : GoodBatch(b)' <=> GoodBatch(b)
<1>1. isEVM' <=> isEVM
  BY Zenon DEF isEVM
<1>2. ASSUME NEW W PROVE decode(W)' = decode(W)
  BY <1>1, Zenon DEF decode
<1>3. AllRaws' = AllRaws
  BY <1>2, Zenon DEF AllRaws
<1>4. ASSUME NEW r PROVE Canonical(r)' = Canonical(r)
  BY <1>1, Zenon DEF Canonical, decodedEventPath
<1>5. Owed' = Owed
  BY <1>3, <1>4, Zenon DEF Owed, RawMoves
<1>6. ASSUME NEW G PROVE Report(G)' = Report(G)
  BY <1>2, Zenon DEF Report
<1>7. Reports' = Reports
  BY <1>3, <1>6, Zenon DEF Reports
<1>8. ASSUME NEW R, NEW W PROVE normalizedEvents(R, W)' = normalizedEvents(R, W)
  BY <1>1, Zenon DEF normalizedEvents
<1>9. ASSUME NEW G, NEW W PROVE Covers(G, W)' <=> Covers(G, W)
  BY <1>3, <1>4, Zenon DEF Covers
<1>10. ASSUME NEW j PROVE GoodJob(j)' <=> GoodJob(j)
  BY <1>2, <1>7, Zenon DEF GoodJob, DecodedJob, ReadJob
<1>11. ASSUME NEW W, NEW G, NEW f PROVE Batch(W, G, f)' = Batch(W, G, f)
  BY <1>6, <1>8, Zenon DEF Batch
<1>12. ASSUME NEW b PROVE GoodBatch(b)' <=> GoodBatch(b)
  BY <1>2, <1>3, <1>6, <1>9, <1>11, Zenon DEF GoodBatch
<1>13. AllBatches' = AllBatches
  BY <1>3, <1>11 DEF AllBatches
<1> QED
  BY <1>3, <1>5, <1>7, <1>10, <1>12, <1>13

\* The invariant holds at the start.
LEMMA DecodingInit == Init => DInv
<1> SUFFICES ASSUME Init PROVE DInv
  BY Zenon
<1>1. tx \in Txs /\ watch \in SUBSET Addresses /\ covered \in SUBSET Addresses
  BY Zenon DEF Init
<1>2. GoodJobs
  BY Zenon DEF Init, GoodJobs, GoodJob
<1>3. floor \in {NoResult} \cup Reports
  BY Zenon DEF Init
<1>4. ch \in Seq(AllBatches) /\ \A i \in DOMAIN ch : GoodBatch(ch[i])
  BY DEF Init
<1>5. GoodStore(stored, covered)
  BY Zenon DEF Init, GoodStore, Moves
<1> QED
  BY <1>1, <1>2, <1>3, <1>4, <1>5 DEF DInv

\* What a worker sends: the report of its own batch, merged with an earlier
\* one, is again a report of the transaction, and covers the watched addresses.
LEMMA ReconcileReports ==
    ASSUME tx \in Txs, NEW W \in SUBSET Addresses, NEW x \in {NoResult} \cup Reports
    PROVE  \E G \in SUBSET AllRaws :
             /\ reconcileDecodedResultCoverage(x, decode(W)) = Report(G)
             /\ x = NoResult => Report(G) = decode(W)
             /\ tx.chain # "btc" => Covers(G, W)
<1> DEFINE I == {r \in AllRaws : r.addr \in W}
<1>1. decode(W) = Report(I) /\ I \in SUBSET AllRaws
  BY DecodeReports, Zenon
<1>2. Covers(I, W)
  BY Zenon DEF Covers
<1> HIDE DEF I
<1>3. CASE x = NoResult
  <2>1. reconcileDecodedResultCoverage(x, decode(W)) = Report(I)
    BY <1>1, <1>3 DEF reconcileDecodedResultCoverage
  <2> QED
    BY <1>1, <1>2, <2>1
<1>4. CASE x # NoResult
  <2>1. PICK H \in SUBSET AllRaws : x = Report(H)
    BY <1>4, Zenon DEF Reports
  <2> DEFINE G == mergeDecodedBalanceEvents(H \cup I)
  <2>2. x.events = H /\ decode(W).events = I
    BY <1>1, <2>1 DEF Report
  <2>3. G \in SUBSET AllRaws
    BY <1>1, <2>1 DEF mergeDecodedBalanceEvents
  <2>4. reconcileDecodedResultCoverage(x, decode(W)) = Report(G)
    <3>1. reconcileDecodedResultCoverage(x, decode(W)) = [Report(I) EXCEPT !.events = G]
      BY <1>1, <1>4, <2>2, Zenon DEF reconcileDecodedResultCoverage
    <3> HIDE DEF G
    <3> QED BY <3>1, Zenon DEF Report
  <2>5. ASSUME tx.chain # "btc" PROVE Covers(G, W)
    <3>1. PICK mv : Movements(mv)
      BY <2>5, AccountMovements, Zenon
    <3>2. ASSUME NEW r \in AllRaws, r.addr \in W PROVE \E q \in G : Canonical(q) = Canonical(r)
      <4>1. r \in H \cup I /\ H \cup I \in SUBSET AllRaws
        BY <1>1, <3>2 DEF I
      <4> QED
        BY <3>1, <4>1, MergeKeeps
    <3> HIDE DEF G
    <3> QED BY <3>2, Zenon DEF Covers
  <2> HIDE DEF G
  <2> QED
    BY <1>4, <2>3, <2>4, <2>5
<1> QED BY <1>3, <1>4, Zenon

\* Watching one more address disturbs no report.
LEMMA WatchAddressKeeps ==
    ASSUME DInv, NEW a \in Addresses, WatchAddress(a)
    PROVE  DInv'
<1>1. tx' = tx /\ job' = job /\ floor' = floor /\ ch' = ch /\ stored' = stored /\ covered' = covered
  BY Zenon DEF WatchAddress
<1>2. watch' \in SUBSET Addresses
  BY Zenon DEF WatchAddress, DInv
<1> QED
  BY <1>1, <1>2, SameTx DEF DInv, GoodStore, GoodJobs

\* An empty floor is a good one.
LEMMA FloorExpiresKeeps ==
    ASSUME DInv, FloorExpires
    PROVE  DInv'
<1>1. /\ tx' = tx /\ watch' = watch /\ job' = job /\ ch' = ch /\ stored' = stored /\ covered' = covered
      /\ floor' = NoResult
  BY Zenon DEF FloorExpires
<1> QED
  BY <1>1, SameTx, Zenon DEF DInv, GoodStore, GoodJobs

\* The jobs stay good when one of them becomes another good one.
LEMMA JobStep ==
    ASSUME DInv, tx' = tx, NEW k \in Batches, NEW j, GoodJob(j), job' = [job EXCEPT ![k] = j]
    PROVE  GoodJobs'
<1>1. DOMAIN job' = Batches
  BY Zenon DEF DInv, GoodJobs
<1>2. ASSUME NEW i \in Batches PROVE GoodJob(job'[i])
  BY Zenon DEF DInv, GoodJobs
<1>3. ASSUME NEW i \in Batches PROVE GoodJob(job[i])'
  BY <1>2, SameTx, Zenon
<1> QED
  BY <1>1, <1>3, Zenon DEF GoodJobs

\* The jobs are told apart by where they are.
LEMMA JobKinds ==
    /\ Idle.pc \notin {"decoded", "read"} /\ Done.pc \notin {"decoded", "read"}
    /\ \A W : DecodedJob(W).pc # "read"
    /\ \A W, x : ReadJob(W, x).pc # "decoded"
BY Zenon DEF Idle, Done, DecodedJob, ReadJob

\* A worker's own report is the one of its watch set.
LEMMA DecodeKeeps ==
    ASSUME DInv, NEW k \in Batches, Decode(k)
    PROVE  DInv'
<1>1. /\ tx' = tx /\ watch' = watch /\ floor' = floor /\ ch' = ch /\ stored' = stored /\ covered' = covered
      /\ job' = [job EXCEPT ![k] = DecodedJob(watch)]
  BY Zenon DEF Decode, DecodedJob
<1>2. GoodJob(DecodedJob(watch))
  BY Zenon DEF GoodJob, DInv
<1>3. GoodJobs'
  BY <1>1, <1>2, JobStep, Zenon
<1> QED
  BY <1>1, <1>3, SameTx DEF DInv, GoodStore

\* What a worker reads from the floor is a report of the transaction, however old.
LEMMA ReadFloorKeeps ==
    ASSUME DInv, NEW k \in Batches, ReadFloor(k)
    PROVE  DInv'
<1>0. /\ tx' = tx /\ watch' = watch /\ floor' = floor /\ ch' = ch /\ stored' = stored /\ covered' = covered
  BY Zenon DEF ReadFloor
<1>1. PICK W \in SUBSET Addresses : job[k] = DecodedJob(W)
  <2>1. GoodJob(job[k]) /\ job[k].pc = "decoded"
    BY Zenon DEF DInv, GoodJobs, ReadFloor
  <2> QED
    BY <2>1, JobKinds, Zenon DEF GoodJob
<1>2. job' = [job EXCEPT ![k] = ReadJob(W, floor)]
  <2>1. job[k].watched = W /\ job[k].incoming = decode(W)
    BY <1>1 DEF DecodedJob
  <2>2. job' = [job EXCEPT ![k] = [pc |-> "read", watched |-> job[k].watched,
                                   incoming |-> job[k].incoming, existing |-> floor]]
    BY Zenon DEF ReadFloor
  <2> QED
    BY <2>1, <2>2, Zenon DEF ReadJob
<1>3. GoodJob(ReadJob(W, floor))
  BY Zenon DEF GoodJob, DInv
<1>4. GoodJobs'
  BY <1>0, <1>2, <1>3, JobStep, Zenon
<1> QED
  BY <1>0, <1>4, SameTx, Zenon DEF DInv, GoodStore

\* A worker writes a report to the floor and sends a batch that covers its addresses.
LEMMA ReconcileKeeps ==
    ASSUME DInv, NEW k \in Batches, Reconcile(k)
    PROVE  DInv'
<1>0. tx' = tx /\ watch' = watch /\ stored' = stored /\ covered' = covered /\ tx \in Txs
  BY Zenon DEF Reconcile, DInv
<1>1. PICK W \in SUBSET Addresses, x \in {NoResult} \cup Reports : job[k] = ReadJob(W, x)
  <2>1. GoodJob(job[k]) /\ job[k].pc = "read"
    BY Zenon DEF DInv, GoodJobs, Reconcile
  <2> QED
    BY <2>1, JobKinds, Zenon DEF GoodJob
<1>2. job[k].watched = W /\ job[k].incoming = decode(W) /\ job[k].existing = x
  BY <1>1 DEF ReadJob
<1>3. PICK G \in SUBSET AllRaws :
        /\ reconcileDecodedResultCoverage(x, decode(W)) = Report(G)
        /\ x = NoResult => Report(G) = decode(W)
        /\ tx.chain # "btc" => Covers(G, W)
  BY <1>0, ReconcileReports, Zenon
<1> DEFINE b == Batch(W, G, x = NoResult)
<1>4. floor' = Report(G) /\ ch' = Append(ch, b)
  BY <1>2, <1>3, Zenon DEF Reconcile, Batch
<1>5. floor' \in {NoResult} \cup Reports
  BY <1>4, Zenon DEF Reports
<1>6. b \in AllBatches /\ GoodBatch(b)
  <2>1. (x = NoResult) \in BOOLEAN
    BY Zenon
  <2>2. b \in AllBatches
    <3>1. \A f \in BOOLEAN : Batch(W, G, f) \in AllBatches
      BY DEF AllBatches
    <3> QED BY <2>1, <3>1, Zenon
  <2>3. GoodBatch(b)
    BY <1>3, <2>1, Zenon DEF GoodBatch
  <2> QED BY <2>2, <2>3, Zenon
<1> HIDE DEF b
<1>7. ch' \in Seq(AllBatches) /\ \A i \in DOMAIN ch' : GoodBatch(ch'[i])
  BY <1>4, <1>6 DEF DInv
<1>8. GoodJob(Done) /\ job' = [job EXCEPT ![k] = Done]
  BY Zenon DEF GoodJob, Reconcile, Done
<1>9. GoodJobs'
  BY <1>0, <1>8, JobStep, Zenon
<1> QED
  BY <1>0, <1>5, <1>7, <1>9, SameTx DEF DInv, GoodStore

\* Whatever was stored before, a batch adds what its addresses are owed, once.
LEMMA IngestStores ==
    ASSUME tx \in Txs, tx.chain # "btc", NEW W \in SUBSET Addresses, NEW G \in SUBSET AllRaws, NEW f,
           Covers(G, W), NEW rows, NEW addresses, GoodStore(rows, addresses)
    PROVE  GoodStore(rows \cup {e \in collectEvents(Batch(W, G, f)) : \A s \in rows : EventID(s) # EventID(e)},
                     addresses \cup W)
<1> DEFINE C == collectEvents(Batch(W, G, f))
           N == {e \in C : \A s \in rows : EventID(s) # EventID(e)}
<1>1. PICK F : FeesAdd(F, W) /\ normalizedEvents(Report(G), W) = OwedTo(W) \cup F
  BY AccountBuilt, Zenon
<1>2. PICK mv : Movements(mv)
  BY AccountMovements, Zenon
<1>3. OwedTo(W) \subseteq C
  BY <1>1, Zenon DEF collectEvents, Batch
<1>4. \A e \in C : e \in Owed \/ e.act \in FeeActs
  <2>1. \A e \in F : e.act \in FeeActs
    BY <1>1, Zenon DEF FeesAdd, AreFees
  <2>2. \A p, a, d : Event(p, a, "native", "FEE", d).act \in FeeActs
    BY Zenon DEF Event, FeeActs
  <2>3. \A e \in C : e \in OwedTo(W) \cup F \/ \E p, a, d : e = Event(p, a, "native", "FEE", d)
    BY <1>1, Zenon DEF collectEvents, Batch
  <2> HIDE DEF C
  <2> QED BY <2>1, <2>2, <2>3, Zenon DEF OwedTo
<1> HIDE DEF C
<1>5. Moves(rows) \subseteq Owed /\ \A d \in Owed : d.addr \in addresses => d \in rows
  BY Zenon DEF GoodStore
<1>6. Moves(rows \cup N) \subseteq Owed
  BY <1>4, <1>5, Zenon DEF Moves
<1>7. ASSUME NEW d \in Owed, d.addr \in W PROVE d \in rows \cup N
  <2>1. d \in C
    BY <1>3, <1>7, Zenon DEF OwedTo
  <2>2. CASE \A s \in rows : EventID(s) # EventID(d)
    BY <2>1, <2>2, Zenon
  <2>3. ASSUME NEW s \in rows, EventID(s) = EventID(d) PROVE d \in rows
    <3>1. s.path = d.path /\ s.addr = d.addr /\ s.act = d.act
      BY <2>3, Zenon DEF EventID
    <3>2. d.act \notin FeeActs
      BY <1>2, OwedFields, Zenon
    <3>3. s \in Owed
      BY <1>5, <3>1, <3>2 DEF Moves
    <3> QED
      BY <1>2, <3>1, <3>3, OwedOnce
  <2> QED BY <2>2, <2>3, Zenon
<1> HIDE DEF N
<1>8. \A d \in Owed : d.addr \in addresses \cup W => d \in rows \cup N
  BY <1>5, <1>7, Zenon
<1> QED
  BY <1>6, <1>8, Zenon DEF GoodStore, N, C

\* The ingester keeps the rows to what is owed, and completes them for its addresses.
LEMMA IngestKeeps ==
    ASSUME DInv, Ingest
    PROVE  DInv'
<1>0. tx' = tx /\ watch' = watch /\ job' = job /\ floor' = floor /\ tx \in Txs
  BY Zenon DEF Ingest, DInv
<1>1. ch # <<>> /\ ch' = Tail(ch) /\ covered' = covered \cup Head(ch).watched
      /\ stored' = stored \cup {e \in collectEvents(Head(ch)) : \A s \in stored : EventID(s) # EventID(e)}
  BY Zenon DEF Ingest
<1>2. ch' \in Seq(AllBatches) /\ (\A i \in DOMAIN ch' : GoodBatch(ch'[i])) /\ GoodBatch(Head(ch))
  <2>1. ch \in Seq(AllBatches) /\ \A i \in DOMAIN ch : GoodBatch(ch[i])
    BY Zenon DEF DInv
  <2>2. Head(ch) = ch[1] /\ 1 \in DOMAIN ch
    BY <1>1, <2>1
  <2>3. ch' \in Seq(AllBatches) /\ \A i \in DOMAIN ch' : i + 1 \in DOMAIN ch /\ ch'[i] = ch[i + 1]
    BY <1>1, <2>1
  <2> QED BY <2>1, <2>2, <2>3
<1>3. PICK W \in SUBSET Addresses, G \in SUBSET AllRaws, f \in BOOLEAN :
        Head(ch) = Batch(W, G, f) /\ (tx.chain # "btc" => Covers(G, W))
  BY <1>2, Zenon DEF GoodBatch
<1>4. Head(ch).watched = W
  BY <1>3 DEF Batch
<1>5. covered' \in SUBSET Addresses
  BY <1>1, <1>4, Zenon DEF DInv
<1>6. GoodStore(stored', covered')
  <2>1. CASE tx.chain = "btc"
    BY <2>1, Zenon DEF GoodStore
  <2>2. CASE tx.chain # "btc"
    <3>1. GoodStore(stored, covered)
      BY Zenon DEF DInv
    <3>2. GoodStore(stored \cup {e \in collectEvents(Batch(W, G, f)) : \A s \in stored : EventID(s) # EventID(e)},
                    covered \cup W)
      BY <1>0, <1>3, <2>2, <3>1, IngestStores
    <3> QED
      BY <1>1, <1>3, <1>4, <3>2, Zenon
  <2> QED BY <2>1, <2>2
<1>7. GoodStore(stored, covered)'
  BY <1>0, <1>6, SameTx, Zenon DEF GoodStore
<1> QED
  BY <1>0, <1>2, <1>5, <1>7, SameTx DEF DInv, GoodJobs

\* Every step keeps the invariant,
LEMMA DecodingStep == DInv /\ [Next]_vars => DInv'
<1> SUFFICES ASSUME DInv, [Next]_vars PROVE DInv'
  BY Zenon
<1>1. CASE \E a \in Addresses : WatchAddress(a)
  BY <1>1, WatchAddressKeeps, Zenon
<1>2. CASE \E k \in Batches : Decode(k)
  BY <1>2, DecodeKeeps, Zenon
<1>3. CASE \E k \in Batches : ReadFloor(k)
  BY <1>3, ReadFloorKeeps
<1>4. CASE \E k \in Batches : Reconcile(k)
  BY <1>4, ReconcileKeeps
<1>5. CASE FloorExpires
  BY <1>5, FloorExpiresKeeps, Zenon
<1>6. CASE Ingest
  BY <1>6, IngestKeeps, Zenon
<1>7. CASE UNCHANGED vars
  BY <1>7, SameTx, Zenon DEF DInv, GoodStore, GoodJobs, vars
<1> QED
  BY <1>1, <1>2, <1>3, <1>4, <1>5, <1>6, <1>7 DEF Next

\* so it always holds.
LEMMA DecodingInvariant == Spec => []DInv
BY DecodingInit, DecodingStep, PTL DEF Spec

-----------------------------------------------------------------------------
\* The theorems.

\* A batch in the channel, taken apart.
LEMMA BatchParts ==
    ASSUME DInv, NEW i \in DOMAIN ch
    PROVE  \E W \in SUBSET Addresses, G \in SUBSET AllRaws :
             /\ ch[i].watched = W /\ ch[i].result = Report(G)
             /\ ch[i].events = normalizedEvents(Report(G), W)
             /\ ch[i].fresh => Report(G) = decode(W)
             /\ tx.chain # "btc" => Covers(G, W)
<1>1. PICK W \in SUBSET Addresses, G \in SUBSET AllRaws, f \in BOOLEAN :
        /\ ch[i] = Batch(W, G, f)
        /\ f => Report(G) = decode(W)
        /\ tx.chain # "btc" => Covers(G, W)
  BY Zenon DEF DInv, GoodBatch
<1>2. /\ ch[i].watched = W /\ ch[i].result = Report(G) /\ ch[i].fresh = f
      /\ ch[i].events = normalizedEvents(Report(G), W)
  BY <1>1 DEF Batch
<1> QED
  BY <1>1, <1>2, Zenon

\* A batch of an account chain changes every watched address by exactly what
\* the transaction did to it.
THEOREM NetExactAlways == Spec => []NetExact
<1>1. DInv => NetExact
  <2> SUFFICES ASSUME DInv, tx.chain # "btc", NEW i \in DOMAIN ch, NEW a \in ch[i].watched, NEW s \in Assets
               PROVE  SumDelta(Of(ch[i].events, a, s)) = Effect(a, s)
    BY Zenon DEF NetExact
  <2>1. PICK W \in SUBSET Addresses, G \in SUBSET AllRaws :
          /\ ch[i].watched = W /\ ch[i].events = normalizedEvents(Report(G), W) /\ Covers(G, W)
    BY BatchParts, Zenon
  <2>2. tx \in Txs /\ a \in W
    BY <2>1, Zenon DEF DInv
  <2>3. SumDelta(Of(normalizedEvents(Report(G), W), a, s)) = Effect(a, s)
    BY <2>1, <2>2, AccountNet
  <2> QED
    BY <2>1, <2>3, Zenon
<1> QED
  BY <1>1, DecodingInvariant, PTL

\* A fresh Bitcoin batch carries the inputs and outputs of its addresses.
THEOREM UtxoMovesExactAlways == Spec => []UtxoMovesExact
<1>1. DInv => UtxoMovesExact
  <2> SUFFICES ASSUME DInv, tx.chain = "btc", NEW i \in DOMAIN ch, ch[i].fresh, NEW a \in ch[i].watched
               PROVE  SumDelta(Of(Moves(ch[i].events), a, "BTC")) = Effect(a, "BTC")
    BY Zenon DEF UtxoMovesExact
  <2>1. PICK W \in SUBSET Addresses, G \in SUBSET AllRaws :
          /\ ch[i].watched = W /\ ch[i].events = normalizedEvents(Report(G), W) /\ Report(G) = decode(W)
    BY BatchParts, Zenon
  <2>2. tx \in Txs /\ a \in W
    BY <2>1, Zenon DEF DInv
  <2>3. SumDelta(Of(Moves(normalizedEvents(decode(W), W)), a, "BTC")) = Effect(a, "BTC")
    BY <2>2, BtcMovesSum
  <2> QED
    BY <2>1, <2>3, Zenon
<1> QED
  BY <1>1, DecodingInvariant, PTL

\* The stored rows add up to what the transaction moved.
THEOREM StoredExactAlways == Spec => []StoredExact
<1>1. DInv => StoredExact
  <2> SUFFICES ASSUME DInv, tx.chain # "btc", NEW a \in covered, NEW s \in Assets
               PROVE  SumDelta(Of(Moves(stored), a, s)) = Effect(a, s) + FeeOf(a, s)
    BY Zenon DEF StoredExact
  <2>1. tx \in Txs /\ a \in Addresses /\ GoodStore(stored, covered)
    BY Zenon DEF DInv
  <2>2. \A d \in Owed : d.act \notin FeeActs
    BY <2>1, AccountMovements, OwedFields
  <2>3. Of(Moves(stored), a, s) = Of(Owed, a, s)
    BY <2>1, <2>2 DEF GoodStore, Moves, Of
  <2> QED
    BY <2>1, <2>3, AccountOwed, Zenon
<1> QED
  BY <1>1, DecodingInvariant, PTL

\* A failed transaction costs its payer the fee once.
THEOREM FailedChargesOnceAlways == Spec => []FailedChargesOnce
<1>1. DInv => FailedChargesOnce
  <2> SUFFICES ASSUME DInv, NEW i \in DOMAIN ch, ch[i].result.status = "FAILED"
               PROVE  SumDelta(collectEvents(ch[i])) = -ch[i].result.fee
    BY Zenon DEF FailedChargesOnce
  <2>1. PICK W \in SUBSET Addresses, G \in SUBSET AllRaws :
          ch[i].result = Report(G) /\ ch[i].events = normalizedEvents(Report(G), W)
    BY BatchParts, Zenon
  <2>2. tx \in Txs /\ decode(Addresses).status = "FAILED"
    BY <2>1 DEF DInv, Report
  <2> DEFINE r == Report(G)
             E == normalizedEvents(r, W)
             synthetic == Event(<<"fee_only", 0>>, r.payer, "native", "FEE", -r.fee)
  <2>3. /\ r.fee \in Nat /\ r.payer # NoAddr
        /\ \/ E = {} /\ (r.payer \notin W \/ r.fee = 0)
           \/ \E e : E = {e} /\ e.delta = -r.fee
    BY <2>2, FailedEvents, Zenon
  <2>4. r.status = "FAILED"
    BY <2>1, Zenon
  <2>5. collectEvents(ch[i]) = E \cup (IF E = {} /\ r.fee # 0 THEN {synthetic} ELSE {})
    BY <2>1, <2>3, <2>4, Zenon DEF collectEvents
  <2>6. synthetic.delta = -r.fee
    BY Zenon DEF Event
  <2> HIDE DEF r, E, synthetic
  <2>7. SumDelta(collectEvents(ch[i])) = -r.fee
    <3>1. CASE E = {} /\ r.fee = 0
      <4>1. collectEvents(ch[i]) = {}
        BY <2>5, <3>1, Zenon
      <4> QED
        BY <3>1, <4>1, SumDeltaEmpty
    <3>2. CASE E = {} /\ r.fee # 0
      <4>1. collectEvents(ch[i]) = {synthetic}
        BY <2>5, <3>2, Zenon
      <4> QED
        BY <2>3, <2>6, <4>1, SumDeltaOne
    <3>3. ASSUME NEW e, E = {e}, e.delta = -r.fee PROVE SumDelta(collectEvents(ch[i])) = -r.fee
      <4>1. collectEvents(ch[i]) = {e} /\ e.delta \in Int
        BY <2>3, <2>5, <3>3
      <4> QED
        BY <3>3, <4>1, SumDeltaOne, Zenon
    <3> QED
      BY <2>3, <3>1, <3>2, <3>3
  <2> QED
    BY <2>1, <2>7, Zenon DEF r
<1> QED
  BY <1>1, DecodingInvariant, PTL
=============================================================================
