--------------------- MODULE PipelineLifecycle_proofs -----------------------
(***************************************************************************)
(* Proofs about how a pipeline is run, for every set of replays, backfills *)
(* and addresses and every bound: Run rewinds the watermark only while no  *)
(* run of the stages is up.  And about the index of the addresses a        *)
(* pipeline watches, for every set of them and every capacity.             *)
(***************************************************************************)
EXTENDS PipelineLifecycle, AddressIndex, WellFoundedInduction, TLAPS

(***************************************************************************)
(* AddressIndex: how old an answer of the cache or the filter can be.      *)
(***************************************************************************)
\* The entries the LRU may hold: what is left of an entry's life and the time
\* since the table held its row never exceed the TTL together.
FreshEntries ==
    {e \in [key : Addrs, row : Rows, left : 0..TTL] :
        e.left > 0 => heldAgo[e.key][e.row] + e.left <= TTL}

\* What was read and not stored yet is still less than a tick old; the filter in
\* use holds every address that was active when it was filled, and the one being
\* filled those that Reload has come to.
IndexInv ==
    /\ rows \in [Addrs -> Rows] /\ heldAgo \in [Addrs -> [Rows -> 0..Never]]
    /\ \A a \in Addrs : heldAgo[a][rows[a]] = 0
    /\ lru \in [Shards -> Seq(FreshEntries)]
    /\ looking # <<>> =>
          /\ looking[2] \in Addrs /\ looking[3] \in Rows
          /\ heldAgo[looking[2]][looking[3]] = 0
    /\ snapshot \subseteq Addrs
    /\ phase = "read" =>
          /\ \A a \in snapshot : heldAgo[a]["active"] = 0
          /\ \A a \in snapshot \ toAdd : Positions(a) \subseteq filter
          /\ toAdd \subseteq snapshot
    /\ bloom # NoBloom => phase = "running" /\ \A a \in snapshot : Positions(a) \subseteq bloom
    /\ AnswersRecent

\* Every address has its shard.
LEMMA ShardOfAddr ==
  ASSUME NEW a \in Addrs
  PROVE  ShardOf[a] \in Shards
  BY IndexConstants, Zenon DEF Shards

\* The element found for a key is one of the list and has the key.
LEMMA ElementFound ==
  ASSUME NEW entries, NEW a, \E i \in DOMAIN entries : entries[i].key = a
  PROVE  /\ ElementOf(entries, a) \in DOMAIN entries
         /\ entries[ElementOf(entries, a)].key = a
  BY Zenon DEF ElementOf

\* Removing an element leaves a list of the same kind.
LEMMA RemoveKeeps ==
  ASSUME NEW E, NEW entries \in Seq(E), NEW a, \E i \in DOMAIN entries : entries[i].key = a
  PROVE  RemoveElement(entries, a) \in Seq(E)
  <1>1. ElementOf(entries, a) \in 1..Len(entries) /\ Len(entries) \in Nat
    BY ElementFound
  <1> DEFINE i == ElementOf(entries, a)
  <1> HIDE DEF i
  <1>2. /\ SubSeq(entries, 1, i - 1) \in Seq(E)
        /\ SubSeq(entries, i + 1, Len(entries)) \in Seq(E)
    BY <1>1 DEF i
  <1> QED
    BY <1>2 DEF RemoveElement, i

\* Put adds an entry of full life to a list it otherwise keeps or shortens.
LEMMA PutKeeps ==
  ASSUME NEW E, NEW entries \in Seq(E), NEW a, NEW row,
         [key |-> a, row |-> row, left |-> TTL] \in E
  PROVE  Put(entries, a, row) \in Seq(E)
  <1> DEFINE e == [key |-> a, row |-> row, left |-> TTL]
  <1> HIDE DEF e
  <1>1. e \in E /\ <<e>> \in Seq(E)
    BY DEF e
  <1>2. CASE \E i \in DOMAIN entries : entries[i].key = a
    <2>1. RemoveElement(entries, a) \in Seq(E)
      BY <1>2, RemoveKeeps, Zenon
    <2>2. <<e>> \o RemoveElement(entries, a) \in Seq(E)
      BY <1>1, <2>1
    <2> QED
      BY <1>2, <2>2, Zenon DEF Put, e
  <1>3. CASE ~\E i \in DOMAIN entries : entries[i].key = a
    <2>1. EvictOldest(entries) \in Seq(E)
      BY IndexConstants DEF EvictOldest
    <2>2. <<e>> \o EvictOldest(entries) \in Seq(E)
      BY <1>1, <2>1
    <2> QED
      BY <1>3, <2>2, Zenon DEF Put, e
  <1> QED
    BY <1>2, <1>3, Zenon

\* Get moves or drops an entry and makes none.
LEMMA GetKeeps ==
  ASSUME NEW E, lru \in [Shards -> Seq(E)], NEW a \in Addrs
  PROVE  Get(a) \in [Shards -> Seq(E)]
  <1> DEFINE entries == lru[ShardOf[a]]
  <1>1. ShardOf[a] \in Shards /\ entries \in Seq(E)
    BY ShardOfAddr, Zenon
  <1>2. CASE ~Has(a)
    <2>1. Get(a) = [lru EXCEPT ![ShardOf[a]] = entries]
      BY <1>2, Zenon DEF Get
    <2> QED
      BY <1>1, <2>1, Zenon
  <1>3. CASE Has(a)
    <2>1. RemoveElement(entries, a) \in Seq(E)
      BY <1>1, <1>3, RemoveKeeps, Zenon DEF Has
    <2>2. Entry(a) \in E
      BY <1>1, <1>3, ElementFound DEF Has, Entry
    <2>3. <<Entry(a)>> \o RemoveElement(entries, a) \in Seq(E)
      BY <2>1, <2>2
    <2>4. \/ Get(a) = [lru EXCEPT ![ShardOf[a]] = RemoveElement(entries, a)]
          \/ Get(a) = [lru EXCEPT ![ShardOf[a]] = <<Entry(a)>> \o RemoveElement(entries, a)]
      BY <1>3, Zenon DEF Get
    <2> QED
      BY <1>1, <2>1, <2>3, <2>4, Zenon
  <1> QED
    BY <1>2, <1>3, Zenon

\* The initial state: no entry, no filter.
LEMMA IndexInvInit == IndexInit => IndexInv
  BY IndexConstants DEF IndexInit, IndexInv, AnswersRecent, NoAnswer, NoBloom, Rows, Nil, Never

\* A new index is empty.
LEMMA IndexNew == IndexInv /\ NewTieredIndex => IndexInv'
  BY DEF IndexInv, NewTieredIndex, FreshEntries, AnswersRecent

\* The admin API changes a row: what was read before keeps its age.
LEMMA IndexUpsert ==
  ASSUME IndexInv, NEW a \in Managed, NEW row \in {"active", "inactive"}, Upsert(a, row)
  PROVE  IndexInv'
  <1> USE DEF IndexInv
  <1>1. a \in Addrs /\ row \in Rows
    BY IndexConstants, Zenon DEF Rows
  <1>2. /\ UNCHANGED <<phase, snapshot, toAdd, filter, bloom, lru, looking>>
        /\ rows' = [rows EXCEPT ![a] = row] /\ heldAgo' = [heldAgo EXCEPT ![a][row] = 0]
        /\ answer' = NoAnswer
    BY Zenon DEF Upsert
  <1>3. /\ heldAgo' \in [Addrs -> [Rows -> 0..Never]] /\ rows' \in [Addrs -> Rows]
        /\ \A b \in Addrs, r \in Rows : heldAgo'[b][r] <= heldAgo[b][r]
        /\ \A b \in Addrs : heldAgo'[b][rows'[b]] = 0
    BY <1>1, <1>2, IndexConstants DEF Never
  <1>4. FreshEntries \subseteq FreshEntries'
    <2> SUFFICES ASSUME NEW e \in [key : Addrs, row : Rows, left : 0..TTL],
                        e.left > 0 => heldAgo[e.key][e.row] + e.left <= TTL, e.left > 0
                 PROVE  heldAgo'[e.key][e.row] + e.left <= TTL
      BY Zenon DEF FreshEntries
    <2>1. /\ heldAgo'[e.key][e.row] <= heldAgo[e.key][e.row]
          /\ heldAgo'[e.key][e.row] \in Int /\ heldAgo[e.key][e.row] \in Int
      BY <1>3, IndexConstants DEF Never
    <2> DEFINE x == heldAgo'[e.key][e.row]
               y == heldAgo[e.key][e.row]
    <2>2. x <= y /\ x \in Int /\ y \in Int /\ y + e.left <= TTL /\ e.left \in 0..TTL /\ TTL \in Nat
      BY <2>1, IndexConstants, Zenon
    <2>3. e.left \in Int
      BY <2>2
    <2> HIDE DEF x, y
    <2>4. x + e.left <= TTL
      BY <2>2, <2>3
    <2> QED
      BY <2>4, Zenon DEF x
  <1>5. lru' \in [Shards -> Seq(FreshEntries')]
    BY <1>2, <1>4
  <1>6. \A b \in Addrs, r \in Rows : heldAgo[b][r] = 0 => heldAgo'[b][r] = 0
    BY <1>3, IndexConstants DEF Never
  <1>7. looking' # <<>> => /\ looking'[2] \in Addrs /\ looking'[3] \in Rows
                           /\ heldAgo'[looking'[2]][looking'[3]] = 0
    BY <1>2, <1>6, Zenon
  <1>8. phase' = "read" => \A b \in snapshot' : heldAgo'[b]["active"] = 0
    BY <1>2, <1>6, Zenon DEF Rows
  <1>9. AnswersRecent'
    BY <1>2, Zenon DEF AnswersRecent
  <1> QED
    BY <1>2, <1>3, <1>5, <1>7, <1>8, <1>9 DEF Positions

\* Time passes: an entry's life shortens as its row ages.
LEMMA IndexTicks == 
  ASSUME IndexInv, IndexTick
  PROVE  IndexInv'
  <1> USE DEF IndexInv
  <1>1. /\ phase = "running" /\ looking = <<>> /\ answer' = NoAnswer
        /\ UNCHANGED <<phase, rows, snapshot, toAdd, filter, bloom, looking>>
    BY Zenon DEF IndexTick
  <1>2. /\ heldAgo' \in [Addrs -> [Rows -> 0..Never]]
        /\ \A a \in Addrs, r \in Rows : heldAgo'[a][r] <= heldAgo[a][r] + 1
        /\ \A a \in Addrs : heldAgo'[a][rows[a]] = 0
    BY IndexConstants DEF IndexTick, Never
  <1>3. lru' \in [Shards -> Seq(FreshEntries')]
    <2> DEFINE Older(e) == [e EXCEPT !.left = IF @ = 0 THEN 0 ELSE @ - 1]
    <2>1. \A e \in FreshEntries : Older(e) \in FreshEntries'
      <3> SUFFICES ASSUME NEW e \in FreshEntries PROVE Older(e) \in FreshEntries'
        BY Zenon
      <3>1. e \in [key : Addrs, row : Rows, left : 0..TTL]
        BY Zenon DEF FreshEntries
      <3>2. /\ Older(e) \in [key : Addrs, row : Rows, left : 0..TTL]
            /\ Older(e).key = e.key /\ Older(e).row = e.row
            /\ Older(e).left = IF e.left = 0 THEN 0 ELSE e.left - 1
        <4> DEFINE less == IF e.left = 0 THEN 0 ELSE e.left - 1
        <4>1. less \in 0..TTL
          BY <3>1, IndexConstants
        <4> HIDE DEF less
        <4>2. Older(e) = [e EXCEPT !.left = less]
          BY Zenon DEF less
        <4>3. [e EXCEPT !.left = less] \in [key : Addrs, row : Rows, left : 0..TTL]
          BY <3>1, <4>1, Zenon
        <4>4. /\ [e EXCEPT !.left = less].key = e.key /\ [e EXCEPT !.left = less].row = e.row
              /\ [e EXCEPT !.left = less].left = less
          BY <3>1, Zenon
        <4> QED
          BY <4>2, <4>3, <4>4, Zenon DEF less
      <3> HIDE DEF Older
      <3>3. /\ heldAgo'[e.key][e.row] <= heldAgo[e.key][e.row] + 1
            /\ heldAgo'[e.key][e.row] \in Int /\ heldAgo[e.key][e.row] \in Int
        BY <1>2, <3>1, IndexConstants DEF Never
      <3>4. e.left > 0 => heldAgo[e.key][e.row] + e.left <= TTL
        BY Zenon DEF FreshEntries
      <3>5. Older(e).left > 0 => heldAgo'[Older(e).key][Older(e).row] + Older(e).left <= TTL
        BY <3>1, <3>2, <3>3, <3>4, IndexConstants
      <3> QED
        BY <3>2, <3>5, Zenon DEF FreshEntries
    <2> HIDE DEF Older
    <2>2. lru' = [s \in Shards |-> [i \in DOMAIN lru[s] |-> Older(lru[s][i])]]
      BY Zenon DEF IndexTick, Older
    <2>3. \A s \in Shards : lru[s] \in Seq(FreshEntries)
      BY Zenon
    <2>4. \A s \in Shards : [i \in DOMAIN lru[s] |-> Older(lru[s][i])] \in Seq(FreshEntries')
      <3> SUFFICES ASSUME NEW s \in Shards
                   PROVE  [i \in DOMAIN lru[s] |-> Older(lru[s][i])] \in Seq(FreshEntries')
        BY Zenon
      <3>1. DOMAIN lru[s] = 1..Len(lru[s]) /\ Len(lru[s]) \in Nat
            /\ \A i \in DOMAIN lru[s] : lru[s][i] \in FreshEntries
        BY <2>3
      <3> QED
        BY <2>1, <3>1
    <2> QED
      BY <2>2, <2>4, Zenon
  <1>4. AnswersRecent'
    BY <1>1, Zenon DEF AnswersRecent
  <1> QED
    BY <1>1, <1>2, <1>3, <1>4, Zenon DEF Positions

\* An entry made of a row that the table holds, or held less than a tick ago.
LEMMA FreshEntry ==
  ASSUME IndexInv, NEW a \in Addrs, NEW row \in Rows, heldAgo[a][row] = 0
  PROVE  [key |-> a, row |-> row, left |-> TTL] \in FreshEntries
  <1> DEFINE e == [key |-> a, row |-> row, left |-> TTL]
  <1>1. e \in [key : Addrs, row : Rows, left : 0..TTL]
        /\ e.key = a /\ e.row = row /\ e.left = TTL
    BY IndexConstants
  <1> HIDE DEF e
  <1>2. heldAgo[e.key][e.row] + e.left <= TTL
    BY <1>1, IndexConstants
  <1> QED
    BY <1>1, <1>2, Zenon DEF FreshEntries, e

\* Putting such an entry keeps the lists fresh.
LEMMA PutFresh ==
  ASSUME IndexInv, NEW a \in Addrs, NEW row \in Rows, heldAgo[a][row] = 0
  PROVE  [lru EXCEPT ![ShardOf[a]] = Put(@, a, row)] \in [Shards -> Seq(FreshEntries)]
  <1>1. ShardOf[a] \in Shards /\ lru \in [Shards -> Seq(FreshEntries)]
    BY ShardOfAddr, Zenon DEF IndexInv
  <1>2. Put(lru[ShardOf[a]], a, row) \in Seq(FreshEntries)
    BY <1>1, FreshEntry, PutKeeps, Zenon
  <1> QED
    BY <1>1, <1>2, Zenon

\* Reload reads the active addresses, or fails.
LEMMA IndexReloadRead == IndexInv /\ ReloadRead => IndexInv'
  <1> SUFFICES ASSUME IndexInv, ReloadRead PROVE IndexInv'
    BY Zenon
  <1> USE DEF IndexInv
  <1>1. /\ phase = "loading" /\ phase' \in {"read", "running"} /\ snapshot' \subseteq Addrs
        /\ toAdd' = snapshot' /\ answer' = NoAnswer
        /\ \A a \in snapshot' : rows[a] = "active"
        /\ UNCHANGED <<rows, bloom, lru, looking, heldAgo>>
    BY Zenon DEF ReloadRead
  <1>2. bloom' = NoBloom
    BY <1>1, Zenon
  <1>3. \A a \in snapshot' : heldAgo[a]["active"] = 0
    BY <1>1, Zenon
  <1>4. lru' \in [Shards -> Seq(FreshEntries')]
    BY <1>1, Zenon DEF FreshEntries
  <1>5. AnswersRecent'
    BY <1>1, Zenon DEF AnswersRecent
  <1> QED
    BY <1>1, <1>2, <1>3, <1>4, <1>5, Zenon

\* Reload's loop comes to an address.
LEMMA IndexReloadAdd ==
  ASSUME IndexInv, NEW a \in toAdd, ReloadAdd(a)
  PROVE  IndexInv'
  <1> USE DEF IndexInv
  <1>1. /\ phase = "read" /\ toAdd' = toAdd \ {a} /\ filter' = filter \cup Positions(a)
        /\ lru' = [lru EXCEPT ![ShardOf[a]] = Put(@, a, "active")]
        /\ answer' = NoAnswer
        /\ UNCHANGED <<phase, rows, snapshot, bloom, looking, heldAgo>>
    BY Zenon DEF ReloadAdd, Add
  <1>2. a \in snapshot /\ a \in Addrs /\ heldAgo[a]["active"] = 0 /\ "active" \in Rows
    BY <1>1, Zenon DEF Rows
  <1>3. lru' \in [Shards -> Seq(FreshEntries)]
    BY <1>1, <1>2, PutFresh, Zenon
  <1>4. lru' \in [Shards -> Seq(FreshEntries')]
    BY <1>1, <1>3, Zenon DEF FreshEntries
  <1>5. \A b \in snapshot' \ toAdd' : Positions(b) \subseteq filter'
    BY <1>1, Zenon
  <1>6. AnswersRecent'
    BY <1>1, Zenon DEF AnswersRecent
  <1> QED
    BY <1>1, <1>4, <1>5, <1>6, Zenon DEF Positions

\* Reload swaps the filter in: it has come to every address.
LEMMA IndexReloadSwap == IndexInv /\ ReloadSwap => IndexInv'
  <1> SUFFICES ASSUME IndexInv, ReloadSwap PROVE IndexInv'
    OBVIOUS
  <1> USE DEF IndexInv
  <1>1. /\ phase = "read" /\ toAdd = {} /\ phase' = "running" /\ bloom' = filter
        /\ answer' = NoAnswer
        /\ UNCHANGED <<rows, snapshot, toAdd, lru, looking, heldAgo>>
    BY Zenon DEF ReloadSwap
  <1>2. \A a \in snapshot' : Positions(a) \subseteq bloom'
    BY <1>1, Zenon
  <1>3. lru' \in [Shards -> Seq(FreshEntries')]
    BY <1>1, Zenon DEF FreshEntries
  <1>4. AnswersRecent'
    BY <1>1, Zenon DEF AnswersRecent
  <1> QED
    BY <1>1, <1>2, <1>3, <1>4, Zenon DEF Positions

\* The filter or the LRU answers.
LEMMA IndexCached ==
  ASSUME IndexInv, NEW a \in Addrs, NEW op, Cached(op, a)
  PROVE  IndexInv'
  <1> USE DEF IndexInv
  <1>1. UNCHANGED <<phase, rows, snapshot, toAdd, filter, bloom, looking, heldAgo>>
        /\ FreshEntries' = FreshEntries
    BY Zenon DEF Cached, FreshEntries
  <1>2. CASE bloom # NoBloom /\ ~MayContain(a)
    <2>1. lru' = lru /\ answer' = Answer(op, a, Nil, "bloom")
      BY <1>2, Zenon DEF Cached
    <2>2. a \notin snapshot
      BY <1>2, Zenon DEF MayContain
    <2>3. AnswersRecent'
      BY <1>1, <2>1, <2>2, Zenon DEF AnswersRecent, Answer
    <2> QED
      BY <1>1, <2>1, <2>3, Zenon DEF Positions
  <1>3. CASE ~(bloom # NoBloom /\ ~MayContain(a))
    <2>1. Hit(a) /\ lru' = Get(a) /\ answer' = Answer(op, a, Entry(a).row, "lru")
      BY <1>3, Zenon DEF Cached
    <2>2. Entry(a) \in FreshEntries /\ Entry(a).key = a
      BY <2>1, ShardOfAddr, ElementFound DEF Hit, Has, Entry
    <2>3. heldAgo[a][Entry(a).row] + Entry(a).left <= TTL /\ Entry(a).left > 0
          /\ Entry(a).row \in Rows /\ Entry(a).left \in 0..TTL
      BY <2>1, <2>2, Zenon DEF FreshEntries, Hit
    <2>4. heldAgo[a][Entry(a).row] \in Int
      BY <2>3, IndexConstants DEF Never
    <2>5. heldAgo[a][Entry(a).row] <= TTL
      BY <2>3, <2>4, IndexConstants
    <2>6. AnswersRecent'
      BY <1>1, <2>1, <2>5, Zenon DEF AnswersRecent, Answer
    <2>7. lru' \in [Shards -> Seq(FreshEntries')]
      BY <1>1, <2>1, GetKeeps, Zenon
    <2> QED
      BY <1>1, <2>6, <2>7, Zenon DEF Positions
  <1> QED
    BY <1>2, <1>3, Zenon

\* A query of the table: it answers with the row as it is, or fails.
LEMMA IndexFind ==
  ASSUME IndexInv, NEW a \in Addrs, NEW op \in {"Contains", "Lookup"}, FindByAddress(op, a)
  PROVE  IndexInv'
  <1> USE DEF IndexInv
  <1>1. /\ UNCHANGED <<phase, rows, snapshot, toAdd, filter, bloom, heldAgo>>
        /\ FreshEntries' = FreshEntries /\ lru' = Get(a)
    BY Zenon DEF FindByAddress, FreshEntries
  <1>2. looking' # <<>> => /\ looking'[2] \in Addrs /\ looking'[3] \in Rows
                           /\ heldAgo'[looking'[2]][looking'[3]] = 0
    <2>1. looking' = <<op, a, rows[a]>> \/ looking' = <<>>
      BY Zenon DEF FindByAddress
    <2>2. rows[a] \in Rows /\ heldAgo'[a][rows[a]] = 0
      BY <1>1, Zenon
    <2>3. <<op, a, rows[a]>>[2] = a /\ <<op, a, rows[a]>>[3] = rows[a]
      BY Zenon
    <2> QED
      BY <2>1, <2>2, <2>3, Zenon
  <1>3. AnswersRecent'
    BY DEF FindByAddress, AnswersRecent, Answer
  <1>4. lru' \in [Shards -> Seq(FreshEntries')]
    BY <1>1, GetKeeps, Zenon
  <1> QED
    BY <1>1, <1>2, <1>3, <1>4, Zenon DEF Positions

\* The row read is cached and returned.
LEMMA IndexCacheResult == IndexInv /\ CacheResult => IndexInv'
  <1> SUFFICES ASSUME IndexInv, CacheResult PROVE IndexInv'
    OBVIOUS
  <1> USE DEF IndexInv
  <1>1. /\ UNCHANGED <<phase, rows, snapshot, toAdd, filter, bloom, heldAgo>>
        /\ FreshEntries' = FreshEntries /\ looking' = <<>>
        /\ lru' = [lru EXCEPT ![ShardOf[looking[2]]] = Put(@, looking[2], looking[3])]
        /\ answer' = Answer(looking[1], looking[2], looking[3], "db")
    BY Zenon DEF CacheResult, FreshEntries
  <1>2. /\ looking[2] \in Addrs /\ looking[3] \in Rows
        /\ heldAgo[looking[2]][looking[3]] = 0
    BY Zenon DEF CacheResult
  <1>3. lru' \in [Shards -> Seq(FreshEntries')]
    BY <1>1, <1>2, PutFresh, Zenon
  <1>4. AnswersRecent'
    BY <1>1, <1>2, IndexConstants DEF AnswersRecent, Answer
  <1> QED
    BY <1>1, <1>3, <1>4, Zenon DEF Positions

\* Every step keeps the invariant.
LEMMA IndexStep == IndexInv /\ [IndexNext]_indexVars => IndexInv'
  <1> SUFFICES ASSUME IndexInv, [IndexNext]_indexVars PROVE IndexInv'
    BY Zenon
  <1>1. CASE NewTieredIndex \/ ReloadRead \/ ReloadSwap \/ CacheResult \/ IndexTick
    BY <1>1, IndexNew, IndexReloadRead, IndexReloadSwap, IndexCacheResult, IndexTicks, Zenon
  <1>2. ASSUME NEW a \in toAdd, ReloadAdd(a) PROVE IndexInv'
    BY <1>2, IndexReloadAdd, Zenon
  <1>3. ASSUME NEW a \in Managed, NEW row \in {"active", "inactive"}, Upsert(a, row)
        PROVE  IndexInv'
    BY <1>3, IndexUpsert, Zenon
  <1>4. ASSUME NEW a \in Addrs, NEW op \in {"Contains", "Lookup"},
               Cached(op, a) \/ FindByAddress(op, a)
        PROVE  IndexInv'
    BY <1>4, IndexCached, IndexFind, Zenon
  <1>5. CASE UNCHANGED indexVars
    BY <1>5, Zenon DEF indexVars, IndexInv, FreshEntries, Positions, AnswersRecent
  <1> QED
    BY <1>1, <1>2, <1>3, <1>4, <1>5, Zenon DEF IndexNext

\* What Contains and Lookup answer was true at most one LRU lifetime ago, for any
\* addresses, hashes, filter size and capacity.
THEOREM AnswersRecentAlways == IndexSpec => []AnswersRecent
  <1>1. IndexInit => IndexInv
    BY IndexInvInit, Zenon
  <1>2. IndexInv /\ [IndexNext]_indexVars => IndexInv'
    BY IndexStep, Zenon
  <1>3. IndexInv => AnswersRecent
    BY Zenon DEF IndexInv
  <1> QED
    BY <1>1, <1>2, <1>3, PTL DEF IndexSpec

(***************************************************************************)
(* PipelineLifecycle: purges, and the types and bounds of its state.       *)
(***************************************************************************)
\* What a purge needs of the state: the blocks it is asked to purge from are
\* numbers on every path by which they reach Run.
PurgeInv ==
    /\ watermark \in Int
    /\ flags \in [Addresses -> BackfillBlocks \cup {None}]
    /\ backfillCh \in Seq(Int)
    /\ replayCh \in Seq(Replays)
    /\ task.kind \in {"replay", "backfill"} => task.from \in Int

\* Run has started stages that it has not joined only in its select and while it
\* waits for errCh (pipeline.go:338-488): no restart, purge, clear or inactive wait
\* finds an earlier run still up.
OneRun ==
    run # "none" => pc \in {"running", "stopping"}

\* The lowest flagged block is a number.
LEMMA LowestPending ==
    ASSUME flags \in [Addresses -> BackfillBlocks \cup {None}], pending # {}
    PROVE  Min(pending) \in Nat
<1>1. pending \subseteq Nat
  BY LifecycleAssumption, Zenon DEF pending, None
<1> DEFINE R == {p \in Nat \X Nat : p[1] < p[2]}
<1>w. IsWellFoundedOn(R, Nat)
  <2>1. OpToRel(<, Nat) = R
    BY Zenon DEF OpToRel
  <2> QED
    BY <2>1, NatLessThanWellFounded, Zenon
<1>p. \A a \in Nat, b \in Nat : a < b => <<a, b>> \in R
  BY Zenon
<1> HIDE DEF R
<1>3. PICK x \in pending : \A y \in pending : ~(<<y, x>> \in R)
  BY <1>1, <1>w, WFMin, Zenon
<1>4. ASSUME NEW y \in pending PROVE x <= y
  <2>1. x \in Nat /\ y \in Nat
    BY <1>1, Zenon
  <2>2. ~(y < x)
    BY <1>3, <1>p, <2>1, Zenon
  <2> QED
    BY <2>1, <2>2
<1>5. \E z \in pending : \A y \in pending : z <= y
  BY <1>4, Zenon
<1>6. Min(pending) \in pending
  BY <1>5, Zenon DEF Min
<1> QED
  BY <1>1, <1>6, Zenon

\* So is the watermark that a purge computes.
LEMMA LargerOfTwo == ASSUME NEW a \in Int PROVE Max({a, 0}) \in Int
<1>1. \E x \in {a, 0} : \A y \in {a, 0} : x >= y
  OBVIOUS
<1>2. Max({a, 0}) \in {a, 0}
  BY <1>1, Zenon DEF Max
<1> QED
  BY <1>2

\* Init establishes both.
LEMMA PurgeInit == Init => PurgeInv /\ OneRun
BY DEF Init, PurgeInv, OneRun, NoTask, None

\* Every step preserves both, and a step that lowers the watermark is a purge.
LEMMA PurgeStep ==
    ASSUME PurgeInv, OneRun, [Next]_vars
    PROVE  /\ PurgeInv' /\ OneRun'
           /\ watermark' < watermark => run # "up" /\ run' # "up"
<1> USE DEF PurgeInv, OneRun, scanVars
<1>1. CASE UNCHANGED vars
  BY <1>1 DEF vars, loopVars, replayVars, backfillVars
<1>2. CASE Environment
  <2>1. CASE Cancel \/ NewHead \/ \E v \in {"on", "off"} : SetConfig(v)
    BY <2>1 DEF Cancel, NewHead, SetConfig, loopVars, replayVars, backfillVars
  <2>2. ASSUME NEW r \in Replays, RequestReplay(r) \/ GiveUp(r)
        PROVE  /\ PurgeInv' /\ OneRun'
               /\ watermark' < watermark => run # "up" /\ run' # "up"
    <3>1. <<r>> \in Seq(Replays)
      OBVIOUS
    <3>2. replayCh' \in Seq(Replays)
      BY <2>2, <3>1, Zenon DEF RequestReplay, GiveUp
    <3>3. UNCHANGED <<pc, task, run, watermark, flags, backfillCh>>
      BY <2>2, Zenon DEF RequestReplay, GiveUp, loopVars, backfillVars
    <3> QED
      BY <3>2, <3>3
  <2>3. ASSUME NEW as \in SUBSET Addresses, NEW b \in BackfillBlocks, handleBackfill(as, b)
        PROVE  /\ PurgeInv' /\ OneRun'
               /\ watermark' < watermark => run # "up" /\ run' # "up"
    <3>1. flags' \in [Addresses -> BackfillBlocks \cup {None}]
      BY <2>3, Zenon DEF handleBackfill
    <3>2. UNCHANGED <<pc, task, run, watermark, replayCh, backfillCh>>
      BY <2>3, Zenon DEF handleBackfill, loopVars, replayVars
    <3> QED
      BY <3>1, <3>2
  <2> QED
    BY <1>2, <2>1, <2>2, <2>3, Zenon DEF Environment
<1>3. CASE Stages
  <2>1. CASE RunIndexes \/ RunFails \/ RunEnds \/ ConfigPoll
    BY <2>1 DEF RunIndexes, RunFails, RunEnds, ConfigPoll, loopVars, replayVars, backfillVars
  <2>2. CASE tickBlockScan
    <3>1. pending # {} => Min(pending) \in Int
      BY LowestPending
    <3>2. \/ backfillCh' = backfillCh
          \/ pending # {} /\ backfillCh' = Append(backfillCh, Min(pending))
      BY <2>2, Zenon DEF tickBlockScan, Tick
    <3>3. backfillCh' \in Seq(Int)
      BY <3>1, <3>2
    <3>4. UNCHANGED <<pc, task, run, watermark, flags, replayCh>>
      BY <2>2, Zenon DEF tickBlockScan, Tick, loopVars, replayVars
    <3> QED
      BY <3>3, <3>4
  <2> QED
    BY <1>3, <2>1, <2>2, Zenon DEF Stages
<1>4. CASE Inactive
  BY <1>4 DEF Inactive, WaiterChecks, WaiterWaits, CtxWatch, Reactivated, ShutdownInactive,
     Drained, parked, loopVars, replayVars, backfillVars
<1>5. CASE Run
  <2>1. CASE Loop
    BY <2>1 DEF Loop, replayVars, backfillVars
  <2>2. CASE RunFailed \/ Backoff \/ RunSucceeded
    BY <2>2, Zenon DEF RunFailed, Backoff, RunSucceeded, replayVars, backfillVars
  <2>3. CASE Serve
    <3>1. CASE TakeReplay
      <4>1. ReplayFrom[Head(replayCh)] \in Int
        BY <3>1, LifecycleAssumption DEF TakeReplay
      <4> QED
        BY <3>1, <4>1 DEF TakeReplay, Stop, backfillVars
    <3>2. CASE TakeBackfill
      <4>1. Head(backfillCh) \in Int
        BY <3>2 DEF TakeBackfill
      <4> QED
        BY <3>2, <4>1 DEF TakeBackfill, Stop, replayVars
    <3>3. CASE TakeDeactivate \/ TakeShutdown
      BY <3>3 DEF TakeDeactivate, TakeShutdown, Stop, replayVars, backfillVars
    <3> QED
      BY <2>3, <3>1, <3>2, <3>3, Zenon DEF Serve
  <2>4. CASE StopEnds
    BY <2>4, Zenon DEF StopEnds, Stopped, NoTask, replayVars, backfillVars
  <2>5. CASE PurgeFromBlock
    <3>1. task.from - 1 \in Int
      BY <2>5 DEF PurgeFromBlock
    <3>2. Max({task.from - 1, 0}) \in Int
      BY <3>1, LargerOfTwo, Zenon
    <3>3. watermark' \in Int
      BY <2>5, <3>2, Zenon DEF PurgeFromBlock
    <3> QED
      BY <2>5, <3>3, Zenon DEF PurgeFromBlock, Stopped, NoTask
  <2>6. CASE ClearBackfill
    BY <2>6, Zenon DEF ClearBackfill, replayVars
  <2> QED
    BY <1>5, <2>1, <2>2, <2>3, <2>4, <2>5, <2>6, Zenon DEF Run
<1> QED
  BY <1>1, <1>2, <1>3, <1>4, <1>5, Zenon DEF Next

\* Run waits for every stage before it purges (pipeline.go:410-414): whatever
\* replays, backfills, failures and deactivations come in, the watermark is never
\* rewound while a run is up that could write above it again.
THEOREM PurgeExcludesWorkersAlways == Spec => PurgeExcludesWorkers
<1>1. PurgeInv /\ OneRun /\ [Next]_vars => PurgeInv' /\ OneRun'
  BY PurgeStep, Zenon
<1>2. PurgeInv /\ OneRun /\ [Next]_vars => [watermark' < watermark => run # "up" /\ run' # "up"]_vars
  BY PurgeStep, Zenon
<1> QED
  BY PurgeInit, <1>1, <1>2, PTL DEF Spec, PurgeExcludesWorkers

\* Run never starts stages, clears flags, parks or backs off while an earlier run of
\* the stages is not joined (pipeline.go:283-488).
THEOREM OneRunAlways == Spec => []OneRun
<1>1. PurgeInv /\ OneRun /\ [Next]_vars => PurgeInv' /\ OneRun'
  BY PurgeStep
<1> QED
  BY PurgeInit, <1>1, PTL DEF Spec

-----------------------------------------------------------------------------
(* Types and bounds *)

(* With TypeOK an inductive invariant: a run that has failed was within the  *)
(* bound of failures, and no purge asked for is above the block after the    *)
(* highest one.                                                              *)
BoundsInv ==
    /\ task.kind \in {"replay", "backfill"} => task.from \in 0 .. MaxBlock + 1
    /\ replayCh \in Seq(Replays) /\ backfillCh \in Seq(0 .. MaxBlock)
    /\ run = "failed" => failures < MaxFailures
    /\ health \in [status : {"UNKNOWN", "HEALTHY", "INACTIVE", "UNHEALTHY"}, failures : Nat]

\* A restart backs off between nothing and five minutes, for every number of failures.
LEMMA BackoffRange == ASSUME NEW n \in Nat \ {0} PROVE calcRestartBackoff(n) \in 0 .. 300
<1>1. CASE 64 - (n + 9) >= 22 /\ n <= 8
  <2>1. n = 1 \/ n = 2 \/ n = 3 \/ n = 4 \/ n = 5 \/ n = 6 \/ n = 7 \/ n = 8
    BY <1>1
  <2>2. /\ 2^1 \in 0 .. 300 /\ 2^2 \in 0 .. 300 /\ 2^3 \in 0 .. 300 /\ 2^4 \in 0 .. 300
        /\ 2^5 \in 0 .. 300 /\ 2^6 \in 0 .. 300 /\ 2^7 \in 0 .. 300 /\ 2^8 \in 0 .. 300
    OBVIOUS
  <2>3. 2^n \in 0 .. 300
    BY <2>1, <2>2, Zenon
  <2>4. calcRestartBackoff(n) = 2^n
    BY <1>1, SMT DEF calcRestartBackoff
  <2> QED BY <2>3, <2>4, Zenon
<1>2. CASE ~(64 - (n + 9) >= 22 /\ n <= 8)
  <2>1. calcRestartBackoff(n) = 0 \/ calcRestartBackoff(n) = 300
    <3>1. ~(64 - (n + 9) >= 22) \/ n > 8
      BY <1>2
    <3> QED
      BY <3>1, SMT DEF calcRestartBackoff
  <2>2. 0 \in 0 .. 300 /\ 300 \in 0 .. 300
    OBVIOUS
  <2> QED BY <2>1, <2>2, Zenon
<1> QED
  BY <1>1, <1>2, Zenon

\* The block a purge goes back to is at most the highest one.
LEMMA PurgedWatermark ==
    ASSUME NEW from \in 0 .. MaxBlock + 1
    PROVE  Max({from - 1, 0}) \in 0 .. MaxBlock
<1>1. MaxBlock \in Nat
  BY LifecycleAssumption, Zenon
<1>2. \E x \in {from - 1, 0} : \A y \in {from - 1, 0} : x >= y
  BY <1>1
<1>3. Max({from - 1, 0}) \in {from - 1, 0} /\ Max({from - 1, 0}) >= 0
  BY <1>2, Zenon DEF Max
<1> QED
  BY <1>1, <1>3

\* The lowest flagged block below the next block to scan is at most the highest one.
LEMMA PendingBelow ==
    ASSUME TypeOK, pending # {}, Min(pending) < watermark + 1
    PROVE  Min(pending) \in 0 .. MaxBlock
<1>1. Min(pending) \in Nat
  BY LowestPending, Zenon DEF TypeOK
<1> QED
  BY <1>1, LifecycleAssumption DEF TypeOK

\* Run starts within them.
LEMMA BoundsInit == Init => TypeOK /\ BoundsInv
<1> SUFFICES ASSUME Init PROVE TypeOK /\ BoundsInv
  BY Zenon
<1>1. task.kind = "none" /\ health.status = "UNKNOWN"
  BY Zenon DEF Init, NoTask
<1>2. TypeOK
  <2>1. ctxDone \in BOOLEAN /\ active \in BOOLEAN /\ deactiveCh \in BOOLEAN
    BY Zenon DEF Init
  <2>2. /\ head = 0 /\ enqueued.start = -1 /\ enqueued.end = -1
    BY Zenon DEF Init, NoRange, None
  <2>3. /\ pc = "loop" /\ run = "none" /\ watermark = 0 /\ waiter = "none" /\ watcher = "none"
        /\ config = "none" /\ lastSeen = "none" /\ replayCh = <<>> /\ backfillCh = <<>>
        /\ replay = [r \in Replays |-> "idle"] /\ failures = 0 /\ delay = 0
        /\ flags = [a \in Addresses |-> None] /\ wanted = [a \in Addresses |-> None]
    BY Zenon DEF Init
  <2> QED
    BY <1>1, <2>1, <2>2, <2>3, LifecycleAssumption DEF TypeOK, None
<1>3. BoundsInv
  BY <1>1 DEF Init, BoundsInv
<1> QED
  BY <1>2, <1>3, Zenon

\* Every step keeps the types and the bounds.
LEMMA BoundsStep ==
    ASSUME TypeOK, BoundsInv, [Next]_vars
    PROVE  TypeOK' /\ BoundsInv'
<1> USE DEF TypeOK, BoundsInv, scanVars
<1>a. MaxBlock \in Nat /\ MaxFailures \in Nat /\ BatchSize \in Nat \ {0}
  BY LifecycleAssumption, Zenon
<1>1. CASE UNCHANGED vars
  BY <1>1 DEF vars, loopVars, activationVars, configVars, replayVars, backfillVars, healthVars
<1>2. CASE Environment
  <2>1. CASE Cancel \/ NewHead \/ \E v \in {"on", "off"} : SetConfig(v)
    <3>3. CASE NewHead
      BY <1>a, <3>3 DEF NewHead, loopVars, activationVars, configVars, replayVars, backfillVars, healthVars
    <3>1. CASE Cancel
      BY <3>1 DEF Cancel, loopVars, activationVars, configVars, replayVars, backfillVars, healthVars
    <3>2. CASE \E v \in {"on", "off"} : SetConfig(v)
      BY <3>2 DEF SetConfig, loopVars, activationVars, configVars, replayVars, backfillVars, healthVars
    <3> QED
      BY <2>1, <3>1, <3>2, <3>3, Zenon
  <2>2. ASSUME NEW r \in Replays, RequestReplay(r) \/ GiveUp(r)
        PROVE  TypeOK' /\ BoundsInv'
    <3>1. <<r>> \in Seq(Replays) /\ Len(<<r>>) <= 1
      OBVIOUS
    <3>2. replayCh' \in Seq(Replays) /\ Len(replayCh') <= 1
      BY <2>2, <3>1, Zenon DEF RequestReplay, GiveUp
    <3>3. replay' \in [Replays -> {"idle", "waiting", "abandoned", "answered"}]
      BY <2>2, Zenon DEF RequestReplay, GiveUp
    <3>4. UNCHANGED <<loopVars, scanVars, activationVars, configVars, backfillVars, healthVars>>
      BY <2>2, Zenon DEF RequestReplay, GiveUp
    <3> QED
      BY <3>2, <3>3, <3>4 DEF loopVars, activationVars, configVars, backfillVars, healthVars
  <2>3. ASSUME NEW as \in SUBSET Addresses, NEW b \in BackfillBlocks, handleBackfill(as, b)
        PROVE  TypeOK' /\ BoundsInv'
    <3>1. /\ flags' \in [Addresses -> BackfillBlocks \cup {None}]
          /\ wanted' \in [Addresses -> BackfillBlocks \cup {None}]
      BY <2>3, Zenon DEF handleBackfill
    <3>2. UNCHANGED <<loopVars, scanVars, activationVars, configVars, replayVars, backfillCh, healthVars>>
      BY <2>3, Zenon DEF handleBackfill
    <3> QED
      BY <3>1, <3>2 DEF loopVars, activationVars, configVars, replayVars, healthVars
  <2> QED
    BY <1>2, <2>1, <2>2, <2>3, Zenon DEF Environment
<1>3. CASE Stages
  <2>1. CASE RunIndexes \/ RunFails \/ RunEnds
    <3>1. CASE RunIndexes
      BY <1>a, <3>1 DEF RunIndexes, loopVars, activationVars, configVars, replayVars, backfillVars, healthVars
    <3>2. CASE RunFails
      BY <1>a, <3>2 DEF RunFails, loopVars, activationVars, configVars, replayVars, backfillVars, healthVars
    <3>3. CASE RunEnds
      BY <1>a, <3>3 DEF RunEnds, loopVars, activationVars, configVars, replayVars, backfillVars, healthVars
    <3> QED
      BY <2>1, <3>1, <3>2, <3>3, Zenon
  <2>2. CASE ConfigPoll
    BY <2>2 DEF ConfigPoll, Woken, loopVars, replayVars, backfillVars
  <2>3. CASE tickBlockScan
    <3>1. \/ backfillCh' = backfillCh
          \/ /\ watermark > 0 /\ pending # {} /\ Min(pending) < startBlock /\ Len(backfillCh) < 1
             /\ backfillCh' = Append(backfillCh, Min(pending))
      BY <2>3, Zenon DEF tickBlockScan, Tick
    <3>2. watermark > 0 /\ pending # {} /\ Min(pending) < startBlock => Min(pending) \in 0 .. MaxBlock
      BY PendingBelow, Zenon DEF startBlock
    <3>3. backfillCh' \in Seq(0 .. MaxBlock) /\ Len(backfillCh') <= 1
      <4>1. ASSUME NEW b \in 0 .. MaxBlock, Len(backfillCh) < 1, backfillCh' = Append(backfillCh, b)
            PROVE  backfillCh' \in Seq(0 .. MaxBlock) /\ Len(backfillCh') <= 1
        BY <4>1
      <4> QED
        BY <3>1, <3>2, <4>1, Zenon
    <3>4. enqueued' = [start |-> startBlock, end |-> endBlock]
      BY <2>3, Zenon DEF tickBlockScan, Tick
    <3>5. startBlock \in 0 .. MaxBlock + 1 /\ endBlock \in 0 .. MaxBlock
      BY <1>a DEF startBlock, endBlock
    <3>6. enqueued'.start \in None .. MaxBlock + 1 /\ enqueued'.end \in None .. MaxBlock
      BY <1>a, <3>4, <3>5 DEF None
    <3>7. UNCHANGED <<loopVars, head, watermark, activationVars, configVars, replayVars, flags, wanted, healthVars>>
      BY <2>3, Zenon DEF tickBlockScan, Tick
    <3> QED
      BY <3>3, <3>6, <3>7 DEF loopVars, activationVars, configVars, replayVars, healthVars
  <2> QED
    BY <1>3, <2>1, <2>2, <2>3, Zenon DEF Stages
<1>4. CASE Inactive
  <2>1. CASE WaiterChecks \/ WaiterWaits \/ CtxWatch
    <3>1. CASE WaiterChecks
      BY <3>1 DEF WaiterChecks, parked, loopVars, configVars, replayVars, backfillVars, healthVars
    <3>2. CASE WaiterWaits
      BY <3>2 DEF WaiterWaits, parked, loopVars, configVars, replayVars, backfillVars, healthVars
    <3>3. CASE CtxWatch
      BY <3>3 DEF CtxWatch, Woken, parked, loopVars, configVars, replayVars, backfillVars, healthVars
    <3> QED
      BY <2>1, <3>1, <3>2, <3>3
  <2>2. CASE Reactivated \/ ShutdownInactive \/ Drained
    BY <2>2 DEF Reactivated, ShutdownInactive, Drained, Woken, activationVars, configVars, replayVars,
       backfillVars, healthVars
  <2> QED
    BY <1>4, <2>1, <2>2, Zenon DEF Inactive
<1>5. CASE Run
  <2>1. CASE Loop
    <3>1. enqueued'.start \in None .. MaxBlock + 1 /\ enqueued'.end \in None .. MaxBlock
      <4>1. enqueued' = enqueued \/ enqueued' = NoRange
        BY <2>1, Zenon DEF Loop
      <4> QED
        BY <1>a, <4>1 DEF NoRange, None
    <3> QED
      BY <2>1, <3>1 DEF Loop, replayVars, backfillVars
  <2>2. CASE RunFailed
    <3>1. failures + 1 \in 0 .. MaxFailures /\ failures + 1 \in Nat \ {0}
      BY <1>a, <2>2 DEF RunFailed
    <3>2. delay' \in 0 .. 300
      BY <2>2, <3>1, BackoffRange, Zenon DEF RunFailed
    <3> QED
      BY <2>2, <3>1, <3>2 DEF RunFailed, becameUnhealthy, activationVars, configVars, replayVars, backfillVars
  <2>3. CASE Backoff
    BY <2>3 DEF Backoff, activationVars, configVars, replayVars, backfillVars, healthVars
  <2>4. CASE RunSucceeded
    BY <1>a, <2>4 DEF RunSucceeded, activationVars, configVars, replayVars, backfillVars
  <2>5. CASE Serve
    <3>1. CASE TakeReplay
      <4>1. ReplayFrom[Head(replayCh)] \in 0 .. MaxBlock + 1
        BY <3>1, LifecycleAssumption DEF TakeReplay
      <4> QED
        BY <3>1, <4>1 DEF TakeReplay, Stop, activationVars, configVars, backfillVars, healthVars
    <3>2. CASE TakeBackfill
      <4>1. Head(backfillCh) \in 0 .. MaxBlock + 1
        BY <1>a, <3>2 DEF TakeBackfill
      <4> QED
        BY <3>2, <4>1 DEF TakeBackfill, Stop, activationVars, configVars, replayVars, healthVars
    <3>3. CASE TakeDeactivate \/ TakeShutdown
      <4>1. CASE TakeDeactivate
        <5>1. ctxDone' \in BOOLEAN /\ active' \in BOOLEAN /\ deactiveCh' \in BOOLEAN
          BY <4>1, Zenon DEF TakeDeactivate, Stop
        <5>2. /\ pc' = "stopping" /\ task' = [kind |-> "deactivate", from |-> None, by |-> {}]
              /\ UNCHANGED <<run, scanVars, waiter, watcher, configVars, replayVars, backfillVars, healthVars>>
          BY <4>1, Zenon DEF TakeDeactivate, Stop
        <5> QED
          BY <5>1, <5>2 DEF configVars, replayVars, backfillVars, healthVars
      <4>2. CASE TakeShutdown
        BY <4>2 DEF TakeShutdown, Stop, activationVars, configVars, replayVars, backfillVars, healthVars
      <4> QED
        BY <3>3, <4>1, <4>2, Zenon
    <3> QED
      BY <2>5, <3>1, <3>2, <3>3, Zenon DEF Serve
  <2>6. CASE StopEnds
    BY <2>6 DEF StopEnds, NoTask, activationVars, configVars, replayVars, backfillVars, healthVars
  <2>7. CASE PurgeFromBlock
    <3>1. Max({task.from - 1, 0}) \in 0 .. MaxBlock
      BY <2>7, PurgedWatermark, Zenon DEF PurgeFromBlock
    <3>2. watermark' \in 0 .. MaxBlock
      BY <2>7, <3>1, Zenon DEF PurgeFromBlock
    <3>3. wanted' \in [Addresses -> BackfillBlocks \cup {None}]
      BY <2>7 DEF PurgeFromBlock
    <3>4. replay' \in [Replays -> {"idle", "waiting", "abandoned", "answered"}]
      BY <2>7, Zenon DEF PurgeFromBlock
    <3>5. /\ pc' \in {"loop", "clearing"} /\ run' = "none" /\ task' = NoTask
          /\ UNCHANGED <<ctxDone, head, enqueued, activationVars, configVars, replayCh, flags, backfillCh, healthVars>>
      BY <2>7, Zenon DEF PurgeFromBlock
    <3> QED
      BY <3>2, <3>3, <3>4, <3>5 DEF NoTask, activationVars, configVars, healthVars
  <2>8. CASE ClearBackfill
    BY <2>8 DEF ClearBackfill, activationVars, configVars, replayVars, healthVars
  <2> QED
    BY <1>5, <2>1, <2>2, <2>3, <2>4, <2>5, <2>6, <2>7, <2>8, Zenon DEF Run
<1> QED
  BY <1>1, <1>2, <1>3, <1>4, <1>5, Zenon DEF Next

\* The one-slot channels never hold more than one message, the watermark stays within
\* what was indexed or asked for, and a restart never backs off longer than five
\* minutes, however many failures there were (pipeline.go:254-281).
THEOREM TypeOKAlways == Spec => []TypeOK
<1>1. TypeOK /\ BoundsInv /\ [Next]_vars => TypeOK' /\ BoundsInv'
  BY BoundsStep, Zenon
<1> QED
  BY BoundsInit, <1>1, PTL DEF Spec
=============================================================================
