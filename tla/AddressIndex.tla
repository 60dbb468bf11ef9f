---------------------------- MODULE AddressIndex ----------------------------
(***************************************************************************)
(* The three-tier index of watched addresses that the ingester asks for    *)
(* the owner of an event (internal/addressindex: tiered.go, bloom.go; the  *)
(* sharded LRU of internal/cache), beside the rows of watched_addresses    *)
(* that the admin API changes at any time.  runPipeline builds and loads a *)
(* new index each time the pipeline starts.                                *)
(***************************************************************************)
EXTENDS Integers, Sequences

CONSTANTS
    Addrs,              \* addresses of one chain and network
    Managed,            \* bound: those the admin API changes
    HashOf,             \* [Addrs -> Nat \X Nat]: the two halves of FNV-128a
    BloomBits, BloomHashes,   \* m and k of the filter
    ShardOf,            \* [Addrs -> Shards]: FNV-32a modulo the shard count
    PerShard,           \* capacity of one LRU shard
    TTL                 \* ticks an LRU entry lives

ASSUME IndexConstants ==
    /\ BloomBits \in Nat \ {0} /\ BloomHashes \in Nat \ {0}
    /\ Managed \subseteq Addrs /\ DOMAIN ShardOf = Addrs
    /\ PerShard \in Nat \ {0} /\ TTL \in Nat \ {0}

Nil == "nil"            \* FindByAddress found no row
Rows == {Nil, "active", "inactive"}
Shards == {ShardOf[a] : a \in Addrs}
NoBloom == {-1}
NoAnswer == [op |-> "none"]

VARIABLES
    phase,      \* of the run: "loading" (before Reload), "read" (GetActive returned), "running"
    rows,       \* watched_addresses: [Addrs -> Rows]
    snapshot,   \* what GetActive returned to the last Reload
    toAdd,      \* addresses of it that Reload has not come to
    filter,     \* the bits of the filter Reload is filling
    bloom,      \* the bits of the filter, or none
    lru,        \* [Shards -> Seq(entry)], most recently used first
    looking,    \* a lookup that missed and has read its row, not cached yet
    answer,     \* what the last step returned to the ingester
    heldAgo     \* history: ticks since the row of an address had a value

indexVars == <<phase, rows, snapshot, toAdd, filter, bloom, lru, looking, answer,
               heldAgo>>

Never == TTL + 1

IndexInit ==
    /\ phase = "loading" /\ rows \in [Addrs -> {Nil, "active"}]
    /\ snapshot = {} /\ toAdd = {} /\ filter = {}
    /\ bloom = NoBloom /\ lru = [s \in Shards |-> <<>>]
    /\ looking = <<>> /\ answer = NoAnswer
    /\ heldAgo = [a \in Addrs |-> [r \in Rows |-> IF rows[a] = r THEN 0 ELSE Never]]

\* NewTieredIndex on the way into a new run.
NewTieredIndex ==
    /\ phase = "running" /\ looking = <<>>
    /\ phase' = "loading" /\ bloom' = NoBloom /\ lru' = [s \in Shards |-> <<>>]
    /\ snapshot' = {} /\ answer' = NoAnswer
    /\ UNCHANGED <<rows, toAdd, filter, looking, heldAgo>>

\* The admin API adds an address or switches it on or off.
Upsert(a, row) ==
    /\ rows[a] # row
    /\ rows' = [rows EXCEPT ![a] = row]
    /\ heldAgo' = [heldAgo EXCEPT ![a][row] = 0]
    /\ answer' = NoAnswer
    /\ UNCHANGED <<phase, snapshot, toAdd, filter, bloom, lru, looking>>

\* No query lasts as long as a tick (DefaultQueryTimeout is far below the TTL).
IndexTick ==
    /\ phase = "running" /\ looking = <<>>
    /\ lru' = [s \in Shards |->
                  [i \in DOMAIN lru[s] |->
                      [lru[s][i] EXCEPT !.left = IF @ = 0 THEN 0 ELSE @ - 1]]]
    /\ heldAgo' = [a \in Addrs |-> [r \in Rows |->
                      IF rows[a] = r \/ heldAgo[a][r] = Never
                        THEN heldAgo[a][r] ELSE heldAgo[a][r] + 1]]
    /\ answer' = NoAnswer
    /\ UNCHANGED <<phase, rows, snapshot, toAdd, filter, bloom, looking>>
-----------------------------------------------------------------------------
\* BloomFilter: double hashing, the bits of a key, Add and MayContain.
Positions(a) == {(HashOf[a][1] + i * HashOf[a][2]) % BloomBits : i \in 0..BloomHashes - 1}
Add(bits, a) == bits \cup Positions(a)
MayContain(a) == Positions(a) \subseteq bloom

\* LRU: the entry of a key, Get's bookkeeping and Put.
Has(a) == \E i \in DOMAIN lru[ShardOf[a]] : lru[ShardOf[a]][i].key = a
ElementOf(entries, a) == CHOOSE i \in DOMAIN entries : entries[i].key = a
Entry(a) == lru[ShardOf[a]][ElementOf(lru[ShardOf[a]], a)]
RemoveElement(entries, a) ==
    SubSeq(entries, 1, ElementOf(entries, a) - 1)
        \o SubSeq(entries, ElementOf(entries, a) + 1, Len(entries))
EvictOldest(entries) ==
    IF Len(entries) >= PerShard THEN SubSeq(entries, 1, Len(entries) - 1) ELSE entries
Put(entries, a, row) ==
    LET e == [key |-> a, row |-> row, left |-> TTL]
    IN  IF \E i \in DOMAIN entries : entries[i].key = a
          THEN <<e>> \o RemoveElement(entries, a)
          ELSE <<e>> \o EvictOldest(entries)

\* Mutant: reading an entry renews it.
GetSliding(a) ==
    [lru EXCEPT ![ShardOf[a]] = IF Has(a) THEN Put(@, a, Entry(a).row) ELSE @]

Get(a) ==
    [lru EXCEPT ![ShardOf[a]] =
        IF ~Has(a) THEN @
        ELSE IF Entry(a).left = 0 THEN RemoveElement(@, a)
        ELSE <<Entry(a)>> \o RemoveElement(@, a)]
Hit(a) == Has(a) /\ Entry(a).left > 0
-----------------------------------------------------------------------------
\* Reload: GetActive; on an error the run goes on without a filter.
ReloadRead ==
    /\ phase = "loading"
    /\ \/ phase' = "read" /\ snapshot' = {a \in Addrs : rows[a] = "active"}
       \/ phase' = "running" /\ snapshot' = {}
    /\ toAdd' = snapshot' /\ filter' = {} /\ answer' = NoAnswer
    /\ UNCHANGED <<rows, bloom, lru, looking, heldAgo>>

\* One turn of its loop: the address goes into a new filter and warms the LRU.
ReloadAdd(a) ==
    /\ phase = "read" /\ a \in toAdd
    /\ toAdd' = toAdd \ {a}
    /\ filter' = Add(filter, a)
    /\ lru' = [lru EXCEPT ![ShardOf[a]] = Put(@, a, "active")]
    /\ answer' = NoAnswer
    /\ UNCHANGED <<phase, rows, snapshot, bloom, looking, heldAgo>>

\* After the loop the filter is swapped in.
ReloadSwap ==
    /\ phase = "read" /\ toAdd = {}
    /\ phase' = "running" /\ bloom' = filter /\ filter' = {}
    /\ answer' = NoAnswer
    /\ UNCHANGED <<rows, snapshot, toAdd, lru, looking, heldAgo>>

Answer(op, a, row, from) == [op |-> op, addr |-> a, row |-> row, from |-> from]

\* Tiers 1 and 2 of Contains and Lookup: the filter rejects, or the LRU knows.
Cached(op, a) ==
    /\ phase = "running" /\ looking = <<>>
    /\ IF bloom # NoBloom /\ ~MayContain(a)
         THEN lru' = lru /\ answer' = Answer(op, a, Nil, "bloom")
         ELSE /\ Hit(a)
              /\ lru' = Get(a) /\ answer' = Answer(op, a, Entry(a).row, "lru")
    /\ UNCHANGED <<phase, rows, snapshot, toAdd, filter, bloom, looking, heldAgo>>

\* After a failed query Contains assumes the address is watched.
OnError(op) == IF op = "Contains" THEN "assumed" ELSE Nil

\* Tier 3: FindByAddress, which also finds a row that is not active.
FindByAddress(op, a) ==
    /\ phase = "running" /\ looking = <<>>
    /\ bloom # NoBloom => MayContain(a)
    /\ ~Hit(a)
    /\ lru' = Get(a)
    /\ \/ looking' = <<op, a, rows[a]>> /\ answer' = NoAnswer
       \/ looking' = <<>> /\ answer' = Answer(op, a, OnError(op), "error")
    /\ UNCHANGED <<phase, rows, snapshot, toAdd, filter, bloom, heldAgo>>

\* The result, found or not, is cached and returned.
CacheResult ==
    /\ looking # <<>>
    /\ lru' = [lru EXCEPT ![ShardOf[looking[2]]] = Put(@, looking[2], looking[3])]
    /\ answer' = Answer(looking[1], looking[2], looking[3], "db")
    /\ looking' = <<>>
    /\ UNCHANGED <<phase, rows, snapshot, toAdd, filter, bloom, heldAgo>>

IndexNext ==
    \/ NewTieredIndex \/ ReloadRead \/ ReloadSwap \/ CacheResult \/ IndexTick
    \/ \E a \in toAdd : ReloadAdd(a)
    \/ \E a \in Managed, row \in {"active", "inactive"} : Upsert(a, row)
    \/ \E a \in Addrs, op \in {"Contains", "Lookup"} : Cached(op, a) \/ FindByAddress(op, a)

IndexSpec == IndexInit /\ [][IndexNext]_indexVars
-----------------------------------------------------------------------------
\* What the ingester is told is not older than an LRU entry: a row taken from
\* the LRU or the table is one the table held at most TTL ticks before (reading
\* an entry does not keep it alive), and the filter rejects no address that was
\* active when it was filled, whatever bits the keys share.
AnswersRecent ==
    answer # NoAnswer =>
        /\ answer.from \in {"lru", "db"} => heldAgo[answer.addr][answer.row] <= TTL
        /\ answer.from = "bloom" => answer.addr \notin snapshot
=============================================================================
