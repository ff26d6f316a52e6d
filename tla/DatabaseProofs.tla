--------------------------- MODULE DatabaseProofs ---------------------------
(***************************************************************************)
(* Proofs about Database, for any keys, hash, shard count, limits, backups *)
(* and walkers: eviction keeps a shard within its slice and never takes    *)
(* the key just set, a walk over the shards returns what it should, and    *)
(* the sharded database implements Keyspace.                               *)
(***************************************************************************)
EXTENDS Database, LruMapProofs

\* Every table is well formed and holds only keys of its own shard.
Placed(sh) ==
    /\ sh \in [Shards -> [table : Maps, sweepCursor : Nat, maxMemoryBytes : Nat]]
    /\ \A s \in Shards : \A k \in Stored(sh[s].table) : ShardIndexFor(k) = s

Rows == [key : Keys, entry : Entries]

Operations == {"idle", "snapshot", "sweep", "limit", "clear", "restore", "load"}

WalksTyped ==
    walk \in [Walkers -> [op : Operations, at : 0..ShardCount, limit : Nat,
                          todo : Seq(Rows), clock : Nat,
                          got : SUBSET (Keys \X Entries)]]

SeenTyped == seen \in [Walkers -> [always : SUBSET Keys, ever : SUBSET (Keys \X Entries)]]

TypeOK ==
    /\ Placed(shard)
    /\ maxMemory \in Nat /\ now \in Nat
    /\ WalksTyped /\ SeenTyped
    /\ untrimmed \subseteq Shards

\* Where a walk that reads stands: it has gathered only what was live at some time
\* since the call, and every key live since the call whose shard it has visited.
Gathers ==
    \A w \in Walkers :
        walk[w].op = "snapshot" =>
            /\ walk[w].got \subseteq seen[w].ever
            /\ \A k \in seen[w].always :
                  ShardIndexFor(k) < walk[w].at => k \in KeysOf(walk[w].got)

\* Where a walk that clears stands: a key live since the call is in a shard to come.
Clears ==
    \A w \in Walkers :
        walk[w].op \in {"clear", "restore"} =>
            \A k \in seen[w].always : walk[w].at <= ShardIndexFor(k)

-----------------------------------------------------------------------------
(* Shards and slices.                                                      *)

\* The high bits of a hash name a shard.
LEMMA ShardInRange ==
    ASSUME NEW k \in Keys
    PROVE  ShardIndexFor(k) \in Shards
<1> DEFINE N == 2^HashBits
           q == N \div ShardCount
           h == Hash[k]
<1>1. N \in Int /\ h \in 0..(N - 1)
  BY HashAssumption
<1> HIDE DEF N, h
<1>2. N \in Nat \ {0} /\ h \in Nat /\ h < N
  BY <1>1
<1>3. ShardCount \in Nat \ {0} /\ N % ShardCount = 0
  BY ShardsAssumption, Zenon DEF N
<1>4. N = ShardCount * q + (N % ShardCount) /\ q \in Nat
  BY <1>2, <1>3
<1> HIDE DEF q
<1>5. N = ShardCount * q /\ q \in Nat \ {0}
  BY <1>2, <1>3, <1>4
<1>6. h \div q \in Nat /\ q * (h \div q) <= h
  BY <1>2, <1>5
<1> DEFINE d == h \div q
<1> HIDE DEF d
<1>7. d \in Nat /\ q * d < ShardCount * q
  BY <1>2, <1>3, <1>5, <1>6 DEF d
<1>8. d < ShardCount
  BY <1>3, <1>5, <1>7
<1> QED
  BY <1>3, <1>7, <1>8 DEF ShardIndexFor, Shards, d, q, h, N

\* The smaller of two numbers is one of them.
LEMMA MinOfTwo ==
    ASSUME NEW a \in Nat, NEW b \in Nat
    PROVE  Min({a, b}) \in {a, b}
BY DEF Min

\* The larger of two numbers is one of them.
LEMMA MaxOfTwo ==
    ASSUME NEW a \in Nat, NEW b \in Nat
    PROVE  Max({a, b}) \in {a, b}
BY DEF Max

\* A shard's slice of the limit is a number of bytes.
LEMMA SliceType ==
    ASSUME NEW bytes \in Nat
    PROVE  SliceOf(bytes) \in Nat
<1>1. bytes \div ShardCount \in Nat
  BY ShardsAssumption
<1> QED
  BY <1>1, MaxOfTwo DEF SliceOf

-----------------------------------------------------------------------------
(* Eviction.                                                               *)

\* Of two keys the newer has the smaller run of keys up to it.
LEMMA UpToNested ==
    ASSUME NEW m \in Maps, NEW a \in Stored(m), NEW b \in Stored(m)
    PROVE  UpTo(m, a) \subseteq UpTo(m, b) \/ UpTo(m, b) \subseteq UpTo(m, a)
<1>1. Orders(m.newer, Stored(m))
  BY MapFacts, Zenon
<1> QED
  BY <1>1, ZenonT(40) DEF Orders, UpTo

\* evictToFit keeps a run of recent keys at which its loop stops: what is left fits
\* the limit or is at most one entry.  It is the key k that is kept if no key is
\* newer than k.
LEMMA EvictionSettles ==
    ASSUME NEW m \in Maps, NEW limit \in Nat
    PROVE  \E S \in SUBSET Stored(m) :
              /\ EvictToFit(m, limit) = Only(m, S)
              /\ limit = 0 => S = Stored(m)
              /\ limit # 0 =>
                    MemoryUsage(Only(m, S)) <= limit \/ Size(Only(m, S)) <= 1
              /\ \A k \in Stored(m) : (\A x : <<x, k>> \notin m.newer) => k \in S
<1>1. CASE limit = 0
  <2>1. Only(m, Stored(m)) = m
    BY OnlyAll, Zenon
  <2> QED BY <1>1, <2>1, Zenon DEF EvictToFit
<1>2. CASE limit # 0
  <2> DEFINE C == {x \in Stored(m) : Settled(m, UpTo(m, x), limit)}
             S == UNION {UpTo(m, k) : k \in C}
  <2>1. EvictToFit(m, limit) = Only(m, S)
    BY <1>2, Zenon DEF EvictToFit
  <2>2. S \in SUBSET Stored(m)
    BY Zenon DEF UpTo
  <2>3. \A k \in Stored(m) : (\A x : <<x, k>> \notin m.newer) => k \in S
    <3> SUFFICES ASSUME NEW k \in Stored(m), \A x : <<x, k>> \notin m.newer
                 PROVE  k \in S
      BY Zenon
    <3>1. UpTo(m, k) = {k}
      BY Zenon DEF UpTo
    <3>2. Cardinality({k}) = 1
      BY FS_Singleton, Zenon
    <3>3. k \in C
      BY <3>1, <3>2 DEF Settled
    <3> QED BY <3>1, <3>3, Zenon
  <2>4. MemoryUsage(Only(m, S)) <= limit \/ Size(Only(m, S)) <= 1
    <3>1. CASE C = {}
      <4>1. S = {}
        BY <3>1, Zenon
      <4> HIDE DEF S
      <4>2. Stored(Only(m, S)) = {}
        BY <4>1, OnlyKeys
      <4> QED BY <4>2, FS_EmptySet DEF Size
    <3>2. CASE C # {}
      <4> DEFINE n(x) == Cardinality(UpTo(m, x))
                 N == Size(m)
                 B == {N - n(x) : x \in C}
      <4>1. \A x \in C : /\ UpTo(m, x) \in SUBSET Stored(m) /\ IsFiniteSet(UpTo(m, x))
                         /\ n(x) \in Nat /\ n(x) <= N /\ N \in Nat
        <5> SUFFICES ASSUME NEW x \in C
                     PROVE  /\ UpTo(m, x) \in SUBSET Stored(m) /\ IsFiniteSet(UpTo(m, x))
                            /\ n(x) \in Nat /\ n(x) <= N /\ N \in Nat
          BY Zenon
        <5>1. UpTo(m, x) \in SUBSET Stored(m)
          BY Zenon DEF UpTo
        <5> QED BY <5>1, MapFacts, FS_Subset, FS_CardinalityType, Zenon DEF Size
      <4>2. B \in SUBSET Nat /\ B # {}
        BY <3>2, <4>1
      <4>3. PICK b \in B : \A c \in B : b <= c
        <5> HIDE DEF B
        <5> QED BY <4>2, LeastNat, Zenon
      <4>4. PICK a \in C : b = N - n(a)
        BY <4>3, Zenon
      <4>5. \A x \in C : n(x) <= n(a)
        <5>1. \A x \in C : N - n(a) <= N - n(x)
          BY <4>3, <4>4, Zenon
        <5> QED BY <4>1, <5>1
      <4>6. \A x \in C : UpTo(m, x) \subseteq UpTo(m, a)
        <5> SUFFICES ASSUME NEW x \in C, ~(UpTo(m, x) \subseteq UpTo(m, a))
                     PROVE  FALSE
          BY Zenon
        <5>1. UpTo(m, a) \subseteq UpTo(m, x)
          BY UpToNested, Zenon
        <5>2. IsFiniteSet(UpTo(m, x)) /\ UpTo(m, a) \in SUBSET UpTo(m, x)
          BY <4>1, <5>1, Zenon
        <5>3. n(a) <= n(x) /\ (n(x) = n(a) => UpTo(m, x) = UpTo(m, a))
          BY <5>2, FS_Subset, Zenon
        <5> QED BY <4>1, <4>5, <5>3
      <4>7. S = UpTo(m, a)
        BY <4>6, Zenon
      <4>8. MemoryUsage(Only(m, S)) <= limit \/ Cardinality(S) <= 1
        BY <4>7, Zenon DEF Settled
      <4>9. Stored(Only(m, S)) = S
        BY <2>2, OnlyKeys
      <4> HIDE DEF S
      <4> QED BY <4>8, <4>9, Zenon DEF Size
    <3> QED BY <3>1, <3>2, Zenon
  <2> HIDE DEF S
  <2> QED BY <1>2, <2>1, <2>2, <2>3, <2>4, Zenon
<1> QED
  BY <1>1, <1>2, Zenon

-----------------------------------------------------------------------------
(* What a critical section does to its shard.                              *)

\* The keys in lost go and nothing else changes.
Shrinks(old, new, lost) ==
    /\ lost \subseteq Stored(old)
    /\ Stored(new) = Stored(old) \ lost
    /\ \A k \in Stored(new) : new.data[k] = old.data[k]

\* k is given the entry e, the keys in lost go and nothing else changes.
Writes(old, new, k, e, lost) ==
    /\ lost \subseteq Stored(old) \ {k}
    /\ Stored(new) = (Stored(old) \ lost) \cup {k}
    /\ new.data[k] = e
    /\ \A x \in Stored(new) \ {k} : new.data[x] = old.data[x]

\* Only shard s may differ, and what it holds still belongs there.
TouchesOnly(sh, new, s) ==
    /\ Placed(new)
    /\ \A x \in Shards \ {s} : new[x] = sh[x]

\* Keeping some keys loses the others and changes none.
LEMMA OnlyShrinks ==
    ASSUME NEW m \in Maps, NEW S \in SUBSET Stored(m)
    PROVE  Only(m, S) \in Maps /\ Shrinks(m, Only(m, S), Stored(m) \ S)
<1>1. Stored(Only(m, S)) = S
  BY OnlyKeys, Zenon
<1> QED
  BY <1>1, OnlyKeys DEF Shrinks

\* The table a critical section finds in its shard.
LEMMA TableOfShard ==
    ASSUME Placed(shard), NEW s \in Shards
    PROVE  /\ shard[s].table \in Maps /\ shard[s].sweepCursor \in Nat
           /\ shard[s].maxMemoryBytes \in Nat
           /\ \A k \in Stored(shard[s].table) : k \in Keys /\ ShardIndexFor(k) = s
<1>1. shard[s] \in [table : Maps, sweepCursor : Nat, maxMemoryBytes : Nat]
  BY Zenon DEF Placed
<1>2. \A k \in Stored(shard[s].table) : k \in Keys /\ ShardIndexFor(k) = s
  BY <1>1, MapFacts, Zenon DEF Placed
<1> QED
  BY <1>1, <1>2, Zenon

\* The table it leaves there.
WithTable(sh, s, m) == [sh EXCEPT ![s].table = m]

\* A critical section that stores another table touches its own shard only.
LEMMA TableReplaced ==
    ASSUME NEW sh, Placed(sh), NEW s \in Shards, NEW m \in Maps,
           \A k \in Stored(m) : ShardIndexFor(k) = s
    PROVE  /\ TouchesOnly(sh, WithTable(sh, s, m), s)
           /\ WithTable(sh, s, m)[s].table = m
           /\ WithTable(sh, s, m)[s].maxMemoryBytes = sh[s].maxMemoryBytes
<1> DEFINE new == WithTable(sh, s, m)
<1>1. /\ new \in [Shards -> [table : Maps, sweepCursor : Nat, maxMemoryBytes : Nat]]
      /\ new[s].table = m /\ new[s].maxMemoryBytes = sh[s].maxMemoryBytes
      /\ \A x \in Shards \ {s} : new[x] = sh[x]
  BY Zenon DEF Placed, WithTable
<1> QED
  BY <1>1, Zenon DEF TouchesOnly, Placed

\* What sweepExpired makes of the shards when it has cleaned buckets of shard s.
SweptTo(sh, s, m, c) == [sh EXCEPT ![s].table = m, ![s].sweepCursor = c]
MovedTo(sh, s, c) == [sh EXCEPT ![s].sweepCursor = c]

\* Shard s of new has the table m and the limit it has in sh; the other shards are those of sh.
OneTable(sh, new, s, m) ==
    /\ new \in [Shards -> [table : Maps, sweepCursor : Nat, maxMemoryBytes : Nat]]
    /\ new[s].table = m /\ new[s].maxMemoryBytes = sh[s].maxMemoryBytes
    /\ \A x \in Shards \ {s} : new[x] = sh[x]

\* Moving a shard's cursor leaves its table and its limit.
LEMMA CursorMoved ==
    ASSUME NEW sh \in [Shards -> [table : Maps, sweepCursor : Nat, maxMemoryBytes : Nat]],
           NEW s \in Shards, NEW c \in Nat
    PROVE  OneTable(sh, MovedTo(sh, s, c), s, sh[s].table)
BY ZenonT(40) DEF OneTable, MovedTo

\* A sweep stores another table and the cursor in its own shard only.
LEMMA SweptPlace ==
    ASSUME NEW sh, Placed(sh), NEW s \in Shards, NEW m \in Maps, NEW c \in Nat
    PROVE  OneTable(sh, SweptTo(sh, s, m, c), s, m)
<1> DEFINE mid == WithTable(sh, s, m)
<1>1. OneTable(sh, mid, s, m)
  BY Zenon DEF Placed, WithTable, OneTable
<1>2. SweptTo(sh, s, m, c) = MovedTo(mid, s, c)
  BY Zenon DEF SweptTo, MovedTo, WithTable
<1> HIDE DEF mid
<1>3. mid \in [Shards -> [table : Maps, sweepCursor : Nat, maxMemoryBytes : Nat]]
  BY <1>1, Zenon DEF OneTable
<1>4. OneTable(mid, MovedTo(mid, s, c), s, mid[s].table)
  BY <1>3, CursorMoved, Zenon
<1> QED BY <1>1, <1>2, <1>4, Zenon DEF OneTable

EntryFor(v, ttl) ==
    [value |-> v, expiration |-> IF ttl = 0 THEN NoExpiration ELSE now + ttl]

\* The put and the expiration of set write one entry and make its key the newest.
LEMMA WrittenKeys ==
    ASSUME NEW m \in Maps, NEW k \in Keys, NEW v \in Values, NEW ttl \in Nat, now \in Nat
    PROVE  /\ Written(m, k, v, ttl) \in Maps
           /\ Writes(m, Written(m, k, v, ttl), k, EntryFor(v, ttl), {})
           /\ \A x : <<x, k>> \notin Written(m, k, v, ttl).newer
<1> DEFINE p == Put(m, k, v)
<1>1. /\ p \in Maps /\ Stored(p) = Stored(m) \cup {k}
      /\ p.data[k] = [value |-> v, expiration |-> NoExpiration]
      /\ \A x \in Stored(m) \ {k} : p.data[x] = m.data[x]
      /\ \A x : <<x, k>> \notin p.newer
  BY PutKeys, ZenonT(40)
<1> HIDE DEF p
<1>2. CASE ttl = 0
  <2>1. Written(m, k, v, ttl) = p
    BY <1>2, Zenon DEF Written, p
  <2> QED BY <1>1, <1>2, <2>1, Zenon DEF Writes, EntryFor
<1>3. CASE ttl # 0
  <2>1. Written(m, k, v, ttl) = Expire(p, k, now + ttl)
    BY <1>3, Zenon DEF Written, p
  <2>2. k \in Stored(p) /\ now + ttl \in Int
    BY <1>1
  <2> DEFINE x == Expire(p, k, now + ttl)
  <2>3. /\ x \in Maps /\ Stored(x) = Stored(p) /\ x.newer = p.newer
        /\ x.data[k] = [value |-> p.data[k].value, expiration |-> now + ttl]
        /\ \A y \in Stored(p) \ {k} : x.data[y] = p.data[y]
    BY <1>1, <2>2, ExpireKeys
  <2> HIDE DEF x
  <2>4. /\ x \in Maps /\ Writes(m, x, k, EntryFor(v, ttl), {})
        /\ \A y : <<y, k>> \notin x.newer
    BY <1>1, <1>3, <2>3 DEF Writes, EntryFor
  <2> QED BY <2>1, <2>4, Zenon DEF x
<1> QED
  BY <1>2, <1>3, Zenon

\* set: the entry is stored whatever had to be evicted for it, only a limited shard
\* loses others, and it ends up within its slice.
LEMMA SetEntryStep ==
    ASSUME TypeOK, NEW k \in Keys, NEW v \in Values, NEW ttl \in Nat, SetEntry(k, v, ttl),
           NEW s, s = ShardIndexFor(k)
    PROVE  /\ s \in Shards
           /\ TouchesOnly(shard, shard', s)
           /\ shard'[s].maxMemoryBytes = shard[s].maxMemoryBytes
           /\ \E lost : /\ lost # {} => shard[s].maxMemoryBytes # 0
                        /\ Writes(shard[s].table, shard'[s].table, k, EntryFor(v, ttl), lost)
           /\ shard[s].maxMemoryBytes # 0 =>
                 \/ MemoryUsage(shard'[s].table) <= shard[s].maxMemoryBytes
                 \/ Size(shard'[s].table) <= 1
<1> DEFINE old == shard[s].table
           lim == shard[s].maxMemoryBytes
           m == Written(old, k, v, ttl)
           new == EvictToFit(m, lim)
<1>1. s \in Shards /\ Placed(shard) /\ now \in Nat
  BY ShardInRange, Zenon DEF TypeOK
<1>2. old \in Maps /\ lim \in Nat /\ shard[s].sweepCursor \in Nat
  BY <1>1, TableOfShard, Zenon
<1>3. /\ m \in Maps /\ Writes(old, m, k, EntryFor(v, ttl), {})
      /\ \A x : <<x, k>> \notin m.newer
  BY <1>1, <1>2, WrittenKeys, Zenon
<1>4. shard' = WithTable(shard, s, new)
  BY Zenon DEF SetEntry, WithTable
<1> HIDE DEF m, new, lim
<1>5. PICK S \in SUBSET Stored(m) :
          /\ new = Only(m, S)
          /\ lim = 0 => S = Stored(m)
          /\ lim # 0 => MemoryUsage(Only(m, S)) <= lim \/ Size(Only(m, S)) <= 1
          /\ \A x \in Stored(m) : (\A y : <<y, x>> \notin m.newer) => x \in S
  BY <1>2, <1>3, EvictionSettles, Zenon DEF new
<1>6. new \in Maps /\ Shrinks(m, new, Stored(m) \ S)
  BY <1>3, <1>5, OnlyShrinks, Zenon
<1>7. k \in S
  BY <1>3, <1>5, Zenon DEF Writes
<1>8. Writes(old, new, k, EntryFor(v, ttl), Stored(m) \ S)
  BY <1>3, <1>6, <1>7, ZenonT(40) DEF Writes, Shrinks
<1>9. \A x \in Stored(new) : ShardIndexFor(x) = s
  BY <1>1, <1>8, TableOfShard, Zenon DEF Writes
<1>10. TouchesOnly(shard, shard', s) /\ shard'[s].table = new /\ shard'[s].maxMemoryBytes = lim
  BY <1>1, <1>4, <1>6, <1>9, TableReplaced DEF lim
<1> QED
  BY <1>1, <1>5, <1>8, <1>10, Zenon DEF lim

Lighter(old, new) == MemoryUsage(new) <= MemoryUsage(old) /\ Size(new) <= Size(old)

\* Losing entries makes a table no heavier.
LEMMA OnlyLightens ==
    ASSUME NEW m \in Maps, NEW S \in SUBSET Stored(m)
    PROVE  Lighter(m, Only(m, S))
<1>1. Stored(Only(m, S)) = S
  BY OnlyKeys, Zenon
<1>2. Cardinality(S) <= Cardinality(Stored(m))
  BY MapFacts, FS_Subset, Zenon
<1> QED
  BY <1>1, <1>2, OnlyIsLighter, Zenon DEF Lighter, Size

\* A get that promotes its key changes no entry and no total.
LEMMA GetStep ==
    ASSUME TypeOK, NEW k \in Keys, Get(k), NEW s, s = ShardIndexFor(k)
    PROVE  /\ s \in Shards
           /\ TouchesOnly(shard, shard', s)
           /\ shard'[s].maxMemoryBytes = shard[s].maxMemoryBytes
           /\ Shrinks(shard[s].table, shard'[s].table, {})
           /\ Lighter(shard[s].table, shard'[s].table)
<1> DEFINE old == shard[s].table
           new == ToFront(old, k)
<1>1. s \in Shards /\ Placed(shard)
  BY ShardInRange, Zenon DEF TypeOK
<1>2. old \in Maps /\ k \in Stored(old) /\ MemoryUsage(old) \in Nat /\ Size(old) \in Nat
  BY <1>1, TableOfShard, UsageType, MapFacts, Zenon DEF Get
<1>3. shard' = WithTable(shard, s, new)
  BY <1>2, Zenon DEF Get, Touch, WithTable
<1>4. new \in Maps /\ new.data = old.data /\ MemoryUsage(new) = MemoryUsage(old)
  BY <1>2, FrontKeys, FrontWeighsTheSame, Zenon
<1> HIDE DEF new
<1>5. Stored(new) = Stored(old)
  BY <1>4, Zenon DEF Stored
<1>6. \A x \in Stored(new) : ShardIndexFor(x) = s
  BY <1>1, <1>5, TableOfShard, Zenon
<1>7. /\ TouchesOnly(shard, shard', s) /\ shard'[s].table = new
      /\ shard'[s].maxMemoryBytes = shard[s].maxMemoryBytes
  BY <1>1, <1>3, <1>4, <1>6, TableReplaced, ZenonT(40)
<1> QED
  BY <1>1, <1>2, <1>4, <1>5, <1>7 DEF Shrinks, Lighter, Size

\* del takes its key and nothing else.
LEMMA DelStep ==
    ASSUME TypeOK, NEW k \in Keys, Del(k), NEW s, s = ShardIndexFor(k)
    PROVE  /\ s \in Shards
           /\ TouchesOnly(shard, shard', s)
           /\ shard'[s].maxMemoryBytes = shard[s].maxMemoryBytes
           /\ Shrinks(shard[s].table, shard'[s].table, {k})
           /\ Lighter(shard[s].table, shard'[s].table)
<1> DEFINE old == shard[s].table
           S == Stored(old) \ {k}
           new == Only(old, S)
<1>1. s \in Shards /\ Placed(shard)
  BY ShardInRange, Zenon DEF TypeOK
<1>2. old \in Maps /\ k \in Stored(old)
  BY <1>1, TableOfShard, Zenon DEF Del
<1>3. shard' = WithTable(shard, s, new)
  BY Zenon DEF Del, Erase, WithTable
<1>4. new \in Maps /\ Shrinks(old, new, Stored(old) \ S) /\ Lighter(old, new)
  BY <1>2, OnlyShrinks, OnlyLightens, Zenon
<1>5. Stored(old) \ S = {k}
  BY <1>2, Zenon
<1> HIDE DEF new, S
<1>6. \A x \in Stored(new) : ShardIndexFor(x) = s
  BY <1>1, <1>4, TableOfShard, Zenon DEF Shrinks
<1>7. /\ TouchesOnly(shard, shard', s) /\ shard'[s].table = new
      /\ shard'[s].maxMemoryBytes = shard[s].maxMemoryBytes
  BY <1>1, <1>3, <1>4, <1>6, TableReplaced
<1> QED
  BY <1>1, <1>4, <1>5, <1>7, Zenon

\* A sweep takes entries that have expired, and no other.
LEMMA SweepStep ==
    ASSUME TypeOK, NEW w \in Walkers, SweepShard(w), NEW s, s = walk[w].at
    PROVE  /\ s \in Shards
           /\ TouchesOnly(shard, shard', s)
           /\ shard'[s].maxMemoryBytes = shard[s].maxMemoryBytes
           /\ \E lost : /\ lost \subseteq Stored(shard[s].table) \ LiveIn(shard[s].table)
                        /\ Shrinks(shard[s].table, shard'[s].table, lost)
           /\ Lighter(shard[s].table, shard'[s].table)
<1> DEFINE old == shard[s].table
           first == IF shard[s].sweepCursor >= old.buckets THEN 0 ELSE shard[s].sweepCursor
           count == Min({PerShardBuckets, old.buckets})
           c == (first + count) % old.buckets
           new == RemoveIf(old, first, count, Stored(old) \ LiveIn(old))
<1>1. s \in Shards /\ Placed(shard)
  BY Zenon DEF TypeOK, SweepShard, AtShard
<1>2. old \in Maps /\ shard[s].sweepCursor \in Nat /\ old.buckets \in Nat
  BY <1>1, TableOfShard, MapFacts, Zenon
<1>3. CASE old.buckets = 0
  <2>1. shard' = shard
    BY <1>3, Zenon DEF SweepShard
  <2>2. MemoryUsage(old) \in Nat /\ Size(old) \in Nat
    BY <1>2, UsageType, MapFacts, Zenon
  <2>3. Shrinks(old, old, {}) /\ Lighter(old, old)
    BY <2>2 DEF Shrinks, Lighter
  <2>4. TouchesOnly(shard, shard, s)
    BY <1>1, Zenon DEF TouchesOnly
  <2> HIDE DEF old
  <2>5. {} \subseteq Stored(old) \ LiveIn(old)
    BY Zenon
  <2> QED BY <1>1, <2>1, <2>3, <2>4, <2>5, Zenon DEF old
<1>4. CASE old.buckets # 0
  <2>1. c \in Nat
    <3>1. MaxBuckets \div ShardCount \in Nat
      BY ShardsAssumption, InputsAssumption
    <3>2. PerShardBuckets \in Nat
      BY <3>1, MaxOfTwo DEF PerShardBuckets
    <3>3. first \in Nat /\ count \in Nat
      BY <1>2, <3>2, MinOfTwo, ZenonT(40)
    <3> HIDE DEF first, count
    <3> QED BY <1>2, <1>4, <3>3
  <2>2. PICK S \in SUBSET Stored(old) :
            new = Only(old, S) /\ Stored(old) \ (Stored(old) \ LiveIn(old)) \subseteq S
    BY <1>2, RemoveIfKeys
  <2>3. new \in Maps /\ Shrinks(old, new, Stored(old) \ S) /\ Lighter(old, new)
    BY <1>2, <2>2, OnlyShrinks, OnlyLightens, Zenon
  <2>4. shard' = [shard EXCEPT ![s].table = new, ![s].sweepCursor = c]
    BY <1>4, Zenon DEF SweepShard
  <2> HIDE DEF new, c
  <2>5. \A x \in Stored(new) : ShardIndexFor(x) = s
    BY <1>1, <2>3, TableOfShard, ZenonT(40) DEF Shrinks
  <2>6. /\ shard' \in [Shards -> [table : Maps, sweepCursor : Nat, maxMemoryBytes : Nat]]
        /\ shard'[s].table = new /\ shard'[s].maxMemoryBytes = shard[s].maxMemoryBytes
        /\ \A x \in Shards \ {s} : shard'[x] = shard[x]
    <3>1. shard' = SweptTo(shard, s, new, c)
      BY <2>4, Zenon DEF SweptTo
    <3>2. OneTable(shard, SweptTo(shard, s, new, c), s, new)
      BY <1>1, <2>1, <2>3, SweptPlace, Zenon
    <3> QED BY <3>1, <3>2, Zenon DEF OneTable
  <2>7. TouchesOnly(shard, shard', s)
    BY <1>1, <2>5, <2>6, Zenon DEF TouchesOnly, Placed
  <2> QED BY <1>1, <2>2, <2>3, <2>6, <2>7, ZenonT(40)
<1> QED
  BY <1>2, <1>3, <1>4, Zenon

\* setMaxMemory in one shard: its slice is stored and the shard is within it.
LEMMA LimitStep ==
    ASSUME TypeOK, NEW w \in Walkers, LimitShard(w), NEW s, s = walk[w].at
    PROVE  /\ s \in Shards
           /\ TouchesOnly(shard, shard', s)
           /\ \E lost : /\ lost # {} => shard'[s].maxMemoryBytes # 0
                        /\ Shrinks(shard[s].table, shard'[s].table, lost)
           /\ shard'[s].maxMemoryBytes # 0 =>
                 \/ MemoryUsage(shard'[s].table) <= shard'[s].maxMemoryBytes
                 \/ Size(shard'[s].table) <= 1
<1> DEFINE old == shard[s].table
           slice == SliceOf(walk[w].limit)
           new == EvictToFit(old, slice)
<1>1. s \in Shards /\ Placed(shard) /\ walk[w].limit \in Nat
  BY Zenon DEF TypeOK, WalksTyped, LimitShard, AtShard
<1>2. old \in Maps /\ slice \in Nat
  BY <1>1, TableOfShard, SliceType, Zenon
<1>3. shard' = [shard EXCEPT ![s].maxMemoryBytes = slice, ![s].table = new]
  BY <1>1, Zenon DEF LimitShard, Placed
<1> HIDE DEF slice
<1>4. PICK S \in SUBSET Stored(old) :
          /\ new = Only(old, S)
          /\ slice = 0 => S = Stored(old)
          /\ slice # 0 => MemoryUsage(Only(old, S)) <= slice \/ Size(Only(old, S)) <= 1
  BY <1>2, EvictionSettles, Zenon
<1>5. new \in Maps /\ Shrinks(old, new, Stored(old) \ S)
  BY <1>2, <1>4, OnlyShrinks, Zenon
<1> HIDE DEF new
<1>6. \A x \in Stored(new) : ShardIndexFor(x) = s
  BY <1>1, <1>5, TableOfShard, ZenonT(40) DEF Shrinks
<1>7. /\ shard' \in [Shards -> [table : Maps, sweepCursor : Nat, maxMemoryBytes : Nat]]
      /\ shard'[s].table = new /\ shard'[s].maxMemoryBytes = slice
      /\ \A x \in Shards \ {s} : shard'[x] = shard[x]
  BY <1>1, <1>2, <1>3, <1>5 DEF Placed
<1>8. TouchesOnly(shard, shard', s)
  BY <1>1, <1>6, <1>7, Zenon DEF TouchesOnly, Placed
<1> QED
  BY <1>1, <1>4, <1>5, <1>7, <1>8, Zenon

\* clear() takes everything the shard holds.
LEMMA ClearStep ==
    ASSUME TypeOK, NEW w \in Walkers, ClearShard(w), NEW s, s = walk[w].at
    PROVE  /\ s \in Shards
           /\ TouchesOnly(shard, shard', s)
           /\ shard'[s].maxMemoryBytes = shard[s].maxMemoryBytes
           /\ Shrinks(shard[s].table, shard'[s].table, Stored(shard[s].table))
           /\ Lighter(shard[s].table, shard'[s].table)
<1> DEFINE old == shard[s].table
           new == EmptyMap(old.buckets)
<1>1. s \in Shards /\ Placed(shard)
  BY Zenon DEF TypeOK, ClearShard, AtShard
<1>2. old \in Maps /\ old.buckets \in Nat
  BY <1>1, TableOfShard, MapFacts, Zenon
<1>3. shard' = [shard EXCEPT ![s].table = new, ![s].sweepCursor = 0]
  BY Zenon DEF ClearShard, Emptied, Clear
<1>4. new \in Maps /\ Stored(new) = {}
  BY <1>2, EmptyKeys, Zenon
<1>5. Lighter(old, new)
  <2>1. MemoryUsage(new) <= MemoryUsage(old)
    BY <1>2, EmptyIsLighter, Zenon
  <2>2. Size(new) = 0 /\ Size(old) \in Nat
    BY <1>2, <1>4, FS_EmptySet, MapFacts, Zenon DEF Size
  <2> QED BY <2>1, <2>2 DEF Lighter
<1> HIDE DEF new
<1>6. /\ shard' \in [Shards -> [table : Maps, sweepCursor : Nat, maxMemoryBytes : Nat]]
      /\ shard'[s].table = new /\ shard'[s].maxMemoryBytes = shard[s].maxMemoryBytes
      /\ \A x \in Shards \ {s} : shard'[x] = shard[x]
  BY <1>1, <1>3, <1>4, ZenonT(40) DEF Placed
<1>7. TouchesOnly(shard, shard', s)
  BY <1>1, <1>4, <1>6, Zenon DEF TouchesOnly, Placed
<1> QED
  BY <1>1, <1>4, <1>5, <1>6, <1>7, Zenon DEF Shrinks

\* The next entry of a backup, and the rest.
LEMMA SeqParts ==
    ASSUME NEW E, NEW q \in Seq(E), q # <<>>
    PROVE  Head(q) \in E /\ Tail(q) \in Seq(E)
OBVIOUS

\* restore stores an entry as it is in the backup and evicts nothing.
LEMMA RestoreStep ==
    ASSUME TypeOK, NEW w \in Walkers, RestoreEntry(w),
           NEW e, e = Head(walk[w].todo), NEW s, s = ShardIndexFor(e.key)
    PROVE  /\ s \in Shards /\ e.key \in Keys /\ e.entry \in Entries
           /\ walk[w].todo # <<>> /\ Tail(walk[w].todo) \in Seq(Rows)
           /\ TouchesOnly(shard, shard', s)
           /\ shard'[s].maxMemoryBytes = shard[s].maxMemoryBytes
           /\ \/ shard' = shard /\ untrimmed' = untrimmed
              \/ /\ Writes(shard[s].table, shard'[s].table, e.key, e.entry, {})
                 /\ untrimmed' = untrimmed \cup {s}
<1> DEFINE old == shard[s].table
           k == e.key
           v == e.entry.value
           at == e.entry.expiration
           p == Put(old, k, v)
           new == IF at = NoExpiration THEN p ELSE Expire(p, k, at)
<1>1. /\ walk[w].todo \in Seq(Rows) /\ walk[w].todo # <<>>
      /\ Placed(shard)
  BY Zenon DEF TypeOK, WalksTyped, RestoreEntry
<1>2. e \in Rows /\ Tail(walk[w].todo) \in Seq(Rows)
  BY <1>1, SeqParts, Zenon
<1>3. e.key \in Keys /\ e.entry \in Entries /\ s \in Shards
  BY <1>2, ShardInRange, Zenon DEF Rows
<1>4. e.entry.value \in Values /\ e.entry.expiration \in Int
      /\ e.entry = [value |-> e.entry.value, expiration |-> e.entry.expiration]
  BY <1>3, Zenon DEF Entries
<1>5. old \in Maps
  BY <1>1, <1>3, TableOfShard, Zenon
<1>6. CASE IsExpiredAt(e.entry, walk[w].clock)
  <2>1. shard' = shard /\ untrimmed' = untrimmed
    BY <1>6, Zenon DEF RestoreEntry
  <2> QED BY <1>1, <1>2, <1>3, <2>1, Zenon DEF TouchesOnly
<1>7. CASE ~IsExpiredAt(e.entry, walk[w].clock)
  <2>1. shard' = WithTable(shard, s, new) /\ untrimmed' = untrimmed \cup {s}
    BY <1>7, ZenonT(40) DEF RestoreEntry, WithTable
  <2>2. k \in Keys /\ v \in Values /\ at \in Int /\ e.entry = [value |-> v, expiration |-> at]
    BY <1>3, <1>4, Zenon
  <2> HIDE DEF k, v, at, old
  <2>3. /\ p \in Maps /\ Stored(p) = Stored(old) \cup {k}
        /\ p.data[k] = [value |-> v, expiration |-> NoExpiration]
        /\ \A x \in Stored(old) \ {k} : p.data[x] = old.data[x]
    BY <1>5, <2>2, PutKeys, ZenonT(40)
  <2> HIDE DEF p
  <2>4. new \in Maps /\ Writes(old, new, k, e.entry, {})
    <3>1. CASE at = NoExpiration
      <4>1. new = p
        BY <3>1, Zenon
      <4> QED BY <2>2, <2>3, <3>1, <4>1, Zenon DEF Writes
    <3>2. CASE at # NoExpiration
      <4> DEFINE x == Expire(p, k, at)
      <4>1. k \in Stored(p)
        BY <2>3, Zenon
      <4>2. /\ x \in Maps /\ Stored(x) = Stored(p)
            /\ x.data[k] = [value |-> p.data[k].value, expiration |-> at]
            /\ \A y \in Stored(p) \ {k} : x.data[y] = p.data[y]
        BY <2>2, <2>3, <4>1, ExpireKeys
      <4>3. new = x
        BY <3>2, Zenon
      <4> HIDE DEF x, new
      <4> QED BY <2>2, <2>3, <4>2, <4>3 DEF Writes
    <3> QED BY <3>1, <3>2, Zenon
  <2> HIDE DEF new
  <2>5. \A x \in Stored(new) : ShardIndexFor(x) = s
    BY <1>1, <1>3, <2>4, TableOfShard, Zenon DEF Writes, k, old
  <2>6. /\ TouchesOnly(shard, WithTable(shard, s, new), s)
        /\ WithTable(shard, s, new)[s].table = new
        /\ WithTable(shard, s, new)[s].maxMemoryBytes = shard[s].maxMemoryBytes
    BY <1>1, <1>3, <2>4, <2>5, TableReplaced, ZenonT(40)
  <2>7. /\ TouchesOnly(shard, shard', s) /\ shard'[s].table = new
        /\ shard'[s].maxMemoryBytes = shard[s].maxMemoryBytes
    BY <2>1, <2>6, Zenon
  <2> QED BY <1>1, <1>2, <1>3, <2>1, <2>4, <2>7, Zenon DEF k, old
<1> QED
  BY <1>6, <1>7, Zenon

-----------------------------------------------------------------------------
(* Every step keeps the types and keeps each key in its own shard.         *)

\* The keys of m that are live at time t, and LiveEntries as a function of the state.
LiveAt(m, t) == {k \in Stored(m) : ~IsExpiredAt(m.data[k], t)}
LiveOf(sh, t) ==
    UNION {{<<k, sh[s].table.data[k]>> : k \in LiveAt(sh[s].table, t)} : s \in Shards}

\* LiveEntries before and after a step.
LEMMA LiveIs ==
    LiveEntries = LiveOf(shard, now) /\ LiveEntries' = LiveOf(shard', now')
BY Zenon DEF LiveEntries, LiveOf, LiveIn, LiveAt, Shards, Stored, IsExpiredAt

\* The live entries of well-formed shards.
LEMMA LiveTyped ==
    ASSUME NEW sh, Placed(sh), NEW t
    PROVE  LiveOf(sh, t) \in SUBSET (Keys \X Entries)
<1> SUFFICES ASSUME NEW s \in Shards, NEW k \in LiveAt(sh[s].table, t)
             PROVE  <<k, sh[s].table.data[k]>> \in Keys \X Entries
  BY DEF LiveOf
<1>1. sh[s].table \in Maps /\ k \in Stored(sh[s].table)
  BY Zenon DEF LiveAt, Placed
<1> QED
  BY <1>1, MapFacts, Zenon

\* The history variable keeps keys and entries.
LEMMA ObserveTyped ==
    ASSUME SeenTyped, Observe, LiveEntries' \in SUBSET (Keys \X Entries)
    PROVE  SeenTyped'
<1> DEFINE live == LiveEntries'
<1>1. KeysOf(live) \in SUBSET Keys
  BY Zenon DEF KeysOf
<1>2. NothingSeen \in [always : SUBSET Keys, ever : SUBSET (Keys \X Entries)]
  BY Zenon DEF NothingSeen
<1> HIDE DEF live
<1>3. live \in SUBSET (Keys \X Entries)
  BY Zenon DEF live
<1> DEFINE Next1(w) ==
             LET called == walk[w].op = "idle"
             IN  CASE walk'[w].op = "snapshot" ->
                       [always |-> IF called THEN KeysOf(live)
                                   ELSE seen[w].always \cap KeysOf(live),
                        ever |-> seen[w].ever \cup live]
                  [] walk'[w].op \in {"clear", "restore"} ->
                       [always |-> IF called THEN KeysOf(live)
                                   ELSE seen[w].always \cap KeysOf(live),
                        ever |-> {}]
                  [] OTHER -> NothingSeen
<1>4. seen' = [w \in Walkers |-> Next1(w)]
  BY Zenon DEF Observe, live
<1>5. \A w \in Walkers : Next1(w) \in [always : SUBSET Keys, ever : SUBSET (Keys \X Entries)]
  <2> SUFFICES ASSUME NEW w \in Walkers
               PROVE  Next1(w) \in [always : SUBSET Keys, ever : SUBSET (Keys \X Entries)]
    BY Zenon
  <2>1. seen[w].always \in SUBSET Keys /\ seen[w].ever \in SUBSET (Keys \X Entries)
    BY Zenon DEF SeenTyped
  <2> QED BY <1>1, <1>2, <1>3, <2>1, Zenon
<1> HIDE DEF Next1
<1> QED
  BY <1>4, <1>5, Zenon DEF SeenTyped

\* The bookkeeping of a walk, whatever it does to the shards.
LEMMA WalkTyped ==
    ASSUME TypeOK, NEW w \in Walkers, Start(w) \/ Continue(w)
    PROVE  WalksTyped'
<1> DEFINE W == [op : Operations, at : 0..ShardCount, limit : Nat, todo : Seq(Rows),
                 clock : Nat, got : SUBSET (Keys \X Entries)]
<1>1. walk \in [Walkers -> W] /\ walk[w] \in W
  BY Zenon DEF TypeOK, WalksTyped
<1>2. <<>> \in Seq(Rows) /\ 0 \in 0..ShardCount
  BY ShardsAssumption
<1>3. Idle \in W
  BY <1>2, Zenon DEF Idle, Operations
<1>4. ASSUME NEW op, NEW limit \in Nat, NEW todo \in Seq(Rows), Begin(w, op, limit, todo)
      PROVE  walk' \in [Walkers -> W]
  <2>1. op \in Operations
    BY <1>4, JobsAssumption, Zenon DEF Begin, Operations
  <2> QED BY <1>1, <1>4, <2>1, Zenon DEF Begin
<1>5. CASE Start(w)
  <2>1. \A backup \in Backups : backup \in Seq(Rows)
    BY InputsAssumption, Zenon DEF Rows
  <2>2. \A bytes \in Limits : bytes \in Nat
    BY InputsAssumption, Zenon
  <2> QED BY <1>2, <1>4, <1>5, <2>1, <2>2, Zenon DEF Start, WalksTyped
<1>6. \A s \in Shards : s + 1 \in 0..ShardCount
  BY ShardsAssumption DEF Shards
<1>7. ASSUME walk[w].at \in Shards, walk' = [walk EXCEPT ![w].at = @ + 1]
      PROVE  walk' \in [Walkers -> W]
  BY <1>1, <1>6, <1>7, Zenon
<1>8. CASE Collect(w)
  <2> DEFINE m == shard[walk[w].at].table
             g == {<<k, m.data[k]>> : k \in LiveIn(m)}
  <2>1. walk[w].at \in Shards /\ Placed(shard)
    BY <1>8, Zenon DEF Collect, AtShard, TypeOK
  <2>2. m \in Maps
    BY <2>1, TableOfShard, Zenon
  <2>3. g \in SUBSET (Keys \X Entries)
    BY <2>2, MapFacts DEF LiveIn
  <2>4. walk' = [walk EXCEPT ![w].at = @ + 1, ![w].got = @ \cup g]
    BY <1>8, Zenon DEF Collect
  <2> HIDE DEF g
  <2> QED BY <1>1, <1>6, <2>1, <2>3, <2>4, Zenon DEF WalksTyped
<1>9. CASE SweepShard(w) \/ LimitShard(w) \/ ClearShard(w)
  BY <1>7, <1>9, Zenon DEF SweepShard, LimitShard, ClearShard, AtShard, WalksTyped
<1>10. CASE LimitStore(w) \/ Return(w)
  BY <1>1, <1>3, <1>10, Zenon DEF LimitStore, Return, WalksTyped
<1>11. CASE RestoreClock(w)
  BY <1>1, <1>11, Zenon DEF RestoreClock, WalksTyped, Operations, TypeOK
<1>12. CASE RestoreEntry(w)
  <2>1. Tail(walk[w].todo) \in Seq(Rows)
    BY <1>1, <1>12, SeqParts, Zenon DEF RestoreEntry
  <2> QED BY <1>1, <1>12, <2>1, Zenon DEF RestoreEntry, WalksTyped
<1> QED
  BY <1>5, <1>8, <1>9, <1>10, <1>11, <1>12, Zenon DEF Continue

\* What a step does to the shards, the limit and the clock, and that it leaves the
\* types as they are.
LEMMA TypeStep ==
    ASSUME TypeOK, [Next]_vars
    PROVE  TypeOK'
<1>1. CASE UNCHANGED vars
  <2>1. Placed(shard')
    BY <1>1, Zenon DEF TypeOK, vars
  <2> QED BY <1>1, <2>1, Zenon DEF TypeOK, vars, WalksTyped, SeenTyped, Placed
<1>2. ASSUME Observe, Placed(shard'), maxMemory' \in Nat, now' \in Nat, WalksTyped',
             untrimmed' \in SUBSET Shards
      PROVE  TypeOK'
  <2>1. Placed(shard)'
    BY <1>2, Zenon DEF Placed, Shards, ShardIndexFor, Stored
  <2>2. LiveEntries' \in SUBSET (Keys \X Entries)
    BY <1>2, LiveTyped, LiveIs, Zenon
  <2>3. SeenTyped'
    BY <1>2, <2>2, ObserveTyped, Zenon DEF TypeOK
  <2> QED BY <1>2, <2>1, <2>3, Zenon DEF TypeOK
<1>3. maxMemory \in Nat /\ now \in Nat /\ WalksTyped /\ Placed(shard) /\ untrimmed \in SUBSET Shards
  BY Zenon DEF TypeOK
<1>4. ASSUME walk' = walk PROVE WalksTyped'
  BY <1>3, <1>4, Zenon DEF WalksTyped
<1>5. ASSUME Observe, NEW k \in Keys, NEW v \in Values, NEW ttl \in Nat, SetEntry(k, v, ttl)
      PROVE  TypeOK'
  <2>1. Placed(shard')
    BY <1>5, SetEntryStep, Zenon DEF TouchesOnly
  <2> QED BY <1>2, <1>3, <1>4, <1>5, <2>1, Zenon DEF SetEntry
<1>6. ASSUME Observe, NEW k \in Keys, Get(k) PROVE TypeOK'
  <2>1. Placed(shard')
    BY <1>6, GetStep, Zenon DEF TouchesOnly
  <2> QED BY <1>2, <1>3, <1>4, <1>6, <2>1, Zenon DEF Get
<1>7. ASSUME Observe, NEW k \in Keys, Del(k) PROVE TypeOK'
  <2>1. Placed(shard')
    BY <1>7, DelStep, Zenon DEF TouchesOnly
  <2> QED BY <1>2, <1>3, <1>4, <1>7, <2>1, Zenon DEF Del
<1>8. ASSUME Observe, Tick PROVE TypeOK'
  BY <1>2, <1>3, <1>4, <1>8 DEF Tick
<1>9. ASSUME Observe, NEW w \in Walkers, Start(w) PROVE TypeOK'
  <2>1. WalksTyped'
    BY <1>9, WalkTyped, Zenon
  <2>2. UNCHANGED <<shard, maxMemory, now, untrimmed>>
    BY <1>9, Zenon DEF Start, Begin
  <2> QED BY <1>2, <1>3, <1>9, <2>1, <2>2, Zenon
<1>10. ASSUME Observe, NEW w \in Walkers, Continue(w) PROVE TypeOK'
  <2>1. WalksTyped'
    BY <1>10, WalkTyped, Zenon
  <2>2. CASE Collect(w) \/ RestoreClock(w) \/ Return(w)
    <3>1. UNCHANGED <<shard, maxMemory, now, untrimmed>>
      BY <2>2, Zenon DEF Collect, RestoreClock, Return
    <3> QED BY <1>2, <1>3, <1>10, <2>1, <3>1, Zenon
  <2>3. CASE SweepShard(w)
    <3>1. Placed(shard')
      BY <2>3, SweepStep, Zenon DEF TouchesOnly
    <3> QED BY <1>2, <1>3, <1>10, <2>1, <2>3, <3>1, ZenonT(40) DEF SweepShard
  <2>4. CASE LimitShard(w)
    <3>1. Placed(shard')
      BY <2>4, LimitStep, Zenon DEF TouchesOnly
    <3> QED BY <1>2, <1>3, <1>10, <2>1, <2>4, <3>1, Zenon DEF LimitShard
  <2>5. CASE LimitStore(w)
    BY <1>2, <1>3, <1>10, <2>1, <2>5, Zenon DEF LimitStore, WalksTyped
  <2>6. CASE ClearShard(w)
    <3>1. Placed(shard')
      BY <2>6, ClearStep, Zenon DEF TouchesOnly
    <3> QED BY <1>2, <1>3, <1>10, <2>1, <2>6, <3>1, ZenonT(40) DEF ClearShard
  <2>7. CASE RestoreEntry(w)
    <3>1. PICK s \in Shards : /\ TouchesOnly(shard, shard', s)
                              /\ untrimmed' \in {untrimmed, untrimmed \cup {s}}
      BY <2>7, RestoreStep, Zenon
    <3> QED BY <1>2, <1>3, <1>10, <2>1, <2>7, <3>1, ZenonT(40) DEF RestoreEntry, TouchesOnly
  <2> QED BY <1>10, <2>2, <2>3, <2>4, <2>5, <2>6, <2>7, ZenonT(40) DEF Continue
<1>11. Ttls \subseteq Nat /\ 0 \in Nat
  BY InputsAssumption, Zenon
<1> QED
  BY <1>1, <1>5, <1>6, <1>7, <1>8, <1>9, <1>10, <1>11, ZenonT(40) DEF Next, Set, SetEx

\* The constructor builds empty, well-formed tables.
LEMMA TypeInit ==
    Init => TypeOK
<1> SUFFICES ASSUME Init PROVE TypeOK
  BY Zenon
<1> DEFINE b == ResizeTarget(InitialBuckets, 0)
           m == EmptyMap(b)
<1>1. b \in Nat
  <2>1. InitialBuckets \in Nat /\ InitialBuckets <= 2^HashBits /\ 2^HashBits \in Int
    BY ShardsAssumption, HashAssumption
  <2>2. 4 * 0 <= 3 * 2^HashBits
    BY <2>1, ShardsAssumption
  <2> QED BY <2>1, <2>2, ResizeFits, Zenon
<1>2. m \in Maps /\ Stored(m) = {}
  BY <1>1, EmptyKeys, Zenon
<1>3. shard = [s \in Shards |-> [table |-> m, sweepCursor |-> 0, maxMemoryBytes |-> 0]]
  BY Zenon DEF Init
<1> HIDE DEF m
<1>4. Placed(shard)
  BY <1>2, <1>3, Zenon DEF Placed
<1>5. WalksTyped /\ SeenTyped
  BY ShardsAssumption DEF Init, WalksTyped, SeenTyped, Idle, NothingSeen, Operations
<1> QED
  BY <1>4, <1>5, Zenon DEF Init, TypeOK

\* Every HashTable operation of the database leaves its table well formed: a finite
\* map whose keys are in a strict order of use, in an array they do not overload,
\* and every key stays in the shard its hash names.
THEOREM TablesWellFormed ==
    Spec => []TypeOK
<1>1. Init => TypeOK
  BY TypeInit, Zenon
<1>2. TypeOK /\ [Next]_vars => TypeOK'
  BY TypeStep, Zenon
<1> QED
  BY <1>1, <1>2, PTL DEF Spec

-----------------------------------------------------------------------------
(* Memory limits.                                                          *)

\* Shard s of sh is within its slice or down to one entry.
WithinSlice(sh, s) ==
    sh[s].maxMemoryBytes # 0 =>
        MemoryUsage(sh[s].table) <= sh[s].maxMemoryBytes \/ Size(sh[s].table) <= 1

\* A shard that only lost entries stays within its slice.
LEMMA LighterStays ==
    ASSUME NEW sh, NEW new, Placed(sh), Placed(new), NEW s \in Shards,
           WithinSlice(sh, s), new[s].maxMemoryBytes = sh[s].maxMemoryBytes,
           Lighter(sh[s].table, new[s].table)
    PROVE  WithinSlice(new, s)
<1>1. sh[s].table \in Maps /\ new[s].table \in Maps /\ sh[s].maxMemoryBytes \in Nat
  BY Zenon DEF Placed
<1>2. /\ MemoryUsage(sh[s].table) \in Nat /\ MemoryUsage(new[s].table) \in Nat
      /\ Size(sh[s].table) \in Nat /\ Size(new[s].table) \in Nat
  BY <1>1, UsageType, MapFacts, Zenon
<1> QED
  BY <1>1, <1>2 DEF WithinSlice, Lighter

\* Whatever step is taken: the eviction after a write and after a new limit brings
\* the shard within its slice, and nothing but restore makes a shard heavier.
LEMMA SliceStep ==
    ASSUME TypeOK, SliceRespected, [Next]_vars
    PROVE  SliceRespected'
<1>1. \A s \in Shards \ untrimmed : WithinSlice(shard, s)
  BY Zenon DEF SliceRespected, WithinSlice
<1>2. ASSUME \A s \in Shards \ untrimmed' : WithinSlice(shard', s) PROVE SliceRespected'
  BY <1>2, Zenon DEF SliceRespected, WithinSlice, Shards, MemoryUsage, EntryBytes, Footprints,
              Size, Stored, FootprintEstimate
<1>3. ASSUME shard' = shard, untrimmed' = untrimmed PROVE SliceRespected'
  BY <1>1, <1>2, <1>3, Zenon
<1>4. ASSUME NEW s \in Shards, TouchesOnly(shard, shard', s), WithinSlice(shard', s),
             untrimmed' = untrimmed \ {s}
      PROVE  SliceRespected'
  <2>1. \A x \in Shards \ untrimmed' : WithinSlice(shard', x)
    BY <1>1, <1>4, Zenon DEF TouchesOnly, WithinSlice
  <2> QED BY <1>2, <2>1, Zenon
<1>5. ASSUME NEW s \in Shards, TouchesOnly(shard, shard', s),
             shard'[s].maxMemoryBytes = shard[s].maxMemoryBytes,
             Lighter(shard[s].table, shard'[s].table),
             untrimmed' = untrimmed
      PROVE  SliceRespected'
  <2>1. Placed(shard) /\ Placed(shard')
    BY <1>5, Zenon DEF TypeOK, TouchesOnly
  <2>2. s \notin untrimmed' => WithinSlice(shard', s)
    BY <1>1, <1>5, <2>1, LighterStays, Zenon
  <2>3. \A x \in Shards \ untrimmed' : WithinSlice(shard', x)
    BY <1>1, <1>5, <2>2, Zenon DEF TouchesOnly, WithinSlice
  <2> QED BY <1>2, <2>3, Zenon
<1>6. ASSUME NEW k \in Keys, NEW v \in Values, NEW ttl \in Nat, SetEntry(k, v, ttl)
      PROVE  SliceRespected'
  <2> DEFINE s == ShardIndexFor(k)
  <2>1. s \in Shards /\ TouchesOnly(shard, shard', s) /\ WithinSlice(shard', s)
    BY <1>6, SetEntryStep, Zenon DEF WithinSlice
  <2>2. untrimmed' = untrimmed \ {s}
    BY <1>6, Zenon DEF SetEntry
  <2> QED BY <1>4, <2>1, <2>2, Zenon
<1>7. ASSUME NEW k \in Keys, Get(k) \/ Del(k) PROVE SliceRespected'
  <2>1. untrimmed' = untrimmed
    BY <1>7, Zenon DEF Get, Del
  <2> QED BY <1>5, <1>7, <2>1, GetStep, DelStep, Zenon
<1>8. ASSUME NEW w \in Walkers, Continue(w) PROVE SliceRespected'
  <2> DEFINE s == walk[w].at
  <2>1. CASE Collect(w) \/ LimitStore(w) \/ RestoreClock(w) \/ Return(w)
    BY <1>3, <2>1, Zenon DEF Collect, LimitStore, RestoreClock, Return
  <2>2. CASE SweepShard(w)
    <3>1. untrimmed' = untrimmed
      BY <2>2, Zenon DEF SweepShard
    <3> QED BY <1>5, <2>2, <3>1, SweepStep, Zenon
  <2>3. CASE LimitShard(w)
    <3>1. s \in Shards /\ TouchesOnly(shard, shard', s) /\ WithinSlice(shard', s)
      BY <2>3, LimitStep, Zenon DEF WithinSlice
    <3>2. untrimmed' = untrimmed \ {s}
      BY <2>3, Zenon DEF LimitShard
    <3> QED BY <1>4, <3>1, <3>2, Zenon
  <2>4. CASE ClearShard(w)
    <3>1. /\ s \in Shards /\ TouchesOnly(shard, shard', s)
          /\ Shrinks(shard[s].table, shard'[s].table, Stored(shard[s].table))
      BY <2>4, ClearStep, Zenon
    <3>2. Size(shard'[s].table) = 0
      BY <3>1, FS_EmptySet, Zenon DEF Shrinks, Size
    <3>3. WithinSlice(shard', s)
      BY <3>2 DEF WithinSlice
    <3>4. untrimmed' = untrimmed \ {s}
      BY <2>4, Zenon DEF ClearShard
    <3> QED BY <1>4, <3>1, <3>3, <3>4, Zenon
  <2>5. CASE RestoreEntry(w)
    <3>1. PICK x \in Shards :
              /\ TouchesOnly(shard, shard', x)
              /\ \/ shard' = shard /\ untrimmed' = untrimmed
                 \/ untrimmed' = untrimmed \cup {x}
      BY <2>5, RestoreStep, Zenon
    <3>2. CASE shard' = shard /\ untrimmed' = untrimmed
      BY <1>3, <3>2, Zenon
    <3>3. CASE untrimmed' = untrimmed \cup {x}
      <4>1. \A y \in Shards \ untrimmed' : WithinSlice(shard', y)
        BY <1>1, <3>1, <3>3, Zenon DEF TouchesOnly, WithinSlice
      <4> QED BY <1>2, <4>1, Zenon
    <3> QED BY <3>1, <3>2, <3>3, Zenon
  <2> QED BY <1>8, <2>1, <2>2, <2>3, <2>4, <2>5, ZenonT(40) DEF Continue
<1>9. CASE Tick \/ (\E w \in Walkers : Start(w)) \/ UNCHANGED vars
  BY <1>3, <1>9, Zenon DEF Tick, Start, Begin, vars
<1>10. Ttls \subseteq Nat /\ 0 \in Nat
  BY InputsAssumption, Zenon
<1> QED
  BY <1>6, <1>7, <1>8, <1>9, <1>10, Zenon DEF Next, Set, SetEx

\* The memory limit is honoured: under any interleaving of clients, sweeps, walks and
\* limit changes, a shard with a limit is within its slice of it or is down to one
\* entry, except while it holds what a restore put there and no set or setMaxMemory
\* has evicted from it since.
THEOREM LimitsHonoured ==
    Spec => []SliceRespected
<1>1. Init => SliceRespected
  BY DEF Init, SliceRespected
<1>2. TypeOK /\ SliceRespected /\ [Next]_vars => SliceRespected'
  BY SliceStep, Zenon
<1> QED
  BY <1>1, <1>2, TablesWellFormed, PTL DEF Spec

\* A set that is not rejected is never undone by its own eviction: the key just
\* written is the newest of its shard and the loop always keeps the newest.
THEOREM SetIsKept ==
    Spec => SetKeepsItsKey
<1>1. ASSUME TypeOK,
             NEW k \in Keys, NEW v \in Values,
             Set(k, v) \/ \E ttl \in Ttls : SetEx(k, v, ttl)
      PROVE  LET m == shard'[ShardIndexFor(k)].table
             IN  k \in Stored(m) /\ m.data[k].value = v
  <2>1. Ttls \subseteq Nat /\ 0 \in Nat
    BY InputsAssumption, Zenon
  <2>2. PICK ttl \in Nat : SetEntry(k, v, ttl)
    BY <1>1, <2>1, Zenon DEF Set, SetEx
  <2> DEFINE s == ShardIndexFor(k)
  <2>3. PICK lost : Writes(shard[s].table, shard'[s].table, k, EntryFor(v, ttl), lost)
    BY <1>1, <2>2, SetEntryStep, Zenon
  <2> QED BY <2>3 DEF Writes, EntryFor
<1>2. TypeOK /\ [Next]_vars =>
          [\A k \in Keys, v \in Values :
              (Set(k, v) \/ \E ttl \in Ttls : SetEx(k, v, ttl)) =>
                  LET m == shard'[ShardIndexFor(k)].table
                  IN  k \in Stored(m) /\ m.data[k].value = v]_vars
  BY <1>1, Zenon
<1> QED
  BY <1>2, TablesWellFormed, PTL DEF Spec, SetKeepsItsKey

-----------------------------------------------------------------------------
(* Walks over the shards.                                                  *)

\* What the history variable records of a walk that reads or clears.
LEMMA Recorded ==
    ASSUME Observe, NEW w \in Walkers
    PROVE  /\ walk'[w].op \in {"snapshot", "clear", "restore"} =>
                 /\ seen'[w].always \subseteq KeysOf(LiveEntries')
                 /\ walk[w].op # "idle" => seen'[w].always \subseteq seen[w].always
           /\ walk'[w].op = "snapshot" =>
                 seen[w].ever \subseteq seen'[w].ever /\ LiveEntries' \subseteq seen'[w].ever
<1> DEFINE live == LiveEntries'
           kept == IF walk[w].op = "idle" THEN KeysOf(live)
                   ELSE seen[w].always \cap KeysOf(live)
<1>1. walk'[w].op = "snapshot" =>
          seen'[w] = [always |-> kept, ever |-> seen[w].ever \cup live]
  BY Zenon DEF Observe
<1>2. walk'[w].op \in {"clear", "restore"} => seen'[w] = [always |-> kept, ever |-> {}]
  BY Zenon DEF Observe
<1> HIDE DEF live
<1> QED
  BY <1>1, <1>2 DEF live

\* A live key is live in the shard its hash names.
LEMMA KeyIsLive ==
    ASSUME NEW sh, Placed(sh), NEW t, NEW k \in KeysOf(LiveOf(sh, t))
    PROVE  /\ k \in Keys /\ ShardIndexFor(k) \in Shards
           /\ k \in LiveAt(sh[ShardIndexFor(k)].table, t)
<1>1. PICK s \in Shards : k \in LiveAt(sh[s].table, t)
  BY DEF KeysOf, LiveOf
<1>2. sh[s].table \in Maps /\ k \in Stored(sh[s].table)
  BY <1>1, Zenon DEF LiveAt, Placed
<1>3. ShardIndexFor(k) = s
  BY <1>2, Zenon DEF Placed
<1> QED
  BY <1>1, <1>2, <1>3, MapFacts, Zenon

\* How a step moves the walk of w, as far as walks that read or clear are concerned.
LEMMA WalkMoves ==
    ASSUME TypeOK, Next, NEW w \in Walkers
    PROVE  \/ walk'[w] = walk[w]
           \/ walk[w].op = "idle" /\ walk'[w].at = 0 /\ walk'[w].got = {}
           \/ Collect(w) /\ walk'[w].op = "snapshot"
           \/ ClearShard(w) /\ walk'[w].op = walk[w].op
           \/ walk'[w].op \notin {"snapshot", "clear", "restore"}
<1>1. walk \in [Walkers -> [op : Operations, at : 0..ShardCount, limit : Nat,
                            todo : Seq(Rows), clock : Nat, got : SUBSET (Keys \X Entries)]]
  BY Zenon DEF TypeOK, WalksTyped
<1>2. CASE walk' = walk
  BY <1>2, Zenon
<1>3. ASSUME NEW x \in Walkers, Start(x) \/ Continue(x), x # w PROVE walk'[w] = walk[w]
  BY <1>1, <1>3, Zenon DEF Start, Continue, Begin, Collect, SweepShard, LimitShard, LimitStore,
                    ClearShard, RestoreClock, RestoreEntry, Return
<1>4. CASE Start(w)
  <2>1. PICK op, limit, todo : Begin(w, op, limit, todo)
    BY <1>4, Zenon DEF Start
  <2>2. walk[w].op = "idle" /\ walk[w].at = 0 /\ walk[w].got = {}
    BY <2>1 DEF Begin, Idle
  <2>3. walk'[w].at = walk[w].at /\ walk'[w].got = walk[w].got
    BY <1>1, <2>1, Zenon DEF Begin
  <2> QED BY <2>2, <2>3, Zenon
<1>5. CASE Collect(w)
  BY <1>1, <1>5, Zenon DEF Collect, AtShard
<1>6. CASE ClearShard(w)
  BY <1>1, <1>6, Zenon DEF ClearShard
<1>7. CASE SweepShard(w) \/ LimitShard(w)
  <2>1. /\ walk' = [walk EXCEPT ![w].at = @ + 1]
        /\ walk[w].op \in {"sweep", "limit"}
    BY <1>7, Zenon DEF SweepShard, LimitShard, AtShard
  <2> QED BY <1>1, <2>1, Zenon
<1>8. CASE LimitStore(w) \/ Return(w)
  <2>1. walk' = [walk EXCEPT ![w] = Idle]
    BY <1>8, Zenon DEF LimitStore, Return
  <2>2. walk'[w] = Idle
    BY <1>1, <2>1, Zenon
  <2> QED BY <2>2 DEF Idle
<1>9. CASE RestoreClock(w) \/ RestoreEntry(w)
  <2>1. CASE RestoreClock(w)
    BY <1>1, <2>1, Zenon DEF RestoreClock
  <2>2. CASE RestoreEntry(w)
    <3>1. walk[w].op = "load" /\ walk' = [walk EXCEPT ![w].todo = Tail(@)]
      BY <2>2, Zenon DEF RestoreEntry
    <3> QED BY <1>1, <3>1, Zenon
  <2> QED BY <1>9, <2>1, <2>2, Zenon
<1>10. CASE (\E k \in Keys, v \in Values : Set(k, v)) \/ (\E k \in Keys : Get(k) \/ Del(k)) \/ Tick
  BY <1>2, <1>10, Zenon DEF Set, SetEntry, Get, Del, Tick
<1>11. CASE \E k \in Keys, v \in Values, ttl \in Ttls : SetEx(k, v, ttl)
  BY <1>2, <1>11, Zenon DEF SetEx, SetEntry
<1>12. CASE \E x \in Walkers : Start(x) \/ Continue(x)
  BY <1>3, <1>4, <1>5, <1>6, <1>7, <1>8, <1>9, <1>12, ZenonT(40) DEF Continue
<1> QED
  BY <1>10, <1>11, <1>12, Zenon DEF Next

\* A step of anyone keeps what a reading walk has gathered right.
LEMMA GathersStep ==
    ASSUME TypeOK, TypeOK', Gathers, Next
    PROVE  Gathers'
<1> SUFFICES ASSUME NEW w \in Walkers, walk'[w].op = "snapshot"
             PROVE  /\ walk'[w].got \subseteq seen'[w].ever
                    /\ \A k \in seen'[w].always :
                          ShardIndexFor(k) < walk'[w].at => k \in KeysOf(walk'[w].got)
  BY Zenon DEF Gathers, ShardIndexFor, KeysOf
<1>1. Observe
  BY Zenon DEF Next
<1>2. /\ seen'[w].always \subseteq KeysOf(LiveEntries')
      /\ walk[w].op # "idle" => seen'[w].always \subseteq seen[w].always
      /\ seen[w].ever \subseteq seen'[w].ever /\ LiveEntries' \subseteq seen'[w].ever
  BY <1>1, Recorded, Zenon
<1>3. walk[w].op = "snapshot" =>
          /\ walk[w].got \subseteq seen[w].ever
          /\ \A k \in seen[w].always : ShardIndexFor(k) < walk[w].at => k \in KeysOf(walk[w].got)
  BY Zenon DEF Gathers
<1>4. CASE walk'[w] = walk[w]
  BY <1>2, <1>3, <1>4, Zenon
<1>5. \A k \in seen'[w].always : k \in Keys /\ ShardIndexFor(k) \in Shards
  <2>1. seen'[w].always \subseteq Keys
    BY Zenon DEF TypeOK, SeenTyped
  <2> QED BY <2>1, ShardInRange, Zenon
<1>6. CASE walk[w].op = "idle" /\ walk'[w].at = 0 /\ walk'[w].got = {}
  BY <1>5, <1>6 DEF Shards
<1>7. CASE Collect(w)
  <2> DEFINE at == walk[w].at
             m == shard[at].table
             g == {<<k, m.data[k]>> : k \in LiveAt(m, now)}
  <2>1. walk[w].op = "snapshot" /\ at \in Shards /\ shard' = shard /\ now' = now
    BY <1>7, Zenon DEF Collect, AtShard
  <2>2. walk' = [walk EXCEPT ![w].at = @ + 1, ![w].got = @ \cup g]
    BY <1>7, Zenon DEF Collect, LiveIn, LiveAt
  <2> HIDE DEF g
  <2>3. walk'[w].at = at + 1 /\ walk'[w].got = walk[w].got \cup g
    BY <2>2, Zenon DEF TypeOK, WalksTyped
  <2>4. LiveEntries' = LiveOf(shard, now) /\ Placed(shard)
    BY <2>1, LiveIs, Zenon DEF TypeOK
  <2>5. g \subseteq LiveEntries'
    BY <2>1, <2>4, Zenon DEF g, LiveOf
  <2>6. walk'[w].got \subseteq seen'[w].ever
    BY <1>2, <1>3, <2>1, <2>3, <2>5, Zenon
  <2>7. ASSUME NEW k \in seen'[w].always, ShardIndexFor(k) < walk'[w].at
        PROVE  k \in KeysOf(walk'[w].got)
    <3>1. CASE ShardIndexFor(k) < at
      BY <1>2, <1>3, <2>1, <2>3, <2>7, <3>1, ZenonT(40) DEF KeysOf
    <3>2. CASE ShardIndexFor(k) = at
      <4>1. k \in LiveAt(m, now)
        BY <1>2, <2>4, <2>7, <3>2, KeyIsLive, Zenon
      <4>2. <<k, m.data[k]>> \in walk'[w].got
        BY <2>3, <4>1, ZenonT(40) DEF g
      <4> QED BY <4>2 DEF KeysOf
    <3>3. ShardIndexFor(k) < at \/ ShardIndexFor(k) = at
      BY <1>5, <2>1, <2>3, <2>7 DEF Shards
    <3> QED BY <3>1, <3>2, <3>3, Zenon
  <2> QED BY <2>6, <2>7, Zenon
<1>8. CASE ClearShard(w) /\ walk'[w].op = walk[w].op
  BY <1>8, Zenon DEF ClearShard, AtShard
<1> QED
  BY <1>4, <1>6, <1>7, <1>8, WalkMoves, Zenon

\* A step of anyone keeps old keys out of the shards a clearing walk has passed.
LEMMA ClearsStep ==
    ASSUME TypeOK, TypeOK', Clears, Next
    PROVE  Clears'
<1> SUFFICES ASSUME NEW w \in Walkers, walk'[w].op \in {"clear", "restore"},
                    NEW k \in seen'[w].always
             PROVE  walk'[w].at <= ShardIndexFor(k)
  BY Zenon DEF Clears, ShardIndexFor
<1>1. Observe
  BY Zenon DEF Next
<1>2. /\ seen'[w].always \subseteq KeysOf(LiveEntries')
      /\ walk[w].op # "idle" => seen'[w].always \subseteq seen[w].always
  BY <1>1, Recorded, Zenon
<1>3. walk[w].op \in {"clear", "restore"} => \A x \in seen[w].always : walk[w].at <= ShardIndexFor(x)
  BY Zenon DEF Clears
<1>4. CASE walk'[w] = walk[w]
  BY <1>2, <1>3, <1>4, Zenon
<1>5. k \in Keys /\ ShardIndexFor(k) \in Shards
  <2>1. seen'[w].always \subseteq Keys
    BY Zenon DEF TypeOK, SeenTyped
  <2> QED BY <2>1, ShardInRange, Zenon
<1>6. CASE walk[w].op = "idle" /\ walk'[w].at = 0 /\ walk'[w].got = {}
  BY <1>5, <1>6 DEF Shards
<1>7. CASE ClearShard(w) /\ walk'[w].op = walk[w].op
  <2> DEFINE at == walk[w].at
  <2>1. /\ at \in Shards /\ TouchesOnly(shard, shard', at)
        /\ Shrinks(shard[at].table, shard'[at].table, Stored(shard[at].table))
    BY <1>7, ClearStep, Zenon
  <2>2. Stored(shard'[at].table) = {} /\ Placed(shard')
    BY <2>1, Zenon DEF Shrinks, TouchesOnly
  <2>3. k \in LiveAt(shard'[ShardIndexFor(k)].table, now')
    BY <1>2, <2>2, LiveIs, KeyIsLive, ZenonT(40)
  <2>4. ShardIndexFor(k) # at
    BY <2>2, <2>3, Zenon DEF LiveAt
  <2>5. at <= ShardIndexFor(k)
    BY <1>2, <1>3, <1>7, Zenon
  <2>6. walk'[w].at = at + 1
    BY <1>7, Zenon DEF ClearShard, TypeOK, WalksTyped
  <2> QED BY <1>5, <2>1, <2>4, <2>5, <2>6, SMTT(30) DEF Shards
<1>8. CASE Collect(w) /\ walk'[w].op = "snapshot"
  BY <1>8, Zenon
<1> QED
  BY <1>4, <1>6, <1>7, <1>8, WalkMoves, Zenon

\* keys() and snapshot(), which lock the shards one after another while clients
\* write, sweeps reclaim and limits change: they return every key that was live
\* throughout the call and only entries that were live during it.
THEOREM WalksReadTrue ==
    Spec => []ReadsAreBracketed
<1>1. Init => Gathers
  BY DEF Init, Gathers, Idle
<1>2. TypeOK /\ TypeOK' /\ Gathers /\ [Next]_vars => Gathers'
  <2>1. ASSUME Gathers, UNCHANGED vars PROVE Gathers'
    BY <2>1, Zenon DEF Gathers, vars, KeysOf, ShardIndexFor
  <2> QED BY <2>1, GathersStep, Zenon
<1>3. TypeOK /\ Gathers => ReadsAreBracketed
  <2> SUFFICES ASSUME TypeOK, Gathers, NEW w \in Walkers, walk[w].op = "snapshot",
                      walk[w].at = ShardCount
               PROVE  seen[w].always \subseteq KeysOf(walk[w].got)
    BY Zenon DEF ReadsAreBracketed, Gathers
  <2>1. \A k \in seen[w].always : ShardIndexFor(k) \in Shards
    BY ShardInRange, Zenon DEF TypeOK, SeenTyped
  <2>2. \A k \in seen[w].always : ShardIndexFor(k) < walk[w].at
    BY <2>1, ShardsAssumption, SMTT(30) DEF Shards
  <2> QED BY <2>2, Zenon DEF Gathers
<1> QED
  BY <1>1, <1>2, <1>3, TablesWellFormed, PTL DEF Spec

\* clear(), and restore before it loads, leave no key that has been live since
\* before the call, whatever clients write into the shards already cleared.
THEOREM ClearIsComplete ==
    Spec => []ClearLeavesNothingOld
<1>1. Init => Clears
  BY DEF Init, Clears, Idle
<1>2. TypeOK /\ TypeOK' /\ Clears /\ [Next]_vars => Clears'
  <2>1. ASSUME Clears, UNCHANGED vars PROVE Clears'
    BY <2>1, Zenon DEF Clears, vars, ShardIndexFor
  <2> QED BY <2>1, ClearsStep, Zenon
<1>3. TypeOK /\ Clears => ClearLeavesNothingOld
  <2> SUFFICES ASSUME TypeOK, Clears, NEW w \in Walkers, walk[w].op \in {"clear", "restore"},
                      walk[w].at = ShardCount, NEW k \in seen[w].always
               PROVE  FALSE
    BY Zenon DEF ClearLeavesNothingOld
  <2>1. ShardIndexFor(k) \in Shards
    BY ShardInRange, Zenon DEF TypeOK, SeenTyped
  <2>2. ShardCount <= ShardIndexFor(k)
    BY Zenon DEF Clears
  <2> QED BY <2>1, <2>2, ShardsAssumption DEF Shards
<1> QED
  BY <1>1, <1>2, <1>3, TablesWellFormed, PTL DEF Spec

-----------------------------------------------------------------------------
(* The sharded database is one map.                                        *)

\* AllEntries, the bound and the wipe of the refinement mapping, as functions of
\* the state.
KeysIn(sh) == UNION {Stored(sh[s].table) : s \in Shards}
EntriesOf(sh) == [k \in KeysIn(sh) |-> sh[ShardIndexFor(k)].table.data[k]]
Bounded(sh) == \E s \in Shards : sh[s].maxMemoryBytes # 0
Wiping(wk) == \E w \in Walkers : wk[w].op \in {"clear", "restore", "load"}

\* AllEntries before and after a step.
LEMMA MappingIs ==
    AllEntries = EntriesOf(shard) /\ AllEntries' = EntriesOf(shard')
BY Zenon DEF AllEntries, EntriesOf, KeysIn, Stored, Shards, ShardIndexFor

\* A key is stored in the shard its hash names and in no other.
LEMMA KeysInFacts ==
    ASSUME NEW sh, Placed(sh), NEW k
    PROVE  k \in KeysIn(sh) <=>
               k \in Keys /\ ShardIndexFor(k) \in Shards /\ k \in Stored(sh[ShardIndexFor(k)].table)
<1>1. ASSUME k \in KeysIn(sh)
      PROVE  k \in Keys /\ ShardIndexFor(k) \in Shards /\ k \in Stored(sh[ShardIndexFor(k)].table)
  <2>1. PICK s \in Shards : k \in Stored(sh[s].table)
    BY <1>1, Zenon DEF KeysIn
  <2>2. sh[s].table \in Maps /\ ShardIndexFor(k) = s
    BY <2>1, Zenon DEF Placed
  <2> QED BY <2>1, <2>2, MapFacts, Zenon
<1> QED
  BY <1>1, Zenon DEF KeysIn

\* The entries without those in lost, and with k given the entry e.
Without(sh, lost) == [x \in KeysIn(sh) \ lost |-> EntriesOf(sh)[x]]
With(sh, k, e, lost) ==
    [x \in (KeysIn(sh) \ lost) \cup {k} |-> IF x = k THEN e ELSE EntriesOf(sh)[x]]

\* Entries lost by one shard are lost by the whole, and no others are.
LEMMA WholeShrinks ==
    ASSUME NEW sh, Placed(sh), NEW new, NEW s \in Shards, TouchesOnly(sh, new, s),
           NEW lost, Shrinks(sh[s].table, new[s].table, lost)
    PROVE  /\ lost \subseteq KeysIn(sh)
           /\ EntriesOf(new) = Without(sh, lost)
<1>1. Placed(new)
  BY Zenon DEF TouchesOnly
<1>2. \A k \in lost : ShardIndexFor(k) = s
  BY Zenon DEF Shrinks, Placed
<1>3. lost \subseteq KeysIn(sh)
  BY Zenon DEF Shrinks, KeysIn
<1>4. KeysIn(new) = KeysIn(sh) \ lost
  <2>1. ASSUME NEW k PROVE k \in KeysIn(new) <=> k \in KeysIn(sh) /\ k \notin lost
    <3>1. CASE ShardIndexFor(k) = s
      BY <1>1, <3>1, KeysInFacts, Zenon DEF Shrinks
    <3>2. CASE ShardIndexFor(k) # s
      BY <1>1, <1>2, <3>2, KeysInFacts, Zenon DEF TouchesOnly
    <3> QED BY <3>1, <3>2, Zenon
  <2> QED BY <2>1, Zenon
<1>5. ASSUME NEW k \in KeysIn(new) PROVE EntriesOf(new)[k] = EntriesOf(sh)[k]
  <2>1. EntriesOf(new)[k] = new[ShardIndexFor(k)].table.data[k]
    BY Zenon DEF EntriesOf
  <2>2. EntriesOf(sh)[k] = sh[ShardIndexFor(k)].table.data[k]
    BY <1>4, Zenon DEF EntriesOf
  <2>3. ShardIndexFor(k) \in Shards /\ k \in Stored(new[ShardIndexFor(k)].table)
    BY <1>1, KeysInFacts, Zenon
  <2>4. CASE ShardIndexFor(k) = s
    BY <2>1, <2>2, <2>3, <2>4, Zenon DEF Shrinks
  <2>5. CASE ShardIndexFor(k) # s
    BY <2>1, <2>2, <2>3, <2>5, Zenon DEF TouchesOnly
  <2> QED BY <2>4, <2>5, Zenon
<1>6. EntriesOf(new) = [k \in KeysIn(new) |-> EntriesOf(new)[k]]
  BY Zenon DEF EntriesOf
<1> QED
  BY <1>3, <1>4, <1>5, <1>6, Zenon DEF Without

\* An entry written to its shard is written to the whole.
LEMMA WholeWrites ==
    ASSUME NEW sh, Placed(sh), NEW new, NEW s \in Shards, TouchesOnly(sh, new, s),
           NEW k \in Keys, ShardIndexFor(k) = s, NEW e, NEW lost,
           Writes(sh[s].table, new[s].table, k, e, lost)
    PROVE  /\ lost \subseteq KeysIn(sh) \ {k}
           /\ EntriesOf(new) = With(sh, k, e, lost)
<1>1. Placed(new)
  BY Zenon DEF TouchesOnly
<1>2. \A x \in lost : ShardIndexFor(x) = s
  BY Zenon DEF Writes, Placed
<1>3. lost \subseteq KeysIn(sh) \ {k}
  BY Zenon DEF Writes, KeysIn
<1>4. KeysIn(new) = (KeysIn(sh) \ lost) \cup {k}
  <2>1. ASSUME NEW x PROVE x \in KeysIn(new) <=> (x \in KeysIn(sh) /\ x \notin lost) \/ x = k
    <3>1. CASE ShardIndexFor(x) = s
      BY <1>1, <3>1, KeysInFacts, Zenon DEF Writes
    <3>2. CASE ShardIndexFor(x) # s
      BY <1>1, <1>2, <3>2, KeysInFacts, Zenon DEF TouchesOnly
    <3> QED BY <3>1, <3>2, Zenon
  <2> QED BY <2>1, Zenon
<1>5. ASSUME NEW x \in KeysIn(new)
      PROVE  EntriesOf(new)[x] = IF x = k THEN e ELSE EntriesOf(sh)[x]
  <2>1. EntriesOf(new)[x] = new[ShardIndexFor(x)].table.data[x]
    BY Zenon DEF EntriesOf
  <2>2. x # k => EntriesOf(sh)[x] = sh[ShardIndexFor(x)].table.data[x]
    BY <1>4, Zenon DEF EntriesOf
  <2>3. ShardIndexFor(x) \in Shards /\ x \in Stored(new[ShardIndexFor(x)].table)
    BY <1>1, KeysInFacts, Zenon
  <2>4. CASE ShardIndexFor(x) = s
    BY <2>1, <2>2, <2>3, <2>4, Zenon DEF Writes
  <2>5. CASE ShardIndexFor(x) # s
    BY <2>1, <2>2, <2>3, <2>5, Zenon DEF TouchesOnly
  <2> QED BY <2>4, <2>5, Zenon
<1>6. EntriesOf(new) = [x \in KeysIn(new) |-> EntriesOf(new)[x]]
  BY Zenon DEF EntriesOf
<1> QED
  BY <1>3, <1>4, <1>5, <1>6, ZenonT(40) DEF With

\* A step that leaves the limit of the one shard it touches leaves the bound.
LEMMA BoundKept ==
    ASSUME NEW sh, NEW new, NEW s \in Shards, TouchesOnly(sh, new, s),
           new[s].maxMemoryBytes = sh[s].maxMemoryBytes
    PROVE  Bounded(new) = Bounded(sh)
<1>1. \A x \in Shards : new[x].maxMemoryBytes = sh[x].maxMemoryBytes
  BY Zenon DEF TouchesOnly
<1> QED
  BY <1>1, Zenon DEF Bounded

\* Steps of Keyspace, in terms of the refinement mapping.
LEMMA MapsToStutter ==
    ASSUME EntriesOf(shard') = EntriesOf(shard), now' = now,
           Bounded(shard') = Bounded(shard), Wiping(walk') = Wiping(walk)
    PROVE  UNCHANGED Promise!vars
BY MappingIs, Zenon DEF Promise!vars, Bounded, Wiping, Shards

\* One entry is written and others may make room for it.
LEMMA MapsToWrite ==
    ASSUME NEW k, NEW e, NEW lost \in SUBSET (KeysIn(shard) \ {k}),
           lost # {} => Bounded(shard),
           EntriesOf(shard') = With(shard, k, e, lost),
           now' = now, Bounded(shard') = Bounded(shard), Wiping(walk') = Wiping(walk)
    PROVE  Promise!Write(k, e)
<1>1. Promise!Stored = KeysIn(shard)
  BY MappingIs, Zenon DEF Promise!Stored, EntriesOf
<1>2. \E l \in SUBSET (Promise!Stored \ {k}) :
         /\ l # {} => \E s \in Shards : shard[s].maxMemoryBytes # 0
         /\ AllEntries' = [x \in (Promise!Stored \ l) \cup {k} |->
                               IF x = k THEN e ELSE AllEntries[x]]
  BY <1>1, MappingIs DEF Bounded, With
<1> QED
  BY <1>2, Zenon DEF Promise!Write, Bounded, Wiping, Shards

\* What Keyspace calls Stored and Without.
LEMMA WithoutIs ==
    Promise!Stored = KeysIn(shard) /\ \A lost : Promise!Without(lost) = Without(shard, lost)
BY MappingIs, Zenon DEF Promise!Stored, Promise!Without, Promise!Restrict, Without, EntriesOf

\* One key goes.
LEMMA MapsToDelete ==
    ASSUME NEW k, EntriesOf(shard') = Without(shard, {k}), now' = now,
           Bounded(shard') = Bounded(shard), Wiping(walk') = Wiping(walk)
    PROVE  Promise!Delete(k)
BY MappingIs, WithoutIs, Zenon DEF Promise!Delete, Bounded, Wiping, Shards

\* Expired entries go.
LEMMA MapsToReclaim ==
    ASSUME NEW dead \in SUBSET KeysIn(shard),
           \A k \in dead : IsExpiredAt(EntriesOf(shard)[k], now),
           EntriesOf(shard') = Without(shard, dead), now' = now,
           Bounded(shard') = Bounded(shard), Wiping(walk') = Wiping(walk)
    PROVE  Promise!Reclaim
<1>1. dead \in SUBSET Promise!Expired
  BY MappingIs, WithoutIs, Zenon DEF Promise!Expired, IsExpiredAt
<1>2. \E d \in SUBSET Promise!Expired : AllEntries' = Promise!Without(d)
  BY <1>1, MappingIs, WithoutIs, Zenon
<1> QED
  BY <1>2, Zenon DEF Promise!Reclaim, Bounded, Wiping, Shards

\* Limits change, and entries go if there is a limit.
LEMMA MapsToBound ==
    ASSUME NEW lost \in SUBSET KeysIn(shard), lost # {} => Bounded(shard'),
           EntriesOf(shard') = Without(shard, lost), now' = now, Wiping(walk') = Wiping(walk)
    PROVE  \E b \in BOOLEAN : Promise!Bound(b)
<1>1. \E l \in SUBSET Promise!Stored :
          (l # {} => Bounded(shard')) /\ AllEntries' = Promise!Without(l)
  BY MappingIs, WithoutIs, Zenon
<1>2. CASE Bounded(shard')
  <2>1. Promise!Bound(TRUE)
    BY <1>1, <1>2, Zenon DEF Promise!Bound, Bounded, Wiping, Shards
  <2> QED BY <2>1, Zenon
<1>3. CASE ~Bounded(shard')
  <2>1. Promise!Bound(FALSE)
    BY <1>1, <1>3, Zenon DEF Promise!Bound, Bounded, Wiping, Shards
  <2> QED BY <2>1, Zenon
<1> QED
  BY <1>2, <1>3, Zenon

\* Entries go while a wipe is in progress.
LEMMA MapsToWipe ==
    ASSUME Wiping(walk), NEW gone \in SUBSET KeysIn(shard),
           EntriesOf(shard') = Without(shard, gone), now' = now,
           Bounded(shard') = Bounded(shard), Wiping(walk') = Wiping(walk)
    PROVE  Promise!Wipe
<1>1. \E g \in SUBSET Promise!Stored : AllEntries' = Promise!Without(g)
  BY MappingIs, WithoutIs, Zenon
<1> QED
  BY <1>1, Zenon DEF Promise!Wipe, Bounded, Wiping, Shards

\* One entry is written while a wipe is in progress.
LEMMA MapsToLoad ==
    ASSUME Wiping(walk), NEW k, NEW e \in Entries,
           EntriesOf(shard') = With(shard, k, e, {}),
           now' = now, Bounded(shard') = Bounded(shard), Wiping(walk') = Wiping(walk)
    PROVE  Promise!Load(k)
<1>1. /\ DOMAIN AllEntries' = Promise!Stored \cup {k}
      /\ AllEntries'[k] = e
      /\ \A x \in Promise!Stored \ {k} : AllEntries'[x] = AllEntries[x]
  BY MappingIs, WithoutIs, Zenon DEF With
<1>2. AllEntries'[k].value \in Values
  BY <1>1, Zenon DEF Entries
<1> QED
  BY <1>1, <1>2, Zenon DEF Promise!Load, Bounded, Wiping, Shards

\* A wipe begins or ends, or nothing happens.
LEMMA MapsToWipeEdge ==
    ASSUME shard' = shard, now' = now
    PROVE  Promise!BeginOrEndWipe \/ UNCHANGED Promise!vars
<1>1. EntriesOf(shard') = EntriesOf(shard) /\ Bounded(shard') = Bounded(shard)
  BY Zenon
<1>2. CASE Wiping(walk') = Wiping(walk)
  BY <1>1, <1>2, MapsToStutter, Zenon
<1>3. CASE Wiping(walk') # Wiping(walk)
  <2>1. Wiping(walk') = ~Wiping(walk)
    BY <1>3, Zenon DEF Wiping
  <2> QED BY <1>1, <2>1, MappingIs, Zenon DEF Promise!BeginOrEndWipe, Bounded, Wiping, Shards
<1> QED
  BY <1>2, <1>3, Zenon

\* Whether a wipe is in progress changes only when one is called or returns.
LEMMA WipingKept ==
    ASSUME TypeOK, NEW w \in Walkers,
           \/ walk' = walk
           \/ \E x \in Nat : walk' = [walk EXCEPT ![w].at = x]
           \/ \E x \in Seq(Rows) : walk' = [walk EXCEPT ![w].todo = x]
    PROVE  Wiping(walk') = Wiping(walk)
<1>1. \A x \in Walkers : walk'[x].op = walk[x].op
  <2> SUFFICES ASSUME NEW y \in Walkers PROVE walk'[y].op = walk[y].op
    BY Zenon
  <2>1. walk \in [Walkers -> [op : Operations, at : 0..ShardCount, limit : Nat,
                             todo : Seq(Rows), clock : Nat, got : SUBSET (Keys \X Entries)]]
    BY Zenon DEF TypeOK, WalksTyped
  <2>2. ASSUME NEW x, walk' = [walk EXCEPT ![w].at = x] PROVE walk'[y].op = walk[y].op
    BY <2>1, <2>2, SMTT(30)
  <2>3. ASSUME NEW x, walk' = [walk EXCEPT ![w].todo = x] PROVE walk'[y].op = walk[y].op
    BY <2>1, <2>3, SMTT(30)
  <2> QED BY <2>2, <2>3, Zenon
<1> QED
  BY <1>1, Zenon DEF Wiping

\* Every step of the sharded database is a step of the one map, or none.
LEMMA StepRefines ==
    ASSUME TypeOK, [Next]_vars
    PROVE  [Promise!Next]_(Promise!vars)
<1>1. Placed(shard) /\ now \in Nat
  BY Zenon DEF TypeOK
<1>2. ASSUME walk' = walk PROVE Wiping(walk') = Wiping(walk)
  BY <1>2, Zenon
<1>3. ASSUME NEW k \in Keys, NEW v \in Values, NEW ttl \in Ttls \cup {0}, SetEntry(k, v, ttl)
      PROVE  Promise!Next
  <2> DEFINE s == ShardIndexFor(k)
  <2>1. ttl \in Nat
    BY InputsAssumption
  <2>2. /\ s \in Shards /\ TouchesOnly(shard, shard', s)
        /\ shard'[s].maxMemoryBytes = shard[s].maxMemoryBytes
        /\ \E lost : /\ lost # {} => shard[s].maxMemoryBytes # 0
                     /\ Writes(shard[s].table, shard'[s].table, k, EntryFor(v, ttl), lost)
    BY <1>3, <2>1, SetEntryStep, ZenonT(40)
  <2>3. PICK lost : /\ lost # {} => shard[s].maxMemoryBytes # 0
                    /\ Writes(shard[s].table, shard'[s].table, k, EntryFor(v, ttl), lost)
    BY <2>2, ZenonT(40)
  <2>4. now' = now /\ Wiping(walk') = Wiping(walk)
    BY <1>2, <1>3, Zenon DEF SetEntry
  <2>5. Bounded(shard') = Bounded(shard)
    BY <2>2, BoundKept, Zenon
  <2> DEFINE e == EntryFor(v, ttl)
  <2>5a. ShardIndexFor(k) = s /\ Writes(shard[s].table, shard'[s].table, k, e, lost)
    BY <2>3, Zenon
  <2>5b. s \in Shards /\ TouchesOnly(shard, shard', s)
    BY <2>2, Zenon
  <2> HIDE DEF e, s
  <2>5c. lost \subseteq KeysIn(shard) \ {k} /\ EntriesOf(shard') = With(shard, k, e, lost)
    <3>1. PICK q : q = shard'
      BY Zenon
    <3>2. Placed(shard) /\ TouchesOnly(shard, q, s) /\ Writes(shard[s].table, q[s].table, k, e, lost)
      BY <1>1, <2>5a, <2>5b, <3>1, Zenon DEF TypeOK
    <3>3. lost \subseteq KeysIn(shard) \ {k} /\ EntriesOf(q) = With(shard, k, e, lost)
      BY <2>5a, <2>5b, <3>2, WholeWrites, SMTT(40)
    <3> QED BY <3>1, <3>3, Zenon
  <2>6. /\ lost \in SUBSET (KeysIn(shard) \ {k})
        /\ EntriesOf(shard') = With(shard, k, e, lost)
    BY <2>5c, Zenon
  <2>7. lost # {} => Bounded(shard)
    BY <2>2, <2>3, Zenon DEF Bounded
  <2>8. Promise!Write(k, e)
    BY <2>4, <2>5, <2>6, <2>7, MapsToWrite, Zenon
  <2>9. Promise!WriteNew(k, v)
    <3>1. CASE ttl = 0
      BY <2>8, <3>1, Zenon DEF Promise!WriteNew, EntryFor, e
    <3>2. CASE ttl # 0
      <4>1. ttl \in Ttls
        BY <3>2, Zenon
      <4>2. Promise!Write(k, [value |-> v, expiration |-> now + ttl])
        BY <2>8, <3>2, Zenon DEF EntryFor, e
      <4> QED BY <4>1, <4>2, Zenon DEF Promise!WriteNew
    <3> QED BY <3>1, <3>2, Zenon
  <2> QED BY <2>9, Zenon DEF Promise!Next
<1>4. ASSUME NEW k \in Keys, Get(k) PROVE UNCHANGED Promise!vars
  <2> DEFINE s == ShardIndexFor(k)
  <2>1. /\ s \in Shards /\ TouchesOnly(shard, shard', s)
        /\ shard'[s].maxMemoryBytes = shard[s].maxMemoryBytes
        /\ Shrinks(shard[s].table, shard'[s].table, {})
    BY <1>4, GetStep, Zenon
  <2>2. now' = now /\ Wiping(walk') = Wiping(walk)
    BY <1>2, <1>4, Zenon DEF Get
  <2>3. Bounded(shard') = Bounded(shard)
    BY <2>1, BoundKept, Zenon
  <2>4. EntriesOf(shard') = Without(shard, {})
    BY <1>1, <2>1, WholeShrinks, Zenon
  <2>5. EntriesOf(shard') = EntriesOf(shard)
    BY <2>4, Zenon DEF EntriesOf, Without
  <2> QED BY <2>2, <2>3, <2>5, MapsToStutter, ZenonT(40)
<1>5. ASSUME NEW k \in Keys, Del(k) PROVE Promise!Next
  <2> DEFINE s == ShardIndexFor(k)
  <2>1. /\ s \in Shards /\ TouchesOnly(shard, shard', s)
        /\ shard'[s].maxMemoryBytes = shard[s].maxMemoryBytes
        /\ Shrinks(shard[s].table, shard'[s].table, {k})
    BY <1>5, DelStep, Zenon
  <2>2. now' = now /\ Wiping(walk') = Wiping(walk)
    BY <1>2, <1>5, Zenon DEF Del
  <2>3. Bounded(shard') = Bounded(shard)
    BY <2>1, BoundKept, Zenon
  <2>4. EntriesOf(shard') = Without(shard, {k})
    BY <1>1, <2>1, WholeShrinks, Zenon
  <2>5. Promise!Delete(k)
    BY <2>2, <2>3, <2>4, MapsToDelete, Zenon
  <2> QED BY <2>5, Zenon DEF Promise!Next
<1>6. ASSUME Tick PROVE Promise!Next
  <2>1. shard' = shard /\ walk' = walk /\ now' = now + 1
    BY <1>6, Zenon DEF Tick
  <2>2. AllEntries' = AllEntries
    BY <2>1, MappingIs, Zenon
  <2> QED BY <2>1, <2>2, Zenon DEF Promise!Next, Promise!Tick, Shards
<1>7. ASSUME shard' = shard, now' = now PROVE [Promise!Next]_(Promise!vars)
  BY <1>7, MapsToWipeEdge, Zenon DEF Promise!Next
<1>8. \A w \in Walkers : walk[w].at \in Nat /\ walk[w].at + 1 \in Nat
  BY ShardsAssumption DEF TypeOK, WalksTyped
<1>9. ASSUME NEW w \in Walkers, SweepShard(w) PROVE Promise!Next
  <2> DEFINE s == walk[w].at
  <2>1. /\ s \in Shards /\ TouchesOnly(shard, shard', s)
        /\ shard'[s].maxMemoryBytes = shard[s].maxMemoryBytes
        /\ \E lost : /\ lost \subseteq Stored(shard[s].table) \ LiveIn(shard[s].table)
                     /\ Shrinks(shard[s].table, shard'[s].table, lost)
    BY <1>9, SweepStep, Zenon
  <2>2. PICK lost : /\ lost \subseteq Stored(shard[s].table) \ LiveIn(shard[s].table)
                    /\ Shrinks(shard[s].table, shard'[s].table, lost)
    BY <2>1, Zenon
  <2>3. now' = now /\ walk' = [walk EXCEPT ![w].at = s + 1]
    BY <1>9, ZenonT(40) DEF SweepShard
  <2>4. Wiping(walk') = Wiping(walk)
    BY <1>8, <2>3, WipingKept, Zenon
  <2>5. Bounded(shard') = Bounded(shard)
    BY <2>1, BoundKept, Zenon
  <2>6. lost \in SUBSET KeysIn(shard) /\ EntriesOf(shard') = Without(shard, lost)
    BY <1>1, <2>1, <2>2, WholeShrinks, ZenonT(40)
  <2>7. ASSUME NEW k \in lost PROVE IsExpiredAt(EntriesOf(shard)[k], now)
    <3>1. k \in Stored(shard[s].table) /\ IsExpiredAt(shard[s].table.data[k], now)
      BY <2>2, Zenon DEF LiveIn
    <3>2. ShardIndexFor(k) = s
      BY <1>1, <2>1, <3>1, ZenonT(40) DEF Placed
    <3> QED BY <2>6, <3>1, <3>2, ZenonT(40) DEF EntriesOf
  <2>8. Promise!Reclaim
    BY <2>3, <2>4, <2>5, <2>6, <2>7, MapsToReclaim, ZenonT(40)
  <2> QED BY <2>8, Zenon DEF Promise!Next
<1>10. ASSUME NEW w \in Walkers, LimitShard(w) PROVE Promise!Next
  <2> DEFINE s == walk[w].at
  <2>1. /\ s \in Shards /\ TouchesOnly(shard, shard', s)
        /\ \E lost : /\ lost # {} => shard'[s].maxMemoryBytes # 0
                     /\ Shrinks(shard[s].table, shard'[s].table, lost)
    BY <1>10, LimitStep, ZenonT(40)
  <2>2. PICK lost : /\ lost # {} => shard'[s].maxMemoryBytes # 0
                    /\ Shrinks(shard[s].table, shard'[s].table, lost)
    BY <2>1, ZenonT(40)
  <2>3. now' = now /\ walk' = [walk EXCEPT ![w].at = s + 1]
    BY <1>10, ZenonT(40) DEF LimitShard
  <2>4. Wiping(walk') = Wiping(walk)
    BY <1>8, <2>3, WipingKept, Zenon
  <2>5. lost # {} => Bounded(shard')
    BY <2>1, <2>2, Zenon DEF Bounded
  <2>6. lost \in SUBSET KeysIn(shard) /\ EntriesOf(shard') = Without(shard, lost)
    BY <1>1, <2>1, <2>2, WholeShrinks, ZenonT(40)
  <2>7. \E b \in BOOLEAN : Promise!Bound(b)
    BY <2>3, <2>4, <2>5, <2>6, MapsToBound, ZenonT(40)
  <2> QED BY <2>7, Zenon DEF Promise!Next
<1>11. ASSUME NEW w \in Walkers, ClearShard(w) PROVE Promise!Next
  <2> DEFINE s == walk[w].at
             gone == Stored(shard[s].table)
  <2>1. /\ s \in Shards /\ TouchesOnly(shard, shard', s)
        /\ shard'[s].maxMemoryBytes = shard[s].maxMemoryBytes
        /\ Shrinks(shard[s].table, shard'[s].table, gone)
    BY <1>11, ClearStep, ZenonT(40)
  <2>2. now' = now /\ walk' = [walk EXCEPT ![w].at = s + 1]
    BY <1>11, ZenonT(40) DEF ClearShard
  <2>3. Wiping(walk') = Wiping(walk)
    BY <1>8, <2>2, WipingKept, Zenon
  <2>4. Bounded(shard') = Bounded(shard)
    BY <2>1, BoundKept, Zenon
  <2> HIDE DEF gone
  <2>5. gone \in SUBSET KeysIn(shard) /\ EntriesOf(shard') = Without(shard, gone)
    BY <1>1, <2>1, WholeShrinks, ZenonT(40)
  <2>6. Wiping(walk)
    BY <1>11, Zenon DEF ClearShard, AtShard, Wiping
  <2>7. Promise!Wipe
    BY <2>2, <2>3, <2>4, <2>5, <2>6, MapsToWipe, ZenonT(40)
  <2> QED BY <2>7, Zenon DEF Promise!Next
<1>12. ASSUME NEW w \in Walkers, RestoreEntry(w) PROVE [Promise!Next]_(Promise!vars)
  <2> DEFINE e == Head(walk[w].todo)
             s == ShardIndexFor(e.key)
  <2>1. /\ s \in Shards /\ e.key \in Keys /\ e.entry \in Entries
        /\ Tail(walk[w].todo) \in Seq(Rows)
        /\ TouchesOnly(shard, shard', s)
        /\ shard'[s].maxMemoryBytes = shard[s].maxMemoryBytes
        /\ \/ shard' = shard
           \/ Writes(shard[s].table, shard'[s].table, e.key, e.entry, {})
    BY <1>12, RestoreStep, ZenonT(40)
  <2>2. now' = now /\ walk' = [walk EXCEPT ![w].todo = Tail(walk[w].todo)]
    BY <1>12, ZenonT(40) DEF RestoreEntry
  <2>3. Wiping(walk') = Wiping(walk)
    BY <2>1, <2>2, WipingKept, Zenon
  <2>4. CASE shard' = shard
    BY <1>7, <2>2, <2>4, ZenonT(40)
  <2>5. CASE Writes(shard[s].table, shard'[s].table, e.key, e.entry, {})
    <3> DEFINE k == e.key
               x == e.entry
    <3>1. k \in Keys /\ x \in Entries /\ Writes(shard[s].table, shard'[s].table, k, x, {})
      BY <2>1, <2>5, Zenon
    <3>2. ShardIndexFor(k) = s /\ s \in Shards /\ TouchesOnly(shard, shard', s)
      BY <2>1, ZenonT(40)
    <3> HIDE DEF k, x, s
    <3>3. EntriesOf(shard') = With(shard, k, x, {})
      BY <1>1, <3>1, <3>2, WholeWrites
    <3>4. Bounded(shard') = Bounded(shard)
      BY <2>1, BoundKept, Zenon
    <3>5. Wiping(walk)
      BY <1>12, ZenonT(40) DEF RestoreEntry, Wiping
    <3>6. Promise!Load(k)
      BY <2>2, <2>3, <3>1, <3>3, <3>4, <3>5, MapsToLoad, ZenonT(40)
    <3> QED BY <3>1, <3>6, Zenon DEF Promise!Next
  <2> QED BY <2>1, <2>4, <2>5, ZenonT(40)
<1>13. ASSUME NEW w \in Walkers,
              \/ Start(w) \/ Collect(w) \/ LimitStore(w) \/ RestoreClock(w) \/ Return(w)
       PROVE  [Promise!Next]_(Promise!vars)
  <2>1. shard' = shard /\ now' = now
    BY <1>13, Zenon DEF Start, Begin, Collect, LimitStore, RestoreClock, Return
  <2> QED BY <1>7, <2>1, Zenon
<1>14. CASE UNCHANGED vars
  BY <1>7, <1>14, Zenon DEF vars
<1>15. ASSUME NEW w \in Walkers, Start(w) \/ Continue(w) PROVE [Promise!Next]_(Promise!vars)
  BY <1>9, <1>10, <1>11, <1>12, <1>13, <1>15, ZenonT(40) DEF Continue
<1> QED
  BY <1>3, <1>4, <1>5, <1>6, <1>14, <1>15, Zenon DEF Next, Set, SetEx

\* The sharded database is one map to its clients: under any interleaving of sets,
\* deletions, expiry, sweeps, limit changes, clears and restores an entry appears or
\* changes only when its key is written and goes only when it is deleted, expired,
\* wiped or evicted while memory is bounded, and never by the write of its own key.
THEOREM ImplementsKeyspace ==
    Spec => IsKeyspace
<1>1. Init => Promise!Init
  <2> SUFFICES ASSUME Init PROVE Promise!Init
    BY Zenon
  <2>1. \A s \in Shards : Stored(shard[s].table) = {} /\ shard[s].maxMemoryBytes = 0
    BY DEF Init, EmptyMap, Stored
  <2>2. KeysIn(shard) = {}
    BY <2>1, Zenon DEF KeysIn
  <2>3. AllEntries = <<>>
    BY <2>2, MappingIs DEF EntriesOf
  <2> QED BY <2>1, <2>3, Zenon DEF Init, Promise!Init, Idle
<1>2. TypeOK /\ [Next]_vars => [Promise!Next]_(Promise!vars)
  BY StepRefines, Zenon
<1> QED
  BY <1>1, <1>2, TablesWellFormed, PTL DEF Spec, IsKeyspace, Promise!Spec
=============================================================================
