------------------------------- MODULE LruMap -------------------------------
(***************************************************************************)
(* What a HashTable (include/HashTable.h) promises, as operators on a      *)
(* value m with three fields:                                              *)
(*   data    the entries, a function from the stored keys to              *)
(*           [value, expiration]                                           *)
(*   newer   the recency order: <<a, b>> is in it when a was used more     *)
(*           recently than b                                               *)
(*   buckets the length of the bucket array                                *)
(* HashTable.tla shows that the chains and the linked list of the code     *)
(* implement these operators; Database.tla is built from them.             *)
(***************************************************************************)
EXTENDS Integers, FiniteSets, FiniteSetsExt, Functions

CONSTANTS
    Keys,            \* the keys clients use
    Values,          \* the values they store
    Hash,            \* hashKey, with HashBits bits instead of 64
    HashBits,
    Bytes,           \* length of each key and of each value
    NodeBytes,       \* sizeof(Node) + kAllocationSlack
    SlotBytes,       \* sizeof(std::unique_ptr<Node>)
    DefaultBuckets   \* kDefaultBucketCount

ASSUME HashAssumption ==
    /\ HashBits \in Nat
    /\ Hash \in [Keys -> 0..(2^HashBits - 1)]
ASSUME BytesAssumption ==
    /\ Bytes \in [Keys \cup Values -> Nat]
    /\ NodeBytes \in Nat /\ SlotBytes \in Nat
ASSUME BucketsAssumption == DefaultBuckets \in Nat \ {0}
\* The hash is wide enough: the largest array holds all keys twice over, as one of
\* 2^63 slots does in the code.
ASSUME KeysAssumption ==
    IsFiniteSet(Keys) /\ 8 * Cardinality(Keys) <= 3 * 2^HashBits

\* Entry::expiration without a value, and a time that is past every clock read.
NoExpiration == -1

Entries == [value : Values, expiration : Int]

\* Entry::isExpiredAt.
IsExpiredAt(e, now) == e.expiration # NoExpiration /\ now >= e.expiration

Stored(m) == DOMAIN m.data
Size(m) == Cardinality(Stored(m))

FootprintEstimate(k, v) == NodeBytes + Bytes[k] + Bytes[v]

Footprints(m) == [k \in Stored(m) |-> FootprintEstimate(k, m.data[k].value)]

EntryBytes(m) == SumFunction(Footprints(m))

MemoryUsage(m) == EntryBytes(m) + m.buckets * SlotBytes

\* The low bits of the hash: buckets is a power of two.
BucketIndexFor(k, buckets) == Hash[k] % buckets

PowersOfTwo == {2^i : i \in 0..HashBits}

\* kMaxLoadFactor is 0.75.
Overloaded(size, buckets) == 4 * size > 3 * buckets

\* The bucket count resize(n) settles on: n rounded up to a power of two, then
\* doubled while the entries would overload it.
ResizeTarget(n, size) ==
    Min({p \in PowersOfTwo : p >= n /\ ~Overloaded(size, p)})

-----------------------------------------------------------------------------
EmptyMap(buckets) == [data |-> <<>>, newer |-> {}, buckets |-> buckets]

\* The entries with keys in S and the order among them.
Only(m, S) ==
    [data |-> Restrict(m.data, Stored(m) \cap S),
     newer |-> m.newer \cap (S \X S),
     buckets |-> m.buckets]

Erase(m, k) == Only(m, Stored(m) \ {k})

\* k, which is stored, becomes the most recently used key.
ToFront(m, k) ==
    [data |-> m.data,
     newer |-> {p \in m.newer : p[1] # k /\ p[2] # k} \cup ({k} \X (Stored(m) \ {k})),
     buckets |-> m.buckets]

Touch(m, k) == IF k \in Stored(m) THEN ToFront(m, k) ELSE m

\* growIfNeeded, which put runs after it has added a key.
Grown(m) ==
    IF Overloaded(Size(m), m.buckets)
    THEN [m EXCEPT !.buckets = ResizeTarget(2 * @, Size(m))] ELSE m

\* put: an array lost to a move is allocated again, the entry is stored without
\* an expiration and is the most recent one.
Put(m, k, v) ==
    LET n == IF m.buckets = 0 THEN DefaultBuckets ELSE m.buckets
        e == [value |-> v, expiration |-> NoExpiration]
        stored == [data |-> [x \in Stored(m) \cup {k} |-> IF x = k THEN e ELSE m.data[x]],
                   newer |-> m.newer, buckets |-> n]
    IN  IF k \in Stored(m) THEN ToFront(stored, k) ELSE Grown(ToFront(stored, k))

\* The assignment to find(k)->expiration.
Expire(m, k, at) == [m EXCEPT !.data[k].expiration = at]

\* The stored keys that are the least recently used: one, or none if m is empty.
Oldest(m) == {k \in Stored(m) : \A x \in Stored(m) \ {k} : <<x, k>> \in m.newer}

EvictOldest(m) == Only(m, Stored(m) \ Oldest(m))

\* The buckets removeIf scans: count of them from first on, around the array,
\* and no bucket twice.
Scanned(first, count, buckets) ==
    {(first + i) % buckets : i \in 0..(Min({count, buckets}) - 1)}

\* removeIf: dead is the set of keys whose entry the predicate accepts.
RemoveIf(m, first, count, dead) ==
    LET slice == Scanned(first, count, m.buckets)
    IN  IF m.buckets = 0 \/ count = 0 THEN m
        ELSE Only(m, {k \in Stored(m) :
                        BucketIndexFor(k, m.buckets) \in slice => k \notin dead})

Clear(m) == EmptyMap(m.buckets)

Resize(m, n) == [m EXCEPT !.buckets = ResizeTarget(n, Size(m))]

-----------------------------------------------------------------------------
\* The values m can take: a finite map, its keys in a strict total order, and an
\* array that the entries do not overload.
Maps ==
    {m \in [data : UNION {[S -> Entries] : S \in SUBSET Keys},
            newer : SUBSET (Keys \X Keys),
            buckets : Nat] :
        /\ m.newer \subseteq Stored(m) \X Stored(m)
        /\ \A a, b \in Stored(m) : a # b => (<<a, b>> \in m.newer <=> <<b, a>> \notin m.newer)
        /\ \A a \in Stored(m) : <<a, a>> \notin m.newer
        /\ \A a, b, c \in Stored(m) :
              <<a, b>> \in m.newer /\ <<b, c>> \in m.newer => <<a, c>> \in m.newer
        /\ ~Overloaded(Size(m), m.buckets)}
=============================================================================
