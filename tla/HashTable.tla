----------------------------- MODULE HashTable ------------------------------
(***************************************************************************)
(* HashTable (include/HashTable.h, src/HashTable.cpp) at the level of its  *)
(* pointers: bucket chains that own the nodes, and the doubly linked       *)
(* recency list threaded through the same nodes.                           *)
(*                                                                         *)
(* A table is a record with the fields of the class; node is its part of   *)
(* the heap, a function from the addresses of the nodes it owns.  A chain  *)
(* is the sequence of addresses along Node::next.  Operators carry the     *)
(* names of the methods they translate.  Calls are sequential here: the    *)
(* interleaving of lookups and promotions under the locks is a question    *)
(* of its own.                                                             *)
(***************************************************************************)
EXTENDS LruMap, Sequences

CONSTANTS
    Tables,         \* the table objects
    Addresses,      \* where nodes can be allocated
    Null,           \* nullptr
    StartBuckets,   \* arguments of the constructor and of resize
    Puts,           \* the arguments <<key, value>> of put
    Scans,          \* the slices <<first, count>> given to removeIf
    Expirations     \* the writes <<key, expiration>> through find

ASSUME AddressesAssumption == Null \notin Addresses
ASSUME PutsAssumption == Puts \subseteq Keys \X Values
\* Arguments are of type size_t, of which the largest power of two is 2^HashBits.
ASSUME StartAssumption == StartBuckets \subseteq 0..2^HashBits
ASSUME ScansAssumption == Scans \subseteq Nat \X Nat
ASSUME ExpirationsAssumption == Expirations \subseteq Keys \X Int

VARIABLES
    table,          \* the table objects
    call,           \* the operation last called
    result          \* what it returned

vars == <<call, result, table>>

KeysOf(T) == {T.node[a].key : a \in DOMAIN T.node}

ChainOf(T, k) == T.buckets[BucketIndexFor(k, Len(T.buckets)) + 1]

\* The first node on k's chain that holds k.
findNode(T, k) ==
    LET chain == IF T.buckets = <<>> THEN <<>> ELSE ChainOf(T, k)
        hits == {i \in DOMAIN chain : T.node[chain[i]].key = k}
    IN  IF hits = {} THEN Null ELSE chain[Min(hits)]

lruPushFront(T, a) ==
    LET linked == [T.node EXCEPT ![a].lruPrev = Null, ![a].lruNext = T.lruHead]
    IN  [T EXCEPT !.node = IF T.lruHead = Null THEN linked
                           ELSE [linked EXCEPT ![T.lruHead].lruPrev = a],
                  !.lruHead = a,
                  !.lruTail = IF @ = Null THEN a ELSE @]

\* Mutant of lruUnlink: the tail is not moved when the last node goes.
lruUnlinkKeepTail(T, a) ==
    LET p == T.node[a].lruPrev
        n == T.node[a].lruNext
        skipFwd == IF p = Null THEN T.node ELSE [T.node EXCEPT ![p].lruNext = n]
        skipBack == IF n = Null THEN skipFwd ELSE [skipFwd EXCEPT ![n].lruPrev = p]
    IN  [T EXCEPT !.node = [skipBack EXCEPT ![a].lruPrev = Null, ![a].lruNext = Null],
                  !.lruHead = IF p = Null /\ @ = a THEN n ELSE @]

lruUnlink(T, a) ==
    LET p == T.node[a].lruPrev
        n == T.node[a].lruNext
        skipFwd == IF p = Null THEN T.node ELSE [T.node EXCEPT ![p].lruNext = n]
        skipBack == IF n = Null THEN skipFwd ELSE [skipFwd EXCEPT ![n].lruPrev = p]
    IN  [T EXCEPT !.node = [skipBack EXCEPT ![a].lruPrev = Null, ![a].lruNext = Null],
                  !.lruHead = IF p = Null /\ @ = a THEN n ELSE @,
                  !.lruTail = IF n = Null /\ @ = a THEN p ELSE @]

\* A node with key k goes to the front of its chain.
chainFront(buckets, k, a) ==
    [buckets EXCEPT ![BucketIndexFor(k, Len(buckets)) + 1] = <<a>> \o @]

noChains(n) == [b \in 1..n |-> <<>>]

\* The nodes along some chains, one chain after the other.
along(chains) ==
    LET upTo[i \in 0..Len(chains)] == IF i = 0 THEN <<>> ELSE upTo[i - 1] \o chains[i]
    IN  upTo[Len(chains)]

\* The nodes are relinked one by one, old chains in order.
relink(node, nodes, array) ==
    LET after[i \in 0..Len(nodes)] ==
            IF i = 0 THEN array ELSE chainFront(after[i - 1], node[nodes[i]].key, nodes[i])
    IN  after[Len(nodes)]

resize(T, n) ==
    LET target == ResizeTarget(n, T.size)
    IN  IF target = Len(T.buckets) THEN T
        ELSE [T EXCEPT !.buckets = relink(T.node, along(@), noChains(target))]

growIfNeeded(T) ==
    IF Overloaded(T.size, Len(T.buckets)) THEN resize(T, 2 * Len(T.buckets)) ELSE T

\* put of a key that is stored at a: a write clears the expiration and is a use.
overwrite(T, a, v) ==
    LET updated == FootprintEstimate(T.node[a].key, v)
        written == [T EXCEPT !.node[a].value = v,
                             !.node[a].expiration = NoExpiration,
                             !.node[a].footprint = updated,
                             !.entryBytes = @ - T.node[a].footprint + updated]
    IN  lruPushFront(lruUnlink(written, a), a)

\* put of a new key, in a node allocated at a.
insert(T, a, k, v) ==
    LET array == IF T.buckets = <<>> THEN noChains(DefaultBuckets) ELSE T.buckets
        fresh == [key |-> k, value |-> v, expiration |-> NoExpiration,
                  footprint |-> FootprintEstimate(k, v), lruPrev |-> Null, lruNext |-> Null]
        added == [T EXCEPT !.node = [x \in DOMAIN @ \cup {a} |-> IF x = a THEN fresh ELSE @[x]],
                           !.buckets = chainFront(array, k, a),
                           !.size = @ + 1,
                           !.entryBytes = @ + fresh.footprint]
    IN  growIfNeeded(lruPushFront(added, a))

\* A chain without the node at a.
without(chain, a) ==
    LET at == CHOOSE i \in DOMAIN chain : chain[i] = a
    IN  IF a \in Range(chain)
        THEN [i \in 1..(Len(chain) - 1) |-> IF i < at THEN chain[i] ELSE chain[i + 1]]
        ELSE chain

\* Mutant of unchain: the bytes of the entry stay in the total.
unchainKeepBytes(T, a) ==
    LET off == lruUnlink([T EXCEPT !.buckets = [b \in DOMAIN @ |-> without(@[b], a)],
                                   !.size = @ - 1], a)
    IN  [off EXCEPT !.node = Restrict(@, DOMAIN @ \ {a})]

\* The node at a leaves its chain, the totals and the list, and is freed.
unchain(T, a) ==
    LET spliced == [T EXCEPT
            !.buckets = [b \in DOMAIN @ |-> without(@[b], a)],
            !.size = @ - 1,
            !.entryBytes = @ - T.node[a].footprint]
        off == lruUnlink(spliced, a)
    IN  [off EXCEPT !.node = Restrict(@, DOMAIN @ \ {a})]

remove(T, k) ==
    LET a == findNode(T, k) IN IF a = Null THEN T ELSE unchain(T, a)

touch(T, k) ==
    LET a == findNode(T, k)
    IN  IF a = Null \/ T.lruHead = a THEN T ELSE lruPushFront(lruUnlink(T, a), a)

\* Mutant of evictOldest: the other end of the list.
evictNewest(T) ==
    IF T.lruHead = Null THEN T ELSE remove(T, T.node[T.lruHead].key)

\* The key at the tail is copied out, and removed like any other.
evictOldest(T) ==
    IF T.lruTail = Null THEN T ELSE remove(T, T.node[T.lruTail].key)

\* The nodes a scan meets, in this order.
scanned(T, first, count) ==
    LET total == Len(T.buckets)
    IN  along([i \in 1..Min({count, total}) |-> T.buckets[((first + i - 1) % total) + 1]])

\* A node goes if the predicate accepts it.
sift(T, a, dead) == IF T.node[a].key \in dead THEN unchain(T, a) ELSE T

removeIf(T, first, count, dead) ==
    LET nodes == scanned(T, first, count)
        after[i \in 0..Len(nodes)] == IF i = 0 THEN T ELSE sift(after[i - 1], nodes[i], dead)
    IN  IF T.buckets = <<>> \/ count = 0 THEN T ELSE after[Len(nodes)]

emptyTable(n) ==
    [buckets |-> noChains(n), node |-> <<>>, size |-> 0, entryBytes |-> 0,
     lruHead |-> Null, lruTail |-> Null]

clear(T) == emptyTable(Len(T.buckets))

-----------------------------------------------------------------------------
Init ==
    /\ table \in [Tables -> {emptyTable(ResizeTarget(n, 0)) : n \in StartBuckets}]
    /\ call = "none" /\ result = TRUE

Free == Addresses \ UNION {DOMAIN table[t].node : t \in Tables}

\* Table t becomes T by a call of name that returns r.
Become(t, T, name, r) ==
    /\ table' = [table EXCEPT ![t] = T]
    /\ call' = name
    /\ result' = r

PutKey(t, k, v) ==
    LET a == findNode(table[t], k)
    IN  \/ a # Null /\ Become(t, overwrite(table[t], a, v), "put", FALSE)
        \/ a = Null /\ \E b \in Free : Become(t, insert(table[t], b, k, v), "put", TRUE)

\* Database writes an expiration through the pointer find returns.
SetExpiration(t, k, at) ==
    LET a == findNode(table[t], k)
    IN  /\ a # Null
        /\ Become(t, [table[t] EXCEPT !.node[a].expiration = at], "find", TRUE)

RemoveKey(t, k) ==
    Become(t, remove(table[t], k), "remove", findNode(table[t], k) # Null)

TouchKey(t, k) ==
    Become(t, touch(table[t], k), "touch", findNode(table[t], k) # Null)

Evict(t) ==
    LET tail == table[t].lruTail
    IN  Become(t, evictOldest(table[t]),
               "evictOldest", IF tail = Null THEN {} ELSE {table[t].node[tail].key})

RemoveMatching(t, first, count, dead) ==
    LET T == removeIf(table[t], first, count, dead)
    IN  Become(t, T, "removeIf", table[t].size - T.size)

ClearAll(t) == Become(t, clear(table[t]), "clear", TRUE)

ResizeTo(t, n) == Become(t, resize(table[t], n), "resize", TRUE)

\* The move constructor and assignment: u's own nodes are destroyed, t's change
\* owner where they are, and t is left without an array.
Move(t, u) ==
    /\ t # u
    /\ table' = [table EXCEPT ![u] = table[t], ![t] = emptyTable(0)]
    /\ call' = "move" /\ result' = TRUE

Next ==
    \E t \in Tables :
        \/ \E p \in Puts : PutKey(t, p[1], p[2])
        \/ \E e \in Expirations : SetExpiration(t, e[1], e[2])
        \/ \E k \in Keys : RemoveKey(t, k) \/ TouchKey(t, k)
        \/ Evict(t)
        \/ \E scan \in Scans, dead \in SUBSET KeysOf(table[t]) : RemoveMatching(t, scan[1], scan[2], dead)
        \/ ClearAll(t)
        \/ \E n \in StartBuckets : ResizeTo(t, n)
        \/ \E u \in Tables : Move(t, u)

Spec == Init /\ [][Next]_vars

-----------------------------------------------------------------------------
\* The nodes in the order of the recency list, from the head along lruNext.
Recency(T) ==
    LET at[i \in 1..Cardinality(DOMAIN T.node)] ==
            IF i = 1 THEN T.lruHead
            ELSE LET a == at[i - 1] IN IF a \in DOMAIN T.node THEN T.node[a].lruNext ELSE Null
    IN  at

\* lruPushFront, lruUnlink, lruClear and the moves keep the list intact: from the
\* head it visits each node the chains own exactly once and ends at the tail,
\* lruPrev mirrors lruNext, and no end points at a freed node.
RecencyListIntact ==
    \A t \in Tables :
        LET T == table[t]
            list == Recency(T)
            n == Len(list)
        IN  /\ Range(list) = DOMAIN T.node
            /\ T.lruHead = (IF n = 0 THEN Null ELSE list[1])
            /\ T.lruTail = (IF n = 0 THEN Null ELSE list[n])
            /\ \A i \in 1..n :
                  /\ T.node[list[i]].lruPrev = (IF i = 1 THEN Null ELSE list[i - 1])
                  /\ T.node[list[i]].lruNext = (IF i = n THEN Null ELSE list[i + 1])

\* size_ and entryBytes_ are adjusted by differences (put, remove, removeIf) and
\* never recomputed, and still agree with the nodes: no drift, no wrap below 0.
TotalsExact ==
    \A t \in Tables :
        LET T == table[t]
        IN  /\ T.size = Cardinality(DOMAIN T.node)
            /\ T.entryBytes = SumFunction([a \in DOMAIN T.node |->
                                 FootprintEstimate(T.node[a].key, T.node[a].value)])
=============================================================================
