----------------------------- MODULE LruMapSpec -----------------------------
(***************************************************************************)
(* The promise of the HashTable class as a state machine: a set of table   *)
(* objects, each an LruMap, and what every public operation does to it and *)
(* returns.                                                                *)
(***************************************************************************)
EXTENDS LruMap

CONSTANTS
    Tables,         \* the table objects
    StartBuckets,   \* the bucket counts a constructor is called with
    Puts,           \* the arguments <<key, value>> of put
    Scans,          \* the slices <<first, count>> given to removeIf
    Expirations     \* the writes <<key, expiration>> through find

VARIABLES
    map,            \* the table objects
    call,           \* the operation last called
    result          \* what it returned

Init ==
    /\ map \in [Tables -> {EmptyMap(ResizeTarget(n, 0)) : n \in StartBuckets}]
    /\ call = "none" /\ result = TRUE

\* Table t becomes m by a call of name that returns r.
Become(t, m, name, r) ==
    /\ call' = name
    /\ result' = r
    /\ map' = [map EXCEPT ![t] = m]

\* Below, m is the value table t has before the call.
PutKey(t, m, k, v) == Become(t, Put(m, k, v), "put", k \notin Stored(m))

SetExpiration(t, m, k, at) ==
    k \in Stored(m) /\ Become(t, Expire(m, k, at), "find", TRUE)

RemoveKey(t, m, k) == Become(t, Erase(m, k), "remove", k \in Stored(m))

TouchKey(t, m, k) == Become(t, Touch(m, k), "touch", k \in Stored(m))

Evict(t, m) == Become(t, EvictOldest(m), "evictOldest", Oldest(m))

RemoveMatching(t, m, first, count, dead) ==
    \E kept \in {RemoveIf(m, first, count, dead)} :
        Become(t, kept, "removeIf", Size(m) - Size(kept))

ClearAll(t, m) == Become(t, Clear(m), "clear", TRUE)

ResizeTo(t, m, n) == Become(t, Resize(m, n), "resize", TRUE)

\* u takes over what t held; t is left empty and without a bucket array.
Move(t, m, u) ==
    /\ t # u
    /\ call' = "move" /\ result' = TRUE
    /\ map' = [map EXCEPT ![u] = m, ![t] = EmptyMap(0)]

Next ==
    \E t \in Tables : \E m \in {map[t]} :
        \/ \E p \in Puts : PutKey(t, m, p[1], p[2])
        \/ \E e \in Expirations : SetExpiration(t, m, e[1], e[2])
        \/ \E k \in Keys : RemoveKey(t, m, k) \/ TouchKey(t, m, k)
        \/ Evict(t, m)
        \/ \E scan \in Scans, dead \in SUBSET Stored(m) : RemoveMatching(t, m, scan[1], scan[2], dead)
        \/ ClearAll(t, m)
        \/ \E n \in StartBuckets : ResizeTo(t, m, n)
        \/ \E u \in Tables : Move(t, m, u)

Spec == Init /\ [][Next]_<<call, result, map>>
=============================================================================
