------------------------------ MODULE Keyspace ------------------------------
(***************************************************************************)
(* What the Database promises its clients, without shards, tables, locks   *)
(* or recency: one map from keys to entries in which                       *)
(*   - an entry appears or changes only when someone writes that key;      *)
(*   - a key goes only when it is deleted, when it has expired, when the   *)
(*     database is being wiped, or to make room while memory is bounded;   *)
(*   - the key being written is never the one that makes room.             *)
(***************************************************************************)
EXTENDS Integers, Functions

CONSTANTS Keys, Values, Ttls, NoExpiration

VARIABLES
    store,      \* the entries, expired ones included until they are reclaimed
    now,        \* the clock
    bounded,    \* some part of the database has a memory limit
    wiping      \* a clear or a restore is in progress

vars == <<store, now, bounded, wiping>>

Stored == DOMAIN store
Expired == {k \in Stored : store[k].expiration # NoExpiration /\ now >= store[k].expiration}
Without(S) == Restrict(store, Stored \ S)

Init ==
    /\ store = <<>>
    /\ now = 0
    /\ bounded = FALSE
    /\ wiping = FALSE

\* k is written; other keys may have to make room for it.
Write(k, e) ==
    /\ \E lost \in SUBSET (Stored \ {k}) :
          /\ lost # {} => bounded
          /\ store' = [x \in (Stored \ lost) \cup {k} |-> IF x = k THEN e ELSE store[x]]
    /\ UNCHANGED <<now, bounded, wiping>>

WriteNew(k, v) ==
    \/ Write(k, [value |-> v, expiration |-> NoExpiration])
    \/ \E ttl \in Ttls : Write(k, [value |-> v, expiration |-> now + ttl])

Delete(k) ==
    /\ store' = Without({k})
    /\ UNCHANGED <<now, bounded, wiping>>

Reclaim ==
    /\ \E dead \in SUBSET Expired : store' = Without(dead)
    /\ UNCHANGED <<now, bounded, wiping>>

\* Memory becomes bounded or unbounded, a part at a time.
Bound(b) ==
    /\ bounded' = b
    /\ \E lost \in SUBSET Stored : (lost # {} => b) /\ store' = Without(lost)
    /\ UNCHANGED <<now, wiping>>

Wipe ==
    /\ wiping
    /\ \E gone \in SUBSET Stored : store' = Without(gone)
    /\ UNCHANGED <<now, bounded, wiping>>

\* While wiping, a restore writes entries of its own and makes no room for them.
Load(k) ==
    /\ wiping
    /\ DOMAIN store' = Stored \cup {k}
    /\ store'[k].value \in Values
    /\ \A x \in Stored \ {k} : store'[x] = store[x]
    /\ UNCHANGED <<now, bounded, wiping>>

BeginOrEndWipe ==
    /\ wiping' = ~wiping
    /\ UNCHANGED <<store, now, bounded>>

Tick ==
    /\ now' = now + 1
    /\ UNCHANGED <<store, bounded, wiping>>

Next ==
    \/ \E k \in Keys, v \in Values : WriteNew(k, v)
    \/ \E k \in Keys : Delete(k) \/ Load(k)
    \/ \E b \in BOOLEAN : Bound(b)
    \/ Reclaim \/ Wipe \/ BeginOrEndWipe \/ Tick

Spec == Init /\ [][Next]_vars
=============================================================================
