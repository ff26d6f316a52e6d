---------------------------- MODULE HashTableMap ----------------------------
(***************************************************************************)
(* The map that a HashTable's chains and list stand for, and the promise   *)
(* that the table keeps.                                                   *)
(***************************************************************************)
EXTENDS HashTable

\* The map a table stands for.
Abs(T) ==
    LET list == Recency(T)
        node(k) == T.node[CHOOSE a \in DOMAIN T.node : T.node[a].key = k]
    IN  [data |-> [k \in KeysOf(T) |->
                     [value |-> node(k).value, expiration |-> node(k).expiration]],
         newer |-> {<<T.node[list[p[1]]].key, T.node[list[p[2]]].key>> :
                      p \in {q \in (DOMAIN list) \X (DOMAIN list) : q[1] < q[2]}},
         buckets |-> Len(T.buckets)]

Promise == INSTANCE LruMapSpec WITH map <- [t \in Tables |-> Abs(table[t])]

\* The table with its chains and list is an LruMap: each method has the effect and
\* the return value of the abstract operation, in particular evictOldest removes
\* the least recently used key and removeIf exactly the matching entries of the
\* buckets it scans.
IsLruMap == Promise!Spec
=============================================================================
