---------------------------- MODULE MCHashTable -----------------------------
(***************************************************************************)
(* HashTable for TLC: three keys that all share a bucket of a two-slot     *)
(* array; two of them part only when resize reaches eight slots.           *)
(***************************************************************************)
EXTENDS HashTableMap, TLC

CONSTANTS k1, k2, k3, v1, v2

MCHash == (k1 :> 1) @@ (k2 :> 5) @@ (k3 :> 3)
MCBytes == (k1 :> 1) @@ (k2 :> 1) @@ (k3 :> 2) @@ (v1 :> 1) @@ (v2 :> 3)

\* Only k1 is overwritten by a value of another length, only k2 gets an expiration.
MCPuts == {<<k1, v1>>, <<k1, v2>>, <<k2, v1>>, <<k3, v1>>}
MCExpirations == {<<k2, 1>>}

\* One bucket, and a slice that wraps and is longer than the array.
MCScans == {<<1, 1>>, <<3, 5>>}

Symmetry == Permutations(Addresses) \cup Permutations(Tables)

\* call and result record the last step and nothing reads them.
View == table
=============================================================================
