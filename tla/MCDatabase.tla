----------------------------- MODULE MCDatabase -----------------------------
(***************************************************************************)
(* Database for TLC: two shards, k1 and k2 in the first and k3 in the      *)
(* second, tables that start with one bucket and grow to four.             *)
(***************************************************************************)
EXTENDS Database, TLC

CONSTANTS k1, k2, k3, v1, v2, w1, w2

MCHash == Restrict((k1 :> 0) @@ (k2 :> 3) @@ (k3 :> 4), Keys)
\* All three in the first shard.
HashCrowded == (k1 :> 0) @@ (k2 :> 3) @@ (k3 :> 1)
MCBytes == Restrict((k1 :> 0) @@ (k2 :> 0) @@ (k3 :> 0) @@ (v1 :> 1) @@ (v2 :> 3),
                    Keys \cup Values)
\* An entry of k2 is larger than a limit of 14; one of k1 or k3 fits a shard's half of it.
BytesOneLarge == (k1 :> 0) @@ (k2 :> 12) @@ (k3 :> 0) @@ (v1 :> 1)

\* Two entries, the second of which expires at time 1.
BackupOf(a, b) ==
    {<<[key |-> a, entry |-> [value |-> v1, expiration |-> NoExpiration]],
       [key |-> b, entry |-> [value |-> v1, expiration |-> 1]]>>}
BackupTwoShards == BackupOf(k1, k3)
BackupOneShard == BackupOf(k1, k2)

JobsSweep == (w1 :> {"sweep"}) @@ (w2 :> {"clear"})
JobsKeyspace == (w1 :> {"limit", "snapshot"}) @@ (w2 :> {"restore", "clear"})
JobsBudget == (w1 :> {"limit"}) @@ (w2 :> {"restore"})
=============================================================================
