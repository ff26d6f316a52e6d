---------------------------- MODULE MCShardLocks ----------------------------
(***************************************************************************)
(* ShardLocks for TLC: three readers, of which one also writes and one     *)
(* also removes, expires and clears.                                       *)
(***************************************************************************)
EXTENDS ShardLocks, TLC

CONSTANTS t1, t2, t3

MCJobs == (t1 :> {"get"}) @@ (t2 :> {"get", "set"}) @@ (t3 :> {"get", "del", "sweep", "clear"})
=============================================================================
