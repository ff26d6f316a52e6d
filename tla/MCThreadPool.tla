---------------------------- MODULE MCThreadPool ----------------------------
(* A small pool for TLC: as many tasks as it can hold, and one more. *)
EXTENDS ThreadPool
=============================================================================
