------------------------------ MODULE MCServer ------------------------------
(* Server for TLC: few enough descriptors and queue places that both run out. *)
EXTENDS Server
=============================================================================
