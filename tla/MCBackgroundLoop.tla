-------------------------- MODULE MCBackgroundLoop --------------------------
(* BackgroundLoop for TLC: the sweeper, the scheduler, and one that is off. *)
EXTENDS BackgroundLoop

MCLoops == {"sweeper", "scheduler", "disabled"}
MCDisabled == {"disabled"}
=============================================================================
