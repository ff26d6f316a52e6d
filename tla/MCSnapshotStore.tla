-------------------------- MODULE MCSnapshotStore ---------------------------
(* SnapshotStore for TLC: a SAVE command, the scheduler and main's last save,  *)
(* two-block images.                                                           *)
EXTENDS SnapshotStore

MCSavers == {"save", "schedule", "main"}
=============================================================================
