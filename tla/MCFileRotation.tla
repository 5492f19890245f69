-------------------------- MODULE MCFileRotation --------------------------
(* FileRotation for TLC: its constants are numbers, given in the .cfg. *)
EXTENDS FileRotation
=============================================================================
