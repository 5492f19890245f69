------------------------- MODULE MCAppLifecycle -------------------------
(* AppLifecycle for TLC: its constants are numbers, given in the .cfg. *)
EXTENDS AppLifecycle
=============================================================================
