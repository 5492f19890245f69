-------------------------- MODULE MCThreadPool --------------------------
(* ThreadPool for TLC: threads and tasks are the model values of the .cfg. *)
EXTENDS ThreadPool
=============================================================================
