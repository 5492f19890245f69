----------------------------- MODULE MCTcpChat -----------------------------
(* TcpChat for TLC: its clients are interchangeable where only safety is    *)
(* asked.                                                                  *)
EXTENDS TcpChat, TLC

Interchangeable == Permutations(Clients)
=============================================================================
