---------------------------- MODULE MCCollections ---------------------------
(* Collections for TLC: one connection, its frames interchangeable by role. *)
EXTENDS Collections, TLC

Symmetric == Permutations(Tickers) \cup Permutations(Requesters) \cup Permutations(Sweeps)
=============================================================================
