---------------------------- MODULE MCAsyncPool ----------------------------
(* Instances of AsyncPool for TLC. *)
EXTENDS AsyncPool, TLC

Symmetry == Permutations(Threads) \cup Permutations(Conns)
=============================================================================
