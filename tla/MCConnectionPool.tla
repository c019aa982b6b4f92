-------------------------- MODULE MCConnectionPool --------------------------
(* Instances of ConnectionPool for TLC. *)
EXTENDS ConnectionPool, TLC

(* Connections are interchangeable; the callers are not, some have a token. *)
Symmetry == Permutations(Conns)
=============================================================================
