--------------------------- MODULE MCTransactions ---------------------------
(* Instances of Transactions for TLC. *)
EXTENDS Transactions, TLC

(* Effects are interchangeable. *)
Symmetry == Permutations(Effects)
=============================================================================
