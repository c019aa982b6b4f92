------------------------------ MODULE MCStreams ------------------------------
(* Readers are interchangeable, and so are tokens; no property is temporal. *)
EXTENDS Streams, TLC

StreamSymmetry == Permutations(Consumers) \cup Permutations(Tokens)
=============================================================================
