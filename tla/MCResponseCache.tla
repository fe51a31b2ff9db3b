--------------------------- MODULE MCResponseCache ---------------------------
(* An instance of ResponseCache for TLC.                                   *)
EXTENDS ResponseCache, TLC

RequestSymmetry == Permutations(Requests) \cup Permutations(Workers)
=============================================================================
