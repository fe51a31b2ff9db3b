------------------------------ MODULE MCParse ------------------------------
(* An instance of ParseFile for TLC.                                       *)
EXTENDS ParseFile

Names == Permutations(Models)
=============================================================================
