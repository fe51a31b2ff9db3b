------------------------------ MODULE MCRollup ------------------------------
(* An instance of Rollup for TLC.                                          *)
EXTENDS Rollup, TLC

CONSTANTS a, b, c, g0, ga, gb, gc, k0, ka, kb

(* Two INSERTs: by project, where b and c are one session in two projects, *)
(* and over all projects.                                                  *)
TwoScopes == <<a :> ga @@ b :> gb @@ c :> gc, [i \in Items |-> g0]>>
TwoKeys == g0 :> k0 @@ ga :> ka @@ gb :> kb @@ gc :> kb
=============================================================================
