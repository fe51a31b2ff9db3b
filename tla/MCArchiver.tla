------------------------------ MODULE MCArchiver ------------------------------
(* An instance of Archiver for TLC.                                        *)
EXTENDS Archiver, TLC

CONSTANTS j1, j2

(* Two projects with one rollout each.                                     *)
OneEach == <<j1, j2>>

RunSymmetry == Permutations(Runs)
=============================================================================
