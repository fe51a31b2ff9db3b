------------------------------ MODULE MCAccess ------------------------------
(* An instance of Access for TLC.                                          *)
EXTENDS Access, TLC

Alike == Permutations(Clients)
=============================================================================
