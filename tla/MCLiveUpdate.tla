----------------------------- MODULE MCLiveUpdate -----------------------------
(* Instances of LiveUpdate for TLC: one page, one connection, one commit.  *)
EXTENDS LiveUpdate
=============================================================================
