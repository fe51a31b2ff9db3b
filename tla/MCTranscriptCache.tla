------------------------- MODULE MCTranscriptCache -------------------------
(* An instance of TranscriptCache for TLC: two files that start alike, and *)
(* are rewritten to bodies of other lengths, one larger than the LRU.      *)
EXTENDS TranscriptCache, TLC

CONSTANTS f1, f2, first, longer, huge

MCLength == first :> 1 @@ longer :> 2 @@ huge :> 4
MCHolds == f1 :> <<first, longer>> @@ f2 :> <<first, huge>>

Alike == Permutations(Threads)
=============================================================================
