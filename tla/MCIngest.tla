------------------------------ MODULE MCIngest ------------------------------
(* Instances of Ingest for TLC.                                            *)
EXTENDS Ingest, TLC

CONSTANTS cron, manual, u1, u2

(* Two transcripts that share u1 (a session resumed into a second file);   *)
(* the second version of the first one has grown by u2.                    *)
SharedRecords ==
    [k \in 1..2 |-> [v \in 0..2 |->
        IF v = 0 THEN {} ELSE IF k = 1 /\ v = 2 THEN {u1, u2} ELSE {u1}]]

(* Release 2 learns the format of key 2 without a new PARSER_VERSION;      *)
(* release 3 bumps PARSER_VERSION.                                         *)
ParserVersions == <<1, 1, 2>>
LearnsFormat == <<{1}, {1, 2}, {1, 2}>>

(* Bounds on uploads: a transcript that grows, and one that does not.      *)
OneGrows == <<2, 1>>
BothGrow == <<2, 2>>

(* A single release that parses everything.                                *)
OneParserVersion == <<1>>
ReadsAll == <<{1, 2}>>

SlotSymmetry == Permutations(Triggers)
=============================================================================
