----------------------------- MODULE ParseFile -----------------------------
(***************************************************************************)
(* backend/parse.py, parse_file: a transcript is in the format its first   *)
(* telling line says, and is parsed as that.                               *)
(***************************************************************************)
EXTENDS KimiWire, CodexRollout

vars == <<format, wire, log, journal, parsed, asked, counter, replayed, written>>

(* Kinds of line by what they tell: a truncated line tells nothing, and a  *)
(* metadata line without created_at is legacy's.                           *)
Tells ==
    [codex_record |-> "codex", dated_metadata |-> "kimi-code",
     undated_metadata |-> "legacy", kimi_code_record |-> "kimi-code",
     legacy_message |-> "legacy", claude_line |-> "claude"]

Untelling == {"undecodable", "truncated_event_msg"}

(* The format of a file that begins with these lines.                      *)
Detected(head) ==
    LET telling == {n \in DOMAIN head : head[n] \in DOMAIN Tells}
    IN IF telling = {} THEN "legacy" ELSE Tells[head[Min(telling)]]

Init == format = "unread" /\ KimiInit /\ CodexInit

(* UnsupportedTranscriptError leaves a file of Claude's without a row.     *)
Detect ==
    /\ format = "unread"
    /\ \E one, two \in DOMAIN Tells \cup Untelling : format' = Detected(<<one, two>>)
    /\ UNCHANGED <<wire, log, codexVars>>

Next ==
    \/ Detect
    \/ /\ format \in {"legacy", "kimi-code"}
       /\ KimiNext
       /\ UNCHANGED codexVars
    \/ /\ format = "codex"
       /\ CodexNext
       /\ UNCHANGED kimiVars

Spec == Init /\ [][Next]_vars

(* What parse_file would return of each file there is.                     *)
Parses ==
    {[result |-> KimiParsed, log |-> log]}
        \cup {[result |-> parsed[f], log |-> LogOf(f)] : f \in Rollouts}

(* A reply's latency runs from the last prompt, if nothing answered that   *)
(* before and no turn has ended since, and its text is what its turn said  *)
(* up to there: in every format, whatever lines come between, missing      *)
(* stamps included.  A kimi-code step may open a turn that was not         *)
(* prompted without an end before it: its reply is timed from the prompt   *)
(* of the turn before.  (parse_common.py, the anchor)                      *)
LatencyFromOwnPrompt == \A p \in Parses : TimedByLog(p.result, p.log)

(* The context trace has exactly one point for each turn that billed a     *)
(* context, its last, in order, and its deltas add up.  (parse_common.py,  *)
(* _ctx_turns_from_turns)                                                  *)
TraceOnePerTurn == \A p \in Parses : TracedByLog(p.result, p.log)
=============================================================================
