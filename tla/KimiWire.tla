------------------------------ MODULE KimiWire ------------------------------
(***************************************************************************)
(* backend/parse.py: the two Kimi formats and their model ladder.  The     *)
(* state is the parse of a growing wire.jsonl, one action per type of      *)
(* line; log says what each line was, for the properties.                  *)
(*                                                                         *)
(* Both formats stamp lines with a time that may be missing or step back.  *)
(***************************************************************************)
EXTENDS Turns

CONSTANTS
    Stamps,        \* timestamps of lines
    ModelCutoff,   \* MODEL_CUTOFF_DT
    K3Cutoff,      \* K3_CUTOFF_DT
    TurnIds,       \* turnId of a step.begin
    MaxLines,      \* bound: lines of the file
    MaxUsages      \* bound: billing lines among them

ASSUME KimiAssumption ==
    /\ Stamps \subseteq Nat \ {0}
    /\ ModelCutoff \in Nat /\ K3Cutoff \in Nat /\ ModelCutoff <= K3Cutoff
    /\ None \notin TurnIds
    /\ MaxLines \in Nat /\ MaxUsages \in Nat

VARIABLES
    format,   \* "legacy" or "kimi-code" when this file is one
    wire,     \* _ParseState
    log

kimiVars == <<format, wire, log>>

KimiInit == wire = NewParse /\ log = <<>>

(* _canonical_model and _model_for.  "k3" is the one id that settles it.   *)
ModelFor(wireModel, ts) ==
    CASE wireModel = "k3" -> "kimi-k3"
      [] wireModel # "k3" /\ ts = None -> "kimi-k2-7-code"
      [] wireModel # "k3" /\ ts # None /\ ts < ModelCutoff -> "kimi-k2-6"
      [] wireModel = None /\ ts # None /\ ts >= K3Cutoff -> "kimi-k3"
      [] OTHER -> "kimi-k2-7-code"

(* Billed partitions: an empty context, and one that grows with the file.  *)
Usages(n) == {[fresh |-> 0, create |-> 0, read |-> 0, output |-> 1],
              [fresh |-> 1, create |-> 1, read |-> n, output |-> 0]}

ThisLine == Len(log) + 1

(* The first stamped line dates the ones without a stamp.                  *)
Stamped(st, ts) == [st EXCEPT !.first = IF @ = None THEN ts ELSE @]

(* One line is read: handled is what its handler does to the state.  log   *)
(* keeps the stamps that latencies are read off.                           *)
Read(kind, ts, handled) ==
    /\ ThisLine <= MaxLines
    /\ wire' = handled
    /\ log' = Append(log, [kind |-> kind,
                           ts |-> IF kind \in {"prompt", "usage"} THEN ts ELSE None])
    /\ UNCHANGED format

Times == Stamps \cup {None}

-----------------------------------------------------------------------------
(* TurnBegin; turn.prompt and turn.steer.                                  *)
Prompt ==
    \E ts \in Times :
        Read("prompt", ts, TurnBoundary(Stamped(wire, ts), ThisLine, ts))

(* TurnEnd, of the legacy format only.                                     *)
LegacyTurnEnd ==
    /\ format = "legacy"
    /\ \E ts \in Times : Read("end", ts, EndTurn(Stamped(wire, ts), ThisLine))

(* step.begin: a turn id not seen last starts a turn, and arms nothing.    *)
KcStepBegin ==
    /\ format = "kimi-code"
    /\ \E ts \in Times, id \in TurnIds :
        IF id = wire.turnId
        THEN Read("other", ts, Stamped(wire, ts))
        ELSE Read("step", ts,
                  StartTurn([CloseTurn(Stamped(wire, ts), ThisLine) EXCEPT !.turnId = id],
                            ThisLine, ts))

(* ContentPart; content.part; the text of an assistant's message.          *)
Text ==
    \E ts \in Times : Read("text", ts, [Stamped(wire, ts) EXCEPT !.text = @ + 1])

(* ToolCall; tool.call; the toolCalls of an assistant's message.  All     *)
(* edits change as many lines.                                             *)
ToolCall ==
    LET unused == Calls \ {t.call : t \in ToSet(wire.tools)}
    IN /\ unused # {}
       /\ \E ts \in Times :
            Read("other", ts,
                 AppendTool(Stamped(wire, ts), CHOOSE c \in unused : TRUE, None, 2))

(* ToolResult; tool.result; the message of role tool.                      *)
ToolResult ==
    \E ts \in Times, tool \in ToSet(wire.tools), error \in BOOLEAN :
        Read("other", ts, Settle(Stamped(wire, ts), tool.call, error))

UsageLine(ts, uuid, model, toks) ==
    /\ Len(wire.records) < MaxUsages
    /\ LET st == Stamped(wire, ts)
           dated == IF ts = None THEN st.first ELSE ts
       IN Read("usage", ts,
               AppendUsage(st, ThisLine, ts, uuid, ModelFor(model, dated), toks))

(* StatusUpdate with a token_usage.  The format names no model.            *)
LegacyStatusUpdate ==
    /\ format = "legacy"
    /\ \E ts \in Times, uuid \in {None, ThisLine}, toks \in Usages(ThisLine) :
        UsageLine(ts, uuid, None, toks)

(* usage.record: its identity is its place in the file.                    *)
KcUsageRecord ==
    /\ format = "kimi-code"
    /\ \E ts \in Times, model \in {"k3", "kimi-for-coding"}, toks \in Usages(ThisLine) :
        UsageLine(ts, ThisLine, model, toks)

(* llm.error: only an exhausted quota is a hit.                            *)
KcLlmError ==
    /\ format = "kimi-code"
    /\ \E ts \in Times, kind \in {"quota_exhausted", "rate_limit"} :
        LET st == Stamped(wire, ts)
        IN Read("other", ts,
                IF kind = "quota_exhausted"
                THEN [st EXCEPT !.hits = Append(@, ThisLine)] ELSE st)

(* The metadata line dates the file; a line that does not decode, or of a  *)
(* type nobody handles, is skipped once its stamp is read.                 *)
Skipped ==
    \E ts \in Times : Read("other", ts, Stamped(wire, ts))

KimiNext ==
    \/ Prompt \/ LegacyTurnEnd \/ KcStepBegin \/ Text \/ ToolCall \/ ToolResult
    \/ LegacyStatusUpdate \/ KcUsageRecord \/ KcLlmError \/ Skipped

(* What parse_file returns if the file ends here.                          *)
KimiParsed == FinishParse(wire, IF format = "legacy" THEN None ELSE Len(log))
=============================================================================
