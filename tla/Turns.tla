------------------------------- MODULE Turns -------------------------------
(***************************************************************************)
(* backend/parse_common.py: the state of one parse, and what every format  *)
(* of transcript does to it.  A handler is an operator from the state to   *)
(* the next one; KimiWire and CodexRollout have the formats.               *)
(*                                                                         *)
(* Lines changed by an edit are one number, for lines_added and            *)
(* lines_deleted alike.  turn_has_assistant_event is left out: the code    *)
(* sets it and never reads it.                                             *)
(***************************************************************************)
EXTENDS Integers, Sequences, FiniteSets, SequencesExt

CONSTANTS
    None,   \* Python's None
    Calls   \* tool_call ids

(* A turn: its stamp, where it begins and ends, the lines that billed.     *)
TurnRecord ==
    [begin : Nat, ts : Int \cup {None}, end : Nat \cup {None}, lines : Seq(Nat)]

ASSUME NoneAssumption == None \notin Int \cup Calls \cup TurnRecord

(* A record, with the fields of another that it lacks.                     *)
f ++ g == [x \in DOMAIN f \cup DOMAIN g |-> IF x \in DOMAIN f THEN f[x] ELSE g[x]]

(* _ParseState *)
NewParse ==
    [records |-> <<>>, tools |-> <<>>, hits |-> <<>>, turns |-> <<>>,
     results |-> [c \in Calls |-> None],    \* tool_result_is_error
     turn |-> None, turnId |-> None,        \* current_turn, current_turn_id
     anchor |-> None,                       \* pending_turn_begin_ts
     text |-> 0,                            \* text_chars_since_turn
     first |-> None]                        \* first_event_ts

CloseTurn(st, n) ==
    IF st.turn = None THEN st
    ELSE [st EXCEPT !.turns = Append(@, [st.turn EXCEPT !.end = n]),
                    !.turn = None]

StartTurn(st, n, ts) ==
    [st EXCEPT !.turn = [begin |-> n, ts |-> ts, end |-> None, lines |-> <<>>],
               !.text = 0]

TurnBoundary(st, n, ts) ==
    [StartTurn(CloseTurn(st, n), n, ts) EXCEPT !.anchor = ts]

(* Seeded fault: the end of a turn leaves its anchor for the next one.     *)
EndKeepsAnchor(st, n) == CloseTurn(st, n)

(* An explicit end disarms the anchor with the turn.                       *)
EndTurn(st, n) ==
    IF st.turn = None THEN st ELSE [CloseTurn(st, n) EXCEPT !.anchor = None]

ReplyLatency(st, ts) ==
    IF st.anchor # None /\ ts # None /\ ts >= st.anchor
    THEN ts - st.anchor ELSE None

AppendTool(st, call, turn, lines) ==
    [st EXCEPT !.tools = Append(@, [call |-> call, turn |-> turn,
                                    lines |-> lines, error |-> None])]

(* One billing record.  The anchor is used up whether or not it gives a    *)
(* latency.  toks is the billed partition: its input side, fresh, written  *)
(* and read, is the context.                                               *)
AppendUsage(st, n, ts, uuid, model, toks) ==
    [st EXCEPT
        !.records = Append(@, [line |-> n, uuid |-> uuid, ts |-> ts,
                               model |-> model, toks |-> toks,
                               text |-> st.text,
                               latency |-> ReplyLatency(st, ts)]),
        !.anchor = None,
        !.turn = IF @ = None THEN @ ELSE [st.turn EXCEPT !.lines = Append(@, n)]]

Context(r) == r.toks.fresh + r.toks.create + r.toks.read

(* A result settles its call; the last one read of a call counts.          *)
Settle(st, call, error) ==
    IF call = None THEN st ELSE [st EXCEPT !.results[call] = error]

ResolvedTool(tool, results) ==
    IF tool.call = None \/ results[tool.call] = None THEN tool
    ELSE [tool EXCEPT !.error = results[tool.call],
                      !.lines = IF results[tool.call] THEN 0 ELSE @]

ResolveToolErrors(tools, results) ==
    [i \in DOMAIN tools |-> ResolvedTool(tools[i], results)]

RecordAt(records, n) == SelectLastInSeq(records, LAMBDA r : r.line = n)

(* Seeded fault: the first record of a turn stands for it.                 *)
TraceFromFirst(turns, records) ==
    FoldLeft(
        LAMBDA trace, turn :
            IF turn.lines = <<>> THEN trace
            ELSE LET r == records[RecordAt(records, Head(turn.lines))]
                     before == IF trace = <<>> THEN 0 ELSE Last(trace).input
                 IN IF Context(r) <= 0 THEN trace
                    ELSE Append(trace, [line |-> r.line,
                                        input |-> Context(r),
                                        delta |-> Context(r) - before]),
        <<>>, turns)

(* ctx_turns: the last record of each turn that has one.                   *)
CtxTurns(turns, records) ==
    FoldLeft(
        LAMBDA trace, turn :
            IF turn.lines = <<>> THEN trace
            ELSE LET r == records[RecordAt(records, Last(turn.lines))]
                     before == IF trace = <<>> THEN 0 ELSE Last(trace).input
                 IN IF Context(r) <= 0 THEN trace
                    ELSE Append(trace, [line |-> r.line,
                                        input |-> Context(r),
                                        delta |-> Context(r) - before]),
        <<>>, turns)

(* The tail of every parse.  n is None for the legacy format, whose open   *)
(* turn is kept without an end.                                            *)
FinishParse(st, n) ==
    LET closed == CloseTurn(st, n)
    IN [records |-> closed.records, hits |-> closed.hits,
        tools |-> ResolveToolErrors(closed.tools, closed.results),
        trace |-> CtxTurns(closed.turns, closed.records)]

-----------------------------------------------------------------------------
(* What the parse should say, read off the transcript itself.  A log is    *)
(* the sequence of what its lines were: prompt (arms the anchor), step     *)
(* (starts a turn without one), end, text, usage, other; line i is log[i]. *)

Starts(log, i) == log[i].kind \in {"prompt", "step"}
Ends(log, i) == log[i].kind = "end"

(* The lines after j and before i are of none of the kinds.                *)
NoneBetween(log, j, i, kinds) == \A k \in j + 1 .. i - 1 : log[k].kind \notin kinds

LatencyByLog(log, i) ==
    LET prompts == {j \in 1 .. i - 1 :
                      /\ log[j].kind = "prompt"
                      /\ NoneBetween(log, j, i, {"prompt", "usage", "end"})}
    IN IF \E j \in prompts : /\ log[j].ts # None /\ log[i].ts # None
                             /\ log[i].ts >= log[j].ts
       THEN log[i].ts - log[CHOOSE j \in prompts : TRUE].ts ELSE None

TextByLog(log, i) ==
    Cardinality({j \in 1 .. i - 1 :
                   /\ log[j].kind = "text"
                   /\ NoneBetween(log, j, i, {"prompt", "step"})})

(* The lines whose record stands for a turn: in one, and the last in it.   *)
TurnEnds(log) ==
    {i \in DOMAIN log :
        /\ log[i].kind = "usage"
        /\ \E j \in 1 .. i - 1 :
             Starts(log, j) /\ NoneBetween(log, j, i, {"prompt", "step", "end"})
        /\ ~\E k \in i + 1 .. Len(log) :
             /\ log[k].kind = "usage"
             /\ NoneBetween(log, i, k, {"prompt", "step", "end"})}

(* Each record of a parse has the latency of the prompt it answers and the *)
(* text of its own turn.                                                   *)
TimedByLog(parsed, log) ==
    \A r \in ToSet(parsed.records) :
        r.latency = LatencyByLog(log, r.line) /\ r.text = TextByLog(log, r.line)

(* The trace has the turns that billed a context, in order, and its        *)
(* deltas add up to the context of each.                                   *)
TracedByLog(parsed, log) ==
    LET trace == parsed.trace
        inputs == [i \in DOMAIN trace |-> trace[i].input]
    IN /\ {t.line : t \in ToSet(trace)} =
            {r.line : r \in {s \in ToSet(parsed.records) :
                                s.line \in TurnEnds(log) /\ Context(s) > 0}}
       /\ \A i \in DOMAIN trace :
            /\ i > 1 => trace[i - 1].line < trace[i].line
            /\ FoldLeft(LAMBDA sum, t : sum + t.delta, 0, SubSeq(trace, 1, i)) = inputs[i]
=============================================================================
