---------------------------- MODULE CodexRollout ----------------------------
(***************************************************************************)
(* backend/parse_codex.py, over the rollouts of one thread: the one that   *)
(* codex started and the one it forked.  Codex is the environment: it      *)
(* appends to the journals what the parser's comments measured, so a fork  *)
(* replays history of its parent, keeps its session id and goes on from    *)
(* its counter, and readings are repeated.  Parsing is a fold over a       *)
(* journal; both spellings of an event are one kind of line.               *)
(*                                                                         *)
(* The readings are [input, cached, write, output], componentwise          *)
(* cumulative; reasoning_output_tokens, a subset of output that is only    *)
(* carried, is left out, and total_tokens is input + output.               *)
(***************************************************************************)
EXTENDS Turns, TLC

CONSTANTS
    Models,          \* what a turn_context declares
    Subscribed,      \* is codex on a ChatGPT plan, named by every reading
    LongContext,     \* pricing.LONG_CONTEXT_THRESHOLD
    MaxWritten,      \* bound: lines codex writes of its own
    MaxRequests,     \* bound: requests of the thread
    MaxWork,         \* bound: calls, results and patches in all
    MaxMarks         \* bound: the thread's other lines

UsageKeys == {"input", "cached", "write", "output"}
Rollouts == {"parent", "fork"}

ASSUME CodexAssumption ==
    /\ None \notin Models \cup [UsageKeys -> Int] \cup {"s"} \cup BOOLEAN
                      \cup [row : Nat, turn : Rollouts \X Nat]
    /\ Subscribed \in BOOLEAN
    /\ {LongContext, MaxWritten, MaxRequests, MaxWork, MaxMarks} \subseteq Nat

VARIABLES
    journal,    \* per rollout, its lines
    parsed,     \* what parse returns of each, as it stands
    asked,      \* every request made
    counter,    \* per rollout, the thread's cumulative usage
    replayed,   \* how many lines of the fork are not its own
    written     \* lines written so far, for the bounds

codexVars == <<journal, parsed, asked, counter, replayed, written>>

Nothing == [k \in UsageKeys |-> 0]
Plus(a, b) == [k \in UsageKeys |-> a[k] + b[k]]
Minus(a, b) == [k \in UsageKeys |-> a[k] - b[k]]
TotalTokens(u) == u.input + u.output

-----------------------------------------------------------------------------
(* The parser.                                                             *)

(* _codex_model: an unknown model is the flagship.                         *)
CodexModel(raw) == IF raw = None THEN "gpt-6-astra" ELSE raw

(* A turn_context, or a thread_settings_applied.                           *)
DeclaresModel(line) == line.kind = "turn_context"

SoleModel(lines) ==
    LET declared == {l.model : l \in {m \in ToSet(lines) : DeclaresModel(m)}}
    IN IF Cardinality(declared) = 1 THEN CHOOSE m \in declared : TRUE ELSE None

(* _CodexState: a _ParseState, and what only this format needs.            *)
NewCodexParse(lines) ==
    [records |-> <<>>, tools |-> <<>>, hits |-> <<>>, turns |-> <<>>,
     results |-> NewParse.results, turn |-> None, turnId |-> None,
     anchor |-> None, text |-> 0, first |-> None,
     prevUsage |-> None, model |-> None, sole |-> SoleModel(lines),
     patchTarget |-> None, lastLimit |-> None, subscription |-> FALSE,
     session |-> None]

ModelInForce(st) == CodexModel(IF st.model = None THEN st.sole ELSE st.model)

(* Seeded fault: a rollout's first reading is taken whole.                 *)
BaselineZero(st, line) ==
    IF st.prevUsage = None THEN Nothing ELSE st.prevUsage

(* What the next reading is compared with: for the first one, the reading  *)
(* without the request that made it.                                       *)
Baseline(st, line) ==
    IF st.prevUsage = None THEN Minus(line.total, line.last) ELSE st.prevUsage

(* Cached and written inputs are subsets of the input.                     *)
Partition(delta) ==
    LET clamped == [k \in UsageKeys |-> IF delta[k] > 0 THEN delta[k] ELSE 0]
        fresh == clamped.input - clamped.cached - clamped.write
    IN [fresh |-> IF fresh > 0 THEN fresh ELSE 0, create |-> clamped.write,
        read |-> clamped.cached, output |-> clamped.output]

RecordUuid(st, file, n, total) ==
    IF st.session = None THEN <<file, n>> ELSE <<st.session, TotalTokens(total)>>

(* _codex_rate_limit: consecutive repeats of a condition are one hit.      *)
RateLimit(st, n, line) ==
    [st EXCEPT !.lastLimit = line.limit,
               !.hits = IF line.limit \in {None, st.lastLimit} THEN @ ELSE Append(@, n)]

(* _codex_token_count: a plan counts once its reading is booked.           *)
TokenCount(st, file, n, line) ==
    LET delta == Minus(line.total, Baseline(st, line))
        seen == [st EXCEPT !.prevUsage = line.total]
        subscribed == st.subscription \/ line.plan
    IN IF \A k \in UsageKeys : delta[k] <= 0 THEN seen
       ELSE AppendUsage([seen EXCEPT !.subscription = subscribed],
                        n, line.ts, RecordUuid(st, file, n, line.total),
                        ModelInForce(st),
                        Partition(delta)
                          ++ [long |-> ~subscribed /\ delta.input > LongContext])

(* _codex_tool_call: lines is the churn of the program's shell payloads,   *)
(* turn the turn_id of a program that applies patches.                     *)
CodexToolCall(st, line) ==
    LET called == AppendTool(st, line.call, line.turn, line.lines)
    IN IF line.patches
       THEN [called EXCEPT !.patchTarget = [row |-> Len(called.tools), turn |-> line.turn]]
       ELSE called

(* Seeded fault: a patch goes to the last call, whatever its turn.         *)
PatchAnyTurn(st, line) ==
    LET lines == IF line.ok THEN line.lines ELSE 0
    IN IF st.patchTarget # None
       THEN [st EXCEPT !.tools[st.patchTarget.row].lines = @ + lines]
       ELSE LET own == AppendTool(st, None, line.turn, lines)
            IN [own EXCEPT !.tools[Len(own.tools)].error = ~line.ok]

(* _codex_patch: onto the last call that patches, if it is of this turn;   *)
(* a subagent's patch has a row of its own.                                *)
Patch(st, line) ==
    LET lines == IF line.ok THEN line.lines ELSE 0
    IN IF st.patchTarget # None /\ st.patchTarget.turn = line.turn
       THEN [st EXCEPT !.tools[st.patchTarget.row].lines = @ + lines]
       ELSE LET own == AppendTool(st, None, line.turn, lines)
            IN [own EXCEPT !.tools[Len(own.tools)].error = ~line.ok]

(* session_meta: the first one wins.                                       *)
SessionMeta(st, line) ==
    [st EXCEPT !.session = IF @ = None THEN line.session ELSE @]

(* _codex_dispatch, _codex_event_msg, _codex_response_item                 *)
Dispatch(st, file, n, line) ==
    CASE line.kind = "session_meta" -> SessionMeta(st, line)
      [] DeclaresModel(line) -> [st EXCEPT !.model = line.model]
      [] line.kind = "token_count" -> TokenCount(RateLimit(st, n, line), file, n, line)
      [] line.kind = "task_started" -> TurnBoundary(st, n, line.ts)
      [] line.kind \in {"task_complete", "turn_aborted"} -> EndTurn(st, n)
      [] line.kind = "agent_message" -> [st EXCEPT !.text = @ + 1]
      [] line.kind = "tool_call" -> CodexToolCall(st, line)
      [] line.kind = "tool_output" -> Settle(st, line.call, line.failed)
      [] line.kind = "patch_apply_end" -> Patch(st, line)
      [] OTHER -> st

(* parse, up to _finish_parse.                                             *)
CodexScan(file, lines) ==
    FoldLeftDomain(LAMBDA st, n : Dispatch(st, file, n, lines[n]),
                   NewCodexParse(lines), lines)

CodexParse(file, lines) == FinishParse(CodexScan(file, lines), Len(lines))

-----------------------------------------------------------------------------
(* Codex itself.                                                           *)

CodexInit ==
    /\ journal = [f \in Rollouts |-> <<>>] /\ asked = {}
    /\ parsed = [f \in Rollouts |-> CodexParse(f, <<>>)]
    /\ counter = [f \in Rollouts |-> Nothing]
    /\ replayed = 0
    /\ written = [work |-> 0, marks |-> 0]

Started(file) == journal[file] # <<>>
Whole == \E l \in ToSet(journal["parent"]) : l.kind = "session_meta"

(* Stamps grow along a journal; a fork's own come after its replay's.      *)
Now(file) == Len(journal[file]) + 1 + (IF file = "fork" THEN MaxWritten ELSE 0)

OwnLines(file) ==
    (IF file = "fork" THEN replayed + 1 ELSE 1) .. Len(journal[file])

LastOwn(file, kinds) ==
    LET own == {n \in OwnLines(file) : journal[file][n].kind \in kinds}
    IN IF own = {} THEN 0 ELSE Max(own)

(* The turn at work in a rollout, and the model it has declared.           *)
TurnOf(file) ==
    LET n == LastOwn(file, {"task_started", "task_complete"})
    IN IF n # 0 /\ journal[file][n].kind = "task_started" THEN <<file, n>> ELSE None

DeclaredBy(file) ==
    LET n == LastOwn(file, {"turn_context"})
    IN IF n = 0 THEN None ELSE journal[file][n].model

Journal(file, lines) ==
    /\ journal' = [journal EXCEPT ![file] = lines]
    /\ parsed' = [parsed EXCEPT ![file] = CodexParse(file, lines)]

Write(file, line) ==
    /\ Started(file)
    /\ written.work + written.marks + Cardinality(asked) < MaxWritten
    /\ Journal(file, Append(journal[file], [ts |-> Now(file)] ++ line))
    /\ UNCHANGED replayed

Work(file, line) ==
    /\ written.work < MaxWork
    /\ Write(file, line)
    /\ written' = [written EXCEPT !.work = @ + 1]
    /\ UNCHANGED <<asked, counter>>

Mark(file, line) ==
    /\ written.marks < MaxMarks
    /\ Write(file, line)
    /\ written' = [written EXCEPT !.marks = @ + 1]
    /\ UNCHANGED <<asked, counter>>

(* A fragment is a rollout's tail, without its session_meta.               *)
Begin ==
    /\ ~Started("parent")
    /\ \E head \in {"session_meta", "world_state"} :
        Journal("parent", <<[kind |-> head, session |-> "s", ts |-> 1]>>)
    /\ UNCHANGED <<asked, counter, replayed, written>>

(* A fork replays its parent from some line on.                            *)
Fork ==
    /\ Whole /\ ~Started("fork")
    /\ \E k \in 2 .. Len(journal["parent"]) + 1 :
        LET replay == SubSeq(journal["parent"], k, Len(journal["parent"]))
        IN /\ Journal("fork", <<[kind |-> "session_meta", session |-> "s", ts |-> 1]>>
                                \o replay)
           /\ replayed' = Len(replay) + 1
    /\ counter' = [counter EXCEPT !["fork"] = counter["parent"]]
    /\ UNCHANGED <<asked, written>>

Requests == {[input |-> 2, cached |-> 1, write |-> 0, output |-> 1],
             [input |-> 4, cached |-> 1, write |-> 1, output |-> 1]}

Reading(total, last) ==
    [kind |-> "token_count", total |-> total, last |-> last,
     plan |-> Subscribed, limit |-> None]

Request(file) ==
    /\ Cardinality(asked) < MaxRequests
    /\ DeclaredBy(file) # None
    /\ \E usage \in Requests :
        LET total == Plus(counter[file], usage)
        IN /\ Write(file, Reading(total, usage))
           /\ counter' = [counter EXCEPT ![file] = total]
           /\ asked' = asked \cup {[file |-> file, line |-> Len(journal[file]) + 1,
                                     total |-> total, usage |-> usage,
                                     model |-> DeclaredBy(file)]}
    /\ UNCHANGED written

(* The reading is written again, now that a limit is reached.              *)
Repeat(file) ==
    LET n == LastOwn(file, {"token_count"})
    IN n # 0 /\ Mark(file, [journal[file][n] EXCEPT !.limit = "primary"])

Declare(file) ==
    \E model \in Models \ {DeclaredBy(file)} :
        Mark(file, [kind |-> "turn_context", model |-> model])

TaskStarted(file) == TurnOf(file) = None /\ Mark(file, [kind |-> "task_started"])
TaskComplete(file) == TurnOf(file) # None /\ Mark(file, [kind |-> "task_complete"])
AgentMessage(file) == Mark(file, [kind |-> "agent_message"])

CallLines(file) == {l \in ToSet(journal[file]) : l.kind = "tool_call"}
OutputLines(file) == {l \in ToSet(journal[file]) : l.kind = "tool_output"}

(* Ids are never reused.                                                   *)
Call(file) ==
    LET unused == Calls \ UNION {{l.call : l \in CallLines(f)} : f \in Rollouts}
    IN /\ TurnOf(file) # None /\ unused # {}
       /\ \E patches \in BOOLEAN :
            Work(file, [kind |-> "tool_call", call |-> CHOOSE c \in unused : TRUE,
                        turn |-> TurnOf(file), patches |-> patches, lines |-> 2])

Output(file) ==
    \E call \in {l.call : l \in CallLines(file)} \ {l.call : l \in OutputLines(file)},
       failed \in BOOLEAN :
        Work(file, [kind |-> "tool_output", call |-> call, failed |-> failed])

(* Calls are made in a turn; a patch is of the turn at work, or of a       *)
(* subagent, whose calls are not in this journal.                          *)
Applied(file) ==
    \E turn \in {TurnOf(file), <<"subagent", 0>>} \ {None}, ok \in BOOLEAN :
        Work(file, [kind |-> "patch_apply_end", turn |-> turn, ok |-> ok, lines |-> 1])

CodexNext ==
    \/ Begin \/ Fork
    \/ \E file \in Rollouts :
        \/ Request(file) \/ Repeat(file) \/ Declare(file)
        \/ TaskStarted(file) \/ TaskComplete(file) \/ AgentMessage(file)
        \/ Call(file) \/ Output(file) \/ Applied(file)

-----------------------------------------------------------------------------
(* No two requests left the counter at one reading.                        *)
DistinctReadings ==
    \A q, r \in asked : TotalTokens(q.total) = TotalTokens(r.total) => q = r

(* However the two rollouts of a thread share their history, every request *)
(* is billed, and the rows of one identity, one in each rollout, bill what *)
(* that request used: the row that ingest keeps of each is the true bill.  *)
(* The rollout that made a request has its model.  (parse_codex.py, traps 1, 2, 4 and 5) *)
BilledOnce ==
    Whole /\ DistinctReadings =>
        LET Identity(q) == <<"s", TotalTokens(q.total)>>
            Long(q) == ~Subscribed /\ q.usage.input > LongContext
            Bills(r, q) == /\ r.uuid = Identity(q)
                           /\ r.toks = Partition(q.usage) ++ [long |-> Long(q)]
        IN \A file \in Rollouts :
            LET rows == ToSet(parsed[file].records)
            IN /\ \A r \in rows : \E q \in asked : Bills(r, q)
               /\ \A r, other \in rows : r.uuid = other.uuid => r = other
               /\ \A q \in asked :
                    q.file = file =>
                        \E r \in rows : /\ r.line = q.line /\ Bills(r, q)
                                        /\ r.model = CodexModel(q.model)

(* Lines changed are neither lost nor counted twice on their way from a    *)
(* patch to a call: a row has its program's lines and those of its turn's  *)
(* patches that worked, a patch whose turn patched through no call here    *)
(* has a row of its own, and only a call that failed loses its lines.      *)
(* (parse_codex.py, _codex_patch; parse_common.py, _resolve_tool_errors)   *)
ChurnByTurn ==
    \A file \in Rollouts :
        LET lines == journal[file]
            calls == {n \in DOMAIN lines : lines[n].kind = "tool_call"}
            patches == {n \in DOMAIN lines : lines[n].kind = "patch_apply_end"}
            \* the call a patch was applied by
            Callers(p) == {c \in calls : c < p /\ lines[c].patches
                                           /\ lines[c].turn = lines[p].turn}
            Worth(ps) == Cardinality({p \in ps : lines[p].ok})
            Failed(c) == \E o \in OutputLines(file) : o.call = lines[c].call /\ o.failed
            rows == parsed[file].tools
            RowOf(c) == CHOOSE row \in ToSet(rows) : row.call = lines[c].call
        IN /\ \A c \in calls :
                RowOf(c).lines =
                    IF Failed(c) THEN 0
                    ELSE 2 + Worth({p \in patches : Callers(p) # {} /\ Max(Callers(p)) = c})
           /\ Len(rows) = Cardinality(calls) + Cardinality({p \in patches : Callers(p) = {}})
           /\ \A turn \in {lines[p].turn : p \in patches} :
                FoldLeft(LAMBDA sum, row : IF row.call = None /\ row.turn = turn
                                           THEN sum + row.lines ELSE sum, 0, rows)
                    = Worth({p \in patches : lines[p].turn = turn /\ Callers(p) = {}})

(* What the lines of a journal are to the turns.                           *)
KindInLog(lines, n) ==
    LET earlier == {m \in 1 .. n - 1 : lines[m].kind = "token_count"}
    IN CASE lines[n].kind = "task_started" -> "prompt"
         [] lines[n].kind \in {"task_complete", "turn_aborted"} -> "end"
         [] lines[n].kind = "agent_message" -> "text"
         [] /\ lines[n].kind = "token_count"
            /\ earlier # {} => lines[Max(earlier)].total # lines[n].total -> "usage"
         [] OTHER -> "other"

LogOf(file) ==
    [n \in DOMAIN journal[file] |-> [kind |-> KindInLog(journal[file], n),
                                     ts |-> journal[file][n].ts]]
=============================================================================
