------------------------------- MODULE Panels -------------------------------
(***************************************************************************)
(* The read endpoints over usage: backend/api.py, api_dashboard.py and the *)
(* session list of api_sessions.py, against a database that ingests        *)
(* commit to and rebuild the rollups of meanwhile.  Statements see what is *)
(* committed when they run, each for itself.  The records are the          *)
(* canonical ones (module Rollup has how they are chosen); of tool calls   *)
(* every file has its own, and a fork repeats its parent's.                *)
(*                                                                         *)
(* Time is in ticks; an hour has HourTicks of them.  A record or a call    *)
(* that was logged without a time has ts = None.                           *)
(***************************************************************************)
EXTENDS Pricing

CONSTANTS
    Corpus,          \* the transcripts: the records and calls of each
    Unresolved,      \* project ids that are no more than a hash
    ModelOrder,      \* the models, in SQL's order
    Now, HourTicks,
    Spans,           \* ranges asked for, in ticks
    AskedProjects, AskedModels,   \* and what is filtered on; None for all
    Widths,          \* _BUCKET_CANDIDATES_S, in ticks, ascending
    MinBins,         \* bins a range must be divided in: 100 in the code
    TopProjects,     \* bars of the project panel: 10 in the code
    SessionLimit,    \* LIMIT of the dashboard's sessions: 500 in the code
    PageSize,        \* limit of /api/sessions
    MaxRuns,         \* bound: ingest runs
    MaxDisturbed     \* bound: changes under one dashboard request

ASSUME PanelsAssumption ==
    /\ Now \in Nat /\ HourTicks \in Nat \ {0} /\ MinBins \in Nat \ {0}
    /\ \A s \in Spans : s \in 1 .. Now
    /\ Len(Widths) > 0 /\ \A i \in DOMAIN Widths : Widths[i] \in Nat \ {0}
    /\ {TopProjects, SessionLimit, PageSize} \subseteq Nat \ {0}
    /\ {MaxRuns, MaxDisturbed} \subseteq Nat
    /\ None \notin Int

Records == UNION {f.records : f \in Corpus}
Calls == UNION {f.calls : f \in Corpus}

(* What schema.sql promises of a record with its file, and of a call: a    *)
(* primary key, and columns of which ts alone may be null; and what ingest *)
(* stores: the cost of a record's own tokens.                              *)
ASSUME CorpusAssumption ==
    /\ \A f \in Corpus : IsFiniteSet(f.records) /\ IsFiniteSet(f.calls)
    /\ \A r, x \in Records : r.id = x.id => r = x
    /\ \A r \in Records :
          /\ r.ts \in Nat \cup {None} /\ r.cost \in Nat
          /\ \A b \in Buckets : r.toks[b] \in Nat
          /\ r.cost = ComputeCost(r.model, r.toks, r.long, r.ts)
          /\ r.project # None
          /\ \E i \in DOMAIN ModelOrder : ModelOrder[i] = r.model
    /\ \A c \in Calls : c.ts \in Nat \cup {None} /\ c.lines \in Nat
    /\ DOMAIN ModelOrder \subseteq Nat

VARIABLES
    db,         \* records: the rows committed
    calls,      \* tool_uses: likewise
    rolled,     \* the records usage_rollup was built from
    toolRolled, \* the calls tool_rollup was built from
    run,        \* ingest runs started, and where the last one is
    request,    \* a dashboard request, or None
    listing     \* a client paging through /api/sessions, or None

vars == <<db, calls, rolled, toolRolled, run, request, listing>>

Init ==
    /\ db = {} /\ calls = {} /\ rolled = {} /\ toolRolled = {}
    /\ run = [n |-> 0, at |-> "idle"]
    /\ request = None /\ listing = None

-----------------------------------------------------------------------------
(* What a query is resolved to.                                            *)

(* _bucket_seconds: the widest bucket, up to the first that divides the    *)
(* span in too few.                                                        *)
BucketTicks(span) ==
    LET few == {i \in DOMAIN Widths : span < MinBins * Widths[i]}
        stop == IF few = {} THEN Len(Widths) + 1 ELSE Min(few)
    IN Widths[IF stop = 1 THEN 1 ELSE stop - 1]

Queries == [span : Spans, project : AskedProjects, model : AskedModels]

Since(q) == Now - q.span
HourOf(ts) == (ts \div HourTicks) * HourTicks
UseRollup(q) == BucketTicks(q.span) >= HourTicks

(* The hour column of either source: a rollup's hour, a live row's instant. *)
SourceHour(ts, q) == IF UseRollup(q) THEN HourOf(ts) ELSE ts

(* WHERE ts IS NOT NULL                                                    *)
Stamped(rows) == {r \in rows : r.ts # None}

(* A set of rows in the two dimensions that filters are about.             *)
Filtered(rows, q) ==
    {r \in rows : q.project \in {None, r.project} /\ q.model \in {None, r.model}}

Sum(rows, value(_)) == SumOver(rows, value)

(* usage_rollup: one row per session, hour, model and project, of the      *)
(* records whose time is known.                                            *)
RollupKey(r) == <<r.session, HourOf(r.ts), r.model, r.project>>

RollupRow(rows, r) ==
    LET group == {x \in rows : RollupKey(x) = RollupKey(r)}
    IN [session |-> r.session, project |-> r.project, model |-> r.model,
        hour |-> HourOf(r.ts), first |-> Min({x.ts : x \in group}),
        requests |-> Cardinality(group), cost |-> Sum(group, LAMBDA x : x.cost),
        toks |-> [b \in Buckets |-> Sum(group, LAMBDA x : x.toks[b])]]

UsageRollup(rows) == {RollupRow(Stamped(rows), r) : r \in Stamped(rows)}

(* The same columns, of one record.                                        *)
LiveRow(r) ==
    [session |-> r.session, project |-> r.project, model |-> r.model,
     hour |-> r.ts, first |-> r.ts, requests |-> 1, cost |-> r.cost,
     toks |-> r.toks, id |-> r.id]

LiveUsage(rows) == {LiveRow(r) : r \in Stamped(rows)}

(* _roll_source: the rollup, from the hour since falls in, or live rows.   *)
RollSource(q, snap) ==
    Filtered(IF UseRollup(q)
             THEN {u \in UsageRollup(snap.rolled) : u.hour >= HourOf(Since(q))}
             ELSE {u \in LiveUsage(snap.db) : u.hour >= Since(q)}, q)

ToolRows(q, snap) ==
    {c \in Stamped(IF UseRollup(q) THEN snap.toolRolled ELSE snap.calls) :
        SourceHour(c.ts, q) >= Since(q)}

(* Seeded fault: the churn panel follows the filter by model.              *)
ByModelToo(q, snap) == Filtered(ToolRows(q, snap), q)

(* _tool_source, as the churn panel reads it: every file's calls, no       *)
(* filter by model, and no hour that begins before since.                  *)
ToolSource(q, snap) == {r \in ToolRows(q, snap) : q.project \in {None, r.project}}

-----------------------------------------------------------------------------
(* The panels of one payload.                                              *)

DisplayBucket(hour, q) == (hour \div BucketTicks(q.span)) * BucketTicks(q.span)

Sessions(rows) == {u.session : u \in rows}

Rank(model) == CHOOSE i \in DOMAIN ModelOrder : ModelOrder[i] = model

(* The hourly statement, and _dash_hourly: a session count rides on the    *)
(* first model of a bucket.                                                *)
HourlyRow(rows, u, q) ==
    LET beside == {v \in rows : DisplayBucket(v.hour, q) = DisplayBucket(u.hour, q)}
        group == {v \in beside : v.model = u.model}
    IN [hour |-> DisplayBucket(u.hour, q), model |-> u.model,
        cost |-> Sum(group, LAMBDA v : v.cost),
        requests |-> Sum(group, LAMBDA v : v.requests),
        toks |-> [b \in Buckets |-> Sum(group, LAMBDA v : v.toks[b])],
        session_count |-> IF Rank(u.model) = Min({Rank(v.model) : v \in beside})
                          THEN Cardinality(Sessions(group)) ELSE 0]

Hourly(q, snap) ==
    LET rows == RollSource(q, snap) IN {HourlyRow(rows, u, q) : u \in rows}

(* _drop_zero_token_types and _token_type_metadata *)
TokenTypes(hourly) == {b \in Buckets : Sum(hourly, LAMBDA h : h.toks[b]) # 0}

(* _dash_cost_by_model: folded out of the hourly rows.                     *)
CostByModel(hourly) ==
    {[model |-> m, cost |-> Sum({h \in hourly : h.model = m}, LAMBDA h : h.cost)]
     : m \in {h.model : h \in {g \in hourly : g.cost > 0}}}

TotalSessions(q, snap) == Cardinality(Sessions(RollSource(q, snap)))

(* ORDER BY cost DESC, and the first k: ties are broken somehow.           *)
Costliest(k, rows) ==
    CHOOSE top \in kSubset(IF k < Cardinality(rows) THEN k ELSE Cardinality(rows), rows) :
        \A a \in top, b \in rows \ top : a.cost >= b.cost

(* The cost_by_project statement, less what costs nothing.                 *)
Bars(q, snap) ==
    LET rows == RollSource(q, snap)
    IN {b \in {[project |-> u.project,
                cost |-> Sum({v \in rows : v.project = u.project}, LAMBDA v : v.cost)]
               : u \in rows} : b.cost > 0}

(* Seeded fault: the tail of the projects is cut off.                      *)
TopOnly(q, snap) == Costliest(TopProjects, Bars(q, snap))

(* _dash_cost_by_project: the bars that cost most, and the tail as one.    *)
CostByProject(q, snap) ==
    LET top == Costliest(TopProjects, Bars(q, snap))
        rest == Bars(q, snap) \ top
    IN top \cup (IF rest = {} THEN {}
                 ELSE {[project |-> None, cost |-> Sum(rest, LAMBDA b : b.cost)]})

(* The sessions that cost most.                                            *)
SessionRows(q, snap) ==
    LET rows == RollSource(q, snap)
    IN Costliest(SessionLimit,
         {[session |-> s,
           cost |-> Sum({u \in rows : u.session = s}, LAMBDA u : u.cost),
           start |-> Min({u.first : u \in {v \in rows : v.session = s}}),
           models_used |-> {u.model : u \in {v \in rows : v.session = s}}]
          : s \in Sessions(rows)})

(* _dash_churn_rows *)
ChurnBucket(r, q) == DisplayBucket(SourceHour(r.ts, q), q)

Churn(q, snap) ==
    LET rows == ToolSource(q, snap)
    IN {[ts |-> ChurnBucket(r, q),
         lines |-> Sum({x \in rows : ChurnBucket(x, q) = ChurnBucket(r, q)},
                       LAMBDA x : x.lines)]
        : r \in rows}

-----------------------------------------------------------------------------
(* Ingest, as the readers see it: files are committed one by one, then the *)
(* rollups are rebuilt, each in a transaction of its own.                  *)

Snapshot == [db |-> db, calls |-> calls, rolled |-> rolled, toolRolled |-> toolRolled]

(* A change that the request in flight may see, or not.                    *)
Disturb ==
    request' = IF request = None THEN None
               ELSE [request EXCEPT !.disturbed = @ + 1]

Disturbable == request # None => request.disturbed < MaxDisturbed

StartRun ==
    /\ run.at = "idle" /\ run.n < MaxRuns
    /\ run' = [n |-> run.n + 1, at |-> "parsing"]
    /\ UNCHANGED <<db, calls, rolled, toolRolled, request, listing>>

CommitFile ==
    /\ run.at = "parsing" /\ Disturbable
    /\ \E f \in Corpus : db' = db \cup f.records /\ calls' = calls \cup f.calls
    /\ Disturb
    /\ UNCHANGED <<rolled, toolRolled, run, listing>>

RebuildUsage ==
    /\ run.at = "parsing" /\ Disturbable
    /\ rolled' = db
    /\ run' = [run EXCEPT !.at = "tools"]
    /\ Disturb
    /\ UNCHANGED <<db, calls, toolRolled, listing>>

RebuildTools ==
    /\ run.at = "tools" /\ Disturbable
    /\ toolRolled' = calls
    /\ run' = [run EXCEPT !.at = "idle"]
    /\ Disturb
    /\ UNCHANGED <<db, calls, rolled, listing>>

-----------------------------------------------------------------------------
(* GET /api/dashboard.  seen has, per statement run, what it ran against.  *)

Statements == <<"hourly", "total_sessions", "cost_by_project", "sessions", "churn">>

(* One reader at a time: readers share nothing.                            *)
Free == request = None /\ listing = None

Ask ==
    /\ Free
    /\ \E q \in Queries :
        request' = [query |-> q, seen |-> <<>>, disturbed |-> 0]
    /\ UNCHANGED <<db, calls, rolled, toolRolled, run, listing>>

RunStatement ==
    /\ request # None
    /\ Len(request.seen) < Len(Statements)
    /\ request' = [request EXCEPT !.seen = Append(@, Snapshot)]
    /\ UNCHANGED <<db, calls, rolled, toolRolled, run, listing>>

Answer ==
    /\ request # None
    /\ Len(request.seen) = Len(Statements)
    /\ request' = None
    /\ UNCHANGED <<db, calls, rolled, toolRolled, run, listing>>

(* _dash_payload *)
Payload(r) ==
    LET At(name) == r.seen[CHOOSE i \in DOMAIN Statements : Statements[i] = name]
        hourly == Hourly(r.query, At("hourly"))
    IN [hourly |-> hourly,
        token_types |-> TokenTypes(hourly),
        cost_by_model |-> CostByModel(hourly),
        total_sessions |-> TotalSessions(r.query, At("total_sessions")),
        cost_by_project |-> CostByProject(r.query, At("cost_by_project")),
        sessions |-> SessionRows(r.query, At("sessions")),
        churn |-> Churn(r.query, At("churn"))]

-----------------------------------------------------------------------------
(* GET /api/sessions, page by page.                                        *)

(* min(ts): NULL if no record of the session has a time.                   *)
FirstEvent(s) ==
    LET times == {r.ts : r \in Stamped({x \in db : x.session = s})}
    IN IF times = {} THEN None ELSE Min(times)

OpenList ==
    /\ Free
    /\ listing' = [cursor |-> None, listed |-> <<>>,
                   base |-> {[session |-> s, first |-> FirstEvent(s)]
                             : s \in Sessions(db)},
                   done |-> FALSE]
    /\ UNCHANGED <<db, calls, rolled, toolRolled, run, request>>

(* The cursor of the next page: the last item's first event.               *)
NextCursor(ordered) == FirstEvent(ordered[PageSize])

(* Seeded fault: plain DESC, which in PostgreSQL puts the nulls first.     *)
NullsFirst(s, t) ==
    FirstEvent(s) # None => FirstEvent(t) # None /\ FirstEvent(s) >= FirstEvent(t)

(* ORDER BY first_event_at DESC NULLS LAST: newest first, in any order     *)
(* those that began together, and those without a beginning at the end.    *)
MayPrecede(s, t) ==
    FirstEvent(t) # None => FirstEvent(s) # None /\ FirstEvent(s) >= FirstEvent(t)

Orders(S) ==
    {o \in SetToSeqs(S) : \A i \in 2 .. Len(o) : MayPrecede(o[i - 1], o[i])}

(* The sessions before the cursor: a NULL is before nothing.  A client     *)
(* that is given no cursor for a next page stops.                          *)
FetchPage ==
    /\ listing # None /\ ~listing.done
    /\ LET older == {s \in Sessions(db) :
                       listing.cursor # None =>
                           FirstEvent(s) # None /\ FirstEvent(s) < listing.cursor}
       IN \E ordered \in Orders(older) :
            LET page == SubSeq(ordered, 1, Min({PageSize, Len(ordered)}))
                next == IF Len(ordered) > PageSize THEN NextCursor(ordered) ELSE None
            IN listing' = [listing EXCEPT !.listed = @ \o page,
                                          !.cursor = next,
                                          !.done = next = None]
    /\ UNCHANGED <<db, calls, rolled, toolRolled, run, request>>

CloseList ==
    /\ listing # None /\ listing.done
    /\ listing' = None
    /\ UNCHANGED <<db, calls, rolled, toolRolled, run, request>>

Next ==
    \/ StartRun \/ CommitFile \/ RebuildUsage \/ RebuildTools
    \/ Ask \/ RunStatement \/ Answer
    \/ OpenList \/ FetchPage \/ CloseList

Spec == Init /\ [][Next]_vars

-----------------------------------------------------------------------------
(* GET /api/projects and GET /api/activity-heatmap, one statement each.    *)

PickerName(p) == IF p \in Unresolved THEN None ELSE p

(* Seeded fault: projects without a cost in the range are dropped.         *)
PickerOfRange(span) ==
    LET rows == {u \in UsageRollup(rolled) : u.hour >= HourOf(Now - span)}
    IN {[project |-> n, cost |-> Sum({u \in rows : PickerName(u.project) = n},
                                     LAMBDA u : u.cost)]
        : n \in {PickerName(u.project) : u \in rows}}

(* Projects that cost something in the rollup, by what they cost in the    *)
(* range.                                                                  *)
Picker(span) ==
    LET all == UsageRollup(rolled)
        names == {PickerName(u.project) : u \in all}
        Of(rows, n) == Sum({u \in rows : PickerName(u.project) = n}, LAMBDA u : u.cost)
    IN {[project |-> n, cost |-> Of({u \in all : u.hour >= HourOf(Now - span)}, n)]
        : n \in {m \in names : Of(all, m) # 0}}

Heatmap(q) ==
    {[hour |-> u.hour, cost |-> Sum({v \in Filtered(UsageRollup(rolled), q) :
                                       v.hour = u.hour}, LAMBDA v : v.cost)]
     : u \in {v \in Filtered(UsageRollup(rolled), q) : v.hour >= HourOf(Since(q))}}

-----------------------------------------------------------------------------
Answered == request # None /\ Len(request.seen) = Len(Statements)
Settled == rolled = db /\ toolRolled = calls

(* The rows that a range means to a panel, of those whose time is known:   *)
(* whole hours where it reads the rollup.                                  *)
InRange(rows, q) ==
    Filtered({r \in Stamped(rows) :
                r.ts >= (IF UseRollup(q) THEN HourOf(Since(q)) ELSE Since(q))}, q)

(* If nothing was committed under a request, and the rollups were up to    *)
(* date, every panel of its payload tells of the same requests: the totals *)
(* by hour, model, project and session agree with each other and with the  *)
(* records whose time is known, whichever source the range made it read, and a kind of token   *)
(* is shown exactly if one was used.  (api_dashboard.py, _roll_source and  *)
(* the payload builders)                                                   *)
PanelsAgree ==
    Answered /\ request.disturbed = 0 /\ Settled =>
        LET q == request.query
            p == Payload(request)
            rows == InRange(db, q)
            total == Sum(rows, LAMBDA r : r.cost)
            Cost(panel) == Sum(panel, LAMBDA x : x.cost)
        IN /\ Cost(p.hourly) = total /\ Cost(p.cost_by_model) = total
           /\ Cost(p.cost_by_project) = total
           /\ p.total_sessions = Cardinality(Sessions(rows))
           /\ p.total_sessions <= SessionLimit => Cost(p.sessions) = total
           /\ Sum(p.hourly, LAMBDA h : h.requests) = Cardinality(rows)
           /\ p.token_types = {b \in Buckets : \E r \in rows : r.toks[b] # 0}
           /\ UseRollup(q) => Cost(Heatmap(q)) = total
           /\ \A h \in p.hourly :
                Sum({g \in p.hourly : g.hour = h.hour}, LAMBDA g : g.session_count)
                    <= Cardinality(Sessions({r \in rows :
                          DisplayBucket(SourceHour(r.ts, q), q) = h.hour}))

(* The lines the churn panel counts are those of the tool calls of every   *)
(* file, a fork's repeated ones included, in the hours that its range has  *)
(* whole: of the hours the token panels show, it lacks at most the one the *)
(* range begins in, and no line is counted in two buckets.                 *)
(* (api_dashboard.py, _dash_churn_rows; api.py, _tool_source)              *)
ChurnOfWholeHours ==
    Answered /\ request.disturbed = 0 /\ Settled =>
        LET q == request.query
            p == Payload(request)
            shown == InRange(calls, [q EXCEPT !.model = None])
            late == {c \in shown : UseRollup(q) => HourOf(c.ts) # HourOf(Since(q))
                                                     \/ HourOf(c.ts) = Since(q)}
        IN Sum(p.churn, LAMBDA b : b.lines) = Sum(late, LAMBDA c : c.lines)

(* The picker has every project that ever cost something at a known time,  *)
(* the unresolved ones together, whatever its range, and agrees with the   *)
(* dashboard on what each of them cost in the range.  It is one statement, so the       *)
(* states between requests are all it can see.  (api.py, list_projects)    *)
PickerAgrees ==
    Free /\ Settled =>
        \A span \in Spans :
            LET rows == InRange(db, [span |-> span, project |-> None, model |-> None])
                picked == Picker(span)
            IN /\ \A r \in Stamped(db) : r.cost > 0 =>
                    \E b \in picked : b.project = PickerName(r.project)
               /\ UseRollup([span |-> span]) =>
                    \A b \in picked :
                        b.cost = Sum({r \in rows : PickerName(r.project) = b.project},
                                     LAMBDA r : r.cost)

(* The breakdown of a model's cost adds up to what its requests were       *)
(* billed, though rates changed in the range and it is priced again from   *)
(* sums: for requests that wrote nothing to the cache and had no long      *)
(* context, which the breakdown does not know of, and but for the rounding *)
(* of each.  One statement again.                                          *)
(* (api_rates.py, fold_per_model; pricing.py, RATE_EPOCHS)                 *)
DecompositionReconciles ==
    Free =>
        \A span \in Spans :
            LET rows == {r \in Stamped(db) :
                           r.ts >= Now - span /\ r.toks.create = 0 /\ ~r.long}
            IN \A m \in {r.model : r \in rows} :
                CostTotal(rows, m) =
                    Sum({"fresh", "read", "output"}, LAMBDA b : CostBuckets(rows, m)[b])

(* A client that follows the cursors to the end has met every session that *)
(* had a beginning when it began exactly once, whatever was committed      *)
(* meanwhile and however many sessions without one came at the end: unless *)
(* the session's first event moved, or another session has an event at     *)
(* that very instant: had that been its first one when the page ended      *)
(* between them, the cursor would have passed over both.                   *)
(* (api_sessions.py, list_sessions)                                        *)
EverySessionListed ==
    listing # None /\ listing.done =>
        \A b \in listing.base :
            LET tied == \E r \in db : r.session # b.session /\ r.ts = b.first
            IN b.first # None /\ FirstEvent(b.session) = b.first /\ ~tied =>
                Cardinality({i \in DOMAIN listing.listed :
                               listing.listed[i] = b.session}) = 1
=============================================================================
