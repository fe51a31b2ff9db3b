------------------------------- MODULE Ingest -------------------------------
(***************************************************************************)
(* The R2 -> Postgres ingest of backend/ingest.py: run_ingest and          *)
(* everything it calls, with the runs the scheduler of backend/app.py and  *)
(* POST /admin/ingest can have in flight at the same time.                 *)
(*                                                                         *)
(* An object is known by its key and its version; a version stands for     *)
(* both the content and the etag R2 derives from it.  Version 0 means      *)
(* "no object".  Keys are numbers because their order matters twice: R2    *)
(* lists in key order, and the canonical copy of a record is the one with  *)
(* the smallest file_key.                                                  *)
(*                                                                         *)
(* Each database transaction is one step, except the UPDATE that resolves  *)
(* duplicates: it runs long, under READ COMMITTED, and is two - the        *)
(* snapshot it reads and the commit of the flags it writes.  (The rebuilds *)
(* are opened up in module Rollup.)  Display names, timestamps, the        *)
(* ingest_runs row and the token sums are left out; a rollup is the set of *)
(* facts it was computed from.                                             *)
(***************************************************************************)
EXTENDS Naturals, FiniteSets

CONSTANTS
    Triggers,      \* the run slots: one per scheduler job, one for manual runs
    NumKeys,       \* transcript keys are 1..NumKeys, in listing order
    MaxVersion,    \* bound: MaxVersion[k] uploads of key k
    Uuids,         \* record uuids
    Carries,       \* Carries[k][v]: the uuids of the records in version v of k
    MaxRelease,    \* bound: deployments of the program
    ParserVersion, \* ParserVersion[r]: PARSER_VERSION of release r
    Reads,         \* Reads[r]: the keys whose format release r can parse
    ChunkSize,     \* workers * 4: objects fetched before any is persisted
    MaxDrops,      \* bound: fetches lost to the network or to a corrupt object
    MaxDeaths      \* bound: runs that end early, and process restarts

Keys == 1..NumKeys
Releases == 1..MaxRelease

ASSUME SizesAssumption ==
    /\ NumKeys \in Nat \ {0} /\ MaxRelease \in Nat \ {0}
    /\ ChunkSize \in Nat \ {0}
    /\ MaxDrops \in Nat /\ MaxDeaths \in Nat
ASSUME DataAssumption ==
    /\ MaxVersion \in [Keys -> Nat]
    /\ \A k \in Keys : \A v \in 0..MaxVersion[k] : Carries[k][v] \subseteq Uuids
    /\ ParserVersion \in [Releases -> Nat \ {0}]
    /\ Reads \in [Releases -> SUBSET Keys]

VARIABLES
    (* The bucket, written by the archiver on the originating machines.    *)
    bucket,     \* bucket[k]: the version R2 holds under k, 0 when none
    newest,     \* newest[k]: the last version ever uploaded under k
    (* The database.                                                       *)
    files,      \* files[k]: the files row of k with its records
    usage,      \* usage_rollup: the <<file, uuid>> pairs it counts
    tools,      \* tool_rollup: the <<file, version>> pairs it counts
    latency,    \* latency_rollup: likewise
    unannounced,\* data readers can see has changed since the last invalidate
    stale,      \* history: the last flags were written by a raced UPDATE
    (* The runs: one slot per trigger.                                     *)
    pc, existing, cursor, listing, todo, batch, fetched, failed, changed,
    fatal,
    flips,      \* flips[t][k]: flags t's open UPDATE is to write in k's rows
    raced,      \* history: slots under whose open UPDATE rows came or went
    (* The program and its bad luck.                                       *)
    release, drops, deaths

bucketVars == <<bucket, newest>>
dbVars == <<files, usage, tools, latency, unannounced, stale>>
flagVars == <<flips, raced>>
runVars == <<pc, existing, cursor, listing, todo, batch, fetched, failed,
             changed, fatal, flagVars>>
chanceVars == <<release, drops, deaths>>
vars == <<bucketVars, dbVars, runVars, chanceVars>>

(* A row with etag 0 is no row: version 0 is never stored.                 *)
NoRow == [etag |-> 0, content |-> 0, parser |-> 0, canon |-> {}]
NoStored == [etag |-> 0, parser |-> 0]
Stored(row) == [etag |-> row.etag, parser |-> row.parser]

(* The phases _ingest_main runs through; an exception in any of them is    *)
(* the run's `fatal`.                                                      *)
MainPhases == {"list", "plan", "fetch", "delete"}
PostPasses == {"canonical", "reflag", "usage", "tools", "latency", "announce"}
Phases == {"idle", "finish"} \cup MainPhases \cup PostPasses

NoFlips == [on |-> {}, off |-> {}]

Row == [etag: Nat, content: Nat, parser: Nat, canon: SUBSET Uuids]

TypeOK ==
    /\ bucket \in [Keys -> Nat] /\ newest \in [Keys -> Nat]
    /\ files \in [Keys -> Row]
    /\ usage \subseteq Keys \X Uuids
    /\ tools \subseteq Keys \X (Nat \ {0})
    /\ latency \subseteq Keys \X (Nat \ {0})
    /\ unannounced \in BOOLEAN /\ stale \in BOOLEAN
    /\ pc \in [Triggers -> Phases]
    /\ existing \in [Triggers -> [Keys -> [etag: Nat, parser: Nat]]]
    /\ cursor \in [Triggers -> Nat \ {0}]
    /\ listing \in [Triggers -> [Keys -> Nat]]
    /\ todo \in [Triggers -> SUBSET Keys]
    /\ batch \in [Triggers -> SUBSET Keys]
    /\ fetched \in [Triggers -> [Keys -> Nat]]
    /\ failed \in [Triggers -> SUBSET Keys]
    /\ changed \in [Triggers -> BOOLEAN]
    /\ fatal \in [Triggers -> BOOLEAN]
    /\ flips \in [Triggers -> [Keys -> [on: SUBSET Uuids, off: SUBSET Uuids]]]
    /\ raced \in SUBSET Triggers
    /\ release \in Releases /\ drops \in Nat /\ deaths \in Nat

-----------------------------------------------------------------------------
(* What the derived columns and tables are computed from.                  *)

HasRow(f, k) == f[k].etag # 0
RecordsOf(f, k) == IF HasRow(f, k) THEN Carries[k][f[k].content] ELSE {}

(* The window query of recompute_canonical: among all rows with the uuid,  *)
(* the first by file_key.                                                  *)
IsFirst(f, k, u) ==
    /\ u \in RecordsOf(f, k)
    /\ \A j \in Keys : j < k => u \notin RecordsOf(f, j)

(* Seeded fault: duplicates are resolved within one file only.             *)
CanonicalWithinFile(f, k) == RecordsOf(f, k)

CanonicalOf(f, k) == {u \in RecordsOf(f, k) : IsFirst(f, k, u)}

(* The rows whose flag differs from the canonical one.                     *)
Flips(f, k) == [on |-> CanonicalOf(f, k) \ f[k].canon,
                off |-> f[k].canon \ CanonicalOf(f, k)]
(* Seeded fault: the UPDATE only ever demotes.                             *)
Demoted(row, flip) == [row EXCEPT !.canon = @ \ flip.off]

Flipped(row, flip) == [row EXCEPT !.canon = (@ \cup flip.on) \ flip.off]

UsageOf(f) == {p \in Keys \X Uuids : p[2] \in f[p[1]].canon}

(* Seeded fault: files with no row contribute too.                         *)
CallsLeftJoined(f) == {<<k, f[k].content>> : k \in Keys}

CallsOf(f) == {<<k, f[k].content>> : k \in {j \in Keys : HasRow(f, j)}}

(* Exactly one row of each uuid counts.                                    *)
TrueUsage(f) == {p \in Keys \X Uuids : IsFirst(f, p[1], p[2])}

-----------------------------------------------------------------------------
(* A slot with no run in it, and the end of the runs of a set of slots.    *)
RunsEnd(T) ==
    /\ pc' = [t \in Triggers |-> IF t \in T THEN "idle" ELSE pc[t]]
    /\ existing' = [t \in Triggers |->
          IF t \in T THEN [k \in Keys |-> NoStored] ELSE existing[t]]
    /\ cursor' = [t \in Triggers |-> IF t \in T THEN 1 ELSE cursor[t]]
    /\ listing' = [t \in Triggers |->
          IF t \in T THEN [k \in Keys |-> 0] ELSE listing[t]]
    /\ todo' = [t \in Triggers |-> IF t \in T THEN {} ELSE todo[t]]
    /\ batch' = [t \in Triggers |-> IF t \in T THEN {} ELSE batch[t]]
    /\ fetched' = [t \in Triggers |->
          IF t \in T THEN [k \in Keys |-> 0] ELSE fetched[t]]
    /\ failed' = [t \in Triggers |-> IF t \in T THEN {} ELSE failed[t]]
    /\ changed' = [t \in Triggers |-> IF t \in T THEN FALSE ELSE changed[t]]
    /\ fatal' = [t \in Triggers |-> IF t \in T THEN FALSE ELSE fatal[t]]
    /\ flips' = [t \in Triggers |->
          IF t \in T THEN [k \in Keys |-> NoFlips] ELSE flips[t]]
    /\ raced' = raced \ T

Init ==
    /\ bucket = [k \in Keys |-> 0] /\ newest = [k \in Keys |-> 0]
    /\ files = [k \in Keys |-> NoRow]
    /\ usage = {} /\ tools = {} /\ latency = {} /\ unannounced = FALSE
    /\ stale = FALSE
    /\ pc = [t \in Triggers |-> "idle"]
    /\ existing = [t \in Triggers |-> [k \in Keys |-> NoStored]]
    /\ cursor = [t \in Triggers |-> 1]
    /\ listing = [t \in Triggers |-> [k \in Keys |-> 0]]
    /\ todo = [t \in Triggers |-> {}] /\ batch = [t \in Triggers |-> {}]
    /\ fetched = [t \in Triggers |-> [k \in Keys |-> 0]]
    /\ failed = [t \in Triggers |-> {}]
    /\ changed = [t \in Triggers |-> FALSE]
    /\ fatal = [t \in Triggers |-> FALSE]
    /\ flips = [t \in Triggers |-> [k \in Keys |-> NoFlips]] /\ raced = {}
    /\ release = 1 /\ drops = 0 /\ deaths = 0

(* The archiver uploads a new version of a transcript, or drops a key.     *)
Upload(k) ==
    /\ newest[k] < MaxVersion[k]
    /\ newest' = [newest EXCEPT ![k] = @ + 1]
    /\ bucket' = [bucket EXCEPT ![k] = newest[k] + 1]
    /\ UNCHANGED <<dbVars, runVars, chanceVars>>

Remove(k) ==
    /\ bucket[k] # 0
    /\ bucket' = [bucket EXCEPT ![k] = 0]
    /\ UNCHANGED <<newest, dbVars, runVars, chanceVars>>

-----------------------------------------------------------------------------
(* One run.  BeginRun books the run and takes the _existing_files snapshot *)
(* that every later skip decision of this run is made against.             *)
BeginRun(t) ==
    /\ pc[t] = "idle"
    /\ pc' = [pc EXCEPT ![t] = "list"]
    /\ existing' = [existing EXCEPT ![t] = [k \in Keys |-> Stored(files[k])]]
    /\ UNCHANGED <<bucketVars, dbVars, cursor, listing, todo, batch, fetched,
                   failed, changed, fatal, flagVars, chanceVars>>

(* _scan_r2: the listing is paginated, so each key is seen at its own      *)
(* moment.                                                                 *)
ListKey(t) ==
    /\ pc[t] = "list"
    /\ cursor[t] <= NumKeys
    /\ listing' = [listing EXCEPT ![t][cursor[t]] = bucket[cursor[t]]]
    /\ cursor' = [cursor EXCEPT ![t] = @ + 1]
    /\ UNCHANGED <<bucketVars, dbVars, pc, existing, todo, batch, fetched,
                   failed, changed, fatal, flagVars, chanceVars>>

(* A stored row is current when etag and parser_version both match.        *)
UpToDate(t, k) ==
    /\ existing[t][k].etag = listing[t][k]
    /\ existing[t][k].parser = ParserVersion[release]

(* _plan_work: every listed object whose stored row is not current.  What  *)
(* the run does not read again is forgotten, here and at its end.          *)
PlanWork(t) ==
    /\ pc[t] = "list" /\ cursor[t] > NumKeys
    /\ todo' = [todo EXCEPT ![t] =
                  {k \in Keys : listing[t][k] # 0 /\ ~UpToDate(t, k)}]
    /\ existing' = [existing EXCEPT ![t] = [k \in Keys |-> NoStored]]
    /\ cursor' = [cursor EXCEPT ![t] = 1]
    /\ pc' = [pc EXCEPT ![t] = "fetch"]
    /\ UNCHANGED <<bucketVars, dbVars, listing, batch, fetched, failed,
                   changed, fatal, flagVars, chanceVars>>

Resolved(t) == {k \in Keys : fetched[t][k] # 0}
SmallerOf(a, b) == IF a <= b THEN a ELSE b

(* The next chunk goes to the pool; nothing of it is persisted before all  *)
(* of it has been fetched.                                                 *)
StartChunk(t) ==
    /\ pc[t] = "fetch"
    /\ batch[t] = {} /\ Resolved(t) = {} /\ todo[t] # {}
    /\ \E chunk \in SUBSET todo[t] :
         /\ Cardinality(chunk) = SmallerOf(ChunkSize, Cardinality(todo[t]))
         /\ \A k \in chunk, j \in todo[t] \ chunk : k < j
         /\ batch' = [batch EXCEPT ![t] = chunk]
         /\ todo' = [todo EXCEPT ![t] = @ \ chunk]
    /\ UNCHANGED <<bucketVars, dbVars, pc, existing, cursor, listing,
                   fetched, failed, changed, fatal, flagVars, chanceVars>>

(* _fetch_and_parse on a pool thread: the GET returns whatever the bucket  *)
(* holds now, which may be newer than what was listed.                     *)
FetchOK(t, k) ==
    /\ pc[t] = "fetch" /\ k \in batch[t]
    /\ bucket[k] # 0 /\ k \in Reads[release]
    /\ fetched' = [fetched EXCEPT ![t][k] = bucket[k]]
    /\ batch' = [batch EXCEPT ![t] = @ \ {k}]
    /\ UNCHANGED <<bucketVars, dbVars, pc, existing, cursor, listing, todo,
                   failed, changed, fatal, flagVars, chanceVars>>

(* Seeded fault: the skipped object is marked parsed, with no records.     *)
FetchUnsupportedMarked(t, k) ==
    /\ pc[t] = "fetch" /\ k \in batch[t]
    /\ bucket[k] # 0 /\ k \notin Reads[release]
    /\ batch' = [batch EXCEPT ![t] = @ \ {k}]
    /\ files' = [files EXCEPT ![k] =
          [NoRow EXCEPT !.etag = listing[t][k],
                        !.parser = ParserVersion[release]]]
    /\ UNCHANGED <<bucketVars, usage, tools, latency, unannounced, stale, pc,
                   existing, cursor, listing, todo, fetched, failed, changed,
                   fatal, flagVars, chanceVars>>

(* UnsupportedTranscriptError: skipped, no row, no failure.                *)
FetchUnsupported(t, k) ==
    /\ pc[t] = "fetch" /\ k \in batch[t]
    /\ bucket[k] # 0 /\ k \notin Reads[release]
    /\ batch' = [batch EXCEPT ![t] = @ \ {k}]
    /\ UNCHANGED <<bucketVars, dbVars, pc, existing, cursor, listing, todo,
                   fetched, failed, changed, fatal, flagVars, chanceVars>>

(* Seeded fault: the failed key is not booked.                             *)
FetchFailedSilently(t, k) ==
    /\ pc[t] = "fetch" /\ k \in batch[t]
    /\ \/ bucket[k] = 0 /\ UNCHANGED drops
       \/ bucket[k] # 0 /\ drops < MaxDrops /\ drops' = drops + 1
    /\ batch' = [batch EXCEPT ![t] = @ \ {k}]
    /\ UNCHANGED <<bucketVars, dbVars, pc, existing, cursor, listing, todo,
                   fetched, failed, changed, fatal, flagVars, release, deaths>>

(* The object is gone, or every retry was dropped, or it is corrupt: the   *)
(* key is booked in `failed` and the run carries on.                       *)
FetchFailed(t, k) ==
    /\ pc[t] = "fetch" /\ k \in batch[t]
    /\ \/ bucket[k] = 0 /\ UNCHANGED drops
       \/ bucket[k] # 0 /\ drops < MaxDrops /\ drops' = drops + 1
    /\ batch' = [batch EXCEPT ![t] = @ \ {k}]
    /\ failed' = [failed EXCEPT ![t] = @ \cup {k}]
    /\ UNCHANGED <<bucketVars, dbVars, pc, existing, cursor, listing, todo,
                   fetched, changed, fatal, flagVars, release, deaths>>

(* Seeded fault: the etag is asked for again when the row is written.      *)
ParsedWithLateEtag(t, k) ==
    [etag |-> bucket[k], content |-> fetched[t][k],
     parser |-> ParserVersion[release], canon |-> Carries[k][fetched[t][k]]]

(* _persist: one file, one transaction.  The row gets the etag of the      *)
(* LISTING with the content that was FETCHED; new records are canonical    *)
(* by column default.                                                      *)
Parsed(t, k) ==
    [etag |-> listing[t][k], content |-> fetched[t][k],
     parser |-> ParserVersion[release], canon |-> Carries[k][fetched[t][k]]]

(* Rows come or go while other runs' UPDATEs are open.  Those read a       *)
(* snapshot: they never saw the new rows, and skip the ones that are gone. *)
Updating == {t \in Triggers : pc[t] = "reflag"}
RowsReplaced(K) ==
    /\ flips' = [t \in Triggers |-> [k \in Keys |->
          IF k \in K THEN NoFlips ELSE flips[t][k]]]
    /\ raced' = IF K = {} THEN raced ELSE raced \cup Updating

Persist(t, k) ==
    /\ pc[t] = "fetch" /\ batch[t] = {}
    /\ fetched[t][k] # 0
    /\ files' = [files EXCEPT ![k] = Parsed(t, k)]
    /\ fetched' = [fetched EXCEPT ![t][k] = 0]
    /\ changed' = [changed EXCEPT ![t] = TRUE]
    /\ unannounced' = TRUE
    /\ RowsReplaced({k})
    /\ UNCHANGED <<bucketVars, usage, tools, latency, stale, pc, existing,
                   cursor, listing, todo, batch, failed, fatal, chanceVars>>

(* All chunks done (and _upsert_projects, whose columns are left out).     *)
FetchDone(t) ==
    /\ pc[t] = "fetch"
    /\ todo[t] = {} /\ batch[t] = {} /\ Resolved(t) = {}
    /\ pc' = [pc EXCEPT ![t] = "delete"]
    /\ UNCHANGED <<bucketVars, dbVars, existing, cursor, listing, todo,
                   batch, fetched, failed, changed, fatal, flagVars, chanceVars>>

(* DELETE FROM files WHERE file_key != ALL(seen_keys).                     *)
Orphans(t) == {k \in Keys : HasRow(files, k) /\ listing[t][k] = 0}

DeleteOrphans(t) ==
    /\ pc[t] = "delete"
    /\ files' = [k \in Keys |-> IF k \in Orphans(t) THEN NoRow ELSE files[k]]
    /\ changed' = [changed EXCEPT ![t] = @ \/ Orphans(t) # {}]
    /\ unannounced' = (unannounced \/ Orphans(t) # {})
    /\ RowsReplaced(Orphans(t))
    /\ pc' = [pc EXCEPT ![t] = "finish"]
    /\ UNCHANGED <<bucketVars, usage, tools, latency, stale, existing, cursor,
                   listing, todo, batch, fetched, failed, fatal, chanceVars>>

(* An exception that escapes _ingest_main: the counts are the zeros they   *)
(* were before it, whatever has been persisted.                            *)
AbortMain(t) ==
    /\ pc[t] \in MainPhases
    /\ deaths < MaxDeaths /\ deaths' = deaths + 1
    /\ fatal' = [fatal EXCEPT ![t] = TRUE]
    /\ changed' = [changed EXCEPT ![t] = FALSE]
    /\ todo' = [todo EXCEPT ![t] = {}] /\ batch' = [batch EXCEPT ![t] = {}]
    /\ fetched' = [fetched EXCEPT ![t] = [k \in Keys |-> 0]]
    /\ pc' = [pc EXCEPT ![t] = "finish"]
    /\ UNCHANGED <<bucketVars, dbVars, existing, cursor, listing, failed,
                   flagVars, release, drops>>

(* Seeded fault: gated on changed data.                                    *)
GoOnIfChanged(t) == ~fatal[t] /\ changed[t]

(* _finish_run; the post-passes run only when the run was not fatal.       *)
GoOn(t) == ~fatal[t]

FinishRun(t) ==
    /\ pc[t] = "finish"
    /\ \/ /\ GoOn(t)
          /\ pc' = [pc EXCEPT ![t] = "canonical"]
          /\ UNCHANGED <<existing, cursor, listing, todo, batch, fetched,
                         failed, changed, fatal, flagVars>>
       \/ ~GoOn(t) /\ RunsEnd({t})
    /\ UNCHANGED <<bucketVars, dbVars, chanceVars>>

-----------------------------------------------------------------------------
(* The post-passes, each a transaction of its own.                         *)

PassDone(t, pass, next) ==
    /\ pc[t] = pass
    /\ pc' = [pc EXCEPT ![t] = next]
    /\ UNCHANGED <<bucketVars, existing, cursor, listing, todo, batch,
                   fetched, failed, changed, fatal, chanceVars>>

(* The UPDATE begins: its window query and its IS DISTINCT FROM read one   *)
(* snapshot, and so settle which rows it will write, and what.             *)
RecomputeCanonical(t) ==
    /\ PassDone(t, "canonical", "reflag")
    /\ flips' = [flips EXCEPT ![t] = [k \in Keys |-> Flips(files, k)]]
    /\ UNCHANGED <<dbVars, raced>>

(* Those rows of them that are still there have their flag written, the    *)
(* value as computed from the snapshot.  What a raced UPDATE writes races  *)
(* the other open ones in turn.                                            *)
CommitCanonical(t) ==
    /\ PassDone(t, "reflag", "usage")
    /\ files' = [k \in Keys |-> Flipped(files[k], flips[t][k])]
    /\ unannounced' = (unannounced \/ files' # files)
    /\ flips' = [flips EXCEPT ![t] = [k \in Keys |-> NoFlips]]
    /\ stale' = (t \in raced)
    /\ raced' = (IF t \in raced THEN Updating ELSE raced) \ {t}
    /\ UNCHANGED <<usage, tools, latency>>

RebuildRollup(t) ==
    /\ PassDone(t, "usage", "tools")
    /\ usage' = UsageOf(files)
    /\ unannounced' = (unannounced \/ usage' # usage)
    /\ UNCHANGED <<files, tools, latency, stale, flagVars>>

RebuildToolRollup(t) ==
    /\ PassDone(t, "tools", "latency")
    /\ tools' = CallsOf(files)
    /\ unannounced' = (unannounced \/ tools' # tools)
    /\ UNCHANGED <<files, usage, latency, stale, flagVars>>

RebuildLatencyRollup(t) ==
    /\ PassDone(t, "latency", "announce")
    /\ latency' = CallsOf(files)
    /\ unannounced' = (unannounced \/ latency' # latency)
    /\ UNCHANGED <<files, usage, tools, stale, flagVars>>

(* invalidate() and the ingest_done broadcast, only when this run counted  *)
(* a change.                                                               *)
Announce(t) ==
    /\ pc[t] = "announce"
    /\ unannounced' = (unannounced /\ ~changed[t])
    /\ RunsEnd({t})
    /\ UNCHANGED <<bucketVars, files, usage, tools, latency, stale, chanceVars>>

(* A post-pass raises (a lost connection, or the unique violation two      *)
(* rebuilds can meet): the exception leaves run_ingest at once.            *)
AbortPostPass(t) ==
    /\ pc[t] \in PostPasses \ {"announce"}
    /\ deaths < MaxDeaths /\ deaths' = deaths + 1
    /\ RunsEnd({t})
    /\ UNCHANGED <<bucketVars, dbVars, release, drops>>

(* The process dies, or is replaced by the next release: every run in      *)
(* flight is forgotten, and so is the response cache.                      *)
Restart ==
    /\ deaths < MaxDeaths /\ deaths' = deaths + 1
    /\ release' \in {release, SmallerOf(release + 1, MaxRelease)}
    /\ RunsEnd(Triggers)
    /\ unannounced' = FALSE
    /\ UNCHANGED <<bucketVars, files, usage, tools, latency, stale, drops>>

-----------------------------------------------------------------------------
MainStep(t) ==
    \/ ListKey(t) \/ PlanWork(t) \/ StartChunk(t)
    \/ \E k \in Keys : \/ FetchOK(t, k) \/ FetchUnsupported(t, k)
                       \/ FetchFailed(t, k) \/ Persist(t, k)
    \/ FetchDone(t) \/ DeleteOrphans(t) \/ FinishRun(t)

PostStep(t) ==
    \/ RecomputeCanonical(t) \/ CommitCanonical(t)
    \/ RebuildRollup(t) \/ RebuildToolRollup(t) \/ RebuildLatencyRollup(t)
    \/ Announce(t)

RunStep(t) == BeginRun(t) \/ MainStep(t) \/ PostStep(t)

Next ==
    \/ \E k \in Keys : Upload(k) \/ Remove(k)
    \/ \E t \in Triggers : RunStep(t) \/ AbortMain(t) \/ AbortPostPass(t)
    \/ Restart

Spec == Init /\ [][Next]_vars

(* The hourly job starts a run again and again, and a run that has begun   *)
(* goes on until it ends.                                                  *)
Fairness == \A t \in Triggers : WF_vars(RunStep(t))
FairSpec == Spec /\ Fairness
-----------------------------------------------------------------------------
(* PROPERTIES                                                              *)

(* A skipped file is a current file: whenever the stored etag equals the   *)
(* one R2 would list now, the stored records are those of the object R2    *)
(* holds now.  _plan_work skips on that equality, for any number of        *)
(* overlapping runs and for objects rewritten between listing and GET.     *)
SkipSound ==
    \A k \in Keys :
        HasRow(files, k) /\ files[k].etag = bucket[k]
            => files[k].content = bucket[k]

(* The inductive form: an etag is never newer than the content stored with *)
(* it, in the database and in what a run is about to store.                *)
RowsBehind ==
    \A k \in Keys :
        /\ newest[k] <= MaxVersion[k]
        /\ bucket[k] \in {0, newest[k]}
        /\ files[k].etag <= files[k].content
        /\ files[k].content <= newest[k]
RunsBehind ==
    \A t \in Triggers, k \in Keys :
        /\ listing[t][k] <= newest[k]
        /\ fetched[t][k] <= newest[k]
        /\ fetched[t][k] # 0 =>
              listing[t][k] # 0 /\ listing[t][k] <= fetched[t][k]
WorkListed ==
    \A t \in Triggers, k \in Keys :
        /\ k \in todo[t] \cup batch[t] => listing[t][k] # 0
        /\ pc[t] \in {"idle", "list"} =>
              fetched[t][k] = 0 /\ k \notin todo[t] /\ k \notin batch[t]
EtagBehindContent == RowsBehind /\ RunsBehind /\ WorkListed

DerivedExact ==
    /\ usage = TrueUsage(files)
    /\ tools = CallsOf(files) /\ latency = CallsOf(files)

(* Every run is over, and none of them died.  *)
Rest == deaths = 0 /\ \A t \in Triggers : pc[t] = "idle"

(* Once every run is over and none of them died, the rollups describe the  *)
(* records, each uuid counted once, however the runs overlapped: a run's   *)
(* rebuild may read another run's half-done work, but then the other run's *)
(* own post-passes are still to come.  One thing alone gets in the way: a  *)
(* last UPDATE of the flags under which another run stored or deleted rows *)
(* (recompute_canonical takes no lock).  The tool and latency rollups are  *)
(* exact even then, and the first UPDATE that is not raced repairs the     *)
(* flags.  Until then the docstring's "exactly the row" that was picked at *)
(* read time may be none: the request is counted by nobody, or twice.      *)
QuiescentDerivedExact ==
    Rest => /\ tools = CallsOf(files) /\ latency = CallsOf(files)
            /\ usage = UsageOf(files)
            /\ ~stale => DerivedExact

(* With no second run in flight, usage_rollup never counts a uuid twice,   *)
(* in any state: records are inserted canonical, and recompute_canonical   *)
(* must come between that and the rebuild.                                 *)
UsageCountsOnce == \A p, q \in usage : p[2] = q[2] => p = q

(* t ends by itself, not by an exception or a restart.                     *)
CleanEnd(t) ==
    /\ pc[t] \in {"finish", "announce"} /\ pc'[t] = "idle"
    /\ ~fatal[t] /\ deaths' = deaths

(* A run without a fatal error repairs what earlier runs that died left    *)
(* behind: at its end the rollups describe the records, even when it       *)
(* changed no file itself.                                                 *)
CleanRunHeals == [][\A t \in Triggers : CleanEnd(t) => DerivedExact']_vars

(* Every object a clean run listed is stored as listed, or is named in the *)
(* run's error, or has a format this release cannot parse; and everything  *)
(* it did not list is gone.                                                *)
CleanRunAccountsForAll ==
    [][\A t \in Triggers : CleanEnd(t) =>
         \A k \in Keys :
            IF listing[t][k] = 0 THEN ~HasRow(files, k)
            ELSE \/ k \in failed[t] \/ k \notin Reads[release]
                 \/ /\ files[k].etag = listing[t][k]
                    /\ files[k].parser = ParserVersion[release]]_vars

(* When the bucket, the network and the process settle, the database comes *)
(* to mirror the bucket and stays so: retries need no memory of failures,  *)
(* and a transcript skipped as unsupported is ingested by the release that *)
(* first understands it.                                                   *)
Mirrored ==
    /\ \A k \in Keys :
          IF bucket[k] = 0 THEN ~HasRow(files, k)
          ELSE k \in Reads[release] =>
                 /\ files[k].content = bucket[k]
                 /\ files[k].parser = ParserVersion[release]
    /\ DerivedExact
Converges == <>[]Mirrored

(* What the comment above the invalidate says: changed data marks the      *)
(* response cache stale and notifies the dashboards.                       *)
CleanRunAnnounces == [][\A t \in Triggers : CleanEnd(t) => ~unannounced']_vars
=============================================================================
