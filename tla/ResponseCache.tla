---------------------------- MODULE ResponseCache ----------------------------
(***************************************************************************)
(* The stale-while-revalidate response cache of backend/cache.py: the      *)
(* cache_response wrapper around the heavy read endpoints, the _TTLCache   *)
(* under it, the two-worker refresh pool, and the ingest that commits new  *)
(* data, invalidates and warms.                                            *)
(*                                                                         *)
(* The database is a number that grows with every commit readers can see,  *)
(* and a response is the number it was computed from.  A step is what one  *)
(* thread does while it holds _guard, _registry_guard or a key lock, or a  *)
(* query's read of its snapshot; a thread can stop between any two.        *)
(***************************************************************************)
EXTENDS Naturals, Sequences, FiniteSets

CONSTANTS
    Keys,       \* cache keys: endpoint and query parameters
    WarmKeys,   \* the keys warm_common covers
    Requests,   \* FastAPI's threadpool threads
    Workers,    \* _refresh_pool's threads
    Nobody,     \* not a thread: a key lock that is free
    MaxCommits, \* bound: commits of data that readers can see
    MaxFailures, \* bound: queries that raise
    MaxQueue    \* bound: tasks queued when warm() submits another

ASSUME WarmAssumption == WarmKeys \subseteq Keys
ASSUME ThreadAssumption ==
    Requests \cap Workers = {} /\ Nobody \notin Requests \cup Workers
ASSUME BoundAssumption ==
    MaxCommits \in Nat /\ MaxFailures \in Nat /\ MaxQueue \in Nat

Threads == Requests \cup Workers

VARIABLES
    data,       \* the database, as readers see it
    announced,  \* the database at the last invalidate()
    ingest,     \* whether a run has committed and not yet invalidated
    generation, \* _TTLCache._generation
    items,      \* _TTLCache._items
    lock,       \* _key_locks: the holder of each key's lock
    refreshing, \* _refreshing
    queue,      \* tasks submitted to _refresh_pool
    pc, want, result, \* per thread: its place, its key, its value in hand
    failures

dataVars == <<data, announced, ingest>>
threadVars == <<pc, want, result>>
vars == <<dataVars, generation, items, lock, refreshing, queue, threadVars,
          failures>>

(* Value 0 is no value: the database starts at 1.                          *)
NoEntry == [value |-> 0, gen |-> 0, expired |-> FALSE]
Entry == [value: Nat, gen: Nat, expired: BOOLEAN]

Task == [kind: {"refresh", "warm"}, key: Keys]
RefreshOf(k) == [kind |-> "refresh", key |-> k]
WarmOf(k) == [kind |-> "warm", key |-> k]

InlinePhases == {"recheck", "query", "store"}
RefreshPhases == {"rquery", "rstore", "rdone"}
Phases == {"idle", "lookup", "schedule", "submit", "wait"}
              \cup InlinePhases \cup RefreshPhases

TypeOK ==
    /\ data \in Nat /\ announced \in Nat
    /\ ingest \in {"idle", "committed"}
    /\ generation \in Nat
    /\ items \in [Keys -> Entry]
    /\ lock \in [Keys -> Threads \cup {Nobody}]
    /\ refreshing \in SUBSET Keys
    /\ queue \in Seq(Task)
    /\ pc \in [Threads -> Phases]
    /\ want \in [Threads -> Keys]
    /\ result \in [Threads -> Nat]
    /\ \A r \in Requests : pc[r] \notin RefreshPhases
    /\ failures \in Nat

Init ==
    /\ data = 1 /\ announced = 1 /\ ingest = "idle" /\ generation = 0
    /\ items = [k \in Keys |-> NoEntry]
    /\ lock = [k \in Keys |-> Nobody]
    /\ refreshing = {} /\ queue = <<>>
    /\ pc = [a \in Threads |-> "idle"]
    /\ want \in {[a \in Threads |-> k] : k \in Keys}
    /\ result = [a \in Threads |-> 0]
    /\ failures = 0

-----------------------------------------------------------------------------
(* _TTLCache *)

(* Seeded fault: get_entry does not look at the age of an entry.           *)
LiveForEver(k) == items[k].value # 0

(* get_entry returns an entry, as opposed to a miss or an expired one.     *)
Live(k) == items[k].value # 0 /\ ~items[k].expired
Stale(k) == items[k].gen # generation

(* get_entry on a miss also pops what has expired.                         *)
Popped(k) == [items EXCEPT ![k] = NoEntry]

(* put tags the entry with the generation of the moment of the put.        *)
Put(k, v) ==
    items' = [items EXCEPT
                ![k] = [value |-> v, gen |-> generation, expired |-> FALSE]]

(* An entry's age passes ttl_seconds.                                      *)
Expire(k) ==
    /\ Live(k)
    /\ items' = [items EXCEPT ![k].expired = TRUE]
    /\ UNCHANGED <<dataVars, generation, lock, refreshing, queue, threadVars,
                   failures>>

-----------------------------------------------------------------------------
(* The ingest: a run commits, then calls invalidate(); one that dies in    *)
(* between never does.  Every clean run, also one that changed nothing,    *)
(* ends in warm_common, which submits its keys one after another; runs     *)
(* overlap, so the three are not tied to each other.                       *)

Commit ==
    /\ data < MaxCommits
    /\ data' = data + 1 /\ ingest' = "committed"
    /\ UNCHANGED <<announced, generation, items, lock, refreshing, queue,
                   threadVars, failures>>

Invalidate ==
    /\ ingest = "committed" /\ ingest' = "idle"
    /\ generation' = generation + 1
    /\ announced' = data
    /\ UNCHANGED <<data, items, lock, refreshing, queue, threadVars, failures>>

Warm(k) ==
    /\ k \in WarmKeys /\ Len(queue) < MaxQueue
    /\ queue' = Append(queue, WarmOf(k))
    /\ UNCHANGED <<dataVars, generation, items, lock, refreshing, threadVars,
                   failures>>

-----------------------------------------------------------------------------
(* The wrapper, run by a request thread, or by a pool thread that warms.   *)

Goto(a, phase) == pc' = [pc EXCEPT ![a] = phase]
Keep(a, v) == result' = [result EXCEPT ![a] = v]
Done(a) == Goto(a, "idle") /\ Keep(a, 0)
Unlock(k) == lock' = [lock EXCEPT ![k] = Nobody]

Request(r, k) ==
    /\ pc[r] = "idle"
    /\ want' = [want EXCEPT ![r] = k]
    /\ Goto(r, "lookup")
    /\ UNCHANGED <<dataVars, generation, items, lock, refreshing, queue,
                   result, failures>>

LookupFresh(a) ==
    /\ pc[a] = "lookup" /\ Live(want[a]) /\ ~Stale(want[a])
    /\ Done(a)
    /\ UNCHANGED <<dataVars, generation, items, lock, refreshing, queue, want,
                   failures>>

LookupStale(a) ==
    /\ pc[a] = "lookup" /\ Live(want[a]) /\ Stale(want[a])
    /\ Goto(a, "schedule") /\ Keep(a, items[want[a]].value)
    /\ UNCHANGED <<dataVars, generation, items, lock, refreshing, queue, want,
                   failures>>

LookupMiss(a) ==
    /\ pc[a] = "lookup" /\ ~Live(want[a])
    /\ items' = Popped(want[a])
    /\ Goto(a, "wait")
    /\ UNCHANGED <<dataVars, generation, lock, refreshing, queue, want, result,
                   failures>>

(* _schedule_refresh, at most once per key: the registry is consulted and  *)
(* written under its lock, the task submitted after that.  The stale value *)
(* is then returned.                                                       *)
ScheduleSkip(a) ==
    /\ pc[a] = "schedule" /\ want[a] \in refreshing
    /\ Done(a)
    /\ UNCHANGED <<dataVars, generation, items, lock, refreshing, queue, want,
                   failures>>

(* Seeded fault: the registry is not consulted.                            *)
ScheduleAlways(a) ==
    /\ pc[a] = "schedule"
    /\ refreshing' = refreshing \cup {want[a]}
    /\ Goto(a, "submit")
    /\ UNCHANGED <<dataVars, generation, items, lock, queue, want, result,
                   failures>>

(* Seeded fault: the refresh runs on the thread that found the entry stale. *)
ScheduleInline(a) ==
    /\ pc[a] = "schedule" /\ want[a] \notin refreshing
    /\ refreshing' = refreshing \cup {want[a]}
    /\ Goto(a, "rquery")
    /\ UNCHANGED <<dataVars, generation, items, lock, queue, want, result,
                   failures>>

Schedule(a) ==
    /\ pc[a] = "schedule" /\ want[a] \notin refreshing
    /\ refreshing' = refreshing \cup {want[a]}
    /\ Goto(a, "submit")
    /\ UNCHANGED <<dataVars, generation, items, lock, queue, want, result,
                   failures>>

Submit(a) ==
    /\ pc[a] = "submit"
    /\ queue' = Append(queue, RefreshOf(want[a]))
    /\ Done(a)
    /\ UNCHANGED <<dataVars, generation, items, lock, refreshing, want,
                   failures>>

Acquire(a) ==
    /\ pc[a] = "wait" /\ lock[want[a]] = Nobody
    /\ lock' = [lock EXCEPT ![want[a]] = a]
    /\ Goto(a, "recheck")
    /\ UNCHANGED <<dataVars, generation, items, refreshing, queue, want, result,
                   failures>>

(* Another thread may have populated it: any live entry will do, stale     *)
(* included, and no refresh is scheduled here.                             *)
RecheckHit(a) ==
    /\ pc[a] = "recheck" /\ Live(want[a])
    /\ Unlock(want[a]) /\ Done(a)
    /\ UNCHANGED <<dataVars, generation, items, refreshing, queue, want,
                   failures>>

(* Seeded fault: what was computed during the wait is not looked for.      *)
RecheckNever(a) ==
    /\ pc[a] = "recheck"
    /\ items' = Popped(want[a])
    /\ Goto(a, "query")
    /\ UNCHANGED <<dataVars, generation, lock, refreshing, queue, want, result,
                   failures>>

RecheckMiss(a) ==
    /\ pc[a] = "recheck" /\ ~Live(want[a])
    /\ items' = Popped(want[a])
    /\ Goto(a, "query")
    /\ UNCHANGED <<dataVars, generation, lock, refreshing, queue, want, result,
                   failures>>

Query(a) ==
    /\ pc[a] = "query"
    /\ Keep(a, data) /\ Goto(a, "store")
    /\ UNCHANGED <<dataVars, generation, items, lock, refreshing, queue, want,
                   failures>>

(* Seeded fault: an exception leaves the lock taken.                       *)
QueryFailsHolding(a) ==
    /\ pc[a] \in {"query", "store"} /\ failures < MaxFailures
    /\ failures' = failures + 1
    /\ Done(a)
    /\ UNCHANGED <<dataVars, generation, items, lock, refreshing, queue, want>>

(* The endpoint raises: the with block gives the lock back.                *)
QueryFails(a) ==
    /\ pc[a] \in {"query", "store"} /\ failures < MaxFailures
    /\ failures' = failures + 1
    /\ Unlock(want[a]) /\ Done(a)
    /\ UNCHANGED <<dataVars, generation, items, refreshing, queue, want>>

Store(a) ==
    /\ pc[a] = "store"
    /\ Put(want[a], result[a])
    /\ Unlock(want[a]) /\ Done(a)
    /\ UNCHANGED <<dataVars, generation, refreshing, queue, want, failures>>

-----------------------------------------------------------------------------
(* The pool: tasks in the order submitted.                                 *)

TakeTask(w) ==
    /\ pc[w] = "idle" /\ queue # <<>>
    /\ queue' = Tail(queue)
    /\ want' = [want EXCEPT ![w] = Head(queue).key]
    /\ Goto(w, IF Head(queue).kind = "warm" THEN "lookup" ELSE "rquery")
    /\ UNCHANGED <<dataVars, generation, items, lock, refreshing, result,
                   failures>>

RefreshQuery(w) ==
    /\ pc[w] = "rquery"
    /\ Keep(w, data) /\ Goto(w, "rstore")
    /\ UNCHANGED <<dataVars, generation, items, lock, refreshing, queue, want,
                   failures>>

(* Seeded fault: a failed refresh keeps its place in the registry.         *)
RefreshFailsRegistered(w) ==
    /\ pc[w] \in {"rquery", "rstore"} /\ failures < MaxFailures
    /\ failures' = failures + 1
    /\ Done(w)
    /\ UNCHANGED <<dataVars, generation, items, lock, refreshing, queue, want>>

(* A failed refresh leaves the stale entry in place, and is logged.        *)
RefreshFails(w) ==
    /\ pc[w] \in {"rquery", "rstore"} /\ failures < MaxFailures
    /\ failures' = failures + 1
    /\ Goto(w, "rdone") /\ Keep(w, 0)
    /\ UNCHANGED <<dataVars, generation, items, lock, refreshing, queue, want>>

RefreshStore(w) ==
    /\ pc[w] = "rstore"
    /\ Put(want[w], result[w])
    /\ Goto(w, "rdone") /\ Keep(w, 0)
    /\ UNCHANGED <<dataVars, generation, lock, refreshing, queue, want,
                   failures>>

RefreshDone(w) ==
    /\ pc[w] = "rdone"
    /\ refreshing' = refreshing \ {want[w]}
    /\ Done(w)
    /\ UNCHANGED <<dataVars, generation, items, lock, queue, want, failures>>

-----------------------------------------------------------------------------
(* What a thread does once it has begun, and the acquisition of a lock.    *)
Proceed(a) ==
    \/ LookupFresh(a) \/ LookupStale(a) \/ LookupMiss(a)
    \/ ScheduleSkip(a) \/ Schedule(a) \/ Submit(a)
    \/ RecheckHit(a) \/ RecheckMiss(a) \/ Query(a) \/ Store(a)
    \/ QueryFails(a)
Refresh(w) ==
    RefreshQuery(w) \/ RefreshStore(w) \/ RefreshDone(w) \/ RefreshFails(w)

IngestStep == Commit \/ Invalidate \/ (\E k \in Keys : Warm(k))

Next ==
    \/ IngestStep
    \/ \E k \in Keys : Expire(k)
    \/ \E r \in Requests, k \in Keys : Request(r, k)
    \/ \E a \in Threads : Proceed(a) \/ Acquire(a)
    \/ \E w \in Workers : TakeTask(w) \/ Refresh(w)

Spec == Init /\ [][Next]_vars

(* Threads run, queries end, time passes, and a lock that keeps being      *)
(* released is in the end given to each of its waiters.  Nothing obliges   *)
(* an ingest to commit, to invalidate or to warm, or anyone to ask.        *)
Fairness ==
    /\ \A a \in Threads : WF_vars(Proceed(a)) /\ SF_vars(Acquire(a))
    /\ \A w \in Workers : WF_vars(TakeTask(w)) /\ WF_vars(Refresh(w))
    /\ \A k \in Keys : WF_vars(Expire(k))
FairSpec == Spec /\ Fairness

-----------------------------------------------------------------------------
(* PROPERTIES                                                              *)

(* Per key at most one thread is past the lock, and it holds it.           *)
Inside(k) == {a \in Threads : pc[a] \in InlinePhases /\ want[a] = k}
LockHeld ==
    \A k \in Keys, a \in Threads : a \in Inside(k) <=> lock[k] = a

(* A burst of cold requests runs the query once: a thread sets out to      *)
(* compute a key inline only while nobody else does, and only if neither   *)
(* whoever it waited for nor a refresh has left an entry that still lives. *)
(* So between two inline computations one failed or an entry expired.      *)
(* (cache.py, cache_response)                                              *)
Computing(a, k) == pc[a] \in {"query", "store"} /\ want[a] = k
Flies(a) ==
    pc[a] # "query" /\ pc'[a] = "query" =>
        ~Live(want'[a]) /\ \A b \in Threads \ {a} : ~Computing(b, want'[a])
SingleFlight == [][\A a \in Threads : Flies(a)]_vars

(* The registry is exact: a registered key has exactly one refresh, about  *)
(* to be submitted, queued or running, and an unregistered one has none.   *)
(* One more would run the query twice; one less would leave the key stale  *)
(* until its TTL, because no later hit could schedule a refresh.           *)
Submitting(k) == {a \in Threads : pc[a] = "submit" /\ want[a] = k}
Queued(k) == {i \in DOMAIN queue : queue[i] = RefreshOf(k)}
Running(k) == {w \in Workers : pc[w] \in RefreshPhases /\ want[w] = k}
OneRefresh ==
    \A k \in Keys :
        /\ \A a, b \in Submitting(k) : a = b
        /\ \A i, j \in Queued(k) : i = j
        /\ \A v, w \in Running(k) : v = w
        /\ Submitting(k) = {} \/ Queued(k) = {}
        /\ Submitting(k) = {} \/ Running(k) = {}
        /\ Queued(k) = {} \/ Running(k) = {}
RegistryExact ==
    /\ OneRefresh
    /\ \A k \in Keys :
         k \in refreshing
             <=> Submitting(k) \cup Queued(k) \cup Running(k) # {}

(* Every request is answered, by a value or an error: no lock is lost and  *)
(* pool and request threads never wait for each other in a circle.         *)
RequestsAnswered ==
    \A r \in Requests : (pc[r] # "idle") ~> (pc[r] = "idle")

(* The TTL is the backstop: once the commits stop, no live entry holds     *)
(* older data for ever, even if nothing was invalidated and every refresh  *)
(* failed.                                                                 *)
EventuallyCurrent ==
    <>[](\A k \in Keys : Live(k) => items[k].value = data)
=============================================================================
