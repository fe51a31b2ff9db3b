------------------------------ MODULE LiveUpdate ------------------------------
(***************************************************************************)
(* A live dashboard: the ingest that invalidates the response cache and    *)
(* then broadcasts ingest_done, the event stream, and a browser that       *)
(* refetches through the cache when it is told (the dashboard and          *)
(* EventSource effects of src/app.jsx).                                    *)
(*                                                                         *)
(* It composes ResponseCache with Events.  The payload of an event is the  *)
(* database its ingest announced.  The request threads serve this browser. *)
(***************************************************************************)
EXTENDS ResponseCache

CONSTANTS
    Conns,    \* the browser's successive EventSource connections
    QueueSize

VARIABLES
    subscribers, scheduled, events, gen, connected, received, owed,
    server, stopping, shutdown,
    unsent,   \* invalidated and not yet broadcast; 0 is nothing
    refetch,  \* dashNonce has changed since the dashboard effect last ran
    shown,    \* the data in backendDash; 0 before the first answer
    notified  \* the newest data the browser was told of

streamVars == <<subscribers, scheduled, events, gen, connected, received, owed,
                server, stopping, shutdown>>
browserVars == <<refetch, shown, notified>>
liveVars == <<vars, streamVars, unsent, browserVars>>

(* uvicorn, started as examples/codexmeter.service starts it.              *)
Uvicorn == [drainsFirst |-> TRUE, timeout |-> TRUE]

Stream == INSTANCE Events WITH
    last <- announced, MaxBroadcasts <- MaxCommits,
    Servers <- {Uvicorn}

(* The page has just been mounted: both effects are about to run.          *)
LiveInit ==
    /\ Init
    /\ subscribers = {} /\ scheduled = <<>>
    /\ events = [c \in Conns |-> <<>>]
    /\ gen = [c \in Conns |-> "new"]
    /\ connected = [c \in Conns |-> TRUE]
    /\ received = [c \in Conns |-> 0]
    /\ owed = {} /\ server = Uvicorn /\ stopping = FALSE /\ shutdown = FALSE
    /\ unsent = 0 /\ refetch = TRUE /\ shown = 0 /\ notified = 0

-----------------------------------------------------------------------------
(* The ingest's end: invalidate(), then broadcast_threadsafe().            *)

InvalidateThenBroadcast ==
    /\ unsent = 0
    /\ Invalidate
    /\ unsent' = data
    /\ UNCHANGED <<streamVars, browserVars>>

Notify ==
    /\ unsent # 0
    /\ Stream!BroadcastOf(unsent)
    /\ unsent' = 0
    /\ UNCHANGED <<vars, browserVars>>

-----------------------------------------------------------------------------
(* The browser.                                                            *)

(* The dashboard effect: changes made before it runs are one fetch.        *)
Fetch(r, k) ==
    /\ refetch /\ refetch' = FALSE
    /\ Request(r, k)
    /\ UNCHANGED <<streamVars, unsent, shown, notified>>

(* The answer a request thread returns in this step, and setBackendDash:   *)
(* answers are shown in the order they arrive.                             *)
Answers(r) ==
    \/ (LookupFresh(r) \/ RecheckHit(r)) /\ shown' = items[want[r]].value
    \/ (ScheduleSkip(r) \/ Submit(r) \/ Store(r)) /\ shown' = result[r]
    \/ QueryFails(r) /\ shown' = shown

Respond(r) ==
    /\ Answers(r)
    /\ UNCHANGED <<streamVars, unsent, refetch, notified>>

(* An event that reaches the browser bumps dashNonce.                      *)
Hear(c) ==
    /\ Stream!Deliver(c)
    /\ \/ /\ connected[c]
          /\ refetch' = TRUE /\ notified' = Head(events[c])
       \/ ~connected[c] /\ UNCHANGED <<refetch, notified>>
    /\ UNCHANGED <<vars, unsent, shown>>

-----------------------------------------------------------------------------
(* The steps the browser sees nothing of.                                  *)

InCache(A) == A /\ UNCHANGED <<streamVars, unsent, browserVars>>
OnLoop(A) == A /\ UNCHANGED <<vars, unsent, browserVars>>

ThreadStep(a) ==
    \/ LookupStale(a) \/ LookupMiss(a) \/ Schedule(a)
    \/ RecheckMiss(a) \/ Query(a)

WorkerStep(w) == TakeTask(w) \/ Refresh(w) \/ Proceed(w)

Generator(c) == Stream!Wait(c) \/ Stream!Leave(c) \/ Stream!Wake(c)

Traffic(c) ==
    \/ Stream!Subscribe(c) \/ Stream!Disconnect(c)
    \/ Stream!Cancel(c) \/ Stream!Abort(c)

LiveNext ==
    \/ InvalidateThenBroadcast \/ Notify
    \/ \E r \in Requests : \/ Respond(r) \/ InCache(ThreadStep(r))
                           \/ \E k \in Keys : Fetch(r, k)
    \/ \E a \in Threads : InCache(Acquire(a))
    \/ \E w \in Workers : InCache(WorkerStep(w))
    \/ \E k \in Keys : InCache(Warm(k)) \/ InCache(Expire(k))
    \/ InCache(Commit)
    \/ OnLoop(Stream!PutAll) \/ OnLoop(Stream!Stop) \/ OnLoop(Stream!SignalShutdown)
    \/ \E c \in Conns : \/ Hear(c) \/ OnLoop(Generator(c))
                        \/ OnLoop(Stream!Ping(c)) \/ OnLoop(Traffic(c))

(* Everything that is under way is carried through: the request threads,   *)
(* the pool, the TTL, the event loop, the browser's effect and, once       *)
(* invalidate() has returned, the broadcast.                               *)
LiveFairness ==
    /\ \A r \in Requests :
         /\ WF_liveVars(Respond(r) \/ InCache(ThreadStep(r)))
         /\ WF_liveVars(\E k \in Keys : Fetch(r, k))
    /\ \A a \in Threads : SF_liveVars(InCache(Acquire(a)))
    /\ \A w \in Workers : WF_liveVars(InCache(WorkerStep(w)))
    /\ \A k \in Keys : WF_liveVars(InCache(Expire(k)))
    /\ WF_liveVars(OnLoop(Stream!PutAll))
    /\ \A c \in Conns :
         /\ WF_liveVars(OnLoop(Generator(c)))
         /\ WF_liveVars(OnLoop(Stream!Ping(c)))
         /\ SF_liveVars(Hear(c))
    /\ WF_liveVars(Notify)

LiveSpec == LiveInit /\ [][LiveNext]_liveVars
FairLiveSpec == LiveSpec /\ LiveFairness

-----------------------------------------------------------------------------
(* PROPERTIES                                                              *)

(* A browser that was told of new data comes to show it, without a reload. *)
NotifiedSeesData ==
    \A d \in 1..MaxCommits : (notified >= d) ~> (shown >= d)
=============================================================================
