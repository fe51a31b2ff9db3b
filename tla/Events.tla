-------------------------------- MODULE Events --------------------------------
(***************************************************************************)
(* The ingest_done broadcast of backend/events.py and the server-sent      *)
(* event stream of backend/api.py: a registry of bounded asyncio queues,   *)
(* a broadcast made from any thread, and one generator per connection.     *)
(*                                                                         *)
(* The event loop runs one callback at a time, so a step on it is what     *)
(* runs between two awaits.  broadcast_threadsafe copies the registry      *)
(* under its lock and hands the loop one callback; the callbacks run in    *)
(* the order handed over.  A payload is the number of its broadcast.       *)
(***************************************************************************)
EXTENDS Naturals, Sequences

CONSTANTS
    Conns,        \* connections to /api/events, each with its queue
    QueueSize,    \* maxsize of a subscriber's queue
    MaxBroadcasts, \* bound: broadcasts
    Servers       \* ASGI servers: [drainsFirst, timeout]

ASSUME QueueAssumption == QueueSize \in Nat \ {0}
ASSUME ServerAssumption == Servers \subseteq [drainsFirst : BOOLEAN, timeout : BOOLEAN]

VARIABLES
    last,        \* the last broadcast
    subscribers, \* _subscribers
    scheduled,   \* _put_all callbacks on the loop, oldest first
    events,      \* per connection: its asyncio.Queue
    gen,         \* per connection: its generator's place
    connected,   \* per connection: the browser is at its other end
    received,    \* per connection: the last event the browser got
    owed,        \* history: connections not told of a broadcast yet
    server,      \* the server that runs the application
    stopping,    \* it was told to stop
    shutdown     \* _shutdown_event

stopVars == <<server, stopping, shutdown>>
streamVars == <<last, subscribers, scheduled, events, gen, connected, received,
                owed, stopVars>>

(* "top" is the head of the loop, "wait" the asyncio.wait in it.           *)
Places == {"new", "top", "wait", "ended"}
Callback == [targets: SUBSET Conns, payload: Nat]

StreamTypeOK ==
    /\ last \in Nat
    /\ subscribers \in SUBSET Conns
    /\ scheduled \in Seq(Callback)
    /\ events \in [Conns -> Seq(Nat)]
    /\ \A c \in Conns : Len(events[c]) <= QueueSize
    /\ gen \in [Conns -> Places]
    /\ connected \in [Conns -> BOOLEAN]
    /\ received \in [Conns -> Nat]
    /\ owed \in SUBSET Conns
    /\ server \in Servers /\ stopping \in BOOLEAN /\ shutdown \in BOOLEAN

StreamInit ==
    /\ last = 0 /\ subscribers = {} /\ scheduled = <<>>
    /\ events = [c \in Conns |-> <<>>]
    /\ gen = [c \in Conns |-> "new"]
    /\ connected = [c \in Conns |-> TRUE]
    /\ received = [c \in Conns |-> 0]
    /\ owed = {}
    /\ server \in Servers /\ stopping = FALSE /\ shutdown = FALSE

-----------------------------------------------------------------------------
(* Other threads: the ingest broadcasts, the server is told to stop.       *)

BroadcastOf(p) ==
    /\ scheduled' = Append(scheduled, [targets |-> subscribers, payload |-> p])
    /\ owed' = owed \cup subscribers
    /\ UNCHANGED <<subscribers, events, gen, connected, received, stopVars>>

Broadcast ==
    /\ last < MaxBroadcasts
    /\ last' = last + 1
    /\ BroadcastOf(last + 1)

Stop ==
    /\ ~stopping /\ stopping' = TRUE
    /\ UNCHANGED <<last, subscribers, scheduled, events, gen, connected,
                   received, owed, server, shutdown>>

(* The lifespan's exit.  A server may run it at once, or, as uvicorn does, *)
(* only when no response is open any more.                                 *)
Open == {c \in Conns : gen[c] \in {"top", "wait"}}
SignalShutdown ==
    /\ stopping /\ (server.drainsFirst => Open = {})
    /\ ~shutdown /\ shutdown' = TRUE
    /\ UNCHANGED <<last, subscribers, scheduled, events, gen, connected,
                   received, owed, server, stopping>>

-----------------------------------------------------------------------------
(* The event loop.                                                         *)

(* Seeded fault: the callback stays scheduled after it ran.                *)
PutAllAgain ==
    /\ scheduled # <<>>
    /\ LET cb == Head(scheduled)
       IN  /\ \E c \in cb.targets : Len(events[c]) < QueueSize
           /\ events' = [c \in Conns |->
                         IF c \in cb.targets /\ Len(events[c]) < QueueSize
                         THEN Append(events[c], cb.payload) ELSE events[c]]
    /\ UNCHANGED <<last, subscribers, scheduled, gen, connected, received,
                   owed, stopVars>>

(* Seeded fault: the bound of the queue is not kept.                       *)
PutAllUnbounded ==
    /\ scheduled # <<>> /\ scheduled' = Tail(scheduled)
    /\ events' = [c \in Conns |->
                  IF c \in Head(scheduled).targets
                  THEN Append(events[c], Head(scheduled).payload)
                  ELSE events[c]]
    /\ UNCHANGED <<last, subscribers, gen, connected, received, owed, stopVars>>

(* _put_all: a full queue drops the event.                                 *)
PutAll ==
    /\ scheduled # <<>> /\ scheduled' = Tail(scheduled)
    /\ LET cb == Head(scheduled)
       IN  events' = [c \in Conns |->
                      IF c \in cb.targets /\ Len(events[c]) < QueueSize
                      THEN Append(events[c], cb.payload) ELSE events[c]]
    /\ UNCHANGED <<last, subscribers, gen, connected, received, owed, stopVars>>

MoveTo(c, place) == gen' = [gen EXCEPT ![c] = place]

(* Seeded fault: the generators do not look at the shutdown event.         *)
ShutdownUnseen == FALSE

ShutdownSet == shutdown

(* Seeded fault: no finally clause.                                        *)
EndSubscribed(c) ==
    /\ MoveTo(c, "ended")
    /\ UNCHANGED <<last, subscribers, scheduled, events, connected, received,
                   owed, stopVars>>

(* The finally clause, however the generator ends.                         *)
End(c) ==
    /\ MoveTo(c, "ended")
    /\ subscribers' = subscribers \ {c}
    /\ UNCHANGED <<last, scheduled, events, connected, received, owed,
                   stopVars>>

Subscribe(c) ==
    /\ gen[c] = "new" /\ connected[c] /\ ~stopping
    /\ subscribers' = subscribers \cup {c}
    /\ MoveTo(c, "top")
    /\ UNCHANGED <<last, scheduled, events, connected, received, owed,
                   stopVars>>

(* The browser closes the page or loses the connection.                    *)
Disconnect(c) ==
    /\ gen[c] # "new" /\ connected[c]
    /\ connected' = [connected EXCEPT ![c] = FALSE]
    /\ UNCHANGED <<last, subscribers, scheduled, events, gen, received, owed,
                   stopVars>>

Wait(c) ==
    /\ gen[c] = "top" /\ connected[c] /\ ~ShutdownSet
    /\ MoveTo(c, "wait")
    /\ UNCHANGED <<last, subscribers, scheduled, events, connected, received,
                   owed, stopVars>>

Leave(c) ==
    /\ gen[c] = "top" /\ (~connected[c] \/ ShutdownSet)
    /\ End(c)

(* The queue's task won: its event is sent, to a browser that may be gone. *)
Deliver(c) ==
    /\ gen[c] = "wait" /\ events[c] # <<>> /\ ~ShutdownSet
    /\ events' = [events EXCEPT ![c] = Tail(@)]
    /\ MoveTo(c, "top")
    /\ received' = [received EXCEPT ![c] =
                     IF connected[c] THEN Head(events[c]) ELSE @]
    /\ owed' = owed \ {c}
    /\ UNCHANGED <<last, subscribers, scheduled, connected, stopVars>>

(* Seeded fault: the heartbeat gives up on what the queue's task had got.  *)
PingLosing(c) ==
    /\ gen[c] = "wait"
    /\ events' = [events EXCEPT ![c] = <<>>]
    /\ MoveTo(c, "top")
    /\ UNCHANGED <<last, subscribers, scheduled, connected, received, owed,
                   stopVars>>

(* The heartbeat: fifteen seconds passed.  Cancelling the queue's task     *)
(* takes nothing out of the queue.                                         *)
Ping(c) ==
    /\ gen[c] = "wait"
    /\ MoveTo(c, "top")
    /\ UNCHANGED <<last, subscribers, scheduled, events, connected, received,
                   owed, stopVars>>

(* The shutdown event's task won, or is found set beside the queue's.      *)
Wake(c) ==
    /\ gen[c] = "wait" /\ ShutdownSet
    /\ End(c)

(* The server cancels the response of a browser it knows to be gone.       *)
Cancel(c) ==
    /\ gen[c] \in {"top", "wait"} /\ ~connected[c]
    /\ End(c)

(* A server with a timeout (--timeout-graceful-shutdown) cancels what is   *)
(* still open some time after it was told to stop.                         *)
Abort(c) ==
    /\ stopping /\ server.timeout /\ c \in Open
    /\ End(c)

Generate(c) == Wait(c) \/ Leave(c) \/ Deliver(c) \/ Wake(c)

StreamNext ==
    \/ Broadcast \/ Stop \/ SignalShutdown \/ PutAll
    \/ \E c \in Conns :
         \/ Subscribe(c) \/ Disconnect(c) \/ Cancel(c) \/ Abort(c)
         \/ Generate(c) \/ Ping(c)

StreamSpec == StreamInit /\ [][StreamNext]_streamVars

(* The loop runs its callbacks, generators are resumed when what they wait *)
(* for is there, and time passes.  A generator at asyncio.wait whose queue *)
(* holds an event is resumed with it at once, so a heartbeat cannot keep   *)
(* overtaking the queue: delivery is strongly fair.  A server that is told *)
(* to stop gets to the lifespan's exit when nothing holds it up, and its   *)
(* timeout passes.  Nothing obliges it to stop, or to notice by itself     *)
(* that a browser is gone.                                                 *)
StreamFairness ==
    /\ WF_streamVars(PutAll) /\ WF_streamVars(SignalShutdown)
    /\ \A c \in Conns :
         /\ WF_streamVars(Generate(c)) /\ WF_streamVars(Ping(c))
         /\ SF_streamVars(Deliver(c)) /\ WF_streamVars(Abort(c))
FairStreamSpec == StreamSpec /\ StreamFairness

-----------------------------------------------------------------------------
(* PROPERTIES                                                              *)

(* Within one connection events arrive at most once and in the order       *)
(* broadcast, whatever was dropped in between: what waits in a queue is    *)
(* newer than what its browser has got, and newer towards the end.         *)
InOrder ==
    \A c \in Conns : \A i \in DOMAIN events[c] :
        /\ events[c][i] > received[c]
        /\ \A j \in 1..(i - 1) : events[c][j] < events[c][i]

(* Dropping an event at a full queue loses no notification: a browser that *)
(* was subscribed at a broadcast is sent an event at some moment after it, *)
(* and so refetches after it, unless it or the server goes away first.     *)
ToldAfterwards ==
    \A c \in Conns : (c \in owed) ~> (c \notin owed \/ ~connected[c] \/ stopping)

(* The registry does not grow with every visitor: the queue of a browser   *)
(* that is gone is dropped, by the heartbeat if by nothing else.           *)
GoneUnsubscribed ==
    \A c \in Conns : (~connected[c]) ~> (c \notin subscribers)

(* A server that is told to stop does not wait for ever for streams that   *)
(* never end by themselves: every generator ends, without an event and     *)
(* with its browser still there, if the server ends the lifespan beside    *)
(* them or has a timeout.  One that drains first and has no timeout waits  *)
(* for the generators, and they for the signal.                            *)
(* (events.py, shutdown_event and signal_shutdown; app.py, lifespan)       *)
ShutdownDrains ==
    stopping ~> (Open = {})
=============================================================================
