------------------------------- MODULE MCEvents -------------------------------
(* Instances of Events for TLC: two browsers, and queues that hold one     *)
(* event fewer than there are broadcasts, so that they fill up.            *)
EXTENDS Events

(* A server that ends the lifespan beside its open responses, as the       *)
(* comments of app.py and events.py have it, and uvicorn as the systemd    *)
(* unit starts it.                                                         *)
AsExpected == {[drainsFirst |-> FALSE, timeout |-> FALSE],
               [drainsFirst |-> TRUE, timeout |-> TRUE]}
=============================================================================
