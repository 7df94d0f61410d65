------------------------------ MODULE EventStream ------------------------------
(* The server side of /api/events (api/server.py): one bounded queue per       *)
(* connected client, filled by push_event, emptied by that client's handler.   *)
(* A stream is one request of a browser, from the moment it is made.           *)
EXTENDS Naturals, Sequences, FiniteSets

CONSTANTS
    Streams,    \* requests for /api/events, each used again once both sides let go
    QueueSize,  \* what a queue holds (256)
    WireSize,   \* what the network holds before a write has to wait
    MaxEvents,  \* bound: events emitted
    MaxStops    \* bound: times the daemon stops or dies

ASSUME StreamAssumption ==
    /\ QueueSize \in Nat \ {0}
    /\ WireSize \in Nat \ {0}
    /\ MaxEvents \in Nat
    /\ MaxStops \in Nat

VARIABLES
    server,     \* the daemon's HTTP server
    stops,      \* how often it has stopped
    emitted,    \* events so far; an event is its number, the order of its timestamp
    conn,       \* what has become of each stream
    clients,    \* _sse_clients: the streams that push_event fills
    queue,      \* the queue of each handler
    wire        \* what was written and the browser has not read

streamVars == <<server, stops, emitted, conn, clients, queue, wire>>

Events == 1..MaxEvents
Close == 0      \* {"_close": True}, in a queue
Headers == 0    \* the response headers, on the wire

(* asked: requested; served: its handler runs; cut: the handler has returned   *)
(* or died; left: the browser has gone and the handler does not know.          *)
Phases == {"none", "asked", "served", "cut", "left"}

Handled == {s \in Streams : conn[s] \in {"served", "left"}}

HasRoom(s) == Len(queue[s]) < QueueSize

(* put_nowait into the queues of all clients; a full queue goes without. *)
Filled(item) ==
    [s \in Streams |->
        IF s \in clients /\ HasRoom(s) THEN Append(queue[s], item) ELSE queue[s]]

StreamInit ==
    /\ server = "up"
    /\ stops = 0
    /\ emitted = 0
    /\ clients = {}
    /\ queue = [s \in Streams |-> <<>>]
    /\ wire = [s \in Streams |-> <<>>]

--------------------------------------------------------------------------------
(* The browser's side of a connection. *)

Asked(s) ==
    /\ conn[s] = "none"
    /\ conn' = [conn EXCEPT ![s] = "asked"]

(* A stream the browser lets go of: a handler that runs will find out later. *)
LetGo(s) == IF conn[s] \in {"served", "left"} THEN "left" ELSE "none"

Refused(s) == conn[s] = "asked" /\ server # "up"

AtEnd(s) == conn[s] = "cut" /\ wire[s] = <<>>

--------------------------------------------------------------------------------
(* The daemon's side. *)

PushEvent ==
    /\ server # "down"
    /\ emitted < MaxEvents
    /\ emitted' = emitted + 1
    /\ queue' = Filled(emitted + 1)
    /\ UNCHANGED <<server, stops, conn, clients, wire>>

(* _handle_events up to its loop: the headers, then the queue. *)
Accept(s) ==
    /\ server = "up"
    /\ conn[s] = "asked"
    /\ conn' = [conn EXCEPT ![s] = "served"]
    /\ clients' = clients \cup {s}
    /\ queue' = [queue EXCEPT ![s] = <<>>]
    /\ wire' = [wire EXCEPT ![s] = <<Headers>>]
    /\ UNCHANGED <<server, stops, emitted>>

(* One round of the loop: an event is written when the network takes it. *)
WriteEvent(s) ==
    /\ conn[s] = "served"
    /\ queue[s] # <<>>
    /\ Head(queue[s]) # Close
    /\ Len(wire[s]) < WireSize
    /\ wire' = [wire EXCEPT ![s] = Append(@, Head(queue[s]))]
    /\ queue' = [queue EXCEPT ![s] = Tail(@)]
    /\ UNCHANGED <<server, stops, emitted, conn, clients>>

(* The end of a handler, by the finally clause; without it the broken variant. *)
ReturnsUnremoved(s, phase) ==
    /\ conn' = [conn EXCEPT ![s] = phase]
    /\ queue' = [queue EXCEPT ![s] = <<>>]
    /\ UNCHANGED <<server, stops, emitted, clients>>

Returns(s, phase) ==
    /\ conn' = [conn EXCEPT ![s] = phase]
    /\ clients' = clients \ {s}
    /\ queue' = [queue EXCEPT ![s] = <<>>]
    /\ UNCHANGED <<server, stops, emitted>>

ReadClose(s) ==
    /\ conn[s] = "served"
    /\ queue[s] # <<>>
    /\ Head(queue[s]) = Close
    /\ Returns(s, "cut")
    /\ UNCHANGED wire

(* The write of an event or of a heartbeat fails, or there is a _close. *)
WriteFails(s) ==
    /\ conn[s] = "left"
    /\ Returns(s, "none")
    /\ UNCHANGED wire

(* stop() as far as it does not wait; the port is closed, handlers still run. *)
Stop ==
    /\ server = "up"
    /\ stops < MaxStops
    /\ server' = "stopping"
    /\ stops' = stops + 1
    /\ queue' = Filled(Close)
    /\ clients' = {}
    /\ UNCHANGED <<emitted, conn, wire>>

(* What ends all handlers at once: the process, or runner.cleanup(), which     *)
(* waits for them for a minute and then cancels them.                          *)
AllEnd ==
    /\ server' = "down"
    /\ conn' = [s \in Streams |-> CASE conn[s] = "served" -> "cut"
                                    [] conn[s] = "left" -> "none"
                                    [] OTHER -> conn[s]]
    /\ clients' = {}
    /\ queue' = [s \in Streams |-> <<>>]
    /\ UNCHANGED <<emitted, wire>>

(* A broken variant: only the port is closed. *)
CleanupOfPort ==
    /\ server = "stopping"
    /\ server' = "down"
    /\ UNCHANGED <<stops, emitted, conn, clients, queue, wire>>

Cleanup ==
    /\ server = "stopping"
    /\ AllEnd
    /\ UNCHANGED stops

Crash ==
    /\ server = "up"
    /\ stops < MaxStops
    /\ AllEnd
    /\ stops' = stops + 1

Boot ==
    /\ server = "down"
    /\ server' = "up"
    /\ UNCHANGED <<stops, emitted, conn, clients, queue, wire>>
================================================================================
