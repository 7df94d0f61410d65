------------------------------- MODULE Transport -------------------------------
(* The connections of transport/peer.py as the services above them see them.   *)
(* A connection is one TCP stream between the device that opened it and the    *)
(* one that accepted it; each end runs a receive loop over it, and each device *)
(* keeps a table from a peer's DID to the connection it sends on.  Nothing     *)
(* stops two devices from opening a connection each, so a table entry can be   *)
(* replaced while the connection it named stays open.                          *)
(* The handshake is taken to succeed and every message names its true sender.  *)
EXTENDS Mesh, Sequences

CONSTANTS
    Conns,      \* connections the run may open, each used once
    NoConn,     \* no connection in this table entry
    NoEnds      \* a connection nobody has opened yet

VARIABLES
    ends,       \* ends[c]: who opened c and who accepted it
    openAt,     \* openAt[c]: the ends whose receive loop is still running
    broken,     \* the connections whose stream is cut
    bound,      \* the connections whose acceptor has learnt the opener's DID
    table,      \* table[d][e]: TransportServer._connections of d
    inbox       \* inbox[c][d]: what d has still to read from c, oldest first

transportVars == <<ends, openAt, broken, bound, table, inbox>>

Ends == [opener : Devices, acceptor : Devices]

ASSUME TransportAssumption ==
    /\ NoConn \notin Conns
    /\ NoEnds \notin Ends

TransportTypeOK(Message) ==
    /\ ends \in [Conns -> Ends \cup {NoEnds}]
    /\ openAt \in [Conns -> SUBSET Devices]
    /\ broken \subseteq Conns
    /\ bound \subseteq Conns
    /\ table \in [Devices -> [Devices -> Conns \cup {NoConn}]]
    /\ inbox \in [Conns -> [Devices -> Seq(Message)]]

TransportInit ==
    /\ ends = [c \in Conns |-> NoEnds]
    /\ openAt = [c \in Conns |-> {}]
    /\ broken = {}
    /\ bound = {}
    /\ table = [d \in Devices |-> [e \in Devices |-> NoConn]]
    /\ inbox = [c \in Conns |-> [d \in Devices |-> <<>>]]

Opened(c) == ends[c] # NoEnds

Peer(c, d) == IF d = ends[c].opener THEN ends[c].acceptor ELSE ends[c].opener

Live(c) == c \notin broken /\ openAt[c] = {ends[c].opener, ends[c].acceptor}

(* inbox after d has sent m on c: a cut stream swallows it. *)
Sent(box, c, d, m) ==
    IF c \in broken THEN box ELSE [box EXCEPT ![c][Peer(c, d)] = Append(@, m)]

(* connect_to_peer, and the messages its caller sends next.  A stream cut      *)
(* between two of them is one whose reader stopped in time.                    *)
Connect(d, e, c, first) ==
    /\ d # e
    /\ ~Opened(c)
    /\ ends' = [ends EXCEPT ![c] = [opener |-> d, acceptor |-> e]]
    /\ openAt' = [openAt EXCEPT ![c] = {d, e}]
    /\ table' = [table EXCEPT ![d][e] = c]
    /\ inbox' = [inbox EXCEPT ![c][e] = @ \o first]
    /\ UNCHANGED <<broken, bound>>

(* d's receive loop takes the next message of c: the acceptor's first one     *)
(* tells it whom it is talking to.  inbox' is left to the handler.             *)
Dispatch(d, c) ==
    /\ d \in openAt[c]
    /\ inbox[c][d] # <<>>
    /\ IF d = ends[c].acceptor /\ c \notin bound
       THEN /\ bound' = bound \cup {c}
            /\ table' = [table EXCEPT ![d][ends[c].opener] = c]
       ELSE UNCHANGED <<bound, table>>
    /\ UNCHANGED <<ends, openAt, broken>>

Consumed(c, d) == [inbox EXCEPT ![c][d] = Tail(@)]

(* The stream is cut.  What was in flight may still be read. *)
Drop(c) ==
    /\ Opened(c)
    /\ c \notin broken
    /\ broken' = broken \cup {c}
    /\ UNCHANGED <<ends, openAt, bound, table, inbox>>

(* The finally clause of d's receive loop: the table entry goes only if it is  *)
(* still this connection.  An acceptor that never learnt the DID has no entry. *)
LoopEnds(d, c) ==
    /\ c \in broken
    /\ d \in openAt[c]
    /\ openAt' = [openAt EXCEPT ![c] = @ \ {d}]
    /\ inbox' = [inbox EXCEPT ![c][d] = <<>>]
    /\ table' = IF table[d][Peer(c, d)] = c
                THEN [table EXCEPT ![d][Peer(c, d)] = NoConn]
                ELSE table
    /\ UNCHANGED <<ends, broken, bound>>

(* One send of broadcast, on the connection its snapshot of the table named.   *)
(* A failed send removes whatever the table holds for that peer by now.        *)
BroadcastFails(d, e, c) ==
    /\ d \notin openAt[c] \/ c \in broken
    /\ table' = [table EXCEPT ![d][e] = NoConn]

BroadcastSend(d, e, c, m) ==
    \/ /\ d \in openAt[c]
       /\ inbox' = Sent(inbox, c, d, m)
       /\ UNCHANGED table
    \/ /\ BroadcastFails(d, e, c)
       /\ UNCHANGED inbox

(* d's process dies and starts again: its streams are cut, its table is empty. *)
Reset(d) ==
    /\ broken' = broken \cup {c \in Conns : d \in openAt[c]}
    /\ openAt' = [c \in Conns |-> openAt[c] \ {d}]
    /\ inbox' = [c \in Conns |-> [inbox[c] EXCEPT ![d] = <<>>]]
    /\ table' = [table EXCEPT ![d] = [e \in Devices |-> NoConn]]
    /\ UNCHANGED <<ends, bound>>

(* What every service may rely on: receive loops run over opened connections   *)
(* between two devices, and a table entry names one that leads to its peer.    *)
TransportInv ==
    /\ \A c \in Conns : Opened(c) => ends[c].opener # ends[c].acceptor
    /\ \A c \in Conns : openAt[c] # {} \/ c \in bound => Opened(c)
    /\ \A d, e \in Devices, c \in Conns : table[d][e] = c => Opened(c) /\ e = Peer(c, d)
================================================================================
