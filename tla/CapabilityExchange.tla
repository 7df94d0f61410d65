--------------------------- MODULE CapabilityExchange --------------------------
(* How the devices of a mesh learn what the others can run (node.py and        *)
(* inference/capability.py over Transport): a device that connects sends its   *)
(* capability and is answered with the other's; each then measures the link in *)
(* the background; a device that leaves is taken out of the registry.          *)
(* Health broadcasts run beside it: they are what removes a dead connection    *)
(* from the table before its receive loop has noticed.                         *)
EXTENDS Transport, InferenceRegistry

CONSTANTS
    Offers,         \* the capabilities a device may find it has when it starts
    Openers,        \* the devices that discover the others and connect
    MaxRestarts,    \* bounds: crashes,
    MaxBroadcasts   \*         health broadcasts

ASSUME ExchangeAssumption ==
    /\ Offers \subseteq Capability
    /\ Offers # {}
    /\ Openers \subseteq Devices

VARIABLES
    own,        \* _local_inference_capability, but for the figures
    registry,   \* _inference_registry
    measured,   \* peer_latency_ms: the peers with a figure on record
    measuring,  \* the tasks of _measure_peer_link, by the connection they are for
    casting,    \* what is left of a broadcast's snapshot of the table
    restarts,   \* crashes so far
    broadcasts, \* broadcasts so far
    told        \* history: <<d, c>> when d has handled the capability sent on c

nodeVars == <<own, registry, measured, measuring>>
boundVars == <<restarts, broadcasts>>
vars == <<transportVars, nodeVars, casting, boundVars, told>>

Message ==
         [type : {"announce"}]
    \cup [type : {"capability"}, cap : Capability, reply : BOOLEAN]

-------------------------------------------------------------------------------
(* Connecting *)

(* _connect_and_announce: the capability that follows the ANNOUNCE asks for an *)
(* answer.                                                                     *)
ConnectToPeer(d, e, c) ==
    /\ Connect(d, e, c, <<[type |-> "announce"],
                         [type |-> "capability", cap |-> own[d], reply |-> TRUE]>>)
    /\ UNCHANGED <<nodeVars, casting, boundVars, told>>

HandleAnnounce(d, c) ==
    /\ Dispatch(d, c)
    /\ Head(inbox[c][d]).type = "announce"
    /\ inbox' = Consumed(c, d)
    /\ UNCHANGED <<nodeVars, casting, boundVars, told>>

(* Broken variants: the answer asks for an answer; it does not say whether it  *)
(* does; there is no answer.                                                   *)
AnswersWithRequest(box, d, c, m) ==
    Sent(box, c, d, [type |-> "capability", cap |-> own[d], reply |-> TRUE])
AnswersUnmarked(box, d, c, m) ==
    IF m.reply THEN Sent(box, c, d, [type |-> "capability", cap |-> own[d]]) ELSE box
AnswersNothing(box, d, c, m) == box

Answered(box, d, c, m) ==
    IF m.reply THEN Sent(box, c, d, [type |-> "capability", cap |-> own[d], reply |-> FALSE])
               ELSE box

(* _schedule_link_measurement: not for a peer whose latency is on record. *)
Schedule(d, e, c) ==
    measuring' = IF e \notin measured[d] THEN measuring \cup {<<d, c>>} ELSE measuring

(* _handle_inference_capability: register, answer once, measure the link. *)
HandleCapability(d, c) ==
    LET m == Head(inbox[c][d])  e == Peer(c, d)
    IN  /\ Dispatch(d, c)
        /\ m.type = "capability"
        /\ registry' = [registry EXCEPT ![d] = Updated(@, e, m.cap)]
        /\ inbox' = Answered(Consumed(c, d), d, c, m)
        /\ Schedule(d, e, c)
        /\ told' = told \cup {<<d, c>>}
        /\ UNCHANGED <<own, measured, casting, boundVars>>

-------------------------------------------------------------------------------
(* Measuring a link *)

(* _measure_peer_link: the probes, their echoes and the timeouts that stand in *)
(* for missing echoes take their time and yield a figure, measured or assumed. *)
(* It is recorded, for a peer that may have left by now, and the device        *)
(* registers itself again.                                                     *)
MeasurementEnds(d, c) ==
    /\ <<d, c>> \in measuring
    /\ measuring' = measuring \ {<<d, c>>}
    /\ measured' = [measured EXCEPT ![d] = @ \cup {Peer(c, d)}]
    /\ registry' = [registry EXCEPT ![d] = Updated(@, d, own[d])]
    /\ UNCHANGED <<transportVars, own, casting, boundVars, told>>

-------------------------------------------------------------------------------
(* Losing a peer *)

(* Broken variant: the listeners are called for every connection that ends. *)
ListenersAlways(d, c) == TRUE

(* The listeners are called only when the table still holds the connection. *)
ListenersCalled(d, c) == table[d][Peer(c, d)] = c

(* The end of a receive loop, with _on_peer_disconnected. *)
ReceiveLoopEnds(d, c) ==
    /\ LoopEnds(d, c)
    /\ IF ListenersCalled(d, c)
       THEN /\ registry' = [registry EXCEPT ![d] = Removed(@, Peer(c, d))]
            /\ measured' = [measured EXCEPT ![d] = @ \ {Peer(c, d)}]
       ELSE UNCHANGED <<registry, measured>>
    /\ UNCHANGED <<own, measuring, casting, boundVars, told>>

DropConn(c) ==
    Drop(c) /\ UNCHANGED <<nodeVars, casting, boundVars, told>>

(* _on_health_update starts a broadcast, which copies the table ... *)
StartBroadcast(d) ==
    LET snapshot == {<<e, table[d][e]>> : e \in {p \in Devices : table[d][p] # NoConn}}
    IN  /\ broadcasts < MaxBroadcasts
        /\ casting[d] = {}
        /\ snapshot # {}
        /\ casting' = [casting EXCEPT ![d] = snapshot]
        /\ broadcasts' = broadcasts + 1
        /\ UNCHANGED <<transportVars, nodeVars, restarts, told>>

(* ... and sends to one connection after the other.  A PROFILE_UPDATE that is  *)
(* sent is not followed any further: it is never the first message on its      *)
(* connection and its handler changes nothing modelled here.                   *)
BroadcastNext(d, e, c) ==
    /\ <<e, c>> \in casting[d]
    /\ \/ d \in openAt[c] /\ UNCHANGED table
       \/ BroadcastFails(d, e, c)
    /\ casting' = [casting EXCEPT ![d] = @ \ {<<e, c>>}]
    /\ UNCHANGED <<ends, openAt, broken, bound, inbox, nodeVars, boundVars, told>>

(* The process dies and starts again, and finds its capability anew. *)
Restart(d) ==
    /\ restarts < MaxRestarts
    /\ restarts' = restarts + 1
    /\ Reset(d)
    /\ \E cap \in Offers :
          /\ own' = [own EXCEPT ![d] = cap]
          /\ registry' = [registry EXCEPT ![d] = Updated(EmptyRegistry, d, cap)]
    /\ measured' = [measured EXCEPT ![d] = {}]
    /\ measuring' = {x \in measuring : x[1] # d}
    /\ casting' = [casting EXCEPT ![d] = {}]
    /\ UNCHANGED <<broadcasts, told>>

-------------------------------------------------------------------------------

Init ==
    /\ TransportInit
    /\ own \in [Devices -> Offers]
    /\ registry = [d \in Devices |-> Updated(EmptyRegistry, d, own[d])]
    /\ measured = [d \in Devices |-> {}]
    /\ measuring = {}
    /\ casting = [d \in Devices |-> {}]
    /\ restarts = 0
    /\ broadcasts = 0
    /\ told = {}

Receive(d, c) ==
    \/ HandleAnnounce(d, c)
    \/ HandleCapability(d, c)

Cast(d) == \E e \in Devices, c \in Conns : BroadcastNext(d, e, c)

Next ==
    \/ \E d \in Openers, e \in Devices, c \in Conns : ConnectToPeer(d, e, c)
    \/ \E d \in Devices, c \in Conns :
          Receive(d, c) \/ MeasurementEnds(d, c) \/ ReceiveLoopEnds(d, c)
    \/ \E d \in Devices : StartBroadcast(d) \/ Cast(d) \/ Restart(d)
    \/ \E c \in Conns : DropConn(c)

(* The event loop runs the tasks that can go on; every wait for a probe is     *)
(* bounded by a timeout.  Connections, crashes and broadcasts need not come.   *)
Fairness ==
    /\ \A d \in Devices, c \in Conns :
          /\ WF_vars(Receive(d, c))
          /\ WF_vars(MeasurementEnds(d, c)) /\ WF_vars(ReceiveLoopEnds(d, c))
    /\ \A d \in Devices : WF_vars(Cast(d))

Spec == Init /\ [][Next]_vars /\ Fairness

-------------------------------------------------------------------------------
(* Properties *)

(* The daemon's inference state, its tasks and the messages have their shape. *)
TypeOK ==
    /\ TransportTypeOK(Message)
    /\ own \in [Devices -> Offers]
    /\ registry \in [Devices -> Registries]
    /\ measured \in [Devices -> SUBSET Devices]
    /\ measuring \subseteq Devices \X Conns
    /\ casting \in [Devices -> SUBSET (Devices \X Conns)]
    /\ restarts \in Nat
    /\ broadcasts \in Nat
    /\ told \subseteq Devices \X Conns

(* A peer that has told its capability on the connection a device sends on is  *)
(* in that device's registry: connections that end, replace each other or are  *)
(* removed by a broadcast never take a peer out that is still there.           *)
ConnectedPeersKnown ==
    \A d, e \in Devices, c \in Conns :
        table[d][e] = c /\ <<d, c>> \in told => registry[d].caps[e] # NoCap

(* What makes it inductive: whoever has handled a capability did so on an open *)
(* connection that was bound by then, so it does not enter the table again.    *)
ExchangeInv ==
    /\ TransportInv
    /\ \A x \in told \cup measuring : Opened(x[2])
    /\ \A x \in told : x[1] = ends[x[2]].acceptor => x[2] \in bound
    /\ ConnectedPeersKnown

(* The exchange on a connection is one question and one answer: capabilities   *)
(* are not sent to and fro for ever.                                           *)
CapabilitiesSettle ==
    <>[](\A c \in Conns, d \in Devices : \A i \in DOMAIN inbox[c][d] :
            inbox[c][d][i].type # "capability")

Linked(d, e) ==
    \E c \in Conns : /\ Opened(c)
                     /\ {ends[c].opener, ends[c].acceptor} = {d, e}
                     /\ Live(c)
                     /\ table[d][e] = c /\ table[e][d] = c

(* Devices that stay linked come to know each other's capability and have a    *)
(* figure for the link, whatever connections they had before.                  *)
LinkedPeersLearnt ==
    \A d, e \in Devices :
        <>[]Linked(d, e) => <>[](registry[d].caps[e] # NoCap /\ e \in measured[d])

Connected(d, e) == \E c \in Conns : Opened(c) /\ d \in openAt[c] /\ Peer(c, d) = e

(* No configuration names a device with which no connection is open: the       *)
(* capability of a departed peer is dropped.                                   *)
ConfigsOfConnected ==
    \A d \in Devices : \A g \in Configs(registry[d]) : \A e \in g.devices \ {d} :
        Connected(d, e)

(* No figure outlives the connections it could have been taken on, so that a   *)
(* device that comes back is measured again.                                   *)
FiguresOfConnected == \A d \in Devices : \A e \in measured[d] : Connected(d, e)
================================================================================
