---------------------------- MODULE InferenceSession ---------------------------
(* Running a model on two devices (inference/coordinator.py and node.py over   *)
(* Transport): the host asks the worker to start an rpc-server, waits until it *)
(* is ready, generates, and asks the worker to stop it again.                  *)
(* The host waits on a future it keeps under the worker's DID; the worker      *)
(* keeps its servers under the id of the configuration.  A receive loop is     *)
(* busy until its handler returns, and a handler may be a whole session.       *)
EXTENDS Transport

CONSTANTS
    Sessions,   \* calls of invoke or invoke_stream that choose two devices
    HostOf,     \* the device that makes the call
    WorkerOf,   \* the other device of the configuration chosen
    ConfigOf,   \* the configuration's id, which is the session's id to the worker
    Streams,    \* the calls of invoke_stream
    Openers,    \* the devices that discover the others and connect
    NoSession   \* nobody

ASSUME SessionAssumption ==
    /\ HostOf \in [Sessions -> Devices]
    /\ WorkerOf \in [Sessions -> Devices]
    /\ \A s \in Sessions : HostOf[s] # WorkerOf[s]
    /\ \A s, t \in Sessions : ConfigOf[s] = ConfigOf[t] =>
            HostOf[s] = HostOf[t] /\ WorkerOf[s] = WorkerOf[t]
    /\ Streams \subseteq Sessions
    /\ Openers \subseteq Devices
    /\ NoSession \notin Sessions

Ids == {ConfigOf[s] : s \in Sessions}

VARIABLES
    session,    \* what has become of each call
    future,     \* _inference_ready_futures: the call that waits for a worker
    starting,   \* the server a receive loop's handler is waiting half a second for
    server,     \* _inference_rpc_processes, each server named for the call it is for
    alive       \* the rpc-servers that run

sessionVars == <<session, future, starting, server, alive>>
vars == <<transportVars, sessionVars>>

Stages == {"idle", "asked", "waiting", "ready", "running", "closing", "done"}

(* A call that an INVOKE on a connection has made keeps its loop waiting.      *)
Calls == [pc : Stages, on : Conns \cup {NoConn}]

Message ==
         [type : {"announce"}]
    \cup [type : {"invoke", "setup", "ready", "teardown"}, of : Sessions]

Busy(d, c) ==
    \/ starting[d][c] # NoSession
    \/ \E s \in Sessions : /\ HostOf[s] = d
                           /\ session[s].on = c
                           /\ session[s].pc # "done"

(* The next message of type t, for a loop whose last handler has returned. *)
Reads(d, c, t) ==
    /\ Dispatch(d, c)
    /\ ~Busy(d, c)
    /\ Head(inbox[c][d]).type = t

Advanced(s, pc) == [session EXCEPT ![s].pc = pc]

-------------------------------------------------------------------------------
(* The host *)

(* Broken variants: nothing is torn down after a failed set-up; it never ends. *)
FailedUnclosed(s) == "done"
FailedForGood(s) == "failed"

(* What follows setup's False: _invoke_distributed tears down in any case,     *)
(* invoke_stream only what was set up.                                         *)
Failed(s) == IF s \in Streams THEN "done" ELSE "closing"

(* setup, up to the wait: the future replaces the one of any other call.       *)
Begin(s, on) ==
    LET h == HostOf[s]  w == WorkerOf[s]  c == table[h][w]
        Becomes(pc) == session' = [session EXCEPT ![s] = [pc |-> pc, on |-> on]]
    IN  /\ session[s].pc \in {"idle", "asked"}
        /\ \/ /\ c = NoConn
              /\ Becomes(Failed(s))
              /\ UNCHANGED future
           \/ /\ c # NoConn
              /\ h \in openAt[c]
              /\ Becomes("waiting")
              /\ future' = [future EXCEPT ![h][w] = s]
           \/ /\ c # NoConn
              /\ h \notin openAt[c] \/ c \in broken
              /\ Becomes(Failed(s))
              /\ future' = [future EXCEPT ![h][w] = NoSession]
        /\ UNCHANGED <<starting, server, alive>>

(* The SETUP goes out on the connection the table names. *)
SetupSent(box, s) ==
    IF session'[s].pc = "waiting"
    THEN Sent(box, table[HostOf[s]][WorkerOf[s]], HostOf[s], [type |-> "setup", of |-> s])
    ELSE box

Invoke(s) ==
    /\ session[s].pc = "idle"
    /\ Begin(s, NoConn)
    /\ inbox' = SetupSent(inbox, s)
    /\ UNCHANGED <<ends, openAt, broken, bound, table>>

(* A peer asks the host to call invoke ... *)
AskToInvoke(s, e, c) ==
    /\ s \notin Streams
    /\ session[s].pc = "idle"
    /\ table[e][HostOf[s]] = c
    /\ e \in openAt[c]
    /\ session' = Advanced(s, "asked")
    /\ inbox' = Sent(inbox, c, e, [type |-> "invoke", of |-> s])
    /\ UNCHANGED <<ends, openAt, broken, bound, table, future, starting, server, alive>>

(* ... and _handle_invoke does. *)
HandleInvoke(d, c) ==
    LET s == Head(inbox[c][d]).of
    IN  /\ Reads(d, c, "invoke")
        /\ Begin(s, c)
        /\ inbox' = SetupSent(Consumed(c, d), s)

(* _handle_inference_ready: whoever waits for this worker is told. *)
HandleReady(d, c) ==
    LET w == Peer(c, d)  s == future[d][w]
    IN  /\ Reads(d, c, "ready")
        /\ future' = [future EXCEPT ![d][w] = NoSession]
        /\ session' = IF s = NoSession THEN session ELSE Advanced(s, "ready")
        /\ inbox' = Consumed(c, d)
        /\ UNCHANGED <<starting, server, alive>>

(* Broken variant: a call whose future another one has replaced is forgotten. *)
ExpiresRegistered(s) ==
    session[s].pc = "waiting" /\ future[HostOf[s]][WorkerOf[s]] = s

Expires(s) == session[s].pc = "waiting"

(* Broken variant: the future stays. *)
FutureKept(h, w) == future

FutureDropped(h, w) == [future EXCEPT ![h][w] = NoSession]

(* wait_for gives up: the future under the worker's DID is dropped, whoever's. *)
SetupTimesOut(s) ==
    /\ Expires(s)
    /\ session' = Advanced(s, Failed(s))
    /\ future' = FutureDropped(HostOf[s], WorkerOf[s])
    /\ UNCHANGED <<transportVars, starting, server, alive>>

(* llama-server is started and generates, or fails to; that takes its time.    *)
SetupSucceeds(s) ==
    /\ session[s].pc = "ready"
    /\ session' = Advanced(s, "running")
    /\ UNCHANGED <<transportVars, future, starting, server, alive>>

GenerationEnds(s) ==
    /\ session[s].pc = "running"
    /\ session' = Advanced(s, "closing")
    /\ UNCHANGED <<transportVars, future, starting, server, alive>>

(* The reader of a stream goes away: GeneratorExit is no Exception, so nothing *)
(* is torn down.                                                               *)
AbandonStream(s) ==
    /\ s \in Streams
    /\ session[s].pc = "running"
    /\ session' = Advanced(s, "done")
    /\ UNCHANGED <<transportVars, future, starting, server, alive>>

(* teardown, after llama-server is gone: TEARDOWN on the connection the table  *)
(* names by now, if any; a send that fails is ignored.                         *)
Teardown(s) ==
    LET c == table[HostOf[s]][WorkerOf[s]]
    IN  /\ session[s].pc = "closing"
        /\ session' = Advanced(s, "done")
        /\ inbox' = IF c # NoConn /\ HostOf[s] \in openAt[c]
                    THEN Sent(inbox, c, HostOf[s], [type |-> "teardown", of |-> s])
                    ELSE inbox
        /\ UNCHANGED <<ends, openAt, broken, bound, table, future, starting, server, alive>>

-------------------------------------------------------------------------------
(* The worker *)

(* _handle_inference_setup: the server starts and the handler waits for it to  *)
(* listen, or there is none to start and the ERROR it answers with has no      *)
(* handler at the host ...                                                     *)
HandleSetup(d, c) ==
    LET s == Head(inbox[c][d]).of
    IN  /\ Reads(d, c, "setup")
        /\ inbox' = Consumed(c, d)
        /\ \/ /\ alive' = alive \cup {s}
              /\ starting' = [starting EXCEPT ![d][c] = s]
           \/ UNCHANGED <<alive, starting>>
        /\ UNCHANGED <<session, future, server>>

(* ... then it is kept under the session's id, and the host is told. *)
ServerReady(d, c) ==
    LET s == starting[d][c]
    IN  /\ s # NoSession
        /\ server' = [server EXCEPT ![d][ConfigOf[s]] = s]
        /\ starting' = [starting EXCEPT ![d][c] = NoSession]
        /\ inbox' = Sent(inbox, c, d, [type |-> "ready", of |-> s])
        /\ UNCHANGED <<ends, openAt, broken, bound, table, session, future, alive>>

(* _handle_inference_teardown: the server kept under the id is stopped. *)
HandleTeardown(d, c) ==
    LET id == ConfigOf[Head(inbox[c][d]).of]
    IN  /\ Reads(d, c, "teardown")
        /\ alive' = alive \ {server[d][id]}
        /\ server' = [server EXCEPT ![d][id] = NoSession]
        /\ inbox' = Consumed(c, d)
        /\ UNCHANGED <<session, future, starting>>

-------------------------------------------------------------------------------
(* The connections *)

ConnectToPeer(d, e, c) ==
    /\ Connect(d, e, c, <<[type |-> "announce"]>>)
    /\ UNCHANGED sessionVars

HandleAnnounce(d, c) ==
    /\ Reads(d, c, "announce")
    /\ inbox' = Consumed(c, d)
    /\ UNCHANGED sessionVars

DropConn(c) == Drop(c) /\ UNCHANGED sessionVars

(* A loop cannot end before its handler returns. *)
ReceiveLoopEnds(d, c) ==
    /\ ~Busy(d, c)
    /\ LoopEnds(d, c)
    /\ UNCHANGED sessionVars

-------------------------------------------------------------------------------

Init ==
    /\ TransportInit
    /\ session = [s \in Sessions |-> [pc |-> "idle", on |-> NoConn]]
    /\ future = [d \in Devices |-> [e \in Devices |-> NoSession]]
    /\ starting = [d \in Devices |-> [c \in Conns |-> NoSession]]
    /\ server = [d \in Devices |-> [i \in Ids |-> NoSession]]
    /\ alive = {}

Receive(d, c) ==
    \/ HandleAnnounce(d, c)
    \/ HandleInvoke(d, c)
    \/ HandleReady(d, c)
    \/ HandleSetup(d, c)
    \/ HandleTeardown(d, c)

Proceed(s) == SetupTimesOut(s) \/ SetupSucceeds(s) \/ Teardown(s)

Next ==
    \/ \E s \in Sessions : Invoke(s) \/ Proceed(s) \/ GenerationEnds(s) \/ AbandonStream(s)
    \/ \E s \in Sessions, e \in Devices, c \in Conns : AskToInvoke(s, e, c)
    \/ \E d \in Openers, e \in Devices, c \in Conns : ConnectToPeer(d, e, c)
    \/ \E d \in Devices, c \in Conns :
          Receive(d, c) \/ ServerReady(d, c) \/ ReceiveLoopEnds(d, c)
    \/ \E c \in Conns : DropConn(c)

(* The event loop runs what can go on, and the wait for a worker is bounded by *)
(* a timeout.  Nothing bounds a generation.                                    *)
Fairness ==
    /\ \A s \in Sessions : WF_vars(Proceed(s))
    /\ \A d \in Devices, c \in Conns :
          /\ WF_vars(Receive(d, c))
          /\ WF_vars(ServerReady(d, c))
          /\ WF_vars(ReceiveLoopEnds(d, c))

Spec == Init /\ [][Next]_vars /\ Fairness

-------------------------------------------------------------------------------
(* Properties *)

(* Calls, futures, servers and messages have their shape. *)
TypeOK ==
    /\ TransportTypeOK(Message)
    /\ session \in [Sessions -> Calls]
    /\ future \in [Devices -> [Devices -> Sessions \cup {NoSession}]]
    /\ starting \in [Devices -> [Conns -> Sessions \cup {NoSession}]]
    /\ server \in [Devices -> [Ids -> Sessions \cup {NoSession}]]
    /\ alive \subseteq Sessions

(* A future in the table is one that a call still waits for, though calls      *)
(* replace and drop each other's: a READY never goes to a call that gave up.   *)
FuturesWaited ==
    \A d, e \in Devices : future[d][e] # NoSession =>
        /\ session[future[d][e]].pc = "waiting"
        /\ HostOf[future[d][e]] = d /\ WorkerOf[future[d][e]] = e

(* Every set-up comes to an end and every teardown is done, whatever futures   *)
(* are replaced, messages lost or receive loops kept waiting by the call.      *)
SetupsEnd ==
    \A s \in Sessions :
        session[s].pc \in {"waiting", "ready", "closing"}
            ~> session[s].pc \in {"running", "done"}

(* On one connection that is never cut, and with answers that end, every       *)
(* server a worker started for a call of invoke is stopped: teardown asks the  *)
(* workers to stop their rpc-servers, and they do.  (On a second connection a  *)
(* TEARDOWN overtakes the SETUP it is meant for.)                              *)
Undisturbed ==
    /\ [](broken = {} /\ \A c, x \in Conns : Opened(c) /\ Opened(x) => c = x)
    /\ \A s \in Sessions : []<>(session[s].pc # "running")

ServersStop == Undisturbed => \A s \in Sessions \ Streams : <>[](s \notin alive)
================================================================================
