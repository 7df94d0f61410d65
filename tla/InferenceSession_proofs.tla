------------------------- MODULE InferenceSession_proofs ------------------------
(* In every mesh and for any number of calls, connections and cut streams, the *)
(* variables keep their shape, a future belongs to a call that waits, no call  *)
(* returns to a stage it has left, and every rpc-server that runs was asked    *)
(* for by a call that had begun, on that worker.                               *)
EXTENDS InferenceSession, Transport_proofs

LEMMA AdvancedType ==
    ASSUME TypeOK, NEW s \in Sessions,
           NEW pc \in Stages
    PROVE  /\ Advanced(s, pc) \in [Sessions -> Calls]
           /\ Advanced(s, pc)[s].pc = pc
           /\ \A t \in Sessions : t # s => Advanced(s, pc)[t] = session[t]
<1>1. [session[s] EXCEPT !.pc = pc] \in Calls
  BY DEF TypeOK, Calls
<1>2. QED
  BY <1>1 DEF TypeOK, Advanced, Calls

LEMMA FutureEntryType ==
    ASSUME TypeOK, NEW h \in Devices, NEW w \in Devices,
           NEW x \in Sessions \cup {NoSession}
    PROVE  /\ [future EXCEPT ![h][w] = x]
                  \in [Devices -> [Devices -> Sessions \cup {NoSession}]]
           /\ [future EXCEPT ![h][w] = x][h][w] = x
           /\ \A d, e \in Devices : ~(d = h /\ e = w) =>
                  [future EXCEPT ![h][w] = x][d][e] = future[d][e]
<1>1. [future[h] EXCEPT ![w] = x] \in [Devices -> Sessions \cup {NoSession}]
  BY DEF TypeOK
<1>2. QED
  BY <1>1 DEF TypeOK

(* What a handler reads is a message for a device that runs the receive loop.  *)
LEMMA ReadsType ==
    ASSUME TypeOK, TransportInv, NEW d \in Devices, NEW c \in Conns, NEW t,
           Reads(d, c, t)
    PROVE  /\ Dispatch(d, c)
           /\ Head(inbox[c][d]) \in Message
           /\ t # "announce" => Head(inbox[c][d]).of \in Sessions
           /\ Consumed(c, d) \in Inboxes(Message)
           /\ Peer(c, d) \in Devices
<1>1. Dispatch(d, c) /\ Head(inbox[c][d]).type = t
  BY DEF Reads
<1>2. Head(inbox[c][d]) \in Message /\ Consumed(c, d) \in Inboxes(Message)
  BY <1>1, ConsumedType DEF TypeOK
<1>3. Peer(c, d) \in Devices
  BY <1>1, PeerType DEF Dispatch, TransportInv, TypeOK
<1>4. t # "announce" => Head(inbox[c][d]).of \in Sessions
  BY <1>1, <1>2 DEF Message
<1>5. QED
  BY <1>1, <1>2, <1>3, <1>4

(* What the host asks of a worker on the connection the table names. *)
LEMMA AskedType ==
    ASSUME TypeOK, NEW box \in Inboxes(Message), NEW s \in Sessions,
           NEW t \in {"setup", "teardown"},
           table[HostOf[s]][WorkerOf[s]] # NoConn
    PROVE  Sent(box, table[HostOf[s]][WorkerOf[s]], HostOf[s], [type |-> t, of |-> s])
               \in Inboxes(Message)
<1>1. table[HostOf[s]][WorkerOf[s]] \in Conns
  BY SessionAssumption DEF TypeOK, TransportTypeOK
<1>2. [type |-> t, of |-> s] \in Message
  BY DEF Message
<1>3. QED
  BY <1>1, <1>2, SentType

(* Begin keeps the shape of the host's variables, and the new future is its    *)
(* own: no other future was the call's, which had not begun.                   *)
LEMMA BeginLemma ==
    ASSUME TypeOK, NEW s \in Sessions, NEW on \in Conns \cup {NoConn}, Begin(s, on)
    PROVE  /\ session' \in [Sessions -> Calls]
           /\ future' \in [Devices -> [Devices -> Sessions \cup {NoSession}]]
           /\ session'[s].pc = "waiting" => table[HostOf[s]][WorkerOf[s]] # NoConn
           /\ FuturesWaited => FuturesWaited'
<1> DEFINE h == HostOf[s]
           w == WorkerOf[s]
<1>1. h \in Devices /\ w \in Devices
  BY SessionAssumption
<1>2. PICK pc \in {"waiting", "closing", "done"} :
         /\ session' = [session EXCEPT ![s] = [pc |-> pc, on |-> on]]
         /\ \/ pc # "waiting" /\ future' = future
            \/ pc # "waiting" /\ future' = [future EXCEPT ![h][w] = NoSession]
            \/ /\ pc = "waiting" /\ future' = [future EXCEPT ![h][w] = s]
               /\ table[h][w] # NoConn
  BY DEF Begin, Failed
<1>3. /\ session' \in [Sessions -> Calls]
      /\ session'[s].pc = pc
      /\ \A t \in Sessions : t # s => session'[t] = session[t]
  <2>1. [pc |-> pc, on |-> on] \in Calls
    BY DEF Calls, Stages
  <2>2. QED
    BY <1>2, <2>1 DEF TypeOK
<1>4. /\ future' \in [Devices -> [Devices -> Sessions \cup {NoSession}]]
      /\ \A d, e \in Devices :
            \/ future'[d][e] \in {future[d][e], NoSession}
            \/ pc = "waiting" /\ d = h /\ e = w /\ future'[d][e] = s
  <2>1. CASE future' = future
    BY <2>1 DEF TypeOK
  <2>2. CASE future' = [future EXCEPT ![h][w] = NoSession]
    BY <1>1, <2>2, FutureEntryType
  <2>3. CASE pc = "waiting" /\ future' = [future EXCEPT ![h][w] = s]
    BY <1>1, <2>3, FutureEntryType
  <2>4. QED
    BY <1>2, <2>1, <2>2, <2>3
<1>5. session[s].pc # "waiting"
  BY DEF Begin
<1>6. ASSUME FuturesWaited
      PROVE  FuturesWaited'
  <2>1. ASSUME NEW d \in Devices, NEW e \in Devices, future'[d][e] # NoSession
        PROVE  /\ session'[future'[d][e]].pc = "waiting"
               /\ HostOf[future'[d][e]] = d /\ WorkerOf[future'[d][e]] = e
    <3>1. CASE pc = "waiting" /\ d = h /\ e = w /\ future'[d][e] = s
      BY <1>3, <3>1
    <3>2. CASE future'[d][e] = future[d][e]
      <4>1. future[d][e] \in Sessions
        BY <2>1, <3>2 DEF TypeOK
      <4>2. /\ session[future[d][e]].pc = "waiting"
            /\ HostOf[future[d][e]] = d /\ WorkerOf[future[d][e]] = e
        BY <1>6, <2>1, <3>2 DEF FuturesWaited
      <4>3. session'[future[d][e]] = session[future[d][e]]
        BY <1>3, <1>5, <4>1, <4>2
      <4>4. QED
        BY <3>2, <4>2, <4>3
    <3>3. QED
      BY <1>4, <2>1, <3>1, <3>2
  <2>2. QED
    BY <2>1 DEF FuturesWaited
<1>7. QED
  BY <1>2, <1>3, <1>4, <1>6

(* A call that advances out of the waiting state takes its future with it. *)
LEMMA AdvanceKeepsWaited ==
    ASSUME TypeOK, FuturesWaited, NEW s \in Sessions,
           NEW pc \in Stages,
           session' = Advanced(s, pc),
           \/ session[s].pc # "waiting" /\ future' = future
           \/ future' = [future EXCEPT ![HostOf[s]][WorkerOf[s]] = NoSession]
    PROVE  FuturesWaited'
<1>1. HostOf[s] \in Devices /\ WorkerOf[s] \in Devices
  BY SessionAssumption
<1>2. ASSUME NEW d \in Devices, NEW e \in Devices, future'[d][e] # NoSession
      PROVE  future'[d][e] = future[d][e] /\ future[d][e] \in Sessions \ {s}
  <2>1. future'[d][e] = future[d][e]
    BY <1>1, <1>2, FutureEntryType
  <2>2. future[d][e] # s
    <3>1. CASE session[s].pc # "waiting"
      BY <1>2, <2>1, <3>1, SessionAssumption DEF FuturesWaited
    <3>2. CASE future' = [future EXCEPT ![HostOf[s]][WorkerOf[s]] = NoSession]
      BY <1>1, <1>2, <3>2, FutureEntryType, SessionAssumption DEF FuturesWaited
    <3>3. QED
      BY <3>1, <3>2
  <2>3. QED
    BY <1>2, <2>1, <2>2 DEF TypeOK
<1>3. \A t \in Sessions : t # s => session'[t] = session[t]
  BY AdvancedType
<1>4. QED
  BY <1>2, <1>3 DEF FuturesWaited

-------------------------------------------------------------------------------
(* Shape *)

LEMMA TypeInit == ASSUME Init PROVE TypeOK
<1>1. TransportTypeOK(Message)
  BY TransportInitType DEF Init
<1>2. QED
  BY <1>1 DEF Init, TypeOK, Calls, Stages

LEMMA TypeSetupSent ==
    ASSUME TypeOK, NEW box \in Inboxes(Message), NEW s \in Sessions,
           session'[s].pc = "waiting" => table[HostOf[s]][WorkerOf[s]] # NoConn
    PROVE  SetupSent(box, s) \in Inboxes(Message)
  BY AskedType DEF SetupSent

LEMMA TypeInvoke ==
    ASSUME TypeOK, NEW s \in Sessions, Invoke(s)
    PROVE  TypeOK'
<1>1. Begin(s, NoConn)
  BY DEF Invoke
<1>2. inbox' \in Inboxes(Message)
  BY <1>1, BeginLemma, TypeSetupSent DEF Invoke, TypeOK, TransportTypeOK, Inboxes
<1>3. QED
  BY <1>1, <1>2, BeginLemma DEF Invoke, Begin, TypeOK, TransportTypeOK, Inboxes

LEMMA TypeAskToInvoke ==
    ASSUME TypeOK, NEW s \in Sessions, NEW e \in Devices, NEW c \in Conns,
           AskToInvoke(s, e, c)
    PROVE  TypeOK'
<1>1. [type |-> "invoke", of |-> s] \in Message
  BY DEF Message
<1>2. inbox \in Inboxes(Message)
  BY DEF TypeOK, TransportTypeOK, Inboxes
<1>3. inbox' \in Inboxes(Message)
  BY <1>1, <1>2, SentType DEF AskToInvoke
<1>4. session' \in [Sessions -> Calls]
  BY AdvancedType DEF AskToInvoke, Stages
<1>5. QED
  BY <1>3, <1>4 DEF AskToInvoke, TypeOK, TransportTypeOK, Inboxes

LEMMA TypeHandleInvoke ==
    ASSUME TypeOK, TransportInv, NEW d \in Devices, NEW c \in Conns, HandleInvoke(d, c)
    PROVE  TypeOK'
<1> DEFINE s == Head(inbox[c][d]).of
<1>1. Dispatch(d, c) /\ s \in Sessions /\ Consumed(c, d) \in Inboxes(Message)
  BY ReadsType DEF HandleInvoke
<1>2. Begin(s, c) /\ inbox' = SetupSent(Consumed(c, d), s)
  BY DEF HandleInvoke
<1>3. inbox' \in Inboxes(Message)
  BY <1>1, <1>2, BeginLemma, TypeSetupSent
<1>4. TransportTypeOK(Message)'
  BY <1>1, <1>3, DispatchType DEF TypeOK
<1>5. session' \in [Sessions -> Calls]
      /\ future' \in [Devices -> [Devices -> Sessions \cup {NoSession}]]
  BY <1>1, <1>2, BeginLemma
<1>6. QED
  BY <1>2, <1>4, <1>5 DEF Begin, TypeOK

LEMMA TypeHandleReady ==
    ASSUME TypeOK, TransportInv, NEW d \in Devices, NEW c \in Conns, HandleReady(d, c)
    PROVE  TypeOK'
<1> DEFINE w == Peer(c, d)
           s == future[d][w]
<1>1. Dispatch(d, c) /\ w \in Devices /\ inbox' \in Inboxes(Message)
  BY ReadsType DEF HandleReady
<1>2. TransportTypeOK(Message)'
  BY <1>1, DispatchType DEF TypeOK
<1>3. future' \in [Devices -> [Devices -> Sessions \cup {NoSession}]]
  BY <1>1, FutureEntryType DEF HandleReady
<1>4. session' \in [Sessions -> Calls]
  <2>1. CASE s = NoSession
    BY <2>1 DEF HandleReady, TypeOK
  <2>2. CASE s # NoSession
    <3>1. s \in Sessions /\ session' = Advanced(s, "ready")
      BY <1>1, <2>2 DEF HandleReady, TypeOK
    <3>2. QED
      BY <3>1, AdvancedType DEF Stages
  <2>3. QED
    BY <2>1, <2>2
<1>5. QED
  BY <1>2, <1>3, <1>4 DEF HandleReady, TypeOK

LEMMA TypeSetupTimesOut ==
    ASSUME TypeOK, NEW s \in Sessions, SetupTimesOut(s)
    PROVE  TypeOK'
<1>1. session' \in [Sessions -> Calls]
  BY AdvancedType DEF Stages, SetupTimesOut, Failed
<1>2. future' \in [Devices -> [Devices -> Sessions \cup {NoSession}]]
  BY FutureEntryType, SessionAssumption DEF SetupTimesOut, FutureDropped
<1>3. QED
  BY <1>1, <1>2 DEF SetupTimesOut, TypeOK, TransportTypeOK, transportVars

LEMMA TypeAdvance ==
    ASSUME TypeOK, NEW s \in Sessions,
           SetupSucceeds(s) \/ GenerationEnds(s) \/ AbandonStream(s)
    PROVE  TypeOK'
<1>1. session' \in [Sessions -> Calls]
  BY AdvancedType DEF Stages, SetupSucceeds, GenerationEnds, AbandonStream
<1>2. QED
  BY <1>1 DEF SetupSucceeds, GenerationEnds, AbandonStream,
              TypeOK, TransportTypeOK, transportVars

LEMMA TypeTeardown ==
    ASSUME TypeOK, NEW s \in Sessions, Teardown(s)
    PROVE  TypeOK'
<1>1. inbox \in Inboxes(Message)
  BY DEF TypeOK, TransportTypeOK, Inboxes
<1>2. inbox' \in Inboxes(Message)
  BY <1>1, AskedType DEF Teardown
<1>3. session' \in [Sessions -> Calls]
  BY AdvancedType DEF Teardown, Stages
<1>4. QED
  BY <1>2, <1>3 DEF Teardown, TypeOK, TransportTypeOK, Inboxes

LEMMA TypeHandleSetup ==
    ASSUME TypeOK, TransportInv, NEW d \in Devices, NEW c \in Conns, HandleSetup(d, c)
    PROVE  TypeOK'
<1> DEFINE s == Head(inbox[c][d]).of
<1>1. Dispatch(d, c) /\ s \in Sessions /\ inbox' \in Inboxes(Message)
  BY ReadsType DEF HandleSetup
<1>2. TransportTypeOK(Message)'
  BY <1>1, DispatchType DEF TypeOK
<1>3. alive' \subseteq Sessions
  BY <1>1 DEF HandleSetup, TypeOK
<1>4. starting' \in [Devices -> [Conns -> Sessions \cup {NoSession}]]
  <2> DEFINE kept == [starting EXCEPT ![d][c] = s]
  <2>1. starting' = kept \/ starting' = starting
    BY DEF HandleSetup
  <2>2. [starting[d] EXCEPT ![c] = s] \in [Conns -> Sessions \cup {NoSession}]
    BY <1>1 DEF TypeOK
  <2>3. kept \in [Devices -> [Conns -> Sessions \cup {NoSession}]]
    BY <2>2 DEF TypeOK
  <2>4. QED
    BY <2>1, <2>3 DEF TypeOK
<1>5. QED
  BY <1>2, <1>3, <1>4 DEF HandleSetup, TypeOK

LEMMA TypeServerReady ==
    ASSUME TypeOK, NEW d \in Devices, NEW c \in Conns, ServerReady(d, c)
    PROVE  TypeOK'
<1> DEFINE s == starting[d][c]
<1>1. s \in Sessions
  BY DEF ServerReady, TypeOK
<1>2. [type |-> "ready", of |-> s] \in Message
  BY <1>1 DEF Message
<1>3. inbox \in Inboxes(Message)
  BY DEF TypeOK, TransportTypeOK, Inboxes
<1>4. inbox' \in Inboxes(Message)
  BY <1>2, <1>3, SentType DEF ServerReady
<1>5. server' \in [Devices -> [Ids -> Sessions \cup {NoSession}]]
  BY <1>1 DEF ServerReady, TypeOK
<1>6. starting' \in [Devices -> [Conns -> Sessions \cup {NoSession}]]
  BY DEF ServerReady, TypeOK
<1>7. QED
  BY <1>4, <1>5, <1>6 DEF ServerReady, TypeOK, TransportTypeOK, Inboxes

LEMMA TypeHandleTeardown ==
    ASSUME TypeOK, TransportInv, NEW d \in Devices, NEW c \in Conns, HandleTeardown(d, c)
    PROVE  TypeOK'
<1>1. Dispatch(d, c) /\ inbox' \in Inboxes(Message)
  BY ReadsType DEF HandleTeardown
<1>2. TransportTypeOK(Message)'
  BY <1>1, DispatchType DEF TypeOK
<1>3. server' \in [Devices -> [Ids -> Sessions \cup {NoSession}]]
  BY DEF HandleTeardown, TypeOK
<1>4. QED
  BY <1>2, <1>3 DEF HandleTeardown, TypeOK

LEMMA TypeConnections ==
    ASSUME TypeOK, TransportInv, NEW d \in Devices, NEW e \in Devices, NEW c \in Conns,
           ConnectToPeer(d, e, c) \/ HandleAnnounce(d, c) \/ ReceiveLoopEnds(d, c)
    PROVE  TypeOK'
<1>1. UNCHANGED sessionVars
  BY DEF ConnectToPeer, HandleAnnounce, ReceiveLoopEnds
<1>2. TransportTypeOK(Message)'
  <2>1. CASE ConnectToPeer(d, e, c)
    <3>1. <<[type |-> "announce"]>> \in Seq(Message)
      BY DEF Message
    <3>2. QED
      BY <2>1, <3>1, ConnectType DEF ConnectToPeer, TypeOK
  <2>2. CASE HandleAnnounce(d, c)
    BY <2>2, ReadsType, DispatchType DEF HandleAnnounce, TypeOK
  <2>3. CASE ReceiveLoopEnds(d, c)
    BY <2>3, LoopEndsType DEF ReceiveLoopEnds, TypeOK
  <2>4. QED
    BY <2>1, <2>2, <2>3
<1>3. QED
  BY <1>1, <1>2 DEF TypeOK, sessionVars

-------------------------------------------------------------------------------
(* The inductive invariant *)

SessionInv == TypeOK /\ TransportInv /\ FuturesWaited

LEMMA InvInit == ASSUME Init PROVE SessionInv
<1>1. TypeOK /\ TransportInv
  BY TypeInit, TransportInitInv DEF Init
<1>2. FuturesWaited
  BY DEF Init, FuturesWaited
<1>3. QED
  BY <1>1, <1>2 DEF SessionInv

LEMMA TypeStep == ASSUME SessionInv, Next PROVE TypeOK'
<1>1. TypeOK /\ TransportInv
  BY DEF SessionInv
<1>2. ASSUME NEW s \in Sessions,
             Invoke(s) \/ Proceed(s) \/ GenerationEnds(s) \/ AbandonStream(s)
      PROVE  TypeOK'
  BY <1>1, <1>2, TypeInvoke, TypeSetupTimesOut, TypeAdvance, TypeTeardown DEF Proceed
<1>3. ASSUME NEW s \in Sessions, NEW e \in Devices, NEW c \in Conns, AskToInvoke(s, e, c)
      PROVE  TypeOK'
  BY <1>1, <1>3, TypeAskToInvoke
<1>4. ASSUME NEW d \in Openers, NEW e \in Devices, NEW c \in Conns, ConnectToPeer(d, e, c)
      PROVE  TypeOK'
  BY <1>1, <1>4, TypeConnections, SessionAssumption
<1>5. ASSUME NEW d \in Devices, NEW c \in Conns,
             Receive(d, c) \/ ServerReady(d, c) \/ ReceiveLoopEnds(d, c)
      PROVE  TypeOK'
  BY <1>1, <1>5, TypeConnections, TypeHandleInvoke, TypeHandleReady, TypeHandleSetup,
     TypeHandleTeardown, TypeServerReady DEF Receive
<1>6. ASSUME NEW c \in Conns, DropConn(c)
      PROVE  TypeOK'
  <2>1. TransportTypeOK(Message)' /\ UNCHANGED sessionVars
    BY <1>1, <1>6, DropType DEF DropConn, TypeOK
  <2>2. QED
    BY <1>1, <2>1 DEF TypeOK, sessionVars
<1>7. QED
  BY <1>2, <1>3, <1>4, <1>5, <1>6 DEF Next

LEMMA TransportStep == ASSUME SessionInv, Next PROVE TransportInv'
<1>1. TransportTypeOK(Message) /\ TransportInv
  BY DEF SessionInv, TypeOK
<1>2. CASE UNCHANGED <<ends, openAt, bound, table>>
  BY <1>1, <1>2, FewerEntriesInv
<1>3. ASSUME NEW d \in Devices, NEW c \in Conns, Dispatch(d, c)
      PROVE  TransportInv'
  BY <1>1, <1>3, DispatchInv
<1>4. ASSUME NEW d \in Devices, NEW e \in Devices, NEW c \in Conns, ConnectToPeer(d, e, c)
      PROVE  TransportInv'
  BY <1>1, <1>4, ConnectInv DEF ConnectToPeer
<1>5. ASSUME NEW d \in Devices, NEW c \in Conns, ReceiveLoopEnds(d, c)
      PROVE  TransportInv'
  BY <1>1, <1>5, LoopEndsInv DEF ReceiveLoopEnds
<1>6. ASSUME NEW d \in Devices, NEW c \in Conns, Receive(d, c)
      PROVE  Dispatch(d, c)
  BY <1>6 DEF Receive, HandleAnnounce, HandleInvoke, HandleReady, HandleSetup,
              HandleTeardown, Reads
<1>7. ASSUME NEW s \in Sessions,
             Invoke(s) \/ Proceed(s) \/ GenerationEnds(s) \/ AbandonStream(s)
      PROVE  UNCHANGED <<ends, openAt, bound, table>>
  BY <1>7 DEF Proceed, Invoke, SetupTimesOut, SetupSucceeds, GenerationEnds,
              AbandonStream, Teardown, transportVars
<1>8. ASSUME NEW s \in Sessions, NEW d \in Devices, NEW c \in Conns,
             AskToInvoke(s, d, c)
      PROVE  UNCHANGED <<ends, openAt, bound, table>>
  BY <1>8 DEF AskToInvoke
<1>9. ASSUME NEW d \in Devices, NEW c \in Conns, ServerReady(d, c)
      PROVE  UNCHANGED <<ends, openAt, bound, table>>
  BY <1>9 DEF ServerReady
<1>10. ASSUME NEW c \in Conns, DropConn(c)
       PROVE  UNCHANGED <<ends, openAt, bound, table>>
  BY <1>10 DEF DropConn, Drop
<1>11. QED
  BY <1>2, <1>3, <1>4, <1>5, <1>6, <1>7, <1>8, <1>9, <1>10, SessionAssumption DEF Next

LEMMA WaitedStep == ASSUME SessionInv, Next PROVE FuturesWaited'
<1>1. TypeOK /\ TransportInv /\ FuturesWaited
  BY DEF SessionInv
<1>2. CASE UNCHANGED <<session, future>>
  BY <1>1, <1>2 DEF FuturesWaited
<1>3. ASSUME NEW s \in Sessions, Invoke(s)
      PROVE  FuturesWaited'
  BY <1>1, <1>3, BeginLemma DEF Invoke
<1>4. ASSUME NEW d \in Devices, NEW c \in Conns, HandleInvoke(d, c)
      PROVE  FuturesWaited'
  <2>1. Head(inbox[c][d]).of \in Sessions
    BY <1>1, <1>4, ReadsType DEF HandleInvoke
  <2>2. QED
    BY <1>1, <1>4, <2>1, BeginLemma DEF HandleInvoke
<1>5. ASSUME NEW d \in Devices, NEW c \in Conns, HandleReady(d, c)
      PROVE  FuturesWaited'
  <2> DEFINE w == Peer(c, d)
             s == future[d][w]
  <2>1. w \in Devices
    BY <1>1, <1>5, ReadsType DEF HandleReady
  <2>2. future' = [future EXCEPT ![d][w] = NoSession]
    BY <1>5 DEF HandleReady
  <2>3. CASE s = NoSession
    <3>1. future' = future
      BY <1>1, <2>1, <2>2, <2>3 DEF TypeOK
    <3>2. session' = session
      BY <1>5, <2>3 DEF HandleReady
    <3>3. QED
      BY <1>2, <3>1, <3>2
  <2>4. CASE s # NoSession
    <3>1. s \in Sessions /\ HostOf[s] = d /\ WorkerOf[s] = w
      BY <1>1, <2>1, <2>4 DEF TypeOK, FuturesWaited
    <3>2. session' = Advanced(s, "ready")
      BY <1>5, <2>4 DEF HandleReady
    <3>3. QED
      BY <1>1, <2>2, <3>1, <3>2, AdvanceKeepsWaited DEF Stages
  <2>5. QED
    BY <2>3, <2>4
<1>6. ASSUME NEW s \in Sessions, SetupTimesOut(s)
      PROVE  FuturesWaited'
  BY <1>1, <1>6, AdvanceKeepsWaited DEF SetupTimesOut, FutureDropped, Failed, Stages
<1>7. ASSUME NEW s \in Sessions,
             SetupSucceeds(s) \/ GenerationEnds(s) \/ AbandonStream(s) \/ Teardown(s)
      PROVE  FuturesWaited'
  BY <1>1, <1>7, AdvanceKeepsWaited
     DEF SetupSucceeds, GenerationEnds, AbandonStream, Teardown, Stages
<1>8. ASSUME NEW d \in Devices, NEW c \in Conns,
             HandleSetup(d, c) \/ HandleTeardown(d, c) \/ HandleAnnounce(d, c)
                 \/ ServerReady(d, c) \/ ReceiveLoopEnds(d, c)
      PROVE  UNCHANGED <<session, future>>
  BY <1>8 DEF HandleSetup, HandleTeardown, HandleAnnounce, ServerReady,
              ReceiveLoopEnds, sessionVars
<1>9. ASSUME NEW s \in Sessions, NEW e \in Devices, NEW c \in Conns, AskToInvoke(s, e, c)
      PROVE  FuturesWaited'
  BY <1>1, <1>9, AdvanceKeepsWaited DEF AskToInvoke, Stages
<1>10. ASSUME NEW d \in Devices, NEW e \in Devices, NEW c \in Conns, ConnectToPeer(d, e, c)
       PROVE  UNCHANGED <<session, future>>
  BY <1>10 DEF ConnectToPeer, sessionVars
<1>11. ASSUME NEW c \in Conns, DropConn(c)
       PROVE  UNCHANGED <<session, future>>
  BY <1>11 DEF DropConn, sessionVars
<1>12. QED
  BY <1>2, <1>3, <1>4, <1>5, <1>6, <1>7, <1>8, <1>9, <1>10, <1>11, SessionAssumption
     DEF Next, Proceed, Receive

LEMMA InvStep == ASSUME SessionInv, [Next]_vars PROVE SessionInv'
<1>1. CASE Next
  BY <1>1, TypeStep, TransportStep, WaitedStep DEF SessionInv
<1>2. CASE UNCHANGED vars
  <2>1. TypeOK'
    BY <1>2 DEF SessionInv, TypeOK, TransportTypeOK, vars, transportVars, sessionVars
  <2>2. TransportInv'
    BY <1>2, FewerEntriesInv DEF SessionInv, vars, transportVars
  <2>3. FuturesWaited'
    BY <1>2 DEF SessionInv, FuturesWaited, vars, sessionVars
  <2>4. QED
    BY <2>1, <2>2, <2>3 DEF SessionInv
<1>3. QED
  BY <1>1, <1>2

LEMMA SessionInvariant == Spec => []SessionInv
  BY InvInit, InvStep, PTL DEF Spec

(* Calls, futures, servers and messages keep their shape. *)
THEOREM SessionTypeCorrect == Spec => []TypeOK
<1>1. SessionInv => TypeOK
  BY DEF SessionInv
<1>2. QED
  BY <1>1, SessionInvariant, PTL

(* However calls overlap, replace and drop each other's futures, a READY never *)
(* goes to a call that no longer waits for this worker.                        *)
THEOREM FuturesAlwaysWaited == Spec => []FuturesWaited
<1>1. SessionInv => FuturesWaited
  BY DEF SessionInv
<1>2. QED
  BY <1>1, SessionInvariant, PTL

-------------------------------------------------------------------------------
(* A call goes on and never back.  The READY that finds a future is the one    *)
(* step that moves a call it was not sent for, and it needs FuturesWaited.     *)

Order == [idle |-> 0, asked |-> 1, waiting |-> 2, ready |-> 3, running |-> 4,
          closing |-> 5, done |-> 6]

GoesOn(s) == session'[s] = session[s] \/ Order[session[s].pc] < Order[session'[s].pc]

CallsGoOn == [][\A s \in Sessions : GoesOn(s)]_vars

LEMMA AdvanceGoesOn ==
    ASSUME TypeOK, NEW s \in Sessions, NEW pc \in Stages, session' = Advanced(s, pc),
           Order[session[s].pc] < Order[pc]
    PROVE  \A t \in Sessions : GoesOn(t)
  BY AdvancedType DEF GoesOn

LEMMA BeginGoesOn ==
    ASSUME TypeOK, NEW s \in Sessions, NEW on \in Conns \cup {NoConn}, Begin(s, on)
    PROVE  /\ \A t \in Sessions : GoesOn(t)
           /\ session'[s].pc \in {"waiting", "closing", "done"}
<1>1. PICK pc \in {"waiting", "closing", "done"} :
         session' = [session EXCEPT ![s] = [pc |-> pc, on |-> on]]
  BY DEF Begin, Failed
<1>2. session'[s].pc = pc /\ \A t \in Sessions : t # s => session'[t] = session[t]
  BY <1>1 DEF TypeOK
<1>3. session[s].pc \in {"idle", "asked"}
  BY DEF Begin
<1>4. Order[session[s].pc] < Order[pc]
  BY <1>3 DEF Order
<1>5. QED
  BY <1>2, <1>4 DEF GoesOn

LEMMA StepGoesOn ==
    ASSUME SessionInv, [Next]_vars
    PROVE  \A s \in Sessions : GoesOn(s)
<1>1. TypeOK /\ TransportInv /\ FuturesWaited
  BY DEF SessionInv
<1>2. CASE UNCHANGED session
  BY <1>2 DEF GoesOn
<1>3. ASSUME NEW s \in Sessions, Invoke(s)
      PROVE  \A t \in Sessions : GoesOn(t)
  BY <1>1, <1>3, BeginGoesOn DEF Invoke
<1>4. ASSUME NEW d \in Devices, NEW c \in Conns, HandleInvoke(d, c)
      PROVE  \A t \in Sessions : GoesOn(t)
  <2>1. Head(inbox[c][d]).of \in Sessions
    BY <1>1, <1>4, ReadsType DEF HandleInvoke
  <2>2. QED
    BY <1>1, <1>4, <2>1, BeginGoesOn DEF HandleInvoke
<1>5. ASSUME NEW d \in Devices, NEW c \in Conns, HandleReady(d, c)
      PROVE  \A t \in Sessions : GoesOn(t)
  <2>1. PICK w \in Devices : w = Peer(c, d)
    BY <1>1, <1>5, ReadsType DEF HandleReady
  <2>2. PICK s : s = future[d][w]
    OBVIOUS
  <2>3. CASE s = NoSession
    BY <1>2, <1>5, <2>1, <2>2, <2>3 DEF HandleReady
  <2>4. CASE s # NoSession
    <3>1. s \in Sessions /\ session[s].pc = "waiting"
      BY <1>1, <2>2, <2>4 DEF TypeOK, FuturesWaited
    <3>2. session' = Advanced(s, "ready")
      BY <1>5, <2>1, <2>2, <2>4 DEF HandleReady
    <3>3. Order[session[s].pc] < Order["ready"]
      BY <3>1 DEF Order
    <3>4. QED
      BY <1>1, <3>1, <3>2, <3>3, AdvanceGoesOn DEF Stages
  <2>5. QED
    BY <2>3, <2>4
<1>6. ASSUME NEW s \in Sessions, NEW pc \in {"asked", "running", "closing", "done"},
             session' = Advanced(s, pc),
             \/ session[s].pc = "idle" /\ pc = "asked"
             \/ session[s].pc = "waiting" /\ pc \in {"closing", "done"}
             \/ session[s].pc = "ready" /\ pc = "running"
             \/ session[s].pc = "running" /\ pc \in {"closing", "done"}
             \/ session[s].pc = "closing" /\ pc = "done"
      PROVE  \A t \in Sessions : GoesOn(t)
  <2>1. Order[session[s].pc] < Order[pc]
    BY <1>6 DEF Order
  <2>2. QED
    BY <1>1, <1>6, <2>1, AdvanceGoesOn DEF Stages
<1>7. ASSUME NEW s \in Sessions, NEW e \in Devices, NEW c \in Conns, AskToInvoke(s, e, c)
      PROVE  \A t \in Sessions : GoesOn(t)
  BY <1>6, <1>7 DEF AskToInvoke
<1>8. ASSUME NEW s \in Sessions, Proceed(s) \/ GenerationEnds(s) \/ AbandonStream(s)
      PROVE  \A t \in Sessions : GoesOn(t)
  BY <1>6, <1>8 DEF Proceed, SetupTimesOut, Expires, Failed, SetupSucceeds, Teardown,
                    GenerationEnds, AbandonStream
<1>9. ASSUME NEW d \in Devices, NEW e \in Devices, NEW c \in Conns,
             \/ ConnectToPeer(d, e, c) \/ HandleAnnounce(d, c) \/ HandleSetup(d, c)
             \/ HandleTeardown(d, c) \/ ServerReady(d, c) \/ ReceiveLoopEnds(d, c)
             \/ DropConn(c)
      PROVE  UNCHANGED session
  BY <1>9 DEF ConnectToPeer, HandleAnnounce, HandleSetup, HandleTeardown, ServerReady,
              ReceiveLoopEnds, DropConn, sessionVars
<1>10. CASE UNCHANGED vars
  BY <1>2, <1>10 DEF vars, sessionVars
<1>11. ASSUME NEW c \in Conns, DropConn(c)
       PROVE  UNCHANGED session
  BY <1>11 DEF DropConn, sessionVars
<1>12. CASE Next
  BY <1>2, <1>3, <1>4, <1>5, <1>7, <1>8, <1>9, <1>11, <1>12, SessionAssumption
     DEF Next, Receive
<1>13. QED
  BY <1>10, <1>12

(* CallsAlwaysGoOn: whatever is late, lost or replaced, no step takes a call   *)
(* back to a stage it has left, and none revives a call that is over.          *)
THEOREM CallsAlwaysGoOn == Spec => CallsGoOn
  BY StepGoesOn, SessionInvariant, PTL DEF Spec, CallsGoOn

-------------------------------------------------------------------------------
(* Where rpc-servers run, and for whom. *)

Begun(s) == session[s].pc \notin {"idle", "asked"}

(* A SETUP goes to the worker of the call it is for, and not before the call. *)
SetupsPlaced(box) ==
    \A c \in Conns, d \in Devices : \A m \in Waiting(box, c, d) :
        m.type = "setup" => WorkerOf[m.of] = d /\ Begun(m.of)

(* Every server that runs or starts is for a call that was made; a worker      *)
(* keeps servers for its own calls only, and each under the id of its          *)
(* configuration: a TEARDOWN never stops the server of another one.            *)
ServersPlaced ==
    /\ \A s \in alive : Begun(s)
    /\ \A d \in Devices, c \in Conns : starting[d][c] # NoSession =>
          WorkerOf[starting[d][c]] = d /\ Begun(starting[d][c])
    /\ \A d \in Devices, i \in Ids : server[d][i] # NoSession =>
          /\ WorkerOf[server[d][i]] = d /\ ConfigOf[server[d][i]] = i
          /\ Begun(server[d][i])

PlacedInv == ServersPlaced /\ SetupsPlaced(inbox)

LEMMA BegunStays ==
    ASSUME TypeOK, TypeOK', NEW s \in Sessions, GoesOn(s), Begun(s)
    PROVE  Begun(s)'
<1>1. session[s].pc \in Stages /\ session'[s].pc \in Stages
  BY DEF TypeOK, Calls
<1>2. CASE session'[s] = session[s]
  BY <1>2 DEF Begun
<1>3. CASE Order[session[s].pc] < Order[session'[s].pc]
  BY <1>1, <1>3 DEF Begun, Order, Stages
<1>4. QED
  BY <1>2, <1>3 DEF GoesOn

(* Messages that wait after a step waited before it, or are no SETUP, or one   *)
(* for the worker of a call that has just begun.                               *)
MailPlaced(old, new) ==
    \A x \in Conns, p \in Devices : \A k \in Waiting(new, x, p) :
        \/ k \in Waiting(old, x, p)
        \/ k.type # "setup"
        \/ k.of \in Sessions /\ WorkerOf[k.of] = p /\ session'[k.of].pc = "waiting"

LEMMA SetupSentPlaced ==
    ASSUME TypeOK, TransportInv, NEW box \in Inboxes(Message), NEW s \in Sessions,
           session'[s].pc = "waiting" => table[HostOf[s]][WorkerOf[s]] # NoConn
    PROVE  MailPlaced(box, SetupSent(box, s))
<1>1. CASE session'[s].pc # "waiting"
  BY <1>1 DEF SetupSent, MailPlaced
<1>2. CASE session'[s].pc = "waiting"
  <2>1. PICK c, h, w : h = HostOf[s] /\ w = WorkerOf[s] /\ c = table[h][w]
    OBVIOUS
  <2>2. h \in Devices /\ w \in Devices /\ c \in Conns /\ w = Peer(c, h)
    BY <1>2, <2>1, SessionAssumption DEF TypeOK, TransportTypeOK, TransportInv
  <2>3. PICK m : m = [type |-> "setup", of |-> s]
    OBVIOUS
  <2>4. SetupSent(box, s) = Sent(box, c, h, m)
    BY <1>2, <2>1, <2>3 DEF SetupSent
  <2>5. ASSUME NEW x \in Conns, NEW p \in Devices, NEW k \in Waiting(Sent(box, c, h, m), x, p)
        PROVE  k \in Waiting(box, x, p) \/ (p = w /\ k = m)
    BY <2>2, <2>5, SentAdds
  <2>6. m.of = s
    BY <2>3
  <2>7. QED
    BY <1>2, <2>1, <2>4, <2>5, <2>6 DEF MailPlaced
<1>3. QED
  BY <1>1, <1>2

LEMMA ConsumedPlaced ==
    ASSUME TypeOK, NEW d \in Devices, NEW c \in Conns, Dispatch(d, c), NEW x \in Conns,
           NEW p \in Devices
    PROVE  Waiting(Consumed(c, d), x, p) \subseteq Waiting(inbox, x, p)
  BY ConsumedLeaves DEF TypeOK, Dispatch

LEMMA OtherSentPlaced ==
    ASSUME NEW box \in Inboxes(Message), NEW c \in Conns, NEW d, NEW m, m.type # "setup"
    PROVE  MailPlaced(box, Sent(box, c, d, m))
<1>1. ASSUME NEW x \in Conns, NEW p \in Devices, NEW k \in Waiting(Sent(box, c, d, m), x, p)
      PROVE  k \in Waiting(box, x, p) \/ k = m
  BY <1>1, SentAdds
<1>2. QED
  BY <1>1 DEF MailPlaced

LEMMA ConnectPlaced ==
    ASSUME TypeOK, NEW d \in Devices, NEW e \in Devices, NEW c \in Conns, ConnectToPeer(d, e, c)
    PROVE  MailPlaced(inbox, inbox')
<1>1. PICK m : m = [type |-> "announce"]
  OBVIOUS
<1>2. inbox \in [Conns -> [Devices -> Seq(Message)]] /\ m \in Message
  BY <1>1 DEF TypeOK, TransportTypeOK, Message
<1>3. PICK v : v = inbox[c][e] \o <<m>>
  OBVIOUS
<1>4. inbox' = [inbox EXCEPT ![c][e] = v]
  BY <1>1, <1>3 DEF ConnectToPeer, Connect
<1>5. \A i \in DOMAIN v : v[i] \in Waiting(inbox, c, e) \/ v[i] = m
  <2>1. PICK old : old = inbox[c][e]
    OBVIOUS
  <2>2. old \in Seq(Message) /\ v = old \o <<m>>
    BY <1>2, <1>3, <2>1
  <2>3. Len(v) = Len(old) + 1 /\ DOMAIN v = 1..(Len(old) + 1)
    BY <1>2, <2>2
  <2>4. ASSUME NEW i \in DOMAIN v
        PROVE  v[i] = m \/ (i \in DOMAIN old /\ v[i] = old[i])
    BY <1>2, <2>2, <2>3
  <2>5. QED
    BY <2>1, <2>4 DEF Waiting
<1>6. ASSUME NEW x \in Conns, NEW p \in Devices, NEW k \in Waiting(inbox', x, p)
      PROVE  k \in Waiting(inbox, x, p) \/ k = m
  <2>1. CASE x = c /\ p = e
    <3>1. inbox'[x][p] = v
      BY <1>2, <1>4, <2>1
    <3>2. QED
      BY <1>5, <2>1, <3>1 DEF Waiting
  <2>2. CASE ~(x = c /\ p = e)
    <3>1. inbox'[x][p] = inbox[x][p]
      BY <1>2, <1>4, <2>2
    <3>2. QED
      BY <3>1 DEF Waiting
  <2>3. QED
    BY <2>1, <2>2
<1>7. m.type # "setup"
  BY <1>1
<1>8. QED
  BY <1>6, <1>7 DEF MailPlaced

LEMMA MailStep ==
    ASSUME SessionInv, [Next]_vars
    PROVE  MailPlaced(inbox, inbox')
<1>1. TypeOK /\ TransportInv /\ inbox \in Inboxes(Message)
  BY DEF SessionInv, TypeOK, TransportTypeOK, Inboxes
<1>2. ASSUME \A x \in Conns, p \in Devices :
                Waiting(inbox', x, p) \subseteq Waiting(inbox, x, p)
      PROVE  MailPlaced(inbox, inbox')
  BY <1>2 DEF MailPlaced
<1>3. CASE UNCHANGED inbox
  BY <1>3 DEF MailPlaced
<1>4. ASSUME NEW s \in Sessions, Invoke(s) PROVE MailPlaced(inbox, inbox')
  BY <1>1, <1>4, BeginLemma, SetupSentPlaced DEF Invoke
<1>5. ASSUME NEW d \in Devices, NEW c \in Conns, HandleInvoke(d, c)
      PROVE  MailPlaced(inbox, inbox')
  <2>1. PICK s, left : s = Head(inbox[c][d]).of /\ left = Consumed(c, d)
    OBVIOUS
  <2>2. s \in Sessions /\ left \in Inboxes(Message) /\ Dispatch(d, c)
    BY <1>1, <1>5, <2>1, ReadsType DEF HandleInvoke
  <2>3. Begin(s, c) /\ inbox' = SetupSent(left, s)
    BY <1>5, <2>1 DEF HandleInvoke
  <2>4. MailPlaced(left, inbox')
    BY <1>1, <2>2, <2>3, BeginLemma, SetupSentPlaced
  <2>5. \A x \in Conns, p \in Devices : Waiting(left, x, p) \subseteq Waiting(inbox, x, p)
    BY <1>1, <2>1, <2>2, ConsumedPlaced
  <2>6. QED
    BY <2>4, <2>5 DEF MailPlaced
<1>6. ASSUME NEW d \in Devices, NEW c \in Conns,
             HandleReady(d, c) \/ HandleSetup(d, c) \/ HandleTeardown(d, c)
                 \/ HandleAnnounce(d, c)
      PROVE  MailPlaced(inbox, inbox')
  <2>1. Dispatch(d, c) /\ inbox' = Consumed(c, d)
    BY <1>6 DEF HandleReady, HandleSetup, HandleTeardown, HandleAnnounce, Reads
  <2>2. QED
    BY <1>1, <1>2, <2>1, ConsumedPlaced
<1>7. ASSUME NEW d \in Devices, NEW c \in Conns, ServerReady(d, c)
      PROVE  MailPlaced(inbox, inbox')
  <2>1. PICK m : m = [type |-> "ready", of |-> starting[d][c]]
    OBVIOUS
  <2>2. inbox' = Sent(inbox, c, d, m) /\ m.type # "setup"
    BY <1>7, <2>1 DEF ServerReady
  <2>3. QED
    BY <1>1, <2>2, OtherSentPlaced
<1>8. ASSUME NEW s \in Sessions, NEW e \in Devices, NEW c \in Conns, AskToInvoke(s, e, c)
      PROVE  MailPlaced(inbox, inbox')
  <2>1. PICK m : m = [type |-> "invoke", of |-> s]
    OBVIOUS
  <2>2. inbox' = Sent(inbox, c, e, m) /\ m.type # "setup"
    BY <1>8, <2>1 DEF AskToInvoke
  <2>3. QED
    BY <1>1, <2>2, OtherSentPlaced
<1>9. ASSUME NEW s \in Sessions, Teardown(s) PROVE MailPlaced(inbox, inbox')
  <2>1. PICK m, c : m = [type |-> "teardown", of |-> s] /\ c = table[HostOf[s]][WorkerOf[s]]
    OBVIOUS
  <2>2. inbox' = inbox \/ (c # NoConn /\ inbox' = Sent(inbox, c, HostOf[s], m))
    BY <1>9, <2>1 DEF Teardown
  <2>3. m.type # "setup" /\ c \in Conns \cup {NoConn}
    BY <1>1, <2>1, SessionAssumption DEF TypeOK, TransportTypeOK
  <2>4. QED
    BY <1>1, <1>3, <2>2, <2>3, OtherSentPlaced
<1>10. ASSUME NEW s \in Sessions,
              SetupTimesOut(s) \/ SetupSucceeds(s) \/ GenerationEnds(s) \/ AbandonStream(s)
       PROVE  UNCHANGED inbox
  BY <1>10 DEF SetupTimesOut, SetupSucceeds, GenerationEnds, AbandonStream, transportVars
<1>11. ASSUME NEW d \in Devices, NEW c \in Conns, ReceiveLoopEnds(d, c)
       PROVE  MailPlaced(inbox, inbox')
  <2>1. AddsNothing
    BY <1>1, <1>11, LoopEndsAdds DEF ReceiveLoopEnds, TypeOK
  <2>2. QED
    BY <1>2, <2>1 DEF AddsNothing
<1>12. ASSUME NEW c \in Conns, DropConn(c) PROVE UNCHANGED inbox
  BY <1>12 DEF DropConn, Drop
<1>13. CASE UNCHANGED vars
  BY <1>3, <1>13 DEF vars, transportVars
<1>14. CASE Next
  BY <1>1, <1>3, <1>4, <1>5, <1>6, <1>7, <1>8, <1>9, <1>10, <1>11, <1>12, <1>14,
     ConnectPlaced, SessionAssumption DEF Next, Receive, Proceed
<1>15. QED
  BY <1>13, <1>14

LEMMA PlacedNext ==
    ASSUME SessionInv, SessionInv', PlacedInv, [Next]_vars
    PROVE  PlacedInv'
<1>1. TypeOK /\ TransportInv /\ TypeOK'
  BY DEF SessionInv
<1>2. \A s \in Sessions : Begun(s) => Begun(s)'
  BY <1>1, BegunStays, StepGoesOn
<1>3. SetupsPlaced(inbox)'
  <2>1. MailPlaced(inbox, inbox')
    BY MailStep
  <2>2. ASSUME NEW c \in Conns, NEW d \in Devices, NEW m \in Waiting(inbox', c, d),
               m.type = "setup"
        PROVE  WorkerOf[m.of] = d /\ Begun(m.of)'
    <3>1. CASE m \in Waiting(inbox, c, d)
      <4>1. WorkerOf[m.of] = d /\ Begun(m.of)
        BY <2>2, <3>1 DEF PlacedInv, SetupsPlaced
      <4>2. m \in Message
        BY <1>1, <3>1 DEF Waiting, TypeOK, TransportTypeOK
      <4>3. m.of \in Sessions
        BY <2>2, <4>2 DEF Message
      <4>4. QED
        BY <1>2, <4>1, <4>3
    <3>2. CASE m \notin Waiting(inbox, c, d)
      BY <2>1, <2>2, <3>2 DEF MailPlaced, Begun
    <3>3. QED
      BY <3>1, <3>2
  <2>3. QED
    BY <2>2 DEF SetupsPlaced
<1>4. ServersPlaced'
  <2>1. ServersPlaced
    BY DEF PlacedInv
  <2>2. CASE UNCHANGED <<alive, starting, server>>
    BY <1>1, <1>2, <2>1, <2>2 DEF ServersPlaced, TypeOK
  <2>3. ASSUME NEW d \in Devices, NEW c \in Conns, HandleSetup(d, c) PROVE ServersPlaced'
    <3>1. PICK s : s = Head(inbox[c][d]).of
      OBVIOUS
    <3>2. s \in Sessions /\ Dispatch(d, c) /\ Head(inbox[c][d]).type = "setup"
      BY <1>1, <2>3, <3>1, ReadsType DEF HandleSetup, Reads
    <3>3. Head(inbox[c][d]) \in Waiting(inbox, c, d)
      <4>1. inbox[c][d] \in Seq(Message) /\ inbox[c][d] # <<>>
        BY <1>1, <3>2 DEF TypeOK, TransportTypeOK, Dispatch
      <4>2. QED
        BY <4>1 DEF Waiting
    <3>4. WorkerOf[s] = d /\ Begun(s) /\ Begun(s)'
      BY <1>2, <3>1, <3>2, <3>3 DEF PlacedInv, SetupsPlaced
    <3>5. /\ server' = server
          /\ alive' \subseteq alive \cup {s}
          /\ starting' = starting \/ starting' = [starting EXCEPT ![d][c] = s]
      BY <2>3, <3>1 DEF HandleSetup
    <3>6. \A p \in Devices, x \in Conns : starting'[p][x] # NoSession =>
             starting'[p][x] = starting[p][x] \/ (p = d /\ starting'[p][x] = s)
      BY <1>1, <3>5 DEF TypeOK
    <3>7. QED
      BY <1>1, <1>2, <2>1, <3>4, <3>5, <3>6 DEF ServersPlaced, TypeOK
  <2>4. ASSUME NEW d \in Devices, NEW c \in Conns, ServerReady(d, c) PROVE ServersPlaced'
    <3>1. PICK s : s = starting[d][c]
      OBVIOUS
    <3>2. s \in Sessions /\ WorkerOf[s] = d /\ Begun(s) /\ Begun(s)'
      BY <1>1, <1>2, <2>1, <2>4, <3>1 DEF ServersPlaced, ServerReady, TypeOK
    <3>3. /\ alive' = alive
          /\ server' = [server EXCEPT ![d][ConfigOf[s]] = s]
          /\ starting' = [starting EXCEPT ![d][c] = NoSession]
      BY <2>4, <3>1 DEF ServerReady
    <3>4. \A p \in Devices, x \in Conns : starting'[p][x] \in {starting[p][x], NoSession}
      BY <1>1, <3>3 DEF TypeOK
    <3>5. \A p \in Devices, i \in Ids :
             server'[p][i] = server[p][i] \/ (p = d /\ i = ConfigOf[s] /\ server'[p][i] = s)
      BY <1>1, <3>3 DEF TypeOK
    <3>6. QED
      BY <1>1, <1>2, <2>1, <3>2, <3>3, <3>4, <3>5 DEF ServersPlaced, TypeOK
  <2>5. ASSUME NEW d \in Devices, NEW c \in Conns, HandleTeardown(d, c) PROVE ServersPlaced'
    <3>1. PICK id : id = ConfigOf[Head(inbox[c][d]).of]
      OBVIOUS
    <3>2. /\ alive' \subseteq alive
          /\ server' = [server EXCEPT ![d][id] = NoSession]
          /\ starting' = starting
      BY <2>5, <3>1 DEF HandleTeardown
    <3>3. \A p \in Devices, i \in Ids : server'[p][i] \in {server[p][i], NoSession}
      BY <1>1, <3>2 DEF TypeOK
    <3>4. QED
      BY <1>1, <1>2, <2>1, <3>2, <3>3 DEF ServersPlaced, TypeOK
  <2>6. ASSUME NEW s \in Sessions,
               Invoke(s) \/ Proceed(s) \/ GenerationEnds(s) \/ AbandonStream(s)
        PROVE  UNCHANGED <<alive, starting, server>>
    BY <2>6 DEF Invoke, Begin, Proceed, SetupTimesOut, SetupSucceeds, Teardown, GenerationEnds,
                AbandonStream
  <2>7. ASSUME NEW d \in Devices, NEW e \in Devices, NEW c \in Conns, NEW s \in Sessions,
               \/ ConnectToPeer(d, e, c) \/ HandleAnnounce(d, c) \/ HandleInvoke(d, c)
               \/ HandleReady(d, c) \/ ReceiveLoopEnds(d, c) \/ AskToInvoke(s, e, c)
        PROVE  UNCHANGED <<alive, starting, server>>
    BY <2>7 DEF ConnectToPeer, HandleAnnounce, HandleInvoke, Begin, HandleReady,
                ReceiveLoopEnds, AskToInvoke, sessionVars
  <2>8. ASSUME NEW c \in Conns, DropConn(c) \/ UNCHANGED vars
        PROVE  UNCHANGED <<alive, starting, server>>
    BY <2>8 DEF DropConn, vars, sessionVars
  <2>9. ASSUME NEW d \in Devices, NEW c \in Conns,
               HandleAnnounce(d, c) \/ HandleInvoke(d, c) \/ HandleReady(d, c)
                   \/ ReceiveLoopEnds(d, c)
        PROVE  UNCHANGED <<alive, starting, server>>
    BY <2>9 DEF HandleAnnounce, HandleInvoke, Begin, HandleReady, ReceiveLoopEnds, sessionVars
  <2>10. ASSUME NEW d \in Devices, NEW e \in Devices, NEW c \in Conns, ConnectToPeer(d, e, c)
         PROVE  UNCHANGED <<alive, starting, server>>
    BY <2>10 DEF ConnectToPeer, sessionVars
  <2>11. CASE Next
    BY <2>2, <2>3, <2>4, <2>5, <2>6, <2>7, <2>8, <2>9, <2>10, <2>11, SessionAssumption
       DEF Next, Receive
  <2>12. CASE UNCHANGED vars
    BY <2>2, <2>12 DEF vars, sessionVars
  <2>13. QED
    BY <2>11, <2>12
<1>5. QED
  BY <1>3, <1>4 DEF PlacedInv

(* ServersAlwaysPlaced: however SETUP, READY and TEARDOWN are delayed, lost or *)
(* overtaken by another connection's, an rpc-server runs only for a call that  *)
(* was made, and a TEARDOWN stops none of another configuration.               *)
THEOREM ServersAlwaysPlaced == Spec => []ServersPlaced
<1>1. Init => PlacedInv
  BY DEF Init, TransportInit, PlacedInv, ServersPlaced, SetupsPlaced, Waiting
<1>2. PlacedInv => ServersPlaced
  BY DEF PlacedInv
<1>3. QED
  BY <1>1, <1>2, PlacedNext, SessionInvariant, PTL DEF Spec
================================================================================
