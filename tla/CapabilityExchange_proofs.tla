------------------------ MODULE CapabilityExchange_proofs ----------------------
(* In every mesh the registries, tasks and messages keep their shape, and a    *)
(* peer that told its capability on the connection in use is registered.       *)
EXTENDS CapabilityExchange, Transport_proofs

-------------------------------------------------------------------------------
(* The registry *)

LEMMA UpdatedType ==
    ASSUME NEW reg \in Registries, NEW e \in Devices, NEW cap \in Capability
    PROVE  /\ Updated(reg, e, cap) \in Registries
           /\ Updated(reg, e, cap).caps[e] = cap
           /\ \A x \in Devices : x # e => Updated(reg, e, cap).caps[x] = reg.caps[x]
<1>1. {<<m, e>> : m \in cap.models} \subseteq Models \X Devices
  BY DEF Capability
<1>2. [reg.caps EXCEPT ![e] = cap] \in [Devices -> Capability \cup {NoCap}]
  BY DEF Registries
<1>3. QED
  BY <1>1, <1>2 DEF Updated, Registries

LEMMA RemovedType ==
    ASSUME NEW reg \in Registries, NEW e \in Devices
    PROVE  /\ Removed(reg, e) \in Registries
           /\ \A x \in Devices : x # e => Removed(reg, e).caps[x] = reg.caps[x]
  BY DEF Removed, Registries

LEMMA EmptyRegistryType == EmptyRegistry \in Registries
  BY DEF EmptyRegistry, Registries

LEMMA OwnType ==
    ASSUME TypeOK, NEW d \in Devices
    PROVE  own[d] \in Capability
  BY ExchangeAssumption DEF TypeOK

-------------------------------------------------------------------------------
(* Shape *)

LEMMA TypeInit == ASSUME Init PROVE TypeOK
<1>1. TransportTypeOK(Message)
  BY TransportInitType DEF Init
<1>2. \A d \in Devices : own[d] \in Capability
  BY ExchangeAssumption DEF Init
<1>3. registry \in [Devices -> Registries]
  BY <1>2, EmptyRegistryType, UpdatedType DEF Init
<1>4. QED
  BY <1>1, <1>3 DEF Init, TypeOK

LEMMA TypeConnect ==
    ASSUME TypeOK, NEW d \in Devices, NEW e \in Devices, NEW c \in Conns,
           ConnectToPeer(d, e, c)
    PROVE  TypeOK'
<1> DEFINE first == <<[type |-> "announce"],
                      [type |-> "capability", cap |-> own[d], reply |-> TRUE]>>
<1>1. first \in Seq(Message)
  BY OwnType DEF Message
<1>2. Connect(d, e, c, first)
  BY DEF ConnectToPeer
<1> HIDE DEF first
<1>3. TransportTypeOK(Message)'
  BY <1>1, <1>2, ConnectType DEF TypeOK
<1>4. QED
  BY <1>3 DEF TypeOK, ConnectToPeer, nodeVars, boundVars

LEMMA TypeAnnounce ==
    ASSUME TypeOK, NEW d \in Devices, NEW c \in Conns, HandleAnnounce(d, c)
    PROVE  TypeOK'
<1>1. inbox' \in Inboxes(Message)
  BY ConsumedType DEF HandleAnnounce, TypeOK
<1>2. TransportTypeOK(Message)'
  BY <1>1, DispatchType DEF HandleAnnounce, TypeOK
<1>3. QED
  BY <1>2 DEF TypeOK, HandleAnnounce, nodeVars, boundVars

LEMMA TypeCapability ==
    ASSUME TypeOK, TransportInv, NEW d \in Devices, NEW c \in Conns,
           HandleCapability(d, c)
    PROVE  TypeOK'
<1> DEFINE m == Head(inbox[c][d])
           answer == [type |-> "capability", cap |-> own[d], reply |-> FALSE]
<1>1. Dispatch(d, c) /\ m.type = "capability"
  BY DEF HandleCapability
<1>2. m \in Message /\ Consumed(c, d) \in Inboxes(Message)
  BY <1>1, ConsumedType DEF TypeOK
<1>3. m.cap \in Capability
  BY <1>1, <1>2 DEF Message
<1>4. Peer(c, d) \in Devices
  BY <1>1, PeerType DEF Dispatch, TransportInv, TypeOK
<1>5. inbox' \in Inboxes(Message)
  <2>1. answer \in Message
    BY OwnType DEF Message
  <2>2. Sent(Consumed(c, d), c, d, answer) \in Inboxes(Message)
    BY <1>2, <2>1, SentType
  <2>3. QED
    BY <1>2, <2>2 DEF HandleCapability, Answered
<1>6. TransportTypeOK(Message)'
  BY <1>1, <1>5, DispatchType DEF TypeOK
<1>7. registry' \in [Devices -> Registries]
  BY <1>3, <1>4, UpdatedType DEF HandleCapability, TypeOK
<1>8. measuring' \subseteq Devices \X Conns /\ told' \subseteq Devices \X Conns
  BY DEF HandleCapability, Schedule, TypeOK
<1>9. QED
  BY <1>6, <1>7, <1>8 DEF TypeOK, HandleCapability, boundVars

LEMMA TypeMeasurementEnds ==
    ASSUME TypeOK, ExchangeInv, NEW d \in Devices, NEW c \in Conns,
           MeasurementEnds(d, c)
    PROVE  TypeOK'
<1>1. Peer(c, d) \in Devices
  BY PeerType DEF MeasurementEnds, ExchangeInv, TypeOK
<1>2. registry' \in [Devices -> Registries]
  BY OwnType, UpdatedType DEF MeasurementEnds, TypeOK
<1>3. TransportTypeOK(Message)'
  BY DEF MeasurementEnds, TypeOK, TransportTypeOK, transportVars
<1>4. QED
  BY <1>1, <1>2, <1>3 DEF TypeOK, MeasurementEnds, boundVars

LEMMA TypeReceiveLoopEnds ==
    ASSUME TypeOK, TransportInv, NEW d \in Devices, NEW c \in Conns,
           ReceiveLoopEnds(d, c)
    PROVE  TypeOK'
<1>1. Peer(c, d) \in Devices
  BY PeerType DEF ReceiveLoopEnds, LoopEnds, TransportInv, TypeOK
<1>2. registry' \in [Devices -> Registries]
  BY <1>1, RemovedType DEF ReceiveLoopEnds, TypeOK
<1>3. TransportTypeOK(Message)'
  BY LoopEndsType DEF ReceiveLoopEnds, TypeOK
<1>4. QED
  BY <1>2, <1>3 DEF TypeOK, ReceiveLoopEnds, boundVars

LEMMA TypeDropConn ==
    ASSUME TypeOK, NEW c \in Conns, DropConn(c)
    PROVE  TypeOK'
<1>1. TransportTypeOK(Message)'
  BY DropType DEF DropConn, TypeOK
<1>2. QED
  BY <1>1 DEF TypeOK, DropConn, nodeVars, boundVars

LEMMA TypeStartBroadcast ==
    ASSUME TypeOK, NEW d \in Devices, StartBroadcast(d)
    PROVE  TypeOK'
<1>1. \A e \in Devices : table[d][e] # NoConn => table[d][e] \in Conns
  BY DEF TypeOK, TransportTypeOK
<1>2. casting' \in [Devices -> SUBSET (Devices \X Conns)]
  BY <1>1 DEF StartBroadcast, TypeOK
<1>3. TransportTypeOK(Message)'
  BY DEF StartBroadcast, TypeOK, TransportTypeOK, transportVars
<1>4. QED
  BY <1>2, <1>3 DEF TypeOK, StartBroadcast, nodeVars

LEMMA BroadcastNextTable ==
    ASSUME TypeOK, NEW d \in Devices, NEW e \in Devices, NEW c \in Conns,
           BroadcastNext(d, e, c)
    PROVE  /\ table' \in [Devices -> [Devices -> Conns \cup {NoConn}]]
           /\ \A p, q \in Devices : table'[p][q] \in {table[p][q], NoConn}
<1>1. table' = [table EXCEPT ![d][e] = NoConn] \/ table' = table
  BY DEF BroadcastNext, BroadcastFails
<1>2. TransportTypeOK(Message) /\ NoConn \in Conns \cup {NoConn}
  BY DEF TypeOK
<1>3. [table EXCEPT ![d][e] = NoConn] \in [Devices -> [Devices -> Conns \cup {NoConn}]]
  BY <1>2, TableEntryType
<1>4. \A p, q \in Devices : table'[p][q] \in {table[p][q], NoConn}
  <2>1. CASE table' = table
    BY <2>1
  <2>2. CASE table' = [table EXCEPT ![d][e] = NoConn]
    BY <1>2, <2>2 DEF TransportTypeOK
  <2>3. QED
    BY <1>1, <2>1, <2>2
<1>5. QED
  BY <1>1, <1>2, <1>3, <1>4 DEF TransportTypeOK

LEMMA TypeBroadcastNext ==
    ASSUME TypeOK, NEW d \in Devices, NEW e \in Devices, NEW c \in Conns,
           BroadcastNext(d, e, c)
    PROVE  TypeOK'
<1>1. TransportTypeOK(Message)'
  BY BroadcastNextTable DEF BroadcastNext, TypeOK, TransportTypeOK
<1>2. QED
  BY <1>1 DEF TypeOK, BroadcastNext, nodeVars, boundVars

LEMMA TypeRestart ==
    ASSUME TypeOK, NEW d \in Devices, Restart(d)
    PROVE  TypeOK'
<1>1. PICK cap \in Offers : /\ own' = [own EXCEPT ![d] = cap]
                            /\ registry' = [registry EXCEPT ![d] = Updated(EmptyRegistry, d, cap)]
  BY DEF Restart
<1>2. own' \in [Devices -> Offers] /\ registry' \in [Devices -> Registries]
  BY <1>1, EmptyRegistryType, UpdatedType, ExchangeAssumption DEF TypeOK
<1>3. TransportTypeOK(Message)'
  BY ResetType DEF Restart, TypeOK
<1>4. QED
  BY <1>2, <1>3 DEF TypeOK, Restart

LEMMA TypeStep ==
    ASSUME TypeOK, ExchangeInv, [Next]_vars
    PROVE  TypeOK'
<1> USE DEF ExchangeInv
<1>1. CASE UNCHANGED vars
  BY <1>1 DEF TypeOK, TransportTypeOK, vars, transportVars, nodeVars, boundVars
<1>2. CASE Next
  BY <1>2, TypeConnect, TypeAnnounce, TypeCapability, TypeMeasurementEnds,
     TypeReceiveLoopEnds, TypeDropConn, TypeStartBroadcast, TypeBroadcastNext,
     TypeRestart, ExchangeAssumption DEF Next, Receive, Cast
<1>3. QED
  BY <1>1, <1>2

-------------------------------------------------------------------------------
(* The invariant *)

LEMMA ExchangeInvInit == ASSUME Init PROVE ExchangeInv
<1>1. TransportInv
  BY TransportInitInv DEF Init
<1>2. QED
  BY <1>1 DEF Init, ExchangeInv, ConnectedPeersKnown

(* A step that adds no table entry and forgets a peer only with its entry. *)
LEMMA KnownStays ==
    ASSUME TypeOK, ConnectedPeersKnown, told' = told,
           \A p, q \in Devices : table'[p][q] \in {table[p][q], NoConn},
           \A p, q \in Devices : \/ registry'[p].caps[q] = registry[p].caps[q]
                                \/ registry'[p].caps[q] \in Capability
                                \/ table'[p][q] = NoConn
    PROVE  ConnectedPeersKnown'
<1>1. ASSUME NEW p \in Devices, NEW q \in Devices, NEW c \in Conns,
             table'[p][q] = c, <<p, c>> \in told
      PROVE  registry'[p].caps[q] # NoCap
  <2>1. table[p][q] = c /\ table'[p][q] # NoConn
    BY <1>1, TransportAssumption
  <2>2. registry[p].caps[q] # NoCap
    BY <1>1, <2>1 DEF ConnectedPeersKnown
  <2>3. QED
    BY <2>1, <2>2, RegistryAssumption
<1>2. QED
  BY <1>1 DEF ConnectedPeersKnown

(* What the invariant says of the connections alone, when none is opened. *)
LEMMA HistoryStays ==
    ASSUME ExchangeInv, ends' = ends, bound \subseteq bound',
           told' = told, measuring' \subseteq measuring,
           TransportInv', ConnectedPeersKnown'
    PROVE  ExchangeInv'
  BY DEF ExchangeInv, Opened

LEMMA InvConnect ==
    ASSUME TypeOK, ExchangeInv, NEW d \in Devices, NEW e \in Devices, NEW c \in Conns,
           ConnectToPeer(d, e, c)
    PROVE  ExchangeInv'
<1>1. PICK first : Connect(d, e, c, first)
  BY DEF ConnectToPeer
<1>2. TransportInv'
  BY <1>1, ConnectInv DEF TypeOK, ExchangeInv
<1>3. UNCHANGED <<registry, told, measuring, bound>> /\ ~Opened(c)
  BY <1>1 DEF ConnectToPeer, nodeVars, Connect
<1>4. \A x \in told \cup measuring : x[2] \in Conns /\ x[2] # c
  BY <1>3 DEF TypeOK, ExchangeInv
<1>5. \A x \in Conns : x # c => ends'[x] = ends[x]
  BY <1>1 DEF Connect, TypeOK, TransportTypeOK
<1>6. \A x \in told \cup measuring : ends'[x[2]] = ends[x[2]] /\ Opened(x[2])'
  BY <1>4, <1>5 DEF ExchangeInv, Opened
<1>7. ConnectedPeersKnown'
  <2>1. ASSUME NEW p \in Devices, NEW q \in Devices, NEW x \in Conns,
               table'[p][q] = x, <<p, x>> \in told
        PROVE  registry[p].caps[q] # NoCap
    <3>1. x # c
      BY <1>4, <2>1
    <3>2. table[p][q] = x
      BY <1>1, <2>1, <3>1 DEF Connect, TypeOK, TransportTypeOK
    <3>3. QED
      BY <2>1, <3>2 DEF ExchangeInv, ConnectedPeersKnown
  <2>2. QED
    BY <1>3, <2>1 DEF ConnectedPeersKnown
<1>8. QED
  BY <1>2, <1>3, <1>6, <1>7 DEF ExchangeInv

(* The entry a dispatch adds is that of a connection never used before. *)
LEMMA DispatchEntry ==
    ASSUME TypeOK, ExchangeInv, NEW d \in Devices, NEW c \in Conns, Dispatch(d, c),
           NEW p \in Devices, NEW q \in Devices, NEW x \in Conns,
           table'[p][q] = x, <<p, x>> \in told
    PROVE  table[p][q] = x
<1>1. SUFFICES ASSUME table[p][q] # x PROVE FALSE
  OBVIOUS
<1>2. x = c /\ p = d /\ d = ends[c].acceptor /\ c \notin bound
  BY <1>1 DEF Dispatch, TypeOK, TransportTypeOK
<1>3. QED
  BY <1>2 DEF ExchangeInv

LEMMA InvAnnounce ==
    ASSUME TypeOK, ExchangeInv, NEW d \in Devices, NEW c \in Conns, HandleAnnounce(d, c)
    PROVE  ExchangeInv'
<1>1. Dispatch(d, c) /\ UNCHANGED <<registry, told, measuring>>
  BY DEF HandleAnnounce, nodeVars
<1>2. TransportInv' /\ ends' = ends /\ bound \subseteq bound'
  BY <1>1, DispatchInv DEF TypeOK, ExchangeInv, Dispatch
<1>3. ConnectedPeersKnown'
  BY <1>1, DispatchEntry DEF ExchangeInv, ConnectedPeersKnown
<1>4. QED
  BY <1>1, <1>2, <1>3, HistoryStays

LEMMA InvCapability ==
    ASSUME TypeOK, ExchangeInv, NEW d \in Devices, NEW c \in Conns, HandleCapability(d, c)
    PROVE  ExchangeInv'
<1> DEFINE m == Head(inbox[c][d])
           e == Peer(c, d)
<1>1. Dispatch(d, c) /\ m.type = "capability"
  BY DEF HandleCapability
<1>2. TransportInv' /\ ends' = ends /\ bound \subseteq bound'
  BY <1>1, DispatchInv DEF TypeOK, ExchangeInv, Dispatch
<1>3. m.cap \in Capability
  BY <1>1, ConsumedType DEF TypeOK, Message
<1>4. Opened(c) /\ e \in Devices
  BY <1>1, PeerType DEF Dispatch, ExchangeInv, TransportInv, TypeOK
<1>5. told' = told \cup {<<d, c>>} /\ measuring' \subseteq measuring \cup {<<d, c>>}
  BY DEF HandleCapability, Schedule
<1>6. \A x \in told' \cup measuring' : Opened(x[2])'
  BY <1>2, <1>4, <1>5 DEF ExchangeInv, Opened
<1>7. \A x \in told' : x[1] = ends'[x[2]].acceptor => x[2] \in bound'
  <2>1. d = ends[c].acceptor => c \in bound'
    BY <1>1 DEF Dispatch
  <2>2. QED
    BY <1>2, <1>5, <2>1 DEF ExchangeInv
<1>8. ConnectedPeersKnown'
  <2>1. \A p, q \in Devices : registry'[p].caps[q] =
             IF p = d /\ q = e THEN m.cap ELSE registry[p].caps[q]
    BY <1>3, <1>4, UpdatedType DEF HandleCapability, TypeOK
  <2>2. ASSUME NEW p \in Devices, NEW q \in Devices, NEW x \in Conns,
               table'[p][q] = x, <<p, x>> \in told'
        PROVE  registry'[p].caps[q] # NoCap
    <3>1. CASE p = d /\ x = c
      <4>1. q = e
        BY <1>2, <2>2, <3>1 DEF TransportInv, Peer
      <4>2. QED
        BY <1>3, <2>1, <3>1, <4>1, RegistryAssumption
    <3>2. CASE ~(p = d /\ x = c)
      <4>1. <<p, x>> \in told
        BY <1>5, <2>2, <3>2
      <4>2. registry[p].caps[q] # NoCap
        BY <1>1, <2>2, <4>1, DispatchEntry DEF ExchangeInv, ConnectedPeersKnown
      <4>3. QED
        BY <1>3, <2>1, <4>2, RegistryAssumption
    <3>3. QED
      BY <3>1, <3>2
  <2>3. QED
    BY <2>2 DEF ConnectedPeersKnown
<1>9. QED
  BY <1>2, <1>6, <1>7, <1>8 DEF ExchangeInv

LEMMA InvMeasurementEnds ==
    ASSUME TypeOK, ExchangeInv, NEW d \in Devices, NEW c \in Conns, MeasurementEnds(d, c)
    PROVE  ExchangeInv'
<1>1. UNCHANGED <<ends, openAt, bound, table>> /\ told' = told /\ measuring' \subseteq measuring
  BY DEF MeasurementEnds, transportVars
<1>2. TransportInv'
  BY <1>1, FewerEntriesInv DEF ExchangeInv
<1>3. \A p, q \in Devices : \/ registry'[p].caps[q] = registry[p].caps[q]
                            \/ registry'[p].caps[q] \in Capability
  <2>1. registry' = [registry EXCEPT ![d] = Updated(@, d, own[d])]
    BY DEF MeasurementEnds
  <2>2. registry[d] \in Registries /\ own[d] \in Capability
    BY OwnType DEF TypeOK
  <2>3. \A q \in Devices : \/ Updated(registry[d], d, own[d]).caps[q] = registry[d].caps[q]
                           \/ Updated(registry[d], d, own[d]).caps[q] \in Capability
    BY <2>2, UpdatedType
  <2>4. QED
    BY <2>1, <2>3 DEF TypeOK
<1>4. ConnectedPeersKnown'
  BY <1>1, <1>3, KnownStays DEF ExchangeInv
<1>5. QED
  BY <1>1, <1>2, <1>4, HistoryStays

LEMMA InvReceiveLoopEnds ==
    ASSUME TypeOK, ExchangeInv, NEW d \in Devices, NEW c \in Conns, ReceiveLoopEnds(d, c)
    PROVE  ExchangeInv'
<1> DEFINE e == Peer(c, d)
<1>1. LoopEnds(d, c) /\ told' = told /\ measuring' = measuring
  BY DEF ReceiveLoopEnds
<1>2. TransportInv' /\ ends' = ends /\ bound' = bound
  BY <1>1, LoopEndsInv DEF TypeOK, ExchangeInv, LoopEnds
<1>3. e \in Devices
  BY <1>1, PeerType DEF LoopEnds, ExchangeInv, TransportInv, TypeOK
<1>4. \A p, q \in Devices : table'[p][q] \in {table[p][q], NoConn}
  BY <1>1 DEF LoopEnds, TypeOK, TransportTypeOK
<1>5. \A p, q \in Devices : \/ registry'[p].caps[q] = registry[p].caps[q]
                            \/ table'[p][q] = NoConn
  <2>1. CASE ListenersCalled(d, c)
    <3>1. table'[d][e] = NoConn
      BY <1>1, <1>3, <2>1 DEF LoopEnds, ListenersCalled, TypeOK, TransportTypeOK
    <3>2. registry' = [registry EXCEPT ![d] = Removed(@, e)]
      BY <2>1 DEF ReceiveLoopEnds
    <3>3. \A p, q \in Devices : p # d \/ q # e => registry'[p].caps[q] = registry[p].caps[q]
      BY <1>3, <3>2, RemovedType DEF TypeOK
    <3>4. QED
      BY <3>1, <3>3
  <2>2. CASE ~ListenersCalled(d, c)
    BY <2>2 DEF ReceiveLoopEnds
  <2>3. QED
    BY <2>1, <2>2
<1>6. ConnectedPeersKnown'
  BY <1>1, <1>4, <1>5, KnownStays DEF ExchangeInv
<1>7. QED
  BY <1>1, <1>2, <1>6, HistoryStays

LEMMA InvBroadcastNext ==
    ASSUME TypeOK, ExchangeInv, NEW d \in Devices, NEW e \in Devices, NEW c \in Conns,
           BroadcastNext(d, e, c)
    PROVE  ExchangeInv'
<1>1. UNCHANGED <<ends, openAt, bound, registry, told, measuring>>
  BY DEF BroadcastNext, nodeVars
<1>2. TransportInv'
  BY <1>1, BroadcastNextTable, FewerEntriesInv DEF ExchangeInv
<1>3. ConnectedPeersKnown'
  BY <1>1, BroadcastNextTable, KnownStays DEF ExchangeInv
<1>4. QED
  BY <1>1, <1>2, <1>3, HistoryStays

LEMMA InvRestart ==
    ASSUME TypeOK, ExchangeInv, NEW d \in Devices, Restart(d)
    PROVE  ExchangeInv'
<1>1. Reset(d) /\ told' = told /\ measuring' \subseteq measuring
  BY DEF Restart
<1>2. TransportInv' /\ ends' = ends /\ bound' = bound
  BY <1>1, ResetInv DEF TypeOK, ExchangeInv, Reset
<1>3. \A p, q \in Devices : table'[p][q] = IF p = d THEN NoConn ELSE table[p][q]
  BY <1>1 DEF Reset, TypeOK, TransportTypeOK
<1>4. \A p \in Devices : p # d => registry'[p] = registry[p]
  BY DEF Restart, TypeOK
<1>5. ConnectedPeersKnown'
  BY <1>1, <1>3, <1>4, KnownStays DEF ExchangeInv
<1>6. QED
  BY <1>1, <1>2, <1>5, HistoryStays

(* Steps that leave the table and the registries alone. *)
LEMMA InvOther ==
    ASSUME TypeOK, ExchangeInv,
           UNCHANGED <<ends, openAt, bound, table, registry, told, measuring>>
    PROVE  ExchangeInv'
<1>1. TransportInv'
  BY FewerEntriesInv DEF ExchangeInv
<1>2. ConnectedPeersKnown'
  BY KnownStays DEF ExchangeInv
<1>3. QED
  BY <1>1, <1>2, HistoryStays

LEMMA InvStep ==
    ASSUME TypeOK, ExchangeInv, [Next]_vars
    PROVE  ExchangeInv'
<1>1. CASE UNCHANGED vars
  BY <1>1, InvOther DEF vars, transportVars, nodeVars
<1>2. ASSUME NEW d \in Devices, StartBroadcast(d)
      PROVE  ExchangeInv'
  BY <1>2, InvOther DEF StartBroadcast, transportVars, nodeVars
<1>3. ASSUME NEW c \in Conns, DropConn(c)
      PROVE  ExchangeInv'
  BY <1>3, InvOther DEF DropConn, Drop, nodeVars
<1>4. CASE Next
  BY <1>2, <1>3, <1>4, InvConnect, InvAnnounce, InvCapability, InvMeasurementEnds,
     InvReceiveLoopEnds, InvBroadcastNext, InvRestart, ExchangeAssumption
     DEF Next, Receive, Cast
<1>5. QED
  BY <1>1, <1>4

-------------------------------------------------------------------------------
(* Theorems *)

THEOREM Invariant == Spec => [](TypeOK /\ ExchangeInv)
<1>1. Init => TypeOK /\ ExchangeInv
  BY TypeInit, ExchangeInvInit
<1>2. TypeOK /\ ExchangeInv /\ [Next]_vars => (TypeOK /\ ExchangeInv)'
  BY TypeStep, InvStep
<1>3. QED
  BY <1>1, <1>2, PTL DEF Spec

(* Whatever the devices, connections, crashes and broadcasts, the inference    *)
(* state of node.py and the messages of the exchange keep their shape.         *)
THEOREM ExchangeTypeCorrect == Spec => []TypeOK
  BY Invariant, PTL

(* Whatever connections end, replace each other or are removed by a failing    *)
(* broadcast, _on_peer_disconnected never takes a peer out of the registry     *)
(* that told its capability on the connection the table still names.           *)
THEOREM PeersStayKnown == Spec => []ConnectedPeersKnown
<1>1. ExchangeInv => ConnectedPeersKnown
  BY DEF ExchangeInv
<1>2. QED
  BY <1>1, Invariant, PTL
================================================================================
