---------------------------- MODULE Transport_proofs ---------------------------
(* Every step of the transport keeps its variables in shape, whatever the      *)
(* messages are.                                                               *)
EXTENDS Transport, TLAPS

Inboxes(Message) == [Conns -> [Devices -> Seq(Message)]]

LEMMA TransportInitType ==
    ASSUME NEW Message, TransportInit
    PROVE  TransportTypeOK(Message)
  BY DEF TransportInit, TransportTypeOK

LEMMA SentType ==
    ASSUME NEW Message, NEW box \in Inboxes(Message),
           NEW c \in Conns, NEW d, NEW m \in Message
    PROVE  Sent(box, c, d, m) \in Inboxes(Message)
<1> DEFINE to == Peer(c, d)
<1> HIDE DEF to
<1>1. CASE to \in Devices
  <2>1. box[c][to] \in Seq(Message)
    BY <1>1 DEF Inboxes
  <2>2. Append(box[c][to], m) \in Seq(Message)
    BY <2>1
  <2>3. [box EXCEPT ![c][to] = Append(@, m)] \in Inboxes(Message)
    BY <1>1, <2>2 DEF Inboxes
  <2>4. QED
    BY <2>3 DEF Sent, to
<1>2. CASE to \notin Devices
  <2>1. [box EXCEPT ![c][to] = Append(@, m)] = box
    BY <1>2 DEF Inboxes
  <2>2. QED
    BY <2>1 DEF Sent, to
<1>3. QED
  BY <1>1, <1>2

LEMMA ConnectType ==
    ASSUME NEW Message, TransportTypeOK(Message),
           NEW d \in Devices, NEW e \in Devices, NEW c \in Conns,
           NEW first \in Seq(Message), Connect(d, e, c, first)
    PROVE  TransportTypeOK(Message)'
<1>1. [opener |-> d, acceptor |-> e] \in Ends
  BY DEF Ends
<1>2. inbox[c][e] \o first \in Seq(Message)
  BY DEF TransportTypeOK
<1>3. inbox' \in [Conns -> [Devices -> Seq(Message)]]
  BY <1>2 DEF Connect, TransportTypeOK
<1>4. table' \in [Devices -> [Devices -> Conns \cup {NoConn}]]
  BY DEF Connect, TransportTypeOK
<1>5. QED
  BY <1>1, <1>3, <1>4 DEF Connect, TransportTypeOK

LEMMA TableEntryType ==
    ASSUME NEW Message, TransportTypeOK(Message),
           NEW d \in Devices, NEW e, NEW x \in Conns \cup {NoConn}
    PROVE  [table EXCEPT ![d][e] = x] \in [Devices -> [Devices -> Conns \cup {NoConn}]]
<1>1. [table[d] EXCEPT ![e] = x] \in [Devices -> Conns \cup {NoConn}]
  BY DEF TransportTypeOK
<1>2. QED
  BY <1>1 DEF TransportTypeOK

(* A handler that has dispatched a message owes only the inboxes. *)
LEMMA DispatchType ==
    ASSUME NEW Message, TransportTypeOK(Message),
           NEW d \in Devices, NEW c \in Conns, Dispatch(d, c),
           inbox' \in Inboxes(Message)
    PROVE  TransportTypeOK(Message)'
<1>1. table' \in [Devices -> [Devices -> Conns \cup {NoConn}]] /\ bound' \subseteq Conns
  <2>1. CASE d = ends[c].acceptor /\ c \notin bound
    <3>1. table' = [table EXCEPT ![d][ends[c].opener] = c] /\ bound' = bound \cup {c}
      BY <2>1 DEF Dispatch
    <3>2. [table EXCEPT ![d][ends[c].opener] = c] \in [Devices -> [Devices -> Conns \cup {NoConn}]]
      BY TableEntryType
    <3>3. QED
      BY <3>1, <3>2 DEF TransportTypeOK
  <2>2. CASE ~(d = ends[c].acceptor /\ c \notin bound)
    BY <2>2 DEF Dispatch, TransportTypeOK
  <2>3. QED
    BY <2>1, <2>2
<1>2. QED
  BY <1>1 DEF Dispatch, TransportTypeOK, Inboxes

(* ... what it dispatched is a message, and what is left are inboxes. *)
LEMMA ConsumedType ==
    ASSUME NEW Message, TransportTypeOK(Message),
           NEW d \in Devices, NEW c \in Conns, Dispatch(d, c)
    PROVE  /\ Head(inbox[c][d]) \in Message
           /\ Consumed(c, d) \in Inboxes(Message)
<1>1. inbox[c][d] \in Seq(Message) /\ inbox[c][d] # <<>>
  BY DEF TransportTypeOK, Dispatch
<1>2. Head(inbox[c][d]) \in Message /\ Tail(inbox[c][d]) \in Seq(Message)
  BY <1>1
<1>3. QED
  BY <1>2 DEF TransportTypeOK, Consumed, Inboxes

LEMMA DropType ==
    ASSUME NEW Message, TransportTypeOK(Message), NEW c \in Conns, Drop(c)
    PROVE  TransportTypeOK(Message)'
  BY DEF Drop, TransportTypeOK

LEMMA LoopEndsType ==
    ASSUME NEW Message, TransportTypeOK(Message),
           NEW d \in Devices, NEW c \in Conns, LoopEnds(d, c)
    PROVE  TransportTypeOK(Message)'
<1>1. openAt' \in [Conns -> SUBSET Devices]
  BY DEF LoopEnds, TransportTypeOK
<1>2. inbox' \in [Conns -> [Devices -> Seq(Message)]]
  BY DEF LoopEnds, TransportTypeOK
<1>3. table' \in [Devices -> [Devices -> Conns \cup {NoConn}]]
  BY DEF LoopEnds, TransportTypeOK
<1>4. QED
  BY <1>1, <1>2, <1>3 DEF LoopEnds, TransportTypeOK

LEMMA BroadcastSendType ==
    ASSUME NEW Message, TransportTypeOK(Message),
           NEW d \in Devices, NEW e \in Devices, NEW c \in Conns, NEW m \in Message,
           BroadcastSend(d, e, c, m), UNCHANGED <<ends, openAt, broken, bound>>
    PROVE  TransportTypeOK(Message)'
<1>1. Sent(inbox, c, d, m) \in Inboxes(Message)
  BY SentType DEF TransportTypeOK, Inboxes
<1>2. inbox' \in [Conns -> [Devices -> Seq(Message)]]
  BY <1>1 DEF BroadcastSend, TransportTypeOK, Inboxes
<1>3. table' \in [Devices -> [Devices -> Conns \cup {NoConn}]]
  <2>1. table' = [table EXCEPT ![d][e] = NoConn] \/ table' = table
    BY DEF BroadcastSend, BroadcastFails
  <2>2. [table EXCEPT ![d][e] = NoConn] \in [Devices -> [Devices -> Conns \cup {NoConn}]]
    BY TableEntryType
  <2>3. QED
    BY <2>1, <2>2 DEF TransportTypeOK
<1>4. QED
  BY <1>2, <1>3 DEF TransportTypeOK

LEMMA ResetType ==
    ASSUME NEW Message, TransportTypeOK(Message), NEW d \in Devices, Reset(d)
    PROVE  TransportTypeOK(Message)'
<1>1. broken' \subseteq Conns /\ openAt' \in [Conns -> SUBSET Devices]
  BY DEF Reset, TransportTypeOK
<1>2. inbox' \in [Conns -> [Devices -> Seq(Message)]]
  <2>1. <<>> \in Seq(Message)
    OBVIOUS
  <2>2. \A c \in Conns : [inbox[c] EXCEPT ![d] = <<>>] \in [Devices -> Seq(Message)]
    BY <2>1 DEF TransportTypeOK
  <2>3. QED
    BY <2>2 DEF Reset
<1>3. table' \in [Devices -> [Devices -> Conns \cup {NoConn}]]
  BY DEF Reset, TransportTypeOK
<1>4. QED
  BY <1>1, <1>2, <1>3 DEF Reset, TransportTypeOK

-------------------------------------------------------------------------------
(* ... and TransportInv. *)

LEMMA TransportInitInv ==
    ASSUME TransportInit
    PROVE  TransportInv
  BY TransportAssumption DEF TransportInit, TransportInv, Opened

LEMMA PeerType ==
    ASSUME NEW Message, TransportTypeOK(Message),
           NEW d \in Devices, NEW c \in Conns, Opened(c)
    PROVE  Peer(c, d) \in Devices
  BY DEF TransportTypeOK, Opened, Peer, Ends

LEMMA ConnectInv ==
    ASSUME NEW Message, TransportTypeOK(Message), TransportInv,
           NEW d \in Devices, NEW e \in Devices, NEW c \in Conns, NEW first,
           Connect(d, e, c, first)
    PROVE  TransportInv'
<1>1. [opener |-> d, acceptor |-> e] \in Ends
  BY DEF Ends
<1>2. ends'[c] = [opener |-> d, acceptor |-> e] /\ Opened(c)'
  BY <1>1, TransportAssumption DEF Connect, TransportTypeOK, Opened
<1>3. \A x \in Conns : x # c => ends'[x] = ends[x] /\ openAt'[x] = openAt[x]
  BY DEF Connect, TransportTypeOK
<1>4. \A x \in Conns : Opened(x)' <=> Opened(x) \/ x = c
  BY <1>2, <1>3 DEF Opened
<1>5. \A x \in Conns : Opened(x)' => ends'[x].opener # ends'[x].acceptor
  BY <1>2, <1>3, <1>4 DEF TransportInv, Connect
<1>6. \A x \in Conns : openAt'[x] # {} \/ x \in bound' => Opened(x)'
  BY <1>3, <1>4 DEF TransportInv, Connect
<1>7. ASSUME NEW p \in Devices, NEW q \in Devices, NEW x \in Conns, table'[p][q] = x
      PROVE  Opened(x)' /\ q = Peer(x, p)'
  <2>1. CASE p = d /\ q = e
    <3>1. x = c
      BY <1>7, <2>1 DEF Connect, TransportTypeOK
    <3>2. QED
      BY <1>2, <2>1, <3>1 DEF Peer
  <2>2. CASE ~(p = d /\ q = e)
    <3>1. table[p][q] = x
      BY <1>7, <2>2 DEF Connect, TransportTypeOK
    <3>2. Opened(x) /\ q = Peer(x, p) /\ x # c
      BY <3>1 DEF TransportInv, Connect
    <3>3. QED
      BY <1>3, <1>4, <3>2 DEF Peer
  <2>3. QED
    BY <2>1, <2>2
<1>8. QED
  BY <1>5, <1>6, <1>7 DEF TransportInv

(* The steps after which no table entry is new. *)
LEMMA FewerEntriesInv ==
    ASSUME TransportInv, UNCHANGED <<ends, bound>>,
           \A c \in Conns : openAt'[c] \subseteq openAt[c],
           \A d, e \in Devices : table'[d][e] \in {table[d][e], NoConn}
    PROVE  TransportInv'
<1>1. \A c \in Conns : Opened(c)' = Opened(c)
  BY DEF Opened
<1>2. \A d, e \in Devices, c \in Conns : table'[d][e] = c => table[d][e] = c
  BY TransportAssumption
<1>3. \A c \in Conns : \A d : Peer(c, d)' = Peer(c, d)
  BY DEF Peer
<1>4. QED
  BY <1>1, <1>2, <1>3 DEF TransportInv

LEMMA DispatchInv ==
    ASSUME NEW Message, TransportTypeOK(Message), TransportInv,
           NEW d \in Devices, NEW c \in Conns, Dispatch(d, c)
    PROVE  TransportInv'
<1>1. UNCHANGED <<ends, openAt>> /\ Opened(c)
  BY DEF Dispatch, TransportInv
<1>2. \A x \in Conns : Opened(x)' = Opened(x)
  BY <1>1 DEF Opened
<1>3. \A x \in Conns : \A p : Peer(x, p)' = Peer(x, p)
  BY <1>1 DEF Peer
<1>4. ASSUME NEW p \in Devices, NEW q \in Devices, NEW x \in Conns, table'[p][q] = x,
             table[p][q] # x
      PROVE  x = c /\ p = d /\ d = ends[c].acceptor /\ q = ends[c].opener
  BY <1>4 DEF Dispatch, TransportTypeOK
<1>5. \A p, q \in Devices, x \in Conns : table'[p][q] = x => Opened(x) /\ q = Peer(x, p)
  BY <1>1, <1>4 DEF TransportInv, Peer
<1>6. \A x \in Conns : x \in bound' => Opened(x)
  BY <1>1 DEF Dispatch, TransportInv
<1>7. QED
  BY <1>1, <1>2, <1>3, <1>5, <1>6 DEF TransportInv

LEMMA LoopEndsInv ==
    ASSUME NEW Message, TransportTypeOK(Message), TransportInv,
           NEW d \in Devices, NEW c \in Conns, LoopEnds(d, c)
    PROVE  TransportInv'
<1>1. \A x \in Conns : openAt'[x] \subseteq openAt[x]
  BY DEF LoopEnds, TransportTypeOK
<1>2. \A p, q \in Devices : table'[p][q] \in {table[p][q], NoConn}
  BY DEF LoopEnds, TransportTypeOK
<1>3. QED
  BY <1>1, <1>2, FewerEntriesInv DEF LoopEnds

LEMMA ResetInv ==
    ASSUME NEW Message, TransportTypeOK(Message), TransportInv,
           NEW d \in Devices, Reset(d)
    PROVE  TransportInv'
<1>1. \A x \in Conns : openAt'[x] \subseteq openAt[x]
  BY DEF Reset, TransportTypeOK
<1>2. \A p, q \in Devices : table'[p][q] \in {table[p][q], NoConn}
  BY DEF Reset, TransportTypeOK
<1>3. QED
  BY <1>1, <1>2, FewerEntriesInv DEF Reset
-------------------------------------------------------------------------------
(* What waits to be read, and where it came from.                              *)

Waiting(box, c, d) == {box[c][d][i] : i \in DOMAIN box[c][d]}

(* Only its two ends read a connection, and only for them does anything wait   *)
(* on it: so the other end has sent it.                                        *)
OnlyEnds ==
    \A c \in Conns, d \in Devices :
        d \in openAt[c] \/ Waiting(inbox, c, d) # {}
            => Opened(c) /\ d \in {ends[c].opener, ends[c].acceptor}

(* A step after which nothing waits but what did before, or besides it a       *)
(* message m that d has sent on c.                                             *)
AddsNothing ==
    \A x \in Conns, p \in Devices : Waiting(inbox', x, p) \subseteq Waiting(inbox, x, p)

AddsOnly(c, d, m) ==
    \A x \in Conns, p \in Devices : \A k \in Waiting(inbox', x, p) :
        k \in Waiting(inbox, x, p) \/ (x = c /\ p = Peer(c, d) /\ k = m)

LEMMA OnlyEndsInit ==
    ASSUME TransportInit
    PROVE  OnlyEnds
  BY DEF TransportInit, OnlyEnds, Waiting

LEMMA PeerOfPeer ==
    ASSUME NEW Message, TransportTypeOK(Message), TransportInv, NEW c \in Conns,
           Opened(c), NEW d \in {ends[c].opener, ends[c].acceptor}
    PROVE  /\ Peer(c, d) \in Devices
           /\ Peer(c, d) \in {ends[c].opener, ends[c].acceptor}
           /\ Peer(c, Peer(c, d)) = d
<1>1. ends[c].opener # ends[c].acceptor /\ ends[c] \in Ends
  BY DEF TransportInv, TransportTypeOK, Opened
<1>2. QED
  BY <1>1 DEF Peer, Ends

Put(box, c, to, v) == [box EXCEPT ![c][to] = v]

LEMMA BoxUpdate ==
    ASSUME NEW Message, NEW box \in Inboxes(Message), NEW c \in Conns, NEW to, NEW v,
           NEW x \in Conns, NEW p \in Devices
    PROVE  Put(box, c, to, v)[x][p] = IF x = c /\ p = to THEN v ELSE box[x][p]
<1>1. box \in [Conns -> [Devices -> Seq(Message)]]
  BY DEF Inboxes
<1>2. Put(box, c, to, v)[x] = IF x = c THEN [box[c] EXCEPT ![to] = v] ELSE box[x]
  BY <1>1 DEF Put
<1>3. [box[c] EXCEPT ![to] = v][p] = IF p = to THEN v ELSE box[c][p]
  BY <1>1
<1>4. QED
  BY <1>2, <1>3

LEMMA SentAdds ==
    ASSUME NEW Message, NEW box \in Inboxes(Message), NEW c \in Conns, NEW d, NEW m,
           NEW x \in Conns, NEW p \in Devices,
           NEW k \in Waiting(Sent(box, c, d, m), x, p)
    PROVE  k \in Waiting(box, x, p) \/ (x = c /\ p = Peer(c, d) /\ k = m)
<1>1. PICK old, sent : old = box[x][p] /\ sent = Sent(box, c, d, m)[x][p]
  OBVIOUS
<1>2. old \in Seq(Message)
  BY <1>1 DEF Inboxes
<1>3. sent = old \/ (x = c /\ p = Peer(c, d) /\ sent = Append(old, m))
  <2>1. PICK to, v : to = Peer(c, d) /\ v = Append(box[c][to], m)
    OBVIOUS
  <2>2. PICK new : new = Sent(box, c, d, m)
    OBVIOUS
  <2>3. new = box \/ new = Put(box, c, to, v)
    BY <2>1, <2>2 DEF Sent, Put
  <2>4. new = box \/ new[x][p] = IF x = c /\ p = to THEN v ELSE box[x][p]
    BY <2>3, BoxUpdate
  <2>5. QED
    BY <1>1, <2>1, <2>2, <2>4
<1>4. /\ Waiting(box, x, p) = {old[i] : i \in DOMAIN old}
      /\ Waiting(Sent(box, c, d, m), x, p) = {sent[i] : i \in DOMAIN sent}
  BY <1>1 DEF Waiting
<1>5. CASE sent = old
  <2>1. Waiting(Sent(box, c, d, m), x, p) = Waiting(box, x, p)
    BY <1>4, <1>5
  <2>2. QED
    BY <2>1
<1>6. CASE x = c /\ p = Peer(c, d) /\ sent = Append(old, m)
  <2>1. \A i \in DOMAIN sent : (i \in DOMAIN old /\ sent[i] = old[i]) \/ sent[i] = m
    BY <1>2, <1>6
  <2>2. \A r \in Waiting(Sent(box, c, d, m), x, p) : r \in Waiting(box, x, p) \/ r = m
    BY <1>4, <2>1
  <2>3. QED
    BY <1>6, <2>2
<1>7. QED
  BY <1>3, <1>5, <1>6

LEMMA ConsumedLeaves ==
    ASSUME NEW Message, TransportTypeOK(Message), NEW c \in Conns, NEW d \in Devices,
           inbox[c][d] # <<>>, NEW x \in Conns, NEW p \in Devices
    PROVE  Waiting(Consumed(c, d), x, p) \subseteq Waiting(inbox, x, p)
<1>1. PICK old, left : old = inbox[x][p] /\ left = Consumed(c, d)[x][p]
  OBVIOUS
<1>2. old \in Seq(Message)
  BY <1>1 DEF TransportTypeOK
<1>3. left = old \/ (old # <<>> /\ left = Tail(old))
  <2>1. PICK v : v = Tail(inbox[c][d])
    OBVIOUS
  <2>2. inbox \in Inboxes(Message)
    BY DEF TransportTypeOK, Inboxes
  <2>3. Consumed(c, d) = Put(inbox, c, d, v)
    BY <2>1 DEF Consumed, Put
  <2>4. left = IF x = c /\ p = d THEN v ELSE inbox[x][p]
    BY <1>1, <2>2, <2>3, BoxUpdate
  <2>5. QED
    BY <1>1, <2>1, <2>4
<1>4. \A i \in DOMAIN left : \E j \in DOMAIN old : left[i] = old[j]
  <2>1. CASE left = old
    BY <2>1
  <2>2. CASE old # <<>> /\ left = Tail(old)
    <3>1. \A i \in DOMAIN left : i + 1 \in DOMAIN old /\ left[i] = old[i + 1]
      BY <1>2, <2>2
    <3>2. QED
      BY <3>1
  <2>3. QED
    BY <1>3, <2>1, <2>2
<1>5. QED
  BY <1>1, <1>4 DEF Waiting

(* What a handler has dispatched was waiting for it, and came from the peer. *)
LEMMA DispatchedWaits ==
    ASSUME NEW Message, TransportTypeOK(Message), OnlyEnds,
           NEW d \in Devices, NEW c \in Conns, Dispatch(d, c)
    PROVE  /\ Head(inbox[c][d]) \in Waiting(inbox, c, d)
           /\ Opened(c) /\ d \in {ends[c].opener, ends[c].acceptor}
<1>1. inbox[c][d] \in Seq(Message) /\ inbox[c][d] # <<>>
  BY DEF TransportTypeOK, Dispatch
<1>2. 1 \in DOMAIN inbox[c][d] /\ Head(inbox[c][d]) = inbox[c][d][1]
  BY <1>1
<1>3. QED
  BY <1>2 DEF Waiting, Dispatch, OnlyEnds

LEMMA ConnectAdds ==
    ASSUME NEW Message, TransportTypeOK(Message), OnlyEnds,
           NEW d \in Devices, NEW e \in Devices, NEW c \in Conns, NEW m \in Message,
           Connect(d, e, c, <<m>>)
    PROVE  /\ OnlyEnds'
           /\ \A x \in Conns, p \in Devices : \A k \in Waiting(inbox', x, p) :
                 k \in Waiting(inbox, x, p) \/ (x = c /\ p = e /\ k = m)
           /\ \A x \in Conns : Opened(x) => ends'[x] = ends[x]
<1>1. [opener |-> d, acceptor |-> e] \in Ends
  BY DEF Ends
<1>2. ends'[c] = [opener |-> d, acceptor |-> e] /\ Opened(c)' /\ ~Opened(c)
  BY <1>1, TransportAssumption DEF Connect, TransportTypeOK, Opened
<1>3. \A x \in Conns : x # c => ends'[x] = ends[x] /\ openAt'[x] = openAt[x]
  BY DEF Connect, TransportTypeOK
<1>4. openAt'[c] = {d, e}
  BY DEF Connect, TransportTypeOK
<1>5. ASSUME NEW x \in Conns, NEW p \in Devices, NEW k \in Waiting(inbox', x, p)
      PROVE  k \in Waiting(inbox, x, p) \/ (x = c /\ p = e /\ k = m)
  <2>1. PICK old, now : old = inbox[x][p] /\ now = inbox'[x][p]
    OBVIOUS
  <2>2. old \in Seq(Message) /\ (now = old \/ (x = c /\ p = e /\ now = old \o <<m>>))
    <3>1. PICK v : v = inbox[c][e] \o <<m>>
      OBVIOUS
    <3>2. inbox \in Inboxes(Message)
      BY DEF TransportTypeOK, Inboxes
    <3>3. inbox' = Put(inbox, c, e, v)
      BY <3>1 DEF Connect, Put
    <3>5. now = IF x = c /\ p = e THEN v ELSE old
      BY <2>1, <3>2, <3>3, BoxUpdate
    <3>6. old \in Seq(Message)
      BY <2>1, <3>2 DEF Inboxes
    <3>7. QED
      BY <2>1, <3>1, <3>5, <3>6
  <2>3. /\ Waiting(inbox, x, p) = {old[i] : i \in DOMAIN old}
        /\ Waiting(inbox', x, p) = {now[i] : i \in DOMAIN now}
    BY <2>1 DEF Waiting
  <2>4. CASE now = old
    <3>1. Waiting(inbox', x, p) = Waiting(inbox, x, p)
      BY <2>3, <2>4
    <3>2. QED
      BY <3>1
  <2>5. CASE x = c /\ p = e /\ now = old \o <<m>>
    <3>1. \A i \in DOMAIN now : (i \in DOMAIN old /\ now[i] = old[i]) \/ now[i] = m
      BY <2>2, <2>5
    <3>2. \A r \in Waiting(inbox', x, p) : r \in Waiting(inbox, x, p) \/ r = m
      BY <2>3, <3>1
    <3>3. QED
      BY <2>5, <3>2
  <2>6. QED
    BY <2>2, <2>4, <2>5
<1>6. OnlyEnds'
  <2>1. ASSUME NEW x \in Conns, NEW p \in Devices, p \in openAt'[x] \/ Waiting(inbox', x, p) # {}
        PROVE  ends'[x] # NoEnds /\ p \in {ends'[x].opener, ends'[x].acceptor}
    <3>1. CASE x = c
      <4>1. Waiting(inbox, c, p) = {}
        BY <1>2 DEF OnlyEnds
      <4>2. p \in {d, e}
        BY <1>4, <1>5, <2>1, <3>1, <4>1
      <4>3. QED
        BY <1>2, <3>1, <4>2 DEF Opened
    <3>2. CASE x # c
      <4>1. p \in openAt[x] \/ Waiting(inbox, x, p) # {}
        BY <1>3, <1>5, <2>1, <3>2
      <4>2. QED
        BY <1>3, <3>2, <4>1 DEF OnlyEnds, Opened
    <3>3. QED
      BY <3>1, <3>2
  <2>2. QED
    BY <2>1 DEF OnlyEnds, Opened
<1>7. QED
  BY <1>2, <1>3, <1>5, <1>6

(* A message reaches the other end, and nobody else. *)
LEMMA OnlyEndsNext ==
    ASSUME NEW Message, TransportTypeOK(Message), TransportInv, OnlyEnds,
           UNCHANGED ends, \A c \in Conns : openAt'[c] \subseteq openAt[c],
           \/ AddsNothing
           \/ \E c \in Conns : \E d \in {ends[c].opener, ends[c].acceptor} : \E m :
                 Opened(c) /\ AddsOnly(c, d, m)
    PROVE  OnlyEnds'
<1>1. ASSUME NEW x \in Conns, NEW p \in Devices, p \in openAt'[x] \/ Waiting(inbox', x, p) # {}
      PROVE  ends[x] # NoEnds /\ p \in {ends[x].opener, ends[x].acceptor}
  <2>1. CASE p \in openAt[x] \/ Waiting(inbox, x, p) # {}
    BY <2>1 DEF OnlyEnds, Opened
  <2>2. CASE ~(p \in openAt[x] \/ Waiting(inbox, x, p) # {})
    <3>1. PICK c \in Conns : \E d \in {ends[c].opener, ends[c].acceptor} : \E m :
                 Opened(c) /\ AddsOnly(c, d, m)
      BY <1>1, <2>2 DEF AddsNothing
    <3>2. PICK d \in {ends[c].opener, ends[c].acceptor} : \E m : Opened(c) /\ AddsOnly(c, d, m)
      BY <3>1
    <3>3. x = c /\ p = Peer(c, d) /\ Opened(c)
      BY <1>1, <2>2, <3>2 DEF AddsOnly
    <3>4. QED
      BY <3>3, PeerOfPeer DEF Opened
  <2>3. QED
    BY <2>1, <2>2
<1>2. QED
  BY <1>1 DEF OnlyEnds, Opened

LEMMA LoopEndsAdds ==
    ASSUME NEW Message, TransportTypeOK(Message), NEW d \in Devices, NEW c \in Conns,
           LoopEnds(d, c)
    PROVE  AddsNothing /\ UNCHANGED ends /\ \A x \in Conns : openAt'[x] \subseteq openAt[x]
<1>1. \A x \in Conns, p \in Devices : inbox'[x][p] = inbox[x][p] \/ inbox'[x][p] = <<>>
  BY DEF LoopEnds, TransportTypeOK
<1>2. \A x \in Conns : openAt'[x] \subseteq openAt[x]
  BY DEF LoopEnds, TransportTypeOK
<1>3. QED
  BY <1>1, <1>2 DEF AddsNothing, Waiting, LoopEnds

LEMMA ResetAdds ==
    ASSUME NEW Message, TransportTypeOK(Message), NEW d \in Devices, Reset(d)
    PROVE  AddsNothing /\ UNCHANGED ends /\ \A x \in Conns : openAt'[x] \subseteq openAt[x]
<1>1. \A x \in Conns, p \in Devices : inbox'[x][p] = inbox[x][p] \/ inbox'[x][p] = <<>>
  BY DEF Reset, TransportTypeOK
<1>2. QED
  BY <1>1 DEF AddsNothing, Waiting, Reset, TransportTypeOK
================================================================================
