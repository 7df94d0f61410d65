---------------------------- MODULE Dashboard_proofs ----------------------------
(* For everything a daemon may know, and any number of requests, navigations   *)
(* and crashes: the pages keep their shape, they show only what was true, a    *)
(* tooltip mixes no two answers, no two circles share a place, and the tables  *)
(* are in order and complete.                                                  *)
EXTENDS Dashboard, FiniteSetTheorems, TLAPS

--------------------------------------------------------------------------------
(* Lists of requests. *)

LEMMA RemoveAtType ==
    ASSUME NEW S, NEW list \in Seq(S), NEW i \in DOMAIN list
    PROVE  /\ RemoveAt(list, i) \in Seq(S)
           /\ Len(RemoveAt(list, i)) = Len(list) - 1
           /\ \A j \in DOMAIN RemoveAt(list, i) :
                 \E k \in DOMAIN list : RemoveAt(list, i)[j] = list[k]
<1> DEFINE left == SubSeq(list, 1, i - 1)
           right == SubSeq(list, i + 1, Len(list))
<1>1. /\ left \in Seq(S) /\ Len(left) = i - 1
      /\ \A j \in 1..(i - 1) : left[j] = list[j]
  OBVIOUS
<1>2. /\ right \in Seq(S) /\ Len(right) = Len(list) - i
      /\ \A j \in 1..(Len(list) - i) : right[j] = list[i + j]
  OBVIOUS
<1>3. RemoveAt(list, i) = left \o right
  BY DEF RemoveAt
<1> HIDE DEF left, right
<1>4. left \o right \in Seq(S) /\ Len(left \o right) = Len(list) - 1
  BY <1>1, <1>2
<1>5. ASSUME NEW j \in DOMAIN (left \o right)
      PROVE  \E k \in DOMAIN list : (left \o right)[j] = list[k]
  <2>1. j \in 1..(Len(list) - 1)
    BY <1>4, <1>5
  <2>2. CASE j =< i - 1
    BY <1>1, <1>2, <2>1, <2>2
  <2>3. CASE j > i - 1
    <3>1. (left \o right)[j] = list[j + 1] /\ j + 1 \in DOMAIN list
      BY <1>1, <1>2, <2>1, <2>3
    <3>2. QED
      BY <3>1
  <2>4. QED
    BY <2>1, <2>2, <2>3
<1>6. QED
  BY <1>3, <1>4, <1>5

LEMMA NewCallType ==
    ASSUME NEW ep \in Endpoints
    PROVE  NewCall \in Calls(ep) /\ NewCall.stage # "answered"
BY DEF NewCall, Calls

LEMMA ResetType ==
    ASSUME NEW ep \in Endpoints, NEW call \in Calls(ep)
    PROVE  /\ Reset(call) \in Calls(ep)
           /\ Reset(call).stage = "answered" => Reset(call) = call
BY DEF Reset, Calls

--------------------------------------------------------------------------------
(* The inductive invariant: what is under way for the page was true, and so is *)
(* what the mouse has kept; without them nothing could be said of an answer    *)
(* when it arrives.                                                            *)

KnownSeen == \A ep \in Endpoints : known[ep] \in seen[ep]

WereTrue(ep, list) ==
    \A i \in DOMAIN list :
        /\ ep \in PollsOn(path)
        /\ list[i].stage = "answered" => \E k \in seen[ep] : list[i].body = Answer(ep, k)

CallsWereTrue == \A ep \in Endpoints : WereTrue(ep, calls[ep])

HoverWasTrue ==
    \/ hovered \in {None, SelfHovered}
    \/ \E k \in seen["peers"] : \E i \in DOMAIN k : hovered = PeerHovered(k, i)

PageInv ==
    /\ TypeOK
    /\ KnownSeen
    /\ CallsWereTrue
    /\ HoverWasTrue
    /\ ShownWasTrue

LEMMA PageInit == ASSUME Init PROVE PageInv
<1>1. TypeOK
  <2>1. \A ep \in Endpoints : AtBoot[ep] \in Known[ep]
    BY PollingAssumption
  <2>2. OnEndpoints(known) /\ OnEndpoints(data) /\ OnEndpoints(calls) /\ OnEndpoints(seen)
    BY PollingAssumption DEF Init, OnEndpoints
  <2>3. \A ep \in Endpoints : calls[ep] \in Seq(Calls(ep)) /\ Len(calls[ep]) =< MaxCalls
    BY PollingAssumption DEF Init
  <2>4. \A ep \in Endpoints : known[ep] \in Known[ep] /\ data[ep] = None
                                 /\ seen[ep] \subseteq Known[ep]
    BY <2>1 DEF Init
  <2>5. QED
    BY <2>2, <2>3, <2>4, PollingAssumption, MovesAssumption DEF Init, TypeOK, HoverOK
<1>2. KnownSeen
  BY DEF Init, KnownSeen
<1>3. CallsWereTrue
  BY DEF Init, CallsWereTrue, WereTrue
<1>4. HoverWasTrue /\ ShownWasTrue
  BY DEF Init, HoverWasTrue, ShownWasTrue
<1>5. QED
  BY <1>1, <1>2, <1>3, <1>4 DEF PageInv

--------------------------------------------------------------------------------
(* Requests.  A step on one list leaves the others alone. *)

LEMMA OneListChanges ==
    ASSUME PageInv, NEW ep \in Endpoints, NEW list \in Seq(Calls(ep)),
           Len(list) =< MaxCalls, WereTrue(ep, list),
           calls' = [calls EXCEPT ![ep] = list],
           UNCHANGED <<nodeVars, pageVars, seen>>
    PROVE  /\ data' = data => PageInv'
           /\ CallsWereTrue' /\ KnownSeen' /\ HoverWasTrue'
           /\ OnEndpoints(calls')
           /\ \A e \in Endpoints : calls'[e] \in Seq(Calls(e)) /\ Len(calls'[e]) =< MaxCalls
<1>1. /\ calls' = [e \in Endpoints |-> IF e = ep THEN list ELSE calls[e]]
      /\ \A e \in Endpoints : calls'[e] = IF e = ep THEN list ELSE calls[e]
  BY DEF PageInv, TypeOK, OnEndpoints
<1>2. OnEndpoints(calls')
  BY <1>1 DEF OnEndpoints
<1>3. \A e \in Endpoints : calls'[e] \in Seq(Calls(e)) /\ Len(calls'[e]) =< MaxCalls
  BY <1>1 DEF PageInv, TypeOK
<1>4. CallsWereTrue'
  BY <1>1 DEF PageInv, CallsWereTrue, WereTrue, pageVars
<1>5. KnownSeen' /\ HoverWasTrue'
  BY DEF PageInv, KnownSeen, HoverWasTrue, pageVars, nodeVars
<1>6. ASSUME data' = data PROVE PageInv'
  <2>1. TypeOK'
    BY <1>2, <1>3, <1>6 DEF PageInv, TypeOK, OnEndpoints, HoverOK, pageVars, nodeVars
  <2>2. ShownWasTrue'
    BY <1>6 DEF PageInv, ShownWasTrue, pageVars
  <2>3. QED
    BY <1>4, <1>5, <2>1, <2>2 DEF PageInv
<1>7. QED
  BY <1>2, <1>3, <1>4, <1>5, <1>6

LEMMA TickKeeps ==
    ASSUME PageInv, NEW ep \in Endpoints, Tick(ep)
    PROVE  PageInv'
<1> DEFINE list == Append(calls[ep], NewCall)
<1>1. calls[ep] \in Seq(Calls(ep)) /\ Len(calls[ep]) < MaxCalls /\ MaxCalls \in Nat
  BY PollingAssumption DEF PageInv, TypeOK, Tick, Fetch
<1>2. list \in Seq(Calls(ep)) /\ Len(list) =< MaxCalls
  BY <1>1, NewCallType
<1>3. WereTrue(ep, list)
  BY <1>1, NewCallType DEF Tick, PageInv, CallsWereTrue, WereTrue
<1>4. /\ calls' = [calls EXCEPT ![ep] = list]
      /\ data' = data
      /\ UNCHANGED <<nodeVars, pageVars, seen>>
  BY DEF Tick, Fetch
<1> HIDE DEF list
<1>5. QED
  BY <1>2, <1>3, <1>4, OneListChanges

LEMMA AnsweredKeeps ==
    ASSUME PageInv, NEW ep \in Endpoints, NEW i \in 1..MaxCalls, Answered(ep, i)
    PROVE  PageInv'
<1> DEFINE list == [calls[ep] EXCEPT ![i] = [stage |-> "answered", body |-> Now(ep)]]
<1>1. calls[ep] \in Seq(Calls(ep)) /\ Len(calls[ep]) =< MaxCalls /\ i \in DOMAIN calls[ep]
  BY DEF PageInv, TypeOK, Answered, Served
<1>2. known[ep] \in Known[ep] /\ known[ep] \in seen[ep]
  BY DEF PageInv, TypeOK, KnownSeen
<1>3. [stage |-> "answered", body |-> Now(ep)] \in Calls(ep)
  BY <1>2 DEF Calls, Bodies, Now
<1>4. list \in Seq(Calls(ep)) /\ Len(list) =< MaxCalls
  BY <1>1, <1>3
<1>5. WereTrue(ep, list)
  BY <1>1, <1>2 DEF PageInv, CallsWereTrue, WereTrue, Now
<1>6. /\ calls' = [calls EXCEPT ![ep] = list]
      /\ data' = data
      /\ UNCHANGED <<nodeVars, pageVars, seen>>
  BY DEF Answered, Served
<1> HIDE DEF list
<1>7. QED
  BY <1>4, <1>5, <1>6, OneListChanges

LEMMA SettledKeeps ==
    ASSUME PageInv, NEW ep \in Endpoints, NEW i \in 1..MaxCalls, Settled(ep, i)
    PROVE  PageInv'
<1> DEFINE list == RemoveAt(calls[ep], i)
<1>1. calls[ep] \in Seq(Calls(ep)) /\ Len(calls[ep]) =< MaxCalls /\ i \in DOMAIN calls[ep]
  BY DEF PageInv, TypeOK, Settled, Arrives, Fails
<1>2. /\ list \in Seq(Calls(ep)) /\ Len(list) =< MaxCalls
      /\ \A j \in DOMAIN list : \E k \in DOMAIN calls[ep] : list[j] = calls[ep][k]
  BY <1>1, RemoveAtType, PollingAssumption
<1>3. /\ calls' = [calls EXCEPT ![ep] = list]
      /\ UNCHANGED <<nodeVars, pageVars, seen>>
  BY DEF Settled, Arrives, Fails
<1> HIDE DEF list
<1>4. WereTrue(ep, list)
  BY <1>1, <1>2 DEF PageInv, CallsWereTrue, WereTrue
<1>5. CASE Fails(ep, i)
  BY <1>2, <1>3, <1>4, <1>5, OneListChanges DEF Fails
<1>6. CASE Arrives(ep, i)
  <2>1. calls[ep][i].stage = "answered" /\ data' = [data EXCEPT ![ep] = calls[ep][i].body]
    BY <1>6 DEF Arrives
  <2>2. calls[ep][i] \in Calls(ep)
    BY <1>1
  <2>3. calls[ep][i].body \in Bodies(ep)
    BY <2>1, <2>2 DEF Calls
  <2>4. /\ ep \in PollsOn(path)
        /\ \E k \in seen[ep] : calls[ep][i].body = Answer(ep, k)
    BY <1>1, <2>1 DEF PageInv, CallsWereTrue, WereTrue
  <2>5. /\ data' = [e \in Endpoints |-> IF e = ep THEN calls[ep][i].body ELSE data[e]]
        /\ \A e \in Endpoints : data'[e] = IF e = ep THEN calls[ep][i].body ELSE data[e]
    BY <2>1 DEF PageInv, TypeOK, OnEndpoints
  <2>6. ShownWasTrue'
    BY <1>3, <2>4, <2>5 DEF PageInv, ShownWasTrue, pageVars
  <2>7. OnEndpoints(data') /\ \A e \in Endpoints : data'[e] \in Bodies(e) \cup {None}
    BY <2>3, <2>5 DEF PageInv, TypeOK, OnEndpoints
  <2>8. /\ CallsWereTrue' /\ KnownSeen' /\ HoverWasTrue'
        /\ OnEndpoints(calls')
        /\ \A e \in Endpoints : calls'[e] \in Seq(Calls(e)) /\ Len(calls'[e]) =< MaxCalls
    BY <1>2, <1>3, <1>4, OneListChanges
  <2>9. TypeOK'
    BY <1>3, <2>7, <2>8 DEF PageInv, TypeOK, OnEndpoints, HoverOK, pageVars, nodeVars
  <2>10. QED
    BY <2>6, <2>8, <2>9 DEF PageInv
<1>7. QED
  BY <1>5, <1>6 DEF Settled

--------------------------------------------------------------------------------
(* The daemon.  What has been true stays in the history, and a crash takes     *)
(* requests away but invents no answer.                                        *)

LEMMA CrashedCalls ==
    ASSUME PageInv,
           calls' = [ep \in Endpoints |-> [i \in DOMAIN calls[ep] |-> Reset(calls[ep][i])]],
           UNCHANGED pageVars,
           \A ep \in Endpoints : seen[ep] \subseteq seen'[ep]
    PROVE  /\ CallsWereTrue'
           /\ \A ep \in Endpoints : calls'[ep] \in Seq(Calls(ep)) /\ Len(calls'[ep]) =< MaxCalls
<1>1. ASSUME NEW ep \in Endpoints
      PROVE  /\ calls'[ep] \in Seq(Calls(ep)) /\ Len(calls'[ep]) =< MaxCalls
             /\ \A i \in DOMAIN calls'[ep] :
                   /\ i \in DOMAIN calls[ep]
                   /\ calls'[ep][i].stage = "answered" => calls'[ep][i] = calls[ep][i]
  <2>1. calls[ep] \in Seq(Calls(ep)) /\ Len(calls[ep]) =< MaxCalls
    BY DEF PageInv, TypeOK
  <2>2. calls'[ep] = [i \in DOMAIN calls[ep] |-> Reset(calls[ep][i])]
    OBVIOUS
  <2>3. \A i \in DOMAIN calls[ep] :
           /\ Reset(calls[ep][i]) \in Calls(ep)
           /\ Reset(calls[ep][i]).stage = "answered" => Reset(calls[ep][i]) = calls[ep][i]
    BY <2>1, ResetType
  <2>4. DOMAIN calls[ep] = 1..Len(calls[ep]) /\ Len(calls[ep]) \in Nat
    BY <2>1
  <2>5. calls'[ep] \in Seq(Calls(ep)) /\ Len(calls'[ep]) = Len(calls[ep])
    BY <2>2, <2>3, <2>4
  <2>6. QED
    BY <2>1, <2>2, <2>3, <2>5
<1>2. CallsWereTrue'
  BY <1>1 DEF PageInv, CallsWereTrue, WereTrue, pageVars
<1>3. QED
  BY <1>1, <1>2

LEMMA LearntKeeps ==
    ASSUME PageInv, Learnt, UNCHANGED pageVars, UNCHANGED data,
           OnEndpoints(known'),
           \A ep \in Endpoints : known'[ep] \in Known[ep]
    PROVE  /\ KnownSeen' /\ HoverWasTrue' /\ ShownWasTrue' /\ OnEndpoints(seen')
           /\ \A ep \in Endpoints :
                 /\ seen[ep] \subseteq seen'[ep]
                 /\ seen'[ep] \subseteq Known[ep]
<1>1. \A ep \in Endpoints : seen'[ep] = seen[ep] \cup {known'[ep]}
  BY DEF Learnt
<1>2. "peers" \in Endpoints
  BY DEF Endpoints
<1>3. HoverWasTrue'
  BY <1>1, <1>2 DEF PageInv, HoverWasTrue, pageVars
<1>4. ShownWasTrue'
  BY <1>1 DEF PageInv, ShownWasTrue, pageVars
<1>5. QED
  BY <1>1, <1>3, <1>4 DEF PageInv, TypeOK, KnownSeen, Learnt, OnEndpoints

LEMMA DaemonKeeps == ASSUME PageInv, Daemon PROVE PageInv'
<1>1. \A ep \in Endpoints : AtBoot[ep] \in Known[ep]
  BY PollingAssumption
<1>2. CASE Crash
  <2>1. OnEndpoints(known') /\ \A ep \in Endpoints : known'[ep] \in Known[ep]
    BY <1>2 DEF PageInv, TypeOK, Crash, OnEndpoints
  <2>2. /\ KnownSeen' /\ HoverWasTrue' /\ ShownWasTrue' /\ OnEndpoints(seen')
        /\ \A ep \in Endpoints :
              seen[ep] \subseteq seen'[ep] /\ seen'[ep] \subseteq Known[ep]
    BY <1>2, <2>1, LearntKeeps DEF Crash, Daemon
  <2>3. /\ CallsWereTrue'
        /\ \A ep \in Endpoints : calls'[ep] \in Seq(Calls(ep)) /\ Len(calls'[ep]) =< MaxCalls
    BY <1>2, <2>2, CrashedCalls DEF Crash, Daemon
  <2>4. OnEndpoints(calls') /\ crashes' \in 0..MaxCrashes
    BY <1>2, PollingAssumption DEF PageInv, TypeOK, Crash, OnEndpoints
  <2>5. TypeOK'
    BY <1>2, <2>1, <2>2, <2>3, <2>4
       DEF PageInv, TypeOK, Crash, Daemon, OnEndpoints, HoverOK, pageVars
  <2>6. QED
    BY <2>2, <2>3, <2>5 DEF PageInv
<1>3. ASSUME UNCHANGED <<data, calls>>, up' \in BOOLEAN,
             changes' \in 0..MaxChanges, crashes' \in 0..MaxCrashes,
             OnEndpoints(known'), \A ep \in Endpoints : known'[ep] \in Known[ep]
      PROVE  PageInv'
  <2>1. /\ KnownSeen' /\ HoverWasTrue' /\ ShownWasTrue' /\ OnEndpoints(seen')
        /\ \A ep \in Endpoints :
              seen[ep] \subseteq seen'[ep] /\ seen'[ep] \subseteq Known[ep]
    BY <1>3, LearntKeeps DEF Daemon
  <2>2. CallsWereTrue'
    BY <1>3, <2>1 DEF PageInv, CallsWereTrue, WereTrue, Daemon, pageVars
  <2>3. TypeOK'
    BY <1>3, <2>1 DEF PageInv, TypeOK, Daemon, OnEndpoints, HoverOK, pageVars
  <2>4. QED
    BY <2>1, <2>2, <2>3 DEF PageInv
<1>4. CASE Boot
  <2>1. OnEndpoints(AtBoot)
    BY PollingAssumption DEF OnEndpoints
  <2>2. QED
    BY <1>1, <1>3, <1>4, <2>1 DEF PageInv, TypeOK, Boot
<1>5. ASSUME NEW ep \in Endpoints, Change(ep) PROVE PageInv'
  <2>1. PICK k \in Known[ep] : known' = [known EXCEPT ![ep] = k]
    BY <1>5 DEF Change
  <2>2. OnEndpoints(known') /\ \A e \in Endpoints : known'[e] \in Known[e]
    BY <2>1 DEF PageInv, TypeOK, OnEndpoints
  <2>3. changes' \in 0..MaxChanges
    BY <1>5, PollingAssumption DEF PageInv, TypeOK, Change
  <2>4. QED
    BY <1>3, <1>5, <2>2, <2>3 DEF PageInv, TypeOK, Change
<1>6. QED
  BY <1>2, <1>4, <1>5 DEF Daemon

--------------------------------------------------------------------------------
(* The user. *)

LEMMA HoverKeeps ==
    ASSUME PageInv, NEW h, Hover(h),
           \/ h \in {None, SelfHovered}
           \/ \E k \in seen["peers"] : \E i \in DOMAIN k : h = PeerHovered(k, i)
    PROVE  PageInv'
<1>1. seen["peers"] \subseteq Known["peers"]
  BY DEF PageInv, TypeOK, Endpoints
<1>2. TypeOK'
  BY <1>1 DEF PageInv, TypeOK, Hover, HoverOK, OnEndpoints, nodeVars
<1>3. HoverWasTrue'
  BY DEF Hover, HoverWasTrue
<1>4. CallsWereTrue' /\ KnownSeen' /\ ShownWasTrue'
  BY DEF PageInv, Hover, CallsWereTrue, WereTrue, KnownSeen, ShownWasTrue, nodeVars
<1>5. QED
  BY <1>2, <1>3, <1>4 DEF PageInv

LEMMA NavigateKeeps == ASSUME PageInv, NEW p \in Paths, Navigate(p) PROVE PageInv'
<1>1. /\ data' = [ep \in Endpoints |-> None]
      /\ calls' = [ep \in Endpoints |-> <<>>]
      /\ hovered' = None
      /\ seen' = [ep \in Endpoints |-> {known[ep]}]
      /\ UNCHANGED nodeVars
      /\ path' \in Paths
  BY DEF Navigate, Cancelled, StateLost
<1>2. \A ep \in Endpoints : calls'[ep] = <<>> /\ data'[ep] = None /\ seen'[ep] = {known[ep]}
  BY <1>1
<1>3. TypeOK'
  <2>1. moves' \in 0..MaxMoves
    BY MovesAssumption DEF PageInv, TypeOK, Navigate
  <2>2. OnEndpoints(data') /\ OnEndpoints(calls') /\ OnEndpoints(seen')
    BY <1>1 DEF OnEndpoints
  <2>3. \A ep \in Endpoints : calls'[ep] \in Seq(Calls(ep)) /\ Len(calls'[ep]) =< MaxCalls
    <3>1. \A ep \in Endpoints : <<>> \in Seq(Calls(ep)) /\ Len(<<>>) = 0
      OBVIOUS
    <3>2. 0 =< MaxCalls
      BY PollingAssumption
    <3>3. QED
      BY <1>2, <3>1, <3>2
  <2>4. QED
    BY <1>1, <1>2, <2>1, <2>2, <2>3
       DEF PageInv, TypeOK, OnEndpoints, HoverOK, nodeVars
<1>4. KnownSeen' /\ CallsWereTrue' /\ HoverWasTrue' /\ ShownWasTrue'
  BY <1>1, <1>2 DEF nodeVars, KnownSeen, CallsWereTrue, WereTrue, HoverWasTrue, ShownWasTrue
<1>5. QED
  BY <1>3, <1>4 DEF PageInv

LEMMA UserKeeps == ASSUME PageInv, User PROVE PageInv'
<1>1. ASSUME NEW p \in Paths, Navigate(p) PROVE PageInv'
  BY <1>1, NavigateKeeps
<1>2. CASE HoverSelf
  BY <1>2, HoverKeeps DEF HoverSelf
<1>3. ASSUME NEW i \in DOMAIN Peers, HoverPeer(i) PROVE PageInv'
  <2>1. data["peers"] # None => \E k \in seen["peers"] : data["peers"] = k
    BY DEF PageInv, ShownWasTrue, Answer, PeersAnswer, Endpoints
  <2>2. data["peers"] # None
    BY <1>3 DEF Peers
  <2>3. \E k \in seen["peers"] : \E j \in DOMAIN k : PeerHovered(Peers, i) = PeerHovered(k, j)
    BY <1>3, <2>1, <2>2 DEF Peers
  <2>4. QED
    BY <1>3, <2>3, HoverKeeps DEF HoverPeer
<1>4. CASE LeaveSelf \/ \E i \in DOMAIN Peers : LeavePeer(i)
  BY <1>4, HoverKeeps DEF LeaveSelf, LeavePeer
<1>5. QED
  BY <1>1, <1>2, <1>3, <1>4 DEF User

--------------------------------------------------------------------------------
(* The specification. *)

LEMMA PageNext == PageInv /\ [Next]_vars => PageInv'
<1> SUFFICES ASSUME PageInv, [Next]_vars PROVE PageInv'
  OBVIOUS
<1>1. ASSUME NEW ep \in Endpoints, Tick(ep) PROVE PageInv'
  BY <1>1, TickKeeps
<1>2. ASSUME NEW ep \in Endpoints, NEW i \in 1..MaxCalls, Answered(ep, i) PROVE PageInv'
  BY <1>2, AnsweredKeeps
<1>3. ASSUME NEW ep \in Endpoints, NEW i \in 1..MaxCalls, Settled(ep, i) PROVE PageInv'
  BY <1>3, SettledKeeps
<1>4. CASE UNCHANGED vars
  BY <1>4 DEF PageInv, vars, nodeVars, TypeOK, OnEndpoints, HoverOK, KnownSeen,
              CallsWereTrue, WereTrue, HoverWasTrue, ShownWasTrue
<1>5. QED
  BY <1>1, <1>2, <1>3, <1>4, DaemonKeeps, UserKeeps DEF Next

(* PageInvariant: everything a page shows, has asked for or keeps from the     *)
(* mouse goes back to what the daemon has known since the page was mounted.    *)
THEOREM PageInvariant == Spec => []PageInv
<1>1. Init => PageInv
  BY PageInit
<1>2. QED
  BY <1>1, PageNext, PTL DEF Spec

(* PagesTypeCorrect: the hooks' state and their requests keep their shape,     *)
(* whatever the daemon may know (hooks/useAPI.js).                             *)
THEOREM PagesTypeCorrect == Spec => []TypeOK
BY PageInvariant, PTL DEF PageInv

(* ShownAlwaysTrue: answers that overtake one another, break off or come after *)
(* the page was left never show what was not true on this page.                *)
THEOREM ShownAlwaysTrue == Spec => []ShownWasTrue
BY PageInvariant, PTL DEF PageInv

(* TooltipAlwaysTrue: for any number of peers, the tooltip belongs to one      *)
(* device and one answer (pages/Topology.jsx, components/DeviceTooltip.jsx).   *)
THEOREM TooltipAlwaysTrue == Spec => []TooltipWasTrue
<1>1. ASSUME PageInv PROVE TooltipWasTrue
  <2>1. CASE hovered = None
    BY <2>1 DEF TooltipWasTrue
  <2>2. CASE hovered = SelfHovered
    BY <2>2 DEF TooltipWasTrue, DeviceTooltip, SelfHovered
  <2>3. ASSUME NEW k \in seen["peers"], NEW i \in DOMAIN k, hovered = PeerHovered(k, i)
        PROVE  TooltipWasTrue
    <3>1. /\ DeviceTooltip(hovered).device = k[i].device
          /\ DeviceTooltip(hovered).at = Spot(Len(k), i)
          /\ DeviceTooltip(hovered).pill = (IF k[i].connected THEN "online" ELSE "offline")
          /\ DeviceTooltip(hovered).figures = {k[i]}
      BY <2>3 DEF DeviceTooltip, PeerHovered
    <3>2. QED
      BY <3>1 DEF TooltipWasTrue
  <2>4. QED
    BY <1>1, <2>1, <2>2, <2>3 DEF PageInv, HoverWasTrue
<1>2. QED
  BY <1>1, PageInvariant, PTL

--------------------------------------------------------------------------------
(* What a page shows is the answer for something the daemon has known: a list, *)
(* of what an answer lists.                                                    *)

LEMMA ShownAnswer ==
    ASSUME PageInv, NEW ep \in Endpoints, data[ep] # None
    PROVE  \E k \in seen[ep] : k \in Known[ep] /\ data[ep] = Answer(ep, k)
<1>1. PICK k \in seen[ep] : data[ep] = Answer(ep, k)
  BY DEF PageInv, ShownWasTrue
<1>2. k \in Known[ep]
  BY DEF PageInv, TypeOK
<1>3. QED
  BY <1>1, <1>2

LEMMA PeersAreListed ==
    ASSUME PageInv
    PROVE  /\ Len(Peers) \in Nat /\ DOMAIN Peers = 1..Len(Peers)
           /\ \A i \in DOMAIN Peers : Peers[i].connected \in BOOLEAN
<1>1. CASE data["peers"] = None
  BY <1>1 DEF Peers
<1>2. CASE data["peers"] # None
  <2>1. PICK k \in Known["peers"] : data["peers"] = Answer("peers", k)
    BY <1>2, ShownAnswer DEF Endpoints
  <2>2. Peers = k
    BY <1>2, <2>1 DEF Peers, Answer, PeersAnswer
  <2>3. IsList(k) /\ \A i \in DOMAIN k : k[i].connected \in BOOLEAN
    BY KnownAssumption
  <2>4. Len(k) \in Nat /\ DOMAIN k = 1..Len(k)
    BY <2>3 DEF IsList
  <2>5. QED
    BY <2>2, <2>3, <2>4
<1>3. QED
  BY <1>1, <1>2

--------------------------------------------------------------------------------
(* The graph.  Up to three circles stand in a column, more on an arc of 110    *)
(* degrees.                                                                    *)

LEMMA SpotCases ==
    ASSUME NEW n \in Nat, NEW i \in 1..n
    PROVE  /\ n > 3 => Spot(n, i) = [turn |-> 110 * (i - 1) - 55 * (n - 1), of |-> n - 1]
           /\ n =< 3 => \E y : Spot(n, i) = [x |-> 74, y |-> y]
<1>1. ASSUME n = 1 PROVE Spot(n, i) = [x |-> 74, y |-> <<50>>[i]]
  BY <1>1 DEF Spot, Column
<1>2. ASSUME n = 2 PROVE Spot(n, i) = [x |-> 74, y |-> <<28, 72>>[i]]
  BY <1>2 DEF Spot, Column
<1>3. ASSUME n = 3 PROVE Spot(n, i) = [x |-> 74, y |-> <<22, 50, 78>>[i]]
  BY <1>3 DEF Spot, Column
<1>4. ASSUME n > 3 PROVE Spot(n, i) = Arc(n, i)
  BY <1>4 DEF Spot
<1>5. n =< 3 => n \in {1, 2, 3}
  OBVIOUS
<1>6. n \in {1, 2, 3} => \E y : Spot(n, i) = [x |-> 74, y |-> y]
  BY <1>1, <1>2, <1>3, Zenon
<1>7. QED
  BY <1>4, <1>5, <1>6 DEF Arc

LEMMA SpotsDiffer ==
    ASSUME NEW n \in Nat, NEW i \in 1..n, NEW j \in 1..n, i # j
    PROVE  Spot(n, i) # Spot(n, j)
<1>1. CASE n > 3
  <2>1. Spot(n, i).turn = 110 * (i - 1) - 55 * (n - 1)
    BY <1>1, SpotCases
  <2>2. Spot(n, j).turn = 110 * (j - 1) - 55 * (n - 1)
    BY <1>1, SpotCases
  <2>3. QED
    BY <2>1, <2>2
<1>2. CASE n = 1
  BY <1>2
<1>3. CASE n = 2
  <2>1. Spot(2, 1).y = 28 /\ Spot(2, 2).y = 72
    BY DEF Spot, Column
  <2>2. QED
    BY <1>3, <2>1
<1>4. CASE n = 3
  <2>1. Spot(3, 1).y = 22 /\ Spot(3, 2).y = 50 /\ Spot(3, 3).y = 78
    BY DEF Spot, Column
  <2>2. QED
    BY <1>4, <2>1
<1>5. QED
  BY <1>1, <1>2, <1>3, <1>4

LEMMA SpotsRight ==
    ASSUME NEW n \in Nat, NEW i \in 1..n
    PROVE  RightOfHost(Spot(n, i))
<1>1. CASE n > 3
  <2>1. Spot(n, i) = [turn |-> 110 * (i - 1) - 55 * (n - 1), of |-> n - 1]
    BY <1>1, SpotCases
  <2>2. "x" \notin DOMAIN Spot(n, i)
    BY <2>1
  <2>3. -90 * (n - 1) < 110 * (i - 1) - 55 * (n - 1)
    BY <1>1
  <2>4. 110 * (i - 1) - 55 * (n - 1) < 90 * (n - 1)
    BY <1>1
  <2>5. QED
    BY <2>1, <2>2, <2>3, <2>4 DEF RightOfHost
<1>2. CASE n =< 3
  <2>1. PICK y : Spot(n, i) = [x |-> 74, y |-> y]
    BY <1>2, SpotCases
  <2>2. "x" \in DOMAIN Spot(n, i) /\ Spot(n, i).x = 74
    BY <2>1
  <2>3. QED
    BY <2>2 DEF RightOfHost, Host
<1>3. QED
  BY <1>1, <1>2

(* CirclesAlwaysApart: for any number of peers and whatever came of them, no   *)
(* circle is put where another or the host is, edges end in their circles, and *)
(* the header's numbers are those of the drawing (pages/Topology.jsx).         *)
THEOREM CirclesAlwaysApart == Spec => []CirclesApart
<1>1. ASSUME PageInv PROVE CirclesApart
  <2> DEFINE n == Len(Peers)
             g == TopologyGraph(Peers)
  <2>1. /\ n \in Nat /\ DOMAIN Peers = 1..n
        /\ \A i \in 1..n : Peers[i].connected \in BOOLEAN
    BY <1>1, PeersAreListed
  <2>2. /\ g.count = n + 1 /\ g.offline = Cardinality(Offline(Peers))
        /\ g.empty = (n = 0)
        /\ g.circles = [i \in 1..n |->
              DeviceCircle(Peers[i].device, FALSE, Peers[i].connected, Spot(n, i))]
        /\ g.edges = [i \in 1..n |-> [to |-> Spot(n, i), lit |-> Peers[i].connected]]
    BY <2>1 DEF TopologyGraph
  <2> HIDE DEF g, n
  <2>3. \A i \in 1..n :
           /\ g.circles[i].at = Spot(n, i)
           /\ g.circles[i].dimmed = ~Peers[i].connected
           /\ g.circles[i].dot = IF Peers[i].connected THEN "online" ELSE "offline"
           /\ g.edges[i].to = Spot(n, i)
           /\ g.edges[i].lit = Peers[i].connected
    BY <2>2 DEF DeviceCircle
  <2>4. DOMAIN g.circles = 1..n /\ Len(g.circles) = n
    BY <2>1, <2>2
  <2>5. g.empty <=> g.circles = <<>>
    <3>1. CASE n = 0
      <4>1. \A i \in 1..n : FALSE
        BY <3>1
      <4>2. g.circles \in [1..n -> {}] /\ Len(g.circles) = 0
        BY <2>2, <2>4, <3>1, <4>1
      <4>3. g.circles \in Seq({})
        BY <2>1, <4>2
      <4>4. g.circles = <<>>
        BY <4>2, <4>3
      <4>5. QED
        BY <2>2, <3>1, <4>4
    <3>2. CASE n # 0
      <4>1. ~g.empty /\ Len(g.circles) # 0
        BY <2>2, <2>4, <3>2
      <4>2. QED
        BY <4>1
    <3>3. QED
      BY <3>1, <3>2
  <2>6. Offline(Peers) = {i \in DOMAIN g.circles : g.circles[i].dot = "offline"}
    BY <2>1, <2>3, <2>4 DEF Offline
  <2>7. \A i, j \in DOMAIN g.circles : i # j => g.circles[i].at # g.circles[j].at
    BY <2>1, <2>3, <2>4, SpotsDiffer
  <2>8. \A i \in DOMAIN g.circles : RightOfHost(g.circles[i].at)
    BY <2>1, <2>3, <2>4, SpotsRight
  <2>9. \A i \in DOMAIN g.circles : g.edges[i].lit <=> ~g.circles[i].dimmed
    BY <2>1, <2>3, <2>4
  <2>10. g.count = 1 + Len(g.circles)
    BY <2>1, <2>2, <2>4
  <2>11. \A i \in DOMAIN g.circles :
            /\ RightOfHost(g.circles[i].at)
            /\ g.edges[i].to = g.circles[i].at
            /\ g.edges[i].lit <=> ~g.circles[i].dimmed
    BY <2>3, <2>4, <2>8, <2>9
  <2>12. g.offline = Cardinality({i \in DOMAIN g.circles : g.circles[i].dot = "offline"})
    BY <2>2, <2>6
  <2>13. QED
    BY <2>5, <2>7, <2>10, <2>11, <2>12, Zenon DEF CirclesApart, g
<1>2. QED
  BY <1>1, PageInvariant, PTL

--------------------------------------------------------------------------------
(* Sorting.  Every item has a place of its own, so a sorted list rearranges    *)
(* the items, the largest key first.                                           *)

(* at tells where in the unsorted list each item of the sorted one stands.     *)
Rearranges(sorted, list, keys, at) ==
    /\ at \in [1..Cardinality(DOMAIN list) -> DOMAIN list]
    /\ \A p, q \in DOMAIN at : at[p] = at[q] => p = q
    /\ \A i \in DOMAIN list : \E p \in DOMAIN at : at[p] = i
    /\ sorted = [p \in DOMAIN at |-> list[at[p]]]
    /\ \A p, q \in DOMAIN at : p < q => keys[at[p]] >= keys[at[q]]

LEMMA PlaceOfType ==
    ASSUME NEW D \in SUBSET Nat, IsFiniteSet(D), NEW keys \in [D -> Int], NEW i \in D
    PROVE  /\ IsFiniteSet({j \in D : Before(keys, j, i)})
           /\ PlaceOf(keys, i) \in 1..Cardinality(D)
<1> DEFINE before == {j \in D : Before(keys, j, i)}
<1>1. ~Before(keys, i, i)
  <2>1. keys[i] \in Int /\ i \in Nat
    OBVIOUS
  <2>2. QED
    BY <2>1 DEF Before
<1>2. before \subseteq D \ {i}
  BY <1>1
<1>3. /\ IsFiniteSet(D \ {i}) /\ Cardinality(D \ {i}) = Cardinality(D) - 1
      /\ Cardinality(D) \in Nat
  BY FS_RemoveElement, FS_CardinalityType
<1>4. PlaceOf(keys, i) = 1 + Cardinality(before)
  BY DEF PlaceOf
<1>5. IsFiniteSet(before) /\ Cardinality(before) =< Cardinality(D) - 1
  BY <1>2, <1>3, FS_Subset
<1> HIDE DEF before
<1>6. Cardinality(before) \in Nat
  BY <1>5, FS_CardinalityType
<1>7. PlaceOf(keys, i) \in 1..Cardinality(D)
  BY <1>3, <1>4, <1>5, <1>6
<1>8. QED
  BY <1>5, <1>7 DEF before

LEMMA PlacesGrow ==
    ASSUME NEW D \in SUBSET Nat, IsFiniteSet(D), NEW keys \in [D -> Int],
           NEW i \in D, NEW j \in D, Before(keys, i, j)
    PROVE  PlaceOf(keys, i) < PlaceOf(keys, j)
<1> DEFINE lower  == {h \in D : Before(keys, h, i)}
           higher == {h \in D : Before(keys, h, j)}
<1>1. IsFiniteSet(lower) /\ IsFiniteSet(higher)
  BY PlaceOfType
<1>2. \A h \in D : keys[h] \in Int /\ h \in Nat
  OBVIOUS
<1>3. ~Before(keys, i, i)
  BY <1>2 DEF Before
<1>4. \A h \in D : Before(keys, h, i) => Before(keys, h, j)
  BY <1>2 DEF Before
<1>5. lower \cup {i} \subseteq higher /\ i \notin lower
  BY <1>3, <1>4
<1>6. /\ PlaceOf(keys, i) = 1 + Cardinality(lower)
      /\ PlaceOf(keys, j) = 1 + Cardinality(higher)
  BY DEF PlaceOf
<1> HIDE DEF lower, higher
<1>7. Cardinality(lower \cup {i}) = Cardinality(lower) + 1
  BY <1>1, <1>5, FS_AddElement
<1>8. Cardinality(lower \cup {i}) =< Cardinality(higher)
  BY <1>1, <1>5, FS_Subset
<1>9. Cardinality(lower) \in Nat /\ Cardinality(higher) \in Nat
  BY <1>1, FS_CardinalityType
<1>10. QED
  BY <1>6, <1>7, <1>8, <1>9

(* SortedRearranges: whatever the keys, and with gaps in the list or without,  *)
(* sorting returns the items, each once, the largest key first (the two sorts  *)
(* of api/server.py).                                                          *)
THEOREM SortedRearranges ==
    ASSUME NEW D \in SUBSET Nat, IsFiniteSet(D), NEW keys \in [D -> Int],
           NEW list, DOMAIN list = D
    PROVE  \E at : Rearranges(Sorted(list, keys), list, keys, at)
<1> DEFINE n     == Cardinality(D)
           place == [i \in D |-> PlaceOf(keys, i)]
           at    == [p \in 1..n |-> CHOOSE i \in D : place[i] = p]
<1>1. n \in Nat
  BY FS_CardinalityType
<1>2. \A i \in D : i \in Nat /\ keys[i] \in Int
  OBVIOUS
<1>3. /\ place \in [D -> 1..n]
      /\ \A i \in D : place[i] = PlaceOf(keys, i)
      /\ \A i, j \in D : Before(keys, i, j) => place[i] < place[j]
  BY PlaceOfType, PlacesGrow
<1>4. at = [p \in 1..n |-> CHOOSE i \in D : PlaceOf(keys, i) = p]
  BY <1>3
<1> HIDE DEF place
<1>5. \A i, j \in D : place[i] = place[j] => i = j
  <2> SUFFICES ASSUME NEW i \in D, NEW j \in D, place[i] = place[j] PROVE i = j
    OBVIOUS
  <2>1. ~Before(keys, i, j) /\ ~Before(keys, j, i)
    <3>1. place[i] \in Nat /\ place[j] \in Nat
      BY <1>1, <1>3
    <3>2. QED
      BY <1>3, <3>1
  <2>2. QED
    BY <1>2, <2>1 DEF Before
<1>6. place \in Injection(D, 1..n)
  BY <1>3, <1>5 DEF Injection, IsInjective
<1>7. IsFiniteSet(1..n) /\ Cardinality(1..n) = n
  BY <1>1, FS_Interval
<1>8. place \in Surjection(D, 1..n)
  BY <1>6, <1>7, FS_Injection
<1>9. \A p \in 1..n : \E i \in D : place[i] = p
  BY <1>8 DEF Surjection
<1>10. \A p \in 1..n : at[p] \in D /\ place[at[p]] = p
  BY <1>9
<1>11. at \in [1..n -> D] /\ DOMAIN at = 1..n
  BY <1>10
<1>12. Sorted(list, keys) = [p \in DOMAIN at |-> list[at[p]]]
  <2>1. Sorted(list, keys)
          = [p \in 1..n |-> list[CHOOSE i \in D : PlaceOf(keys, i) = p]]
    BY DEF Sorted
  <2>2. QED
    BY <1>4, <1>11, <2>1
<1> HIDE DEF at
<1>13. \A p, q \in 1..n : at[p] = at[q] => p = q
  BY <1>10
<1>14. \A i \in D : \E p \in 1..n : at[p] = i
  <2> TAKE i \in D
  <2>1. place[i] \in 1..n
    BY <1>3
  <2>2. at[place[i]] = i
    BY <1>5, <1>10, <2>1
  <2>3. QED
    BY <2>1, <2>2
<1>15. ASSUME NEW p \in 1..n, NEW q \in 1..n, p < q PROVE keys[at[p]] >= keys[at[q]]
  <2>1. at[p] \in D /\ at[q] \in D
    BY <1>10
  <2>2. keys[at[p]] \in Int /\ keys[at[q]] \in Int
    BY <1>2, <2>1
  <2>3. ~(keys[at[q]] > keys[at[p]])
    <3>1. ASSUME keys[at[q]] > keys[at[p]] PROVE FALSE
      <4>1. Before(keys, at[q], at[p])
        BY <3>1 DEF Before
      <4>2. place[at[q]] < place[at[p]]
        BY <1>3, <2>1, <4>1
      <4>3. q < p
        BY <1>10, <4>2
      <4>4. p \in Nat /\ q \in Nat
        BY <1>1
      <4>5. QED
        BY <1>15, <4>3, <4>4
    <3>2. QED
      BY <3>1
  <2>4. QED
    BY <2>2, <2>3
<1>16. Rearranges(Sorted(list, keys), list, keys, at)
  BY <1>11, <1>12, <1>13, <1>14, <1>15 DEF Rearranges
<1>17. QED
  BY <1>16

--------------------------------------------------------------------------------
(* The configurations. *)

LEMMA SizeUpTo ==
    ASSUME NEW n \in Nat
    PROVE  IsFiniteSet(1..n) /\ Cardinality(1..n) = n
<1>1. IsFiniteSet(1..n) /\ Cardinality(1..n) = IF 1 > n THEN 0 ELSE n - 1 + 1
  BY FS_Interval
<1>2. QED
  BY <1>1

LEMMA ListPositions ==
    ASSUME NEW k, IsList(k)
    PROVE  /\ Len(k) \in Nat /\ DOMAIN k = 1..Len(k)
           /\ DOMAIN k \in SUBSET Nat /\ IsFiniteSet(DOMAIN k)
           /\ Cardinality(DOMAIN k) = Len(k)
<1>1. Len(k) \in Nat /\ DOMAIN k = 1..Len(k)
  BY DEF IsList
<1>2. IsFiniteSet(1..Len(k)) /\ Cardinality(1..Len(k)) = Len(k)
  BY <1>1, SizeUpTo
<1>3. QED
  BY <1>1, <1>2

(* BestAlwaysFirst: for any number of configurations and any scores, the star  *)
(* and the breakdown go to the best of all that the daemon has (_handle_       *)
(* inference, pages/Inference.jsx).                                            *)
THEOREM BestAlwaysFirst == Spec => []BestFirst
<1>1. ASSUME PageInv PROVE BestFirst
  <2> SUFFICES ASSUME data["inference"] # None
               PROVE  \E k \in seen["inference"] :
            /\ {Configs[i] : i \in DOMAIN Configs} = {k[i] : i \in DOMAIN k}
            /\ Len(Configs) = Len(k)
            /\ \A i \in DOMAIN Configs : ConfigsTable(Configs).rows[i].star =>
                  \A j \in DOMAIN k : Score(Configs[i]) >= Score(k[j])
            /\ \A i \in DOMAIN ConfigDetails(Configs), j \in DOMAIN Configs :
                  j \notin DOMAIN ConfigDetails(Configs) =>
                      Score(ConfigDetails(Configs)[i].config) >= Score(Configs[j])
    BY DEF BestFirst
  <2>1. PICK k \in seen["inference"] :
           k \in Known["inference"] /\ data["inference"] = Answer("inference", k)
    BY <1>1, ShownAnswer DEF Endpoints
  <2>2. Configs = Sorted(k, Scores(k))
    BY <2>1 DEF Configs, Answer, InferenceAnswer
  <2>3. IsList(k) /\ \A i \in DOMAIN k : Score(k[i]) \in Int
    BY <2>1, KnownAssumption DEF Score
  <2>4. /\ Len(k) \in Nat /\ DOMAIN k = 1..Len(k)
        /\ DOMAIN k \in SUBSET Nat /\ IsFiniteSet(DOMAIN k)
        /\ Cardinality(DOMAIN k) = Len(k)
    BY <2>3, ListPositions
  <2>5. /\ Scores(k) \in [DOMAIN k -> Int]
        /\ \A i \in DOMAIN k : Scores(k)[i] = Score(k[i])
    BY <2>3 DEF Scores
  <2>6. PICK at : Rearranges(Configs, k, Scores(k), at)
    BY <2>2, <2>4, <2>5, SortedRearranges
  <2> DEFINE n == Len(k)
  <2>7. /\ at \in [1..n -> 1..n] /\ DOMAIN at = 1..n
        /\ Configs = [p \in 1..n |-> k[at[p]]]
        /\ \A i \in 1..n : \E p \in 1..n : at[p] = i
        /\ \A p, q \in 1..n : p < q => Score(k[at[p]]) >= Score(k[at[q]])
    <3>1. /\ at \in [1..n -> 1..n] /\ DOMAIN at = 1..n
          /\ Configs = [p \in DOMAIN at |-> k[at[p]]]
          /\ \A i \in DOMAIN k : \E p \in DOMAIN at : at[p] = i
          /\ \A p, q \in DOMAIN at : p < q => Scores(k)[at[p]] >= Scores(k)[at[q]]
      BY <2>4, <2>6 DEF Rearranges
    <3>2. \A p \in 1..n : at[p] \in DOMAIN k
      BY <2>4, <3>1
    <3>3. \A p \in 1..n : Scores(k)[at[p]] = Score(k[at[p]])
      BY <2>5, <3>2
    <3>4. ASSUME NEW p \in 1..n, NEW q \in 1..n, p < q
          PROVE  Score(k[at[p]]) >= Score(k[at[q]])
      <4>1. Scores(k)[at[p]] >= Scores(k)[at[q]]
        BY <3>1, <3>4
      <4>2. Scores(k)[at[p]] = Score(k[at[p]]) /\ Scores(k)[at[q]] = Score(k[at[q]])
        BY <3>3
      <4>3. QED
        BY <4>1, <4>2
    <3>5. QED
      BY <2>4, <3>1, <3>4
  <2> HIDE DEF n
  <2>8. n \in Nat /\ \A p \in 1..n : Score(k[at[p]]) \in Int
    BY <2>3, <2>4, <2>7 DEF n
  <2>9. DOMAIN Configs = 1..n /\ Len(Configs) = n /\ \A p \in 1..n : Configs[p] = k[at[p]]
    BY <2>7, <2>8
  <2>10. {Configs[i] : i \in DOMAIN Configs} = {k[i] : i \in DOMAIN k}
    <3>1. ASSUME NEW i \in DOMAIN Configs PROVE \E j \in DOMAIN k : Configs[i] = k[j]
      BY <2>4, <2>7, <2>9, <3>1 DEF n
    <3>2. ASSUME NEW j \in DOMAIN k PROVE \E i \in DOMAIN Configs : Configs[i] = k[j]
      <4>1. PICK p \in 1..n : at[p] = j
        BY <2>4, <2>7, <3>2 DEF n
      <4>2. QED
        BY <2>9, <4>1
    <3>3. QED
      BY <3>1, <3>2
  <2>11. \A p, q \in 1..n : p =< q => Score(Configs[p]) >= Score(Configs[q])
    <3> SUFFICES ASSUME NEW p \in 1..n, NEW q \in 1..n, p =< q
                 PROVE  Score(Configs[p]) >= Score(Configs[q])
      OBVIOUS
    <3>1. CASE p = q
      BY <2>8, <2>9, <3>1
    <3>2. CASE p < q
      BY <2>7, <2>9, <3>2
    <3>3. QED
      BY <2>8, <3>1, <3>2
  <2>12. ASSUME NEW i \in DOMAIN Configs, ConfigsTable(Configs).rows[i].star,
                NEW j \in DOMAIN k
         PROVE  Score(Configs[i]) >= Score(k[j])
    <3>1. i = 1
      BY <2>12 DEF ConfigsTable
    <3>2. PICK p \in 1..n : at[p] = j
      BY <2>4, <2>7 DEF n
    <3>3. 1 =< p /\ 1 \in 1..n
      BY <2>8
    <3>4. Score(Configs[1]) >= Score(Configs[p])
      BY <2>11, <3>3
    <3>5. QED
      BY <2>9, <3>1, <3>2, <3>4
  <2>13. ASSUME NEW i \in DOMAIN ConfigDetails(Configs), NEW j \in DOMAIN Configs,
                j \notin DOMAIN ConfigDetails(Configs)
         PROVE  Score(ConfigDetails(Configs)[i].config) >= Score(Configs[j])
    <3> DEFINE m == IF Len(Configs) < 3 THEN Len(Configs) ELSE 3
    <3>1. DOMAIN ConfigDetails(Configs) = 1..m /\ ConfigDetails(Configs)[i].config = Configs[i]
      BY <2>13 DEF ConfigDetails
    <3>2. m \in 0..n
      BY <2>8, <2>9
    <3> HIDE DEF m
    <3>3. i \in 1..n /\ j \in 1..n /\ i =< j
      BY <2>8, <2>9, <2>13, <3>1, <3>2
    <3>4. QED
      BY <2>11, <3>1, <3>3
  <2>14. QED
    BY <2>1, <2>9, <2>10, <2>12, <2>13 DEF n
<1>2. QED
  BY <1>1, PageInvariant, PTL

--------------------------------------------------------------------------------
(* The tasks. *)

(* The items of a list that are all different are as many as the list is long. *)
LEMMA SizeOfItems ==
    ASSUME NEW m \in Nat, NEW item, item = [p \in 1..m |-> item[p]],
           \A p, q \in 1..m : item[p] = item[q] => p = q
    PROVE  Cardinality({item[p] : p \in 1..m}) = m
<1> DEFINE S == {item[p] : p \in 1..m}
<1>1. item \in [1..m -> S] /\ \A x \in S : \E p \in 1..m : item[p] = x
  OBVIOUS
<1> HIDE DEF S
<1>2. item \in Injection(1..m, S) /\ item \in Surjection(1..m, S)
  BY <1>1 DEF Injection, IsInjective, Surjection
<1>3. IsFiniteSet(1..m) /\ Cardinality(1..m) = m
  BY SizeUpTo
<1>4. Cardinality(S) = Cardinality(1..m)
  BY <1>2, <1>3, FS_Surjection
<1>5. QED
  BY <1>3, <1>4 DEF S

(* What _handle_tasks answers: the position in the table of each task shown,   *)
(* of those that have a receipt.                                               *)
LastAt(k, i) == k[i].receipts[Len(k[i].receipts)].at

ShownFrom(answer, k, at, m) ==
    /\ m = IF Cardinality(Receipted(k)) < TaskLimit THEN Cardinality(Receipted(k))
           ELSE TaskLimit
    /\ DOMAIN answer = 1..m /\ Len(answer) = m
    /\ at \in [1..m -> Receipted(k)]
    /\ \A p, q \in 1..m : at[p] = at[q] => p = q
    /\ \A p \in 1..m : answer[p].task = k[at[p]].task
    /\ \A p \in 1..m, i \in Receipted(k) :
          (\A q \in 1..m : at[q] # i) => LastAt(k, at[p]) >= LastAt(k, i)
    /\ m = Cardinality(Receipted(k)) =>
          \A i \in Receipted(k) : \E p \in 1..m : at[p] = i

LEMMA TasksShown ==
    ASSUME NEW k \in Known["tasks"]
    PROVE  \E at, m : m \in Nat /\ ShownFrom(TasksAnswer(k), k, at, m)
<1> DEFINE D    == Receipted(k)
           all  == TaskList(k)
           keys == CompletedAt(all)
           n    == Cardinality(D)
           s    == Sorted(all, keys)
           m    == IF n < TaskLimit THEN n ELSE TaskLimit
<1>1. /\ IsList(k)
      /\ \A i \in DOMAIN k : /\ IsList(k[i].receipts)
                             /\ \A r \in DOMAIN k[i].receipts : k[i].receipts[r].at \in Int
  BY KnownAssumption
<1>2. /\ D \subseteq DOMAIN k /\ DOMAIN k \in SUBSET Nat /\ IsFiniteSet(DOMAIN k)
      /\ \A i \in D : k[i].receipts # <<>>
  BY <1>1, ListPositions DEF Receipted
<1>3. IsFiniteSet(D) /\ D \in SUBSET Nat /\ n \in Nat
  BY <1>2, FS_Subset, FS_CardinalityType
<1>4. DOMAIN all = D /\ \A i \in D : all[i].task = k[i].task /\ all[i].at = LastAt(k, i)
  BY DEF TaskList, LastReceipt, Last, LastAt
<1>5. \A i \in D : LastAt(k, i) \in Int
  <2> TAKE i \in D
  <2>1. IsList(k[i].receipts) /\ k[i].receipts # <<>>
    BY <1>1, <1>2
  <2>2. Len(k[i].receipts) \in DOMAIN k[i].receipts
    BY <2>1 DEF IsList
  <2>3. QED
    BY <1>1, <1>2, <2>2 DEF LastAt
<1>6. keys \in [D -> Int] /\ \A i \in D : keys[i] = LastAt(k, i)
  BY <1>4, <1>5 DEF CompletedAt
<1> HIDE DEF D, all, keys
<1>7. PICK at : Rearranges(s, all, keys, at)
  BY <1>3, <1>4, <1>6, SortedRearranges
<1>8. /\ at \in [1..n -> D] /\ DOMAIN at = 1..n
      /\ s = [p \in 1..n |-> all[at[p]]]
      /\ \A p, q \in 1..n : at[p] = at[q] => p = q
      /\ \A i \in D : \E p \in 1..n : at[p] = i
      /\ \A p, q \in 1..n : p < q => keys[at[p]] >= keys[at[q]]
  BY <1>4, <1>7 DEF Rearranges
<1> HIDE DEF n, s
<1>9. m \in Nat /\ m =< n /\ TaskLimit \in Nat
  BY <1>3, ApiAssumption
<1>10. /\ TasksAnswer(k) = FirstOf(TaskLimit, s)
       /\ DOMAIN s = 1..n /\ Len(s) = n
  BY <1>3, <1>8 DEF TasksAnswer, s, keys, all
<1>11. TasksAnswer(k) = SubSeq(s, 1, m)
  BY <1>10 DEF FirstOf
<1> HIDE DEF m
<1>12. s \in Seq({s[p] : p \in 1..n})
  BY <1>3, <1>8
<1>13. /\ Len(SubSeq(s, 1, m)) = m /\ DOMAIN SubSeq(s, 1, m) = 1..m
       /\ \A p \in 1..m : SubSeq(s, 1, m)[p] = s[p]
  BY <1>3, <1>9, <1>10, <1>12
<1> DEFINE front == [p \in 1..m |-> at[p]]
<1>14. \A p \in 1..m : p \in 1..n
  BY <1>3, <1>9
<1>15. /\ front \in [1..m -> D]
       /\ \A p \in 1..m : front[p] = at[p]
       /\ \A p, q \in 1..m : front[p] = front[q] => p = q
  BY <1>8, <1>14
<1> HIDE DEF front
<1>16. \A p \in 1..m : TasksAnswer(k)[p].task = k[front[p]].task
  <2> TAKE p \in 1..m
  <2>1. p \in 1..n /\ at[p] \in D /\ front[p] = at[p]
    BY <1>8, <1>14, <1>15
  <2>2. TasksAnswer(k)[p] = all[at[p]]
    BY <1>8, <1>11, <1>13, <2>1
  <2>3. QED
    BY <1>4, <2>1, <2>2
<1>17. ASSUME NEW p \in 1..m, NEW i \in D, \A q \in 1..m : front[q] # i
       PROVE  LastAt(k, front[p]) >= LastAt(k, i)
  <2>1. PICK q \in 1..n : at[q] = i
    BY <1>8
  <2>2. p \in 1..n /\ p < q
    BY <1>3, <1>9, <1>14, <1>15, <1>17, <2>1
  <2>3. keys[at[p]] >= keys[at[q]]
    BY <1>8, <2>2
  <2>4. keys[at[p]] = LastAt(k, at[p]) /\ keys[at[q]] = LastAt(k, at[q])
    BY <1>6, <1>8, <2>2
  <2>5. QED
    BY <1>15, <2>1, <2>3, <2>4
<1>18. ASSUME m = n, NEW i \in D PROVE \E p \in 1..m : front[p] = i
  BY <1>8, <1>15, <1>18
<1>19. ShownFrom(TasksAnswer(k), k, front, m)
  BY <1>11, <1>13, <1>15, <1>16, <1>17, <1>18 DEF ShownFrom, D, n, m
<1>20. QED
  BY <1>9, <1>19

(* TasksAlwaysLatest: for any number of tasks and receipts, the page lists the *)
(* latest of the tasks that have a receipt, each once, and no fewer than fit   *)
(* (_handle_tasks, pages/Inference.jsx).                                       *)
THEOREM TasksAlwaysLatest == Spec => []LatestTasks
<1>1. ASSUME PageInv, data["tasks"] # None,
             NEW k \in seen["tasks"], k \in Known["tasks"], Tasks = TasksAnswer(k)
      PROVE  LET shown == RecentTasks(Tasks)
                 names == {shown.rows[i].task : i \in DOMAIN shown.rows}
                 all == {i \in DOMAIN k : k[i].receipts # <<>>}
                 At(i) == k[i].receipts[Len(k[i].receipts)].at
                 listed == {i \in all : k[i].task \in names}
             IN  /\ shown.header = Len(shown.rows)
                 /\ Cardinality(names) = Len(shown.rows)
                 /\ Cardinality(listed) = Len(shown.rows)
                 /\ listed # all => Len(shown.rows) = TaskLimit
                 /\ \A i \in listed, j \in all \ listed : At(i) >= At(j)
  <2> DEFINE D      == Receipted(k)
             rows   == RecentTasks(Tasks).rows
             names  == {rows[i].task : i \in DOMAIN rows}
             listed == {i \in D : k[i].task \in names}
  <2>1. PICK at, m : m \in Nat /\ ShownFrom(Tasks, k, at, m)
    BY <1>1, TasksShown
  <2>2. /\ DOMAIN Tasks = 1..m /\ Len(Tasks) = m
        /\ at \in [1..m -> D]
        /\ \A p, q \in 1..m : at[p] = at[q] => p = q
        /\ \A p \in 1..m : Tasks[p].task = k[at[p]].task
    BY <2>1 DEF ShownFrom
  <2>3. /\ \A p \in 1..m, i \in D :
              (\A q \in 1..m : at[q] # i) => LastAt(k, at[p]) >= LastAt(k, i)
        /\ m = Cardinality(D) => \A i \in D : \E p \in 1..m : at[p] = i
        /\ m # Cardinality(D) => m = TaskLimit
        /\ m =< TaskLimit
    <3>1. IsFiniteSet(D)
      BY <1>1, KnownAssumption, ListPositions, FS_Subset DEF Receipted
    <3>2. Cardinality(D) \in Nat /\ TaskLimit \in Nat
      BY <3>1, FS_CardinalityType, ApiAssumption
    <3>3. QED
      BY <2>1, <3>2 DEF ShownFrom
  <2>4. /\ DOMAIN rows = 1..m /\ Len(rows) = m
        /\ \A p \in 1..m : rows[p].task = k[at[p]].task
    BY <2>1, <2>2 DEF RecentTasks
  <2>5. RecentTasks(Tasks).header = Len(rows)
    <3>1. m =< ReceiptLimit
      BY <2>1, <2>3, LimitsAssumption, ApiAssumption, ReceiptAssumption
    <3>2. RecentTasks(Tasks).header = IF m < ReceiptLimit THEN m ELSE ReceiptLimit
      BY <2>2 DEF RecentTasks
    <3>3. QED
      BY <2>1, <2>4, <3>1, <3>2, ReceiptAssumption
  <2> HIDE DEF rows
  <2>6. /\ D \subseteq DOMAIN k
        /\ \A i, j \in DOMAIN k : k[i].task = k[j].task => i = j
    BY <1>1, KnownAssumption DEF Receipted
  <2>7. names = {k[at[p]].task : p \in 1..m}
    BY <2>4
  <2> HIDE DEF names
  <2>8. listed = {at[p] : p \in 1..m}
    <3>1. ASSUME NEW i \in listed PROVE \E p \in 1..m : i = at[p]
      <4>1. PICK p \in 1..m : k[i].task = k[at[p]].task
        BY <2>7, <3>1
      <4>2. i \in DOMAIN k /\ at[p] \in DOMAIN k
        BY <2>2, <2>6, <3>1
      <4>3. QED
        BY <2>6, <4>1, <4>2
    <3>2. ASSUME NEW p \in 1..m PROVE at[p] \in listed
      BY <2>2, <2>7, <3>2
    <3>3. QED
      BY <3>1, <3>2
  <2> HIDE DEF D, listed
  <2>9. Cardinality(names) = m
    <3> DEFINE task == [p \in 1..m |-> k[at[p]].task]
    <3>1. \A p \in 1..m : task[p] = k[at[p]].task /\ at[p] \in DOMAIN k
      BY <2>2, <2>6
    <3>2. \A p, q \in 1..m : task[p] = task[q] => p = q
      BY <2>2, <2>6, <3>1
    <3>3. task = [p \in 1..m |-> task[p]] /\ names = {task[p] : p \in 1..m}
      BY <2>7
    <3> HIDE DEF task
    <3>4. QED
      BY <2>1, <3>2, <3>3, SizeOfItems
  <2>10. Cardinality(listed) = m
    BY <2>1, <2>2, <2>8, SizeOfItems
  <2>11. listed # D => m = TaskLimit
    BY <2>2, <2>3, <2>8
  <2>12. \A i \in listed, j \in D \ listed : LastAt(k, i) >= LastAt(k, j)
    BY <2>3, <2>8
  <2>13. QED
    BY <2>4, <2>5, <2>9, <2>10, <2>11, <2>12 DEF D, listed, names, rows, Receipted, LastAt
<1>2. ASSUME PageInv PROVE LatestTasks
  <2>1. ASSUME data["tasks"] # None
        PROVE  \E k \in seen["tasks"] : k \in Known["tasks"] /\ Tasks = TasksAnswer(k)
    BY <1>2, <2>1, ShownAnswer DEF Endpoints, Answer, Tasks
  <2>2. QED
    BY <1>1, <1>2, <2>1 DEF LatestTasks
<1>3. QED
  BY <1>2, PageInvariant, PTL
================================================================================
