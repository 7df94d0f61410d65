------------------------------- MODULE Dashboard --------------------------------
(* The polled pages of one browser tab: the useAPI hooks of the page that is   *)
(* mounted (Polling) and what it draws from their answers (TopologyView,       *)
(* InferenceView).  A page is mounted anew whenever the path changes.          *)
EXTENDS Polling, TopologyView, InferenceView, Pages

CONSTANT MaxMoves   \* bound: navigations

ASSUME MovesAssumption == MaxMoves \in Nat

(* The header's limit is that of the answer (both are 20). *)
ASSUME LimitsAssumption == TaskLimit =< ReceiptLimit

VARIABLES
    path,       \* location.pathname
    moves,      \* navigations so far
    hovered,    \* the hovered state of the graph, or None
    seen        \* history: what the daemon has known since the page was mounted

vars == <<nodeVars, data, calls, path, moves, hovered, seen>>

(* The endpoints a page polls, of those that are modelled. *)
PollsOn(p) ==
    CASE PageAt(p) = "Topology"  -> {"peers"}
      [] PageAt(p) = "Inference" -> {"inference", "tasks"}
      [] PageAt(p) = "Activity"  -> {}

Peers == IF data["peers"] = None THEN <<>> ELSE data["peers"]
Configs == IF data["inference"] = None THEN <<>> ELSE data["inference"].configurations
Tasks == IF data["tasks"] = None THEN <<>> ELSE data["tasks"]

--------------------------------------------------------------------------------
(* The mouse.  Leaving is ignored unless it is the hovered circle that is      *)
(* left; a circle that vanishes under the mouse is never left.                 *)

Hover(what) ==
    /\ PageAt(path) = "Topology"
    /\ hovered' = what
    /\ UNCHANGED <<nodeVars, data, calls, path, moves, seen>>

SelfHovered == [kind |-> "self", device |-> Self, at |-> Host]

PeerHovered(peers, i) ==
    [kind |-> "peer", device |-> peers[i].device, at |-> Spot(Len(peers), i),
     peer |-> peers[i]]

HoverSelf == Hover(SelfHovered)

(* A broken variant: without the position. *)
HoverPeerBare(i) ==
    /\ i \in DOMAIN Peers
    /\ Hover([kind |-> "peer", device |-> Peers[i].device, peer |-> Peers[i]])

HoverPeer(i) ==
    /\ i \in DOMAIN Peers
    /\ Hover(PeerHovered(Peers, i))

LeaveSelf ==
    /\ hovered # None
    /\ hovered.kind = "self"
    /\ Hover(None)

LeavePeer(i) ==
    /\ hovered # None
    /\ hovered.kind = "peer"
    /\ i \in DOMAIN Peers
    /\ hovered.device = Peers[i].device
    /\ Hover(None)

(* main's key is the path: the hooks' effects are cancelled, so that what they *)
(* still wait for is ignored, and the new page starts with empty state.        *)
(* Broken variants: effects go on, and the state of the page is kept.          *)
NotCancelled(old) == old
Cancelled(old) == [ep \in Endpoints |-> <<>>]

StateKept(old) == old
StateLost(old) == None

Navigate(p) ==
    /\ p # path
    /\ moves < MaxMoves
    /\ path' = p
    /\ moves' = moves + 1
    /\ data' = [ep \in Endpoints |-> None]
    /\ calls' = Cancelled(calls)
    /\ hovered' = StateLost(hovered)
    /\ seen' = [ep \in Endpoints |-> {known[ep]}]
    /\ UNCHANGED nodeVars

--------------------------------------------------------------------------------
Init ==
    /\ up = TRUE
    /\ known = AtBoot
    /\ changes = 0
    /\ crashes = 0
    /\ path \in Paths
    /\ moves = 0
    /\ data = [ep \in Endpoints |-> None]
    /\ calls = [ep \in Endpoints |-> <<>>]
    /\ hovered = None
    /\ seen = [ep \in Endpoints |-> {AtBoot[ep]}]

Learnt == seen' = [ep \in Endpoints |-> seen[ep] \cup {known'[ep]}]

pageVars == <<path, moves, hovered>>

Tick(ep) == ep \in PollsOn(path) /\ Fetch(ep) /\ UNCHANGED <<pageVars, seen>>

Answered(ep, i) == Served(ep, i) /\ UNCHANGED <<pageVars, seen>>

Settled(ep, i) == (Arrives(ep, i) \/ Fails(ep, i)) /\ UNCHANGED <<pageVars, seen>>

Daemon ==
    /\ Crash \/ Boot \/ \E ep \in Endpoints : Change(ep)
    /\ Learnt
    /\ UNCHANGED pageVars

User ==
    \/ \E p \in Paths : Navigate(p)
    \/ HoverSelf
    \/ LeaveSelf
    \/ \E i \in DOMAIN Peers : HoverPeer(i) \/ LeavePeer(i)

Next ==
    \/ \E ep \in Endpoints : Tick(ep)
    \/ \E ep \in Endpoints, i \in 1..MaxCalls : Answered(ep, i) \/ Settled(ep, i)
    \/ Daemon
    \/ User

Fairness ==
    /\ \A ep \in Endpoints : WF_vars(Tick(ep))
    /\ \A ep \in Endpoints, i \in 1..MaxCalls :
          WF_vars(Answered(ep, i)) /\ WF_vars(Settled(ep, i))

Spec == Init /\ [][Next]_vars /\ Fairness

--------------------------------------------------------------------------------
(* What may be hovered: a peer as some answer has it. *)
HoverOK(h) ==
    \/ h \in {None, SelfHovered}
    \/ \E k \in Known["peers"] : \E i \in DOMAIN k : h = PeerHovered(k, i)

(* TypeOK: the shape of the state. *)
OnEndpoints(f) == f = [ep \in Endpoints |-> f[ep]]

TypeOK ==
    /\ up \in BOOLEAN
    /\ OnEndpoints(known) /\ OnEndpoints(data) /\ OnEndpoints(calls) /\ OnEndpoints(seen)
    /\ \A ep \in Endpoints : known[ep] \in Known[ep]
    /\ changes \in 0..MaxChanges
    /\ crashes \in 0..MaxCrashes
    /\ \A ep \in Endpoints : data[ep] \in Bodies(ep) \cup {None}
    /\ \A ep \in Endpoints : calls[ep] \in Seq(Calls(ep)) /\ Len(calls[ep]) =< MaxCalls
    /\ path \in Paths
    /\ moves \in 0..MaxMoves
    /\ HoverOK(hovered)
    /\ \A ep \in Endpoints : seen[ep] \subseteq Known[ep]

(* ShownWasTrue: however answers overtake one another, are lost with the       *)
(* daemon or arrive after the user moved on, a page shows nothing but what the *)
(* daemon has known since the page was mounted, and nothing it does not poll.  *)
ShownWasTrue ==
    \A ep \in Endpoints : data[ep] # None =>
        /\ ep \in PollsOn(path)
        /\ \E k \in seen[ep] : data[ep] = Answer(ep, k)

(* TooltipWasTrue: the tooltip's figures, online pill and place belong to one  *)
(* device and to one answer, though peers were added, removed and moved since. *)
TooltipWasTrue ==
    hovered # None =>
        LET card == DeviceTooltip(hovered) IN
        \/ card.device = Self /\ card.at = Host /\ card.pill = "online"
        \/ \E k \in seen["peers"] : \E i \in DOMAIN k :
              /\ card.device = k[i].device
              /\ card.at = Spot(Len(k), i)
              /\ card.pill = (IF k[i].connected THEN "online" ELSE "offline")
              /\ card.figures = {k[i]}

(* CirclesApart: for any number of peers no two circles are drawn on the same  *)
(* place, each stands to the right of the host, every edge ends in its circle  *)
(* and looks like it, and the header counts what is drawn.                     *)
RightOfHost(at) ==
    IF "x" \in DOMAIN at THEN at.x > Host.x
    ELSE -90 * at.of < at.turn /\ at.turn < 90 * at.of

CirclesApart ==
    LET g == TopologyGraph(Peers) IN
    /\ \A i, j \in DOMAIN g.circles : i # j => g.circles[i].at # g.circles[j].at
    /\ \A i \in DOMAIN g.circles :
          /\ RightOfHost(g.circles[i].at)
          /\ g.edges[i].to = g.circles[i].at
          /\ g.edges[i].lit <=> ~g.circles[i].dimmed
    /\ g.count = 1 + Len(g.circles)
    /\ g.empty <=> g.circles = <<>>
    /\ g.offline = Cardinality({i \in DOMAIN g.circles : g.circles[i].dot = "offline"})

(* BestFirst: the starred configuration, and with it the breakdown titled "How *)
(* the scheduler picked", has the best score of all the daemon has, and what   *)
(* the breakdown leaves out is no better than what it shows.                   *)
BestFirst ==
    data["inference"] # None =>
        \E k \in seen["inference"] :
            /\ {Configs[i] : i \in DOMAIN Configs} = {k[i] : i \in DOMAIN k}
            /\ Len(Configs) = Len(k)
            /\ \A i \in DOMAIN Configs : ConfigsTable(Configs).rows[i].star =>
                  \A j \in DOMAIN k : Score(Configs[i]) >= Score(k[j])
            /\ \A i \in DOMAIN ConfigDetails(Configs), j \in DOMAIN Configs :
                  j \notin DOMAIN ConfigDetails(Configs) =>
                      Score(ConfigDetails(Configs)[i].config) >= Score(Configs[j])

(* LatestTasks: the tasks that are listed are the latest, by their last        *)
(* receipt, of all tasks that have one; none is left out while there is room;  *)
(* and the header's number is that of the rows.                                *)
LatestTasks ==
    data["tasks"] # None =>
        LET shown == RecentTasks(Tasks)
            names == {shown.rows[i].task : i \in DOMAIN shown.rows}
        IN  /\ shown.header = Len(shown.rows)
            /\ \E k \in seen["tasks"] :
                  LET all == {i \in DOMAIN k : k[i].receipts # <<>>}
                      At(i) == k[i].receipts[Len(k[i].receipts)].at
                      listed == {i \in all : k[i].task \in names}
                  IN  /\ Cardinality(names) = Len(shown.rows)
                      /\ Cardinality(listed) = Len(shown.rows)
                      /\ listed # all => Len(shown.rows) = TaskLimit
                      /\ \A i \in listed, j \in all \ listed : At(i) >= At(j)

(* PagesFollow: once the daemon stays up and knows nothing new, a page the     *)
(* user stays on shows what it knows, although answers that were under way     *)
(* may overtake one another.                                                   *)
PagesFollow ==
    \A ep \in Endpoints :
        <>[](up /\ ep \in PollsOn(path)) => <>[](data[ep] = Now(ep))
================================================================================
