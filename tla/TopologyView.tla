----------------------------- MODULE TopologyView ------------------------------
(* The graph of the Topology page (pages/Topology.jsx), its circles            *)
(* (components/DeviceCircle.jsx) and its tooltip (components/DeviceTooltip.jsx) *)
(* for the peers of the last answer.  Colours, icons and wording are left out. *)
EXTENDS Integers, Sequences, FiniteSets

Host == [x |-> 26, y |-> 50]

(* Where the i-th of n peers is drawn, in percent; on the arc, by its angle,   *)
(* turn / of degrees.                                                          *)
Column(ys, i) == [x |-> 74, y |-> ys[i]]
Arc(n, i) == [turn |-> 110 * (i - 1) - 55 * (n - 1), of |-> n - 1]

(* A broken variant: the straight line for two as well. *)
SpotStraight(n, i) ==
    CASE n \in {1, 2} -> Column(<<50, 50>>, i)
      [] n = 3        -> Column(<<22, 50, 78>>, i)
      [] n > 3        -> Arc(n, i)

Spot(n, i) ==
    CASE n = 1 -> Column(<<50>>, i)
      [] n = 2 -> Column(<<28, 72>>, i)
      [] n = 3 -> Column(<<22, 50, 78>>, i)
      [] n > 3 -> Arc(n, i)

(* A circle: the host's is larger and has a ring; an offline one is dimmed and *)
(* has a red dot.                                                              *)
DeviceCircle(device, isSelf, online, at) ==
    [device |-> device, at |-> at, ring |-> isSelf,
     dot |-> IF online THEN "online" ELSE "offline", dimmed |-> ~online]

(* The card of a hovered device; only a peer has a latency and a last contact, *)
(* which are those of the answer it was hovered under.                         *)
DeviceTooltip(hovered) ==
    [device |-> hovered.device, at |-> hovered.at,
     kind   |-> IF hovered.kind = "self" THEN "host device" ELSE "peer",
     pill   |-> IF hovered.kind = "self" \/ hovered.peer.connected
                THEN "online" ELSE "offline",
     figures |-> IF hovered.kind = "self" THEN {} ELSE {hovered.peer}]

Offline(peers) == {i \in DOMAIN peers : ~peers[i].connected}

(* The device the dashboard runs on, which is not among its peers. *)
Self == "this-device"

TopologyGraph(peers) ==
    LET n == Len(peers) IN
    [count   |-> n + 1,
     offline |-> Cardinality(Offline(peers)),
     host    |-> DeviceCircle(Self, TRUE, TRUE, Host),
     circles |-> [i \in DOMAIN peers |->
                     DeviceCircle(peers[i].device, FALSE, peers[i].connected, Spot(n, i))],
     edges   |-> [i \in DOMAIN peers |-> [to |-> Spot(n, i), lit |-> peers[i].connected]],
     labels  |-> [i \in DOMAIN peers |-> peers[i].latency],
     empty   |-> n = 0]
================================================================================
