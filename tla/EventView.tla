------------------------------- MODULE EventView -------------------------------
(* How the dashboard sorts and colours events (pages/Activity.jsx,             *)
(* components/EventCard.jsx).  A type is one of those the daemon emits; what   *)
(* startsWith and includes make of its letters is listed.                      *)
EXTENDS Naturals, Sequences, FiniteSets

Types == {"node_start", "agent_register", "invoke", "handoff_sent",
          "handoff_recv", "peer_connect", "peer_disconnect",
          "peer_link_measured", "peer_manual_connect", "inference_capability"}

FilterGroups == {"all", "peer", "invoke", "handoff", "agent", "error"}

(* The types a filter group matches.  No type emitted speaks of an error. *)
Matching(group) ==
    CASE group = "all"     -> Types
      [] group = "peer"    -> {"peer_connect", "peer_disconnect",
                               "peer_link_measured", "peer_manual_connect"}
      [] group = "invoke"  -> {"invoke"}
      [] group = "handoff" -> {"handoff_sent", "handoff_recv"}
      [] group = "agent"   -> {"agent_register"}
      [] group = "error"   -> {}

(* filter: the items of a list at the kept positions, in their order.  It is   *)
(* SelectSeq by position, without its recursion, to be reasoned about.         *)
Increasing(f) == \A p, q \in DOMAIN f : p < q => f[p] < f[q]

Upwards(kept) == CHOOSE at \in [1..Cardinality(kept) -> kept] : Increasing(at)

Selected(list, kept) ==
    LET at == Upwards(kept) IN [p \in DOMAIN at |-> list[at[p]]]

ToneFor(type) ==
    CASE type = "peer_connect"                      -> "green"
      [] type = "invoke"                            -> "blue"
      [] type \in {"handoff_sent", "handoff_recv"}  -> "amber"
      [] OTHER                                      -> "teal"

(* The cards of a list, newest first; the first slides in unless it is still. *)
EventCards(list, types, still) ==
    [i \in DOMAIN list |-> [event    |-> list[i],
                            tone     |-> ToneFor(types[list[i]]),
                            animated |-> i = 1 /\ ~still]]
================================================================================
