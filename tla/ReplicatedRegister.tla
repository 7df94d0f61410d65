--------------------------- MODULE ReplicatedRegister --------------------------
(* What the replicated registers promise, with no clocks, messages or files:   *)
(* each device holds, for each key, nothing or one of the entries somebody     *)
(* wrote; a write is stamped like no other and takes effect where it is made;  *)
(* from then on a replica only ever moves to an entry that supersedes its own, *)
(* unless the entry it holds is one that may expire.                           *)
EXTENDS LWW

CONSTANT Keys

VARIABLES current, written

Init ==
    /\ current = [d \in Devices |-> [k \in Keys |-> NoEntry]]
    /\ written = {}

Holds(d, k, e) == current' = [current EXCEPT ![d][k] = e]

(* The entry is the one the step adds to written. *)
Write(d, k) ==
    \E x \in written' \ written :
        /\ written' = written \cup {x}
        /\ x.key = k
        /\ x.entry.device = d
        /\ \A y \in written : y.entry.device = d => y.entry.ts # x.entry.ts
        /\ Accepts(current[d][k], x.entry)
        /\ Holds(d, k, x.entry)

(* A replica takes over, for any of its keys, entries written anywhere. *)
Adopt(d) ==
    /\ UNCHANGED written
    /\ \A e \in Devices \ {d} : current'[e] = current[e]
    /\ \A k \in Keys :
          \/ current'[d][k] = current[d][k]
          \/ \E x \in written : /\ x.key = k
                                /\ current'[d][k] = x.entry
                                /\ Accepts(current[d][k], x.entry)
    /\ DOMAIN current' = Devices
    /\ DOMAIN current'[d] = Keys

Forget(d, k) ==
    /\ current[d][k] # NoEntry
    /\ current[d][k].ttl # Forever
    /\ Holds(d, k, NoEntry)
    /\ UNCHANGED written

Next ==
    \E d \in Devices :
        \/ \E k \in Keys : Write(d, k) \/ Forget(d, k)
        \/ Adopt(d)

Spec == Init /\ [][Next]_<<current, written>>
================================================================================
