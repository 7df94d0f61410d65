----------------------------- MODULE MCMemorySync -----------------------------
(* Small households for TLC. *)
EXTENDS MemorySync, TLC

CONSTANTS k1, k2, v1, l1, l2, x1, c1, c2

NoSkew == [d \in Devices |-> 0]
OneAhead == [d \in Devices |-> IF d = 1 THEN 1 ELSE 0]
AllForever == [k \in RegKeys |-> Forever]
AllBrief == [k \in RegKeys |-> 1]
OwnAndShared == [l \in LogKeys |-> IF l = l1 THEN {1} ELSE Devices]
SameConns == Permutations(Conns)
================================================================================
