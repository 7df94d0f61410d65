------------------------- MODULE MCCapabilityExchange -------------------------
(* Two devices for TLC: one model, too large for either of them alone. *)
EXTENDS CapabilityExchange

CONSTANTS m1, c1, c2

OneSize == [m \in Models |-> 2]
HalfEach == {[memory |-> 1, models |-> {m1}], [memory |-> 1, models |-> {}]}
WithModel == {[memory |-> 1, models |-> {m1}]}
================================================================================
