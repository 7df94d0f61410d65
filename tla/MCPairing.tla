------------------------------- MODULE MCPairing -------------------------------
(* A member that founded a household, one that joined it, two new devices. *)
EXTENDS Pairing

CONSTANTS m1, m2, j1, j2
================================================================================
