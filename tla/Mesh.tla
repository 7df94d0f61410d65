--------------------------------- MODULE Mesh ---------------------------------
(* The devices of one household, as numbers ordered like their DID strings:    *)
(* the order is what last-writer-wins breaks ties by.                          *)
EXTENDS Naturals

CONSTANT Devices

ASSUME DevicesAssumption == Devices \subseteq Nat
================================================================================
