-------------------------- MODULE MCInferenceSession --------------------------
(* Two calls of device 1 that choose device 2 as their worker, for TLC. *)
EXTENDS InferenceSession

CONSTANTS s1, s2, c1, c2

HostOne == [s \in Sessions |-> 1]
WorkerTwo == [s \in Sessions |-> 2]
TwoModels == [s \in Sessions |-> s]
OneModel == [s \in Sessions |-> s1]
================================================================================
