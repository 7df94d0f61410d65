--------------------------------- MODULE Pages ---------------------------------
(* The dashboard's pages and their paths (App.jsx).  Any other path is replaced *)
(* by "/" before a page is shown.                                              *)

Paths == {"/", "/topology", "/inference", "/activity"}

PageAt(p) ==
    CASE p \in {"/", "/topology"} -> "Topology"
      [] p = "/inference"         -> "Inference"
      [] p = "/activity"          -> "Activity"
================================================================================
