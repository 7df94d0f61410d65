------------------------------ MODULE MCLiveFeed -------------------------------
(* One tab and a daemon that may stop or die, for TLC. *)
EXTENDS LiveFeed

SmallWindows == [f \in Feeds |-> IF f = "activity" THEN 2 ELSE 1]
InvokeAndConnect == [e \in Events |-> IF e % 2 = 1 THEN "invoke" ELSE "peer_connect"]

(* Matches is the filter of the page. *)
ASSUME MatchesSelects ==
    \A g \in FilterGroups, n \in 0..3 : \A list \in [1..n -> Events] :
        Matches(g, list) = SelectSeq(list, LAMBDA e : TypeOf(e) \in Matching(g))
================================================================================
