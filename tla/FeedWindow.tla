------------------------------ MODULE FeedWindow -------------------------------
(* What a feed promises: the latest events it has received, newest first, none *)
(* twice and none out of order, until the page that shows it goes away.        *)
EXTENDS Naturals, Sequences

CONSTANTS
    Events,     \* numbered in the order they were emitted
    Size        \* how many of them the feed keeps

VARIABLE shown

FirstOf(n, list) == SubSeq(list, 1, IF Len(list) < n THEN Len(list) ELSE n)

Init == shown = <<>>

Arrive ==
    \E e \in Events :
        /\ \A i \in DOMAIN shown : shown[i] < e
        /\ shown' = FirstOf(Size, <<e>> \o shown)

Clear == shown' = <<>>

Next == Arrive \/ Clear

Spec == Init /\ [][Next]_shown
================================================================================
