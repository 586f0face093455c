------------------------------ MODULE Consensus ------------------------------
(***************************************************************************)
(* What one Paxos instance promises to the application that polls          *)
(* Status(seq): the set of values that Status has ever reported as Decided *)
(* is empty until one value is chosen and never changes afterwards.        *)
(***************************************************************************)
CONSTANT Values     \* what the application may pass to Start

VARIABLE chosen     \* the values some server reports as Decided

Init == chosen = {}

Choose(v) ==
    /\ chosen = {}
    /\ chosen' = {v}

Next == \E v \in Values : Choose(v)

Spec == Init /\ [][Next]_chosen
=============================================================================
