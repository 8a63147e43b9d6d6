-------------------------- MODULE MCLifecyclePage --------------------------
(* Instances of LifecyclePage: one pair with any progress when the page    *)
(* opens, and another that has nothing yet.                                *)
EXTENDS LifecyclePage

CONSTANTS p1, p2
MCStages == [p \in Pairs |-> IF p = p1 THEN 0 .. Rejected ELSE {0}]
=============================================================================
