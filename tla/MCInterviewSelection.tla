----------------------- MODULE MCInterviewSelection -----------------------
(* Instances of InterviewSelection: two recruitment contexts, the first    *)
(* with two interviews so that one can compete with the other.             *)
EXTENDS InterviewSelection, TLC

CONSTANTS p1, p2, i1, i2, i3

MCPairOf == i1 :> p1 @@ i2 :> p1 @@ i3 :> p2

Symmetry == Permutations(Workers) \cup Permutations({i1, i2})
=============================================================================
