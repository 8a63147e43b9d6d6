---------------------------- MODULE MCPlacement ----------------------------
(* Instances of Placement: one pair, two clients, two dates.  The pairs    *)
(* share no row, so one pair meets every interleaving of its requests.     *)
EXTENDS Placement, TLC

Symmetry == Permutations(Workers) \cup Permutations(Clients)
                \cup Permutations(Dates)
=============================================================================
