------------------------ MODULE RecruitmentPipeline ------------------------
(***************************************************************************)
(* The canonical lifecycle of docs/architecture/recruitment-lifecycle.md,  *)
(* per candidate and requirement: screening, submission, feedback,         *)
(* interview, selection, offer, joining, billing.  A pair moves forward    *)
(* one stage at a time, never skips a stage and never goes back; a         *)
(* rejected pair stops at its selection.                                   *)
(***************************************************************************)
EXTENDS Naturals

CONSTANT Pairs

VARIABLES reached,   \* number of the furthest stage of each pair
          rejected   \* pairs whose selection decision is "rejected"

Screening == 1
Selection == 5
Billing == 8

Init ==
    /\ reached = [p \in Pairs |-> 0]
    /\ rejected = {}

Advance(p) ==
    /\ reached[p] < Billing
    /\ p \notin rejected
    /\ reached' = [reached EXCEPT ![p] = @ + 1]
    /\ \/ rejected' = rejected
       \/ reached'[p] = Selection /\ rejected' = rejected \cup {p}

Next == \E p \in Pairs : Advance(p)

Spec == Init /\ [][Next]_<<reached, rejected>>
=============================================================================
