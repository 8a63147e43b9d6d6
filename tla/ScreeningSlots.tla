--------------------------- MODULE ScreeningSlots ---------------------------
(***************************************************************************)
(* What screening admission promises: every candidate has a fixed number   *)
(* of screening slots, an active screening holds one of them, and a slot   *)
(* that was given back is never taken again by the same screening.         *)
(***************************************************************************)
EXTENDS Naturals, FiniteSets

CONSTANTS Candidates,   \* candidate ids of one tenant
          Screenings,   \* screening row ids
          OwnerOf,      \* the candidate of each screening row
          Limit         \* screening_limit of each candidate

VARIABLES holding,      \* holding[c]: screenings occupying a slot of c
          released      \* screenings that gave their slot back

slotVars == <<holding, released>>

Init ==
    /\ holding = [c \in Candidates |-> {}]
    /\ released = {}

Admit(s) ==
    LET c == OwnerOf[s] IN
    /\ s \notin holding[c] \cup released
    /\ Cardinality(holding[c]) < Limit[c]
    /\ holding' = [holding EXCEPT ![c] = @ \cup {s}]
    /\ UNCHANGED released

Release(s) ==
    LET c == OwnerOf[s] IN
    /\ s \in holding[c]
    /\ holding' = [holding EXCEPT ![c] = @ \ {s}]
    /\ released' = released \cup {s}

Next == \E s \in Screenings : Admit(s) \/ Release(s)

Spec == Init /\ [][Next]_slotVars
=============================================================================
