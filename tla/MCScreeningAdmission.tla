------------------------ MODULE MCScreeningAdmission ------------------------
(* Instances of ScreeningAdmission: one candidate, two requirements.       *)
EXTENDS ScreeningAdmission, TLC

CONSTANTS c1, r1, r2, s1, s2, s3

(* Two screenings for the first requirement and one for the second.        *)
MCPairOf == s1 :> <<c1, r1>> @@ s2 :> <<c1, r1>> @@ s3 :> <<c1, r2>>

(* A limit below the number of rows, so that requests meet it.             *)
MCLimit == [c \in Candidates |-> 2]
=============================================================================
