----------------------- MODULE MCRecruitmentLifecycle -----------------------
(* One pair with one screening and one interview; one request of each      *)
(* group of handlers in flight at a time, three in all.                    *)
EXTENDS RecruitmentLifecycle, TLC

CONSTANTS c1, r1, s1, i1

MCScreeningPair == s1 :> <<c1, r1>>
MCInterviewPair == i1 :> <<c1, r1>>
MCLimit == [c \in Candidates |-> 1]
=============================================================================
