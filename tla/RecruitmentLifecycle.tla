------------------------ MODULE RecruitmentLifecycle ------------------------
(***************************************************************************)
(* The recruitment lifecycle of one tenant database: the three groups of   *)
(* handlers work on the same tables at the same time.  ScreeningAdmission  *)
(* writes the submissions that InterviewSelection reads, and               *)
(* InterviewSelection writes the decisions that Placement reads and locks. *)
(***************************************************************************)
EXTENDS Naturals, FiniteSets, FiniteSetsExt

CONSTANTS Candidates, Requirements, Clients, Dates,
          Screenings, ScreeningPair, Limit,
          Interviews, InterviewPair,
          ScreeningWorkers, InterviewWorkers, PlacementWorkers,
          NoDate, NoRow, NoWorker

VARIABLES
    count, status, submissions, screeningAudit,
    candidateLock, screeningLock, screeningRequest,
    feedback, interview, selection, interviewAudit, interviewRequest,
    clientOf, offer, joining, billing, placementAudit,
    selectionLock, offerLock, joiningLock, placementRequest

Pairs == Candidates \X Requirements

Admission == INSTANCE ScreeningAdmission WITH
          PairOf <- ScreeningPair, Workers <- ScreeningWorkers,
          audit <- screeningAudit, request <- screeningRequest

Interviewing == INSTANCE InterviewSelection WITH
          PairOf <- InterviewPair, Workers <- InterviewWorkers,
          audit <- interviewAudit, request <- interviewRequest

Placing == INSTANCE Placement WITH
          Workers <- PlacementWorkers,
          audit <- placementAudit, request <- placementRequest

ASSUME ScreeningPairAssumption == ScreeningPair \in [Screenings -> Pairs]
ASSUME InterviewPairAssumption == InterviewPair \in [Interviews -> Pairs]
ASSUME ScreeningsAssumption == IsFiniteSet(Screenings)
ASSUME LimitAssumption == Limit \in [Candidates -> Nat \ {0}]
ASSUME NoDateAssumption == NoDate \notin Dates
ASSUME NoWorkerAssumption == NoWorker \notin ScreeningWorkers \cup PlacementWorkers
ASSUME NoRowAssumption ==
    NoRow \notin Interviewing!InterviewStatuses \cup Interviewing!Decisions
                 \cup Placing!OfferStates \cup Placing!Bodies \cup Placing!Bills

screeningOnly == <<count, status, screeningAudit, candidateLock,
                   screeningLock, screeningRequest>>
interviewOnly == <<feedback, interview, interviewAudit, interviewRequest>>
placementOnly == <<clientOf, offer, joining, billing, placementAudit,
                   selectionLock, offerLock, joiningLock, placementRequest>>
vars == <<screeningOnly, submissions, interviewOnly, selection, placementOnly>>

Init == Admission!Init /\ Interviewing!Init /\ Placing!Init

Next ==
    \/ Admission!Next /\ UNCHANGED <<interviewOnly, selection, placementOnly>>
    \/ Interviewing!HandlerStep /\ UNCHANGED <<screeningOnly, placementOnly>>
    \/ Placing!HandlerStep /\ UNCHANGED <<screeningOnly, submissions, interviewOnly>>

Spec == Init /\ [][Next]_vars

-----------------------------------------------------------------------------
(* The furthest stage for which the pair has a row.                        *)
Screened == {ScreeningPair[s] : s \in {x \in Screenings : status[x] # "none"}}
Interviewed == {InterviewPair[i] : i \in {x \in Interviews : interview[x] # NoRow}}
StageRows ==
    << Screened, submissions, feedback, Interviewed,
       {p \in Pairs : selection[p] # NoRow}, {p \in Pairs : offer[p] # NoRow},
       {p \in Pairs : joining[p] # NoRow}, {p \in Pairs : billing[p] # NoRow} >>
Furthest(p) == Max({0} \cup {k \in 1 .. 8 : p \in StageRows[k]})

(* All handlers together move every pair through the canonical lifecycle   *)
(* one stage at a time: no interleaving of requests, failure or update of  *)
(* an earlier row lets a pair skip a stage or fall back behind one.        *)
Pipeline == INSTANCE RecruitmentPipeline WITH
               reached <- [p \in Pairs |-> Furthest(p)],
               rejected <- {p \in Pairs : selection[p] = "rejected"}
CanonicalLifecycle == Pipeline!Spec

(* What the interview handlers assume about submissions, and the placement *)
(* handlers about decisions, is what the upstream handlers really do.      *)
GroupsAsSpecified == Interviewing!Spec /\ Placing!Spec
=============================================================================
