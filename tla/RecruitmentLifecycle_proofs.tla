--------------------- MODULE RecruitmentLifecycle_proofs ---------------------
(***************************************************************************)
(* Proofs about RecruitmentLifecycle, for every set of candidates,         *)
(* requirements, rows and concurrent requests: the groups of handlers keep *)
(* each other's promises, and together move every pair through the         *)
(* canonical lifecycle.  What was proved of each group alone is used again *)
(* by way of an instance of its proofs.                                    *)
(***************************************************************************)
EXTENDS RecruitmentLifecycle, Integers, TLAPS

AP == INSTANCE ScreeningAdmission_proofs WITH
          PairOf <- ScreeningPair, Workers <- ScreeningWorkers,
          audit <- screeningAudit, request <- screeningRequest

IP == INSTANCE InterviewSelection_proofs WITH
          PairOf <- InterviewPair, Workers <- InterviewWorkers,
          audit <- interviewAudit, request <- interviewRequest

PP == INSTANCE Placement_proofs WITH
          Workers <- PlacementWorkers,
          audit <- placementAudit, request <- placementRequest

-----------------------------------------------------------------------------
(* The handlers the proofs are about are the ones the composition runs.    *)
LEMMA SameAdmission ==
    /\ AP!Init <=> Admission!Init
    /\ AP!Next <=> Admission!Next
  BY DEF AP!Init, Admission!Init, AP!Next, Admission!Next, AP!Arrive, Admission!Arrive,
     AP!Progress, Admission!Progress, AP!Fail, Admission!Fail, AP!Finish, Admission!Finish,
     AP!Idle, Admission!Idle, AP!Pairs, Admission!Pairs, AP!Bodies, Admission!Bodies,
     AP!Outcomes, Admission!Outcomes, AP!NotInserted, Admission!NotInserted,
     AP!tables, Admission!tables, AP!locks, Admission!locks,
     AP!CandidateOf, Admission!CandidateOf, AP!Completed, Admission!Completed,
     AP!Unused, Admission!Unused, AP!ScreeningUnlocked, Admission!ScreeningUnlocked,
     AP!CandidateLockAfter, Admission!CandidateLockAfter,
     AP!ScreeningLockAfter, Admission!ScreeningLockAfter, AP!HasSlot, Admission!HasSlot,
     AP!TakeSlot, Admission!TakeSlot, AP!RecordScreening, Admission!RecordScreening,
     AP!AcceptedOutcomes, Admission!AcceptedOutcomes, AP!LockScreening, Admission!LockScreening,
     AP!ReturnSlot, Admission!ReturnSlot, AP!CountAfter, Admission!CountAfter,
     AP!RecordOutcome, Admission!RecordOutcome, AP!CheckSubmission, Admission!CheckSubmission,
     AP!Evidence, Admission!Evidence, AP!LockEvidence, Admission!LockEvidence,
     AP!EvidenceGone, Admission!EvidenceGone, AP!RecordSubmission, Admission!RecordSubmission,
     AP!DuplicateSubmission, Admission!DuplicateSubmission

(* The same for the interview handlers.                                    *)
LEMMA SameInterviewing ==
    /\ IP!Init <=> Interviewing!Init
    /\ IP!HandlerStep <=> Interviewing!HandlerStep
    /\ (\E p \in Pairs : IP!SubmissionArrives(p))
          <=> (\E p \in Pairs : Interviewing!SubmissionArrives(p))
  BY DEF IP!Init, Interviewing!Init, IP!HandlerStep, Interviewing!HandlerStep,
     IP!SubmissionArrives, Interviewing!SubmissionArrives,
     IP!Arrive, Interviewing!Arrive, IP!Progress, Interviewing!Progress, IP!Fail, Interviewing!Fail,
     IP!Finish, Interviewing!Finish, IP!Idle, Interviewing!Idle, IP!tables, Interviewing!tables,
     IP!ActiveStatuses, Interviewing!ActiveStatuses,
     IP!InterviewStatuses, Interviewing!InterviewStatuses, IP!Decisions, Interviewing!Decisions,
     IP!Inputs, Interviewing!Inputs, IP!Of, Interviewing!Of,
     IP!ActiveInterviews, Interviewing!ActiveInterviews,
     IP!CompletedInterviews, Interviewing!CompletedInterviews,
     IP!HasSubmission, Interviewing!HasSubmission, IP!CreateFeedback, Interviewing!CreateFeedback,
     IP!IndexAdmits, Interviewing!IndexAdmits, IP!ValidStatus, Interviewing!ValidStatus,
     IP!ScheduleInterview, Interviewing!ScheduleInterview,
     IP!InsertInterview, Interviewing!InsertInterview,
     IP!UpdateInterview, Interviewing!UpdateInterview,
     IP!WriteInterview, Interviewing!WriteInterview,
     IP!ActiveConflict, Interviewing!ActiveConflict, IP!Interviewed, Interviewing!Interviewed,
     IP!CreateSelection, Interviewing!CreateSelection, IP!Undecided, Interviewing!Undecided,
     IP!InsertSelection, Interviewing!InsertSelection,
     IP!DuplicateSelection, Interviewing!DuplicateSelection

(* And for the placement handlers.                                         *)
LEMMA SamePlacing ==
    /\ PP!Init <=> Placing!Init
    /\ PP!HandlerStep <=> Placing!HandlerStep
    /\ (\E p \in Pairs, d \in PP!Decisions : PP!SelectionArrives(p, d))
          <=> (\E p \in Pairs, d \in Placing!Decisions : Placing!SelectionArrives(p, d))
  BY DEF PP!Init, Placing!Init, PP!HandlerStep, Placing!HandlerStep,
     PP!SelectionArrives, Placing!SelectionArrives, PP!Decisions, Placing!Decisions,
     PP!Arrive, Placing!Arrive, PP!Progress, Placing!Progress, PP!Fail, Placing!Fail,
     PP!Finish, Placing!Finish, PP!Without, Placing!Without, PP!Idle, Placing!Idle,
     PP!tables, Placing!tables, PP!locks, Placing!locks, PP!Logged, Placing!Logged,
     PP!OfferStates, Placing!OfferStates, PP!Bodies, Placing!Bodies,
     PP!DatedIfJoined, Placing!DatedIfJoined, PP!ChangeClient, Placing!ChangeClient,
     PP!CreateOffer, Placing!CreateOffer, PP!Selected, Placing!Selected,
     PP!LockSelection, Placing!LockSelection, PP!RefuseOffer, Placing!RefuseOffer,
     PP!InsertOffer, Placing!InsertOffer, PP!UpdateOffer, Placing!UpdateOffer,
     PP!CreateJoining, Placing!CreateJoining, PP!Accepted, Placing!Accepted,
     PP!LockOffer, Placing!LockOffer, PP!RefuseJoining, Placing!RefuseJoining,
     PP!InsertJoining, Placing!InsertJoining, PP!JoiningUnlocked, Placing!JoiningUnlocked,
     PP!UpdateJoining, Placing!UpdateJoining, PP!Joined, Placing!Joined,
     PP!CreateBilling, Placing!CreateBilling, PP!ReadClient, Placing!ReadClient,
     PP!AlreadyBilled, Placing!AlreadyBilled, PP!BillUnderLock, Placing!BillUnderLock,
     PP!LockJoining, Placing!LockJoining, PP!RefuseBilling, Placing!RefuseBilling,
     PP!Unbilled, Placing!Unbilled, PP!InsertBilling, Placing!InsertBilling

(* The value of a missing row is none of the values of a row.              *)
LEMMA NoRows ==
    /\ NoRow \notin IP!InterviewStatuses \cup IP!Decisions
    /\ NoRow \notin PP!Decisions
    /\ NoRow \notin PP!OfferStates
    /\ NoRow \notin PP!Bodies
    /\ NoRow \notin PP!Bills
    /\ PP!Decisions = IP!Decisions
  BY NoRowAssumption
     DEF IP!InterviewStatuses, Interviewing!InterviewStatuses, IP!ActiveStatuses,
         Interviewing!ActiveStatuses, IP!Decisions, Interviewing!Decisions, PP!Decisions,
         PP!OfferStates, Placing!OfferStates, PP!Bodies, Placing!Bodies, PP!Bills, Placing!Bills

-----------------------------------------------------------------------------
InterviewInv == IP!TypeOK /\ IP!StagesInOrder

(* What the screening handlers keep, from the proofs about them.           *)
LEMMA AdmissionKeeps ==
    /\ AP!Init => AP!AdmissionInv
    /\ AP!AdmissionInv /\ [AP!Next]_(AP!vars) => AP!AdmissionInv'
<1>1. ScreeningPair \in [Screenings -> AP!Pairs] /\ NoWorker \notin ScreeningWorkers
  BY ScreeningPairAssumption, NoWorkerAssumption DEF AP!Pairs, Pairs
<1>2. AP!IsFiniteSet(Screenings)
  BY ScreeningsAssumption DEF IsFiniteSet, AP!IsFiniteSet
<1>3. AP!Init => AP!AdmissionInv
  BY <1>1, <1>2, LimitAssumption, AP!AdmissionInit
<1>4. AP!AdmissionInv /\ [AP!Next]_(AP!vars) => AP!AdmissionInv'
  BY <1>1, <1>2, LimitAssumption, AP!AdmissionStep
<1> QED BY <1>3, <1>4

(* What the interview handlers keep whatever submissions arrive.           *)
LEMMA InterviewKeeps ==
    /\ IP!Init => InterviewInv
    /\ InterviewInv /\ [IP!Next]_(IP!vars) => InterviewInv'
<1>1. IP!Init => IP!StagesInOrder
  BY DEF IP!Init, IP!StagesInOrder, IP!Idle
<1>2. IP!Init => IP!TypeOK
  BY InterviewPairAssumption, NoRows, IP!InitType
<1>3. IP!TypeOK /\ [IP!Next]_(IP!vars) => IP!TypeOK'
  BY InterviewPairAssumption, NoRows, IP!TypeStep
<1>4. IP!TypeOK /\ IP!StagesInOrder /\ [IP!Next]_(IP!vars) => IP!StagesInOrder'
  BY InterviewPairAssumption, NoRows, IP!StagesStep
<1> QED BY <1>1, <1>2, <1>3, <1>4 DEF InterviewInv

(* What the placement handlers keep whatever decisions arrive.             *)
LEMMA PlacementKeeps ==
    /\ PP!Init => PP!PlacementInv
    /\ PP!PlacementInv /\ [PP!Next]_(PP!vars) => PP!PlacementInv'
  BY NoRows, NoDateAssumption, NoWorkerAssumption, PP!PlacementInit, PP!PlacementStep

-----------------------------------------------------------------------------
(***************************************************************************)
(* What a step of each group does to the rows of the stages: nothing, or   *)
(* one more pair in one of them, that has a row of the stage before.       *)
(***************************************************************************)
Decided == {p \in Pairs : selection[p] # NoRow}
Offered == {p \in Pairs : offer[p] # NoRow}
HasJoining == {p \in Pairs : joining[p] # NoRow}
Billed == {p \in Pairs : billing[p] # NoRow}
Rejected == {p \in Pairs : selection[p] = "rejected"}

Adds(rows, after, q) == q \notin rows /\ after = rows \cup {q}

(* The screening handlers.                                                 *)
LEMMA ScreeningRows ==
    ASSUME AP!AdmissionInv, AP!Next
    PROVE  \/ UNCHANGED <<Screened, submissions>>
           \/ UNCHANGED submissions /\ \E q \in Pairs : Adds(Screened, Screened', q)
           \/ /\ UNCHANGED Screened
              /\ \E q \in Pairs : q \in Screened /\ Adds(submissions, submissions', q)
<1>a. ScreeningPair \in [Screenings -> AP!Pairs] /\ AP!Pairs = Pairs
  BY ScreeningPairAssumption DEF AP!Pairs, Pairs
<1>b. AP!TypeOK /\ \A w \in ScreeningWorkers : AP!LockedFacts(w)
  BY DEF AP!AdmissionInv
<1>c. status \in [Screenings -> AP!Statuses] /\ submissions \subseteq Pairs
      /\ screeningRequest \in [ScreeningWorkers -> AP!Requests]
  BY <1>a, <1>b DEF AP!TypeOK
<1>1. ASSUME NEW w \in ScreeningWorkers, AP!RecordScreening(w)
      PROVE  /\ UNCHANGED submissions
             /\ UNCHANGED Screened \/ \E q \in Pairs : Adds(Screened, Screened', q)
  <2>1. PICK s \in Screenings : status' = [status EXCEPT ![s] = "active"]
    BY <1>1 DEF AP!RecordScreening, AP!Unused
  <2>2. Screened' = Screened \cup {ScreeningPair[s]}
    BY <2>1, <1>c DEF Screened
  <2>3. ScreeningPair[s] \in Pairs
    BY <1>a
  <2> QED BY <1>1, <2>2, <2>3 DEF AP!RecordScreening, Adds
<1>2. ASSUME NEW w \in ScreeningWorkers, AP!RecordOutcome(w)
      PROVE  UNCHANGED <<Screened, submissions>>
  <2>1. /\ screeningRequest[w].row \in Screenings
        /\ screeningRequest[w].outcome # "none"
    <3>1. /\ screeningRequest[w] \in AP!Requests
          /\ screeningRequest[w].at \in {"screeningLocked", "slotReturned"}
      BY <1>2, <1>c DEF AP!RecordOutcome
    <3> QED BY <3>1 DEF AP!Requests, AP!Idle, AP!Outcomes
  <2>2. status[screeningRequest[w].row] # "none"
    BY <1>2, <1>b DEF AP!LockedFacts, AP!RecordOutcome, AP!NotInserted
  <2>3. status' = [status EXCEPT ![screeningRequest[w].row] = screeningRequest[w].outcome]
    BY <1>2 DEF AP!RecordOutcome
  <2>4. \A x \in Screenings : status'[x] # "none" <=> status[x] # "none"
    BY <2>1, <2>2, <2>3, <1>c
  <2> QED BY <1>2, <2>4 DEF AP!RecordOutcome, Screened
<1>3. ASSUME NEW w \in ScreeningWorkers, AP!RecordSubmission(w)
      PROVE  /\ UNCHANGED Screened
             /\ \E q \in Pairs : q \in Screened /\ Adds(submissions, submissions', q)
  <2>1. screeningRequest[w].row \in Screenings /\ screeningRequest[w].pair \in Pairs
    <3>1. screeningRequest[w] \in AP!Requests /\ screeningRequest[w].at = "evidenceLocked"
      BY <1>3, <1>c DEF AP!RecordSubmission
    <3> QED BY <3>1, <1>a DEF AP!Requests, AP!Idle
  <2>2. /\ ScreeningPair[screeningRequest[w].row] = screeningRequest[w].pair
        /\ status[screeningRequest[w].row] = "completed"
    BY <1>3, <1>b DEF AP!LockedFacts, AP!RecordSubmission
  <2>3. screeningRequest[w].pair \in Screened
    BY <2>1, <2>2 DEF Screened
  <2> QED BY <1>3, <2>1, <2>3 DEF AP!RecordSubmission, Adds, Screened
<1>4. \/ UNCHANGED <<status, submissions>>
      \/ \E w \in ScreeningWorkers :
            AP!RecordScreening(w) \/ AP!RecordOutcome(w) \/ AP!RecordSubmission(w)
  BY DEF AP!Next, AP!Arrive, AP!Progress, AP!Fail, AP!TakeSlot, AP!CheckSubmission,
     AP!LockScreening, AP!ReturnSlot, AP!LockEvidence, AP!EvidenceGone,
     AP!DuplicateSubmission, AP!tables
<1> QED BY <1>1, <1>2, <1>3, <1>4 DEF Screened

(* The interview handlers, which never write a submission.                 *)
LEMMA InterviewRows ==
    ASSUME InterviewInv, IP!HandlerStep
    PROVE  /\ UNCHANGED submissions
           /\ \/ UNCHANGED <<feedback, Interviewed, selection>>
              \/ /\ UNCHANGED <<Interviewed, selection>>
                 /\ \E q \in Pairs : Adds(feedback, feedback', q)
              \/ /\ UNCHANGED <<feedback, selection>>
                 /\ \E q \in Pairs : Adds(Interviewed, Interviewed', q)
              \/ /\ UNCHANGED <<feedback, Interviewed>>
                 /\ \E q \in Pairs, d \in IP!Decisions :
                       selection[q] = NoRow /\ selection' = [selection EXCEPT ![q] = d]
<1>a. /\ interview \in [Interviews -> IP!InterviewStatuses \cup {NoRow}]
      /\ interviewRequest \in [InterviewWorkers -> IP!Requests]
  BY DEF InterviewInv, IP!TypeOK
<1>1. UNCHANGED submissions
  BY DEF IP!HandlerStep, IP!Arrive, IP!Progress, IP!Fail, IP!CreateFeedback, IP!ScheduleInterview,
     IP!UpdateInterview, IP!CreateSelection, IP!InsertInterview, IP!WriteInterview,
     IP!ActiveConflict, IP!InsertSelection, IP!DuplicateSelection
<1>2. ASSUME NEW w \in InterviewWorkers, NEW p \in Pairs, IP!CreateFeedback(w, p)
      PROVE  /\ UNCHANGED <<Interviewed, selection>>
             /\ UNCHANGED feedback \/ \E q \in Pairs : Adds(feedback, feedback', q)
  BY <1>2 DEF IP!CreateFeedback, Adds, Interviewed
<1>3. ASSUME NEW w \in InterviewWorkers, IP!InsertInterview(w)
      PROVE  /\ UNCHANGED <<feedback, selection>>
             /\ UNCHANGED Interviewed \/ \E q \in Pairs : Adds(Interviewed, Interviewed', q)
  <2>1. interviewRequest[w].status # NoRow
    <3>1. interviewRequest[w] \in IP!Requests /\ interviewRequest[w].at = "scheduling"
      BY <1>3, <1>a DEF IP!InsertInterview
    <3>2. interviewRequest[w].status \in IP!InterviewStatuses
      BY <3>1 DEF IP!Requests, IP!Idle
    <3> QED BY <3>2, NoRows
  <2>2. PICK i \in Interviews : interview' = [interview EXCEPT ![i] = interviewRequest[w].status]
    BY <1>3 DEF IP!InsertInterview, IP!Of
  <2>3. Interviewed' = Interviewed \cup {InterviewPair[i]}
    BY <2>1, <2>2, <1>a DEF Interviewed
  <2>4. InterviewPair[i] \in Pairs
    BY InterviewPairAssumption
  <2> QED BY <1>3, <2>3, <2>4 DEF IP!InsertInterview, Adds
<1>4. ASSUME NEW w \in InterviewWorkers, IP!WriteInterview(w)
      PROVE  UNCHANGED <<feedback, Interviewed, selection>>
  <2>1. interviewRequest[w].row \in Interviews /\ interviewRequest[w].status # NoRow
    <3>1. interviewRequest[w] \in IP!Requests /\ interviewRequest[w].at = "updating"
      BY <1>4, <1>a DEF IP!WriteInterview
    <3>2. /\ interviewRequest[w].row \in Interviews
          /\ interviewRequest[w].status \in IP!InterviewStatuses
      BY <3>1 DEF IP!Requests, IP!Idle
    <3> QED BY <3>2, NoRows
  <2>2. interview[interviewRequest[w].row] # NoRow
    BY <1>4 DEF InterviewInv, IP!StagesInOrder, IP!WriteInterview
  <2>3. interview' = [interview EXCEPT ![interviewRequest[w].row] = interviewRequest[w].status]
    BY <1>4 DEF IP!WriteInterview
  <2>4. \A x \in Interviews : interview'[x] # NoRow <=> interview[x] # NoRow
    BY <2>1, <2>2, <2>3, <1>a
  <2> QED BY <1>4, <2>4 DEF IP!WriteInterview, Interviewed
<1>5. ASSUME NEW w \in InterviewWorkers, IP!InsertSelection(w)
      PROVE  /\ UNCHANGED <<feedback, Interviewed>>
             /\ \E q \in Pairs, d \in IP!Decisions :
                   selection[q] = NoRow /\ selection' = [selection EXCEPT ![q] = d]
  <2>1. interviewRequest[w] \in IP!Requests /\ interviewRequest[w].at = "deciding"
    BY <1>5, <1>a DEF IP!InsertSelection
  <2>2. interviewRequest[w].pair \in Pairs /\ interviewRequest[w].decision \in IP!Decisions
    BY <2>1 DEF IP!Requests, IP!Idle
  <2> QED BY <1>5, <2>2 DEF IP!InsertSelection, IP!Undecided, Interviewed
<1>6. \/ UNCHANGED <<feedback, interview, selection>>
      \/ \E w \in InterviewWorkers, p \in Pairs : IP!CreateFeedback(w, p)
      \/ \E w \in InterviewWorkers :
            IP!InsertInterview(w) \/ IP!WriteInterview(w) \/ IP!InsertSelection(w)
  BY DEF IP!HandlerStep, IP!Arrive, IP!Progress, IP!Fail, IP!ScheduleInterview,
     IP!UpdateInterview, IP!CreateSelection, IP!ActiveConflict, IP!DuplicateSelection, IP!tables
<1> QED BY <1>1, <1>2, <1>3, <1>4, <1>5, <1>6 DEF Interviewed

(* The placement handlers, which never write a decision.                   *)
LEMMA PlacementRows ==
    ASSUME PP!PlacementInv, PP!HandlerStep
    PROVE  /\ UNCHANGED selection
           /\ \/ UNCHANGED <<Offered, HasJoining, Billed>>
              \/ UNCHANGED <<HasJoining, Billed>> /\ \E q \in Pairs : Adds(Offered, Offered', q)
              \/ UNCHANGED <<Offered, Billed>> /\ \E q \in Pairs : Adds(HasJoining, HasJoining', q)
              \/ UNCHANGED <<Offered, HasJoining>> /\ \E q \in Pairs : Adds(Billed, Billed', q)
<1>a. /\ offer \in [Pairs -> PP!OfferStates \cup {NoRow}]
      /\ joining \in [Pairs -> PP!Terms \cup {NoRow}]
      /\ billing \in [Pairs -> PP!Bills \cup {NoRow}]
      /\ placementRequest \in [PlacementWorkers -> PP!Requests]
  BY DEF PP!PlacementInv, PP!TypeOK
<1>b. \A r \in PP!Requests :
         /\ r.at = "selectionLocked" => r.pair \in Pairs
         /\ r.at = "offerLocked" => r.pair \in Pairs /\ r.terms \in PP!Terms
         /\ r.at = "joiningLocked" => r.pair \in Pairs /\ r.bill \in PP!Bills
  BY DEF PP!Requests, PP!Idle
<1>1. UNCHANGED selection
  BY DEF PP!HandlerStep, PP!Arrive, PP!Progress, PP!Fail, PP!ChangeClient, PP!CreateOffer,
     PP!LockSelection, PP!RefuseOffer, PP!InsertOffer, PP!UpdateOffer, PP!CreateJoining,
     PP!LockOffer, PP!RefuseJoining, PP!InsertJoining, PP!UpdateJoining, PP!CreateBilling,
     PP!ReadClient, PP!AlreadyBilled, PP!LockJoining, PP!RefuseBilling, PP!InsertBilling
<1>2. ASSUME NEW w \in PlacementWorkers, PP!InsertOffer(w)
      PROVE  /\ UNCHANGED <<HasJoining, Billed>>
             /\ UNCHANGED Offered \/ \E q \in Pairs : Adds(Offered, Offered', q)
  <2>1. placementRequest[w].pair \in Pairs
    BY <1>2, <1>a, <1>b DEF PP!InsertOffer
  <2>2. "made" # NoRow
    BY NoRows DEF PP!OfferStates
  <2>3. offer[placementRequest[w].pair] = NoRow =>
           Adds(Offered, Offered', placementRequest[w].pair)
    BY <1>2, <2>1, <2>2, <1>a DEF PP!InsertOffer, Offered, Adds
  <2> QED BY <1>2, <2>1, <2>3 DEF PP!InsertOffer, Offered, HasJoining, Billed
<1>3. ASSUME NEW w \in PlacementWorkers, NEW p \in Pairs, NEW o \in PP!OfferStates,
             PP!UpdateOffer(w, p, o)
      PROVE  UNCHANGED <<Offered, HasJoining, Billed>>
  <2>1. \A x \in Pairs : offer'[x] # NoRow <=> offer[x] # NoRow
    BY <1>3, <1>a, NoRows DEF PP!UpdateOffer
  <2> QED BY <1>3, <2>1 DEF PP!UpdateOffer, Offered, HasJoining, Billed
<1>4. ASSUME NEW w \in PlacementWorkers, PP!InsertJoining(w)
      PROVE  /\ UNCHANGED <<Offered, Billed>>
             /\ UNCHANGED HasJoining \/ \E q \in Pairs : Adds(HasJoining, HasJoining', q)
  <2>1. placementRequest[w].pair \in Pairs /\ placementRequest[w].terms # NoRow
    BY <1>4, <1>a, <1>b, NoRows DEF PP!InsertJoining, PP!Terms
  <2>2. joining[placementRequest[w].pair] = NoRow =>
           Adds(HasJoining, HasJoining', placementRequest[w].pair)
    BY <1>4, <2>1, <1>a DEF PP!InsertJoining, HasJoining, Adds
  <2> QED BY <1>4, <2>1, <2>2 DEF PP!InsertJoining, Offered, HasJoining, Billed
<1>5. ASSUME NEW w \in PlacementWorkers, NEW p \in Pairs, NEW t \in PP!Bodies,
             PP!UpdateJoining(w, p, t)
      PROVE  UNCHANGED <<Offered, HasJoining, Billed>>
  <2>1. t # NoRow
    BY NoRows
  <2>2. \A x \in Pairs : joining'[x] # NoRow <=> joining[x] # NoRow
    BY <1>5, <1>a, <2>1 DEF PP!UpdateJoining
  <2> QED BY <1>5, <2>2 DEF PP!UpdateJoining, Offered, HasJoining, Billed
<1>6. ASSUME NEW w \in PlacementWorkers, PP!InsertBilling(w)
      PROVE  /\ UNCHANGED <<Offered, HasJoining>>
             /\ UNCHANGED Billed \/ \E q \in Pairs : Adds(Billed, Billed', q)
  <2>1. placementRequest[w].pair \in Pairs /\ placementRequest[w].bill # NoRow
    BY <1>6, <1>a, <1>b, NoRows DEF PP!InsertBilling
  <2>2. billing[placementRequest[w].pair] = NoRow =>
           Adds(Billed, Billed', placementRequest[w].pair)
    BY <1>6, <2>1, <1>a DEF PP!InsertBilling, PP!Unbilled, Billed, Adds
  <2> QED BY <1>6, <2>1, <2>2 DEF PP!InsertBilling, PP!Unbilled, Offered, HasJoining, Billed
<1>7. \/ UNCHANGED <<offer, joining, billing>>
      \/ \E w \in PlacementWorkers :
            PP!InsertOffer(w) \/ PP!InsertJoining(w) \/ PP!InsertBilling(w)
      \/ \E w \in PlacementWorkers, p \in Pairs, o \in PP!OfferStates : PP!UpdateOffer(w, p, o)
      \/ \E w \in PlacementWorkers, p \in Pairs, t \in PP!Bodies : PP!UpdateJoining(w, p, t)
  BY DEF PP!HandlerStep, PP!Arrive, PP!Progress, PP!Fail, PP!ChangeClient, PP!CreateOffer,
     PP!LockSelection, PP!RefuseOffer, PP!CreateJoining, PP!LockOffer, PP!RefuseJoining,
     PP!CreateBilling, PP!ReadClient, PP!AlreadyBilled, PP!LockJoining, PP!RefuseBilling,
     PP!tables
<1> QED BY <1>1, <1>2, <1>3, <1>4, <1>5, <1>6, <1>7 DEF Offered, HasJoining, Billed

-----------------------------------------------------------------------------
(***************************************************************************)
(* The composition.  What each group keeps, and that every submission has  *)
(* a screening, which neither group says alone.                            *)
(***************************************************************************)
LifecycleInv ==
    /\ AP!AdmissionInv
    /\ InterviewInv
    /\ PP!PlacementInv
    /\ submissions \subseteq Screened

(* A step of one group is no step of another, or the arrival of the row    *)
(* the other one expects from upstream.                                    *)
LEMMA GroupSteps ==
    ASSUME LifecycleInv, [Next]_vars
    PROVE  [AP!Next]_(AP!vars) /\ [IP!Next]_(IP!vars) /\ [PP!Next]_(PP!vars)
<1> USE DEF AP!vars, IP!vars, PP!vars, screeningOnly, interviewOnly, placementOnly
<1>1. CASE Admission!Next /\ UNCHANGED <<interviewOnly, selection, placementOnly>>
  <2>1. AP!Next
    BY <1>1, SameAdmission
  <2>2. UNCHANGED submissions \/ \E q \in Pairs : Adds(submissions, submissions', q)
    BY <2>1, ScreeningRows DEF LifecycleInv
  <2>3. ASSUME NEW q \in Pairs, Adds(submissions, submissions', q) PROVE IP!SubmissionArrives(q)
    BY <1>1, <2>3 DEF Adds, IP!SubmissionArrives, IP!tables
  <2>4. [IP!Next]_(IP!vars)
    BY <1>1, <2>2, <2>3 DEF IP!Next
  <2> QED BY <1>1, <2>1, <2>4
<1>2. CASE Interviewing!HandlerStep /\ UNCHANGED <<screeningOnly, placementOnly>>
  <2>1. IP!HandlerStep
    BY <1>2, SameInterviewing
  <2>2. /\ UNCHANGED submissions
        /\ \/ UNCHANGED selection
           \/ \E q \in Pairs, d \in IP!Decisions :
                 selection[q] = NoRow /\ selection' = [selection EXCEPT ![q] = d]
    BY <2>1, InterviewRows DEF LifecycleInv
  <2>3. ASSUME NEW q \in Pairs, NEW d \in IP!Decisions,
               selection[q] = NoRow, selection' = [selection EXCEPT ![q] = d]
        PROVE  d \in PP!Decisions /\ PP!SelectionArrives(q, d)
    BY <1>2, <2>3, NoRows DEF PP!SelectionArrives, PP!tables, PP!locks
  <2>4. [PP!Next]_(PP!vars)
    BY <1>2, <2>2, <2>3 DEF PP!Next
  <2> QED BY <1>2, <2>1, <2>2, <2>4 DEF IP!Next
<1>3. CASE Placing!HandlerStep /\ UNCHANGED <<screeningOnly, submissions, interviewOnly>>
  <2>1. PP!HandlerStep
    BY <1>3, SamePlacing
  <2>2. UNCHANGED selection
    BY <2>1, PlacementRows DEF LifecycleInv
  <2> QED BY <1>3, <2>1, <2>2 DEF PP!Next
<1>4. CASE UNCHANGED vars
  BY <1>4 DEF vars
<1> QED BY <1>1, <1>2, <1>3, <1>4 DEF Next

(* Where nothing has happened everything is kept.                          *)
LEMMA LifecycleAtFirst == Init => LifecycleInv
<1> SUFFICES ASSUME Init PROVE LifecycleInv
  OBVIOUS
<1>1. AP!Init /\ IP!Init /\ PP!Init
  BY SameAdmission, SameInterviewing, SamePlacing DEF Init
<1>2. submissions = {}
  BY <1>1 DEF AP!Init
<1> QED BY <1>1, <1>2, AdmissionKeeps, InterviewKeeps, PlacementKeeps DEF LifecycleInv

(* A screening stays screened, so a submission keeps its screening.        *)
LEMMA LifecycleStep == LifecycleInv /\ [Next]_vars => LifecycleInv'
<1> SUFFICES ASSUME LifecycleInv, [Next]_vars PROVE LifecycleInv'
  OBVIOUS
<1>1. AP!AdmissionInv' /\ InterviewInv' /\ PP!PlacementInv'
  BY GroupSteps, AdmissionKeeps, InterviewKeeps, PlacementKeeps DEF LifecycleInv
<1>2. CASE AP!Next
  BY <1>1, <1>2, ScreeningRows DEF LifecycleInv, Adds
<1>3. CASE UNCHANGED AP!vars
  BY <1>1, <1>3 DEF LifecycleInv, AP!vars, Screened
<1> QED BY <1>2, <1>3, GroupSteps

(* The invariant in every behaviour.                                       *)
LEMMA LifecycleSafe == Spec => []LifecycleInv
  BY LifecycleAtFirst, LifecycleStep, PTL DEF Spec

(* The specifications of the parts differ in name only.                    *)
LEMMA SameSteps ==
    /\ IP!Next <=> Interviewing!Next
    /\ PP!Next <=> Placing!Next
    /\ UNCHANGED IP!vars <=> UNCHANGED Interviewing!vars
    /\ UNCHANGED PP!vars <=> UNCHANGED Placing!vars
  BY SameInterviewing, SamePlacing
     DEF IP!Next, Interviewing!Next, PP!Next, Placing!Next, IP!vars, Interviewing!vars,
         PP!vars, Placing!vars

(* In the composition every group behaves as it was specified alone: the   *)
(* submissions that arrive come from the screening handlers one by one and *)
(* stay, and a decision comes from the interview handlers once and stays.  *)
THEOREM GroupsComposed == Spec => GroupsAsSpecified
<1>1. Init => Interviewing!Init /\ Placing!Init
  BY DEF Init
<1>2. LifecycleInv /\ [Next]_vars =>
         [Interviewing!Next]_(Interviewing!vars) /\ [Placing!Next]_(Placing!vars)
  BY GroupSteps, SameSteps
<1> QED BY <1>1, <1>2, LifecycleSafe, PTL
        DEF Spec, GroupsAsSpecified, Interviewing!Spec, Placing!Spec

-----------------------------------------------------------------------------
(***************************************************************************)
(* The canonical lifecycle.  The rows of the stages contain each other, so *)
(* the furthest stage of a pair is the one after which it has no row.      *)
(***************************************************************************)
Stages == 1 .. 8

Ordered ==
    /\ Billed \subseteq HasJoining
    /\ HasJoining \subseteq Offered
    /\ Offered \subseteq Decided
    /\ Decided \subseteq Interviewed
    /\ Interviewed \subseteq feedback
    /\ feedback \subseteq submissions
    /\ submissions \subseteq Screened
    /\ Screened \subseteq Pairs
    /\ Offered \cap Rejected = {}

(* That is what the groups keep.                                           *)
LEMMA RowsOrdered == LifecycleInv => Ordered
<1> SUFFICES ASSUME LifecycleInv PROVE Ordered
  OBVIOUS
<1>1. Screened \subseteq Pairs /\ submissions \subseteq Screened
  BY ScreeningPairAssumption DEF LifecycleInv, Screened
<1>2. feedback \subseteq submissions /\ Interviewed \subseteq feedback
  BY DEF LifecycleInv, InterviewInv, IP!StagesInOrder, Interviewed
<1>3. Decided \subseteq Interviewed
  BY DEF LifecycleInv, InterviewInv, IP!StagesInOrder, IP!Of, Interviewed, Decided
<1>4. /\ Billed \subseteq HasJoining
      /\ HasJoining \subseteq Offered
      /\ \A p \in Offered : selection[p] = "selected"
  BY DEF LifecycleInv, PP!PlacementInv, PP!PlacementInOrder, Billed, HasJoining, Offered
<1>5. "selected" # NoRow
  BY NoRows DEF PP!Decisions
<1> QED BY <1>1, <1>2, <1>3, <1>4, <1>5 DEF Ordered, Decided, Offered, Rejected

(* The rows of the stages, as the composition lists them.                  *)
LEMMA StageOf ==
    /\ StageRows[1] = Screened
    /\ StageRows[2] = submissions
    /\ StageRows[3] = feedback
    /\ StageRows[4] = Interviewed
    /\ StageRows[5] = Decided
    /\ StageRows[6] = Offered
    /\ StageRows[7] = HasJoining
    /\ StageRows[8] = Billed
  BY DEF StageRows, Decided, Offered, HasJoining, Billed

(* The same after a step.                                                  *)
LEMMA StageOfNext ==
    /\ StageRows'[1] = Screened'
    /\ StageRows'[2] = submissions'
    /\ StageRows'[3] = feedback'
    /\ StageRows'[4] = Interviewed'
    /\ StageRows'[5] = Decided'
    /\ StageRows'[6] = Offered'
    /\ StageRows'[7] = HasJoining'
    /\ StageRows'[8] = Billed'
  BY DEF StageRows, Decided, Offered, HasJoining, Billed

(* In a chain of rows the last one that has the pair is the furthest.      *)
LEMMA LastRow ==
    ASSUME NEW rows, NEW p, NEW k \in 0 .. 8,
           \A j \in 1 .. 7 : rows[j + 1] \subseteq rows[j],
           k # 0 => p \in rows[k], k # 8 => p \notin rows[k + 1]
    PROVE  Max({0} \cup {j \in 1 .. 8 : p \in rows[j]}) = k
<1> DEFINE S == {0} \cup {j \in 1 .. 8 : p \in rows[j]}
<1>1. k \in S
  OBVIOUS
<1>2. \A j \in k + 1 .. 8 : p \notin rows[j]
  <2>1. /\ rows[2] \subseteq rows[1] /\ rows[3] \subseteq rows[2] /\ rows[4] \subseteq rows[3]
        /\ rows[5] \subseteq rows[4] /\ rows[6] \subseteq rows[5] /\ rows[7] \subseteq rows[6]
        /\ rows[8] \subseteq rows[7]
    OBVIOUS
  <2>2. \A j \in 1 .. 8 : j \in {1, 2, 3, 4, 5, 6, 7, 8}
    OBVIOUS
  <2>3. k \in {0, 1, 2, 3, 4, 5, 6, 7, 8}
    OBVIOUS
  <2> QED BY <2>1, <2>2, <2>3
<1>3. \A j \in S : k >= j
  BY <1>2
<1>4. S \subseteq Int
  OBVIOUS
<1> HIDE DEF S
<1>5. Max(S) \in S /\ \A j \in S : Max(S) >= j
  BY <1>1, <1>3 DEF Max
<1>6. Max(S) = k
  <2>1. Max(S) \in Int /\ k >= Max(S) /\ Max(S) >= k
    BY <1>1, <1>3, <1>4, <1>5
  <2> QED BY <2>1
<1> QED BY <1>6 DEF S

(* So it is for the stages of the lifecycle, before and after a step.      *)
LEMMA FurthestIs ==
    ASSUME Ordered, NEW p, NEW k \in 0 .. 8,
           k # 0 => p \in StageRows[k], k # 8 => p \notin StageRows[k + 1]
    PROVE  Furthest(p) = k
<1>1. \A j \in 1 .. 7 : StageRows[j + 1] \subseteq StageRows[j]
  <2>1. \A j \in 1 .. 7 : j \in {1, 2, 3, 4, 5, 6, 7}
    OBVIOUS
  <2> QED BY <2>1, StageOf DEF Ordered
<1>2. Max({0} \cup {j \in 1 .. 8 : p \in StageRows[j]}) = k
  BY <1>1, LastRow
<1> QED BY <1>2 DEF Furthest

(* After a step.                                                           *)
LEMMA FurthestNext ==
    ASSUME Ordered', NEW p, NEW k \in 0 .. 8,
           k # 0 => p \in StageRows'[k], k # 8 => p \notin StageRows'[k + 1]
    PROVE  Furthest(p)' = k
<1>1. \A j \in 1 .. 7 : StageRows'[j + 1] \subseteq StageRows'[j]
  <2>1. \A j \in 1 .. 7 : j \in {1, 2, 3, 4, 5, 6, 7}
    OBVIOUS
  <2> QED BY <2>1, StageOfNext DEF Ordered
<1>2. Max({0} \cup {j \in 1 .. 8 : p \in StageRows'[j]}) = k
  BY <1>1, LastRow
<1> QED BY <1>2 DEF Furthest

(* Every pair has a furthest stage.                                        *)
LEMMA HasFurthest ==
    ASSUME Ordered, NEW p
    PROVE  \E k \in 0 .. 8 : /\ k # 0 => p \in StageRows[k]
                             /\ k # 8 => p \notin StageRows[k + 1]
<1>1. CASE p \notin StageRows[1]
  BY <1>1
<1>2. ASSUME NEW k \in 1 .. 7, p \in StageRows[k], p \notin StageRows[k + 1]
      PROVE  k \in 0 .. 8 /\ k # 0 /\ k # 8
  OBVIOUS
<1>3. CASE p \in StageRows[8]
  BY <1>3
<1>4. \/ p \notin StageRows[1] \/ p \in StageRows[8]
      \/ p \in StageRows[1] /\ p \notin StageRows[2]
      \/ p \in StageRows[2] /\ p \notin StageRows[3]
      \/ p \in StageRows[3] /\ p \notin StageRows[4]
      \/ p \in StageRows[4] /\ p \notin StageRows[5]
      \/ p \in StageRows[5] /\ p \notin StageRows[6]
      \/ p \in StageRows[6] /\ p \notin StageRows[7]
      \/ p \in StageRows[7] /\ p \notin StageRows[8]
  OBVIOUS
<1>5. \/ p \notin StageRows[1] \/ p \in StageRows[8]
      \/ \E k \in 1 .. 7 : p \in StageRows[k] /\ p \notin StageRows[k + 1]
  BY <1>4
<1> QED BY <1>1, <1>2, <1>3, <1>5

(* A step that changes no row of a pair leaves it where it is.             *)
LEMMA StaysPut ==
    ASSUME Ordered, Ordered', NEW p,
           \A j \in Stages : p \in StageRows'[j] <=> p \in StageRows[j]
    PROVE  Furthest(p)' = Furthest(p)
<1>1. PICK k \in 0 .. 8 : /\ k # 0 => p \in StageRows[k]
                          /\ k # 8 => p \notin StageRows[k + 1]
  BY HasFurthest
<1>2. /\ k # 0 => p \in StageRows'[k]
      /\ k # 8 => p \notin StageRows'[k + 1]
  BY <1>1 DEF Stages
<1> QED BY <1>1, <1>2, FurthestIs, FurthestNext

(* A step that adds a row of a stage moves the pair there, from the stage  *)
(* before.                                                                 *)
LEMMA MovesUp ==
    ASSUME Ordered, Ordered', NEW q, NEW k \in Stages,
           Adds(StageRows[k], StageRows'[k], q),
           \A j \in Stages \ {k} : StageRows'[j] = StageRows[j]
    PROVE  Furthest(q) = k - 1 /\ Furthest(q)' = k
<1>a. \A j \in 1 .. 7 : /\ StageRows[j + 1] \subseteq StageRows[j]
                        /\ StageRows'[j + 1] \subseteq StageRows'[j]
  <2>1. \A j \in 1 .. 7 : j \in {1, 2, 3, 4, 5, 6, 7}
    OBVIOUS
  <2>2. \A j \in 1 .. 7 : StageRows[j + 1] \subseteq StageRows[j]
    BY <2>1, StageOf DEF Ordered
  <2>3. \A j \in 1 .. 7 : StageRows'[j + 1] \subseteq StageRows'[j]
    BY <2>1, StageOfNext DEF Ordered
  <2> QED BY <2>2, <2>3
<1>b. k \in 1 .. 8
  BY DEF Stages
<1>1. q \in StageRows'[k] /\ q \notin StageRows[k]
  BY DEF Adds
<1>2. k # 8 => q \notin StageRows[k + 1] /\ q \notin StageRows'[k + 1]
  BY <1>1, <1>a, <1>b DEF Stages
<1>3. k - 1 # 0 => q \in StageRows[k - 1]
  <2> SUFFICES ASSUME k # 1 PROVE q \in StageRows[k - 1]
    BY <1>b
  <2>1. k - 1 \in 1 .. 7 /\ (k - 1) + 1 = k /\ k - 1 \in Stages \ {k}
    BY <1>b DEF Stages
  <2>2. StageRows'[(k - 1) + 1] \subseteq StageRows'[k - 1]
    BY <2>1, <1>a
  <2> QED BY <2>1, <2>2, <1>1
<1>4. Furthest(q) = k - 1
  <2>1. k - 1 \in 0 .. 8 /\ (k - 1) + 1 = k
    BY <1>b
  <2> QED BY <2>1, <1>1, <1>3, FurthestIs
<1>5. Furthest(q)' = k
  <2>1. k \in 0 .. 8
    BY <1>b
  <2> QED BY <2>1, <1>1, <1>2, FurthestNext
<1> QED BY <1>4, <1>5

-----------------------------------------------------------------------------
(* What a step adds to the rows of which stage.                            *)
Reaches(q, k) ==
    /\ Adds(StageRows[k], StageRows'[k], q)
    /\ \A j \in Stages \ {k} : StageRows'[j] = StageRows[j]
    /\ q \notin Rejected
    /\ \/ Rejected' = Rejected
       \/ k = 5 /\ Rejected' = Rejected \cup {q}

NothingReached == (\A j \in Stages : StageRows'[j] = StageRows[j]) /\ UNCHANGED Rejected

(* Eight names for the rows make it a question of one of them.             *)
LEMMA RowsChange ==
    /\ UNCHANGED <<Screened, submissions, feedback, Interviewed, Decided, Offered,
                   HasJoining, Billed, Rejected>> => NothingReached
    /\ \A q : Adds(Screened, Screened', q) /\ q \notin Rejected /\ UNCHANGED <<submissions,
                 feedback, Interviewed, Decided, Offered, HasJoining, Billed, Rejected>>
              => Reaches(q, 1)
    /\ \A q : Adds(submissions, submissions', q) /\ q \notin Rejected /\ UNCHANGED <<Screened,
                 feedback, Interviewed, Decided, Offered, HasJoining, Billed, Rejected>>
              => Reaches(q, 2)
    /\ \A q : Adds(feedback, feedback', q) /\ q \notin Rejected /\ UNCHANGED <<Screened,
                 submissions, Interviewed, Decided, Offered, HasJoining, Billed, Rejected>>
              => Reaches(q, 3)
    /\ \A q : Adds(Interviewed, Interviewed', q) /\ q \notin Rejected /\ UNCHANGED <<Screened,
                 submissions, feedback, Decided, Offered, HasJoining, Billed, Rejected>>
              => Reaches(q, 4)
    /\ \A q : Adds(Decided, Decided', q) /\ q \notin Rejected /\ UNCHANGED <<Screened,
                 submissions, feedback, Interviewed, Offered, HasJoining, Billed>>
              /\ Rejected' \in {Rejected, Rejected \cup {q}}
              => Reaches(q, 5)
    /\ \A q : Adds(Offered, Offered', q) /\ q \notin Rejected /\ UNCHANGED <<Screened,
                 submissions, feedback, Interviewed, Decided, HasJoining, Billed, Rejected>>
              => Reaches(q, 6)
    /\ \A q : Adds(HasJoining, HasJoining', q) /\ q \notin Rejected /\ UNCHANGED <<Screened,
                 submissions, feedback, Interviewed, Decided, Offered, Billed, Rejected>>
              => Reaches(q, 7)
    /\ \A q : Adds(Billed, Billed', q) /\ q \notin Rejected /\ UNCHANGED <<Screened,
                 submissions, feedback, Interviewed, Decided, Offered, HasJoining, Rejected>>
              => Reaches(q, 8)
<1>1. \A j \in Stages : j \in {1, 2, 3, 4, 5, 6, 7, 8}
  BY DEF Stages
<1> QED BY <1>1, StageOf, StageOfNext DEF Reaches, NothingReached, Stages

(* A rejected pair has a decision, and no pair that has one is decided.    *)
LEMMA RejectedIsDecided == Rejected \subseteq Decided
  BY NoRows DEF Rejected, Decided, PP!Decisions

(* Every step reaches one stage with one pair, or none.                    *)
LEMMA OneStage ==
    ASSUME LifecycleInv, Ordered, Ordered', [Next]_vars
    PROVE  NothingReached \/ \E q \in Pairs, k \in Stages : Reaches(q, k)
<1> USE DEF screeningOnly, interviewOnly, placementOnly
<1>a. 1 \in Stages /\ 2 \in Stages /\ 3 \in Stages /\ 4 \in Stages /\ 5 \in Stages
      /\ 6 \in Stages /\ 7 \in Stages /\ 8 \in Stages
  BY DEF Stages
<1>1. CASE Admission!Next /\ UNCHANGED <<interviewOnly, selection, placementOnly>>
  <2>1. UNCHANGED <<feedback, Interviewed, Decided, Offered, HasJoining, Billed, Rejected>>
    BY <1>1 DEF Interviewed, Decided, Offered, HasJoining, Billed, Rejected
  <2>2. AP!Next
    BY <1>1, SameAdmission
  <2>3. CASE UNCHANGED <<Screened, submissions>>
    BY <2>1, <2>3, RowsChange
  <2>4. ASSUME NEW q \in Pairs, UNCHANGED submissions, Adds(Screened, Screened', q)
        PROVE  Reaches(q, 1)
    BY <2>1, <2>4, RowsChange, RejectedIsDecided DEF Ordered, Adds
  <2>5. ASSUME NEW q \in Pairs, UNCHANGED Screened, Adds(submissions, submissions', q)
        PROVE  Reaches(q, 2)
    BY <2>1, <2>5, RowsChange, RejectedIsDecided DEF Ordered, Adds
  <2> QED BY <1>a, <2>2, <2>3, <2>4, <2>5, ScreeningRows DEF LifecycleInv
<1>2. CASE Interviewing!HandlerStep /\ UNCHANGED <<screeningOnly, placementOnly>>
  <2>1. UNCHANGED <<Screened, Offered, HasJoining, Billed>>
    BY <1>2 DEF Screened, Offered, HasJoining, Billed
  <2>2. IP!HandlerStep
    BY <1>2, SameInterviewing
  <2>3. UNCHANGED submissions
    BY <2>2, InterviewRows DEF LifecycleInv
  <2>4. UNCHANGED selection => UNCHANGED <<Decided, Rejected>>
    BY DEF Decided, Rejected
  <2>5. CASE UNCHANGED <<feedback, Interviewed, selection>>
    BY <2>1, <2>3, <2>4, <2>5, RowsChange
  <2>6. ASSUME NEW q \in Pairs, UNCHANGED <<Interviewed, selection>>, Adds(feedback, feedback', q)
        PROVE  Reaches(q, 3)
    BY <2>1, <2>3, <2>4, <2>6, RowsChange, RejectedIsDecided DEF Ordered, Adds
  <2>7. ASSUME NEW q \in Pairs, UNCHANGED <<feedback, selection>>,
               Adds(Interviewed, Interviewed', q)
        PROVE  Reaches(q, 4)
    BY <2>1, <2>3, <2>4, <2>7, RowsChange, RejectedIsDecided DEF Ordered, Adds
  <2>8. ASSUME NEW q \in Pairs, NEW d \in IP!Decisions, UNCHANGED <<feedback, Interviewed>>,
               selection[q] = NoRow, selection' = [selection EXCEPT ![q] = d]
        PROVE  Reaches(q, 5)
    <3>1. d # NoRow /\ "rejected" # NoRow
      BY NoRows DEF PP!Decisions
    <3>2. selection \in [Pairs -> IP!Decisions \cup {NoRow}]
      BY DEF LifecycleInv, InterviewInv, IP!TypeOK
    <3>3. q \notin Rejected /\ Adds(Decided, Decided', q)
      BY <2>8, <3>1, <3>2 DEF Rejected, Decided, Adds
    <3>4. Rejected' \in {Rejected, Rejected \cup {q}}
      <4>1. CASE d = "rejected"
        BY <2>8, <3>1, <3>2, <4>1 DEF Rejected
      <4>2. CASE d # "rejected"
        BY <2>8, <3>1, <3>2, <4>2 DEF Rejected
      <4> QED BY <4>1, <4>2
    <3> QED BY <2>1, <2>3, <2>8, <3>3, <3>4, RowsChange
  <2> QED BY <1>a, <2>2, <2>5, <2>6, <2>7, <2>8, InterviewRows DEF LifecycleInv
<1>3. CASE Placing!HandlerStep /\ UNCHANGED <<screeningOnly, submissions, interviewOnly>>
  <2>1. UNCHANGED <<Screened, Interviewed>>
    BY <1>3 DEF Screened, Interviewed
  <2>2. PP!HandlerStep
    BY <1>3, SamePlacing
  <2>3. UNCHANGED selection
    BY <2>2, PlacementRows DEF LifecycleInv
  <2>4. UNCHANGED <<Decided, Rejected>>
    BY <2>3 DEF Decided, Rejected
  <2>5. CASE UNCHANGED <<Offered, HasJoining, Billed>>
    BY <1>3, <2>1, <2>4, <2>5, RowsChange
  <2>6. ASSUME NEW q \in Pairs, UNCHANGED <<HasJoining, Billed>>, Adds(Offered, Offered', q)
        PROVE  Reaches(q, 6)
    BY <1>3, <2>1, <2>4, <2>6, RowsChange DEF Ordered, Adds
  <2>7. ASSUME NEW q \in Pairs, UNCHANGED <<Offered, Billed>>, Adds(HasJoining, HasJoining', q)
        PROVE  Reaches(q, 7)
    BY <1>3, <2>1, <2>4, <2>7, RowsChange DEF Ordered, Adds
  <2>8. ASSUME NEW q \in Pairs, UNCHANGED <<Offered, HasJoining>>, Adds(Billed, Billed', q)
        PROVE  Reaches(q, 8)
    BY <1>3, <2>1, <2>4, <2>8, RowsChange DEF Ordered, Adds
  <2> QED BY <1>a, <2>2, <2>5, <2>6, <2>7, <2>8, PlacementRows DEF LifecycleInv
<1>4. CASE UNCHANGED vars
  <2>1. UNCHANGED <<Screened, submissions, feedback, Interviewed, Decided, Offered, HasJoining,
                    Billed, Rejected>>
    BY <1>4 DEF vars, Screened, Interviewed, Decided, Offered, HasJoining, Billed, Rejected
  <2> QED BY <2>1, RowsChange
<1> QED BY <1>1, <1>2, <1>3, <1>4 DEF Next

-----------------------------------------------------------------------------
reached == [p \in Pairs |-> Furthest(p)]

(* Reaching a stage is the step of the abstract pipeline, for that pair.   *)
LEMMA ReachingAdvances ==
    ASSUME Ordered, Ordered', NEW q \in Pairs, NEW k \in Stages, Reaches(q, k)
    PROVE  Pipeline!Advance(q)
<1>1. Furthest(q) = k - 1 /\ Furthest(q)' = k /\ k \in 1 .. 8
  BY MovesUp DEF Reaches, Stages
<1>2. ASSUME NEW p \in Pairs, p # q PROVE Furthest(p)' = Furthest(p)
  <2>1. \A j \in Stages : p \in StageRows'[j] <=> p \in StageRows[j]
    BY <1>2 DEF Reaches, Adds
  <2> QED BY <2>1, StaysPut
<1>3. [p \in Pairs |-> Furthest(p)'] = [[p \in Pairs |-> Furthest(p)] EXCEPT ![q] = @ + 1]
  <2>1. Furthest(q)' = Furthest(q) + 1
    BY <1>1
  <2>2. \A p \in Pairs : Furthest(p)' = IF p = q THEN Furthest(q) + 1 ELSE Furthest(p)
    BY <2>1, <1>2
  <2> QED BY <2>2, Zenon
<1>4. Furthest(q) < 8
  BY <1>1
<1> QED BY <1>1, <1>3, <1>4
        DEF Pipeline!Advance, Pipeline!Billing, Pipeline!Selection, Reaches, Rejected

(* All handlers together implement the canonical lifecycle.                *)
THEOREM LifecycleIsCanonical == Spec => CanonicalLifecycle
<1>1. Init => Pipeline!Init
  <2> SUFFICES ASSUME Init PROVE Pipeline!Init
    OBVIOUS
  <2>1. LifecycleInv /\ Screened = {} /\ Rejected = {}
    <3>1. AP!Init /\ IP!Init
      BY SameAdmission, SameInterviewing DEF Init
    <3> QED BY <3>1, LifecycleAtFirst, RejectedIsDecided
            DEF AP!Init, AP!NotInserted, IP!Init, Screened, Decided
  <2>2. \A p \in Pairs : Furthest(p) = 0
    BY <2>1, RowsOrdered, FurthestIs, StageOf
  <2> QED BY <2>1, <2>2 DEF Pipeline!Init, Rejected
<1>2. LifecycleInv /\ LifecycleInv' /\ [Next]_vars =>
         [Pipeline!Next]_<<[p \in Pairs |-> Furthest(p)], Rejected>>
  <2> SUFFICES ASSUME LifecycleInv, LifecycleInv', [Next]_vars
               PROVE  Pipeline!Next \/ UNCHANGED <<[p \in Pairs |-> Furthest(p)], Rejected>>
    OBVIOUS
  <2>1. Ordered
    BY RowsOrdered
  <2>2. Ordered'
    BY RowsOrdered, PTL
  <2>3. CASE NothingReached
    <3>1. \A p \in Pairs : Furthest(p)' = Furthest(p)
      BY <2>1, <2>2, <2>3, StaysPut DEF NothingReached
    <3> QED BY <2>3, <3>1 DEF NothingReached
  <2>4. ASSUME NEW q \in Pairs, NEW k \in Stages, Reaches(q, k) PROVE Pipeline!Next
    BY <2>1, <2>2, <2>4, ReachingAdvances DEF Pipeline!Next
  <2> QED BY <2>1, <2>2, <2>3, <2>4, OneStage
<1> QED BY <1>1, <1>2, LifecycleSafe, PTL
        DEF Spec, CanonicalLifecycle, Pipeline!Spec, Rejected
=============================================================================
