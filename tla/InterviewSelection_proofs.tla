---------------------- MODULE InterviewSelection_proofs ----------------------
(***************************************************************************)
(* Proofs about InterviewSelection, for every set of pairs, interviews and *)
(* concurrent requests.                                                    *)
(***************************************************************************)
EXTENDS InterviewSelection, FiniteSetTheorems, TLAPS

(* What a request record says about itself, by the place it is at.         *)
LEMMA RequestShape ==
    ASSUME TypeOK, NEW w \in Workers
    PROVE  /\ request[w].at \in {"scheduling", "deciding"} => request[w].pair \in Pairs
           /\ request[w].at = "updating" =>
                 request[w].row \in Interviews /\ PairOf[request[w].row] \in Pairs
           /\ request[w].at \in {"scheduling", "updating"} => request[w].status \in InterviewStatuses
           /\ request[w].at = "deciding" => request[w].decision \in Decisions
<1>1. request[w] \in Requests
  BY DEF TypeOK
<1> QED BY <1>1, PairOfAssumption DEF Requests, Idle

(* Committing or rolling back keeps the type of the requests.              *)
LEMMA FinishTypes ==
    ASSUME TypeOK, NEW w \in Workers, Finish(w)
    PROVE  request' \in [Workers -> Requests]
  BY DEF TypeOK, Finish, Requests

(* Before any request nothing is recorded.                                 *)
LEMMA InitType == Init => TypeOK
  BY DEF Init, TypeOK, Requests

(* The requests that pass their checks are of the types of their bodies.   *)
LEMMA ArriveTypes ==
    ASSUME TypeOK, NEW w \in Workers, Arrive(w)
    PROVE  TypeOK'
<1>1. ASSUME NEW p \in Pairs, CreateFeedback(w, p) PROVE TypeOK'
  BY <1>1 DEF TypeOK, CreateFeedback, AuditEvents
<1>2. ASSUME NEW p \in Pairs, NEW st \in Inputs, ScheduleInterview(w, p, st) PROVE TypeOK'
  <2>1. [at |-> "scheduling", pair |-> p, status |-> st] \in Requests
    BY <1>2 DEF ScheduleInterview, ValidStatus, Requests
  <2> QED BY <1>2, <2>1 DEF TypeOK, ScheduleInterview, tables
<1>3. ASSUME NEW i \in Interviews, NEW st \in Inputs, UpdateInterview(w, i, st) PROVE TypeOK'
  <2>1. [at |-> "updating", row |-> i, status |-> st] \in Requests
    BY <1>3 DEF UpdateInterview, ValidStatus, Requests
  <2> QED BY <1>3, <2>1 DEF TypeOK, UpdateInterview, tables
<1>4. ASSUME NEW p \in Pairs, NEW d \in Decisions, CreateSelection(w, p, d) PROVE TypeOK'
  <2>1. [at |-> "deciding", pair |-> p, decision |-> d] \in Requests
    BY DEF Requests
  <2> QED BY <1>4, <2>1 DEF TypeOK, CreateSelection, tables
<1> QED BY <1>1, <1>2, <1>3, <1>4 DEF Arrive

(* What the writes commit is of the types of the tables.                   *)
LEMMA ProgressTypes ==
    ASSUME TypeOK, NEW w \in Workers, Progress(w)
    PROVE  TypeOK'
<1>1. ASSUME InsertInterview(w) PROVE TypeOK'
  <2>1. PICK i \in Of(request[w].pair) :
          /\ interview' = [interview EXCEPT ![i] = request[w].status]
          /\ audit' = audit \cup {<<"interview", i, "scheduled">>}
    BY <1>1 DEF InsertInterview
  <2>2. i \in Interviews /\ request[w].status \in InterviewStatuses
    BY <1>1, RequestShape DEF Of, InsertInterview
  <2>3. interview' \in [Interviews -> InterviewStatuses \cup {NoRow}] /\ audit' \subseteq AuditEvents
    BY <2>1, <2>2 DEF TypeOK, AuditEvents
  <2> QED BY <1>1, <2>3, FinishTypes DEF TypeOK, InsertInterview
<1>2. ASSUME WriteInterview(w) PROVE TypeOK'
  <2>1. request[w].row \in Interviews /\ request[w].status \in InterviewStatuses
    BY <1>2, RequestShape DEF WriteInterview
  <2>2. interview' \in [Interviews -> InterviewStatuses \cup {NoRow}] /\ audit' \subseteq AuditEvents
    BY <1>2, <2>1 DEF TypeOK, WriteInterview, AuditEvents
  <2> QED BY <1>2, <2>2, FinishTypes DEF TypeOK, WriteInterview
<1>3. ASSUME ActiveConflict(w) PROVE TypeOK'
  BY <1>3, FinishTypes DEF TypeOK, ActiveConflict, tables
<1>4. ASSUME InsertSelection(w) PROVE TypeOK'
  <2>1. request[w].pair \in Pairs /\ request[w].decision \in Decisions
    BY <1>4, RequestShape DEF InsertSelection
  <2>2. selection' \in [Pairs -> Decisions \cup {NoRow}] /\ audit' \subseteq AuditEvents
    BY <1>4, <2>1 DEF TypeOK, InsertSelection, AuditEvents
  <2> QED BY <1>4, <2>2, FinishTypes DEF TypeOK, InsertSelection
<1>5. ASSUME DuplicateSelection(w) PROVE TypeOK'
  BY <1>5, FinishTypes DEF TypeOK, DuplicateSelection, tables
<1> QED BY <1>1, <1>2, <1>3, <1>4, <1>5 DEF Progress

(* Every step keeps every table and request of its type.                   *)
LEMMA TypeStep == TypeOK /\ [Next]_vars => TypeOK'
<1> SUFFICES ASSUME TypeOK, [Next]_vars PROVE TypeOK'
  OBVIOUS
<1>1. CASE UNCHANGED vars
  BY <1>1 DEF TypeOK, vars
<1>2. ASSUME NEW w \in Workers, Fail(w) PROVE TypeOK'
  BY <1>2, FinishTypes DEF TypeOK, Fail, tables
<1>3. ASSUME NEW p \in Pairs, SubmissionArrives(p) PROVE TypeOK'
  BY <1>3 DEF TypeOK, SubmissionArrives, tables
<1> QED BY <1>1, <1>2, <1>3, ArriveTypes, ProgressTypes DEF Next, HandlerStep

(* Type correctness of the interview and selection tables.                 *)
THEOREM InterviewTypes == Spec => []TypeOK
  BY InitType, TypeStep, PTL DEF Spec

-----------------------------------------------------------------------------
(* Which steps write an interview: the two that commit one.                *)
LEMMA WritersOfInterview ==
    ASSUME [Next]_vars
    PROVE  \/ UNCHANGED interview
           \/ \E w \in Workers : InsertInterview(w) \/ WriteInterview(w)
  BY DEF Next, HandlerStep, Arrive, Progress, Fail, SubmissionArrives, CreateFeedback,
         ScheduleInterview, UpdateInterview, CreateSelection, ActiveConflict,
         InsertSelection, DuplicateSelection, tables, vars

(* Which steps write a decision: the one that commits it.                  *)
LEMMA WritersOfSelection ==
    ASSUME [Next]_vars
    PROVE  UNCHANGED selection \/ \E w \in Workers : InsertSelection(w)
  BY DEF Next, HandlerStep, Arrive, Progress, Fail, SubmissionArrives, CreateFeedback,
         ScheduleInterview, UpdateInterview, CreateSelection, ActiveConflict,
         InsertInterview, WriteInterview, DuplicateSelection, tables, vars

(* A committed decision stands, whoever decides on the pair again.         *)
THEOREM DecisionsAreFinal == Spec => DecisionIsFinal
<1>1. ASSUME TypeOK, [Next]_vars, NEW p \in Pairs, selection[p] # NoRow
      PROVE  selection'[p] = selection[p]
  <2>1. ASSUME NEW w \in Workers, InsertSelection(w) PROVE selection'[p] = selection[p]
    BY <1>1, <2>1 DEF TypeOK, InsertSelection, Undecided
  <2> QED BY <1>1, <2>1, WritersOfSelection
<1>2. TypeOK /\ [Next]_vars =>
        [\A p \in Pairs : selection[p] # NoRow => selection'[p] = selection[p]]_vars
  BY <1>1
<1> QED BY <1>2, InterviewTypes, PTL DEF Spec, DecisionIsFinal

-----------------------------------------------------------------------------
(***************************************************************************)
(* One active interview for each pair.  UniqueActive says the same without *)
(* counting.  What the requests checked before their transaction does not  *)
(* help: the index alone makes it inductive.                               *)
(***************************************************************************)
UniqueActive ==
    \A i, j \in Interviews :
       PairOf[i] = PairOf[j] /\ interview[i] \in ActiveStatuses
       /\ interview[j] \in ActiveStatuses => i = j

(* The index lets a row become active only next to no other active row.    *)
LEMMA UniqueStep == TypeOK /\ UniqueActive /\ [Next]_vars => UniqueActive'
<1> SUFFICES ASSUME TypeOK, UniqueActive, [Next]_vars PROVE UniqueActive'
  OBVIOUS
<1>1. CASE UNCHANGED interview
  BY <1>1 DEF UniqueActive
<1>2. ASSUME NEW i \in Interviews, NEW st,
             interview' = [interview EXCEPT ![i] = st],
             st \in ActiveStatuses =>
               \A j \in Interviews \ {i} :
                  PairOf[j] = PairOf[i] => interview[j] \notin ActiveStatuses
      PROVE  UniqueActive'
  BY <1>2 DEF TypeOK, UniqueActive
<1>3. ASSUME NEW w \in Workers, InsertInterview(w) PROVE UniqueActive'
  <2>1. PICK i \in Of(request[w].pair) : interview' = [interview EXCEPT ![i] = request[w].status]
    BY <1>3 DEF InsertInterview
  <2>2. i \in Interviews /\ PairOf[i] = request[w].pair
    BY DEF Of
  <2>3. request[w].status \in ActiveStatuses =>
          \A j \in Interviews : PairOf[j] = PairOf[i] => interview[j] \notin ActiveStatuses
    BY <1>3, <2>2 DEF InsertInterview, IndexAdmits, ActiveInterviews, Of
  <2> QED BY <1>2, <2>1, <2>2, <2>3
<1>4. ASSUME NEW w \in Workers, WriteInterview(w) PROVE UniqueActive'
  <2>1. PICK i \in Interviews : i = request[w].row
    BY <1>4, RequestShape DEF WriteInterview
  <2>2. request[w].status \in ActiveStatuses =>
          \A j \in Interviews \ {i} : PairOf[j] = PairOf[i] => interview[j] \notin ActiveStatuses
    BY <1>4, <2>1 DEF WriteInterview, IndexAdmits, ActiveInterviews, Of
  <2> QED BY <1>2, <1>4, <2>1, <2>2 DEF WriteInterview
<1> QED BY <1>1, <1>3, <1>4, WritersOfInterview

(* At most one interview of a pair is active, although both handlers look  *)
(* for another one outside their transaction.                              *)
THEOREM OneActive == Spec => []OneActiveInterview
<1>1. Init => UniqueActive
  BY NoRowAssumption DEF Init, UniqueActive, InterviewStatuses
<1>2. UniqueActive => OneActiveInterview
  <2> SUFFICES ASSUME UniqueActive, NEW p \in Pairs
               PROVE  Cardinality(ActiveInterviews(p)) <= 1
    BY DEF OneActiveInterview
  <2>1. CASE ActiveInterviews(p) = {}
    BY <2>1, FS_EmptySet
  <2>2. CASE ActiveInterviews(p) # {}
    <3>1. PICK i \in ActiveInterviews(p) : TRUE
      BY <2>2
    <3>2. ActiveInterviews(p) = {i}
      BY <3>1 DEF UniqueActive, ActiveInterviews, Of
    <3> QED BY <3>2, FS_Singleton
  <2> QED BY <2>1, <2>2
<1> QED BY <1>1, <1>2, InterviewTypes, UniqueStep, PTL DEF Spec

-----------------------------------------------------------------------------
(* What is committed stays: no handler deletes a submission, a feedback or *)
(* an interview, so what a request has checked cannot be taken away.       *)
LEMMA RowsStay ==
    ASSUME TypeOK, [Next]_vars
    PROVE  /\ submissions \subseteq submissions'
           /\ feedback \subseteq feedback'
           /\ \A i \in Interviews : interview[i] # NoRow => interview'[i] # NoRow
<1>1. submissions \subseteq submissions' /\ feedback \subseteq feedback'
  BY DEF Next, HandlerStep, Arrive, Progress, Fail, SubmissionArrives, CreateFeedback,
         ScheduleInterview, UpdateInterview, CreateSelection, ActiveConflict,
         InsertInterview, WriteInterview, InsertSelection, DuplicateSelection, tables, vars
<1>2. ASSUME NEW w \in Workers, InsertInterview(w) \/ WriteInterview(w),
             NEW i \in Interviews, interview[i] # NoRow
      PROVE  interview'[i] # NoRow
  <2>1. request[w].status \in InterviewStatuses /\ request[w].status # NoRow
    BY <1>2, RequestShape, NoRowAssumption DEF InsertInterview, WriteInterview
  <2> QED BY <1>2, <2>1 DEF TypeOK, InsertInterview, WriteInterview
<1> QED BY <1>1, <1>2, WritersOfInterview

(* The part of StagesInOrder about the request of one worker.              *)
CheckedInOrder(w) ==
    /\ request[w].at = "scheduling" => request[w].pair \in feedback
    /\ request[w].at = "updating" => interview[request[w].row] # NoRow
    /\ request[w].at = "deciding" =>
          \E i \in Of(request[w].pair) : interview[i] # NoRow

(* An idle request has checked nothing; any other one keeps what it found. *)
LEMMA RequestsStayInOrder ==
    ASSUME TypeOK, StagesInOrder, [Next]_vars, NEW v \in Workers
    PROVE  CheckedInOrder(v)'
<1>1. CASE request'[v] = request[v]
  BY <1>1, RowsStay, RequestShape DEF StagesInOrder, CheckedInOrder, Of
<1>2. CASE request'[v] = Idle
  BY <1>2 DEF CheckedInOrder, Idle
<1>3. ASSUME NEW w \in Workers, v # w,
             Arrive(w) \/ Progress(w) \/ Fail(w)
      PROVE  request'[v] = request[v]
  BY <1>3 DEF TypeOK, Arrive, Progress, Fail, CreateFeedback, ScheduleInterview,
              UpdateInterview, CreateSelection, ActiveConflict, InsertInterview,
              WriteInterview, InsertSelection, DuplicateSelection, Finish
<1>4. Progress(v) \/ Fail(v) => request'[v] = Idle
  BY DEF TypeOK, Progress, Fail, ActiveConflict, InsertInterview, WriteInterview,
         InsertSelection, DuplicateSelection, Finish
<1>5. ASSUME Arrive(v) PROVE CheckedInOrder(v)' \/ request'[v] = request[v]
  <2>1. ASSUME NEW p \in Pairs, NEW st \in Inputs, ScheduleInterview(v, p, st)
        PROVE  CheckedInOrder(v)'
    BY <2>1 DEF TypeOK, ScheduleInterview, CheckedInOrder, tables
  <2>2. ASSUME NEW i \in Interviews, NEW st \in Inputs, UpdateInterview(v, i, st)
        PROVE  CheckedInOrder(v)'
    BY <2>2 DEF TypeOK, UpdateInterview, CheckedInOrder, tables
  <2>3. ASSUME NEW p \in Pairs, NEW d \in Decisions, CreateSelection(v, p, d)
        PROVE  CheckedInOrder(v)'
    <3>1. PICK i \in Of(p) : interview[i] # NoRow
      BY <2>3, NoRowAssumption
         DEF CreateSelection, Interviewed, CompletedInterviews, InterviewStatuses
    <3> QED BY <2>3, <3>1 DEF TypeOK, CreateSelection, CheckedInOrder, tables, Of
  <2> QED BY <1>5, <2>1, <2>2, <2>3 DEF Arrive, CreateFeedback
<1>6. \/ request' = request
      \/ \E w \in Workers : Arrive(w) \/ Progress(w) \/ Fail(w)
  BY DEF Next, HandlerStep, SubmissionArrives, vars
<1> QED BY <1>1, <1>2, <1>3, <1>4, <1>5, <1>6

(* Every step keeps the stages of every pair in order.                     *)
LEMMA StagesStep == TypeOK /\ StagesInOrder /\ [Next]_vars => StagesInOrder'
<1> SUFFICES ASSUME TypeOK, StagesInOrder, [Next]_vars PROVE StagesInOrder'
  OBVIOUS
<1>1. feedback' \subseteq submissions'
  <2>1. \/ feedback' = feedback
        \/ \E w \in Workers, p \in Pairs : CreateFeedback(w, p)
    BY DEF Next, HandlerStep, Arrive, Progress, Fail, SubmissionArrives,
           ScheduleInterview, UpdateInterview, CreateSelection, ActiveConflict,
           InsertInterview, WriteInterview, InsertSelection, DuplicateSelection,
           tables, vars
  <2> QED BY <2>1, RowsStay DEF StagesInOrder, CreateFeedback, HasSubmission
<1>2. ASSUME NEW i \in Interviews, interview'[i] # NoRow PROVE PairOf[i] \in feedback'
  <2>1. CASE interview[i] # NoRow
    BY <2>1, RowsStay DEF StagesInOrder
  <2>2. CASE interview[i] = NoRow
    <3>1. ASSUME NEW w \in Workers, WriteInterview(w) PROVE FALSE
      BY <1>2, <2>2, <3>1, RequestShape DEF TypeOK, StagesInOrder, WriteInterview
    <3>2. ASSUME NEW w \in Workers, InsertInterview(w) PROVE PairOf[i] \in feedback
      BY <1>2, <2>2, <3>2 DEF TypeOK, StagesInOrder, InsertInterview, Of
    <3> QED BY <1>2, <2>2, <3>1, <3>2, RowsStay, WritersOfInterview
  <2> QED BY <2>1, <2>2
<1>3. ASSUME NEW p \in Pairs, selection'[p] # NoRow
      PROVE  \E i \in Of(p) : interview'[i] # NoRow
  <2>1. PICK i \in Of(p) : interview[i] # NoRow
    <3>1. CASE selection[p] # NoRow
      BY <3>1 DEF StagesInOrder
    <3>2. CASE selection[p] = NoRow
      BY <1>3, <3>2, WritersOfSelection DEF TypeOK, StagesInOrder, InsertSelection
    <3> QED BY <3>1, <3>2
  <2> QED BY <2>1, RowsStay DEF Of
<1>4. \A w \in Workers : CheckedInOrder(w)'
  BY RequestsStayInOrder
<1> QED BY <1>1, <1>2, <1>3, <1>4 DEF StagesInOrder, CheckedInOrder, Of

(* Feedback needs a submission, an interview feedback and a decision an    *)
(* interview, for any number of pairs and concurrent requests.             *)
THEOREM StagesOrdered == Spec => []StagesInOrder
<1>1. Init => StagesInOrder
  BY DEF Init, StagesInOrder, Idle
<1> QED BY <1>1, InterviewTypes, StagesStep, PTL DEF Spec
=============================================================================
