------------------------- MODULE InterviewSelection -------------------------
(***************************************************************************)
(* Client feedback, interviews and the selection decision of one tenant.   *)
(*   feedback.Service.CreateFeedback         insert after plain reads      *)
(*   ScheduleInterview, UpdateInterview      plain reads, then one write   *)
(*   CreateCandidateRequirementSelection     one transaction, no row lock  *)
(* None of these handlers locks what it has read: a request remembers that *)
(* its checks passed, other requests commit, and only the unique indexes   *)
(* of the tables still stand between it and its write.  A write, its audit *)
(* event and its commit are one step, because the transaction reads        *)
(* nothing else and becomes visible at its commit.                         *)
(***************************************************************************)
EXTENDS Naturals, FiniteSets

CONSTANTS Pairs,       \* candidate and requirement, the recruitment context
          Interviews,  \* ids the interview sequence can hand out (bound)
          PairOf,      \* the pair of each interview id
          NoRow,       \* the table has no row
          Workers      \* concurrent requests (bound)

ASSUME PairOfAssumption == PairOf \in [Interviews -> Pairs]

ActiveStatuses == {"scheduled", "rescheduled"}
InterviewStatuses == ActiveStatuses \cup {"completed", "cancelled", "no_show"}
Decisions == {"selected", "rejected"}
Inputs == InterviewStatuses \cup {"other"}   \* statuses a client may send

ASSUME NoRowAssumption == NoRow \notin InterviewStatuses \cup Decisions

VARIABLES
    submissions,  \* pairs submitted to the client, written upstream
    feedback,     \* pairs whose submission has client feedback
    interview,    \* interviews.status, NoRow when not inserted
    selection,    \* recruitment_selections.decision of each pair
    audit,        \* audit_events written by these handlers
    request       \* where each worker is in its handler, and with what

tables == <<feedback, interview, selection, audit>>
vars == <<submissions, feedback, interview, selection, audit, request>>

Idle == [at |-> "idle"]
Requests ==
    {Idle}
    \cup [at : {"scheduling"}, pair : Pairs, status : InterviewStatuses]
    \cup [at : {"updating"}, row : Interviews, status : InterviewStatuses]
    \cup [at : {"deciding"}, pair : Pairs, decision : Decisions]

AuditEvents ==
    ({"feedback", "selection"} \X Pairs \X {"created"})
    \cup ({"interview"} \X Interviews \X {"scheduled", "updated"})

Of(p) == {i \in Interviews : PairOf[i] = p}
ActiveInterviews(p) == {i \in Of(p) : interview[i] \in ActiveStatuses}
CompletedInterviews(p) == {i \in Of(p) : interview[i] = "completed"}

TypeOK ==
    /\ submissions \subseteq Pairs
    /\ feedback \subseteq Pairs
    /\ interview \in [Interviews -> InterviewStatuses \cup {NoRow}]
    /\ selection \in [Pairs -> Decisions \cup {NoRow}]
    /\ audit \subseteq AuditEvents
    /\ request \in [Workers -> Requests]

Init ==
    /\ submissions = {}
    /\ feedback = {}
    /\ interview = [i \in Interviews |-> NoRow]
    /\ selection = [p \in Pairs |-> NoRow]
    /\ audit = {}
    /\ request = [w \in Workers |-> Idle]

Finish(w) == request' = [request EXCEPT ![w] = Idle]

(* A statement or the commit fails or the server dies: nothing is written. *)
Fail(w) ==
    /\ request[w] # Idle
    /\ Finish(w)
    /\ UNCHANGED <<submissions, tables>>

-----------------------------------------------------------------------------
(* Upstream: a submission of p is committed.  Submissions are never        *)
(* updated or deleted.                                                     *)
SubmissionArrives(p) ==
    /\ p \notin submissions
    /\ submissions' = submissions \cup {p}
    /\ UNCHANGED <<tables, request>>

(* CreateFeedback.  The submission it found cannot disappear, so its reads *)
(* and its transaction are one step; every outcome opens the same gate.    *)
HasSubmissionMutant(p) == TRUE
HasSubmission(p) == p \in submissions

CreateFeedback(w, p) ==
    /\ request[w] = Idle
    /\ HasSubmission(p)
    /\ feedback' = feedback \cup {p}
    /\ audit' = audit \cup {<<"feedback", p, "created">>}
    /\ UNCHANGED <<submissions, interview, selection, request>>

-----------------------------------------------------------------------------
(***************************************************************************)
(* Interviews.  The check for another active interview is made before the  *)
(* transaction; uq_interviews_active_candidate_requirement, a unique index *)
(* over the pairs of active rows, repeats it inside.                       *)
(***************************************************************************)
IndexAdmitsMutant(p, others, st) == TRUE
IndexAdmits(p, others, st) ==
    st \in ActiveStatuses => ActiveInterviews(p) \cap others = {}

ValidStatusMutant(st) == TRUE
ValidStatus(st) == st \in InterviewStatuses

ScheduleInterview(w, p, st) ==
    /\ request[w] = Idle
    /\ ValidStatus(st)
    /\ HasSubmission(p)
    /\ p \in feedback
    /\ ActiveInterviews(p) = {}
    /\ request' = [request EXCEPT ![w] =
                     [at |-> "scheduling", pair |-> p, status |-> st]]
    /\ UNCHANGED <<submissions, tables>>

InsertInterview(w) ==
    /\ request[w].at = "scheduling"
    /\ IndexAdmits(request[w].pair, Interviews, request[w].status)
    /\ \E i \in Of(request[w].pair) :
          /\ interview[i] = NoRow
          /\ interview' = [interview EXCEPT ![i] = request[w].status]
          /\ audit' = audit \cup {<<"interview", i, "scheduled">>}
    /\ Finish(w)
    /\ UNCHANGED <<submissions, feedback, selection>>

UpdateInterview(w, i, st) ==
    /\ request[w] = Idle
    /\ ValidStatus(st)
    /\ interview[i] # NoRow
    /\ st \in ActiveStatuses => ActiveInterviews(PairOf[i]) \subseteq {i}
    /\ request' = [request EXCEPT ![w] =
                     [at |-> "updating", row |-> i, status |-> st]]
    /\ UNCHANGED <<submissions, tables>>

WriteInterview(w) ==
    LET i == request[w].row IN
    /\ request[w].at = "updating"
    /\ IndexAdmits(PairOf[i], Interviews \ {i}, request[w].status)
    /\ interview' = [interview EXCEPT ![i] = request[w].status]
    /\ audit' = audit \cup {<<"interview", i, "updated">>}
    /\ Finish(w)
    /\ UNCHANGED <<submissions, feedback, selection>>

(* The index rejects the write (23505): 409, and nothing is written.       *)
ActiveConflict(w) ==
    /\ \/ /\ request[w].at = "scheduling"
          /\ ~IndexAdmits(request[w].pair, Interviews, request[w].status)
       \/ /\ request[w].at = "updating"
          /\ ~IndexAdmits(PairOf[request[w].row],
                          Interviews \ {request[w].row}, request[w].status)
    /\ Finish(w)
    /\ UNCHANGED <<submissions, tables>>

-----------------------------------------------------------------------------
(***************************************************************************)
(* The selection decision.  The completed interview is looked up inside    *)
(* the transaction but not locked; one decision per pair is left to the    *)
(* unique constraint.                                                      *)
(***************************************************************************)
InterviewedMutant(p) == p \in feedback
Interviewed(p) == CompletedInterviews(p) # {}

CreateSelection(w, p, d) ==
    /\ request[w] = Idle
    /\ Interviewed(p)
    /\ request' = [request EXCEPT ![w] =
                     [at |-> "deciding", pair |-> p, decision |-> d]]
    /\ UNCHANGED <<submissions, tables>>

UndecidedMutant(p) == TRUE
Undecided(p) == selection[p] = NoRow

InsertSelection(w) ==
    LET p == request[w].pair IN
    /\ request[w].at = "deciding"
    /\ Undecided(p)
    /\ selection' = [selection EXCEPT ![p] = request[w].decision]
    /\ audit' = audit \cup {<<"selection", p, "created">>}
    /\ Finish(w)
    /\ UNCHANGED <<submissions, feedback, interview>>

DuplicateSelection(w) ==
    /\ request[w].at = "deciding"
    /\ ~Undecided(request[w].pair)
    /\ Finish(w)
    /\ UNCHANGED <<submissions, tables>>

-----------------------------------------------------------------------------
Arrive(w) ==
    \/ \E p \in Pairs : CreateFeedback(w, p)
    \/ \E p \in Pairs, st \in Inputs : ScheduleInterview(w, p, st)
    \/ \E i \in Interviews, st \in Inputs : UpdateInterview(w, i, st)
    \/ \E p \in Pairs, d \in Decisions : CreateSelection(w, p, d)

Progress(w) ==
    \/ InsertInterview(w)
    \/ WriteInterview(w)
    \/ ActiveConflict(w)
    \/ InsertSelection(w)
    \/ DuplicateSelection(w)

HandlerStep == \E w \in Workers : Arrive(w) \/ Progress(w) \/ Fail(w)
Next == HandlerStep \/ \E p \in Pairs : SubmissionArrives(p)

Spec == Init /\ [][Next]_vars

-----------------------------------------------------------------------------
(* At most one interview of a pair is scheduled or rescheduled, although   *)
(* both handlers look for another active one before their transaction and  *)
(* two requests can pass that look together.                               *)
OneActiveInterview ==
    \A p \in Pairs : Cardinality(ActiveInterviews(p)) <= 1

(* The stages of a pair never get ahead of each other: feedback needs a    *)
(* submission, an interview needs feedback, a decision needs an interview. *)
(* It holds for what requests in flight have checked as well, so no row a  *)
(* check relied on is taken away under it.                                 *)
StagesInOrder ==
    /\ feedback \subseteq submissions
    /\ \A i \in Interviews : interview[i] # NoRow => PairOf[i] \in feedback
    /\ \A p \in Pairs : selection[p] # NoRow =>
          \E i \in Of(p) : interview[i] # NoRow
    /\ \A w \in Workers :
          /\ request[w].at = "scheduling" => request[w].pair \in feedback
          /\ request[w].at = "updating" => interview[request[w].row] # NoRow
          /\ request[w].at = "deciding" =>
                \E i \in Of(request[w].pair) : interview[i] # NoRow

(* A decision is final: of two recruiters deciding on a pair at the same   *)
(* time the first commit stands, and nothing changes or deletes it later.  *)
DecisionIsFinal ==
    [][\A p \in Pairs : selection[p] # NoRow => selection'[p] = selection[p]]_vars
=============================================================================
