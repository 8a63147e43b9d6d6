------------------------------ MODULE EditPages ------------------------------
(***************************************************************************)
(* The parts of the application that change what is already there: the     *)
(* handlers of UserAccounts and six pages, each with the server behind     *)
(* it.  They share no state, so a behaviour is one of one part; part says  *)
(* which, and one run checks them all.                                     *)
(***************************************************************************)
EXTENDS UserAccounts

CONSTANTS Ids, Seats, MaxSends,                        \* AdminUsersPage
          Candidates, Nobody, MaxUpdates, MaxUploads,  \* CandidatesPage
          MaxPuts,                                     \* InterviewPage
          Pairs, NoPair, Loads, MaxClicks,             \* BillingPage
          Tabs, MaxCodes, MaxAttempts, MaxCheckouts, MaxEvents,  \* CheckoutPage
          Resumes, NoResume,                           \* ResumePage
          Slots                                        \* operations in flight on a page (bound)

ASSUME NobodyAssumption == Nobody \notin Candidates
ASSUME NoPairAssumption == NoPair \notin Pairs
ASSUME NoResumeAssumption == NoResume \notin Resumes
ASSUME InFlightAssumption == Slots # {} /\ Loads # {} /\ "mount" \notin Slots
ASSUME CountsAssumption == {MaxSends, MaxUpdates, MaxUploads, MaxPuts, MaxClicks, MaxCodes,
                            MaxAttempts, MaxCheckouts, MaxEvents} \subseteq Nat

VARIABLES
    part,
    there, cache, fetching, form, sent, sends, trouble,
    stored, candidates, isLoading, error, updates, target, dialog, uploads, spent, blurred,
    interview, data, asking, isError, puts, count, unseen,
    joined, billed, items, listed, loading, loads, creates, creatingKey, amounts, clicks, overlapped,
    missed,
    codes, phoneVerified, subscription, checkouts, orphans, paid, events, tabs, requests,
    status, history, repository, results, actionId, uploading, searching, ops, retries, raced,
    leftBehind, lost

AdminUsers == INSTANCE AdminUsersPage
CandidateList == INSTANCE CandidatesPage
InterviewDetails == INSTANCE InterviewPage WITH fetching <- asking
Billing == INSTANCE BillingPage WITH unseen <- missed
Checkout == INSTANCE CheckoutPage
ResumeAI == INSTANCE ResumePage
    WITH rows <- repository, clicks <- retries, marred <- leftBehind, missed <- lost

Parts == {"users", "admin", "candidates", "interview", "billing", "checkout", "resumes"}

PagesInit ==
    /\ part \in Parts
    /\ Init /\ AdminUsers!Init /\ CandidateList!Init /\ InterviewDetails!Init
    /\ Billing!Init /\ Checkout!Init /\ ResumeAI!Init
    \* one beginning for the parts that do not move
    /\ part # "admin" => \A i \in Ids : there[i] = "none"
    /\ part # "billing" => joined = {} /\ billed = {}
    /\ part # "resumes" => \A r \in Resumes : status[r] = "completed"

adminVars == <<there, cache, fetching, form, sent, sends, trouble>>
candidateVars == <<stored, candidates, isLoading, error, updates, target, dialog, uploads,
                   spent, blurred>>
interviewVars == <<interview, data, asking, isError, puts, count, unseen>>
billingVars == <<joined, billed, items, listed, loading, loads, creates, creatingKey, amounts,
                 clicks, overlapped, missed>>
checkoutVars == <<codes, phoneVerified, subscription, checkouts, orphans, paid, events, tabs,
                  requests>>
resumeVars == <<status, history, repository, results, actionId, uploading, searching, ops,
                retries, raced, leftBehind, lost>>
allVars == <<part, vars, adminVars, candidateVars, interviewVars, billingVars, checkoutVars,
             resumeVars>>

(* Only the chosen part moves.                                             *)
UsersMove ==
    /\ part = "users" /\ Next
    /\ UNCHANGED <<part, adminVars, candidateVars, interviewVars, billingVars, checkoutVars,
                   resumeVars>>
AdminMoves ==
    /\ part = "admin" /\ AdminUsers!Next
    /\ UNCHANGED <<part, vars, candidateVars, interviewVars, billingVars, checkoutVars, resumeVars>>
CandidatesMove ==
    /\ part = "candidates" /\ CandidateList!Next
    /\ UNCHANGED <<part, vars, adminVars, interviewVars, billingVars, checkoutVars, resumeVars>>
InterviewMoves ==
    /\ part = "interview" /\ InterviewDetails!Next
    /\ UNCHANGED <<part, vars, adminVars, candidateVars, billingVars, checkoutVars, resumeVars>>
BillingMoves ==
    /\ part = "billing" /\ Billing!Next
    /\ UNCHANGED <<part, vars, adminVars, candidateVars, interviewVars, checkoutVars, resumeVars>>
CheckoutMoves ==
    /\ part = "checkout" /\ Checkout!Next
    /\ UNCHANGED <<part, vars, adminVars, candidateVars, interviewVars, billingVars, resumeVars>>
ResumesMove ==
    /\ part = "resumes" /\ ResumeAI!Next
    /\ UNCHANGED <<part, vars, adminVars, candidateVars, interviewVars, billingVars,
                   checkoutVars>>

PagesNext ==
    \/ UsersMove \/ AdminMoves \/ CandidatesMove \/ InterviewMoves \/ BillingMoves
    \/ CheckoutMoves \/ ResumesMove

PagesSpec == PagesInit /\ [][PagesNext]_allVars

-----------------------------------------------------------------------------
(* The states of all parts are states of their components.                 *)
PagesTypeOK ==
    /\ TypeOK /\ AdminUsers!TypeOK /\ CandidateList!TypeOK /\ InterviewDetails!TypeOK
    /\ Billing!TypeOK /\ Checkout!TypeOK /\ ResumeAI!TypeOK

(* When nothing is in flight a page shows what the server has (users and   *)
(* seats, stages, the interview, the worklist, the statuses of resumes),   *)
(* unless an answer was lost or overtaken or somebody else was at work.    *)
PagesCatchUp ==
    /\ AdminUsers!ListAndSeatsCatchUp /\ CandidateList!StagesInStep
    /\ InterviewDetails!DetailsCatchUp /\ Billing!WorklistCatchesUp
    /\ ResumeAI!RepositoryCatchesUp

(* A flag or a status that says "at work" has work behind it: no button    *)
(* stays locked and no resume stays 'processing' when the work has ended.  *)
WaitingMeansWork ==
    Billing!WaitingMeansWork /\ ResumeAI!ButtonsComeBack /\ ResumeAI!ProcessingMeansWork

(* One form, one note and one button lock serve all rows, and still what   *)
(* was entered for one user or candidate never goes to another, and        *)
(* retries of a resume that do not overlap leave one history.              *)
WritesReachTheirRow ==
    /\ AdminUsers!EditsReachTheirUser /\ CandidateList!FilesReachTheirCandidate
    /\ ResumeAI!HistoryOnce

(* Guesses at a code are bounded, a code works once, and payment is        *)
(* offered on the administrator's own phone only.                          *)
PaymentIsGuarded == Checkout!CodesAreGuarded /\ Checkout!PaymentMeansOwnPhone
=============================================================================
