------------------------- MODULE ScreeningAdmission -------------------------
(***************************************************************************)
(* Screening admission and submission of candidates to clients, inside one *)
(* tenant database.  HTTP requests run concurrently; each is a worker that *)
(* walks through the statements of its handler.  The handlers are          *)
(*   CreateCandidateScreening   one transaction gated by the candidate row *)
(*   UpdateCandidateScreening   one transaction gated by the screening row *)
(*   submission.Service.Submit  plain reads, then a transaction that locks *)
(*                              a completed screening and inserts          *)
(* PostgreSQL runs at READ COMMITTED: a plain read sees committed rows, a  *)
(* locking read or an UPDATE waits for the row lock.  The tables below     *)
(* hold committed values only; what a transaction wrote becomes visible in *)
(* its commit step, until then its row locks keep other writers out.       *)
(***************************************************************************)
EXTENDS Naturals, FiniteSets

CONSTANTS Candidates,     \* candidate ids
          Requirements,   \* requirement ids
          Screenings,     \* ids the screening sequence can hand out (bound)
          PairOf,         \* candidate and requirement of each screening id
          Limit,          \* candidates.screening_limit
          Workers,        \* concurrent requests (bound)
          NoWorker        \* "row not locked"

Pairs == Candidates \X Requirements
Outcomes == {"completed", "rejected", "withdrawn"}
NotInserted == "none"
Bodies == {"active"} \cup Outcomes      \* statuses a client may send
Statuses == {NotInserted} \cup Bodies

ASSUME ScreeningsAssumption == IsFiniteSet(Screenings)
ASSUME PairOfAssumption == PairOf \in [Screenings -> Pairs]
ASSUME LimitAssumption == Limit \in [Candidates -> Nat \ {0}]
ASSUME NoWorkerAssumption == NoWorker \notin Workers

VARIABLES
    count,          \* candidates.screening_count
    status,         \* recruitment_screenings.status of each screening id
    submissions,    \* pairs that have a recruitment_submissions row
    audit,          \* audit_events written by these handlers
    candidateLock,  \* worker holding the row lock of each candidate
    screeningLock,  \* worker holding the row lock of each screening
    request         \* where each worker is in its handler, and with what

tables == <<count, status, submissions, audit>>
locks == <<candidateLock, screeningLock>>
vars == <<count, status, submissions, audit, candidateLock, screeningLock, request>>

Idle == [at |-> "idle"]
Requests ==
    {Idle}
    \cup [at : {"slotTaken", "checked"}, pair : Pairs]
    \cup [at : {"screeningLocked", "slotReturned"}, row : Screenings,
          outcome : Outcomes, previous : Statuses]
    \cup [at : {"evidenceLocked"}, pair : Pairs, row : Screenings]

CandidateOf(s) == PairOf[s][1]
Active(c) == {s \in Screenings : CandidateOf(s) = c /\ status[s] = "active"}
Completed(p) == {s \in Screenings : PairOf[s] = p /\ status[s] = "completed"}
Unused(p) == {s \in Screenings : PairOf[s] = p /\ status[s] = NotInserted}

AuditEvents ==
    ({"screening"} \X Screenings \X {"created", "updated"})
    \cup ({"submission"} \X Pairs \X {"created"})

TypeOK ==
    /\ count \in [Candidates -> Nat]
    /\ status \in [Screenings -> Statuses]
    /\ submissions \subseteq Pairs
    /\ audit \subseteq AuditEvents
    /\ candidateLock \in [Candidates -> Workers \cup {NoWorker}]
    /\ screeningLock \in [Screenings -> Workers \cup {NoWorker}]
    /\ request \in [Workers -> Requests]

Init ==
    /\ count = [c \in Candidates |-> 0]
    /\ status = [s \in Screenings |-> NotInserted]
    /\ submissions = {}
    /\ audit = {}
    /\ candidateLock = [c \in Candidates |-> NoWorker]
    /\ screeningLock = [s \in Screenings |-> NoWorker]
    /\ request = [w \in Workers |-> Idle]

-----------------------------------------------------------------------------
(***************************************************************************)
(* Row locks and the ends of a transaction.                                *)
(***************************************************************************)
ScreeningUnlockedMutant(s) == TRUE
ScreeningUnlocked(s) == screeningLock[s] = NoWorker

CandidateLockAfterMutant(w) == candidateLock
CandidateLockAfter(w) ==
    [c \in Candidates |-> IF candidateLock[c] = w THEN NoWorker
                                                  ELSE candidateLock[c]]

ScreeningLockAfter(w) ==
    [s \in Screenings |-> IF screeningLock[s] = w THEN NoWorker
                                                  ELSE screeningLock[s]]

(* COMMIT or ROLLBACK: the locks of the transaction go, the request ends. *)
Finish(w) ==
    /\ candidateLock' = CandidateLockAfter(w)
    /\ screeningLock' = ScreeningLockAfter(w)
    /\ request' = [request EXCEPT ![w] = Idle]

(* A statement or the commit fails, the client is gone, or the server dies *)
(* in the middle of the handler: nothing of the transaction remains.       *)
Fail(w) ==
    /\ request[w] # Idle
    /\ Finish(w)
    /\ UNCHANGED tables

-----------------------------------------------------------------------------
(***************************************************************************)
(* CreateCandidateScreening.  The conditional UPDATE of the candidate row  *)
(* takes the row lock and counts the slot in one statement; with no slot   *)
(* left it matches no row and the handler answers 409 with no effect.      *)
(***************************************************************************)
HasSlotMutant(c) == count[c] <= Limit[c]
HasSlot(c) == count[c] < Limit[c]

TakeSlot(w, p) ==
    LET c == p[1] IN
    /\ request[w] = Idle
    /\ Unused(p) # {}
    /\ candidateLock[c] = NoWorker
    /\ HasSlot(c)
    /\ candidateLock' = [candidateLock EXCEPT ![c] = w]
    /\ request' = [request EXCEPT ![w] = [at |-> "slotTaken", pair |-> p]]
    /\ UNCHANGED <<tables, screeningLock>>

RecordScreening(w) ==
    /\ request[w].at = "slotTaken"
    /\ \E s \in Unused(request[w].pair) :
          /\ status' = [status EXCEPT ![s] = "active"]
          /\ count' = [count EXCEPT ![CandidateOf(s)] = @ + 1]
          /\ audit' = audit \cup {<<"screening", s, "created">>}
    /\ Finish(w)
    /\ UNCHANGED submissions

-----------------------------------------------------------------------------
(***************************************************************************)
(* UpdateCandidateScreening.  SELECT ... FOR UPDATE reads the previous     *)
(* status under the row lock; only a screening that was active gives its   *)
(* slot back, by a second conditional UPDATE of the candidate row.         *)
(***************************************************************************)
AcceptedOutcomesMutant == Bodies
AcceptedOutcomes == Outcomes

LockScreening(w, s, o) ==
    /\ request[w] = Idle
    /\ o \in AcceptedOutcomes
    /\ status[s] # NotInserted
    /\ ScreeningUnlocked(s)
    /\ screeningLock' = [screeningLock EXCEPT ![s] = w]
    /\ request' = [request EXCEPT ![w] =
                     [at |-> "screeningLocked", row |-> s, outcome |-> o,
                      previous |-> status[s]]]
    /\ UNCHANGED <<tables, candidateLock>>

ReturnSlot(w) ==
    LET c == CandidateOf(request[w].row) IN
    /\ request[w].at = "screeningLocked"
    /\ request[w].previous = "active"
    /\ candidateLock[c] = NoWorker
    /\ count[c] > 0
    /\ candidateLock' = [candidateLock EXCEPT ![c] = w]
    /\ request' = [request EXCEPT ![w] =
                     [at |-> "slotReturned", row |-> request[w].row,
                      outcome |-> request[w].outcome, previous |-> "active"]]
    /\ UNCHANGED <<tables, screeningLock>>

(* The candidate's count once w commits: the slot is back if it was taken. *)
CountAfterMutant(w) ==
    [count EXCEPT ![CandidateOf(request[w].row)] = @ - 1]
CountAfter(w) ==
    IF request[w].at = "slotReturned"
    THEN [count EXCEPT ![CandidateOf(request[w].row)] = @ - 1]
    ELSE count

(* A rejected screening that takes the submission of its pair with it.     *)
RecordOutcomeMutant(w) ==
    LET s == request[w].row IN
    /\ request[w].at \in {"screeningLocked", "slotReturned"}
    /\ status' = [status EXCEPT ![s] = request[w].outcome]
    /\ submissions' = IF request[w].outcome = "rejected"
                      THEN submissions \ {PairOf[s]} ELSE submissions
    /\ audit' = audit \cup {<<"screening", s, "updated">>}
    /\ Finish(w)
    /\ UNCHANGED count

RecordOutcome(w) ==
    LET s == request[w].row IN
    /\ \/ request[w].at = "slotReturned"
       \/ request[w].at = "screeningLocked" /\ request[w].previous # "active"
    /\ status' = [status EXCEPT ![s] = request[w].outcome]
    /\ count' = CountAfter(w)
    /\ audit' = audit \cup {<<"screening", s, "updated">>}
    /\ Finish(w)
    /\ UNCHANGED submissions

-----------------------------------------------------------------------------
(***************************************************************************)
(* submission.Service.Submit.  The first reads are outside any transaction *)
(* and may be stale when the transaction begins; it looks again for a      *)
(* completed screening, locking it, and the unique index on the pair       *)
(* decides between two submissions.  The newest unlocked completed         *)
(* screening is any of them here: no property depends on which one.        *)
(***************************************************************************)
CheckSubmission(w, p) ==
    /\ request[w] = Idle
    /\ Completed(p) # {}
    /\ p \notin submissions
    /\ request' = [request EXCEPT ![w] = [at |-> "checked", pair |-> p]]
    /\ UNCHANGED <<tables, locks>>

EvidenceMutant(p) == {s \in Screenings : PairOf[s] = p /\ status[s] # NotInserted}
Evidence(p) == Completed(p)

LockEvidence(w) ==
    /\ request[w].at = "checked"
    /\ \E s \in Evidence(request[w].pair) :
          /\ ScreeningUnlocked(s)
          /\ screeningLock' = [screeningLock EXCEPT ![s] = w]
          /\ request' = [request EXCEPT ![w] =
                [at |-> "evidenceLocked", pair |-> request[w].pair, row |-> s]]
    /\ UNCHANGED <<tables, candidateLock>>

EvidenceGone(w) ==
    /\ request[w].at = "checked"
    /\ Evidence(request[w].pair) = {}
    /\ Finish(w)
    /\ UNCHANGED tables

RecordSubmission(w) ==
    LET p == request[w].pair IN
    /\ request[w].at = "evidenceLocked"
    /\ p \notin submissions
    /\ submissions' = submissions \cup {p}
    /\ audit' = audit \cup {<<"submission", p, "created">>}
    /\ Finish(w)
    /\ UNCHANGED <<count, status>>

DuplicateSubmission(w) ==
    /\ request[w].at = "evidenceLocked"
    /\ request[w].pair \in submissions
    /\ Finish(w)
    /\ UNCHANGED tables

-----------------------------------------------------------------------------
(* The steps of a request after its first one. *)
Progress(w) ==
    \/ RecordScreening(w)
    \/ ReturnSlot(w)
    \/ RecordOutcome(w)
    \/ LockEvidence(w)
    \/ EvidenceGone(w)
    \/ RecordSubmission(w)
    \/ DuplicateSubmission(w)

Arrive(w) ==
    \/ \E p \in Pairs : TakeSlot(w, p) \/ CheckSubmission(w, p)
    \/ \E s \in Screenings, o \in Bodies : LockScreening(w, s, o)

Next == \E w \in Workers : Arrive(w) \/ Progress(w) \/ Fail(w)

Spec == Init /\ [][Next]_vars

(* net/http runs every request in a goroutine of its own and PostgreSQL    *)
(* hands a released row lock to a waiter, so a request whose next step is  *)
(* possible again and again takes it.  Nothing makes new requests arrive.  *)
Fairness == \A w \in Workers : SF_vars(Progress(w))
FairSpec == Spec /\ Fairness

-----------------------------------------------------------------------------
(* candidates.screening_count is the number of the candidate's active      *)
(* screenings, and never above screening_limit, whatever creates, updates  *)
(* and failures of requests interleave: the counter is a second copy of    *)
(* what the screening rows say, kept by conditional updates alone.         *)
CountMatchesActive ==
    \A c \in Candidates :
        /\ count[c] = Cardinality(Active(c))
        /\ count[c] <= Limit[c]

(* A submission is committed while a completed screening of the same pair  *)
(* exists and stays completed in that step, although the first check of    *)
(* the handler may have been made long before another recruiter rejected   *)
(* the screening.                                                          *)
SubmittedOnEvidence ==
    [][\A p \in submissions' \ submissions :
          \E s \in Completed(p) : status'[s] = "completed"]_vars

(* The audit trail tells which screenings were closed: a screening has an  *)
(* outcome exactly when an update of it was audited, and a submission      *)
(* exists exactly when its creation was.                                   *)
AuditTellsTheTables ==
    /\ \A s \in Screenings :
          /\ status[s] # NotInserted <=> <<"screening", s, "created">> \in audit
          /\ status[s] \in Outcomes <=> <<"screening", s, "updated">> \in audit
    /\ submissions = {p \in Pairs : <<"submission", p, "created">> \in audit}

(* Every request ends: no two handlers wait for each other's row locks and *)
(* no lock outlives its transaction.  The slot of an active screening can  *)
(* always be given back, so "screening count is inconsistent" never stops  *)
(* an update.                                                              *)
RequestsEnd == \A w \in Workers : request[w] # Idle ~> request[w] = Idle

(* The handlers implement the slot pool: the screenings holding a slot are *)
(* the active ones, and one that has an outcome never becomes active again.*)
Slots == INSTANCE ScreeningSlots WITH
            OwnerOf <- [s \in Screenings |-> CandidateOf(s)],
            holding <- [c \in Candidates |-> Active(c)],
            released <- {s \in Screenings : status[s] \in Outcomes}
SlotPool == Slots!Spec
=============================================================================
