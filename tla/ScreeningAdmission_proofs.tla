---------------------- MODULE ScreeningAdmission_proofs ----------------------
(***************************************************************************)
(* Proofs about ScreeningAdmission, for every set of candidates,           *)
(* requirements and concurrent requests, every screening limit and any     *)
(* finite number of screenings.                                            *)
(***************************************************************************)
EXTENDS ScreeningAdmission, FiniteSetTheorems, TLAPS

(* The candidate of a screening is a candidate.                            *)
LEMMA OwnerType == \A s \in Screenings : CandidateOf(s) \in Candidates
  BY PairOfAssumption DEF CandidateOf, Pairs

(* What a request record says about itself, by the place it is at.         *)
LEMMA RequestShape ==
    ASSUME NEW r \in Requests
    PROVE  /\ r.at \in {"slotTaken", "checked", "evidenceLocked"} =>
                 r.pair \in Pairs /\ r.pair[1] \in Candidates
           /\ r.at \in {"screeningLocked", "slotReturned"} =>
                 /\ r.outcome \in Outcomes
                 /\ r.previous \in Statuses
           /\ r.at \in {"screeningLocked", "slotReturned", "evidenceLocked"} =>
                 r.row \in Screenings
           /\ r.at = "idle" <=> r = Idle
  BY DEF Requests, Idle, Pairs

(* Committing or rolling back keeps the types of locks and requests.       *)
LEMMA FinishTypes ==
    ASSUME TypeOK, NEW w \in Workers, Finish(w)
    PROVE  /\ candidateLock' \in [Candidates -> Workers \cup {NoWorker}]
           /\ screeningLock' \in [Screenings -> Workers \cup {NoWorker}]
           /\ request' \in [Workers -> Requests]
  BY DEF TypeOK, Finish, CandidateLockAfter, ScreeningLockAfter, Requests

(* An empty tenant is well typed.                                          *)
LEMMA InitType == Init => TypeOK
  BY DEF Init, TypeOK, Statuses, Requests

(* CreateCandidateScreening and UpdateCandidateScreening.  A returned slot *)
(* is one that was counted: the guard count > 0 keeps the count in Nat.    *)
LEMMA ScreeningTypes ==
    ASSUME TypeOK, NEW w \in Workers
    PROVE  /\ \A p \in Pairs : TakeSlot(w, p) => TypeOK'
           /\ RecordScreening(w) => TypeOK'
           /\ \A s \in Screenings, o \in Bodies : LockScreening(w, s, o) => TypeOK'
           /\ ReturnSlot(w) => TypeOK'
           /\ RecordOutcome(w) /\ CountAfter(w) \in [Candidates -> Nat] => TypeOK'
<1>1. ASSUME NEW p \in Pairs, TakeSlot(w, p) PROVE TypeOK'
  <2>1. [at |-> "slotTaken", pair |-> p] \in Requests
    BY DEF Requests
  <2>2. candidateLock' \in [Candidates -> Workers \cup {NoWorker}]
    BY <1>1 DEF TypeOK, TakeSlot
  <2> QED BY <1>1, <2>1, <2>2 DEF TypeOK, TakeSlot, tables
<1>2. ASSUME RecordScreening(w) PROVE TypeOK'
  <2>1. PICK s \in Unused(request[w].pair) :
          /\ status' = [status EXCEPT ![s] = "active"]
          /\ count' = [count EXCEPT ![CandidateOf(s)] = @ + 1]
          /\ audit' = audit \cup {<<"screening", s, "created">>}
    BY <1>2 DEF RecordScreening
  <2>2. s \in Screenings
    BY DEF Unused
  <2>3. audit' \subseteq AuditEvents
    BY <2>1, <2>2 DEF TypeOK, AuditEvents
  <2>4. status' \in [Screenings -> Statuses]
    BY <2>1, <2>2 DEF TypeOK, Statuses, Bodies
  <2>5. count' \in [Candidates -> Nat]
    BY <2>1, <2>2, OwnerType DEF TypeOK
  <2> QED BY <1>2, <2>3, <2>4, <2>5, FinishTypes DEF TypeOK, RecordScreening
<1>3. ASSUME NEW s \in Screenings, NEW o \in Bodies, LockScreening(w, s, o) PROVE TypeOK'
  <2>1. [at |-> "screeningLocked", row |-> s, outcome |-> o, previous |-> status[s]]
           \in Requests
    BY <1>3 DEF TypeOK, LockScreening, AcceptedOutcomes, Requests
  <2>2. screeningLock' \in [Screenings -> Workers \cup {NoWorker}]
    BY <1>3 DEF TypeOK, LockScreening
  <2> QED BY <1>3, <2>1, <2>2 DEF TypeOK, LockScreening, tables
<1>4. ASSUME ReturnSlot(w) PROVE TypeOK'
  <2>1. request[w].row \in Screenings /\ request[w].outcome \in Outcomes
    BY <1>4, RequestShape DEF TypeOK, ReturnSlot
  <2>2. [at |-> "slotReturned", row |-> request[w].row,
         outcome |-> request[w].outcome, previous |-> "active"] \in Requests
    BY <2>1 DEF Requests, Statuses, Bodies
  <2>3. candidateLock' \in [Candidates -> Workers \cup {NoWorker}]
    BY <1>4, <2>1, OwnerType DEF TypeOK, ReturnSlot
  <2>4. request' \in [Workers -> Requests]
    BY <1>4, <2>2 DEF TypeOK, ReturnSlot
  <2> QED BY <1>4, <2>3, <2>4 DEF TypeOK, ReturnSlot, tables
<1>5. ASSUME RecordOutcome(w), CountAfter(w) \in [Candidates -> Nat] PROVE TypeOK'
  <2>1. request[w].row \in Screenings /\ request[w].outcome \in Outcomes
    BY <1>5, RequestShape DEF TypeOK, RecordOutcome
  <2>2. audit' \subseteq AuditEvents
    BY <1>5, <2>1 DEF TypeOK, RecordOutcome, AuditEvents
  <2>3. status' \in [Screenings -> Statuses]
    BY <1>5, <2>1 DEF TypeOK, RecordOutcome, Statuses, Bodies
  <2> QED BY <1>5, <2>2, <2>3, FinishTypes DEF TypeOK, RecordOutcome
<1> QED BY <1>1, <1>2, <1>3, <1>4, <1>5

(* submission.Service.Submit.                                              *)
LEMMA SubmissionTypes ==
    ASSUME TypeOK, NEW w \in Workers
    PROVE  /\ \A p \in Pairs : CheckSubmission(w, p) => TypeOK'
           /\ LockEvidence(w) => TypeOK'
           /\ EvidenceGone(w) => TypeOK'
           /\ RecordSubmission(w) => TypeOK'
           /\ DuplicateSubmission(w) => TypeOK'
<1>1. ASSUME NEW p \in Pairs, CheckSubmission(w, p) PROVE TypeOK'
  <2>1. [at |-> "checked", pair |-> p] \in Requests
    BY DEF Requests
  <2> QED BY <1>1, <2>1 DEF TypeOK, CheckSubmission, tables, locks
<1>2. ASSUME LockEvidence(w) PROVE TypeOK'
  <2>1. PICK s \in Evidence(request[w].pair) :
          /\ screeningLock' = [screeningLock EXCEPT ![s] = w]
          /\ request' = [request EXCEPT ![w] =
                [at |-> "evidenceLocked", pair |-> request[w].pair, row |-> s]]
    BY <1>2 DEF LockEvidence
  <2>2. s \in Screenings
    BY DEF Evidence, Completed
  <2>3. request[w].pair \in Pairs
    BY <1>2, RequestShape DEF TypeOK, LockEvidence
  <2>4. [at |-> "evidenceLocked", pair |-> request[w].pair, row |-> s] \in Requests
    BY <2>2, <2>3 DEF Requests
  <2>5. request' \in [Workers -> Requests]
    BY <2>1, <2>4 DEF TypeOK
  <2> QED BY <1>2, <2>1, <2>2, <2>5 DEF TypeOK, LockEvidence, tables
<1>3. ASSUME EvidenceGone(w) PROVE TypeOK'
  BY <1>3, FinishTypes DEF TypeOK, EvidenceGone, tables
<1>4. ASSUME RecordSubmission(w) PROVE TypeOK'
  <2>1. request[w].pair \in Pairs
    BY <1>4, RequestShape DEF TypeOK, RecordSubmission
  <2>2. audit' \subseteq AuditEvents
    BY <1>4, <2>1 DEF TypeOK, RecordSubmission, AuditEvents
  <2>3. submissions' \subseteq Pairs
    BY <1>4, <2>1 DEF TypeOK, RecordSubmission
  <2> QED BY <1>4, <2>2, <2>3, FinishTypes DEF TypeOK, RecordSubmission
<1>5. ASSUME DuplicateSubmission(w) PROVE TypeOK'
  BY <1>5, FinishTypes DEF TypeOK, DuplicateSubmission, tables
<1> QED BY <1>1, <1>2, <1>3, <1>4, <1>5

-----------------------------------------------------------------------------
(***************************************************************************)
(* CountMatchesActive is not inductive alone.  Between the two statements  *)
(* of a transaction the row locks keep what the first one saw: the slot    *)
(* taken stays free to take, the previous status stays the status of the   *)
(* row, the evidence of a submission stays completed.                      *)
(***************************************************************************)
LockedFacts(w) ==
    LET r == request[w] IN
    /\ r.at = "slotTaken" =>
          /\ candidateLock[r.pair[1]] = w
          /\ count[r.pair[1]] < Limit[r.pair[1]]
    /\ r.at \in {"screeningLocked", "slotReturned"} =>
          /\ screeningLock[r.row] = w
          /\ status[r.row] = r.previous
          /\ r.previous # NotInserted
    /\ r.at = "slotReturned" =>
          /\ r.previous = "active"
          /\ candidateLock[CandidateOf(r.row)] = w
    /\ r.at = "evidenceLocked" =>
          /\ screeningLock[r.row] = w
          /\ PairOf[r.row] = r.pair
          /\ status[r.row] = "completed"

AdmissionInv == TypeOK /\ (\A w \in Workers : LockedFacts(w)) /\ CountMatchesActive

(* The row a request works on is a screening and its candidate exists.     *)
LEMMA RequestRows ==
    ASSUME TypeOK, NEW w \in Workers
    PROVE  /\ request[w].at \in {"slotTaken", "checked", "evidenceLocked"} =>
                 request[w].pair \in Pairs /\ request[w].pair[1] \in Candidates
           /\ request[w].at \in {"screeningLocked", "slotReturned", "evidenceLocked"} =>
                 /\ request[w].row \in Screenings
                 /\ CandidateOf(request[w].row) \in Candidates
           /\ request[w].at \in {"screeningLocked", "slotReturned"} =>
                 request[w].outcome \in Outcomes
  BY RequestShape, OwnerType DEF TypeOK

(* The end of a request leaves the other requests and their locks alone.   *)
LEMMA FinishOthers ==
    ASSUME TypeOK, NEW w \in Workers, Finish(w), NEW v \in Workers, v # w
    PROVE  /\ request'[v] = request[v]
           /\ \A c \in Candidates : candidateLock[c] = v => candidateLock'[c] = v
           /\ \A s \in Screenings : screeningLock[s] = v => screeningLock'[s] = v
  BY DEF TypeOK, Finish, CandidateLockAfter, ScreeningLockAfter

(* An idle request has seen nothing.                                       *)
LEMMA FinishSelf ==
    ASSUME TypeOK, NEW w \in Workers, Finish(w)
    PROVE  LockedFacts(w)'
  BY DEF TypeOK, Finish, LockedFacts, Idle

(* The end of a request that writes no table.                              *)
LEMMA FinishFacts ==
    ASSUME TypeOK, NEW w \in Workers, Finish(w), UNCHANGED <<count, status>>,
           NEW v \in Workers, LockedFacts(v)
    PROVE  LockedFacts(v)'
<1>1. CASE v = w
  BY <1>1, FinishSelf
<1>2. CASE v # w
  BY <1>2, FinishOthers, RequestRows DEF LockedFacts
<1> QED BY <1>1, <1>2

(* The steps of CreateCandidateScreening keep the facts under the locks.   *)
LEMMA CreateFacts ==
    ASSUME AdmissionInv, NEW w \in Workers, NEW v \in Workers
    PROVE  /\ \A p \in Pairs : TakeSlot(w, p) => LockedFacts(v)'
           /\ RecordScreening(w) => LockedFacts(v)'
<1> USE DEF AdmissionInv
<1>1. ASSUME NEW p \in Pairs, TakeSlot(w, p) PROVE LockedFacts(v)'
  <2>1. /\ p[1] \in Candidates
        /\ request' = [request EXCEPT ![w] = [at |-> "slotTaken", pair |-> p]]
        /\ candidateLock[p[1]] = NoWorker
        /\ candidateLock' = [candidateLock EXCEPT ![p[1]] = w]
        /\ count[p[1]] < Limit[p[1]]
        /\ UNCHANGED <<count, status, screeningLock>>
    BY <1>1 DEF TakeSlot, HasSlot, Pairs, tables
  <2>2. CASE v = w
    BY <2>1, <2>2 DEF TypeOK, LockedFacts
  <2>3. CASE v # w
    BY <2>1, <2>3, RequestRows, NoWorkerAssumption DEF TypeOK, LockedFacts
  <2> QED BY <2>2, <2>3
<1>2. ASSUME RecordScreening(w) PROVE LockedFacts(v)'
  <2>1. PICK s \in Unused(request[w].pair) :
          /\ status' = [status EXCEPT ![s] = "active"]
          /\ count' = [count EXCEPT ![CandidateOf(s)] = @ + 1]
    BY <1>2 DEF RecordScreening
  <2>2. /\ s \in Screenings /\ status[s] = NotInserted
        /\ CandidateOf(s) = request[w].pair[1]
        /\ candidateLock[CandidateOf(s)] = w
        /\ Finish(w)
    BY <1>2 DEF Unused, CandidateOf, RecordScreening, LockedFacts
  <2>3. CASE v = w
    BY <2>2, <2>3, FinishSelf
  <2>4. CASE v # w
    BY <2>1, <2>2, <2>4, FinishOthers, RequestRows DEF TypeOK, LockedFacts, NotInserted
  <2> QED BY <2>3, <2>4
<1> QED BY <1>1, <1>2

(* The steps of UpdateCandidateScreening keep the facts under the locks.   *)
LEMMA UpdateFacts ==
    ASSUME AdmissionInv, NEW w \in Workers, NEW v \in Workers
    PROVE  /\ \A s \in Screenings, o \in Bodies : LockScreening(w, s, o) => LockedFacts(v)'
           /\ ReturnSlot(w) => LockedFacts(v)'
           /\ RecordOutcome(w) => LockedFacts(v)'
<1> USE DEF AdmissionInv
<1>1. ASSUME NEW s \in Screenings, NEW o \in Bodies, LockScreening(w, s, o)
      PROVE LockedFacts(v)'
  <2>1. UNCHANGED <<count, status, candidateLock>>
    BY <1>1 DEF LockScreening, tables
  <2>2. CASE v = w
    BY <1>1, <2>1, <2>2 DEF TypeOK, LockScreening, LockedFacts
  <2>3. CASE v # w
    BY <1>1, <2>1, <2>3, RequestRows, NoWorkerAssumption
       DEF TypeOK, LockScreening, ScreeningUnlocked, LockedFacts
  <2> QED BY <2>2, <2>3
<1>2. ASSUME ReturnSlot(w) PROVE LockedFacts(v)'
  <2>1. UNCHANGED <<count, status, screeningLock>>
    BY <1>2 DEF ReturnSlot, tables
  <2>2. request[w].row \in Screenings /\ CandidateOf(request[w].row) \in Candidates
    BY <1>2, RequestRows DEF ReturnSlot
  <2>3. CASE v = w
    BY <1>2, <2>1, <2>2, <2>3 DEF TypeOK, ReturnSlot, LockedFacts
  <2>4. CASE v # w
    BY <1>2, <2>1, <2>2, <2>4, RequestRows, NoWorkerAssumption
       DEF TypeOK, ReturnSlot, LockedFacts
  <2> QED BY <2>3, <2>4
<1>3. ASSUME RecordOutcome(w) PROVE LockedFacts(v)'
  <2>1. /\ request[w].row \in Screenings /\ CandidateOf(request[w].row) \in Candidates
        /\ screeningLock[request[w].row] = w
        /\ status' = [status EXCEPT ![request[w].row] = request[w].outcome]
        /\ Finish(w)
    BY <1>3, RequestRows DEF RecordOutcome, LockedFacts
  <2>2. \A c \in Candidates : count'[c] = count[c] \/ candidateLock[c] = w
    BY <1>3, <2>1 DEF TypeOK, RecordOutcome, CountAfter, LockedFacts
  <2>3. CASE v = w
    BY <2>1, <2>3, FinishSelf
  <2>4. CASE v # w
    <3>1. /\ request[v].at = "slotTaken" =>
                request[v].pair[1] \in Candidates
                /\ count'[request[v].pair[1]] = count[request[v].pair[1]]
          /\ request[v].at \in {"screeningLocked", "slotReturned", "evidenceLocked"} =>
                request[v].row \in Screenings
                /\ status'[request[v].row] = status[request[v].row]
      BY <2>1, <2>2, <2>4, RequestRows DEF TypeOK, LockedFacts
    <3> QED BY <2>1, <2>4, <3>1, FinishOthers, RequestRows DEF LockedFacts
  <2> QED BY <2>3, <2>4
<1> QED BY <1>1, <1>2, <1>3

(* The steps of submission.Service.Submit keep the facts under the locks.  *)
LEMMA SubmitFacts ==
    ASSUME AdmissionInv, NEW w \in Workers, NEW v \in Workers
    PROVE  /\ \A p \in Pairs : CheckSubmission(w, p) => LockedFacts(v)'
           /\ LockEvidence(w) => LockedFacts(v)'
           /\ EvidenceGone(w) => LockedFacts(v)'
           /\ RecordSubmission(w) => LockedFacts(v)'
           /\ DuplicateSubmission(w) => LockedFacts(v)'
<1> USE DEF AdmissionInv
<1>1. ASSUME NEW p \in Pairs, CheckSubmission(w, p) PROVE LockedFacts(v)'
  BY <1>1 DEF TypeOK, CheckSubmission, LockedFacts, tables, locks
<1>2. ASSUME LockEvidence(w) PROVE LockedFacts(v)'
  <2>1. PICK s \in Evidence(request[w].pair) :
          /\ ScreeningUnlocked(s)
          /\ screeningLock' = [screeningLock EXCEPT ![s] = w]
          /\ request' = [request EXCEPT ![w] =
                [at |-> "evidenceLocked", pair |-> request[w].pair, row |-> s]]
    BY <1>2 DEF LockEvidence
  <2>2. /\ s \in Screenings /\ PairOf[s] = request[w].pair /\ status[s] = "completed"
        /\ UNCHANGED <<count, status, candidateLock>>
    BY <1>2 DEF Evidence, Completed, LockEvidence, tables
  <2>3. CASE v = w
    BY <2>1, <2>2, <2>3 DEF TypeOK, LockedFacts
  <2>4. CASE v # w
    BY <2>1, <2>2, <2>4, RequestRows, NoWorkerAssumption
       DEF TypeOK, ScreeningUnlocked, LockedFacts
  <2> QED BY <2>3, <2>4
<1>3. ASSUME EvidenceGone(w) PROVE LockedFacts(v)'
  BY <1>3, FinishFacts DEF EvidenceGone, tables
<1>4. ASSUME RecordSubmission(w) PROVE LockedFacts(v)'
  BY <1>4, FinishFacts DEF RecordSubmission
<1>5. ASSUME DuplicateSubmission(w) PROVE LockedFacts(v)'
  BY <1>5, FinishFacts DEF DuplicateSubmission, tables
<1> QED BY <1>1, <1>2, <1>3, <1>4, <1>5

-----------------------------------------------------------------------------
(* The active screenings of a candidate can be counted.                    *)
LEMMA ActiveFinite ==
    \A c : IsFiniteSet(Active(c)) /\ Cardinality(Active(c)) \in Nat
<1> TAKE c
<1>1. Active(c) \in SUBSET Screenings
  BY DEF Active
<1> QED BY <1>1, ScreeningsAssumption, FS_Subset, FS_CardinalityType

(* A step that changes neither statuses nor counts keeps them matching.    *)
LEMMA CountUnchanged ==
    ASSUME CountMatchesActive, UNCHANGED <<count, status>>
    PROVE  CountMatchesActive'
<1>1. \A c : Active(c)' = Active(c)
  BY DEF Active
<1> QED BY <1>1 DEF CountMatchesActive

(* A recorded screening takes the one slot its request has counted.        *)
LEMMA RecordScreeningCount ==
    ASSUME AdmissionInv, NEW w \in Workers, RecordScreening(w)
    PROVE  CountMatchesActive'
<1> USE DEF AdmissionInv
<1>1. PICK s \in Unused(request[w].pair) :
        /\ status' = [status EXCEPT ![s] = "active"]
        /\ count' = [count EXCEPT ![CandidateOf(s)] = @ + 1]
  BY DEF RecordScreening
<1>2. /\ s \in Screenings /\ status[s] = NotInserted /\ CandidateOf(s) \in Candidates
      /\ count[CandidateOf(s)] < Limit[CandidateOf(s)]
  BY OwnerType DEF Unused, CandidateOf, RecordScreening, LockedFacts
<1> SUFFICES ASSUME NEW c \in Candidates
             PROVE  count'[c] = Cardinality(Active(c)') /\ count'[c] <= Limit[c]
  BY DEF CountMatchesActive
<1>3. CASE c = CandidateOf(s)
  <2>1. Active(c)' = Active(c) \cup {s} /\ s \notin Active(c)
    BY <1>1, <1>2, <1>3 DEF TypeOK, Active, NotInserted
  <2>2. Cardinality(Active(c)') = Cardinality(Active(c)) + 1
    BY <2>1, ActiveFinite, FS_AddElement
  <2>3. count'[c] = count[c] + 1 /\ count[c] \in Nat /\ count[c] < Limit[c]
    BY <1>1, <1>2, <1>3 DEF TypeOK
  <2>4. count[c] = Cardinality(Active(c)) /\ Limit[c] \in Nat
    BY LimitAssumption DEF CountMatchesActive
  <2> QED BY <2>2, <2>3, <2>4
<1>4. CASE c # CandidateOf(s)
  <2>1. Active(c)' = Active(c)
    BY <1>1, <1>2, <1>4 DEF TypeOK, Active
  <2> QED BY <1>1, <1>2, <1>4, <2>1 DEF TypeOK, CountMatchesActive
<1> QED BY <1>3, <1>4

(* An outcome gives the slot back exactly when the screening was active;   *)
(* its candidate then counts at least that one, so the count stays in Nat. *)
LEMMA RecordOutcomeCount ==
    ASSUME AdmissionInv, NEW w \in Workers, RecordOutcome(w)
    PROVE  CountMatchesActive' /\ CountAfter(w) \in [Candidates -> Nat]
<1> USE DEF AdmissionInv
<1>0. PICK s : s = request[w].row
  OBVIOUS
<1>1. /\ s \in Screenings /\ CandidateOf(s) \in Candidates
      /\ status' = [status EXCEPT ![s] = request[w].outcome]
      /\ request[w].outcome # "active"
      /\ count' = CountAfter(w)
  BY <1>0, RequestRows DEF RecordOutcome, Outcomes
<1>2. CASE request[w].at = "slotReturned"
  <2>1. /\ status[s] = "active"
        /\ count' = [count EXCEPT ![CandidateOf(s)] = @ - 1]
    BY <1>0, <1>1, <1>2 DEF CountAfter, LockedFacts
  <2>2. s \in Active(CandidateOf(s))
    BY <1>1, <2>1 DEF Active
  <2>3. /\ Active(CandidateOf(s))' = Active(CandidateOf(s)) \ {s}
        /\ \A c \in Candidates : c # CandidateOf(s) => Active(c)' = Active(c)
    <3>1. \A x \in Screenings :
             status'[x] = "active" <=> status[x] = "active" /\ x # s
      BY <1>1, <2>1 DEF TypeOK
    <3> QED BY <1>1, <3>1 DEF Active
  <2>4. /\ Cardinality(Active(CandidateOf(s))') = Cardinality(Active(CandidateOf(s))) - 1
        /\ Cardinality(Active(CandidateOf(s)) \ {s}) \in Nat
    BY <2>2, <2>3, ActiveFinite, FS_RemoveElement, FS_CardinalityType
  <2>5. count[CandidateOf(s)] - 1 \in Nat
    BY <1>1, <2>2, <2>3, <2>4, ActiveFinite, FS_RemoveElement DEF CountMatchesActive
  <2>6. CountAfter(w) \in [Candidates -> Nat]
    BY <1>1, <2>1, <2>5 DEF TypeOK
  <2>7. ASSUME NEW c \in Candidates
        PROVE  count'[c] = Cardinality(Active(c)') /\ count'[c] <= Limit[c]
    <3>1. count[c] = Cardinality(Active(c)) /\ count[c] <= Limit[c]
          /\ count[c] \in Nat /\ Limit[c] \in Nat
      BY LimitAssumption DEF TypeOK, CountMatchesActive
    <3>2. CASE c = CandidateOf(s)
      <4>1. count'[c] = count[c] - 1
        BY <1>1, <2>1, <3>2 DEF TypeOK
      <4> QED BY <2>4, <3>1, <3>2, <4>1
    <3>3. CASE c # CandidateOf(s)
      BY <1>1, <2>1, <2>3, <3>1, <3>3 DEF TypeOK
    <3> QED BY <3>2, <3>3
  <2> QED BY <2>6, <2>7 DEF CountMatchesActive
<1>3. CASE request[w].at # "slotReturned"
  <2>1. status[s] # "active" /\ count' = count
    BY <1>0, <1>1, <1>3 DEF RecordOutcome, CountAfter, LockedFacts
  <2>2. \A c : Active(c)' = Active(c)
    BY <1>1, <2>1 DEF TypeOK, Active
  <2> QED BY <1>1, <2>1, <2>2 DEF TypeOK, CountMatchesActive
<1> QED BY <1>2, <1>3

(* Every step keeps types, locked facts and the count.                     *)
LEMMA AdmissionStep == AdmissionInv /\ [Next]_vars => AdmissionInv'
<1> SUFFICES ASSUME AdmissionInv, [Next]_vars PROVE AdmissionInv'
  OBVIOUS
<1> USE DEF AdmissionInv
<1>1. CASE UNCHANGED vars
  BY <1>1, CountUnchanged DEF TypeOK, LockedFacts, vars
<1>2. ASSUME NEW w \in Workers, Arrive(w) PROVE AdmissionInv'
  <2>1. UNCHANGED <<count, status>>
    BY <1>2 DEF Arrive, TakeSlot, CheckSubmission, LockScreening, tables
  <2>2. TypeOK'
    BY <1>2, ScreeningTypes, SubmissionTypes DEF Arrive
  <2>3. \A v \in Workers : LockedFacts(v)'
    BY <1>2, CreateFacts, UpdateFacts, SubmitFacts DEF Arrive
  <2> QED BY <2>1, <2>2, <2>3, CountUnchanged
<1>3. ASSUME NEW w \in Workers, RecordScreening(w) PROVE AdmissionInv'
  BY <1>3, ScreeningTypes, CreateFacts, RecordScreeningCount
<1>4. ASSUME NEW w \in Workers, RecordOutcome(w) PROVE AdmissionInv'
  BY <1>4, ScreeningTypes, UpdateFacts, RecordOutcomeCount
<1>5. ASSUME NEW w \in Workers,
             \/ ReturnSlot(w) \/ LockEvidence(w) \/ EvidenceGone(w)
             \/ RecordSubmission(w) \/ DuplicateSubmission(w)
      PROVE  AdmissionInv'
  <2>1. UNCHANGED <<count, status>>
    BY <1>5 DEF ReturnSlot, LockEvidence, EvidenceGone, RecordSubmission,
                DuplicateSubmission, tables
  <2>2. TypeOK'
    BY <1>5, ScreeningTypes, SubmissionTypes
  <2>3. \A v \in Workers : LockedFacts(v)'
    BY <1>5, UpdateFacts, SubmitFacts
  <2> QED BY <2>1, <2>2, <2>3, CountUnchanged
<1>6. ASSUME NEW w \in Workers, Fail(w) PROVE AdmissionInv'
  BY <1>6, FinishTypes, FinishFacts, CountUnchanged DEF TypeOK, Fail, tables
<1> QED BY <1>1, <1>2, <1>3, <1>4, <1>5, <1>6 DEF Next, Progress

(* A tenant without screenings counts none.                                *)
LEMMA AdmissionInit == Init => AdmissionInv
<1> SUFFICES ASSUME Init
             PROVE  (\A w \in Workers : LockedFacts(w)) /\ CountMatchesActive
  BY InitType DEF AdmissionInv
<1>1. \A w \in Workers : LockedFacts(w)
  BY DEF Init, LockedFacts, Idle
<1>2. \A c \in Candidates : Active(c) = {}
  BY DEF Init, Active, NotInserted
<1>3. CountMatchesActive
  BY <1>2, FS_EmptySet, LimitAssumption DEF Init, CountMatchesActive
<1> QED BY <1>1, <1>3

(* In every behaviour the facts under the locks and the count are right.   *)
THEOREM AdmissionSafe == Spec => []AdmissionInv
  BY AdmissionInit, AdmissionStep, PTL DEF Spec

(* Type correctness: among it, that screening_count never becomes negative *)
(* and that no request is left in a place its handler does not have.       *)
THEOREM AdmissionTypes == Spec => []TypeOK
<1>1. AdmissionInv => TypeOK
  BY DEF AdmissionInv
<1> QED BY <1>1, AdmissionSafe, PTL

(* screening_count is the number of active screenings and within the       *)
(* limit, for any number of candidates, screenings and requests.           *)
THEOREM CountsMatch == Spec => []CountMatchesActive
<1>1. AdmissionInv => CountMatchesActive
  BY DEF AdmissionInv
<1> QED BY <1>1, AdmissionSafe, PTL

(* A submission is committed only on a screening that is completed and     *)
(* stays so in that step, however old the first check of its request is.   *)
THEOREM SubmissionsOnEvidence == Spec => SubmittedOnEvidence
<1>1. ASSUME AdmissionInv, [Next]_vars, NEW p \in Pairs, p \in submissions' \ submissions
      PROVE  \E s \in Completed(p) : status'[s] = "completed"
  <2>1. PICK w \in Workers : RecordSubmission(w)
    BY <1>1 DEF Next, Arrive, Progress, Fail, TakeSlot, RecordScreening, LockScreening,
                ReturnSlot, RecordOutcome, CheckSubmission, LockEvidence, EvidenceGone,
                DuplicateSubmission, tables, vars
  <2>2. request[w].pair = p
    BY <1>1, <2>1 DEF RecordSubmission
  <2>3. /\ request[w].row \in Screenings /\ PairOf[request[w].row] = p
        /\ status[request[w].row] = "completed"
    BY <1>1, <2>1, <2>2, RequestRows DEF AdmissionInv, LockedFacts, RecordSubmission
  <2> QED BY <2>1, <2>3 DEF Completed, RecordSubmission
<1>2. TypeOK' => submissions' \subseteq Pairs
  BY DEF TypeOK
<1>3. AdmissionInv /\ AdmissionInv' /\ [Next]_vars =>
        [\A p \in submissions' \ submissions :
            \E s \in Completed(p) : status'[s] = "completed"]_vars
  BY <1>1, <1>2 DEF AdmissionInv
<1> QED BY <1>3, AdmissionSafe, PTL DEF Spec, SubmittedOnEvidence

-----------------------------------------------------------------------------
(* The audit trail.  A screening that is locked for an update has been     *)
(* created (its remembered status is one of the table), so the update adds *)
(* the event that its outcome needs, and a creation that of a row which    *)
(* had neither.                                                            *)
AuditInv == AdmissionInv /\ AuditTellsTheTables

(* The steps that write no table keep the story.                           *)
LEMMA AuditUnchanged ==
    ASSUME AuditTellsTheTables, UNCHANGED <<status, submissions, audit>>
    PROVE  AuditTellsTheTables'
  BY DEF AuditTellsTheTables

(* A creation is told with the row it inserts.                             *)
LEMMA RecordScreeningTold ==
    ASSUME AuditInv, NEW w \in Workers, RecordScreening(w)
    PROVE  AuditTellsTheTables'
<1> USE DEF AuditInv, AdmissionInv
<1>1. PICK s \in Unused(request[w].pair) :
          /\ status' = [status EXCEPT ![s] = "active"]
          /\ audit' = audit \cup {<<"screening", s, "created">>}
  BY DEF RecordScreening
<1>2. s \in Screenings /\ status[s] = NotInserted /\ UNCHANGED submissions
  BY DEF Unused, RecordScreening
<1>3. ASSUME NEW x \in Screenings
      PROVE  /\ status'[x] # NotInserted <=> <<"screening", x, "created">> \in audit'
             /\ status'[x] \in Outcomes <=> <<"screening", x, "updated">> \in audit'
  <2>1. CASE x = s
    <3>1. <<"screening", s, "updated">> \notin audit
      BY <1>2 DEF AuditTellsTheTables, NotInserted, Outcomes
    <3>2. <<"screening", s, "updated">> \notin audit' /\ <<"screening", s, "created">> \in audit'
      BY <1>1, <3>1
    <3>3. status'[s] = "active"
      BY <1>1, <1>2 DEF TypeOK
    <3> QED BY <2>1, <3>2, <3>3 DEF NotInserted, Outcomes
  <2>2. CASE x # s
    <3>1. status'[x] = status[x]
      BY <1>1, <1>2, <2>2 DEF TypeOK
    <3>2. /\ <<"screening", x, "created">> \in audit' <=> <<"screening", x, "created">> \in audit
          /\ <<"screening", x, "updated">> \in audit' <=> <<"screening", x, "updated">> \in audit
      BY <1>1, <2>2
    <3> QED BY <3>1, <3>2 DEF AuditTellsTheTables
  <2> QED BY <2>1, <2>2
<1>4. submissions' = {p \in Pairs : <<"submission", p, "created">> \in audit'}
  BY <1>1, <1>2 DEF AuditTellsTheTables
<1> QED BY <1>3, <1>4 DEF AuditTellsTheTables

(* An update is told with the outcome it writes.                           *)
LEMMA RecordOutcomeTold ==
    ASSUME AuditInv, NEW w \in Workers, RecordOutcome(w)
    PROVE  AuditTellsTheTables'
<1> USE DEF AuditInv, AdmissionInv
<1> DEFINE s == request[w].row
<1>1. /\ s \in Screenings /\ status[s] # NotInserted
      /\ request[w].outcome \in Outcomes
  BY RequestRows DEF RecordOutcome, LockedFacts
<1>2. /\ status' = [status EXCEPT ![s] = request[w].outcome]
      /\ audit' = audit \cup {<<"screening", s, "updated">>}
      /\ UNCHANGED submissions
  BY DEF RecordOutcome
<1> HIDE DEF s
<1>3. ASSUME NEW x \in Screenings
      PROVE  /\ status'[x] # NotInserted <=> <<"screening", x, "created">> \in audit'
             /\ status'[x] \in Outcomes <=> <<"screening", x, "updated">> \in audit'
  <2>0. <<"screening", x, "created">> \in audit' <=> <<"screening", x, "created">> \in audit
    BY <1>2
  <2>1. CASE x = s
    <3>1. status'[x] = request[w].outcome
      BY <1>1, <1>2, <2>1 DEF TypeOK
    <3> QED BY <1>1, <1>2, <2>0, <2>1, <3>1 DEF AuditTellsTheTables, NotInserted, Outcomes
  <2>2. CASE x # s
    <3>1. status'[x] = status[x]
      BY <1>1, <1>2, <2>2 DEF TypeOK
    <3>2. <<"screening", x, "updated">> \in audit' <=> <<"screening", x, "updated">> \in audit
      BY <1>2, <2>2
    <3> QED BY <2>0, <3>1, <3>2 DEF AuditTellsTheTables
  <2> QED BY <2>1, <2>2
<1>4. submissions' = {p \in Pairs : <<"submission", p, "created">> \in audit'}
  BY <1>2 DEF AuditTellsTheTables
<1> QED BY <1>3, <1>4 DEF AuditTellsTheTables

(* A submission is told with its row.                                      *)
LEMMA RecordSubmissionTold ==
    ASSUME AuditInv, NEW w \in Workers, RecordSubmission(w)
    PROVE  AuditTellsTheTables'
<1> USE DEF AuditInv, AdmissionInv
<1> DEFINE p == request[w].pair
<1>1. p \in Pairs
  BY RequestRows DEF RecordSubmission
<1>2. /\ submissions' = submissions \cup {p}
      /\ audit' = audit \cup {<<"submission", p, "created">>}
      /\ UNCHANGED status
  BY DEF RecordSubmission
<1> HIDE DEF p
<1>3. ASSUME NEW x \in Screenings
      PROVE  /\ <<"screening", x, "created">> \in audit' <=> <<"screening", x, "created">> \in audit
             /\ <<"screening", x, "updated">> \in audit' <=> <<"screening", x, "updated">> \in audit
  BY <1>2
<1>4. submissions' = {q \in Pairs : <<"submission", q, "created">> \in audit'}
  BY <1>1, <1>2 DEF AuditTellsTheTables
<1> QED BY <1>2, <1>3, <1>4 DEF AuditTellsTheTables

(* In every behaviour the audit trail tells the same story as the tables:  *)
(* an event is committed with its row, or neither is.                      *)
THEOREM AuditTold == Spec => []AuditTellsTheTables
<1>1. Init => AuditTellsTheTables
  BY DEF Init, AuditTellsTheTables, NotInserted, Outcomes
<1>2. AuditInv /\ [Next]_vars => AuditTellsTheTables'
  <2> SUFFICES ASSUME AuditInv, [Next]_vars PROVE AuditTellsTheTables'
    OBVIOUS
  <2>1. \/ UNCHANGED <<status, submissions, audit>>
        \/ \E w \in Workers :
              RecordScreening(w) \/ RecordOutcome(w) \/ RecordSubmission(w)
    BY DEF Next, vars, Arrive, Progress, Fail, TakeSlot, CheckSubmission, LockScreening,
           ReturnSlot, LockEvidence, EvidenceGone, DuplicateSubmission, tables
  <2> QED BY <2>1, AuditUnchanged, RecordScreeningTold, RecordOutcomeTold,
             RecordSubmissionTold DEF AuditInv
<1> QED BY <1>1, <1>2, AdmissionSafe, PTL DEF Spec, AuditInv

-----------------------------------------------------------------------------
(***************************************************************************)
(* Refinement: seen through the active and the closed screenings, the      *)
(* handlers only admit to a free slot and release a slot, once each.       *)
(***************************************************************************)
Pool == [c \in Candidates |-> Active(c)]
Closed == {s \in Screenings : status[s] \in Outcomes}

(* A step that writes no status is a stutter of the pool.                  *)
LEMMA PoolStutters ==
    ASSUME UNCHANGED status
    PROVE  UNCHANGED <<Pool, Closed>>
  BY DEF Pool, Closed, Active

(* The pool counts as this module does.                                    *)
LEMMA SameCardinality == \A S : Slots!Cardinality(S) = Cardinality(S)
  BY DEF Slots!Cardinality, Cardinality

(* A recorded screening is an admission to the pool.                       *)
LEMMA RecordScreeningAdmits ==
    ASSUME AdmissionInv, NEW w \in Workers, RecordScreening(w)
    PROVE  \E s \in Screenings : Slots!Admit(s)
<1> USE DEF AdmissionInv
<1>1. PICK s \in Unused(request[w].pair) : status' = [status EXCEPT ![s] = "active"]
  BY DEF RecordScreening
<1>2. /\ s \in Screenings /\ status[s] = NotInserted /\ CandidateOf(s) \in Candidates
      /\ Cardinality(Active(CandidateOf(s))) < Limit[CandidateOf(s)]
  BY OwnerType DEF Unused, CandidateOf, RecordScreening, LockedFacts, CountMatchesActive
<1>3. \A x \in Screenings :
         /\ status'[x] = "active" <=> status[x] = "active" \/ x = s
         /\ status'[x] \in Outcomes <=> status[x] \in Outcomes
  BY <1>1, <1>2 DEF TypeOK, NotInserted, Outcomes
<1>4. \A c \in Candidates :
         Active(c)' = IF c = CandidateOf(s) THEN Active(c) \cup {s} ELSE Active(c)
  BY <1>2, <1>3 DEF Active
<1>5. Closed' = Closed
  BY <1>3 DEF Closed
<1>6. s \notin Active(CandidateOf(s)) \cup Closed
  BY <1>2 DEF Active, Closed, NotInserted, Outcomes
<1>7. Pool' = [Pool EXCEPT ![CandidateOf(s)] = @ \cup {s}]
  BY <1>2, <1>4 DEF Pool
<1>8. Slots!Admit(s)
  BY <1>2, <1>5, <1>6, <1>7, SameCardinality DEF Slots!Admit, Pool, Closed
<1> QED BY <1>2, <1>8

(* The outcome of an active screening is a release, that of a closed one   *)
(* is a stutter.                                                           *)
LEMMA RecordOutcomeReleases ==
    ASSUME AdmissionInv, NEW w \in Workers, RecordOutcome(w)
    PROVE  (\E s \in Screenings : Slots!Release(s)) \/ UNCHANGED <<Pool, Closed>>
<1> USE DEF AdmissionInv
<1>0. PICK s : s = request[w].row
  OBVIOUS
<1>1. /\ s \in Screenings /\ CandidateOf(s) \in Candidates
      /\ status' = [status EXCEPT ![s] = request[w].outcome]
      /\ request[w].outcome \in Outcomes
      /\ status[s] # NotInserted
  BY <1>0, RequestRows DEF RecordOutcome, LockedFacts
<1>2. CASE status[s] = "active"
  <2>1. \A x \in Screenings :
           /\ status'[x] = "active" <=> status[x] = "active" /\ x # s
           /\ status'[x] \in Outcomes <=> status[x] \in Outcomes \/ x = s
    BY <1>1 DEF TypeOK, Outcomes
  <2>2. \A c \in Candidates :
           Active(c)' = IF c = CandidateOf(s) THEN Active(c) \ {s} ELSE Active(c)
    BY <1>1, <2>1 DEF Active
  <2>3. Closed' = Closed \cup {s}
    BY <1>1, <2>1 DEF Closed
  <2>4. Pool' = [Pool EXCEPT ![CandidateOf(s)] = @ \ {s}]
    BY <1>1, <2>2 DEF Pool
  <2>5. s \in Active(CandidateOf(s))
    BY <1>1, <1>2 DEF Active
  <2>6. Slots!Release(s)
    BY <1>1, <2>3, <2>4, <2>5 DEF Slots!Release, Pool, Closed
  <2> QED BY <1>1, <2>6
<1>3. CASE status[s] # "active"
  <2>1. status[s] \in Outcomes
    BY <1>1, <1>3 DEF TypeOK, Statuses, Bodies
  <2>2. \A x \in Screenings :
           /\ status'[x] = "active" <=> status[x] = "active"
           /\ status'[x] \in Outcomes <=> status[x] \in Outcomes
    BY <1>1, <1>3, <2>1 DEF TypeOK, Outcomes
  <2> QED BY <2>2 DEF Pool, Closed, Active
<1> QED BY <1>2, <1>3

(* The handlers implement the slot pool of ScreeningSlots.                 *)
THEOREM HandlersImplementSlots == Spec => SlotPool
<1>1. Init => Slots!Init
  BY DEF Init, Slots!Init, Active, Outcomes, NotInserted
<1>2. AdmissionInv /\ [Next]_vars => [Slots!Next]_<<Pool, Closed>>
  <2> SUFFICES ASSUME AdmissionInv, [Next]_vars
               PROVE  Slots!Next \/ UNCHANGED <<Pool, Closed>>
    OBVIOUS
  <2>1. ASSUME NEW w \in Workers, RecordScreening(w) PROVE Slots!Next
    BY <2>1, RecordScreeningAdmits DEF Slots!Next
  <2>2. ASSUME NEW w \in Workers, RecordOutcome(w)
        PROVE  Slots!Next \/ UNCHANGED <<Pool, Closed>>
    BY <2>2, RecordOutcomeReleases DEF Slots!Next
  <2>3. \/ UNCHANGED status
        \/ \E w \in Workers : RecordScreening(w) \/ RecordOutcome(w)
    BY DEF Next, Arrive, Progress, Fail, TakeSlot, LockScreening, ReturnSlot,
           CheckSubmission, LockEvidence, EvidenceGone, RecordSubmission,
           DuplicateSubmission, tables, vars
  <2> QED BY <2>1, <2>2, <2>3, PoolStutters
<1>3. AdmissionInv /\ [Next]_vars => [Slots!Next]_(Slots!slotVars)
  BY <1>2 DEF Slots!slotVars, Pool, Closed
<1> QED BY <1>1, <1>3, AdmissionSafe, PTL DEF Spec, SlotPool, Slots!Spec
=============================================================================
