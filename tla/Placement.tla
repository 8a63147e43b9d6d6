----------------------------- MODULE Placement -----------------------------
(***************************************************************************)
(* From a selection decision to the billing record of one tenant:          *)
(*   offer.Service.Create, Update       joining.Service.Create, Update     *)
(*   billing.Service.Create             UpdateRequirement (its client)     *)
(* A Create looks at the pair with plain reads, then opens a transaction   *)
(* that locks the upstream row (SELECT ... FOR UPDATE), checks it again    *)
(* and inserts; the unique constraint on the pair decides between two      *)
(* creations.  An Update is one UPDATE of a row that is never deleted: it  *)
(* waits for the row lock, writes and commits in one step.                 *)
(***************************************************************************)
EXTENDS Naturals

CONSTANTS Pairs,        \* candidate and requirement, the recruitment context
          Clients,      \* clients the requirement of a pair can belong to
          Dates,        \* joining dates
          NoDate,       \* joining_date IS NULL
          NoRow,        \* the table has no row for the pair
          Workers,      \* concurrent requests (bound)
          NoWorker      \* "row not locked"

Decisions == {"selected", "rejected"}
OfferStates == {"made", "accepted"}     \* accepted is false, true
Bodies == [date : Dates \cup {NoDate}, joined : BOOLEAN]
Bills == [client : Clients, date : Dates]

ASSUME NoDateAssumption == NoDate \notin Dates
ASSUME NoRowAssumption ==
    /\ NoRow \notin Decisions
    /\ NoRow \notin OfferStates
    /\ NoRow \notin Bodies
    /\ NoRow \notin Bills
ASSUME NoWorkerAssumption == NoWorker \notin Workers

(* "joined = true requires joining_date": the handlers refuse any other    *)
(* body, and the table has the same CHECK.                                 *)
DatedIfJoinedMutant(t) == t.joined \/ t.date # NoDate
DatedIfJoined(t) == t.joined => t.date # NoDate
Terms == {t \in Bodies : t.joined => t.date # NoDate}

VARIABLES
    selection,    \* decision of each pair, written upstream
    clientOf,     \* client_id of the requirement of each pair
    offer,        \* offer of each pair, and whether it is accepted
    joining,      \* recruitment_joinings date and joined flag
    billing,      \* recruitment_billings client and date
    audit,        \* audit_events written by these handlers
    selectionLock, offerLock, joiningLock,   \* holders of the row locks
    request       \* where each worker is in its handler, and with what

tables == <<clientOf, offer, joining, billing, audit>>
locks == <<selectionLock, offerLock, joiningLock>>
vars == <<selection, clientOf, offer, joining, billing, audit,
          selectionLock, offerLock, joiningLock, request>>

Idle == [at |-> "idle"]
Requests ==
    {Idle}
    \cup [at : {"offering", "selectionLocked"}, pair : Pairs]
    \cup [at : {"joining", "offerLocked"}, pair : Pairs, terms : Terms]
    \cup [at : {"joiningRead"}, pair : Pairs, date : Dates]
    \cup [at : {"billing", "joiningLocked"}, pair : Pairs, bill : Bills]

AuditEvents ==
    ({"offer", "joining"} \X Pairs \X {"created", "updated"})
    \cup ({"billing"} \X Pairs \X {"created"})

LockTable == [Pairs -> Workers \cup {NoWorker}]

TypeOK ==
    /\ selection \in [Pairs -> Decisions \cup {NoRow}]
    /\ clientOf \in [Pairs -> Clients]
    /\ offer \in [Pairs -> OfferStates \cup {NoRow}]
    /\ joining \in [Pairs -> Terms \cup {NoRow}]
    /\ billing \in [Pairs -> Bills \cup {NoRow}]
    /\ audit \subseteq AuditEvents
    /\ selectionLock \in LockTable
    /\ offerLock \in LockTable
    /\ joiningLock \in LockTable
    /\ request \in [Workers -> Requests]

Init ==
    /\ selection = [p \in Pairs |-> NoRow]
    /\ clientOf \in [Pairs -> Clients]
    /\ offer = [p \in Pairs |-> NoRow]
    /\ joining = [p \in Pairs |-> NoRow]
    /\ billing = [p \in Pairs |-> NoRow]
    /\ audit = {}
    /\ selectionLock = [p \in Pairs |-> NoWorker]
    /\ offerLock = [p \in Pairs |-> NoWorker]
    /\ joiningLock = [p \in Pairs |-> NoWorker]
    /\ request = [w \in Workers |-> Idle]

-----------------------------------------------------------------------------
(* The lock table once worker w has committed or rolled back.              *)
WithoutMutant(lock, w) == lock
Without(lock, w) ==
    [p \in Pairs |-> IF lock[p] = w THEN NoWorker ELSE lock[p]]

Finish(w) ==
    /\ selectionLock' = Without(selectionLock, w)
    /\ offerLock' = Without(offerLock, w)
    /\ joiningLock' = Without(joiningLock, w)
    /\ request' = [request EXCEPT ![w] = Idle]

(* A statement or the commit fails or the server dies: all rolled back.    *)
Fail(w) ==
    /\ request[w] # Idle
    /\ Finish(w)
    /\ UNCHANGED <<selection, tables>>

Logged(entity, p, event) == audit' = audit \cup {<<entity, p, event>>}

-----------------------------------------------------------------------------
(* Upstream: the one decision on p is committed.                           *)
SelectionArrives(p, d) ==
    /\ selection[p] = NoRow
    /\ selection' = [selection EXCEPT ![p] = d]
    /\ UNCHANGED <<tables, locks, request>>

(* UpdateRequirement may move the requirement to another client any time.  *)
ChangeClient(p, c) ==
    /\ clientOf' = [clientOf EXCEPT ![p] = c]
    /\ UNCHANGED <<selection, offer, joining, billing, audit, locks, request>>

-----------------------------------------------------------------------------
(* Offers.                                                                 *)
CreateOffer(w, p) ==
    /\ request[w] = Idle
    /\ offer[p] = NoRow
    /\ request' = [request EXCEPT ![w] = [at |-> "offering", pair |-> p]]
    /\ UNCHANGED <<selection, tables, locks>>

Selected(p) == selection[p] = "selected"

LockSelection(w) ==
    LET p == request[w].pair IN
    /\ request[w].at = "offering"
    /\ Selected(p)
    /\ selectionLock[p] = NoWorker
    /\ selectionLock' = [selectionLock EXCEPT ![p] = w]
    /\ request' = [request EXCEPT ![w] = [at |-> "selectionLocked", pair |-> p]]
    /\ UNCHANGED <<selection, tables, offerLock, joiningLock>>

RefuseOffer(w) ==
    /\ request[w].at = "offering"
    /\ ~Selected(request[w].pair)
    /\ Finish(w)
    /\ UNCHANGED <<selection, tables>>

InsertOffer(w) ==
    LET p == request[w].pair IN
    /\ request[w].at = "selectionLocked"
    /\ IF offer[p] = NoRow
       THEN /\ offer' = [offer EXCEPT ![p] = "made"]
            /\ Logged("offer", p, "created")
       ELSE UNCHANGED <<offer, audit>>
    /\ Finish(w)
    /\ UNCHANGED <<selection, clientOf, joining, billing>>

UpdateOffer(w, p, o) ==
    /\ request[w] = Idle
    /\ offer[p] # NoRow
    /\ offerLock[p] = NoWorker
    /\ offer' = [offer EXCEPT ![p] = o]
    /\ Logged("offer", p, "updated")
    /\ UNCHANGED <<selection, clientOf, joining, billing, locks, request>>

-----------------------------------------------------------------------------
(* Joinings.                                                               *)
CreateJoining(w, p, t) ==
    /\ request[w] = Idle
    /\ DatedIfJoined(t)
    /\ joining[p] = NoRow
    /\ request' = [request EXCEPT ![w] =
                     [at |-> "joining", pair |-> p, terms |-> t]]
    /\ UNCHANGED <<selection, tables, locks>>

Accepted(p) == offer[p] = "accepted"

LockOffer(w) ==
    LET p == request[w].pair IN
    /\ request[w].at = "joining"
    /\ Accepted(p)
    /\ offerLock[p] = NoWorker
    /\ offerLock' = [offerLock EXCEPT ![p] = w]
    /\ request' = [request EXCEPT ![w] =
          [at |-> "offerLocked", pair |-> p, terms |-> request[w].terms]]
    /\ UNCHANGED <<selection, tables, selectionLock, joiningLock>>

RefuseJoining(w) ==
    /\ request[w].at = "joining"
    /\ ~Accepted(request[w].pair)
    /\ Finish(w)
    /\ UNCHANGED <<selection, tables>>

InsertJoining(w) ==
    LET p == request[w].pair IN
    /\ request[w].at = "offerLocked"
    /\ IF joining[p] = NoRow
       THEN /\ joining' = [joining EXCEPT ![p] = request[w].terms]
            /\ Logged("joining", p, "created")
       ELSE UNCHANGED <<joining, audit>>
    /\ Finish(w)
    /\ UNCHANGED <<selection, clientOf, offer, billing>>

JoiningUnlockedMutant(p) == TRUE
JoiningUnlocked(p) == joiningLock[p] = NoWorker

UpdateJoining(w, p, t) ==
    /\ request[w] = Idle
    /\ DatedIfJoined(t)
    /\ joining[p] # NoRow
    /\ JoiningUnlocked(p)
    /\ joining' = [joining EXCEPT ![p] = t]
    /\ Logged("joining", p, "updated")
    /\ UNCHANGED <<selection, clientOf, offer, billing, locks, request>>

-----------------------------------------------------------------------------
(***************************************************************************)
(* Billing.  The joining and then the client of the requirement are read   *)
(* outside the transaction; the joining is read again under its row lock,  *)
(* which is where the billing date comes from.  The client is not read     *)
(* again.                                                                  *)
(***************************************************************************)
Joined(p) == joining[p] # NoRow /\ joining[p].joined

CreateBilling(w, p) ==
    /\ request[w] = Idle
    /\ Joined(p)
    /\ request' = [request EXCEPT ![w] =
          [at |-> "joiningRead", pair |-> p, date |-> joining[p].date]]
    /\ UNCHANGED <<selection, tables, locks>>

ReadClient(w) ==
    LET p == request[w].pair IN
    /\ request[w].at = "joiningRead"
    /\ billing[p] = NoRow
    /\ request' = [request EXCEPT ![w] =
          [at |-> "billing", pair |-> p,
           bill |-> [client |-> clientOf[p], date |-> request[w].date]]]
    /\ UNCHANGED <<selection, tables, locks>>

AlreadyBilled(w) ==
    /\ request[w].at = "joiningRead"
    /\ billing[request[w].pair] # NoRow
    /\ Finish(w)
    /\ UNCHANGED <<selection, tables>>

BillUnderLockMutant(w) == request[w].bill
BillUnderLock(w) ==
    [client |-> request[w].bill.client, date |-> joining[request[w].pair].date]

LockJoining(w) ==
    LET p == request[w].pair IN
    /\ request[w].at = "billing"
    /\ Joined(p)
    /\ joiningLock[p] = NoWorker
    /\ joiningLock' = [joiningLock EXCEPT ![p] = w]
    /\ request' = [request EXCEPT ![w] =
          [at |-> "joiningLocked", pair |-> p, bill |-> BillUnderLock(w)]]
    /\ UNCHANGED <<selection, tables, selectionLock, offerLock>>

RefuseBilling(w) ==
    /\ request[w].at = "billing"
    /\ ~Joined(request[w].pair)
    /\ Finish(w)
    /\ UNCHANGED <<selection, tables>>

Unbilled(p) == billing[p] = NoRow

InsertBilling(w) ==
    LET p == request[w].pair IN
    /\ request[w].at = "joiningLocked"
    /\ IF Unbilled(p)
       THEN /\ billing' = [billing EXCEPT ![p] = request[w].bill]
            /\ Logged("billing", p, "created")
       ELSE UNCHANGED <<billing, audit>>
    /\ Finish(w)
    /\ UNCHANGED <<selection, clientOf, offer, joining>>

-----------------------------------------------------------------------------
Arrive(w) ==
    \/ \E p \in Pairs : CreateOffer(w, p) \/ CreateBilling(w, p)
    \/ \E p \in Pairs, o \in OfferStates : UpdateOffer(w, p, o)
    \/ \E p \in Pairs, t \in Bodies : CreateJoining(w, p, t) \/ UpdateJoining(w, p, t)

Progress(w) ==
    \/ LockSelection(w) \/ RefuseOffer(w) \/ InsertOffer(w)
    \/ LockOffer(w) \/ RefuseJoining(w) \/ InsertJoining(w)
    \/ ReadClient(w) \/ AlreadyBilled(w)
    \/ LockJoining(w) \/ RefuseBilling(w) \/ InsertBilling(w)

HandlerStep ==
    \/ \E w \in Workers : Arrive(w) \/ Progress(w) \/ Fail(w)
    \/ \E p \in Pairs, c \in Clients : ChangeClient(p, c)

Next == HandlerStep \/ \E p \in Pairs, d \in Decisions : SelectionArrives(p, d)

Spec == Init /\ [][Next]_vars

(* A request whose next statement is possible again and again executes it: *)
(* goroutines are scheduled and PostgreSQL queues the waiters of a lock.   *)
FairSpec == Spec /\ \A w \in Workers : SF_vars(Progress(w))

-----------------------------------------------------------------------------
(* No stage exists without the one before it: a billing needs a joining, a *)
(* joining an offer, an offer a "selected" decision; and a request that    *)
(* has locked the upstream row still finds it fit when it inserts.         *)
PlacementInOrder ==
    /\ \A p \in Pairs :
          /\ billing[p] # NoRow => joining[p] # NoRow
          /\ joining[p] # NoRow => offer[p] # NoRow
          /\ offer[p] # NoRow => selection[p] = "selected"
    /\ \A w \in Workers :
          LET p == request[w].pair IN
          /\ request[w].at = "selectionLocked" => selection[p] = "selected"
          /\ request[w].at = "offerLocked" => offer[p] = "accepted"
          /\ request[w].at = "joiningLocked" =>
                Joined(p) /\ request[w].bill.date = joining[p].date

(* When a joining is committed its offer is accepted at that moment: an    *)
(* acceptance withdrawn while the request was running is noticed.          *)
JoinedOnAcceptedOffer ==
    [][\A p \in Pairs : joining[p] = NoRow /\ joining'[p] # NoRow =>
          offer[p] = "accepted" /\ offer'[p] = "accepted"]_vars

(* A pair is billed once, whoever else bills it at the same time, and at   *)
(* that moment the candidate has joined on the date of the billing,        *)
(* although a recruiter may correct or undo the joining meanwhile.         *)
BilledOnJoining ==
    [][\A p \in Pairs : billing'[p] # billing[p] =>
          billing[p] = NoRow /\ Joined(p) /\ joining'[p] = joining[p]
          /\ billing'[p].date = joining[p].date]_vars

(* Both: what is read without a lock is made up for under the lock.        *)
PlacedOnFitRows == JoinedOnAcceptedOffer /\ BilledOnJoining

(* Every request ends: no handler waits for ever on a row lock.            *)
RequestsEnd == \A w \in Workers : request[w] # Idle ~> request[w] = Idle
=============================================================================
