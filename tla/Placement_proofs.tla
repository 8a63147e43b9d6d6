-------------------------- MODULE Placement_proofs --------------------------
(***************************************************************************)
(* Proofs about Placement, for every set of pairs, clients, dates and      *)
(* concurrent requests.                                                    *)
(***************************************************************************)
EXTENDS Placement, TLAPS

(* A row lock belongs to the request that says it holds it.                *)
LocksHeld ==
    \A w \in Workers :
       /\ request[w].at = "selectionLocked" => selectionLock[request[w].pair] = w
       /\ request[w].at = "offerLocked" => offerLock[request[w].pair] = w
       /\ request[w].at = "joiningLocked" => joiningLock[request[w].pair] = w

PlacementInv == TypeOK /\ LocksHeld /\ PlacementInOrder

-----------------------------------------------------------------------------
(* What a request record says about itself, by the place it is at.         *)
LEMMA RequestShape ==
    ASSUME NEW r \in Requests
    PROVE  /\ r.at # "idle" => r.pair \in Pairs
           /\ r.at \in {"joining", "offerLocked"} => r.terms \in Terms
           /\ r.at = "joiningRead" => r.date \in Dates
           /\ r.at \in {"billing", "joiningLocked"} => r.bill \in Bills
           /\ r.at = "idle" <=> r = Idle
  BY DEF Requests, Idle

(* Committing or rolling back keeps the types of locks and requests.       *)
LEMMA FinishTypes ==
    ASSUME TypeOK, NEW w \in Workers, Finish(w)
    PROVE  /\ selectionLock' \in LockTable
           /\ offerLock' \in LockTable
           /\ joiningLock' \in LockTable
           /\ request' \in [Workers -> Requests]
  BY DEF TypeOK, Finish, Without, LockTable, Requests

(* An empty tenant is well typed.                                         *)
LEMMA InitType == Init => TypeOK
  BY DEF Init, TypeOK, LockTable, Requests

(* The requests of offer.Service are well typed.                           *)
LEMMA OfferTypes ==
    ASSUME TypeOK, NEW w \in Workers
    PROVE  /\ \A p \in Pairs : CreateOffer(w, p) => TypeOK'
           /\ LockSelection(w) => TypeOK'
           /\ RefuseOffer(w) => TypeOK'
           /\ InsertOffer(w) => TypeOK'
           /\ \A p \in Pairs, o \in OfferStates : UpdateOffer(w, p, o) => TypeOK'
<1>1. ASSUME NEW p \in Pairs, CreateOffer(w, p) PROVE TypeOK'
  <2>1. [at |-> "offering", pair |-> p] \in Requests
    BY DEF Requests
  <2> QED BY <1>1, <2>1 DEF TypeOK, CreateOffer, tables, locks
<1>2. ASSUME LockSelection(w) PROVE TypeOK'
  <2>1. request[w] \in Requests /\ request[w].pair \in Pairs
    BY <1>2, RequestShape DEF TypeOK, LockSelection
  <2>2. [at |-> "selectionLocked", pair |-> request[w].pair] \in Requests
    BY <1>2, <2>1 DEF Requests, LockSelection, Idle
  <2>3. request' \in [Workers -> Requests]
    BY <1>2, <2>2 DEF TypeOK, LockSelection
  <2>4. selectionLock' \in LockTable
    BY <1>2, <2>1 DEF TypeOK, LockSelection, LockTable
  <2> QED BY <1>2, <2>3, <2>4 DEF TypeOK, LockSelection, tables
<1>3. ASSUME RefuseOffer(w) PROVE TypeOK'
  BY <1>3, FinishTypes DEF TypeOK, RefuseOffer, tables
<1>4. ASSUME InsertOffer(w) PROVE TypeOK'
  <2>1. request[w].pair \in Pairs
    BY <1>4, RequestShape DEF TypeOK, InsertOffer
  <2>2. offer' \in [Pairs -> OfferStates \cup {NoRow}] /\ audit' \subseteq AuditEvents
    BY <1>4, <2>1 DEF TypeOK, InsertOffer, Logged, OfferStates, AuditEvents
  <2> QED BY <1>4, <2>2, FinishTypes DEF TypeOK, InsertOffer
<1>5. ASSUME NEW p \in Pairs, NEW o \in OfferStates, UpdateOffer(w, p, o) PROVE TypeOK'
  <2>1. offer' \in [Pairs -> OfferStates \cup {NoRow}] /\ audit' \subseteq AuditEvents
    BY <1>5 DEF TypeOK, UpdateOffer, Logged, AuditEvents
  <2> QED BY <1>5, <2>1 DEF TypeOK, UpdateOffer, locks
<1> QED BY <1>1, <1>2, <1>3, <1>4, <1>5

(* The requests of joining.Service are well typed.                         *)
LEMMA JoiningTypes ==
    ASSUME TypeOK, NEW w \in Workers
    PROVE  /\ \A p \in Pairs, t \in Bodies : CreateJoining(w, p, t) => TypeOK'
           /\ LockOffer(w) => TypeOK'
           /\ RefuseJoining(w) => TypeOK'
           /\ InsertJoining(w) => TypeOK'
           /\ \A p \in Pairs, t \in Bodies : UpdateJoining(w, p, t) => TypeOK'
<1>1. ASSUME NEW p \in Pairs, NEW t \in Bodies, CreateJoining(w, p, t) PROVE TypeOK'
  <2>1. t \in Terms
    BY <1>1 DEF CreateJoining, DatedIfJoined, Terms
  <2>2. [at |-> "joining", pair |-> p, terms |-> t] \in Requests
    BY <2>1 DEF Requests
  <2> QED BY <1>1, <2>2 DEF TypeOK, CreateJoining, tables, locks
<1>2. ASSUME LockOffer(w) PROVE TypeOK'
  <2>1. request[w].pair \in Pairs /\ request[w].terms \in Terms
    BY <1>2, RequestShape DEF TypeOK, LockOffer
  <2>2. [at |-> "offerLocked", pair |-> request[w].pair, terms |-> request[w].terms]
           \in Requests
    BY <2>1 DEF Requests
  <2>3. request' \in [Workers -> Requests]
    BY <1>2, <2>2 DEF TypeOK, LockOffer
  <2>4. offerLock' \in LockTable
    BY <1>2, <2>1 DEF TypeOK, LockOffer, LockTable
  <2> QED BY <1>2, <2>3, <2>4 DEF TypeOK, LockOffer, tables
<1>3. ASSUME RefuseJoining(w) PROVE TypeOK'
  BY <1>3, FinishTypes DEF TypeOK, RefuseJoining, tables
<1>4. ASSUME InsertJoining(w) PROVE TypeOK'
  <2>1. request[w].pair \in Pairs /\ request[w].terms \in Terms
    BY <1>4, RequestShape DEF TypeOK, InsertJoining
  <2>2. joining' \in [Pairs -> Terms \cup {NoRow}] /\ audit' \subseteq AuditEvents
    BY <1>4, <2>1 DEF TypeOK, InsertJoining, Logged, AuditEvents
  <2> QED BY <1>4, <2>2, FinishTypes DEF TypeOK, InsertJoining
<1>5. ASSUME NEW p \in Pairs, NEW t \in Bodies, UpdateJoining(w, p, t) PROVE TypeOK'
  <2>1. t \in Terms
    BY <1>5 DEF UpdateJoining, DatedIfJoined, Terms
  <2>2. joining' \in [Pairs -> Terms \cup {NoRow}] /\ audit' \subseteq AuditEvents
    BY <1>5, <2>1 DEF TypeOK, UpdateJoining, Logged, AuditEvents
  <2> QED BY <1>5, <2>2 DEF TypeOK, UpdateJoining, locks
<1> QED BY <1>1, <1>2, <1>3, <1>4, <1>5

(* A joined row has a date, which is why a billing date is never null.     *)
LEMMA JoinedHasDate ==
    ASSUME TypeOK, NEW p \in Pairs, Joined(p)
    PROVE  joining[p].date \in Dates
<1>1. joining[p] \in Terms
  BY DEF TypeOK, Joined
<1> QED BY <1>1 DEF Terms, Bodies, Joined

(* The requests of billing.Service are well typed.                         *)
LEMMA BillingTypes ==
    ASSUME TypeOK, NEW w \in Workers
    PROVE  /\ \A p \in Pairs : CreateBilling(w, p) => TypeOK'
           /\ ReadClient(w) => TypeOK'
           /\ AlreadyBilled(w) => TypeOK'
           /\ LockJoining(w) => TypeOK'
           /\ RefuseBilling(w) => TypeOK'
           /\ InsertBilling(w) => TypeOK'
<1>1. ASSUME NEW p \in Pairs, CreateBilling(w, p) PROVE TypeOK'
  <2>1. [at |-> "joiningRead", pair |-> p, date |-> joining[p].date] \in Requests
    BY <1>1, JoinedHasDate DEF CreateBilling, Requests
  <2> QED BY <1>1, <2>1 DEF TypeOK, CreateBilling, tables, locks
<1>2. ASSUME ReadClient(w) PROVE TypeOK'
  <2>1. request[w].pair \in Pairs /\ request[w].date \in Dates
    BY <1>2, RequestShape DEF TypeOK, ReadClient
  <2>2. [client |-> clientOf[request[w].pair], date |-> request[w].date] \in Bills
    BY <2>1 DEF TypeOK, Bills
  <2>3. [at |-> "billing", pair |-> request[w].pair,
         bill |-> [client |-> clientOf[request[w].pair], date |-> request[w].date]]
           \in Requests
    BY <2>1, <2>2 DEF Requests
  <2> QED BY <1>2, <2>3 DEF TypeOK, ReadClient, tables, locks
<1>3. ASSUME AlreadyBilled(w) PROVE TypeOK'
  BY <1>3, FinishTypes DEF TypeOK, AlreadyBilled, tables
<1>4. ASSUME LockJoining(w) PROVE TypeOK'
  <2>1. request[w].pair \in Pairs /\ request[w].bill \in Bills
    BY <1>4, RequestShape DEF TypeOK, LockJoining
  <2>2. BillUnderLock(w) \in Bills
    BY <1>4, <2>1, JoinedHasDate DEF LockJoining, BillUnderLock, Bills
  <2>3. [at |-> "joiningLocked", pair |-> request[w].pair, bill |-> BillUnderLock(w)]
           \in Requests
    BY <2>1, <2>2 DEF Requests
  <2>4. request' \in [Workers -> Requests]
    BY <1>4, <2>3 DEF TypeOK, LockJoining
  <2>5. joiningLock' \in LockTable
    BY <1>4, <2>1 DEF TypeOK, LockJoining, LockTable
  <2> QED BY <1>4, <2>4, <2>5 DEF TypeOK, LockJoining, tables
<1>5. ASSUME RefuseBilling(w) PROVE TypeOK'
  BY <1>5, FinishTypes DEF TypeOK, RefuseBilling, tables
<1>6. ASSUME InsertBilling(w) PROVE TypeOK'
  <2>1. request[w].pair \in Pairs /\ request[w].bill \in Bills
    BY <1>6, RequestShape DEF TypeOK, InsertBilling
  <2>2. billing' \in [Pairs -> Bills \cup {NoRow}] /\ audit' \subseteq AuditEvents
    BY <1>6, <2>1 DEF TypeOK, InsertBilling, Logged, AuditEvents
  <2> QED BY <1>6, <2>2, FinishTypes DEF TypeOK, InsertBilling
<1> QED BY <1>1, <1>2, <1>3, <1>4, <1>5, <1>6

(* Every step keeps every table, lock and request of its type.             *)
LEMMA TypeStep == TypeOK /\ [Next]_vars => TypeOK'
<1> SUFFICES ASSUME TypeOK, [Next]_vars PROVE TypeOK'
  OBVIOUS
<1>1. CASE UNCHANGED vars
  BY <1>1 DEF TypeOK, vars
<1>2. ASSUME NEW w \in Workers, Arrive(w) PROVE TypeOK'
  BY <1>2, OfferTypes, JoiningTypes, BillingTypes DEF Arrive
<1>3. ASSUME NEW w \in Workers, Progress(w) PROVE TypeOK'
  BY <1>3, OfferTypes, JoiningTypes, BillingTypes DEF Progress
<1>4. ASSUME NEW w \in Workers, Fail(w) PROVE TypeOK'
  BY <1>4, FinishTypes DEF TypeOK, Fail, tables
<1>5. ASSUME NEW p \in Pairs, NEW c \in Clients, ChangeClient(p, c) PROVE TypeOK'
  BY <1>5 DEF TypeOK, ChangeClient, locks
<1>6. ASSUME NEW p \in Pairs, NEW d \in Decisions, SelectionArrives(p, d) PROVE TypeOK'
  BY <1>6 DEF TypeOK, SelectionArrives, tables, locks
<1> QED BY <1>1, <1>2, <1>3, <1>4, <1>5, <1>6 DEF Next, HandlerStep

(* Type correctness of the placement tables: an offer, a joining and a     *)
(* billing always hold what their handlers and columns allow.              *)
THEOREM PlacementTypes == Spec => []TypeOK
<1>1. Init => TypeOK
  BY InitType
<1>2. TypeOK /\ [Next]_vars => TypeOK'
  BY TypeStep
<1> QED BY <1>1, <1>2, PTL DEF Spec

-----------------------------------------------------------------------------
(* The end of a request releases its own locks only.                       *)
LEMMA FinishLocks ==
    ASSUME TypeOK, LocksHeld, NEW w \in Workers, Finish(w)
    PROVE  LocksHeld'
<1> SUFFICES ASSUME NEW v \in Workers
             PROVE  /\ request'[v].at = "selectionLocked" =>
                          selectionLock'[request'[v].pair] = v
                    /\ request'[v].at = "offerLocked" =>
                          offerLock'[request'[v].pair] = v
                    /\ request'[v].at = "joiningLocked" =>
                          joiningLock'[request'[v].pair] = v
  BY DEF LocksHeld
<1>1. CASE v = w
  BY <1>1 DEF TypeOK, Finish, Idle
<1>2. CASE v # w
  <2>1. request'[v] = request[v] /\ request[v] \in Requests
    BY <1>2 DEF TypeOK, Finish
  <2>2. request[v].at # "idle" => request[v].pair \in Pairs
    BY <2>1, RequestShape
  <2> QED BY <1>2, <2>1, <2>2 DEF LocksHeld, Finish, Without
<1> QED BY <1>1, <1>2

(* A request that has not locked yet leaves the locks of others alone.     *)
LEMMA ArriveLocks ==
    ASSUME TypeOK, LocksHeld, NEW w \in Workers, Arrive(w)
    PROVE  LocksHeld'
<1>1. UNCHANGED locks
  BY DEF Arrive, CreateOffer, CreateBilling, CreateJoining, UpdateOffer, UpdateJoining
<1>2. /\ request'[w].at \notin {"selectionLocked", "offerLocked", "joiningLocked"}
      /\ \A v \in Workers \ {w} : request'[v] = request[v]
  BY DEF TypeOK, Arrive, CreateOffer, CreateBilling, CreateJoining, UpdateOffer,
         UpdateJoining, Idle, locks
<1> QED BY <1>1, <1>2 DEF LocksHeld, locks

(* A request past its lock holds it until it ends, and nobody else does.   *)
LEMMA LocksStep == TypeOK /\ LocksHeld /\ [Next]_vars => LocksHeld'
<1> SUFFICES ASSUME TypeOK, LocksHeld, [Next]_vars PROVE LocksHeld'
  OBVIOUS
<1>0. ASSUME NEW w \in Workers, request[w].at # "idle"
      PROVE  request[w].pair \in Pairs
  BY <1>0, RequestShape DEF TypeOK
<1>1. ASSUME NEW w \in Workers, LockSelection(w) PROVE LocksHeld'
  BY <1>0, <1>1, NoWorkerAssumption DEF TypeOK, LockTable, LocksHeld, LockSelection
<1>2. ASSUME NEW w \in Workers, LockOffer(w) PROVE LocksHeld'
  BY <1>0, <1>2, NoWorkerAssumption DEF TypeOK, LockTable, LocksHeld, LockOffer
<1>3. ASSUME NEW w \in Workers, LockJoining(w) PROVE LocksHeld'
  BY <1>0, <1>3, NoWorkerAssumption DEF TypeOK, LockTable, LocksHeld, LockJoining
<1>4. ASSUME NEW w \in Workers, Finish(w) PROVE LocksHeld'
  BY <1>4, FinishLocks
<1>5. ASSUME NEW w \in Workers, Arrive(w) PROVE LocksHeld'
  BY <1>5, ArriveLocks
<1>6. ASSUME UNCHANGED <<request, locks>> PROVE LocksHeld'
  BY <1>6 DEF LocksHeld, locks
<1>7. \A w \in Workers : Progress(w) \/ Fail(w) =>
         LockSelection(w) \/ LockOffer(w) \/ LockJoining(w) \/ ReadClient(w) \/ Finish(w)
  BY DEF Progress, Fail, AlreadyBilled, RefuseOffer, InsertOffer, RefuseJoining, InsertJoining,
         RefuseBilling, InsertBilling
<1>8. ASSUME NEW w \in Workers, ReadClient(w) PROVE LocksHeld'
  BY <1>8 DEF TypeOK, LocksHeld, ReadClient, locks
<1>9. \/ UNCHANGED <<request, locks>>
      \/ \E w \in Workers : Arrive(w) \/ Progress(w) \/ Fail(w)
  BY DEF Next, HandlerStep, ChangeClient, SelectionArrives, vars, locks
<1> QED BY <1>1, <1>2, <1>3, <1>4, <1>5, <1>6, <1>7, <1>8, <1>9

-----------------------------------------------------------------------------
(***************************************************************************)
(* PlacementInOrder is not inductive alone: that a locked upstream row     *)
(* stays fit needs that the lock is really held, and that a writer of the  *)
(* row finds it unlocked.                                                  *)
(***************************************************************************)
RequestInOrder(w) ==
    LET p == request[w].pair IN
    /\ request[w].at = "selectionLocked" => selection[p] = "selected"
    /\ request[w].at = "offerLocked" => offer[p] = "accepted"
    /\ request[w].at = "joiningLocked" =>
          Joined(p) /\ request[w].bill.date = joining[p].date

(* A step that writes no table and moves one request keeps the order if    *)
(* that request is in order afterwards.                                    *)
LEMMA OneRequestMoves ==
    ASSUME TypeOK, PlacementInOrder, NEW w \in Workers,
           UNCHANGED <<selection, offer, joining, billing>>,
           \A v \in Workers \ {w} : request'[v] = request[v],
           RequestInOrder(w)'
    PROVE  PlacementInOrder'
  BY DEF PlacementInOrder, RequestInOrder, Joined

(* Requests that end leave nothing to keep.                                *)
LEMMA FinishInOrder ==
    ASSUME TypeOK, NEW w \in Workers, Finish(w)
    PROVE  /\ RequestInOrder(w)'
           /\ \A v \in Workers \ {w} : request'[v] = request[v]
  BY DEF TypeOK, Finish, RequestInOrder, Idle

(* The requests of offer.Service keep the stages in order.                 *)
LEMMA OfferInOrder ==
    ASSUME PlacementInv, NEW w \in Workers
    PROVE  /\ \A p \in Pairs : CreateOffer(w, p) => PlacementInOrder'
           /\ LockSelection(w) => PlacementInOrder'
           /\ RefuseOffer(w) => PlacementInOrder'
           /\ InsertOffer(w) => PlacementInOrder'
           /\ \A p \in Pairs, o \in OfferStates : UpdateOffer(w, p, o) => PlacementInOrder'
<1> USE DEF PlacementInv
<1>1. ASSUME NEW p \in Pairs, CreateOffer(w, p) PROVE PlacementInOrder'
  <2>1. RequestInOrder(w)' /\ \A v \in Workers \ {w} : request'[v] = request[v]
    BY <1>1 DEF TypeOK, CreateOffer, RequestInOrder
  <2> QED BY <1>1, <2>1, OneRequestMoves DEF CreateOffer, tables
<1>2. ASSUME LockSelection(w) PROVE PlacementInOrder'
  <2>1. RequestInOrder(w)' /\ \A v \in Workers \ {w} : request'[v] = request[v]
    BY <1>2 DEF TypeOK, LockSelection, Selected, RequestInOrder
  <2> QED BY <1>2, <2>1, OneRequestMoves DEF LockSelection, tables
<1>3. ASSUME RefuseOffer(w) PROVE PlacementInOrder'
  BY <1>3, FinishInOrder, OneRequestMoves DEF RefuseOffer, tables
<1>4. ASSUME InsertOffer(w) PROVE PlacementInOrder'
  <2>1. request[w].pair \in Pairs /\ selection[request[w].pair] = "selected"
    BY <1>4, RequestShape DEF TypeOK, InsertOffer, PlacementInOrder
  <2>2. \A p \in Pairs :
           \/ offer'[p] = offer[p]
           \/ offer[p] = NoRow /\ offer'[p] = "made" /\ selection[p] = "selected"
    BY <1>4, <2>1 DEF TypeOK, InsertOffer
  <2>3. \A v \in Workers : request'[v] = request[v] \/ request'[v] = Idle
    BY <1>4 DEF TypeOK, InsertOffer, Finish
  <2>4. \A v \in Workers : request[v].at # "idle" => request[v].pair \in Pairs
    BY RequestShape DEF TypeOK
  <2> QED BY <1>4, <2>2, <2>3, <2>4, NoRowAssumption
          DEF InsertOffer, PlacementInOrder, Joined, Idle, OfferStates
<1>5. ASSUME NEW p \in Pairs, NEW o \in OfferStates, UpdateOffer(w, p, o)
      PROVE PlacementInOrder'
  <2>1. /\ \A q \in Pairs : q # p => offer'[q] = offer[q]
        /\ offer[p] # NoRow /\ offer'[p] # NoRow
    BY <1>5, NoRowAssumption DEF TypeOK, UpdateOffer
  <2>2. \A v \in Workers : request[v].at = "offerLocked" =>
           request[v].pair \in Pairs /\ request[v].pair # p
    BY <1>5, RequestShape, NoWorkerAssumption DEF TypeOK, UpdateOffer, LocksHeld
  <2> QED BY <1>5, <2>1, <2>2 DEF UpdateOffer, PlacementInOrder, Joined
<1> QED BY <1>1, <1>2, <1>3, <1>4, <1>5

(* The requests of joining.Service keep the stages in order.               *)
LEMMA JoiningInOrder ==
    ASSUME PlacementInv, NEW w \in Workers
    PROVE  /\ \A p \in Pairs, t \in Bodies : CreateJoining(w, p, t) => PlacementInOrder'
           /\ LockOffer(w) => PlacementInOrder'
           /\ RefuseJoining(w) => PlacementInOrder'
           /\ InsertJoining(w) => PlacementInOrder'
           /\ \A p \in Pairs, t \in Bodies : UpdateJoining(w, p, t) => PlacementInOrder'
<1> USE DEF PlacementInv
<1>1. ASSUME NEW p \in Pairs, NEW t \in Bodies, CreateJoining(w, p, t)
      PROVE PlacementInOrder'
  <2>1. RequestInOrder(w)' /\ \A v \in Workers \ {w} : request'[v] = request[v]
    BY <1>1 DEF TypeOK, CreateJoining, RequestInOrder
  <2> QED BY <1>1, <2>1, OneRequestMoves DEF CreateJoining, tables
<1>2. ASSUME LockOffer(w) PROVE PlacementInOrder'
  <2>1. RequestInOrder(w)' /\ \A v \in Workers \ {w} : request'[v] = request[v]
    BY <1>2 DEF TypeOK, LockOffer, Accepted, RequestInOrder, tables
  <2> QED BY <1>2, <2>1, OneRequestMoves DEF LockOffer, tables
<1>3. ASSUME RefuseJoining(w) PROVE PlacementInOrder'
  BY <1>3, FinishInOrder, OneRequestMoves DEF RefuseJoining, tables
<1>4. ASSUME InsertJoining(w) PROVE PlacementInOrder'
  <2>1. request[w].pair \in Pairs /\ request[w].terms \in Terms
        /\ offer[request[w].pair] = "accepted"
    BY <1>4, RequestShape DEF TypeOK, InsertJoining, PlacementInOrder
  <2>2. \A p \in Pairs :
           \/ joining'[p] = joining[p]
           \/ joining[p] = NoRow /\ joining'[p] # NoRow /\ offer[p] = "accepted"
    BY <1>4, <2>1, NoRowAssumption DEF TypeOK, InsertJoining, Terms
  <2>3. \A v \in Workers : request'[v] = request[v] \/ request'[v] = Idle
    BY <1>4 DEF TypeOK, InsertJoining, Finish
  <2>4. \A v \in Workers : request[v].at # "idle" => request[v].pair \in Pairs
    BY RequestShape DEF TypeOK
  <2> QED BY <1>4, <2>2, <2>3, <2>4, NoRowAssumption
          DEF InsertJoining, PlacementInOrder, Joined, Idle, OfferStates
<1>5. ASSUME NEW p \in Pairs, NEW t \in Bodies, UpdateJoining(w, p, t)
      PROVE PlacementInOrder'
  <2>1. /\ \A q \in Pairs : q # p => joining'[q] = joining[q]
        /\ joining[p] # NoRow /\ joining'[p] # NoRow
    BY <1>5, NoRowAssumption DEF TypeOK, UpdateJoining
  <2>2. \A v \in Workers : request[v].at = "joiningLocked" =>
           request[v].pair \in Pairs /\ request[v].pair # p
    BY <1>5, RequestShape, NoWorkerAssumption
       DEF TypeOK, UpdateJoining, JoiningUnlocked, LocksHeld
  <2> QED BY <1>5, <2>1, <2>2 DEF UpdateJoining, PlacementInOrder, Joined
<1> QED BY <1>1, <1>2, <1>3, <1>4, <1>5

(* The requests of billing.Service keep the stages in order.               *)
LEMMA BillingInOrder ==
    ASSUME PlacementInv, NEW w \in Workers
    PROVE  /\ \A p \in Pairs : CreateBilling(w, p) => PlacementInOrder'
           /\ ReadClient(w) => PlacementInOrder'
           /\ AlreadyBilled(w) => PlacementInOrder'
           /\ LockJoining(w) => PlacementInOrder'
           /\ RefuseBilling(w) => PlacementInOrder'
           /\ InsertBilling(w) => PlacementInOrder'
<1> USE DEF PlacementInv
<1>1. ASSUME NEW p \in Pairs, CreateBilling(w, p) PROVE PlacementInOrder'
  <2>1. RequestInOrder(w)' /\ \A v \in Workers \ {w} : request'[v] = request[v]
    BY <1>1 DEF TypeOK, CreateBilling, RequestInOrder
  <2> QED BY <1>1, <2>1, OneRequestMoves DEF CreateBilling, tables
<1>2. ASSUME ReadClient(w) PROVE PlacementInOrder'
  <2>1. RequestInOrder(w)' /\ \A v \in Workers \ {w} : request'[v] = request[v]
    BY <1>2 DEF TypeOK, ReadClient, RequestInOrder
  <2> QED BY <1>2, <2>1, OneRequestMoves DEF ReadClient, tables
<1>3. ASSUME AlreadyBilled(w) PROVE PlacementInOrder'
  BY <1>3, FinishInOrder, OneRequestMoves DEF AlreadyBilled, tables
<1>4. ASSUME LockJoining(w) PROVE PlacementInOrder'
  <2>1. RequestInOrder(w)' /\ \A v \in Workers \ {w} : request'[v] = request[v]
    BY <1>4 DEF TypeOK, LockJoining, BillUnderLock, RequestInOrder, Joined, tables
  <2> QED BY <1>4, <2>1, OneRequestMoves DEF LockJoining, tables
<1>5. ASSUME RefuseBilling(w) PROVE PlacementInOrder'
  BY <1>5, FinishInOrder, OneRequestMoves DEF RefuseBilling, tables
<1>6. ASSUME InsertBilling(w) PROVE PlacementInOrder'
  <2>1. request[w].pair \in Pairs /\ Joined(request[w].pair)
    BY <1>6, RequestShape DEF TypeOK, InsertBilling, PlacementInOrder
  <2>2. \A p \in Pairs : billing'[p] = billing[p] \/ joining[p] # NoRow
    BY <1>6, <2>1 DEF TypeOK, InsertBilling, Joined
  <2>3. \A v \in Workers : request'[v] = request[v] \/ request'[v] = Idle
    BY <1>6 DEF TypeOK, InsertBilling, Finish
  <2> QED BY <1>6, <2>2, <2>3 DEF InsertBilling, PlacementInOrder, Joined, Idle
<1> QED BY <1>1, <1>2, <1>3, <1>4, <1>5, <1>6

(* Every step keeps types, locks and the order of the stages.              *)
LEMMA PlacementStep == PlacementInv /\ [Next]_vars => PlacementInv'
<1> SUFFICES ASSUME PlacementInv, [Next]_vars PROVE PlacementInOrder'
  BY TypeStep, LocksStep DEF PlacementInv
<1>1. CASE UNCHANGED vars
  BY <1>1 DEF PlacementInv, PlacementInOrder, Joined, vars
<1>2. ASSUME NEW w \in Workers, Arrive(w) PROVE PlacementInOrder'
  BY <1>2, OfferInOrder, JoiningInOrder, BillingInOrder DEF Arrive
<1>3. ASSUME NEW w \in Workers, Progress(w) PROVE PlacementInOrder'
  BY <1>3, OfferInOrder, JoiningInOrder, BillingInOrder DEF Progress
<1>4. ASSUME NEW w \in Workers, Fail(w) PROVE PlacementInOrder'
  BY <1>4, FinishInOrder, OneRequestMoves DEF PlacementInv, Fail, tables
<1>5. ASSUME NEW p \in Pairs, NEW c \in Clients, ChangeClient(p, c)
      PROVE PlacementInOrder'
  BY <1>5 DEF PlacementInv, PlacementInOrder, Joined, ChangeClient
<1>6. ASSUME NEW p \in Pairs, NEW d \in Decisions, SelectionArrives(p, d)
      PROVE PlacementInOrder'
  <2>1. \A q \in Pairs : selection[q] # NoRow => selection'[q] = selection[q]
    BY <1>6 DEF PlacementInv, TypeOK, SelectionArrives
  <2>2. \A v \in Workers : request[v].at # "idle" => request[v].pair \in Pairs
    BY RequestShape DEF PlacementInv, TypeOK
  <2> QED BY <1>6, <2>1, <2>2, NoRowAssumption
          DEF PlacementInv, PlacementInOrder, Joined, SelectionArrives, tables, Decisions
<1> QED BY <1>1, <1>2, <1>3, <1>4, <1>5, <1>6 DEF Next, HandlerStep

(* An empty tenant has no lock, no request and no stage.                   *)
LEMMA PlacementInit == Init => PlacementInv
<1> SUFFICES ASSUME Init PROVE LocksHeld /\ PlacementInOrder
  BY InitType DEF PlacementInv
<1> QED BY DEF Init, LocksHeld, PlacementInOrder, Idle

(* In every behaviour the locks are really held and the stages in order.   *)
THEOREM PlacementSafe == Spec => []PlacementInv
  BY PlacementInit, PlacementStep, PTL DEF Spec

(* No billing without joining, no joining without offer, no offer without  *)
(* a selected decision, for any number of pairs and concurrent requests.   *)
THEOREM PlacementOrdered == Spec => []PlacementInOrder
<1>1. PlacementInv => PlacementInOrder
  BY DEF PlacementInv
<1> QED BY <1>1, PlacementSafe, PTL

-----------------------------------------------------------------------------
(* Which requests write which table: a table row is the work of its own    *)
(* service, and its first value the work of an insert.                     *)
LEMMA WritersOfJoining ==
    ASSUME [Next]_vars
    PROVE  \/ UNCHANGED joining
           \/ \E w \in Workers : InsertJoining(w)
           \/ \E w \in Workers, p \in Pairs, t \in Bodies : UpdateJoining(w, p, t)
  BY DEF Next, HandlerStep, Arrive, Progress, Fail, ChangeClient, SelectionArrives,
         CreateOffer, LockSelection, RefuseOffer, InsertOffer, UpdateOffer,
         CreateJoining, LockOffer, RefuseJoining,
         CreateBilling, ReadClient, AlreadyBilled, LockJoining, RefuseBilling,
         InsertBilling, tables, vars

(* Only billing.Service.Create writes a billing.                           *)
LEMMA WritersOfBilling ==
    ASSUME [Next]_vars
    PROVE  \/ UNCHANGED billing
           \/ \E w \in Workers : InsertBilling(w)
  BY DEF Next, HandlerStep, Arrive, Progress, Fail, ChangeClient, SelectionArrives,
         CreateOffer, LockSelection, RefuseOffer, InsertOffer, UpdateOffer,
         CreateJoining, LockOffer, RefuseJoining, InsertJoining, UpdateJoining,
         CreateBilling, ReadClient, AlreadyBilled, LockJoining, RefuseBilling,
         tables, vars

(* joining.Service.Create commits a joining only while its offer is        *)
(* accepted, whatever is accepted and withdrawn around it.                 *)
THEOREM JoiningsOnAcceptedOffers == Spec => JoinedOnAcceptedOffer
<1>1. ASSUME PlacementInv, [Next]_vars, NEW p \in Pairs,
             joining[p] = NoRow, joining'[p] # NoRow
      PROVE  offer[p] = "accepted" /\ offer'[p] = "accepted"
  <2>1. PICK w \in Workers : InsertJoining(w)
    BY <1>1, WritersOfJoining DEF PlacementInv, TypeOK, UpdateJoining
  <2>2. request[w].pair \in Pairs /\ offer[request[w].pair] = "accepted"
    BY <1>1, <2>1, RequestShape DEF PlacementInv, PlacementInOrder, TypeOK, InsertJoining
  <2>3. request[w].pair = p
    BY <1>1, <2>1, <2>2 DEF PlacementInv, TypeOK, InsertJoining
  <2> QED BY <2>1, <2>2, <2>3 DEF InsertJoining
<1>2. PlacementInv /\ [Next]_vars =>
        [\A p \in Pairs : joining[p] = NoRow /\ joining'[p] # NoRow =>
            offer[p] = "accepted" /\ offer'[p] = "accepted"]_vars
  BY <1>1
<1> QED BY <1>2, PlacementSafe, PTL DEF Spec, JoinedOnAcceptedOffer

(* billing.Service.Create writes one billing of a pair and never over      *)
(* another, only while the candidate has joined, with the joining date of  *)
(* that moment, however many managers bill the pair.                       *)
THEOREM BillingsOnJoinings == Spec => BilledOnJoining
<1>1. ASSUME PlacementInv, [Next]_vars, NEW p \in Pairs, billing'[p] # billing[p]
      PROVE  /\ billing[p] = NoRow
             /\ Joined(p) /\ joining'[p] = joining[p]
             /\ billing'[p].date = joining[p].date
  <2>1. PICK w \in Workers : InsertBilling(w)
    BY <1>1, WritersOfBilling
  <2>2. /\ request[w].pair \in Pairs /\ Joined(request[w].pair)
        /\ request[w].bill.date = joining[request[w].pair].date
    BY <1>1, <2>1, RequestShape DEF PlacementInv, PlacementInOrder, TypeOK, InsertBilling
  <2>3. request[w].pair = p /\ billing'[p] = request[w].bill
    BY <1>1, <2>1, <2>2 DEF PlacementInv, TypeOK, InsertBilling
  <2>4. billing[p] = NoRow
    BY <1>1, <2>1, <2>3 DEF InsertBilling, Unbilled
  <2> QED BY <2>1, <2>2, <2>3, <2>4 DEF InsertBilling
<1>2. PlacementInv /\ [Next]_vars =>
        [\A p \in Pairs : billing'[p] # billing[p] =>
            billing[p] = NoRow /\ Joined(p) /\ joining'[p] = joining[p]
            /\ billing'[p].date = joining[p].date]_vars
  BY <1>1
<1> QED BY <1>2, PlacementSafe, PTL DEF Spec, BilledOnJoining

(* Joinings and billings are committed only on the rows they rest on, as   *)
(* those rows are at that moment: what a handler read without a lock, it   *)
(* checks again under the lock.                                            *)
THEOREM PlacementsOnFitRows == Spec => PlacedOnFitRows
  BY JoiningsOnAcceptedOffers, BillingsOnJoinings DEF PlacedOnFitRows
=============================================================================
