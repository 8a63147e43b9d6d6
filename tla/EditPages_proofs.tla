--------------------------- MODULE EditPages_proofs ---------------------------
(***************************************************************************)
(* Proofs about EditPages and, first, about UserAccounts, which it         *)
(* extends: for every set of users, candidates, pairs, resumes and tabs,   *)
(* for every limit, and for any number of operations in flight.  A         *)
(* behaviour of EditPages is a behaviour of each of its parts (PartsOf),   *)
(* so the handlers of users and each page are proved of alone: an          *)
(* inductive invariant, lemmas that every step keeps it, and what the part *)
(* promises from it.                                                       *)
(***************************************************************************)
EXTENDS EditPages, Sequences, FiniteSetTheorems, TLAPS

-----------------------------------------------------------------------------
(* UserAccounts: the handlers of users, for any number of calls and faults.*)
(* The requests by what they carry.                                        *)
Counting == [at : {"count", "insert"}, email : Emails]
Adding == [at : {"account", "commit", "takeBack", "takeBackUnlocked"}, user : Users, email : Emails]
Updating == [at : {"update", "updateAccount", "revert"}, user : Users, email : Emails, old : Emails]
Deleting == [at : {"delete", "deleteAccount", "reinsert"}, user : Users, old : Emails]

(* A request carries what belongs to the place it has reached.             *)
LEMMA RequestShape ==
    ASSUME TypeOK, NEW r \in Requests
    PROVE  /\ reqs[r].at \in {"count", "insert"} => reqs[r] \in Counting
           /\ reqs[r].at \in {"account", "commit", "takeBack", "takeBackUnlocked"} => reqs[r] \in Adding
           /\ reqs[r].at \in {"update", "updateAccount", "revert"} => reqs[r] \in Updating
           /\ reqs[r].at \in {"delete", "deleteAccount", "reinsert"} => reqs[r] \in Deleting
           /\ reqs[r].at \in {"idle", "count", "insert", "account", "commit", "takeBack",
                              "takeBackUnlocked", "update", "updateAccount", "revert",
                              "delete", "deleteAccount", "reinsert"}
           /\ reqs[r].at = "idle" <=> reqs[r] = Idle
<1>1. reqs[r] \in Request
  BY DEF TypeOK, RequestsOK
<1>2. reqs[r] \in {Idle} \cup Counting \cup Adding \cup Updating \cup Deleting
  BY <1>1 DEF Request, Counting, Adding, Updating, Deleting
<1> QED BY <1>2 DEF Idle, Counting, Adding, Updating, Deleting

(* A request that moves to a known place leaves the others alone.          *)
LEMMA GoesTypes ==
    ASSUME TypeOK, NEW r \in Requests, NEW to \in Request, Goes(r, to)
    PROVE  /\ reqs' \in [Requests -> Request]
           /\ reqs'[r] = to
           /\ \A q \in Requests \ {r} : reqs'[q] = reqs[q]
  BY DEF TypeOK, RequestsOK, Goes

(* Requests work on users there are or were, never on the administrator,   *)
(* whose row stays.                                                        *)
AdminStays ==
    /\ Admin \in used
    /\ users[Admin] = AdminEmail
    /\ \A r \in Requests : reqs[r].at \notin {"idle", "count", "insert"} =>
                            reqs[r].user \in used \ {Admin}

(* A new tenant has its administrator and no request.                      *)
LEMMA InitType == Init => TypeOK /\ AdminStays
<1> SUFFICES ASSUME Init PROVE TypeOK /\ AdminStays
  OBVIOUS
<1>1. users \in [Users -> Emails \cup {None, AdminEmail}] /\ accounts = users
  BY DEF Init
<1>2. Rows(users) \cup Rows(accounts) \subseteq used
  BY <1>1, UsersAssumption DEF Init, Rows, None
<1>3. \A u, v \in Rows(users) : users[u] = users[v] => u = v
  BY DEF Init, Rows, None
<1>4. reqs \in [Requests -> Request] /\ \A r \in Requests : reqs[r].at = "idle"
  BY DEF Init, Request, Idle
<1> QED BY <1>1, <1>2, <1>3, <1>4, UsersAssumption, BoundAssumption DEF Init, TypeOK, TablesOK, RequestsOK, AdminStays, Locked
-----------------------------------------------------------------------------
(* Every place a request can go from where it is.                          *)
LEMMA NextShape ==
    ASSUME TypeOK, NEW r \in Requests
    PROVE  /\ Idle \in Request
           /\ reqs[r].at \in {"count", "insert"} =>
                 \A at \in {"count", "insert"} : [reqs[r] EXCEPT !.at = at] \in Request
           /\ reqs[r].at \in {"account", "commit", "takeBack", "takeBackUnlocked"} =>
                 \A at \in {"account", "commit", "takeBack", "takeBackUnlocked"} :
                    [reqs[r] EXCEPT !.at = at] \in Request
           /\ reqs[r].at \in {"update", "updateAccount", "revert"} =>
                 \A at \in {"update", "updateAccount", "revert"} : [reqs[r] EXCEPT !.at = at] \in Request
           /\ reqs[r].at \in {"delete", "deleteAccount", "reinsert"} =>
                 \A at \in {"delete", "deleteAccount", "reinsert"} : [reqs[r] EXCEPT !.at = at] \in Request
<1>1. reqs[r].at \in {"count", "insert"} =>
        \A at \in {"count", "insert"} : [reqs[r] EXCEPT !.at = at] \in Counting
  BY RequestShape DEF Counting
<1>2. reqs[r].at \in {"account", "commit", "takeBack", "takeBackUnlocked"} =>
        \A at \in {"account", "commit", "takeBack", "takeBackUnlocked"} :
           [reqs[r] EXCEPT !.at = at] \in Adding
  BY RequestShape DEF Adding
<1>3. reqs[r].at \in {"update", "updateAccount", "revert"} =>
        \A at \in {"update", "updateAccount", "revert"} : [reqs[r] EXCEPT !.at = at] \in Updating
  BY RequestShape DEF Updating
<1>4. reqs[r].at \in {"delete", "deleteAccount", "reinsert"} =>
        \A at \in {"delete", "deleteAccount", "reinsert"} : [reqs[r] EXCEPT !.at = at] \in Deleting
  BY RequestShape DEF Deleting
<1> QED BY <1>1, <1>2, <1>3, <1>4 DEF Request, Counting, Adding, Updating, Deleting

(* A request that ends leaves the requests and the lock in order.          *)
LEMMA Ending ==
    ASSUME TypeOK, NEW r \in Requests, Ends(r), Release(r) \/ UNCHANGED lock
    PROVE  RequestsOK'
<1>1. Idle \in Request
  BY NextShape
<1>2. Goes(r, Idle)
  BY DEF Ends
<1>3. /\ reqs' \in [Requests -> Request] /\ reqs'[r] = Idle
      /\ \A q \in Requests \ {r} : reqs'[q] = reqs[q]
  BY <1>1, <1>2, GoesTypes
<1>4. Idle.at \notin Locked
  BY DEF Idle, Locked
<1> QED BY <1>3, <1>4 DEF Release, TypeOK, RequestsOK

(* A request that moves on keeps the rules of the lock.                    *)
LEMMA Moving ==
    ASSUME TypeOK, NEW r \in Requests, NEW to \in Request, Goes(r, to), UNCHANGED lock,
           to.at \in Locked => lock = r
    PROVE  RequestsOK'
  BY GoesTypes DEF TypeOK, RequestsOK

(* So does one that ends or gives up the lock.                             *)
LEMMA Releasing ==
    ASSUME TypeOK, NEW r \in Requests, NEW to \in Request, Goes(r, to), Release(r),
           to.at \notin Locked
    PROVE  RequestsOK'
  BY GoesTypes DEF Release, TypeOK, RequestsOK

(* Rows that go, or are marked, leave the tables as they must be.          *)
LEMMA FewerRows ==
    ASSUME TypeOK, NEW u \in Users,
           users' = users \/ users' = [users EXCEPT ![u] = None],
           accounts' = accounts \/ accounts' = [accounts EXCEPT ![u] = None],
           marred' = marred \/ Mar(u), UNCHANGED <<used, restored, calls>>,
           UNCHANGED faults \/ Fault
    PROVE  TablesOK'
<1>1. /\ users' \in [Users -> Emails \cup {None, AdminEmail}]
      /\ accounts' \in [Users -> Emails \cup {None, AdminEmail}]
      /\ marred' \subseteq Users
  BY DEF TypeOK, TablesOK, Mar
<1>2. Rows(users)' \subseteq Rows(users) /\ \A v \in Rows(users)' : users'[v] = users[v]
  BY DEF TypeOK, TablesOK, Rows
<1>3. Rows(accounts)' \subseteq Rows(accounts)
  BY DEF TypeOK, TablesOK, Rows
<1>4. faults' \in 0 .. MaxFaults
  BY BoundAssumption DEF Fault, TypeOK, TablesOK
<1>5. /\ \A v, w \in Rows(users)' : users'[v] = users'[w] => v = w
      /\ Rows(users)' \cup Rows(accounts)' \subseteq used'
  BY <1>2, <1>3 DEF TypeOK, TablesOK
<1> QED BY <1>1, <1>4, <1>5 DEF TypeOK, TablesOK, Rows
(* CreateUser and its steps keep the types.                                *)
LEMMA CreateTypes ==
    ASSUME TypeOK, NEW r \in Requests, NEW e \in Emails, CreateUser(r, e)
    PROVE  TypeOK'
<1>1. [at |-> "count", email |-> e] \in Request
  BY DEF Request
<1>2. RequestsOK'
  BY <1>1, GoesTypes, RequestAssumption DEF CreateUser, TypeOK, RequestsOK
<1>3. TablesOK'
  BY BoundAssumption DEF CreateUser, rows, Called, TypeOK, TablesOK, Rows
<1> QED BY <1>2, <1>3 DEF TypeOK

(* CountUsers moves one request and writes no row.                         *)
LEMMA CountTypes ==
    ASSUME TypeOK, NEW r \in Requests, CountUsers(r)
    PROVE  TypeOK'
<1>1. RequestsOK'
  <2>1. CASE Cardinality(Rows(users)) >= Limit
    BY <2>1, Ending DEF CountUsers
  <2>2. CASE ~ Cardinality(Rows(users)) >= Limit
    BY <2>2, NextShape, GoesTypes DEF CountUsers, TypeOK, RequestsOK, Locked
  <2> QED BY <2>1, <2>2
<1>2. TablesOK'
  BY DEF CountUsers, rows, TypeOK, TablesOK, Rows
<1> QED BY <1>1, <1>2 DEF TypeOK

(* InsertUser gives out a new id and an email that is free.                *)
LEMMA InsertTypes ==
    ASSUME TypeOK, NEW r \in Requests, InsertUser(r)
    PROVE  TypeOK'
<1>1. reqs[r] \in Counting
  BY RequestShape DEF InsertUser
<1>2. CASE ~Free(reqs[r].email)
  <2>1. RequestsOK'
    BY <1>2, Ending DEF InsertUser
  <2>2. TablesOK'
    BY <1>2 DEF InsertUser, TypeOK, TablesOK, Rows
  <2> QED BY <2>1, <2>2 DEF TypeOK
<1>3. CASE Free(reqs[r].email)
  <2>1. PICK u \in Users \ used :
          /\ users' = [users EXCEPT ![u] = reqs[r].email]
          /\ used' = used \cup {u}
          /\ Goes(r, [at |-> "account", user |-> u, email |-> reqs[r].email])
          /\ UNCHANGED lock
    BY <1>3 DEF InsertUser
  <2>2. [at |-> "account", user |-> u, email |-> reqs[r].email] \in Request
    BY <1>1 DEF Counting, Request
  <2>3. RequestsOK'
    BY <2>1, <2>2, GoesTypes DEF InsertUser, TypeOK, RequestsOK, Locked
  <2>4. TablesOK'
    BY <1>1, <1>3, <2>1 DEF InsertUser, Free, TypeOK, TablesOK, Rows, Counting
  <2> QED BY <2>3, <2>4 DEF TypeOK
<1> QED BY <1>2, <1>3

(* InsertAccount moves one request and may count a fault.                  *)
LEMMA InsertAccountTypes ==
    ASSUME TypeOK, NEW r \in Requests, InsertAccount(r)
    PROVE  TypeOK'
<1>1. RequestsOK'
  BY NextShape, GoesTypes DEF InsertAccount, TypeOK, RequestsOK, Locked
<1>2. TablesOK'
  BY BoundAssumption DEF InsertAccount, Fault, rows, TypeOK, TablesOK, Rows
<1> QED BY <1>1, <1>2 DEF TypeOK

(* Commit writes the account of an id that was given out.                  *)
LEMMA CommitTypes ==
    ASSUME TypeOK, AdminStays, NEW r \in Requests, Commit(r)
    PROVE  TypeOK'
<1>1. reqs[r] \in Adding /\ reqs[r].user \in used
  BY RequestShape DEF Commit, AdminStays
<1>2. RequestsOK'
  <2>1. CASE Ends(r)
    BY <2>1, Ending DEF Commit
  <2>2. CASE Goes(r, [reqs[r] EXCEPT !.at = "takeBackUnlocked"])
    <3>1. [reqs[r] EXCEPT !.at = "takeBackUnlocked"] \in Request
      BY NextShape DEF Commit
    <3>2. [reqs[r] EXCEPT !.at = "takeBackUnlocked"].at \notin Locked
      BY <1>1 DEF Locked, Adding
    <3> QED BY <2>2, <3>1, <3>2, Releasing DEF Commit
  <2> QED BY <2>1, <2>2 DEF Commit
<1>3. TablesOK'
  BY <1>1, BoundAssumption DEF Commit, Fault, Mar, TypeOK, TablesOK, Rows, Adding
<1> QED BY <1>2, <1>3 DEF TypeOK

(* TakeBack removes a row or gives the user up.                            *)
LEMMA TakeBackTypes ==
    ASSUME TypeOK, NEW r \in Requests, TakeBack(r)
    PROVE  TypeOK'
<1>1. reqs[r].user \in Users
  BY RequestShape DEF TakeBack, Adding
<1>2. RequestsOK'
  BY Ending DEF TakeBack
<1>3. TablesOK'
  BY <1>1, FewerRows DEF TakeBack
<1> QED BY <1>2, <1>3 DEF TypeOK

-----------------------------------------------------------------------------
(* UpdateUser and its steps keep the types.                                *)
LEMMA ReadForUpdateTypes ==
    ASSUME TypeOK, AdminStays, NEW r \in Requests, NEW u \in Users, NEW e \in Emails,
           ReadForUpdate(r, u, e)
    PROVE  TypeOK'
<1>1. users[u] \in Emails
  BY UsersAssumption DEF ReadForUpdate, Editable, TypeOK, TablesOK, AdminStays, Rows, None
<1>2. [at |-> "update", user |-> u, email |-> e, old |-> users[u]] \in Request
  BY <1>1 DEF Request
<1>3. RequestsOK'
  BY <1>2, Moving DEF ReadForUpdate, Locked
<1>4. TablesOK'
  BY BoundAssumption DEF ReadForUpdate, Overlap, Called, rows, TypeOK, TablesOK, Rows
<1> QED BY <1>3, <1>4 DEF TypeOK

(* UpdateUser writes an email no other user has.                           *)
LEMMA UpdateTypes ==
    ASSUME TypeOK, NEW r \in Requests, UpdateUser(r)
    PROVE  TypeOK'
<1>1. reqs[r] \in Updating
  BY RequestShape DEF UpdateUser
<1>2. CASE users[reqs[r].user] # None /\ Taken(reqs[r].user, reqs[r].email)
  <2>1. RequestsOK'
    BY <1>2, Ending DEF UpdateUser
  <2>2. TablesOK'
    BY <1>2 DEF UpdateUser, TypeOK, TablesOK, Rows
  <2> QED BY <2>1, <2>2 DEF TypeOK
<1>3. CASE ~(users[reqs[r].user] # None /\ Taken(reqs[r].user, reqs[r].email))
  <2>1. [reqs[r] EXCEPT !.at = "updateAccount"] \in Request
    BY NextShape DEF UpdateUser
  <2>2. [reqs[r] EXCEPT !.at = "updateAccount"].at \notin Locked
    BY <1>1 DEF Updating, Locked
  <2>3. RequestsOK'
    BY <1>3, <2>1, <2>2, Moving DEF UpdateUser
  <2>4. users' = Set(users, reqs[r].user, reqs[r].email)
    BY <1>3 DEF UpdateUser
  <2>5. TablesOK'
    BY <1>1, <1>3, <2>4 DEF UpdateUser, Set, Taken, TypeOK, TablesOK, Rows, Updating
  <2> QED BY <2>3, <2>5 DEF TypeOK
<1> QED BY <1>2, <1>3

(* UpdateAccount changes an account there is.                              *)
LEMMA UpdateAccountTypes ==
    ASSUME TypeOK, NEW r \in Requests, UpdateAccount(r)
    PROVE  TypeOK'
<1>1. reqs[r] \in Updating
  BY RequestShape DEF UpdateAccount
<1>2. CASE /\ Ends(r) /\ accounts' = Set(accounts, reqs[r].user, reqs[r].email)
           /\ UNCHANGED <<faults, marred>>
  <2>1. RequestsOK'
    BY <1>2, Ending DEF UpdateAccount
  <2>2. TablesOK'
    BY <1>1, <1>2 DEF UpdateAccount, Set, TypeOK, TablesOK, Rows, Updating
  <2> QED BY <2>1, <2>2 DEF TypeOK
<1>3. CASE /\ Goes(r, [reqs[r] EXCEPT !.at = "revert"]) /\ Fault
           /\ \/ UNCHANGED <<accounts, marred>>
              \/ accounts' = Set(accounts, reqs[r].user, reqs[r].email) /\ Mar(reqs[r].user)
  <2>1. [reqs[r] EXCEPT !.at = "revert"] \in Request
    BY NextShape DEF UpdateAccount
  <2>2. [reqs[r] EXCEPT !.at = "revert"].at \notin Locked
    BY <1>1 DEF Updating, Locked
  <2>3. RequestsOK'
    BY <1>3, <2>1, <2>2, Moving DEF UpdateAccount
  <2>4. faults' \in 0 .. MaxFaults
    BY <1>3, BoundAssumption DEF Fault, TypeOK, TablesOK
  <2>5. TablesOK'
    BY <1>1, <1>3, <2>4 DEF UpdateAccount, Set, Mar, TypeOK, TablesOK, Rows, Updating
  <2> QED BY <2>3, <2>5 DEF TypeOK
<1> QED BY <1>2, <1>3 DEF UpdateAccount

(* Revert writes the old email only while no other user has it.            *)
LEMMA RevertTypes ==
    ASSUME TypeOK, NEW r \in Requests, Revert(r)
    PROVE  TypeOK'
<1>1. reqs[r] \in Updating
  BY RequestShape DEF Revert
<1>2. RequestsOK'
  BY Ending DEF Revert
<1>3. CASE UNCHANGED users
  BY <1>1, <1>2, <1>3, FewerRows DEF Revert, Updating, TypeOK
<1>4. CASE /\ users[reqs[r].user] = None \/ ~Taken(reqs[r].user, reqs[r].old)
           /\ users' = Set(users, reqs[r].user, reqs[r].old)
           /\ UNCHANGED <<faults, marred>>
  <2>1. TablesOK'
    BY <1>1, <1>4 DEF Revert, Set, Taken, TypeOK, TablesOK, Rows, Updating
  <2> QED BY <1>2, <2>1 DEF TypeOK
<1> QED BY <1>3, <1>4 DEF Revert

-----------------------------------------------------------------------------
(* DeleteUser and its steps keep the types.                                *)
LEMMA ReadForDeleteTypes ==
    ASSUME TypeOK, AdminStays, NEW r \in Requests, NEW u \in Users, ReadForDelete(r, u)
    PROVE  TypeOK'
<1>1. users[u] \in Emails
  BY UsersAssumption DEF ReadForDelete, Editable, TypeOK, TablesOK, AdminStays, Rows, None
<1>2. [at |-> "delete", user |-> u, old |-> users[u]] \in Request
  BY <1>1 DEF Request
<1>3. RequestsOK'
  BY <1>2, Moving DEF ReadForDelete, Locked
<1>4. TablesOK'
  BY BoundAssumption DEF ReadForDelete, Overlap, Called, rows, TypeOK, TablesOK, Rows
<1> QED BY <1>3, <1>4 DEF TypeOK

(* DeleteUser removes a row.                                               *)
LEMMA DeleteTypes ==
    ASSUME TypeOK, NEW r \in Requests, DeleteUser(r)
    PROVE  TypeOK'
<1>1. reqs[r] \in Deleting
  BY RequestShape DEF DeleteUser
<1>2. [reqs[r] EXCEPT !.at = "deleteAccount"] \in Request
  BY NextShape DEF DeleteUser
<1>3. [reqs[r] EXCEPT !.at = "deleteAccount"].at \notin Locked
  BY <1>1 DEF Deleting, Locked
<1>4. RequestsOK'
  BY <1>2, <1>3, Moving DEF DeleteUser
<1>5. TablesOK'
  BY <1>1, FewerRows DEF DeleteUser, Deleting
<1> QED BY <1>4, <1>5 DEF TypeOK

(* DeleteAccount removes an account.                                       *)
LEMMA DeleteAccountTypes ==
    ASSUME TypeOK, NEW r \in Requests, DeleteAccount(r)
    PROVE  TypeOK'
<1>1. reqs[r] \in Deleting
  BY RequestShape DEF DeleteAccount
<1>2. TablesOK'
  BY <1>1, FewerRows DEF DeleteAccount, Deleting
<1>3. CASE Ends(r)
  BY <1>2, <1>3, Ending DEF DeleteAccount, TypeOK
<1>4. CASE Goes(r, [reqs[r] EXCEPT !.at = "reinsert"])
  <2>1. [reqs[r] EXCEPT !.at = "reinsert"] \in Request
    BY NextShape DEF DeleteAccount
  <2>2. [reqs[r] EXCEPT !.at = "reinsert"].at \notin Locked
    BY <1>1 DEF Deleting, Locked
  <2> QED BY <1>2, <1>4, <2>1, <2>2, Moving DEF DeleteAccount, TypeOK
<1> QED BY <1>3, <1>4 DEF DeleteAccount

(* Reinsert gives a row its old id and an email that is free.              *)
LEMMA ReinsertTypes ==
    ASSUME TypeOK, AdminStays, NEW r \in Requests, Reinsert(r)
    PROVE  TypeOK'
<1>1. reqs[r] \in Deleting /\ reqs[r].user \in used
  BY RequestShape DEF Reinsert, AdminStays
<1>2. RequestsOK'
  BY Ending DEF Reinsert
<1>3. CASE UNCHANGED <<users, restored>>
  BY <1>1, <1>2, <1>3, FewerRows DEF Reinsert, Deleting, TypeOK
<1>4. CASE /\ users[reqs[r].user] = None /\ Free(reqs[r].old)
           /\ users' = [users EXCEPT ![reqs[r].user] = reqs[r].old]
           /\ restored' = restored \cup {reqs[r].user}
           /\ UNCHANGED <<faults, marred>>
  <2>1. TablesOK'
    BY <1>1, <1>4 DEF Reinsert, Free, TypeOK, TablesOK, Rows, Deleting
  <2> QED BY <1>2, <2>1 DEF TypeOK
<1> QED BY <1>3, <1>4 DEF Reinsert

(* A crash ends every request and releases the lock.                       *)
LEMMA CrashTypes ==
    ASSUME TypeOK, Crash
    PROVE  TypeOK'
<1>1. RequestsOK'
  BY DEF Crash, TypeOK, RequestsOK, Request, Idle, Locked
<1>2. TablesOK'
  BY BoundAssumption DEF Crash, Fault, rows, TypeOK, TablesOK, Rows
<1> QED BY <1>1, <1>2 DEF TypeOK
-----------------------------------------------------------------------------
Resting == {"idle", "count", "insert"}

(* A request moves on with its user, or ends.                              *)
LEMMA WorkGoesOn ==
    ASSUME TypeOK, NEW r \in Requests, reqs[r].at \notin Resting,
           \/ Ends(r)
           \/ \E at \in {"commit", "takeBack", "takeBackUnlocked", "updateAccount", "revert",
                         "deleteAccount", "reinsert"} : Goes(r, [reqs[r] EXCEPT !.at = at])
    PROVE  /\ reqs'[r] = Idle \/ (reqs'[r].at \notin Resting /\ reqs'[r].user = reqs[r].user)
           /\ \A q \in Requests \ {r} : reqs'[q] = reqs[q]
<1>1. reqs[r] \in Adding \cup Updating \cup Deleting
  BY RequestShape DEF Resting
<1>2. ASSUME Ends(r) PROVE reqs'[r] = Idle
  BY <1>2 DEF Ends, Goes, TypeOK, RequestsOK
<1>3. ASSUME NEW at \in {"commit", "takeBack", "takeBackUnlocked", "updateAccount", "revert",
                         "deleteAccount", "reinsert"}, Goes(r, [reqs[r] EXCEPT !.at = at])
      PROVE  reqs'[r].at \notin Resting /\ reqs'[r].user = reqs[r].user
  <2>1. reqs'[r] = [reqs[r] EXCEPT !.at = at]
    BY <1>3 DEF Goes, TypeOK, RequestsOK
  <2>2. reqs'[r].at = at /\ reqs'[r].user = reqs[r].user
    BY <1>1, <2>1 DEF Adding, Updating, Deleting
  <2> QED BY <2>2 DEF Resting
<1>4. \A q \in Requests \ {r} : reqs'[q] = reqs[q]
  <2>1. PICK to : Goes(r, to)
    BY DEF Ends
  <2> QED BY <2>1 DEF Goes, TypeOK, RequestsOK
<1> QED BY <1>2, <1>3, <1>4

(* A step of a request that works on a user changes the rows of that user  *)
(* only.                                                                   *)
LEMMA WorkingStep ==
    ASSUME TypeOK, NEW r \in Requests, reqs[r].at \notin Resting, Step(r)
    PROVE  /\ reqs'[r] = Idle \/ (reqs'[r].at \notin Resting /\ reqs'[r].user = reqs[r].user)
           /\ \A q \in Requests \ {r} : reqs'[q] = reqs[q]
           /\ \A u \in Users \ {reqs[r].user} : users'[u] = users[u] /\ accounts'[u] = accounts[u]
           /\ used' = used
<1>1. /\ users \in [Users -> Emails \cup {None, AdminEmail}]
      /\ accounts \in [Users -> Emails \cup {None, AdminEmail}]
  BY DEF TypeOK, TablesOK
<1>2. CASE InsertAccount(r)
  BY <1>1, <1>2, WorkGoesOn DEF InsertAccount, rows
<1>3. CASE Commit(r)
  BY <1>1, <1>3, WorkGoesOn DEF Commit
<1>4. CASE TakeBack(r)
  BY <1>1, <1>4, WorkGoesOn DEF TakeBack
<1>5. CASE UpdateUser(r)
  BY <1>1, <1>5, WorkGoesOn DEF UpdateUser, Set
<1>6. CASE UpdateAccount(r)
  BY <1>1, <1>6, WorkGoesOn DEF UpdateAccount, Set
<1>7. CASE Revert(r)
  BY <1>1, <1>7, WorkGoesOn DEF Revert, Set
<1>8. CASE DeleteUser(r)
  BY <1>1, <1>8, WorkGoesOn DEF DeleteUser
<1>9. CASE DeleteAccount(r)
  BY <1>1, <1>9, WorkGoesOn DEF DeleteAccount
<1>10. CASE Reinsert(r)
  BY <1>1, <1>10, WorkGoesOn DEF Reinsert
<1>11. ~CountUsers(r) /\ ~InsertUser(r)
  BY DEF CountUsers, InsertUser, Resting
<1> QED BY <1>2, <1>3, <1>4, <1>5, <1>6, <1>7, <1>8, <1>9, <1>10, <1>11 DEF Step
(* The other steps bring up a request that rests or reads a user, or stop  *)
(* all of them.                                                            *)
LEMMA AdminStep ==
    ASSUME TypeOK, AdminStays, [Next]_vars
    PROVE  AdminStays'
<1>1. CASE UNCHANGED vars
  BY <1>1 DEF vars, rows, AdminStays
<1>2. ASSUME NEW r \in Requests, reqs[r].at \notin Resting, Step(r) PROVE AdminStays'
  <2>1. reqs[r].user \in used \ {Admin}
    BY <1>2 DEF AdminStays, Resting
  <2>2. Idle.at \in Resting
    BY DEF Idle, Resting
  <2> QED BY <1>2, <2>1, <2>2, WorkingStep, UsersAssumption DEF AdminStays, Resting
<1>3. ASSUME NEW r \in Requests, CountUsers(r) PROVE AdminStays'
  <2>1. reqs[r] \in Counting
    BY <1>3, RequestShape DEF CountUsers
  <2>2. reqs'[r].at \in Resting /\ \A q \in Requests \ {r} : reqs'[q] = reqs[q]
    BY <1>3, <2>1 DEF CountUsers, Ends, Goes, Idle, Counting, Resting, TypeOK, RequestsOK
  <2> QED BY <1>3, <2>2 DEF CountUsers, rows, AdminStays, Resting
<1>4. ASSUME NEW r \in Requests, InsertUser(r) PROVE AdminStays'
  <2>1. CASE Ends(r) /\ UNCHANGED <<users, used>>
    BY <2>1 DEF Ends, Goes, Idle, AdminStays, TypeOK, RequestsOK
  <2>2. CASE \E u \in Users \ used :
               /\ users' = [users EXCEPT ![u] = reqs[r].email]
               /\ used' = used \cup {u}
               /\ Goes(r, [at |-> "account", user |-> u, email |-> reqs[r].email])
    BY <2>2, UsersAssumption DEF Goes, AdminStays, TypeOK, TablesOK, RequestsOK
  <2> QED BY <1>4, <2>1, <2>2 DEF InsertUser
<1>5. ASSUME NEW r \in Requests, NEW e \in Emails, CreateUser(r, e) PROVE AdminStays'
  BY <1>5 DEF CreateUser, Goes, rows, AdminStays, TypeOK, RequestsOK
<1>6. ASSUME NEW r \in Requests, NEW u \in Users, NEW e \in Emails, ReadForUpdate(r, u, e)
      PROVE  AdminStays'
  BY <1>6 DEF ReadForUpdate, Editable, Goes, rows, AdminStays, TypeOK, TablesOK, RequestsOK, Rows
<1>7. ASSUME NEW r \in Requests, NEW u \in Users, ReadForDelete(r, u) PROVE AdminStays'
  BY <1>7 DEF ReadForDelete, Editable, Goes, rows, AdminStays, TypeOK, TablesOK, RequestsOK, Rows
<1>8. CASE Crash
  BY <1>8 DEF Crash, Idle, rows, AdminStays
<1>9. ASSUME NEW r \in Requests, Step(r), reqs[r].at \in Resting
      PROVE  CountUsers(r) \/ InsertUser(r)
  BY <1>9 DEF Step, Resting, InsertAccount, Commit, TakeBack, UpdateUser, UpdateAccount, Revert,
              DeleteUser, DeleteAccount, Reinsert
<1> QED BY <1>1, <1>2, <1>3, <1>4, <1>5, <1>6, <1>7, <1>8, <1>9 DEF Next

(* The inductive step for type correctness.                                *)
LEMMA TypeStep ==
    ASSUME TypeOK, AdminStays, [Next]_vars
    PROVE  TypeOK'
<1>1. CASE UNCHANGED vars
  BY <1>1 DEF vars, rows, TypeOK, TablesOK, RequestsOK, Rows
<1>2. ASSUME NEW r \in Requests, Step(r) PROVE TypeOK'
  BY <1>2, CountTypes, InsertTypes, InsertAccountTypes, CommitTypes, TakeBackTypes, UpdateTypes,
     UpdateAccountTypes, RevertTypes, DeleteTypes, DeleteAccountTypes, ReinsertTypes DEF Step
<1> QED BY <1>1, <1>2, CreateTypes, ReadForUpdateTypes, ReadForDeleteTypes, CrashTypes DEF Next

(* Type correctness, among it that only the holder of the lock counts and  *)
(* takes seats, and that emails stay unique.                               *)
THEOREM UserTypes == Spec => []TypeOK
<1>1. TypeOK /\ AdminStays /\ [Next]_vars => (TypeOK /\ AdminStays)'
  BY TypeStep, AdminStep
<1> QED BY InitType, <1>1, PTL DEF Spec
-----------------------------------------------------------------------------
(* The seats: whoever is about to insert has counted a free seat that is   *)
(* still free, for the lock keeps the other creations away and nothing     *)
(* else adds a row that is not a restored one.                             *)
SeatFree == \A r \in Requests : reqs[r].at = "insert" => Cardinality(Rows(users) \ restored) < Limit

(* At first the administrator alone has a seat.                            *)
LEMMA SeatsInit == Init => SeatsKept /\ SeatFree
<1> SUFFICES ASSUME Init PROVE SeatsKept /\ SeatFree
  OBVIOUS
<1>1. Rows(users) \ restored \subseteq {Admin}
  BY DEF Init, Rows
<1>2. IsFiniteSet({Admin}) /\ Cardinality({Admin}) = 1
  BY FS_Singleton
<1>3. Cardinality(Rows(users) \ restored) <= 1 /\ Cardinality(Rows(users) \ restored) \in Nat
  BY <1>1, <1>2, FS_Subset, FS_CardinalityType
<1> QED BY <1>3, LimitAssumption DEF Init, Idle, SeatsKept, SeatFree

(* A part of a set of users has no more members than the set.              *)
LEMMA FewerSeats ==
    ASSUME NEW S, NEW T, S \subseteq T, T \subseteq Users
    PROVE  Cardinality(S) <= Cardinality(T) /\ Cardinality(S) \in Nat /\ Cardinality(T) \in Nat
<1>1. IsFiniteSet(T) /\ IsFiniteSet(S)
  BY UsersAssumption, FS_Subset
<1> QED BY <1>1, FS_Subset, FS_CardinalityType

(* A step that adds no row but restored ones keeps the seats.              *)
LEMMA NoNewSeat ==
    ASSUME SeatsKept, SeatFree, Rows(users)' \ restored' \subseteq Rows(users) \ restored,
           \A r \in Requests : reqs'[r].at = "insert" => reqs[r].at = "insert"
    PROVE  SeatsKept' /\ SeatFree'
<1>1. Rows(users) \ restored \subseteq Users
  BY DEF Rows
<1>2. Cardinality(Rows(users)' \ restored') <= Cardinality(Rows(users) \ restored)
  BY <1>1, FewerSeats
<1>3. Cardinality(Rows(users)' \ restored') \in Nat /\ Cardinality(Rows(users) \ restored) \in Nat
  BY <1>1, FewerSeats
<1>4. SeatsKept'
  BY <1>2, <1>3, LimitAssumption DEF SeatsKept
<1>5. SeatFree'
  BY <1>2, <1>3, LimitAssumption DEF SeatFree
<1> QED BY <1>4, <1>5

(* The inductive step for the seats.                                       *)
LEMMA SeatsStep ==
    ASSUME TypeOK, SeatsKept, SeatFree, [Next]_vars
    PROVE  SeatsKept' /\ SeatFree'
<1>1. CASE UNCHANGED vars
  BY <1>1, NoNewSeat DEF vars, rows, Rows
<1>2. ASSUME NEW r \in Requests, reqs[r].at \notin Resting, Step(r) PROVE SeatsKept' /\ SeatFree'
  <2>1. \A q \in Requests : reqs'[q].at = "insert" => reqs[q].at = "insert"
    BY <1>2, WorkingStep DEF Idle, Resting
  <2>2. Rows(users)' \ restored' \subseteq Rows(users) \ restored
    <3>1. CASE InsertAccount(r) \/ Commit(r) \/ TakeBack(r)
      BY <3>1 DEF InsertAccount, Commit, TakeBack, rows, TypeOK, TablesOK, Rows
    <3>2. CASE UpdateUser(r) \/ UpdateAccount(r) \/ Revert(r)
      BY <3>2 DEF UpdateUser, UpdateAccount, Revert, Set, TypeOK, TablesOK, Rows
    <3>3. CASE DeleteUser(r) \/ DeleteAccount(r) \/ Reinsert(r)
      BY <3>3 DEF DeleteUser, DeleteAccount, Reinsert, TypeOK, TablesOK, Rows
    <3>4. ~CountUsers(r) /\ ~InsertUser(r)
      BY <1>2 DEF CountUsers, InsertUser, Resting
    <3> QED BY <1>2, <3>1, <3>2, <3>3, <3>4 DEF Step
  <2> QED BY <2>1, <2>2, NoNewSeat
<1>3. ASSUME NEW r \in Requests, CountUsers(r) PROVE SeatsKept' /\ SeatFree'
  <2>1. CASE Cardinality(Rows(users)) >= Limit
    <3>1. \A q \in Requests : reqs'[q].at = "insert" => reqs[q].at = "insert"
      BY <1>3, <2>1 DEF CountUsers, Ends, Goes, Idle, TypeOK, RequestsOK
    <3> QED BY <1>3, <3>1, NoNewSeat DEF CountUsers, rows, Rows
  <2>2. CASE ~ Cardinality(Rows(users)) >= Limit
    <3>1. /\ Cardinality(Rows(users) \ restored) <= Cardinality(Rows(users))
          /\ Cardinality(Rows(users) \ restored) \in Nat /\ Cardinality(Rows(users)) \in Nat
      BY FewerSeats DEF Rows
    <3>2. Cardinality(Rows(users) \ restored) < Limit
      BY <2>2, <3>1, LimitAssumption
    <3> QED BY <1>3, <3>1, <3>2, LimitAssumption DEF CountUsers, rows, Rows, SeatsKept, SeatFree
  <2> QED BY <2>1, <2>2
<1>4. ASSUME NEW r \in Requests, InsertUser(r) PROVE SeatsKept' /\ SeatFree'
  <2>1. CASE Ends(r) /\ UNCHANGED <<users, restored>>
    <3>1. \A q \in Requests : reqs'[q].at = "insert" => reqs[q].at = "insert"
      BY <2>1 DEF Ends, Goes, Idle, TypeOK, RequestsOK
    <3> QED BY <2>1, <3>1, NoNewSeat DEF Rows
  <2>2. ASSUME NEW u \in Users \ used, users' = [users EXCEPT ![u] = reqs[r].email],
               Goes(r, [at |-> "account", user |-> u, email |-> reqs[r].email])
        PROVE  SeatsKept' /\ SeatFree'
    <3>1. \A q \in Requests : reqs'[q].at # "insert"
      BY <1>4, <2>2 DEF InsertUser, Goes, TypeOK, RequestsOK, Locked
    <3>2. Rows(users)' \ restored' \subseteq (Rows(users) \ restored) \cup {u}
      BY <1>4, <2>2 DEF InsertUser, Rows, TypeOK, TablesOK
    <3>3. Cardinality(Rows(users) \ restored) < Limit
      BY <1>4 DEF InsertUser, SeatFree
    <3>4. IsFiniteSet(Rows(users) \ restored) /\ Cardinality(Rows(users) \ restored) \in Nat
      <4>1. Rows(users) \ restored \in SUBSET Users
        BY DEF Rows
      <4> QED BY <4>1, UsersAssumption, FS_Subset, FS_CardinalityType
    <3>5. Cardinality((Rows(users) \ restored) \cup {u}) <= Cardinality(Rows(users) \ restored) + 1
      <4>1. /\ u \in Rows(users) \ restored =>
                  Cardinality((Rows(users) \ restored) \cup {u}) = Cardinality(Rows(users) \ restored)
            /\ u \notin Rows(users) \ restored =>
                  Cardinality((Rows(users) \ restored) \cup {u}) = Cardinality(Rows(users) \ restored) + 1
        BY <3>4, FS_AddElement
      <4> QED BY <3>4, <4>1
    <3>6. (Rows(users) \ restored) \cup {u} \subseteq Users
      BY <2>2 DEF Rows
    <3>7. /\ Cardinality(Rows(users)' \ restored') <= Cardinality((Rows(users) \ restored) \cup {u})
          /\ Cardinality(Rows(users)' \ restored') \in Nat
          /\ Cardinality((Rows(users) \ restored) \cup {u}) \in Nat
      BY <3>2, <3>6, FewerSeats
    <3> QED BY <3>1, <3>3, <3>4, <3>5, <3>7, LimitAssumption DEF SeatsKept, SeatFree
  <2> QED BY <1>4, <2>1, <2>2 DEF InsertUser
<1>5. ASSUME NEW r \in Requests, NEW e \in Emails, CreateUser(r, e) PROVE SeatsKept' /\ SeatFree'
  <2>1. \A q \in Requests : reqs'[q].at = "insert" => reqs[q].at = "insert"
    BY <1>5 DEF CreateUser, Goes, TypeOK, RequestsOK
  <2> QED BY <1>5, <2>1, NoNewSeat DEF CreateUser, rows, Rows
<1>6. ASSUME NEW r \in Requests, NEW u \in Users, NEW e \in Emails, ReadForUpdate(r, u, e)
      PROVE  SeatsKept' /\ SeatFree'
  <2>1. \A q \in Requests : reqs'[q].at = "insert" => reqs[q].at = "insert"
    BY <1>6 DEF ReadForUpdate, Goes, TypeOK, RequestsOK
  <2> QED BY <1>6, <2>1, NoNewSeat DEF ReadForUpdate, rows, Rows
<1>7. ASSUME NEW r \in Requests, NEW u \in Users, ReadForDelete(r, u) PROVE SeatsKept' /\ SeatFree'
  <2>1. \A q \in Requests : reqs'[q].at = "insert" => reqs[q].at = "insert"
    BY <1>7 DEF ReadForDelete, Goes, TypeOK, RequestsOK
  <2> QED BY <1>7, <2>1, NoNewSeat DEF ReadForDelete, rows, Rows
<1>8. CASE Crash
  BY <1>8, NoNewSeat DEF Crash, Idle, rows, Rows
<1>9. ASSUME NEW r \in Requests, Step(r), reqs[r].at \in Resting
      PROVE  CountUsers(r) \/ InsertUser(r)
  BY <1>9 DEF Step, Resting, InsertAccount, Commit, TakeBack, UpdateUser, UpdateAccount, Revert,
              DeleteUser, DeleteAccount, Reinsert
<1> QED BY <1>1, <1>2, <1>3, <1>4, <1>5, <1>6, <1>7, <1>8, <1>9 DEF Next

(* Whatever runs at the same time and whatever fails, creations never take *)
(* more seats than the subscription has.                                   *)
THEOREM SeatLimitHolds == Spec => []SeatsKept
<1>1. TypeOK /\ AdminStays /\ [Next]_vars => (TypeOK /\ AdminStays)'
  BY TypeStep, AdminStep
<1>2. TypeOK /\ SeatsKept /\ SeatFree /\ [Next]_vars => (SeatsKept /\ SeatFree)'
  BY SeatsStep
<1> QED BY InitType, SeatsInit, <1>1, <1>2, PTL DEF Spec
-----------------------------------------------------------------------------
(* The two databases.  What a request on a user knows of the user's rows,  *)
(* by how far it is, as long as it is the only one.                        *)
Phase(r) ==
    LET u == reqs[r].user at == reqs[r].at
    IN  /\ at \in {"account", "commit", "takeBack", "takeBackUnlocked"} =>
              users[u] = reqs[r].email /\ accounts[u] = None
        /\ at \in {"update", "delete"} => users[u] = reqs[r].old /\ accounts[u] = reqs[r].old
        /\ at \in {"updateAccount", "revert"} =>
              users[u] = reqs[r].email /\ accounts[u] = reqs[r].old
        /\ at \in {"deleteAccount", "reinsert"} => users[u] = None /\ accounts[u] = reqs[r].old

(* A user is given up, or one request at most works on it and knows where  *)
(* it stands, and the rows agree when none does.                           *)
UserOK(u) ==
    u \notin marred =>
        /\ \A r, s \in On(u) : r = s
        /\ \A r \in On(u) : Phase(r)
        /\ On(u) = {} => users[u] = accounts[u]

PairsOK == \A u \in Users : UserOK(u)

(* At first both databases hold the administrator alone.                   *)
LEMMA PairsInit == Init => PairsOK
  BY DEF Init, Idle, On, PairsOK, UserOK

(* A step that leaves a user and the requests on it alone.                 *)
LEMMA Untouched ==
    ASSUME NEW u \in Users, UserOK(u), u \in marred => u \in marred',
           users'[u] = users[u], accounts'[u] = accounts[u], On(u)' = On(u),
           \A r \in On(u) : reqs'[r] = reqs[r]
    PROVE  UserOK(u)'
  BY DEF UserOK, Phase, On

(* A request that goes on keeps what it carries.                           *)
LEMMA Advanced ==
    ASSUME TypeOK, NEW r \in Requests,
           NEW at \in {"commit", "takeBack", "takeBackUnlocked", "updateAccount", "revert",
                       "deleteAccount", "reinsert"}, Goes(r, [reqs[r] EXCEPT !.at = at])
    PROVE  /\ reqs[r] \in Adding \cup Updating \cup Deleting =>
                 reqs'[r].at = at /\ reqs'[r].user = reqs[r].user
           /\ reqs[r] \in Adding \cup Updating => reqs'[r].email = reqs[r].email
           /\ reqs[r] \in Updating \cup Deleting => reqs'[r].old = reqs[r].old
<1>1. reqs'[r] = [reqs[r] EXCEPT !.at = at]
  BY DEF Goes, TypeOK, RequestsOK
<1> QED BY <1>1 DEF Adding, Updating, Deleting

(* The only request on a user leaves the rows as its next place says, and  *)
(* in agreement when it ends.                                              *)
LEMMA PhaseStep ==
    ASSUME TypeOK, NEW r \in Requests, reqs[r].at \notin Resting, Step(r), Phase(r),
           reqs[r].user \notin marred'
    PROVE  \/ reqs'[r] = Idle /\ users'[reqs[r].user] = accounts'[reqs[r].user]
           \/ reqs'[r].at # "idle" /\ Phase(r)'
<1>1. /\ users \in [Users -> Emails \cup {None, AdminEmail}]
      /\ accounts \in [Users -> Emails \cup {None, AdminEmail}]
      /\ reqs \in [Requests -> Request]
  BY DEF TypeOK, TablesOK, RequestsOK
<1>2. CASE InsertAccount(r)
  <2>1. reqs[r] \in Adding
    BY <1>2, RequestShape DEF InsertAccount
  <2>2. CASE Goes(r, [reqs[r] EXCEPT !.at = "commit"])
    <3>1. /\ reqs'[r].at = "commit" /\ reqs'[r].user = reqs[r].user
          /\ reqs'[r].email = reqs[r].email
      BY <2>1, <2>2, Advanced
    <3> QED BY <1>1, <1>2, <2>1, <2>2, <3>1 DEF InsertAccount, rows, Phase, Adding
  <2>3. CASE Goes(r, [reqs[r] EXCEPT !.at = "takeBack"])
    <3>1. /\ reqs'[r].at = "takeBack" /\ reqs'[r].user = reqs[r].user
          /\ reqs'[r].email = reqs[r].email
      BY <2>1, <2>3, Advanced
    <3> QED BY <1>1, <1>2, <2>1, <2>3, <3>1 DEF InsertAccount, rows, Phase, Adding
  <2> QED BY <1>2, <2>2, <2>3 DEF InsertAccount
<1>3. CASE Commit(r)
  <2>1. reqs[r] \in Adding
    BY <1>3, RequestShape DEF Commit
  <2>2. CASE Goes(r, [reqs[r] EXCEPT !.at = "takeBackUnlocked"])
    <3>1. /\ reqs'[r].at = "takeBackUnlocked" /\ reqs'[r].user = reqs[r].user
          /\ reqs'[r].email = reqs[r].email
      BY <2>1, <2>2, Advanced
    <3>2. ~ Ends(r)
      BY <1>1, <3>1 DEF Ends, Goes, Idle
    <3>3. reqs[r].user \in Users
      BY <2>1 DEF Adding
    <3>4. users' = users /\ accounts' = accounts
      BY <1>3, <3>2, <3>3 DEF Commit, Mar
    <3>5. users[reqs[r].user] = reqs[r].email /\ accounts[reqs[r].user] = None
      BY <1>3 DEF Commit, Phase
    <3> QED BY <3>1, <3>4, <3>5 DEF Phase
  <2>3. CASE Ends(r)
    BY <1>1, <1>3, <2>1, <2>3 DEF Commit, Ends, Goes, Mar, Phase, Adding
  <2> QED BY <1>3, <2>2, <2>3 DEF Commit
<1>4. CASE TakeBack(r)
  <2>1. reqs[r] \in Adding
    BY <1>4, RequestShape DEF TakeBack
  <2>2. CASE Ends(r)
    BY <1>1, <1>4, <2>1, <2>2 DEF TakeBack, Ends, Goes, Mar, Phase, Adding
  <2> QED BY <1>4, <2>2 DEF TakeBack
<1>5. CASE UpdateUser(r)
  <2>1. reqs[r] \in Updating
    BY <1>5, RequestShape DEF UpdateUser
  <2>2. CASE Goes(r, [reqs[r] EXCEPT !.at = "updateAccount"])
    <3>1. /\ reqs'[r].at = "updateAccount" /\ reqs'[r].user = reqs[r].user
          /\ reqs'[r].email = reqs[r].email /\ reqs'[r].old = reqs[r].old
      BY <2>1, <2>2, Advanced
    <3>2. ~ Ends(r)
      BY <1>1, <3>1 DEF Ends, Goes, Idle
    <3>3. reqs[r].user \in Users /\ reqs[r].old # None
      BY <2>1, EmailAssumption DEF Updating, None
    <3>4. users' = Set(users, reqs[r].user, reqs[r].email) /\ accounts' = accounts
      BY <1>5, <3>2 DEF UpdateUser
    <3>5. users[reqs[r].user] = reqs[r].old /\ accounts[reqs[r].user] = reqs[r].old
      BY <1>5 DEF UpdateUser, Phase
    <3>6. users'[reqs[r].user] = reqs[r].email
      BY <1>1, <3>3, <3>4, <3>5 DEF Set
    <3> QED BY <3>1, <3>4, <3>5, <3>6 DEF Phase
  <2>3. CASE Ends(r)
    BY <1>1, <1>5, <2>1, <2>3, EmailAssumption DEF UpdateUser, Ends, Goes, Set, Phase, Updating, None
  <2> QED BY <1>5, <2>2, <2>3 DEF UpdateUser
<1>6. CASE UpdateAccount(r)
  <2>1. reqs[r] \in Updating
    BY <1>6, RequestShape DEF UpdateAccount
  <2>2. CASE Goes(r, [reqs[r] EXCEPT !.at = "revert"])
    <3>1. /\ reqs'[r].at = "revert" /\ reqs'[r].user = reqs[r].user
          /\ reqs'[r].email = reqs[r].email /\ reqs'[r].old = reqs[r].old
      BY <2>1, <2>2, Advanced
    <3>2. ~ Ends(r)
      BY <1>1, <3>1 DEF Ends, Goes, Idle
    <3>3. users' = users /\ accounts' = accounts
      BY <1>6, <2>1, <3>2 DEF UpdateAccount, Mar, Updating
    <3>4. users[reqs[r].user] = reqs[r].email /\ accounts[reqs[r].user] = reqs[r].old
      BY <1>6 DEF UpdateAccount, Phase
    <3> QED BY <3>1, <3>3, <3>4 DEF Phase
  <2>3. CASE Ends(r)
    BY <1>1, <1>6, <2>1, <2>3, EmailAssumption DEF UpdateAccount, Ends, Goes, Set, Phase, Updating, None
  <2> QED BY <1>6, <2>2, <2>3 DEF UpdateAccount
<1>7. CASE Revert(r)
  <2>1. reqs[r] \in Updating
    BY <1>7, RequestShape DEF Revert
  <2>2. CASE Ends(r)
    BY <1>1, <1>7, <2>1, <2>2, EmailAssumption DEF Revert, Ends, Goes, Set, Mar, Phase, Updating, None
  <2> QED BY <1>7, <2>2 DEF Revert
<1>8. CASE DeleteUser(r)
  <2>1. reqs[r] \in Deleting
    BY <1>8, RequestShape DEF DeleteUser
  <2>2. CASE Goes(r, [reqs[r] EXCEPT !.at = "deleteAccount"])
    <3>1. /\ reqs'[r].at = "deleteAccount" /\ reqs'[r].user = reqs[r].user
          /\ reqs'[r].old = reqs[r].old
      BY <2>1, <2>2, Advanced
    <3> QED BY <1>1, <1>8, <2>1, <2>2, <3>1 DEF DeleteUser, Phase, Deleting
  <2> QED BY <1>8, <2>2 DEF DeleteUser
<1>9. CASE DeleteAccount(r)
  <2>1. reqs[r] \in Deleting
    BY <1>9, RequestShape DEF DeleteAccount
  <2>2. CASE Goes(r, [reqs[r] EXCEPT !.at = "reinsert"])
    <3>1. /\ reqs'[r].at = "reinsert" /\ reqs'[r].user = reqs[r].user
          /\ reqs'[r].old = reqs[r].old
      BY <2>1, <2>2, Advanced
    <3>2. ~ Ends(r)
      BY <1>1, <3>1 DEF Ends, Goes, Idle
    <3>3. users' = users /\ accounts' = accounts
      BY <1>9, <2>1, <3>2 DEF DeleteAccount, Mar, Deleting
    <3>4. users[reqs[r].user] = None /\ accounts[reqs[r].user] = reqs[r].old
      BY <1>9 DEF DeleteAccount, Phase
    <3> QED BY <3>1, <3>3, <3>4 DEF Phase
  <2>3. CASE Ends(r)
    BY <1>1, <1>9, <2>1, <2>3 DEF DeleteAccount, Ends, Goes, Phase, Deleting
  <2> QED BY <1>9, <2>2, <2>3 DEF DeleteAccount
<1>10. CASE Reinsert(r)
  <2>1. reqs[r] \in Deleting
    BY <1>10, RequestShape DEF Reinsert
  <2>2. CASE Ends(r)
    BY <1>1, <1>10, <2>1, <2>2 DEF Reinsert, Ends, Goes, Mar, Phase, Deleting
  <2> QED BY <1>10, <2>2 DEF Reinsert
<1>11. ~CountUsers(r) /\ ~InsertUser(r)
  BY DEF CountUsers, InsertUser, Resting
<1> QED BY <1>2, <1>3, <1>4, <1>5, <1>6, <1>7, <1>8, <1>9, <1>10, <1>11 DEF Step

(* Ids are new when they are given out, so nobody works on such a user.    *)
LEMMA NewUser ==
    ASSUME TypeOK, AdminStays, NEW u \in Users \ used
    PROVE  On(u) = {} /\ users[u] = None /\ accounts[u] = None
<1>1. users[u] = None /\ accounts[u] = None
  BY DEF TypeOK, TablesOK, Rows
<1>2. On(u) = {}
  BY DEF AdminStays, On, Resting
<1> QED BY <1>1, <1>2

(* A step of a request that works on a user keeps every user's rows in     *)
(* order: its own user's by its place, the others' by leaving them alone.  *)
LEMMA WorkingPairs ==
    ASSUME TypeOK, PairsOK, NEW r \in Requests, reqs[r].at \notin Resting, Step(r),
           NEW v \in Users
    PROVE  UserOK(v)'
<1>1. /\ reqs'[r] = Idle \/ (reqs'[r].at \notin Resting /\ reqs'[r].user = reqs[r].user)
      /\ \A q \in Requests \ {r} : reqs'[q] = reqs[q]
      /\ \A u \in Users \ {reqs[r].user} : users'[u] = users[u] /\ accounts'[u] = accounts[u]
  BY WorkingStep
<1>2. marred \subseteq marred'
  BY DEF Step, CountUsers, InsertUser, InsertAccount, Commit, TakeBack, UpdateUser, UpdateAccount,
         Revert, DeleteUser, DeleteAccount, Reinsert, Mar
<1>3. Idle.at = "idle"
  BY DEF Idle
<1>4. UserOK(v)
  BY DEF PairsOK
<1>5. CASE v # reqs[r].user
  <2>1. r \notin On(v) /\ On(v)' = On(v)
    BY <1>1, <1>3, <1>5 DEF On, Resting
  <2>2. \A q \in On(v) : reqs'[q] = reqs[q]
    BY <1>1, <2>1 DEF On
  <2> QED BY <1>1, <1>2, <1>4, <1>5, <2>1, <2>2, Untouched
<1>6. CASE v = reqs[r].user /\ v \in marred'
  BY <1>6 DEF UserOK
<1>7. CASE v = reqs[r].user /\ v \notin marred'
  <2>1. r \in On(v)
    BY <1>7 DEF On, Resting
  <2>2. /\ \A q \in On(v) : q = r
        /\ Phase(r)
    BY <1>2, <1>4, <1>7, <2>1 DEF UserOK
  <2>3. On(v)' \subseteq {r}
    BY <1>1, <2>2 DEF On
  <2>4. \/ reqs'[r] = Idle /\ users'[v] = accounts'[v]
        \/ reqs'[r].at # "idle" /\ Phase(r)'
    BY <1>7, <2>2, PhaseStep
  <2>5. CASE reqs'[r] = Idle /\ users'[v] = accounts'[v]
    <3>1. On(v)' = {}
      BY <1>3, <2>3, <2>5 DEF On
    <3> QED BY <2>5, <3>1 DEF UserOK
  <2>6. CASE reqs'[r].at # "idle" /\ Phase(r)'
    <3>1. On(v)' = {r}
      BY <1>1, <1>3, <1>7, <2>3, <2>6 DEF On, Resting
    <3> QED BY <2>6, <3>1 DEF UserOK
  <2> QED BY <2>4, <2>5, <2>6
<1> QED BY <1>5, <1>6, <1>7

(* A request that reads a user finds the rows settled, or another one at   *)
(* work, and the user is given up.                                         *)
LEMMA ReadingPairs ==
    ASSUME TypeOK, PairsOK, NEW r \in Requests, NEW u \in Users, NEW v \in Users,
           reqs[r] = Idle, Overlap(u), reqs'[r].at \in {"update", "delete"},
           reqs'[r].user = u, reqs'[r].old = users[u],
           \A q \in Requests \ {r} : reqs'[q] = reqs[q],
           users' = users, accounts' = accounts
    PROVE  UserOK(v)'
<1>1. Idle.at = "idle"
  BY DEF Idle
<1>2. UserOK(v) /\ marred \subseteq marred'
  BY DEF PairsOK, Overlap
<1>3. CASE v # u
  <2>1. r \notin On(v) /\ On(v)' = On(v)
    BY <1>1, <1>3 DEF On
  <2>2. \A q \in On(v) : reqs'[q] = reqs[q]
    BY <2>1 DEF On
  <2> QED BY <1>2, <2>1, <2>2, Untouched
<1>4. CASE v = u /\ On(u) # {}
  <2>1. v \in marred'
    BY <1>4 DEF Overlap
  <2> QED BY <2>1 DEF UserOK
<1>5. CASE v = u /\ On(u) = {}
  <2>1. On(v)' = {r}
    BY <1>5 DEF On
  <2>2. v \notin marred' => users[v] = accounts[v]
    BY <1>2, <1>5 DEF UserOK
  <2>3. v \notin marred' => Phase(r)'
    BY <1>5, <2>2 DEF Phase
  <2> QED BY <2>1, <2>3 DEF UserOK
<1> QED BY <1>3, <1>4, <1>5

(* A step of a request that works on no user yet leaves all users alone.   *)
LEMMA RestingPairs ==
    ASSUME PairsOK, NEW r \in Requests, reqs[r].at \in Resting, reqs'[r].at \in Resting,
           \A q \in Requests \ {r} : reqs'[q] = reqs[q],
           users' = users, accounts' = accounts, marred' = marred
    PROVE  PairsOK'
<1> SUFFICES ASSUME NEW v \in Users PROVE UserOK(v)'
  BY DEF PairsOK
<1>1. r \notin On(v) /\ On(v)' = On(v)
  BY DEF On, Resting
<1>2. \A q \in On(v) : reqs'[q] = reqs[q]
  BY <1>1 DEF On
<1> QED BY <1>1, <1>2, Untouched DEF PairsOK

(* The inductive step for the agreement of the two databases.              *)
LEMMA PairsStep ==
    ASSUME TypeOK, AdminStays, PairsOK, [Next]_vars
    PROVE  PairsOK'
<1>1. CASE UNCHANGED vars
  BY <1>1 DEF vars, rows, PairsOK, UserOK, On, Phase
<1>2. ASSUME NEW r \in Requests, reqs[r].at \notin Resting, Step(r) PROVE PairsOK'
  BY <1>2, WorkingPairs DEF PairsOK
<1>3. ASSUME NEW r \in Requests, CountUsers(r) PROVE PairsOK'
  <2>1. reqs[r] \in Counting
    BY <1>3, RequestShape DEF CountUsers
  <2>2. /\ reqs[r].at \in Resting /\ reqs'[r].at \in Resting
        /\ \A q \in Requests \ {r} : reqs'[q] = reqs[q]
    BY <1>3, <2>1 DEF CountUsers, Ends, Goes, Idle, Counting, Resting, TypeOK, RequestsOK
  <2> QED BY <1>3, <2>2, RestingPairs DEF CountUsers, rows
<1>4. ASSUME NEW r \in Requests, InsertUser(r) PROVE PairsOK'
  <2>1. CASE Ends(r) /\ UNCHANGED <<users, used>>
    <3>1. /\ reqs[r].at \in Resting /\ reqs'[r].at \in Resting
          /\ \A q \in Requests \ {r} : reqs'[q] = reqs[q]
      BY <1>4, <2>1 DEF InsertUser, Ends, Goes, Idle, Resting, TypeOK, RequestsOK
    <3> QED BY <1>4, <2>1, <3>1, RestingPairs DEF InsertUser
  <2>2. ASSUME NEW u \in Users \ used, users' = [users EXCEPT ![u] = reqs[r].email],
               Goes(r, [at |-> "account", user |-> u, email |-> reqs[r].email]),
               NEW v \in Users
        PROVE  UserOK(v)'
    <3>1. /\ reqs'[r] = [at |-> "account", user |-> u, email |-> reqs[r].email]
          /\ \A q \in Requests \ {r} : reqs'[q] = reqs[q]
      BY <2>2 DEF Goes, TypeOK, RequestsOK
    <3>2. /\ \A w \in Users : users'[w] = IF w = u THEN reqs[r].email ELSE users[w]
          /\ accounts' = accounts /\ marred' = marred
      BY <1>4, <2>2 DEF InsertUser, TypeOK, TablesOK
    <3>3. \A w \in Users : r \notin On(w)
      BY <1>4 DEF InsertUser, On
    <3>4. CASE v # u
      <4>1. On(v)' = On(v) /\ \A q \in On(v) : reqs'[q] = reqs[q]
        BY <3>1, <3>3, <3>4 DEF On
      <4> QED BY <3>2, <3>4, <4>1, Untouched DEF PairsOK
    <3>5. CASE v = u
      <4>1. On(u) = {} /\ accounts[u] = None
        BY <2>2, NewUser
      <4>2. On(v)' = {r}
        BY <3>1, <3>5, <4>1 DEF On
      <4>3. Phase(r)'
        BY <3>1, <3>2, <4>1 DEF Phase
      <4> QED BY <4>2, <4>3 DEF UserOK
    <3> QED BY <3>4, <3>5
  <2> QED BY <1>4, <2>1, <2>2 DEF InsertUser, PairsOK
<1>5. ASSUME NEW r \in Requests, NEW e \in Emails, CreateUser(r, e) PROVE PairsOK'
  <2>1. /\ reqs[r].at \in Resting /\ reqs'[r].at \in Resting
        /\ \A q \in Requests \ {r} : reqs'[q] = reqs[q]
    BY <1>5 DEF CreateUser, Goes, Idle, Resting, TypeOK, RequestsOK
  <2> QED BY <1>5, <2>1, RestingPairs DEF CreateUser, rows
<1>6. ASSUME NEW r \in Requests, NEW u \in Users, NEW e \in Emails, ReadForUpdate(r, u, e)
      PROVE  PairsOK'
  <2>1. /\ reqs'[r] = [at |-> "update", user |-> u, email |-> e, old |-> users[u]]
        /\ \A q \in Requests \ {r} : reqs'[q] = reqs[q]
    BY <1>6 DEF ReadForUpdate, Goes, TypeOK, RequestsOK
  <2> QED BY <1>6, <2>1, ReadingPairs DEF ReadForUpdate, rows, PairsOK
<1>7. ASSUME NEW r \in Requests, NEW u \in Users, ReadForDelete(r, u) PROVE PairsOK'
  <2>1. /\ reqs'[r] = [at |-> "delete", user |-> u, old |-> users[u]]
        /\ \A q \in Requests \ {r} : reqs'[q] = reqs[q]
    BY <1>7 DEF ReadForDelete, Goes, TypeOK, RequestsOK
  <2> QED BY <1>7, <2>1, ReadingPairs DEF ReadForDelete, rows, PairsOK
<1>8. CASE Crash
  <2>1. \A v \in Users : On(v)' = {}
    BY <1>8 DEF Crash, Idle, On
  <2>2. \A v \in Users : v \notin marred' => v \notin marred /\ On(v) = {}
    BY <1>8 DEF Crash
  <2>3. \A v \in Users : v \notin marred' => users'[v] = accounts'[v]
    BY <1>8, <2>2 DEF Crash, rows, PairsOK, UserOK
  <2> QED BY <2>1, <2>3 DEF PairsOK, UserOK
<1>9. ASSUME NEW r \in Requests, Step(r), reqs[r].at \in Resting
      PROVE  CountUsers(r) \/ InsertUser(r)
  BY <1>9 DEF Step, Resting, InsertAccount, Commit, TakeBack, UpdateUser, UpdateAccount, Revert,
              DeleteUser, DeleteAccount, Reinsert
<1> QED BY <1>1, <1>2, <1>3, <1>4, <1>5, <1>6, <1>7, <1>8, <1>9 DEF Next

(* The compensations keep the databases together: a user nobody works on   *)
(* has one email in both or is in neither, unless a crash, a failed        *)
(* compensation, an error that hid a write or an overlap of two requests   *)
(* touched it.                                                             *)
THEOREM DatabasesAgree == Spec => []BothOrNeither
<1>1. TypeOK /\ AdminStays /\ [Next]_vars => (TypeOK /\ AdminStays)'
  BY TypeStep, AdminStep
<1>2. TypeOK /\ AdminStays /\ PairsOK /\ [Next]_vars => PairsOK'
  BY PairsStep
<1>3. PairsOK => BothOrNeither
  BY DEF PairsOK, UserOK, BothOrNeither
<1> QED BY InitType, PairsInit, <1>1, <1>2, <1>3, PTL DEF Spec

-----------------------------------------------------------------------------
(* EditPages: the users and the pages side by side.                        *)
(* A step of the application is one of a part or leaves the part alone.    *)
LEMMA PartsStep ==
  [PagesNext]_allVars =>
    /\ [Next]_vars
    /\ [AdminUsers!Next]_(AdminUsers!vars)
    /\ [CandidateList!Next]_(CandidateList!vars)
    /\ [InterviewDetails!Next]_(InterviewDetails!vars)
    /\ [Billing!Next]_(Billing!vars)
    /\ [Checkout!Next]_(Checkout!vars)
    /\ [ResumeAI!Next]_(ResumeAI!vars)
  BY DEF PagesNext, allVars, UsersMove, AdminMoves, CandidatesMove, InterviewMoves, BillingMoves,
     CheckoutMoves, ResumesMove, adminVars, candidateVars, interviewVars, billingVars,
     checkoutVars, resumeVars, vars, AdminUsers!vars, CandidateList!vars, InterviewDetails!vars,
     Billing!vars, Billing!server, Checkout!vars, Checkout!server, Checkout!provider,
     ResumeAI!vars, ResumeAI!page, ResumeAI!ghosts

(* A behaviour of the application is one of every part of it.              *)
LEMMA PartsOf ==
  PagesSpec =>
    /\ Spec /\ AdminUsers!Spec /\ CandidateList!Spec /\ InterviewDetails!Spec
    /\ Billing!Spec /\ Checkout!Spec /\ ResumeAI!Spec
<1>1. PagesInit => /\ Init /\ AdminUsers!Init /\ CandidateList!Init /\ InterviewDetails!Init
                   /\ Billing!Init /\ Checkout!Init /\ ResumeAI!Init
  BY DEF PagesInit
<1> QED
  BY <1>1, PartsStep, PTL
  DEF PagesSpec, Spec, AdminUsers!Spec, CandidateList!Spec, InterviewDetails!Spec, Billing!Spec,
      Checkout!Spec, ResumeAI!Spec

(* A set without two different members has at most one.                    *)
LEMMA AtMostOne ==
  ASSUME NEW S, \A x, y \in S : x = y
  PROVE  Cardinality(S) \in {0, 1} /\ (Cardinality(S) = 0 <=> S = {})
<1>1. CASE S = {}
  BY <1>1, FS_EmptySet
<1>2. ASSUME NEW x \in S PROVE Cardinality(S) = 1
  <2>1. S = {x}
    OBVIOUS
  <2> QED
    BY <2>1, FS_Singleton
<1> QED
  BY <1>1, <1>2

-----------------------------------------------------------------------------
(* CheckoutPage.  A request remembers, from one of its steps to the next,  *)
(* what it saw: the code it guessed was sent to the administrator's phone, *)
(* and the tab that asks for a checkout has verified it.                   *)
CodeRows == [phone : {"own", "mistyped"}, live : BOOLEAN, attempts : Nat,
             is : {"open", "consumed", "deleted"}, successes : Nat]
TabStates == [phoneSent : BOOLEAN, verified : BOOLEAN, busy : BOOLEAN, cancelling : BOOLEAN,
              at : {"account", "provider"}]
TabRequests ==
    [at : {"not", "checkout"}] \cup [at : {"delete", "insert"}, phone : {"own", "mistyped"}]
      \cup [at : {"lookup"}, guess : Nat] \cup [at : {"sms", "count", "consume"}, id : Nat]

CodesOK ==
    /\ codes \in Seq(CodeRows) /\ Len(codes) <= MaxCodes
    /\ \A i \in DOMAIN codes :
          /\ codes[i].attempts <= MaxAttempts /\ codes[i].successes <= 1
          /\ codes[i].is = "open" => codes[i].successes = 0
Own(i) == i \in DOMAIN codes /\ codes[i].phone = "own"
ServerOK ==
    /\ phoneVerified \in BOOLEAN /\ subscription \in {"TRIAL", "EXPIRED", "ACTIVE"}
    /\ checkouts \in Nat /\ orphans \in Nat /\ events \in 0 .. MaxEvents
    /\ phoneVerified => \E i \in DOMAIN codes : Own(i) /\ codes[i].successes > 0
TabOK(t) ==
    /\ requests[t].at # "not" => tabs[t].busy
    /\ tabs[t].at = "provider" => tabs[t].verified /\ checkouts > 0
    /\ tabs[t].verified => phoneVerified
    /\ requests[t].at = "checkout" => tabs[t].verified
    /\ requests[t].at = "lookup" /\ requests[t].guess # 0 => Own(requests[t].guess)
    /\ requests[t].at = "consume" => Own(requests[t].id)
TabsOK ==
    /\ tabs \in [Tabs -> TabStates] /\ requests \in [Tabs -> TabRequests]
    /\ \A t \in Tabs : TabOK(t)
CheckoutInv == CodesOK /\ ServerOK /\ TabsOK

(* Codes are never taken from the list, and no success is forgotten.       *)
CodesKept ==
    \A i \in DOMAIN codes : /\ i \in DOMAIN codes' /\ codes'[i].phone = codes[i].phone
                            /\ codes'[i].successes >= codes[i].successes

(* Each code is a row of the table.                                        *)
LEMMA CheckoutRows ==
  CodesOK => \A i \in DOMAIN codes : codes[i] \in CodeRows /\ codes[i].successes \in Nat
                                     /\ codes[i].attempts \in Nat
<1>1. CodesOK => \A i \in DOMAIN codes : codes[i] \in CodeRows
  BY DEF CodesOK
<1> QED
  BY <1>1 DEF CodeRows

(* The beginning.                                                          *)
LEMMA CheckoutInit == Checkout!Init => CheckoutInv
<1> SUFFICES ASSUME Checkout!Init PROVE CheckoutInv
  OBVIOUS
<1> USE DEF Checkout!Init, Checkout!Nowhere, Checkout!NotAsked
<1>1. CodesOK
  <2>1. codes = <<>> /\ MaxCodes \in Nat
    BY CountsAssumption
  <2> QED
    BY <2>1 DEF CodesOK
<1>2. ServerOK
  <2>1. MaxEvents \in Nat
    BY CountsAssumption
  <2>2. phoneVerified = FALSE /\ phoneVerified \in BOOLEAN
    OBVIOUS
  <2>3. /\ subscription \in {"TRIAL", "EXPIRED", "ACTIVE"}
        /\ checkouts \in Nat /\ orphans \in Nat /\ events \in 0 .. MaxEvents
    BY <2>1
  <2> QED
    BY <2>2, <2>3 DEF ServerOK
<1>3. TabsOK
  BY DEF TabsOK, TabOK, TabStates, TabRequests
<1> QED
  BY <1>1, <1>2, <1>3 DEF CheckoutInv

(* What a step of a request does to the tabs and the requests.             *)
LEMMA CheckoutAnswers ==
  ASSUME CheckoutInv, NEW t \in Tabs, NEW tab \in TabStates,
         Checkout!Told(t, tab) \/ Checkout!Refused(t) \/ Checkout!Succeeds(t, tab),
         tab.at = "provider" => tab.verified /\ checkouts' > 0,
         tab.verified => phoneVerified',
         phoneVerified => phoneVerified', checkouts' >= checkouts, checkouts' \in Nat,
         CodesKept
  PROVE  TabsOK'
<1> PICK it \in TabStates : /\ Checkout!Told(t, it)
                            /\ it.at = "provider" => it.verified /\ checkouts' > 0
                            /\ it.verified => phoneVerified'
  <2>1. CASE Checkout!Told(t, tab)
    BY <2>1
  <2>2. CASE Checkout!Refused(t)
    <3>1. tabs[t] \in TabStates /\ TabOK(t) /\ checkouts \in Nat
      BY DEF CheckoutInv, TabsOK, ServerOK
    <3>2. [tabs[t] EXCEPT !.busy = FALSE] \in TabStates
      BY <3>1 DEF TabStates
    <3> QED
      BY <2>2, <3>1, <3>2 DEF Checkout!Refused, TabOK, TabStates
  <2> QED
    BY <2>1, <2>2 DEF Checkout!Succeeds
<1>1. tabs' \in [Tabs -> TabStates] /\ requests' \in [Tabs -> TabRequests]
  BY DEF Checkout!Told, Checkout!NotAsked, CheckoutInv, TabsOK, TabRequests
<1>2. ASSUME NEW u \in Tabs PROVE TabOK(u)'
  <2>1. CASE u = t
    BY <2>1 DEF Checkout!Told, Checkout!NotAsked, CheckoutInv, TabsOK, TabOK
  <2>2. CASE u # t
    BY <2>2 DEF Checkout!Told, CheckoutInv, TabsOK, TabOK, ServerOK, CodesKept, Own
  <2> QED
    BY <2>1, <2>2
<1> QED
  BY <1>1, <1>2 DEF TabsOK

(* A request that goes on remembers what it may rely on.                   *)
LEMMA CheckoutGoes ==
  ASSUME CheckoutInv, NEW t \in Tabs, NEW request \in TabRequests,
         Checkout!Goes(t, request) \/ Checkout!Waits(t, request),
         Checkout!Goes(t, request) => requests[t].at # "not",
         request.at = "checkout" => tabs[t].verified,
         request.at = "lookup" /\ request.guess # 0 => Own(request.guess),
         request.at = "consume" => Own(request.id),
         phoneVerified' = phoneVerified, checkouts' = checkouts, CodesKept
  PROVE  TabsOK'
<1>1. tabs' \in [Tabs -> TabStates] /\ requests' \in [Tabs -> TabRequests]
  BY DEF Checkout!Goes, Checkout!Waits, CheckoutInv, TabsOK, TabStates
<1>2. ASSUME NEW u \in Tabs PROVE TabOK(u)'
  <2>1. CASE u = t
    <3>1. /\ requests'[u] = request /\ tabs'[u].busy
          /\ tabs'[u].at = tabs[t].at /\ tabs'[u].verified = tabs[t].verified
      BY <2>1 DEF Checkout!Goes, Checkout!Waits, CheckoutInv, TabsOK, TabOK, TabStates
    <3> QED
      BY <2>1, <3>1 DEF CheckoutInv, TabsOK, TabOK, CodesKept, Own
  <2>2. CASE u # t
    BY <2>2 DEF Checkout!Goes, Checkout!Waits, CheckoutInv, TabsOK, TabOK, CodesKept, Own
  <2> QED
    BY <2>1, <2>2
<1> QED
  BY <1>1, <1>2 DEF TabsOK

(* A change of a tab that asks for nothing and does not verify.            *)
LEMMA CheckoutTabs ==
  ASSUME CheckoutInv, NEW t \in Tabs, NEW tab \in TabStates,
         tabs' = [tabs EXCEPT ![t] = tab],
         tab.verified => tabs[t].verified,
         tab.at = "provider" => tabs[t].at = "provider" /\ tab.verified,
         requests[t].at # "not" => tab.busy /\ (tabs[t].verified => tab.verified),
         UNCHANGED <<codes, phoneVerified, checkouts, requests>>
  PROVE  TabsOK'
<1> USE DEF CheckoutInv, TabsOK
<1>1. tabs' \in [Tabs -> TabStates] /\ requests' \in [Tabs -> TabRequests]
  OBVIOUS
<1>2. ASSUME NEW u \in Tabs PROVE TabOK(u)'
  BY DEF TabOK, Own
<1> QED
  BY <1>1, <1>2

(* Deleting codes marks rows and changes nothing else.                     *)
LEMMA CheckoutDeletes ==
  ASSUME CodesOK, NEW ids, codes' = Checkout!Without(ids)
  PROVE  CodesOK' /\ CodesKept
<1>1. codes' = [i \in DOMAIN codes |-> IF i \in ids THEN [codes[i] EXCEPT !.is = "deleted"]
                                                    ELSE codes[i]]
  BY DEF Checkout!Without, Checkout!CodeIds
<1>2. \A i \in DOMAIN codes : codes[i] \in CodeRows
  BY CheckoutRows
<1>3. \A i \in DOMAIN codes : /\ codes'[i] \in CodeRows /\ codes'[i].phone = codes[i].phone
                              /\ codes'[i].attempts = codes[i].attempts
                              /\ codes'[i].successes = codes[i].successes
                              /\ codes'[i].is = "open" => codes[i].is = "open"
  BY <1>1, <1>2 DEF CodeRows
<1>4. DOMAIN codes = 1 .. Len(codes) /\ Len(codes) \in Nat
  BY DEF CodesOK
<1>5. codes' \in Seq(CodeRows) /\ Len(codes') = Len(codes) /\ DOMAIN codes' = DOMAIN codes
  BY <1>1, <1>3, <1>4
<1>6. \A i \in DOMAIN codes : codes[i].successes \in Nat
  BY <1>2 DEF CodeRows
<1> QED
  BY <1>3, <1>5, <1>6 DEF CodesOK, CodesKept

(* A row that changes keeps its phone and its successes.                   *)
LEMMA CheckoutChanges ==
  ASSUME CodesOK, NEW i \in DOMAIN codes, NEW row \in CodeRows,
         codes' = [codes EXCEPT ![i] = row],
         row.phone = codes[i].phone, row.successes >= codes[i].successes,
         row.attempts <= MaxAttempts, row.successes <= 1,
         row.is = "open" => row.successes = 0
  PROVE  CodesOK' /\ CodesKept
<1>1. codes' \in Seq(CodeRows) /\ Len(codes') = Len(codes) /\ DOMAIN codes' = DOMAIN codes
  BY DEF CodesOK
<1>2. \A j \in DOMAIN codes : codes'[j] = IF j = i THEN row ELSE codes[j]
  BY DEF CodesOK
<1>3. \A j \in DOMAIN codes : codes[j].successes \in Nat
  BY CheckoutRows
<1> QED
  BY <1>1, <1>2, <1>3 DEF CodesOK, CodesKept

(* A new row is open and was neither guessed nor used.                     *)
LEMMA CheckoutAppends ==
  ASSUME CodesOK, NEW row \in CodeRows, codes' = Append(codes, row), Len(codes) < MaxCodes,
         row.attempts = 0, row.successes = 0
  PROVE  CodesOK' /\ CodesKept
<1>1. MaxAttempts \in Nat /\ MaxCodes \in Nat
  BY CountsAssumption
<1>2. codes' \in Seq(CodeRows) /\ Len(codes') = Len(codes) + 1
  BY DEF CodesOK
<1>3. /\ DOMAIN codes' = DOMAIN codes \cup {Len(codes) + 1}
      /\ \A j \in DOMAIN codes : codes'[j] = codes[j]
      /\ codes'[Len(codes) + 1] = row
  BY DEF CodesOK
<1>4. \A j \in DOMAIN codes : codes[j].successes \in Nat
  BY CheckoutRows
<1>5. Len(codes) \in Nat
  BY DEF CodesOK
<1> QED
  BY <1>1, <1>2, <1>3, <1>4, <1>5 DEF CodesOK, CodesKept

(* Nothing happens to the codes.                                           *)
LEMMA CheckoutSame ==
  ASSUME CodesOK, UNCHANGED codes
  PROVE  CodesOK' /\ CodesKept
<1>1. \A j \in DOMAIN codes : codes[j].successes \in Nat
  BY CheckoutRows
<1> QED
  BY <1>1 DEF CodesOK, CodesKept

(* What the server has found out stays true.                               *)
LEMMA CheckoutServer ==
  ASSUME CheckoutInv, CodesKept, CodesOK', UNCHANGED phoneVerified,
         subscription' \in {"TRIAL", "EXPIRED", "ACTIVE"},
         checkouts' \in Nat, orphans' \in Nat, events' \in 0 .. MaxEvents
  PROVE  ServerOK'
<1>1. \A i \in DOMAIN codes : codes[i].successes \in Nat
  BY CheckoutRows DEF CheckoutInv
<1>2. \A i \in DOMAIN codes' : codes'[i].successes \in Nat
  <2>1. CodesOK' => \A i \in DOMAIN codes' : codes'[i] \in CodeRows
    BY DEF CodesOK
  <2> QED
    BY <2>1 DEF CodeRows
<1>3. phoneVerified' \in BOOLEAN /\ (phoneVerified' => phoneVerified)
  BY DEF CheckoutInv, ServerOK
<1>4. phoneVerified => \E i \in DOMAIN codes' : Own(i)' /\ codes'[i].successes > 0
  BY <1>1, <1>2 DEF CheckoutInv, ServerOK, CodesKept, Own
<1> QED
  BY <1>3, <1>4 DEF ServerOK

(* Sending a code.                                                         *)
LEMMA CheckoutSends ==
  ASSUME CheckoutInv, NEW t \in Tabs,
         \/ \E phone \in Checkout!Phones : Checkout!SendCode(t, phone)
         \/ Checkout!DeleteCodes(t) \/ Checkout!InsertCode(t) \/ Checkout!SendSMS(t)
  PROVE  CheckoutInv'
<1>1. tabs[t] \in TabStates /\ requests[t] \in TabRequests /\ TabOK(t)
  BY DEF CheckoutInv, TabsOK
<1>2. CodesOK /\ checkouts \in Nat /\ orphans \in Nat /\ events \in 0 .. MaxEvents
        /\ subscription \in {"TRIAL", "EXPIRED", "ACTIVE"}
  BY DEF CheckoutInv, ServerOK
<1>3. ASSUME NEW phone \in Checkout!Phones, Checkout!SendCode(t, phone) PROVE CheckoutInv'
  <2> DEFINE request == [at |-> "delete", phone |-> phone]
  <2>1. request \in TabRequests /\ request.at = "delete"
    BY DEF TabRequests, Checkout!Phones
  <2>2. /\ Checkout!Waits(t, request) /\ UNCHANGED <<codes, phoneVerified, checkouts>>
        /\ UNCHANGED <<subscription, orphans, events>>
    BY <1>3 DEF Checkout!SendCode, Checkout!server, Checkout!provider
  <2>3. ~Checkout!Goes(t, request)
    <3>1. ~tabs[t].busy /\ tabs'[t].busy
      BY <1>1, <1>3, <2>2 DEF Checkout!SendCode, Checkout!CanSend, Checkout!Ready, Checkout!Waits,
                              CheckoutInv, TabsOK, TabStates
    <3> QED
      BY <3>1 DEF Checkout!Goes
  <2>4. CodesOK' /\ CodesKept
    BY <1>2, <2>2, CheckoutSame
  <2> HIDE DEF request
  <2>5. TabsOK'
    BY <2>1, <2>2, <2>3, <2>4, CheckoutGoes
  <2> QED
    BY <1>2, <2>2, <2>4, <2>5, CheckoutServer DEF CheckoutInv
<1>4. CASE Checkout!DeleteCodes(t)
  <2> DEFINE request == [requests[t] EXCEPT !.at = "insert"]
  <2>1. request \in TabRequests /\ request.at = "insert" /\ requests[t].at = "delete"
    BY <1>1, <1>4 DEF TabRequests, Checkout!DeleteCodes
  <2>2. /\ Checkout!Goes(t, request) /\ UNCHANGED <<phoneVerified, checkouts>>
        /\ UNCHANGED <<subscription, orphans, events>>
    BY <1>4 DEF Checkout!DeleteCodes, Checkout!provider
  <2>3. CodesOK' /\ CodesKept
    BY <1>2, <1>4, CheckoutDeletes DEF Checkout!DeleteCodes
  <2> HIDE DEF request
  <2>4. TabsOK'
    BY <2>1, <2>2, <2>3, CheckoutGoes
  <2> QED
    BY <1>2, <2>2, <2>3, <2>4, CheckoutServer DEF CheckoutInv
<1>5. CASE Checkout!InsertCode(t)
  <2>1. UNCHANGED <<phoneVerified, checkouts, subscription, orphans, events>>
           /\ requests[t].at = "insert"
    BY <1>5 DEF Checkout!InsertCode, Checkout!provider
  <2>2. CASE Checkout!Refused(t) /\ UNCHANGED codes
    <3>1. CodesOK' /\ CodesKept
      BY <1>2, <2>2, CheckoutSame
    <3>2. TabsOK'
      BY <1>1, <1>2, <2>1, <2>2, <3>1, CheckoutAnswers DEF TabOK
    <3> QED
      BY <1>2, <2>1, <3>1, <3>2, CheckoutServer DEF CheckoutInv
  <2>3. CASE ~(Checkout!Refused(t) /\ UNCHANGED codes)
    <3> DEFINE request == [at |-> "sms", id |-> Len(codes) + 1]
    <3> DEFINE row == [phone |-> requests[t].phone, live |-> TRUE, is |-> "open",
                       attempts |-> 0, successes |-> 0]
    <3>1. Len(codes) < MaxCodes /\ codes' = Append(codes, row) /\ Checkout!Goes(t, request)
      BY <1>5, <2>3 DEF Checkout!InsertCode
    <3>2. requests[t].phone \in {"own", "mistyped"}
      BY <1>1, <2>1 DEF TabRequests
    <3>3. row \in CodeRows /\ row.attempts = 0 /\ row.successes = 0
      BY <3>2 DEF CodeRows
    <3>4. Len(codes) + 1 \in Nat
      BY <1>2 DEF CodesOK
    <3>5. request \in TabRequests /\ request.at = "sms"
      BY <3>4 DEF TabRequests
    <3> HIDE DEF request, row
    <3>6. CodesOK' /\ CodesKept
      BY <1>2, <3>1, <3>3, CheckoutAppends
    <3>7. TabsOK'
      BY <2>1, <3>1, <3>5, <3>6, CheckoutGoes
    <3> QED
      BY <1>2, <2>1, <3>6, <3>7, CheckoutServer DEF CheckoutInv
  <2> QED
    BY <2>2, <2>3
<1>6. CASE Checkout!SendSMS(t)
  <2> DEFINE tab == [tabs[t] EXCEPT !.phoneSent = TRUE, !.busy = FALSE]
  <2>1. tab \in TabStates /\ tab.verified = tabs[t].verified /\ tab.at = tabs[t].at
    BY <1>1 DEF TabStates
  <2>2. UNCHANGED <<phoneVerified, checkouts, subscription, orphans, events>>
    BY <1>6 DEF Checkout!SendSMS, Checkout!provider
  <2>3. Checkout!Succeeds(t, tab) \/ Checkout!Refused(t)
    BY <1>6 DEF Checkout!SendSMS
  <2>4. CodesOK' /\ CodesKept
    BY <1>2, <1>6, CheckoutSame, CheckoutDeletes DEF Checkout!SendSMS
  <2> HIDE DEF tab
  <2>5. TabsOK'
    BY <1>1, <1>2, <2>1, <2>2, <2>3, <2>4, CheckoutAnswers DEF TabOK
  <2> QED
    BY <1>2, <2>2, <2>4, <2>5, CheckoutServer DEF CheckoutInv
<1> QED
  BY <1>3, <1>4, <1>5, <1>6

(* Verifying the phone: the newest open code is looked up, and the guess   *)
(* is counted, or the code consumed, only if it still is as it was.        *)
LEMMA CheckoutVerifies ==
  ASSUME CheckoutInv, NEW t \in Tabs,
         \/ \E guess \in Checkout!CodeIds \cup {Checkout!Wrong} : Checkout!Verify(t, guess)
         \/ Checkout!Lookup(t) \/ Checkout!CountAttempt(t) \/ Checkout!Consume(t)
  PROVE  CheckoutInv'
<1>1. tabs[t] \in TabStates /\ requests[t] \in TabRequests /\ TabOK(t)
  BY DEF CheckoutInv, TabsOK
<1>2. CodesOK /\ checkouts \in Nat /\ orphans \in Nat /\ events \in 0 .. MaxEvents
        /\ subscription \in {"TRIAL", "EXPIRED", "ACTIVE"}
  BY DEF CheckoutInv, ServerOK
<1>3. DOMAIN codes \subseteq Nat \ {0}
  BY <1>2 DEF CodesOK
<1>4. ASSUME NEW guess \in Checkout!CodeIds \cup {Checkout!Wrong}, Checkout!Verify(t, guess)
      PROVE  CheckoutInv'
  <2> DEFINE request == [at |-> "lookup", guess |-> guess]
  <2>1. guess \in Nat /\ (guess # 0 => Own(guess))
    BY <1>3, <1>4 DEF Checkout!Verify, Checkout!CodeIds, Checkout!Wrong, Own
  <2>2. request \in TabRequests /\ request.at = "lookup" /\ request.guess = guess
    BY <2>1 DEF TabRequests
  <2>3. /\ Checkout!Waits(t, request) /\ UNCHANGED <<codes, phoneVerified, checkouts>>
        /\ UNCHANGED <<subscription, orphans, events>>
    BY <1>4 DEF Checkout!Verify, Checkout!server, Checkout!provider
  <2>4. ~Checkout!Goes(t, request)
    <3>1. ~tabs[t].busy /\ tabs'[t].busy
      BY <1>1, <1>4, <2>3 DEF Checkout!Verify, Checkout!CanVerify, Checkout!Ready, Checkout!Waits,
                              CheckoutInv, TabsOK, TabStates
    <3> QED
      BY <3>1 DEF Checkout!Goes
  <2>5. CodesOK' /\ CodesKept
    BY <1>2, <2>3, CheckoutSame
  <2> HIDE DEF request
  <2>6. TabsOK'
    BY <2>1, <2>2, <2>3, <2>4, <2>5, CheckoutGoes
  <2> QED
    BY <1>2, <2>3, <2>5, <2>6, CheckoutServer DEF CheckoutInv
<1>5. CASE Checkout!Lookup(t)
  <2>1. UNCHANGED <<codes, phoneVerified, checkouts, subscription, orphans, events>>
           /\ requests[t].at = "lookup"
    BY <1>5 DEF Checkout!Lookup, Checkout!server, Checkout!provider
  <2>2. CodesOK' /\ CodesKept
    BY <1>2, <2>1, CheckoutSame
  <2>3. CASE Checkout!Refused(t)
    <3>1. TabsOK'
      BY <1>1, <1>2, <2>1, <2>2, <2>3, CheckoutAnswers DEF TabOK
    <3> QED
      BY <1>2, <2>1, <2>2, <3>1, CheckoutServer DEF CheckoutInv
  <2>4. CASE ~Checkout!Refused(t)
    <3> DEFINE open == {i \in Checkout!CodeIds : Checkout!Open(i)}
    <3> DEFINE newest == CHOOSE i \in open : \A j \in open : j <= i
    <3> DEFINE request == [at |-> IF requests[t].guess = newest THEN "consume" ELSE "count",
                           id |-> newest]
    <3>1. (\E i \in open : \A j \in open : j <= i) /\ Checkout!Goes(t, request)
      BY <1>5, <2>4 DEF Checkout!Lookup
    <3>2. newest \in DOMAIN codes
      BY <3>1 DEF Checkout!CodeIds
    <3> HIDE DEF newest
    <3>3. newest \in Nat \ {0}
      BY <1>3, <3>2
    <3>4. request \in TabRequests
      BY <3>3 DEF TabRequests
    <3>5. request.at \in {"consume", "count"} /\ (request.at = "consume" => Own(request.id))
      BY <1>1, <2>1, <3>3 DEF TabOK
    <3> HIDE DEF request
    <3>6. TabsOK'
      BY <2>1, <2>2, <3>1, <3>4, <3>5, CheckoutGoes
    <3> QED
      BY <1>2, <2>1, <2>2, <3>6, CheckoutServer DEF CheckoutInv
  <2> QED
    BY <2>3, <2>4
<1>6. CASE Checkout!CountAttempt(t)
  <2> DEFINE i == requests[t].id
  <2>1. /\ UNCHANGED <<phoneVerified, checkouts, subscription, orphans, events>>
        /\ requests[t].at = "count" /\ Checkout!Refused(t)
        /\ codes' = IF Checkout!Guarded(i) THEN [codes EXCEPT ![i].attempts = @ + 1] ELSE codes
    BY <1>6 DEF Checkout!CountAttempt, Checkout!provider
  <2>2. CodesOK' /\ CodesKept
    <3>1. CASE Checkout!Guarded(i) /\ i \in DOMAIN codes
      <4> DEFINE row == [codes[i] EXCEPT !.attempts = @ + 1]
      <4>1. codes[i] \in CodeRows /\ codes[i].attempts < MaxAttempts /\ codes[i].successes <= 1
              /\ codes[i].is = "open" /\ codes[i].successes = 0
        BY <1>2, <3>1, CheckoutRows DEF Checkout!Guarded, Checkout!Open, CodesOK
      <4>2. MaxAttempts \in Nat
        BY CountsAssumption
      <4>3. /\ row \in CodeRows /\ row.phone = codes[i].phone /\ row.is = codes[i].is
            /\ row.successes = codes[i].successes /\ row.attempts = codes[i].attempts + 1
        BY <4>1 DEF CodeRows
      <4>4. codes' = [codes EXCEPT ![i] = row]
        BY <2>1, <3>1
      <4>5. /\ row.successes >= codes[i].successes /\ row.successes <= 1
            /\ row.attempts <= MaxAttempts
            /\ row.is = "open" => row.successes = 0
        BY <4>1, <4>2, <4>3, CheckoutRows, <1>2, <3>1
      <4>6. row \in CodeRows /\ row.phone = codes[i].phone /\ i \in DOMAIN codes
        BY <3>1, <4>3
      <4> HIDE DEF row, i
      <4> QED
        BY <1>2, <4>4, <4>5, <4>6, CheckoutChanges
    <3>2. CASE ~(Checkout!Guarded(i) /\ i \in DOMAIN codes)
      <4>1. codes' = codes
        BY <1>2, <2>1, <3>2 DEF CodesOK
      <4> QED
        BY <1>2, <4>1, CheckoutSame
    <3> QED
      BY <3>1, <3>2
  <2>3. TabsOK'
    BY <1>1, <1>2, <2>1, <2>2, CheckoutAnswers DEF TabOK
  <2> QED
    BY <1>2, <2>1, <2>2, <2>3, CheckoutServer DEF CheckoutInv
<1>7. CASE Checkout!Consume(t)
  <2> DEFINE i == requests[t].id
  <2>1. /\ UNCHANGED <<checkouts, subscription, orphans, events>>
        /\ requests[t].at = "consume" /\ Own(i)
    BY <1>1, <1>7 DEF Checkout!Consume, Checkout!provider, TabOK
  <2>2. CASE ~Checkout!Guarded(i)
    <3>1. Checkout!Refused(t) /\ UNCHANGED <<codes, phoneVerified>>
      BY <1>7, <2>2 DEF Checkout!Consume
    <3>2. CodesOK' /\ CodesKept
      BY <1>2, <3>1, CheckoutSame
    <3>3. TabsOK'
      BY <1>1, <1>2, <2>1, <3>1, <3>2, CheckoutAnswers DEF TabOK
    <3> QED
      BY <1>2, <2>1, <3>1, <3>2, <3>3, CheckoutServer DEF CheckoutInv
  <2>3. CASE Checkout!Guarded(i)
    <3> DEFINE tab == [tabs[t] EXCEPT !.verified = TRUE, !.busy = FALSE]
    <3> DEFINE row == [codes[i] EXCEPT !.is = "consumed", !.successes = 1]
    <3>1. /\ codes' = [codes EXCEPT ![i].is = "consumed", ![i].successes = @ + 1]
          /\ phoneVerified' = TRUE /\ Checkout!Succeeds(t, tab)
      BY <1>7, <2>3 DEF Checkout!Consume
    <3>2. i \in DOMAIN codes /\ codes[i].phone = "own"
      BY <2>1 DEF Own
    <3>3. codes[i] \in CodeRows /\ codes[i].attempts < MaxAttempts /\ codes[i].successes = 0
      BY <1>2, <2>3, <3>2, CheckoutRows DEF Checkout!Guarded, Checkout!Open, CodesOK
    <3>4. codes' = [codes EXCEPT ![i] = row]
      <4>1. codes[i].successes + 1 = 1
        BY <3>3
      <4>2. codes' = [codes EXCEPT ![i] = [codes[i] EXCEPT !.is = "consumed",
                                                           !.successes = codes[i].successes + 1]]
        BY <3>1
      <4> QED
        BY <4>1, <4>2
    <3>5. /\ row \in CodeRows /\ row.phone = codes[i].phone /\ row.is = "consumed"
          /\ row.successes = 1 /\ row.attempts = codes[i].attempts
      BY <3>3 DEF CodeRows
    <3>6. row.attempts <= MaxAttempts
      <4>1. MaxAttempts \in Nat /\ codes[i].attempts \in Nat
        BY CountsAssumption, CheckoutRows, <1>2, <3>2
      <4> QED
        BY <3>3, <3>5, <4>1
    <3>7. tab \in TabStates /\ tab.at = tabs[t].at /\ tab.verified
      BY <1>1 DEF TabStates
    <3> HIDE DEF row, tab, i
    <3>8. row.successes >= codes[i].successes /\ row.successes <= 1
             /\ (row.is = "open" => row.successes = 0)
      BY <3>3, <3>5
    <3>9. row \in CodeRows /\ row.phone = codes[i].phone /\ i \in DOMAIN codes
      BY <3>2, <3>5
    <3>10. CodesOK' /\ CodesKept
      BY <1>2, <3>4, <3>6, <3>8, <3>9, CheckoutChanges
    <3>11. TabsOK'
      BY <1>1, <1>2, <2>1, <3>1, <3>7, <3>10, CheckoutAnswers DEF TabOK
    <3>12. PICK k \in DOMAIN codes : k = i
      BY <3>2
    <3>13. codes'[k] = row /\ k \in DOMAIN codes'
      BY <1>2, <3>4, <3>12 DEF CodesOK
    <3>14. Own(k)' /\ codes'[k].successes > 0
      BY <3>2, <3>5, <3>12, <3>13 DEF Own
    <3>15. phoneVerified' \in BOOLEAN
      BY <3>1
    <3> QED
      BY <1>2, <2>1, <3>10, <3>11, <3>13, <3>14, <3>15 DEF CheckoutInv, ServerOK
  <2> QED
    BY <2>2, <2>3
<1> QED
  BY <1>4, <1>5, <1>6, <1>7

(* A code that expires is no less its phone's.                             *)
LEMMA CheckoutExpires ==
  ASSUME CheckoutInv, NEW i \in DOMAIN codes, Checkout!Expire(i)
  PROVE  CheckoutInv'
<1> DEFINE row == [codes[i] EXCEPT !.live = FALSE]
<1>1. /\ codes' = [codes EXCEPT ![i] = row]
      /\ UNCHANGED <<phoneVerified, subscription, checkouts, orphans, events, tabs, requests>>
  BY DEF Checkout!Expire, Checkout!provider
<1>2. CodesOK
  BY DEF CheckoutInv
<1>3. /\ row \in CodeRows /\ row.phone = codes[i].phone /\ row.successes = codes[i].successes
      /\ row.attempts = codes[i].attempts /\ row.is = codes[i].is
  BY <1>2, CheckoutRows DEF CodeRows
<1>4. /\ row.successes >= codes[i].successes /\ row.attempts <= MaxAttempts /\ row.successes <= 1
      /\ row.is = "open" => row.successes = 0
  BY <1>2, <1>3, CheckoutRows DEF CodesOK
<1> HIDE DEF row
<1>5. CodesOK' /\ CodesKept
  BY <1>1, <1>2, <1>3, <1>4, CheckoutChanges
<1>6. ServerOK'
  BY <1>1, <1>5, CheckoutServer DEF CheckoutInv, ServerOK
<1>7. TabsOK'
  BY <1>1, <1>5 DEF CheckoutInv, TabsOK, TabOK, CodesKept, Own
<1> QED
  BY <1>5, <1>6, <1>7 DEF CheckoutInv

(* Paying, starting the component anew, and what happens elsewhere.        *)
LEMMA CheckoutPays ==
  ASSUME CheckoutInv, NEW t \in Tabs,
         \/ Checkout!Checkout(t) \/ Checkout!StartCheckout(t) \/ Checkout!Pay(t)
         \/ Checkout!Reload(t) \/ Checkout!Cancel(t) \/ Checkout!CancelRefused(t)
  PROVE  CheckoutInv'
<1>1. tabs[t] \in TabStates /\ requests[t] \in TabRequests /\ TabOK(t)
  BY DEF CheckoutInv, TabsOK
<1>2. CodesOK /\ checkouts \in Nat /\ orphans \in Nat /\ events \in 0 .. MaxEvents
        /\ subscription \in {"TRIAL", "EXPIRED", "ACTIVE"}
  BY DEF CheckoutInv, ServerOK
<1>3. CodesOK' /\ CodesKept /\ UNCHANGED <<codes, phoneVerified, subscription, events>>
  <2>1. UNCHANGED <<codes, phoneVerified, subscription, events>>
    BY DEF Checkout!Checkout, Checkout!StartCheckout, Checkout!Pay, Checkout!Reload,
       Checkout!Cancel, Checkout!CancelRefused, Checkout!server, Checkout!provider
  <2> QED
    BY <1>2, <2>1, CheckoutSame
<1>4. CASE Checkout!Checkout(t)
  <2> DEFINE request == [at |-> "checkout"]
  <2>1. request \in TabRequests /\ request.at = "checkout"
    BY DEF TabRequests
  <2>2. Checkout!Waits(t, request) /\ UNCHANGED <<checkouts, orphans>> /\ tabs[t].verified
    BY <1>4 DEF Checkout!Checkout, Checkout!CanPay, Checkout!server
  <2>3. ~Checkout!Goes(t, request)
    <3>1. ~tabs[t].busy /\ tabs'[t].busy
      BY <1>1, <1>4, <2>2 DEF Checkout!Checkout, Checkout!CanPay, Checkout!Ready, Checkout!Waits,
                              CheckoutInv, TabsOK, TabStates
    <3> QED
      BY <3>1 DEF Checkout!Goes
  <2> HIDE DEF request
  <2>4. TabsOK'
    BY <1>3, <2>1, <2>2, <2>3, CheckoutGoes
  <2> QED
    BY <1>2, <1>3, <2>2, <2>4, CheckoutServer DEF CheckoutInv
<1>5. CASE Checkout!StartCheckout(t)
  <2> DEFINE tab == [tabs[t] EXCEPT !.at = "provider"]
  <2>1. tab \in TabStates /\ tab.at = "provider" /\ tab.verified = tabs[t].verified
    BY <1>1 DEF TabStates
  <2>2. requests[t].at = "checkout"
    BY <1>5 DEF Checkout!StartCheckout
  <2>3. /\ checkouts' \in Nat /\ checkouts' >= checkouts /\ orphans' \in Nat
        /\ \/ Checkout!Refused(t)
           \/ Checkout!Told(t, tab) /\ checkouts' = checkouts + 1
    BY <1>2, <1>5 DEF Checkout!StartCheckout, Checkout!Succeeds
  <2> HIDE DEF tab
  <2>4. TabsOK'
    <3>1. CASE Checkout!Refused(t)
      <4>1. tabs[t].at = "provider" => tabs[t].verified /\ checkouts' > 0
        BY <1>1, <1>2, <2>3 DEF TabOK
      <4> QED
        BY <1>1, <1>3, <2>3, <3>1, <4>1, CheckoutAnswers DEF TabOK
    <3>2. CASE Checkout!Told(t, tab) /\ checkouts' = checkouts + 1
      <4>1. checkouts' > 0
        BY <1>2, <3>2
      <4> QED
        BY <1>1, <1>3, <2>1, <2>2, <2>3, <3>2, <4>1, CheckoutAnswers DEF TabOK
    <3> QED
      BY <2>3, <3>1, <3>2
  <2> QED
    BY <1>2, <1>3, <2>3, <2>4, CheckoutServer DEF CheckoutInv
<1>6. CASE Checkout!Pay(t)
  <2>1. UNCHANGED <<checkouts, orphans, tabs, requests>>
    BY <1>6 DEF Checkout!Pay, Checkout!server
  <2>2. TabsOK'
    BY <1>3, <2>1 DEF CheckoutInv, TabsOK, TabOK, Own
  <2> QED
    BY <1>2, <1>3, <2>1, <2>2, CheckoutServer DEF CheckoutInv
<1>7. CASE Checkout!Reload(t)
  <2>1. /\ UNCHANGED <<checkouts, orphans, requests>> /\ requests[t].at = "not"
        /\ tabs' = [tabs EXCEPT ![t] = Checkout!Nowhere]
    BY <1>7 DEF Checkout!Reload, Checkout!server, Checkout!NotAsked
  <2>2. /\ Checkout!Nowhere \in TabStates /\ ~Checkout!Nowhere.verified
        /\ Checkout!Nowhere.at = "account"
    BY DEF Checkout!Nowhere, TabStates
  <2>3. TabsOK'
    BY <1>3, <2>1, <2>2, CheckoutTabs
  <2> QED
    BY <1>2, <1>3, <2>1, <2>3, CheckoutServer DEF CheckoutInv
<1>8. CASE Checkout!Cancel(t) \/ Checkout!CancelRefused(t)
  <2> PICK c \in BOOLEAN : tabs' = [tabs EXCEPT ![t].cancelling = c]
    BY <1>8 DEF Checkout!Cancel, Checkout!CancelRefused
  <2> DEFINE tab == [tabs[t] EXCEPT !.cancelling = c]
  <2>1. UNCHANGED <<checkouts, orphans, requests>> /\ tabs' = [tabs EXCEPT ![t] = tab]
    BY <1>8 DEF Checkout!Cancel, Checkout!CancelRefused, Checkout!server
  <2>2. /\ tab \in TabStates /\ tab.verified = tabs[t].verified /\ tab.at = tabs[t].at
        /\ tab.busy = tabs[t].busy
    BY <1>1 DEF TabStates
  <2> HIDE DEF tab
  <2>3. TabsOK'
    BY <1>1, <1>3, <2>1, <2>2, CheckoutTabs DEF TabOK
  <2> QED
    BY <1>2, <1>3, <2>1, <2>3, CheckoutServer DEF CheckoutInv
<1> QED
  BY <1>4, <1>5, <1>6, <1>7, <1>8

(* The trial ends, or the provider delivers its event.                     *)
LEMMA CheckoutOthers ==
  ASSUME CheckoutInv, Checkout!TrialEnds \/ Checkout!Webhook
  PROVE  CheckoutInv'
<1>1. /\ UNCHANGED <<codes, phoneVerified, checkouts, orphans, tabs, requests>>
      /\ subscription' \in {"TRIAL", "EXPIRED", "ACTIVE"} /\ events' \in 0 .. MaxEvents
  <2>1. MaxEvents \in Nat /\ events \in 0 .. MaxEvents
          /\ subscription \in {"TRIAL", "EXPIRED", "ACTIVE"}
    BY CountsAssumption DEF CheckoutInv, ServerOK
  <2> QED
    BY <2>1 DEF Checkout!TrialEnds, Checkout!Webhook, Checkout!provider
<1>2. CodesOK' /\ CodesKept
  BY <1>1, CheckoutSame DEF CheckoutInv
<1>3. TabsOK'
  BY <1>1 DEF CheckoutInv, TabsOK, TabOK, Own
<1> QED
  BY <1>1, <1>2, <1>3, CheckoutServer DEF CheckoutInv, ServerOK

(* Every step of the checkout keeps its invariant.                         *)
LEMMA CheckoutStep == CheckoutInv /\ [Checkout!Next]_(Checkout!vars) => CheckoutInv'
<1>1. ASSUME CheckoutInv, UNCHANGED Checkout!vars PROVE CheckoutInv'
  BY <1>1 DEF Checkout!vars, Checkout!server, Checkout!provider, CheckoutInv, CodesOK, ServerOK,
              TabsOK, TabOK, Own
<1> QED
  BY <1>1, CheckoutSends, CheckoutVerifies, CheckoutExpires, CheckoutPays, CheckoutOthers
  DEF Checkout!Next, Checkout!CodeIds

(* However the requests of the administrator's tabs interleave, no code is *)
(* guessed wrong more often than allowed or works twice, and payment is    *)
(* offered only after a code that the administrator's own phone received:  *)
(* VerifyPhoneVerificationCode's guarded UPDATEs and the checks of         *)
(* SubscriptionCheckout.tsx.                                               *)
THEOREM PaymentGuarded == PagesSpec => []PaymentIsGuarded
<1>1. CheckoutInv => PaymentIsGuarded
  BY DEF CheckoutInv, CodesOK, ServerOK, TabsOK, TabOK, Own, PaymentIsGuarded,
         Checkout!CodesAreGuarded, Checkout!PaymentMeansOwnPhone, Checkout!CodeIds
<1> QED
  BY <1>1, PartsOf, CheckoutInit, CheckoutStep, PTL DEF Checkout!Spec

(* The states of the checkout are those its component can be in.           *)
LEMMA CheckoutTypes == CheckoutInv => Checkout!TypeOK
<1> SUFFICES ASSUME CheckoutInv PROVE Checkout!TypeOK
  OBVIOUS
<1>1. \A i \in Checkout!CodeIds : codes[i] \in [phone : Checkout!Phones, live : BOOLEAN,
                    attempts : Nat, is : {"open", "consumed", "deleted"}, successes : Nat]
  BY CheckoutRows DEF CheckoutInv, CodeRows, Checkout!Phones, Checkout!CodeIds
<1>2. ASSUME NEW t \in Tabs
      PROVE  /\ tabs[t].at \in {"account", "provider"}
             /\ requests[t] # Checkout!NotAsked => tabs[t].busy
             /\ tabs[t].at = "provider" => tabs[t].verified /\ checkouts > 0
  <2>1. tabs[t] \in TabStates /\ requests[t] \in TabRequests /\ TabOK(t)
    BY DEF CheckoutInv, TabsOK
  <2>2. requests[t].at = "not" => requests[t] = [at |-> "not"]
    BY <2>1 DEF TabRequests
  <2>3. tabs[t].at \in {"account", "provider"}
    BY <2>1 DEF TabStates
  <2> QED
    BY <2>1, <2>2, <2>3 DEF TabOK, Checkout!NotAsked
<1> QED
  BY <1>1, <1>2 DEF Checkout!TypeOK, CheckoutInv, CodesOK, ServerOK

-----------------------------------------------------------------------------
(* AdminUsersPage.  The form and the mutations in flight keep the values   *)
(* of a row with the user of that row.  While nothing went wrong, what     *)
(* the page knows of a query is right, or an answer that will be right is  *)
(* asked for, or a mutation is done whose success will ask for it.         *)
Mutations ==
    [kind : {"not"}] \cup [kind : {"create"}, at : {"sent", "served"}]
      \cup [kind : {"update"}, at : {"sent", "served"}, user : Ids, values : Ids \cup {"empty"}]
      \cup [kind : {"delete"}, at : {"sent", "served"}, user : Ids]
Saving(s) == sent[s].kind \in {"create", "update"}

FormOK ==
    /\ form \in [editing : Ids \cup {"shut"}, creating : BOOLEAN, values : Ids \cup {"empty"}]
    /\ form.editing # "shut" => ~form.creating /\ form.values \in {form.editing, "empty"}
SentOK ==
    /\ sent \in [Slots -> Mutations]
    /\ \A s \in Slots : sent[s].kind = "update" => sent[s].values \in {sent[s].user, "empty"}
    /\ \A s, s2 \in Slots : Saving(s) /\ Saving(s2) => s = s2
    /\ sends \in 0 .. MaxSends
One(answer) == \E x \in answer : answer = {x}
QueriesOK ==
    /\ there \in [Ids -> {"none", "old", "new"}] /\ trouble \in BOOLEAN
    /\ cache = [q \in {"account", "users"} |-> cache[q]]
    /\ fetching = [q \in {"account", "users"} |-> fetching[q]]
    /\ \A q \in {"account", "users"} :
          /\ cache[q] = {} \/ One(cache[q])
          /\ \/ fetching[q] = [at |-> "not"] \/ fetching[q] = [at |-> "asked"]
             \/ /\ fetching[q] = [at |-> "served", reply |-> fetching[q].reply]
                /\ One(fetching[q].reply)

WillAsk(q) ==
    \E s \in Slots : /\ sent[s].kind # "not" /\ sent[s].at = "served"
                     /\ q = "account" => sent[s].kind # "update"
Fresh(q) ==
    \/ fetching[q].at = "asked"
    \/ fetching[q].at = "served" /\ fetching[q].reply = {AdminUsers!Reply(q)}
    \/ fetching[q].at = "not" /\ cache[q] = {AdminUsers!Reply(q)}
    \/ WillAsk(q)
    \/ q = "users" /\ cache["account"] = {}
FreshOK ==
    /\ ~trouble => /\ Fresh("account") /\ Fresh("users")
                   /\ cache["account"] = {} => fetching["account"].at # "not"
    /\ cache["account"] = {} => cache["users"] = {} /\ fetching["users"].at = "not"
AdminInv == FormOK /\ SentOK /\ QueriesOK /\ FreshOK

(* The beginning.                                                          *)
LEMMA AdminInit == AdminUsers!Init => AdminInv
<1> SUFFICES ASSUME AdminUsers!Init PROVE AdminInv
  OBVIOUS
<1> USE DEF AdminUsers!Init, AdminUsers!Queries, AdminUsers!NoData, AdminUsers!Asked,
            AdminUsers!NotAsked, AdminUsers!NoMutation, AdminUsers!Shut, AdminUsers!Empty
<1>1. FormOK
  BY DEF FormOK
<1>2. SentOK
  <2>1. sends \in 0 .. MaxSends
    BY CountsAssumption
  <2>2. sent \in [Slots -> Mutations] /\ \A s \in Slots : sent[s].kind = "not"
    BY DEF Mutations
  <2> QED
    BY <2>1, <2>2 DEF SentOK, Saving
<1>3. QueriesOK
  <2>1. trouble \in BOOLEAN
    OBVIOUS
  <2>2. there \in [Ids -> {"none", "old", "new"}]
    OBVIOUS
  <2> QED
    BY <2>1, <2>2 DEF QueriesOK
<1>4. FreshOK
  BY DEF FreshOK, Fresh
<1> QED
  BY <1>1, <1>2, <1>3, <1>4 DEF AdminInv

(* The queries of the page.                                                *)
LEMMA AdminServes ==
  ASSUME AdminInv, NEW q \in {"account", "users"}, AdminUsers!ServeQuery(q)
  PROVE  AdminInv'
<1> DEFINE reply == AdminUsers!Reply(q)
<1>1. /\ fetching[q] = [at |-> "asked"]
      /\ fetching' = [fetching EXCEPT ![q] = [at |-> "served", reply |-> {reply}]]
      /\ UNCHANGED <<there, cache, form, sent, sends, trouble>>
  BY DEF AdminUsers!ServeQuery, AdminUsers!Asked
<1>2. \A r \in {"account", "users"} : AdminUsers!Reply(r)' = AdminUsers!Reply(r)
  BY <1>1 DEF AdminUsers!Reply, AdminUsers!InUse
<1> HIDE DEF reply
<1>3. /\ fetching'[q] = [at |-> "served", reply |-> {reply}]
      /\ \A r \in {"account", "users"} : r # q => fetching'[r] = fetching[r]
      /\ fetching' = [r \in {"account", "users"} |-> fetching'[r]]
  BY <1>1 DEF AdminInv, QueriesOK
<1>4. FormOK' /\ SentOK'
  BY <1>1 DEF AdminInv, FormOK, SentOK, Saving
<1>5. QueriesOK'
  BY <1>1, <1>3 DEF AdminInv, QueriesOK, One
<1>6. FreshOK'
  BY <1>1, <1>2, <1>3 DEF AdminInv, FreshOK, Fresh, WillAsk, reply
<1> QED
  BY <1>4, <1>5, <1>6 DEF AdminInv

(* An answer arrives; the first about the account asks for the users.      *)
LEMMA AdminHears ==
  ASSUME AdminInv, NEW q \in {"account", "users"}, AdminUsers!QueryAnswered(q)
  PROVE  AdminInv'
<1>1. /\ fetching[q].at = "served"
      /\ cache' = [cache EXCEPT ![q] = fetching[q].reply]
      /\ UNCHANGED <<there, form, sent, sends, trouble>>
  BY DEF AdminUsers!QueryAnswered
<1>2. \A r \in {"account", "users"} : AdminUsers!Reply(r)' = AdminUsers!Reply(r)
  BY <1>1 DEF AdminUsers!Reply, AdminUsers!InUse
<1>3. /\ fetching'["account"] = IF q = "account" THEN [at |-> "not"] ELSE fetching["account"]
      /\ fetching'["users"] =
            IF q = "users" THEN [at |-> "not"]
            ELSE IF cache["users"] = {} /\ fetching["users"] = [at |-> "not"] THEN [at |-> "asked"]
            ELSE fetching["users"]
      /\ fetching' = [r \in {"account", "users"} |-> fetching'[r]]
  BY DEF AdminUsers!QueryAnswered, AdminUsers!NotAsked, AdminUsers!Asked, AdminUsers!NoData,
         AdminInv, QueriesOK
<1>4. /\ cache'[q] = fetching[q].reply
      /\ \A r \in {"account", "users"} : r # q => cache'[r] = cache[r]
      /\ cache' = [r \in {"account", "users"} |-> cache'[r]]
  BY <1>1 DEF AdminInv, QueriesOK
<1>5. One(fetching[q].reply) /\ fetching[q].reply # {}
  BY <1>1 DEF AdminInv, QueriesOK, One
<1>6. FormOK' /\ SentOK'
  BY <1>1 DEF AdminInv, FormOK, SentOK, Saving
<1>7. QueriesOK'
  <2>1. \A r \in {"account", "users"} : cache'[r] = cache[r] \/ One(cache'[r])
    BY <1>4, <1>5
  <2>2. \A r \in {"account", "users"} :
           fetching'[r] = fetching[r] \/ fetching'[r] \in {[at |-> "not"], [at |-> "asked"]}
    BY <1>3
  <2> QED
    BY <1>1, <1>3, <1>4, <2>1, <2>2 DEF AdminInv, QueriesOK
<1>8. FreshOK'
  <2>1. \A r \in {"account", "users"} : fetching[r].at = "not" => fetching[r] = [at |-> "not"]
    BY DEF AdminInv, QueriesOK
  <2>2. WillAsk("account")' = WillAsk("account") /\ WillAsk("users")' = WillAsk("users")
    BY <1>1 DEF WillAsk
  <2> QED
    BY <1>1, <1>2, <1>3, <1>4, <1>5, <2>1, <2>2 DEF AdminInv, FreshOK, Fresh
<1> QED
  BY <1>6, <1>7, <1>8 DEF AdminInv

(* No answer arrives.                                                      *)
LEMMA AdminWaits ==
  ASSUME AdminInv, NEW q \in {"account", "users"}, AdminUsers!QueryFails(q)
  PROVE  AdminInv'
<1>1. /\ fetching' = [fetching EXCEPT ![q] = [at |-> "not"]] /\ trouble' = TRUE
      /\ UNCHANGED <<there, cache, form, sent, sends>>
  BY DEF AdminUsers!QueryFails, AdminUsers!NotAsked
<1>2. /\ fetching'[q] = [at |-> "not"]
      /\ \A r \in {"account", "users"} : r # q => fetching'[r] = fetching[r]
      /\ fetching' = [r \in {"account", "users"} |-> fetching'[r]]
  BY <1>1 DEF AdminInv, QueriesOK
<1>3. FormOK' /\ SentOK'
  BY <1>1 DEF AdminInv, FormOK, SentOK, Saving
<1>4. QueriesOK'
  <2>1. trouble' \in BOOLEAN
    BY <1>1
  <2> QED
    BY <1>1, <1>2, <2>1 DEF AdminInv, QueriesOK
<1>5. FreshOK'
  <2>1. trouble'
    BY <1>1
  <2> QED
    BY <1>1, <1>2, <2>1 DEF AdminInv, FreshOK
<1> QED
  BY <1>3, <1>4, <1>5 DEF AdminInv

(* The form is opened or left.                                             *)
LEMMA AdminForms ==
  ASSUME AdminInv,
         \/ AdminUsers!OpenCreate \/ (\E u \in Ids : AdminUsers!OpenEdit(u)) \/ AdminUsers!Cancel
  PROVE  AdminInv'
<1>1. UNCHANGED <<there, cache, fetching, sent, sends, trouble>>
  BY DEF AdminUsers!OpenCreate, AdminUsers!OpenEdit, AdminUsers!Cancel
<1>2. SentOK' /\ QueriesOK' /\ FreshOK'
  BY <1>1 DEF AdminInv, SentOK, Saving, QueriesOK, FreshOK, Fresh, WillAsk, AdminUsers!Reply,
              AdminUsers!InUse
<1>3. FormOK'
  <2>1. CASE AdminUsers!OpenCreate
    BY <2>1 DEF FormOK, AdminUsers!OpenCreate, AdminUsers!Shut, AdminUsers!Empty
  <2>2. ASSUME NEW u \in Ids, AdminUsers!OpenEdit(u) PROVE FormOK'
    BY <2>2 DEF FormOK, AdminUsers!OpenEdit
  <2>3. CASE AdminUsers!Cancel
    <3>1. form' = [form EXCEPT !.editing = "shut", !.creating = FALSE]
      BY <2>3 DEF AdminUsers!Cancel, AdminUsers!Shut
    <3> QED
      BY <3>1 DEF AdminInv, FormOK
  <2> QED
    BY <2>1, <2>2, <2>3
<1> QED
  BY <1>2, <1>3 DEF AdminInv

(* A mutation is sent.                                                     *)
LEMMA AdminSends ==
  ASSUME AdminInv, AdminUsers!Submit \/ \E u \in Ids : AdminUsers!ClickDelete(u)
  PROVE  AdminInv'
<1>1. PICK m \in Mutations :
         /\ AdminUsers!Send(m) /\ m.kind # "not" /\ m.at = "sent"
         /\ m.kind = "update" => m.values \in {m.user, "empty"}
         /\ m.kind \in {"create", "update"} => \A s \in Slots : ~Saving(s)
  <2>1. CASE \E u \in Ids : AdminUsers!ClickDelete(u)
    <3> PICK u \in Ids : AdminUsers!Send([kind |-> "delete", user |-> u, at |-> "sent"])
      BY <2>1 DEF AdminUsers!ClickDelete
    <3>1. [kind |-> "delete", user |-> u, at |-> "sent"] \in Mutations
      BY DEF Mutations
    <3> QED
      BY <3>1
  <2>2. CASE AdminUsers!Submit /\ form.editing # "shut"
    <3> DEFINE m == [kind |-> "update", user |-> form.editing, values |-> form.values,
                     at |-> "sent"]
    <3>1. AdminUsers!Send(m) /\ \A s \in Slots : ~Saving(s)
      BY <2>2 DEF AdminUsers!Submit, AdminUsers!Shut, AdminUsers!isSaving, Saving
    <3>2. form.editing \in Ids /\ form.values \in Ids \cup {"empty"}
            /\ form.values \in {form.editing, "empty"}
      BY <2>2 DEF AdminInv, FormOK
    <3>3. m \in Mutations
      BY <3>2 DEF Mutations
    <3> QED
      BY <3>1, <3>2, <3>3
  <2>3. CASE AdminUsers!Submit /\ form.editing = "shut"
    <3> DEFINE m == [kind |-> "create", at |-> "sent"]
    <3>1. AdminUsers!Send(m) /\ \A s \in Slots : ~Saving(s)
      BY <2>3 DEF AdminUsers!Submit, AdminUsers!Shut, AdminUsers!isSaving, Saving
    <3>2. m \in Mutations
      BY DEF Mutations
    <3> QED
      BY <3>1, <3>2
  <2> QED
    BY <2>1, <2>2, <2>3
<1>2. PICK s \in Slots : sent[s] = [kind |-> "not"] /\ sent' = [sent EXCEPT ![s] = m]
  BY <1>1 DEF AdminUsers!Send, AdminUsers!NoMutation
<1>3. /\ sends < MaxSends /\ sends' = sends + 1
      /\ UNCHANGED <<there, cache, fetching, form, trouble>>
  BY <1>1 DEF AdminUsers!Send
<1>4. /\ sent' \in [Slots -> Mutations] /\ sent'[s] = m
      /\ \A u \in Slots : u # s => sent'[u] = sent[u]
  BY <1>2 DEF AdminInv, SentOK
<1>5. SentOK'
  <2>1. sends' \in 0 .. MaxSends
    BY <1>3, CountsAssumption DEF AdminInv, SentOK
  <2> QED
    BY <1>1, <1>4, <2>1 DEF AdminInv, SentOK, Saving
<1>6. FormOK' /\ QueriesOK'
  BY <1>3 DEF AdminInv, FormOK, QueriesOK
<1>7. FreshOK'
  <2>1. \A q \in {"account", "users"} : WillAsk(q) => WillAsk(q)'
    BY <1>2, <1>4 DEF WillAsk
  <2>2. \A q \in {"account", "users"} : AdminUsers!Reply(q)' = AdminUsers!Reply(q)
    BY <1>3 DEF AdminUsers!Reply, AdminUsers!InUse
  <2> QED
    BY <1>3, <2>1, <2>2 DEF AdminInv, FreshOK, Fresh
<1> QED
  BY <1>5, <1>6, <1>7 DEF AdminInv

(* A mutation is done: a success will ask for what it has made stale, and  *)
(* an update leaves the number of users as it is.                          *)
LEMMA AdminDoes ==
  ASSUME AdminInv, NEW s \in Slots, AdminUsers!ServeMutation(s)
  PROVE  AdminInv'
<1> DEFINE m == [sent[s] EXCEPT !.at = "served"]
<1>1. /\ sent[s] # [kind |-> "not"] /\ sent[s].at = "sent" /\ there' \in AdminUsers!Outcome(sent[s])
      /\ sent' = [sent EXCEPT ![s] = m]
      /\ UNCHANGED <<cache, fetching, form, sends, trouble>>
  BY DEF AdminUsers!ServeMutation, AdminUsers!NoMutation
<1>2. sent[s] \in Mutations /\ sent[s].kind \in {"create", "update", "delete"}
  <2>1. sent[s] \in Mutations
    BY DEF AdminInv, SentOK
  <2> QED
    BY <1>1, <2>1 DEF Mutations
<1>3. /\ m \in Mutations /\ m.kind = sent[s].kind /\ m.at = "served"
      /\ m.kind = "update" => m.user = sent[s].user /\ m.values = sent[s].values
  BY <1>1, <1>2 DEF Mutations
<1> HIDE DEF m
<1>4. /\ sent' \in [Slots -> Mutations] /\ sent'[s] = m
      /\ \A u \in Slots : u # s => sent'[u] = sent[u]
  BY <1>1, <1>3 DEF AdminInv, SentOK
<1>5. SentOK'
  BY <1>1, <1>3, <1>4 DEF AdminInv, SentOK, Saving
<1>6. there' \in [Ids -> {"none", "old", "new"}]
  BY <1>1, <1>2 DEF AdminUsers!Outcome, AdminInv, QueriesOK
<1>7. FormOK' /\ QueriesOK'
  BY <1>1, <1>6 DEF AdminInv, FormOK, QueriesOK
<1>8. m.kind = "update" => AdminUsers!InUse(there') = AdminUsers!InUse(there)
  <2> SUFFICES ASSUME m.kind = "update"
               PROVE  {u \in Ids : there'[u] # "none"} = {u \in Ids : there[u] # "none"}
    BY DEF AdminUsers!InUse
  <2>1. sent[s].user \in Ids
    BY <1>2, <1>3 DEF Mutations
  <2>2. there' \in AdminUsers!Outcome(sent[s]) /\ sent[s].kind = "update"
    BY <1>1, <1>3
  <2>3. there[sent[s].user] # "none" /\ there' = [there EXCEPT ![sent[s].user] = "new"]
    BY <2>2 DEF AdminUsers!Outcome
  <2> QED
    BY <2>1, <2>3 DEF AdminInv, QueriesOK
<1>9. FreshOK'
  <2>1. WillAsk("users")'
    BY <1>2, <1>3, <1>4 DEF WillAsk
  <2>2. \/ WillAsk("account")'
        \/ /\ AdminUsers!Reply("account")' = AdminUsers!Reply("account")
           /\ WillAsk("account") => WillAsk("account")'
    <3>1. CASE m.kind # "update"
      BY <1>2, <1>3, <1>4, <3>1 DEF WillAsk
    <3>2. CASE m.kind = "update"
      <4>1. AdminUsers!Reply("account")' = AdminUsers!Reply("account")
        BY <1>8, <3>2 DEF AdminUsers!Reply, AdminUsers!InUse
      <4>2. WillAsk("account") => WillAsk("account")'
        BY <1>1, <1>4 DEF WillAsk
      <4> QED
        BY <4>1, <4>2
    <3> QED
      BY <3>1, <3>2
  <2> QED
    BY <1>1, <2>1, <2>2 DEF AdminInv, FreshOK, Fresh
<1> QED
  BY <1>5, <1>7, <1>9 DEF AdminInv

(* A mutation leaves its slot, and the others stay.                        *)
LEMMA AdminLeaves ==
  ASSUME AdminInv, NEW s \in Slots, sent' = [sent EXCEPT ![s] = [kind |-> "not"]],
         UNCHANGED sends
  PROVE  /\ SentOK'
         /\ \A u \in Slots : u # s => sent'[u] = sent[u]
<1>1. [kind |-> "not"] \in Mutations
  BY DEF Mutations
<1>2. /\ sent' \in [Slots -> Mutations] /\ sent'[s].kind = "not"
      /\ \A u \in Slots : u # s => sent'[u] = sent[u]
  BY <1>1 DEF AdminInv, SentOK
<1> QED
  BY <1>2 DEF AdminInv, SentOK, Saving

(* A mutation has failed, or its answer is lost.                           *)
LEMMA AdminFails ==
  ASSUME AdminInv, NEW s \in Slots, AdminUsers!Fails(s)
  PROVE  AdminInv'
<1> DEFINE Done == sent[s].at = "served"
<1>1. /\ sent' = [sent EXCEPT ![s] = [kind |-> "not"]] /\ trouble' = (trouble \/ Done)
      /\ UNCHANGED <<there, cache, fetching, form, sends>>
  BY DEF AdminUsers!Fails, AdminUsers!NoMutation
<1>2. SentOK' /\ \A u \in Slots : u # s => sent'[u] = sent[u]
  BY <1>1, AdminLeaves
<1>3. trouble \in BOOLEAN /\ Done \in BOOLEAN
  BY DEF AdminInv, QueriesOK
<1> HIDE DEF Done
<1>4. trouble' \in BOOLEAN /\ (~trouble' => ~trouble /\ ~Done)
  BY <1>1, <1>3
<1>5. FormOK' /\ QueriesOK'
  BY <1>1, <1>4 DEF AdminInv, FormOK, QueriesOK
<1>6. FreshOK'
  <2>1. ~trouble' => \A q \in {"account", "users"} : WillAsk(q) => WillAsk(q)'
    BY <1>2, <1>4 DEF WillAsk, Done
  <2>2. \A q \in {"account", "users"} : AdminUsers!Reply(q)' = AdminUsers!Reply(q)
    BY <1>1 DEF AdminUsers!Reply, AdminUsers!InUse
  <2> QED
    BY <1>1, <1>4, <2>1, <2>2 DEF AdminInv, FreshOK, Fresh
<1> QED
  BY <1>2, <1>5, <1>6 DEF AdminInv

(* A mutation has succeeded: the form is closed and the queries are asked  *)
(* again, or a first request in flight goes on and the page may be wrong.  *)
LEMMA AdminSucceeds ==
  ASSUME AdminInv, NEW s \in Slots, AdminUsers!Succeeds(s)
  PROVE  AdminInv'
<1> DEFINE keys == IF sent[s].kind = "update" THEN {"users"} ELSE {"account", "users"}
<1>1. /\ sent[s] # [kind |-> "not"] /\ sent[s].at = "served"
      /\ sent' = [sent EXCEPT ![s] = [kind |-> "not"]]
      /\ AdminUsers!Invalidate(keys)
      /\ UNCHANGED <<there, cache, sends>>
  BY DEF AdminUsers!Succeeds, AdminUsers!NoMutation, AdminUsers!Queries
<1>2. SentOK' /\ \A u \in Slots : u # s => sent'[u] = sent[u]
  BY <1>1, AdminLeaves
<1>3. sent[s].kind \in {"create", "update", "delete"}
  <2>1. sent[s] \in Mutations
    BY DEF AdminInv, SentOK
  <2> QED
    BY <1>1, <2>1 DEF Mutations
<1>4. FormOK'
  <2>1. CASE sent[s].kind = "create"
    <3>1. form' = [form EXCEPT !.creating = FALSE, !.values = "empty"]
      BY <2>1 DEF AdminUsers!Succeeds, AdminUsers!Empty
    <3> QED
      BY <3>1 DEF AdminInv, FormOK
  <2>2. CASE sent[s].kind = "update"
    <3>1. form' = [form EXCEPT !.editing = "shut", !.values = "empty"]
      BY <2>2 DEF AdminUsers!Succeeds, AdminUsers!Empty, AdminUsers!Shut
    <3> QED
      BY <3>1 DEF AdminInv, FormOK
  <2>3. CASE sent[s].kind = "delete"
    <3>1. form' = form
      BY <2>3 DEF AdminUsers!Succeeds
    <3> QED
      BY <3>1 DEF AdminInv, FormOK
  <2> QED
    BY <1>3, <2>1, <2>2, <2>3
<1> DEFINE First(q) == cache[q] = {} /\ fetching[q] # [at |-> "not"]
<1> DEFINE Known(q) == q = "users" => cache["account"] # {}
<1> DEFINE Early == \E q \in keys : First(q)
<1>5. /\ fetching' = [q \in {"account", "users"} |->
                        IF q \in keys /\ Known(q) /\ ~First(q) THEN [at |-> "asked"] ELSE fetching[q]]
      /\ trouble' = (trouble \/ Early)
  BY <1>1 DEF AdminUsers!Invalidate, AdminUsers!Queries, AdminUsers!Enabled, AdminUsers!FirstLoad,
              AdminUsers!NoData, AdminUsers!NotAsked, AdminUsers!Asked
<1>6. trouble \in BOOLEAN /\ Early \in BOOLEAN
  BY DEF AdminInv, QueriesOK
<1>7. trouble' \in BOOLEAN /\ (~trouble' => ~trouble /\ ~Early)
  <2> HIDE DEF Early
  <2> QED
    BY <1>5, <1>6
<1>8. \A q \in {"account", "users"} :
         /\ fetching[q].at = "not" <=> fetching[q] = [at |-> "not"]
         /\ fetching'[q] = IF q \in keys /\ Known(q) /\ ~First(q) THEN [at |-> "asked"]
                           ELSE fetching[q]
  BY <1>5 DEF AdminInv, QueriesOK
<1>9. QueriesOK'
  <2>1. fetching' = [q \in {"account", "users"} |-> fetching'[q]]
    BY <1>5
  <2>2. \A q \in {"account", "users"} : fetching'[q] = fetching[q] \/ fetching'[q] = [at |-> "asked"]
    BY <1>8
  <2> QED
    BY <1>1, <1>7, <2>1, <2>2 DEF AdminInv, QueriesOK
<1>10. FreshOK'
  <2>1. \A q \in {"account", "users"} : AdminUsers!Reply(q)' = AdminUsers!Reply(q)
    BY <1>1 DEF AdminUsers!Reply, AdminUsers!InUse
  <2>2. cache["account"] = {} => fetching'["users"] = fetching["users"]
    BY <1>8
  <2>3. fetching[("account")].at # "not" => fetching'["account"].at # "not"
    BY <1>8
  <2>4. ASSUME ~trouble', NEW q \in {"account", "users"} PROVE Fresh(q)'
    <3>1. CASE q \in keys
      <4>1. ~First(q)
        BY <1>7, <2>4, <3>1
      <4>2. CASE Known(q)
        BY <1>8, <3>1, <4>1, <4>2 DEF Fresh
      <4>3. CASE ~Known(q)
        BY <1>1, <4>3 DEF Fresh
      <4> QED
        BY <4>2, <4>3
    <3>2. CASE q \notin keys
      <4>1. q = "account" /\ sent[s].kind = "update"
        BY <3>2
      <4>2. WillAsk(q) => WillAsk(q)'
        BY <1>2, <4>1 DEF WillAsk
      <4>3. Fresh(q) /\ fetching'[q] = fetching[q]
        BY <1>7, <1>8, <2>4, <3>2 DEF AdminInv, FreshOK
      <4> QED
        BY <1>1, <2>1, <4>2, <4>3 DEF Fresh
    <3> QED
      BY <3>1, <3>2
  <2> QED
    BY <1>1, <1>7, <2>2, <2>3, <2>4 DEF AdminInv, FreshOK
<1> QED
  BY <1>2, <1>4, <1>9, <1>10 DEF AdminInv

(* Every step of the user administration page keeps its invariant.         *)
LEMMA AdminPageStep == AdminInv /\ [AdminUsers!Next]_(AdminUsers!vars) => AdminInv'
<1>1. ASSUME AdminInv, UNCHANGED AdminUsers!vars PROVE AdminInv'
  BY <1>1 DEF AdminUsers!vars, AdminInv, FormOK, SentOK, Saving, QueriesOK, FreshOK, Fresh,
              WillAsk, AdminUsers!Reply, AdminUsers!InUse
<1> QED
  BY <1>1, AdminServes, AdminHears, AdminWaits, AdminForms, AdminSends, AdminDoes, AdminFails,
     AdminSucceeds
  DEF AdminUsers!Next, AdminUsers!Queries

(* What the page promises of its states.                                   *)
LEMMA AdminPromises ==
  AdminInv => AdminUsers!TypeOK /\ AdminUsers!EditsReachTheirUser /\ AdminUsers!ListAndSeatsCatchUp
<1> SUFFICES ASSUME AdminInv
             PROVE  /\ AdminUsers!TypeOK /\ AdminUsers!EditsReachTheirUser
                    /\ AdminUsers!ListAndSeatsCatchUp
  OBVIOUS
<1>1. ASSUME NEW q \in {"account", "users"} PROVE Cardinality(cache[q]) <= 1
  BY AtMostOne DEF AdminInv, QueriesOK, One
<1>2. Cardinality({s \in Slots : sent[s].kind \in {"create", "update"}}) <= 1
  <2>1. \A x, y \in {s \in Slots : sent[s].kind \in {"create", "update"}} : x = y
    BY DEF AdminInv, SentOK, Saving
  <2> QED
    BY <2>1, AtMostOne
<1>3. AdminUsers!TypeOK
  <2>1. DOMAIN cache = {"account", "users"}
    BY DEF AdminInv, QueriesOK
  <2> QED
    BY <1>1, <1>2, <2>1
    DEF AdminUsers!TypeOK, AdminInv, FormOK, SentOK, QueriesOK, AdminUsers!Values,
        AdminUsers!Queries, AdminUsers!Shut, AdminUsers!Empty, Cardinality, AdminUsers!Cardinality
<1>4. AdminUsers!EditsReachTheirUser
  BY DEF AdminUsers!EditsReachTheirUser, AdminInv, SentOK, AdminUsers!Empty
<1>5. AdminUsers!ListAndSeatsCatchUp
  BY DEF AdminUsers!ListAndSeatsCatchUp, AdminUsers!Queries, AdminUsers!NotAsked,
         AdminUsers!NoMutation, AdminInv, FreshOK, Fresh, WillAsk, AdminUsers!Reply
<1> QED
  BY <1>3, <1>4, <1>5

-----------------------------------------------------------------------------
(* CandidatesPage.  Until something blurs it, the one update in flight     *)
(* carries the list the page shows, and the server differs from that list  *)
(* by this update at most.                                                 *)
UpdateRecords ==
    [at : {"not"}]
      \cup [at : {"sent", "read", "written"}, candidate : Candidates,
            stage : CandidateList!PipelineStages, list : [Candidates -> CandidateList!PipelineStages],
            status : {"active", "blacklisted", "unread"}, lost : BOOLEAN]
Underway(s) == updates[s].at # "not"
Row == [stage : CandidateList!PipelineStages, status : {"active", "blacklisted"},
        details : {"full", "bare"}]

CandidateTypes ==
    /\ stored \in [Candidates -> Row]
    /\ candidates \subseteq [Candidates -> CandidateList!PipelineStages]
    /\ \A l, m \in candidates : l = m
    /\ isLoading \in BOOLEAN /\ error \in BOOLEAN /\ blurred \in BOOLEAN
    /\ updates \in [Slots -> UpdateRecords]
    /\ \A s \in Slots : updates[s].at = "read" => updates[s].status # "unread"
    /\ isLoading => ~error
    /\ isLoading \/ error \/ candidates = {} => \A s \in Slots : ~Underway(s)
    /\ spent \in [updates : Nat, uploads : Nat, colleagues : Nat]
FilesOK ==
    /\ target \in Candidates \cup {Nobody} /\ dialog \in Candidates \cup {Nobody}
    /\ dialog # Nobody /\ target # Nobody => target = dialog
    /\ uploads \subseteq [for : Candidates, to : Candidates]
    /\ \A u \in uploads : u.to = u.for
InStep ==
    ~blurred =>
       /\ \A s, s2 \in Slots : Underway(s) /\ Underway(s2) => s = s2
       /\ \A list \in candidates :
             /\ (\A s \in Slots : ~Underway(s)) => list = CandidateList!Stages
             /\ \A s \in Slots : Underway(s) =>
                   /\ updates[s].list = list
                   /\ CandidateList!Stages =
                         IF updates[s].at = "written"
                         THEN [list EXCEPT ![updates[s].candidate] = updates[s].stage] ELSE list
CandidateInv == CandidateTypes /\ FilesOK /\ InStep

(* The beginning.                                                          *)
LEMMA CandidateInit == CandidateList!Init => CandidateInv
<1> SUFFICES ASSUME CandidateList!Init PROVE CandidateInv
  OBVIOUS
<1>1. /\ updates \in [Slots -> UpdateRecords] /\ \A s \in Slots : updates[s].at = "not"
  BY DEF CandidateList!Init, CandidateList!NoUpdate, UpdateRecords
<1>2. stored \in [Candidates -> Row]
  BY DEF CandidateList!Init, CandidateList!PipelineStages, Row
<1>3. isLoading \in BOOLEAN /\ error \in BOOLEAN /\ blurred \in BOOLEAN /\ (isLoading => ~error)
  BY DEF CandidateList!Init
<1>4. candidates = {} /\ spent \in [updates : Nat, uploads : Nat, colleagues : Nat]
  BY DEF CandidateList!Init
<1>5. target = Nobody /\ dialog = Nobody /\ uploads = {}
  BY DEF CandidateList!Init
<1>6. CandidateTypes
  BY <1>1, <1>2, <1>3, <1>4 DEF CandidateTypes, Underway
<1>7. FilesOK
  BY <1>5 DEF FilesOK
<1>8. InStep
  BY <1>1, <1>4 DEF InStep, Underway
<1> QED
  BY <1>6, <1>7, <1>8 DEF CandidateInv

(* The list of the page is loaded; no update is in flight meanwhile.       *)
LEMMA CandidateLoads ==
  ASSUME CandidateInv, CandidateList!Fetched \/ CandidateList!FetchFails \/ CandidateList!Retry
  PROVE  CandidateInv'
<1>1. /\ UNCHANGED <<stored, updates, target, dialog, uploads, spent, blurred>>
      /\ isLoading' \in BOOLEAN /\ error' \in BOOLEAN /\ (isLoading' => ~error')
      /\ candidates' \in {candidates, {CandidateList!Stages}, {}}
      /\ isLoading \/ error
  BY DEF CandidateInv, CandidateTypes, CandidateList!Fetched, CandidateList!FetchFails,
         CandidateList!Retry, CandidateList!files
<1>2. \A s \in Slots : ~Underway(s)
  BY <1>1 DEF CandidateInv, CandidateTypes
<1>3. CandidateList!Stages \in [Candidates -> CandidateList!PipelineStages]
  BY DEF CandidateList!Stages, CandidateInv, CandidateTypes, Row
<1>4. CandidateTypes'
  BY <1>1, <1>2, <1>3 DEF CandidateInv, CandidateTypes, Underway
<1>5. FilesOK'
  BY <1>1 DEF CandidateInv, FilesOK
<1>6. InStep'
  <2>1. CandidateList!Stages' = CandidateList!Stages
    BY <1>1 DEF CandidateList!Stages
  <2> QED
    BY <1>1, <1>2, <2>1 DEF CandidateInv, InStep, Underway
<1> QED
  BY <1>4, <1>5, <1>6 DEF CandidateInv

(* The menu of a row is used: the row goes out with the list as it is.     *)
LEMMA CandidateMarks ==
  ASSUME CandidateInv, NEW c \in Candidates, NEW stage \in CandidateList!Offered,
         CandidateList!Mark(c, stage)
  PROVE  CandidateInv'
<1>1. PICK list \in CandidateList!Shown, s \in Slots \ CandidateList!Busy :
         updates' = [updates EXCEPT ![s] =
            [at |-> "sent", candidate |-> c, stage |-> stage, list |-> list,
             status |-> "unread", lost |-> FALSE]]
  BY DEF CandidateList!Mark
<1> DEFINE new == [at |-> "sent", candidate |-> c, stage |-> stage, list |-> list,
                   status |-> "unread", lost |-> FALSE]
<1> DEFINE Others == CandidateList!Busy # {}
<1>2. /\ spent' = [spent EXCEPT !.updates = @ + 1] /\ blurred' = (blurred \/ Others)
      /\ UNCHANGED <<stored, candidates, isLoading, error, target, dialog, uploads>>
  BY DEF CandidateList!Mark, CandidateList!Spend, CandidateList!page, CandidateList!files
<1>3. /\ list \in candidates /\ ~error /\ ~isLoading
      /\ list \in [Candidates -> CandidateList!PipelineStages]
  BY DEF CandidateList!Shown, CandidateInv, CandidateTypes
<1>4. CandidateList!Busy = {t \in Slots : Underway(t)} /\ ~Underway(s)
  BY DEF CandidateList!Busy, CandidateList!NoUpdate, Underway, CandidateInv, CandidateTypes,
         UpdateRecords
<1>5. new \in UpdateRecords
  <2>1. stage \in CandidateList!PipelineStages
    BY DEF CandidateList!PipelineStages
  <2> QED
    BY <1>3, <2>1 DEF UpdateRecords
<1>6. /\ new.at = "sent" /\ new.list = list /\ new.candidate = c
  OBVIOUS
<1>7. /\ updates' \in [Slots -> UpdateRecords] /\ updates'[s] = new
      /\ \A t \in Slots : t # s => updates'[t] = updates[t]
  BY <1>1, <1>5 DEF CandidateInv, CandidateTypes
<1>8. blurred \in BOOLEAN /\ Others \in BOOLEAN
  BY DEF CandidateInv, CandidateTypes
<1>9. Others <=> \E t \in Slots : Underway(t)
  BY <1>4
<1> HIDE DEF new, Others
<1>10. blurred' \in BOOLEAN /\ (~blurred' => ~blurred /\ ~Others)
  BY <1>2, <1>8
<1>11. /\ spent.updates \in Nat /\ spent' \in [updates : Nat, uploads : Nat, colleagues : Nat]
       /\ spent'.updates = spent.updates + 1 /\ spent'.colleagues = spent.colleagues
  BY <1>2 DEF CandidateInv, CandidateTypes
<1>12. CandidateTypes'
  BY <1>2, <1>3, <1>6, <1>7, <1>10, <1>11 DEF CandidateInv, CandidateTypes, Underway
<1>13. FilesOK'
  BY <1>2 DEF CandidateInv, FilesOK
<1>14. InStep'
  <2>1. CandidateList!Stages' = CandidateList!Stages
    BY <1>2 DEF CandidateList!Stages
  <2>2. \A t \in Slots : Underway(t)' => t = s \/ Underway(t)
    BY <1>7 DEF Underway
  <2>3. Underway(s)' /\ updates'[s].list = list /\ updates'[s].at = "sent"
    BY <1>6, <1>7 DEF Underway
  <2>4. \A l \in candidates : l = list
    BY <1>3 DEF CandidateInv, CandidateTypes
  <2>5. ~blurred' => list = CandidateList!Stages
    BY <1>3, <1>9, <1>10 DEF CandidateInv, InStep
  <2> QED
    BY <1>2, <1>9, <1>10, <2>1, <2>2, <2>3, <2>4, <2>5 DEF InStep
<1> QED
  BY <1>12, <1>13, <1>14 DEF CandidateInv

(* UpdateCandidate reads the status.                                       *)
LEMMA CandidateReads ==
  ASSUME CandidateInv, NEW s \in Slots, CandidateList!ReadStatus(s)
  PROVE  CandidateInv'
<1> DEFINE new == [updates[s] EXCEPT !.at = "read", !.status = stored[updates[s].candidate].status]
<1>1. updates[s].at = "sent" /\ updates[s] \in UpdateRecords
  BY DEF CandidateList!ReadStatus, CandidateInv, CandidateTypes
<1>2. /\ updates' = [updates EXCEPT ![s] = new]
      /\ UNCHANGED <<stored, candidates, isLoading, error, target, dialog, uploads, spent, blurred>>
  BY DEF CandidateList!ReadStatus, CandidateList!page, CandidateList!files
<1>3. updates[s].candidate \in Candidates
  BY <1>1 DEF UpdateRecords
<1>4. stored[updates[s].candidate].status \in {"active", "blacklisted"}
  BY <1>3 DEF CandidateInv, CandidateTypes, Row
<1>5. /\ new \in UpdateRecords /\ new.at = "read" /\ new.candidate = updates[s].candidate
      /\ new.stage = updates[s].stage /\ new.list = updates[s].list
      /\ new.status = stored[updates[s].candidate].status
  BY <1>1, <1>4 DEF UpdateRecords
<1> HIDE DEF new
<1>6. /\ updates' \in [Slots -> UpdateRecords] /\ updates'[s] = new
      /\ \A t \in Slots : t # s => updates'[t] = updates[t]
  BY <1>2, <1>5 DEF CandidateInv, CandidateTypes
<1>7. \A t \in Slots : /\ Underway(t)' = Underway(t)
                       /\ updates'[t].list = updates[t].list
                       /\ updates'[t].stage = updates[t].stage
                       /\ updates'[t].candidate = updates[t].candidate
                       /\ updates'[t].at = "written" <=> updates[t].at = "written"
  BY <1>1, <1>2, <1>5, <1>6 DEF Underway
<1>8. CandidateTypes'
  BY <1>2, <1>4, <1>5, <1>6, <1>7 DEF CandidateInv, CandidateTypes
<1>9. FilesOK'
  BY <1>2 DEF CandidateInv, FilesOK
<1>10. InStep'
  <2>1. CandidateList!Stages' = CandidateList!Stages
    BY <1>2 DEF CandidateList!Stages
  <2> QED
    BY <1>2, <1>7, <2>1 DEF CandidateInv, InStep
<1> QED
  BY <1>8, <1>9, <1>10 DEF CandidateInv

(* UpdateCandidate writes the row.                                         *)
LEMMA CandidateWrites ==
  ASSUME CandidateInv, NEW s \in Slots, CandidateList!WriteCandidate(s)
  PROVE  CandidateInv'
<1> DEFINE new == [updates[s] EXCEPT !.at = "written"]
<1> DEFINE c == updates[s].candidate
<1> DEFINE row == [stage |-> updates[s].stage, status |-> updates[s].status, details |-> "bare"]
<1>1. updates[s].at = "read" /\ updates[s] \in UpdateRecords /\ Underway(s)
  BY DEF CandidateList!WriteCandidate, CandidateInv, CandidateTypes, Underway
<1>2. /\ updates' = [updates EXCEPT ![s] = new] /\ stored' = [stored EXCEPT ![c] = row]
      /\ UNCHANGED <<candidates, isLoading, error, target, dialog, uploads, spent, blurred>>
  BY DEF CandidateList!WriteCandidate, CandidateList!page, CandidateList!files
<1>3. c \in Candidates /\ updates[s].stage \in CandidateList!PipelineStages
        /\ updates[s].status \in {"active", "blacklisted"}
  BY <1>1 DEF UpdateRecords, CandidateInv, CandidateTypes
<1>4. row \in Row /\ row.status = updates[s].status /\ row.stage = updates[s].stage
  BY <1>3 DEF Row
<1>5. /\ new \in UpdateRecords /\ new.at = "written" /\ new.candidate = updates[s].candidate
      /\ new.stage = updates[s].stage /\ new.list = updates[s].list
  BY <1>1 DEF UpdateRecords
<1>6. /\ stored' \in [Candidates -> Row] /\ stored'[c] = row
      /\ \A d \in Candidates : d # c => stored'[d] = stored[d]
  BY <1>2, <1>3, <1>4 DEF CandidateInv, CandidateTypes
<1> HIDE DEF new, row
<1>7. /\ updates' \in [Slots -> UpdateRecords] /\ updates'[s] = new
      /\ \A t \in Slots : t # s => updates'[t] = updates[t]
  BY <1>2, <1>5 DEF CandidateInv, CandidateTypes
<1>8. \A t \in Slots : /\ Underway(t)' = Underway(t)
                       /\ updates'[t].candidate = updates[t].candidate
                       /\ updates'[t].list = updates[t].list
                       /\ Underway(t) => updates[t].candidate \in Candidates
  <2>1. \A t \in Slots : updates[t] \in UpdateRecords
    BY DEF CandidateInv, CandidateTypes
  <2>2. \A t \in Slots : Underway(t) => updates[t].candidate \in Candidates
    BY <2>1 DEF UpdateRecords, Underway
  <2> QED
    BY <1>1, <1>5, <1>7, <2>2 DEF Underway
<1>9. CandidateTypes'
  BY <1>2, <1>5, <1>6, <1>7, <1>8 DEF CandidateInv, CandidateTypes
<1>10. FilesOK'
  BY <1>2 DEF CandidateInv, FilesOK
<1>11. InStep'
  <2> SUFFICES ASSUME ~blurred PROVE InStep'
    BY <1>2 DEF InStep
  <2>1. \A t \in Slots : Underway(t) => t = s
    BY <1>1 DEF CandidateInv, InStep
  <2>2. \A list \in candidates : updates[s].list = list /\ CandidateList!Stages = list
    BY <1>1 DEF CandidateInv, InStep
  <2>3. CandidateList!Stages' = [CandidateList!Stages EXCEPT ![c] = updates[s].stage]
    BY <1>3, <1>4, <1>6 DEF CandidateList!Stages
  <2>4. updates'[s].at = "written" /\ updates'[s].stage = updates[s].stage
          /\ updates'[s].candidate = c /\ updates'[s].list = updates[s].list
    BY <1>5, <1>7
  <2>5. \A list \in candidates : CandidateList!Stages' =
           [list EXCEPT ![updates'[s].candidate] = updates'[s].stage]
    BY <2>2, <2>3, <2>4
  <2> QED
    BY <1>1, <1>2, <1>8, <2>1, <2>2, <2>4, <2>5 DEF CandidateInv, InStep
<1> QED
  BY <1>9, <1>10, <1>11 DEF CandidateInv

(* The connection of an update is lost, and the server goes on with it.    *)
LEMMA CandidateLost ==
  ASSUME CandidateInv, NEW s \in Slots, CandidateList!ConnectionLost(s)
  PROVE  CandidateInv'
<1> DEFINE new == [updates[s] EXCEPT !.lost = TRUE]
<1>1. updates[s].at \in {"sent", "read"} /\ updates[s] \in UpdateRecords
  BY DEF CandidateList!ConnectionLost, CandidateInv, CandidateTypes
<1>2. /\ updates' = [updates EXCEPT ![s] = new] /\ blurred' = TRUE
      /\ UNCHANGED <<stored, candidates, isLoading, error, target, dialog, uploads, spent>>
  BY DEF CandidateList!ConnectionLost, CandidateList!page, CandidateList!files
<1>3. new \in UpdateRecords /\ new.at = updates[s].at /\ new.status = updates[s].status
  BY <1>1 DEF UpdateRecords
<1> HIDE DEF new
<1>4. /\ updates' \in [Slots -> UpdateRecords]
      /\ \A t \in Slots : updates'[t].at = updates[t].at /\ updates'[t].status = updates[t].status
  BY <1>2, <1>3 DEF CandidateInv, CandidateTypes
<1>5. blurred' \in BOOLEAN
  BY <1>2
<1>6. CandidateTypes'
  BY <1>2, <1>4, <1>5 DEF CandidateInv, CandidateTypes, Underway
<1>7. FilesOK' /\ InStep'
  BY <1>2 DEF CandidateInv, FilesOK, InStep
<1> QED
  BY <1>6, <1>7 DEF CandidateInv

(* An update has ended, well or not.                                       *)
LEMMA CandidateEnds ==
  ASSUME CandidateInv, NEW s \in Slots,
         CandidateList!Updated(s) \/ CandidateList!UpdateFails(s)
  PROVE  CandidateInv'
<1> DEFINE Done == updates[s].at = "written"
<1> DEFINE shown == [updates[s].list EXCEPT ![updates[s].candidate] = updates[s].stage]
<1>1. updates[s] \in UpdateRecords /\ Underway(s)
  BY DEF CandidateList!Updated, CandidateList!UpdateFails, CandidateList!NoUpdate, CandidateInv,
         CandidateTypes, Underway, UpdateRecords
<1>2. /\ updates' = [updates EXCEPT ![s] = [at |-> "not"]]
      /\ \/ Done /\ candidates' = {shown} /\ blurred' = blurred
         \/ candidates' = candidates /\ blurred' = (blurred \/ Done)
      /\ UNCHANGED <<stored, isLoading, error, target, dialog, uploads, spent>>
  BY DEF CandidateList!Updated, CandidateList!UpdateFails, CandidateList!NoUpdate,
         CandidateList!page, CandidateList!files
<1>3. shown \in [Candidates -> CandidateList!PipelineStages]
  BY <1>1 DEF UpdateRecords, Underway
<1>4. blurred \in BOOLEAN /\ Done \in BOOLEAN
  BY DEF CandidateInv, CandidateTypes
<1> HIDE DEF Done, shown
<1>5. blurred' \in BOOLEAN
  BY <1>2, <1>4
<1>6. ~blurred' => ~blurred /\ \/ Done /\ candidates' = {shown}
                               \/ ~Done /\ candidates' = candidates
  BY <1>2, <1>4
<1>7. [at |-> "not"] \in UpdateRecords
  BY DEF UpdateRecords
<1>8. /\ updates' \in [Slots -> UpdateRecords] /\ updates'[s].at = "not"
      /\ \A t \in Slots : t # s => updates'[t] = updates[t]
  BY <1>2, <1>7 DEF CandidateInv, CandidateTypes
<1>9. \A t \in Slots : Underway(t)' => t # s /\ Underway(t)
  BY <1>8 DEF Underway
<1>10. CandidateTypes'
  BY <1>1, <1>2, <1>3, <1>5, <1>8, <1>9 DEF CandidateInv, CandidateTypes
<1>11. FilesOK'
  BY <1>2 DEF CandidateInv, FilesOK
<1>12. InStep'
  <2> SUFFICES ASSUME ~blurred' PROVE InStep'
    BY DEF InStep
  <2>1. \A t \in Slots : ~Underway(t)'
    BY <1>1, <1>6, <1>9 DEF CandidateInv, InStep
  <2>2. CandidateList!Stages' = CandidateList!Stages
    BY <1>2 DEF CandidateList!Stages
  <2>3. \A list \in candidates : /\ updates[s].list = list
                                 /\ CandidateList!Stages = IF Done THEN shown ELSE list
    BY <1>1, <1>6 DEF CandidateInv, InStep, Done, shown
  <2>4. candidates # {}
    BY <1>1 DEF CandidateInv, CandidateTypes
  <2>5. \A list \in candidates' : list = CandidateList!Stages
    BY <1>6, <2>3, <2>4
  <2> QED
    BY <2>1, <2>2, <2>5 DEF InStep
<1> QED
  BY <1>10, <1>11, <1>12 DEF CandidateInv

(* A colleague changes a row.                                              *)
LEMMA CandidateColleague ==
  ASSUME CandidateInv, NEW c \in Candidates, CandidateList!Colleague(c)
  PROVE  CandidateInv'
<1>1. /\ spent.colleagues < 1 /\ spent' = [spent EXCEPT !.colleagues = @ + 1]
      /\ UNCHANGED <<candidates, isLoading, error, target, dialog, uploads, updates>>
  BY DEF CandidateList!Colleague, CandidateList!Spend, CandidateList!page, CandidateList!files
<1>2. /\ spent.colleagues = 0 /\ spent' \in [updates : Nat, uploads : Nat, colleagues : Nat]
      /\ spent'.updates = spent.updates /\ spent'.colleagues = 1
  BY <1>1 DEF CandidateInv, CandidateTypes
<1>3. \/ stored' = [stored EXCEPT ![c].status = "blacklisted"] /\ blurred' = blurred
      \/ stored' = [stored EXCEPT ![c].stage = "interview"] /\ blurred' = TRUE
  BY DEF CandidateList!Colleague
<1>4. stored' \in [Candidates -> Row]
  BY <1>3 DEF CandidateInv, CandidateTypes, Row, CandidateList!PipelineStages, CandidateList!Offered
<1>5. blurred' \in BOOLEAN
  BY <1>3 DEF CandidateInv, CandidateTypes
<1>6. CandidateTypes'
  BY <1>1, <1>2, <1>4, <1>5 DEF CandidateInv, CandidateTypes, Underway
<1>7. FilesOK'
  BY <1>1 DEF CandidateInv, FilesOK
<1>8. InStep'
  <2> SUFFICES ASSUME ~blurred' PROVE InStep'
    BY DEF InStep
  <2>1. ~blurred /\ stored' = [stored EXCEPT ![c].status = "blacklisted"]
    BY <1>3
  <2>2. CandidateList!Stages' = CandidateList!Stages
    BY <2>1 DEF CandidateList!Stages, CandidateInv, CandidateTypes, Row
  <2> QED
    BY <1>1, <2>1, <2>2 DEF CandidateInv, InStep, Underway
<1> QED
  BY <1>6, <1>7, <1>8 DEF CandidateInv

(* The file dialog and the uploads: while the dialog is open, the note is  *)
(* for its candidate or cleared.                                           *)
LEMMA CandidateUploads ==
  ASSUME CandidateInv,
         \/ \E c \in Candidates : CandidateList!TriggerUpload(c)
         \/ CandidateList!DialogCancelled \/ CandidateList!FileSelected
         \/ \E u \in uploads : CandidateList!UploadEnds(u)
  PROVE  CandidateInv'
<1>1. UNCHANGED <<stored, candidates, isLoading, error, updates, blurred>>
  BY DEF CandidateList!TriggerUpload, CandidateList!DialogCancelled, CandidateList!FileSelected,
         CandidateList!UploadEnds, CandidateList!page
<1>2. /\ spent' \in [updates : Nat, uploads : Nat, colleagues : Nat]
      /\ spent'.updates = spent.updates /\ spent'.colleagues = spent.colleagues
  <2>1. spent' = spent \/ spent' = [spent EXCEPT !.uploads = @ + 1]
    BY DEF CandidateList!TriggerUpload, CandidateList!DialogCancelled, CandidateList!FileSelected,
           CandidateList!UploadEnds, CandidateList!Spend
  <2> QED
    BY <2>1 DEF CandidateInv, CandidateTypes
<1>3. CandidateTypes'
  BY <1>1, <1>2 DEF CandidateInv, CandidateTypes, Underway
<1>4. InStep'
  <2>1. CandidateList!Stages' = CandidateList!Stages
    BY <1>1 DEF CandidateList!Stages
  <2> QED
    BY <1>1, <2>1 DEF CandidateInv, InStep, Underway
<1>5. FilesOK'
  <2>1. ASSUME NEW c \in Candidates, CandidateList!TriggerUpload(c) PROVE FilesOK'
    BY <2>1 DEF CandidateList!TriggerUpload, CandidateInv, FilesOK
  <2>2. CASE CandidateList!DialogCancelled
    BY <2>2 DEF CandidateList!DialogCancelled, CandidateInv, FilesOK
  <2>3. CASE CandidateList!FileSelected
    <3>1. /\ dialog # Nobody /\ dialog' = Nobody /\ target' = target
          /\ uploads' = IF target = Nobody THEN uploads
                        ELSE uploads \cup {[for |-> dialog, to |-> target]}
      BY <2>3 DEF CandidateList!FileSelected
    <3>2. target # Nobody => target = dialog /\ dialog \in Candidates
      BY <3>1 DEF CandidateInv, FilesOK
    <3> QED
      BY <3>1, <3>2 DEF CandidateInv, FilesOK
  <2>4. ASSUME NEW u \in uploads, CandidateList!UploadEnds(u) PROVE FilesOK'
    BY <2>4 DEF CandidateList!UploadEnds, CandidateInv, FilesOK
  <2> QED
    BY <2>1, <2>2, <2>3, <2>4
<1> QED
  BY <1>3, <1>4, <1>5 DEF CandidateInv

(* Every step of the candidates page keeps its invariant.                  *)
LEMMA CandidateStep ==
  CandidateInv /\ [CandidateList!Next]_(CandidateList!vars) => CandidateInv'
<1>1. ASSUME CandidateInv, UNCHANGED CandidateList!vars PROVE CandidateInv'
  <2>1. UNCHANGED <<stored, candidates, isLoading, error, updates, target, dialog, uploads, spent,
                    blurred>>
    BY <1>1 DEF CandidateList!vars
  <2>2. CandidateList!Stages' = CandidateList!Stages
    BY <2>1 DEF CandidateList!Stages
  <2>3. CandidateTypes' /\ FilesOK'
    BY <1>1, <2>1 DEF CandidateInv, CandidateTypes, FilesOK, Underway
  <2>4. InStep'
    BY <1>1, <2>1, <2>2 DEF CandidateInv, InStep, Underway
  <2> QED
    BY <2>3, <2>4 DEF CandidateInv
<1> QED
  BY <1>1, CandidateLoads, CandidateMarks, CandidateReads, CandidateWrites, CandidateLost,
     CandidateEnds, CandidateColleague, CandidateUploads
  DEF CandidateList!Next

(* What the page promises of its states.                                   *)
LEMMA CandidatePromises ==
  CandidateInv => /\ CandidateList!TypeOK /\ CandidateList!StagesInStep
                  /\ CandidateList!FilesReachTheirCandidate
<1> SUFFICES ASSUME CandidateInv
             PROVE  /\ CandidateList!TypeOK /\ CandidateList!StagesInStep
                    /\ CandidateList!FilesReachTheirCandidate
  OBVIOUS
<1>1. Cardinality(candidates) <= 1
  BY AtMostOne DEF CandidateInv, CandidateTypes
<1>2. \A s \in Slots : updates[s] = [at |-> "not"] <=> ~Underway(s)
  BY DEF CandidateInv, CandidateTypes, UpdateRecords, Underway
<1>3. CandidateList!TypeOK
  BY <1>1, <1>2
  DEF CandidateList!TypeOK, CandidateInv, CandidateTypes, FilesOK, Row, CandidateList!Statuses,
      CandidateList!Details, CandidateList!Lists, CandidateList!NoUpdate, Cardinality,
      CandidateList!Cardinality
<1>4. CandidateList!StagesInStep
  BY <1>2 DEF CandidateList!StagesInStep, CandidateList!Busy, CandidateList!NoUpdate,
              CandidateList!Shown, CandidateInv, InStep
<1>5. CandidateList!FilesReachTheirCandidate
  BY DEF CandidateList!FilesReachTheirCandidate, CandidateInv, FilesOK
<1> QED
  BY <1>3, <1>4, <1>5

-----------------------------------------------------------------------------
(* InterviewPage.  Until somebody changes the interview unseen, the copy   *)
(* is right, or asked for again, or will be once an update is answered.    *)
Puts == [at : {"not"}] \cup [at : {"sent", "written"}, body : InterviewDetails!Interviews]
InterviewInv ==
    /\ interview \in InterviewDetails!Interviews
    /\ data \subseteq InterviewDetails!Interviews /\ \A c, d \in data : c = d
    /\ isError \in BOOLEAN /\ unseen \in BOOLEAN /\ count \in 0 .. MaxPuts
    /\ asking \in [at : {"not", "asked"}] \cup [at : {"served"}, reply : InterviewDetails!Interviews]
    /\ puts \in [Slots -> Puts]
    /\ \A s \in Slots : puts[s].at # "not" => data # {}
    /\ ~unseen => \/ asking.at = "asked"
                  \/ asking.at = "served" /\ asking.reply = interview
                  \/ asking.at = "not" /\ (isError \/ \A copy \in data : copy = interview)
                  \/ \E s \in Slots : puts[s].at = "written"

(* The beginning.                                                          *)
LEMMA InterviewInit == InterviewDetails!Init => InterviewInv
<1> SUFFICES ASSUME InterviewDetails!Init PROVE InterviewInv
  OBVIOUS
<1> USE DEF InterviewDetails!Init, InterviewDetails!NoPut, InterviewDetails!Asked
<1>1. isError \in BOOLEAN /\ unseen \in BOOLEAN
  OBVIOUS
<1>2. count \in 0 .. MaxPuts
  BY CountsAssumption
<1>3. interview \in InterviewDetails!Interviews
  BY DEF InterviewDetails!Interviews
<1>4. puts \in [Slots -> Puts] /\ \A s \in Slots : puts[s].at = "not"
  BY DEF Puts
<1>5. data = {} /\ asking.at = "asked" /\ asking \in [at : {"not", "asked"}]
  OBVIOUS
<1> QED
  BY <1>1, <1>2, <1>3, <1>4, <1>5 DEF InterviewInv

(* The query of the page.                                                  *)
LEMMA InterviewReads ==
  ASSUME InterviewInv,
         \/ InterviewDetails!Served \/ InterviewDetails!Arrives
         \/ InterviewDetails!FetchFails \/ InterviewDetails!Refocus
  PROVE  InterviewInv'
<1> USE DEF InterviewInv
<1>1. CASE InterviewDetails!Served
  BY <1>1 DEF InterviewDetails!Served, InterviewDetails!Asked
<1>2. CASE InterviewDetails!Arrives
  <2>1. asking.reply \in InterviewDetails!Interviews
    BY <1>2 DEF InterviewDetails!Arrives
  <2> QED
    BY <1>2, <2>1 DEF InterviewDetails!Arrives, InterviewDetails!NotAsked
<1>3. CASE InterviewDetails!FetchFails
  BY <1>3 DEF InterviewDetails!FetchFails, InterviewDetails!NotAsked
<1>4. CASE InterviewDetails!Refocus
  BY <1>4 DEF InterviewDetails!Refocus, InterviewDetails!Asked
<1> QED
  BY <1>1, <1>2, <1>3, <1>4

(* A click sends the copy with another status.                             *)
LEMMA InterviewClick ==
  ASSUME InterviewInv, NEW s \in {"completed", "cancelled"}, InterviewDetails!Click(s)
  PROVE  InterviewInv'
<1>1. MaxPuts \in Nat
  BY CountsAssumption
<1> PICK copy \in InterviewDetails!Shown, t \in Slots :
       /\ puts[t] = InterviewDetails!NoPut
       /\ puts' = [puts EXCEPT ![t] = [at |-> "sent", body |-> [copy EXCEPT !.status = s]]]
  BY DEF InterviewDetails!Click
<1> DEFINE body == [copy EXCEPT !.status = s]
<1>2. copy \in InterviewDetails!Interviews /\ data # {}
  BY DEF InterviewDetails!Shown, InterviewInv
<1>3. body \in InterviewDetails!Interviews
  BY <1>2 DEF InterviewDetails!Interviews
<1> HIDE DEF body
<1>4. [at |-> "sent", body |-> body] \in Puts
  BY <1>2, <1>3 DEF Puts
<1>5. count' \in 0 .. MaxPuts /\ UNCHANGED <<interview, data, asking, isError, unseen>>
  BY <1>1 DEF InterviewDetails!Click, InterviewInv
<1>6. /\ puts' \in [Slots -> Puts]
      /\ puts'[t] = [at |-> "sent", body |-> body]
      /\ \A u \in Slots : u # t => puts'[u] = puts[u]
      /\ puts[t].at = "not"
  BY <1>4 DEF InterviewInv, InterviewDetails!NoPut, body
<1>7. \A u \in Slots : puts'[u].at # "not" => data' # {}
  BY <1>2, <1>5
<1>8. \A u \in Slots : puts[u].at = "written" => puts'[u].at = "written"
  BY <1>6
<1> QED
  BY <1>5, <1>6, <1>7, <1>8 DEF InterviewInv

(* The handler writes the body, and the page hears of it or does not.      *)
LEMMA InterviewWrites ==
  ASSUME InterviewInv, NEW s \in Slots,
         \/ InterviewDetails!UpdateInterview(s) \/ InterviewDetails!Updated(s)
         \/ InterviewDetails!UpdateFails(s)
  PROVE  InterviewInv'
<1>1. puts[s] \in Puts
  BY DEF InterviewInv
<1>2. CASE InterviewDetails!UpdateInterview(s)
  <2> DEFINE put == [puts[s] EXCEPT !.at = "written"]
  <2>1. /\ puts[s].at = "sent" /\ interview' = puts[s].body /\ puts' = [puts EXCEPT ![s] = put]
        /\ UNCHANGED <<data, asking, isError, count, unseen>>
    BY <1>2 DEF InterviewDetails!UpdateInterview
  <2>2. put \in Puts /\ put.at = "written" /\ put.body = puts[s].body
    BY <1>1, <2>1 DEF Puts
  <2>3. puts[s].body \in InterviewDetails!Interviews
    BY <1>1, <2>1 DEF Puts
  <2> HIDE DEF put
  <2>4. /\ puts' \in [Slots -> Puts] /\ puts'[s] = put
        /\ \A u \in Slots : u # s => puts'[u] = puts[u]
    BY <2>1, <2>2 DEF InterviewInv
  <2> QED
    BY <2>1, <2>2, <2>3, <2>4 DEF InterviewInv
<1>3. CASE InterviewDetails!Updated(s) \/ InterviewDetails!UpdateFails(s)
  <2>1. /\ puts' = [puts EXCEPT ![s] = [at |-> "not"]]
        /\ UNCHANGED <<interview, data, isError, count>>
        /\ \/ asking' = [at |-> "asked"] /\ UNCHANGED unseen
           \/ /\ UNCHANGED asking
              /\ unseen' = (unseen \/ puts[s].at = "written")
    BY <1>3 DEF InterviewDetails!Updated, InterviewDetails!UpdateFails, InterviewDetails!NoPut,
                InterviewDetails!Asked
  <2>2. [at |-> "not"] \in Puts
    BY DEF Puts
  <2>3. /\ puts' \in [Slots -> Puts] /\ puts'[s].at = "not"
        /\ \A u \in Slots : u # s => puts'[u] = puts[u]
    BY <2>1, <2>2 DEF InterviewInv
  <2> DEFINE Written == puts[s].at = "written"
  <2>4. unseen \in BOOLEAN /\ Written \in BOOLEAN
    BY DEF InterviewInv
  <2>5. \/ asking' = [at |-> "asked"] /\ unseen' = unseen
        \/ asking' = asking /\ unseen' = (unseen \/ Written)
    BY <2>1
  <2> HIDE DEF Written
  <2>6. unseen' \in BOOLEAN
    BY <2>4, <2>5
  <2>7. ~unseen' => (asking' = [at |-> "asked"]) \/ (asking' = asking /\ ~unseen /\ ~Written)
    BY <2>4, <2>5
  <2>8. asking' \in [at : {"not", "asked"}] \cup
           [at : {"served"}, reply : InterviewDetails!Interviews]
    <3>1. asking' = [at |-> "asked"] \/ asking' = asking
      BY <2>5
    <3> QED
      BY <3>1 DEF InterviewInv
  <2>9. ~unseen' => (asking'.at = "asked") \/ (asking' = asking /\ ~unseen /\ puts[s].at # "written")
    BY <2>7 DEF Written
  <2> QED
    BY <2>1, <2>3, <2>6, <2>8, <2>9 DEF InterviewInv
<1> QED
  BY <1>2, <1>3

(* Every step of the interview's page keeps its invariant.                 *)
LEMMA InterviewStep ==
  InterviewInv /\ [InterviewDetails!Next]_(InterviewDetails!vars) => InterviewInv'
<1>1. ASSUME InterviewInv, UNCHANGED InterviewDetails!vars PROVE InterviewInv'
  BY <1>1 DEF InterviewDetails!vars, InterviewInv
<1>2. ASSUME InterviewInv, InterviewDetails!Colleague PROVE InterviewInv'
  <2>1. interview' \in InterviewDetails!Interviews
    BY <1>2 DEF InterviewDetails!Colleague, InterviewDetails!Interviews, InterviewInv
  <2> QED
    BY <1>2, <2>1 DEF InterviewDetails!Colleague, InterviewInv
<1> QED
  BY <1>1, <1>2, InterviewReads, InterviewClick, InterviewWrites DEF InterviewDetails!Next

(* What the page promises of its states.                                   *)
LEMMA InterviewTypes == InterviewInv => InterviewDetails!TypeOK
<1> SUFFICES ASSUME InterviewInv PROVE InterviewDetails!TypeOK
  OBVIOUS
<1>1. Cardinality(data) <= 1
  BY AtMostOne DEF InterviewInv
<1>2. data = {} => \A s \in Slots : puts[s] = InterviewDetails!NoPut
  BY DEF InterviewInv, Puts, InterviewDetails!NoPut
<1> QED
  BY <1>1, <1>2 DEF InterviewDetails!TypeOK, InterviewInv, Cardinality, InterviewDetails!Cardinality

(* After the last answer the page shows the interview the server has.      *)
LEMMA InterviewCatchesUp == InterviewInv => InterviewDetails!DetailsCatchUp
  BY DEF InterviewInv, InterviewDetails!DetailsCatchUp, InterviewDetails!NotAsked,
     InterviewDetails!NoPut, InterviewDetails!Shown

-----------------------------------------------------------------------------
(* BillingPage.  Every load is the page's own or that of one creation; and *)
(* unless loads overlapped or a colleague was at work, a load brings, and  *)
(* the page has, the pairs that have joined, and what it does not know to  *)
(* be billed is what creations have billed whose load is still to come.    *)
LoadRecords ==
    [at : {"not"}] \cup [at : {"asked"}, by : Slots \cup {"mount"}]
      \cup [at : {"served"}, by : Slots \cup {"mount"}, rows : SUBSET Pairs,
           billed : SUBSET Pairs]
CreateRecords == [at : {"not"}] \cup [at : {"sent", "billed", "loading"}, pair : Pairs]
Flying(i) == loads[i].at # "not"
ToLoad == {p \in Pairs : \E s \in Slots : creates[s].at = "billed" /\ creates[s].pair = p}

BillingTypes ==
    /\ joined \subseteq Pairs /\ billed \subseteq Pairs /\ amounts \subseteq Pairs
    /\ listed \subseteq Pairs /\ items \subseteq billed \cap listed
    /\ loading \in BOOLEAN /\ overlapped \in BOOLEAN /\ missed \in BOOLEAN
    /\ creatingKey \in Pairs \cup {NoPair} /\ clicks \in 0 .. MaxClicks
    /\ loads \in [Loads -> LoadRecords] /\ creates \in [Slots -> CreateRecords]
LoadsOK ==
    /\ \A i \in Loads : Flying(i) /\ loads[i].by # "mount" => creates[loads[i].by].at = "loading"
    /\ \A i, j \in Loads : Flying(i) /\ Flying(j) /\ loads[i].by = loads[j].by => i = j
    /\ \A i \in Loads : loads[i].at = "served" => loads[i].billed \subseteq billed \cap loads[i].rows
    /\ ~overlapped => \A i, j \in Loads : Flying(i) /\ Flying(j) => i = j
    /\ ~overlapped /\ ~missed =>
          /\ \A i \in Loads : loads[i].at = "served" =>
                loads[i].rows = joined /\ joined \cap billed \subseteq loads[i].billed \cup ToLoad
          /\ (\A i \in Loads : ~Flying(i)) =>
                listed = joined /\ joined \cap billed \subseteq items \cup ToLoad
WaitsOK ==
    /\ loading => \E i \in Loads : Flying(i)
    /\ creatingKey # NoPair =>
          \E s \in Slots : creates[s].at # "not" /\ creates[s].pair = creatingKey
BillingInv == BillingTypes /\ LoadsOK /\ WaitsOK

(* The beginning: the page loads its worklist.                             *)
LEMMA BillingInit == Billing!Init => BillingInv
<1> SUFFICES ASSUME Billing!Init PROVE BillingInv
  OBVIOUS
<1> DEFINE first == CHOOSE j \in Loads : TRUE
<1>1. first \in Loads
  BY InFlightAssumption
<1>2. loads = [i \in Loads |-> IF i = first THEN [at |-> "asked", by |-> "mount"] ELSE [at |-> "not"]]
  BY DEF Billing!Init, Billing!NoLoad
<1> HIDE DEF first
<1>3. creates = [s \in Slots |-> [at |-> "not"]]
  BY DEF Billing!Init, Billing!NoCreate
<1>4. /\ loads \in [Loads -> LoadRecords] /\ creates \in [Slots -> CreateRecords]
      /\ loads[first].at = "asked" /\ loads[first].by = "mount"
      /\ \A i \in Loads : i # first => loads[i].at = "not"
  BY <1>1, <1>2, <1>3 DEF LoadRecords, CreateRecords
<1>5. BillingTypes
  <2>1. loading \in BOOLEAN /\ overlapped \in BOOLEAN /\ missed \in BOOLEAN
    BY DEF Billing!Init
  <2>2. clicks \in 0 .. MaxClicks
    BY CountsAssumption DEF Billing!Init
  <2>3. joined \subseteq Pairs /\ billed \subseteq Pairs /\ listed \subseteq Pairs
          /\ items \subseteq billed \cap listed /\ amounts \subseteq Pairs
          /\ creatingKey \in Pairs \cup {NoPair}
    BY DEF Billing!Init
  <2> QED
    BY <1>4, <2>1, <2>2, <2>3 DEF BillingTypes
<1>6. LoadsOK
  BY <1>1, <1>4 DEF LoadsOK, Flying
<1>7. WaitsOK
  BY <1>1, <1>4 DEF WaitsOK, Flying, Billing!Init
<1> QED
  BY <1>5, <1>6, <1>7 DEF BillingInv

(* The server answers a load with what has joined and what is billed.      *)
LEMMA BillingServes ==
  ASSUME BillingInv, NEW i \in Loads, Billing!ServeWorklist(i)
  PROVE  BillingInv'
<1> DEFINE load == [at |-> "served", by |-> loads[i].by, rows |-> joined,
                    billed |-> joined \cap billed]
<1>1. /\ loads[i].at = "asked" /\ loads' = [loads EXCEPT ![i] = load]
      /\ UNCHANGED <<joined, billed, items, listed, loading, creatingKey, amounts, creates, clicks,
                     overlapped, missed>>
  BY DEF Billing!ServeWorklist, Billing!page, Billing!server
<1>2. loads[i].by \in Slots \cup {"mount"}
  <2>1. loads[i] \in LoadRecords
    BY DEF BillingInv, BillingTypes
  <2> QED
    BY <1>1, <2>1 DEF LoadRecords
<1>3. load \in LoadRecords
  BY <1>2 DEF LoadRecords, BillingInv, BillingTypes
<1>4. /\ loads' \in [Loads -> LoadRecords]
      /\ \A j \in Loads : /\ j # i => loads'[j] = loads[j]
                          /\ Flying(j)' = Flying(j)
                          /\ Flying(j) => loads'[j].by = loads[j].by
      /\ loads'[i].at = "served" /\ loads'[i].rows = joined /\ loads'[i].billed = joined \cap billed
  BY <1>1, <1>3 DEF BillingInv, BillingTypes, Flying
<1>5. BillingTypes' /\ WaitsOK'
  BY <1>1, <1>4 DEF BillingInv, BillingTypes, WaitsOK
<1>6. LoadsOK'
  BY <1>1, <1>4 DEF BillingInv, BillingTypes, LoadsOK, ToLoad
<1> QED
  BY <1>5, <1>6 DEF BillingInv

(* A load ends, and with it the creation it belongs to.                    *)
LEMMA BillingEnds ==
  ASSUME BillingInv, NEW i \in Loads, Flying(i), Billing!LoadEnds(i)
  PROVE  /\ loads' \in [Loads -> LoadRecords] /\ creates' \in [Slots -> CreateRecords]
         /\ creatingKey' \in Pairs \cup {NoPair} /\ loading' = FALSE
         /\ ~Flying(i)'
         /\ \A j \in Loads : j # i => loads'[j] = loads[j]
         /\ \A s \in Slots : creates'[s] = creates[s] \/ (s = loads[i].by /\ loads[i].by # "mount")
         /\ ToLoad' = ToLoad
         /\ WaitsOK'
         /\ \A j \in Loads : Flying(j)' /\ loads'[j].by # "mount" =>
               creates'[loads'[j].by].at = "loading"
         /\ UNCHANGED <<joined, billed, amounts, clicks, overlapped>>
<1>1. /\ loading' = FALSE /\ loads' = [loads EXCEPT ![i] = [at |-> "not"]]
      /\ UNCHANGED <<joined, billed, amounts, clicks, overlapped>>
      /\ loads[i].by = "mount" => UNCHANGED <<creates, creatingKey>>
      /\ loads[i].by # "mount" =>
            creates' = [creates EXCEPT ![loads[i].by] = [at |-> "not"]] /\ creatingKey' = NoPair
  BY DEF Billing!LoadEnds, Billing!NoLoad, Billing!NoCreate, Billing!server
<1>2. loads[i].by \in Slots \cup {"mount"}
  <2>1. loads[i] \in LoadRecords
    BY DEF BillingInv, BillingTypes
  <2> QED
    BY <2>1 DEF LoadRecords, Flying
<1>3. [at |-> "not"] \in LoadRecords /\ [at |-> "not"] \in CreateRecords
  BY DEF LoadRecords, CreateRecords
<1>4. /\ loads' \in [Loads -> LoadRecords] /\ ~Flying(i)'
      /\ \A j \in Loads : j # i => loads'[j] = loads[j]
  BY <1>1, <1>3 DEF BillingInv, BillingTypes, Flying
<1>5. /\ creates' \in [Slots -> CreateRecords] /\ creatingKey' \in Pairs \cup {NoPair}
      /\ \A s \in Slots : creates'[s] = creates[s] \/ (s = loads[i].by /\ loads[i].by # "mount")
  BY <1>1, <1>2, <1>3 DEF BillingInv, BillingTypes
<1>6. \A s \in Slots : s = loads[i].by /\ loads[i].by # "mount" =>
         creates[s].at = "loading" /\ creates'[s].at = "not"
  BY <1>1, <1>2 DEF BillingInv, BillingTypes, LoadsOK
<1>7. ToLoad' = ToLoad
  BY <1>5, <1>6 DEF ToLoad
<1>8. WaitsOK'
  <2>1. CASE loads[i].by = "mount"
    BY <1>1, <2>1 DEF BillingInv, WaitsOK
  <2>2. CASE loads[i].by # "mount"
    BY <1>1, <2>2 DEF WaitsOK
  <2> QED
    BY <2>1, <2>2
<1>9. ASSUME NEW j \in Loads, Flying(j)', loads'[j].by # "mount"
      PROVE  creates'[loads'[j].by].at = "loading"
  <2>1. j # i /\ loads'[j] = loads[j] /\ Flying(j)
    BY <1>4, <1>9 DEF Flying
  <2>2. loads[j].by \in Slots
    <3>1. loads[j] \in LoadRecords
      BY DEF BillingInv, BillingTypes
    <3> QED
      BY <1>9, <2>1, <3>1 DEF LoadRecords, Flying
  <2>3. loads[j].by # loads[i].by
    BY <2>1 DEF BillingInv, LoadsOK
  <2> QED
    BY <1>5, <1>9, <2>1, <2>2, <2>3 DEF BillingInv, LoadsOK
<1> QED
  BY <1>1, <1>4, <1>5, <1>7, <1>8, <1>9

(* The worklist arrives.                                                   *)
LEMMA BillingLoaded ==
  ASSUME BillingInv, NEW i \in Loads, Billing!Loaded(i)
  PROVE  BillingInv'
<1>1. /\ loads[i].at = "served" /\ listed' = loads[i].rows /\ items' = loads[i].billed
      /\ Billing!LoadEnds(i) /\ UNCHANGED missed /\ Flying(i)
  BY DEF Billing!Loaded, Flying
<1>2. /\ loads[i].billed \subseteq billed \cap loads[i].rows /\ loads[i].rows \subseteq Pairs
      /\ ~overlapped /\ ~missed =>
            loads[i].rows = joined /\ joined \cap billed \subseteq loads[i].billed \cup ToLoad
  <2>1. loads[i] \in LoadRecords
    BY DEF BillingInv, BillingTypes
  <2> QED
    BY <1>1, <2>1 DEF BillingInv, LoadsOK, LoadRecords
<1>3. BillingTypes'
  <2>1. loading' \in BOOLEAN
    BY <1>1, BillingEnds
  <2> QED
    BY <1>1, <1>2, <2>1, BillingEnds DEF BillingInv, BillingTypes
<1>4. LoadsOK'
  <2> DEFINE Rest == \A j \in Loads : j # i => ~Flying(j)
  <2>1. ~overlapped => Rest
    BY <1>1 DEF BillingInv, LoadsOK
  <2>2. \A j \in Loads : Flying(j)' => j # i /\ Flying(j) /\ loads'[j] = loads[j]
    BY <1>1, BillingEnds DEF Flying
  <2>3. \A j \in Loads : loads'[j].at = "served" => Flying(j)'
    BY DEF Flying
  <2>4. UNCHANGED <<joined, billed, overlapped, missed>> /\ ToLoad' = ToLoad
    BY <1>1, BillingEnds
  <2>5. \A j \in Loads : Flying(j)' /\ loads'[j].by # "mount" => creates'[loads'[j].by].at = "loading"
    BY <1>1, BillingEnds
  <2> QED
    BY <1>1, <1>2, <2>1, <2>2, <2>3, <2>4, <2>5 DEF BillingInv, LoadsOK
<1> QED
  BY <1>1, <1>2, <1>3, <1>4, BillingEnds DEF BillingInv

(* The load is lost.                                                       *)
LEMMA BillingLoadFails ==
  ASSUME BillingInv, NEW i \in Loads, Billing!LoadFails(i)
  PROVE  BillingInv'
<1>1. /\ Flying(i) /\ Billing!LoadEnds(i) /\ missed' = TRUE /\ UNCHANGED <<items, listed>>
  <2>1. DOMAIN loads = Loads
    BY DEF BillingInv, BillingTypes
  <2> QED
    BY <2>1 DEF Billing!LoadFails, Billing!InFlight, Flying
<1>2. BillingTypes'
  <2>1. missed' \in BOOLEAN /\ loading' \in BOOLEAN
    BY <1>1, BillingEnds
  <2> QED
    BY <1>1, <2>1, BillingEnds DEF BillingInv, BillingTypes
<1>3. LoadsOK'
  <2>1. \A j \in Loads : Flying(j)' => j # i /\ Flying(j) /\ loads'[j] = loads[j]
    BY <1>1, BillingEnds DEF Flying
  <2>2. \A j \in Loads : loads'[j].at = "served" => Flying(j)'
    BY DEF Flying
  <2>3. UNCHANGED <<billed, overlapped>> /\ missed'
    BY <1>1, BillingEnds
  <2>4. \A j \in Loads : Flying(j)' /\ loads'[j].by # "mount" => creates'[loads'[j].by].at = "loading"
    BY <1>1, BillingEnds
  <2> QED
    BY <1>1, <2>1, <2>2, <2>3, <2>4 DEF BillingInv, LoadsOK
<1> QED
  BY <1>1, <1>2, <1>3, BillingEnds DEF BillingInv

(* What is done on a row, and what a colleague does.                       *)
LEMMA BillingRows ==
  ASSUME BillingInv, NEW p \in Pairs,
         Billing!TypeAmount(p) \/ Billing!Click(p) \/ Billing!Colleague(p)
  PROVE  BillingInv'
<1>1. CASE Billing!TypeAmount(p)
  BY <1>1 DEF Billing!TypeAmount, Billing!Pending, Billing!Table, Billing!server, BillingInv, BillingTypes,
              LoadsOK, WaitsOK, ToLoad, Flying
<1>2. CASE Billing!Click(p)
  <2> DEFINE new == [at |-> "sent", pair |-> p]
  <2>1. PICK s \in Slots : creates[s] = [at |-> "not"] /\ creates' = [creates EXCEPT ![s] = new]
    BY <1>2 DEF Billing!Click, Billing!NoCreate
  <2>2. /\ clicks < MaxClicks /\ clicks' = clicks + 1 /\ creatingKey' = p
        /\ UNCHANGED <<joined, billed, items, listed, loading, loads, amounts, overlapped, missed>>
    BY <1>2 DEF Billing!Click, Billing!server
  <2>3. new \in CreateRecords /\ new.at = "sent" /\ new.pair = p
    BY DEF CreateRecords
  <2> HIDE DEF new
  <2>4. /\ creates' \in [Slots -> CreateRecords] /\ creates'[s] = new
        /\ \A t \in Slots : t # s => creates'[t] = creates[t]
    BY <2>1, <2>3 DEF BillingInv, BillingTypes
  <2>5. BillingTypes'
    <3>1. clicks' \in 0 .. MaxClicks
      BY <2>2, CountsAssumption DEF BillingInv, BillingTypes
    <3> QED
      BY <2>2, <2>4, <3>1 DEF BillingInv, BillingTypes
  <2>6. WaitsOK'
    BY <2>2, <2>3, <2>4 DEF BillingInv, WaitsOK, Flying
  <2>7. ToLoad' = ToLoad
    BY <2>1, <2>3, <2>4 DEF ToLoad
  <2>8. \A i \in Loads : Flying(i) /\ loads[i].by # "mount" => creates'[loads[i].by].at = "loading"
    <3> SUFFICES ASSUME NEW i \in Loads, Flying(i), loads[i].by # "mount"
                 PROVE  creates'[loads[i].by].at = "loading"
      OBVIOUS
    <3>1. loads[i] \in LoadRecords /\ creates[loads[i].by].at = "loading"
      BY DEF BillingInv, BillingTypes, LoadsOK
    <3>2. loads[i].by \in Slots
      BY <3>1 DEF LoadRecords, Flying
    <3> QED
      BY <2>1, <2>4, <3>1, <3>2
  <2>9. LoadsOK'
    BY <2>2, <2>7, <2>8 DEF BillingInv, LoadsOK, Flying
  <2> QED
    BY <2>5, <2>6, <2>9 DEF BillingInv
<1>3. CASE Billing!Colleague(p)
  <2>1. /\ billed' \in {billed, billed \cup {p}} /\ joined' \in {joined, joined \cup {p}, joined \ {p}}
        /\ missed' = TRUE
        /\ UNCHANGED <<items, listed, loading, creatingKey, amounts, loads, creates, clicks,
                       overlapped>>
    BY <1>3 DEF Billing!Colleague, Billing!page
  <2>2. missed' \in BOOLEAN
    BY <2>1
  <2> QED
    BY <2>1, <2>2 DEF BillingInv, BillingTypes, LoadsOK, WaitsOK, Flying
<1> QED
  BY <1>1, <1>2, <1>3

(* A creation: the handler bills the pair, the page loads its list, or     *)
(* hears of a failure.                                                     *)
LEMMA BillingCreates ==
  ASSUME BillingInv, NEW s \in Slots,
         Billing!CreateBilling(s) \/ Billing!Billed(s) \/ Billing!CreateFails(s)
  PROVE  BillingInv'
<1>1. creates[s] \in CreateRecords
  BY DEF BillingInv, BillingTypes
<1>2. ASSUME NEW i \in Loads, Flying(i), loads[i].by # "mount"
      PROVE  loads[i].by \in Slots /\ creates[loads[i].by].at = "loading"
  <2>1. loads[i] \in LoadRecords /\ creates[loads[i].by].at = "loading"
    BY <1>2 DEF BillingInv, BillingTypes, LoadsOK
  <2> QED
    BY <1>2, <2>1 DEF LoadRecords, Flying
<1>3. CASE Billing!CreateBilling(s)
  <2> DEFINE new == [creates[s] EXCEPT !.at = "billed"]
  <2>1. /\ creates[s].at = "sent" /\ billed' = billed \cup {creates[s].pair}
        /\ creates' = [creates EXCEPT ![s] = new]
        /\ UNCHANGED <<joined, items, listed, loading, creatingKey, amounts, loads, clicks, overlapped, missed>>
    BY <1>3 DEF Billing!CreateBilling, Billing!page
  <2>2. new \in CreateRecords /\ new.at = "billed" /\ new.pair = creates[s].pair /\ new.pair \in Pairs
    BY <1>1, <2>1 DEF CreateRecords
  <2> HIDE DEF new
  <2>3. /\ creates' \in [Slots -> CreateRecords] /\ creates'[s] = new
        /\ \A t \in Slots : t # s => creates'[t] = creates[t]
    BY <2>1, <2>2 DEF BillingInv, BillingTypes
  <2>4. BillingTypes'
    BY <2>1, <2>2, <2>3 DEF BillingInv, BillingTypes
  <2>5. WaitsOK'
    BY <2>1, <2>2, <2>3 DEF BillingInv, WaitsOK, Flying
  <2>6. ToLoad' = ToLoad \cup {creates[s].pair}
    BY <2>1, <2>2, <2>3 DEF ToLoad
  <2>7. \A i \in Loads : Flying(i) /\ loads[i].by # "mount" => creates'[loads[i].by].at = "loading"
    BY <1>2, <2>1, <2>3
  <2>8. LoadsOK'
    BY <2>1, <2>6, <2>7 DEF BillingInv, LoadsOK, Flying
  <2> QED
    BY <2>4, <2>5, <2>8 DEF BillingInv
<1>4. CASE Billing!Billed(s)
  <2> DEFINE new == [creates[s] EXCEPT !.at = "loading"]
  <2> DEFINE load == [at |-> "asked", by |-> s]
  <2>1. DOMAIN loads = Loads
    BY DEF BillingInv, BillingTypes
  <2>2. PICK i \in Loads : ~Flying(i) /\ loads' = [loads EXCEPT ![i] = load]
    BY <1>4, <2>1 DEF Billing!Billed, Billing!InFlight, Flying
  <2> DEFINE Others == \E j \in Loads : Flying(j)
  <2>3. /\ creates[s].at = "billed" /\ creates' = [creates EXCEPT ![s] = new]
        /\ loading' = TRUE /\ overlapped' = (overlapped \/ Others)
        /\ UNCHANGED <<joined, billed, items, listed, creatingKey, amounts, clicks, missed>>
    BY <1>4, <2>1 DEF Billing!Billed, Billing!server, Billing!InFlight, Flying
  <2>4. new \in CreateRecords /\ new.at = "loading" /\ new.pair = creates[s].pair
    BY <1>1, <2>3 DEF CreateRecords
  <2>5. load \in LoadRecords /\ load.at = "asked" /\ load.by = s
    BY DEF LoadRecords
  <2>6. overlapped \in BOOLEAN /\ Others \in BOOLEAN
    BY DEF BillingInv, BillingTypes
  <2> HIDE DEF new, load, Others
  <2>7. overlapped' \in BOOLEAN /\ loading' \in BOOLEAN /\ (~overlapped' => ~overlapped /\ ~Others)
    BY <2>3, <2>6
  <2>8. /\ creates' \in [Slots -> CreateRecords] /\ creates'[s] = new
        /\ \A t \in Slots : t # s => creates'[t] = creates[t]
    BY <2>3, <2>4 DEF BillingInv, BillingTypes
  <2>9. /\ loads' \in [Loads -> LoadRecords] /\ loads'[i] = load
        /\ \A j \in Loads : j # i => loads'[j] = loads[j]
    BY <2>2, <2>5 DEF BillingInv, BillingTypes
  <2>10. BillingTypes'
    BY <2>3, <2>7, <2>8, <2>9 DEF BillingInv, BillingTypes
  <2>11. WaitsOK'
    <3>1. Flying(i)'
      BY <2>5, <2>9 DEF Flying
    <3> QED
      BY <2>3, <2>4, <2>8, <3>1 DEF BillingInv, WaitsOK
  <2>12. \A j \in Loads : Flying(j) => loads[j].by # s
    BY <1>2, <2>3, InFlightAssumption
  <2>13. \A j \in Loads : Flying(j)' /\ loads'[j].by # "mount" => creates'[loads'[j].by].at = "loading"
    BY <1>2, <2>4, <2>5, <2>8, <2>9 DEF Flying
  <2>14. \A j \in Loads : loads'[j].at = "served" => j # i /\ loads'[j] = loads[j] /\ Flying(j)
    BY <2>5, <2>9 DEF Flying
  <2>15. ~overlapped' => \A j \in Loads : Flying(j)' => j = i
    BY <2>7, <2>9 DEF Others, Flying
  <2>16. LoadsOK'
    <3>1. \A j, k \in Loads : Flying(j)' /\ Flying(k)' /\ loads'[j].by = loads'[k].by => j = k
      BY <2>5, <2>9, <2>12 DEF BillingInv, LoadsOK, Flying
    <3>2. \A j \in Loads : loads'[j].at = "served" =>
             loads'[j].billed \subseteq billed' \cap loads'[j].rows
      BY <2>3, <2>14 DEF BillingInv, LoadsOK
    <3>3. ~overlapped' => \A j \in Loads : loads'[j].at # "served"
      BY <2>7, <2>14 DEF Others
    <3>4. Flying(i)'
      BY <2>5, <2>9 DEF Flying
    <3> QED
      BY <2>13, <2>15, <3>1, <3>2, <3>3, <3>4 DEF LoadsOK
  <2> QED
    BY <2>10, <2>11, <2>16 DEF BillingInv
<1>5. CASE Billing!CreateFails(s)
  <2> DEFINE Done == creates[s].at = "billed"
  <2>1. /\ creates[s].at \in {"sent", "billed"} /\ creates' = [creates EXCEPT ![s] = [at |-> "not"]]
        /\ creatingKey' = NoPair /\ missed' = (missed \/ Done)
        /\ UNCHANGED <<joined, billed, items, listed, loading, loads, amounts, clicks, overlapped>>
    BY <1>5 DEF Billing!CreateFails, Billing!NoCreate, Billing!server
  <2>2. [at |-> "not"] \in CreateRecords
    BY DEF CreateRecords
  <2>3. missed \in BOOLEAN /\ Done \in BOOLEAN
    BY DEF BillingInv, BillingTypes
  <2> HIDE DEF Done
  <2>4. missed' \in BOOLEAN /\ (~missed' => ~missed /\ ~Done)
    BY <2>1, <2>3
  <2>5. /\ creates' \in [Slots -> CreateRecords] /\ creates'[s].at = "not"
        /\ \A t \in Slots : t # s => creates'[t] = creates[t]
    BY <2>1, <2>2 DEF BillingInv, BillingTypes
  <2>6. BillingTypes'
    BY <2>1, <2>4, <2>5 DEF BillingInv, BillingTypes
  <2>7. WaitsOK'
    BY <2>1 DEF BillingInv, WaitsOK, Flying
  <2>8. ~missed' => ToLoad' = ToLoad
    BY <2>4, <2>5 DEF ToLoad, Done
  <2>9. \A i \in Loads : Flying(i) /\ loads[i].by # "mount" => creates'[loads[i].by].at = "loading"
    BY <1>2, <2>1, <2>5
  <2>10. LoadsOK'
    BY <2>1, <2>4, <2>8, <2>9 DEF BillingInv, LoadsOK, Flying
  <2> QED
    BY <2>6, <2>7, <2>10 DEF BillingInv
<1> QED
  BY <1>3, <1>4, <1>5

(* Every step of the billing page keeps its invariant.                     *)
LEMMA BillingStep == BillingInv /\ [Billing!Next]_(Billing!vars) => BillingInv'
<1>1. ASSUME BillingInv, UNCHANGED Billing!vars PROVE BillingInv'
  BY <1>1 DEF Billing!vars, Billing!server, BillingInv, BillingTypes, LoadsOK, WaitsOK, Flying, ToLoad
<1> QED
  BY <1>1, BillingServes, BillingLoaded, BillingLoadFails, BillingRows, BillingCreates
  DEF Billing!Next

(* What the page promises of its states.                                   *)
LEMMA BillingPromises ==
  BillingInv => Billing!TypeOK /\ Billing!WorklistCatchesUp /\ Billing!WaitingMeansWork
<1> SUFFICES ASSUME BillingInv
             PROVE  Billing!TypeOK /\ Billing!WorklistCatchesUp /\ Billing!WaitingMeansWork
  OBVIOUS
<1>1. Billing!InFlight(loads) = {i \in Loads : Flying(i)}
        /\ Billing!InFlight(creates) = {s \in Slots : creates[s].at # "not"}
  BY DEF BillingInv, BillingTypes, Billing!InFlight, Flying
<1>2. Billing!TypeOK
  BY <1>1 DEF Billing!TypeOK, BillingInv, BillingTypes, LoadsOK
<1>3. Billing!WorklistCatchesUp
  BY <1>1 DEF Billing!WorklistCatchesUp, BillingInv, BillingTypes, LoadsOK, ToLoad
<1>4. Billing!WaitingMeansWork
  BY <1>1 DEF Billing!WaitingMeansWork, BillingInv, WaitsOK
<1> QED
  BY <1>2, <1>3, <1>4

-----------------------------------------------------------------------------
(* ResumePage.  A retry past its first step stands behind a 'processing';  *)
(* one that is about to insert has seen all there is to delete, unless two *)
(* race; and while nothing was missed, the repository is right unless a    *)
(* retry is under way or the one load in flight will put it right.         *)
Works == {"parsing", "commit", "finish"}
Serving == {"read"} \cup Works
OpRecords ==
    [at : {"idle", "upload", "search"}]
      \cup [at : {"list"}, by : {"mount", "retried", "refused", "uploaded"},
            resume : Resumes \cup {NoResume}]
      \cup [at : {"listed"}, by : {"mount", "retried", "refused", "uploaded"},
            resume : Resumes \cup {NoResume}, reply : [Resumes -> ResumeAI!Statuses]]
      \cup [at : {"detail"}, resume : Resumes \cup {NoResume}, after : BOOLEAN]
      \cup [at : Serving, resume : Resumes, no : 1 .. MaxClicks, mine : BOOLEAN,
            seen : SUBSET (1 .. MaxClicks)]
At(s, kinds) == ops[s].at \in kinds
Reloading(s) == At(s, {"list", "listed"})
UploadOp(s) == At(s, {"upload"}) \/ (Reloading(s) /\ ops[s].by = "uploaded")

ResumeTypes ==
    /\ status \in [Resumes -> ResumeAI!Statuses]
    /\ history \in [Resumes -> SUBSET (1 .. MaxClicks)]
    /\ repository \in [Resumes -> ResumeAI!Statuses] \cup {ResumeAI!NotLoaded}
    /\ results \in {"none", "uploads", "candidates"}
    /\ actionId \in Resumes \cup {NoResume} /\ uploading \in BOOLEAN /\ searching \in BOOLEAN
    /\ retries \in 0 .. MaxClicks
    /\ raced \subseteq Resumes /\ leftBehind \subseteq Resumes /\ lost \in BOOLEAN
    /\ ops \in [Slots -> OpRecords]
UploadsOK ==
    /\ uploading <=> \E s \in Slots : UploadOp(s)
    /\ \A s, s2 \in Slots : UploadOp(s) /\ UploadOp(s2) => s = s2
WorkOK ==
    \A r \in Resumes : status[r] = "processing" /\ r \notin leftBehind =>
       \E s \in Slots : At(s, Works) /\ ops[s].resume = r
HistoryOK ==
    \A r \in Resumes : r \notin raced =>
       /\ \A x, y \in history[r] : x = y
       /\ \A s \in Slots : At(s, {"commit"}) /\ ops[s].resume = r => ops[s].seen = history[r]
Holds(s) ==
    \/ At(s, Serving) /\ ops[s].mine
    \/ Reloading(s) /\ ops[s].by \in {"retried", "refused"}
    \/ At(s, {"detail"}) /\ ops[s].after
LocksOK ==
    /\ searching => \E s \in Slots : At(s, {"search"})
    /\ actionId # NoResume => \E s \in Slots : Holds(s) /\ ops[s].resume = actionId
RepositoryOK ==
    ~lost =>
       /\ \A s \in Slots : At(s, Serving) => ops[s].mine
       /\ \A s, s2 \in Slots : Reloading(s) /\ Reloading(s2) => s = s2
       /\ (\A s \in Slots : ~At(s, Serving)) =>
             /\ \A s \in Slots : At(s, {"listed"}) => ops[s].reply = status
             /\ \/ repository \in {status, ResumeAI!NotLoaded}
                \/ \E s \in Slots : Reloading(s)
ResumeInv == ResumeTypes /\ UploadsOK /\ WorkOK /\ HistoryOK /\ LocksOK /\ RepositoryOK

(* The beginning: the page loads its repository.                           *)
LEMMA ResumeInit == ResumeAI!Init => ResumeInv
<1> SUFFICES ASSUME ResumeAI!Init PROVE ResumeInv
  OBVIOUS
<1> DEFINE first == CHOOSE t \in Slots : TRUE
<1>1. ops = [s \in Slots |-> IF s = first THEN [at |-> "list", by |-> "mount", resume |-> NoResume]
                             ELSE [at |-> "idle"]]
  BY DEF ResumeAI!Init, ResumeAI!Load, ResumeAI!Idle
<1>2. first \in Slots
  BY InFlightAssumption
<1> HIDE DEF first
<1>3. /\ ops \in [Slots -> OpRecords] /\ ops[first].at = "list" /\ ops[first].by = "mount"
      /\ \A s \in Slots : s # first => ops[s].at = "idle"
  BY <1>1, <1>2 DEF OpRecords
<1>4. ResumeTypes
  <2>1. uploading \in BOOLEAN /\ searching \in BOOLEAN /\ lost \in BOOLEAN
    BY DEF ResumeAI!Init
  <2>2. retries \in 0 .. MaxClicks
    BY CountsAssumption DEF ResumeAI!Init
  <2>3. status \in [Resumes -> ResumeAI!Statuses]
    BY DEF ResumeAI!Init, ResumeAI!Statuses
  <2>4. /\ history \in [Resumes -> SUBSET (1 .. MaxClicks)]
        /\ repository = ResumeAI!NotLoaded /\ results = "none" /\ actionId = NoResume
        /\ raced = {} /\ leftBehind = {}
    BY DEF ResumeAI!Init
  <2> QED
    BY <1>3, <2>1, <2>2, <2>3, <2>4 DEF ResumeTypes
<1>5. UploadsOK
  <2>1. uploading = FALSE /\ \A s \in Slots : ~UploadOp(s)
    BY <1>3 DEF ResumeAI!Init, UploadOp, Reloading, At
  <2> QED
    BY <2>1 DEF UploadsOK
<1>6. WorkOK
  <2>1. \A r \in Resumes : status[r] # "processing"
    BY DEF ResumeAI!Init
  <2> QED
    BY <2>1 DEF WorkOK
<1>7. HistoryOK
  <2>1. \A r \in Resumes : history[r] = {}
    BY DEF ResumeAI!Init
  <2> QED
    BY <1>3, <2>1 DEF HistoryOK, At
<1>8. LocksOK
  <2>1. searching = FALSE /\ actionId = NoResume
    BY DEF ResumeAI!Init
  <2> QED
    BY <2>1 DEF LocksOK
<1>9. RepositoryOK
  <2>1. repository = ResumeAI!NotLoaded
    BY DEF ResumeAI!Init
  <2> QED
    BY <1>3, <2>1 DEF RepositoryOK, At, Reloading, Serving, Works
<1> QED
  BY <1>4, <1>5, <1>6, <1>7, <1>8, <1>9 DEF ResumeInv

(* One operation goes on, and the others stay as they are.                 *)
LEMMA OneMoves ==
  ASSUME ResumeInv, NEW s \in Slots, NEW op \in OpRecords, ops' = [ops EXCEPT ![s] = op]
  PROVE  /\ ops' \in [Slots -> OpRecords] /\ ops'[s] = op
         /\ \A t \in Slots : t # s => ops'[t] = ops[t]
  BY DEF ResumeInv, ResumeTypes

(* Which statuses are 'processing' changes only with the work on them.     *)
LEMMA WorkMoves ==
  ASSUME ResumeInv, NEW s \in Slots, NEW op \in OpRecords, ops' = [ops EXCEPT ![s] = op],
         \A r \in Resumes : status'[r] = "processing" /\ r \notin leftBehind' =>
            \/ op.at \in Works /\ op.resume = r
            \/ /\ status[r] = "processing" /\ r \notin leftBehind
               /\ ~(At(s, Works) /\ ops[s].resume = r)
  PROVE  WorkOK'
<1> SUFFICES ASSUME NEW r \in Resumes, status'[r] = "processing", r \notin leftBehind'
             PROVE  \E t \in Slots : At(t, Works)' /\ ops'[t].resume = r
  BY DEF WorkOK
<1>1. ops'[s] = op /\ \A t \in Slots : t # s => ops'[t] = ops[t]
  BY OneMoves
<1>2. CASE op.at \in Works /\ op.resume = r
  BY <1>1, <1>2 DEF At
<1>3. CASE ~(op.at \in Works /\ op.resume = r)
  <2>1. PICK t \in Slots : At(t, Works) /\ ops[t].resume = r
    BY <1>3 DEF ResumeInv, WorkOK
  <2>2. t # s
    BY <1>3, <2>1
  <2> QED
    BY <1>1, <2>1, <2>2 DEF At
<1> QED
  BY <1>2, <1>3

(* The history stays as it is, and so does what was seen of it.            *)
LEMMA HistoryMoves ==
  ASSUME ResumeInv, NEW s \in Slots, NEW op \in OpRecords, ops' = [ops EXCEPT ![s] = op],
         UNCHANGED <<history, raced>>, op.at = "commit" => op.seen = history[op.resume]
  PROVE  HistoryOK'
<1>1. ops'[s] = op /\ \A t \in Slots : t # s => ops'[t] = ops[t]
  BY OneMoves
<1> QED
  BY <1>1 DEF ResumeInv, HistoryOK, At

(* A lock is kept by the operation that holds it, or is opened.            *)
LEMMA LocksMove ==
  ASSUME ResumeInv, NEW s \in Slots, NEW op \in OpRecords, ops' = [ops EXCEPT ![s] = op],
         searching' => op.at = "search" \/ (searching /\ ~At(s, {"search"})),
         actionId' # NoResume =>
            \/ Holds(s)' /\ op.resume = actionId'
            \/ actionId' = actionId /\ ~(Holds(s) /\ ops[s].resume = actionId)
  PROVE  LocksOK'
<1>1. ops'[s] = op /\ \A t \in Slots : t # s => ops'[t] = ops[t]
  BY OneMoves
<1>2. \A t \in Slots : t # s => Holds(t)' = Holds(t) /\ At(t, {"search"})' = At(t, {"search"})
  BY <1>1 DEF Holds, At, Reloading
<1>3. ASSUME searching' PROVE \E t \in Slots : At(t, {"search"})'
  <2>1. CASE op.at = "search"
    BY <1>1, <2>1 DEF At
  <2>2. CASE op.at # "search"
    <3>1. PICK t \in Slots : At(t, {"search"})
      BY <1>3, <2>2 DEF ResumeInv, LocksOK
    <3> QED
      BY <1>2, <1>3, <2>2, <3>1
  <2> QED
    BY <2>1, <2>2
<1>4. ASSUME actionId' # NoResume PROVE \E t \in Slots : Holds(t)' /\ ops'[t].resume = actionId'
  <2>1. CASE Holds(s)' /\ op.resume = actionId'
    BY <1>1, <2>1
  <2>2. CASE ~(Holds(s)' /\ op.resume = actionId')
    <3>1. actionId' = actionId /\ ~(Holds(s) /\ ops[s].resume = actionId)
      BY <1>4, <2>2
    <3>2. PICK t \in Slots : Holds(t) /\ ops[t].resume = actionId
      BY <1>4, <3>1 DEF ResumeInv, LocksOK
    <3> QED
      BY <1>1, <1>2, <3>1, <3>2
  <2> QED
    BY <2>1, <2>2
<1> QED
  BY <1>3, <1>4 DEF LocksOK

(* There is an upload in flight just when its button is off.               *)
LEMMA UploadsMove ==
  ASSUME ResumeInv, NEW s \in Slots, NEW op \in OpRecords, ops' = [ops EXCEPT ![s] = op],
         \/ uploading' = uploading /\ (UploadOp(s)' <=> UploadOp(s))
         \/ uploading' = TRUE /\ ~uploading /\ UploadOp(s)'
         \/ uploading' = FALSE /\ UploadOp(s) /\ ~UploadOp(s)'
  PROVE  UploadsOK'
<1>1. ops'[s] = op /\ \A t \in Slots : t # s => ops'[t] = ops[t]
  BY OneMoves
<1>2. \A t \in Slots : t # s => UploadOp(t)' = UploadOp(t)
  BY <1>1 DEF UploadOp, At, Reloading
<1> HIDE DEF UploadOp
<1>3. UploadsOK /\ uploading \in BOOLEAN
  BY DEF ResumeInv, ResumeTypes
<1>4. CASE uploading' = uploading /\ (UploadOp(s)' <=> UploadOp(s))
  BY <1>2, <1>3, <1>4 DEF UploadsOK
<1>5. CASE uploading' = TRUE /\ ~uploading /\ UploadOp(s)'
  BY <1>2, <1>3, <1>5 DEF UploadsOK
<1>6. CASE uploading' = FALSE /\ UploadOp(s) /\ ~UploadOp(s)'
  BY <1>2, <1>3, <1>6 DEF UploadsOK
<1> QED
  BY <1>4, <1>5, <1>6

(* The repository.  A retry may begin or go on without a word to the page; *)
(* when one ends, and when an upload has ended, a load begins, or there    *)
(* were two of them; a load ends with the right statuses, unless a retry   *)
(* is under way.                                                           *)
LEMMA RepositoryMoves ==
  ASSUME ResumeInv, NEW s \in Slots, NEW op \in OpRecords, ops' = [ops EXCEPT ![s] = op],
         lost' \/ lost' = lost,
         op.at \in Serving => op.mine \/ lost',
         At(s, Serving) => op.at \in Serving \cup {"list"} \/ lost',
         status' = status \/ At(s, Serving),
         Reloading(s)' => \/ Reloading(s)
                          \/ lost'
                          \/ \A t \in Slots : ~Reloading(t),
         op.at = "listed" => op.reply = status' \/ lost',
         \/ repository' = repository /\ (Reloading(s) => Reloading(s)' \/ lost')
         \/ /\ ops[s].at = "listed" /\ repository' = ops[s].reply
            /\ ~At(s, Serving) /\ status' = status /\ op.at \notin {"list", "listed"} \cup Serving
  PROVE  RepositoryOK'
<1>1. ops'[s] = op /\ \A t \in Slots : t # s => ops'[t] = ops[t]
  BY OneMoves
<1>2. \A t \in Slots : t # s => /\ Reloading(t)' = Reloading(t)
                                /\ At(t, Serving)' = At(t, Serving)
                                /\ At(t, {"listed"})' = At(t, {"listed"})
  BY <1>1 DEF Reloading, At
<1>3. /\ At(s, Serving)' <=> op.at \in Serving
      /\ Reloading(s)' <=> op.at \in {"list", "listed"}
      /\ At(s, {"listed"})' <=> op.at = "listed"
      /\ At(s, {"listed"}) <=> ops[s].at = "listed"
      /\ Reloading(s) <=> ops[s].at \in {"list", "listed"}
  BY <1>1 DEF Reloading, At
<1> SUFFICES ASSUME ~lost'
             PROVE  /\ \A t \in Slots : At(t, Serving)' => ops'[t].mine
                    /\ \A t, u \in Slots : Reloading(t)' /\ Reloading(u)' => t = u
                    /\ (\A t \in Slots : ~At(t, Serving)') =>
                          /\ \A t \in Slots : At(t, {"listed"})' => ops'[t].reply = status'
                          /\ \/ repository' \in {status', ResumeAI!NotLoaded'}
                             \/ \E t \in Slots : Reloading(t)'
  BY DEF RepositoryOK
<1>4. ~lost
  OBVIOUS
<1>5. \A t \in Slots : At(t, Serving)' => ops'[t].mine
  BY <1>1, <1>2, <1>3, <1>4 DEF ResumeInv, RepositoryOK
<1>6. \A t, u \in Slots : Reloading(t)' /\ Reloading(u)' => t = u
  BY <1>2, <1>3, <1>4 DEF ResumeInv, RepositoryOK
<1>7. ASSUME \A t \in Slots : ~At(t, Serving)'
      PROVE  /\ \A t \in Slots : At(t, {"listed"})' => ops'[t].reply = status'
             /\ \/ repository' \in {status', ResumeAI!NotLoaded'}
                \/ \E t \in Slots : Reloading(t)'
  <2>1. CASE At(s, Serving)
    <3>1. op.at = "list"
      BY <1>3, <1>7, <2>1
    <3>2. ~Reloading(s)
      BY <2>1 DEF At, Reloading, Serving, Works
    <3>3. \A t \in Slots : ~Reloading(t)
      BY <1>3, <3>1, <3>2
    <3>4. \A t \in Slots : ~At(t, {"listed"})'
      BY <1>2, <1>3, <3>1, <3>3 DEF Reloading, At
    <3> QED
      BY <1>3, <3>1, <3>4
  <2>2. CASE ~At(s, Serving)
    <3>1. status' = status /\ ResumeAI!NotLoaded' = ResumeAI!NotLoaded
      BY <2>2 DEF ResumeAI!NotLoaded
    <3>2. \A t \in Slots : ~At(t, Serving)
      BY <1>2, <1>7, <2>2
    <3>3. /\ \A t \in Slots : At(t, {"listed"}) => ops[t].reply = status
          /\ repository \in {status, ResumeAI!NotLoaded} \/ \E t \in Slots : Reloading(t)
      BY <1>4, <3>2 DEF ResumeInv, RepositoryOK
    <3>4. \A t \in Slots : At(t, {"listed"})' => ops'[t].reply = status'
      BY <1>1, <1>2, <1>3, <3>1, <3>3
    <3>5. CASE repository' = repository /\ (Reloading(s) => Reloading(s)')
      BY <1>2, <3>1, <3>3, <3>4, <3>5
    <3>6. CASE ops[s].at = "listed" /\ repository' = ops[s].reply
      BY <1>3, <3>1, <3>3, <3>4, <3>6
    <3> QED
      BY <3>5, <3>6
  <2> QED
    BY <2>1, <2>2
<1> QED
  BY <1>5, <1>6, <1>7


(* What each kind of operation carries.                                    *)
LEMMA ResumeCarries ==
  ASSUME ResumeInv, NEW s \in Slots
  PROVE  /\ ops[s] \in OpRecords
         /\ At(s, Serving) => ops[s] \in [at : Serving, resume : Resumes, no : 1 .. MaxClicks,
                                          mine : BOOLEAN, seen : SUBSET (1 .. MaxClicks)]
         /\ Reloading(s) => /\ ops[s].by \in {"mount", "retried", "refused", "uploaded"}
                            /\ ops[s].resume \in Resumes \cup {NoResume}
         /\ At(s, {"listed"}) => ops[s].reply \in [Resumes -> ResumeAI!Statuses]
         /\ At(s, {"detail"}) => /\ ops[s].resume \in Resumes \cup {NoResume}
                                 /\ ops[s].after \in BOOLEAN
<1>1. ops[s] \in OpRecords
  BY DEF ResumeInv, ResumeTypes
<1>2. At(s, Serving) => ops[s] \in [at : Serving, resume : Resumes, no : 1 .. MaxClicks,
                                    mine : BOOLEAN, seen : SUBSET (1 .. MaxClicks)]
  BY <1>1 DEF OpRecords, At, Serving, Works
<1>3. Reloading(s) => /\ ops[s].by \in {"mount", "retried", "refused", "uploaded"}
                      /\ ops[s].resume \in Resumes \cup {NoResume}
  BY <1>1 DEF OpRecords, At, Reloading, Serving, Works
<1>4. At(s, {"listed"}) => ops[s].reply \in [Resumes -> ResumeAI!Statuses]
  BY <1>1 DEF OpRecords, At, Serving, Works
<1>5. At(s, {"detail"}) => /\ ops[s].resume \in Resumes \cup {NoResume}
                           /\ ops[s].after \in BOOLEAN
  BY <1>1 DEF OpRecords, At, Serving, Works
<1> QED
  BY <1>1, <1>2, <1>3, <1>4, <1>5

(* A click, here or elsewhere: a slot that was idle takes the operation.   *)
LEMMA ResumeClicks ==
  ASSUME ResumeInv, NEW s \in Slots, NEW op \in OpRecords, ops' = [ops EXCEPT ![s] = op],
         ops[s].at = "idle", op.at \in {"read", "detail", "upload", "search"},
         ResumeAI!Clicked,
         UNCHANGED <<status, history, repository, results, raced, leftBehind>>,
         lost' = TRUE \/ lost' = lost,
         op.at = "read" => op.mine \/ lost',
         \/ actionId' = actionId
         \/ actionId' \in Resumes /\ op.at = "read" /\ op.mine /\ op.resume = actionId',
         \/ uploading' = uploading /\ op.at # "upload"
         \/ uploading' = TRUE /\ ~uploading /\ op.at = "upload",
         \/ searching' = searching
         \/ searching' = TRUE /\ op.at = "search"
  PROVE  ResumeInv'
<1>1. ops' \in [Slots -> OpRecords] /\ ops'[s] = op /\ \A t \in Slots : t # s => ops'[t] = ops[t]
  BY OneMoves
<1>2. /\ ~At(s, Serving) /\ ~At(s, Works) /\ ~Reloading(s) /\ ~Reloading(s)' /\ ~Holds(s)
      /\ ~At(s, {"search"}) /\ ~UploadOp(s) /\ (UploadOp(s)' <=> op.at = "upload")
      /\ (op.at = "read" /\ op.mine => Holds(s)') /\ op.at # "commit" /\ op.at # "listed"
      /\ op.at \in Serving => op.at = "read"
  BY <1>1 DEF At, Serving, Works, Reloading, Holds, UploadOp
<1>3. ResumeTypes'
  <2>1. uploading' \in BOOLEAN /\ searching' \in BOOLEAN /\ lost' \in BOOLEAN
    BY DEF ResumeInv, ResumeTypes
  <2>2. retries' \in 0 .. MaxClicks
    BY CountsAssumption DEF ResumeInv, ResumeTypes, ResumeAI!Clicked
  <2>3. actionId' \in Resumes \cup {NoResume}
    BY DEF ResumeInv, ResumeTypes
  <2>4. ResumeAI!NotLoaded' = ResumeAI!NotLoaded
    BY DEF ResumeAI!NotLoaded
  <2> QED
    BY <1>1, <2>1, <2>2, <2>3, <2>4 DEF ResumeInv, ResumeTypes, ResumeAI!Statuses
<1>4. UploadsOK'
  <2> HIDE DEF UploadOp
  <2> QED
    BY <1>2, UploadsMove
<1>5. WorkOK'
  BY <1>2, WorkMoves
<1>6. HistoryOK'
  BY <1>2, HistoryMoves
<1>7. LocksOK'
  <2>1. searching' => op.at = "search" \/ (searching /\ ~At(s, {"search"}))
    BY <1>2
  <2>2. actionId' # NoResume =>
           \/ Holds(s)' /\ op.resume = actionId'
           \/ actionId' = actionId /\ ~(Holds(s) /\ ops[s].resume = actionId)
    BY <1>2
  <2> HIDE DEF Holds
  <2> QED
    BY <2>1, <2>2, LocksMove
<1>8. RepositoryOK'
  BY <1>2, RepositoryMoves
<1> QED
  BY <1>3, <1>4, <1>5, <1>6, <1>7, <1>8 DEF ResumeInv

(* The five clicks.                                                        *)
LEMMA ResumeStarts ==
  ASSUME ResumeInv,
         \/ \E r \in Resumes : ResumeAI!ClickRetry(r) \/ ResumeAI!RetryElsewhere(r)
         \/ ResumeAI!ShowDetail \/ ResumeAI!ClickUpload \/ ResumeAI!Search
  PROVE  ResumeInv'
<1>1. ASSUME NEW r \in Resumes, ResumeAI!ClickRetry(r) PROVE ResumeInv'
  <2> DEFINE op == [at |-> "read", resume |-> r, no |-> retries', mine |-> TRUE, seen |-> {}]
  <2>1. PICK s \in Slots : ops[s] = [at |-> "idle"] /\ ops' = [ops EXCEPT ![s] = op]
    BY <1>1 DEF ResumeAI!ClickRetry, ResumeAI!Starts, ResumeAI!Idle
  <2>2. /\ ResumeAI!Clicked /\ actionId' = r
        /\ UNCHANGED <<status, history, repository, results, uploading, searching, raced,
                       leftBehind, lost>>
    BY <1>1 DEF ResumeAI!ClickRetry, ResumeAI!ghosts
  <2>3. retries' \in 1 .. MaxClicks
    BY <2>2, CountsAssumption DEF ResumeAI!Clicked, ResumeInv, ResumeTypes
  <2>4. op \in OpRecords
    BY <2>3 DEF OpRecords, Serving
  <2>5. op.at = "read" /\ op.mine /\ op.resume = r /\ ops[s].at = "idle"
    BY <2>1
  <2> HIDE DEF op
  <2> QED
    BY <2>1, <2>2, <2>4, <2>5, ResumeClicks
<1>2. ASSUME NEW r \in Resumes, ResumeAI!RetryElsewhere(r) PROVE ResumeInv'
  <2> DEFINE op == [at |-> "read", resume |-> r, no |-> retries', mine |-> FALSE, seen |-> {}]
  <2>1. PICK s \in Slots : ops[s] = [at |-> "idle"] /\ ops' = [ops EXCEPT ![s] = op]
    BY <1>2 DEF ResumeAI!RetryElsewhere, ResumeAI!Starts, ResumeAI!Idle
  <2>2. /\ ResumeAI!Clicked /\ lost' = TRUE
        /\ UNCHANGED <<status, history, repository, results, actionId, uploading, searching,
                       raced, leftBehind>>
    BY <1>2 DEF ResumeAI!RetryElsewhere, ResumeAI!page
  <2>3. retries' \in 1 .. MaxClicks
    BY <2>2, CountsAssumption DEF ResumeAI!Clicked, ResumeInv, ResumeTypes
  <2>4. op \in OpRecords
    BY <2>3 DEF OpRecords, Serving
  <2>5. op.at = "read" /\ ops[s].at = "idle"
    BY <2>1
  <2> HIDE DEF op
  <2> QED
    BY <2>1, <2>2, <2>4, <2>5, ResumeClicks
<1>3. ASSUME ResumeAI!ShowDetail PROVE ResumeInv'
  <2> DEFINE op == [at |-> "detail", resume |-> NoResume, after |-> FALSE]
  <2>1. PICK s \in Slots : ops[s] = [at |-> "idle"] /\ ops' = [ops EXCEPT ![s] = op]
    BY <1>3 DEF ResumeAI!ShowDetail, ResumeAI!Starts, ResumeAI!Idle
  <2>2. /\ ResumeAI!Clicked
        /\ UNCHANGED <<status, history, repository, results, actionId, uploading, searching,
                       raced, leftBehind, lost>>
    BY <1>3 DEF ResumeAI!ShowDetail, ResumeAI!page, ResumeAI!ghosts
  <2>3. op \in OpRecords /\ op.at = "detail" /\ ops[s].at = "idle"
    BY <2>1 DEF OpRecords
  <2> HIDE DEF op
  <2> QED
    BY <2>1, <2>2, <2>3, ResumeClicks
<1>4. ASSUME ResumeAI!ClickUpload PROVE ResumeInv'
  <2> DEFINE op == [at |-> "upload"]
  <2>1. PICK s \in Slots : ops[s] = [at |-> "idle"] /\ ops' = [ops EXCEPT ![s] = op]
    BY <1>4 DEF ResumeAI!ClickUpload, ResumeAI!Starts, ResumeAI!Idle
  <2>2. /\ ResumeAI!Clicked /\ ~uploading /\ uploading' = TRUE
        /\ UNCHANGED <<status, history, repository, results, actionId, searching,
                       raced, leftBehind, lost>>
    BY <1>4 DEF ResumeAI!ClickUpload, ResumeAI!ghosts
  <2>3. op \in OpRecords /\ op.at = "upload" /\ ops[s].at = "idle"
    BY <2>1 DEF OpRecords
  <2> HIDE DEF op
  <2> QED
    BY <2>1, <2>2, <2>3, ResumeClicks
<1>5. ASSUME ResumeAI!Search PROVE ResumeInv'
  <2> DEFINE op == [at |-> "search"]
  <2>1. PICK s \in Slots : ops[s] = [at |-> "idle"] /\ ops' = [ops EXCEPT ![s] = op]
    BY <1>5 DEF ResumeAI!Search, ResumeAI!Starts, ResumeAI!Idle
  <2>2. /\ ResumeAI!Clicked /\ searching' = TRUE
        /\ UNCHANGED <<status, history, repository, results, actionId, uploading,
                       raced, leftBehind, lost>>
    BY <1>5 DEF ResumeAI!Search, ResumeAI!ghosts
  <2>3. op \in OpRecords /\ op.at = "search" /\ ops[s].at = "idle"
    BY <2>1 DEF OpRecords
  <2> HIDE DEF op
  <2> QED
    BY <2>1, <2>2, <2>3, ResumeClicks
<1> QED
  BY <1>1, <1>2, <1>3, <1>4, <1>5

(* A retry goes on: it is marked, and it begins to replace the rows.       *)
LEMMA ResumeWorks ==
  ASSUME ResumeInv, NEW s \in Slots, ResumeAI!StartParsing(s) \/ ResumeAI!DeleteRows(s)
  PROVE  ResumeInv'
<1> DEFINE r == ops[s].resume
           op == IF ops[s].at = "read" THEN [ops[s] EXCEPT !.at = "parsing"]
                 ELSE [ops[s] EXCEPT !.at = "commit", !.seen = history[r]]
<1>1. /\ ops[s].at \in {"read", "parsing"} /\ ops' = [ops EXCEPT ![s] = op]
      /\ UNCHANGED <<history, repository, results, actionId, uploading, searching, retries,
                     raced, lost>>
      /\ \/ UNCHANGED <<status, leftBehind>>
         \/ ops[s].at = "read" /\ ResumeAI!SetStatus(s, "processing")
  BY DEF ResumeAI!StartParsing, ResumeAI!DeleteRows, ResumeAI!Goes, ResumeAI!page, ResumeAI!ghosts
<1>2. ops[s] \in [at : Serving, resume : Resumes, no : 1 .. MaxClicks,
                  mine : BOOLEAN, seen : SUBSET (1 .. MaxClicks)]
  BY <1>1, ResumeCarries DEF At, Serving, Works
<1>3. history[r] \in SUBSET (1 .. MaxClicks) /\ r \in Resumes
  BY <1>2 DEF ResumeInv, ResumeTypes
<1>4. /\ op \in [at : Serving, resume : Resumes, no : 1 .. MaxClicks,
                 mine : BOOLEAN, seen : SUBSET (1 .. MaxClicks)]
      /\ op.at \in {"parsing", "commit"} /\ op.resume = r /\ op.mine = ops[s].mine
      /\ op.at = "commit" => op.seen = history[r]
      /\ op.at = "parsing" <=> ops[s].at = "read"
  BY <1>1, <1>2, <1>3 DEF Serving, Works
<1>5. op \in OpRecords
  BY <1>4 DEF OpRecords
<1> HIDE DEF op
<1>6. ops' \in [Slots -> OpRecords] /\ ops'[s] = op /\ \A t \in Slots : t # s => ops'[t] = ops[t]
  BY <1>1, <1>5, OneMoves
<1>7. /\ At(s, Serving) /\ ~Reloading(s) /\ ~Reloading(s)' /\ ~UploadOp(s) /\ ~UploadOp(s)'
      /\ op.at \in Works /\ op.at \in Serving /\ op.at # "listed"
      /\ Holds(s)' = Holds(s) /\ ~At(s, {"search"})
  BY <1>1, <1>4, <1>6 DEF At, Serving, Works, Reloading, UploadOp, Holds
<1>8. /\ status' \in [Resumes -> ResumeAI!Statuses] /\ leftBehind' \subseteq Resumes
      /\ \A q \in Resumes : q # r => status'[q] = status[q]
      /\ leftBehind \subseteq leftBehind'
  BY <1>1, <1>3
  DEF ResumeAI!SetStatus, ResumeAI!NoFaultYet, ResumeAI!Statuses, ResumeInv, ResumeTypes
<1>9. ResumeTypes'
  <2>1. uploading' \in BOOLEAN /\ searching' \in BOOLEAN /\ lost' \in BOOLEAN
    BY <1>1 DEF ResumeInv, ResumeTypes
  <2>2. ResumeAI!NotLoaded' = ResumeAI!NotLoaded
    BY DEF ResumeAI!NotLoaded
  <2> QED
    BY <1>1, <1>6, <1>8, <2>1, <2>2 DEF ResumeInv, ResumeTypes, ResumeAI!Statuses
<1>10. UploadsOK'
  <2> HIDE DEF UploadOp
  <2> QED
    BY <1>1, <1>5, <1>7, UploadsMove
<1>11. WorkOK'
  <2>1. \A q \in Resumes : status'[q] = "processing" /\ q \notin leftBehind' =>
           \/ op.at \in Works /\ op.resume = q
           \/ /\ status[q] = "processing" /\ q \notin leftBehind
              /\ ~(At(s, Works) /\ ops[s].resume = q)
    <3> SUFFICES ASSUME NEW q \in Resumes, status'[q] = "processing", q \notin leftBehind', q # r
                 PROVE  /\ status[q] = "processing" /\ q \notin leftBehind
                        /\ ~(At(s, Works) /\ ops[s].resume = q)
      BY <1>4, <1>7
    <3> QED
      BY <1>8
  <2> QED
    BY <1>1, <1>5, <2>1, WorkMoves
<1>12. HistoryOK'
  BY <1>1, <1>4, <1>5, HistoryMoves
<1>13. LocksOK'
  <2>1. searching' => op.at = "search" \/ (searching /\ ~At(s, {"search"}))
    BY <1>1, <1>7
  <2>2. actionId' # NoResume =>
           \/ Holds(s)' /\ op.resume = actionId'
           \/ actionId' = actionId /\ ~(Holds(s) /\ ops[s].resume = actionId)
    BY <1>1, <1>4, <1>7
  <2> HIDE DEF Holds
  <2> QED
    BY <1>1, <1>5, <2>1, <2>2, LocksMove
<1>14. RepositoryOK'
  <2>1. op.mine \/ lost'
    BY <1>1, <1>4, <1>7 DEF ResumeInv, RepositoryOK
  <2> QED
    BY <1>1, <1>5, <1>7, <2>1, RepositoryMoves
<1> QED
  BY <1>9, <1>10, <1>11, <1>12, <1>13, <1>14 DEF ResumeInv

(* The transaction: what was seen goes, the rows of this retry come.       *)
LEMMA ResumeInserts ==
  ASSUME ResumeInv, NEW s \in Slots, ResumeAI!InsertRows(s)
  PROVE  ResumeInv'
<1> DEFINE r == ops[s].resume
           op == [ops[s] EXCEPT !.at = "finish"]
<1>1. /\ ops[s].at = "commit" /\ ops' = [ops EXCEPT ![s] = op]
      /\ history' = [history EXCEPT ![r] = (@ \ ops[s].seen) \cup {ops[s].no}]
      /\ raced' = IF \E t \in ResumeAI!Retries(r) \ {s} : ops[t].at = "commit"
                  THEN raced \cup {r} ELSE raced
      /\ UNCHANGED <<status, repository, results, actionId, uploading, searching, retries,
                     leftBehind, lost>>
  BY DEF ResumeAI!InsertRows, ResumeAI!Goes, ResumeAI!page
<1>2. /\ ops[s] \in [at : Serving, resume : Resumes, no : 1 .. MaxClicks,
                     mine : BOOLEAN, seen : SUBSET (1 .. MaxClicks)]
      /\ r \in Resumes
  BY <1>1, ResumeCarries DEF At, Serving, Works
<1>3. /\ op \in OpRecords /\ op.at = "finish" /\ op.resume = r /\ op.mine = ops[s].mine
  BY <1>1, <1>2 DEF OpRecords, Serving, Works
<1> HIDE DEF op
<1>4. ops' \in [Slots -> OpRecords] /\ ops'[s] = op /\ \A t \in Slots : t # s => ops'[t] = ops[t]
  BY <1>1, <1>3, OneMoves
<1>5. /\ At(s, Serving) /\ ~Reloading(s) /\ ~Reloading(s)' /\ ~UploadOp(s) /\ ~UploadOp(s)'
      /\ op.at \in Works /\ op.at \in Serving /\ op.at # "listed"
      /\ Holds(s)' = Holds(s) /\ ~At(s, {"search"})
  BY <1>1, <1>3, <1>4 DEF At, Serving, Works, Reloading, UploadOp, Holds
<1>6. /\ history' \in [Resumes -> SUBSET (1 .. MaxClicks)] /\ raced' \subseteq Resumes
      /\ raced \subseteq raced'
      /\ history'[r] = (history[r] \ ops[s].seen) \cup {ops[s].no}
      /\ \A q \in Resumes : q # r => history'[q] = history[q]
  BY <1>1, <1>2 DEF ResumeInv, ResumeTypes
<1>7. ResumeTypes'
  <2>1. uploading' \in BOOLEAN /\ searching' \in BOOLEAN /\ lost' \in BOOLEAN
    BY <1>1 DEF ResumeInv, ResumeTypes
  <2>2. ResumeAI!NotLoaded' = ResumeAI!NotLoaded
    BY DEF ResumeAI!NotLoaded
  <2> QED
    BY <1>1, <1>4, <1>6, <2>1, <2>2 DEF ResumeInv, ResumeTypes, ResumeAI!Statuses
<1>8. UploadsOK'
  <2> HIDE DEF UploadOp
  <2> QED
    BY <1>1, <1>3, <1>5, UploadsMove
<1>9. WorkOK'
  BY <1>1, <1>3, <1>5, WorkMoves DEF At
<1>10. HistoryOK'
  <2> SUFFICES ASSUME NEW q \in Resumes, q \notin raced'
               PROVE  /\ \A x, y \in history'[q] : x = y
                      /\ \A t \in Slots : At(t, {"commit"})' /\ ops'[t].resume = q =>
                            ops'[t].seen = history'[q]
    BY DEF HistoryOK
  <2>1. /\ \A x, y \in history[q] : x = y
        /\ \A t \in Slots : At(t, {"commit"}) /\ ops[t].resume = q => ops[t].seen = history[q]
    BY <1>6 DEF ResumeInv, HistoryOK
  <2>2. \A t \in Slots : At(t, {"commit"})' => t # s /\ ops'[t] = ops[t] /\ At(t, {"commit"})
    BY <1>3, <1>4 DEF At
  <2>3. CASE q # r
    BY <1>6, <2>1, <2>2, <2>3
  <2>4. CASE q = r
    <3>1. \A t \in Slots : At(t, {"commit"}) /\ ops[t].resume = r => t = s
      BY <1>1, <2>4
      DEF At, ResumeAI!Retries, ResumeAI!Of, ResumeAI!Serving
    <3>2. history'[q] = {ops[s].no}
      BY <1>1, <1>6, <2>1, <2>4 DEF At
    <3> QED
      BY <2>2, <2>4, <3>1, <3>2
  <2> QED
    BY <2>3, <2>4
<1>11. LocksOK'
  <2>1. searching' => op.at = "search" \/ (searching /\ ~At(s, {"search"}))
    BY <1>1, <1>5
  <2>2. actionId' # NoResume =>
           \/ Holds(s)' /\ op.resume = actionId'
           \/ actionId' = actionId /\ ~(Holds(s) /\ ops[s].resume = actionId)
    BY <1>1, <1>3, <1>5
  <2> HIDE DEF Holds
  <2> QED
    BY <1>1, <1>3, <2>1, <2>2, LocksMove
<1>12. RepositoryOK'
  <2>1. op.mine \/ lost'
    BY <1>1, <1>3, <1>5 DEF ResumeInv, RepositoryOK
  <2> QED
    BY <1>1, <1>3, <1>5, <2>1, RepositoryMoves
<1> QED
  BY <1>7, <1>8, <1>9, <1>10, <1>11, <1>12 DEF ResumeInv

(* A retry ends with an answer, right or wrong, and its mark goes.         *)
LEMMA ResumeReplies ==
  ASSUME ResumeInv, NEW s \in Slots, At(s, Serving), NEW ok \in BOOLEAN, ResumeAI!Reply(s, ok),
         UNCHANGED <<history, repository, results, uploading, searching, retries, raced>>,
         status' \in [Resumes -> ResumeAI!Statuses], leftBehind' \subseteq Resumes,
         \A r \in Resumes : status'[r] = "processing" /\ r \notin leftBehind' =>
            /\ status[r] = "processing" /\ r \notin leftBehind
            /\ ~(At(s, Works) /\ ops[s].resume = r)
  PROVE  ResumeInv'
<1> DEFINE op == IF ops[s].mine
                 THEN [at |-> "list", by |-> IF ok THEN "retried" ELSE "refused",
                       resume |-> ops[s].resume]
                 ELSE [at |-> "idle"]
           busy == \E t \in Slots : Reloading(t)
<1>1. /\ actionId' = actionId /\ ops' = [ops EXCEPT ![s] = op]
      /\ ops[s].mine => lost' = (lost \/ busy)
      /\ ~ops[s].mine => lost' = lost
  BY DEF ResumeAI!Reply, ResumeAI!Goes, ResumeAI!Load, ResumeAI!Idle, ResumeAI!Overtakes,
         ResumeAI!Of, ResumeAI!Loading, Reloading, At
<1>2. /\ ops[s] \in [at : Serving, resume : Resumes, no : 1 .. MaxClicks,
                     mine : BOOLEAN, seen : SUBSET (1 .. MaxClicks)]
  BY ResumeCarries
<1>3. /\ op \in OpRecords /\ op.at \in {"list", "idle"} /\ (op.at = "list" <=> ops[s].mine)
      /\ op.at = "list" => op.by \in {"retried", "refused"} /\ op.resume = ops[s].resume
  BY <1>2 DEF OpRecords
<1> HIDE DEF op
<1>4. ops' \in [Slots -> OpRecords] /\ ops'[s] = op /\ \A t \in Slots : t # s => ops'[t] = ops[t]
  BY <1>1, <1>3, OneMoves
<1>5. /\ ~Reloading(s) /\ (Reloading(s)' => ops[s].mine) /\ ~UploadOp(s) /\ ~UploadOp(s)'
      /\ op.at \notin Works /\ op.at \notin Serving /\ op.at \notin {"listed", "commit"}
      /\ (ops[s].mine => Holds(s)') /\ ~At(s, {"search"})
      /\ Holds(s) => ops[s].mine
  BY <1>3, <1>4 DEF At, Serving, Works, Reloading, UploadOp, Holds
<1> HIDE DEF busy
<1>6. lost' \in BOOLEAN /\ (lost' \/ lost' = lost) /\ (ops[s].mine => lost' \/ ~busy)
      /\ (~ops[s].mine => lost')
  <2>1. lost \in BOOLEAN /\ (~ops[s].mine => lost)
    BY DEF ResumeInv, ResumeTypes, RepositoryOK
  <2> QED
    BY <1>1, <2>1
<1>7. ResumeTypes'
  <2>1. uploading' \in BOOLEAN /\ searching' \in BOOLEAN
    BY DEF ResumeInv, ResumeTypes
  <2>2. ResumeAI!NotLoaded' = ResumeAI!NotLoaded
    BY DEF ResumeAI!NotLoaded
  <2> QED
    BY <1>1, <1>4, <1>6, <2>1, <2>2 DEF ResumeInv, ResumeTypes, ResumeAI!Statuses
<1>8. UploadsOK'
  <2> HIDE DEF UploadOp
  <2> QED
    BY <1>1, <1>3, <1>5, UploadsMove
<1>9. WorkOK'
  BY <1>1, <1>3, WorkMoves
<1>10. HistoryOK'
  BY <1>1, <1>3, <1>5, HistoryMoves
<1>11. LocksOK'
  <2>1. searching' => op.at = "search" \/ (searching /\ ~At(s, {"search"}))
    BY <1>5
  <2>2. actionId' # NoResume =>
           \/ Holds(s)' /\ op.resume = actionId'
           \/ actionId' = actionId /\ ~(Holds(s) /\ ops[s].resume = actionId)
    BY <1>1, <1>3, <1>5
  <2> HIDE DEF Holds
  <2> QED
    BY <1>1, <1>3, <2>1, <2>2, LocksMove
<1>12. RepositoryOK'
  <2>1. Reloading(s)' => \/ Reloading(s) \/ lost' \/ \A t \in Slots : ~Reloading(t)
    BY <1>5, <1>6 DEF busy
  <2>2. op.at \in Serving \cup {"list"} \/ lost'
    BY <1>3, <1>6
  <2>3. lost' \/ lost' = lost
    BY <1>6
  <2>4. op.at # "listed" /\ op.at \notin Serving /\ ~Reloading(s) /\ repository' = repository
    BY <1>3, <1>5
  <2> HIDE DEF Reloading
  <2> QED
    BY <1>1, <1>3, <2>1, <2>2, <2>3, <2>4, RepositoryMoves
<1> QED
  BY <1>7, <1>8, <1>9, <1>10, <1>11, <1>12 DEF ResumeInv

(* The three ends of a retry that is answered.                             *)
LEMMA ResumeEnds ==
  ASSUME ResumeInv, NEW s \in Slots,
         ResumeAI!Refuse(s) \/ ResumeAI!Fails(s) \/ ResumeAI!Completes(s)
  PROVE  ResumeInv'
<1>1. At(s, Serving)
  BY DEF ResumeAI!Refuse, ResumeAI!Fails, ResumeAI!Completes, At, Serving, Works
<1>2. ops[s].resume \in Resumes
  BY <1>1, ResumeCarries
<1>3. /\ status \in [Resumes -> ResumeAI!Statuses] /\ leftBehind \subseteq Resumes
  BY DEF ResumeInv, ResumeTypes
<1>4. CASE ResumeAI!Refuse(s)
  <2>1. /\ UNCHANGED <<history, repository, results, uploading, searching, retries, raced>>
        /\ UNCHANGED <<status, leftBehind>> /\ ResumeAI!Reply(s, FALSE) /\ ~At(s, Works)
    BY <1>4 DEF ResumeAI!Refuse, At, Works
  <2> QED
    BY <1>1, <1>3, <2>1, ResumeReplies
<1>5. ASSUME NEW value \in {"failed", "completed"}, NEW ok \in BOOLEAN,
             ResumeAI!SetStatus(s, value), ResumeAI!Reply(s, ok),
             UNCHANGED <<history, repository, results, uploading, searching, retries, raced>>
      PROVE  ResumeInv'
  <2>1. /\ status' \in [Resumes -> ResumeAI!Statuses] /\ leftBehind' \subseteq Resumes
    BY <1>2, <1>3, <1>5 DEF ResumeAI!SetStatus, ResumeAI!Statuses
  <2>2. \A r \in Resumes : status'[r] = "processing" /\ r \notin leftBehind' =>
            /\ status[r] = "processing" /\ r \notin leftBehind
            /\ ~(At(s, Works) /\ ops[s].resume = r)
    <3>1. CASE status' = [status EXCEPT ![ops[s].resume] = value] /\ UNCHANGED leftBehind
      <4>1. \A r \in Resumes : status'[r] = "processing" =>
               ops[s].resume # r /\ status[r] = "processing"
        BY <1>2, <1>3, <3>1
      <4> QED
        BY <3>1, <4>1
    <3>2. CASE leftBehind = {} /\ leftBehind' = {ops[s].resume} /\ UNCHANGED status
      BY <3>2
    <3> QED
      BY <1>5, <3>1, <3>2 DEF ResumeAI!SetStatus, ResumeAI!NoFaultYet
  <2> QED
    BY <1>1, <1>5, <2>1, <2>2, ResumeReplies
<1>6. CASE ResumeAI!Fails(s)
  BY <1>5, <1>6 DEF ResumeAI!Fails
<1>7. CASE ResumeAI!Completes(s)
  BY <1>5, <1>7 DEF ResumeAI!Completes
<1> QED
  BY <1>4, <1>6, <1>7

(* The page is told that its retry failed, and the retry goes on.          *)
LEMMA ResumeLosesAnswer ==
  ASSUME ResumeInv, NEW s \in Slots, ResumeAI!LosesAnswer(s)
  PROVE  ResumeInv'
<1> DEFINE op == [ops[s] EXCEPT !.mine = FALSE]
           load == [at |-> "list", by |-> "refused", resume |-> ops[s].resume]
<1>1. PICK t \in Slots : ops[t] = [at |-> "idle"] /\ ops' = [ops EXCEPT ![s] = op, ![t] = load]
  BY DEF ResumeAI!LosesAnswer, ResumeAI!Idle, ResumeAI!Load
<1>2. /\ At(s, Serving) /\ ops[s].mine /\ lost' = TRUE
      /\ UNCHANGED <<status, history, repository, results, actionId, uploading, searching,
                     retries, raced, leftBehind>>
  BY DEF ResumeAI!LosesAnswer, ResumeAI!page, At, Serving, Works, ResumeAI!Serving
<1>3. ops[s] \in [at : Serving, resume : Resumes, no : 1 .. MaxClicks,
                  mine : BOOLEAN, seen : SUBSET (1 .. MaxClicks)]
  BY <1>2, ResumeCarries
<1>4. /\ op \in OpRecords /\ op.at = ops[s].at /\ op.resume = ops[s].resume
      /\ op.seen = ops[s].seen
      /\ load \in OpRecords
  BY <1>3 DEF OpRecords
<1>5. t # s
  BY <1>1, <1>2 DEF At, Serving, Works
<1>6. /\ load.at = "list" /\ load.by = "refused" /\ load.resume = ops[s].resume
  OBVIOUS
<1> HIDE DEF op, load
<1>7. /\ ops' \in [Slots -> OpRecords] /\ ops'[s] = op /\ ops'[t] = load
      /\ \A u \in Slots : u # s /\ u # t => ops'[u] = ops[u]
  BY <1>1, <1>4, <1>5 DEF ResumeInv, ResumeTypes
<1>8. ResumeTypes'
  <2>1. uploading' \in BOOLEAN /\ searching' \in BOOLEAN /\ lost' \in BOOLEAN
    BY <1>2 DEF ResumeInv, ResumeTypes
  <2>2. ResumeAI!NotLoaded' = ResumeAI!NotLoaded
    BY DEF ResumeAI!NotLoaded
  <2> QED
    BY <1>2, <1>7, <2>1, <2>2 DEF ResumeInv, ResumeTypes, ResumeAI!Statuses
<1>9. /\ ~UploadOp(s) /\ ~UploadOp(s)' /\ ~UploadOp(t) /\ ~UploadOp(t)'
      /\ \A u \in Slots : u # s /\ u # t => UploadOp(u)' = UploadOp(u)
  BY <1>1, <1>2, <1>4, <1>6, <1>7 DEF UploadOp, Reloading, At, Serving, Works
<1>10. UploadsOK'
  <2> HIDE DEF UploadOp
  <2> QED
    BY <1>2, <1>9 DEF ResumeInv, UploadsOK
<1>11. \A u \in Slots : /\ At(u, Works) => At(u, Works)' /\ ops'[u].resume = ops[u].resume
                        /\ At(u, {"search"}) => At(u, {"search"})'
                        /\ At(u, {"commit"})' => /\ At(u, {"commit"})
                                                 /\ ops'[u].resume = ops[u].resume
                                                 /\ ops'[u].seen = ops[u].seen
  BY <1>1, <1>2, <1>4, <1>6, <1>7 DEF At, Serving, Works
<1>12. WorkOK' /\ HistoryOK'
  BY <1>2, <1>11 DEF ResumeInv, WorkOK, HistoryOK
<1>13. LocksOK'
  <2>1. /\ Holds(t)' /\ ops'[t].resume = ops[s].resume /\ ~Holds(t)
        /\ \A u \in Slots : u # s /\ u # t => Holds(u)' = Holds(u)
    BY <1>1, <1>6, <1>7 DEF Holds, Reloading, At, Serving, Works
  <2>2. actionId # NoResume => \E u \in Slots : Holds(u)' /\ ops'[u].resume = actionId
    <3> SUFFICES ASSUME actionId # NoResume
                 PROVE  \E u \in Slots : Holds(u)' /\ ops'[u].resume = actionId
      OBVIOUS
    <3>1. PICK u \in Slots : Holds(u) /\ ops[u].resume = actionId
      BY DEF ResumeInv, LocksOK
    <3>2. CASE u = s
      BY <2>1, <3>1, <3>2
    <3>3. CASE u # s
      BY <1>7, <2>1, <3>1, <3>3
    <3> QED
      BY <3>2, <3>3
  <2>3. searching => \E u \in Slots : At(u, {"search"})'
    BY <1>11 DEF ResumeInv, LocksOK
  <2> QED
    BY <1>2, <2>2, <2>3 DEF LocksOK
<1>14. RepositoryOK'
  BY <1>2 DEF RepositoryOK
<1> QED
  BY <1>8, <1>10, <1>12, <1>13, <1>14 DEF ResumeInv

(* The server dies: no retry is left, and whose were open stays marked.    *)
LEMMA ResumeCrashes ==
  ASSUME ResumeInv, ResumeAI!Crash
  PROVE  ResumeInv'
<1> DEFINE load(s) == [at |-> "list", by |-> "refused", resume |-> ops[s].resume]
<1>1. /\ leftBehind = {} /\ lost' = TRUE
      /\ ops' = [s \in Slots |-> IF ~At(s, Serving) THEN ops[s]
                                 ELSE IF ops[s].mine THEN load(s) ELSE [at |-> "idle"]]
      /\ UNCHANGED <<status, history, repository, results, actionId, uploading, searching,
                     retries, raced>>
  BY DEF ResumeAI!Crash, ResumeAI!NoFaultYet, ResumeAI!page, ResumeAI!Serving, ResumeAI!Load,
         ResumeAI!Idle, At, Serving, Works
<1>2. leftBehind' = {r \in Resumes : \E s \in Slots : At(s, Serving) /\ ops[s].resume = r}
  BY DEF ResumeAI!Crash, ResumeAI!Retries, ResumeAI!Of, ResumeAI!Serving, At, Serving, Works
<1>3. ASSUME NEW s \in Slots
      PROVE  /\ ops'[s] \in OpRecords
             /\ ~At(s, Serving) => ops'[s] = ops[s]
             /\ At(s, Serving) => ops'[s].at \in {"list", "idle"}
             /\ At(s, Serving) /\ ops[s].mine => /\ ops'[s].at = "list" /\ ops'[s].by = "refused"
                                                 /\ ops'[s].resume = ops[s].resume
             /\ At(s, Serving) /\ ops'[s].at = "list" => ops'[s].by = "refused"
  <2>1. ops[s] \in OpRecords /\ (At(s, Serving) => ops[s].resume \in Resumes)
    BY ResumeCarries
  <2>2. CASE ~At(s, Serving)
    BY <1>1, <2>1, <2>2
  <2>3. CASE At(s, Serving) /\ ops[s].mine
    <3>1. ops'[s] = load(s)
      BY <1>1, <2>3
    <3> QED
      BY <2>1, <2>3, <3>1 DEF OpRecords
  <2>4. CASE At(s, Serving) /\ ~ops[s].mine
    <3>1. ops'[s] = [at |-> "idle"]
      BY <1>1, <2>4
    <3> QED
      BY <2>4, <3>1 DEF OpRecords
  <2> QED
    BY <2>2, <2>3, <2>4
<1>4. ops' \in [Slots -> OpRecords]
  BY <1>1, <1>3
<1>5. ResumeTypes'
  <2>1. uploading' \in BOOLEAN /\ searching' \in BOOLEAN /\ lost' \in BOOLEAN
    BY <1>1 DEF ResumeInv, ResumeTypes
  <2>2. ResumeAI!NotLoaded' = ResumeAI!NotLoaded
    BY DEF ResumeAI!NotLoaded
  <2>3. leftBehind' \subseteq Resumes
    BY <1>2
  <2> QED
    BY <1>1, <1>4, <2>1, <2>2, <2>3 DEF ResumeInv, ResumeTypes, ResumeAI!Statuses
<1>6. UploadsOK'
  <2>1. \A s \in Slots : UploadOp(s)' = UploadOp(s)
    <3> SUFFICES ASSUME NEW s \in Slots PROVE UploadOp(s)' = UploadOp(s)
      OBVIOUS
    <3>1. CASE At(s, Serving)
      BY <1>3, <3>1 DEF UploadOp, Reloading, At, Serving, Works
    <3>2. CASE ~At(s, Serving)
      BY <1>3, <3>2 DEF UploadOp, Reloading, At
    <3> QED
      BY <3>1, <3>2
  <2> HIDE DEF UploadOp
  <2> QED
    BY <1>1, <2>1 DEF ResumeInv, UploadsOK
<1>7. WorkOK'
  <2>1. \A r \in Resumes : status[r] = "processing" => r \in leftBehind'
    BY <1>1, <1>2 DEF ResumeInv, WorkOK, At, Serving
  <2> QED
    BY <1>1, <2>1 DEF WorkOK
<1>8. HistoryOK'
  <2>1. \A s \in Slots : ~At(s, {"commit"})'
    BY <1>3 DEF At, Serving, Works
  <2> QED
    BY <1>1, <2>1 DEF ResumeInv, HistoryOK
<1>9. LocksOK'
  <2>1. \A s \in Slots : At(s, {"search"}) => At(s, {"search"})'
    BY <1>3 DEF At, Serving, Works
  <2>2. \A s \in Slots : Holds(s) => Holds(s)' /\ ops'[s].resume = ops[s].resume
    <3> SUFFICES ASSUME NEW s \in Slots, Holds(s)
                 PROVE  Holds(s)' /\ ops'[s].resume = ops[s].resume
      OBVIOUS
    <3>1. CASE At(s, Serving)
      <4>1. ops[s].mine
        BY <3>1 DEF Holds, Reloading, At, Serving, Works
      <4> QED
        BY <1>3, <3>1, <4>1 DEF Holds, Reloading, At
    <3>2. CASE ~At(s, Serving)
      BY <1>3, <3>2 DEF Holds, Reloading, At
    <3> QED
      BY <3>1, <3>2
  <2> HIDE DEF Holds
  <2> QED
    BY <1>1, <2>1, <2>2 DEF ResumeInv, LocksOK
<1>10. RepositoryOK'
  BY <1>1 DEF RepositoryOK
<1> QED
  BY <1>5, <1>6, <1>7, <1>8, <1>9, <1>10 DEF ResumeInv

(* What the page does itself leaves the server as it is.                   *)
LEMMA ResumePageMoves ==
  ASSUME ResumeInv, NEW s \in Slots, NEW op \in OpRecords, ops' = [ops EXCEPT ![s] = op],
         ~At(s, Serving), op.at \notin Serving,
         UNCHANGED <<status, history, retries, raced, leftBehind>>,
         repository' = repository \/ (ops[s].at = "listed" /\ repository' = ops[s].reply),
         results' \in {"none", "uploads", "candidates", results},
         actionId' \in {actionId, NoResume}, uploading' \in {uploading, FALSE},
         searching' \in {searching, FALSE}, lost' \in BOOLEAN,
         UploadsOK', LocksOK', RepositoryOK'
  PROVE  ResumeInv'
<1>1. ops' \in [Slots -> OpRecords]
  BY OneMoves
<1>2. ResumeTypes'
  <2>1. uploading' \in BOOLEAN /\ searching' \in BOOLEAN
    BY DEF ResumeInv, ResumeTypes
  <2>2. ResumeAI!NotLoaded' = ResumeAI!NotLoaded
    BY DEF ResumeAI!NotLoaded
  <2>3. repository' \in [Resumes -> ResumeAI!Statuses] \cup {ResumeAI!NotLoaded}
    <3>1. ops[s].at = "listed" => ops[s].reply \in [Resumes -> ResumeAI!Statuses]
      BY ResumeCarries DEF At
    <3> QED
      BY <3>1 DEF ResumeInv, ResumeTypes
  <2>4. actionId' \in Resumes \cup {NoResume} /\ results' \in {"none", "uploads", "candidates"}
    BY DEF ResumeInv, ResumeTypes
  <2> QED
    BY <1>1, <2>1, <2>2, <2>3, <2>4 DEF ResumeInv, ResumeTypes, ResumeAI!Statuses
<1>3. ~At(s, Works) /\ op.at \notin Works /\ op.at # "commit"
  BY DEF At, Serving, Works
<1>4. WorkOK'
  BY <1>3, WorkMoves
<1>5. HistoryOK'
  BY <1>3, HistoryMoves
<1> QED
  BY <1>2, <1>4, <1>5 DEF ResumeInv

(* The server answers a load.                                              *)
LEMMA ResumeServes ==
  ASSUME ResumeInv, NEW s \in Slots, ResumeAI!ServeList(s)
  PROVE  ResumeInv'
<1> DEFINE op == [at |-> "listed", by |-> ops[s].by, resume |-> ops[s].resume, reply |-> status]
<1>1. /\ ops[s].at = "list" /\ ops' = [ops EXCEPT ![s] = op]
      /\ UNCHANGED <<status, history, repository, results, actionId, uploading, searching,
                     retries, raced, leftBehind, lost>>
  BY DEF ResumeAI!ServeList, ResumeAI!Goes, ResumeAI!page, ResumeAI!ghosts
<1>2. /\ ops[s].by \in {"mount", "retried", "refused", "uploaded"}
      /\ ops[s].resume \in Resumes \cup {NoResume}
  BY <1>1, ResumeCarries DEF Reloading, At
<1>3. op \in OpRecords
  BY <1>2 DEF OpRecords, ResumeInv, ResumeTypes
<1>4. op.at = "listed" /\ op.by = ops[s].by /\ op.resume = ops[s].resume /\ op.reply = status
  OBVIOUS
<1> HIDE DEF op
<1>5. ops'[s] = op
  BY <1>1, <1>3, OneMoves
<1>6. /\ Reloading(s) /\ Reloading(s)' /\ ~At(s, Serving) /\ op.at \notin Serving
      /\ UploadOp(s)' = UploadOp(s) /\ Holds(s)' = Holds(s) /\ ~At(s, {"search"})
  BY <1>1, <1>4, <1>5 DEF Reloading, At, UploadOp, Holds, Serving, Works
<1>7. UploadsOK'
  <2> HIDE DEF UploadOp
  <2> QED
    BY <1>1, <1>3, <1>6, UploadsMove
<1>8. LocksOK'
  <2>1. actionId' # NoResume =>
           \/ Holds(s)' /\ op.resume = actionId'
           \/ actionId' = actionId /\ ~(Holds(s) /\ ops[s].resume = actionId)
    BY <1>1, <1>4, <1>6
  <2>2. searching' => op.at = "search" \/ (searching /\ ~At(s, {"search"}))
    BY <1>1, <1>6
  <2> HIDE DEF Holds
  <2> QED
    BY <1>1, <1>3, <2>1, <2>2, LocksMove
<1>9. RepositoryOK'
  <2> HIDE DEF Reloading
  <2> QED
    BY <1>1, <1>3, <1>4, <1>6, RepositoryMoves
<1>10. lost' \in BOOLEAN
  BY <1>1 DEF ResumeInv, ResumeTypes
<1> QED
  BY <1>1, <1>3, <1>6, <1>7, <1>8, <1>9, <1>10, ResumePageMoves

(* A load ends: what waited for it goes on.                                *)
LEMMA ResumeLoads ==
  ASSUME ResumeInv, NEW s \in Slots, ResumeAI!Listed(s) \/ ResumeAI!ListFails(s)
  PROVE  ResumeInv'
<1> DEFINE by == ops[s].by
           op == IF by = "retried"
                 THEN [at |-> "detail", resume |-> ops[s].resume, after |-> TRUE]
                 ELSE [at |-> "idle"]
<1>1. /\ ops' = [ops EXCEPT ![s] = op]
      /\ actionId' = IF by = "refused" THEN NoResume ELSE actionId
      /\ uploading' = IF by = "uploaded" THEN FALSE ELSE uploading
      /\ UNCHANGED <<status, history, results, searching, retries, raced, leftBehind>>
  BY DEF ResumeAI!Listed, ResumeAI!ListFails, ResumeAI!AfterLoad, ResumeAI!Goes, ResumeAI!Idle
<1>2. /\ ops[s].at \in {"list", "listed"}
      /\ \/ ops[s].at = "listed" /\ repository' = ops[s].reply /\ lost' = lost
         \/ repository' = repository /\ lost' = TRUE
  BY DEF ResumeAI!Listed, ResumeAI!ListFails, ResumeAI!Loading
<1>3. Reloading(s) /\ ~At(s, Serving) /\ ~At(s, {"search"})
  BY <1>2 DEF Reloading, At, Serving, Works
<1>4. by \in {"mount", "retried", "refused", "uploaded"} /\ ops[s].resume \in Resumes \cup {NoResume}
  BY <1>3, ResumeCarries
<1>5. op \in OpRecords
  BY <1>4 DEF OpRecords
<1>6. IF by = "retried" THEN op.at = "detail" /\ op.resume = ops[s].resume /\ op.after
      ELSE op.at = "idle"
  OBVIOUS
<1> HIDE DEF op
<1>7. ops'[s] = op
  BY <1>1, <1>5, OneMoves
<1>8. /\ op.at \notin Serving /\ op.at \notin {"list", "listed"} /\ ~Reloading(s)'
  BY <1>6, <1>7 DEF Reloading, At, Serving, Works
<1>9. UploadsOK'
  <2>1. ~UploadOp(s)' /\ (UploadOp(s) <=> by = "uploaded")
    BY <1>2, <1>3, <1>6, <1>7, <1>8 DEF UploadOp, At
  <2>2. CASE by = "uploaded"
    <3>1. uploading' = FALSE
      BY <1>1, <2>2
    <3> HIDE DEF UploadOp
    <3> QED
      BY <1>1, <1>5, <2>1, <2>2, <3>1, UploadsMove
  <2>3. CASE by # "uploaded"
    <3>1. uploading' = uploading
      BY <1>1, <2>3
    <3> HIDE DEF UploadOp
    <3> QED
      BY <1>1, <1>5, <2>1, <2>3, <3>1, UploadsMove
  <2> QED
    BY <2>2, <2>3
<1>10. LocksOK'
  <2>1. searching' => op.at = "search" \/ (searching /\ ~At(s, {"search"}))
    BY <1>1, <1>3
  <2>2. /\ Holds(s) <=> by \in {"retried", "refused"}
        /\ by = "retried" => Holds(s)'
    BY <1>2, <1>3, <1>6, <1>7 DEF Holds, At
  <2>3. actionId' # NoResume =>
           \/ Holds(s)' /\ op.resume = actionId'
           \/ actionId' = actionId /\ ~(Holds(s) /\ ops[s].resume = actionId)
    <3> HIDE DEF Holds
    <3>1. CASE by = "retried"
      BY <1>1, <1>6, <2>2, <3>1
    <3>2. CASE by = "refused"
      BY <1>1, <3>2
    <3>3. CASE by \notin {"retried", "refused"}
      BY <1>1, <2>2, <3>3
    <3> QED
      BY <3>1, <3>2, <3>3
  <2> HIDE DEF Holds
  <2> QED
    BY <1>1, <1>5, <2>1, <2>3, LocksMove
<1>11. RepositoryOK'
  <2>1. CASE lost' = TRUE
    BY <2>1 DEF RepositoryOK
  <2>2. CASE ops[s].at = "listed" /\ repository' = ops[s].reply /\ lost' = lost
    <3>1. status' = status
      BY <1>1
    <3> HIDE DEF Reloading
    <3> QED
      BY <1>1, <1>3, <1>5, <1>8, <2>2, <3>1, RepositoryMoves
  <2> QED
    BY <1>2, <2>1, <2>2
<1>12. lost' \in BOOLEAN
  BY <1>2 DEF ResumeInv, ResumeTypes
<1>13. actionId' \in {actionId, NoResume} /\ uploading' \in {uploading, FALSE}
  BY <1>1
<1>14. repository' = repository \/ (ops[s].at = "listed" /\ repository' = ops[s].reply)
  BY <1>2
<1> QED
  BY <1>1, <1>3, <1>5, <1>8, <1>9, <1>10, <1>11, <1>12, <1>13, <1>14, ResumePageMoves

(* A detail, an upload that failed and a search end.                       *)
LEMMA ResumeSettles ==
  ASSUME ResumeInv, NEW s \in Slots,
         ResumeAI!Detailed(s) \/ ResumeAI!UploadFails(s) \/ ResumeAI!Searched(s)
  PROVE  ResumeInv'
<1> DEFINE op == [at |-> "idle"]
<1>1. /\ ops[s].at \in {"detail", "upload", "search"} /\ ops' = [ops EXCEPT ![s] = op]
      /\ UNCHANGED <<status, history, repository, retries, raced, leftBehind, lost>>
      /\ results' \in {"none", "candidates", results}
      /\ actionId' = IF ops[s].at = "detail" /\ ops[s].after THEN NoResume ELSE actionId
      /\ uploading' = IF ops[s].at = "upload" THEN FALSE ELSE uploading
      /\ searching' = IF ops[s].at = "search" THEN FALSE ELSE searching
  BY DEF ResumeAI!Detailed, ResumeAI!UploadFails, ResumeAI!Searched, ResumeAI!Goes, ResumeAI!Idle,
         ResumeAI!ghosts
<1>2. op \in OpRecords /\ op.at = "idle"
  BY DEF OpRecords
<1> HIDE DEF op
<1>3. ops'[s] = op
  BY <1>1, <1>2, OneMoves
<1>4. /\ ~At(s, Serving) /\ op.at \notin Serving /\ ~Reloading(s) /\ ~Reloading(s)'
      /\ (UploadOp(s) <=> ops[s].at = "upload") /\ ~UploadOp(s)'
      /\ (Holds(s) <=> ops[s].at = "detail" /\ ops[s].after)
      /\ (At(s, {"search"}) <=> ops[s].at = "search")
  BY <1>1, <1>2, <1>3 DEF At, Serving, Works, Reloading, UploadOp, Holds
<1>5. UploadsOK'
  <2> HIDE DEF UploadOp
  <2>1. CASE ops[s].at = "upload"
    <3>1. uploading' = FALSE
      BY <1>1, <2>1
    <3> QED
      BY <1>1, <1>2, <1>4, <2>1, <3>1, UploadsMove
  <2>2. CASE ops[s].at # "upload"
    <3>1. uploading' = uploading
      BY <1>1, <2>2
    <3> QED
      BY <1>1, <1>2, <1>4, <2>2, <3>1, UploadsMove
  <2> QED
    BY <2>1, <2>2
<1>6. LocksOK'
  <2> HIDE DEF Holds
  <2>1. searching' => op.at = "search" \/ (searching /\ ~At(s, {"search"}))
    BY <1>1, <1>4
  <2>2. actionId' # NoResume =>
           \/ Holds(s)' /\ op.resume = actionId'
           \/ actionId' = actionId /\ ~(Holds(s) /\ ops[s].resume = actionId)
    BY <1>1, <1>4
  <2> QED
    BY <1>1, <1>2, <2>1, <2>2, LocksMove
<1>7. RepositoryOK'
  <2> HIDE DEF Reloading
  <2> QED
    BY <1>1, <1>2, <1>4, RepositoryMoves
<1>8. lost' \in BOOLEAN
  BY <1>1 DEF ResumeInv, ResumeTypes
<1>9. /\ actionId' \in {actionId, NoResume} /\ uploading' \in {uploading, FALSE}
      /\ searching' \in {searching, FALSE}
      /\ results' \in {"none", "uploads", "candidates", results}
  BY <1>1
<1> QED
  BY <1>1, <1>2, <1>4, <1>5, <1>6, <1>7, <1>8, <1>9, ResumePageMoves

(* After an upload the page loads its repository.                          *)
LEMMA ResumeUploaded ==
  ASSUME ResumeInv, NEW s \in Slots, ResumeAI!Uploaded(s)
  PROVE  ResumeInv'
<1> DEFINE op == [at |-> "list", by |-> "uploaded", resume |-> NoResume]
           busy == \E t \in Slots : Reloading(t)
<1>1. /\ ops[s].at = "upload" /\ ops' = [ops EXCEPT ![s] = op] /\ results' = "uploads"
      /\ lost' = (lost \/ busy)
      /\ UNCHANGED <<status, history, repository, actionId, uploading, searching, retries, raced,
                     leftBehind>>
  BY DEF ResumeAI!Uploaded, ResumeAI!Goes, ResumeAI!Load, ResumeAI!Overtakes, ResumeAI!Of,
         ResumeAI!Loading, Reloading, At
<1>2. op \in OpRecords /\ op.at = "list" /\ op.by = "uploaded"
  BY DEF OpRecords
<1> HIDE DEF op
<1>3. ops'[s] = op
  BY <1>1, <1>2, OneMoves
<1>4. /\ ~At(s, Serving) /\ op.at \notin Serving /\ ~Reloading(s)
      /\ UploadOp(s) /\ UploadOp(s)' /\ ~Holds(s) /\ ~At(s, {"search"})
  BY <1>1, <1>2, <1>3 DEF At, Serving, Works, Reloading, UploadOp, Holds
<1> HIDE DEF busy
<1>5. lost' \in BOOLEAN /\ (lost' \/ lost' = lost) /\ (lost' \/ ~busy)
  BY <1>1 DEF ResumeInv, ResumeTypes
<1>6. UploadsOK'
  <2> HIDE DEF UploadOp
  <2> QED
    BY <1>1, <1>2, <1>4, UploadsMove
<1>7. LocksOK'
  <2>1. searching' => op.at = "search" \/ (searching /\ ~At(s, {"search"}))
    BY <1>1, <1>4
  <2> HIDE DEF Holds
  <2> QED
    BY <1>1, <1>2, <1>4, <2>1, LocksMove
<1>8. RepositoryOK'
  <2>1. Reloading(s)' => \/ Reloading(s) \/ lost' \/ \A t \in Slots : ~Reloading(t)
    BY <1>5 DEF busy
  <2>2. lost' \/ lost' = lost
    BY <1>5
  <2> HIDE DEF Reloading
  <2> QED
    BY <1>1, <1>2, <1>4, <2>1, <2>2, RepositoryMoves
<1> QED
  BY <1>1, <1>2, <1>4, <1>5, <1>6, <1>7, <1>8, ResumePageMoves

(* Every step keeps the invariant.                                         *)
LEMMA ResumeStep == ResumeInv /\ [ResumeAI!Next]_(ResumeAI!vars) => ResumeInv'
<1> SUFFICES ASSUME ResumeInv, [ResumeAI!Next]_(ResumeAI!vars) PROVE ResumeInv'
  OBVIOUS
<1>1. CASE UNCHANGED ResumeAI!vars
  BY <1>1 DEF ResumeAI!vars, ResumeAI!page, ResumeAI!ghosts, ResumeInv, ResumeTypes, UploadsOK,
     WorkOK, HistoryOK, LocksOK, RepositoryOK, Holds, UploadOp, Reloading, At, ResumeAI!NotLoaded
<1>2. CASE \/ \E r \in Resumes : ResumeAI!ClickRetry(r) \/ ResumeAI!RetryElsewhere(r)
           \/ ResumeAI!ShowDetail \/ ResumeAI!ClickUpload \/ ResumeAI!Search
  BY <1>2, ResumeStarts
<1>3. CASE ResumeAI!Crash
  BY <1>3, ResumeCrashes
<1>4. ASSUME NEW s \in Slots,
             \/ ResumeAI!Refuse(s) \/ ResumeAI!StartParsing(s) \/ ResumeAI!Fails(s)
             \/ ResumeAI!DeleteRows(s) \/ ResumeAI!InsertRows(s) \/ ResumeAI!Completes(s)
             \/ ResumeAI!LosesAnswer(s) \/ ResumeAI!ServeList(s) \/ ResumeAI!Listed(s)
             \/ ResumeAI!ListFails(s) \/ ResumeAI!Detailed(s) \/ ResumeAI!Uploaded(s)
             \/ ResumeAI!UploadFails(s) \/ ResumeAI!Searched(s)
      PROVE  ResumeInv'
  BY <1>4, ResumeEnds, ResumeWorks, ResumeInserts, ResumeLosesAnswer, ResumeServes, ResumeLoads,
     ResumeSettles, ResumeUploaded
<1> QED
  BY <1>1, <1>2, <1>3, <1>4 DEF ResumeAI!Next

(* What ResumePage promises follows from its invariant.                    *)
LEMMA ResumePromises ==
  ResumeInv => /\ ResumeAI!TypeOK /\ ResumeAI!HistoryOnce /\ ResumeAI!ProcessingMeansWork
               /\ ResumeAI!RepositoryCatchesUp /\ ResumeAI!ButtonsComeBack
<1> SUFFICES ASSUME ResumeInv
             PROVE  /\ ResumeAI!TypeOK /\ ResumeAI!HistoryOnce /\ ResumeAI!ProcessingMeansWork
                    /\ ResumeAI!RepositoryCatchesUp /\ ResumeAI!ButtonsComeBack
  OBVIOUS
<1> DEFINE open == ResumeAI!Of({"upload"})
                     \cup {s \in ResumeAI!Of(ResumeAI!Loading) : ops[s].by = "uploaded"}
<1>1. ResumeAI!TypeOK
  <2>1. open = {s \in Slots : UploadOp(s)}
    BY DEF ResumeAI!Of, ResumeAI!Loading, UploadOp, Reloading, At
  <2>2. Cardinality(open) = IF uploading THEN 1 ELSE 0
    <3>1. (uploading <=> \E s \in Slots : UploadOp(s)) /\ \A s, t \in open : s = t
      BY <2>1 DEF ResumeInv, UploadsOK
    <3>2. Cardinality(open) \in {0, 1} /\ (Cardinality(open) = 0 <=> open = {})
      BY <3>1, AtMostOne
    <3>3. open # {} <=> uploading
      BY <2>1, <3>1
    <3> HIDE DEF open
    <3> QED
      BY <3>2, <3>3
  <2>3. ResumeAI!Cardinality(open) = Cardinality(open)
    BY DEF ResumeAI!Cardinality, Cardinality
  <2>4. \A s \in Slots : ops[s].at \in ResumeAI!Serving \cup ResumeAI!Loading
                           \cup {"idle", "detail", "upload", "search"}
    <3> SUFFICES ASSUME NEW s \in Slots
                 PROVE  ops[s].at \in ResumeAI!Serving \cup ResumeAI!Loading
                           \cup {"idle", "detail", "upload", "search"}
      OBVIOUS
    <3>1. ops[s] \in OpRecords
      BY ResumeCarries
    <3> QED
      BY <3>1 DEF OpRecords, Serving, Works, ResumeAI!Serving, ResumeAI!Loading
  <2> HIDE DEF open
  <2>5. ResumeAI!Cardinality(open) = IF uploading THEN 1 ELSE 0
    BY <2>2, <2>3
  <2> QED
    BY <2>4, <2>5 DEF ResumeAI!TypeOK, ResumeInv, ResumeTypes, open
<1>2. ResumeAI!HistoryOnce
  <2> SUFFICES ASSUME NEW r \in Resumes, r \notin raced
               PROVE  ResumeAI!Cardinality(history[r]) <= 1
    BY DEF ResumeAI!HistoryOnce
  <2>1. \A x, y \in history[r] : x = y
    BY DEF ResumeInv, HistoryOK
  <2>2. Cardinality(history[r]) \in {0, 1}
    BY <2>1, AtMostOne
  <2>3. ResumeAI!Cardinality(history[r]) = Cardinality(history[r])
    BY DEF ResumeAI!Cardinality, Cardinality
  <2> QED
    BY <2>2, <2>3
<1>3. ResumeAI!ProcessingMeansWork
  BY DEF ResumeAI!ProcessingMeansWork, ResumeAI!Retries, ResumeAI!Of, ResumeAI!Serving, ResumeInv,
         WorkOK, At, Works
<1>4. ResumeAI!RepositoryCatchesUp
  <2> SUFFICES ASSUME repository # ResumeAI!NotLoaded, ~lost, ResumeAI!Of({"idle"}) = Slots
               PROVE  repository = status
    BY DEF ResumeAI!RepositoryCatchesUp
  <2>1. \A s \in Slots : ~At(s, Serving) /\ ~Reloading(s)
    BY DEF ResumeAI!Of, At, Serving, Works, Reloading
  <2> QED
    BY <2>1 DEF ResumeInv, RepositoryOK
<1>5. ResumeAI!ButtonsComeBack
  <2>1. searching => ResumeAI!Of({"search"}) # {}
    BY DEF ResumeInv, LocksOK, At, ResumeAI!Of
  <2>2. ASSUME actionId # NoResume
        PROVE  \E s \in Slots :
                  \/ s \in ResumeAI!Retries(actionId) /\ ops[s].mine
                  \/ ops[s].at \in ResumeAI!Loading /\ ops[s].by \in {"retried", "refused"}
                                                    /\ ops[s].resume = actionId
                  \/ ops[s].at = "detail" /\ ops[s].after /\ ops[s].resume = actionId
    <3>1. PICK s \in Slots : Holds(s) /\ ops[s].resume = actionId
      BY <2>2 DEF ResumeInv, LocksOK
    <3> QED
      BY <3>1 DEF Holds, Reloading, At, Serving, Works, ResumeAI!Retries, ResumeAI!Of,
                  ResumeAI!Serving, ResumeAI!Loading
  <2> QED
    BY <2>1, <2>2 DEF ResumeAI!ButtonsComeBack
<1> QED
  BY <1>1, <1>2, <1>3, <1>4, <1>5

-----------------------------------------------------------------------------
(* The states of all seven parts are states of their components; among it, *)
(* that seats and emails stay unique, that one upload is in flight at most *)
(* and only while its button is off, and that the candidates page shows a  *)
(* list of its own while it loads.                                         *)
THEOREM PagesTypes == PagesSpec => []PagesTypeOK
<1>1. PagesSpec => []TypeOK
  BY PartsOf, UserTypes, PTL
<1>2. PagesSpec => []AdminUsers!TypeOK
  BY PartsOf, AdminInit, AdminPageStep, AdminPromises, PTL DEF AdminUsers!Spec
<1>3. PagesSpec => []CandidateList!TypeOK
  BY PartsOf, CandidateInit, CandidateStep, CandidatePromises, PTL DEF CandidateList!Spec
<1>4. PagesSpec => []InterviewDetails!TypeOK
  BY PartsOf, InterviewInit, InterviewStep, InterviewTypes, PTL DEF InterviewDetails!Spec
<1>5. PagesSpec => []Billing!TypeOK
  BY PartsOf, BillingInit, BillingStep, BillingPromises, PTL DEF Billing!Spec
<1>6. PagesSpec => []Checkout!TypeOK
  BY PartsOf, CheckoutInit, CheckoutStep, CheckoutTypes, PTL DEF Checkout!Spec
<1>7. PagesSpec => []ResumeAI!TypeOK
  BY PartsOf, ResumeInit, ResumeStep, ResumePromises, PTL DEF ResumeAI!Spec
<1> QED
  BY <1>1, <1>2, <1>3, <1>4, <1>5, <1>6, <1>7, PTL DEF PagesTypeOK

(* However requests and answers interleave, a page with nothing in flight  *)
(* shows what the server has, unless it was told a mistake or overtaken:   *)
(* users and seats, stages, the interview, the worklist and the statuses   *)
(* of resumes.                                                             *)
THEOREM CatchUp == PagesSpec => []PagesCatchUp
<1>1. PagesSpec => []AdminUsers!ListAndSeatsCatchUp
  BY PartsOf, AdminInit, AdminPageStep, AdminPromises, PTL DEF AdminUsers!Spec
<1>2. PagesSpec => []CandidateList!StagesInStep
  BY PartsOf, CandidateInit, CandidateStep, CandidatePromises, PTL DEF CandidateList!Spec
<1>3. PagesSpec => []InterviewDetails!DetailsCatchUp
  BY PartsOf, InterviewInit, InterviewStep, InterviewCatchesUp, PTL DEF InterviewDetails!Spec
<1>4. PagesSpec => []Billing!WorklistCatchesUp
  BY PartsOf, BillingInit, BillingStep, BillingPromises, PTL DEF Billing!Spec
<1>5. PagesSpec => []ResumeAI!RepositoryCatchesUp
  BY PartsOf, ResumeInit, ResumeStep, ResumePromises, PTL DEF ResumeAI!Spec
<1> QED
  BY <1>1, <1>2, <1>3, <1>4, <1>5, PTL DEF PagesCatchUp

(* No button of the billing and the resume page stays locked, and no       *)
(* resume stays 'processing', when the work it stands for has ended.       *)
THEOREM WaitingWorks == PagesSpec => []WaitingMeansWork
<1>1. PagesSpec => []Billing!WaitingMeansWork
  BY PartsOf, BillingInit, BillingStep, BillingPromises, PTL DEF Billing!Spec
<1>2. PagesSpec => [](ResumeAI!ButtonsComeBack /\ ResumeAI!ProcessingMeansWork)
  BY PartsOf, ResumeInit, ResumeStep, ResumePromises, PTL DEF ResumeAI!Spec
<1> QED
  BY <1>1, <1>2, PTL DEF WaitingMeansWork

(* One form and one dialog serve all rows, and what was entered for a user *)
(* or a candidate reaches that one; a candidate has what a resume tells    *)
(* once, after any number of retries of which no two overlap.              *)
THEOREM RowsReached == PagesSpec => []WritesReachTheirRow
<1>1. PagesSpec => []AdminUsers!EditsReachTheirUser
  BY PartsOf, AdminInit, AdminPageStep, AdminPromises, PTL DEF AdminUsers!Spec
<1>2. PagesSpec => []CandidateList!FilesReachTheirCandidate
  BY PartsOf, CandidateInit, CandidateStep, CandidatePromises, PTL DEF CandidateList!Spec
<1>3. PagesSpec => []ResumeAI!HistoryOnce
  BY PartsOf, ResumeInit, ResumeStep, ResumePromises, PTL DEF ResumeAI!Spec
<1> QED
  BY <1>1, <1>2, <1>3, PTL DEF WritesReachTheirRow

(* The handlers of users keep their promises beside the pages too.         *)
THEOREM UsersKept == PagesSpec => [](SeatsKept /\ BothOrNeither)
  BY PartsOf, SeatLimitHolds, DatabasesAgree, PTL
=============================================================================
