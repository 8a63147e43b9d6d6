----------------------------- MODULE UserAccounts -----------------------------
(***************************************************************************)
(* backend/handlers/user_management_handlers.go: the users of one tenant   *)
(* lie in its own database, and each has an account in the control         *)
(* database.  No transaction spans the two, so each handler writes to the  *)
(* tenant first and takes that write back when the control plane fails.    *)
(*   CreateUser   under an advisory lock: count, insert, account, commit   *)
(*   UpdateUser   read, update, account                                    *)
(*   DeleteUser   read, delete, account                                    *)
(* Only CreateUser takes the lock.  The server may die between two steps;  *)
(* the control transaction and its lock are gone then, the rest stays.     *)
(***************************************************************************)
EXTENDS Naturals, FiniteSets

CONSTANTS Users,      \* ids a user row may get (serial, never used twice)
          Admin,      \* the administrator, who is there from the start
          Emails, AdminEmail,
          Requests,   \* requests the server has at a time (bound)
          NoRequest,
          Limit,      \* user_limit of the subscription
          MaxCalls,   \* requests in a behaviour (bound)
          MaxFaults   \* statements that fail and crashes (bound)

ASSUME UsersAssumption == IsFiniteSet(Users) /\ Admin \in Users
ASSUME LimitAssumption == Limit \in Nat \ {0}
ASSUME RequestAssumption == NoRequest \notin Requests
ASSUME EmailAssumption == "none" \notin Emails \cup {AdminEmail}
ASSUME BoundAssumption == MaxCalls \in Nat /\ MaxFaults \in Nat

VARIABLES
    users,      \* tenant database: email of each row
    accounts,   \* control database: email of each account
    used,       \* ids given out
    lock,       \* holder of the advisory lock
    reqs,       \* the requests
    restored,   \* rows that a failed deletion has inserted again
    marred,     \* users whose two rows a fault or an overlap may have parted
    calls, faults

rows == <<users, accounts, used>>
vars == <<users, accounts, used, lock, reqs, restored, marred, calls, faults>>

None == "none"
Idle == [at |-> "idle"]
Rows(f) == {u \in Users : f[u] # None}
Free(e) == \A u \in Users : users[u] # e    \* emails are unique in the tenant
On(u) == {r \in Requests : reqs[r].at \notin {"idle", "count", "insert"} /\ reqs[r].user = u}

Request ==
    {Idle}
    \cup [at : {"count", "insert"}, email : Emails]
    \cup [at : {"account", "commit", "takeBack", "takeBackUnlocked"}, user : Users, email : Emails]
    \cup [at : {"update", "updateAccount", "revert"}, user : Users, email : Emails, old : Emails]
    \cup [at : {"delete", "deleteAccount", "reinsert"}, user : Users, old : Emails]

(* Emails are unique, and rows have ids that were given out.               *)
TablesOK ==
    /\ users \in [Users -> Emails \cup {None, AdminEmail}]
    /\ accounts \in [Users -> Emails \cup {None, AdminEmail}]
    /\ used \subseteq Users
    /\ restored \subseteq Users /\ marred \subseteq Users
    /\ calls \in 0 .. MaxCalls /\ faults \in 0 .. MaxFaults
    /\ \A u, v \in Rows(users) : users[u] = users[v] => u = v
    /\ Rows(users) \cup Rows(accounts) \subseteq used

(* The lock is held while the seats are counted and taken.                 *)
Locked == {"count", "insert", "account", "commit", "takeBack"}
RequestsOK ==
    /\ lock \in Requests \cup {NoRequest}
    /\ reqs \in [Requests -> Request]
    /\ \A r \in Requests : reqs[r].at \in Locked => lock = r

TypeOK == TablesOK /\ RequestsOK

Init ==
    /\ users = [u \in Users |-> IF u = Admin THEN AdminEmail ELSE None]
    /\ accounts = users
    /\ used = {Admin}
    /\ lock = NoRequest
    /\ reqs = [r \in Requests |-> Idle]
    /\ restored = {} /\ marred = {}
    /\ calls = 0 /\ faults = 0

-----------------------------------------------------------------------------
Goes(r, to) == reqs' = [reqs EXCEPT ![r] = to]
Ends(r) == Goes(r, Idle)
Called == calls < MaxCalls /\ calls' = calls + 1
Fault == faults < MaxFaults /\ faults' = faults + 1
Release(r) == lock' = IF lock = r THEN NoRequest ELSE lock
Mar(u) == marred' = marred \cup {u}

(* CreateUser: pg_advisory_xact_lock waits for the others.                 *)
CreateUser(r, e) ==
    /\ reqs[r] = Idle
    /\ lock = NoRequest
    /\ Called
    /\ lock' = r
    /\ Goes(r, [at |-> "count", email |-> e])
    /\ UNCHANGED <<rows, restored, marred, faults>>

\* the limit compared with > instead of >=
CountUsersMutant(r) ==
    /\ reqs[r].at = "count"
    /\ IF Cardinality(Rows(users)) > Limit
       THEN Ends(r) /\ Release(r)
       ELSE Goes(r, [reqs[r] EXCEPT !.at = "insert"]) /\ UNCHANGED lock
    /\ UNCHANGED <<rows, restored, marred, calls, faults>>

(* A statement that fails before anything is written ends the request as   *)
(* this refusal does.                                                      *)
CountUsers(r) ==
    /\ reqs[r].at = "count"
    /\ IF Cardinality(Rows(users)) >= Limit
       THEN Ends(r) /\ Release(r)
       ELSE Goes(r, [reqs[r] EXCEPT !.at = "insert"]) /\ UNCHANGED lock
    /\ UNCHANGED <<rows, restored, marred, calls, faults>>

InsertUser(r) ==
    /\ reqs[r].at = "insert"
    /\ IF Free(reqs[r].email)
       THEN \E u \in Users \ used :
               /\ users' = [users EXCEPT ![u] = reqs[r].email]
               /\ used' = used \cup {u}
               /\ Goes(r, [at |-> "account", user |-> u, email |-> reqs[r].email])
               /\ UNCHANGED lock
       ELSE Ends(r) /\ Release(r) /\ UNCHANGED <<users, used>>
    /\ UNCHANGED <<accounts, restored, marred, calls, faults>>

(* The account is inserted in the transaction, where nobody sees it yet.   *)
InsertAccount(r) ==
    /\ reqs[r].at = "account"
    /\ \/ Goes(r, [reqs[r] EXCEPT !.at = "commit"]) /\ UNCHANGED faults
       \/ Goes(r, [reqs[r] EXCEPT !.at = "takeBack"]) /\ Fault
    /\ UNCHANGED <<rows, lock, restored, marred, calls>>

\* the user is not taken back when the commit fails
CommitMutant(r) ==
    /\ reqs[r].at = "commit"
    /\ Release(r)
    /\ Ends(r)
    /\ \/ accounts' = [accounts EXCEPT ![reqs[r].user] = reqs[r].email] /\ UNCHANGED faults
       \/ Fault /\ UNCHANGED accounts
    /\ UNCHANGED <<users, used, restored, marred, calls>>

(* A commit ends the transaction and its lock, whatever becomes of it.  An *)
(* error may hide a commit that happened.                                  *)
Commit(r) ==
    /\ reqs[r].at = "commit"
    /\ Release(r)
    /\ LET u == reqs[r].user
           done == [accounts EXCEPT ![u] = reqs[r].email]
       IN  \/ accounts' = done /\ Ends(r) /\ UNCHANGED <<faults, marred>>
           \/ /\ Fault
              /\ Goes(r, [reqs[r] EXCEPT !.at = "takeBackUnlocked"])
              /\ \/ UNCHANGED <<accounts, marred>>
                 \/ accounts' = done /\ Mar(u)
    /\ UNCHANGED <<users, used, restored, calls>>

(* The compensating DELETE, whose own error nobody looks at.               *)
TakeBack(r) ==
    /\ reqs[r].at \in {"takeBack", "takeBackUnlocked"}
    /\ \/ users' = [users EXCEPT ![reqs[r].user] = None] /\ UNCHANGED <<faults, marred>>
       \/ Fault /\ Mar(reqs[r].user) /\ UNCHANGED users
    /\ Ends(r)
    /\ Release(r)
    /\ UNCHANGED <<accounts, used, restored, calls>>

-----------------------------------------------------------------------------
(* UpdateUser and DeleteUser read the row first and refuse the admin.      *)
Editable(u) == u # Admin /\ users[u] # None
Overlap(u) == marred' = IF On(u) = {} THEN marred ELSE marred \cup {u}

ReadForUpdate(r, u, e) ==
    /\ reqs[r] = Idle
    /\ Editable(u)
    /\ Called
    /\ Overlap(u)
    /\ Goes(r, [at |-> "update", user |-> u, email |-> e, old |-> users[u]])
    /\ UNCHANGED <<rows, lock, restored, faults>>

(* An UPDATE of a row that is gone changes nothing and is no error.        *)
Set(f, u, e) == IF f[u] = None THEN f ELSE [f EXCEPT ![u] = e]
Taken(u, e) == \E v \in Users \ {u} : users[v] = e

UpdateUser(r) ==
    /\ reqs[r].at = "update"
    /\ LET u == reqs[r].user e == reqs[r].email
       IN  IF users[u] # None /\ Taken(u, e)
           THEN Ends(r) /\ UNCHANGED users
           ELSE users' = Set(users, u, e) /\ Goes(r, [reqs[r] EXCEPT !.at = "updateAccount"])
    /\ UNCHANGED <<accounts, used, lock, restored, marred, calls, faults>>

(* As with Commit, an error may hide an UPDATE that took effect.           *)
UpdateAccount(r) ==
    /\ reqs[r].at = "updateAccount"
    /\ \/ /\ accounts' = Set(accounts, reqs[r].user, reqs[r].email)
          /\ Ends(r)
          /\ UNCHANGED <<faults, marred>>
       \/ /\ Fault
          /\ Goes(r, [reqs[r] EXCEPT !.at = "revert"])
          /\ \/ UNCHANGED <<accounts, marred>>
             \/ /\ accounts' = Set(accounts, reqs[r].user, reqs[r].email)
                /\ Mar(reqs[r].user)
    /\ UNCHANGED <<users, used, lock, restored, calls>>

(* ... and the email may have been given to another user meanwhile.        *)
Revert(r) ==
    /\ reqs[r].at = "revert"
    /\ LET u == reqs[r].user old == reqs[r].old
           works == users[u] = None \/ ~Taken(u, old)
       IN  \/ works /\ users' = Set(users, u, old) /\ UNCHANGED <<faults, marred>>
           \/ ~works /\ Mar(u) /\ UNCHANGED <<users, faults>>
           \/ Fault /\ Mar(u) /\ UNCHANGED users
    /\ Ends(r)
    /\ UNCHANGED <<accounts, used, lock, restored, calls>>

ReadForDelete(r, u) ==
    /\ reqs[r] = Idle
    /\ Editable(u)
    /\ Called
    /\ Overlap(u)
    /\ Goes(r, [at |-> "delete", user |-> u, old |-> users[u]])
    /\ UNCHANGED <<rows, lock, restored, faults>>

DeleteUser(r) ==
    /\ reqs[r].at = "delete"
    /\ users' = [users EXCEPT ![reqs[r].user] = None]
    /\ Goes(r, [reqs[r] EXCEPT !.at = "deleteAccount"])
    /\ UNCHANGED <<accounts, used, lock, restored, marred, calls, faults>>

DeleteAccount(r) ==
    /\ reqs[r].at = "deleteAccount"
    /\ \/ /\ accounts' = [accounts EXCEPT ![reqs[r].user] = None]
          /\ Ends(r)
          /\ UNCHANGED <<faults, marred>>
       \/ /\ Fault
          /\ Goes(r, [reqs[r] EXCEPT !.at = "reinsert"])
          /\ \/ UNCHANGED <<accounts, marred>>
             \/ /\ accounts' = [accounts EXCEPT ![reqs[r].user] = None]
                /\ Mar(reqs[r].user)
    /\ UNCHANGED <<users, used, lock, restored, calls>>

(* The row comes back without a look at the limit; its id or its email may *)
(* be in use, by another restoring of it or by another user.               *)
Reinsert(r) ==
    /\ reqs[r].at = "reinsert"
    /\ LET u == reqs[r].user old == reqs[r].old
           works == users[u] = None /\ Free(old)
       IN  \/ /\ works
              /\ users' = [users EXCEPT ![u] = old]
              /\ restored' = restored \cup {u}
              /\ UNCHANGED <<faults, marred>>
           \/ ~works /\ Mar(u) /\ UNCHANGED <<users, restored, faults>>
           \/ Fault /\ Mar(u) /\ UNCHANGED <<users, restored>>
    /\ Ends(r)
    /\ UNCHANGED <<accounts, used, lock, calls>>

-----------------------------------------------------------------------------
(* The server dies: requests end where they are, and the session that held *)
(* the lock is closed.                                                     *)
Crash ==
    /\ \E r \in Requests : reqs[r] # Idle
    /\ Fault
    /\ marred' = marred \cup {u \in Users : On(u) # {}}
    /\ reqs' = [r \in Requests |-> Idle]
    /\ lock' = NoRequest
    /\ UNCHANGED <<rows, restored, calls>>

Step(r) ==
    \/ CountUsers(r) \/ InsertUser(r) \/ InsertAccount(r) \/ Commit(r) \/ TakeBack(r)
    \/ UpdateUser(r) \/ UpdateAccount(r) \/ Revert(r)
    \/ DeleteUser(r) \/ DeleteAccount(r) \/ Reinsert(r)

Next ==
    \/ \E r \in Requests : Step(r)
    \/ \E r \in Requests, e \in Emails : CreateUser(r, e)
    \/ \E r \in Requests, u \in Users, e \in Emails : ReadForUpdate(r, u, e)
    \/ \E r \in Requests, u \in Users : ReadForDelete(r, u)
    \/ Crash

Spec == Init /\ [][Next]_vars

-----------------------------------------------------------------------------
(* Concurrent creations never take more seats than the subscription has;   *)
(* only a deletion that is taken back can go past it, by the user it       *)
(* restores.                                                               *)
SeatsKept == Cardinality(Rows(users) \ restored) <= Limit

(* Once nobody works on a user, the user is in both databases with one     *)
(* email or in neither, unless the server died on the way, a compensation  *)
(* failed too, an error hid a write that took effect, or two requests      *)
(* changed this user at the same time.                                     *)
BothOrNeither ==
    \A u \in Users : u \notin marred /\ On(u) = {} => users[u] = accounts[u]
=============================================================================
