------------------------ MODULE TenantLifecycle_proofs ------------------------
(***************************************************************************)
(* Proofs about TenantLifecycle, for every set of users, requests and      *)
(* sweeps and every number of failures.                                    *)
(***************************************************************************)
EXTENDS TenantLifecycle, TLAPS

Provisioning == {"admitted", "marked", "created", "initialized", "seeded",
                 "provisioned", "accounted"}

(* A request that provisions knows its caller.                             *)
LEMMA RequestShape ==
    ASSUME NEW r \in Requests
    PROVE  /\ r.at \in Provisioning \cup {"idle", "opening"}
           /\ r.at \in Provisioning => r.caller \in Callers
  BY DEF Requests, Idle, Provisioning

(* A sweep carries what the place it has reached needs.                    *)
LEMMA SweepShape ==
    ASSUME NEW s \in Sweeps
    PROVE  /\ s.at \in {"idle", "expiring", "recording", "recorded", "listed", "locked",
                        "terminated", "evicted", "archiving", "archived", "dropped"}
           /\ s.at \in {"recording", "archiving"} => s.found \subseteq Users
           /\ s.at \in {"terminated", "evicted", "archiving", "archived"} =>
                 s.reason \in Reasons
  BY DEF Sweeps, Idle

(* A request that moves on is a request.                                   *)
LEMMA MoveTypes ==
    ASSUME TypeOK, NEW w \in Provisioners, NEW from \in Provisioning,
           NEW to \in Provisioning, Move(w, from, to)
    PROVE  request' \in [Provisioners -> Requests]
<1>1. [at |-> to, caller |-> request[w].caller] \in Requests
  <2>1. request[w].caller \in Callers
    BY RequestShape DEF TypeOK, Move
  <2> QED BY <2>1 DEF Requests, Provisioning
<1> QED BY <1>1 DEF TypeOK, Move

(* A request that ends is idle.                                            *)
LEMMA EndTypes ==
    ASSUME TypeOK, NEW w \in Provisioners
    PROVE  [request EXCEPT ![w] = Idle] \in [Provisioners -> Requests]
  BY DEF TypeOK, Requests

(* A sweep that moves on is a sweep.                                       *)
LEMMA SweepToTypes ==
    ASSUME TypeOK, NEW w \in Sweepers, NEW from, NEW state \in Sweeps, SweepTo(w, from, state)
    PROVE  sweep' \in [Sweepers -> Sweeps]
  BY DEF TypeOK, SweepTo

(* So is one that ends, and it gives the lock back.                        *)
LEMMA EndSweepTypes ==
    ASSUME TypeOK, NEW w \in Sweepers, EndSweep(w)
    PROVE  /\ sweep' \in [Sweepers -> Sweeps]
           /\ deleteLock' \in Sweepers \cup {NoWorker}
  BY DEF TypeOK, EndSweep, Sweeps

(* The status of a tenant that is not there is not set.                    *)
LEMMA SetProvisioningTypes ==
    ASSUME TypeOK, NEW st \in ProvisioningStatuses \ {"none"}, SetProvisioning(st)
    PROVE  /\ provisioning' \in ProvisioningStatuses
           /\ provisioning' = "none" <=> account = "none"
  BY DEF TypeOK, SetProvisioning, Exists, ProvisioningStatuses

(* Failures are counted within their bound.                                *)
LEMMA FallibleTypes ==
    ASSUME TypeOK, Fallible
    PROVE  failures' \in 0 .. MaxFailures
  BY MaxFailuresAssumption DEF TypeOK, Fallible

(* The identities to record are users.                                     *)
LEMMA IdentitiesType == TypeOK => Identities \subseteq Users
  BY OwnerAssumption DEF TypeOK, Identities

(* What is recorded is a ledger.                                           *)
LEMMA RecordedType ==
    ASSUME TypeOK, NEW found, NEW reason \in Reasons
    PROVE  Recorded(found, reason) \in [Users -> Reasons \cup {"none"}]
  BY DEF TypeOK, Recorded

(* The first states are of the type.                                       *)
LEMMA InitType == Init => TypeOK
<1> SUFFICES ASSUME Init PROVE TypeOK
  OBVIOUS
<1>1. request \in [Provisioners -> Requests]
  <2>1. [at |-> "admitted", caller |-> "registration"] \in Requests /\ Idle \in Requests
    BY DEF Requests, Callers
  <2> QED BY <2>1 DEF Init
<1>2. sweep \in [Sweepers -> Sweeps]
  BY DEF Init, Sweeps
<1>3. ledger \in [Users -> Reasons \cup {"none"}] /\ failures \in 0 .. MaxFailures
  BY MaxFailuresAssumption DEF Init
<1>4. /\ clock \in Phases /\ account \in AccountStatuses
      /\ provisioning \in ProvisioningStatuses
      /\ provisioning = "none" <=> account = "none"
  BY DEF Init, Phases, AccountStatuses, ProvisioningStatuses
<1> QED BY <1>1, <1>2, <1>3, <1>4 DEF Init, TypeOK

-----------------------------------------------------------------------------
(* The steps of time, of the server's death and of a user's creation.      *)
LEMMA TimeTypes ==
    ASSUME TypeOK
    PROVE  /\ Tick => TypeOK'
           /\ TokensExpire => TypeOK'
           /\ Crash => TypeOK'
           /\ \A u \in Users : AddUser(u) => TypeOK'
<1>1. ASSUME Tick PROVE TypeOK'
  BY <1>1 DEF TypeOK, Tick, Phases, control, tenant
<1>2. ASSUME TokensExpire PROVE TypeOK'
  BY <1>2 DEF TypeOK, TokensExpire, control, tenant
<1>3. ASSUME Crash PROVE TypeOK'
  BY <1>3, FallibleTypes DEF TypeOK, Crash, control, tenant, Requests, Sweeps
<1>4. ASSUME NEW u \in Users, AddUser(u) PROVE TypeOK'
  BY <1>4 DEF TypeOK, AddUser, control, session
<1> QED BY <1>1, <1>2, <1>3, <1>4

(* The steps of a request.                                                 *)
LEMMA RequestTypes ==
    ASSUME TypeOK, NEW w \in Provisioners, RequestStep(w)
    PROVE  TypeOK'
<1>1. CASE OpenPool(w)
  <2>1. request' \in [Provisioners -> Requests]
    BY <1>1 DEF TypeOK, OpenPool, Requests
  <2> QED BY <1>1, <2>1 DEF TypeOK, OpenPool, control, tenant, session
<1>2. CASE StorePool(w)
  BY <1>2, EndTypes DEF TypeOK, StorePool, control, tenant, Tokens
<1>3. CASE Login(w)
  BY <1>3 DEF TypeOK, Login, control, tenant, Tokens
<1>4. ASSUME NEW caller \in {"recovery", "login"}, Admit(w, caller) PROVE TypeOK'
  <2>1. request' \in [Provisioners -> Requests]
    BY <1>4 DEF TypeOK, Admit, Requests, Callers
  <2> QED BY <1>4, <2>1 DEF TypeOK, Admit, control, tenant, session
<1>5. CASE MarkProvisioning(w)
  BY <1>5, MoveTypes, SetProvisioningTypes DEF TypeOK, MarkProvisioning, tenant, session,
     Provisioning, ProvisioningStatuses
<1>6. CASE CreateDatabase(w)
  BY <1>6, MoveTypes DEF TypeOK, CreateDatabase, control, session, Provisioning
<1>7. CASE InitializeTenantSchema(w)
  BY <1>7, MoveTypes DEF TypeOK, InitializeTenantSchema, control, session, Provisioning
<1>8. CASE SeedOwner(w)
  BY <1>8, MoveTypes, OwnerAssumption DEF TypeOK, SeedOwner, control, session, Provisioning
<1>9. CASE MarkReady(w)
  BY <1>9, MoveTypes, SetProvisioningTypes DEF TypeOK, MarkReady, tenant, session,
     Provisioning, ProvisioningStatuses
<1>10. CASE ProvisionFails(w)
  <2>1. failures' \in 0 .. MaxFailures
    BY <1>10, FallibleTypes DEF TypeOK, ProvisionFails
  <2>2. provisioning' \in ProvisioningStatuses /\ (provisioning' = "none" <=> account = "none")
    BY <1>10, SetProvisioningTypes DEF TypeOK, ProvisionFails, ProvisioningStatuses
  <2> QED BY <1>10, <2>1, <2>2, EndTypes DEF TypeOK, ProvisionFails, tenant, Tokens
<1>11. CASE InsertAccount(w)
  BY <1>11, MoveTypes DEF TypeOK, InsertAccount, tenant, session, Provisioning
<1>12. CASE InsertAccountFails(w)
  <2>1. failures' \in 0 .. MaxFailures
    BY <1>12, FallibleTypes DEF TypeOK, InsertAccountFails
  <2> QED BY <1>12, <2>1, EndTypes DEF TypeOK, InsertAccountFails, control, tenant, Tokens
<1>13. CASE FinishProvisioning(w)
  BY <1>13, EndTypes DEF TypeOK, FinishProvisioning, tenant, session
<1> QED BY <1>1, <1>2, <1>3, <1>4, <1>5, <1>6, <1>7, <1>8, <1>9, <1>10, <1>11, <1>12, <1>13
        DEF RequestStep

SweepStep(w) ==
    StartSweep(w) \/ ExpireFails(w) \/ SweepProgress(w) \/ DropFails(w) \/ SweepFails(w)

(* The steps of a sweep.                                                   *)
LEMMA SweepTypes ==
    ASSUME TypeOK, NEW w \in Sweepers, SweepStep(w)
    PROVE  TypeOK'
<1> USE DEF Sweeps, Reasons
<1>1. CASE StartSweep(w)
  BY <1>1, SweepToTypes DEF TypeOK, StartSweep, tenant, session
<1>2. CASE ExpireFails(w)
  BY <1>2, SweepToTypes, FallibleTypes DEF TypeOK, ExpireFails, control, tenant, session
<1>3. CASE FindExpired(w)
  BY <1>3, SweepToTypes, IdentitiesType DEF TypeOK, FindExpired, control, tenant, session
<1>4. CASE RecordExpiredTrialUsers(w)
  BY <1>4, SweepToTypes, RecordedType DEF TypeOK, RecordExpiredTrialUsers, tenant, session
<1>5. CASE ListDeletable(w)
  BY <1>5, SweepToTypes DEF TypeOK, ListDeletable, control, tenant, session, Idle
<1>6. CASE LockDeletion(w)
  BY <1>6, SweepToTypes DEF TypeOK, LockDeletion, control, tenant, session
<1>7. CASE AlreadyRemoved(w)
  BY <1>7, EndSweepTypes DEF TypeOK, AlreadyRemoved, control, tenant, session
<1>8. CASE Terminate(w)
  <2>1. PICK reason \in RetirementReasons :
          SweepTo(w, "locked", [at |-> "terminated", reason |-> reason])
    BY <1>8 DEF Terminate
  <2>2. reason \in Reasons
    BY DEF RetirementReasons, PriorReasons, TypeOK
  <2>3. sweep' \in [Sweepers -> Sweeps]
    BY <2>1, <2>2, SweepToTypes
  <2> QED BY <1>8, <2>3 DEF TypeOK, Terminate, AccessAfter, Exists, AccountStatuses,
             tenant, session
<1>9. CASE EvictPool(w)
  <2>1. sweep[w].reason \in Reasons
    BY <1>9, SweepShape DEF TypeOK, EvictPool, SweepTo
  <2>2. sweep' \in [Sweepers -> Sweeps]
    BY <1>9, <2>1, SweepToTypes DEF EvictPool
  <2> QED BY <1>9, <2>2 DEF TypeOK, EvictPool, control, tenant
<1>10. CASE ReadUsers(w)
  <2>1. sweep[w].reason \in Reasons
    BY <1>10, SweepShape DEF TypeOK, ReadUsers, SweepTo
  <2>2. sweep' \in [Sweepers -> Sweeps]
    BY <1>10, <2>1, SweepToTypes, IdentitiesType DEF ReadUsers
  <2> QED BY <1>10, <2>2 DEF TypeOK, ReadUsers, control, tenant, session
<1>11. CASE ArchiveTenantUsers(w)
  <2>1. sweep[w].reason \in Reasons
    BY <1>11, SweepShape DEF TypeOK, ArchiveTenantUsers, SweepTo
  <2>2. sweep' \in [Sweepers -> Sweeps]
    BY <1>11, <2>1, SweepToTypes DEF ArchiveTenantUsers
  <2> QED BY <1>11, <2>1, <2>2, RecordedType DEF TypeOK, ArchiveTenantUsers, tenant, session
<1>12. CASE DropDatabase(w)
  BY <1>12, SweepToTypes DEF TypeOK, DropDatabase, control, session
<1>13. CASE DropFails(w)
  BY <1>13, EndSweepTypes, SetProvisioningTypes, FallibleTypes
     DEF TypeOK, DropFails, ProvisioningStatuses, tenant, session
<1>14. CASE RemoveControlRecords(w)
  BY <1>14, EndSweepTypes DEF TypeOK, RemoveControlRecords, AccountStatuses,
     ProvisioningStatuses, tenant, session
<1>15. CASE SweepFails(w)
  BY <1>15, EndSweepTypes, FallibleTypes DEF TypeOK, SweepFails, control, tenant, session
<1> QED BY <1>1, <1>2, <1>3, <1>4, <1>5, <1>6, <1>7, <1>8, <1>9, <1>10, <1>11, <1>12,
           <1>13, <1>14, <1>15 DEF SweepStep, SweepProgress

(* The steps of the three kinds of actors.                                 *)
LEMMA NextShape ==
    ASSUME [Next]_vars
    PROVE  \/ UNCHANGED vars
           \/ Tick \/ TokensExpire \/ Crash
           \/ \E u \in Users : AddUser(u)
           \/ \E w \in Provisioners : RequestStep(w)
           \/ \E w \in Sweepers : SweepStep(w)
  BY DEF Next, SweepStep

(* Every step keeps the type.                                              *)
LEMMA TypeStep == TypeOK /\ [Next]_vars => TypeOK'
<1> SUFFICES ASSUME TypeOK, [Next]_vars PROVE TypeOK'
  OBVIOUS
<1>1. CASE UNCHANGED vars
  BY <1>1 DEF TypeOK, vars
<1> QED BY <1>1, NextShape, TimeTypes, RequestTypes, SweepTypes

(* Type correctness: among it, a tenant that was removed has no status     *)
(* again, whatever a late request still tries to record.                   *)
THEOREM TenantTypes == Spec => []TypeOK
  BY InitType, TypeStep, PTL DEF Spec

-----------------------------------------------------------------------------
(***************************************************************************)
(* What a tenant that is let in can use.  It is never let in again once    *)
(* its deletion has begun, and until then its database is not dropped, so  *)
(* what a request has completed stays: the pool it is about to store, and  *)
(* the owner it has seeded.                                                *)
(***************************************************************************)
Deleting == {"terminated", "evicted", "archiving", "archived", "dropped"}

Promised == database = "ready" /\ Owner \in users

DeletionShuts == \A w \in Sweepers : sweep[w].at \in Deleting => account # "ACTIVE"

PoolsOpen ==
    provisioning = "READY" \/ cached
       \/ (\E w \in Provisioners :
              request[w].at \in {"opening", "seeded", "provisioned", "accounted"})
    => Promised

OwnersSeeded ==
    ownerAccount \/ (\E w \in Provisioners :
                        request[w].at \in Provisioning /\ request[w].caller = "login")
    => Owner \in users

UsableInv == DeletionShuts /\ (account = "ACTIVE" => PoolsOpen /\ OwnersSeeded)

(* The first request has opened, seeded and logged in nothing yet.         *)
LEMMA UsableAtFirst == Init => UsableInv
<1> SUFFICES ASSUME Init PROVE UsableInv
  OBVIOUS
<1>1. \A v \in Provisioners :
         request[v].at \in {"idle", "admitted"} /\ (request[v].at = "admitted" => request[v].caller # "login")
  BY DEF Init, Idle
<1>2. PoolsOpen /\ OwnersSeeded
  BY <1>1 DEF Init, PoolsOpen, OwnersSeeded, Provisioning
<1>3. DeletionShuts
  BY DEF Init, DeletionShuts, Deleting, Idle
<1> QED BY <1>2, <1>3 DEF UsableInv

(* Time, the server's death and new users take nothing away.               *)
LEMMA UsableInTime ==
    ASSUME TypeOK, UsableInv,
           Tick \/ TokensExpire \/ Crash \/ \E u \in Users : AddUser(u)
    PROVE  UsableInv'
<1> USE DEF UsableInv, DeletionShuts, PoolsOpen, OwnersSeeded, Promised
<1>1. CASE Tick
  BY <1>1 DEF Tick, control, tenant
<1>2. CASE TokensExpire
  BY <1>2 DEF TokensExpire, control, tenant
<1>3. CASE Crash
  BY <1>3 DEF Crash, control, tenant, Idle, Deleting, Provisioning
<1>4. CASE \E u \in Users : AddUser(u)
  BY <1>4 DEF AddUser, control, session
<1> QED BY <1>1, <1>2, <1>3, <1>4

(* A request completes the database and seeds the owner before it marks    *)
(* the tenant READY; a login that provisions again has been let in.        *)
LEMMA UsableByRequest ==
    ASSUME TypeOK, UsableInv, NEW w \in Provisioners, RequestStep(w)
    PROVE  UsableInv'
<1> USE DEF UsableInv, DeletionShuts, PoolsOpen, OwnersSeeded, Promised, Provisioning
<1>a. request \in [Provisioners -> Requests]
  BY DEF TypeOK
<1>b. \A v \in Provisioners :
         request[v].at \in Provisioning => request[v].caller \in Callers
  BY <1>a, RequestShape
<1>1. CASE OpenPool(w)
  BY <1>1, <1>a DEF OpenPool, LoginAdmitted, control, tenant, session, Idle
<1>2. CASE StorePool(w)
  BY <1>2, <1>a DEF StorePool, control, tenant, Idle
<1>3. CASE Login(w)
  BY <1>3 DEF Login, control, tenant
<1>4. ASSUME NEW caller \in {"recovery", "login"}, Admit(w, caller) PROVE UsableInv'
  BY <1>4, <1>a DEF Admit, control, tenant, session
<1>5. CASE MarkProvisioning(w)
  BY <1>5, <1>a DEF MarkProvisioning, Move, SetProvisioning, tenant, session
<1>6. CASE CreateDatabase(w)
  BY <1>6, <1>a DEF CreateDatabase, Move, control, session
<1>7. CASE InitializeTenantSchema(w)
  BY <1>7, <1>a DEF InitializeTenantSchema, Move, control, session
<1>8. CASE SeedOwner(w)
  BY <1>8, <1>a DEF SeedOwner, Move, control, session
<1>9. CASE MarkReady(w)
  BY <1>9, <1>a DEF MarkReady, Move, SetProvisioning, tenant, session
<1>10. CASE ProvisionFails(w)
  BY <1>10, <1>a DEF ProvisionFails, SetProvisioning, tenant, Idle
<1>11. CASE InsertAccount(w)
  BY <1>11, <1>a DEF InsertAccount, Move, tenant, session
<1>12. CASE InsertAccountFails(w)
  BY <1>12, <1>a DEF InsertAccountFails, control, tenant, Idle
<1>13. CASE FinishProvisioning(w)
  BY <1>13, <1>a DEF FinishProvisioning, tenant, session, Idle
<1> QED BY <1>1, <1>2, <1>3, <1>4, <1>5, <1>6, <1>7, <1>8, <1>9, <1>10, <1>11, <1>12, <1>13
        DEF RequestStep

(* A sweep shuts the tenant out before it touches its database.            *)
LEMMA UsableBySweep ==
    ASSUME TypeOK, UsableInv, NEW w \in Sweepers, SweepStep(w)
    PROVE  UsableInv'
<1> USE DEF UsableInv, DeletionShuts, PoolsOpen, OwnersSeeded, Promised, Deleting
<1>a. sweep \in [Sweepers -> Sweeps]
  BY DEF TypeOK
<1>1. CASE StartSweep(w)
  BY <1>1, <1>a DEF StartSweep, SweepTo, tenant, session
<1>2. CASE ExpireFails(w)
  BY <1>2, <1>a DEF ExpireFails, SweepTo, control, tenant, session
<1>3. CASE FindExpired(w)
  BY <1>3, <1>a DEF FindExpired, SweepTo, control, tenant, session
<1>4. CASE RecordExpiredTrialUsers(w)
  BY <1>4, <1>a DEF RecordExpiredTrialUsers, SweepTo, tenant, session
<1>5. CASE ListDeletable(w)
  BY <1>5, <1>a DEF ListDeletable, SweepTo, control, tenant, session, Idle
<1>6. CASE LockDeletion(w)
  BY <1>6, <1>a DEF LockDeletion, SweepTo, control, tenant, session
<1>7. CASE AlreadyRemoved(w)
  BY <1>7, <1>a DEF AlreadyRemoved, EndSweep, control, tenant, session, Idle
<1>8. CASE Terminate(w)
  BY <1>8 DEF Terminate, AccessAfter
<1>9. CASE EvictPool(w)
  BY <1>9, <1>a DEF EvictPool, SweepTo, control, tenant
<1>10. CASE ReadUsers(w)
  BY <1>10, <1>a DEF ReadUsers, SweepTo, control, tenant, session
<1>11. CASE ArchiveTenantUsers(w)
  BY <1>11, <1>a DEF ArchiveTenantUsers, SweepTo, tenant, session
<1>12. CASE DropDatabase(w)
  BY <1>12, <1>a DEF DropDatabase, SweepTo, control, session
<1>13. CASE DropFails(w)
  BY <1>13, <1>a DEF DropFails, EndSweep, tenant, session, Idle
<1>14. CASE RemoveControlRecords(w)
  BY <1>14 DEF RemoveControlRecords
<1>15. CASE SweepFails(w)
  BY <1>15, <1>a DEF SweepFails, EndSweep, control, tenant, session, Idle
<1> QED BY <1>1, <1>2, <1>3, <1>4, <1>5, <1>6, <1>7, <1>8, <1>9, <1>10, <1>11, <1>12,
           <1>13, <1>14, <1>15 DEF SweepStep, SweepProgress

(* Every step keeps it.                                                    *)
LEMMA UsableStep == TypeOK /\ UsableInv /\ [Next]_vars => UsableInv'
<1> SUFFICES ASSUME TypeOK, UsableInv, [Next]_vars PROVE UsableInv'
  OBVIOUS
<1>1. CASE UNCHANGED vars
  BY <1>1 DEF vars, UsableInv, DeletionShuts, PoolsOpen, OwnersSeeded, Promised
<1> QED BY <1>1, NextShape, UsableInTime, UsableByRequest, UsableBySweep

(* A tenant that is let in has its database and its owner, whenever a      *)
(* request or the server failed and however far its deletion has come.     *)
THEOREM TenantUsable == Spec => []ReadyMeansUsable
<1>1. UsableInv => ReadyMeansUsable
  BY DEF UsableInv, PoolsOpen, OwnersSeeded, Promised, ReadyMeansUsable
<1> QED BY <1>1, UsableAtFirst, UsableStep, TenantTypes, PTL DEF Spec

-----------------------------------------------------------------------------
(***************************************************************************)
(* What a deletion has read before it drops the database.  No user is      *)
(* created then any more, and a request still under way only adds the      *)
(* owner, whom every deletion records.                                     *)
(***************************************************************************)
Begun(s) == s.at \in {"listed", "locked"} \cup Deleting

RetentionOver ==
    \A w \in Sweepers : Begun(sweep[w]) => clock = "deletable"

FoundAll ==
    \A w \in Sweepers :
       /\ sweep[w].at = "recording" => Owner \in sweep[w].found
       /\ sweep[w].at = "archiving" => Owner \in sweep[w].found /\ users \subseteq sweep[w].found
       /\ sweep[w].at = "archived" => \A u \in users \cup {Owner} : ledger[u] # "none"

ArchiveInv == RetentionOver /\ FoundAll

(* No sweep has begun at first.                                            *)
LEMMA ArchiveAtFirst == Init => ArchiveInv
  BY DEF Init, ArchiveInv, RetentionOver, FoundAll, Begun, Deleting, Idle

(* Whoever was recorded stays in the ledger.                               *)
LEMMA LedgerKeeps ==
    ASSUME TypeOK, NEW found, NEW reason \in Reasons, NEW u \in Users,
           ledger' = Recorded(found, reason), ledger[u] # "none" \/ u \in found
    PROVE  ledger'[u] # "none"
  BY DEF Recorded, Reasons

(* No user is created any more when the retention is over.                 *)
LEMMA ArchiveInTime ==
    ASSUME TypeOK, ArchiveInv,
           Tick \/ TokensExpire \/ Crash \/ \E u \in Users : AddUser(u)
    PROVE  ArchiveInv'
<1> USE DEF ArchiveInv, RetentionOver, FoundAll, Begun, Deleting
<1>1. CASE Tick
  BY <1>1 DEF Tick, control, tenant
<1>2. CASE TokensExpire
  BY <1>2 DEF TokensExpire, control, tenant
<1>3. CASE Crash
  BY <1>3 DEF Crash, control, tenant, Idle
<1>4. CASE \E u \in Users : AddUser(u)
  BY <1>4 DEF AddUser, control, session
<1> QED BY <1>1, <1>2, <1>3, <1>4

(* A request adds no user but the owner.                                   *)
LEMMA ArchiveByRequest ==
    ASSUME TypeOK, ArchiveInv, NEW w \in Provisioners, RequestStep(w)
    PROVE  ArchiveInv'
<1>1. UNCHANGED <<clock, ledger, sweep>> /\ users' \subseteq users \cup {Owner}
  <2>1. CASE OpenPool(w) \/ StorePool(w) \/ Login(w) \/ InsertAccountFails(w)
    BY <2>1 DEF OpenPool, StorePool, Login, InsertAccountFails, control, tenant
  <2>2. CASE \E caller \in {"recovery", "login"} : Admit(w, caller)
    BY <2>2 DEF Admit, control, tenant
  <2>3. CASE CreateDatabase(w) \/ InitializeTenantSchema(w) \/ SeedOwner(w)
    BY <2>3 DEF CreateDatabase, InitializeTenantSchema, SeedOwner, control
  <2>4. CASE MarkProvisioning(w) \/ MarkReady(w) \/ ProvisionFails(w)
             \/ InsertAccount(w) \/ FinishProvisioning(w)
    BY <2>4 DEF MarkProvisioning, MarkReady, ProvisionFails, InsertAccount,
       FinishProvisioning, tenant
  <2> QED BY <2>1, <2>2, <2>3, <2>4 DEF RequestStep
<1> QED BY <1>1 DEF ArchiveInv, RetentionOver, FoundAll, Begun

(* What a sweep reads has every user, and is in the ledger when it drops.  *)
LEMMA ArchiveBySweep ==
    ASSUME TypeOK, ArchiveInv, NEW w \in Sweepers, SweepStep(w)
    PROVE  ArchiveInv'
<1> USE DEF ArchiveInv, RetentionOver, FoundAll, Begun, Deleting
<1>a. sweep \in [Sweepers -> Sweeps]
  BY DEF TypeOK
<1>b. users \subseteq Users /\ Owner \in Users
  BY OwnerAssumption DEF TypeOK
<1>1. CASE StartSweep(w)
  BY <1>1, <1>a DEF StartSweep, SweepTo, tenant, session
<1>2. CASE ExpireFails(w)
  BY <1>2, <1>a DEF ExpireFails, SweepTo, control, tenant, session
<1>3. CASE FindExpired(w)
  BY <1>3, <1>a DEF FindExpired, SweepTo, Identities, control, tenant, session
<1>4. CASE RecordExpiredTrialUsers(w)
  <2>1. \A u \in Users : ledger[u] # "none" => ledger'[u] # "none"
    BY <1>4, LedgerKeeps DEF RecordExpiredTrialUsers, Reasons
  <2> QED BY <1>4, <1>a, <1>b, <2>1 DEF RecordExpiredTrialUsers, SweepTo, tenant, session
<1>5. CASE ListDeletable(w)
  BY <1>5, <1>a DEF ListDeletable, Deletable, SweepTo, control, tenant, session, Idle
<1>6. CASE LockDeletion(w)
  BY <1>6, <1>a DEF LockDeletion, SweepTo, control, tenant, session
<1>7. CASE AlreadyRemoved(w)
  BY <1>7, <1>a DEF AlreadyRemoved, EndSweep, control, tenant, session, Idle
<1>8. CASE Terminate(w)
  BY <1>8, <1>a DEF Terminate, SweepTo, tenant, session
<1>9. CASE EvictPool(w)
  BY <1>9, <1>a DEF EvictPool, SweepTo, control, tenant
<1>10. CASE ReadUsers(w)
  BY <1>10, <1>a DEF ReadUsers, SweepTo, Identities, control, tenant, session
<1>11. CASE ArchiveTenantUsers(w)
  <2>1. sweep[w].at = "archiving" /\ sweep[w].reason \in Reasons
    BY <1>11, <1>a, SweepShape DEF ArchiveTenantUsers, SweepTo
  <2>2. \A u \in Users : ledger[u] # "none" \/ u \in sweep[w].found => ledger'[u] # "none"
    BY <1>11, <2>1, LedgerKeeps DEF ArchiveTenantUsers
  <2> QED BY <1>11, <1>a, <1>b, <2>1, <2>2 DEF ArchiveTenantUsers, SweepTo, tenant, session
<1>12. CASE DropDatabase(w)
  BY <1>12, <1>a, <1>b DEF DropDatabase, SweepTo, control, session
<1>13. CASE DropFails(w)
  BY <1>13, <1>a DEF DropFails, EndSweep, tenant, session, Idle
<1>14. CASE RemoveControlRecords(w)
  BY <1>14, <1>a DEF RemoveControlRecords, EndSweep, tenant, session, Idle
<1>15. CASE SweepFails(w)
  BY <1>15, <1>a DEF SweepFails, EndSweep, control, tenant, session, Idle
<1> QED BY <1>1, <1>2, <1>3, <1>4, <1>5, <1>6, <1>7, <1>8, <1>9, <1>10, <1>11, <1>12,
           <1>13, <1>14, <1>15 DEF SweepStep, SweepProgress

(* Every step keeps it.                                                    *)
LEMMA ArchiveStep == TypeOK /\ ArchiveInv /\ [Next]_vars => ArchiveInv'
<1> SUFFICES ASSUME TypeOK, ArchiveInv, [Next]_vars PROVE ArchiveInv'
  OBVIOUS
<1>1. CASE UNCHANGED vars
  BY <1>1 DEF vars, ArchiveInv, RetentionOver, FoundAll, Begun
<1> QED BY <1>1, NextShape, ArchiveInTime, ArchiveByRequest, ArchiveBySweep

(* It holds in every state.                                                *)
LEMMA ArchiveAlways == Spec => []ArchiveInv
  BY ArchiveAtFirst, ArchiveStep, TenantTypes, PTL DEF Spec

(* Only the deletion drops the database, when it has archived.             *)
LEMMA DropsArchived ==
    ASSUME TypeOK, ArchiveInv, [Next]_vars, database # "absent", database' = "absent"
    PROVE  \A u \in users : ledger[u] # "none"
<1>1. CASE UNCHANGED vars \/ Tick \/ TokensExpire \/ Crash \/ \E u \in Users : AddUser(u)
  BY <1>1 DEF vars, Tick, TokensExpire, Crash, AddUser, tenant
<1>2. ASSUME NEW w \in Provisioners, RequestStep(w) PROVE database' # "absent"
  <2>1. CASE CreateDatabase(w) \/ InitializeTenantSchema(w) \/ SeedOwner(w)
    BY <2>1 DEF CreateDatabase, InitializeTenantSchema, SeedOwner
  <2>2. CASE OpenPool(w) \/ StorePool(w) \/ Login(w) \/ InsertAccountFails(w)
             \/ (\E caller \in {"recovery", "login"} : Admit(w, caller))
    BY <2>2 DEF OpenPool, StorePool, Login, InsertAccountFails, Admit, tenant
  <2>3. CASE MarkProvisioning(w) \/ MarkReady(w) \/ ProvisionFails(w)
             \/ InsertAccount(w) \/ FinishProvisioning(w)
    BY <2>3 DEF MarkProvisioning, MarkReady, ProvisionFails, InsertAccount,
       FinishProvisioning, tenant
  <2> QED BY <1>2, <2>1, <2>2, <2>3 DEF RequestStep
<1>3. ASSUME NEW w \in Sweepers, SweepStep(w) PROVE DropDatabase(w)
  BY <1>3 DEF SweepStep, SweepProgress, StartSweep, ExpireFails, FindExpired,
     RecordExpiredTrialUsers, ListDeletable, LockDeletion, AlreadyRemoved, Terminate,
     EvictPool, ReadUsers, ArchiveTenantUsers, DropFails, RemoveControlRecords,
     SweepFails, tenant
<1>4. ASSUME NEW w \in Sweepers, DropDatabase(w) PROVE \A u \in users : ledger[u] # "none"
  BY <1>4 DEF DropDatabase, SweepTo, ArchiveInv, FoundAll
<1> QED BY <1>1, <1>2, <1>3, <1>4, NextShape

(* Every user in a database that is dropped is in the ledger, whatever was *)
(* added, failed or ran twice before.                                      *)
THEOREM UsersArchived == Spec => ArchivedBeforeDrop
<1>1. TypeOK /\ ArchiveInv /\ [Next]_vars =>
         [database # "absent" /\ database' = "absent" => \A u \in users : ledger[u] # "none"]_vars
  BY DropsArchived
<1> QED BY <1>1, ArchiveAlways, TenantTypes, PTL DEF Spec, ArchivedBeforeDrop

-----------------------------------------------------------------------------
(***************************************************************************)
(* How a deletion can come to retire a user for a deleted account: with    *)
(* nothing in the ledger, and the tenant TERMINATED by another deletion.   *)
(* A sweep that finds no expired trial to record although the retention is *)
(* over skips the ledger; it has been failed once, and so has every other  *)
(* such sweep.  A deletion that has gone on without the ledger ends before *)
(* it has archived only by another failure.                                *)
(***************************************************************************)
Locked == {"locked", "terminated", "evicted", "archiving", "archived", "dropped"}

Skips(w) ==
    \/ sweep[w].at \in {"recorded", "listed", "locked", "terminated", "evicted", "archiving"}
    \/ sweep[w].at = "expiring" /\ subscription = "TRIAL"

Deletes(w) == sweep[w].at \in {"terminated", "evicted", "archiving"}

Unrecorded == clock = "deletable" /\ account # "none" /\ \A u \in Users : ledger[u] = "none"

SkipsCost ==
    Unrecorded =>
       /\ \A w \in Sweepers : Skips(w) => failures >= 1
       /\ \A v, w \in Sweepers : Skips(v) /\ Skips(w) /\ v # w => failures >= 2

DeletionsCost ==
    Unrecorded /\ account = "TERMINATED" /\ (\A w \in Sweepers : ~ Deletes(w)) =>
       /\ failures >= 2
       /\ (\E w \in Sweepers : Skips(w)) => failures >= 3

LocksHeld == \A w \in Sweepers : sweep[w].at \in Locked => deleteLock = w

Ended ==
    /\ account = "TERMINATED" => clock = "deletable"
    /\ subscription = "none" => account = "none"

ReasonsKept ==
    failures < 3 =>
       /\ \A u \in Users : ledger[u] # "ACCOUNT_DELETED"
       /\ \A w \in Sweepers : Deletes(w) => sweep[w].reason # "ACCOUNT_DELETED"

ReasonInv == SkipsCost /\ DeletionsCost /\ LocksHeld /\ Ended /\ ReasonsKept

(* No sweep has begun and nothing is recorded at first.                    *)
LEMMA ReasonAtFirst == Init => ReasonInv
  BY DEF Init, ReasonInv, SkipsCost, DeletionsCost, LocksHeld, Ended, ReasonsKept, Skips,
     Deletes, Unrecorded, Locked, Idle

(* A step that leaves the sweeps, the ledger and the account alone keeps   *)
(* the count, whatever fails in it.                                        *)
LEMMA ReasonUnmoved ==
    ASSUME TypeOK, TypeOK', ReasonInv, failures' >= failures,
           UNCHANGED <<clock, account, subscription, ledger, deleteLock, sweep>>
    PROVE  ReasonInv'
<1>1. failures \in Nat /\ failures' \in Nat
  BY MaxFailuresAssumption DEF TypeOK
<1> QED BY <1>1 DEF ReasonInv, SkipsCost, DeletionsCost, LocksHeld, Ended, ReasonsKept,
        Skips, Deletes, Unrecorded

(* The retention ends when no sweep is under way, and a server that dies   *)
(* ends every sweep with one failure.                                      *)
LEMMA ReasonInTime ==
    ASSUME TypeOK, TypeOK', ReasonInv,
           Tick \/ TokensExpire \/ Crash \/ \E u \in Users : AddUser(u)
    PROVE  ReasonInv'
<1>a. failures \in Nat /\ failures' \in Nat
  BY MaxFailuresAssumption DEF TypeOK
<1>1. CASE Tick
  BY <1>1, <1>a DEF Tick, control, tenant, ReasonInv, SkipsCost, DeletionsCost, LocksHeld,
     Ended, ReasonsKept, Skips, Deletes, Unrecorded, Locked, Idle
<1>2. CASE TokensExpire
  BY <1>2, <1>a, ReasonUnmoved DEF TokensExpire, control, tenant
<1>3. CASE Crash
  BY <1>3, <1>a DEF Crash, Fallible, control, tenant, ReasonInv, SkipsCost, DeletionsCost,
     LocksHeld, Ended, ReasonsKept, Skips, Deletes, Unrecorded, Locked, Idle
<1>4. CASE \E u \in Users : AddUser(u)
  BY <1>4, <1>a, ReasonUnmoved DEF AddUser, control, session
<1> QED BY <1>1, <1>2, <1>3, <1>4

(* No request touches the sweeps, the ledger or the account.               *)
LEMMA ReasonByRequest ==
    ASSUME TypeOK, TypeOK', ReasonInv, NEW w \in Provisioners, RequestStep(w)
    PROVE  ReasonInv'
<1>a. failures \in Nat
  BY MaxFailuresAssumption DEF TypeOK
<1>1. CASE OpenPool(w) \/ StorePool(w) \/ Login(w) \/ InsertAccountFails(w)
  BY <1>1, <1>a, ReasonUnmoved
     DEF OpenPool, StorePool, Login, InsertAccountFails, Fallible, control, tenant
<1>2. CASE \E caller \in {"recovery", "login"} : Admit(w, caller)
  BY <1>2, <1>a, ReasonUnmoved DEF Admit, control, tenant
<1>3. CASE CreateDatabase(w) \/ InitializeTenantSchema(w) \/ SeedOwner(w)
  BY <1>3, <1>a, ReasonUnmoved DEF CreateDatabase, InitializeTenantSchema, SeedOwner, control
<1>4. CASE MarkProvisioning(w) \/ MarkReady(w) \/ ProvisionFails(w)
           \/ InsertAccount(w) \/ FinishProvisioning(w)
  BY <1>4, <1>a, ReasonUnmoved DEF MarkProvisioning, MarkReady, ProvisionFails, InsertAccount,
     FinishProvisioning, Fallible, tenant
<1> QED BY <1>1, <1>2, <1>3, <1>4 DEF RequestStep

(* Once a user is recorded the count is over.                              *)
LEMMA RecordedSomeone ==
    ASSUME NEW found, NEW reason \in Reasons, Owner \in found,
           ledger' = Recorded(found, reason)
    PROVE  ~ Unrecorded'
  BY OwnerAssumption DEF Recorded, Reasons, Unrecorded

(* A sweep that ends without a trace is one more failure.                  *)
LEMMA ReasonWhenSweepEnds ==
    ASSUME TypeOK, TypeOK', ReasonInv, NEW w \in Sweepers, EndSweep(w), Fallible,
           UNCHANGED <<clock, account, subscription, ledger>>
    PROVE  ReasonInv'
<1>a. sweep \in [Sweepers -> Sweeps] /\ failures \in Nat /\ failures' = failures + 1
  BY MaxFailuresAssumption DEF TypeOK, Fallible
<1>b. \A v \in Sweepers : (Skips(v)' => Skips(v) /\ v # w) /\ (Deletes(v)' => Deletes(v) /\ v # w)
  BY <1>a DEF EndSweep, Skips, Deletes, Idle
<1>c. Unrecorded' <=> Unrecorded
  BY DEF Unrecorded
<1>1. SkipsCost'
  BY <1>a, <1>b, <1>c DEF ReasonInv, SkipsCost
<1>2. DeletionsCost'
  <2> SUFFICES ASSUME Unrecorded, account = "TERMINATED", \A v \in Sweepers : ~ Deletes(v)'
               PROVE  failures' >= 2 /\ ((\E v \in Sweepers : Skips(v)') => failures' >= 3)
    BY <1>c DEF DeletionsCost
  <2>1. CASE \A v \in Sweepers : ~ Deletes(v)
    BY <2>1, <1>a, <1>b DEF ReasonInv, DeletionsCost
  <2>2. CASE \E v \in Sweepers : Deletes(v)
    <3>1. Deletes(w)
      BY <2>2, <1>a DEF EndSweep, Deletes, Idle
    <3>2. Skips(w)
      BY <3>1 DEF Deletes, Skips
    <3> QED BY <3>2, <1>a, <1>b DEF ReasonInv, SkipsCost
  <2> QED BY <2>1, <2>2
<1>3. LocksHeld'
  BY <1>a DEF ReasonInv, LocksHeld, EndSweep, Idle, Locked
<1>4. Ended'
  BY DEF ReasonInv, Ended
<1>5. ReasonsKept'
  BY <1>a, <1>b DEF ReasonInv, ReasonsKept, EndSweep
<1> QED BY <1>1, <1>2, <1>3, <1>4, <1>5 DEF ReasonInv

(* The steps of a sweep before a deletion: only an expiry that fails lets  *)
(* a sweep begin to skip the ledger.                                       *)
LEMMA ReasonByExpiry ==
    ASSUME TypeOK, TypeOK', ArchiveInv, ReasonInv, NEW w \in Sweepers,
           \/ StartSweep(w) \/ ExpireFails(w) \/ FindExpired(w)
           \/ RecordExpiredTrialUsers(w) \/ ListDeletable(w)
    PROVE  ReasonInv'
<1> USE DEF ReasonInv, SkipsCost, DeletionsCost, LocksHeld, Ended, ReasonsKept, Skips,
        Deletes, Locked, SweepTo
<1>a. sweep \in [Sweepers -> Sweeps] /\ failures \in Nat
  BY MaxFailuresAssumption DEF TypeOK
<1>1. CASE StartSweep(w)
  BY <1>1, <1>a DEF StartSweep, tenant, session, Unrecorded
<1>2. CASE ExpireFails(w)
  BY <1>2, <1>a DEF ExpireFails, Fallible, control, tenant, session, Unrecorded
<1>3. CASE FindExpired(w)
  <2>1. Unrecorded' <=> Unrecorded
    BY <1>3 DEF FindExpired, control, Unrecorded
  <2>2. Unrecorded => \A v \in Sweepers : Skips(v)' => Skips(v)
    BY <1>3, <1>a DEF FindExpired, control, Unrecorded, TypeOK
  <2>3. \A v \in Sweepers : Deletes(v)' <=> Deletes(v)
    BY <1>3, <1>a DEF FindExpired
  <2> QED BY <1>3, <1>a, <2>1, <2>2, <2>3 DEF FindExpired, control, tenant, session
<1>4. CASE RecordExpiredTrialUsers(w)
  <2>1. ~ Unrecorded'
    BY <1>4, RecordedSomeone DEF RecordExpiredTrialUsers, ArchiveInv, FoundAll, Reasons
  <2>2. LocksHeld' /\ Ended'
    BY <1>4, <1>a DEF RecordExpiredTrialUsers
  <2>3. ReasonsKept'
    BY <1>4, <1>a DEF RecordExpiredTrialUsers, Recorded
  <2> QED BY <2>1, <2>2, <2>3
<1>5. CASE ListDeletable(w)
  BY <1>5, <1>a DEF ListDeletable, control, tenant, session, Idle, Unrecorded
<1> QED BY <1>1, <1>2, <1>3, <1>4, <1>5

(* The steps of a deletion: it has the lock, so it is the only one, and    *)
(* the reason it chooses is that of the ledger if there is one.            *)
LEMMA ReasonByDeletion ==
    ASSUME TypeOK, TypeOK', ArchiveInv, ReasonInv, NEW w \in Sweepers,
           \/ LockDeletion(w) \/ Terminate(w) \/ EvictPool(w) \/ ReadUsers(w)
           \/ ArchiveTenantUsers(w) \/ DropDatabase(w)
    PROVE  ReasonInv'
<1> USE DEF ReasonInv, SkipsCost, DeletionsCost, LocksHeld, Ended, ReasonsKept, Skips,
        Deletes, Locked, SweepTo
<1>a. sweep \in [Sweepers -> Sweeps] /\ failures \in Nat
  BY MaxFailuresAssumption DEF TypeOK
<1>b. NoWorker \notin Sweepers
  BY NoWorkerAssumption
<1>1. CASE LockDeletion(w)
  BY <1>1, <1>a, <1>b DEF LockDeletion, control, tenant, session, Unrecorded
<1>2. CASE Terminate(w)
  <2>1. PICK reason \in RetirementReasons :
          SweepTo(w, "locked", [at |-> "terminated", reason |-> reason])
    BY <1>2 DEF Terminate
  <2>2. clock = "deletable" /\ account # "none" /\ deleteLock = w /\ Skips(w)
    BY <1>2, <2>1 DEF Terminate, Exists, ArchiveInv, RetentionOver, Begun
  <2>3. \A v \in Sweepers : ~ Deletes(v)
    BY <2>1, <2>2
  <2>4. failures < 3 => reason # "ACCOUNT_DELETED"
    <3>1. CASE account # "TERMINATED" \/ PriorReasons # {}
      BY <3>1 DEF RetirementReasons, PriorReasons
    <3>2. CASE account = "TERMINATED" /\ PriorReasons = {}
      <4>1. Unrecorded
        BY <2>2, <3>2 DEF Unrecorded, PriorReasons
      <4> QED BY <4>1, <3>2, <2>2, <2>3, <1>a
    <3> QED BY <3>1, <3>2
  <2>5. ReasonsKept'
    BY <1>2, <1>a, <2>1, <2>4 DEF Terminate
  <2>6. LocksHeld' /\ Ended'
    BY <1>2, <1>a, <2>1, <2>2 DEF Terminate, AccessAfter
  <2>7. SkipsCost'
    BY <1>2, <1>a, <2>1, <2>2 DEF Terminate, Unrecorded
  <2>8. DeletionsCost'
    BY <1>a, <2>1
  <2> QED BY <2>5, <2>6, <2>7, <2>8
<1>3. CASE EvictPool(w)
  BY <1>3, <1>a DEF EvictPool, control, tenant, Unrecorded
<1>4. CASE ReadUsers(w)
  BY <1>4, <1>a DEF ReadUsers, control, tenant, session, Unrecorded
<1>5. CASE ArchiveTenantUsers(w)
  <2>1. sweep[w].at = "archiving" /\ sweep[w].reason \in Reasons
    BY <1>5, <1>a, SweepShape DEF ArchiveTenantUsers
  <2>2. ~ Unrecorded'
    BY <1>5, <2>1, RecordedSomeone DEF ArchiveTenantUsers, ArchiveInv, FoundAll
  <2>3. LocksHeld' /\ Ended'
    BY <1>5, <1>a DEF ArchiveTenantUsers
  <2>4. ReasonsKept'
    BY <1>5, <1>a, <2>1 DEF ArchiveTenantUsers, Recorded
  <2> QED BY <2>2, <2>3, <2>4
<1>6. CASE DropDatabase(w)
  <2>1. ~ Unrecorded'
    BY <1>6, OwnerAssumption DEF DropDatabase, ArchiveInv, FoundAll, control, Unrecorded
  <2>2. LocksHeld' /\ Ended' /\ ReasonsKept'
    BY <1>6, <1>a DEF DropDatabase, control, session
  <2> QED BY <2>1, <2>2
<1> QED BY <1>1, <1>2, <1>3, <1>4, <1>5, <1>6

(* How a sweep ends: done with, or failed.                                 *)
LEMMA ReasonByEnd ==
    ASSUME TypeOK, TypeOK', ReasonInv, NEW w \in Sweepers,
           AlreadyRemoved(w) \/ RemoveControlRecords(w) \/ DropFails(w) \/ SweepFails(w)
    PROVE  ReasonInv'
<1>a. sweep \in [Sweepers -> Sweeps] /\ failures \in Nat
  BY MaxFailuresAssumption DEF TypeOK
<1>1. CASE AlreadyRemoved(w)
  BY <1>1, <1>a DEF AlreadyRemoved, Exists, EndSweep, control, tenant, session, Idle,
     ReasonInv, SkipsCost, DeletionsCost, LocksHeld, Ended, ReasonsKept, Skips, Deletes,
     Locked, Unrecorded
<1>2. CASE RemoveControlRecords(w)
  BY <1>2, <1>a DEF RemoveControlRecords, EndSweep, tenant, session, Idle,
     ReasonInv, SkipsCost, DeletionsCost, LocksHeld, Ended, ReasonsKept, Skips, Deletes,
     Locked, Unrecorded
<1>3. CASE DropFails(w)
  BY <1>3, ReasonWhenSweepEnds DEF DropFails
<1>4. CASE SweepFails(w)
  BY <1>4, ReasonWhenSweepEnds DEF SweepFails, control
<1> QED BY <1>1, <1>2, <1>3, <1>4

(* Every step keeps the count.                                             *)
LEMMA ReasonStep == TypeOK /\ TypeOK' /\ ArchiveInv /\ ReasonInv /\ [Next]_vars => ReasonInv'
<1> SUFFICES ASSUME TypeOK, TypeOK', ArchiveInv, ReasonInv, [Next]_vars PROVE ReasonInv'
  OBVIOUS
<1>1. CASE UNCHANGED vars
  <2>1. failures \in Nat
    BY MaxFailuresAssumption DEF TypeOK
  <2> QED BY <1>1, <2>1, ReasonUnmoved DEF vars
<1>2. ASSUME NEW w \in Sweepers, SweepStep(w) PROVE ReasonInv'
  BY <1>2, ReasonByExpiry, ReasonByDeletion, ReasonByEnd DEF SweepStep, SweepProgress
<1> QED BY <1>1, <1>2, NextShape, ReasonInTime, ReasonByRequest

(* Unless three statements have failed or servers died, every user of the  *)
(* tenant is retired for the trial that expired.                           *)
THEOREM ReasonsStay == Spec => []RetiredReasonKept
<1>1. ReasonInv => RetiredReasonKept
  BY DEF ReasonInv, ReasonsKept, RetiredReasonKept
<1> QED BY <1>1, ArchiveAlways, ReasonAtFirst, ReasonStep, TenantTypes, PTL DEF Spec
=============================================================================
