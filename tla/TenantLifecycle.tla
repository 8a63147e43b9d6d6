-------------------------- MODULE TenantLifecycle --------------------------
(***************************************************************************)
(* The life of one tenant after its registration was verified: its         *)
(* database is provisioned, its trial runs out, its users are recorded in  *)
(* the retirement ledger and its database and control records are removed. *)
(*   ProvisionTenantDatabase   called by VerifyRegistrationEmail and       *)
(*                             ProvisionCurrentTenant                      *)
(*   TenantDB                  the pool cache, as LoginUser uses it        *)
(*   CleanupExpiredTrials      the sweep, hourly and at start-up, with     *)
(*                             RecordExpiredTrialUsers and                 *)
(*                             DeleteTenantDatabase                        *)
(* The steps go over two databases with no common transaction; the server  *)
(* may die between any two.  The only subscription is the trial: the       *)
(* INSERT with which the payment webhook records another never succeeds    *)
(* (eight columns, seven values), so account_status is ACTIVE until the    *)
(* deletion sets it to TERMINATED.                                         *)
(***************************************************************************)
EXTENDS Naturals

CONSTANTS Users,         \* e-mail addresses of tenant users
          Owner,         \* the administrator who registered the tenant
          Provisioners,  \* concurrent requests (bound)
          Sweepers,      \* the hourly sweep and the one at start-up
          NoWorker,      \* advisory lock not held
          MaxFailures    \* statements that fail and crashes (bound)

ASSUME OwnerAssumption == Owner \in Users
ASSUME NoWorkerAssumption == NoWorker \notin Provisioners \cup Sweepers
ASSUME MaxFailuresAssumption == MaxFailures \in Nat

Phases == {"trial", "expired", "deletable"}
AccountStatuses == {"ACTIVE", "TERMINATED", "none"}
ProvisioningStatuses == {"PENDING", "PROVISIONING", "READY", "FAILED", "none"}
Reasons == {"TRIAL_EXPIRED", "ACCOUNT_DELETED"}
Tokens == {"recovery", "login"}
Callers == {"registration", "recovery", "login"}

VARIABLES
    clock,          \* before trial_expires_at, before data_deletion_at, after
    account,        \* platform_tenants.account_status, none when removed
    provisioning,   \* platform_tenants.provisioning_status
    subscription,   \* status of the trial in platform_subscriptions
    pending,        \* the verified pending registration is still there
    ownerAccount,   \* platform_user_accounts routes the owner to the tenant
    database,       \* the tenant database: absent, created, ready
    users,          \* its users table
    ledger,         \* platform_retired_users
    cached,         \* tenantDBs holds a pool for the tenant
    tokens,         \* unexpired tokens the owner has
    provisionLock,  \* holder of the advisory lock "provision:"
    deleteLock,     \* holder of the advisory lock "delete:"
    request,        \* requests that provision the tenant or open its pool
    sweep,          \* where each sweep is
    failures        \* failures so far

control == <<account, provisioning, subscription, pending, ownerAccount, ledger>>
tenant == <<database, users>>
session == <<cached, tokens>>
vars == <<clock, account, provisioning, subscription, pending, ownerAccount,
          database, users, ledger, cached, tokens, provisionLock, deleteLock,
          request, sweep, failures>>

Idle == [at |-> "idle"]
Requests ==
    {Idle}
    \cup [at : {"admitted", "marked", "created", "initialized", "seeded",
                "provisioned", "accounted"}, caller : Callers]
    \cup [at : {"opening"}]
Sweeps ==
    {Idle}
    \cup [at : {"expiring", "recorded", "listed", "locked", "dropped"}]
    \cup [at : {"recording"}, found : SUBSET Users]
    \cup [at : {"terminated", "evicted", "archived"}, reason : Reasons]
    \cup [at : {"archiving"}, found : SUBSET Users, reason : Reasons]

TypeOK ==
    /\ clock \in Phases
    /\ account \in AccountStatuses
    /\ provisioning \in ProvisioningStatuses
    /\ provisioning = "none" <=> account = "none"
    /\ subscription \in {"TRIAL", "EXPIRED", "none"}
    /\ pending \in BOOLEAN
    /\ ownerAccount \in BOOLEAN
    /\ database \in {"absent", "created", "ready"}
    /\ users \subseteq Users
    /\ ledger \in [Users -> Reasons \cup {"none"}]
    /\ cached \in BOOLEAN
    /\ tokens \subseteq Tokens
    /\ provisionLock \in Provisioners \cup {NoWorker}
    /\ deleteLock \in Sweepers \cup {NoWorker}
    /\ request \in [Provisioners -> Requests]
    /\ sweep \in [Sweepers -> Sweeps]
    /\ failures \in 0 .. MaxFailures

(* The registration transaction has committed and its request goes on to   *)
(* provision the tenant.                                                   *)
Init ==
    /\ clock = "trial"
    /\ account = "ACTIVE"
    /\ provisioning = "PENDING"
    /\ subscription = "TRIAL"
    /\ pending = TRUE
    /\ ownerAccount = FALSE
    /\ database = "absent"
    /\ users = {}
    /\ ledger = [u \in Users |-> "none"]
    /\ cached = FALSE
    /\ tokens = {}
    /\ provisionLock = NoWorker
    /\ deleteLock = NoWorker
    /\ \E w \in Provisioners :
          request = [v \in Provisioners |->
             IF v = w THEN [at |-> "admitted", caller |-> "registration"] ELSE Idle]
    /\ sweep = [w \in Sweepers |-> Idle]
    /\ failures = 0

Exists == account # "none"

(* UPDATE platform_tenants SET provisioning_status: no row once removed.   *)
SetProvisioningMutant(st) == provisioning' = st
SetProvisioning(st) ==
    provisioning' = IF Exists THEN st ELSE provisioning

Fallible == failures < MaxFailures /\ failures' = failures + 1

-----------------------------------------------------------------------------
(* Time passes: two days of trial and seven of retention.  No request and  *)
(* no sweep lasts seven days, and a token 24 hours.                        *)
Tick ==
    /\ \A w \in Provisioners : request[w] = Idle
    /\ \/ clock = "trial" /\ clock' = "expired" /\ tokens' = tokens \ {"recovery"}
       \/ /\ clock = "expired" /\ clock' = "deletable" /\ tokens' = {}
          /\ \A w \in Sweepers : sweep[w] = Idle
    /\ UNCHANGED <<control, tenant, cached, provisionLock, deleteLock,
                   request, sweep, failures>>

TokensExpire ==
    /\ tokens # {}
    /\ tokens' = {}
    /\ UNCHANGED <<clock, control, tenant, cached, provisionLock, deleteLock,
                   request, sweep, failures>>

(* The server dies: PostgreSQL ends its sessions, so the advisory locks go *)
(* with every request, the sweep and the cache.                            *)
Crash ==
    /\ Fallible
    /\ request' = [w \in Provisioners |-> Idle]
    /\ sweep' = [w \in Sweepers |-> Idle]
    /\ provisionLock' = NoWorker
    /\ deleteLock' = NoWorker
    /\ cached' = FALSE
    /\ UNCHANGED <<clock, control, tenant, tokens>>

(* CreateUser, on the pool of a request admitted during the trial.         *)
AddUser(u) ==
    /\ clock # "deletable"
    /\ account = "ACTIVE" /\ provisioning = "READY" /\ cached
    /\ users' = users \cup {u}
    /\ UNCHANGED <<clock, control, database, session, provisionLock, deleteLock,
                   request, sweep, failures>>

-----------------------------------------------------------------------------
(***************************************************************************)
(* TenantDB on a cache miss: the status is read and the database opened,   *)
(* then the pool is stored.  LoginUser gives the owner a token afterwards. *)
(***************************************************************************)
LoginAdmitted ==
    /\ ownerAccount /\ account = "ACTIVE"
    /\ ledger[Owner] # "ACCOUNT_DELETED"

OpenPool(w) ==
    /\ request[w] = Idle
    /\ LoginAdmitted
    /\ ~cached
    /\ provisioning = "READY" /\ database = "ready"
    /\ request' = [request EXCEPT ![w] = [at |-> "opening"]]
    /\ UNCHANGED <<clock, control, tenant, session, provisionLock, deleteLock,
                   sweep, failures>>

StorePool(w) ==
    /\ request[w].at = "opening"
    /\ cached' = TRUE
    /\ tokens' = IF database = "ready" /\ Owner \in users
                 THEN tokens \cup {"login"} ELSE tokens
    /\ request' = [request EXCEPT ![w] = Idle]
    /\ UNCHANGED <<clock, control, tenant, provisionLock, deleteLock, sweep, failures>>

Login(w) ==
    /\ request[w] = Idle
    /\ LoginAdmitted
    /\ cached /\ database = "ready" /\ Owner \in users
    /\ tokens' = tokens \cup {"login"}
    /\ UNCHANGED <<clock, control, tenant, cached, provisionLock, deleteLock,
                   request, sweep, failures>>

-----------------------------------------------------------------------------
(***************************************************************************)
(* ProvisionTenantDatabase and what its two callers do after it.           *)
(***************************************************************************)
Admit(w, caller) ==
    /\ request[w] = Idle
    /\ account = "ACTIVE"
    /\ \/ caller = "recovery" /\ caller \in tokens /\ pending
       \/ caller = "login" /\ caller \in tokens /\ ownerAccount
    /\ request' = [request EXCEPT ![w] = [at |-> "admitted", caller |-> caller]]
    /\ UNCHANGED <<clock, control, tenant, session, provisionLock, deleteLock,
                   sweep, failures>>

Move(w, from, to) ==
    /\ request[w].at = from
    /\ request' = [request EXCEPT ![w] = [at |-> to, caller |-> request[w].caller]]

MarkProvisioning(w) ==
    /\ provisionLock = NoWorker
    /\ Move(w, "admitted", "marked")
    /\ provisionLock' = w
    /\ SetProvisioning("PROVISIONING")
    /\ UNCHANGED <<clock, account, subscription, pending, ownerAccount, ledger,
                   tenant, session, deleteLock, sweep, failures>>

CreateDatabase(w) ==
    /\ Move(w, "marked", "created")
    /\ database' = IF database = "absent" THEN "created" ELSE database
    /\ UNCHANGED <<clock, control, users, session, provisionLock, deleteLock,
                   sweep, failures>>

InitializeTenantSchema(w) ==
    /\ database # "absent"
    /\ Move(w, "created", "initialized")
    /\ database' = "ready"
    /\ UNCHANGED <<clock, control, users, session, provisionLock, deleteLock,
                   sweep, failures>>

(* Only the registration and its recovery bring the initial user.          *)
SeedOwner(w) ==
    /\ database = "ready"
    /\ Move(w, "initialized", "seeded")
    /\ users' = IF request[w].caller = "login" THEN users ELSE users \cup {Owner}
    /\ UNCHANGED <<clock, control, database, session, provisionLock, deleteLock,
                   sweep, failures>>

MarkReady(w) ==
    /\ Move(w, "seeded", "provisioned")
    /\ SetProvisioning("READY")
    /\ provisionLock' = NoWorker
    /\ UNCHANGED <<clock, account, subscription, pending, ownerAccount, ledger,
                   tenant, session, deleteLock, sweep, failures>>

(* An error of ProvisionTenantDatabase, from the mark on recorded by it,   *)
(* before it only by the registration, which hands out a recovery token.   *)
(* The database of a request may be dropped, even made again, meanwhile.   *)
ProvisionFails(w) ==
    /\ request[w].at \in {"admitted", "marked", "created", "initialized", "seeded"}
    /\ IF \/ request[w].at = "created" /\ database = "absent"
          \/ request[w].at = "initialized" /\ database # "ready"
       THEN UNCHANGED failures ELSE Fallible
    /\ IF request[w].at = "admitted" /\ request[w].caller # "registration"
       THEN UNCHANGED provisioning ELSE SetProvisioning("FAILED")
    /\ tokens' = IF request[w].caller = "registration"
                 THEN tokens \cup {"recovery"} ELSE tokens
    /\ provisionLock' = IF provisionLock = w THEN NoWorker ELSE provisionLock
    /\ request' = [request EXCEPT ![w] = Idle]
    /\ UNCHANGED <<clock, account, subscription, pending, ownerAccount, ledger,
                   tenant, cached, deleteLock, sweep>>

(* The platform account refers to the tenant row by a foreign key.         *)
InsertAccount(w) ==
    /\ request[w].at = "provisioned"
    /\ request[w].caller # "login"
    /\ Exists
    /\ Move(w, "provisioned", "accounted")
    /\ ownerAccount' = TRUE
    /\ UNCHANGED <<clock, account, provisioning, subscription, pending, ledger,
                   tenant, session, provisionLock, deleteLock, sweep, failures>>

InsertAccountFails(w) ==
    /\ request[w].at = "provisioned"
    /\ request[w].caller # "login"
    /\ IF Exists THEN Fallible ELSE UNCHANGED failures
    /\ tokens' = IF request[w].caller = "registration"
                 THEN tokens \cup {"recovery"} ELSE tokens
    /\ request' = [request EXCEPT ![w] = Idle]
    /\ UNCHANGED <<clock, control, tenant, cached, provisionLock, deleteLock, sweep>>

FinishProvisioning(w) ==
    /\ \/ request[w].at = "accounted" /\ pending' = FALSE
       \/ /\ request[w].at = "provisioned" /\ request[w].caller = "login"
          /\ UNCHANGED pending
    /\ request' = [request EXCEPT ![w] = Idle]
    /\ UNCHANGED <<clock, account, provisioning, subscription, ownerAccount, ledger,
                   tenant, session, provisionLock, deleteLock, sweep, failures>>

-----------------------------------------------------------------------------
(***************************************************************************)
(* CleanupExpiredTrials.  First ExpireDueSubscriptions, then               *)
(* RecordExpiredTrialUsers, then the deletion of the tenants whose         *)
(* retention is over.  Identities to record are those of the tenant's      *)
(* users table and of the registry, which always names the owner.          *)
(***************************************************************************)
SweepTo(w, from, state) ==
    /\ sweep[w].at = from
    /\ sweep' = [sweep EXCEPT ![w] = state]

EndSweep(w) ==
    /\ sweep' = [sweep EXCEPT ![w] = Idle]
    /\ deleteLock' = IF deleteLock = w THEN NoWorker ELSE deleteLock

StartSweep(w) ==
    /\ SweepTo(w, "idle", [at |-> "expiring"])
    /\ subscription' = IF subscription = "TRIAL" /\ clock # "trial"
                       THEN "EXPIRED" ELSE subscription
    /\ UNCHANGED <<clock, account, provisioning, pending, ownerAccount, ledger,
                   tenant, session, provisionLock, deleteLock, request, failures>>

(* An error of ExpireDueSubscriptions is ignored.                          *)
ExpireFails(w) ==
    /\ SweepTo(w, "idle", [at |-> "expiring"])
    /\ Fallible
    /\ UNCHANGED <<clock, control, tenant, session, provisionLock, deleteLock, request>>

IdentitiesMutant == {Owner}
Identities == {Owner} \cup users

FindExpired(w) ==
    /\ SweepTo(w, "expiring",
               IF subscription = "EXPIRED" THEN [at |-> "recording", found |-> Identities]
                                           ELSE [at |-> "recorded"])
    /\ UNCHANGED <<clock, control, tenant, session, provisionLock, deleteLock,
                   request, failures>>

Recorded(found, reason) ==
    [u \in Users |-> IF u \in found THEN reason ELSE ledger[u]]

RecordExpiredTrialUsers(w) ==
    /\ SweepTo(w, "recording", [at |-> "recorded"])
    /\ ledger' = Recorded(sweep[w].found, "TRIAL_EXPIRED")
    /\ UNCHANGED <<clock, account, provisioning, subscription, pending, ownerAccount,
                   tenant, session, provisionLock, deleteLock, request, failures>>

(* Also a tenant that an earlier sweep has TERMINATED and not removed.     *)
DeletableMutant == account = "ACTIVE" /\ clock = "deletable"
Deletable == Exists /\ clock = "deletable"

ListDeletable(w) ==
    /\ SweepTo(w, "recorded",
               IF Deletable THEN [at |-> "listed"] ELSE Idle)
    /\ UNCHANGED <<clock, control, tenant, session, provisionLock, deleteLock,
                   request, failures>>

LockDeletion(w) ==
    /\ deleteLock = NoWorker
    /\ SweepTo(w, "listed", [at |-> "locked"])
    /\ deleteLock' = w
    /\ UNCHANGED <<clock, control, tenant, session, provisionLock, request, failures>>

AlreadyRemoved(w) ==
    /\ sweep[w].at = "locked"
    /\ ~Exists
    /\ EndSweep(w)
    /\ UNCHANGED <<clock, control, tenant, session, provisionLock, request, failures>>

(* retirementStatus, but a resumed deletion keeps the recorded reason.     *)
PriorReasonsMutant == {}
PriorReasons == {ledger[u] : u \in Users} \ {"none"}
RetirementReasons ==
    IF account # "TERMINATED" THEN {"TRIAL_EXPIRED"}
    ELSE IF PriorReasons # {} THEN PriorReasons ELSE {"ACCOUNT_DELETED"}

AccessAfterMutant == account
AccessAfter == "TERMINATED"

Terminate(w) ==
    /\ Exists
    /\ \E reason \in RetirementReasons :
          SweepTo(w, "locked", [at |-> "terminated", reason |-> reason])
    /\ account' = AccessAfter
    /\ UNCHANGED <<clock, provisioning, subscription, pending, ownerAccount, ledger,
                   tenant, session, provisionLock, deleteLock, request, failures>>

EvictPool(w) ==
    /\ SweepTo(w, "terminated", [at |-> "evicted", reason |-> sweep[w].reason])
    /\ cached' = FALSE
    /\ UNCHANGED <<clock, control, tenant, tokens, provisionLock, deleteLock,
                   request, failures>>

ReadUsers(w) ==
    /\ SweepTo(w, "evicted",
               [at |-> "archiving", found |-> Identities, reason |-> sweep[w].reason])
    /\ UNCHANGED <<clock, control, tenant, session, provisionLock, deleteLock,
                   request, failures>>

ArchiveTenantUsers(w) ==
    /\ SweepTo(w, "archiving", [at |-> "archived", reason |-> sweep[w].reason])
    /\ ledger' = Recorded(sweep[w].found, sweep[w].reason)
    /\ UNCHANGED <<clock, account, provisioning, subscription, pending, ownerAccount,
                   tenant, session, provisionLock, deleteLock, request, failures>>

(* DROP DATABASE IF EXISTS: a resumed deletion may have dropped it before. *)
DropDatabase(w) ==
    /\ SweepTo(w, "archived", [at |-> "dropped"])
    /\ database' = "absent"
    /\ users' = {}
    /\ UNCHANGED <<clock, control, session, provisionLock, deleteLock, request, failures>>

DropFails(w) ==
    /\ sweep[w].at = "archived"
    /\ Fallible
    /\ SetProvisioning("FAILED")
    /\ EndSweep(w)
    /\ UNCHANGED <<clock, account, subscription, pending, ownerAccount, ledger,
                   tenant, session, provisionLock, request>>

RemoveControlRecords(w) ==
    /\ sweep[w].at = "dropped"
    /\ account' = "none"
    /\ provisioning' = "none"
    /\ subscription' = "none"
    /\ pending' = FALSE
    /\ ownerAccount' = FALSE
    /\ EndSweep(w)
    /\ UNCHANGED <<clock, ledger, tenant, session, provisionLock, request, failures>>

(* Any other statement of the sweep fails: the rest is left to the next.   *)
SweepFails(w) ==
    /\ sweep[w].at \notin {"idle", "archived"}
    /\ Fallible
    /\ EndSweep(w)
    /\ UNCHANGED <<clock, control, tenant, session, provisionLock, request>>

-----------------------------------------------------------------------------
RequestStep(w) ==
    \/ OpenPool(w) \/ StorePool(w) \/ Login(w)
    \/ \E caller \in {"recovery", "login"} : Admit(w, caller)
    \/ MarkProvisioning(w) \/ CreateDatabase(w) \/ InitializeTenantSchema(w)
    \/ SeedOwner(w) \/ MarkReady(w) \/ ProvisionFails(w)
    \/ InsertAccount(w) \/ InsertAccountFails(w) \/ FinishProvisioning(w)

SweepProgress(w) ==
    \/ FindExpired(w) \/ RecordExpiredTrialUsers(w) \/ ListDeletable(w)
    \/ LockDeletion(w) \/ AlreadyRemoved(w) \/ Terminate(w) \/ EvictPool(w)
    \/ ReadUsers(w) \/ ArchiveTenantUsers(w) \/ DropDatabase(w)
    \/ RemoveControlRecords(w)

Next ==
    \/ Tick \/ TokensExpire \/ Crash
    \/ \E u \in Users : AddUser(u)
    \/ \E w \in Provisioners : RequestStep(w)
    \/ \E w \in Sweepers :
          StartSweep(w) \/ ExpireFails(w) \/ SweepProgress(w) \/ DropFails(w) \/ SweepFails(w)

Spec == Init /\ [][Next]_vars

(* The ticker starts a sweep every hour, the server executes it, and an    *)
(* advisory lock goes to one of its waiters.                               *)
FairSpec ==
    Spec /\ \A w \in Sweepers : WF_vars(StartSweep(w)) /\ SF_vars(SweepProgress(w))

-----------------------------------------------------------------------------
(* A tenant that is let in has what READY promises, a complete database    *)
(* with its owner in it, however often provisioning was repeated, failed   *)
(* or was interrupted, and also while a deletion is under way.  TenantDB   *)
(* hands out a cached pool without looking at the status.                  *)
ReadyMeansUsable ==
    account = "ACTIVE" =>
       /\ provisioning = "READY" \/ cached => database = "ready" /\ Owner \in users
       /\ ownerAccount => Owner \in users

(* No user of the tenant is lost to the ledger: whoever is in the database *)
(* when it is dropped was recorded before, although users may be added     *)
(* after the expiry was first recorded and the sweep may be interrupted    *)
(* and resumed anywhere.                                                   *)
ArchivedBeforeDrop ==
    [][database # "absent" /\ database' = "absent" =>
          \A u \in users : ledger[u] # "none"]_vars

(* Why a user was retired is kept: a deletion that is resumed finds the    *)
(* tenant TERMINATED and still records the expired trial, which it has to  *)
(* learn from the ledger.  Fewer than three failures never lose it, whatever *)
(* they are and however many sweeps run; three do: two expiries that fail  *)
(* unnoticed, and the deletion between them.                               *)
RetiredReasonKept ==
    failures < 3 => \A u \in Users : ledger[u] # "ACCOUNT_DELETED"

(* Once the retention is over the tenant is removed, whatever failed on    *)
(* the way: every interrupted deletion is resumed by a later sweep.        *)
EventuallyDeleted == clock = "deletable" ~> account = "none"

(* docs/architecture/greenfield-database-application-audit.md: "Access is  *)
(* changed to TERMINATED before physical deletion, preventing              *)
(* authenticated and provisioning paths from admitting new work."  The     *)
(* provisioning of a request admitted before does not look at it again,    *)
(* and its lock is not the one of the deletion.                            *)
NoDatabaseAfterTermination ==
    [][account # "ACTIVE" /\ database = "absent" => database' = "absent"]_vars
=============================================================================
