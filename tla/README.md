# Skill Sifter: TLA+ verification

Formal models of Skill Sifter, a multi-tenant recruitment system: its server, a Go
program (`src/backend`) over PostgreSQL, and its browser application, React and
TypeScript (`src/frontend`). The models are
checked with TLC on small instances; most of their safety properties are also proved
with TLAPS, for every value of the constants (section 6).

    tlc -workers 4 -config Placement.cfg MCPlacement     # one run
    tlapm Placement_proofs.tla                           # one proof module

## 1. The system

One server process serves HTTP (`backend/main.go`). Every request runs in its own
goroutine, with no lock of the process between requests: all coordination
is done by PostgreSQL, with transactions at READ COMMITTED, row locks
(`SELECT ... FOR UPDATE`, conditional `UPDATE`s), unique indexes and advisory locks.
There is one control database (tenants, subscriptions, accounts, verification
codes) and one database per tenant with the recruitment tables. An hourly
goroutine retires expired trials and deletes their databases.

The browser application is one page at a time in each tab. A tab runs one piece of code
at a time, but between a request and its answer anything may happen to it: another
click, another answer, another page. Tabs share the stored session, pages of a
tab share a query cache. The application enforces nothing the backend does not; what
can go wrong is what it shows, and what it sends on the strength of that.

### 1.1 Components

**Screening and submission** (`handlers/candidate_recruitment_handlers.go`,
`domain/submission`).
State: `candidates.screening_count` and `screening_limit`, `recruitment_screenings`,
`recruitment_submissions`, `audit_events`. Operations: create a screening (takes a
slot of the candidate), close it or change its outcome (gives the slot back once),
submit a screened candidate to the client. Hard: the counter is a second copy of
what the rows say, kept by conditional updates; the screening found completed may be
rejected by another recruiter before the submission commits. Correct when the counter
is the number of active screenings, never above the limit, each screening takes and
gives back one slot at most, and a submission is committed on evidence that
holds at that moment.

**Feedback, interviews and selection** (`domain/feedback`,
`handlers/interview_handlers.go`, `handlers/selection_handlers.go`).
State: `recruitment_feedback`, `interviews`, `recruitment_selections`. Operations:
record feedback on a submission, schedule and update an interview, decide. Hard: all
checks read rows that nobody locks; only unique indexes remain inside the write. Correct when
a pair has one active interview, one final decision, and no stage without the one before.

**Offers, joinings and billing** (`domain/offer`, `domain/joining`, `domain/billing`).
State: `recruitment_offers`, `recruitment_joinings`, `recruitment_billings`.
Operations: create and update an offer and a joining, create a billing record. Hard:
each create reads outside its transaction and re-reads under the lock of the upstream
row; the upstream rows may be corrected before, between and after. Correct
when a joining is committed on an accepted offer, a billing on a joining whose
date it carries, each pair is billed once, and nothing waits for ever.

**Recruitment master data** (`handlers/candidate_handlers.go`,
`client_handlers.go`, `requirement_handlers.go`). State: candidates, clients,
requirements. Operations: create, read, update, delete; foreign keys refuse the
deletion of referenced rows. Hard: `UpdateCandidate` reads the old status and
writes it back without a lock (a lost update).

**Tenant lifecycle** (`db/database.go`, `db/retirement.go`, the sweep of
`handlers/subscription_handlers.go`). State: `platform_tenants` (account and
provisioning status), the tenant's database, the ledger `platform_retired_users`, the
cache of connection pools. Operations: provision (from the verification of a
registration or as its recovery), open the pool, record the users of an expired
trial, terminate, archive, drop, clean up. Hard: the steps go over two databases
without a common transaction and may stop between any two; deletion and provisioning
have different locks; a resumed deletion must not take its own traces for the
facts. Correct when a tenant that is let in has a complete database, everybody in a
database that is dropped is in the ledger with the right reason, and an interrupted
deletion is finished by a later sweep.

**Schema migration** (`db/migrations.go`). State: `schema_versions`. Operations: apply
checksummed files in order under an advisory lock. Hard: two servers that migrate at once.

**Registration and verification** (`handlers/verification_handlers.go`). State:
verification codes with attempts and expiry, pending registrations. Operations: start,
resend, verify (creates a tenant and provisions it), phone codes. Hard: double
verification, failure after provisioning, clean-up. Correct when one verified
registration makes at most one tenant and a failed one leaves none.

**Subscriptions** (`handlers/subscription_handlers.go`). State:
`platform_subscriptions`, `platform_subscription_events`. Operations: checkout, cancel, payment webhook, expiry. Hard:
duplicated and reordered events. Correct when an event has its effect once.

**Users and seats** (`handlers/user_management_handlers.go`). State: users in the
tenant's database and an account of each in the control database. Operations: create,
update, delete, each with a compensation. Hard: no transaction spans the two databases;
only creations take the advisory lock; a compensation may fail or meet another request. Correct when
creations keep within the seats and the two databases agree.

**Login and access** (`auth/auth.go`, `handlers/phase9_auth_handlers.go`,
`domain/platformaccess`). State: signed tokens, `last_login`. Mostly
stateless checks.

**Resume ingestion and matching** (`handlers/resume_ai_handlers.go`,
`resume_ai_intelligence.go`, `resume_repository_handlers.go`, `domain/matching`). State: `resumes` with
a parsing status, and what a resume told of its candidate. Operations: upload, retry, search. Hard: the status is
written around a slow call of a language model, by statements whose errors are ignored;
nothing keeps two retries of one resume apart. Correct when 'processing' means work and a
retry replaces what the one before has told. Matching is a pure scoring function.

**Browser session** (`services/api.ts`, `App.tsx`, `Login.tsx`, `Register.tsx`, `Navbar.tsx`). State: two
entries of `localStorage`, and what each tab has made of them. Hard: requests outlive their
page, and a 401 to an old token arrives after a new login; other tabs learn by events.
Correct when the entries belong together and a log-out reaches every tab.

**Lifecycle page** (`RecruitmentLifecycle.tsx`). State: the chosen pair, the rows of its eight stages,
one loading flag. Operations: choose, load, and every operation of the recruitment handlers. Hard: loads of
different pairs overlap, answers come in any order or not at all.

**List pages and forms** (dashboard, `Interviews`, `Requirements`, `Clients`, the `Add...` pages,
`ScheduleInterview`). State: a query cache with five minutes of freshness, and forms. Hard: pages keep answers of different
shape under the same key; forms are left or sent again while a post is in flight.

**Edit pages** (`AdminUsers`, `Candidates`, `InterviewDetails`, `Billing`, `Account` with `SubscriptionCheckout`,
`ResumeAI`). State: a copy of what the server had, a form, flags. Hard: one flag or one note for many rows,
closures over an old list, PUTs of an old copy, loads that overtake each other.

**Reporting, audit reads, end-to-end reset, static pages, deployment**: reads, test
support and scripts; see section 7.

### 1.2 Interaction

The recruitment groups share the tables of one tenant database and nothing else:

    screening --> submission --> feedback --> interview --> selection --> offer --> joining --> billing
    |__ ScreeningAdmission __|   |____ InterviewSelection ____|          |_______ Placement _______|

Each group reads the table its neighbour writes, with or without locking the row it reads.
Each page talks to the handlers of its tables: the lifecycle page to all three groups, `AdminUsers` to the user
handlers, `Billing` to billing, and so on. Registration writes the tenant row that the tenant lifecycle provisions, subscriptions
renew what the expiry sweep retires, and every recruitment request first opens the
tenant's pool from the cache that deletion evicts.

## 2. Modules

| module | models |
|---|---|
| `ScreeningSlots` | abstract: a pool of screening slots per candidate |
| `ScreeningAdmission` | the handlers of screening and submission |
| `InterviewSelection` | the handlers of feedback, interviews, selection |
| `Placement` | the services of offers, joinings, billing |
| `RecruitmentPipeline` | abstract: the eight-stage lifecycle of `docs/architecture/recruitment-lifecycle.md` |
| `RecruitmentLifecycle` | the three groups composed on shared tables |
| `TenantLifecycle` | provisioning, expiry and deletion of one tenant, with its logins |
| `UserAccounts` | the user handlers over the two databases |
| `LifecyclePage` | the lifecycle page, its requests and the rows on the server |
| `BrowserSession` | the stored session and the tabs of a browser |
| `ListPages` | dashboard, lists and forms over one query cache |
| `AdminUsersPage`, `CandidatesPage`, `InterviewPage`, `BillingPage`, `CheckoutPage`, `ResumePage` | one page each, with the server behind it |
| `EditPages` | `UserAccounts` and the six pages side by side; a behaviour is one of one part |
| `MC...` | the instances TLC checks |
| `..._proofs` | theorems and proofs; `EditPages_proofs` has those of `UserAccounts` too, `BrowserPages_proofs` extends `LifecyclePage` and `ListPages`, whose names do not meet |

### How the code becomes actions

*Workers.* `request[w]` is a request in flight: the place `at` it has reached in
its handler and the values it carries in Go variables. `idle` means no request. A
worker starts any request at any time (`Arrive`) and then proceeds (`Progress`).

*Statements.* A step is one SQL statement that reads or locks something other requests can
change, together with the Go code up to the next. Consecutive statements of a
transaction that only write are merged into its commit: at READ COMMITTED no one sees
a write before the commit, and what others could do to the row meanwhile is excluded
by its row lock, which the transaction keeps. Thus **tables hold committed values**. The slot
that `CreateCandidateScreening` has counted but not committed is visible to
others only as a locked candidate row, which is what a second conditional `UPDATE` waits for.

*Errors.* A request that is refused by a read ends at once and is not a step
(nothing changed). A refusal later on is an action of its own (`EvidenceGone`,
`ActiveConflict`, `RefuseBilling`, ...). `Fail(w)` is any statement
that fails, a client that leaves, or a server that dies inside a
handler: PostgreSQL rolls back, the locks go, nothing is written. All of the
process's recruitment state is in the database, so a restart of the server is `Fail`
for every worker. In `TenantLifecycle`, whose operations have no transaction around
them, `Crash` ends every request and sweep at once, frees the advisory locks and
empties the cache of pools, and what was written stays.

*Pages.* An action is one turn of a tab's event loop: a click, an answer that arrives, a render that
follows. Requests in flight are records in a fixed number of slots, each with the place it has reached
(asked, served, on its way back) and the values its closure has kept, so that answers come in any order. A
handler behind a page is as many steps as others can see between (two for `UpdateCandidate`, five for `RetryResume`),
and one where another module has it in detail. A request may fail, its answer may be lost after the server has acted, and colleagues change
rows at any time, forwards and backwards: behind `LifecyclePage` they also reject a completed screening, cancel an interview or
schedule it again, withdraw an acceptance and undo a joining, and behind `BillingPage` they undo a joining. What react-query and the browser do is external, modelled as the pages use it.

*History.* Where a promise has an excuse, a variable says whether it applies: `marred` in
`UserAccounts` names the users a crash, a failed compensation or an overlap has touched, `raced` in `ResumePage` the resumes two
retries replaced at once, `unseen`, `missed` and `trouble` that an answer was lost or a colleague has been at work, `overlapped` and `blurred` that loads or updates were in
flight at once. `LifecyclePage` notes in `undone` and `stale` what was taken back on the server since a load began. Nothing is guarded by them.

*Data.* Names, dates other than the joining date, reasons, notes, amounts and
snapshots are left out. A pair of candidate and requirement is the recruitment
context every table is keyed by.

### Correspondence

| code | actions |
|---|---|
| `CreateCandidateScreening` | `TakeSlot`, `RecordScreening` |
| `UpdateCandidateScreening` | `LockScreening`, `ReturnSlot`, `RecordOutcome` |
| `submission.Service.Submit` | `CheckSubmission`, `LockEvidence`, `EvidenceGone`, `RecordSubmission`, `DuplicateSubmission` |
| `feedback.Service.CreateFeedback` | `CreateFeedback` |
| `ScheduleInterview` | `ScheduleInterview`, `InsertInterview`, `ActiveConflict` |
| `UpdateInterview` | `UpdateInterview`, `WriteInterview`, `ActiveConflict` |
| `CreateCandidateRequirementSelection` | `CreateSelection`, `InsertSelection`, `DuplicateSelection` |
| `offer.Service.Create`, `Update` | `CreateOffer`, `LockSelection`, `RefuseOffer`, `InsertOffer`; `UpdateOffer` |
| `joining.Service.Create`, `Update` | `CreateJoining`, `LockOffer`, `RefuseJoining`, `InsertJoining`; `UpdateJoining` |
| `billing.Service.Create` | `CreateBilling`, `ReadClient`, `AlreadyBilled`, `LockJoining`, `RefuseBilling`, `InsertBilling` |
| `UpdateRequirement` | `ChangeClient` (its client only) |
| `TenantDB`, `LoginUser` | `OpenPool`, `StorePool`; `Login` on a cached pool |
| `VerifyRegistrationEmail` (after its commit), `ProvisionCurrentTenant` | `Admit`, `InsertAccount`, `InsertAccountFails`, `FinishProvisioning` |
| `ProvisionTenantDatabase` | `MarkProvisioning`, `CreateDatabase`, `InitializeTenantSchema`, `SeedOwner`, `MarkReady`, `ProvisionFails` |
| `ExpireDueSubscriptions`, `RecordExpiredTrialUsers` | `StartSweep`, `ExpireFails`, `FindExpired`, `RecordExpiredTrialUsers` |
| `CreateUser` | `CreateUser`, `CountUsers`, `InsertUser`, `InsertAccount`, `Commit`, `TakeBack` |
| `UpdateUser`, `DeleteUser` | `ReadForUpdate`, `UpdateUser`, `UpdateAccount`, `Revert`; `ReadForDelete`, `DeleteUser`, `DeleteAccount`, `Reinsert` |
| `RetryResume`, `persistResumeIntelligence` | `StartParsing`, `Fails`, `DeleteRows`, `InsertRows`, `Completes`, `Refuse` |
| `SendPhoneVerificationCode`, `VerifyPhoneVerificationCode` | `DeleteCodes`, `InsertCode`, `SendSMS`; `Lookup`, `CountAttempt`, `Consume` |
| `StartSubscriptionCheckout`, `RazorpaySubscriptionWebhook` | `StartCheckout`, `Webhook` |
| `CleanupExpiredTrials`, `DeleteTenantDatabase` | `ListDeletable`, `LockDeletion`, `AlreadyRemoved`, `Terminate`, `EvictPool`, `ReadUsers`, `ArchiveTenantUsers`, `DropDatabase`, `DropFails`, `RemoveControlRecords`, `SweepFails` |

`SubmissionArrives` and `SelectionArrives` stand for the upstream group when a
module is checked by itself; `RecruitmentLifecycle` replaces them by the real handlers,
and checks that these do nothing else to the shared table
(`GroupsAsSpecified`).

Of the pages: `loadState` is `Started`, `Answer`, `Applied`, `ReadRows`, `ReadFeedback` of `LifecyclePage`; the two interceptors are
`Call`, `Unauthorized`, `PaymentRequired` and `Fine` of `BrowserSession`; a page's `onSuccess` and `onError`
are the actions named after what happened (`Succeeds`, `Fails`, `Updated`, `UpdateFails`, `Billed`, `CreateFails`, `Listed`, `ListFails`).

### Time in `TenantLifecycle`

`clock` has three phases: the trial of two days, the retention of seven, and after.
`Tick` does not pass a boundary while a request is in flight, and not the second while a
sweep is: neither lasts that long. Tokens last 24 hours, so they may expire at any time
(`TokensExpire`) and none survives the retention. `AddUser`, a
user created through a request that was admitted in the trial, may still happen after
the trial has expired but not after the retention.

The model has the trial as its only subscription. That is what the code gives: the `INSERT` with which
the payment webhook would record another names eight columns and seven values
(`subscription_handlers.go:378`), so its transaction never commits and
`account_status` is ACTIVE until the deletion.

## 3. Runs

| run | question | instance |
|---|---|---|
| `screening_admission` | counter, evidence, audit trail, slot pool; every request ends | 1 candidate with 2 slots, 2 requirements, 3 screening rows, 2 requests |
| `interview_selection` | one active interview, one decision, stages | 2 pairs, 3 interviews, 2 requests |
| `placement` | stages in order, fit upstream rows, one billing; every request ends | 1 pair, 2 clients, 2 dates, 3 requests |
| `recruitment_lifecycle` | the eight stages, assumptions between groups | 1 pair, 1 screening, 1 interview, one request of each group |
| `tenant_lifecycle` | let in to a complete database; nobody lost to the ledger; removed in the end | 2 users, 2 requests, 2 sweeps, 2 failures |
| `lifecycle_page` | true rows of one pair, gates, loading ends | 2 pairs, 2 loads in flight, 1 operation, 1 change of pair, 1 trouble (a lost request, or a colleague who goes on or takes a step back) |
| `browser_session` | entries agree, pages know, what ends a good session, log-outs arrive | 2 tabs, 2 accounts, 2 sessions, 1 call of a tab in flight |
| `list_pages` | what pages know of the lists, forms recover and keep what was typed | 4 lists of up to 2 rows, 4 choices |
| `edit_pages` | users and six pages, see section 4 | 4 users, 2 requests, 4 calls, 2 faults; 2 rows and 2 slots on each page, 2 or 3 clicks |
| `tenant_orphan` | a sentence of the documentation, refuted | 2 users, 1 request, 1 sweep, 1 failure |
| `list_shape` | pages that open on another page's answer | as `list_pages` |
| `payment_activation` | a payment that never activates | 1 tab, 1 code, 1 checkout, 2 events |

Why the bounds are enough. The rows of different candidates or pairs meet in no
statement except through the candidate's counter, so one candidate with two
requirements (and two pairs in `InterviewSelection`, for the index over pairs) shows
every interference. Two requests are the smallest race; a third in `Placement`
lets one correct the upstream row while another two create on it. Three rows with a limit of two make
requests meet the limit. Ids are handed out once, so `Screenings` and
`Interviews` bound the length of a history, not its shape. The proofs remove these
bounds for the properties they cover.

In `TenantLifecycle`, tenants share nothing but the sweep that visits them in turn, so one tenant
is enough. Two sweeps are the hourly one and the one at start-up (or that of another server). Every
failed statement and every crash counts against `MaxFailures`: with two, a retry can
be interrupted again. `RetiredReasonKept` speaks of histories with fewer than three failures: three
can lose the reason (`ExpireDueSubscriptions` fails unnoticed, the deletion
stops after TERMINATED, `ExpireDueSubscriptions` fails again, and the resumed
deletion finds neither a ledger entry nor an expired subscription and records
ACCOUNT_DELETED). The other properties were also checked with three, and the safety properties are
proved for every number.

In `UserAccounts` two requests meet in every place, a third user is created while the second is
deleted or restored, the limit of two is reached at once, and two faults let a compensation
fail as well. On the pages two slots are the smallest overlap, and the answers of two rows the smallest mix-up; clicks, choices and colleagues'
changes are bounded because each is one more of the same. `MaxAttempts` is 1 where the program
has 5: what matters is the race at the last attempt.

The parts of `edit_pages` share no variable, so one run over "one of the parts moves" explores
exactly the states of each part by itself.

Deadlock is checked for the server modules, where a request can always arrive or fail. It is not for
the pages and the users, whose clicks and calls are bounded: when they are used up and all is answered, nothing is left to do.

## 4. Properties

`CountMatchesActive`: `screening_count` equals the number of active screenings and is
within the limit. `SubmittedOnEvidence`: a submission commits on a screening that is
completed at that moment. `AuditTellsTheTables`: the audit trail and the tables tell
the same story. `SlotPool`: the handlers implement `ScreeningSlots`, so a screening
that gave its slot back never takes one again.

`OneActiveInterview`, `DecisionIsFinal`: what is left to unique indexes when the checks
race. `StagesInOrder`: no row that an unlocked check relied on is taken away.

`PlacementInOrder`: no placement stage without the one before it. `PlacedOnFitRows` joins two
action properties: a joining is committed while its offer is accepted (`JoinedOnAcceptedOffer`), and a
pair is billed once, while it has joined and on the date of the joining (`BilledOnJoining`). The re-check
under the lock makes up for the stale read before it.

`CanonicalLifecycle`: all handlers together implement `RecruitmentPipeline`: a pair moves
through the eight stages one at a time, never back, and a rejected pair stops. `GroupsAsSpecified`: in the composition
the groups behave as their own modules say, so what those assume of their neighbours is true.

`ReadyMeansUsable`: a tenant that is let in, by its status or by a cached pool, has a complete
database with its owner in it, whatever was interrupted, and also during its deletion.
`ArchivedBeforeDrop`: whoever is in the database when it is dropped is in the ledger.
`RetiredReasonKept`: a resumed deletion finds TERMINATED and still records the expired trial, unless three
statements or servers have failed.
`EventuallyDeleted` (liveness): an interrupted deletion is resumed until the tenant is gone.

`SeatsKept`: two creations at the last free seat do not both succeed; only a deletion that is taken back
can exceed the limit. `BothOrNeither`: after any sequence of creations, updates and deletions a user is the same in both databases
or in neither, unless the user is in `marred`.

`RowsAreTrue`, `LoadingEnds` (liveness): the lifecycle page shows
the rows of one pair, and it always stops loading. A step shown as done is done on the server, unless somebody has taken it
back after the load began that brought it. `GatesAreThePrerequisites`: while the rows are those of the chosen
pair, an operation is only sent when the server has what it needs, with the same exception.

`TabsKnowTheSession`: the two entries in the browser's store belong together, and nobody sees a protected page
without them. `GoodSessionKept`: a session the server would accept ends by a log-out, by a later login, or by the 401 to a request that was sent with
another token, which is good no more; no 402, event, page or form ends it. That the 401 may do so is not what the code's comment says (section 5).
`LoggedOutEverywhere` (liveness): other tabs hear of a log-out.

`FormsRecover` joins `ButtonReturns` (liveness) and `FilledFormKept`: a refused form can be sent again with what was typed in it.

On the edit pages each property joins one of every page that has the hazard.
`PagesCatchUp`: when nothing is in flight the page shows what the server has, up to the history variables (`ListAndSeatsCatchUp`,
`StagesInStep`, `DetailsCatchUp`, `WorklistCatchesUp`, `RepositoryCatchesUp`).
`WaitingMeansWork`: no button stays locked and no resume stays 'processing' when the work has ended (the definition of
that name in `BillingPage`, `ButtonsComeBack`, `ProcessingMeansWork`).
`WritesReachTheirRow`: one form or one note serves all rows and still nothing goes to another, and retries of a
resume that do not overlap leave one history (`EditsReachTheirUser`, `FilesReachTheirCandidate`, `HistoryOnce`).
`PaymentIsGuarded`: guesses at a code are bounded, a code works once, and payment is offered on the administrator's own
phone (`CodesAreGuarded`, `PaymentMeansOwnPhone`).

`RequestsEnd` (liveness): row locks never make requests wait for ever.

The excuses in these properties are harms the code does have: the list of hazards in `PROJECT.json` names each, and section 5 has the
orders of steps.

### Fairness

`FairSpec` assumes strong fairness of each worker's `Progress`: a goroutine is scheduled,
and PostgreSQL queues the waiters of a row lock, so a request whose next
statement becomes possible again and again executes it. Nothing makes requests
arrive, and nothing makes one fail. Strong fairness is needed because a lock a request
waits for may be free and taken again in between.

In `TenantLifecycle` the ticker of `main` starts sweeps for ever (weak fairness of `StartSweep`), and a
sweep goes on unless it fails (strong fairness of `SweepProgress`, for the advisory lock that two
sweeps take in turn). Failures are finite in number; that they end is the assumption
under which a retry can succeed.

`LifecyclePage` assumes that loads and operations that began go on (an answer or a failure arrives),
`BrowserSession` that a tab handles its events, `ListPages` that posts end, `CheckoutPage` that the provider goes on delivering an event
until it is accepted, within the bound. No page is assumed to be used.

## 5. Findings

Three have a run that shows them.

1. `backend/handlers/subscription_handlers.go:378`: the `INSERT` that activates a subscription names eight columns and gives seven
   values, so no payment ever activates one, against `docs/phase-9-release-gate.md:67` (`payment_activation`).
2. `frontend/src/pages/Interviews.tsx:59`: dashboard, `Interviews` and `Requirements` keep answers of different shape under one key. Opened
   from the dashboard the page fails, against the test that renders it by itself (`list_shape`).
3. `docs/architecture/greenfield-database-application-audit.md:259`, TERMINATED keeps provisioning from new work:
   `ProvisionTenantDatabase` does not look at the account and has another lock than the deletion, so
   it may create the database again after the drop, and nothing removes it (`tenant_orphan`).

Observations, which follow from the code as the models have it and have no run:

* `docs/phase-6-selection-workflow.md:51`, a selection requires a completed interview: the interviews are read without
  a lock (`selection_handlers.go:134`). One request finds a completed one, another cancels it, and the first commits its decision.
* `candidate_handlers.go:624`, the pipeline stage has no bearing on eligibility: `UpdateCandidate` reads the status (`:253`),
  a colleague blacklists the candidate, and the status read before is written back with the new stage.
* `api.ts:43`, a 401 means that the stored session is no longer usable: the request may have been sent with the token of an
  earlier session, which has ended; after a new login its 401 removes the new session.
* `frontendUiBehavior.test.tsx:302`, downstream actions are blocked until prerequisites exist: after another pair is chosen
  (`RecruitmentLifecycle.tsx:135`) the rows and buttons of the pair before stay until the load ends, and a click sends the operation for the new
  pair. The backend refuses it, but for feedback, which goes to the submission of the pair before.
* `docs/phase-7-offer-joining-billing.md:56`, billing requires an accepted offer: `billing.Service.Create`
  looks at the joining only, and an acceptance can be withdrawn after the joining.
* `docs/architecture/ADRs/0013-offer-joining-billing-boundary.md:87`, the billing date is the joining date: a joining
  may be changed after the billing.
* `docs/phase-5-interview-workflow.md:71`, scheduling requires a completed screening: the handler checks the
  submission and the feedback, and a screening may be rejected after the submission.
* `backend/db/retirement.go:38`, the ledger prevents expired accounts from authenticating: `LoginUser` lets those of
  an expired trial in.
* `docs/architecture/permanent-registration-identity.md:294`, recovery of a failed provisioning: it needs a token that
  expires after a day and that nothing can renew for a tenant that was never READY.
* `resume_ai_handlers.go:565` names `tenant_id` twice in an `INSERT`, so `UploadResumes` records nothing.
* `Candidates.tsx` sends the rows of its list as updates, without the fields the list does not have: a change of stage empties `jobdescription`.
* `InterviewDetails.tsx:72`: an update of the interview sends the copy the page has loaded, so feedback a colleague has written since is put back to the old, however long ago.
* `Candidates.tsx:147`: of two updates in flight the later answer puts its own old list into the page, without the other's stage.
* `Billing.tsx:50`: of two loads that overlap the older answer may come last and show a billed pair as pending; the server refuses to bill it twice.
* `resume_ai_intelligence.go:274`: two retries of one resume at once leave the history twice, and `ResumeAI.tsx:96` unlocks the button of one row when the retry of another ends.
* `user_management_handlers.go:230`, `:242`, `:268`: a crash, or a second request on the same user, may leave a user in one database only, and a deletion that is taken back may exceed the seats.
* `AddCandidate.tsx:97`: a post whose answer was lost and that is sent again adds a second row.
* After a client, candidate, requirement or interview was added, its list comes from the cache for up to five minutes, without it.
* `ResumeAI.tsx:152`: Details in a search result passes the id of a candidate where one of a resume is expected.
* `Reports.tsx:17`: the answer for the period chosen before may come last and stay.

## 6. Proofs

Assumptions: only those the modules state, that ids of rows belong to
a pair, limits are positive and bounds natural, the sets of screening ids and of users are finite, the administrator is a user,
a page has a slot for a request, and that the "no row" and "no worker" values are not rows or workers.

**`ScreeningAdmission_proofs`.** `CountMatchesActive` is not inductive: a request that
has taken or returned a slot carries a decision made earlier. `LockedFacts` says what its
locks protect: `slotTaken` implies the candidate row is locked by this worker and a slot is free,
`screeningLocked` that the remembered status is still the status, `slotReturned` both, and
`evidenceLocked` that the screening is still completed. With types, this is
inductive, and the cardinality of the active set changes by one exactly when
the counter does. The same invariant gives `SubmissionsOnEvidence` and, step by
step, the refinement `HandlersImplementSlots`; it makes `AuditTold` inductive, since a screening is closed
once only because its status is still the remembered one.

**`InterviewSelection_proofs`.** One active interview is proved as
"two active interviews of a pair are equal", which is inductive with the stages because the
index is evaluated in the write; the cardinality form follows from it. That rows stay
once inserted carries the checks of requests in flight.

**`Placement_proofs`.** `LocksHeld`, the place of a request says which row lock it
has, makes `PlacementInOrder` inductive: an upstream row can be updated only by who
finds it unlocked, so what was checked under the lock holds at the insert. `PlacementsOnFitRows` follows,
since only the inserts write joinings of a pair that had none, and billings.

**`RecruitmentLifecycle_proofs`.** The rely of each group is discharged by the others: every step of the composition
is a step of one group as its own module has it, and for the others either nothing or one of the arrivals
they allow for (`GroupsComposed`). So the invariants of the three modules hold in the composition, and with them
each step maps to one step of the pipeline or to none (`LifecycleIsCanonical`): the stage of a pair is the last table that has its row,
`StagesInOrder` and `PlacementInOrder` say that the tables before it have theirs, and the unique rows that it never moves twice.

**`TenantLifecycle_proofs`.** For any number of users, requests, sweeps and failures. Three invariants, each on top of the one before.
`UsableInv` (`TenantUsable`): while the account is ACTIVE, a tenant that is READY, has a cached pool or is
having one opened has a ready database with its owner in it (`PoolsOpen`), and an owner who has an account is among the users
(`OwnersSeeded`); a deletion takes the account out of ACTIVE before it touches the database (`DeletionShuts`).
`ArchiveInv` (`UsersArchived`): a deletion begins after the retention (`RetentionOver`), when nobody adds users, and
has read and archived them all when it drops the database (`FoundAll`). `ReasonInv` (`ReasonsStay`) counts failures while nobody is in the ledger:
each sweep that skipped the expiry has cost one (`SkipsCost`), and a tenant that is TERMINATED with nobody deleting it two, for a skipped
expiry and an interrupted deletion, or three when a sweep has skipped the expiry again (`DeletionsCost`). Only that sweep would record the wrong reason.

**`EditPages_proofs`**, of `UserAccounts`. For every number of users, requests, calls and faults. `UserTypes`: types,
unique emails and the lock, together with `AdminStays` (requests work on ids that were given out,
never on the administrator's, whose email no update can then take). `SeatLimitHolds`: `SeatsKept` alone is not inductive, since an insert relies on a count made before;
`SeatFree` says that the seat is still free when it is taken, since the lock keeps other
creations away and nothing else adds a row that is not in `restored`. `DatabasesAgree`: `PairsOK` says of each user not in
`marred` that one request at most works on it, that this request's place tells what both databases hold (`Phase`), and
that they agree when none does. A step of the request moves from one phase to the next or ends
in agreement (`PhaseStep`); a step of another leaves the user alone (`Untouched`).

**`BrowserSession_proofs`.** `SessionInv` adds to `TabsKnowTheSession` what a tab that has events to handle will learn (`Informed`), that the
two entries are written together (`Together`), and which accounts are in registration (`Registering`, `FormsOK`). `SessionGivenUp`, the
action property, is read off the actions: logins only replace the entry, and what removes it is a log-out or a 401, whose request was then sent with another token.

**`EditPages_proofs`**, of the pages. A behaviour of `EditPages` is one of each part (`PartsOf`), so each part has an invariant of its own, for any number
of rows and slots: `CheckoutInv`, `AdminInv`, `CandidateInv`, `InterviewInv`, `BillingInv`, `ResumeInv`. They have the same
form. For each slot in flight they say what its answer will bring, given where it has come to and what has happened since
it started, and for each row the page shows, which of the answers on their way will still correct it; the history variables are the
excuses. So with nothing in flight the page shows the server's rows (`CatchUp`), a lock that is set has a request that will free
it (`WaitingWorks`), and what a closure has kept names the row it was opened for (`RowsReached`). In `ResumeInv`, a resume that is not
`raced` has one history at most, and a retry that is about to write one has seen what is there (`HistoryOK`).

**`BrowserPages_proofs`**, of `LifecyclePage`. No write deletes a row, and a step that a write takes back is noted in each load and each shown row
of its pair (`Grows`, `Became`, `WrittenGrows`). So `PageInv` says of each load in flight that what it has seen has become what the server has, the steps in `undone` apart
(`LoadsTrue`), and of each row on the page that it is true of the pair it is shown for, unless it is `stale` (`ShownTrue`); the answers of one load replace all rows at once (`OnePair`).
`PageIsTrue` and `GatesArePrerequisites` read this off, for any number of loads, operations and colleagues.

**`BrowserPages_proofs`**, of `ListPages`. An entry of the cache, a request under way and a success that was told know of rows the server has
(`CacheOK`, `FetchingOK`, `ListedOK`), and each post in flight has cost a choice and belongs to the form on the page or to one that was
left (`PostsOK`). `FormsKept` is the safety part of `FormsRecover`.

Only model-checked: liveness (`RequestsEnd`, `EventuallyDeleted`, `LoadingEnds`, `LoggedOutEverywhere`, `ButtonReturns` of `FormsRecover`),
which is out of the prover's reach. Every invariant and every action property of the passing runs has a theorem.

## 7. Not modelled

* The e-mail codes of a registration, roles in tokens, reporting, audit reads, routing and response formats: most are
  reads that change no state.
* Schema migration, which holds one advisory lock from its first statement to its last.
* `domain/screening`: no route reaches it; the handlers repeat its rules.
* Matching and the extraction of resumes: scoring and text, without state.
* The end-to-end reset truncates one fixed test tenant; the deployment is scripts.
* Static pages, `Reports`, `CandidateProfile` and the vendored user interface kit (`components/ui`).
* Inside the models: the content of notes, snapshots and amounts, pagination and role checks.

## 8. What could follow

1. The e-mail codes of a registration: attempts, expiry, double verification, clean-up.
2. Creation and deletion of candidates, clients and requirements with the foreign keys that refuse them.
