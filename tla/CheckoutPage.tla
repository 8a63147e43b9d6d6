----------------------------- MODULE CheckoutPage -----------------------------
(***************************************************************************)
(* The administrator pays: components/SubscriptionCheckout.tsx on          *)
(* pages/Account.tsx, in tabs that may be open beside each other, with     *)
(* SendPhoneVerificationCode and VerifyPhoneVerificationCode               *)
(* (handlers/verification_handlers.go), StartSubscriptionCheckout and      *)
(* RazorpaySubscriptionWebhook (handlers/subscription_handlers.go).        *)
(* A code is sent to a phone, lives for ten minutes, and may be guessed    *)
(* wrong MaxAttempts times.  The handlers read the code first and write    *)
(* with a guarded UPDATE later, so the tabs' requests interleave.          *)
(* External: the SMS and payment providers, and the browser that goes to   *)
(* the provider's page.  Nobody leaves the page while it waits.            *)
(***************************************************************************)
EXTENDS Naturals, Sequences

CONSTANTS Tabs,
          MaxCodes,      \* codes sent (bound)
          MaxAttempts,   \* wrong guesses at one code (5 in the program)
          MaxCheckouts,  \* subscriptions at the provider (bound)
          MaxEvents      \* deliveries of the payment event (bound)

VARIABLES
    codes,         \* platform_verification_codes of the account, in the order of
                   \* their ids, with those that were deleted
    phoneVerified, \* phone_verified_at is set
    subscription,  \* status of the latest subscription
    checkouts,     \* rows of platform_subscription_checkouts
    orphans,       \* subscriptions at the provider without such a row
    paid, events,  \* at the provider: paid, and events delivered
    tabs,          \* state of the component in each tab
    requests       \* the request each tab waits for

server == <<codes, phoneVerified, subscription, checkouts, orphans>>
provider == <<paid, events>>
vars == <<server, provider, tabs, requests>>

Phones == {"own", "mistyped"}
Nowhere == [phoneSent |-> FALSE, verified |-> FALSE, busy |-> FALSE, cancelling |-> FALSE,
            at |-> "account"]
NotAsked == [at |-> "not"]
Wrong == 0
CodeIds == DOMAIN codes
Open(i) == codes[i].is = "open" /\ codes[i].live

TypeOK ==
    /\ Len(codes) <= MaxCodes
    /\ \A i \in CodeIds : codes[i] \in [phone : Phones, live : BOOLEAN, attempts : Nat,
                                    is : {"open", "consumed", "deleted"}, successes : Nat]
    /\ phoneVerified \in BOOLEAN /\ subscription \in {"TRIAL", "EXPIRED", "ACTIVE"}
    /\ checkouts \in Nat /\ orphans \in Nat /\ events \in 0 .. MaxEvents
    /\ \A t \in Tabs :
          /\ tabs[t].at \in {"account", "provider"}
          /\ requests[t] # NotAsked => tabs[t].busy
          /\ tabs[t].at = "provider" => tabs[t].verified /\ checkouts > 0

Init ==
    /\ codes = <<>>
    /\ phoneVerified = FALSE
    /\ subscription = "TRIAL"
    /\ checkouts = 0 /\ orphans = 0
    /\ paid = FALSE /\ events = 0
    /\ tabs = [t \in Tabs |-> Nowhere]
    /\ requests = [t \in Tabs |-> NotAsked]

-----------------------------------------------------------------------------
Waits(t, request) ==
    /\ tabs' = [tabs EXCEPT ![t].busy = TRUE]
    /\ requests' = [requests EXCEPT ![t] = request]
Goes(t, request) == requests' = [requests EXCEPT ![t] = request] /\ UNCHANGED tabs
Told(t, tab) == tabs' = [tabs EXCEPT ![t] = tab] /\ requests' = [requests EXCEPT ![t] = NotAsked]
Refused(t) == Told(t, [tabs[t] EXCEPT !.busy = FALSE])
Succeeds(t, tab) == Told(t, tab) \/ Refused(t)    \* ... or the answer is lost

(* What the component offers.                                              *)
Ready(t) == tabs[t].at = "account" /\ ~tabs[t].busy
CanSend(t) == Ready(t) /\ ~tabs[t].phoneSent /\ ~tabs[t].verified
CanVerify(t) == Ready(t) /\ tabs[t].phoneSent /\ ~tabs[t].verified
CanPay(t) == Ready(t) /\ tabs[t].verified

(* sendCode                                                                *)
SendCode(t, phone) ==
    /\ CanSend(t)
    /\ Waits(t, [at |-> "delete", phone |-> phone])
    /\ UNCHANGED <<server, provider>>

Without(ids) == [i \in CodeIds |-> IF i \in ids THEN [codes[i] EXCEPT !.is = "deleted"] ELSE codes[i]]

DeleteCodes(t) ==
    /\ requests[t].at = "delete"
    /\ codes' = Without({i \in CodeIds : codes[i].is = "open"})
    /\ Goes(t, [requests[t] EXCEPT !.at = "insert"])
    /\ UNCHANGED <<phoneVerified, subscription, checkouts, orphans, provider>>

InsertCode(t) ==
    /\ requests[t].at = "insert"
    /\ \/ /\ Len(codes) < MaxCodes
          /\ codes' = Append(codes, [phone |-> requests[t].phone, live |-> TRUE, is |-> "open",
                                     attempts |-> 0, successes |-> 0])
          /\ Goes(t, [at |-> "sms", id |-> Len(codes) + 1])
       \/ Refused(t) /\ UNCHANGED codes
    /\ UNCHANGED <<phoneVerified, subscription, checkouts, orphans, provider>>

(* The SMS is sent, or the code is deleted again.                          *)
SendSMS(t) ==
    /\ requests[t].at = "sms"
    /\ \/ Succeeds(t, [tabs[t] EXCEPT !.phoneSent = TRUE, !.busy = FALSE]) /\ UNCHANGED codes
       \/ Refused(t) /\ codes' = Without({requests[t].id})
    /\ UNCHANGED <<phoneVerified, subscription, checkouts, orphans, provider>>

(* Ten minutes later.                                                      *)
Expire(i) ==
    /\ Open(i)
    /\ codes' = [codes EXCEPT ![i].live = FALSE]
    /\ UNCHANGED <<phoneVerified, subscription, checkouts, orphans, provider, tabs, requests>>

-----------------------------------------------------------------------------
(* verify: who has the phone types a code that was sent to it, or a wrong  *)
(* one.                                                                    *)
Verify(t, guess) ==
    /\ CanVerify(t)
    /\ guess # Wrong => codes[guess].phone = "own"
    /\ Waits(t, [at |-> "lookup", guess |-> guess])
    /\ UNCHANGED <<server, provider>>

(* The newest code that is open, and its attempts so far.                  *)
Lookup(t) ==
    /\ requests[t].at = "lookup"
    /\ LET open == {i \in CodeIds : Open(i)}
       IN  IF \E i \in open : (\A j \in open : j <= i) /\ codes[i].attempts < MaxAttempts
           THEN LET i == CHOOSE i \in open : \A j \in open : j <= i
                IN  Goes(t, [at |-> IF requests[t].guess = i THEN "consume" ELSE "count", id |-> i])
           ELSE Refused(t)
    /\ UNCHANGED <<server, provider>>

Guarded(i) == Open(i) /\ codes[i].attempts < MaxAttempts

\* the UPDATE trusts the attempts that were read before
CountAttemptMutant(t) ==
    /\ requests[t].at = "count"
    /\ LET i == requests[t].id
       IN  codes' = IF Open(i) THEN [codes EXCEPT ![i].attempts = @ + 1] ELSE codes
    /\ Refused(t)
    /\ UNCHANGED <<phoneVerified, subscription, checkouts, orphans, provider>>

CountAttempt(t) ==
    /\ requests[t].at = "count"
    /\ LET i == requests[t].id
       IN  codes' = IF Guarded(i) THEN [codes EXCEPT ![i].attempts = @ + 1] ELSE codes
    /\ Refused(t)
    /\ UNCHANGED <<phoneVerified, subscription, checkouts, orphans, provider>>

(* One transaction: the code is consumed and the account verified.         *)
Consume(t) ==
    /\ requests[t].at = "consume"
    /\ LET i == requests[t].id
       IN  IF Guarded(i)
           THEN /\ codes' = [codes EXCEPT ![i].is = "consumed", ![i].successes = @ + 1]
                /\ phoneVerified' = TRUE
                /\ Succeeds(t, [tabs[t] EXCEPT !.verified = TRUE, !.busy = FALSE])
           ELSE Refused(t) /\ UNCHANGED <<codes, phoneVerified>>
    /\ UNCHANGED <<subscription, checkouts, orphans, provider>>

-----------------------------------------------------------------------------
Checkout(t) ==
    /\ CanPay(t)
    /\ Waits(t, [at |-> "checkout"])
    /\ UNCHANGED <<server, provider>>

(* Without a verified phone, or a subscription at the provider, a refusal. *)
(* The provider creates it, then its row is inserted; on success the tab   *)
(* goes to the provider and stays busy, unless the answer is lost.         *)
StartCheckout(t) ==
    /\ requests[t].at = "checkout" /\ checkouts + orphans < MaxCheckouts
    /\ \/ Refused(t) /\ UNCHANGED <<checkouts, orphans>>
       \/ /\ phoneVerified
          /\ \/ /\ checkouts' = checkouts + 1
                /\ Succeeds(t, [tabs[t] EXCEPT !.at = "provider"])
                /\ UNCHANGED orphans
             \/ orphans' = orphans + 1 /\ Refused(t) /\ UNCHANGED checkouts
    /\ UNCHANGED <<codes, phoneVerified, subscription, provider>>

Pay(t) ==
    /\ tabs[t].at = "provider"
    /\ ~paid /\ paid' = TRUE
    /\ UNCHANGED <<server, events, tabs, requests>>

(* Back from the provider, or reloaded: the component starts anew.         *)
Reload(t) ==
    /\ requests[t] = NotAsked
    /\ tabs[t] # Nowhere
    /\ tabs' = [tabs EXCEPT ![t] = Nowhere]
    /\ UNCHANGED <<server, provider, requests>>

(* Cancel Subscription: the trial has no provider, so the answer is 400.   *)
Cancel(t) ==
    /\ tabs[t].at = "account" /\ ~tabs[t].cancelling
    /\ subscription = "TRIAL"
    /\ tabs' = [tabs EXCEPT ![t].cancelling = TRUE]
    /\ UNCHANGED <<server, provider, requests>>

CancelRefused(t) ==
    /\ tabs[t].cancelling
    /\ tabs' = [tabs EXCEPT ![t].cancelling = FALSE]
    /\ UNCHANGED <<server, provider, requests>>

TrialEnds ==
    /\ subscription = "TRIAL"
    /\ subscription' = "EXPIRED"
    /\ UNCHANGED <<codes, phoneVerified, checkouts, orphans, provider, tabs, requests>>

(* The INSERT into platform_subscriptions names tenant_id, plan_code,       *)
(* status, starts_at, ends_at, provider, provider_subscription_ref and     *)
(* user_limit, and gives $1 to $5, 'razorpay' and $6 for them.             *)
Columns == 8
GivenValues == 7

(* The handler finds the checkout and the tenant, records the event and    *)
(* writes the subscription in one transaction.  PostgreSQL refuses an      *)
(* INSERT with fewer values than columns: all of it is rolled back, and    *)
(* the provider, told of an error, delivers again.                         *)
Webhook ==
    /\ paid
    /\ events < MaxEvents /\ events' = events + 1
    /\ subscription' = IF GivenValues = Columns THEN "ACTIVE" ELSE subscription
    /\ UNCHANGED <<codes, phoneVerified, checkouts, orphans, paid, tabs, requests>>

Next ==
    \/ \E t \in Tabs : \E phone \in Phones : SendCode(t, phone)
    \/ \E t \in Tabs : DeleteCodes(t) \/ InsertCode(t) \/ SendSMS(t)
    \/ \E i \in CodeIds : Expire(i)
    \/ \E t \in Tabs : \E guess \in CodeIds \cup {Wrong} : Verify(t, guess)
    \/ \E t \in Tabs : Lookup(t) \/ CountAttempt(t) \/ Consume(t)
    \/ \E t \in Tabs : Checkout(t) \/ StartCheckout(t) \/ Pay(t) \/ Reload(t)
    \/ \E t \in Tabs : Cancel(t) \/ CancelRefused(t)
    \/ TrialEnds \/ Webhook

Spec == Init /\ [][Next]_vars

(* The provider delivers the event of a payment.                           *)
FairSpec == Spec /\ WF_vars(Webhook)

-----------------------------------------------------------------------------
(* However the requests of the tabs interleave, no more wrong guesses are  *)
(* counted at a code than allowed, and a code verifies the phone once.     *)
CodesAreGuarded ==
    \A i \in CodeIds : codes[i].attempts <= MaxAttempts /\ codes[i].successes <= 1

(* A tab offers payment only when the server has verified the phone, which *)
(* it does only for a code that the administrator's own phone got.         *)
PaymentMeansOwnPhone ==
    \A t \in Tabs : tabs[t].verified =>
        phoneVerified /\ \E i \in CodeIds : codes[i].successes > 0 /\ codes[i].phone = "own"

(* Who has paid gets the subscription.                                     *)
PaymentActivates == paid ~> subscription = "ACTIVE"
=============================================================================
