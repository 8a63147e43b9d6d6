--------------------------- MODULE BrowserSession ---------------------------
(***************************************************************************)
(* Who is logged in, as the tabs of one browser see it.  The session is    *)
(* two entries of localStorage, which all tabs share; everything else is   *)
(* the state of a tab:                                                     *)
(*   services/api.ts      the token is read when a request is sent; a 401  *)
(*                        removes the stored session, a 402 moves the tab  *)
(*                        to /account                                      *)
(*   App.tsx              ProtectedRoute looks at the entries when it is   *)
(*                        mounted and when another tab has changed them    *)
(*   Login, Register      store a session and navigate                     *)
(*   Navbar               shows the user and logs out                      *)
(* A request is not cancelled when its page is left; only a reload of the  *)
(* tab (location.replace) ends it.  A tab runs one piece of code at a      *)
(* time, and what it writes to localStorage in one is seen as a whole.     *)
(***************************************************************************)
EXTENDS FiniteSets, Naturals

CONSTANTS Tabs,
          Newcomers,   \* tabs opened on the Register page
          Accounts,
          Customers,   \* accounts that exist at the beginning
          Trials,      \* accounts whose trial can end
          Sessions,    \* tokens the server can issue (bound)
          MaxCalls,    \* requests of a tab in flight (bound)
          MaxVisits,   \* links followed (bound)
          None

ASSUME AccountsAssumption == Customers \subseteq Accounts /\ Trials \subseteq Accounts
ASSUME NoneAssumption == None \notin Accounts \cup Sessions \cup [account : Accounts, unpaid : BOOLEAN]
ASSUME VisitsAssumption == MaxVisits \in Nat

VARIABLES
    token, user,     \* the two entries of localStorage
    at,              \* page of each tab
    nav,             \* user in the Navbar of each tab
    event,           \* a storage event of another tab waits to be handled
    ready,           \* the Register page of each tab has a plan
    filled,          \* account in its form
    registration,    \* account whose code it asks for
    busy,            \* login, registration or verification of a tab in flight
                     \* (bound: one of a tab)
    calls,           \* tokens of the other requests of a tab in flight
    owner, live,     \* sessions the server has issued, and those still good
    registered,      \* server: accounts in registration
    unpaid,          \* server: accounts whose trial is over
    visits

store == <<token, user>>
tab == <<at, nav, event>>
form == <<ready, filled, registration>>
server == <<owner, live, registered, unpaid>>
vars == <<token, user, at, nav, event, ready, filled, registration, busy, calls,
          owner, live, registered, unpaid, visits>>

Protected == {"app", "account"}
Pages == {"login", "register"} \cup Protected
User == [account : Accounts, unpaid : BOOLEAN]
NoTask == [kind |-> "none"]
Tasks == [kind : {"login", "register", "verify", "firstLogin"}, account : Accounts \cup {None},
          form : Accounts \cup {None}, here : BOOLEAN]

TypeOK ==
    /\ token \in Sessions \cup {None}
    /\ user \in User \cup {None}
    /\ at \in [Tabs -> Pages]
    /\ nav \in [Tabs -> User \cup {None}]
    /\ event \in [Tabs -> BOOLEAN]
    /\ ready \in [Tabs -> BOOLEAN]
    /\ filled \in [Tabs -> Accounts \cup {None}]
    /\ registration \in [Tabs -> Accounts \cup {None}]
    /\ busy \in [Tabs -> Tasks \cup {NoTask}]
    /\ calls \in [Tabs -> SUBSET (Sessions \cup {None})]
    /\ owner \in [Sessions -> Accounts \cup {None}]
    /\ live \subseteq {s \in Sessions : owner[s] # None}
    /\ registered \in [Accounts -> {"no", "pending", "verified"}]
    /\ unpaid \subseteq Accounts
    /\ visits \in 0 .. MaxVisits
    \* the code is asked of an account in registration, on its page
    /\ \A t \in Tabs : registration[t] # None =>
          at[t] = "register" /\ registered[registration[t]] # "no"

Init ==
    /\ token = None /\ user = None
    /\ at = [t \in Tabs |-> IF t \in Newcomers THEN "register" ELSE "login"]
    /\ nav = [t \in Tabs |-> None]
    /\ event = [t \in Tabs |-> FALSE]
    /\ ready = [t \in Tabs |-> FALSE]
    /\ filled = [t \in Tabs |-> None]
    /\ registration = [t \in Tabs |-> None]
    /\ busy = [t \in Tabs |-> NoTask]
    /\ calls = [t \in Tabs |-> {}]
    /\ owner = [s \in Sessions |-> None]
    /\ live = {}
    /\ registered = [a \in Accounts |-> IF a \in Customers THEN "verified" ELSE "no"]
    /\ unpaid = {}
    /\ visits = 0

-----------------------------------------------------------------------------
Signed(tk, us) == tk # None /\ us # None
Home(us) == IF us.unpaid THEN "account" ELSE "app"

(* Where a page that is mounted sends the tab: Login does not show its     *)
(* form to a user who is logged in, and ProtectedRoute shows nothing to    *)
(* one who is not.  A ProtectedRoute that is already mounted stays, with   *)
(* what it saw, when the tab goes from one protected page to another.      *)
Landing(t, page, tk, us) ==
    CASE page = "login" /\ Signed(tk, us) -> Home(us)
      [] page \in Protected /\ at[t] \notin Protected /\ ~Signed(tk, us) -> "login"
      [] OTHER -> page

(* The tab shows a page: the Navbar of the protected pages reads the user  *)
(* again, and the state of a page that is left is gone.                    *)
Navbar(page, tk, us) == IF page \in Protected /\ Signed(tk, us) THEN us ELSE None

Shows(t, page, tk, us) ==
    /\ at' = [at EXCEPT ![t] = page]
    /\ nav' = [nav EXCEPT ![t] = Navbar(page, tk, us)]
    /\ IF page = "register" /\ at[t] = "register" THEN UNCHANGED form
       ELSE /\ ready' = [ready EXCEPT ![t] = FALSE]
            /\ filled' = [filled EXCEPT ![t] = None]
            /\ registration' = [registration EXCEPT ![t] = None]

\* the user entry is not removed
StoreMutant(t, tk, us) ==
    /\ token' = tk
    /\ user' = IF us = None THEN user ELSE us
    /\ event' = [u \in Tabs |-> event[u] \/ u # t]

(* setItem and removeItem: the other tabs get a storage event each.        *)
Store(t, tk, us) ==
    /\ token' = tk
    /\ user' = us
    /\ event' = [u \in Tabs |-> event[u] \/ u # t]

(* A link, or Back and Forward of the browser.  What is in flight goes on. *)
Visit(t, page) ==
    /\ page # at[t]
    /\ visits < MaxVisits
    /\ visits' = visits + 1
    /\ Shows(t, Landing(t, page, token, user), token, user)
    /\ busy' = [busy EXCEPT ![t] = IF @.kind \in {"register", "verify"}
                                   THEN [@ EXCEPT !.here = FALSE] ELSE @]
    /\ UNCHANGED <<store, event, calls, server>>

\* ProtectedRoute does not listen
HandleEventMutant(t) ==
    /\ event[t] /\ at[t] \notin Protected
    /\ event' = [event EXCEPT ![t] = FALSE]
    /\ UNCHANGED <<store, at, nav, form, busy, calls, server, visits>>

(* The storage event: ProtectedRoute looks again, and so does the Navbar.  *)
HandleEvent(t) ==
    /\ event[t]
    /\ event' = [event EXCEPT ![t] = FALSE]
    /\ IF at[t] \in Protected
       THEN LET page == IF Signed(token, user) THEN at[t] ELSE "login"
            IN  Shows(t, page, token, user)
       ELSE UNCHANGED <<at, nav, form>>
    /\ UNCHANGED <<store, busy, calls, server, visits>>

Logout(t) ==
    /\ nav[t] # None
    /\ Store(t, None, None)
    /\ Shows(t, "login", None, None)
    /\ UNCHANGED <<busy, calls, server, visits>>

-----------------------------------------------------------------------------
(* onSubmit of Login; the button is disabled while it runs.                *)
Login(t, a) ==
    /\ at[t] = "login"
    /\ busy[t] = NoTask
    /\ busy' = [busy EXCEPT ![t] = [kind |-> "login", account |-> a, form |-> None, here |-> TRUE]]
    /\ UNCHANGED <<store, tab, form, calls, server, visits>>

(* The server issues a session; the page that asked for it stores it and   *)
(* navigates, also when it is not the page of the tab any more.            *)
Unused == {s \in Sessions : owner[s] = None}
Profile(a) == [account |-> a, unpaid |-> a \in unpaid]
LoggedIn(t, a, page) ==
    /\ registered[a] = "verified"
    /\ Unused # {}
    /\ LET s == CHOOSE u \in Unused : TRUE
       IN  /\ owner' = [owner EXCEPT ![s] = a]
           /\ live' = live \cup {s}
           /\ Store(t, s, Profile(a))
           /\ Shows(t, page, s, Profile(a))
    /\ busy' = [busy EXCEPT ![t] = NoTask]
    /\ UNCHANGED <<calls, registered, unpaid, visits>>

LoginAnswer(t) ==
    /\ busy[t].kind = "login"
    /\ LET a == busy[t].account IN LoggedIn(t, a, Home(Profile(a)))

(* An error of any of the requests is a message on the page.               *)
TaskFails(t) ==
    /\ busy[t] # NoTask
    /\ busy' = [busy EXCEPT ![t] = NoTask]
    /\ UNCHANGED <<store, tab, form, calls, server, visits>>

(* Register: the plans arrive and the first is chosen.                     *)
LoadPlans(t) ==
    /\ at[t] = "register"
    /\ ~ready[t]
    /\ ready' = [ready EXCEPT ![t] = TRUE]
    /\ UNCHANGED <<store, tab, filled, registration, busy, calls, server, visits>>

(* The form can be edited whenever the code is not asked for, also while   *)
(* a code that was sent before is being verified.                          *)
Fill(t, a) ==
    /\ at[t] = "register"
    /\ registration[t] = None
    /\ filled[t] # a
    /\ filled' = [filled EXCEPT ![t] = a]
    /\ busy' = [busy EXCEPT ![t] = IF @.kind = "verify" /\ @.here THEN [@ EXCEPT !.form = a] ELSE @]
    /\ UNCHANGED <<store, tab, ready, registration, calls, server, visits>>

(* The button is disabled while the page waits or has no plan.             *)
Submittable(t) == busy[t] = NoTask /\ ready[t]
Register(t) ==
    /\ at[t] = "register"
    /\ registration[t] = None
    /\ filled[t] # None
    /\ Submittable(t)
    /\ busy' = [busy EXCEPT ![t] = [kind |-> "register", account |-> filled[t],
                                    form |-> None, here |-> TRUE]]
    /\ UNCHANGED <<store, tab, form, calls, server, visits>>

\* an answer to a page that is left moves the page that is there
RegisterAnswerMutant(t) ==
    /\ busy[t].kind = "register"
    /\ registered[busy[t].account] = "no"
    /\ registered' = [registered EXCEPT ![busy[t].account] = "pending"]
    /\ registration' = [registration EXCEPT ![t] = busy[t].account]
    /\ busy' = [busy EXCEPT ![t] = NoTask]
    /\ UNCHANGED <<store, tab, ready, filled, calls, owner, live, unpaid, visits>>

RegisterAnswer(t) ==
    /\ busy[t].kind = "register"
    /\ registered[busy[t].account] = "no"
    /\ registered' = [registered EXCEPT ![busy[t].account] = "pending"]
    /\ registration' = [registration EXCEPT ![t] = IF busy[t].here THEN busy[t].account ELSE @]
    /\ busy' = [busy EXCEPT ![t] = NoTask]
    /\ UNCHANGED <<store, tab, ready, filled, calls, owner, live, unpaid, visits>>

(* The code screen: verify, or "Back to registration".                     *)
VerifyEmail(t) ==
    /\ registration[t] # None
    /\ busy[t] = NoTask
    /\ busy' = [busy EXCEPT ![t] = [kind |-> "verify", account |-> registration[t],
                                    form |-> filled[t], here |-> TRUE]]
    /\ UNCHANGED <<store, tab, form, calls, server, visits>>

Back(t) ==
    /\ registration[t] # None
    /\ registration' = [registration EXCEPT ![t] = None]
    /\ UNCHANGED <<store, tab, ready, filled, busy, calls, server, visits>>

(* The code is right, once; the page goes on to log in with what the form  *)
(* holds by now.                                                           *)
EmailVerified(t) ==
    /\ busy[t].kind = "verify"
    /\ registered[busy[t].account] = "pending"
    /\ registered' = [registered EXCEPT ![busy[t].account] = "verified"]
    /\ busy' = [busy EXCEPT ![t] = [kind |-> "firstLogin", account |-> busy[t].form,
                                    form |-> None, here |-> TRUE]]
    /\ UNCHANGED <<store, tab, form, calls, owner, live, unpaid, visits>>

Dashboard == "app"
FirstLoginAnswer(t) == busy[t].kind = "firstLogin" /\ LoggedIn(t, busy[t].account, Dashboard)

-----------------------------------------------------------------------------
(* A protected page sends a request with the token that is stored then.    *)
Call(t) ==
    /\ at[t] \in Protected
    /\ Cardinality(calls[t]) < MaxCalls
    /\ calls' = [calls EXCEPT ![t] = @ \cup {token}]
    /\ UNCHANGED <<store, tab, form, busy, server, visits>>

Answered(t, c) == calls' = [calls EXCEPT ![t] = @ \ {c}]

(* location.replace: the page, and all that is in flight, is gone.         *)
Reload(t, page, tk, us) ==
    /\ Shows(t, page, tk, us)
    /\ calls' = [calls EXCEPT ![t] = {}]
    /\ busy' = [busy EXCEPT ![t] = NoTask]

(* 401: the stored session is removed, whichever session was refused.  The *)
(* Navbar of the tab hears of it through skillsifter-auth-changed.         *)
Unauthorized(t, c) ==
    /\ c \in calls[t]
    /\ c \notin live
    /\ Store(t, None, None)
    /\ IF at[t] = "login"
       THEN Answered(t, c) /\ UNCHANGED <<at, nav, form, busy>>
       ELSE Reload(t, "login", None, None)
    /\ UNCHANGED <<server, visits>>

\* a 402 removes the session as a 401 does
PaymentRequiredMutant(t, c) ==
    /\ c \in calls[t] \cap live
    /\ owner[c] \in unpaid
    /\ Store(t, None, None)
    /\ IF at[t] = "login"
       THEN Answered(t, c) /\ UNCHANGED <<at, nav, form, busy>>
       ELSE Reload(t, "login", None, None)
    /\ UNCHANGED <<server, visits>>

(* 402: the trial is over.  The reloaded tab looks at the store again.     *)
PaymentRequired(t, c) ==
    /\ c \in calls[t] \cap live
    /\ owner[c] \in unpaid
    /\ IF at[t] = "account"
       THEN Answered(t, c) /\ UNCHANGED <<at, nav, form, busy>>
       ELSE Reload(t, IF Signed(token, user) THEN "account" ELSE "login", token, user)
    /\ UNCHANGED <<store, event, server, visits>>

Fine(t, c) ==
    /\ c \in calls[t] \cap live
    /\ Answered(t, c)
    /\ UNCHANGED <<store, tab, form, busy, server, visits>>

(* Tokens expire and trials end.                                           *)
Expire(s) ==
    /\ s \in live
    /\ live' = live \ {s}
    /\ UNCHANGED <<store, tab, form, busy, calls, owner, registered, unpaid, visits>>

TrialEnds(a) ==
    /\ registered[a] = "verified"
    /\ a \notin unpaid
    /\ unpaid' = unpaid \cup {a}
    /\ UNCHANGED <<store, tab, form, busy, calls, owner, live, registered, visits>>

-----------------------------------------------------------------------------
Next ==
    \/ \E t \in Tabs :
          \/ \E page \in Pages : Visit(t, page)
          \/ HandleEvent(t) \/ Logout(t)
          \/ \E a \in Accounts : Login(t, a) \/ Fill(t, a)
          \/ LoginAnswer(t) \/ TaskFails(t)
          \/ LoadPlans(t) \/ Register(t) \/ RegisterAnswer(t)
          \/ VerifyEmail(t) \/ Back(t) \/ EmailVerified(t) \/ FirstLoginAnswer(t)
          \/ Call(t)
          \/ \E c \in calls[t] : Unauthorized(t, c) \/ PaymentRequired(t, c) \/ Fine(t, c)
    \/ \E s \in Sessions : Expire(s)
    \/ \E a \in Trials : TrialEnds(a)

Spec == Init /\ [][Next]_vars

(* Browsers deliver storage events.                                        *)
FairSpec == Spec /\ \A t \in Tabs : WF_vars(HandleEvent(t))

-----------------------------------------------------------------------------
(* Whatever the tabs do, the two entries of localStorage belong together,  *)
(* the user being the one to whom the server gave the token; and a tab     *)
(* shows a protected page only to this user, whom its Navbar names, except *)
(* while the news of a change made by another tab are under way.           *)
TabsKnowTheSession ==
    /\ token = None <=> user = None
    /\ token # None => owner[token] = user.account
    /\ \A t \in Tabs : at[t] \in Protected /\ ~event[t] => user # None /\ nav[t] = user

(* After a logout or a 401 in one tab no tab stays on a protected page. *)
LoggedOutEverywhere ==
    \A t \in Tabs : token = None ~> (token # None \/ at[t] \notin Protected)

(* A session that the server would still accept is given up only by a      *)
(* logout, by a later login, or by the 401 to a request that was sent with *)
(* another token, or with none: that one removes whichever session is      *)
(* stored when it arrives.  No 402, event, page or error of a form does.   *)
GoodSessionKept ==
    [][(token \in live /\ token' # token) =>
          \/ token' # None
          \/ \E t \in Tabs : Logout(t)
          \/ \E t \in Tabs : \E c \in calls[t] \ live : c # token]_vars
=============================================================================
