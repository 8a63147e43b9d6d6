------------------------ MODULE BrowserSession_proofs ------------------------
(***************************************************************************)
(* Proofs about BrowserSession, for every set of tabs, accounts and        *)
(* sessions, and for any number of requests in flight and links followed.  *)
(* What the tabs know of the session follows from what a tab keeps in      *)
(* step with its page: FormOK says which answers a page can still be given *)
(* when it is not the page any more.                                       *)
(***************************************************************************)
EXTENDS BrowserSession, TLAPS

(* A task is of an account; a registration that finds its page there finds *)
(* the form filled in; and only a protected page has the Navbar.           *)
FormOK(t) ==
    /\ busy[t].kind # "none" => busy[t].account \in Accounts
    /\ busy[t].kind = "verify" => busy[t].form \in Accounts
    /\ busy[t].kind \in {"register", "verify"} /\ busy[t].here => at[t] = "register"
    /\ busy[t].kind = "register" /\ busy[t].here => filled[t] # None
    /\ registration[t] # None => filled[t] # None /\ at[t] = "register"
    /\ nav[t] # None => at[t] \in Protected
FormsOK == \A t \in Tabs : FormOK(t)

(* The two entries belong together, and a tab that has handled its events  *)
(* knows them.                                                             *)
Together ==
    /\ token = None <=> user = None
    /\ token # None => owner[token] = user.account
Informed(t) == at[t] \in Protected /\ ~event[t] => user # None /\ nav[t] = user

Types ==
    /\ token \in Sessions \cup {None} /\ user \in User \cup {None}
    /\ at \in [Tabs -> Pages] /\ nav \in [Tabs -> User \cup {None}]
    /\ event \in [Tabs -> BOOLEAN] /\ ready \in [Tabs -> BOOLEAN]
    /\ filled \in [Tabs -> Accounts \cup {None}]
    /\ registration \in [Tabs -> Accounts \cup {None}]
    /\ busy \in [Tabs -> Tasks \cup {NoTask}]
    /\ calls \in [Tabs -> SUBSET (Sessions \cup {None})]
    /\ visits \in 0 .. MaxVisits
ServerTypes ==
    /\ owner \in [Sessions -> Accounts \cup {None}]
    /\ live \subseteq {s \in Sessions : owner[s] # None}
    /\ registered \in [Accounts -> {"no", "pending", "verified"}]
    /\ unpaid \subseteq Accounts
Registering == \A t \in Tabs : registration[t] # None => registered[registration[t]] # "no"

SessionInv ==
    Types /\ ServerTypes /\ Registering /\ FormsOK /\ Together /\ \A t \in Tabs : Informed(t)

(* No account is None.                                                     *)
LEMMA NoneApart == \A a \in Accounts : a # None
  BY NoneAssumption

(* What holds for a tab goes on holding while the tab stays as it is.      *)
LEMMA OtherForms ==
  ASSUME SessionInv, NEW t \in Tabs,
         \A u \in Tabs : u # t => /\ at'[u] = at[u] /\ nav'[u] = nav[u] /\ filled'[u] = filled[u]
                                  /\ registration'[u] = registration[u] /\ busy'[u] = busy[u],
         FormOK(t)'
  PROVE  FormsOK'
<1> SUFFICES ASSUME NEW u \in Tabs, u # t PROVE FormOK(u)'
  BY DEF FormsOK
<1> QED
  BY DEF SessionInv, FormsOK, FormOK

(* A tab shows a page, the others do not.                                  *)
LEMMA ShowsPage ==
  ASSUME SessionInv, NEW t \in Tabs, NEW page \in Pages, NEW tk, NEW us \in User \cup {None},
         Shows(t, page, tk, us)
  PROVE  /\ at' \in [Tabs -> Pages] /\ nav' \in [Tabs -> User \cup {None}]
         /\ ready' \in [Tabs -> BOOLEAN] /\ filled' \in [Tabs -> Accounts \cup {None}]
         /\ registration' \in [Tabs -> Accounts \cup {None}]
         /\ at'[t] = page /\ nav'[t] = Navbar(page, tk, us)
         /\ \A u \in Tabs : u # t => /\ at'[u] = at[u] /\ nav'[u] = nav[u]
                                     /\ filled'[u] = filled[u]
                                     /\ registration'[u] = registration[u]
         /\ IF page = "register" /\ at[t] = "register"
            THEN filled'[t] = filled[t] /\ registration'[t] = registration[t]
            ELSE filled'[t] = None /\ registration'[t] = None
<1>1. at' = [at EXCEPT ![t] = page] /\ nav' = [nav EXCEPT ![t] = Navbar(page, tk, us)]
  BY DEF Shows
<1>2. Navbar(page, tk, us) \in User \cup {None}
  BY DEF Navbar
<1>3. CASE page = "register" /\ at[t] = "register"
  <2>1. ready' = ready /\ filled' = filled /\ registration' = registration
    BY <1>3 DEF Shows, form
  <2> QED
    BY <1>1, <1>2, <1>3, <2>1 DEF SessionInv, Types
<1>4. CASE ~(page = "register" /\ at[t] = "register")
  <2>1. /\ ready' = [ready EXCEPT ![t] = FALSE] /\ filled' = [filled EXCEPT ![t] = None]
        /\ registration' = [registration EXCEPT ![t] = None]
    BY <1>4 DEF Shows
  <2> QED
    BY <1>1, <1>2, <1>4, <2>1 DEF SessionInv, Types
<1> QED
  BY <1>3, <1>4

(* A write to localStorage is news to all other tabs.                      *)
LEMMA StoreTells ==
  ASSUME SessionInv, NEW t \in Tabs, NEW tk, NEW us, Store(t, tk, us)
  PROVE  /\ token' = tk /\ user' = us /\ event' \in [Tabs -> BOOLEAN]
         /\ \A u \in Tabs : u # t => event'[u]
<1>1. event' = [u \in Tabs |-> event[u] \/ u # t]
  BY DEF Store
<1> DEFINE told(u) == event[u] \/ u # t
<1>2. \A u \in Tabs : told(u) \in BOOLEAN /\ (u # t => told(u))
  OBVIOUS
<1>3. event' = [u \in Tabs |-> told(u)]
  BY <1>1
<1> HIDE DEF told
<1>4. event' \in [Tabs -> BOOLEAN] /\ \A u \in Tabs : event'[u] = told(u)
  BY <1>2, <1>3
<1> QED
  BY <1>2, <1>4 DEF Store

(* A tab goes to a page with what it read from localStorage or wrote       *)
(* there, and no registration of it finds its page any more.               *)
LEMMA GoesToPage ==
  ASSUME SessionInv, NEW t \in Tabs, NEW page \in Pages, NEW tk, NEW us \in User \cup {None},
         Shows(t, page, tk, us), tk = None <=> us = None,
         \/ Store(t, tk, us)
         \/ us = user /\ user' = user /\ (event' = event \/ event' = [event EXCEPT ![t] = FALSE]),
         page \in Protected /\ ~event'[t] => us # None,
         busy' \in [Tabs -> Tasks \cup {NoTask}],
         \A u \in Tabs : u # t => busy'[u] = busy[u],
         busy'[t].kind # "none" => busy'[t].account \in Accounts,
         busy'[t].kind = "verify" => busy'[t].form \in Accounts,
         busy'[t].kind \in {"register", "verify"} => ~busy'[t].here,
         registered' \in [Accounts -> {"no", "pending", "verified"}],
         \A a \in Accounts : registered[a] # "no" => registered'[a] # "no"
  PROVE  /\ at' \in [Tabs -> Pages] /\ nav' \in [Tabs -> User \cup {None}]
         /\ event' \in [Tabs -> BOOLEAN] /\ ready' \in [Tabs -> BOOLEAN]
         /\ filled' \in [Tabs -> Accounts \cup {None}]
         /\ registration' \in [Tabs -> Accounts \cup {None}]
         /\ FormsOK' /\ Registering' /\ \A u \in Tabs : Informed(u)'
<1>1. /\ at' \in [Tabs -> Pages] /\ nav' \in [Tabs -> User \cup {None}]
      /\ ready' \in [Tabs -> BOOLEAN] /\ filled' \in [Tabs -> Accounts \cup {None}]
      /\ registration' \in [Tabs -> Accounts \cup {None}]
  BY ShowsPage
<1>2. /\ at'[t] = page /\ nav'[t] = Navbar(page, tk, us)
      /\ IF page = "register" /\ at[t] = "register"
         THEN filled'[t] = filled[t] /\ registration'[t] = registration[t]
         ELSE filled'[t] = None /\ registration'[t] = None
  BY ShowsPage
<1>3. \A u \in Tabs : u # t => /\ at'[u] = at[u] /\ nav'[u] = nav[u] /\ filled'[u] = filled[u]
                               /\ registration'[u] = registration[u]
  BY ShowsPage
<1>4. event' \in [Tabs -> BOOLEAN] /\ (\A u \in Tabs : u # t => (event[u] => event'[u]))
  <2>1. CASE Store(t, tk, us)
    BY <2>1, StoreTells
  <2>2. CASE event' = event \/ event' = [event EXCEPT ![t] = FALSE]
    BY <2>2 DEF SessionInv, Types
  <2> QED
    BY <2>1, <2>2
<1>5. FormsOK'
  <2>1. nav'[t] # None => page \in Protected
    BY <1>2 DEF Navbar
  <2>2. registration'[t] # None => filled'[t] # None /\ page = "register"
    BY <1>2 DEF SessionInv, FormsOK, FormOK
  <2>3. FormOK(t)'
    BY <1>2, <2>1, <2>2 DEF FormOK
  <2> QED
    BY <1>3, <2>3, OtherForms
<1>6. Registering'
  <2>1. \A u \in Tabs : registration'[u] # None => registration'[u] = registration[u]
    BY <1>2, <1>3
  <2> QED
    BY <1>1, <2>1, NoneApart DEF SessionInv, Types, Registering
<1>7. ASSUME NEW u \in Tabs PROVE Informed(u)'
  <2>1. CASE u = t
    <3>1. page \in Protected /\ ~event'[t] => us # None /\ nav'[t] = us
      BY <1>2 DEF Navbar, Signed
    <3>2. user' = us
      BY DEF Store
    <3> QED
      BY <1>2, <2>1, <3>1, <3>2 DEF Informed
  <2>2. CASE u # t /\ Store(t, tk, us)
    <3>1. event'[u]
      BY <2>2, StoreTells
    <3> QED
      BY <3>1 DEF Informed
  <2>3. CASE u # t /\ user' = user
    BY <1>3, <1>4, <2>3 DEF SessionInv, Informed
  <2> QED
    BY <2>1, <2>2, <2>3
<1> QED
  BY <1>1, <1>4, <1>5, <1>6, <1>7

(* The beginning: nobody is logged in.                                     *)
LEMMA SessionInit == Init => SessionInv
<1> SUFFICES ASSUME Init PROVE SessionInv
  OBVIOUS
<1>1. Types
  <2>1. visits \in 0 .. MaxVisits
    BY VisitsAssumption DEF Init
  <2>2. /\ at \in [Tabs -> Pages] /\ nav \in [Tabs -> User \cup {None}]
        /\ event \in [Tabs -> BOOLEAN] /\ ready \in [Tabs -> BOOLEAN]
    BY DEF Init, Pages
  <2>3. /\ filled \in [Tabs -> Accounts \cup {None}]
        /\ registration \in [Tabs -> Accounts \cup {None}]
        /\ busy \in [Tabs -> Tasks \cup {NoTask}]
        /\ calls \in [Tabs -> SUBSET (Sessions \cup {None})]
    BY DEF Init
  <2> QED
    BY <2>1, <2>2, <2>3 DEF Types, Init
<1>2. ServerTypes
  BY DEF Init, ServerTypes
<1>3. \A t \in Tabs : busy[t].kind = "none" /\ registration[t] = None /\ nav[t] = None
                      /\ at[t] \notin Protected
  BY DEF Init, NoTask, Protected
<1>4. Registering /\ FormsOK /\ \A t \in Tabs : Informed(t)
  BY <1>3 DEF Registering, FormsOK, FormOK, Informed
<1>5. Together
  BY DEF Init, Together
<1> QED
  BY <1>1, <1>2, <1>4, <1>5 DEF SessionInv

(* A link.                                                                 *)
LEMMA VisitKeeps ==
  ASSUME SessionInv, NEW t \in Tabs, NEW page \in Pages, Visit(t, page)
  PROVE  SessionInv'
<1> DEFINE landing == Landing(t, page, token, user)
           task == IF busy[t].kind \in {"register", "verify"} THEN [busy[t] EXCEPT !.here = FALSE]
                   ELSE busy[t]
<1>1. /\ visits < MaxVisits /\ visits' = visits + 1 /\ Shows(t, landing, token, user)
      /\ busy' = [busy EXCEPT ![t] = task]
      /\ UNCHANGED <<token, user, event, calls, owner, live, registered, unpaid>>
  BY DEF Visit, store, server
<1>2. /\ user \in User \cup {None} /\ (token = None <=> user = None) /\ FormOK(t) /\ Informed(t)
      /\ busy[t] \in Tasks \cup {NoTask}
  BY DEF SessionInv, Types, Together, FormsOK
<1>3. landing \in Pages /\ (landing \in Protected /\ ~event[t] => user # None)
  <2>1. landing \in Pages
    BY DEF Landing, Home, Pages, Protected
  <2>2. ASSUME landing \in Protected, ~event[t] PROVE user # None
    BY <1>2, <2>2 DEF Landing, Signed, Informed, Home, Protected
  <2> QED
    BY <2>1, <2>2
<1>4. /\ task \in Tasks \cup {NoTask} /\ task.kind = busy[t].kind
      /\ task.kind # "none" => task.account = busy[t].account /\ task.form = busy[t].form
      /\ task.kind \in {"register", "verify"} => ~task.here
  <2>1. CASE busy[t].kind \in {"register", "verify"}
    <3>1. busy[t] \in Tasks /\ task = [busy[t] EXCEPT !.here = FALSE]
      BY <1>2, <2>1 DEF NoTask
    <3>2. task \in Tasks
      BY <3>1 DEF Tasks
    <3>3. task.kind = busy[t].kind /\ task.account = busy[t].account
            /\ task.form = busy[t].form /\ task.here = FALSE
      BY <3>1 DEF Tasks
    <3> QED
      BY <3>2, <3>3
  <2>2. CASE busy[t].kind \notin {"register", "verify"}
    BY <1>2, <2>2
  <2> QED
    BY <2>1, <2>2
<1>5. /\ task.kind # "none" => task.account \in Accounts
      /\ task.kind = "verify" => task.form \in Accounts
  BY <1>2, <1>4 DEF FormOK
<1> HIDE DEF landing, task
<1>6. /\ busy' \in [Tabs -> Tasks \cup {NoTask}] /\ busy'[t] = task
      /\ \A u \in Tabs : u # t => busy'[u] = busy[u]
  BY <1>1, <1>4 DEF SessionInv, Types
<1>7. /\ at' \in [Tabs -> Pages] /\ nav' \in [Tabs -> User \cup {None}]
      /\ event' \in [Tabs -> BOOLEAN] /\ ready' \in [Tabs -> BOOLEAN]
      /\ filled' \in [Tabs -> Accounts \cup {None}]
      /\ registration' \in [Tabs -> Accounts \cup {None}]
      /\ FormsOK' /\ Registering' /\ \A u \in Tabs : Informed(u)'
  <2>1. registered' \in [Accounts -> {"no", "pending", "verified"}]
          /\ \A a \in Accounts : registered[a] # "no" => registered'[a] # "no"
    BY <1>1 DEF SessionInv, ServerTypes
  <2>2. user' = user /\ event' = event /\ (landing \in Protected /\ ~event'[t] => user # None)
    BY <1>1, <1>3
  <2>3. /\ busy'[t].kind # "none" => busy'[t].account \in Accounts
        /\ busy'[t].kind = "verify" => busy'[t].form \in Accounts
        /\ busy'[t].kind \in {"register", "verify"} => ~busy'[t].here
    BY <1>4, <1>5, <1>6
  <2> QED
    BY <1>1, <1>2, <1>3, <1>6, <2>1, <2>2, <2>3, GoesToPage
<1>8. visits' \in 0 .. MaxVisits
  BY <1>1, VisitsAssumption DEF SessionInv, Types
<1> QED
  BY <1>1, <1>6, <1>7, <1>8 DEF SessionInv, Types, ServerTypes, Together

(* The other tabs' news, and a logout.                                     *)
LEMMA NewsAndLogoutKeep ==
  ASSUME SessionInv, NEW t \in Tabs, HandleEvent(t) \/ Logout(t)
  PROVE  SessionInv'
<1>1. /\ user \in User \cup {None} /\ (token = None <=> user = None) /\ FormOK(t)
      /\ busy \in [Tabs -> Tasks \cup {NoTask}]
      /\ registered \in [Accounts -> {"no", "pending", "verified"}]
  BY DEF SessionInv, Types, ServerTypes, Together, FormsOK
<1>2. UNCHANGED <<busy, calls, owner, live, registered, unpaid, visits>>
  BY DEF HandleEvent, Logout, server
<1>3. ASSUME at[t] \in Protected
      PROVE  /\ busy'[t].kind # "none" => busy'[t].account \in Accounts
             /\ busy'[t].kind = "verify" => busy'[t].form \in Accounts
             /\ busy'[t].kind \in {"register", "verify"} => ~busy'[t].here
  BY <1>1, <1>2, <1>3 DEF FormOK, Protected
<1>4. CASE HandleEvent(t) /\ at[t] \in Protected
  <2> DEFINE page == IF Signed(token, user) THEN at[t] ELSE "login"
  <2>1. /\ event' = [event EXCEPT ![t] = FALSE] /\ token' = token /\ user' = user
        /\ Shows(t, page, token, user)
    BY <1>4 DEF HandleEvent, store
  <2>2. page \in Pages /\ (page \in Protected /\ ~event'[t] => user # None)
    BY DEF Signed, Pages, Protected, SessionInv, Types
  <2> HIDE DEF page
  <2>3. /\ at' \in [Tabs -> Pages] /\ nav' \in [Tabs -> User \cup {None}]
        /\ event' \in [Tabs -> BOOLEAN] /\ ready' \in [Tabs -> BOOLEAN]
        /\ filled' \in [Tabs -> Accounts \cup {None}]
        /\ registration' \in [Tabs -> Accounts \cup {None}]
        /\ FormsOK' /\ Registering' /\ \A u \in Tabs : Informed(u)'
    BY <1>1, <1>2, <1>3, <1>4, <2>1, <2>2, GoesToPage
  <2> QED
    BY <1>2, <2>1, <2>3 DEF SessionInv, Types, ServerTypes, Together
<1>5. CASE HandleEvent(t) /\ at[t] \notin Protected
  <2>1. /\ event' = [event EXCEPT ![t] = FALSE]
        /\ UNCHANGED <<token, user, at, nav, ready, filled, registration>>
    BY <1>5 DEF HandleEvent, store, form
  <2>2. event' \in [Tabs -> BOOLEAN] /\ \A u \in Tabs : u # t => event'[u] = event[u]
    BY <2>1 DEF SessionInv, Types
  <2>3. \A u \in Tabs : Informed(u)'
    BY <1>5, <2>1, <2>2 DEF SessionInv, Informed
  <2>4. FormsOK' /\ Registering'
    BY <1>2, <2>1 DEF SessionInv, FormsOK, FormOK, Registering
  <2> QED
    BY <1>2, <2>1, <2>2, <2>3, <2>4 DEF SessionInv, Types, ServerTypes, Together
<1>6. CASE Logout(t)
  <2>1. /\ nav[t] # None /\ Store(t, None, None) /\ Shows(t, "login", None, None)
    BY <1>6 DEF Logout
  <2>2. at[t] \in Protected /\ "login" \in Pages /\ "login" \notin Protected
    BY <1>1, <2>1 DEF FormOK, Pages, Protected
  <2>3. token' = None /\ user' = None
    BY <2>1 DEF Store
  <2>4. /\ at' \in [Tabs -> Pages] /\ nav' \in [Tabs -> User \cup {None}]
        /\ event' \in [Tabs -> BOOLEAN] /\ ready' \in [Tabs -> BOOLEAN]
        /\ filled' \in [Tabs -> Accounts \cup {None}]
        /\ registration' \in [Tabs -> Accounts \cup {None}]
        /\ FormsOK' /\ Registering' /\ \A u \in Tabs : Informed(u)'
    BY <1>1, <1>2, <1>3, <2>1, <2>2, GoesToPage
  <2> QED
    BY <1>2, <2>3, <2>4 DEF SessionInv, Types, ServerTypes, Together
<1> QED
  BY <1>4, <1>5, <1>6

(* A login that is answered, the first one of a new account or another.    *)
LEMMA LoggedInKeeps ==
  ASSUME SessionInv, NEW t \in Tabs, LoginAnswer(t) \/ FirstLoginAnswer(t)
  PROVE  SessionInv'
<1> DEFINE a == busy[t].account
           s == CHOOSE u \in Unused : TRUE
           page == IF LoginAnswer(t) THEN Home(Profile(a)) ELSE Dashboard
<1>1. LoggedIn(t, a, page) /\ busy[t].kind # "none"
  BY DEF LoginAnswer, FirstLoginAnswer
<1>2. /\ Unused # {} /\ owner' = [owner EXCEPT ![s] = a] /\ live' = live \cup {s}
      /\ Store(t, s, Profile(a)) /\ Shows(t, page, s, Profile(a))
      /\ busy' = [busy EXCEPT ![t] = NoTask] /\ UNCHANGED <<calls, registered, unpaid, visits>>
  BY <1>1 DEF LoggedIn
<1>3. a \in Accounts
  BY <1>1 DEF SessionInv, FormsOK, FormOK
<1>4. s \in Sessions /\ owner[s] = None
  BY <1>2 DEF Unused
<1>5. page \in Pages
  BY DEF Home, Dashboard, Pages, Protected
<1>6. Profile(a) \in User /\ Profile(a).account = a
  <2>1. (a \in unpaid) \in BOOLEAN
    OBVIOUS
  <2> QED
    BY <1>3, <2>1 DEF Profile, User
<1>7. s # None /\ Profile(a) # None
  BY <1>4, <1>6, NoneAssumption DEF User
<1> HIDE DEF s, page
<1>8. busy' \in [Tabs -> Tasks \cup {NoTask}] /\ busy'[t] = NoTask
        /\ \A u \in Tabs : u # t => busy'[u] = busy[u]
  BY <1>2 DEF SessionInv, Types
<1>9. /\ at' \in [Tabs -> Pages] /\ nav' \in [Tabs -> User \cup {None}]
      /\ event' \in [Tabs -> BOOLEAN] /\ ready' \in [Tabs -> BOOLEAN]
      /\ filled' \in [Tabs -> Accounts \cup {None}]
      /\ registration' \in [Tabs -> Accounts \cup {None}]
      /\ FormsOK' /\ Registering' /\ \A u \in Tabs : Informed(u)'
  <2>1. registered' \in [Accounts -> {"no", "pending", "verified"}]
          /\ \A b \in Accounts : registered[b] # "no" => registered'[b] # "no"
    BY <1>2 DEF SessionInv, ServerTypes
  <2>2. busy'[t].kind = "none"
    BY <1>8 DEF NoTask
  <2> QED
    BY <1>2, <1>5, <1>6, <1>7, <1>8, <2>1, <2>2, GoesToPage
<1>10. token' = s /\ user' = Profile(a)
  BY <1>2 DEF Store
<1>11. /\ owner' \in [Sessions -> Accounts \cup {None}] /\ owner'[s] = a
       /\ \A u \in Sessions : owner[u] # None => owner'[u] # None
       /\ live' \subseteq {u \in Sessions : owner'[u] # None}
  <2>1. a # None
    BY <1>3, NoneApart
  <2> QED
    BY <1>2, <1>3, <1>4, <2>1 DEF SessionInv, ServerTypes
<1>12. Types' /\ ServerTypes'
  BY <1>2, <1>4, <1>6, <1>8, <1>9, <1>10, <1>11 DEF SessionInv, Types, ServerTypes
<1>13. Together'
  BY <1>6, <1>7, <1>10, <1>11 DEF Together
<1> QED
  BY <1>9, <1>12, <1>13 DEF SessionInv

(* What a tab does on its page leaves the session as it is.                *)
LEMMA StaysOnPage ==
  ASSUME SessionInv, NEW t \in Tabs,
         NEW task \in Tasks \cup {NoTask}, busy' = [busy EXCEPT ![t] = task],
         UNCHANGED <<token, user, at, nav, event, calls, owner, live, unpaid, visits>>,
         ready' \in [Tabs -> BOOLEAN],
         NEW f \in Accounts \cup {None}, filled' = [filled EXCEPT ![t] = f],
         NEW a \in Accounts \cup {None}, registration' = [registration EXCEPT ![t] = a],
         registered' \in [Accounts -> {"no", "pending", "verified"}],
         \A b \in Accounts : registered[b] # "no" => registered'[b] # "no",
         task.kind # "none" => task.account \in Accounts,
         task.kind = "verify" => task.form \in Accounts,
         task.kind \in {"register", "verify"} /\ task.here => at[t] = "register",
         task.kind = "register" /\ task.here => f # None,
         a # None => f # None /\ at[t] = "register" /\ registered'[a] # "no"
  PROVE  SessionInv'
<1>1. /\ busy' \in [Tabs -> Tasks \cup {NoTask}] /\ filled' \in [Tabs -> Accounts \cup {None}]
      /\ registration' \in [Tabs -> Accounts \cup {None}]
      /\ busy'[t] = task /\ filled'[t] = f /\ registration'[t] = a
      /\ \A u \in Tabs : u # t => /\ busy'[u] = busy[u] /\ filled'[u] = filled[u]
                                  /\ registration'[u] = registration[u]
  BY DEF SessionInv, Types
<1>2. FormsOK'
  <2>1. FormOK(t)'
    <3>1. FormOK(t)
      BY DEF SessionInv, FormsOK
    <3> QED
      BY <1>1, <3>1 DEF FormOK
  <2> QED
    BY <1>1, <2>1, OtherForms
<1>3. Registering'
  <2> SUFFICES ASSUME NEW u \in Tabs, registration'[u] # None
               PROVE  registered'[registration'[u]] # "no"
    BY DEF Registering
  <2>1. CASE u = t
    BY <1>1, <2>1
  <2>2. CASE u # t
    <3>1. registration[u] \in Accounts
      BY <1>1, <2>2 DEF SessionInv, Types
    <3> QED
      BY <1>1, <2>2, <3>1 DEF SessionInv, Registering
  <2> QED
    BY <2>1, <2>2
<1>4. Together' /\ \A u \in Tabs : Informed(u)'
  BY DEF SessionInv, Together, Informed
<1> QED
  BY <1>1, <1>2, <1>3, <1>4 DEF SessionInv, Types, ServerTypes

(* What a tab is told by FormOK about itself.                              *)
LEMMA TabKnows ==
  ASSUME SessionInv, NEW t \in Tabs
  PROVE  /\ FormOK(t) /\ busy[t] \in Tasks \cup {NoTask}
         /\ filled[t] \in Accounts \cup {None} /\ registration[t] \in Accounts \cup {None}
         /\ filled = [filled EXCEPT ![t] = filled[t]]
         /\ registration = [registration EXCEPT ![t] = registration[t]]
         /\ busy = [busy EXCEPT ![t] = busy[t]]
         /\ ready \in [Tabs -> BOOLEAN]
         /\ registered \in [Accounts -> {"no", "pending", "verified"}]
         /\ registration[t] # None => registered[registration[t]] # "no"
  BY DEF SessionInv, Types, ServerTypes, FormsOK, Registering

(* Login, and a task of the tab that fails.                                *)
LEMMA LoginKeeps ==
  ASSUME SessionInv, NEW t \in Tabs, (\E a \in Accounts : Login(t, a)) \/ TaskFails(t)
  PROVE  SessionInv'
<1>1. PICK task \in Tasks \cup {NoTask} :
         /\ busy' = [busy EXCEPT ![t] = task]
         /\ task.kind \in {"none", "login"} /\ (task.kind = "login" => task.account \in Accounts)
  <2>1. ASSUME NEW a \in Accounts, Login(t, a)
        PROVE  \E task \in Tasks \cup {NoTask} :
                  /\ busy' = [busy EXCEPT ![t] = task]
                  /\ task.kind \in {"none", "login"}
                  /\ (task.kind = "login" => task.account \in Accounts)
    <3> DEFINE task == [kind |-> "login", account |-> a, form |-> None, here |-> TRUE]
    <3>1. task \in Tasks /\ task.kind = "login" /\ task.account = a
      BY DEF Tasks
    <3>2. busy' = [busy EXCEPT ![t] = task]
      BY <2>1 DEF Login
    <3> HIDE DEF task
    <3> QED
      BY <3>1, <3>2
  <2>2. CASE TaskFails(t)
    <3>1. NoTask.kind = "none" /\ busy' = [busy EXCEPT ![t] = NoTask]
      BY <2>2 DEF TaskFails, NoTask
    <3> QED
      BY <3>1
  <2> QED
    BY <2>1, <2>2
<1>2. UNCHANGED <<token, user, at, nav, event, ready, filled, registration, calls, owner, live,
                  registered, unpaid, visits>>
  BY DEF Login, TaskFails, store, tab, form, server
<1>3. /\ filled' = [filled EXCEPT ![t] = filled[t]]
      /\ registration' = [registration EXCEPT ![t] = registration[t]]
      /\ ready' \in [Tabs -> BOOLEAN] /\ registered' \in [Accounts -> {"no", "pending", "verified"}]
      /\ \A b \in Accounts : registered[b] # "no" => registered'[b] # "no"
  BY <1>2, TabKnows
<1>4. filled[t] \in Accounts \cup {None} /\ registration[t] \in Accounts \cup {None}
        /\ (registration[t] # None =>
              filled[t] # None /\ at[t] = "register" /\ registered'[registration[t]] # "no")
  BY <1>2, TabKnows DEF FormOK
<1>5. /\ task.kind # "none" => task.account \in Accounts
      /\ task.kind # "verify" /\ task.kind # "register"
  BY <1>1
<1> QED
  BY <1>1, <1>2, <1>3, <1>4, <1>5, StaysOnPage

(* The form of the Register page.                                          *)
LEMMA FormKeeps ==
  ASSUME SessionInv, NEW t \in Tabs,
         LoadPlans(t) \/ (\E a \in Accounts : Fill(t, a)) \/ Back(t)
  PROVE  SessionInv'
<1>1. /\ UNCHANGED <<token, user, at, nav, event, calls, owner, live, registered, unpaid, visits>>
  BY DEF LoadPlans, Fill, Back, store, tab, form, server
<1>2. /\ registered' \in [Accounts -> {"no", "pending", "verified"}]
      /\ \A b \in Accounts : registered[b] # "no" => registered'[b] # "no"
  BY <1>1, TabKnows
<1>3. CASE LoadPlans(t)
  <2>1. /\ ready' = [ready EXCEPT ![t] = TRUE] /\ UNCHANGED <<filled, registration, busy>>
    BY <1>3 DEF LoadPlans
  <2>2. /\ ready' \in [Tabs -> BOOLEAN] /\ busy' = [busy EXCEPT ![t] = busy[t]]
        /\ filled' = [filled EXCEPT ![t] = filled[t]]
        /\ registration' = [registration EXCEPT ![t] = registration[t]]
    BY <2>1, TabKnows
  <2>3. /\ busy[t] \in Tasks \cup {NoTask} /\ filled[t] \in Accounts \cup {None}
        /\ registration[t] \in Accounts \cup {None}
    BY TabKnows
  <2>4. /\ busy[t].kind # "none" => busy[t].account \in Accounts
        /\ busy[t].kind = "verify" => busy[t].form \in Accounts
        /\ busy[t].kind \in {"register", "verify"} /\ busy[t].here => at[t] = "register"
        /\ busy[t].kind = "register" /\ busy[t].here => filled[t] # None
        /\ registration[t] # None => filled[t] # None /\ at[t] = "register"
                                       /\ registered'[registration[t]] # "no"
    BY <1>1, TabKnows DEF FormOK
  <2> QED
    BY <1>1, <1>2, <2>2, <2>3, <2>4, StaysOnPage
<1>4. ASSUME NEW a \in Accounts, Fill(t, a) PROVE SessionInv'
  <2> DEFINE task == IF busy[t].kind = "verify" /\ busy[t].here
                     THEN [busy[t] EXCEPT !.form = a] ELSE busy[t]
  <2>1. /\ at[t] = "register" /\ registration[t] = None
        /\ filled' = [filled EXCEPT ![t] = a] /\ busy' = [busy EXCEPT ![t] = task]
        /\ UNCHANGED <<ready, registration>>
    BY <1>4 DEF Fill
  <2>2. FormOK(t) /\ busy[t] \in Tasks \cup {NoTask}
    BY TabKnows
  <2>3. /\ task \in Tasks \cup {NoTask}
        /\ task.kind # "none" => task.account \in Accounts
        /\ task.kind = "verify" => task.form \in Accounts
    <3>1. CASE busy[t].kind = "verify" /\ busy[t].here
      <4>1. busy[t] \in Tasks /\ task = [busy[t] EXCEPT !.form = a]
        BY <2>2, <3>1 DEF NoTask
      <4>2. task \in Tasks /\ task.form = a /\ task.account = busy[t].account
        BY <4>1 DEF Tasks
      <4> QED
        BY <2>2, <3>1, <4>2 DEF FormOK
    <3>2. CASE ~(busy[t].kind = "verify" /\ busy[t].here)
      BY <2>2, <3>2 DEF FormOK
    <3> QED
      BY <3>1, <3>2
  <2>4. a # None /\ ready' \in [Tabs -> BOOLEAN]
          /\ registration' = [registration EXCEPT ![t] = registration[t]]
          /\ registration[t] \in Accounts \cup {None}
    BY <2>1, NoneApart, TabKnows
  <2> HIDE DEF task
  <2> QED
    BY <1>1, <1>2, <2>1, <2>3, <2>4, StaysOnPage
<1>5. CASE Back(t)
  <2>1. /\ registration' = [registration EXCEPT ![t] = None] /\ UNCHANGED <<ready, filled, busy>>
    BY <1>5 DEF Back
  <2>2. /\ ready' \in [Tabs -> BOOLEAN] /\ busy' = [busy EXCEPT ![t] = busy[t]]
        /\ filled' = [filled EXCEPT ![t] = filled[t]]
    BY <2>1, TabKnows
  <2>3. /\ busy[t] \in Tasks \cup {NoTask} /\ filled[t] \in Accounts \cup {None}
    BY TabKnows
  <2>4. /\ busy[t].kind # "none" => busy[t].account \in Accounts
        /\ busy[t].kind = "verify" => busy[t].form \in Accounts
        /\ busy[t].kind \in {"register", "verify"} /\ busy[t].here => at[t] = "register"
        /\ busy[t].kind = "register" /\ busy[t].here => filled[t] # None
    BY TabKnows DEF FormOK
  <2> QED
    BY <1>1, <1>2, <2>1, <2>2, <2>3, <2>4, StaysOnPage
<1> QED
  BY <1>3, <1>4, <1>5

(* The requests of a registration and their answers.                       *)
LEMMA RegistrationKeeps ==
  ASSUME SessionInv, NEW t \in Tabs,
         Register(t) \/ RegisterAnswer(t) \/ VerifyEmail(t) \/ EmailVerified(t)
  PROVE  SessionInv'
<1>1. /\ UNCHANGED <<token, user, at, nav, event, calls, owner, live, unpaid, visits>>
      /\ UNCHANGED <<ready, filled>>
  BY DEF Register, RegisterAnswer, VerifyEmail, EmailVerified, store, tab, form, server
<1>2. /\ FormOK(t) /\ ready' \in [Tabs -> BOOLEAN] /\ filled[t] \in Accounts \cup {None}
      /\ registration[t] \in Accounts \cup {None}
      /\ filled' = [filled EXCEPT ![t] = filled[t]]
      /\ registration = [registration EXCEPT ![t] = registration[t]]
      /\ registered \in [Accounts -> {"no", "pending", "verified"}]
      /\ registration[t] # None => registered[registration[t]] # "no"
  BY <1>1, TabKnows
<1>3. CASE Register(t)
  <2> DEFINE task == [kind |-> "register", account |-> filled[t], form |-> None, here |-> TRUE]
  <2>1. /\ at[t] = "register" /\ registration[t] = None /\ filled[t] # None
        /\ busy' = [busy EXCEPT ![t] = task] /\ UNCHANGED <<registration, registered>>
    BY <1>3 DEF Register, form, server
  <2>2. task \in Tasks /\ task.account \in Accounts /\ task.kind = "register"
    BY <1>2, <2>1 DEF Tasks
  <2>3. /\ registered' \in [Accounts -> {"no", "pending", "verified"}]
        /\ \A b \in Accounts : registered[b] # "no" => registered'[b] # "no"
        /\ registration' = [registration EXCEPT ![t] = registration[t]]
    BY <1>2, <2>1
  <2> HIDE DEF task
  <2>4. task \in Tasks \cup {NoTask}
    BY <2>2
  <2>5. /\ task.kind # "none" => task.account \in Accounts
        /\ task.kind = "verify" => task.form \in Accounts
        /\ task.kind \in {"register", "verify"} /\ task.here => at[t] = "register"
        /\ task.kind = "register" /\ task.here => filled[t] # None
        /\ registration[t] # None => filled[t] # None /\ at[t] = "register"
                                       /\ registered'[registration[t]] # "no"
    BY <2>1, <2>2
  <2>6. /\ busy' = [busy EXCEPT ![t] = task]
        /\ filled' = [filled EXCEPT ![t] = filled[t]]
        /\ registration' = [registration EXCEPT ![t] = registration[t]]
        /\ ready' \in [Tabs -> BOOLEAN]
        /\ filled[t] \in Accounts \cup {None} /\ registration[t] \in Accounts \cup {None}
    BY <1>2, <2>1, <2>3
  <2> QED
    BY <1>1, <2>3, <2>4, <2>5, <2>6, StaysOnPage
<1>4. CASE RegisterAnswer(t)
  <2> DEFINE a == busy[t].account
             r == IF busy[t].here THEN a ELSE registration[t]
  <2>1. /\ busy[t].kind = "register" /\ registered' = [registered EXCEPT ![a] = "pending"]
        /\ registration' = [registration EXCEPT ![t] = r]
        /\ busy' = [busy EXCEPT ![t] = NoTask]
    BY <1>4 DEF RegisterAnswer
  <2>2. /\ a \in Accounts /\ (busy[t].here => at[t] = "register" /\ filled[t] # None)
        /\ (registration[t] # None => filled[t] # None /\ at[t] = "register")
    BY <1>2, <2>1 DEF FormOK
  <2>3. /\ registered' \in [Accounts -> {"no", "pending", "verified"}] /\ registered'[a] # "no"
        /\ \A b \in Accounts : registered[b] # "no" => registered'[b] # "no"
    BY <1>2, <2>1, <2>2
  <2>4. /\ r \in Accounts \cup {None}
        /\ r # None => filled[t] # None /\ at[t] = "register" /\ registered'[r] # "no"
    BY <1>2, <2>2, <2>3
  <2>5. NoTask.kind = "none"
    BY DEF NoTask
  <2> HIDE DEF r
  <2> QED
    BY <1>1, <1>2, <2>1, <2>3, <2>4, <2>5, StaysOnPage
<1>5. CASE VerifyEmail(t)
  <2> DEFINE task == [kind |-> "verify", account |-> registration[t], form |-> filled[t],
                      here |-> TRUE]
  <2>1. /\ registration[t] # None /\ busy' = [busy EXCEPT ![t] = task]
        /\ UNCHANGED <<registration, registered>>
    BY <1>5 DEF VerifyEmail, form, server
  <2>2. filled[t] # None /\ at[t] = "register"
    BY <1>2, <2>1 DEF FormOK
  <2>3. /\ task \in Tasks /\ task.account \in Accounts /\ task.form \in Accounts
        /\ task.kind = "verify"
    BY <1>2, <2>1, <2>2 DEF Tasks
  <2>4. /\ registered' \in [Accounts -> {"no", "pending", "verified"}]
        /\ \A b \in Accounts : registered[b] # "no" => registered'[b] # "no"
        /\ registration' = [registration EXCEPT ![t] = registration[t]]
        /\ registered'[registration[t]] # "no"
    BY <1>2, <2>1
  <2> HIDE DEF task
  <2>5. task \in Tasks \cup {NoTask}
    BY <2>3
  <2>6. /\ task.kind # "none" => task.account \in Accounts
        /\ task.kind = "verify" => task.form \in Accounts
        /\ task.kind \in {"register", "verify"} /\ task.here => at[t] = "register"
        /\ task.kind = "register" /\ task.here => filled[t] # None
        /\ registration[t] # None => filled[t] # None /\ at[t] = "register"
                                       /\ registered'[registration[t]] # "no"
    BY <2>2, <2>3, <2>4
  <2>7. /\ busy' = [busy EXCEPT ![t] = task]
        /\ filled' = [filled EXCEPT ![t] = filled[t]]
        /\ registration' = [registration EXCEPT ![t] = registration[t]]
        /\ ready' \in [Tabs -> BOOLEAN]
        /\ filled[t] \in Accounts \cup {None} /\ registration[t] \in Accounts \cup {None}
    BY <1>2, <2>1, <2>4
  <2> QED
    BY <1>1, <2>4, <2>5, <2>6, <2>7, StaysOnPage
<1>6. CASE EmailVerified(t)
  <2> DEFINE a == busy[t].account
             task == [kind |-> "firstLogin", account |-> busy[t].form, form |-> None, here |-> TRUE]
  <2>1. /\ busy[t].kind = "verify" /\ registered' = [registered EXCEPT ![a] = "verified"]
        /\ busy' = [busy EXCEPT ![t] = task] /\ UNCHANGED registration
    BY <1>6 DEF EmailVerified, form
  <2>2. /\ busy[t].form \in Accounts
        /\ (registration[t] # None => filled[t] # None /\ at[t] = "register")
    BY <1>2, <2>1 DEF FormOK
  <2>3. task \in Tasks /\ task.account \in Accounts /\ task.kind = "firstLogin"
    BY <2>2 DEF Tasks
  <2>4. /\ registered' \in [Accounts -> {"no", "pending", "verified"}]
        /\ \A b \in Accounts : registered[b] # "no" => registered'[b] # "no"
    BY <1>2, <2>1
  <2>5. registration[t] # None => registered'[registration[t]] # "no"
    BY <1>2, <2>4
  <2>6. registration' = [registration EXCEPT ![t] = registration[t]]
    BY <1>2, <2>1
  <2> HIDE DEF task
  <2>7. task \in Tasks \cup {NoTask}
    BY <2>3
  <2>8. /\ task.kind # "none" => task.account \in Accounts
        /\ task.kind = "verify" => task.form \in Accounts
        /\ task.kind \in {"register", "verify"} /\ task.here => at[t] = "register"
        /\ task.kind = "register" /\ task.here => filled[t] # None
        /\ registration[t] # None => filled[t] # None /\ at[t] = "register"
                                       /\ registered'[registration[t]] # "no"
    BY <2>2, <2>3, <2>5
  <2>9. /\ busy' = [busy EXCEPT ![t] = task]
        /\ filled' = [filled EXCEPT ![t] = filled[t]]
        /\ registration' = [registration EXCEPT ![t] = registration[t]]
        /\ ready' \in [Tabs -> BOOLEAN]
        /\ filled[t] \in Accounts \cup {None} /\ registration[t] \in Accounts \cup {None}
    BY <1>2, <2>1, <2>6
  <2> QED
    BY <1>1, <2>4, <2>7, <2>8, <2>9, StaysOnPage
<1> QED
  BY <1>3, <1>4, <1>5, <1>6

(* Requests of a page, their answers, and what the server does by itself.  *)
LEMMA ServerKeeps ==
  ASSUME SessionInv,
         \/ \E t \in Tabs : Call(t) \/ \E c \in calls[t] : Fine(t, c)
         \/ \E s \in Sessions : Expire(s)
         \/ \E a \in Trials : TrialEnds(a)
  PROVE  SessionInv'
<1>1. UNCHANGED <<token, user, at, nav, event, ready, filled, registration, busy, owner,
                  registered, visits>>
  BY DEF Call, Fine, Expire, TrialEnds, store, tab, form, server
<1>2. calls' \in [Tabs -> SUBSET (Sessions \cup {None})]
  BY DEF Call, Fine, Answered, Expire, TrialEnds, SessionInv, Types
<1>3. live' \subseteq live /\ unpaid' \subseteq Accounts
  BY AccountsAssumption DEF Call, Fine, Expire, TrialEnds, server, SessionInv, ServerTypes
<1>4. FormsOK' /\ Registering' /\ Together' /\ \A t \in Tabs : Informed(t)'
  BY <1>1 DEF SessionInv, FormsOK, FormOK, Registering, Together, Informed
<1> QED
  BY <1>1, <1>2, <1>3, <1>4 DEF SessionInv, Types, ServerTypes

(* A request is refused, and its tab leaves the page or stays.             *)
LEMMA RefusalKeeps ==
  ASSUME SessionInv, NEW t \in Tabs, NEW c \in calls[t], Unauthorized(t, c) \/ PaymentRequired(t, c)
  PROVE  SessionInv'
<1>1. /\ user \in User \cup {None} /\ (token = None <=> user = None)
      /\ calls \in [Tabs -> SUBSET (Sessions \cup {None})]
      /\ busy \in [Tabs -> Tasks \cup {NoTask}]
      /\ registered \in [Accounts -> {"no", "pending", "verified"}]
  BY DEF SessionInv, Types, ServerTypes, Together
<1>2. UNCHANGED <<owner, live, registered, unpaid, visits>>
  BY DEF Unauthorized, PaymentRequired, server
<1>3. calls' \in [Tabs -> SUBSET (Sessions \cup {None})]
  BY <1>1 DEF Unauthorized, PaymentRequired, Answered, Reload
<1>4. ASSUME NEW page \in Pages, NEW tk, NEW us \in User \cup {None}, Reload(t, page, tk, us),
             tk = None <=> us = None,
             Store(t, tk, us) \/ (us = user /\ user' = user /\ event' = event),
             page \in Protected => us # None
      PROVE  /\ Types' \/ ~(token' \in Sessions \cup {None} /\ user' \in User \cup {None})
             /\ FormsOK' /\ Registering' /\ \A u \in Tabs : Informed(u)'
  <2>1. Shows(t, page, tk, us) /\ busy' = [busy EXCEPT ![t] = NoTask]
    BY <1>4 DEF Reload
  <2>2. /\ busy' \in [Tabs -> Tasks \cup {NoTask}] /\ busy'[t].kind = "none"
        /\ \A u \in Tabs : u # t => busy'[u] = busy[u]
    BY <1>1, <2>1 DEF NoTask
  <2>3. /\ registered' \in [Accounts -> {"no", "pending", "verified"}]
        /\ \A a \in Accounts : registered[a] # "no" => registered'[a] # "no"
    BY <1>1, <1>2
  <2>4. /\ at' \in [Tabs -> Pages] /\ nav' \in [Tabs -> User \cup {None}]
        /\ event' \in [Tabs -> BOOLEAN] /\ ready' \in [Tabs -> BOOLEAN]
        /\ filled' \in [Tabs -> Accounts \cup {None}]
        /\ registration' \in [Tabs -> Accounts \cup {None}]
        /\ FormsOK' /\ Registering' /\ \A u \in Tabs : Informed(u)'
    BY <1>4, <2>1, <2>2, <2>3, GoesToPage
  <2> QED
    BY <1>2, <1>3, <2>2, <2>4 DEF SessionInv, Types
<1>5. CASE Unauthorized(t, c) /\ at[t] = "login"
  <2>1. Store(t, None, None) /\ UNCHANGED <<at, nav, ready, filled, registration, busy>>
    BY <1>5 DEF Unauthorized, form
  <2>2. token' = None /\ user' = None /\ event' \in [Tabs -> BOOLEAN]
          /\ \A u \in Tabs : u # t => event'[u]
    BY <2>1, StoreTells
  <2>3. \A u \in Tabs : Informed(u)'
    BY <1>5, <2>1, <2>2 DEF Informed, Protected
  <2>4. FormsOK' /\ Registering'
    BY <1>2, <2>1 DEF SessionInv, FormsOK, FormOK, Registering
  <2> QED
    BY <1>2, <1>3, <2>1, <2>2, <2>3, <2>4 DEF SessionInv, Types, ServerTypes, Together
<1>6. CASE Unauthorized(t, c) /\ at[t] # "login"
  <2>1. Store(t, None, None) /\ Reload(t, "login", None, None)
    BY <1>6 DEF Unauthorized
  <2>2. token' = None /\ user' = None /\ "login" \in Pages /\ "login" \notin Protected
    BY <2>1 DEF Store, Pages, Protected
  <2>3. Types' /\ FormsOK' /\ Registering' /\ \A u \in Tabs : Informed(u)'
    BY <1>4, <2>1, <2>2
  <2> QED
    BY <1>2, <2>2, <2>3 DEF SessionInv, ServerTypes, Together
<1>7. CASE PaymentRequired(t, c) /\ at[t] = "account"
  <2>1. UNCHANGED <<token, user, event, at, nav, ready, filled, registration, busy>>
    BY <1>7 DEF PaymentRequired, store, form
  <2>2. FormsOK' /\ Registering' /\ Together' /\ \A u \in Tabs : Informed(u)'
    BY <1>2, <2>1 DEF SessionInv, FormsOK, FormOK, Registering, Together, Informed
  <2> QED
    BY <1>2, <1>3, <2>1, <2>2 DEF SessionInv, Types, ServerTypes
<1>8. CASE PaymentRequired(t, c) /\ at[t] # "account"
  <2> DEFINE page == IF Signed(token, user) THEN "account" ELSE "login"
  <2>1. Reload(t, page, token, user) /\ UNCHANGED <<token, user, event>>
    BY <1>8 DEF PaymentRequired, store
  <2>2. page \in Pages /\ (page \in Protected => user # None)
    BY DEF Pages, Protected, Signed
  <2> HIDE DEF page
  <2>3. Types' /\ FormsOK' /\ Registering' /\ \A u \in Tabs : Informed(u)'
    <3>1. token' \in Sessions \cup {None} /\ user' \in User \cup {None}
      BY <2>1 DEF SessionInv, Types
    <3> QED
      BY <1>1, <1>4, <2>1, <2>2, <3>1
  <2> QED
    BY <1>2, <2>1, <2>3 DEF SessionInv, ServerTypes, Together
<1> QED
  BY <1>5, <1>6, <1>7, <1>8

(* Every step keeps the invariant.                                         *)
LEMMA SessionStep == SessionInv /\ [Next]_vars => SessionInv'
<1> SUFFICES ASSUME SessionInv, [Next]_vars PROVE SessionInv'
  OBVIOUS
<1>1. CASE UNCHANGED vars
  BY <1>1 DEF vars, SessionInv, Types, ServerTypes, Registering, FormsOK, FormOK, Together, Informed
<1>2. ASSUME NEW t \in Tabs,
             \/ \E page \in Pages : Visit(t, page)
             \/ HandleEvent(t) \/ Logout(t)
             \/ \E a \in Accounts : Login(t, a) \/ Fill(t, a)
             \/ LoginAnswer(t) \/ TaskFails(t)
             \/ LoadPlans(t) \/ Register(t) \/ RegisterAnswer(t)
             \/ VerifyEmail(t) \/ Back(t) \/ EmailVerified(t) \/ FirstLoginAnswer(t)
             \/ \E c \in calls[t] : Unauthorized(t, c) \/ PaymentRequired(t, c)
      PROVE  SessionInv'
  BY <1>2, VisitKeeps, NewsAndLogoutKeep, LoggedInKeeps, LoginKeeps, FormKeeps, RegistrationKeeps,
     RefusalKeeps
<1> QED
  BY <1>1, <1>2, ServerKeeps DEF Next

-----------------------------------------------------------------------------
(* The entries of localStorage, the pages, forms, tasks and requests of    *)
(* the tabs and the tables of the server are of their types; among it, a   *)
(* code is asked only of an account in registration, on its page, and only *)
(* sessions that were issued are good.                                     *)
THEOREM SessionTypes == Spec => []TypeOK
<1>1. SessionInv => TypeOK
  BY DEF SessionInv, Types, ServerTypes, Registering, FormsOK, FormOK, TypeOK
<1> QED
  BY <1>1, SessionInit, SessionStep, PTL DEF Spec

(* The two entries of localStorage belong together, and a tab that has     *)
(* handled its storage events shows a protected page only to the user they *)
(* name, however the answers of requests, links, logouts and refusals of   *)
(* any number of tabs interleave.                                          *)
THEOREM SessionKnown == Spec => []TabsKnowTheSession
<1>1. SessionInv => TabsKnowTheSession
  BY DEF SessionInv, Together, Informed, TabsKnowTheSession
<1> QED
  BY <1>1, SessionInit, SessionStep, PTL DEF Spec

(* A session the server would still accept is given up only by a logout, a *)
(* later login, or the 401 of a request that was sent with another token.  *)
THEOREM SessionGivenUp == Spec => GoodSessionKept
<1> DEFINE Given == (token \in live /\ token' # token) =>
                       \/ token' # None
                       \/ \E t \in Tabs : Logout(t)
                       \/ \E t \in Tabs : \E c \in calls[t] \ live : c # token
<1>1. ASSUME SessionInv, [Next]_vars, token \in live, token' # token, token' = None
      PROVE  \/ \E t \in Tabs : Logout(t)
             \/ \E t \in Tabs : \E c \in calls[t] \ live : c # token
  <2>1. ASSUME NEW t \in Tabs, LoggedIn(t, busy[t].account, "app") \/
                               LoggedIn(t, busy[t].account, "account")
        PROVE  FALSE
    <3>1. PICK s \in Sessions : token' = s
      <4>1. Unused # {} /\ token' = (CHOOSE u \in Unused : TRUE)
        BY <2>1 DEF LoggedIn, Store
      <4>2. token' \in Unused
        BY <4>1
      <4> QED
        BY <4>2 DEF Unused
    <3> QED
      BY <1>1, <3>1, NoneAssumption
  <2>2. ASSUME NEW t \in Tabs, LoginAnswer(t) \/ FirstLoginAnswer(t) PROVE FALSE
    BY <2>1, <2>2 DEF LoginAnswer, FirstLoginAnswer, Home, Dashboard
  <2>3. ASSUME NEW t \in Tabs, NEW c \in calls[t], Unauthorized(t, c)
        PROVE  c \in calls[t] \ live /\ c # token
    BY <1>1, <2>3 DEF Unauthorized
  <2>4. \/ \E t \in Tabs : Logout(t) \/ LoginAnswer(t) \/ FirstLoginAnswer(t)
                             \/ \E c \in calls[t] : Unauthorized(t, c)
        \/ token' = token
    BY <1>1
    DEF Next, vars, store, Visit, HandleEvent, Login, Fill, TaskFails, LoadPlans, Register,
        RegisterAnswer, VerifyEmail, Back, EmailVerified, Call, PaymentRequired, Fine, Expire,
        TrialEnds
  <2> QED
    BY <1>1, <2>2, <2>3, <2>4
<1>2. SessionInv /\ [Next]_vars => [Given]_vars
  BY <1>1
<1> QED
  BY <1>2, SessionInit, SessionStep, PTL DEF Spec, GoodSessionKept
=============================================================================
