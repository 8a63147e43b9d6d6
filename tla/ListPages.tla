------------------------------ MODULE ListPages ------------------------------
(***************************************************************************)
(* The dashboard, the list pages and the forms that add to the lists, in   *)
(* one tab.  Pages keep what they fetch in one QueryClient under a key;    *)
(* which page fetched it decides the form in which it lies there:          *)
(*   hooks/useDashboardStats.ts, Dashboard   keep the response as it comes *)
(*   Interviews, Requirements, Clients       keep the array of rows        *)
(*   AddRequirement, AddClient, AddCandidate, ScheduleInterview            *)
(*                          post a row and go to its list                  *)
(* Nobody removes a row, so a list is its number of rows.  react-query is  *)
(* external: an entry is fresh for five minutes (staleTime), pages share a *)
(* request in flight, and the page that began it says what is stored.      *)
(***************************************************************************)
EXTENDS Naturals

CONSTANTS Growing,    \* lists to which colleagues add rows
          MaxListed,  \* rows of a list (bound; fewer than a page of Clients)
          MaxEvents   \* what users, clocks and networks do on their own (bound)

ASSUME ListsAssumption == MaxListed \in Nat \ {0} /\ MaxEvents \in Nat

VARIABLES
    page,        \* the page of the tab, "blank" after an error in a render
    search,      \* a filter is set on it
    options,     \* what ScheduleInterview has loaded
    filled,      \* the form on the page is filled in
    cache,       \* QueryClient: data of each key
    fetching,    \* QueryClient: request of each key
    listed,      \* server: rows of each list
    posts,       \* posts in flight of the form on the page, by list
    left,        \* posts in flight of forms that were left
    told,        \* rows of each list that a success has told this tab of
    choices

user == <<page, search, options, filled>>
queries == <<cache, fetching>>
forms == <<posts, left, told>>
listsVars ==
    <<page, search, options, filled, cache, fetching, listed, posts, left, told, choices>>

Lists == {"candidates", "requirements", "interviews", "clients"}
Keys == Lists \cup {"clientNames", "activeClients"}
ListOf(k) == IF k \in Lists THEN k ELSE "clients"    \* every client is taken to be active

Form == [requirements |-> "addRequirement", clients |-> "addClient",
         candidates |-> "addCandidate", interviews |-> "schedule"]
Pages == {"dashboard"} \cup Lists \cup {Form[l] : l \in Lists}

(* The queries of a page, and what they store.  The Candidates page keeps  *)
(* its rows to itself.                                                     *)
Counted == {"candidates", "requirements", "interviews"}
Queries(p) ==
    CASE p = "dashboard" -> Counted
      [] p = "requirements" -> {"requirements", "clientNames"}
      [] p = "addRequirement" -> {"activeClients"}
      [] p \in {"interviews", "clients"} -> {p}
      [] OTHER -> {}
Stored(p) == IF p = "dashboard" THEN "response" ELSE "array"

Kinds == {"none", "array", "response"}
NoData == [kind |-> "none", n |-> 0, fresh |-> FALSE, failed |-> FALSE]
NoFetch == [kind |-> "none", since |-> 0]

ListsTypeOK ==
    /\ page \in Pages \cup {"blank"}
    /\ search \in BOOLEAN /\ filled \in BOOLEAN
    /\ options \subseteq {"candidates", "requirements"}
    /\ cache \in [Keys -> [kind : Kinds, n : 0 .. MaxListed, fresh : BOOLEAN, failed : BOOLEAN]]
    /\ fetching \in [Keys -> [kind : Kinds, since : 0 .. MaxListed]]
    /\ listed \in [Lists -> 0 .. MaxListed]
    /\ posts \in [Lists -> 0 .. MaxEvents]
    /\ left \in [Lists -> 0 .. MaxEvents]
    /\ told \in [Lists -> 0 .. MaxListed]
    /\ choices \in 0 .. MaxEvents
    \* posts are of the form on the page, one at a time where it guards them
    /\ \A l \in Lists : posts[l] > 0 => page = Form[l]
    /\ posts["requirements"] <= 1 /\ posts["clients"] <= 1
    \* no page knows of rows that are not there
    /\ \A k \in Keys : cache[k].n <= listed[ListOf(k)] /\ told[ListOf(k)] <= listed[ListOf(k)]

ListsInit ==
    /\ page = "dashboard" /\ search = FALSE /\ options = {} /\ filled = FALSE
    /\ cache = [k \in Keys |-> NoData]
    /\ listed = [l \in Lists |-> 1]
    /\ fetching = [k \in Keys |-> IF k \in Counted
                                  THEN [kind |-> "response", since |-> listed[k]] ELSE NoFetch]
    /\ posts = [l \in Lists |-> 0] /\ left = [l \in Lists |-> 0]
    /\ told = [l \in Lists |-> 0]
    /\ choices = 0

-----------------------------------------------------------------------------
(* isLoading and isError of a query.                                       *)
IsLoading(k) == cache[k].kind = "none" /\ fetching[k] # NoFetch
IsError(k) == cache[k].failed

(* A response has no filter() and no length.  Interviews filters its rows  *)
(* on every render, Requirements only when there is a filter.              *)
Filtered(d) == IF d.kind = "array" THEN d.n ELSE 0
InterviewsBreaks(c) == c["interviews"].kind = "response"
RequirementsBreaks(c, s) == s /\ c["requirements"].kind = "response"

(* The rows in the tables; a requirement names its client if it can.       *)
InterviewsShows == IF IsLoading("interviews") THEN 0 ELSE Filtered(cache["interviews"])
RequirementsShows ==
    IF IsLoading("requirements") \/ IsError("requirements") THEN [rows |-> 0, named |-> 0]
    ELSE [rows |-> Filtered(cache["requirements"]), named |-> cache["clientNames"].n]
ClientsShows ==
    IF IsLoading("clients") \/ IsError("clients") THEN 0 ELSE cache["clients"].n

(* An error in a render takes the whole application away.                  *)
Rendered(p, c, s) ==
    IF \/ p = "interviews" /\ InterviewsBreaks(c)
       \/ p = "requirements" /\ RequirementsBreaks(c, s)
    THEN "blank" ELSE p

-----------------------------------------------------------------------------
(* A page that is mounted asks for what is not there or not fresh.         *)
Asks(p, f) ==
    [k \in Keys |-> IF k \in Queries(p) /\ f[k] = NoFetch /\ ~cache[k].fresh
                    THEN [kind |-> Stored(p), since |-> listed[ListOf(k)]] ELSE f[k]]

Mount(p) ==
    /\ page' = Rendered(p, cache, FALSE)
    /\ search' = FALSE
    /\ options' = {}
    /\ filled' = FALSE
    /\ fetching' = IF page' = "blank" THEN fetching ELSE Asks(p, fetching)
    /\ UNCHANGED cache

Choice ==
    /\ choices < MaxEvents
    /\ choices' = choices + 1

(* Links, Back and Cancel.  Posts of the form that is left go on.          *)
Open(p) ==
    /\ page # "blank" /\ p # page
    /\ Choice
    /\ Mount(p)
    /\ left' = [l \in Lists |-> left[l] + posts[l]]
    /\ posts' = [l \in Lists |-> 0]
    /\ UNCHANGED <<listed, told>>

(* The user reloads the tab: the QueryClient starts empty.                 *)
Reload ==
    /\ Choice
    /\ page' = IF page = "blank" THEN "interviews" ELSE page
    /\ cache' = [k \in Keys |-> NoData]
    /\ fetching' = [k \in Keys |-> IF k \in Queries(page')
                      THEN [kind |-> Stored(page'), since |-> listed[ListOf(k)]] ELSE NoFetch]
    /\ search' = FALSE
    /\ options' = {}
    /\ filled' = FALSE
    /\ posts' = [l \in Lists |-> 0] /\ left' = [l \in Lists |-> 0]
    /\ UNCHANGED <<listed, told>>

(* Typing into the search field, or following a client to its requirements.*)
Search ==
    /\ page \in {"interviews", "requirements", "clients"}
    /\ ~search
    /\ Choice
    /\ search' = TRUE
    /\ page' = Rendered(page, cache, TRUE)
    /\ UNCHANGED <<options, filled, queries, listed, forms>>

(* The server answers with the rows of some moment since it was asked.     *)
Store(k, d) ==
    /\ cache' = [cache EXCEPT ![k] = d]
    /\ fetching' = [fetching EXCEPT ![k] = NoFetch]
    /\ page' = Rendered(page, cache', search)
    /\ UNCHANGED <<search, options, filled, listed, forms>>

ListAnswer(k) ==
    /\ fetching[k] # NoFetch
    /\ \E n \in fetching[k].since .. listed[ListOf(k)] :
          Store(k, [kind |-> fetching[k].kind, n |-> n, fresh |-> TRUE, failed |-> FALSE])
    /\ UNCHANGED choices

(* No answer, nor to the retry.  Interviews stores no rows in its place.   *)
Fail(k) ==
    /\ fetching[k] # NoFetch
    /\ Choice
    /\ Store(k, IF k = "interviews" /\ fetching[k].kind = "array"
                THEN [kind |-> "array", n |-> 0, fresh |-> TRUE, failed |-> FALSE]
                ELSE [cache[k] EXCEPT !.failed = TRUE])

(* Five minutes later; and what no page uses is dropped.                   *)
Age(k) ==
    /\ cache[k].fresh
    /\ Choice
    /\ cache' = [cache EXCEPT ![k].fresh = FALSE]
    /\ UNCHANGED <<user, fetching, listed, forms>>

Collect(k) ==
    /\ cache[k] # NoData /\ ~cache[k].fresh
    /\ k \notin Queries(page) /\ fetching[k] = NoFetch
    /\ cache' = [cache EXCEPT ![k] = NoData]
    /\ UNCHANGED <<user, fetching, listed, forms, choices>>

(* The window has the focus again: stale data of the page is asked anew.   *)
Focus ==
    /\ page # "blank"
    /\ fetching' = Asks(page, fetching)
    /\ fetching' # fetching
    /\ Choice
    /\ UNCHANGED <<user, cache, listed, forms>>

ColleagueAdds(l) ==
    /\ listed[l] < MaxListed
    /\ Choice
    /\ listed' = [listed EXCEPT ![l] = @ + 1]
    /\ UNCHANGED <<user, queries, forms>>

-----------------------------------------------------------------------------
(* ScheduleInterview loads its two selections by itself.                   *)
LoadOptions(o) ==
    /\ page = "schedule"
    /\ o \notin options
    /\ listed[o] > 0
    /\ options' = options \cup {o}
    /\ UNCHANGED <<page, search, filled, queries, listed, forms, choices>>

(* A form can be filled in so that its schema accepts it, once it offers   *)
(* the selections it demands.                                              *)
FillIn ==
    /\ ~filled
    /\ filled' = TRUE
    /\ UNCHANGED <<page, search, options, queries, listed, forms, choices>>

FillClient == page = "addClient" /\ FillIn
FillCandidate == page = "addCandidate" /\ FillIn
FillRequirement == page = "addRequirement" /\ Filtered(cache["activeClients"]) > 0 /\ FillIn
FillInterview == page = "schedule" /\ options = {"candidates", "requirements"} /\ FillIn

\* no form disables its button
EnabledMutant(l) == posts[l] <= MaxEvents

(* Two of the forms disable their button while they wait, two do not.      *)
Enabled(l) == l \in {"requirements", "clients"} => posts[l] = 0

Submit(l) ==
    /\ page = Form[l]
    /\ filled
    /\ Enabled(l)
    /\ Choice
    /\ posts' = [posts EXCEPT ![l] = @ + 1]
    /\ UNCHANGED <<user, queries, listed, left, told>>

PostInFlight(l, here) == IF here THEN posts[l] > 0 ELSE left[l] > 0

(* Success: a message, and the list page, wherever the user is by now.     *)
Added(l, here) ==
    /\ PostInFlight(l, here)
    /\ page # "blank"
    /\ listed[l] < MaxListed
    /\ listed' = [listed EXCEPT ![l] = @ + 1]
    /\ told' = [told EXCEPT ![l] = listed[l] + 1]
    /\ Mount(l)
    /\ left' = [m \in Lists |-> left[m] + posts[m] - (IF m = l THEN 1 ELSE 0)]
    /\ posts' = [m \in Lists |-> 0]
    /\ UNCHANGED choices

\* isSubmitting is reset only after a success
NotAddedMutant(l, here) ==
    /\ PostInFlight(l, here)
    /\ listed' \in {listed, [listed EXCEPT ![l] = IF @ < MaxListed THEN @ + 1 ELSE @]}
    /\ UNCHANGED <<user, queries, forms, choices>>

(* Refused, or written with the answer lost: a message, and the form stays.*)
NotAdded(l, here) ==
    /\ PostInFlight(l, here)
    /\ listed' \in {listed, [listed EXCEPT ![l] = IF @ < MaxListed THEN @ + 1 ELSE @]}
    /\ IF here THEN posts' = [posts EXCEPT ![l] = @ - 1] /\ UNCHANGED left
       ELSE left' = [left EXCEPT ![l] = @ - 1] /\ UNCHANGED posts
    /\ UNCHANGED <<user, queries, told, choices>>

-----------------------------------------------------------------------------
ListsNext ==
    \/ \E p \in Pages : Open(p)
    \/ Reload \/ Search \/ Focus
    \/ \E k \in Keys : ListAnswer(k) \/ Fail(k) \/ Age(k) \/ Collect(k)
    \/ \E o \in {"candidates", "requirements"} : LoadOptions(o)
    \/ FillClient \/ FillCandidate \/ FillRequirement \/ FillInterview
    \/ \E l \in Lists : Submit(l)
    \/ \E l \in Growing : ColleagueAdds(l)
    \/ \E l \in Lists, here \in BOOLEAN : Added(l, here) \/ NotAdded(l, here)

ListsSpec == ListsInit /\ [][ListsNext]_listsVars

(* A post ends, with the answer of the server or an error of the network.  *)
ListsFairSpec ==
    /\ ListsSpec
    /\ \A l \in Lists, here \in BOOLEAN : WF_listsVars(Added(l, here) \/ NotAdded(l, here))

-----------------------------------------------------------------------------
(* A form never keeps its user waiting: it is left, or its button works    *)
(* again.                                                                  *)
ButtonReturns == \A l \in Lists : page = Form[l] /\ ~Enabled(l) ~> page # Form[l] \/ Enabled(l)

(* What a user has filled in is given up when the user leaves the form, or *)
(* when a form, this one or one that was left, has succeeded; never when   *)
(* the server refuses it.                                                  *)
FilledFormKept ==
    [][filled /\ ~filled' => choices' # choices \/ \E l \in Lists : told'[l] > told[l]]_listsVars

(* A form that was refused can be sent again, as it was filled in.         *)
FormsRecover == ButtonReturns /\ FilledFormKept

(* Interviews and Requirements, when they neither load nor report an       *)
(* error, are there and show the rows that were answered.                  *)
ListsShowTheirRows ==
    /\ page # "blank"
    /\ page = "interviews" => InterviewsShows = cache["interviews"].n \/ IsLoading("interviews")
    /\ page = "requirements" /\ ~search =>
          \/ IsLoading("requirements") \/ IsError("requirements")
          \/ RequirementsShows.rows = cache["requirements"].n
=============================================================================
