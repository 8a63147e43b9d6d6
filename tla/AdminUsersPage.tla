---------------------------- MODULE AdminUsersPage ----------------------------
(***************************************************************************)
(* The page frontend/src/pages/AdminUsers.tsx in one tab: two queries (the *)
(* account with its seats, and the users once the account is known to be   *)
(* an administrator's), three mutations, and one form that both adds and   *)
(* edits.  A mutation that succeeds closes the form and invalidates the    *)
(* queries; the row buttons and Cancel work while one is in flight, so the *)
(* form may be another one by then.  The handlers are those of             *)
(* UserAccounts, taken here as one step each.  react-query is external: to *)
(* invalidate a query that has data is to give up its request and to ask   *)
(* again, but a first request in flight goes on instead.                   *)
(***************************************************************************)
EXTENDS Naturals, FiniteSets

CONSTANTS Ids,       \* operational users there may be
          Seats,     \* of them, at most (user_limit without the administrator)
          Slots,     \* mutations in flight (bound)
          MaxSends   \* mutations (bound)

VARIABLES
    there,     \* server: what each user is, "none" if there is no such user
    cache,     \* what the page has from the queries
    fetching,  \* requests of the queries
    form,      \* editing, showCreate and form
    sent,      \* mutations in flight
    sends,
    trouble    \* an answer was lost, or a success met the first request for the
               \* users, which may be older

vars == <<there, cache, fetching, form, sent, sends, trouble>>

Values == {"none", "old", "new"}
Queries == {"account", "users"}
NoData == {}             \* an answer is kept as the set of it
NotAsked == [at |-> "not"]
Asked == [at |-> "asked"]
Shut == "shut"
Empty == "empty"          \* emptyForm, or that and what was typed into it
NoMutation == [kind |-> "not"]

TypeOK ==
    /\ there \in [Ids -> Values]
    /\ DOMAIN cache = Queries
    /\ form \in [editing : Ids \cup {Shut}, creating : BOOLEAN, values : Ids \cup {Empty}]
    /\ form.editing # Shut => ~form.creating
    /\ sends \in 0 .. MaxSends /\ trouble \in BOOLEAN
    /\ \A q \in Queries : Cardinality(cache[q]) <= 1
    /\ Cardinality({s \in Slots : sent[s].kind \in {"create", "update"}}) <= 1

Init ==
    /\ there \in [Ids -> {"none", "old"}]
    /\ cache = [q \in Queries |-> NoData]
    /\ fetching = [q \in Queries |-> IF q = "account" THEN Asked ELSE NotAsked]
    /\ form = [editing |-> Shut, creating |-> FALSE, values |-> Empty]
    /\ sent = [s \in Slots |-> NoMutation]
    /\ sends = 0
    /\ trouble = FALSE

-----------------------------------------------------------------------------
InUse(users) == Cardinality({u \in Ids : users[u] # "none"})
Reply(q) == IF q = "account" THEN InUse(there) ELSE there

ServeQuery(q) ==
    /\ fetching[q] = Asked
    /\ fetching' = [fetching EXCEPT ![q] = [at |-> "served", reply |-> {Reply(q)}]]
    /\ UNCHANGED <<there, cache, form, sent, sends, trouble>>

(* usersQuery is enabled by the answer to accountQuery.                    *)
Enabled(q) == q = "users" => cache["account"] # NoData

QueryAnswered(q) ==
    /\ fetching[q].at = "served"
    /\ cache' = [cache EXCEPT ![q] = fetching[q].reply]
    /\ fetching' = [fetching EXCEPT ![q] = NotAsked,
                       !["users"] = IF q = "account" /\ cache["users"] = NoData /\ @ = NotAsked
                                    THEN Asked ELSE IF q = "users" THEN NotAsked ELSE @]
    /\ UNCHANGED <<there, form, sent, sends, trouble>>

(* No answer, nor to the retries: what is there stays.                     *)
QueryFails(q) ==
    /\ fetching[q] # NotAsked
    /\ fetching' = [fetching EXCEPT ![q] = NotAsked]
    /\ trouble' = TRUE
    /\ UNCHANGED <<there, cache, form, sent, sends>>

-----------------------------------------------------------------------------
(* What the page offers: the table, with buttons for who is no             *)
(* administrator, and Add User while a seat is free as far as it knows.    *)
Listed == {u \in Ids : \E users \in cache["users"] : users[u] # "none"}
CanAdd == \E inUse \in cache["account"] : inUse < Seats
FormIsOpen == form.creating \/ form.editing # Shut
isSaving == \E s \in Slots : sent[s].kind \in {"create", "update"}

OpenCreate ==
    /\ CanAdd
    /\ form' = [editing |-> Shut, creating |-> TRUE, values |-> Empty]
    /\ form' # form
    /\ UNCHANGED <<there, cache, fetching, sent, sends, trouble>>

OpenEdit(u) ==
    /\ u \in Listed
    /\ form' = [editing |-> u, creating |-> FALSE, values |-> u]
    /\ form' # form
    /\ UNCHANGED <<there, cache, fetching, sent, sends, trouble>>

Cancel ==
    /\ FormIsOpen
    /\ form' = [form EXCEPT !.editing = Shut, !.creating = FALSE]
    /\ UNCHANGED <<there, cache, fetching, sent, sends, trouble>>

Send(m) ==
    /\ sends < MaxSends
    /\ sends' = sends + 1
    /\ \E s \in Slots : sent[s] = NoMutation /\ sent' = [sent EXCEPT ![s] = m]
    /\ UNCHANGED <<there, cache, fetching, form, trouble>>

\* the button of the form works while one of its mutations is in flight
SubmitMutant ==
    /\ FormIsOpen
    /\ Send(IF form.editing # Shut
            THEN [kind |-> "update", user |-> form.editing, values |-> form.values, at |-> "sent"]
            ELSE [kind |-> "create", at |-> "sent"])

Submit ==
    /\ FormIsOpen /\ ~isSaving
    /\ Send(IF form.editing # Shut
            THEN [kind |-> "update", user |-> form.editing, values |-> form.values, at |-> "sent"]
            ELSE [kind |-> "create", at |-> "sent"])

ClickDelete(u) == u \in Listed /\ Send([kind |-> "delete", user |-> u, at |-> "sent"])

-----------------------------------------------------------------------------
(* The handler: the users afterwards; there is one outcome or none.        *)
Outcome(m) ==
    CASE m.kind = "create" -> {[there EXCEPT ![u] = "old"] :
                                  u \in {v \in Ids : there[v] = "none" /\ InUse(there) < Seats}}
      [] m.kind = "update" -> IF there[m.user] = "none" THEN {} ELSE {[there EXCEPT ![m.user] = "new"]}
      [] m.kind = "delete" -> IF there[m.user] = "none" THEN {} ELSE {[there EXCEPT ![m.user] = "none"]}

ServeMutation(s) ==
    /\ sent[s] # NoMutation /\ sent[s].at = "sent"
    /\ there' \in Outcome(sent[s])
    /\ sent' = [sent EXCEPT ![s].at = "served"]
    /\ UNCHANGED <<cache, fetching, form, sends, trouble>>

FirstLoad(q) == cache[q] = NoData /\ fetching[q] # NotAsked
Invalidate(keys) ==
    /\ fetching' = [q \in Queries |-> IF q \in keys /\ Enabled(q) /\ ~FirstLoad(q)
                                      THEN Asked ELSE fetching[q]]
    /\ trouble' = (trouble \/ \E q \in keys : FirstLoad(q))

(* onSuccess: the form is closed and emptied, be it the one that was sent  *)
(* or one opened since; but a creation does not leave the editing.         *)
Succeeds(s) ==
    /\ sent[s] # NoMutation /\ sent[s].at = "served"
    /\ sent' = [sent EXCEPT ![s] = NoMutation]
    /\ form' = CASE sent[s].kind = "create" -> [form EXCEPT !.creating = FALSE, !.values = Empty]
                 [] sent[s].kind = "update" -> [form EXCEPT !.editing = Shut, !.values = Empty]
                 [] sent[s].kind = "delete" -> form
    /\ Invalidate(IF sent[s].kind = "update" THEN {"users"} ELSE Queries)
    /\ UNCHANGED <<there, cache, sends>>

(* onError: refused, or done and the answer is lost.                       *)
Fails(s) ==
    /\ sent[s] # NoMutation
    /\ sent[s].at = "sent" => Outcome(sent[s]) = {}
    /\ trouble' = (trouble \/ sent[s].at = "served")
    /\ sent' = [sent EXCEPT ![s] = NoMutation]
    /\ UNCHANGED <<there, cache, fetching, form, sends>>

Next ==
    \/ \E q \in Queries : ServeQuery(q) \/ QueryAnswered(q) \/ QueryFails(q)
    \/ OpenCreate \/ (\E u \in Ids : OpenEdit(u) \/ ClickDelete(u)) \/ Cancel \/ Submit
    \/ \E s \in Slots : ServeMutation(s) \/ Succeeds(s) \/ Fails(s)

Spec == Init /\ [][Next]_vars

-----------------------------------------------------------------------------
(* The values a form was filled with from one user's row never go to       *)
(* another user, though row buttons, Cancel and late successes change the  *)
(* form under way.                                                         *)
EditsReachTheirUser ==
    \A s \in Slots : sent[s].kind = "update" => sent[s].values \in {sent[s].user, Empty}

(* When nothing is in flight any more, and nothing failed on the way, the  *)
(* page lists the users the server has and counts their seats.             *)
ListAndSeatsCatchUp ==
    /\ ~trouble
    /\ \A q \in Queries : fetching[q] = NotAsked
    /\ \A s \in Slots : sent[s] = NoMutation
    => cache["users"] = {there} /\ cache["account"] = {InUse(there)}
=============================================================================
