----------------------------- MODULE InterviewPage -----------------------------
(***************************************************************************)
(* The page frontend/src/pages/InterviewDetails.tsx: one interview, read   *)
(* by a query, and two buttons that PUT the page's copy of it with another *)
(* status and, on success, ask for the interview again.  Nothing disables  *)
(* the buttons.  UpdateInterview (handlers/interview_handlers.go) writes   *)
(* the outcome and the feedback of the body too, so an old copy puts back  *)
(* what a colleague has recorded since.  react-query is external: refetch  *)
(* gives up a request in flight and sends another.                         *)
(***************************************************************************)
EXTENDS Naturals, FiniteSets

CONSTANTS Slots,    \* updates in flight (bound)
          MaxPuts   \* updates (bound)

VARIABLES
    interview,  \* server: status and feedback
    data,       \* the page's copy: the set of it, empty before it is there
    fetching,   \* the request of the query, and the reply on its way
    isError,
    puts,       \* updates in flight: the body
    count,
    unseen      \* the server was changed without the page being told

vars == <<interview, data, fetching, isError, puts, count, unseen>>

Interviews == [status : {"scheduled", "completed", "cancelled"}, feedback : {"none", "theirs"}]
NotAsked == [at |-> "not"]
Asked == [at |-> "asked"]
NoPut == [at |-> "not"]

TypeOK ==
    /\ interview \in Interviews
    /\ data \in SUBSET Interviews /\ Cardinality(data) <= 1
    /\ isError \in BOOLEAN
    /\ count \in 0 .. MaxPuts
    /\ data = {} => \A s \in Slots : puts[s] = NoPut

Init ==
    /\ interview = [status |-> "scheduled", feedback |-> "none"]
    /\ data = {}
    /\ fetching = Asked
    /\ isError = FALSE
    /\ puts = [s \in Slots |-> NoPut]
    /\ count = 0
    /\ unseen = FALSE

-----------------------------------------------------------------------------
Served ==
    /\ fetching = Asked
    /\ fetching' = [at |-> "served", reply |-> interview]
    /\ UNCHANGED <<interview, data, isError, puts, count, unseen>>

Arrives ==
    /\ fetching.at = "served"
    /\ data' = {fetching.reply}
    /\ fetching' = NotAsked
    /\ isError' = FALSE
    /\ UNCHANGED <<interview, puts, count, unseen>>

(* Neither the request nor its one retry is answered.                      *)
FetchFails ==
    /\ fetching # NotAsked
    /\ fetching' = NotAsked
    /\ isError' = TRUE
    /\ UNCHANGED <<interview, data, puts, count, unseen>>

(* The window has the focus again and the copy is old.                     *)
Refocus ==
    /\ fetching = NotAsked
    /\ fetching' = Asked
    /\ UNCHANGED <<interview, data, isError, puts, count, unseen>>

(* What is on the page: the error takes the place of the copy.             *)
Shown == IF isError THEN {} ELSE data

-----------------------------------------------------------------------------
(* updateStatus                                                            *)
Click(status) ==
    /\ count < MaxPuts /\ count' = count + 1
    /\ \E copy \in Shown, s \in Slots :
          /\ puts[s] = NoPut
          /\ puts' = [puts EXCEPT ![s] =
                [at |-> "sent", body |-> [copy EXCEPT !.status = status]]]
    /\ UNCHANGED <<interview, data, fetching, isError, unseen>>

UpdateInterview(s) ==
    /\ puts[s].at = "sent"
    /\ interview' = puts[s].body
    /\ puts' = [puts EXCEPT ![s].at = "written"]
    /\ UNCHANGED <<data, fetching, isError, count, unseen>>

Updated(s) ==
    /\ puts[s].at = "written"
    /\ puts' = [puts EXCEPT ![s] = NoPut]
    /\ fetching' = Asked
    /\ UNCHANGED <<interview, data, isError, count, unseen>>

(* Refused, or the answer is lost.                                         *)
UpdateFails(s) ==
    /\ puts[s] # NoPut
    /\ puts' = [puts EXCEPT ![s] = NoPut]
    /\ unseen' = (unseen \/ puts[s].at = "written")
    /\ UNCHANGED <<interview, data, fetching, isError, count>>

Colleague ==
    /\ ~unseen
    /\ interview' = [interview EXCEPT !.feedback = "theirs"]
    /\ unseen' = TRUE
    /\ UNCHANGED <<data, fetching, isError, puts, count>>

Next ==
    \/ Served \/ Arrives \/ FetchFails \/ Refocus
    \/ \E status \in {"completed", "cancelled"} : Click(status)
    \/ \E s \in Slots : UpdateInterview(s) \/ Updated(s) \/ UpdateFails(s)
    \/ Colleague

Spec == Init /\ [][Next]_vars

-----------------------------------------------------------------------------
(* After the last answer the page shows what the server has, however the   *)
(* updates and the requests for the interview overlapped.                  *)
DetailsCatchUp ==
    /\ ~unseen
    /\ fetching = NotAsked
    /\ \A s \in Slots : puts[s] = NoPut
    => \A copy \in Shown : copy = interview
=============================================================================
