---------------------------- MODULE CandidatesPage ----------------------------
(***************************************************************************)
(* The page frontend/src/pages/Candidates.tsx: the list of candidates,     *)
(* read once (and again with Retry), a menu on each row that moves the     *)
(* candidate to another pipeline stage, and the upload of a resume.        *)
(*   updateCandidateStatus  PUTs the row of the page with the new stage    *)
(*       and then puts into the page the list AS IT WAS WHEN THE MENU WAS  *)
(*       CLICKED with the new stage in it: several may be in flight        *)
(*   triggerResumeUpload    notes the candidate and opens the file dialog; *)
(*       there is one note, and each upload that ends clears it            *)
(* The server's UpdateCandidate (handlers/candidate_handlers.go) reads the *)
(* eligibility status first and writes it back with everything else, so it *)
(* takes two steps.  A colleague may change a row in between, and the      *)
(* handler goes on when the page has lost the connection.                  *)
(***************************************************************************)
EXTENDS Naturals, FiniteSets

CONSTANTS Candidates,
          Nobody,
          Slots,       \* updates in flight (bound)
          MaxUpdates,  \* updates of the page (bound)
          MaxUploads   \* files chosen (bound)

VARIABLES
    stored,      \* server: pipelineStage, status and the rest of each row
    candidates,  \* the page's list: the set of it, empty before it is there
    isLoading, error,
    updates,     \* updateCandidateStatus in flight; lost: the page has given it
                 \* up and the server has not
    target,      \* uploadTargetId
    dialog,      \* whose menu opened the file dialog that is open
    uploads,     \* uploads in flight: whose menu, and which candidate's URL
    spent,       \* updates and files so far, and what colleagues did
    blurred      \* why the page may differ from the server

page == <<candidates, isLoading, error>>
files == <<target, dialog, uploads>>
vars == <<stored, candidates, isLoading, error, updates, target, dialog, uploads, spent, blurred>>

Offered == {"screening", "interview", "rejected"}
PipelineStages == {"new"} \cup Offered
Statuses == {"active", "blacklisted"}
Details == {"full", "bare"}
NoUpdate == [at |-> "not"]

Lists == [Candidates -> PipelineStages]

TypeOK ==
    /\ stored \in [Candidates -> [stage : PipelineStages, status : Statuses, details : Details]]
    /\ candidates \in SUBSET Lists /\ Cardinality(candidates) <= 1
    /\ isLoading \in BOOLEAN /\ error \in BOOLEAN
    /\ target \in Candidates \cup {Nobody} /\ dialog \in Candidates \cup {Nobody}
    /\ uploads \subseteq [for : Candidates, to : Candidates]
    \* the table is shown, and can be clicked, only between loads
    /\ isLoading => ~error /\ \A s \in Slots : updates[s] = NoUpdate

Init ==
    /\ stored = [c \in Candidates |-> [stage |-> "new", status |-> "active", details |-> "full"]]
    /\ candidates = {}
    /\ isLoading = TRUE /\ error = FALSE
    /\ updates = [s \in Slots |-> NoUpdate]
    /\ target = Nobody /\ dialog = Nobody
    /\ uploads = {}
    /\ spent = [updates |-> 0, uploads |-> 0, colleagues |-> 0]
    /\ blurred = FALSE

Spend(what, max) ==
    /\ spent[what] < max
    /\ spent' = [spent EXCEPT ![what] = @ + 1]

-----------------------------------------------------------------------------
(* fetchCandidates: success, failure, and Retry.                           *)
Stages == [c \in Candidates |-> stored[c].stage]

Fetched ==
    /\ isLoading
    /\ candidates' = {Stages}
    /\ isLoading' = FALSE
    /\ UNCHANGED <<stored, error, updates, files, spent, blurred>>

FetchFails ==
    /\ isLoading
    /\ candidates' = {}
    /\ error' = TRUE
    /\ isLoading' = FALSE
    /\ UNCHANGED <<stored, updates, files, spent, blurred>>

Retry ==
    /\ error
    /\ isLoading' = TRUE
    /\ error' = FALSE
    /\ UNCHANGED <<stored, candidates, updates, files, spent, blurred>>

(* The rows on the page, and the menu of each.                             *)
Shown == IF error \/ isLoading THEN {} ELSE candidates
HasMenu(c) == Shown # {} /\ dialog = Nobody
Busy == {s \in Slots : updates[s] # NoUpdate}

-----------------------------------------------------------------------------
Mark(c, stage) ==
    /\ HasMenu(c)
    /\ \E list \in Shown, s \in Slots \ Busy :
          updates' = [updates EXCEPT ![s] =
             [at |-> "sent", candidate |-> c, stage |-> stage, list |-> list,
              status |-> "unread", lost |-> FALSE]]
    /\ blurred' = (blurred \/ Busy # {})
    /\ Spend("updates", MaxUpdates)
    /\ UNCHANGED <<stored, page, files>>

(* UpdateCandidate reads the status the page does not send ...             *)
ReadStatus(s) ==
    /\ updates[s].at = "sent"
    /\ updates' = [updates EXCEPT ![s].at = "read",
                                 ![s].status = stored[updates[s].candidate].status]
    /\ UNCHANGED <<stored, page, files, spent, blurred>>

(* ... and writes all columns; the page knows no job description.          *)
WriteCandidate(s) ==
    /\ updates[s].at = "read"
    /\ stored' = [stored EXCEPT ![updates[s].candidate] =
          [stage |-> updates[s].stage, status |-> updates[s].status, details |-> "bare"]]
    /\ updates' = [updates EXCEPT ![s].at = "written"]
    /\ UNCHANGED <<page, files, spent, blurred>>

Updated(s) ==
    /\ updates[s].at = "written" /\ ~updates[s].lost
    /\ candidates' = {[updates[s].list EXCEPT ![updates[s].candidate] = updates[s].stage]}
    /\ updates' = [updates EXCEPT ![s] = NoUpdate]
    /\ UNCHANGED <<stored, isLoading, error, files, spent, blurred>>

\* the list of the page is changed before the catch
UpdateFailsMutant(s) ==
    /\ updates[s] # NoUpdate
    /\ updates' = [updates EXCEPT ![s] = NoUpdate]
    /\ candidates' = {[updates[s].list EXCEPT ![updates[s].candidate] = updates[s].stage]}
    /\ blurred' = (blurred \/ updates[s].at = "written")
    /\ UNCHANGED <<stored, isLoading, error, files, spent>>

(* Refused, or the answer is lost: a message.                              *)
UpdateFails(s) ==
    /\ updates[s] # NoUpdate
    /\ updates' = [updates EXCEPT ![s] = NoUpdate]
    /\ blurred' = (blurred \/ updates[s].at = "written")
    /\ UNCHANGED <<stored, page, files, spent>>

(* The connection is gone: the page has its message, the server goes on.   *)
ConnectionLost(s) ==
    /\ updates[s].at \in {"sent", "read"} /\ ~updates[s].lost
    /\ updates' = [updates EXCEPT ![s].lost = TRUE]
    /\ blurred' = TRUE
    /\ UNCHANGED <<stored, page, files, spent>>

(* A colleague takes the candidate out, or moves it.                       *)
Colleague(c) ==
    /\ Spend("colleagues", 1)
    /\ \/ stored' = [stored EXCEPT ![c].status = "blacklisted"] /\ UNCHANGED blurred
       \/ /\ stored' = [stored EXCEPT ![c].stage = "interview"]
          /\ blurred' = TRUE
    /\ UNCHANGED <<page, updates, files>>

-----------------------------------------------------------------------------
(* triggerResumeUpload; the dialog hides the page until it is closed.      *)
TriggerUpload(c) ==
    /\ HasMenu(c)
    /\ target' = c
    /\ dialog' = c
    /\ UNCHANGED <<stored, page, updates, uploads, spent, blurred>>

DialogCancelled ==
    /\ dialog # Nobody
    /\ dialog' = Nobody
    /\ UNCHANGED <<stored, page, updates, target, uploads, spent, blurred>>

(* handleResumeFileSelected: nothing happens if an upload that ended has   *)
(* cleared the note meanwhile.                                             *)
FileSelected ==
    /\ dialog # Nobody
    /\ Spend("uploads", MaxUploads)
    /\ dialog' = Nobody
    /\ uploads' = IF target = Nobody THEN uploads ELSE uploads \cup {[for |-> dialog, to |-> target]}
    /\ UNCHANGED <<stored, page, updates, target, blurred>>

(* Success or failure: a message, and the note is cleared.                 *)
UploadEnds(u) ==
    /\ u \in uploads
    /\ uploads' = uploads \ {u}
    /\ target' = Nobody
    /\ UNCHANGED <<stored, page, updates, dialog, spent, blurred>>

Next ==
    \/ Fetched \/ FetchFails \/ Retry
    \/ \E c \in Candidates, stage \in Offered : Mark(c, stage)
    \/ \E s \in Slots : ReadStatus(s) \/ WriteCandidate(s)
    \/ \E s \in Slots : Updated(s) \/ UpdateFails(s) \/ ConnectionLost(s)
    \/ \E c \in Candidates : Colleague(c) \/ TriggerUpload(c)
    \/ DialogCancelled \/ FileSelected
    \/ \E u \in uploads : UploadEnds(u)

Spec == Init /\ [][Next]_vars

-----------------------------------------------------------------------------
(* Between updates the page shows the stages the server has, also after    *)
(* updates that failed; it may not once two updates were in flight at the  *)
(* same time, an answer or a connection was lost, or a colleague moved a   *)
(* candidate.                                                              *)
StagesInStep ==
    ~blurred /\ Busy = {} => \A list \in Shown : list = Stages

(* A resume is never uploaded to another candidate than the one whose menu *)
(* opened the dialog, however the ends of earlier uploads fall in between. *)
FilesReachTheirCandidate == \A u \in uploads : u.to = u.for
=============================================================================
