------------------------------ MODULE ResumePage ------------------------------
(***************************************************************************)
(* The page frontend/src/pages/ResumeAI.tsx and the handlers behind it:    *)
(*   retry     POST .../retry, then load, then showDetail; load only when  *)
(*             it failed; actionId locks the button of one row meanwhile   *)
(*   upload    POST, show the results in the place of the rows, then load  *)
(*   search    show the results in the place of the rows; Enter also works *)
(*             while a search is in flight                                 *)
(*   RetryResume  sets 'processing', asks the model, and in one            *)
(*             transaction replaces what this resume told of its candidate *)
(*             by what the model says now; then sets 'completed'           *)
(* Resumes get here through UploadCandidateResume, as 'completed'.  Those  *)
(* of UploadResumes do not: its INSERT names tenant_id twice and fails.    *)
(* Nothing keeps two retries of one resume apart.                          *)
(***************************************************************************)
EXTENDS Naturals, FiniteSets

CONSTANTS Resumes, NoResume,
          Slots,       \* operations in flight (bound)
          MaxClicks    \* clicks, here and elsewhere (bound)

VARIABLES
    status,       \* server: parsing_status of each resume
    history,      \* server: the retries whose rows the resume's candidate has
    rows,         \* the page's repository: the statuses it knows
    results,      \* what hides the repository
    actionId, uploading, searching,
    ops,
    clicks,
    raced,        \* resumes whose rows two transactions replaced at once
    marred,       \* resumes a crash or a status that was not written left behind
    missed        \* a load was lost or overtaken, or others changed a status

page == <<rows, results, actionId, uploading, searching>>
ghosts == <<raced, marred, missed>>
vars == <<status, history, page, ops, clicks, ghosts>>

Statuses == {"completed", "processing", "failed"}
NotLoaded == [r \in Resumes |-> "unknown"]
Idle == [at |-> "idle"]
Of(kinds) == {s \in Slots : ops[s].at \in kinds}
Serving == {"read", "parsing", "commit", "finish"}
Loading == {"list", "listed"}
Load(by, r) == [at |-> "list", by |-> by, resume |-> r]
Retries(r) == {s \in Of(Serving) : ops[s].resume = r}

TypeOK ==
    /\ status \in [Resumes -> Statuses]
    /\ history \in [Resumes -> SUBSET (1 .. MaxClicks)]
    /\ rows \in [Resumes -> Statuses] \cup {NotLoaded}
    /\ results \in {"none", "uploads", "candidates"}
    /\ actionId \in Resumes \cup {NoResume}
    /\ clicks \in 0 .. MaxClicks
    /\ raced \subseteq Resumes /\ marred \subseteq Resumes
    /\ \A s \in Slots : ops[s].at \in Serving \cup Loading
          \cup {"idle", "detail", "upload", "search"}
    \* one upload at a time: the button is off meanwhile
    /\ Cardinality(Of({"upload"}) \cup {s \in Of(Loading) : ops[s].by = "uploaded"})
       = IF uploading THEN 1 ELSE 0

(* A resume has failed when a retry of it has.                             *)
Init ==
    /\ status \in [Resumes -> {"completed", "failed"}]
    /\ history = [r \in Resumes |-> {}]
    /\ rows = NotLoaded /\ results = "none"
    /\ actionId = NoResume /\ uploading = FALSE /\ searching = FALSE
    /\ ops = [s \in Slots |-> IF s = CHOOSE t \in Slots : TRUE
                              THEN Load("mount", NoResume) ELSE Idle]
    /\ clicks = 0
    /\ raced = {} /\ marred = {} /\ missed = FALSE

-----------------------------------------------------------------------------
Clicked == clicks < MaxClicks /\ clicks' = clicks + 1
Starts(op) == \E s \in Slots : ops[s] = Idle /\ ops' = [ops EXCEPT ![s] = op]
Goes(s, op) == ops' = [ops EXCEPT ![s] = op]
Overtakes == missed' = (missed \/ Of(Loading) # {})

(* The table offers Retry for failed rows of the repository only.          *)
ClickRetry(r) ==
    /\ results = "none" /\ rows[r] = "failed" /\ actionId # r
    /\ Clicked
    /\ actionId' = r
    /\ Starts([at |-> "read", resume |-> r, no |-> clicks', mine |-> TRUE, seen |-> {}])
    /\ UNCHANGED <<status, history, rows, results, uploading, searching, ghosts>>

(* The handler takes any resume.                                           *)
RetryElsewhere(r) ==
    /\ Clicked
    /\ missed' = TRUE
    /\ Starts([at |-> "read", resume |-> r, no |-> clicks', mine |-> FALSE, seen |-> {}])
    /\ UNCHANGED <<status, history, page, raced, marred>>

(* The page loads its repository again, whatever the answer.               *)
Reply(s, ok) ==
    /\ UNCHANGED actionId
    /\ IF ops[s].mine
       THEN /\ Goes(s, Load(IF ok THEN "retried" ELSE "refused", ops[s].resume))
            /\ Overtakes
       ELSE Goes(s, Idle) /\ UNCHANGED missed

(* No such resume, no file, no text: nothing is changed.                   *)
Refuse(s) ==
    /\ ops[s].at = "read"
    /\ Reply(s, FALSE)
    /\ UNCHANGED <<status, history, rows, results, uploading, searching, clicks, raced, marred>>

(* The errors of the UPDATEs that set a status are not looked at.  One of  *)
(* them fails in a behaviour, or the server dies once (bound).             *)
NoFaultYet == marred = {}
SetStatus(s, value) ==
    LET r == ops[s].resume
    IN  \/ status' = [status EXCEPT ![r] = value] /\ UNCHANGED marred
        \/ NoFaultYet /\ marred' = {r} /\ UNCHANGED status

StartParsing(s) ==
    /\ ops[s].at = "read"
    /\ SetStatus(s, "processing")
    /\ Goes(s, [ops[s] EXCEPT !.at = "parsing"])
    /\ UNCHANGED <<history, page, clicks, raced, missed>>

\* a failure to store the answer of the model is not recorded
FailsMutant(s) ==
    /\ ops[s].at \in {"parsing", "commit"}
    /\ IF ops[s].at = "parsing" THEN SetStatus(s, "failed") ELSE UNCHANGED <<status, marred>>
    /\ Reply(s, FALSE)
    /\ UNCHANGED <<history, rows, results, uploading, searching, clicks, raced>>

(* The model does not answer, its answer is no good, or the candidate or   *)
(* the transaction fails.                                                  *)
Fails(s) ==
    /\ ops[s].at \in {"parsing", "commit"}
    /\ SetStatus(s, "failed")
    /\ Reply(s, FALSE)
    /\ UNCHANGED <<history, rows, results, uploading, searching, clicks, raced>>

\* rows are added to those of the retry before
DeleteRowsMutant(s) ==
    /\ ops[s].at = "parsing"
    /\ Goes(s, [ops[s] EXCEPT !.at = "commit"])
    /\ UNCHANGED <<status, history, page, clicks, ghosts>>

(* persistResumeIntelligence begins: its DELETEs see what is committed.    *)
DeleteRows(s) ==
    /\ ops[s].at = "parsing"
    /\ Goes(s, [ops[s] EXCEPT !.at = "commit", !.seen = history[ops[s].resume]])
    /\ UNCHANGED <<status, history, page, clicks, ghosts>>

InsertRows(s) ==
    /\ ops[s].at = "commit"
    /\ LET r == ops[s].resume
       IN  /\ history' = [history EXCEPT ![r] = (@ \ ops[s].seen) \cup {ops[s].no}]
           /\ raced' = IF \E t \in Retries(r) \ {s} : ops[t].at = "commit"
                       THEN raced \cup {r} ELSE raced
    /\ Goes(s, [ops[s] EXCEPT !.at = "finish"])
    /\ UNCHANGED <<status, page, clicks, marred, missed>>

Completes(s) ==
    /\ ops[s].at = "finish"
    /\ SetStatus(s, "completed")
    /\ Reply(s, TRUE)
    /\ UNCHANGED <<history, rows, results, uploading, searching, clicks, raced>>

(* The page loses the connection and the server works on.                  *)
LosesAnswer(s) ==
    /\ ops[s].at \in Serving /\ ops[s].mine
    /\ \E t \in Slots :
          /\ ops[t] = Idle
          /\ ops' = [ops EXCEPT ![s].mine = FALSE, ![t] = Load("refused", ops[s].resume)]
    /\ missed' = TRUE
    /\ UNCHANGED <<status, history, page, clicks, raced, marred>>

(* The server dies and comes back; a transaction under way is undone.      *)
Crash ==
    /\ Of(Serving) # {}
    /\ NoFaultYet
    /\ marred' = {r \in Resumes : Retries(r) # {}}
    /\ ops' = [s \in Slots |->
                 IF ops[s].at \notin Serving THEN ops[s]
                 ELSE IF ops[s].mine THEN Load("refused", ops[s].resume) ELSE Idle]
    /\ missed' = TRUE
    /\ UNCHANGED <<status, history, page, clicks, raced>>

-----------------------------------------------------------------------------
ServeList(s) ==
    /\ ops[s].at = "list"
    /\ Goes(s, [at |-> "listed", by |-> ops[s].by, resume |-> ops[s].resume, reply |-> status])
    /\ UNCHANGED <<status, history, page, clicks, ghosts>>

(* What waited for load goes on: to showDetail after a retry that worked,  *)
(* to its finally otherwise.                                               *)
AfterLoad(s) ==
    LET by == ops[s].by
    IN  /\ Goes(s, IF by = "retried" THEN [at |-> "detail", resume |-> ops[s].resume, after |-> TRUE]
                   ELSE Idle)
        /\ actionId' = IF by = "refused" THEN NoResume ELSE actionId
        /\ uploading' = IF by = "uploaded" THEN FALSE ELSE uploading
        /\ UNCHANGED <<status, history, results, searching, clicks, raced, marred>>

Listed(s) ==
    /\ ops[s].at = "listed"
    /\ rows' = ops[s].reply
    /\ AfterLoad(s)
    /\ UNCHANGED missed

(* load keeps its error to itself.                                         *)
ListFails(s) ==
    /\ ops[s].at \in Loading
    /\ missed' = TRUE
    /\ AfterLoad(s)
    /\ UNCHANGED rows

(* Whatever the row is of; what the card then shows is left out.           *)
ShowDetail ==
    /\ rows # NotLoaded \/ results = "candidates"
    /\ Clicked
    /\ Starts([at |-> "detail", resume |-> NoResume, after |-> FALSE])
    /\ UNCHANGED <<status, history, page, ghosts>>

(* Answered or refused.                                                    *)
Detailed(s) ==
    /\ ops[s].at = "detail"
    /\ Goes(s, Idle)
    /\ actionId' = IF ops[s].after THEN NoResume ELSE actionId
    /\ UNCHANGED <<status, history, rows, results, uploading, searching, clicks, ghosts>>

-----------------------------------------------------------------------------
ClickUpload ==
    /\ ~uploading
    /\ Clicked
    /\ uploading' = TRUE
    /\ Starts([at |-> "upload"])
    /\ UNCHANGED <<status, history, rows, results, actionId, searching, ghosts>>

(* Every file is reported as a duplicate or as failed; none is recorded.   *)
Uploaded(s) ==
    /\ ops[s].at = "upload"
    /\ results' = "uploads"
    /\ Goes(s, Load("uploaded", NoResume))
    /\ Overtakes
    /\ UNCHANGED <<status, history, rows, actionId, uploading, searching, clicks, raced, marred>>

UploadFails(s) ==
    /\ ops[s].at = "upload"
    /\ Goes(s, Idle)
    /\ uploading' = FALSE
    /\ UNCHANGED <<status, history, rows, results, actionId, searching, clicks, ghosts>>

Search ==
    /\ Clicked
    /\ searching' = TRUE
    /\ Starts([at |-> "search"])
    /\ UNCHANGED <<status, history, rows, results, actionId, uploading, ghosts>>

(* A search that finds nothing gives the repository back.                  *)
Searched(s) ==
    /\ ops[s].at = "search"
    /\ Goes(s, Idle)
    /\ searching' = FALSE
    /\ results' \in {"none", "candidates", results}
    /\ UNCHANGED <<status, history, rows, actionId, uploading, clicks, ghosts>>

Next ==
    \/ \E r \in Resumes : ClickRetry(r) \/ RetryElsewhere(r)
    \/ \E s \in Slots :
          \/ Refuse(s) \/ StartParsing(s) \/ Fails(s) \/ DeleteRows(s) \/ InsertRows(s)
          \/ Completes(s) \/ LosesAnswer(s)
          \/ ServeList(s) \/ Listed(s) \/ ListFails(s) \/ Detailed(s)
          \/ Uploaded(s) \/ UploadFails(s) \/ Searched(s)
    \/ ShowDetail \/ ClickUpload \/ Search \/ Crash

Spec == Init /\ [][Next]_vars

-----------------------------------------------------------------------------
(* A resume is 'processing' only while a retry works on it, however many   *)
(* retries overlap, unless a crash or an UPDATE that failed left it there. *)
ProcessingMeansWork ==
    \A r \in Resumes : status[r] = "processing" /\ r \notin marred => Retries(r) # {}

(* A candidate has the history of a resume once, after any number of       *)
(* retries; only two that replace it at the same time leave it twice.      *)
HistoryOnce == \A r \in Resumes : r \notin raced => Cardinality(history[r]) <= 1

(* When nothing is in flight the repository shows the statuses of the      *)
(* server, also after a retry that failed, unless a load was lost or       *)
(* overtaken or others retried.                                            *)
RepositoryCatchesUp == rows # NotLoaded /\ ~missed /\ Of({"idle"}) = Slots => rows = status

(* "Retrying..." and "Searching..." stand for work of the page in flight.  *)
ButtonsComeBack ==
    /\ searching => Of({"search"}) # {}
    /\ actionId # NoResume =>
          \E s \in Slots :
             \/ s \in Retries(actionId) /\ ops[s].mine
             \/ ops[s].at \in Loading /\ ops[s].by \in {"retried", "refused"}
                                                 /\ ops[s].resume = actionId
             \/ ops[s].at = "detail" /\ ops[s].after /\ ops[s].resume = actionId
=============================================================================
