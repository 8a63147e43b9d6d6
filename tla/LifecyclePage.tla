---------------------------- MODULE LifecyclePage ----------------------------
(***************************************************************************)
(* The page frontend/src/pages/RecruitmentLifecycle.tsx: one browser page  *)
(* that shows the rows of the chosen candidate and requirement (a pair)    *)
(* and offers the next operation of the recruitment lifecycle.             *)
(*   loadState   seven GETs at once, whose rows are applied together, and  *)
(*               then the feedback of the submission that was found        *)
(*   effect      loads whenever the chosen pair changes                    *)
(*   create...   one POST or PUT, then a load with the pair of the click   *)
(* The page neither cancels a load nor looks, when the answer comes, which *)
(* pair is chosen by then, and its buttons stay enabled meanwhile.         *)
(*                                                                         *)
(* The server is modelled by the rows of each pair and by what its         *)
(* handlers check before they write (InterviewSelection, Placement and     *)
(* ScreeningAdmission have the handlers themselves).  This page only goes  *)
(* forward; other recruiters also correct rows: a screening is rejected,   *)
(* an interview cancelled or scheduled again, an acceptance withdrawn, a   *)
(* joining undone.                                                         *)
(***************************************************************************)
EXTENDS Naturals, Sequences, FiniteSets

CONSTANTS Pairs,          \* candidate and requirement
          NoPair,         \* nothing chosen yet
          Stages,         \* progress each pair may have when the page opens
          Loads, Clicks,  \* numbers of loads and of operations in flight (bounds)
          MaxClicks,      \* operations the user starts (bound)
          MaxChoices,     \* times the user changes the pair (bound)
          MaxTroubles,    \* requests that fail on the way, and operations
                          \* of other recruiters (bound)
          MaxRows         \* screenings and interviews of a pair (bound)

ASSUME NoPairAssumption == NoPair \notin Pairs
ASSUME CountsAssumption == MaxRows \in Nat \ {0} /\ {MaxClicks, MaxChoices, MaxTroubles} \subseteq Nat

VARIABLES
    context,   \* candidates, requirements and clients for the select boxes
    pair,      \* candidateId and requirementId
    shown,     \* the rows in the state of the component, and whose they are;
               \* "stale" is history: taken back since its load began
    loading,
    loads,     \* runs of loadState; "undone" is history: what was taken back
               \* since the load began
    clicks,    \* runs of the create... handlers
    server,    \* the rows of each pair
    spent      \* how much of each bound is used

vars == <<context, pair, shown, loading, loads, clicks, server, spent>>

RowNames == {"screening", "submission", "interview", "selection", "offer", "joining", "billing"}
Operations == {"screening", "submission", "feedback", "interview", "completion",
               "selection", "offer", "acceptance", "joining", "billing"}

(* What other recruiters also do.  The statuses rejected and withdrawn of  *)
(* a screening are both "rejected" here, scheduled and rescheduled of an   *)
(* interview "scheduled", cancelled and no_show "cancelled".  A joining is *)
(* "recorded" while its joined flag is false.                              *)
Corrections == {"rejection", "cancellation", "rescheduling", "withdrawal",
                "recording", "arrival", "departure"}
ScreeningUpdates == {"closing", "rejection"}
InterviewUpdates == {"completion", "cancellation", "rescheduling"}

Ways == {"click", "choice", "trouble"}
Budget == [click |-> MaxClicks, choice |-> MaxChoices, trouble |-> MaxTroubles]
Spend(way) == /\ spent[way] < Budget[way]
              /\ spent' = [spent EXCEPT ![way] = @ + 1]

-----------------------------------------------------------------------------
(* The rows of a pair.  Screenings and interviews are kept oldest first;   *)
(* each list the server returns starts with the newest, the one the page   *)
(* picks.  A new interview is dated after the earlier ones.                *)
Nothing == [screenings |-> <<>>, submitted |-> FALSE, feedback |-> FALSE,
            interviews |-> <<>>, selection |-> "none", offer |-> "none",
            joining |-> "none", billed |-> FALSE]

Last(s) == s[Len(s)]
Newest(s) == IF s = <<>> THEN "none" ELSE Last(s)
Has(s, status) == \E i \in DOMAIN s : s[i] = status

RowOf(name, rows) ==
    CASE name = "screening"  -> Newest(rows.screenings)
      [] name = "submission" -> IF rows.submitted THEN "submitted" ELSE "none"
      [] name = "feedback"   -> IF rows.feedback THEN "given" ELSE "none"
      [] name = "interview"  -> Newest(rows.interviews)
      [] name = "selection"  -> rows.selection
      [] name = "offer"      -> rows.offer
      [] name = "joining"    -> rows.joining
      [] name = "billing"    -> IF rows.billed THEN "billed" ELSE "none"

(* What a handler of the server finds before it writes.                    *)
Prerequisite(op, rows) ==
    CASE op = "screening"  -> TRUE
      [] op \in ScreeningUpdates -> rows.screenings # <<>>
      [] op = "submission" -> Has(rows.screenings, "completed")
      [] op = "feedback"   -> rows.submitted
      [] op = "interview"  -> rows.submitted /\ rows.feedback
      [] op \in InterviewUpdates -> rows.interviews # <<>>
      [] op = "selection"  -> Has(rows.interviews, "completed")
      [] op = "offer"      -> rows.selection = "selected"
      [] op \in {"acceptance", "withdrawal"} -> rows.offer # "none"
      [] op \in {"joining", "recording"}     -> rows.offer = "accepted"
      [] op \in {"arrival", "departure"}     -> rows.joining # "none"
      [] op = "billing"    -> rows.joining = "joined"

(* ... and what its unique rows leave room for.                            *)
Room(op, rows) ==
    CASE op = "screening"  -> Len(rows.screenings) < MaxRows
      [] op = "submission" -> ~rows.submitted
      [] op = "interview"  -> ~Has(rows.interviews, "scheduled") /\ Len(rows.interviews) < MaxRows
      [] op = "rescheduling" -> ~Has(rows.interviews, "scheduled")
      [] op = "selection"  -> rows.selection = "none"
      [] op = "offer"      -> rows.offer = "none"
      [] op \in {"joining", "recording"} -> rows.joining = "none"
      [] op = "billing"    -> ~rows.billed
      [] OTHER             -> TRUE

(* The rows after an operation; row is the one a PUT names, decision what  *)
(* a selection says.                                                       *)
Written(op, rows, row, decision) ==
    CASE op = "screening"  -> [rows EXCEPT !.screenings = Append(@, "active")]
      [] op = "closing"    -> [rows EXCEPT !.screenings[row] = "completed"]
      [] op = "rejection"  -> [rows EXCEPT !.screenings[row] = "rejected"]
      [] op = "submission" -> [rows EXCEPT !.submitted = TRUE]
      [] op = "feedback"   -> [rows EXCEPT !.feedback = TRUE]
      [] op = "interview"  -> [rows EXCEPT !.interviews = Append(@, "scheduled")]
      [] op = "completion" -> [rows EXCEPT !.interviews[row] = "completed"]
      [] op = "cancellation" -> [rows EXCEPT !.interviews[row] = "cancelled"]
      [] op = "rescheduling" -> [rows EXCEPT !.interviews[row] = "scheduled"]
      [] op = "selection"  -> [rows EXCEPT !.selection = decision]
      [] op \in {"offer", "withdrawal"} -> [rows EXCEPT !.offer = "created"]
      [] op = "acceptance" -> [rows EXCEPT !.offer = "accepted"]
      [] op \in {"joining", "arrival"} -> [rows EXCEPT !.joining = "joined"]
      [] op \in {"recording", "departure"} -> [rows EXCEPT !.joining = "recorded"]
      [] op = "billing"    -> [rows EXCEPT !.billed = TRUE]

(* A pair that came to a stage without a detour: the rows after the first  *)
(* n of screening, closing, submission, feedback, interview, completion,   *)
(* selection, offer, acceptance, joining and billing.                      *)
Progress(n) ==
    [screenings |-> IF n = 0 THEN <<>> ELSE <<IF n = 1 THEN "active" ELSE "completed">>,
     submitted  |-> n >= 3,
     feedback   |-> n >= 4,
     interviews |-> IF n < 5 THEN <<>> ELSE <<IF n = 5 THEN "scheduled" ELSE "completed">>,
     selection  |-> IF n < 7 THEN "none" ELSE "selected",
     offer      |-> IF n < 8 THEN "none" ELSE IF n = 8 THEN "created" ELSE "accepted",
     joining    |-> IF n < 10 THEN "none" ELSE "joined",
     billed     |-> n >= 11]

Rejected == 12
Histories == [n \in 0 .. Rejected |->
                 IF n = Rejected THEN [Progress(7) EXCEPT !.selection = "rejected"] ELSE Progress(n)]

-----------------------------------------------------------------------------
(* A step of the lifecycle that the rows of a pair say is done, and those  *)
(* that a write takes back.                                                *)
Stands(name, rows) ==
    CASE name = "screening"  -> Has(rows.screenings, "completed")
      [] name = "submission" -> rows.submitted
      [] name = "feedback"   -> rows.feedback
      [] name = "interview"  -> Has(rows.interviews, "completed")
      [] name = "selection"  -> rows.selection # "none"
      [] name = "offer"      -> rows.offer = "accepted"
      [] name = "joining"    -> rows.joining = "joined"
      [] name = "billing"    -> rows.billed
TakenBack(before, after) ==
    {r \in RowNames \cup {"feedback"} : Stands(r, before) /\ ~Stands(r, after)}

Row(p, name, rows, stale) ==
    [of |-> p, is |-> RowOf(name, rows), stale |-> stale,
     id |-> IF name = "interview" THEN Len(rows.interviews) ELSE 0]
Null(p, name) == Row(p, name, Nothing, FALSE)
NoLoad == [at |-> "idle"]
NoClick == [at |-> "idle"]
InFlight(f) == {i \in DOMAIN f : f[i].at # "idle"}

(* loadState is started: setLoading(true) and the seven GETs.  Until its   *)
(* answers are in, it may see any rows the pair has meanwhile.             *)
Started(l, p) == [l EXCEPT ![CHOOSE i \in 1 .. Loads : l[i] = NoLoad] =
                     [at |-> "rows", of |-> p, saw |-> {server[p]}, undone |-> {}]]
CanStart == \E i \in 1 .. Loads : loads[i] = NoLoad

Init ==
    /\ context = "pending"
    /\ server \in [Pairs -> {Histories[n] : n \in 0 .. Rejected}]
    /\ \A p \in Pairs : server[p] \in {Histories[n] : n \in Stages[p]}
    /\ pair \in Pairs \cup {NoPair}       \* from the query string, or nothing
    /\ shown = [r \in RowNames \cup {"feedback"} |-> Null(NoPair, r)]
    /\ loading = (pair # NoPair)
    /\ loads = LET none == [i \in 1 .. Loads |-> NoLoad]
               IN  IF pair = NoPair THEN none ELSE Started(none, pair)
    /\ clicks = [i \in 1 .. Clicks |-> NoClick]
    /\ spent = [w \in Ways |-> 0]

(* The first effect: the lists of the select boxes arrive, or a toast says *)
(* that they do not, and they stay empty.                                  *)
LoadContext ==
    /\ context = "pending"
    /\ \/ context' = "loaded" /\ UNCHANGED spent
       \/ context' = "failed" /\ Spend("trouble")
    /\ UNCHANGED <<pair, shown, loading, loads, clicks, server>>

(* The select boxes offer what the lists have (the cancelled requirements  *)
(* left out).                                                              *)
Choosable == context = "loaded"

(* setCandidateId and setRequirementId, and the effect that loads the new  *)
(* pair.  The rows of the old pair stay on the page until then.            *)
Choose(p) ==
    /\ Choosable
    /\ p # pair
    /\ CanStart
    /\ Spend("choice")
    /\ pair' = p
    /\ loading' = TRUE
    /\ loads' = Started(loads, p)
    /\ UNCHANGED <<context, shown, clicks, server>>

(* All seven answers are in.  Each GET saw the rows the pair had at some   *)
(* moment while it was under way; one that failed gives null, as a row     *)
(* that does not exist.  The answers go to the state in one run of the     *)
(* code, as the rows of the pair the load was started for.                 *)
Answer(load, seen, lost, r) ==
    IF r \in lost THEN Null(load.of, r)
    ELSE IF r \in DOMAIN seen THEN Row(load.of, r, seen[r], r \in load.undone)
    ELSE Row(load.of, r, server[load.of], FALSE)

(* Mutant: rows that are absent are not cleared.                           *)
AppliedMutant(load, seen, lost) ==
    [r \in RowNames \cup {"feedback"} |->
        IF r \in RowNames /\ Answer(load, seen, lost, r).is # "none"
        THEN Answer(load, seen, lost, r) ELSE shown[r]]

Applied(load, seen, lost) ==
    [r \in RowNames \cup {"feedback"} |->
        IF r \in RowNames THEN Answer(load, seen, lost, r) ELSE shown[r]]

Changed(load) == {r \in RowNames : \E rows \in load.saw : RowOf(r, rows) # RowOf(r, server[load.of])}
Loseable == {lost \in SUBSET RowNames : spent["trouble"] + Cardinality(lost) <= MaxTroubles}

(* Without a submission that is the whole load: setLoading(false).         *)
ReadRows(i) ==
    /\ loads[i].at = "rows"
    /\ \E lost \in Loseable, seen \in [Changed(loads[i]) -> loads[i].saw] :
          /\ spent' = [spent EXCEPT !["trouble"] = @ + Cardinality(lost)]
          /\ LET rows == Applied(loads[i], seen, lost)
                 p == loads[i].of
             IN  IF rows["submission"].is # "none"
                 THEN /\ shown' = rows
                      /\ loads' = [loads EXCEPT ![i] =
                                      [at |-> "feedback", of |-> p, saw |-> {server[p]}, undone |-> {}]]
                      /\ UNCHANGED loading
                 ELSE /\ shown' = [rows EXCEPT !["feedback"] = Null(p, "feedback")]
                      /\ loads' = [loads EXCEPT ![i] = NoLoad]
                      /\ loading' = FALSE
    /\ UNCHANGED <<context, pair, clicks, server>>

(* Mutant: a failed GET ends loadState without its finally.                *)
ReadFeedbackMutant(i) ==
    /\ loads[i].at = "feedback"
    /\ \/ /\ \E rows \in loads[i].saw :
                shown' = [shown EXCEPT !["feedback"] = Row(loads[i].of, "feedback", rows, FALSE)]
          /\ loading' = FALSE
          /\ UNCHANGED spent
       \/ Spend("trouble") /\ UNCHANGED <<shown, loading>>
    /\ loads' = [loads EXCEPT ![i] = NoLoad]
    /\ UNCHANGED <<context, pair, clicks, server>>

(* The feedback of that submission; then finally { setLoading(false) }.    *)
ReadFeedback(i) ==
    /\ loads[i].at = "feedback"
    /\ \/ /\ \E rows \in loads[i].saw :
                shown' = [shown EXCEPT !["feedback"] = Row(loads[i].of, "feedback", rows, FALSE)]
          /\ UNCHANGED spent
       \/ /\ shown' = [shown EXCEPT !["feedback"] = Null(loads[i].of, "feedback")]
          /\ Spend("trouble")
    /\ loads' = [loads EXCEPT ![i] = NoLoad]
    /\ loading' = FALSE
    /\ UNCHANGED <<context, pair, clicks, server>>

-----------------------------------------------------------------------------
(* Stages 1 to 3: which button the page renders.                           *)
Is(name, is) == shown[name].is = is
ScreeningCompleted == Is("screening", "completed")
OfferedEarly(op) ==
    \/ op = "screening" /\ ~ScreeningCompleted
    \/ op = "submission" /\ ScreeningCompleted /\ Is("submission", "none")
    \/ op = "feedback" /\ ~Is("submission", "none") /\ Is("feedback", "none")

(* Mutant: any decision opens the offer.                                   *)
OfferedLateMutant(op) ==
    \/ op = "interview" /\ ~Is("feedback", "none") /\ Is("interview", "none")
    \/ op = "completion" /\ ~Is("feedback", "none") /\ shown["interview"].is \notin {"none", "completed"}
    \/ op = "selection" /\ Is("interview", "completed") /\ Is("selection", "none")
    \/ op = "offer" /\ ~Is("selection", "none") /\ Is("offer", "none")
    \/ op = "acceptance" /\ ~Is("selection", "none") /\ Is("offer", "created")
    \/ op = "joining" /\ Is("offer", "accepted") /\ Is("joining", "none")
    \/ op = "billing" /\ Is("joining", "joined") /\ Is("billing", "none")

(* Stages 4 to 8.                                                          *)
OfferedLate(op) ==
    \/ op = "interview" /\ ~Is("feedback", "none") /\ Is("interview", "none")
    \/ op = "completion" /\ ~Is("feedback", "none") /\ shown["interview"].is \notin {"none", "completed"}
    \/ op = "selection" /\ Is("interview", "completed") /\ Is("selection", "none")
    \/ op = "offer" /\ Is("selection", "selected") /\ Is("offer", "none")
    \/ op = "acceptance" /\ Is("selection", "selected") /\ Is("offer", "created")
    \/ op = "joining" /\ Is("offer", "accepted") /\ Is("joining", "none")
    \/ op = "billing" /\ Is("joining", "joined") /\ Is("billing", "none")

(* A submission names the client of the requirement, from the lists.       *)
Ready(op) == op = "submission" => context = "loaded"

(* A click on a button: the request names the chosen pair.  Feedback goes  *)
(* to the submission on the page, and the completion of an interview to    *)
(* the interview on the page, whosever they are.                           *)
(* (Mutant: the submission of the feedback last shown.)                    *)
RowNamedMutant(op) == IF op = "feedback" THEN shown["feedback"].of
                      ELSE IF op = "completion" THEN shown["interview"].of
                      ELSE pair
RowNamed(op) == IF op = "feedback" THEN shown["submission"].of
                ELSE IF op = "completion" THEN shown["interview"].of
                ELSE pair

Click(op) ==
    /\ pair # NoPair
    /\ OfferedEarly(op) \/ OfferedLate(op)
    /\ Ready(op)
    /\ Spend("click")
    /\ \E decision \in (IF op = "selection" THEN {"selected", "rejected"} ELSE {"none"}) :
          LET free == CHOOSE i \in 1 .. Clicks : clicks[i] = NoClick
          IN  /\ \E i \in 1 .. Clicks : clicks[i] = NoClick
              /\ clicks' = [clicks EXCEPT ![free] =
                    [at |-> "sent", op |-> op, of |-> pair, rowOf |-> RowNamed(op),
                     row |-> shown["interview"].id, decision |-> decision]]
    /\ UNCHANGED <<context, pair, shown, loading, loads, server>>

(* The server takes a write: every load under way sees the rows before it  *)
(* or after it; what it takes back is noted.                               *)
Wrote(p, rows) ==
    LET back == TakenBack(server[p], rows)
    IN  /\ server' = [server EXCEPT ![p] = rows]
        /\ loads' = [i \in 1 .. Loads |->
                        IF loads[i].at # "idle" /\ loads[i].of = p
                        THEN [loads[i] EXCEPT !.saw = @ \cup {rows}, !.undone = @ \cup back]
                        ELSE loads[i]]
        /\ shown' = [r \in DOMAIN shown |->
                        IF shown[r].of = p /\ r \in back THEN [shown[r] EXCEPT !.stale = TRUE]
                        ELSE shown[r]]

(* Feedback is written to its submission; an interview is refused when the *)
(* request names another pair than the one it was scheduled for.           *)
Target(c) == IF c.op = "feedback" THEN c.rowOf ELSE c.of
Admitted(c) ==
    /\ c.op = "completion" => c.rowOf = c.of
    /\ c.op # "closing" => Prerequisite(c.op, server[Target(c)]) /\ Room(c.op, server[Target(c)])

Serve(i) ==
    /\ clicks[i].at = "sent"
    /\ LET c == clicks[i]
           rows == server[Target(c)]
       IN  \/ /\ Admitted(c)
              /\ Wrote(Target(c), Written(c.op, rows, c.row, c.decision))
              /\ clicks' = [clicks EXCEPT ![i].at = "done",
                               ![i].row = IF c.op = "screening" THEN Len(rows.screenings) + 1 ELSE @]
           \/ /\ ~Admitted(c) \/ c.op = "screening"   \* the candidate has no slot left
              /\ clicks' = [clicks EXCEPT ![i].at = "refused"]
              /\ UNCHANGED <<server, loads, shown>>
    /\ UNCHANGED <<context, pair, loading, spent>>

(* createScreening goes on with the PUT that completes the new screening.  *)
CloseScreening(i) ==
    /\ clicks[i].at = "done" /\ clicks[i].op = "screening"
    /\ clicks' = [clicks EXCEPT ![i].at = "sent", ![i].op = "closing"]
    /\ UNCHANGED <<context, pair, shown, loading, loads, server, spent>>

(* The answer of a write is followed by refresh, for the pair of the click *)
(* and not for the pair chosen by then.                                    *)
Refresh(i) ==
    /\ clicks[i].at = "done" /\ clicks[i].op # "screening"
    /\ CanStart
    /\ loading' = TRUE
    /\ loads' = Started(loads, clicks[i].of)
    /\ clicks' = [clicks EXCEPT ![i] = NoClick]
    /\ UNCHANGED <<context, pair, shown, server, spent>>

(* A refusal is a toast.  So is a request that does not arrive or an       *)
(* answer that is lost, also when the server has written.                  *)
Toast(i) ==
    /\ \/ clicks[i].at = "refused" /\ UNCHANGED spent
       \/ clicks[i].at \in {"sent", "done"} /\ Spend("trouble")
    /\ clicks' = [clicks EXCEPT ![i] = NoClick]
    /\ UNCHANGED <<context, pair, shown, loading, loads, server>>

(* Another recruiter works on the same pair, forwards or backwards: the    *)
(* updates take any row of the pair.                                       *)
Colleague(p, op) ==
    LET rows == server[p]
        updated == IF op \in ScreeningUpdates THEN DOMAIN rows.screenings
                   ELSE IF op \in InterviewUpdates THEN DOMAIN rows.interviews ELSE {0}
    IN  /\ Prerequisite(op, rows) /\ Room(op, rows)
        /\ Spend("trouble")
        /\ \E row \in updated, decision \in (IF op = "selection" THEN {"selected", "rejected"}
                                              ELSE {"none"}) :
              Wrote(p, Written(op, rows, row, decision))
        /\ UNCHANGED <<context, pair, loading, clicks>>

-----------------------------------------------------------------------------
LoadStep(i) == ReadRows(i) \/ ReadFeedback(i)
ClickStep(i) == Serve(i) \/ CloseScreening(i) \/ Refresh(i) \/ Toast(i)

Next ==
    \/ LoadContext
    \/ \E p \in Pairs : Choose(p)
    \/ \E op \in Operations : Click(op)
    \/ \E i \in 1 .. Loads : LoadStep(i)
    \/ \E i \in 1 .. Clicks : ClickStep(i)
    \/ \E p \in Pairs, op \in Operations \cup {"closing"} \cup Corrections : Colleague(p, op)

Spec == Init /\ [][Next]_vars

(* Every request is answered or fails, and the browser runs the handlers.  *)
(* Nothing makes a user click.                                             *)
FairSpec ==
    /\ Spec
    /\ \A i \in 1 .. Loads : WF_vars(LoadStep(i))
    /\ \A i \in 1 .. Clicks : WF_vars(ClickStep(i))

-----------------------------------------------------------------------------
ShownRow == [of : Pairs \cup {NoPair}, id : 0 .. MaxRows, stale : BOOLEAN,
             is : {"none", "active", "completed", "submitted", "given", "scheduled", "cancelled",
                   "selected", "rejected", "created", "accepted", "recorded", "joined", "billed"}]

TypeOK ==
    /\ context \in {"pending", "loaded", "failed"}
    /\ pair \in Pairs \cup {NoPair}
    /\ shown \in [RowNames \cup {"feedback"} -> ShownRow]
    /\ loading \in BOOLEAN
    /\ \A i \in InFlight(loads) : loads[i].at \in {"rows", "feedback"} /\ loads[i].of \in Pairs
    /\ \A i \in InFlight(clicks) :
          /\ clicks[i].at \in {"sent", "done", "refused"}
          /\ clicks[i].op \in Operations \cup {"closing"}
          /\ clicks[i].of \in Pairs /\ clicks[i].rowOf \in Pairs
    /\ \A w \in Ways : spent[w] \in 0 .. Budget[w]

(* What a row on the page says when its step is done.                      *)
DoneWords(r) ==
    CASE r \in {"screening", "interview"} -> {"completed"}
      [] r = "offer"                      -> {"accepted"}
      [] r = "joining"                    -> {"joined"}
      [] OTHER -> {"submitted", "given", "selected", "rejected", "billed"}
SaysDone(r) == shown[r].is \in DoneWords(r)

(* However many loads of however many pairs overlap, the rows on the page  *)
(* are of one pair (feedback comes later, and may be that of another), and *)
(* nothing is shown as done that the pair it is shown for does not have,   *)
(* unless it was taken back after the load began that brought it: answers  *)
(* may lag behind, but they are not mixed up, and a step that failed is    *)
(* not shown as done.  Decisions are not taken back.                       *)
RowsAreTrue ==
    /\ \A r, s \in RowNames : shown[r].of = shown[s].of
    /\ \A r \in DOMAIN shown :
          shown[r].of # NoPair /\ SaysDone(r) /\ ~shown[r].stale =>
             Stands(r, server[shown[r].of])
    /\ \A p \in Pairs :
          shown["selection"].of = p /\ SaysDone("selection") =>
             server[p].selection = shown["selection"].is

(* "Loading recruitment state..." does not stay on the page, whatever      *)
(* fails or overlaps.                                                      *)
LoadingEnds == loading ~> ~loading

(* The operations a step starts: those of a click that was not there.      *)
Sends(op) == \E i \in 1 .. Clicks : clicks[i] = NoClick /\ clicks'[i] # NoClick
                                     /\ clicks'[i].op = op

(* The row whose step an operation rests on and that can be taken back.    *)
RestsOn == [submission |-> "screening", selection |-> "interview",
            joining |-> "offer", billing |-> "joining"]
Fresh(op) == op \in DOMAIN RestsOn => ~shown[RestsOn[op]].stale

(* While the rows on the page are those of the chosen pair, an operation   *)
(* is only sent when the server has what it needs, also when the page lags *)
(* behind, unless a colleague has taken that step back since the page read *)
(* it: the gates of the eight stages are the prerequisites of the handlers.*)
GatesAreThePrerequisites ==
    [][\A op \in Operations :
          Sends(op) /\ Fresh(op) /\ (\A r \in DOMAIN shown : shown[r].of = pair) =>
             Prerequisite(op, server[pair])]_vars
=============================================================================
