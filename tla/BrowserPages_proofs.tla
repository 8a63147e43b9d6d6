-------------------------- MODULE BrowserPages_proofs --------------------------
(***************************************************************************)
(* Proofs about LifecyclePage, for any number of pairs, loads, operations  *)
(* and other recruiters (types, that what the page shows is true, that its *)
(* gates are the prerequisites of the handlers), and after it about        *)
(* ListPages, in which the names of the two do not meet.                   *)
(*                                                                         *)
(* Rows are not deleted, and a step that is taken back is noted in the     *)
(* loads and on the page (undone, stale): what a load has seen of a pair   *)
(* and was not taken back is true of it however late it is shown.          *)
(***************************************************************************)
EXTENDS LifecyclePage, ListPages, FiniteSetTheorems, SequenceTheorems, TLAPS

Names == RowNames \cup {"feedback"}
Decisions == {"none", "selected", "rejected"}
Progressed == Operations \cup {"closing"} \cup Corrections

ScreeningStatuses == {"active", "completed", "rejected"}
InterviewStatuses == {"scheduled", "completed", "cancelled"}
RowLists == [screenings : Seq(ScreeningStatuses), submitted : BOOLEAN, feedback : BOOLEAN,
             interviews : Seq(InterviewStatuses), selection : Decisions,
             offer : {"none", "created", "accepted"}, joining : {"none", "recorded", "joined"},
             billed : BOOLEAN]

(* Rows a pair can have.                                                   *)
Sound == {rows \in RowLists : (rows.feedback => rows.submitted) /\ Len(rows.interviews) <= MaxRows}

(* b is what became of the rows a: no row was deleted, and what was done   *)
(* still is, the steps "undone" apart.                                     *)
Grows(a, b) ==
    /\ a.submitted => b.submitted
    /\ a.feedback => b.feedback
    /\ a.interviews # <<>> => b.interviews # <<>>
    /\ a.selection # "none" => b.selection = a.selection
    /\ a.offer # "none" => b.offer # "none"
    /\ a.billed => b.billed
Became(a, b, undone) ==
    Grows(a, b) /\ \A r \in Names \ undone : Stands(r, a) => Stands(r, b)

(* What a row of that name may say, and whether it is true of rows.        *)
Says(name) ==
    CASE name = "screening"  -> {"none", "active", "completed", "rejected"}
      [] name = "submission" -> {"none", "submitted"}
      [] name = "feedback"   -> {"none", "given"}
      [] name = "interview"  -> {"none", "scheduled", "completed", "cancelled"}
      [] name = "selection"  -> Decisions
      [] name = "offer"      -> {"none", "created", "accepted"}
      [] name = "joining"    -> {"none", "recorded", "joined"}
      [] name = "billing"    -> {"none", "billed"}

Tells(name, is, rows) ==
    /\ name = "submission" /\ is # "none" => rows.submitted
    /\ name = "feedback" /\ is # "none" => rows.feedback
    /\ name = "interview" /\ is # "none" => rows.interviews # <<>>
    /\ name = "selection" /\ is # "none" => rows.selection = is
    /\ name = "offer" /\ is # "none" => rows.offer # "none"
    /\ name = "billing" /\ is # "none" => rows.billed

-----------------------------------------------------------------------------
(* The inductive invariant: types, that rows under way in a load have      *)
(* become what the server has, that shown rows are true, and that they are *)
(* of one pair.                                                            *)
LoadRecords == [at : {"rows", "feedback"}, of : Pairs, saw : SUBSET Sound, undone : SUBSET Names]
ClickRecords == [at : {"sent", "done", "refused"}, op : Operations \cup {"closing"},
                 of : Pairs, rowOf : Pairs, row : Nat, decision : Decisions]

Types ==
    /\ server \in [Pairs -> Sound]
    /\ loads \in [1 .. Loads -> LoadRecords \cup {NoLoad}]
    /\ clicks \in [1 .. Clicks -> ClickRecords \cup {NoClick}]
    /\ shown \in [Names -> ShownRow]
    /\ context \in {"pending", "loaded", "failed"}
    /\ pair \in Pairs \cup {NoPair}
    /\ loading \in BOOLEAN
    /\ spent \in [Ways -> Nat] /\ \A w \in Ways : spent[w] <= Budget[w]

LoadTrue(l) == l # NoLoad => \A rows \in l.saw : Became(rows, server[l.of], l.undone)
LoadsTrue == \A i \in 1 .. Loads : LoadTrue(loads[i])

RowTrue(r, row) ==
    /\ row.is \in Says(r)
    /\ row.of = NoPair => row.is = "none"
    /\ row.of \in Pairs =>
          /\ Tells(r, row.is, server[row.of])
          /\ ~row.stale /\ row.is \in DoneWords(r) => Stands(r, server[row.of])
ShownTrue == \A r \in Names : RowTrue(r, shown[r])
OnePair == \A r, s \in RowNames : shown[r].of = shown[s].of

PageInv == Types /\ LoadsTrue /\ ShownTrue /\ OnePair

-----------------------------------------------------------------------------
(* Rows *)
(* A sequence of one element, or none.                                     *)
LEMMA Sequenced ==
  ASSUME NEW S, NEW x \in S
  PROVE  <<>> \in Seq(S) /\ Len(<<>>) = 0 /\ <<x>> \in Seq(S) /\ Len(<<x>>) = 1
  OBVIOUS

(* Replacing an element of a sequence, or one it does not have, leaves a   *)
(* sequence of the same length.                                            *)
LEMMA SetAt ==
  ASSUME NEW S, NEW s \in Seq(S), NEW k, NEW v \in S
  PROVE  /\ [s EXCEPT ![k] = v] \in Seq(S)
         /\ Len([s EXCEPT ![k] = v]) = Len(s)
         /\ s # <<>> => [s EXCEPT ![k] = v] # <<>>
<1> DEFINE t == [s EXCEPT ![k] = v]
<1>1. DOMAIN t = 1 .. Len(s) /\ \A i \in 1 .. Len(s) : t[i] \in S
  OBVIOUS
<1>2. t = [i \in 1 .. Len(s) |-> t[i]]
  BY <1>1
<1>3. t \in [1 .. Len(s) -> S]
  BY <1>1, <1>2
<1>4. Len(s) \in Nat
  OBVIOUS
<1>5. t \in Seq(S)
  BY <1>3, <1>4, SeqDef
<1>6. Len(t) = Len(s)
  BY <1>1, <1>4, <1>5
<1> QED
  BY <1>5, <1>6

(* What an operation or a correction writes are rows again, and no row is  *)
(* deleted.                                                                *)
LEMMA WrittenGrows ==
  ASSUME NEW rows \in Sound, NEW op \in Progressed, NEW row, NEW decision \in Decisions,
         op # "closing" => Prerequisite(op, rows) /\ Room(op, rows)
  PROVE  Written(op, rows, row, decision) \in Sound /\ Grows(rows, Written(op, rows, row, decision))
<1> DEFINE w == Written(op, rows, row, decision)
<1>0. /\ rows \in RowLists
      /\ rows.screenings \in Seq(ScreeningStatuses)
      /\ rows.interviews \in Seq(InterviewStatuses)
      /\ rows.feedback => rows.submitted
      /\ Len(rows.interviews) <= MaxRows
  BY DEF Sound, RowLists
<1>1. CASE op \in {"screening"} \cup ScreeningUpdates
  <2>1. PICK new \in Seq(ScreeningStatuses) : w = [rows EXCEPT !.screenings = new]
    <3>1. CASE op = "screening"
      <4>1. Append(rows.screenings, "active") \in Seq(ScreeningStatuses)
        BY <1>0 DEF ScreeningStatuses
      <4> QED
        BY <3>1, <4>1 DEF Written
    <3>2. CASE op = "closing"
      <4>1. [rows.screenings EXCEPT ![row] = "completed"] \in Seq(ScreeningStatuses)
        BY <1>0, SetAt DEF ScreeningStatuses
      <4>2. w = [rows EXCEPT !.screenings = [rows.screenings EXCEPT ![row] = "completed"]]
        BY <3>2 DEF Written
      <4> QED
        BY <4>1, <4>2
    <3>3. CASE op = "rejection"
      <4>1. [rows.screenings EXCEPT ![row] = "rejected"] \in Seq(ScreeningStatuses)
        BY <1>0, SetAt DEF ScreeningStatuses
      <4>2. w = [rows EXCEPT !.screenings = [rows.screenings EXCEPT ![row] = "rejected"]]
        BY <3>3 DEF Written
      <4> QED
        BY <4>1, <4>2
    <3> QED
      BY <1>1, <3>1, <3>2, <3>3 DEF ScreeningUpdates
  <2> HIDE DEF w
  <2>2. w \in RowLists
    BY <1>0, <2>1 DEF RowLists
  <2>3. /\ w.submitted = rows.submitted /\ w.feedback = rows.feedback /\ w.interviews = rows.interviews
        /\ w.selection = rows.selection /\ w.offer = rows.offer /\ w.billed = rows.billed
    BY <1>0, <2>1 DEF RowLists
  <2>4. w \in Sound /\ Grows(rows, w)
    BY <1>0, <2>2, <2>3 DEF Sound, Grows
  <2> QED
    BY <2>4 DEF w
<1>2. CASE op \in {"interview"} \cup InterviewUpdates
  <2>1. PICK new \in Seq(InterviewStatuses) : /\ w = [rows EXCEPT !.interviews = new]
                                              /\ Len(new) <= MaxRows
                                              /\ rows.interviews # <<>> => new # <<>>
    <3>1. CASE op = "interview"
      <4> DEFINE more == Append(rows.interviews, "scheduled")
      <4>1. more \in Seq(InterviewStatuses) /\ Len(more) = Len(rows.interviews) + 1 /\ more # <<>>
        BY <1>0 DEF InterviewStatuses
      <4>2. Len(rows.interviews) < MaxRows /\ Len(rows.interviews) \in Nat /\ MaxRows \in Nat
        BY <1>0, <3>1, CountsAssumption DEF Room
      <4>3. w = [rows EXCEPT !.interviews = more]
        BY <3>1 DEF Written
      <4> HIDE DEF more, w
      <4>4. Len(more) <= MaxRows
        BY <4>1, <4>2
      <4> QED
        BY <4>1, <4>3, <4>4, Zenon
    <3>2. CASE op \in InterviewUpdates
      <4>1. PICK v \in InterviewStatuses :
               w = [rows EXCEPT !.interviews = [rows.interviews EXCEPT ![row] = v]]
        <5>1. CASE op = "completion"
          BY <5>1 DEF Written, InterviewStatuses
        <5>2. CASE op = "cancellation"
          BY <5>2 DEF Written, InterviewStatuses
        <5>3. CASE op = "rescheduling"
          BY <5>3 DEF Written, InterviewStatuses
        <5> QED
          BY <3>2, <5>1, <5>2, <5>3 DEF InterviewUpdates
      <4>2. LET new == [rows.interviews EXCEPT ![row] = v]
            IN  new \in Seq(InterviewStatuses) /\ Len(new) = Len(rows.interviews)
                   /\ (rows.interviews # <<>> => new # <<>>)
        BY <1>0, SetAt
      <4> HIDE DEF w
      <4> QED
        BY <1>0, <4>1, <4>2
    <3> QED
      BY <1>2, <3>1, <3>2
  <2> HIDE DEF w
  <2>2. w \in RowLists
    BY <1>0, <2>1 DEF RowLists
  <2>3. /\ w.interviews = new
        /\ w.submitted = rows.submitted /\ w.feedback = rows.feedback
        /\ w.selection = rows.selection /\ w.offer = rows.offer /\ w.billed = rows.billed
    BY <1>0, <2>1 DEF RowLists
  <2>4. w \in Sound /\ Grows(rows, w)
    BY <1>0, <2>1, <2>2, <2>3 DEF Sound, Grows
  <2> QED
    BY <2>4 DEF w
<1>3. CASE op \in {"submission", "feedback", "billing"}
  BY <1>0, <1>3 DEF Written, Sound, Grows, RowLists, Prerequisite, ScreeningUpdates, InterviewUpdates
<1>4. CASE op \in {"joining", "recording", "arrival", "departure"}
  BY <1>0, <1>4 DEF Written, Sound, Grows, RowLists
<1>5. CASE op \in {"selection", "offer", "acceptance", "withdrawal"}
  BY <1>0, <1>5 DEF Written, Sound, Grows, RowLists, Prerequisite, Room, Decisions,
                    ScreeningUpdates, InterviewUpdates
<1> QED
  BY <1>1, <1>2, <1>3, <1>4, <1>5
  DEF Progressed, Operations, Corrections, ScreeningUpdates, InterviewUpdates

(* What grew on what grew, grew.                                           *)
LEMMA GrowsOn ==
  ASSUME NEW a, NEW b, NEW c, Grows(a, b), Grows(b, c)
  PROVE  Grows(a, c)
  BY DEF Grows

(* Rows have become what they are.                                         *)
LEMMA BecameSelf == ASSUME NEW a, NEW undone PROVE Grows(a, a) /\ Became(a, a, undone)
  BY DEF Grows, Became

(* A write takes back what it takes back, and nothing else.                *)
LEMMA BecameOn ==
  ASSUME NEW a, NEW b, NEW c, NEW undone, NEW u, Became(a, b, undone), Grows(b, c),
         u = undone \cup TakenBack(b, c)
  PROVE  Became(a, c, u)
<1>1. ASSUME NEW r \in Names \ u, Stands(r, a) PROVE Stands(r, c)
  <2>1. r \in Names \ undone /\ r \notin TakenBack(b, c)
    BY <1>1
  <2>2. Stands(r, b)
    BY <1>1, <2>1 DEF Became
  <2> QED
    BY <2>1, <2>2 DEF TakenBack, Names
<1> QED
  BY <1>1, GrowsOn DEF Became

(* What was told of a pair stays true of it.                               *)
LEMMA TellsOn ==
  ASSUME NEW r \in Names, NEW is, NEW a, NEW b, Tells(r, is, a), Grows(a, b)
  PROVE  Tells(r, is, b)
<1>1. r \in {"screening", "submission", "feedback", "interview", "selection", "offer", "joining",
             "billing"}
  BY DEF Names, RowNames
<1> QED
  BY <1>1 DEF Tells, Grows

(* The newest of some rows is one of them.                                 *)
LEMMA NewestIs ==
  ASSUME NEW S, NEW s \in Seq(S)
  PROVE  /\ s = <<>> => Newest(s) = "none"
         /\ s # <<>> => Newest(s) \in S /\ Has(s, Newest(s))
  BY DEF Newest, Last, Has

(* A row of the server tells what the server has.                          *)
LEMMA RowTells ==
  ASSUME NEW r \in Names, NEW a \in Sound
  PROVE  /\ RowOf(r, a) \in Says(r) /\ Tells(r, RowOf(r, a), a)
         /\ RowOf(r, a) \in DoneWords(r) => Stands(r, a)
<1>1. a \in RowLists
  BY DEF Sound
<1>2. r \in {"screening", "submission", "feedback", "interview", "selection", "offer", "joining",
             "billing"}
  BY DEF Names, RowNames
<1>3. CASE r = "screening"
  <2>1. Newest(a.screenings) \in {"none"} \cup ScreeningStatuses
    BY <1>1, NewestIs DEF RowLists
  <2>2. Newest(a.screenings) = "completed" => Has(a.screenings, "completed")
    BY <1>1, NewestIs DEF RowLists
  <2>3. RowOf(r, a) = Newest(a.screenings)
    BY <1>3 DEF RowOf
  <2>4. DoneWords(r) = {"completed"} /\ (Stands(r, a) <=> Has(a.screenings, "completed"))
    BY <1>3 DEF DoneWords, Stands
  <2> QED
    BY <1>3, <2>1, <2>2, <2>3, <2>4 DEF Says, Tells, ScreeningStatuses
<1>4. CASE r = "interview"
  <2>1. Newest(a.interviews) \in {"none"} \cup InterviewStatuses
    BY <1>1, NewestIs DEF RowLists
  <2>2. /\ Newest(a.interviews) = "completed" => Has(a.interviews, "completed")
        /\ Newest(a.interviews) # "none" => a.interviews # <<>>
    BY <1>1, NewestIs DEF RowLists
  <2>3. RowOf(r, a) = Newest(a.interviews)
    BY <1>4 DEF RowOf
  <2>4. DoneWords(r) = {"completed"} /\ (Stands(r, a) <=> Has(a.interviews, "completed"))
    BY <1>4 DEF DoneWords, Stands
  <2> QED
    BY <1>4, <2>1, <2>2, <2>3, <2>4 DEF Says, Tells, InterviewStatuses
<1>5. CASE r \in {"submission", "feedback", "joining", "billing"}
  BY <1>1, <1>5 DEF RowOf, Says, Tells, RowLists, DoneWords, Stands
<1>6. CASE r \in {"selection", "offer"}
  BY <1>1, <1>6 DEF RowOf, Says, Tells, RowLists, Decisions, DoneWords, Stands
<1> QED
  BY <1>2, <1>3, <1>4, <1>5, <1>6

-----------------------------------------------------------------------------
(* Rows on the page *)
LEMMA NothingIs == Nothing \in Sound /\ \A r \in Names : RowOf(r, Nothing) = "none"
<1>1. Nothing \in RowLists /\ Len(Nothing.interviews) = 0
  BY DEF Nothing, RowLists, Decisions, ScreeningStatuses, InterviewStatuses
<1>2. ASSUME NEW r \in Names PROVE RowOf(r, Nothing) = "none"
  BY DEF Names, RowNames, RowOf, Nothing, Newest
<1> QED
  BY <1>1, <1>2, CountsAssumption DEF Sound, Nothing

(* A shown row is one the server's rows give.                              *)
LEMMA RowIs ==
  ASSUME NEW r \in Names, NEW p \in Pairs \cup {NoPair}, NEW rows \in Sound, NEW stale \in BOOLEAN
  PROVE  Row(p, r, rows, stale) \in ShownRow /\ Row(p, r, rows, stale).of = p
            /\ Row(p, r, rows, stale).is = RowOf(r, rows)
            /\ Row(p, r, rows, stale).stale = stale
<1>1. RowOf(r, rows) \in {"none", "active", "completed", "submitted", "given", "scheduled",
                          "cancelled", "selected", "rejected", "created", "accepted", "recorded",
                          "joined", "billed"}
  <2>1. RowOf(r, rows) \in Says(r)
    BY RowTells
  <2>2. r \in {"screening", "submission", "feedback", "interview", "selection", "offer",
               "joining", "billing"}
    BY DEF Names, RowNames
  <2> QED
    BY <2>1, <2>2 DEF Says, Decisions
<1>2. Len(rows.interviews) \in 0 .. MaxRows /\ 0 \in 0 .. MaxRows
  BY CountsAssumption DEF Sound, RowLists
<1> QED
  BY <1>1, <1>2 DEF Row, ShownRow

(* ... also when nothing was taken back.                                   *)
LEMMA FreshRowIs ==
  ASSUME NEW r \in Names, NEW p \in Pairs \cup {NoPair}, NEW rows \in Sound
  PROVE  /\ Row(p, r, rows, FALSE) \in ShownRow /\ Row(p, r, rows, FALSE).of = p
         /\ Row(p, r, rows, FALSE).is = RowOf(r, rows)
<1>1. ASSUME NEW stale \in BOOLEAN, ~stale
      PROVE  /\ Row(p, r, rows, stale) \in ShownRow /\ Row(p, r, rows, stale).of = p
             /\ Row(p, r, rows, stale).is = RowOf(r, rows)
             /\ Row(p, r, rows, stale) = Row(p, r, rows, FALSE)
  BY <1>1, RowIs DEF Row
<1>2. \E stale \in BOOLEAN : ~stale
  OBVIOUS
<1> QED
  BY <1>1, <1>2

(* What the rows of a pair were once is true of it, unless it was taken    *)
(* back, and may be shown.                                                 *)
LEMMA ShowsTrue ==
  ASSUME NEW r \in Names, NEW p \in Pairs, NEW rows \in Sound, NEW undone,
         Became(rows, server[p], undone), NEW row, row.of = p, row.is = RowOf(r, rows),
         r \in undone => row.stale
  PROVE  RowTrue(r, row)
<1>1. /\ RowOf(r, rows) \in Says(r) /\ Tells(r, RowOf(r, rows), rows)
      /\ RowOf(r, rows) \in DoneWords(r) => Stands(r, rows)
  BY RowTells
<1>2. Tells(r, RowOf(r, rows), server[p])
  BY <1>1, TellsOn DEF Became
<1>3. ~row.stale /\ RowOf(r, rows) \in DoneWords(r) => Stands(r, server[p])
  BY <1>1 DEF Became
<1> QED
  BY <1>1, <1>2, <1>3, NoPairAssumption DEF RowTrue

(* An answer that is null is true of any pair.                             *)
LEMMA NullTrue ==
  ASSUME NEW r \in Names, NEW p \in Pairs \cup {NoPair}
  PROVE  Null(p, r) \in ShownRow /\ Null(p, r).of = p /\ RowTrue(r, Null(p, r))
<1>1. Null(p, r) \in ShownRow /\ Null(p, r).of = p /\ Null(p, r).is = "none"
  <2>1. Nothing \in Sound /\ RowOf(r, Nothing) = "none"
    BY NothingIs
  <2>2. /\ Row(p, r, Nothing, FALSE) \in ShownRow /\ Row(p, r, Nothing, FALSE).of = p
        /\ Row(p, r, Nothing, FALSE).is = RowOf(r, Nothing)
    BY <2>1, FreshRowIs
  <2>3. Null(p, r) = Row(p, r, Nothing, FALSE)
    BY Zenon DEF Null
  <2> QED
    BY <2>1, <2>2, <2>3, Zenon
<1>2. "none" \in Says(r)
  BY RowTells, NothingIs
<1>3. ASSUME NEW rows PROVE Tells(r, "none", rows)
  BY DEF Tells
<1>4. "none" \notin DoneWords(r)
  BY DEF DoneWords
<1> QED
  BY <1>1, <1>2, <1>3, <1>4 DEF RowTrue

(* A load that has started saw what the server has.                        *)
LEMMA StartedTrue ==
  ASSUME server \in [Pairs -> Sound], NEW p \in Pairs,
         NEW l \in [1 .. Loads -> LoadRecords \cup {NoLoad}], \A i \in 1 .. Loads : LoadTrue(l[i])
  PROVE  /\ Started(l, p) \in [1 .. Loads -> LoadRecords \cup {NoLoad}]
         /\ \A i \in 1 .. Loads : LoadTrue(Started(l, p)[i])
<1> DEFINE new == [at |-> "rows", of |-> p, saw |-> {server[p]}, undone |-> {}]
           free == CHOOSE i \in 1 .. Loads : l[i] = NoLoad
<1>1. new \in LoadRecords
  BY DEF LoadRecords
<1>2. LoadTrue(new)
  BY BecameSelf DEF LoadTrue
<1>3. Started(l, p) = [l EXCEPT ![free] = new]
  BY DEF Started
<1> HIDE DEF new, free
<1> QED
  BY <1>1, <1>2, <1>3

-----------------------------------------------------------------------------
(* What the actions do *)
(* What is spent stays within its bound.                                   *)
LEMMA SpendOK ==
  ASSUME Types, NEW way \in Ways, Spend(way)
  PROVE  spent' \in [Ways -> Nat] /\ \A w \in Ways : spent'[w] <= Budget[w]
<1>1. Budget[way] \in Nat
  BY CountsAssumption DEF Ways, Budget
<1>2. spent[way] \in Nat /\ spent[way] < Budget[way] /\ spent' = [spent EXCEPT ![way] = spent[way] + 1]
  BY DEF Types, Spend
<1> QED
  BY <1>1, <1>2 DEF Types

(* A write leaves loads and page true.                                     *)
LEMMA WroteTrue ==
  ASSUME Types, LoadsTrue, ShownTrue, OnePair, NEW p \in Pairs, NEW rows \in Sound,
         Grows(server[p], rows), Wrote(p, rows)
  PROVE  /\ server' \in [Pairs -> Sound]
         /\ loads' \in [1 .. Loads -> LoadRecords \cup {NoLoad}]
         /\ shown' \in [Names -> ShownRow]
         /\ LoadsTrue' /\ ShownTrue' /\ OnePair'
<1> DEFINE back == TakenBack(server[p], rows)
<1>1. server' = [server EXCEPT ![p] = rows] /\ back \subseteq Names
  BY DEF Wrote, TakenBack, Names
<1>2. server' \in [Pairs -> Sound]
  BY <1>1 DEF Types
<1>3. \A q \in Pairs : Grows(server[q], server'[q])
  BY <1>1, BecameSelf DEF Types
<1>4. ASSUME NEW i \in 1 .. Loads
      PROVE  /\ loads'[i] \in LoadRecords \cup {NoLoad}
             /\ LoadTrue(loads[i])'
  <2>1. loads'[i] = IF loads[i].at # "idle" /\ loads[i].of = p
                    THEN [loads[i] EXCEPT !.saw = @ \cup {rows}, !.undone = @ \cup back]
                    ELSE loads[i]
    BY DEF Wrote
  <2> HIDE DEF back
  <2>2. CASE loads[i] = NoLoad
    BY <2>1, <2>2 DEF NoLoad, LoadTrue
  <2>3. CASE loads[i] # NoLoad
    <3>1. loads[i] \in LoadRecords
      BY <2>3 DEF Types
    <3>2. loads[i].at # "idle" /\ loads[i].of \in Pairs /\ loads[i].saw \subseteq Sound
          /\ loads[i].undone \subseteq Names
      BY <3>1 DEF LoadRecords
    <3>3. \A a \in loads[i].saw : Became(a, server[loads[i].of], loads[i].undone)
      BY <2>3 DEF LoadsTrue, LoadTrue
    <3>4. CASE loads[i].of = p
      <4> DEFINE u == loads[i].undone \cup back
      <4>1. loads'[i] = [at |-> loads[i].at, of |-> p, saw |-> loads[i].saw \cup {rows}, undone |-> u]
        BY <2>1, <3>1, <3>2, <3>4 DEF LoadRecords
      <4>2. loads'[i] \in LoadRecords
        BY <1>1, <3>1, <3>2, <4>1 DEF LoadRecords
      <4>3. server'[p] = rows
        BY <1>1 DEF Types
      <4>4. \A a \in loads[i].saw : Became(a, rows, u)
        BY <3>3, <3>4, BecameOn DEF back
      <4>5. Became(rows, rows, u)
        BY BecameSelf
      <4> HIDE DEF u
      <4>6. \A a \in loads'[i].saw : Became(a, server'[loads'[i].of], loads'[i].undone)
        BY <4>1, <4>3, <4>4, <4>5
      <4> QED
        BY <4>2, <4>6 DEF LoadTrue
    <3>5. CASE loads[i].of # p
      <4>1. server'[loads[i].of] = server[loads[i].of]
        BY <1>1, <3>2, <3>5 DEF Types
      <4> QED
        BY <2>1, <3>1, <3>3, <3>5, <4>1 DEF LoadTrue
    <3> QED
      BY <3>4, <3>5
  <2> QED
    BY <2>2, <2>3
<1>5. loads' \in [1 .. Loads -> LoadRecords \cup {NoLoad}]
  BY <1>4 DEF Wrote
<1>6. ASSUME NEW r \in Names
      PROVE  shown'[r] \in ShownRow /\ shown'[r].of = shown[r].of /\ RowTrue(r, shown[r])'
  <2> HIDE DEF back
  <2>1. RowTrue(r, shown[r]) /\ shown[r] \in ShownRow
    BY DEF ShownTrue, Types
  <2>2. shown'[r] = IF shown[r].of = p /\ r \in back THEN [shown[r] EXCEPT !.stale = TRUE]
                    ELSE shown[r]
    BY DEF Wrote, Types, back
  <2>3. /\ shown'[r] \in ShownRow /\ shown'[r].of = shown[r].of /\ shown'[r].is = shown[r].is
        /\ shown'[r].stale = (shown[r].stale \/ (shown[r].of = p /\ r \in back))
    BY <2>1, <2>2 DEF ShownRow
  <2>4. shown[r].of \in Pairs => Tells(r, shown[r].is, server'[shown[r].of])
    BY <1>3, <2>1, TellsOn DEF RowTrue
  <2>5. ASSUME shown[r].of \in Pairs, ~shown'[r].stale, shown[r].is \in DoneWords(r)
        PROVE  Stands(r, server'[shown[r].of])
    <3>1. Stands(r, server[shown[r].of])
      BY <2>1, <2>3, <2>5 DEF RowTrue
    <3>2. CASE shown[r].of = p
      <4>1. r \notin TakenBack(server[p], rows)
        BY <2>3, <2>5, <3>2 DEF back
      <4>2. server'[p] = rows
        BY <1>1 DEF Types
      <4> QED
        BY <3>1, <3>2, <4>1, <4>2 DEF TakenBack, Names
    <3>3. CASE shown[r].of # p
      BY <1>1, <2>5, <3>1, <3>3 DEF Types
    <3> QED
      BY <3>2, <3>3
  <2> QED
    BY <2>1, <2>3, <2>4, <2>5 DEF RowTrue
<1>7. shown' \in [Names -> ShownRow]
  BY <1>6 DEF Wrote, Types
<1>8. OnePair'
  BY <1>6 DEF OnePair, Names
<1> QED
  BY <1>2, <1>4, <1>5, <1>6, <1>7, <1>8 DEF LoadsTrue, ShownTrue

(* A load that changes nothing on the server stays true.                   *)
LEMMA LoadsStay ==
  ASSUME LoadsTrue, server' = server, loads' = loads
  PROVE  LoadsTrue'
  BY DEF LoadsTrue, LoadTrue

(* So does a page nobody writes to.                                        *)
LEMMA ShownStays ==
  ASSUME ShownTrue, OnePair, server' = server, shown' = shown
  PROVE  ShownTrue' /\ OnePair'
  BY DEF ShownTrue, RowTrue, OnePair

(* The page begins with nothing, and a load of the pair in its address.    *)
LEMMA PageInit == Init => PageInv
<1> SUFFICES ASSUME Init PROVE PageInv
  OBVIOUS
<1>1. \A n \in 0 .. Rejected : Histories[n] \in Sound
  <2> SUFFICES ASSUME NEW n \in 0 .. Rejected PROVE Histories[n] \in Sound
    OBVIOUS
  <2>1. ASSUME NEW k \in 0 .. Rejected PROVE Progress(k) \in Sound
    <3>1. k \in Nat
      BY DEF Rejected
    <3>2. /\ (IF k = 1 THEN "active" ELSE "completed") \in ScreeningStatuses
          /\ (IF k = 5 THEN "scheduled" ELSE "completed") \in InterviewStatuses
      BY DEF ScreeningStatuses, InterviewStatuses
    <3>3. Progress(k).screenings \in Seq(ScreeningStatuses)
      BY <3>2, Sequenced DEF Progress
    <3>4. Progress(k).interviews \in Seq(InterviewStatuses) /\ Len(Progress(k).interviews) <= 1
      <4>1. CASE k < 5
        BY <4>1, Sequenced DEF Progress
      <4>2. CASE ~(k < 5)
        BY <3>2, <4>2, Sequenced DEF Progress
      <4> QED
        BY <4>1, <4>2
    <3>5. Progress(k) \in RowLists
      BY <3>3, <3>4 DEF Progress, RowLists, Decisions
    <3>6. Progress(k).feedback => Progress(k).submitted
      <4>1. k >= 4 => k >= 3
        BY <3>1
      <4>2. (Progress(k).feedback <=> k >= 4) /\ (Progress(k).submitted <=> k >= 3)
        BY Zenon DEF Progress
      <4> QED
        BY <4>1, <4>2
    <3>7. Len(Progress(k).interviews) <= MaxRows
      BY <3>4, CountsAssumption
    <3> QED
      BY <3>5, <3>6, <3>7 DEF Sound
  <2>2. CASE n = Rejected
    <3>1. 7 \in 0 .. Rejected /\ Histories[n] = [Progress(7) EXCEPT !.selection = "rejected"]
      BY <2>2 DEF Histories, Rejected
    <3>2. Progress(7) \in Sound
      BY <2>1, <3>1
    <3>3. Histories[n] \in RowLists /\ Histories[n].interviews = Progress(7).interviews
             /\ Histories[n].feedback = Progress(7).feedback
             /\ Histories[n].submitted = Progress(7).submitted
      BY <3>1, <3>2 DEF Sound, RowLists, Decisions
    <3> QED
      BY <3>2, <3>3 DEF Sound
  <2>3. CASE n # Rejected
    BY <2>1, <2>3 DEF Histories
  <2> QED
    BY <2>2, <2>3
<1>2. server \in [Pairs -> Sound]
  BY <1>1 DEF Init
<1>3. /\ loads \in [1 .. Loads -> LoadRecords \cup {NoLoad}]
      /\ LoadsTrue
  <2> DEFINE none == [i \in 1 .. Loads |-> NoLoad]
  <2>1. none \in [1 .. Loads -> LoadRecords \cup {NoLoad}] /\ \A i \in 1 .. Loads : LoadTrue(none[i])
    BY DEF LoadTrue
  <2>2. CASE pair = NoPair
    BY <2>1, <2>2 DEF Init, LoadsTrue
  <2>3. CASE pair # NoPair
    <3>1. pair \in Pairs /\ loads = Started(none, pair)
      BY <2>3 DEF Init
    <3> HIDE DEF none
    <3> QED
      BY <1>2, <2>1, <3>1, StartedTrue DEF LoadsTrue
  <2> QED
    BY <2>2, <2>3
<1>4. shown \in [Names -> ShownRow] /\ ShownTrue /\ OnePair
  <2>1. shown = [r \in Names |-> Null(NoPair, r)]
    BY DEF Init, Names
  <2>2. \A r \in Names : Null(NoPair, r) \in ShownRow /\ Null(NoPair, r).of = NoPair
                              /\ RowTrue(r, Null(NoPair, r))
    BY NullTrue
  <2>3. shown \in [Names -> ShownRow] /\ \A r \in Names : shown[r] = Null(NoPair, r)
    BY <2>1, <2>2
  <2> QED
    BY <2>2, <2>3 DEF ShownTrue, OnePair, Names
<1>5. spent \in [Ways -> Nat] /\ \A w \in Ways : spent[w] <= Budget[w]
  BY CountsAssumption DEF Init, Ways, Budget
<1>6. clicks \in [1 .. Clicks -> ClickRecords \cup {NoClick}]
  BY DEF Init
<1>7. context \in {"pending", "loaded", "failed"} /\ pair \in Pairs \cup {NoPair} /\ loading \in BOOLEAN
  BY DEF Init
<1> QED
  BY <1>2, <1>3, <1>4, <1>5, <1>6, <1>7 DEF PageInv, Types

(* The select boxes fill.                                                  *)
LEMMA ContextStep == PageInv /\ LoadContext => PageInv'
<1> SUFFICES ASSUME PageInv, LoadContext PROVE PageInv'
  OBVIOUS
<1>1. spent' \in [Ways -> Nat] /\ \A w \in Ways : spent'[w] <= Budget[w]
  <2>1. CASE Spend("trouble")
    BY <2>1, SpendOK DEF PageInv, Ways
  <2>2. CASE spent' = spent
    BY <2>2 DEF PageInv, Types
  <2> QED
    BY <2>1, <2>2 DEF LoadContext
<1>2. LoadsTrue' /\ ShownTrue' /\ OnePair'
  BY LoadsStay, ShownStays DEF PageInv, LoadContext
<1>3. Types'
  BY <1>1 DEF PageInv, Types, LoadContext
<1> QED
  BY <1>2, <1>3 DEF PageInv

(* Another pair is chosen, and a load for it starts.                       *)
LEMMA ChooseStep == ASSUME PageInv, NEW p \in Pairs, Choose(p) PROVE PageInv'
<1>1. spent' \in [Ways -> Nat] /\ \A w \in Ways : spent'[w] <= Budget[w]
  BY SpendOK DEF PageInv, Ways, Choose
<1>2. /\ loads' \in [1 .. Loads -> LoadRecords \cup {NoLoad}]
      /\ LoadsTrue'
  <2>1. /\ Started(loads, p) \in [1 .. Loads -> LoadRecords \cup {NoLoad}]
        /\ \A i \in 1 .. Loads : LoadTrue(Started(loads, p)[i])
    BY StartedTrue DEF PageInv, Types, LoadsTrue
  <2>2. loads' = Started(loads, p) /\ server' = server
    BY DEF Choose
  <2> QED
    BY <2>1, <2>2 DEF LoadsTrue, LoadTrue
<1>3. ShownTrue' /\ OnePair'
  BY ShownStays DEF PageInv, Choose
<1>4. Types'
  BY <1>1, <1>2 DEF PageInv, Types, Choose
<1> QED
  BY <1>2, <1>3, <1>4 DEF PageInv

(* A handler's answer starts a load of the pair of its click.              *)
LEMMA RefreshStep == ASSUME PageInv, NEW i \in 1 .. Clicks, Refresh(i) PROVE PageInv'
<1>1. clicks[i].of \in Pairs
  BY DEF PageInv, Types, Refresh, ClickRecords, NoClick
<1>2. /\ loads' \in [1 .. Loads -> LoadRecords \cup {NoLoad}]
      /\ LoadsTrue'
  <2>1. /\ Started(loads, clicks[i].of) \in [1 .. Loads -> LoadRecords \cup {NoLoad}]
        /\ \A k \in 1 .. Loads : LoadTrue(Started(loads, clicks[i].of)[k])
    BY <1>1, StartedTrue DEF PageInv, Types, LoadsTrue
  <2>2. loads' = Started(loads, clicks[i].of) /\ server' = server
    BY DEF Refresh
  <2> QED
    BY <2>1, <2>2 DEF LoadsTrue, LoadTrue
<1>3. ShownTrue' /\ OnePair'
  BY ShownStays DEF PageInv, Refresh
<1>4. clicks' \in [1 .. Clicks -> ClickRecords \cup {NoClick}]
  BY DEF PageInv, Types, Refresh
<1>5. Types'
  BY <1>2, <1>4 DEF PageInv, Types, Refresh
<1> QED
  BY <1>2, <1>3, <1>5 DEF PageInv

(* A refusal or a failure leaves a toast.                                  *)
LEMMA ToastStep == ASSUME PageInv, NEW i \in 1 .. Clicks, Toast(i) PROVE PageInv'
<1>1. spent' \in [Ways -> Nat] /\ \A w \in Ways : spent'[w] <= Budget[w]
  <2>1. CASE Spend("trouble")
    BY <2>1, SpendOK DEF PageInv, Ways
  <2>2. CASE spent' = spent
    BY <2>2 DEF PageInv, Types
  <2> QED
    BY <2>1, <2>2 DEF Toast
<1>2. LoadsTrue' /\ ShownTrue' /\ OnePair'
  BY LoadsStay, ShownStays DEF PageInv, Toast
<1>3. clicks' \in [1 .. Clicks -> ClickRecords \cup {NoClick}]
  BY DEF PageInv, Types, Toast
<1>4. Types'
  BY <1>1, <1>3 DEF PageInv, Types, Toast
<1> QED
  BY <1>2, <1>4 DEF PageInv

(* The second request of createScreening.                                  *)
LEMMA CloseStep == ASSUME PageInv, NEW i \in 1 .. Clicks, CloseScreening(i) PROVE PageInv'
<1>1. clicks[i] \in ClickRecords
  BY DEF PageInv, Types, CloseScreening, NoClick
<1>2. clicks' \in [1 .. Clicks -> ClickRecords \cup {NoClick}]
  BY <1>1 DEF PageInv, Types, CloseScreening, ClickRecords
<1>3. LoadsTrue' /\ ShownTrue' /\ OnePair'
  BY LoadsStay, ShownStays DEF PageInv, CloseScreening
<1>4. Types'
  BY <1>2 DEF PageInv, Types, CloseScreening
<1> QED
  BY <1>3, <1>4 DEF PageInv

(* The names of the rows, one by one.                                      *)
LEMMA AllNames ==
    /\ Names = {"screening", "submission", "interview", "selection", "offer", "joining", "billing",
                "feedback"}
    /\ RowNames \subseteq Names
  BY DEF Names, RowNames

(* What the rows on the page say of their pair.                            *)
LEMMA PageSays ==
  ASSUME PageInv, NEW r \in Names
  PROVE  /\ shown[r].of \in Pairs \cup {NoPair} /\ shown[r].id \in Nat
         /\ shown[r].is \in Says(r)
         /\ shown[r].of = NoPair => shown[r].is = "none"
         /\ shown[r].of \in Pairs =>
               /\ Tells(r, shown[r].is, server[shown[r].of])
               /\ ~shown[r].stale /\ shown[r].is \in DoneWords(r) => Stands(r, server[shown[r].of])
<1>1. shown[r] \in ShownRow /\ RowTrue(r, shown[r])
  BY DEF PageInv, Types, ShownTrue
<1> QED
  BY <1>1 DEF ShownRow, RowTrue

(* A click sends a request for the chosen pair and rows that exist.        *)
LEMMA SentStep == ASSUME PageInv, NEW op \in Operations, Click(op) PROVE PageInv'
<1>1. spent' \in [Ways -> Nat] /\ \A w \in Ways : spent'[w] <= Budget[w]
  BY SpendOK DEF PageInv, Ways, Click
<1>2. pair \in Pairs
  BY DEF PageInv, Types, Click
<1>3. RowNamed(op) \in Pairs
  <2>1. CASE op = "feedback"
    <3>1. shown["submission"].is # "none"
      BY <2>1 DEF Click, OfferedEarly, OfferedLate, Is
    <3> QED
      BY <2>1, <3>1, PageSays, AllNames DEF RowNamed
  <2>2. CASE op = "completion"
    <3>1. shown["interview"].is # "none"
      BY <2>2 DEF Click, OfferedEarly, OfferedLate, Is
    <3> QED
      BY <2>2, <3>1, PageSays, AllNames DEF RowNamed
  <2> QED
    BY <1>2, <2>1, <2>2 DEF RowNamed
<1>4. shown["interview"].id \in Nat
  BY PageSays, AllNames
<1>5. clicks' \in [1 .. Clicks -> ClickRecords \cup {NoClick}]
  <2>1. PICK decision \in Decisions, free \in 1 .. Clicks :
             clicks' = [clicks EXCEPT ![free] =
                          [at |-> "sent", op |-> op, of |-> pair, rowOf |-> RowNamed(op),
                           row |-> shown["interview"].id, decision |-> decision]]
    BY DEF Click, Decisions
  <2>2. [at |-> "sent", op |-> op, of |-> pair, rowOf |-> RowNamed(op),
         row |-> shown["interview"].id, decision |-> decision] \in ClickRecords
    BY <1>2, <1>3, <1>4 DEF ClickRecords
  <2> QED
    BY <2>1, <2>2 DEF PageInv, Types
<1>6. LoadsTrue' /\ ShownTrue' /\ OnePair'
  BY LoadsStay, ShownStays DEF PageInv, Click
<1>7. Types'
  BY <1>1, <1>5 DEF PageInv, Types, Click
<1> QED
  BY <1>6, <1>7 DEF PageInv

(* The server writes, or refuses.                                          *)
LEMMA ServeStep == ASSUME PageInv, NEW i \in 1 .. Clicks, Serve(i) PROVE PageInv'
<1> DEFINE c == clicks[i]
           rows == server[Target(c)]
           new == Written(c.op, rows, c.row, c.decision)
<1>1. c \in ClickRecords
  BY DEF PageInv, Types, Serve, NoClick
<1>2. /\ c.op \in Operations \cup {"closing"} /\ c.row \in Nat /\ c.decision \in Decisions
      /\ Target(c) \in Pairs /\ c.of \in Pairs /\ c.rowOf \in Pairs
  BY <1>1 DEF ClickRecords, Target
<1>3. rows \in Sound
  BY <1>2 DEF PageInv, Types
<1>5. CASE /\ Admitted(c) /\ Wrote(Target(c), new)
           /\ clicks' = [clicks EXCEPT ![i].at = "done",
                            ![i].row = IF c.op = "screening" THEN Len(rows.screenings) + 1 ELSE @]
  <2>1. new \in Sound /\ Grows(rows, new)
    <3>1. c.op \in Progressed
      BY <1>2 DEF Progressed
    <3>2. c.op # "closing" => Prerequisite(c.op, rows) /\ Room(c.op, rows)
      BY <1>5 DEF Admitted
    <3> HIDE DEF c, rows
    <3> QED
      BY <1>2, <1>3, <3>1, <3>2, WrittenGrows
  <2>2. /\ server' \in [Pairs -> Sound]
        /\ loads' \in [1 .. Loads -> LoadRecords \cup {NoLoad}]
        /\ shown' \in [Names -> ShownRow]
        /\ LoadsTrue' /\ ShownTrue' /\ OnePair'
    <3>1. Types /\ LoadsTrue /\ ShownTrue /\ OnePair
      BY DEF PageInv
    <3>2. Wrote(Target(c), new) /\ Target(c) \in Pairs /\ Grows(server[Target(c)], new)
      BY <1>2, <1>5, <2>1
    <3> HIDE DEF c, rows, new
    <3> QED
      BY <2>1, <3>1, <3>2, WroteTrue
  <2>3. clicks' \in [1 .. Clicks -> ClickRecords \cup {NoClick}]
    <3>1. Len(rows.screenings) + 1 \in Nat
      BY <1>3 DEF Sound, RowLists
    <3>2. PICK n \in Nat : clicks' = [clicks EXCEPT ![i] = [c EXCEPT !.at = "done", !.row = n]]
      <4>1. CASE c.op = "screening"
        BY <1>5, <3>1, <4>1
      <4>2. CASE c.op # "screening"
        BY <1>2, <1>5, <4>2
      <4> QED
        BY <4>1, <4>2
    <3>3. [c EXCEPT !.at = "done", !.row = n] \in ClickRecords
      BY <1>1 DEF ClickRecords
    <3> QED
      BY <3>2, <3>3 DEF PageInv, Types
  <2>4. Types'
    BY <2>2, <2>3 DEF PageInv, Types, Serve
  <2> QED
    BY <2>2, <2>4 DEF PageInv
<1>6. CASE clicks' = [clicks EXCEPT ![i].at = "refused"] /\ UNCHANGED <<server, loads, shown>>
  <2>1. [c EXCEPT !.at = "refused"] \in ClickRecords
    BY <1>1 DEF ClickRecords
  <2>2. clicks' \in [1 .. Clicks -> ClickRecords \cup {NoClick}]
    BY <1>6, <2>1 DEF PageInv, Types
  <2>3. LoadsTrue' /\ ShownTrue' /\ OnePair'
    BY <1>6, LoadsStay, ShownStays DEF PageInv
  <2>4. Types'
    BY <1>6, <2>2 DEF PageInv, Types, Serve
  <2> QED
    BY <2>3, <2>4 DEF PageInv
<1> QED
  BY <1>5, <1>6 DEF Serve

(* Another recruiter writes.                                               *)
LEMMA ColleagueStep ==
  ASSUME PageInv, NEW p \in Pairs, NEW op \in Progressed, Colleague(p, op)
  PROVE  PageInv'
<1>1. spent' \in [Ways -> Nat] /\ \A w \in Ways : spent'[w] <= Budget[w]
  BY SpendOK DEF PageInv, Ways, Colleague
<1>2. PICK decision \in Decisions : \E row : Wrote(p, Written(op, server[p], row, decision))
  BY DEF Colleague, Decisions
<1>3. PICK row : Wrote(p, Written(op, server[p], row, decision))
  BY <1>2
<1> DEFINE new == Written(op, server[p], row, decision)
<1>4. new \in Sound /\ Grows(server[p], new)
  <2>1. server[p] \in Sound
    BY DEF PageInv, Types
  <2>2. Prerequisite(op, server[p]) /\ Room(op, server[p])
    BY DEF Colleague
  <2> QED
    BY <2>1, <2>2, WrittenGrows
<1>5. /\ server' \in [Pairs -> Sound]
      /\ loads' \in [1 .. Loads -> LoadRecords \cup {NoLoad}]
      /\ shown' \in [Names -> ShownRow]
      /\ LoadsTrue' /\ ShownTrue' /\ OnePair'
  <2>1. Types /\ LoadsTrue /\ ShownTrue /\ OnePair
    BY DEF PageInv
  <2>2. Wrote(p, new)
    BY <1>3
  <2> HIDE DEF new
  <2> QED
    BY <1>4, <2>1, <2>2, WroteTrue
<1>6. Types'
  BY <1>1, <1>5 DEF PageInv, Types, Colleague
<1> QED
  BY <1>5, <1>6 DEF PageInv

(* Finitely many answers can be lost.                                      *)
LEMMA LostCount ==
  ASSUME NEW lost \in SUBSET RowNames
  PROVE  Cardinality(lost) \in Nat
<1> DEFINE s0 == {}
           s1 == s0 \cup {"screening"}
           s2 == s1 \cup {"submission"}
           s3 == s2 \cup {"interview"}
           s4 == s3 \cup {"selection"}
           s5 == s4 \cup {"offer"}
           s6 == s5 \cup {"joining"}
           s7 == s6 \cup {"billing"}
<1>1. RowNames = s7
  BY DEF RowNames
<1>2. IsFiniteSet(s0)
  BY FS_EmptySet
<1> HIDE DEF s0
<1>3. IsFiniteSet(s7)
  <2>1. IsFiniteSet(s1)
    <3> HIDE DEF s0
    <3> QED BY <1>2, FS_AddElement
  <2>2. IsFiniteSet(s2)
    <3> HIDE DEF s1
    <3> QED BY <2>1, FS_AddElement
  <2>3. IsFiniteSet(s3)
    <3> HIDE DEF s2
    <3> QED BY <2>2, FS_AddElement
  <2>4. IsFiniteSet(s4)
    <3> HIDE DEF s3
    <3> QED BY <2>3, FS_AddElement
  <2>5. IsFiniteSet(s5)
    <3> HIDE DEF s4
    <3> QED BY <2>4, FS_AddElement
  <2>6. IsFiniteSet(s6)
    <3> HIDE DEF s5
    <3> QED BY <2>5, FS_AddElement
  <2>7. IsFiniteSet(s7)
    <3> HIDE DEF s6
    <3> QED BY <2>6, FS_AddElement
  <2> QED BY <2>7
<1>4. IsFiniteSet(lost)
  BY <1>1, <1>3, FS_Subset
<1> QED
  BY <1>4, FS_CardinalityType

(* An answer is of the pair the load was started for, and true of it.      *)
LEMMA AnswerTrue ==
  ASSUME PageInv, NEW load \in LoadRecords, LoadTrue(load), NEW lost, NEW r \in RowNames,
         NEW seen \in [Changed(load) -> load.saw]
  PROVE  LET a == Answer(load, seen, lost, r)
         IN  a \in ShownRow /\ a.of = load.of /\ RowTrue(r, a)
<1>1. load.of \in Pairs /\ load.saw \subseteq Sound /\ load.undone \subseteq Names /\ r \in Names
  BY AllNames DEF LoadRecords
<1>2. load # NoLoad
  BY DEF LoadRecords, NoLoad
<1>3. CASE r \in lost
  BY <1>1, <1>3, NullTrue DEF Answer
<1>4. CASE r \notin lost /\ r \in DOMAIN seen
  <2>1. seen[r] \in load.saw
    BY <1>4
  <2>2. seen[r] \in Sound /\ Became(seen[r], server[load.of], load.undone)
    BY <1>1, <1>2, <2>1 DEF LoadTrue
  <2> DEFINE st == r \in load.undone
             a == Row(load.of, r, seen[r], st)
  <2>3. st \in BOOLEAN /\ (r \in load.undone => st)
    OBVIOUS
  <2>6. ~(r \in lost) /\ r \in DOMAIN seen => Answer(load, seen, lost, r) = a
    BY DEF Answer
  <2> HIDE DEF st
  <2>4. /\ a \in ShownRow /\ a.of = load.of /\ a.is = RowOf(r, seen[r])
        /\ r \in load.undone => a.stale
    BY <1>1, <2>2, <2>3, RowIs
  <2> HIDE DEF a
  <2>5. RowTrue(r, a)
    BY <1>1, <2>2, <2>4, ShowsTrue
  <2> QED
    BY <1>4, <2>4, <2>5, <2>6
<1>5. CASE r \notin lost /\ r \notin DOMAIN seen
  <2>1. server[load.of] \in Sound /\ Became(server[load.of], server[load.of], {})
    BY <1>1, BecameSelf DEF PageInv, Types
  <2> DEFINE a == Row(load.of, r, server[load.of], FALSE)
  <2>2. a \in ShownRow /\ a.of = load.of /\ a.is = RowOf(r, server[load.of])
    BY <1>1, <2>1, FreshRowIs
  <2>4. Answer(load, seen, lost, r) = a
    BY <1>5 DEF Answer
  <2> HIDE DEF a
  <2>3. RowTrue(r, a)
    BY <1>1, <2>1, <2>2, ShowsTrue
  <2> QED
    BY <2>2, <2>3, <2>4
<1> QED
  BY <1>3, <1>4, <1>5

(* The rows arrive.                                                        *)
LEMMA RowsStep == ASSUME PageInv, NEW i \in 1 .. Loads, ReadRows(i) PROVE PageInv'
<1> DEFINE load == loads[i]
           none == Null(load.of, "feedback")
           more == [at |-> "feedback", of |-> load.of, saw |-> {server[load.of]}, undone |-> {}]
<1>1. load \in LoadRecords /\ LoadTrue(load)
  BY DEF PageInv, Types, LoadsTrue, ReadRows, NoLoad
<1>2. load.of \in Pairs
  BY <1>1 DEF LoadRecords
<1>3. PICK lost \in Loseable, seen \in [Changed(load) -> load.saw] :
          /\ spent' = [spent EXCEPT !["trouble"] = @ + Cardinality(lost)]
          /\ \/ /\ shown' = Applied(load, seen, lost)
                /\ loads' = [loads EXCEPT ![i] = more]
                /\ loading' = loading
             \/ /\ shown' = [Applied(load, seen, lost) EXCEPT !["feedback"] = none]
                /\ loads' = [loads EXCEPT ![i] = NoLoad]
                /\ loading' = FALSE
  BY DEF ReadRows
<1>4. spent' \in [Ways -> Nat] /\ \A w \in Ways : spent'[w] <= Budget[w]
  <2>1. Cardinality(lost) \in Nat /\ spent["trouble"] + Cardinality(lost) <= MaxTroubles
    BY LostCount DEF Loseable
  <2>2. Budget["trouble"] = MaxTroubles /\ "trouble" \in Ways /\ spent["trouble"] \in Nat
    BY DEF Budget, Ways, PageInv, Types
  <2> QED
    BY <1>3, <2>1, <2>2 DEF PageInv, Types
<1>5. \A r \in RowNames : /\ Answer(load, seen, lost, r) \in ShownRow
                          /\ Answer(load, seen, lost, r).of = load.of
                          /\ RowTrue(r, Answer(load, seen, lost, r))
  BY <1>1, AnswerTrue
<1>6. none \in ShownRow /\ RowTrue("feedback", none)
  BY <1>2, NullTrue, AllNames
<1>7. /\ shown' \in [Names -> ShownRow]
      /\ \A r \in RowNames : shown'[r] = Answer(load, seen, lost, r)
      /\ shown'["feedback"] \in {shown["feedback"], none}
  <2>1. "feedback" \notin RowNames
    BY DEF RowNames
  <2>2. shown["feedback"] \in ShownRow
    BY AllNames DEF PageInv, Types
  <2>3. \A r \in RowNames : Applied(load, seen, lost)[r] = Answer(load, seen, lost, r)
    BY DEF Applied
  <2>4. Applied(load, seen, lost)["feedback"] = shown["feedback"]
    BY <2>1 DEF Applied
  <2>5. Applied(load, seen, lost) = [r \in Names |-> Applied(load, seen, lost)[r]]
    BY DEF Applied, Names
  <2>6. Applied(load, seen, lost) \in [Names -> ShownRow]
    BY <1>5, <2>2, <2>3, <2>4, <2>5 DEF Names
  <2> HIDE DEF load, none
  <2> QED
    BY <1>3, <1>6, <2>1, <2>3, <2>4, <2>6 DEF Names
<1>8. server' = server
  BY DEF ReadRows
<1>9. ShownTrue'
  <2>1. RowTrue("feedback", shown["feedback"])
    BY AllNames DEF PageInv, ShownTrue
  <2>2. \A r \in Names : RowTrue(r, shown'[r])
    BY <1>5, <1>6, <1>7, <2>1 DEF Names
  <2> QED
    BY <1>8, <2>2 DEF ShownTrue, RowTrue
<1>10. OnePair'
  BY <1>5, <1>7 DEF OnePair
<1>11. loads' \in [1 .. Loads -> LoadRecords \cup {NoLoad}] /\ LoadsTrue'
  <2>1. more \in LoadRecords /\ LoadTrue(more)
    BY <1>2, BecameSelf DEF LoadRecords, LoadTrue, PageInv, Types
  <2>2. LoadTrue(NoLoad)
    BY DEF LoadTrue
  <2>3. /\ loads \in [1 .. Loads -> LoadRecords \cup {NoLoad}]
        /\ \A k \in 1 .. Loads : LoadTrue(loads[k])
    BY DEF PageInv, Types, LoadsTrue
  <2>4. PICK l \in {more, NoLoad} : loads' = [loads EXCEPT ![i] = l]
    BY <1>3
  <2> HIDE DEF more
  <2>5. /\ loads' \in [1 .. Loads -> LoadRecords \cup {NoLoad}]
        /\ \A k \in 1 .. Loads : LoadTrue(loads'[k])
    BY <2>1, <2>2, <2>3, <2>4
  <2> QED
    BY <1>8, <2>5 DEF LoadsTrue, LoadTrue
<1>12. loading' \in BOOLEAN
  BY <1>3 DEF PageInv, Types
<1>13. Types'
  BY <1>4, <1>7, <1>8, <1>11, <1>12 DEF PageInv, Types, ReadRows
<1> QED
  BY <1>9, <1>10, <1>11, <1>13 DEF PageInv

(* The feedback arrives.                                                   *)
LEMMA FeedbackStep == ASSUME PageInv, NEW i \in 1 .. Loads, ReadFeedback(i) PROVE PageInv'
<1> DEFINE load == loads[i]
<1>1. load \in LoadRecords /\ LoadTrue(load) /\ load # NoLoad
  BY DEF PageInv, Types, LoadsTrue, ReadFeedback, NoLoad
<1>2. load.of \in Pairs /\ load.saw \subseteq Sound
  BY <1>1 DEF LoadRecords
<1>3. spent' \in [Ways -> Nat] /\ \A w \in Ways : spent'[w] <= Budget[w]
  <2>1. CASE Spend("trouble")
    BY <2>1, SpendOK DEF PageInv, Ways
  <2>2. CASE spent' = spent
    BY <2>2 DEF PageInv, Types
  <2> QED
    BY <2>1, <2>2 DEF ReadFeedback
<1>4. PICK row : /\ shown' = [shown EXCEPT !["feedback"] = row]
                 /\ row \in ShownRow /\ RowTrue("feedback", row)
  <2>1. ASSUME NEW rows \in load.saw
        PROVE  /\ Row(load.of, "feedback", rows, FALSE) \in ShownRow
               /\ RowTrue("feedback", Row(load.of, "feedback", rows, FALSE))
    <3>1. rows \in Sound /\ Became(rows, server[load.of], load.undone)
      BY <1>1, <1>2 DEF LoadTrue
    <3>2. RowTrue("feedback", Row(load.of, "feedback", rows, FALSE))
      <4> DEFINE row == Row(load.of, "feedback", rows, FALSE)
      <4>1. /\ RowOf("feedback", rows) \in Says("feedback")
            /\ Tells("feedback", RowOf("feedback", rows), rows)
        BY <3>1, RowTells, AllNames
      <4>2. Tells("feedback", RowOf("feedback", rows), server[load.of])
        BY <3>1, <4>1, TellsOn, AllNames DEF Became
      <4>3. RowOf("feedback", rows) \in DoneWords("feedback") => Stands("feedback", server[load.of])
        BY <4>2 DEF Tells, DoneWords, Stands
      <4>4. row.of = load.of /\ row.is = RowOf("feedback", rows)
        BY <1>2, <3>1, FreshRowIs, AllNames
      <4> HIDE DEF row
      <4> QED
        BY <1>2, <4>1, <4>2, <4>3, <4>4, NoPairAssumption DEF RowTrue, row
    <3> QED
      BY <1>2, <3>1, <3>2, FreshRowIs, AllNames
  <2>2. /\ Null(load.of, "feedback") \in ShownRow
        /\ RowTrue("feedback", Null(load.of, "feedback"))
    BY <1>2, NullTrue, AllNames
  <2> QED
    BY <2>1, <2>2 DEF ReadFeedback
<1>5. server' = server /\ loads' = [loads EXCEPT ![i] = NoLoad] /\ loading' = FALSE
  BY DEF ReadFeedback
<1>6. shown' \in [Names -> ShownRow]
  BY <1>4 DEF PageInv, Types
<1>7. ShownTrue'
  <2>1. \A r \in Names : RowTrue(r, shown[r])
    BY DEF PageInv, ShownTrue
  <2>2. \A r \in Names : RowTrue(r, shown'[r])
    BY <1>4, <2>1 DEF PageInv, Types
  <2> QED
    BY <1>5, <2>2 DEF ShownTrue, RowTrue
<1>8. OnePair'
  <2>1. \A r \in RowNames : shown'[r] = shown[r]
    BY <1>4 DEF RowNames, PageInv, Types, Names
  <2> QED
    BY <2>1 DEF PageInv, OnePair
<1>9. loads' \in [1 .. Loads -> LoadRecords \cup {NoLoad}] /\ LoadsTrue'
  BY <1>5 DEF PageInv, Types, LoadsTrue, LoadTrue
<1>10. Types'
  BY <1>3, <1>5, <1>6, <1>9 DEF PageInv, Types, ReadFeedback
<1> QED
  BY <1>7, <1>8, <1>9, <1>10 DEF PageInv

(* Every step keeps the invariant.                                         *)
LEMMA PageStep == PageInv /\ [Next]_vars => PageInv'
<1> SUFFICES ASSUME PageInv, [Next]_vars PROVE PageInv'
  OBVIOUS
<1>1. CASE UNCHANGED vars
  BY <1>1 DEF vars, PageInv, Types, LoadsTrue, LoadTrue, ShownTrue, RowTrue, OnePair
<1>2. ASSUME NEW i \in 1 .. Loads, LoadStep(i) PROVE PageInv'
  BY <1>2, RowsStep, FeedbackStep DEF LoadStep
<1>3. ASSUME NEW i \in 1 .. Clicks, ClickStep(i) PROVE PageInv'
  BY <1>3, ServeStep, CloseStep, RefreshStep, ToastStep DEF ClickStep
<1> QED
  BY <1>1, <1>2, <1>3, ContextStep, ChooseStep, SentStep, ColleagueStep DEF Next, Progressed

-----------------------------------------------------------------------------
(* A button is offered only when the server has what its handler needs, or *)
(* had it when the page read it.                                           *)
LEMMA GatesHold ==
  ASSUME PageInv, NEW op \in Operations, OfferedEarly(op) \/ OfferedLate(op), pair # NoPair,
         Fresh(op), \A r \in Names : shown[r].of = pair
  PROVE  Prerequisite(op, server[pair])
<1>1. pair \in Pairs
  BY DEF PageInv, Types
<1>2. ASSUME NEW r \in Names
      PROVE  /\ Tells(r, shown[r].is, server[pair])
             /\ ~shown[r].stale /\ shown[r].is \in DoneWords(r) => Stands(r, server[pair])
  BY <1>1, PageSays
<1>3. server[pair].feedback => server[pair].submitted
  BY <1>1 DEF PageInv, Types, Sound
<1>4. \A r \in {"screening", "submission", "interview", "selection", "offer", "joining", "billing",
                "feedback"} : Tells(r, shown[r].is, server[pair])
  BY <1>2, AllNames
<1>5. CASE op = "submission"
  <2>1. ~shown["screening"].stale /\ shown["screening"].is = "completed"
    BY <1>5 DEF Fresh, RestsOn, OfferedEarly, OfferedLate, ScreeningCompleted, Is
  <2>2. Stands("screening", server[pair])
    <3>1. "screening" \in Names /\ "completed" \in DoneWords("screening")
      BY AllNames DEF DoneWords
    <3> QED
      BY <1>2, <2>1, <3>1
  <2> QED
    BY <1>5, <2>2 DEF Stands, Prerequisite, ScreeningUpdates, InterviewUpdates
<1>6. CASE op = "selection"
  <2>1. ~shown["interview"].stale /\ shown["interview"].is = "completed"
    BY <1>6 DEF Fresh, RestsOn, OfferedEarly, OfferedLate, Is
  <2>2. Stands("interview", server[pair])
    <3>1. "interview" \in Names /\ "completed" \in DoneWords("interview")
      BY AllNames DEF DoneWords
    <3> QED
      BY <1>2, <2>1, <3>1
  <2> QED
    BY <1>6, <2>2 DEF Stands, Prerequisite, ScreeningUpdates, InterviewUpdates
<1>7. CASE op = "joining"
  <2>1. ~shown["offer"].stale /\ shown["offer"].is = "accepted"
    BY <1>7 DEF Fresh, RestsOn, OfferedEarly, OfferedLate, Is
  <2>2. Stands("offer", server[pair])
    <3>1. "offer" \in Names /\ "accepted" \in DoneWords("offer")
      BY AllNames DEF DoneWords
    <3> QED
      BY <1>2, <2>1, <3>1
  <2> QED
    BY <1>7, <2>2 DEF Stands, Prerequisite, ScreeningUpdates, InterviewUpdates
<1>8. CASE op = "billing"
  <2>1. ~shown["joining"].stale /\ shown["joining"].is = "joined"
    BY <1>8 DEF Fresh, RestsOn, OfferedEarly, OfferedLate, Is
  <2>2. Stands("joining", server[pair])
    <3>1. "joining" \in Names /\ "joined" \in DoneWords("joining")
      BY AllNames DEF DoneWords
    <3> QED
      BY <1>2, <2>1, <3>1
  <2> QED
    BY <1>8, <2>2 DEF Stands, Prerequisite, ScreeningUpdates, InterviewUpdates
<1>9. CASE op \in {"screening", "feedback", "interview", "completion", "offer", "acceptance"}
  BY <1>3, <1>4, <1>9 DEF OfferedEarly, OfferedLate, Is, ScreeningCompleted, Tells,
                          Prerequisite, ScreeningUpdates, InterviewUpdates
<1> QED
  BY <1>5, <1>6, <1>7, <1>8, <1>9 DEF Operations

(* The page, its requests and the rows behind it are of their types; among *)
(* it, a request names a pair, and the row of a pair, that was chosen.     *)
THEOREM PageTypes == Spec => []TypeOK
<1>1. PageInv => TypeOK
  <2> SUFFICES ASSUME PageInv PROVE TypeOK
    OBVIOUS
  <2>1. ASSUME NEW i \in InFlight(loads)
        PROVE  loads[i].at \in {"rows", "feedback"} /\ loads[i].of \in Pairs
    BY <2>1 DEF InFlight, PageInv, Types, LoadRecords, NoLoad
  <2>2. ASSUME NEW i \in InFlight(clicks) PROVE clicks[i] \in ClickRecords
    BY <2>2 DEF InFlight, PageInv, Types, NoClick
  <2>3. \A w \in Ways : spent[w] \in 0 .. Budget[w]
    BY CountsAssumption DEF PageInv, Types, Ways, Budget
  <2> QED
    BY <2>1, <2>2, <2>3 DEF TypeOK, PageInv, Types, ClickRecords, Names
<1> QED
  BY <1>1, PageInit, PageStep, PTL DEF Spec

(* However many loads of however many pairs overlap and whoever else       *)
(* writes or corrects rows, the rows on the page are those of one pair,    *)
(* and each step shown as done is done there, unless it was taken back     *)
(* after the load began that brought it.                                   *)
THEOREM PageIsTrue == Spec => []RowsAreTrue
<1>1. PageInv => RowsAreTrue
  <2> SUFFICES ASSUME PageInv PROVE RowsAreTrue
    OBVIOUS
  <2>1. ASSUME NEW r \in Names, shown[r].of # NoPair, SaysDone(r), ~shown[r].stale
        PROVE  Stands(r, server[shown[r].of])
    BY <2>1, PageSays DEF SaysDone
  <2>2. ASSUME NEW p \in Pairs, shown["selection"].of = p, SaysDone("selection")
        PROVE  server[p].selection = shown["selection"].is
    <3>1. Tells("selection", shown["selection"].is, server[p])
      BY <2>2, PageSays, AllNames
    <3>2. shown["selection"].is # "none"
      BY <2>2 DEF SaysDone, DoneWords
    <3> QED
      BY <3>1, <3>2 DEF Tells
  <2>3. DOMAIN shown = Names /\ \A r, s \in RowNames : shown[r].of = shown[s].of
    BY DEF PageInv, Types, OnePair
  <2> QED
    BY <2>1, <2>2, <2>3 DEF RowsAreTrue
<1> QED
  BY <1>1, PageInit, PageStep, PTL DEF Spec

(* While all rows on the page are those of the chosen pair, a click sends  *)
(* an operation only when the server has what its handler checks, unless a *)
(* colleague has taken the step it rests on back since the page read it.   *)
THEOREM GatesArePrerequisites == Spec => GatesAreThePrerequisites
<1> DEFINE Gated == \A op \in Operations :
               Sends(op) /\ Fresh(op) /\ (\A r \in DOMAIN shown : shown[r].of = pair) =>
                  Prerequisite(op, server[pair])
<1>1. PageInv /\ [Next]_vars => Gated
  <2> SUFFICES ASSUME PageInv, [Next]_vars, NEW op \in Operations, Sends(op), Fresh(op),
                      \A r \in DOMAIN shown : shown[r].of = pair
               PROVE  Prerequisite(op, server[pair])
    OBVIOUS
  <2>1. PICK i \in 1 .. Clicks : clicks[i] = NoClick /\ clicks'[i] # NoClick /\ clicks'[i].op = op
    BY DEF Sends
  <2>2. PICK o \in Operations : Click(o)
    <3>1. ASSUME NEW k \in 1 .. Clicks, ClickStep(k) PROVE FALSE
      <4>1. clicks[k].at # "idle"
        BY <3>1 DEF ClickStep, Serve, CloseScreening, Refresh, Toast
      <4>2. k # i
        BY <2>1, <4>1 DEF NoClick
      <4>3. clicks'[i] = clicks[i]
        BY <3>1, <4>2 DEF ClickStep, Serve, CloseScreening, Refresh, Toast, PageInv, Types
      <4> QED
        BY <2>1, <4>3
    <3>2. clicks' # clicks
      BY <2>1
    <3> QED
      BY <3>1, <3>2
      DEF Next, vars, LoadContext, Choose, LoadStep, ReadRows, ReadFeedback, Colleague
  <2>3. o = op
    <3> DEFINE free == CHOOSE k \in 1 .. Clicks : clicks[k] = NoClick
    <3>1. PICK decision : clicks' = [clicks EXCEPT ![free] =
                    [at |-> "sent", op |-> o, of |-> pair, rowOf |-> RowNamed(o),
                     row |-> shown["interview"].id, decision |-> decision]]
      BY <2>2 DEF Click
    <3>2. i = free
      BY <2>1, <3>1
    <3>3. clicks'[i].op = o
      BY <3>1, <3>2 DEF PageInv, Types
    <3> QED
      BY <2>1, <3>3
  <2>4. DOMAIN shown = Names
    BY DEF PageInv, Types
  <2> QED
    BY <2>2, <2>3, <2>4, GatesHold DEF Click
<1>2. PageInv /\ [Next]_vars => [Gated]_vars
  BY <1>1
<1> QED
  BY <1>2, PageInit, PageStep, PTL DEF Spec, GatesAreThePrerequisites

-----------------------------------------------------------------------------
(* ListPages: the dashboard, the lists and the forms, in a tab of their    *)
(* own.                                                                    *)
TabOK ==
    /\ page \in Pages \cup {"blank"}
    /\ search \in BOOLEAN /\ filled \in BOOLEAN
    /\ options \subseteq {"candidates", "requirements"}

(* What a success has told of, an entry has and a request may bring is on  *)
(* the server, whose lists only grow.                                      *)
ListedOK ==
    /\ listed \in [Lists -> 0 .. MaxListed] /\ told \in [Lists -> 0 .. MaxListed]
    /\ \A l \in Lists : told[l] <= listed[l]
CacheOK ==
    /\ cache \in [Keys -> [kind : Kinds, n : 0 .. MaxListed, fresh : BOOLEAN, failed : BOOLEAN]]
    /\ \A k \in Keys : /\ cache[k].n <= listed[ListOf(k)]
                       /\ cache[k].kind = "none" => cache[k].n = 0
FetchingOK ==
    /\ fetching \in [Keys -> [kind : Kinds, since : 0 .. MaxListed]]
    /\ \A k \in Keys : /\ fetching[k].since <= listed[ListOf(k)]
                       /\ fetching[k].kind = "none" => fetching[k] = NoFetch

(* Every post has cost a choice, and is of the form on the page or left.   *)
PostsOK ==
    /\ posts \in [Lists -> Nat] /\ left \in [Lists -> Nat]
    /\ choices \in 0 .. MaxEvents
    /\ \A l \in Lists : posts[l] + left[l] <= choices
    /\ \A l \in Lists : posts[l] > 0 => page = Form[l]
    /\ posts["requirements"] <= 1 /\ posts["clients"] <= 1

ListsInv == TabOK /\ ListedOK /\ CacheOK /\ FetchingOK /\ PostsOK

(* Each key is of a list.                                                  *)
LEMMA KeysOf ==
    /\ Lists = {"candidates", "requirements", "interviews", "clients"}
    /\ Lists \subseteq Keys
    /\ \A k \in Keys : ListOf(k) \in Lists
  BY DEF Lists, Keys, ListOf

(* The pages are told apart by name.                                       *)
LEMMA FormPages ==
    /\ \A l \in Lists : /\ Form[l] \in Pages
                        /\ Form[l] \notin Lists \cup {"dashboard", "blank"}
    /\ Lists \subseteq Pages
    /\ \A l, m \in Lists : Form[l] = Form[m] => l = m
  BY DEF Lists, Form, Pages

(* A render leaves the page or takes it away, and never one with a form.   *)
LEMMA RenderedIs ==
  ASSUME NEW p, NEW c, NEW s
  PROVE  /\ Rendered(p, c, s) \in {p, "blank"}
         /\ \A l \in Lists : p = Form[l] => Rendered(p, c, s) = p
<1>1. Rendered(p, c, s) \in {p, "blank"}
  BY DEF Rendered
<1>2. p \notin {"interviews", "requirements"} => Rendered(p, c, s) = p
  BY DEF Rendered
<1> QED
  BY <1>1, <1>2, FormPages, KeysOf

(* Entries and requests stay good while lists grow.                        *)
LEMMA KeptWhileGrowing ==
  ASSUME ListedOK, listed' \in [Lists -> 0 .. MaxListed],
         \A l \in Lists : listed[l] <= listed'[l]
  PROVE  /\ CacheOK /\ cache' = cache => CacheOK'
         /\ FetchingOK /\ fetching' = fetching => FetchingOK'
<1>1. ASSUME NEW k \in Keys, NEW n \in 0 .. MaxListed, n <= listed[ListOf(k)]
      PROVE  n <= listed'[ListOf(k)]
  BY <1>1, KeysOf, ListsAssumption DEF ListedOK
<1>2. ASSUME CacheOK, cache' = cache PROVE CacheOK'
  BY <1>1, <1>2 DEF CacheOK
<1>3. ASSUME FetchingOK, fetching' = fetching PROVE FetchingOK'
  BY <1>1, <1>3 DEF FetchingOK
<1> QED
  BY <1>2, <1>3

(* What a page asks for begins with the rows of this moment.               *)
LEMMA AsksOK ==
  ASSUME ListedOK, FetchingOK, NEW p
  PROVE  /\ Asks(p, fetching) \in [Keys -> [kind : Kinds, since : 0 .. MaxListed]]
         /\ \A k \in Keys :
               /\ Asks(p, fetching)[k].since <= listed[ListOf(k)]
               /\ Asks(p, fetching)[k].kind = "none" => Asks(p, fetching)[k] = NoFetch
<1>1. Stored(p) \in Kinds \ {"none"}
  BY DEF Stored, Kinds
<1>2. ASSUME NEW k \in Keys
      PROVE  /\ [kind |-> Stored(p), since |-> listed[ListOf(k)]]
                   \in [kind : Kinds, since : 0 .. MaxListed]
             /\ [kind |-> Stored(p), since |-> listed[ListOf(k)]].kind # "none"
             /\ listed[ListOf(k)] <= listed[ListOf(k)]
  BY <1>1, KeysOf, ListsAssumption DEF ListedOK
<1> QED
  BY <1>2 DEF Asks, FetchingOK

(* The beginning: the dashboard asks for its numbers.                      *)
LEMMA ListsStart == ListsInit => ListsInv
<1> SUFFICES ASSUME ListsInit PROVE ListsInv
  OBVIOUS
<1>1. TabOK
  BY DEF ListsInit, TabOK, Pages
<1>2. ListedOK /\ \A l \in Lists : listed[l] = 1
  BY ListsAssumption DEF ListsInit, ListedOK
<1>3. CacheOK
  <2>1. NoData \in [kind : Kinds, n : 0 .. MaxListed, fresh : BOOLEAN, failed : BOOLEAN]
        /\ NoData.n = 0
    BY ListsAssumption DEF NoData, Kinds
  <2> QED
    BY <1>2, <2>1, KeysOf DEF ListsInit, CacheOK
<1>4. FetchingOK
  <2>1. ASSUME NEW k \in Keys
        PROVE  /\ fetching[k] \in [kind : Kinds, since : 0 .. MaxListed]
               /\ fetching[k].since <= listed[ListOf(k)]
               /\ fetching[k].kind = "none" => fetching[k] = NoFetch
    <3>1. CASE k \in Counted
      <4>1. fetching[k] = [kind |-> "response", since |-> listed[k]]
        BY <3>1 DEF ListsInit
      <4>2. k \in Lists /\ ListOf(k) = k
        BY <3>1 DEF Counted, Lists, ListOf
      <4> QED
        BY <1>2, <4>1, <4>2, ListsAssumption DEF Kinds
    <3>2. CASE k \notin Counted
      <4>1. fetching[k] = NoFetch
        BY <3>2 DEF ListsInit
      <4> QED
        BY <1>2, <4>1, KeysOf, ListsAssumption DEF Kinds, NoFetch
    <3> QED
      BY <3>1, <3>2
  <2>2. fetching = [k \in Keys |-> fetching[k]]
    BY DEF ListsInit
  <2> QED
    BY <2>1, <2>2 DEF FetchingOK
<1>5. PostsOK
  BY ListsAssumption, KeysOf DEF ListsInit, PostsOK
<1> QED
  BY <1>1, <1>2, <1>3, <1>4, <1>5 DEF ListsInv

(* A page that is shown begins anew.                                       *)
LEMMA MountOK ==
  ASSUME ListsInv, NEW p \in Pages, Mount(p),
         listed' \in [Lists -> 0 .. MaxListed], \A l \in Lists : listed[l] <= listed'[l]
  PROVE  TabOK' /\ CacheOK' /\ FetchingOK' /\ filled' = FALSE
<1>1. page' \in {p, "blank"} /\ search' = FALSE /\ options' = {} /\ filled' = FALSE
  BY RenderedIs DEF Mount
<1>2. TabOK'
  BY <1>1 DEF TabOK
<1>3. CacheOK'
  BY KeptWhileGrowing DEF ListsInv, Mount
<1>4. FetchingOK'
  <2>1. CASE fetching' = fetching
    BY <2>1, KeptWhileGrowing DEF ListsInv
  <2>2. CASE fetching' = Asks(p, fetching)
    <3>1. /\ fetching' \in [Keys -> [kind : Kinds, since : 0 .. MaxListed]]
          /\ \A k \in Keys : /\ fetching'[k].since <= listed[ListOf(k)]
                             /\ fetching'[k].kind = "none" => fetching'[k] = NoFetch
      BY <2>2, AsksOK DEF ListsInv
    <3>2. ASSUME NEW k \in Keys PROVE fetching'[k].since <= listed'[ListOf(k)]
      <4>1. /\ fetching'[k].since \in 0 .. MaxListed /\ fetching'[k].since <= listed[ListOf(k)]
            /\ ListOf(k) \in Lists
        BY <3>1, KeysOf
      <4>2. /\ listed[ListOf(k)] \in 0 .. MaxListed /\ listed'[ListOf(k)] \in 0 .. MaxListed
            /\ listed[ListOf(k)] <= listed'[ListOf(k)]
        BY <4>1 DEF ListsInv, ListedOK
      <4> QED
        BY <4>1, <4>2, ListsAssumption
    <3> QED
      BY <3>1, <3>2 DEF FetchingOK
  <2>3. fetching' = fetching \/ fetching' = Asks(p, fetching)
    <3>1. page' # "blank" => page' = p
      BY <1>1
    <3> QED
      BY <3>1 DEF Mount
  <2> QED
    BY <2>1, <2>2, <2>3
<1> QED
  BY <1>1, <1>2, <1>3, <1>4

(* A choice is counted.                                                    *)
LEMMA ChoiceCounts ==
  ASSUME PostsOK, Choice
  PROVE  choices' \in 0 .. MaxEvents /\ choices' = choices + 1 /\ choices \in Nat /\ choices' \in Nat
  BY ListsAssumption DEF PostsOK, Choice

(* Without a change of the posts, only a page that stays may have them.    *)
LEMMA PostsStay ==
  ASSUME PostsOK, posts' = posts, left' = left, choices' = choices \/ Choice,
         \A l \in Lists : page = Form[l] => page' = page
  PROVE  PostsOK'
<1>1. choices' \in 0 .. MaxEvents /\ choices' \in Nat /\ choices \in Nat /\ choices <= choices'
  <2>1. CASE Choice
    BY <2>1, ChoiceCounts
  <2>2. CASE choices' = choices
    BY <2>2, ListsAssumption DEF PostsOK
  <2> QED
    BY <2>1, <2>2
<1>2. \A l \in Lists : posts'[l] + left'[l] <= choices'
  BY <1>1 DEF PostsOK
<1>3. \A l \in Lists : posts'[l] > 0 => page' = Form[l]
  BY DEF PostsOK
<1> QED
  BY <1>1, <1>2, <1>3 DEF PostsOK

(* The posts of a form that is left go on without it.                      *)
LEMMA PostsLeft ==
  ASSUME PostsOK, choices' \in 0 .. MaxEvents, choices <= choices', NEW k \in {0, 1}, NEW m,
         m \in Lists /\ k = 1 => posts[m] + left[m] > 0,
         left' = [l \in Lists |-> left[l] + posts[l] - (IF l = m THEN k ELSE 0)],
         posts' = [l \in Lists |-> 0]
  PROVE  PostsOK'
<1>1. ASSUME NEW l \in Lists
      PROVE  left'[l] \in Nat /\ posts'[l] = 0 /\ posts'[l] + left'[l] <= choices'
  <2>1. posts[l] \in Nat /\ left[l] \in Nat /\ posts[l] + left[l] <= choices
           /\ choices \in Nat /\ choices' \in Nat
    BY ListsAssumption DEF PostsOK
  <2>2. posts'[l] = 0
    OBVIOUS
  <2>3. CASE l = m
    <3>1. left'[l] = left[l] + posts[l] - k
      BY <2>3
    <3>2. k = 1 => posts[l] + left[l] > 0
      BY <2>3
    <3> QED
      BY <2>1, <2>2, <3>1, <3>2
  <2>4. CASE l # m
    <3>1. left'[l] = left[l] + posts[l] - 0
      BY <2>4
    <3> QED
      BY <2>1, <2>2, <3>1
  <2> QED
    BY <2>3, <2>4
<1>2. left' \in [Lists -> Nat] /\ posts' \in [Lists -> Nat]
  BY <1>1
<1>3. posts'["requirements"] = 0 /\ posts'["clients"] = 0
  BY <1>1, KeysOf
<1> QED
  BY <1>1, <1>2, <1>3 DEF PostsOK

(* Links.                                                                  *)
LEMMA OpenStep == ASSUME ListsInv, NEW p \in Pages, Open(p) PROVE ListsInv'
<1>1. ListedOK'
  BY DEF ListsInv, ListedOK, Open
<1>2. TabOK' /\ CacheOK' /\ FetchingOK'
  <2>1. listed' = listed /\ Mount(p)
    BY DEF Open
  <2>2. listed' \in [Lists -> 0 .. MaxListed] /\ \A l \in Lists : listed[l] <= listed'[l]
    BY <2>1, ListsAssumption DEF ListsInv, ListedOK
  <2> QED
    BY <2>1, <2>2, MountOK
<1>3. PostsOK'
  <2>1. PostsOK /\ Choice
    BY DEF ListsInv, Open
  <2>2. choices' \in 0 .. MaxEvents /\ choices <= choices'
    BY <2>1, ChoiceCounts
  <2>3. posts \in [Lists -> Nat] /\ left \in [Lists -> Nat]
    BY <2>1 DEF PostsOK
  <2>4. left' = [l \in Lists |-> left[l] + posts[l] - (IF l = 0 THEN 0 ELSE 0)]
    <3>1. ASSUME NEW l \in Lists
          PROVE  left[l] + posts[l] = left[l] + posts[l] - (IF l = 0 THEN 0 ELSE 0)
      BY <2>3
    <3> QED
      BY <3>1 DEF Open
  <2>5. posts' = [l \in Lists |-> 0]
    BY DEF Open
  <2>6. 0 \in {0, 1} /\ (0 \in Lists /\ 0 = 1 => posts[0] + left[0] > 0)
    OBVIOUS
  <2> QED
    BY <2>1, <2>2, <2>4, <2>5, <2>6, PostsLeft
<1> QED
  BY <1>1, <1>2, <1>3 DEF ListsInv

(* A reload empties the tab.                                               *)
LEMMA ReloadStep == ASSUME ListsInv, Reload PROVE ListsInv'
<1>1. ListedOK' /\ listed' = listed
  BY DEF ListsInv, ListedOK, Reload
<1>2. TabOK'
  <2>1. page' \in Pages
    BY FormPages, KeysOf DEF ListsInv, TabOK, Reload
  <2> QED
    BY <2>1 DEF TabOK, Reload
<1>3. CacheOK'
  <2>1. NoData \in [kind : Kinds, n : 0 .. MaxListed, fresh : BOOLEAN, failed : BOOLEAN]
        /\ NoData.n = 0
    BY ListsAssumption DEF NoData, Kinds
  <2>2. \A k \in Keys : 0 <= listed[ListOf(k)]
    BY KeysOf DEF ListsInv, ListedOK
  <2> QED
    BY <1>1, <2>1, <2>2 DEF Reload, CacheOK
<1>4. FetchingOK'
  <2>1. ASSUME NEW k \in Keys
        PROVE  /\ fetching'[k] \in [kind : Kinds, since : 0 .. MaxListed]
               /\ fetching'[k].since <= listed[ListOf(k)]
               /\ fetching'[k].kind = "none" => fetching'[k] = NoFetch
    <3>1. Stored(page') \in Kinds \ {"none"}
      BY DEF Stored, Kinds
    <3>2. listed[ListOf(k)] \in 0 .. MaxListed
      BY KeysOf DEF ListsInv, ListedOK
    <3>3. fetching'[k] = IF k \in Queries(page')
                         THEN [kind |-> Stored(page'), since |-> listed[ListOf(k)]]
                         ELSE NoFetch
      BY DEF Reload
    <3>4. "none" \in Kinds
      BY DEF Kinds
    <3>5. CASE k \in Queries(page')
      <4>1. fetching'[k] = [kind |-> Stored(page'), since |-> listed[ListOf(k)]]
        BY <3>3, <3>5
      <4> QED
        BY <3>1, <3>2, <4>1, ListsAssumption
    <3>6. CASE k \notin Queries(page')
      <4>1. fetching'[k] = NoFetch
        BY <3>3, <3>6
      <4> QED
        BY <3>2, <3>4, <4>1, ListsAssumption DEF NoFetch
    <3> QED
      BY <3>5, <3>6
  <2>2. fetching' = [k \in Keys |-> fetching'[k]]
    BY DEF Reload
  <2> QED
    BY <1>1, <2>1, <2>2 DEF FetchingOK
<1>5. PostsOK'
  <2>1. choices' \in 0 .. MaxEvents /\ choices' \in Nat
    BY ChoiceCounts DEF ListsInv, Reload
  <2>2. posts' = [l \in Lists |-> 0] /\ left' = [l \in Lists |-> 0]
    BY DEF Reload
  <2>3. \A l \in Lists : posts'[l] = 0 /\ left'[l] = 0
    BY <2>2
  <2> QED
    BY <2>1, <2>2, <2>3, KeysOf DEF PostsOK
<1> QED
  BY <1>1, <1>2, <1>3, <1>4, <1>5 DEF ListsInv

(* A filter.                                                               *)
LEMMA SearchStep == ASSUME ListsInv, Search PROVE ListsInv'
<1>1. page' \in {page, "blank"} /\ \A l \in Lists : page = Form[l] => page' = page
  <2>1. page' = Rendered(page, cache, TRUE)
    BY DEF Search
  <2> QED
    BY <2>1, RenderedIs
<1>2. TabOK'
  BY <1>1 DEF ListsInv, TabOK, Search
<1>3. PostsOK'
  BY <1>1, PostsStay DEF ListsInv, Search, forms
<1>4. ListedOK' /\ CacheOK' /\ FetchingOK'
  BY DEF ListsInv, ListedOK, CacheOK, FetchingOK, Search, forms, queries
<1> QED
  BY <1>2, <1>3, <1>4 DEF ListsInv

(* What is stored under a key is what the server had, or less.             *)
LEMMA StoreStep ==
  ASSUME ListsInv, NEW k \in Keys, NEW d, Store(k, d), choices' = choices \/ Choice,
         d \in [kind : Kinds, n : 0 .. MaxListed, fresh : BOOLEAN, failed : BOOLEAN],
         d.n <= listed[ListOf(k)], d.kind = "none" => d.n = 0
  PROVE  ListsInv'
<1>1. page' \in {page, "blank"} /\ \A l \in Lists : page = Form[l] => page' = page
  BY RenderedIs DEF Store
<1>2. TabOK'
  BY <1>1 DEF ListsInv, TabOK, Store
<1>3. PostsOK'
  BY <1>1, PostsStay DEF ListsInv, Store, forms
<1>4. ListedOK' /\ listed' = listed
  BY DEF ListsInv, ListedOK, Store, forms
<1>5. CacheOK'
  <2>1. cache' = [cache EXCEPT ![k] = d]
    BY DEF Store
  <2> QED
    BY <1>4, <2>1 DEF ListsInv, CacheOK
<1>6. FetchingOK'
  <2>1. fetching' = [fetching EXCEPT ![k] = NoFetch]
    BY DEF Store
  <2>2. NoFetch \in [kind : Kinds, since : 0 .. MaxListed] /\ NoFetch.since = 0
    BY ListsAssumption DEF Kinds, NoFetch
  <2>3. 0 <= listed[ListOf(k)]
    BY KeysOf DEF ListsInv, ListedOK
  <2> QED
    BY <1>4, <2>1, <2>2, <2>3 DEF ListsInv, FetchingOK
<1> QED
  BY <1>2, <1>3, <1>4, <1>5, <1>6 DEF ListsInv

(* A request that is under way is one of a page.                           *)
LEMMA Asked ==
  ASSUME FetchingOK, NEW k \in Keys, fetching[k] # NoFetch
  PROVE  fetching[k].kind # "none"
  BY DEF FetchingOK

(* An answer is of some moment since it was asked.                         *)
LEMMA AnswerStep == ASSUME ListsInv, NEW k \in Keys, ListAnswer(k) PROVE ListsInv'
<1>1. PICK n \in fetching[k].since .. listed[ListOf(k)] :
          Store(k, [kind |-> fetching[k].kind, n |-> n, fresh |-> TRUE, failed |-> FALSE])
  BY DEF ListAnswer
<1>2. /\ fetching[k].since \in 0 .. MaxListed /\ fetching[k].kind \in Kinds
      /\ listed[ListOf(k)] \in 0 .. MaxListed
      /\ fetching[k] = [kind |-> fetching[k].kind, since |-> fetching[k].since]
  BY KeysOf DEF ListsInv, FetchingOK, ListedOK
<1>3. n \in 0 .. MaxListed /\ n <= listed[ListOf(k)]
  BY <1>2, ListsAssumption
<1>4. choices' = choices
  BY DEF ListAnswer
<1>5. fetching[k].kind # "none"
  BY Asked DEF ListsInv, ListAnswer
<1> DEFINE d == [kind |-> fetching[k].kind, n |-> n, fresh |-> TRUE, failed |-> FALSE]
<1>6. d \in [kind : Kinds, n : 0 .. MaxListed, fresh : BOOLEAN, failed : BOOLEAN]
  BY <1>2, <1>3
<1>7. d.n <= listed[ListOf(k)] /\ (d.kind = "none" => d.n = 0)
  BY <1>3, <1>5
<1>8. Store(k, d)
  BY <1>1
<1> HIDE DEF d
<1> QED
  BY <1>4, <1>6, <1>7, <1>8, StoreStep

(* A failure leaves what was there, or no rows.                            *)
LEMMA FailStep == ASSUME ListsInv, NEW k \in Keys, Fail(k) PROVE ListsInv'
<1> DEFINE none == [kind |-> "array", n |-> 0, fresh |-> TRUE, failed |-> FALSE]
           old == [cache[k] EXCEPT !.failed = TRUE]
           D == [kind : Kinds, n : 0 .. MaxListed, fresh : BOOLEAN, failed : BOOLEAN]
<1>1. PICK d \in {none, old} : Store(k, d)
  BY DEF Fail
<1>2. Choice
  BY DEF Fail
<1>3. listed[ListOf(k)] \in 0 .. MaxListed
  BY KeysOf DEF ListsInv, ListedOK
<1>4. none \in D /\ none.n <= listed[ListOf(k)] /\ (none.kind = "none" => none.n = 0)
  BY <1>3, ListsAssumption DEF Kinds
<1>5. cache[k] \in D /\ cache[k].n <= listed[ListOf(k)] /\ (cache[k].kind = "none" => cache[k].n = 0)
  BY DEF ListsInv, CacheOK
<1>6. old \in D /\ old.n = cache[k].n /\ old.kind = cache[k].kind
  BY <1>5
<1>7. d \in D /\ d.n <= listed[ListOf(k)] /\ (d.kind = "none" => d.n = 0)
  BY <1>4, <1>5, <1>6
<1> HIDE DEF none, old
<1> QED
  BY <1>1, <1>2, <1>7, StoreStep

(* Entries grow old and are dropped.                                       *)
LEMMA CacheStep ==
  ASSUME ListsInv, NEW k \in Keys, Age(k) \/ Collect(k)
  PROVE  ListsInv'
<1>1. /\ page' = page /\ search' = search /\ options' = options /\ filled' = filled
      /\ fetching' = fetching /\ listed' = listed
      /\ posts' = posts /\ left' = left /\ told' = told
      /\ (choices' = choices \/ Choice)
  BY DEF Age, Collect, user, forms
<1>2. PostsOK'
  <2>1. \A l \in Lists : page = Form[l] => page' = page
    BY <1>1
  <2> QED
    BY <1>1, <2>1, PostsStay DEF ListsInv
<1>3. TabOK' /\ ListedOK' /\ FetchingOK'
  BY <1>1 DEF ListsInv, TabOK, ListedOK, FetchingOK
<1>4. CacheOK'
  <2> DEFINE D == [kind : Kinds, n : 0 .. MaxListed, fresh : BOOLEAN, failed : BOOLEAN]
  <2>1. cache[k] \in D /\ cache[k].n <= listed[ListOf(k)] /\ (cache[k].kind = "none" => cache[k].n = 0)
    BY DEF ListsInv, CacheOK
  <2>2. NoData \in D /\ NoData.n = 0
    BY ListsAssumption DEF NoData, Kinds
  <2>3. listed[ListOf(k)] \in 0 .. MaxListed
    BY KeysOf DEF ListsInv, ListedOK
  <2>4. [cache[k] EXCEPT !.fresh = FALSE] \in D /\ [cache[k] EXCEPT !.fresh = FALSE].n = cache[k].n
           /\ [cache[k] EXCEPT !.fresh = FALSE].kind = cache[k].kind
    BY <2>1
  <2>5. PICK d \in {[cache[k] EXCEPT !.fresh = FALSE], NoData} : cache' = [cache EXCEPT ![k] = d]
    BY DEF Age, Collect
  <2>6. d \in D /\ d.n <= listed[ListOf(k)] /\ (d.kind = "none" => d.n = 0)
    <3>1. CASE d = [cache[k] EXCEPT !.fresh = FALSE]
      BY <2>1, <2>4, <3>1
    <3>2. CASE d = NoData
      BY <2>2, <2>3, <3>2
    <3> QED
      BY <2>5, <3>1, <3>2
  <2> QED
    BY <1>1, <2>5, <2>6 DEF ListsInv, CacheOK
<1> QED
  BY <1>2, <1>3, <1>4 DEF ListsInv

(* The window has the focus again.                                         *)
LEMMA FocusStep == ASSUME ListsInv, Focus PROVE ListsInv'
<1>1. /\ page' = page /\ search' = search /\ options' = options /\ filled' = filled
      /\ cache' = cache /\ listed' = listed /\ fetching' = Asks(page, fetching)
      /\ posts' = posts /\ left' = left /\ told' = told /\ Choice
  BY DEF Focus, user, forms
<1>2. PostsOK'
  <2>1. \A l \in Lists : page = Form[l] => page' = page
    BY <1>1
  <2> QED
    BY <1>1, <2>1, PostsStay DEF ListsInv
<1>3. TabOK' /\ ListedOK' /\ CacheOK'
  BY <1>1 DEF ListsInv, TabOK, ListedOK, CacheOK
<1>4. FetchingOK'
  <2>1. ListedOK /\ FetchingOK
    BY DEF ListsInv
  <2> QED
    BY <1>1, <2>1, AsksOK DEF FetchingOK
<1> QED
  BY <1>2, <1>3, <1>4 DEF ListsInv

(* A row more, if there is room.                                           *)
LEMMA Longer ==
  ASSUME listed \in [Lists -> 0 .. MaxListed], NEW l,
         listed' = [listed EXCEPT ![l] = IF listed[l] < MaxListed THEN listed[l] + 1 ELSE listed[l]]
  PROVE  listed' \in [Lists -> 0 .. MaxListed] /\ \A m \in Lists : listed[m] <= listed'[m]
<1>1. ASSUME NEW m \in Lists
      PROVE  listed'[m] \in 0 .. MaxListed /\ listed[m] <= listed'[m]
  <2>1. listed[m] \in 0 .. MaxListed /\ listed[m] \in Nat
    BY ListsAssumption
  <2>2. CASE m = l
    BY <2>1, <2>2, ListsAssumption
  <2>3. CASE m # l
    BY <2>1, <2>3, ListsAssumption
  <2> QED
    BY <2>2, <2>3
<1> QED
  BY <1>1

(* Lists grow while the tab stays as it is.                                *)
LEMMA GrowingStep ==
  ASSUME ListsInv, page' = page, search' = search, options' = options, filled' = filled,
         cache' = cache, fetching' = fetching, told' = told, PostsOK',
         listed' \in [Lists -> 0 .. MaxListed], \A l \in Lists : listed[l] <= listed'[l]
  PROVE  ListsInv'
<1>1. ASSUME NEW m \in Lists PROVE told[m] <= listed'[m]
  <2>1. told[m] \in 0 .. MaxListed /\ told[m] <= listed[m] /\ listed[m] \in 0 .. MaxListed
    BY DEF ListsInv, ListedOK
  <2> QED
    BY <2>1, ListsAssumption
<1>2. ListedOK'
  BY <1>1 DEF ListsInv, ListedOK
<1>3. CacheOK' /\ FetchingOK'
  BY KeptWhileGrowing DEF ListsInv
<1>4. TabOK'
  BY DEF ListsInv, TabOK
<1> QED
  BY <1>2, <1>3, <1>4 DEF ListsInv

(* A colleague adds a row.                                                 *)
LEMMA ColleagueAddsStep == ASSUME ListsInv, NEW l, ColleagueAdds(l) PROVE ListsInv'
<1>1. /\ page' = page /\ search' = search /\ options' = options /\ filled' = filled
      /\ cache' = cache /\ fetching' = fetching /\ told' = told
      /\ posts' = posts /\ left' = left /\ Choice
      /\ listed' = [listed EXCEPT ![l] = IF listed[l] < MaxListed THEN listed[l] + 1 ELSE listed[l]]
  BY DEF ColleagueAdds, user, queries, forms
<1>2. PostsOK'
  <2>1. \A m \in Lists : page = Form[m] => page' = page
    BY <1>1
  <2> QED
    BY <1>1, <2>1, PostsStay DEF ListsInv
<1>3. listed' \in [Lists -> 0 .. MaxListed] /\ \A m \in Lists : listed[m] <= listed'[m]
  <2>1. listed \in [Lists -> 0 .. MaxListed] /\ \A m \in Lists : listed[m] <= MaxListed
    BY ListsAssumption DEF ListsInv, ListedOK
  <2> QED
    BY <1>1, <2>1, Longer
<1> QED
  BY <1>1, <1>2, <1>3, GrowingStep

(* The selections of ScheduleInterview arrive.                             *)
LEMMA OptionsStep ==
  ASSUME ListsInv, NEW o \in {"candidates", "requirements"}, LoadOptions(o)
  PROVE  ListsInv'
<1>1. TabOK'
  BY DEF ListsInv, TabOK, LoadOptions
<1>2. PostsOK' /\ ListedOK' /\ CacheOK' /\ FetchingOK'
  BY DEF ListsInv, PostsOK, ListedOK, CacheOK, FetchingOK, LoadOptions, queries,
         forms
<1> QED
  BY <1>1, <1>2 DEF ListsInv

(* A form is filled in.                                                    *)
LEMMA FillStep == ASSUME ListsInv, FillIn PROVE ListsInv'
<1>1. TabOK'
  BY DEF ListsInv, TabOK, FillIn
<1>2. PostsOK' /\ ListedOK' /\ CacheOK' /\ FetchingOK'
  BY DEF ListsInv, PostsOK, ListedOK, CacheOK, FetchingOK, FillIn, queries,
         forms
<1> QED
  BY <1>1, <1>2 DEF ListsInv

(* A form is sent.                                                         *)
LEMMA SubmitStep == ASSUME ListsInv, NEW l \in Lists, Submit(l) PROVE ListsInv'
<1>1. choices' \in 0 .. MaxEvents /\ choices' = choices + 1 /\ choices \in Nat
  BY ChoiceCounts DEF ListsInv, Submit
<1>2. posts \in [Lists -> Nat] /\ left \in [Lists -> Nat]
  BY DEF ListsInv, PostsOK
<1>3. posts' = [posts EXCEPT ![l] = posts[l] + 1] /\ left' = left /\ page' = page /\ page = Form[l]
  BY DEF Submit, user
<1>4. PostsOK'
  <2>1. posts' \in [Lists -> Nat]
    BY <1>2, <1>3
  <2>2. ASSUME NEW m \in Lists PROVE posts'[m] + left'[m] <= choices'
    <3>1. posts[m] + left[m] <= choices /\ posts[m] \in Nat /\ left[m] \in Nat
      BY <1>2 DEF ListsInv, PostsOK
    <3>2. CASE m = l
      BY <1>1, <1>2, <1>3, <3>1, <3>2
    <3>3. CASE m # l
      BY <1>1, <1>2, <1>3, <3>1, <3>3
    <3> QED
      BY <3>2, <3>3
  <2>3. ASSUME NEW m \in Lists, posts'[m] > 0 PROVE page' = Form[m]
    <3>1. CASE m = l
      BY <1>3, <3>1
    <3>2. CASE m # l
      BY <1>2, <1>3, <2>3, <3>2 DEF ListsInv, PostsOK
    <3> QED
      BY <3>1, <3>2
  <2>4. ASSUME NEW m \in {"requirements", "clients"} PROVE posts'[m] <= 1
    <3>1. m \in Lists /\ posts[m] \in Nat /\ posts[m] <= 1
      BY <1>2, KeysOf DEF ListsInv, PostsOK
    <3>2. CASE m = l
      <4>1. posts[m] = 0
        BY <2>4, <3>2 DEF Submit, Enabled
      <4> QED
        BY <1>2, <1>3, <3>1, <3>2, <4>1
    <3>3. CASE m # l
      BY <1>2, <1>3, <3>1, <3>3
    <3> QED
      BY <3>2, <3>3
  <2> QED
    BY <1>1, <1>2, <1>3, <2>1, <2>2, <2>3, <2>4 DEF PostsOK
<1>5. TabOK' /\ ListedOK' /\ CacheOK' /\ FetchingOK'
  BY DEF ListsInv, TabOK, ListedOK, CacheOK, FetchingOK, Submit, user, queries
<1> QED
  BY <1>4, <1>5 DEF ListsInv

(* The server has added a row, and the page goes to the list.              *)
LEMMA AddedStep ==
  ASSUME ListsInv, NEW l \in Lists, NEW here \in BOOLEAN, Added(l, here)
  PROVE  ListsInv'
<1>1. /\ listed[l] < MaxListed /\ listed' = [listed EXCEPT ![l] = listed[l] + 1]
      /\ told' = [told EXCEPT ![l] = listed[l] + 1]
      /\ Mount(l) /\ l \in Pages /\ choices' = choices
  BY FormPages DEF Added
<1>2. /\ listed \in [Lists -> 0 .. MaxListed] /\ told \in [Lists -> 0 .. MaxListed]
      /\ MaxListed \in Nat
      /\ \A m \in Lists : told[m] <= listed[m] /\ listed[m] \in 0 .. MaxListed /\ told[m] \in 0 .. MaxListed
  BY ListsAssumption DEF ListsInv, ListedOK
<1>3. listed' \in [Lists -> 0 .. MaxListed] /\ \A m \in Lists : listed[m] <= listed'[m]
  <2>1. listed' = [listed EXCEPT ![l] = IF listed[l] < MaxListed THEN listed[l] + 1 ELSE listed[l]]
    BY <1>1
  <2> QED
    BY <1>2, <2>1, Longer
<1>4. TabOK' /\ CacheOK' /\ FetchingOK'
  BY <1>1, <1>3, MountOK
<1>5. ListedOK'
  <2>1. listed[l] + 1 \in 0 .. MaxListed
    BY <1>1, <1>2
  <2>2. told' \in [Lists -> 0 .. MaxListed]
    BY <1>1, <1>2, <2>1
  <2>3. ASSUME NEW m \in Lists PROVE told'[m] <= listed'[m]
    <3>1. CASE m = l
      BY <1>1, <1>2, <2>1, <3>1
    <3>2. CASE m # l
      BY <1>1, <1>2, <3>2
    <3> QED
      BY <3>1, <3>2
  <2> QED
    BY <1>3, <2>2, <2>3 DEF ListedOK
<1>6. PostsOK'
  <2>1. choices' \in 0 .. MaxEvents /\ choices <= choices'
    BY <1>1, ListsAssumption DEF ListsInv, PostsOK
  <2>2. posts[l] + left[l] > 0
    <3>1. posts[l] \in Nat /\ left[l] \in Nat
      BY DEF ListsInv, PostsOK
    <3>2. posts[l] > 0 \/ left[l] > 0
      BY DEF Added, PostInFlight
    <3> QED
      BY <3>1, <3>2
  <2>3. /\ left' = [m \in Lists |-> left[m] + posts[m] - (IF m = l THEN 1 ELSE 0)]
        /\ posts' = [m \in Lists |-> 0]
    BY DEF Added
  <2>4. 1 \in {0, 1} /\ (l \in Lists /\ 1 = 1 => posts[l] + left[l] > 0)
    BY <2>2
  <2>5. PostsOK
    BY DEF ListsInv
  <2> QED
    BY <2>1, <2>3, <2>4, <2>5, PostsLeft
<1> QED
  BY <1>4, <1>5, <1>6 DEF ListsInv

(* A post that is refused, or whose answer is lost.                        *)
LEMMA NotAddedStep ==
  ASSUME ListsInv, NEW l \in Lists, NEW here \in BOOLEAN, NotAdded(l, here)
  PROVE  ListsInv'
<1>1. /\ page' = page /\ search' = search /\ options' = options /\ filled' = filled
      /\ cache' = cache /\ fetching' = fetching /\ told' = told /\ choices' = choices
      /\ \/ listed' = listed
         \/ listed' = [listed EXCEPT ![l] = IF listed[l] < MaxListed THEN listed[l] + 1 ELSE listed[l]]
  BY DEF NotAdded, user, queries
<1>2. listed' \in [Lists -> 0 .. MaxListed] /\ \A m \in Lists : listed[m] <= listed'[m]
  <2>1. listed \in [Lists -> 0 .. MaxListed] /\ \A m \in Lists : listed[m] <= listed[m]
    BY ListsAssumption DEF ListsInv, ListedOK
  <2> QED
    BY <1>1, <2>1, Longer
<1>3. PostsOK'
  <2>1. /\ posts \in [Lists -> Nat] /\ left \in [Lists -> Nat] /\ choices \in Nat
        /\ \A m \in Lists : posts[m] + left[m] <= choices
    BY ListsAssumption DEF ListsInv, PostsOK
  <2>2. \/ posts[l] > 0 /\ posts' = [posts EXCEPT ![l] = posts[l] - 1] /\ left' = left
        \/ left[l] > 0 /\ left' = [left EXCEPT ![l] = left[l] - 1] /\ posts' = posts
    BY DEF NotAdded, PostInFlight
  <2>3. posts' \in [Lists -> Nat] /\ left' \in [Lists -> Nat]
    BY <2>1, <2>2
  <2>4. ASSUME NEW m \in Lists
        PROVE  posts'[m] <= posts[m] /\ left'[m] <= left[m]
    BY <2>1, <2>2
  <2>5. ASSUME NEW m \in Lists
        PROVE  posts'[m] + left'[m] <= choices' /\ (posts'[m] > 0 => page' = Form[m])
    <3>1. /\ posts[m] \in Nat /\ left[m] \in Nat /\ posts'[m] \in Nat /\ left'[m] \in Nat
          /\ posts[m] + left[m] <= choices
          /\ posts[m] > 0 => page = Form[m]
      BY <2>1, <2>3 DEF ListsInv, PostsOK
    <3> QED
      BY <1>1, <2>1, <2>4, <3>1
  <2>6. ASSUME NEW m \in {"requirements", "clients"} PROVE posts'[m] <= 1
    <3>1. m \in Lists /\ posts[m] <= 1 /\ posts[m] \in Nat
      BY <2>1, KeysOf DEF ListsInv, PostsOK
    <3> QED
      BY <2>3, <2>4, <3>1
  <2> QED
    BY <1>1, <2>3, <2>5, <2>6 DEF ListsInv, PostsOK
<1> QED
  BY <1>1, <1>2, <1>3, GrowingStep

(* Every step keeps the invariant.                                         *)
LEMMA ListsStep == ListsInv /\ [ListsNext]_listsVars => ListsInv'
<1> SUFFICES ASSUME ListsInv, [ListsNext]_listsVars PROVE ListsInv'
  OBVIOUS
<1>1. CASE UNCHANGED listsVars
  BY <1>1 DEF listsVars, ListsInv, TabOK, ListedOK, CacheOK, FetchingOK, PostsOK
<1>2. ASSUME NEW k \in Keys,
             ListAnswer(k) \/ Fail(k) \/ Age(k) \/ Collect(k)
      PROVE  ListsInv'
  BY <1>2, AnswerStep, FailStep, CacheStep
<1>3. CASE FillClient \/ FillCandidate \/ FillRequirement \/ FillInterview
  BY <1>3, FillStep
  DEF FillClient, FillCandidate, FillRequirement, FillInterview
<1>4. ASSUME NEW l \in Lists, NEW here \in BOOLEAN,
             Added(l, here) \/ NotAdded(l, here)
      PROVE  ListsInv'
  BY <1>4, AddedStep, NotAddedStep
<1> QED
  BY <1>1, <1>2, <1>3, <1>4, OpenStep, ReloadStep, SearchStep, FocusStep, OptionsStep,
     SubmitStep, ColleagueAddsStep
  DEF ListsNext

-----------------------------------------------------------------------------
(* The tab, its entries, requests and posts are of their types; among it,  *)
(* no page knows of rows the server does not have, posts are of the form   *)
(* on the page, and the forms that guard their button send one at a time.  *)
THEOREM ListsTypes == ListsSpec => []ListsTypeOK
<1>1. ListsInv => ListsTypeOK
  <2> SUFFICES ASSUME ListsInv PROVE ListsTypeOK
    OBVIOUS
  <2>1. ASSUME NEW l \in Lists
        PROVE  posts[l] \in 0 .. MaxEvents /\ left[l] \in 0 .. MaxEvents
    <3>1. /\ posts[l] \in Nat /\ left[l] \in Nat /\ choices \in 0 .. MaxEvents
          /\ posts[l] + left[l] <= choices
      BY DEF ListsInv, PostsOK
    <3> QED
      BY <3>1, ListsAssumption
  <2>2. posts \in [Lists -> 0 .. MaxEvents] /\ left \in [Lists -> 0 .. MaxEvents]
    BY <2>1 DEF ListsInv, PostsOK
  <2>3. \A k \in Keys : /\ cache[k].n <= listed[ListOf(k)]
                         /\ told[ListOf(k)] <= listed[ListOf(k)]
    BY KeysOf DEF ListsInv, CacheOK, ListedOK
  <2> QED
    BY <2>2, <2>3 DEF ListsInv, TabOK, ListedOK, CacheOK, FetchingOK, PostsOK, ListsTypeOK
<1> QED
  BY <1>1, ListsStart, ListsStep, PTL DEF ListsSpec

(* What was typed into a form is given up by the user's own choice or      *)
(* after a success this tab was told of, never by a refusal.               *)
THEOREM FormsKept == ListsSpec => FilledFormKept
<1> DEFINE Kept == filled /\ ~filled' =>
                      choices' # choices \/ \E l \in Lists : told'[l] > told[l]
<1>1. ListsInv /\ [ListsNext]_listsVars => Kept
  <2> SUFFICES ASSUME ListsInv, [ListsNext]_listsVars, filled, ~filled', choices' = choices
               PROVE  \E l \in Lists : told'[l] > told[l]
    OBVIOUS
  <2>1. choices \in Nat /\ ~Choice
    BY ListsAssumption DEF ListsInv, PostsOK, Choice
  <2>2. PICK l \in Lists, here \in BOOLEAN : Added(l, here)
    BY <2>1
    DEF ListsNext, listsVars, Open, Reload, Search, Focus, ListAnswer,
        Fail, Age, Collect, Store, LoadOptions, FillIn,
        FillClient, FillCandidate, FillRequirement, FillInterview,
        Submit, ColleagueAdds, NotAdded, user
  <2>3. told'[l] = listed[l] + 1
    BY <2>2 DEF Added, ListsInv, ListedOK
  <2>4. told[l] <= listed[l] /\ told[l] \in 0 .. MaxListed /\ listed[l] \in 0 .. MaxListed
    BY DEF ListsInv, ListedOK
  <2> QED
    BY <2>3, <2>4, ListsAssumption
<1>2. ListsInv /\ [ListsNext]_listsVars => [Kept]_listsVars
  BY <1>1
<1> QED
  BY <1>2, ListsStart, ListsStep, PTL DEF ListsSpec, FilledFormKept
=============================================================================
