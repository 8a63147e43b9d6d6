------------------------------ MODULE BillingPage ------------------------------
(***************************************************************************)
(* The page frontend/src/pages/Billing.tsx: the worklist of joined pairs,  *)
(* each billed or pending, with an amount to type and a button to bill it. *)
(*   loadWorklist   reads the list and hides the table meanwhile           *)
(*   createBilling  POSTs, loads the list again, and only then gives the   *)
(*                  button back                                            *)
(* creatingKey is one key for all rows, so a second row can be billed      *)
(* while the first is in flight, and the end of either enables both; loads *)
(* can overlap and end in any order.  The server bills a joined pair once  *)
(* (Placement has the handler).  A colleague may bill a pair, record that  *)
(* it has joined, or take that back, which takes it off the worklist.      *)
(***************************************************************************)
EXTENDS Naturals, FiniteSets

CONSTANTS Pairs, NoPair,
          Slots,       \* createBilling in flight (bound)
          Loads,       \* loadWorklist in flight (bound)
          MaxClicks    \* clicks on Create Billing (bound)

VARIABLES
    joined,       \* server: the pairs whose joining has joined = TRUE
    billed,       \* server: the pairs that have a billing
    items,        \* the page's worklist: the pairs on it that it takes for billed
    listed,       \* the page's worklist: the pairs on it, none before it is loaded
    loading,
    loads, creates,
    creatingKey,
    amounts,      \* the pairs whose amount is typed
    clicks,
    overlapped,   \* two loads were in flight at the same time
    unseen        \* a load or an answer was lost, or a colleague was at work

server == <<joined, billed>>
page == <<items, listed, loading, creatingKey, amounts>>
vars == <<server, items, listed, loading, loads, creates, creatingKey, amounts, clicks,
          overlapped, unseen>>

NoLoad == [at |-> "not"]
NoCreate == [at |-> "not"]
InFlight(f) == {i \in DOMAIN f : f[i].at # "not"}

TypeOK ==
    /\ joined \subseteq Pairs /\ billed \subseteq Pairs
    /\ listed \subseteq Pairs /\ items \subseteq billed \cap listed
    /\ loading \in BOOLEAN
    /\ creatingKey \in Pairs \cup {NoPair}
    /\ amounts \subseteq Pairs
    /\ clicks \in 0 .. MaxClicks
    /\ overlapped \in BOOLEAN /\ unseen \in BOOLEAN
    \* every load belongs to the page itself or to one creation
    /\ \A i \in InFlight(loads) : loads[i].by = "mount" \/ creates[loads[i].by].at = "loading"

Init ==
    /\ joined \in SUBSET Pairs /\ billed \in SUBSET Pairs
    /\ items = {} /\ listed = {} /\ loading = TRUE
    /\ loads = [i \in Loads |-> IF i = CHOOSE j \in Loads : TRUE
                                THEN [at |-> "asked", by |-> "mount"] ELSE NoLoad]
    /\ creates = [s \in Slots |-> NoCreate]
    /\ creatingKey = NoPair
    /\ amounts = {}
    /\ clicks = 0
    /\ overlapped = FALSE /\ unseen = FALSE

-----------------------------------------------------------------------------
(* What the table offers: an amount and a button for each pending pair.    *)
Table == IF loading THEN {} ELSE listed
Pending == Table \ items
Enabled(p) == p \in Pending /\ creatingKey # p

(* ListWorklist: the pairs that have joined, each with its billing if any. *)
ServeWorklist(i) ==
    /\ loads[i].at = "asked"
    /\ loads' = [loads EXCEPT ![i] = [at |-> "served", by |-> @.by, rows |-> joined,
                                      billed |-> joined \cap billed]]
    /\ UNCHANGED <<server, page, creates, clicks, overlapped, unseen>>

(* The creation that waited for its load ends with it.                     *)
LoadEnds(i) ==
    LET by == loads[i].by
    IN  /\ loading' = FALSE
        /\ loads' = [loads EXCEPT ![i] = NoLoad]
        /\ IF by = "mount" THEN UNCHANGED <<creates, creatingKey>>
           ELSE creates' = [creates EXCEPT ![by] = NoCreate] /\ creatingKey' = NoPair
        /\ UNCHANGED <<server, amounts, clicks, overlapped>>

Loaded(i) ==
    /\ loads[i].at = "served"
    /\ listed' = loads[i].rows
    /\ items' = loads[i].billed
    /\ LoadEnds(i)
    /\ UNCHANGED unseen

(* A message; the worklist stays.                                          *)
LoadFails(i) ==
    /\ i \in InFlight(loads)
    /\ LoadEnds(i)
    /\ unseen' = TRUE
    /\ UNCHANGED <<items, listed>>

-----------------------------------------------------------------------------
TypeAmount(p) ==
    /\ p \in Pending \ amounts
    /\ amounts' = amounts \cup {p}
    /\ UNCHANGED <<server, items, listed, loading, loads, creates, creatingKey, clicks,
                   overlapped, unseen>>

(* Without an amount there is a message only.                              *)
Click(p) ==
    /\ Enabled(p)
    /\ p \in amounts
    /\ clicks < MaxClicks /\ clicks' = clicks + 1
    /\ creatingKey' = p
    /\ \E s \in Slots : /\ creates[s] = NoCreate
                        /\ creates' = [creates EXCEPT ![s] = [at |-> "sent", pair |-> p]]
    /\ UNCHANGED <<server, items, listed, loading, loads, amounts, overlapped, unseen>>

CreateBilling(s) ==
    /\ creates[s].at = "sent"
    /\ creates[s].pair \in joined \ billed
    /\ billed' = billed \cup {creates[s].pair}
    /\ creates' = [creates EXCEPT ![s].at = "billed"]
    /\ UNCHANGED <<joined, page, loads, clicks, overlapped, unseen>>

Billed(s) ==
    /\ creates[s].at = "billed"
    /\ creates' = [creates EXCEPT ![s].at = "loading"]
    /\ \E i \in Loads \ InFlight(loads) :
          loads' = [loads EXCEPT ![i] = [at |-> "asked", by |-> s]]
    /\ loading' = TRUE
    /\ overlapped' = (overlapped \/ InFlight(loads) # {})
    /\ UNCHANGED <<server, items, listed, creatingKey, amounts, clicks, unseen>>

(* Refused, or the answer is lost.                                         *)
CreateFails(s) ==
    /\ creates[s].at \in {"sent", "billed"}
    /\ creates' = [creates EXCEPT ![s] = NoCreate]
    /\ creatingKey' = NoPair
    /\ unseen' = (unseen \/ creates[s].at = "billed")
    /\ UNCHANGED <<server, items, listed, loading, loads, amounts, clicks, overlapped>>

(* One change by somebody else: a billing, a joining, or one taken back.   *)
Colleague(p) ==
    /\ ~unseen
    /\ unseen' = TRUE
    /\ \/ p \in joined \ billed /\ billed' = billed \cup {p} /\ UNCHANGED joined
       \/ p \notin joined /\ joined' = joined \cup {p} /\ UNCHANGED billed
       \/ p \in joined /\ joined' = joined \ {p} /\ UNCHANGED billed
    /\ UNCHANGED <<page, loads, creates, clicks, overlapped>>

Next ==
    \/ \E i \in Loads : ServeWorklist(i) \/ Loaded(i) \/ LoadFails(i)
    \/ \E p \in Pairs : TypeAmount(p) \/ Click(p) \/ Colleague(p)
    \/ \E s \in Slots : CreateBilling(s) \/ Billed(s) \/ CreateFails(s)

Spec == Init /\ [][Next]_vars

-----------------------------------------------------------------------------
(* When nothing is in flight, the worklist has the pairs that have joined  *)
(* and the billings there are, unless loads overlapped, something was lost *)
(* or a colleague was at work.                                             *)
WorklistCatchesUp ==
    /\ ~overlapped /\ ~unseen
    /\ InFlight(loads) = {} /\ InFlight(creates) = {}
    => listed = joined /\ items = joined \cap billed

(* "Saving..." and "Loading..." stand for work in flight: no row stays     *)
(* locked and the table does not stay hidden when all has ended.           *)
WaitingMeansWork ==
    /\ loading => InFlight(loads) # {}
    /\ creatingKey # NoPair => \E s \in InFlight(creates) : creates[s].pair = creatingKey
=============================================================================
