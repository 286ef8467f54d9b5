------------------------------ MODULE MCDetailed ------------------------------
(* The detailed flow: which sessions are over, the plan of the storage study *)
(* and what it outlives, the acquisition of its sample, the store with the   *)
(* service that reads it, and the page.                                      *)
(* They share no variable, so a behaviour is of one of them: their product   *)
(* says no more.                                                             *)
EXTENDS Completion, Acquisition, DetailedStore, TelemetryView, TLC
CONSTANTS x, y, monza, spa, imola
VARIABLE part
TheLaps == x :> {1} @@ y :> {1, 2}
TheFastest == x :> 1 @@ y :> 2

(* Status feeds: one with two statuses at the one time, in the order the     *)
(* provider ends every session with; a red flag; a tie that leaves the order *)
(* open; one that stops short and lacks its last newline.                    *)
Rec(time, status) == [time |-> time, status |-> status]
Feed(records, cut) == [records |-> records, over |-> 2, cut |-> cut]
Clean == Feed(<<Rec(1, "Started"), Rec(2, "Finalised"), Rec(2, "Ends")>>, FALSE)
RedFlag == [Feed(<<Rec(1, "Started"), Rec(2, "Aborted"), Rec(3, "Started"), Rec(4, "Finalised")>>, FALSE)
               EXCEPT !.over = 4]
Bare == Feed(<<Rec(1, "Started"), Rec(2, "Finalised")>>, FALSE)
Tie == [Feed(<<Rec(1, "Started"), Rec(2, "Finished"), Rec(2, "Started")>>, FALSE) EXCEPT !.over = 3]
Short == Feed(<<Rec(1, "Started"), Rec(2, "Finished")>>, TRUE)
TheFeeds == monza :> {RedFlag, Tie, Short} @@ spa :> {Clean} @@ imola :> {Bare}
TheRounds == [discover |-> 2, reconcile |-> 1, finalize |-> 2, error |-> 1]
TheSample == <<monza>>

(* Two sessions of one stratum, of which OpenF1 lists one, and a third of a  *)
(* stratum of its own.                                                       *)
Listed(stratum, openf1) == [stratum |-> stratum, target |-> 1, openf1 |-> openf1]
TheKinds == monza :> Listed("race", "later") @@ spa :> Listed("practice", "2023") @@ imola :> Listed("practice", "unlisted")

(* Completion is looked at in all that may happen to two sessions, the third *)
(* being still to come, with a plan made as the study makes it, of a ready   *)
(* catalog with something to select; and the study's plan, made of any       *)
(* catalog, with two sessions that were published long ago and one still to  *)
(* come, to which nothing untoward happens.  A session is called off only    *)
(* while a discovery may still learn of it: nothing else reads that it was.  *)
StillToCome(s) ==
    /\ s \notin elapsed' \cup cancelled'
    /\ recon # Off /\ completion[s] = Absent => completion'[s] # Absent
AsTheStudyDoes == frozen' # frozen => ReadyInventory(inventory) /\ sample' # {}
CalledOffInTime ==
    cancelled' # cancelled =>
        \/ discovering
        \/ /\ rounds.discover < MaxRounds.discover
           /\ rounds.discover + rounds.reconcile + rounds.finalize + rounds.error < MaxTotal
Untroubled == cancelled' = {} /\ derived' = {} /\ archive' = archive /\ rounds'.error = 0

OthersPinned ==
    /\ part = "completion" => imola \notin elapsed
    /\ part = "study" => spa \in elapsed /\ Cardinality(elapsed) = 2 /\ feed[monza] = RedFlag
    /\ part \notin {"completion", "study"} => elapsed = {monza} /\ feed[monza] = Tie
    /\ \A s \in elapsed : shown[s] > 0 <=> part = "study"
    /\ part # "page" => sel = [ref |-> Undefined, about |-> Undefined, lap |-> Undefined, check |-> FALSE]
Init ==
    /\ part \in {"completion", "study", "acquisition", "store", "page"}
    /\ CompletionInit /\ AcquisitionInit /\ StoreInit /\ ViewInit
    /\ OthersPinned
Next ==
    \/ part = "completion" /\ CompletionNext /\ StillToCome(imola) /\ AsTheStudyDoes /\ CalledOffInTime
          /\ UNCHANGED <<acquisitionVars, storeVars, viewVars, part>>
    \/ part = "study" /\ CompletionNext /\ Untroubled /\ UNCHANGED <<acquisitionVars, storeVars, viewVars, part>>
    \/ part = "acquisition" /\ AcquisitionNext /\ UNCHANGED <<completionVars, storeVars, viewVars, part>>
    \/ part = "store" /\ StoreNext /\ UNCHANGED <<completionVars, acquisitionVars, viewVars, part>>
    \/ part = "page" /\ ViewNext /\ UNCHANGED <<completionVars, acquisitionVars, storeVars, part>>
Spec == Init /\ [][Next]_<<completionVars, acquisitionVars, storeVars, viewVars, part>>
Symmetric == Permutations(Publisher)
===============================================================================
