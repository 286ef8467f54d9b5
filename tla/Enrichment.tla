------------------------------ MODULE Enrichment ------------------------------
(***************************************************************************)
(* The OpenF1 evidence of one session (detailed/openf1.py for the storage  *)
(* study, detailed/corpus_openf1.py for the production corpus): a          *)
(* directory, its leaf, in which every endpoint's answer is captured as    *)
(* wire bytes, an attempt record and an index of attempts, then named by a *)
(* source pointer, made into a table, described by a record; at the end    *)
(* a report names them all.  A run validates everything an earlier one     *)
(* left before it asks for anything, and anything not accounted for makes  *)
(* it refuse the leaf.                                                     *)
(*                                                                         *)
(* The budgets and the client below are OpenF1Client and HourlyBudget; one *)
(* worker lock admits one run at a time.  A file holds the answer it was   *)
(* made from; a digest identifies the answer.                              *)
(***************************************************************************)
EXTENDS Naturals, Sequences, FiniteSets

CONSTANTS
    Endpoints,    \* the order in which a run visits them
    Nothing,      \* no such file
    MaxDeaths, MaxChanges, MaxRequests   \* bounds of the checked instance

VARIABLES
    flow,         \* "study" or "corpus"
    authority,    \* versions of what admits the session: its gate, its native revision
    leafMade,     \* the directory exists
    bound,        \* binding.json: the authority the leaf belongs to
    raw,          \* wire files, named by endpoint and digest
    attempts, index,   \* attempt records, and attempts.json
    source, table, described,   \* pointer, parquet and record of each endpoint
    failed,       \* endpoints with a failure record
    complete,     \* manifest.json, measurement.json
    debris,       \* a temporary file or directory a dead run left
    place, at, pin, reply,      \* the run: where, endpoint, admitted authority, answer
    outcome,      \* of the last run
    deaths, changes,
    asked, torn   \* history: requests sent; a capture or the leaf cut short

capture == <<raw, attempts, index>>
artifacts == <<source, table, described, failed>>
leaf == <<leafMade, bound, capture, artifacts, complete, debris>>
running == <<at, pin, reply>>
enrichmentVars == <<flow, authority, leaf, place, running, outcome, deaths, changes, asked, torn>>

Endpoint == {Endpoints[i] : i \in DOMAIN Endpoints}
Input == {"gate", "native"}

\* Rows or a 404; what is not JSON rows, and rows of another session; a body or
\* headers cut at the bound, or a redirect; a 401 or 403; any other error.
Usable == {"rows", "missing"}
Whole == Usable \cup {"broken", "foreign"}
Odd == {"cut"}
Reply == Whole \cup Odd \cup {"denied", "error"}
Writing == {"bind", "wire", "note", "index", "point", "columns", "describe", "failure", "seal"}

ASSUME EnrichmentAssumption ==
    /\ Endpoints \in Seq(Endpoint)
    /\ Nothing \notin Reply /\ Nothing # "refused" /\ Nothing \notin [Input -> Nat]

EnrichmentInit ==
    /\ flow \in {"study", "corpus"}
    /\ authority = [i \in Input |-> 0]
    /\ leafMade = FALSE /\ bound = Nothing
    /\ raw = {} /\ attempts = {} /\ index = {}
    /\ source = [e \in Endpoint |-> Nothing]
    /\ table = source /\ described = source
    /\ failed = {} /\ complete = FALSE /\ debris = FALSE
    /\ place = "off" /\ at = 1 /\ pin = authority /\ reply = Nothing
    /\ outcome = Nothing
    /\ deaths = 0 /\ changes = 0
    /\ asked = [e \in Endpoint |-> 0] /\ torn = FALSE

Corpus == flow = "corpus"
Here == Endpoints[at]

(* _Admission.check, ProductionAuthority.check: every input the session was *)
(* admitted under still has the bytes it had.                               *)
Same == pin = authority
SameGate == pin["gate"] = authority["gate"]

Step(from, to) ==
    /\ place = from /\ place' = to
    /\ UNCHANGED <<flow, authority, pin, outcome, deaths, changes, torn>>

Ends(result) ==
    /\ place' = "off" /\ outcome' = result
    /\ at' = 1 /\ reply' = Nothing
    /\ UNCHANGED <<flow, authority, leaf, pin, deaths, changes, asked, torn>>

-----------------------------------------------------------------------------
(* Admission, and the leaf. *)

Admit ==
    /\ place = "off"
    /\ pin' = authority
    /\ place' = IF leafMade THEN "inventory" ELSE "make"
    /\ UNCHANGED <<flow, authority, leaf, at, reply, outcome, deaths, changes, asked, torn>>

(* _Admission pins every file the session's completion rests on;            *)
(* ProductionAuthority the gate, the native revision and the provider map.  *)
StudyAdmits == ~ Corpus /\ Admit
CorpusAdmits == Corpus /\ Admit

MakeLeaf ==
    /\ Step("make", IF Corpus THEN "bind" ELSE "inventory")
    /\ Same
    /\ leafMade' = TRUE
    /\ UNCHANGED <<bound, capture, artifacts, complete, debris, at, reply, asked>>

Bind ==
    /\ Step("bind", "inventory")
    /\ Same
    /\ bound' = pin
    /\ UNCHANGED <<leafMade, capture, artifacts, complete, debris, at, reply, asked>>

(* validate_attempts: the index names every attempt record and no other,    *)
(* and each has its wire file.                                              *)
AttemptsIndexed == index = attempts /\ {<<a.endpoint, a.reply>> : a \in attempts} \subseteq raw

Answers(e) == {a.reply : a \in {b \in attempts : b.endpoint = e}}
Original(e) == Answers(e) \cap Whole

(* _source, _provider_source: the pointer names the one whole answer and    *)
(* its rows can be read.                                                    *)
Readable(e) == source[e] \in Usable /\ Original(e) = {source[e]}

(* The files a run can account for, and those it could not make sense of.   *)
Accounted ==
    /\ ~ debris
    /\ raw \subseteq {<<a.endpoint, a.reply>> : a \in attempts}
    /\ \A e \in Endpoint :
        /\ table[e] # Nothing => source[e] # Nothing
        /\ source[e] # Nothing => Readable(e) \/ (Corpus /\ source[e] = "broken" /\ e \in failed)
    /\ Corpus => bound = pin /\ \A a \in attempts : a.reply \notin Odd

DeniedBefore == Corpus /\ \E a \in attempts : a.reply = "denied"

Refuse ==
    /\ place = "inventory"
    /\ ~ (AttemptsIndexed /\ Accounted)
    /\ Ends(IF AttemptsIndexed /\ DeniedBefore THEN "denied" ELSE "refused")

StayDenied ==
    /\ place = "inventory"
    /\ AttemptsIndexed /\ Accounted /\ DeniedBefore
    /\ Ends("denied")

Complete(described_) == \A e \in Endpoint : described_[e] # Nothing /\ Original(e) # {}

Reuse ==
    /\ place = "inventory"
    /\ AttemptsIndexed /\ Accounted /\ ~ DeniedBefore
    /\ complete /\ Complete(described) /\ Same
    /\ Ends("complete")

Resume ==
    /\ Step("inventory", "visit")
    /\ AttemptsIndexed /\ Accounted /\ ~ DeniedBefore
    /\ ~ complete
    /\ UNCHANGED <<leaf, at, reply, asked>>

-----------------------------------------------------------------------------
(* The endpoints in turn. *)

(* Described already; in the corpus, failed already. *)
Skip ==
    /\ Step("visit", "visit")
    /\ at <= Len(Endpoints)
    /\ described[Here] # Nothing \/ (Corpus /\ Here \in failed)
    /\ Corpus => Same
    /\ at' = at + 1
    /\ UNCHANGED <<leaf, reply, asked>>

Open(e) == described[e] = Nothing /\ (Corpus => e \notin failed)

(* _recover_source: a whole answer was captured before. *)
RecoverSource ==
    /\ Step("visit", "publish")
    /\ at <= Len(Endpoints) /\ Open(Here)
    /\ Cardinality(Original(Here)) = 1 /\ Same
    /\ \E r \in Original(Here) : source' = [source EXCEPT ![Here] = r]
    /\ reply' = source'[Here]
    /\ UNCHANGED <<leafMade, bound, capture, table, described, failed, complete, debris, at, asked>>

MutAsk ==
    /\ Step("visit", "answer")
    /\ at <= Len(Endpoints) /\ described[Here] = Nothing
    /\ Original(Here) = {} /\ Same /\ asked[Here] < MaxRequests
    /\ asked' = [asked EXCEPT ![Here] = @ + 1]
    /\ UNCHANGED <<leaf, at, reply>>

Ask ==
    /\ Step("visit", "answer")
    /\ at <= Len(Endpoints) /\ Open(Here)
    /\ Original(Here) = {} /\ Same /\ asked[Here] < MaxRequests
    /\ asked' = [asked EXCEPT ![Here] = @ + 1]
    /\ UNCHANGED <<leaf, at, reply>>

(* No answer at all: an optional failure for the corpus, the study stops.   *)
NoAnswer ==
    /\ place = "answer"
    /\ IF Corpus
       THEN Step("answer", "failure") /\ UNCHANGED <<leaf, at, reply, asked>>
       ELSE Ends("failed")

Answer(r) ==
    /\ Step("answer", "wire")
    /\ reply' = r
    /\ UNCHANGED <<leaf, at, asked>>

(* _capture_attempt.  The corpus keeps the bytes though its native revision *)
(* has changed meanwhile; the study's admission covers both.                *)
MayCapture == IF Corpus THEN SameGate ELSE Same

Wire ==
    /\ Step("wire", "note")
    /\ MayCapture
    /\ raw' = raw \cup {<<Here, reply>>}
    /\ UNCHANGED <<leafMade, bound, attempts, index, artifacts, complete, debris, at, reply, asked>>

Note ==
    /\ Step("note", "index")
    /\ MayCapture
    /\ attempts' = attempts \cup {[endpoint |-> Here, number |-> asked[Here], reply |-> reply]}
    /\ UNCHANGED <<leafMade, bound, raw, index, artifacts, complete, debris, at, reply, asked>>

Index ==
    /\ Step("index", "judge")
    /\ MayCapture
    /\ index' = attempts
    /\ UNCHANGED <<leafMade, bound, raw, attempts, artifacts, complete, debris, at, reply, asked>>

-----------------------------------------------------------------------------
(* What the answer was. *)

Denied == place = "judge" /\ reply = "denied" /\ Ends("denied")

Unacceptable ==
    /\ place = "judge"
    /\ reply \in Odd \/ (~ Corpus /\ reply \in {"error", "broken", "foreign"})
    /\ Ends(IF Corpus THEN "stopped" ELSE "failed")

ErrorAnswer ==
    /\ Step("judge", "failure")
    /\ Corpus /\ reply = "error"
    /\ UNCHANGED <<leaf, at, reply, asked>>

Accept ==
    /\ Step("judge", "point")
    /\ reply \in (IF Corpus THEN Whole ELSE Usable)
    /\ UNCHANGED <<leaf, at, reply, asked>>

Point ==
    /\ Step("point", "publish")
    /\ Same
    /\ source' = [source EXCEPT ![Here] = reply]
    /\ UNCHANGED <<leafMade, bound, capture, table, described, failed, complete, debris, at, reply, asked>>

Malformed ==
    /\ Step("publish", "failure")
    /\ Corpus /\ reply = "broken"
    /\ UNCHANGED <<leaf, at, reply, asked>>

Conflicting ==
    /\ place = "publish"
    /\ reply = "foreign" \/ (~ Corpus /\ reply = "broken")
    /\ Ends(IF Corpus THEN "stopped" ELSE "failed")

StartColumns ==
    /\ Step("publish", "columns")
    /\ reply \in Usable /\ Same
    /\ UNCHANGED <<leaf, at, reply, asked>>

Columns ==
    /\ Step("columns", "describe")
    /\ Same
    /\ table' = [table EXCEPT ![Here] = source[Here]]
    /\ UNCHANGED <<leafMade, bound, capture, source, described, failed, complete, debris, at, reply, asked>>

Describe ==
    /\ Step("describe", "visit")
    /\ Same
    /\ described' = [described EXCEPT ![Here] = source[Here]]
    /\ at' = at + 1 /\ reply' = Nothing
    /\ UNCHANGED <<leafMade, bound, capture, source, table, failed, complete, debris, asked>>

Failure ==
    /\ Step("failure", "visit")
    /\ Same
    /\ failed' = failed \cup {Here}
    /\ at' = at + 1 /\ reply' = Nothing
    /\ UNCHANGED <<leafMade, bound, capture, source, table, described, complete, debris, asked>>

-----------------------------------------------------------------------------
(* The report, and the last look at the authority. *)

Partial ==
    /\ place = "visit" /\ at > Len(Endpoints)
    /\ failed # {} /\ Same
    /\ Ends("partial")

MutAllVisited ==
    /\ Step("visit", "seal")
    /\ at > Len(Endpoints)
    /\ AttemptsIndexed /\ (Corpus => Same)
    /\ UNCHANGED <<leaf, at, reply, asked>>

AllVisited ==
    /\ Step("visit", "seal")
    /\ at > Len(Endpoints)
    /\ failed = {} /\ AttemptsIndexed /\ (Corpus => Same)
    /\ UNCHANGED <<leaf, at, reply, asked>>

Seal ==
    /\ Step("seal", "finish")
    /\ Same
    /\ complete' = TRUE
    /\ UNCHANGED <<leafMade, bound, capture, artifacts, debris, at, reply, asked>>

Leave == place = "finish" /\ Same /\ Ends("complete")

(* A check finds an input changed: the run stops where it is. *)
LoseAuthority ==
    /\ place # "off" /\ ~ Same
    /\ place \in {"wire", "note", "index"} => ~ MayCapture
    /\ place' = "off" /\ outcome' = "stopped"
    /\ at' = 1 /\ reply' = Nothing
    /\ torn' = (torn \/ place \in {"bind", "note", "index"})
    /\ UNCHANGED <<flow, authority, leaf, pin, deaths, changes, asked>>

(* The process dies, or a write is refused; a temporary may stay behind.    *)
Die ==
    /\ place # "off" /\ deaths < MaxDeaths
    /\ deaths' = deaths + 1
    /\ debris' \in {debris, debris \/ place \in Writing}
    /\ torn' = (torn \/ place \in {"bind", "note", "index"})
    /\ place' = "off" /\ outcome' = Nothing
    /\ at' = 1 /\ reply' = Nothing
    /\ UNCHANGED <<flow, authority, leafMade, bound, capture, artifacts, complete, pin, changes, asked>>

(* Another command publishes a catalog, a plan or a native revision. *)
Change(i) ==
    /\ changes < MaxChanges
    /\ changes' = changes + 1
    /\ authority' = [authority EXCEPT ![i] = @ + 1]
    /\ UNCHANGED <<flow, leaf, place, running, outcome, deaths, asked, torn>>

EnrichmentNext ==
    \/ StudyAdmits \/ CorpusAdmits \/ MakeLeaf \/ Bind \/ Refuse \/ StayDenied \/ Reuse \/ Resume
    \/ Skip \/ RecoverSource \/ Ask \/ NoAnswer \/ (\E r \in Reply : Answer(r))
    \/ Wire \/ Note \/ Index
    \/ Denied \/ Unacceptable \/ ErrorAnswer \/ Accept \/ Point \/ Malformed \/ Conflicting
    \/ StartColumns \/ Columns \/ Describe \/ Failure
    \/ Partial \/ AllVisited \/ Seal \/ Leave
    \/ LoseAuthority \/ Die \/ (\E i \in Input : Change(i))

-----------------------------------------------------------------------------
(* A complete leaf claims nothing that was not observed: every endpoint's   *)
(* record, table and pointer are made from the one whole answer an indexed  *)
(* attempt of it holds, no endpoint failed, and no attempt was denied.      *)
Observed ==
    /\ failed = {}
    /\ index = attempts
    /\ \A e \in Endpoint :
        /\ described[e] \in Usable
        /\ table[e] = described[e] /\ source[e] = described[e]
        /\ Original(e) = {described[e]}
        /\ <<e, described[e]>> \in raw
    /\ Corpus => \A a \in attempts : a.reply \in Usable \cup {"error"}
CompleteIsObserved == complete => Observed

(* What was answered is not asked for again.  In the corpus an endpoint is  *)
(* asked for once, and again only because a run died with the answer in     *)
(* flight or before it could note the failure; whole answers are never      *)
(* asked for again by either, nor anything by the corpus once a denial has  *)
(* reached the disk.                                                        *)
AskedOnce ==
    [][\A e \in Endpoint : asked'[e] # asked[e] =>
        /\ \A r \in Whole : <<e, r>> \notin raw
        /\ Corpus =>
            /\ asked[e] <= deaths
            /\ \A f \in Endpoint : <<f, "denied">> \notin raw
            /\ e \notin failed]_enrichmentVars

(* A run refuses a leaf an earlier one left only if that one was cut short  *)
(* while it made the leaf or captured an answer, left a temporary behind,   *)
(* got an answer that no run may use, or belonged to another authority:     *)
(* dying between pointer, table, record, failure and report costs nothing.  *)
RefusedOnlyIfTorn ==
    outcome = "refused" =>
        \/ torn \/ debris
        \/ authority # [i \in Input |-> 0]
        \/ \E a \in attempts : a.reply \in Odd \cup {"broken", "foreign"}

(* What a run says of a leaf is so: that it is complete, and that it cannot *)
(* be gone on with.                                                         *)
VerdictsHold == CompleteIsObserved /\ RefusedOnlyIfTorn
===============================================================================
