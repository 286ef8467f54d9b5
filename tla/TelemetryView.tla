---------------------------- MODULE TelemetryView -----------------------------
(***************************************************************************)
(* The telemetry page (apps/web/src/features/telemetry/useTelemetryData    *)
(* .ts): a selection, and three things loaded one after the other for it:  *)
(* the catalog, the laps of its subject, the bundle of its laps.           *)
(*                                                                         *)
(* What the user does is handled, rendered and followed by its effects at  *)
(* once.  What a response changes is rendered later (Commit), and the      *)
(* effects of that run later still (Effects); anything may happen between. *)
(* A handler sees the selection as last rendered, and what it sets comes   *)
(* after what responses had set before it.  An effect whose dependencies   *)
(* changed aborts its request, and may send another.                       *)
(***************************************************************************)
EXTENDS FiniteSets

CONSTANTS
    Subject,       \* a session, a revision of it, and its drivers
    Lap, LapsOf,   \* the laps that exist for a subject
    Fastest,       \* fastestValidLap of a subject, or Undefined
    Undefined

ASSUME ViewAssumption ==
    /\ LapsOf \in [Subject -> SUBSET Lap]
    /\ \A x \in Subject : Fastest[x] \in LapsOf[x] \cup {Undefined}
    /\ Undefined \notin Subject \cup Lap
    /\ \A of \in [about : Subject, lap : Lap], what \in {"traces", "extras"} :
         Undefined # [of |-> of, part |-> what]
    /\ \A of \in [about : Subject, lap : Lap], what \in {"ready", "error"} :
         Undefined # [kind |-> what, of |-> of]

VARIABLES
    sel,           \* selection, as rendered
    sess, catalog, \* sessions: its kind and data
    laps,          \* laps: its kind
    bundle,        \* bundle: its kind, and what it is of
    pend,          \* what responses have set and no render has shown
    kept,          \* the selection has not been set after them
    due,           \* a render whose effects have not run
    ran,           \* the dependencies the effects last ran with
    asked          \* the requests in flight that have not been aborted

viewVars == <<sel, sess, catalog, laps, bundle, pend, kept, due, ran, asked>>

\* A selection; `ref' is an unresolved contextReference, `check' validateContextLaps.
Selection == [ref : Subject \cup {Undefined}, about : Subject \cup {Undefined},
              lap : Lap \cup {Undefined}, check : BOOLEAN]
Pair == [about : Subject, lap : Lap]
Loading == [kind |-> "loading", of |-> Undefined]
NothingPending == [sess |-> Undefined, laps |-> Undefined, pair |-> Undefined]

\* The conditions under which an effect sends its request.
Ready(ss) == ss = "ready"
UnavailableSession(s, ss, c) == Ready(ss) /\ s.about # Undefined /\ s.about \notin c
UnavailableContext(s, ss) == Ready(ss) /\ s.ref # Undefined
WantsLaps(s, ss, c) ==
    /\ Ready(ss) /\ s.about # Undefined
    /\ ~ UnavailableSession(s, ss, c) /\ ~ UnavailableContext(s, ss)
WantsPair(s, ss, c) == WantsLaps(s, ss, c) /\ ~ s.check /\ s.lap # Undefined

LapsDeps(s, ss, c) == <<s.about, Ready(ss), UnavailableSession(s, ss, c), UnavailableContext(s, ss)>>
MutPairDeps(s, ss, c) == <<LapsDeps(s, ss, c), s.check>>
PairDeps(s, ss, c) == <<LapsDeps(s, ss, c), s.check, s.lap>>
Deps(s, ss, c) == [laps |-> LapsDeps(s, ss, c), pair |-> PairDeps(s, ss, c)]

ViewInit ==
    /\ sel \in {s \in Selection : ~ s.check}
    /\ sess = "loading" /\ catalog = {}
    /\ laps = "loading" /\ bundle = Loading
    /\ pend = NothingPending /\ kept = TRUE /\ due = FALSE
    /\ ran = Deps(sel, sess, catalog)
    /\ asked = [sess |-> TRUE, laps |-> Undefined, pair |-> Undefined]

(* The effects, for what is rendered.  `again' and `context' are the changes *)
(* of retry and contextRequest, `begun' that the epoch was begun anew.       *)
RunEffects(s, ss, c, again, context, begun) ==
    LET lapsAgain == again \/ context \/ ran.laps # LapsDeps(s, ss, c)
        pairAgain == again \/ ran.pair # PairDeps(s, ss, c)
    IN /\ ran' = Deps(s, ss, c)
       /\ asked' =
            [sess |-> again \/ asked.sess,
             laps |-> IF ~ lapsAgain THEN asked.laps
                      ELSE IF WantsLaps(s, ss, c) THEN s.about ELSE Undefined,
             pair |-> IF ~ pairAgain THEN (IF begun THEN Undefined ELSE asked.pair)
                      ELSE IF WantsPair(s, ss, c) THEN [of |-> [about |-> s.about, lap |-> s.lap], part |-> "traces"]
                      ELSE Undefined]

\* What a new selection resets, compared with the one the handler sees.
MutNewPair(next) == next.about # sel.about
NewSubject(next) == next.about # sel.about
NewPair(next) == next.about # sel.about \/ next.lap # sel.lap

SetSelection(next, context) ==
    /\ ~ due
    /\ sel' = next /\ kept' = FALSE
    /\ laps' = IF NewSubject(next) THEN "loading" ELSE laps
    /\ bundle' = IF NewPair(next) THEN Loading ELSE bundle
    /\ pend' = [pend EXCEPT !.laps = IF NewSubject(next) THEN Undefined ELSE pend.laps,
                            !.pair = IF NewPair(next) THEN Undefined ELSE pend.pair]
    /\ RunEffects(next, sess, catalog, FALSE, context, NewPair(next))
    /\ UNCHANGED <<sess, catalog, due>>

-----------------------------------------------------------------------------
(* The user: another session, driver or lap, or another view of the same. *)
ChooseSubject ==
    /\ Ready(sess)
    /\ \E x \in catalog :
         SetSelection([ref |-> Undefined, about |-> x, lap |-> Undefined, check |-> FALSE], FALSE)
ChooseDriver ==
    /\ Ready(sess) /\ sel.about # Undefined
    /\ \E x \in catalog : SetSelection([sel EXCEPT !.about = x, !.lap = Undefined], FALSE)
ChooseLap ==
    /\ Ready(sess) /\ laps = "ready" /\ sel.about # Undefined
    /\ \E l \in LapsOf[sel.about] : SetSelection([sel EXCEPT !.lap = l], FALSE)
ChangeView == Ready(sess) /\ SetSelection(sel, FALSE)

\* A context that the catalog knows is resolved; its laps are still to be checked.
Resolve(s, c) ==
    IF s.ref \in c
    THEN {[ref |-> Undefined, about |-> s.ref, lap |-> l, check |-> TRUE] : l \in {s.lap, Undefined}}
    ELSE {s}

(* Back and forward. *)
PopState ==
    \E parsed \in {s \in Selection : ~ s.check /\ (s.ref = Undefined \/ s.about = Undefined)} :
        \E next \in IF Ready(sess) THEN Resolve(parsed, catalog) ELSE {parsed} :
            SetSelection(next, next.check)

Retry ==
    /\ ~ due
    /\ sess' = "loading" /\ laps' = "loading" /\ bundle' = Loading
    /\ pend' = NothingPending
    /\ RunEffects(sel, "loading", catalog, TRUE, FALSE, FALSE)
    /\ UNCHANGED <<sel, catalog, kept, due>>

-----------------------------------------------------------------------------
(* Responses, each of a request that has not been aborted. *)
SessionsArrive ==
    /\ asked.sess
    /\ asked' = [asked EXCEPT !.sess = FALSE]
    /\ \E answer \in [ok : BOOLEAN, data : SUBSET Subject] :
         pend' = [pend EXCEPT !.sess = answer]
    /\ kept' = TRUE
    /\ UNCHANGED <<sel, sess, catalog, laps, bundle, due, ran>>

LapsArrive ==
    /\ asked.laps # Undefined
    /\ asked' = [asked EXCEPT !.laps = Undefined]
    /\ \E ok \in BOOLEAN : pend' = [pend EXCEPT !.laps = [ok |-> ok, of |-> asked.laps]]
    /\ kept' = TRUE
    /\ UNCHANGED <<sel, sess, catalog, laps, bundle, due, ran>>

(* The comparison and the traces, all or none. *)
TracesArrive ==
    /\ asked.pair # Undefined
    /\ asked.pair.part = "traces"
    /\ \/ /\ asked.pair.of.lap \in LapsOf[asked.pair.of.about]
          /\ asked' = [asked EXCEPT !.pair.part = "extras"]
          /\ UNCHANGED pend
       \/ /\ asked' = [asked EXCEPT !.pair = Undefined]
          /\ pend' = [pend EXCEPT !.pair = [kind |-> "error", of |-> asked.pair.of]]
    /\ UNCHANGED <<sel, sess, catalog, laps, bundle, kept, due, ran>>

(* Corners and microsectors, which may fail. *)
ExtrasArrive ==
    /\ asked.pair # Undefined
    /\ asked.pair.part = "extras"
    /\ asked' = [asked EXCEPT !.pair = Undefined]
    /\ pend' = [pend EXCEPT !.pair = [kind |-> "ready", of |-> asked.pair.of]]
    /\ UNCHANGED <<sel, sess, catalog, laps, bundle, kept, due, ran>>

-----------------------------------------------------------------------------
\* What the responses make of the selection.
WithCatalog(s) ==
    IF pend.sess = Undefined \/ ~ pend.sess.ok THEN {s}
    ELSE LET c == pend.sess.data
         IN IF s.ref # Undefined THEN Resolve(s, c)
            ELSE IF s.about # Undefined \/ c = {} THEN {s}
            ELSE {[s EXCEPT !.about = x] : x \in c}
WithLaps(s) ==
    IF pend.laps = Undefined \/ ~ pend.laps.ok THEN s
    ELSE LET of == pend.laps.of
             l == IF (s.check /\ s.lap \in LapsOf[of]) \/ (~ s.check /\ s.lap # Undefined)
                  THEN s.lap ELSE Fastest[of]
         IN [s EXCEPT !.lap = l, !.check = FALSE]

Kind(answer, old) == IF answer = Undefined THEN old ELSE IF answer.ok THEN "ready" ELSE "error"

Commit ==
    /\ pend # NothingPending
    /\ ~ due
    /\ \E s \in IF kept THEN WithCatalog(sel) ELSE {sel} :
         sel' = IF kept THEN WithLaps(s) ELSE s
    /\ sess' = Kind(pend.sess, sess)
    /\ catalog' = IF sess' = "ready" /\ pend.sess # Undefined THEN pend.sess.data ELSE catalog
    /\ laps' = Kind(pend.laps, laps)
    /\ bundle' = IF pend.pair = Undefined THEN bundle ELSE pend.pair
    /\ pend' = NothingPending /\ kept' = TRUE
    /\ due' = TRUE
    /\ UNCHANGED <<ran, asked>>

Effects ==
    /\ due
    /\ due' = FALSE
    /\ RunEffects(sel, sess, catalog, FALSE, FALSE, FALSE)
    /\ UNCHANGED <<sel, sess, catalog, laps, bundle, pend, kept>>

ViewNext ==
    \/ ChooseSubject \/ ChooseDriver \/ ChooseLap \/ ChangeView \/ PopState \/ Retry
    \/ SessionsArrive \/ LapsArrive \/ TracesArrive \/ ExtrasArrive
    \/ Commit \/ Effects

-----------------------------------------------------------------------------
(* The comparison on the page is of the laps selected on the page: no response *)
(* that was overtaken by a choice, by the history or by another response is    *)
(* ever shown as the answer to what is selected now.                           *)
ShownIsSelected ==
    bundle.kind = "ready" => bundle.of = [about |-> sel.about, lap |-> sel.lap]

(* The page never waits for nothing: while it says that it loads the bundle of  *)
(* a complete selection, a request is in flight, or an answer or an effect due. *)
NeverWaitsForNothing ==
    bundle.kind = "loading" /\ WantsPair(sel, sess, catalog)
      => asked.pair # Undefined \/ pend # NothingPending \/ due
=============================================================================
