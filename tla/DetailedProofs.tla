---------------------------- MODULE DetailedProofs ----------------------------
(***************************************************************************)
(* Proofs about the detailed store with its service (DetailedStore), the   *)
(* telemetry page (TelemetryView), the storage study (Acquisition) and the *)
(* catalog of sessions (Completion): what is answered is of the revision   *)
(* it is labelled with, what is shown is of what is selected, a page that  *)
(* loads has something to wait for, a measurement is of one attempt, an    *)
(* interrupted study can be resumed, what is called completed is over.     *)
(***************************************************************************)
EXTENDS Completion, Acquisition, DetailedStore, TelemetryView, SequenceTheorems, FiniteSetTheorems, TLAPS

StoreSpec == StoreInit /\ [][StoreNext]_storeVars

Publication == [pc : {"off", "place", "validate", "point"}, revision : Revision \cup {None}]
Request == [pc : {"off", "pin", "cached", "laps", "samples", "keep"}, product : Product \cup {None},
            asked : Revision \cup {None}, pinned : Revision \cup {None}, read : SUBSET Revision]
Answer == [key : (Product \cup {None}) \X Revision, read : SUBSET Revision]

StoreType ==
    /\ placed \subseteq Revision /\ active \in Revision \cup {None}
    /\ publishing \in [Publisher -> Publication]
    /\ \A p \in Publisher : publishing[p].pc # "off" => publishing[p].revision \in Revision
    /\ call \in [Worker -> Request] /\ cache \in Seq(Answer)

(* A request has read its revision, and nothing before it is pinned. *)
PinnedInv(c) ==
    /\ c.pc \in {"cached", "laps", "samples", "keep"} => c.pinned \in Revision
    /\ c.read = IF c.pc \in {"samples", "keep"} THEN {c.pinned} ELSE {}

Labelled(q) == \A i \in 1..Len(q) : q[i].read = {q[i].key[2]}

StoreInv == StoreType /\ (\A w \in Worker : PinnedInv(call[w])) /\ Labelled(cache)

LEMMA OneOut ==
  ASSUME NEW q \in Seq(Answer), Labelled(q), NEW i \in 1..Len(q)
  PROVE  RemoveAt(q, i) \in Seq(Answer) /\ Labelled(RemoveAt(q, i))
<1> DEFINE a == SubSeq(q, 1, i - 1)
           b == SubSeq(q, i + 1, Len(q))
<1>1. Len(q) \in Nat
  OBVIOUS
<1>2. /\ a \in Seq(Answer) /\ Len(a) = i - 1
      /\ \A j \in 1..(i - 1) : a[j] = q[j]
  BY <1>1, SubSeqProperties
<1>3. /\ b \in Seq(Answer) /\ Len(b) = Len(q) - i
      /\ \A j \in 1..(Len(q) - i) : b[j] = q[i + j]
  BY <1>1, SubSeqProperties
<1> HIDE DEF a, b
<1>4. /\ a \o b \in Seq(Answer) /\ Len(a \o b) = Len(a) + Len(b)
      /\ \A j \in 1..(Len(a) + Len(b)) : (a \o b)[j] = IF j <= Len(a) THEN a[j] ELSE b[j - Len(a)]
  BY <1>2, <1>3, ConcatProperties
<1>5. \A j \in 1..Len(a \o b) : \E k \in 1..Len(q) : (a \o b)[j] = q[k]
  <2> SUFFICES ASSUME NEW j \in 1..Len(a \o b)
               PROVE  \E k \in 1..Len(q) : (a \o b)[j] = q[k]
    OBVIOUS
  <2>1. CASE j <= i - 1
    BY <1>1, <1>2, <1>3, <1>4, <2>1
  <2>2. CASE j > i - 1
    <3>1. j - Len(a) \in 1..(Len(q) - i) /\ i + (j - Len(a)) \in 1..Len(q)
      BY <1>1, <1>2, <1>3, <1>4, <2>2
    <3>2. (a \o b)[j] = q[i + (j - Len(a))]
      BY <1>1, <1>2, <1>3, <1>4, <2>2, <3>1
    <3> QED
      BY <3>1, <3>2
  <2> QED
    BY <1>1, <1>2, <1>3, <1>4, <2>1, <2>2
<1>6. a \o b = RemoveAt(q, i)
  BY DEF RemoveAt, a, b
<1> QED
  BY <1>4, <1>5, <1>6 DEF Labelled

LEMMA OneIn ==
  ASSUME NEW q \in Seq(Answer), Labelled(q), NEW e \in Answer, e.read = {e.key[2]}
  PROVE  Append(q, e) \in Seq(Answer) /\ Labelled(Append(q, e))
<1> DEFINE t == Append(q, e)
<1>1. /\ t \in Seq(Answer) /\ Len(t) = Len(q) + 1
      /\ \A i \in 1..Len(q) : t[i] = q[i]
      /\ t[Len(q) + 1] = e
  BY AppendProperties
<1>2. Len(q) \in Nat
  OBVIOUS
<1> HIDE DEF t
<1>3. \A i \in 1..Len(t) : i \in 1..Len(q) \/ i = Len(q) + 1
  BY <1>1, <1>2
<1>4. Labelled(t)
  BY <1>1, <1>3 DEF Labelled
<1> QED
  BY <1>1, <1>4 DEF t

LEMMA OthersLabelled ==
  ASSUME cache \in Seq(Answer), Labelled(cache), NEW key
  PROVE  Others(key) \in Seq(Answer) /\ Labelled(Others(key))
<1>1. CASE Held(key) = {}
  BY <1>1 DEF Others
<1>2. CASE Held(key) # {}
  <2>1. (CHOOSE i \in Held(key) : TRUE) \in 1..Len(cache)
    BY <1>2 DEF Held
  <2> QED
    BY <1>2, <2>1, OneOut DEF Others
<1> QED
  BY <1>1, <1>2

LEMMA NewestLabelled ==
  ASSUME NEW q \in Seq(Answer), Labelled(q)
  PROVE  Newest(q) \in Seq(Answer) /\ Labelled(Newest(q))
<1> DEFINE m == (IF Len(q) > CacheLimit THEN Len(q) - CacheLimit ELSE 0) + 1
           t == SubSeq(q, m, Len(q))
<1>1. Len(q) \in Nat /\ CacheLimit \in Nat \ {0}
  BY StoreAssumption
<1>2. m \in 1..(Len(q) + 1)
  BY <1>1
<1>3. t = Newest(q)
  BY DEF Newest
<1> HIDE DEF m
<1>4. \A i \in m..Len(q) : q[i] \in Answer
  BY <1>1, <1>2
<1>5. /\ t \in Seq(Answer) /\ Len(t) = IF m <= Len(q) THEN Len(q) - m + 1 ELSE 0
      /\ \A i \in 1..(Len(q) - m + 1) : t[i] = q[m + i - 1]
  BY <1>1, <1>2, <1>4, SubSeqProperties
<1> HIDE DEF t
<1>6. \A i \in 1..Len(t) : m + i - 1 \in 1..Len(q) /\ t[i] = q[m + i - 1]
  BY <1>1, <1>2, <1>5
<1>7. Labelled(t)
  BY <1>6 DEF Labelled
<1> QED
  BY <1>3, <1>5, <1>7

LEMMA PublisherInv ==
  ASSUME StoreInv, NEW p \in Publisher, PublisherStep(p)
  PROVE  StoreInv'
<1>1. call' = call /\ cache' = cache
  BY DEF PublisherStep, Publish, Put, Validate, PointAt, Abandon, Moves
<1>2. StoreType'
  <2> USE DEF StoreInv, StoreType, Publication
  <2>1. CASE Publish(p)
    BY <2>1 DEF Publish
  <2>2. CASE Put(p)
    BY <2>2 DEF Put, Moves
  <2>3. CASE Validate(p)
    BY <2>3 DEF Validate, Moves
  <2>4. CASE PointAt(p)
    BY <2>4 DEF PointAt, NotPublishing
  <2>5. CASE Abandon(p)
    BY <2>5 DEF Abandon, NotPublishing
  <2> QED
    BY <2>1, <2>2, <2>3, <2>4, <2>5 DEF PublisherStep
<1> QED
  BY <1>1, <1>2 DEF StoreInv

(* One request moves on. *)
LEMMA OneRequest ==
  ASSUME StoreInv, NEW w \in Worker, NEW c \in Request, PinnedInv(c),
         call' = [call EXCEPT ![w] = c],
         UNCHANGED <<placed, active, publishing>>, cache' \in Seq(Answer), Labelled(cache')
  PROVE  StoreInv'
<1>1. call' \in [Worker -> Request]
  BY DEF StoreInv, StoreType
<1>2. \A v \in Worker : PinnedInv(call'[v])
  BY DEF StoreInv, StoreType
<1> QED
  BY <1>1, <1>2 DEF StoreInv, StoreType

LEMMA WorkerInv ==
  ASSUME StoreInv, NEW w \in Worker, WorkerStep(w)
  PROVE  StoreInv'
<1>1. /\ call[w] \in Request /\ PinnedInv(call[w]) /\ cache \in Seq(Answer) /\ Labelled(cache)
      /\ placed \subseteq Revision /\ active \in Revision \cup {None} /\ None \notin Revision
  BY StoreAssumption DEF StoreInv, StoreType
<1>2. NoCall \in Request /\ PinnedInv(NoCall)
  BY DEF NoCall, Request, PinnedInv
<1>3. CASE Ask(w)
  <2>1. PICK a \in Revision \cup {None}, x \in Product :
          call' = [call EXCEPT ![w] = [NoCall EXCEPT !.pc = "pin", !.asked = a, !.product = x]]
    BY <1>3 DEF Ask
  <2>2. /\ [NoCall EXCEPT !.pc = "pin", !.asked = a, !.product = x] \in Request
        /\ PinnedInv([NoCall EXCEPT !.pc = "pin", !.asked = a, !.product = x])
    BY DEF NoCall, Request, PinnedInv
  <2> QED
    BY <1>1, <1>3, <2>1, <2>2, OneRequest DEF Ask, storeSide
<1>4. CASE Pin(w)
  <2> DEFINE r == Manifest(call[w].asked)
             c == IF r \in placed THEN [call[w] EXCEPT !.pc = "cached", !.pinned = r] ELSE NoCall
  <2>1. call' = [call EXCEPT ![w] = c] /\ call[w].pc = "pin"
        /\ UNCHANGED <<placed, active, publishing, cache>>
    BY <1>4 DEF Pin, storeSide
  <2>2. c \in Request /\ PinnedInv(c)
    BY <1>1, <1>2, <2>1 DEF Request, PinnedInv
  <2> QED
    BY <1>1, <2>1, <2>2, OneRequest
<1>5. CASE Lookup(w)
  <2>1. UNCHANGED <<placed, active, publishing>> /\ call[w].pc = "cached"
    BY <1>5 DEF Lookup, storeSide
  <2>2. ASSUME NEW i \in Held(Key(w)), cache' = Append(RemoveAt(cache, i), cache[i]),
               call' = [call EXCEPT ![w] = NoCall]
        PROVE  StoreInv'
    <3>1. i \in 1..Len(cache) /\ cache[i] \in Answer /\ cache[i].read = {cache[i].key[2]}
      BY <1>1 DEF Held, Labelled
    <3>2. cache' \in Seq(Answer) /\ Labelled(cache')
      BY <1>1, <2>2, <3>1, OneOut, OneIn
    <3> QED
      BY <1>2, <2>1, <2>2, <3>2, OneRequest
  <2>3. ASSUME call' = [call EXCEPT ![w].pc = "laps"], cache' = cache
        PROVE  StoreInv'
    <3>1. [call[w] EXCEPT !.pc = "laps"] \in Request /\ PinnedInv([call[w] EXCEPT !.pc = "laps"])
      BY <1>1, <2>1 DEF Request, PinnedInv
    <3>2. call' = [call EXCEPT ![w] = [call[w] EXCEPT !.pc = "laps"]]
      BY <2>3
    <3> QED
      BY <1>1, <2>1, <2>3, <3>1, <3>2, OneRequest
  <2> QED
    BY <1>5, <2>2, <2>3 DEF Lookup
<1>6. ASSUME NEW from \in {"laps", "samples"}, NEW to \in {"samples", "keep"},
             Reads(w, from, to)
      PROVE  StoreInv'
  <2> DEFINE r == Manifest(call[w].pinned)
             c == IF r \in spoiled THEN NoCall
                  ELSE [call[w] EXCEPT !.pc = to, !.read = call[w].read \cup {r}]
  <2>1. /\ call' = [call EXCEPT ![w] = c] /\ call[w].pc = from
        /\ UNCHANGED <<placed, active, publishing, cache>>
    BY <1>6 DEF Reads, storeSide
  <2>2. r = call[w].pinned /\ call[w].pinned \in Revision
        /\ (call[w].read = {} \/ call[w].read = {call[w].pinned})
    BY <1>1, <2>1 DEF Manifest, PinnedInv
  <2>3. c \in Request /\ PinnedInv(c)
    BY <1>1, <1>2, <2>2 DEF Request, PinnedInv
  <2> QED
    BY <1>1, <2>1, <2>3, OneRequest
<1>7. CASE Keep(w)
  <2> DEFINE e == [key |-> Key(w), read |-> call[w].read]
  <2>1. /\ call[w].pc = "keep" /\ call' = [call EXCEPT ![w] = NoCall]
        /\ cache' = Newest(Append(Others(Key(w)), e))
        /\ UNCHANGED <<placed, active, publishing>>
    BY <1>7 DEF Keep, storeSide
  <2>2. e \in Answer /\ e.read = {e.key[2]}
    BY <1>1, <2>1 DEF Answer, Key, Request, PinnedInv
  <2>3. cache' \in Seq(Answer) /\ Labelled(cache')
    BY <1>1, <2>1, <2>2, OthersLabelled, OneIn, NewestLabelled
  <2> QED
    BY <1>2, <2>1, <2>3, OneRequest
<1> QED
  BY <1>3, <1>4, <1>5, <1>6, <1>7 DEF WorkerStep, ReadLaps, ReadSamples

(* An answer labelled with a revision is of that revision, whatever was     *)
(* published while it was computed, for any number of revisions, publishers *)
(* and workers, and any size of the cache.                                  *)
THEOREM AnswersArePinned == StoreSpec => []PinnedAnswers
<1>1. StoreInit => StoreInv
  <2> SUFFICES ASSUME StoreInit PROVE StoreInv
    OBVIOUS
  <2>1. cache = <<>> /\ Len(cache) = 0 /\ cache \in Seq(Answer)
    BY DEF StoreInit
  <2> QED
    BY <2>1 DEF StoreInit, StoreInv, StoreType, Publication, NotPublishing, Request, NoCall,
       PinnedInv, Labelled
<1>2. StoreInv /\ [StoreNext]_storeVars => StoreInv'
  <2> SUFFICES ASSUME StoreInv, [StoreNext]_storeVars PROVE StoreInv'
    OBVIOUS
  <2>1. CASE SpoilRevision
    BY <2>1 DEF SpoilRevision, StoreInv, StoreType
  <2>2. CASE UNCHANGED storeVars
    BY <2>2 DEF storeVars, StoreInv, StoreType
  <2> QED
    BY <2>1, <2>2, PublisherInv, WorkerInv DEF StoreNext
<1>3. StoreInv => PinnedAnswers
  <2> SUFFICES ASSUME StoreInv PROVE PinnedAnswers
    OBVIOUS
  <2>1. DOMAIN cache = 1..Len(cache)
    BY DEF StoreInv, StoreType
  <2> QED
    BY <2>1 DEF StoreInv, Labelled, PinnedInv, PinnedAnswers
<1> QED
  BY <1>1, <1>2, <1>3, PTL DEF StoreSpec

-----------------------------------------------------------------------------
(* The page.  The inductive invariant is ViewInv. *)
ViewSpec == ViewInit /\ [][ViewNext]_viewVars

CatalogAnswer == [ok : BOOLEAN, data : SUBSET Subject]
LapsAnswer == [ok : BOOLEAN, of : Subject]
PairAnswer == [kind : {"ready", "error"}, of : Pair]
PairRequest == [of : Pair, part : {"traces", "extras"}]
Pending == [sess : CatalogAnswer \cup {Undefined}, laps : LapsAnswer \cup {Undefined},
            pair : PairAnswer \cup {Undefined}]
Asked == [sess : BOOLEAN, laps : Subject \cup {Undefined}, pair : PairRequest \cup {Undefined}]
Shown == [kind : {"loading", "ready", "error"}, of : Pair \cup {Undefined}]
SelectedPair == [about |-> sel.about, lap |-> sel.lap]

ViewType ==
    /\ sel \in Selection /\ sess \in {"loading", "ready", "error"} /\ catalog \in SUBSET Subject
    /\ pend \in Pending /\ asked \in Asked /\ bundle \in Shown
    /\ kept \in BOOLEAN /\ due \in BOOLEAN

(* Nothing but the catalog is asked for, or awaited, until there is one. *)
CatalogFirst ==
    /\ asked.sess => sess = "loading" /\ pend.sess = Undefined
    /\ pend.sess # Undefined => sess = "loading"
    /\ sess # "ready" => /\ asked.laps = Undefined /\ asked.pair = Undefined
                         /\ pend.laps = Undefined /\ pend.pair = Undefined
                         /\ bundle.kind # "ready"

(* What is asked for, awaited or shown is of the selection. *)
OfSelection ==
    /\ asked.laps # Undefined => asked.laps = sel.about
    /\ pend.laps # Undefined => pend.laps.of = sel.about
    /\ asked.pair # Undefined => asked.pair.of = SelectedPair /\ ~ sel.check
    /\ pend.pair # Undefined => pend.pair.of = SelectedPair
    /\ ShownIsSelected

(* A comparison is of laps that exist: the laps' answer keeps such a lap. *)
Exists(pair) == pair \in Pair /\ pair.lap \in LapsOf[pair.about]
OfExisting ==
    /\ asked.pair # Undefined /\ asked.pair.part = "extras" => Exists(asked.pair.of)
    /\ pend.pair # Undefined /\ pend.pair.kind = "ready" => Exists(pend.pair.of)
    /\ bundle.kind = "ready" => Exists(bundle.of)

(* The effects ran for what is rendered; a bundle they wanted is on its way. *)
Wants(d) == d[1][1] # Undefined /\ d[1][2] /\ ~ d[1][3] /\ ~ d[1][4] /\ ~ d[2] /\ d[3] # Undefined
EffectsInv ==
    /\ ~ due => ran = Deps(sel, sess, catalog)
    /\ bundle.kind = "loading" /\ Wants(ran.pair) => asked.pair # Undefined \/ pend.pair # Undefined

ViewInv == ViewType /\ CatalogFirst /\ OfSelection /\ OfExisting /\ EffectsInv

LEMMA DepsTell ==
  ASSUME NEW s \in Selection, NEW ss, NEW c \in SUBSET Subject
  PROVE  /\ WantsPair(s, ss, c) <=> Wants(PairDeps(s, ss, c))
         /\ PairDeps(s, ss, c)[1][1] = s.about
         /\ PairDeps(s, ss, c)[2] = s.check
         /\ PairDeps(s, ss, c)[3] = s.lap
         /\ LapsDeps(s, ss, c)[1] = s.about
<1>1. PairDeps(s, ss, c)[1][1] = s.about
  BY DEF PairDeps, LapsDeps
<1>2. PairDeps(s, ss, c)[2] = s.check
  BY DEF PairDeps, LapsDeps
<1>3. WantsPair(s, ss, c) <=> Wants(PairDeps(s, ss, c))
  BY DEF WantsPair, WantsLaps, UnavailableSession, UnavailableContext, Wants, PairDeps, LapsDeps,
     Selection, Ready
<1>4. LapsDeps(s, ss, c)[1] = s.about
  BY DEF PairDeps, LapsDeps
<1> QED
  BY <1>1, <1>2, <1>3, <1>4 DEF PairDeps

LEMMA RevisionsApart ==
  /\ Undefined \notin PairRequest /\ Undefined \notin PairAnswer
  /\ Undefined \notin Subject /\ Undefined \notin Lap
  /\ \A x \in Subject : LapsOf[x] \subseteq Lap /\ Fastest[x] \in Lap \cup {Undefined}
<1>1. Undefined \notin PairRequest
  BY ViewAssumption DEF PairRequest, Pair
<1>2. Undefined \notin PairAnswer
  BY ViewAssumption DEF PairAnswer, Pair
<1>3. \A x \in Subject : LapsOf[x] \subseteq Lap /\ Fastest[x] \in Lap \cup {Undefined}
  BY ViewAssumption
<1> QED
  BY <1>1, <1>2, <1>3, ViewAssumption

(* What the effects ask for is of what they see; what they leave alone was  *)
(* asked for in the same circumstances.                                     *)
LEMMA EffectsAsk ==
  ASSUME asked \in Asked, NEW s \in Selection, NEW ss, NEW c \in SUBSET Subject,
         NEW again \in BOOLEAN, NEW context \in BOOLEAN, NEW begun \in BOOLEAN,
         RunEffects(s, ss, c, again, context, begun)
  PROVE  /\ ran' = Deps(s, ss, c) /\ asked' \in Asked
         /\ asked'.sess = (again \/ asked.sess)
         /\ \/ asked'.laps = (IF WantsLaps(s, ss, c) THEN s.about ELSE Undefined)
            \/ asked'.laps = asked.laps /\ ~ again /\ ran.laps = LapsDeps(s, ss, c)
         /\ \/ asked'.pair = (IF WantsPair(s, ss, c)
                              THEN [of |-> [about |-> s.about, lap |-> s.lap], part |-> "traces"]
                              ELSE Undefined)
            \/ /\ asked'.pair = IF begun THEN Undefined ELSE asked.pair
               /\ ~ again /\ ran.pair = PairDeps(s, ss, c)
<1> DEFINE lapsAgain == again \/ context \/ ran.laps # LapsDeps(s, ss, c)
           pairAgain == again \/ ran.pair # PairDeps(s, ss, c)
           wanted == [of |-> [about |-> s.about, lap |-> s.lap], part |-> "traces"]
           lapsAsked == IF ~ lapsAgain THEN asked.laps
                        ELSE IF WantsLaps(s, ss, c) THEN s.about ELSE Undefined
           pairAsked == IF ~ pairAgain THEN (IF begun THEN Undefined ELSE asked.pair)
                        ELSE IF WantsPair(s, ss, c) THEN wanted ELSE Undefined
<1>1. ran' = Deps(s, ss, c) /\ asked' = [sess |-> again \/ asked.sess, laps |-> lapsAsked, pair |-> pairAsked]
  BY DEF RunEffects
<1>2. s.about \in Subject \cup {Undefined} /\ s.lap \in Lap \cup {Undefined}
  BY DEF Selection
<1>3. WantsPair(s, ss, c) => wanted \in PairRequest
  BY <1>2 DEF WantsPair, WantsLaps, PairRequest, Pair
<1>4. lapsAsked \in Subject \cup {Undefined} /\ pairAsked \in PairRequest \cup {Undefined}
  BY <1>2, <1>3 DEF Asked
<1>5. (again \/ asked.sess) \in BOOLEAN
  OBVIOUS
<1> HIDE DEF lapsAsked, pairAsked
<1>6. /\ asked' \in Asked /\ asked'.sess = (again \/ asked.sess)
      /\ asked'.laps = lapsAsked /\ asked'.pair = pairAsked
  BY <1>1, <1>4, <1>5 DEF Asked
<1> QED
  BY <1>1, <1>6 DEF lapsAsked, pairAsked

LEMMA WantsReady ==
  ASSUME NEW s, NEW ss, NEW c
  PROVE  /\ WantsPair(s, ss, c) => ss = "ready" /\ ~ s.check /\ s.about # Undefined /\ s.lap # Undefined
         /\ WantsLaps(s, ss, c) => ss = "ready"
BY DEF WantsPair, WantsLaps, Ready

(* What the user does. *)
LEMMA SetSelectionInv ==
  ASSUME ViewInv, NEW next \in Selection, NEW context \in BOOLEAN, SetSelection(next, context)
  PROVE  ViewInv'
<1> DEFINE newPair == NewPair(next)
<1>1. /\ ~ due /\ due' = due /\ sel' = next /\ kept' = FALSE /\ sess' = sess /\ catalog' = catalog
      /\ bundle' = IF newPair THEN Loading ELSE bundle
      /\ pend' = [pend EXCEPT !.laps = IF NewSubject(next) THEN Undefined ELSE pend.laps,
                              !.pair = IF newPair THEN Undefined ELSE pend.pair]
      /\ RunEffects(next, sess, catalog, FALSE, context, newPair)
  BY DEF SetSelection
<1>2. newPair \in BOOLEAN /\ (newPair <=> next.about # sel.about \/ next.lap # sel.lap)
      /\ (NewSubject(next) <=> next.about # sel.about)
  BY DEF NewPair, NewSubject
<1> HIDE DEF newPair
<1>3. /\ sel \in Selection /\ pend \in Pending /\ asked \in Asked /\ bundle \in Shown
      /\ catalog \in SUBSET Subject /\ sess \in {"loading", "ready", "error"}
      /\ ran = Deps(sel, sess, catalog)
  BY <1>1 DEF ViewInv, ViewType, EffectsInv
<1>4. /\ pend' \in Pending /\ pend'.sess = pend.sess
      /\ pend'.laps = (IF NewSubject(next) THEN Undefined ELSE pend.laps)
      /\ pend'.pair = (IF newPair THEN Undefined ELSE pend.pair)
  BY <1>1, <1>3 DEF Pending
<1>5. bundle' \in Shown /\ (newPair => bundle'.kind = "loading") /\ (~ newPair => bundle' = bundle)
  BY <1>1, <1>3 DEF Loading, Shown
<1>6. /\ ran' = Deps(next, sess, catalog) /\ asked' \in Asked
      /\ asked'.sess = asked.sess
      /\ \/ asked'.laps = (IF WantsLaps(next, sess, catalog) THEN next.about ELSE Undefined)
         \/ asked'.laps = asked.laps /\ ran.laps = LapsDeps(next, sess, catalog)
      /\ \/ asked'.pair = (IF WantsPair(next, sess, catalog)
                           THEN [of |-> [about |-> next.about, lap |-> next.lap], part |-> "traces"]
                           ELSE Undefined)
         \/ /\ asked'.pair = IF newPair THEN Undefined ELSE asked.pair
            /\ ran.pair = PairDeps(next, sess, catalog)
  <2>1. RunEffects(next, sess, catalog, FALSE, context, newPair)
    BY <1>1
  <2>2. asked \in Asked /\ catalog \in SUBSET Subject /\ newPair \in BOOLEAN /\ FALSE \in BOOLEAN
    BY <1>2, <1>3
  <2>3. /\ ran' = Deps(next, sess, catalog) /\ asked' \in Asked
        /\ asked'.sess = (FALSE \/ asked.sess)
        /\ \/ asked'.laps = (IF WantsLaps(next, sess, catalog) THEN next.about ELSE Undefined)
           \/ asked'.laps = asked.laps /\ ~ FALSE /\ ran.laps = LapsDeps(next, sess, catalog)
        /\ \/ asked'.pair = (IF WantsPair(next, sess, catalog)
                             THEN [of |-> [about |-> next.about, lap |-> next.lap], part |-> "traces"]
                             ELSE Undefined)
           \/ /\ asked'.pair = IF newPair THEN Undefined ELSE asked.pair
              /\ ~ FALSE /\ ran.pair = PairDeps(next, sess, catalog)
    BY <2>1, <2>2, EffectsAsk
  <2>4. asked.sess \in BOOLEAN
    BY <2>2 DEF Asked
  <2> QED
    BY <2>3, <2>4
<1>7. /\ ran.laps = LapsDeps(sel, sess, catalog) /\ ran.pair = PairDeps(sel, sess, catalog)
      /\ ran'.laps = LapsDeps(next, sess, catalog) /\ ran'.pair = PairDeps(next, sess, catalog)
  BY <1>3, <1>6 DEF Deps
<1>8. /\ ran.laps = LapsDeps(next, sess, catalog) => next.about = sel.about
      /\ ran.pair = PairDeps(next, sess, catalog) =>
            next.about = sel.about /\ next.lap = sel.lap /\ next.check = sel.check
  BY <1>3, <1>7, DepsTell
<1>9. ViewType'
  BY <1>1, <1>3, <1>4, <1>5, <1>6 DEF ViewInv, ViewType
<1>10. CatalogFirst'
  BY <1>1, <1>4, <1>5, <1>6, WantsReady DEF ViewInv, CatalogFirst
<1>11. SelectedPair' = [about |-> next.about, lap |-> next.lap]
       /\ (~ newPair => SelectedPair' = SelectedPair)
  BY <1>1, <1>2 DEF SelectedPair
<1>12. OfSelection'
  <2>1. asked'.laps # Undefined => asked'.laps = next.about
    BY <1>6, <1>8 DEF ViewInv, OfSelection
  <2>2. pend'.laps # Undefined => pend'.laps.of = next.about
    BY <1>2, <1>4 DEF ViewInv, OfSelection
  <2>3. asked'.pair # Undefined => asked'.pair.of = SelectedPair' /\ ~ next.check
    BY <1>2, <1>6, <1>8, <1>11, WantsReady DEF ViewInv, OfSelection
  <2>4. pend'.pair # Undefined => pend'.pair.of = SelectedPair'
    BY <1>4, <1>11 DEF ViewInv, OfSelection
  <2>5. ShownIsSelected'
    BY <1>1, <1>2, <1>5 DEF ViewInv, OfSelection, ShownIsSelected
  <2> QED
    BY <1>1, <2>1, <2>2, <2>3, <2>4, <2>5 DEF OfSelection
<1>13. OfExisting'
  <2>1. asked'.pair # Undefined /\ asked'.pair.part = "extras" => asked'.pair = asked.pair
    BY <1>6
  <2> QED
    BY <1>4, <1>5, <2>1 DEF ViewInv, OfExisting
<1>14. EffectsInv'
  <2> SUFFICES ASSUME bundle'.kind = "loading", Wants(ran'.pair)
               PROVE  asked'.pair # Undefined \/ pend'.pair # Undefined
    BY <1>1, <1>6 DEF EffectsInv
  <2>1. WantsPair(next, sess, catalog)
    BY <1>3, <1>7, DepsTell
  <2>2. CASE asked'.pair = [of |-> [about |-> next.about, lap |-> next.lap], part |-> "traces"]
    <3>1. [of |-> [about |-> next.about, lap |-> next.lap], part |-> "traces"] \in PairRequest
      BY <2>1, WantsReady DEF Selection, PairRequest, Pair
    <3> QED
      BY <2>2, <3>1, RevisionsApart
  <2>3. CASE /\ asked'.pair = IF newPair THEN Undefined ELSE asked.pair
             /\ ran.pair = PairDeps(next, sess, catalog)
    <3>1. ~ newPair /\ ran'.pair = ran.pair
      BY <1>2, <1>7, <1>8, <2>3
    <3> QED
      BY <1>4, <1>5, <2>3, <3>1 DEF ViewInv, EffectsInv
  <2> QED
    BY <1>6, <2>1, <2>2, <2>3
<1> QED
  BY <1>9, <1>10, <1>12, <1>13, <1>14 DEF ViewInv

(* A context that the catalog knows becomes a selection to check. *)
LEMMA ResolveSelects ==
  ASSUME NEW s \in Selection, NEW c \in SUBSET Subject, NEW next \in Resolve(s, c)
  PROVE  next \in Selection
<1>1. CASE s.ref \in c
  <2>1. PICK l \in {s.lap, Undefined} :
          next = [ref |-> Undefined, about |-> s.ref, lap |-> l, check |-> TRUE]
    BY <1>1 DEF Resolve
  <2>2. s.ref \in Subject /\ l \in Lap \cup {Undefined}
    BY <1>1, <2>1 DEF Selection
  <2> QED
    BY <2>1, <2>2 DEF Selection
<1>2. CASE s.ref \notin c
  BY <1>2 DEF Resolve
<1> QED
  BY <1>1, <1>2

LEMMA UserInv ==
  ASSUME ViewInv, ChooseSubject \/ ChooseDriver \/ ChooseLap \/ ChangeView \/ PopState
  PROVE  ViewInv'
<1>1. sel \in Selection /\ catalog \in SUBSET Subject
  BY DEF ViewInv, ViewType
<1>2. CASE ChooseSubject
  <2>1. PICK x \in catalog :
          SetSelection([ref |-> Undefined, about |-> x, lap |-> Undefined, check |-> FALSE], FALSE)
    BY <1>2 DEF ChooseSubject
  <2>2. [ref |-> Undefined, about |-> x, lap |-> Undefined, check |-> FALSE] \in Selection
    BY <1>1 DEF Selection
  <2> QED
    BY <2>1, <2>2, SetSelectionInv
<1>3. CASE ChooseDriver
  <2>1. PICK x \in catalog : SetSelection([sel EXCEPT !.about = x, !.lap = Undefined], FALSE)
    BY <1>3 DEF ChooseDriver
  <2>2. [sel EXCEPT !.about = x, !.lap = Undefined] \in Selection
    BY <1>1 DEF Selection
  <2> QED
    BY <2>1, <2>2, SetSelectionInv
<1>4. CASE ChooseLap
  <2>1. PICK l \in LapsOf[sel.about] : SetSelection([sel EXCEPT !.lap = l], FALSE)
    BY <1>4 DEF ChooseLap
  <2>2. sel.about \in Subject
    BY <1>1, <1>4 DEF ChooseLap, Selection
  <2>3. [sel EXCEPT !.lap = l] \in Selection
    BY <1>1, <2>2, RevisionsApart DEF Selection
  <2> QED
    BY <2>1, <2>3, SetSelectionInv
<1>5. CASE ChangeView
  BY <1>1, <1>5, SetSelectionInv DEF ChangeView
<1>6. CASE PopState
  <2>1. PICK parsed \in Selection :
          \E next \in IF Ready(sess) THEN Resolve(parsed, catalog) ELSE {parsed} :
              SetSelection(next, next.check)
    BY <1>6 DEF PopState
  <2>2. PICK next \in IF Ready(sess) THEN Resolve(parsed, catalog) ELSE {parsed} :
          SetSelection(next, next.check)
    BY <2>1
  <2>3. next \in Selection
    BY <1>1, <2>1, <2>2, ResolveSelects
  <2>4. next.check \in BOOLEAN
    BY <2>3 DEF Selection
  <2> QED
    BY <2>2, <2>3, <2>4, SetSelectionInv
<1> QED
  BY <1>2, <1>3, <1>4, <1>5, <1>6

(* What is rendered: with no answer of the catalog the subject stays, and a  *)
(* lap that was chosen or that exists stays.                                 *)
LEMMA CommitSelects ==
  ASSUME ViewInv, Commit
  PROVE  /\ sel' \in Selection
         /\ pend.sess = Undefined => sel'.about = sel.about
         /\ pend.sess = Undefined /\ sel.lap # Undefined /\ ~ sel.check =>
              sel'.lap = sel.lap /\ ~ sel'.check
         /\ pend.sess = Undefined /\ Exists(SelectedPair) => sel'.lap = sel.lap
<1>1. sel \in Selection /\ pend \in Pending
  BY DEF ViewInv, ViewType
<1>2. CASE ~ kept
  <2>1. sel' = sel
    BY <1>2 DEF Commit
  <2> QED
    BY <1>1, <2>1
<1>3. CASE kept
  <2>1. PICK s \in WithCatalog(sel) : sel' = WithLaps(s)
    BY <1>3 DEF Commit
  <2>2. s \in Selection /\ (pend.sess = Undefined => s = sel)
    <3>1. CASE pend.sess = Undefined \/ ~ pend.sess.ok
      BY <1>1, <2>1, <3>1 DEF WithCatalog
    <3>2. CASE pend.sess # Undefined /\ pend.sess.ok
      <4> DEFINE c == pend.sess.data
      <4>1. c \in SUBSET Subject
        BY <1>1, <3>2 DEF Pending, CatalogAnswer
      <4>2. s \in IF sel.ref # Undefined THEN Resolve(sel, c)
                  ELSE IF sel.about # Undefined \/ c = {} THEN {sel}
                  ELSE {[sel EXCEPT !.about = x] : x \in c}
        BY <2>1, <3>2 DEF WithCatalog
      <4> HIDE DEF c
      <4>3. CASE sel.ref # Undefined
        BY <1>1, <3>2, <4>1, <4>2, <4>3, ResolveSelects
      <4>4. CASE sel.ref = Undefined /\ ~ (sel.about # Undefined \/ c = {})
        <5>1. PICK x \in c : s = [sel EXCEPT !.about = x]
          BY <4>2, <4>4
        <5>2. x \in Subject
          BY <4>1
        <5> QED
          BY <1>1, <3>2, <5>1, <5>2 DEF Selection
      <4>5. CASE sel.ref = Undefined /\ (sel.about # Undefined \/ c = {})
        BY <1>1, <3>2, <4>2, <4>5
      <4> QED
        BY <4>3, <4>4, <4>5
    <3> QED
      BY <3>1, <3>2
  <2>3. CASE pend.laps = Undefined \/ ~ pend.laps.ok
    <3>1. sel' = s
      BY <2>1, <2>3 DEF WithLaps
    <3> QED
      BY <2>2, <3>1
  <2>4. CASE pend.laps # Undefined /\ pend.laps.ok
    <3> DEFINE of == pend.laps.of
               l == IF (s.check /\ s.lap \in LapsOf[of]) \/ (~ s.check /\ s.lap # Undefined)
                    THEN s.lap ELSE Fastest[of]
    <3>1. sel' = [s EXCEPT !.lap = l, !.check = FALSE]
      BY <2>1, <2>4 DEF WithLaps
    <3>2. of \in Subject /\ of = sel.about
      BY <1>1, <2>4 DEF Pending, LapsAnswer, ViewInv, OfSelection
    <3>3. l \in Lap \cup {Undefined}
      BY <2>2, <3>2, RevisionsApart DEF Selection
    <3>4. s.check \in BOOLEAN
      BY <2>2 DEF Selection
    <3>5. /\ s.lap # Undefined /\ ~ s.check => l = s.lap
          /\ s.lap \in LapsOf[of] => l = s.lap
      BY <3>2, <3>4, RevisionsApart
    <3> HIDE DEF l, of
    <3>6. /\ sel' \in Selection /\ sel'.about = s.about /\ sel'.lap = l /\ sel'.check = FALSE
      BY <2>2, <3>1, <3>3 DEF Selection
    <3>7. Exists(SelectedPair) => sel.lap \in LapsOf[of]
      BY <3>2 DEF Exists, SelectedPair
    <3> QED
      BY <2>2, <3>5, <3>6, <3>7
  <2> QED
    BY <2>3, <2>4
<1>4. kept \in BOOLEAN
  BY DEF ViewInv, ViewType
<1> QED
  BY <1>2, <1>3, <1>4

LEMMA CommitInv ==
  ASSUME ViewInv, Commit
  PROVE  ViewInv'
<1>1. /\ sel \in Selection /\ pend \in Pending /\ asked \in Asked /\ bundle \in Shown
      /\ catalog \in SUBSET Subject /\ sess \in {"loading", "ready", "error"}
  BY DEF ViewInv, ViewType
<1>2. /\ sess' = Kind(pend.sess, sess)
      /\ catalog' = (IF sess' = "ready" /\ pend.sess # Undefined THEN pend.sess.data ELSE catalog)
      /\ bundle' = IF pend.pair = Undefined THEN bundle ELSE pend.pair
      /\ pend' = NothingPending /\ kept' = TRUE /\ due' = TRUE
      /\ ran' = ran /\ asked' = asked
  BY DEF Commit
<1>3. /\ pend' \in Pending /\ pend'.sess = Undefined /\ pend'.laps = Undefined /\ pend'.pair = Undefined
  BY <1>2 DEF NothingPending, Pending
<1>4. /\ sess' \in {"loading", "ready", "error"} /\ catalog' \in SUBSET Subject
      /\ (pend.sess = Undefined => sess' = sess)
      /\ (pend.sess # Undefined => sess = "loading")
  BY <1>1, <1>2 DEF Kind, Pending, CatalogAnswer, ViewInv, CatalogFirst
<1>5. bundle' \in Shown
  BY <1>1, <1>2 DEF Pending, PairAnswer, Shown
<1>6. /\ pend.pair \in PairAnswer \cup {Undefined} /\ pend.sess \in CatalogAnswer \cup {Undefined}
      /\ asked.sess \in BOOLEAN
  BY <1>1 DEF Pending, Asked
<1>7. ViewType'
  BY <1>1, <1>2, <1>3, <1>4, <1>5, CommitSelects DEF ViewType
<1>8. pend.sess # Undefined => /\ asked.sess = FALSE /\ asked.laps = Undefined /\ asked.pair = Undefined
                               /\ pend.pair = Undefined /\ bundle.kind # "ready"
  BY <1>4, <1>6 DEF ViewInv, CatalogFirst
<1>9. CatalogFirst'
  BY <1>2, <1>3, <1>4, <1>6, <1>8 DEF ViewInv, CatalogFirst, PairAnswer
<1>10. bundle'.kind = "ready" =>
          /\ pend.sess = Undefined /\ bundle'.of = SelectedPair /\ Exists(SelectedPair)
  BY <1>2, <1>8 DEF ViewInv, OfSelection, ShownIsSelected, OfExisting, SelectedPair
<1>11. asked.pair # Undefined =>
          /\ pend.sess = Undefined /\ asked.pair.of = SelectedPair /\ ~ sel.check
          /\ asked.pair.of \in Pair
  BY <1>1, <1>8 DEF ViewInv, OfSelection, Asked, PairRequest
<1>12. asked.pair # Undefined => sel.lap # Undefined
  BY <1>11, RevisionsApart DEF SelectedPair, Pair
<1>13. OfSelection'
  <2>1. asked'.laps # Undefined => asked'.laps = sel'.about
    BY <1>2, <1>8, CommitSelects DEF ViewInv, OfSelection
  <2>2. asked'.pair # Undefined => asked'.pair.of = SelectedPair' /\ ~ sel'.check
    BY <1>2, <1>11, <1>12, CommitSelects DEF SelectedPair
  <2>3. ShownIsSelected'
    BY <1>10, CommitSelects DEF ShownIsSelected, SelectedPair
  <2> QED
    BY <1>3, <2>1, <2>2, <2>3 DEF OfSelection
<1>14. OfExisting'
  BY <1>2, <1>3, <1>10 DEF ViewInv, OfExisting
<1>15. EffectsInv'
  <2> SUFFICES ASSUME bundle'.kind = "loading", Wants(ran.pair)
               PROVE  asked.pair # Undefined
    BY <1>2 DEF EffectsInv
  <2>1. pend.pair = Undefined
    BY <1>2, <1>6 DEF PairAnswer
  <2> QED
    BY <1>2, <2>1 DEF ViewInv, EffectsInv
<1> QED
  BY <1>7, <1>9, <1>13, <1>14, <1>15 DEF ViewInv

(* The effects that follow a render, and those of a retry. *)
LEMMA EffectsStepInv ==
  ASSUME ViewInv, Effects
  PROVE  ViewInv'
<1>1. /\ due' = FALSE /\ RunEffects(sel, sess, catalog, FALSE, FALSE, FALSE)
      /\ sel' = sel /\ sess' = sess /\ catalog' = catalog /\ bundle' = bundle /\ pend' = pend /\ kept' = kept
  BY DEF Effects
<1>2. /\ sel \in Selection /\ pend \in Pending /\ asked \in Asked /\ bundle \in Shown
      /\ catalog \in SUBSET Subject /\ sess \in {"loading", "ready", "error"}
  BY DEF ViewInv, ViewType
<1> DEFINE wanted == [of |-> [about |-> sel.about, lap |-> sel.lap], part |-> "traces"]
<1>3. /\ ran' = Deps(sel, sess, catalog) /\ asked' \in Asked
      /\ asked'.sess = asked.sess
      /\ \/ asked'.laps = (IF WantsLaps(sel, sess, catalog) THEN sel.about ELSE Undefined)
         \/ asked'.laps = asked.laps
      /\ \/ asked'.pair = (IF WantsPair(sel, sess, catalog) THEN wanted ELSE Undefined)
         \/ asked'.pair = asked.pair /\ ran.pair = PairDeps(sel, sess, catalog)
  <2>1. RunEffects(sel, sess, catalog, FALSE, FALSE, FALSE)
    BY <1>1
  <2>2. asked \in Asked /\ catalog \in SUBSET Subject /\ FALSE \in BOOLEAN
    BY <1>2
  <2>3. /\ ran' = Deps(sel, sess, catalog) /\ asked' \in Asked
        /\ asked'.sess = (FALSE \/ asked.sess)
        /\ \/ asked'.laps = (IF WantsLaps(sel, sess, catalog) THEN sel.about ELSE Undefined)
           \/ asked'.laps = asked.laps /\ ~ FALSE /\ ran.laps = LapsDeps(sel, sess, catalog)
        /\ \/ asked'.pair = (IF WantsPair(sel, sess, catalog) THEN wanted ELSE Undefined)
           \/ /\ asked'.pair = IF FALSE THEN Undefined ELSE asked.pair
              /\ ~ FALSE /\ ran.pair = PairDeps(sel, sess, catalog)
    BY <1>2, <2>1, <2>2, EffectsAsk
  <2>4. asked.sess \in BOOLEAN
    BY <2>2 DEF Asked
  <2> QED
    BY <2>3, <2>4
<1>4. WantsPair(sel, sess, catalog) => wanted \in PairRequest
  BY <1>2, WantsReady DEF Selection, PairRequest, Pair
<1>5. wanted.of = SelectedPair /\ wanted.part # "extras"
  BY DEF SelectedPair
<1> HIDE DEF wanted
<1>6. ViewType'
  BY <1>1, <1>2, <1>3 DEF ViewInv, ViewType
<1>7. CatalogFirst'
  BY <1>1, <1>3, WantsReady DEF ViewInv, CatalogFirst
<1>8. SelectedPair' = SelectedPair
  BY <1>1 DEF SelectedPair
<1>9. OfSelection'
  <2>1. asked'.pair # Undefined => asked'.pair.of = SelectedPair /\ ~ sel.check
    BY <1>3, <1>5, WantsReady DEF ViewInv, OfSelection
  <2> QED
    BY <1>1, <1>3, <1>8, <2>1 DEF ViewInv, OfSelection, ShownIsSelected
<1>10. OfExisting'
  <2>1. asked'.pair # Undefined /\ asked'.pair.part = "extras" => asked'.pair = asked.pair
    BY <1>3, <1>5
  <2> QED
    BY <1>1, <2>1 DEF ViewInv, OfExisting
<1>11. EffectsInv'
  <2>1. ran'.pair = PairDeps(sel, sess, catalog) /\ ran' = Deps(sel', sess', catalog')
    BY <1>1, <1>3 DEF Deps
  <2> SUFFICES ASSUME bundle.kind = "loading", Wants(ran'.pair)
               PROVE  asked'.pair # Undefined \/ pend'.pair # Undefined
    BY <1>1, <2>1 DEF EffectsInv
  <2>2. WantsPair(sel, sess, catalog)
    BY <1>2, <2>1, DepsTell
  <2>3. CASE asked'.pair = wanted
    BY <1>4, <2>2, <2>3, RevisionsApart
  <2>4. CASE asked'.pair = asked.pair /\ ran.pair = PairDeps(sel, sess, catalog)
    BY <1>1, <2>1, <2>4 DEF ViewInv, EffectsInv
  <2> QED
    BY <1>3, <2>2, <2>3, <2>4
<1> QED
  BY <1>6, <1>7, <1>9, <1>10, <1>11 DEF ViewInv

LEMMA RetryInv ==
  ASSUME ViewInv, Retry
  PROVE  ViewInv'
<1>1. /\ ~ due /\ due' = due /\ sess' = "loading" /\ bundle' = Loading /\ pend' = NothingPending
      /\ RunEffects(sel, "loading", catalog, TRUE, FALSE, FALSE)
      /\ sel' = sel /\ catalog' = catalog /\ kept' = kept
  BY DEF Retry
<1>2. /\ sel \in Selection /\ asked \in Asked /\ catalog \in SUBSET Subject
      /\ kept \in BOOLEAN /\ due \in BOOLEAN
  BY DEF ViewInv, ViewType
<1>3. ~ WantsLaps(sel, "loading", catalog) /\ ~ WantsPair(sel, "loading", catalog)
  BY DEF WantsPair, WantsLaps, Ready
<1>4. /\ ran' = Deps(sel, "loading", catalog) /\ asked' \in Asked
      /\ asked'.laps = Undefined /\ asked'.pair = Undefined
  <2>1. TRUE \in BOOLEAN /\ FALSE \in BOOLEAN
    OBVIOUS
  <2>2. /\ ran' = Deps(sel, "loading", catalog) /\ asked' \in Asked
        /\ \/ asked'.laps = (IF WantsLaps(sel, "loading", catalog) THEN sel.about ELSE Undefined)
           \/ asked'.laps = asked.laps /\ ~ TRUE /\ ran.laps = LapsDeps(sel, "loading", catalog)
        /\ \/ asked'.pair = (IF WantsPair(sel, "loading", catalog)
                             THEN [of |-> [about |-> sel.about, lap |-> sel.lap], part |-> "traces"]
                             ELSE Undefined)
           \/ /\ asked'.pair = IF FALSE THEN Undefined ELSE asked.pair
              /\ ~ TRUE /\ ran.pair = PairDeps(sel, "loading", catalog)
    BY <1>1, <1>2, <2>1, EffectsAsk
  <2> QED
    BY <1>3, <2>2
<1>5. pend' \in Pending /\ pend'.sess = Undefined /\ pend'.laps = Undefined /\ pend'.pair = Undefined
  BY <1>1 DEF NothingPending, Pending
<1>6. bundle' \in Shown /\ bundle'.kind = "loading"
  BY <1>1 DEF Loading, Shown
<1>7. ViewType'
  BY <1>1, <1>2, <1>4, <1>5, <1>6 DEF ViewType
<1>8. CatalogFirst' /\ OfExisting'
  BY <1>1, <1>4, <1>5, <1>6 DEF CatalogFirst, OfExisting
<1>9. OfSelection'
  BY <1>4, <1>5, <1>6 DEF OfSelection, ShownIsSelected
<1>10. EffectsInv'
  <2>1. ran' = Deps(sel', sess', catalog')
    BY <1>1, <1>4
  <2>2. ran'.pair = PairDeps(sel, "loading", catalog)
    BY <1>4 DEF Deps
  <2>3. ~ Wants(ran'.pair)
    BY <1>2, <1>3, <2>2, DepsTell
  <2> QED
    BY <2>1, <2>3 DEF EffectsInv
<1> QED
  BY <1>7, <1>8, <1>9, <1>10 DEF ViewInv

(* Responses. *)
LEMMA ResponseInv ==
  ASSUME ViewInv, SessionsArrive \/ LapsArrive \/ TracesArrive \/ ExtrasArrive
  PROVE  ViewInv'
<1>1. /\ sel \in Selection /\ pend \in Pending /\ asked \in Asked /\ bundle \in Shown
      /\ catalog \in SUBSET Subject /\ sess \in {"loading", "ready", "error"}
      /\ kept \in BOOLEAN /\ due \in BOOLEAN
  BY DEF ViewInv, ViewType
<1>2. /\ sel' = sel /\ sess' = sess /\ catalog' = catalog /\ bundle' = bundle
      /\ due' = due /\ ran' = ran /\ kept' \in BOOLEAN
  BY <1>1 DEF SessionsArrive, LapsArrive, TracesArrive, ExtrasArrive
<1>3. SelectedPair' = SelectedPair
  BY <1>2 DEF SelectedPair
<1>4. asked.pair \in PairRequest \cup {Undefined} /\ asked.laps \in Subject \cup {Undefined}
  BY <1>1 DEF Asked
<1>5. CASE SessionsArrive
  <2>1. PICK answer \in CatalogAnswer : pend' = [pend EXCEPT !.sess = answer]
    BY <1>5 DEF SessionsArrive, CatalogAnswer
  <2>2. /\ pend' \in Pending /\ pend'.laps = pend.laps /\ pend'.pair = pend.pair
    BY <1>1, <2>1 DEF Pending
  <2>3. /\ asked.sess /\ asked' \in Asked /\ asked'.sess = FALSE
        /\ asked'.laps = asked.laps /\ asked'.pair = asked.pair
    BY <1>1, <1>5 DEF SessionsArrive, Asked
  <2>4. ViewType' /\ CatalogFirst'
    BY <1>1, <1>2, <2>2, <2>3 DEF ViewInv, ViewType, CatalogFirst
  <2>5. OfSelection' /\ OfExisting' /\ EffectsInv'
    BY <1>2, <1>3, <2>2, <2>3 DEF ViewInv, OfSelection, ShownIsSelected, OfExisting, EffectsInv
  <2> QED
    BY <2>4, <2>5 DEF ViewInv
<1>6. CASE LapsArrive
  <2>1. PICK ok \in BOOLEAN : pend' = [pend EXCEPT !.laps = [ok |-> ok, of |-> asked.laps]]
    BY <1>6 DEF LapsArrive
  <2>2. asked.laps # Undefined /\ asked' = [asked EXCEPT !.laps = Undefined]
    BY <1>6 DEF LapsArrive
  <2>3. [ok |-> ok, of |-> asked.laps] \in LapsAnswer
    BY <1>4, <2>2 DEF LapsAnswer
  <2>4. /\ pend' \in Pending /\ pend'.sess = pend.sess /\ pend'.pair = pend.pair
        /\ pend'.laps.of = asked.laps
    BY <1>1, <2>1, <2>3 DEF Pending
  <2>5. /\ asked' \in Asked /\ asked'.sess = asked.sess
        /\ asked'.laps = Undefined /\ asked'.pair = asked.pair
    BY <1>1, <2>2 DEF Asked
  <2>6. ViewType' /\ CatalogFirst'
    BY <1>1, <1>2, <2>2, <2>4, <2>5 DEF ViewInv, ViewType, CatalogFirst
  <2>7. OfSelection' /\ OfExisting' /\ EffectsInv'
    BY <1>2, <1>3, <2>2, <2>4, <2>5 DEF ViewInv, OfSelection, ShownIsSelected, OfExisting, EffectsInv
  <2> QED
    BY <2>6, <2>7 DEF ViewInv
<1>7. CASE TracesArrive \/ ExtrasArrive
  <2>1. /\ asked.pair \in PairRequest /\ kept' = kept
        /\ asked.pair # Undefined
    BY <1>4, <1>7 DEF TracesArrive, ExtrasArrive
  <2>2. asked.pair.of \in Pair /\ asked.pair.of = SelectedPair /\ ~ sel.check /\ sess = "ready"
    BY <1>1, <2>1 DEF PairRequest, ViewInv, OfSelection, CatalogFirst
  <2>3. CASE asked' = [asked EXCEPT !.pair.part = "extras"] /\ pend' = pend
             /\ asked.pair.of.lap \in LapsOf[asked.pair.of.about]
    <3>1. [asked.pair EXCEPT !.part = "extras"] \in PairRequest
          /\ [asked.pair EXCEPT !.part = "extras"].of = asked.pair.of
      BY <2>1 DEF PairRequest
    <3>2. /\ asked' \in Asked /\ asked'.sess = asked.sess /\ asked'.laps = asked.laps
          /\ asked'.pair = [asked.pair EXCEPT !.part = "extras"]
      BY <1>1, <2>3, <3>1 DEF Asked
    <3>3. Exists(asked.pair.of)
      BY <2>2, <2>3 DEF Exists
    <3>4. asked'.pair # Undefined /\ asked'.pair.of = asked.pair.of
      BY <3>1, <3>2, RevisionsApart
    <3>5. ViewType' /\ CatalogFirst'
      BY <1>1, <1>2, <2>2, <2>3, <3>2 DEF ViewInv, ViewType, CatalogFirst
    <3>6. OfSelection' /\ OfExisting' /\ EffectsInv'
      BY <1>2, <1>3, <2>2, <2>3, <3>2, <3>3, <3>4 DEF ViewInv, OfSelection, ShownIsSelected,
         OfExisting, EffectsInv
    <3> QED
      BY <3>5, <3>6 DEF ViewInv
  <2>4. ASSUME NEW kind \in {"ready", "error"}, asked' = [asked EXCEPT !.pair = Undefined],
               pend' = [pend EXCEPT !.pair = [kind |-> kind, of |-> asked.pair.of]],
               kind = "ready" => Exists(asked.pair.of)
        PROVE  ViewInv'
    <3>1. [kind |-> kind, of |-> asked.pair.of] \in PairAnswer
      BY <2>2 DEF PairAnswer
    <3>2. /\ pend' \in Pending /\ pend'.sess = pend.sess /\ pend'.laps = pend.laps
          /\ pend'.pair = [kind |-> kind, of |-> asked.pair.of] /\ pend'.pair # Undefined
      BY <1>1, <2>4, <3>1, RevisionsApart DEF Pending
    <3>3. /\ asked' \in Asked /\ asked'.sess = asked.sess
          /\ asked'.laps = asked.laps /\ asked'.pair = Undefined
      BY <1>1, <2>4 DEF Asked
    <3>4. ViewType' /\ CatalogFirst'
      BY <1>1, <1>2, <2>1, <2>2, <3>2, <3>3 DEF ViewInv, ViewType, CatalogFirst
    <3>5. OfSelection' /\ OfExisting' /\ EffectsInv'
      BY <1>2, <1>3, <2>2, <2>4, <3>2, <3>3 DEF ViewInv, OfSelection, ShownIsSelected,
         OfExisting, EffectsInv
    <3> QED
      BY <3>4, <3>5 DEF ViewInv
  <2>5. CASE TracesArrive
    BY <2>3, <2>4, <2>5 DEF TracesArrive
  <2>6. CASE ExtrasArrive
    <3>1. Exists(asked.pair.of)
      BY <2>6 DEF ExtrasArrive, ViewInv, OfExisting
    <3> QED
      BY <2>4, <2>6, <3>1 DEF ExtrasArrive
  <2> QED
    BY <1>7, <2>5, <2>6
<1> QED
  BY <1>5, <1>6, <1>7

LEMMA ViewStarts == ViewInit => ViewInv
<1> SUFFICES ASSUME ViewInit PROVE ViewInv
  OBVIOUS
<1>1. /\ sel \in Selection /\ sess = "loading" /\ catalog = {} /\ bundle = Loading
      /\ pend = NothingPending /\ kept = TRUE /\ due = FALSE /\ ran = Deps(sel, sess, catalog)
      /\ asked = [sess |-> TRUE, laps |-> Undefined, pair |-> Undefined]
  BY DEF ViewInit
<1>2. ~ WantsPair(sel, sess, catalog)
  BY <1>1 DEF WantsPair, WantsLaps, Ready
<1>3. ~ Wants(ran.pair)
  BY <1>1, <1>2, DepsTell DEF Deps
<1>4. ViewType
  BY <1>1 DEF ViewType, Pending, Asked, Shown, Loading, NothingPending
<1>5. CatalogFirst /\ OfExisting
  BY <1>1 DEF CatalogFirst, OfExisting, NothingPending, Loading
<1>6. OfSelection
  BY <1>1 DEF OfSelection, ShownIsSelected, NothingPending, Loading
<1>7. EffectsInv
  BY <1>1, <1>3 DEF EffectsInv
<1> QED
  BY <1>4, <1>5, <1>6, <1>7 DEF ViewInv

LEMMA ViewSteps == ViewInv /\ [ViewNext]_viewVars => ViewInv'
<1> SUFFICES ASSUME ViewInv, [ViewNext]_viewVars PROVE ViewInv'
  OBVIOUS
<1>1. CASE UNCHANGED viewVars
  BY <1>1 DEF viewVars, ViewInv, ViewType, CatalogFirst, OfSelection, ShownIsSelected, SelectedPair,
              OfExisting, EffectsInv
<1> QED
  BY <1>1, UserInv, RetryInv, ResponseInv, CommitInv, EffectsStepInv DEF ViewNext

(* The comparison shown is of the laps selected, whatever overtook it. *)
THEOREM ShownIsOfTheSelected == ViewSpec => []ShownIsSelected
<1>1. ViewInv => ShownIsSelected
  BY DEF ViewInv, OfSelection
<1> QED
  BY <1>1, ViewStarts, ViewSteps, PTL DEF ViewSpec

(* A page that loads a bundle has asked for it, or is about to. *)
THEOREM WaitsForAnAnswer == ViewSpec => []NeverWaitsForNothing
<1>1. ViewInv => NeverWaitsForNothing
  <2> SUFFICES ASSUME ViewInv, bundle.kind = "loading", WantsPair(sel, sess, catalog), ~ due
               PROVE  asked.pair # Undefined \/ pend # NothingPending
    BY DEF NeverWaitsForNothing
  <2>1. /\ sel \in Selection /\ catalog \in SUBSET Subject /\ ran = Deps(sel, sess, catalog)
    BY DEF ViewInv, ViewType, EffectsInv
  <2>2. Wants(ran.pair)
    BY <2>1, DepsTell DEF Deps
  <2>3. asked.pair # Undefined \/ pend.pair # Undefined
    BY <2>2 DEF ViewInv, EffectsInv
  <2> QED
    BY <2>3 DEF NothingPending
<1> QED
  BY <1>1, ViewStarts, ViewSteps, PTL DEF ViewSpec

-----------------------------------------------------------------------------
(* The acquisition of the study's sample: the measurements that stand, and   *)
(* what an interrupted run leaves for the next.                              *)

(* Where a run is: before the lock, under it, under it at a session. *)
AtSession == Working \cup {"name"}
UnderLock == AtSession \cup {"visit"}
RunPlace == {"off", "freeze", "review", "survey", "lock"} \cup UnderLock

Memory == [place : RunPlace, at : Nat \ {0}, journal : Journal \cup {Missing}, existing : SUBSET Chosen]
Directory == [of : Chosen, cached : BOOLEAN, tables : 0..Tables, published : Nat \cup {Missing}]

AcquisitionType ==
    /\ valid \in BOOLEAN /\ plan \in Nat /\ captures \in Nat
    /\ journal \in Journal \cup {Missing} /\ attempts \in Seq(Directory)
    /\ preflight \in [Chosen -> Nat \cup {Missing}] /\ reports \in [Chosen -> Nat \cup {Missing}]
    /\ lock \in Runner \cup {Missing} /\ run \in [Runner -> Memory]

(* What a record tells of its attempt and its measurement: whose attempt it *)
(* is, and, by "owner", of which attempt the measurement is.                *)
Tells(entry, s, owner) ==
    /\ entry.attempt \in 1..Len(attempts) /\ attempts[entry.attempt].of = s
    /\ entry.state = "captured" => entry.measurement # Missing
    /\ entry.measurement # Missing =>
        /\ entry.measurement \in 1..captures
        /\ attempts[entry.attempt].tables = Tables
        /\ owner[entry.measurement] = entry.attempt
AllTell(j, owner) ==
    j # Missing => \A s \in Chosen : j.of[s] # Missing => Tells(j.of[s], s, owner)

Published(owner) ==
    \A a \in 1..Len(attempts) :
        attempts[a].published # Missing =>
            /\ attempts[a].published \in 1..captures
            /\ attempts[a].tables = Tables /\ owner[attempts[a].published] = a

Owned(owner) ==
    /\ AllTell(journal, owner) /\ Published(owner)
    /\ \A r \in Runner : AllTell(run[r].journal, owner)

(* A run under the lock holds it, and has a journal; one at a session has a *)
(* record of an attempt at it, once it has named the attempt.               *)
PlaceInv(r) ==
    /\ run[r].place \in UnderLock => lock = r
    /\ run[r].place \in UnderLock \cup {"lock", "survey"} => run[r].journal # Missing
    /\ run[r].place \in AtSession => run[r].at \in 1..Len(Selected)
    /\ run[r].place = "name" =>
        Len(attempts) > 0 /\ attempts[Len(attempts)].of = Here(r) /\ Record(r) = Missing
    /\ run[r].place \in Working => Record(r) # Missing
    /\ run[r].place = "load" => Record(r).state = "loading"
    /\ run[r].place = "capture" => Record(r).state = "capturing"
    /\ run[r].place \in {"publish", "release"} => Record(r).state = "captured"
    /\ run[r].place = "release" => attempts[AttemptOf(r)].published = Record(r).measurement
    /\ run[r].place = "complete" => preflight[Here(r)] # Missing

Rests ==
    \A s \in Chosen :
        /\ preflight[s] # Missing =>
            \E a \in 1..Len(attempts) : attempts[a].of = s /\ attempts[a].published = preflight[s]
        /\ reports[s] # Missing => reports[s] = preflight[s]

(* While nothing but a death or a stop has happened, there is one plan, and *)
(* a run under the lock works from the journal on disk.                     *)
Undisturbed == upset \subseteq {"death", "stop"}
SettledRun(r) ==
    /\ run[r].place \notin {"off", "freeze"} => plan = 1
    /\ run[r].journal # Missing => plan = 1 /\ run[r].journal.plan = 1
    /\ run[r].place \in UnderLock =>
        run[r].journal = IF journal = Missing THEN Fresh ELSE journal
Settled ==
    /\ valid /\ plan \in {0, 1}
    /\ journal # Missing => plan = 1 /\ journal.plan = 1
    /\ \A r \in Runner : SettledRun(r)
Resumes(a) ==
    attempts[a].published # Missing /\ preflight[attempts[a].of] = Missing =>
        /\ journal # Missing /\ journal.of[attempts[a].of] # Missing
        /\ journal.of[attempts[a].of].state = "captured"
        /\ journal.of[attempts[a].of].attempt = a
        /\ journal.of[attempts[a].of].measurement = attempts[a].published
AllResume == \A a \in 1..Len(attempts) : Resumes(a)
ResumeInv == Undisturbed => Settled /\ AllResume

PlacesInv == \A r \in Runner : PlaceInv(r)
Journaled == \E owner \in [1..captures -> Nat] : Owned(owner)
AcquisitionInv == AcquisitionType /\ Rests /\ PlacesInv /\ Journaled
AcquisitionSpec == AcquisitionInit /\ [][AcquisitionNext]_acquisitionVars

LEMMA SelectedProperties ==
  /\ Len(Selected) \in Nat /\ DOMAIN Selected = 1..Len(Selected)
  /\ \A i \in 1..Len(Selected) : Selected[i] \in Chosen
  BY AcquisitionAssumption

LEMMA AttemptsProperties ==
  ASSUME AcquisitionType
  PROVE  /\ Len(attempts) \in Nat /\ DOMAIN attempts = 1..Len(attempts)
         /\ \A a \in 1..Len(attempts) : attempts[a] \in Directory
  BY DEF AcquisitionType

(* A run at a session that it has a record of. *)
LEMMA AtWork ==
  ASSUME AcquisitionInv, NEW r \in Runner, run[r].place \in Working
  PROVE  /\ lock = r /\ run[r] \in Memory /\ run[r].journal \in Journal
         /\ run[r].at \in 1..Len(Selected) /\ Here(r) \in Chosen
         /\ Record(r) \in Entry /\ AttemptOf(r) \in 1..Len(attempts)
         /\ attempts[AttemptOf(r)] \in Directory /\ attempts[AttemptOf(r)].of = Here(r)
<1>1. PlaceInv(r) /\ run[r] \in Memory
  BY DEF AcquisitionInv, PlacesInv, AcquisitionType
<1>2. lock = r /\ run[r].journal \in Journal /\ Record(r) # Missing /\ run[r].at \in 1..Len(Selected)
  BY <1>1 DEF PlaceInv, UnderLock, AtSession, Memory
<1>3. Here(r) \in Chosen
  BY <1>2, SelectedProperties DEF Here
<1>4. Record(r) \in Entry
  BY <1>2, <1>3 DEF Record, Journal
<1>5. AttemptOf(r) \in 1..Len(attempts) /\ attempts[AttemptOf(r)].of = Here(r)
  <2>1. PICK owner \in [1..captures -> Nat] : Owned(owner)
    BY DEF AcquisitionInv, Journaled
  <2>2. AllTell(run[r].journal, owner)
    BY <2>1 DEF Owned
  <2>3. Tells(Record(r), Here(r), owner)
    BY <1>2, <1>3, <2>2, AcquisitionAssumption DEF AllTell, Record
  <2> QED
    BY <2>3 DEF Tells, AttemptOf
<1> QED
  BY <1>1, <1>2, <1>3, <1>4, <1>5, AttemptsProperties DEF AcquisitionInv

(* What a run writes to its journal. *)
Rewritten(r, record) == [run[r].journal EXCEPT !.of[Here(r)] = record]

LEMMA RewrittenProperties ==
  ASSUME NEW r \in Runner, run[r].journal \in Journal, Here(r) \in Chosen, NEW record \in Entry
  PROVE  /\ Rewritten(r, record) \in Journal
         /\ Rewritten(r, record).plan = run[r].journal.plan
         /\ Rewritten(r, record).of[Here(r)] = record
         /\ \A s \in Chosen : s # Here(r) => Rewritten(r, record).of[s] = run[r].journal.of[s]
  BY DEF Rewritten, Journal

LEMMA NotesDo ==
  ASSUME run \in [Runner -> Memory], NEW r \in Runner, run[r].journal \in Journal, Here(r) \in Chosen,
         NEW record \in Entry, NEW place \in RunPlace, Notes(r, place, record)
  PROVE  /\ journal' = Rewritten(r, record) /\ run' \in [Runner -> Memory]
         /\ run'[r].place = place /\ run'[r].at = run[r].at
         /\ run'[r].journal = journal' /\ run'[r].existing = run[r].existing
         /\ \A q \in Runner : q # r => run'[q] = run[q]
<1>1. /\ journal' = Rewritten(r, record)
      /\ run' = [run EXCEPT ![r].journal = Rewritten(r, record), ![r].place = place]
  BY DEF Notes, Rewritten
<1>2. Rewritten(r, record) \in Journal
  BY RewrittenProperties
<1> QED
  BY <1>1, <1>2 DEF Memory

LEMMA PassesDoes ==
  ASSUME run \in [Runner -> Memory], NEW r \in Runner, run[r].journal \in Journal, Here(r) \in Chosen,
         NEW record \in Entry, Passes(r, record)
  PROVE  /\ journal' = Rewritten(r, record) /\ run' \in [Runner -> Memory]
         /\ run'[r].place = "visit" /\ run'[r].at = run[r].at + 1
         /\ run'[r].journal = journal' /\ run'[r].existing = run[r].existing
         /\ \A q \in Runner : q # r => run'[q] = run[q]
<1>1. /\ journal' = Rewritten(r, record)
      /\ run' = [run EXCEPT ![r].journal = Rewritten(r, record), ![r].place = "visit", ![r].at = @ + 1]
  BY DEF Passes, Rewritten
<1>2. Rewritten(r, record) \in Journal
  BY RewrittenProperties
<1> QED
  BY <1>1, <1>2 DEF Memory, RunPlace, UnderLock

LEMMA IdleIsMemory == Idle \in Memory
  BY AcquisitionAssumption DEF Idle, Memory, RunPlace

LEMMA LeavesDoes ==
  ASSUME run \in [Runner -> Memory], NEW r \in Runner, Leaves(r)
  PROVE  /\ run' \in [Runner -> Memory] /\ run'[r] = Idle
         /\ \A q \in Runner : q # r => run'[q] = run[q]
         /\ lock' = IF lock = r THEN Missing ELSE lock
  BY IdleIsMemory DEF Leaves

LEMMA GoesDoes ==
  ASSUME run \in [Runner -> Memory], NEW r \in Runner, NEW place \in RunPlace, Goes(r, place)
  PROVE  /\ run' \in [Runner -> Memory] /\ run'[r].place = place
         /\ run'[r].at = run[r].at /\ run'[r].journal = run[r].journal
         /\ run'[r].existing = run[r].existing
         /\ \A q \in Runner : q # r => run'[q] = run[q]
  BY DEF Goes, Memory

LEMMA FreshProperties ==
  ASSUME plan \in Nat
  PROVE  Fresh \in Journal /\ Fresh.plan = plan /\ \A s \in Chosen : Fresh.of[s] = Missing
  BY DEF Fresh, Journal, Blank

(* A run that writes a record: which, and where it goes on. *)
Writes(r, record, place, at) ==
    /\ Here(r) \in Chosen /\ run[r].journal \in Journal /\ record \in Entry /\ lock = r
    /\ journal' = Rewritten(r, record) /\ run' \in [Runner -> Memory]
    /\ run'[r].place = place /\ run'[r].at = at
    /\ run'[r].journal = journal' /\ run'[r].existing = run[r].existing
    /\ \A q \in Runner : q # r => run'[q] = run[q]

LEMMA MarkLoadingWrites ==
  ASSUME AcquisitionInv, NEW r \in Runner, MarkLoading(r)
  PROVE  Writes(r, [Record(r) EXCEPT !.state = "loading"], "load", run[r].at)
<1> DEFINE rec == [Record(r) EXCEPT !.state = "loading"]
<1>1. /\ run \in [Runner -> Memory] /\ lock = r /\ run[r].journal \in Journal
      /\ Here(r) \in Chosen /\ Record(r) \in Entry
  BY AtWork DEF AcquisitionInv, AcquisitionType, MarkLoading, At, Working
<1>2. rec \in Entry
  BY <1>1 DEF Entry, MarkLoading
<1>3. Notes(r, "load", rec)
  BY DEF MarkLoading
<1>4. "load" \in RunPlace
  BY DEF RunPlace, UnderLock, AtSession, Working
<1> QED
  BY <1>1, <1>2, <1>3, <1>4, NotesDo DEF Writes

LEMMA LoadWrites ==
  ASSUME AcquisitionInv, NEW r \in Runner, Load(r)
  PROVE  Writes(r, [Record(r) EXCEPT !.state = "capturing"], "capture", run[r].at)
<1> DEFINE rec == [Record(r) EXCEPT !.state = "capturing"]
<1>1. /\ run \in [Runner -> Memory] /\ lock = r /\ run[r].journal \in Journal
      /\ Here(r) \in Chosen /\ Record(r) \in Entry
  BY AtWork DEF AcquisitionInv, AcquisitionType, Load, At, Working
<1>2. rec \in Entry
  BY <1>1 DEF Entry, Load
<1>3. Notes(r, "capture", rec)
  BY DEF Load
<1>4. "capture" \in RunPlace
  BY DEF RunPlace, UnderLock, AtSession, Working
<1> QED
  BY <1>1, <1>2, <1>3, <1>4, NotesDo DEF Writes

LEMMA CapturedWrites ==
  ASSUME AcquisitionInv, NEW r \in Runner, Captured(r)
  PROVE  Writes(r, [Record(r) EXCEPT !.state = "captured", !.measurement = captures'], "publish", run[r].at)
<1> DEFINE rec == [Record(r) EXCEPT !.state = "captured", !.measurement = captures']
<1>1. /\ run \in [Runner -> Memory] /\ lock = r /\ run[r].journal \in Journal
      /\ Here(r) \in Chosen /\ Record(r) \in Entry
  BY AtWork DEF AcquisitionInv, AcquisitionType, Captured, At, Working
<1>2. rec \in Entry
  <2>1. captures' \in Nat
    BY DEF AcquisitionInv, AcquisitionType, Captured
  <2> QED
    BY <1>1, <2>1 DEF Entry
<1>3. Notes(r, "publish", rec)
  BY DEF Captured
<1>4. "publish" \in RunPlace
  BY DEF RunPlace, UnderLock, AtSession, Working
<1> QED
  BY <1>1, <1>2, <1>3, <1>4, NotesDo DEF Writes

LEMMA MarkCompleteWrites ==
  ASSUME AcquisitionInv, NEW r \in Runner, MarkComplete(r)
  PROVE  Writes(r, [Record(r) EXCEPT !.state = "complete"], "visit", run[r].at + 1)
<1> DEFINE rec == [Record(r) EXCEPT !.state = "complete"]
<1>1. /\ run \in [Runner -> Memory] /\ lock = r /\ run[r].journal \in Journal
      /\ Here(r) \in Chosen /\ Record(r) \in Entry
  BY AtWork DEF AcquisitionInv, AcquisitionType, MarkComplete, At, Working
<1>2. rec \in Entry
  BY <1>1 DEF Entry, MarkComplete
<1>3. Passes(r, rec)
  BY DEF MarkComplete
<1> QED
  BY <1>1, <1>2, <1>3, PassesDoes DEF Writes

LEMMA FailsWrites ==
  ASSUME AcquisitionInv, NEW r \in Runner, Fails(r)
  PROVE  Writes(r, [Record(r) EXCEPT !.state = "failed"], "visit", run[r].at + 1)
<1> DEFINE rec == [Record(r) EXCEPT !.state = "failed"]
<1>1. /\ run \in [Runner -> Memory] /\ lock = r /\ run[r].journal \in Journal
      /\ Here(r) \in Chosen /\ Record(r) \in Entry
  BY AtWork DEF AcquisitionInv, AcquisitionType, Fails, At, Working
<1>2. rec \in Entry
  BY <1>1 DEF Entry, Fails
<1>3. Passes(r, rec)
  BY DEF Fails
<1> QED
  BY <1>1, <1>2, <1>3, PassesDoes DEF Writes

LEMMA ErrorWrites ==
  ASSUME AcquisitionInv, NEW r \in Runner, Error(r)
  PROVE  Writes(r, [Record(r) EXCEPT !.state = "failed"], "visit", run[r].at + 1)
<1> DEFINE rec == [Record(r) EXCEPT !.state = "failed"]
<1>1. /\ run \in [Runner -> Memory] /\ lock = r /\ run[r].journal \in Journal
      /\ Here(r) \in Chosen /\ Record(r) \in Entry
  BY AtWork DEF AcquisitionInv, AcquisitionType, Error, At, Working
<1>2. rec \in Entry
  BY <1>1 DEF Entry, Error
<1>3. Passes(r, rec)
  BY DEF Error
<1> QED
  BY <1>1, <1>2, <1>3, PassesDoes DEF Writes

LEMMA NameAttemptWrites ==
  ASSUME AcquisitionInv, NEW r \in Runner, NameAttempt(r)
  PROVE  Writes(r, [attempt |-> Len(attempts), state |-> "created", measurement |-> Missing], "work", run[r].at)
<1> DEFINE rec == [attempt |-> Len(attempts), state |-> "created", measurement |-> Missing]
<1>1. /\ run \in [Runner -> Memory] /\ PlaceInv(r) /\ run[r].place = "name"
  BY DEF AcquisitionInv, AcquisitionType, PlacesInv, NameAttempt, At
<1>2. /\ lock = r /\ run[r].journal \in Journal /\ run[r].at \in 1..Len(Selected)
  BY <1>1 DEF PlaceInv, UnderLock, AtSession, Memory
<1>3. Here(r) \in Chosen
  BY <1>2, SelectedProperties DEF Here
<1>4. rec \in Entry
  BY AttemptsProperties DEF Entry, AcquisitionInv
<1>5. Notes(r, "work", rec)
  BY DEF NameAttempt
<1>6. "work" \in RunPlace
  BY DEF RunPlace, UnderLock, AtSession, Working
<1> QED
  BY <1>1, <1>2, <1>3, <1>4, <1>5, <1>6, NotesDo DEF Writes

LEMMA StopWrites ==
  ASSUME AcquisitionInv, NEW r \in Runner, NEW state \in {"rate-limited", "permission-denied"}, Stop(r, state)
  PROVE  LET record == [Record(r) EXCEPT !.state = state] IN
         /\ record \in Entry /\ journal' = Rewritten(r, record) /\ Rewritten(r, record) \in Journal
<1> DEFINE rec == [Record(r) EXCEPT !.state = state]
<1>1. /\ run[r].journal \in Journal /\ Here(r) \in Chosen /\ Record(r) \in Entry
  BY AtWork DEF Stop
<1>2. rec \in Entry
  BY <1>1 DEF Entry
<1>3. journal' = Rewritten(r, rec)
  BY <1>1 DEF Stop, Rewritten, Record, Journal
<1> QED
  BY <1>1, <1>2, <1>3, RewrittenProperties

(* Attempts only grow: one is never taken back, given tables away or another *)
(* measurement.                                                              *)
Grow ==
    /\ Len(attempts) <= Len(attempts)' /\ captures <= captures'
    /\ \A a \in 1..Len(attempts) :
        /\ attempts'[a].of = attempts[a].of
        /\ attempts[a].tables = Tables => attempts'[a].tables = Tables
        /\ attempts[a].published # Missing => attempts'[a].published = attempts[a].published

LEMMA MakeAttemptDoes ==
  ASSUME AcquisitionInv, NEW r \in Runner, MakeAttempt(r)
  PROVE  /\ attempts' \in Seq(Directory) /\ Len(attempts') = Len(attempts) + 1
         /\ \A a \in 1..Len(attempts) : attempts'[a] = attempts[a]
         /\ attempts'[Len(attempts')].of = Here(r) /\ attempts'[Len(attempts')].published = Missing
         /\ lock = r /\ run[r].at \in 1..Len(Selected) /\ Here(r) \in Chosen
<1>1. run[r] \in Memory /\ PlaceInv(r) /\ attempts \in Seq(Directory)
  BY DEF AcquisitionInv, AcquisitionType, PlacesInv
<1>2. lock = r /\ run[r].at \in 1..Len(Selected)
  BY <1>1, SelectedProperties DEF PlaceInv, UnderLock, MakeAttempt, Open, At, Memory
<1>3. Here(r) \in Chosen
  BY <1>2, SelectedProperties DEF Here
<1>4. [of |-> Here(r), cached |-> FALSE, tables |-> 0, published |-> Missing] \in Directory
  BY <1>3, AcquisitionAssumption DEF Directory
<1> QED
  BY <1>1, <1>2, <1>3, <1>4 DEF MakeAttempt

LEMMA Replaced ==
  ASSUME NEW S, NEW q \in Seq(S), NEW i \in 1..Len(q), NEW v \in S
  PROVE  /\ [q EXCEPT ![i] = v] \in Seq(S) /\ Len([q EXCEPT ![i] = v]) = Len(q)
         /\ [q EXCEPT ![i] = v][i] = v
         /\ \A j \in 1..Len(q) : j # i => [q EXCEPT ![i] = v][j] = q[j]
  BY ExceptSeq

LEMMA OneAttemptDoes ==
  ASSUME AcquisitionInv, NEW r \in Runner, Load(r) \/ WriteTable(r) \/ PublishAttempt(r)
  PROVE  /\ attempts' \in Seq(Directory) /\ Len(attempts') = Len(attempts)
         /\ \A a \in 1..Len(attempts) : a # AttemptOf(r) => attempts'[a] = attempts[a]
         /\ attempts'[AttemptOf(r)].of = attempts[AttemptOf(r)].of
         /\ ~ PublishAttempt(r) => attempts'[AttemptOf(r)].published = attempts[AttemptOf(r)].published
         /\ PublishAttempt(r) => attempts'[AttemptOf(r)].published = Record(r).measurement
         /\ ~ WriteTable(r) => attempts'[AttemptOf(r)].tables = attempts[AttemptOf(r)].tables
         /\ WriteTable(r) => attempts[AttemptOf(r)].tables < Tables
<1>1. /\ Record(r) \in Entry /\ AttemptOf(r) \in 1..Len(attempts)
      /\ attempts[AttemptOf(r)] \in Directory /\ attempts \in Seq(Directory)
  BY AtWork DEF AcquisitionInv, AcquisitionType, Load, WriteTable, PublishAttempt, At, Working
<1>2. Record(r).measurement \in Nat \cup {Missing}
  BY <1>1 DEF Entry
<1> DEFINE d == attempts[AttemptOf(r)]
<1>3. CASE Load(r)
  <2>1. ~ PublishAttempt(r) /\ ~ WriteTable(r)
    BY <1>3 DEF Load, PublishAttempt, WriteTable, At
  <2>2. attempts' = [attempts EXCEPT ![AttemptOf(r)] = [d EXCEPT !.cached = TRUE]]
    BY <1>3 DEF Load
  <2>3. [d EXCEPT !.cached = TRUE] \in Directory
    BY <1>1 DEF Directory
  <2> QED
    BY <1>1, <2>1, <2>2, <2>3 DEF Directory
<1>4. CASE WriteTable(r)
  <2>1. ~ PublishAttempt(r)
    BY <1>4 DEF PublishAttempt, WriteTable, At
  <2>2. attempts' = [attempts EXCEPT ![AttemptOf(r)] = [d EXCEPT !.tables = @ + 1]]
    BY <1>4 DEF WriteTable
  <2>3. d.tables \in 0..Tables /\ d.tables < Tables /\ d.tables + 1 \in 0..Tables
    BY <1>1, <1>4, AcquisitionAssumption DEF Directory, WriteTable
  <2> DEFINE n == [d EXCEPT !.tables = @ + 1]
  <2>4. n \in Directory /\ n.of = d.of /\ n.published = d.published
    BY <1>1, <2>3 DEF Directory
  <2> HIDE DEF n
  <2>5. attempts' = [attempts EXCEPT ![AttemptOf(r)] = n]
    BY <2>2 DEF n
  <2>6. /\ attempts' \in Seq(Directory) /\ Len(attempts') = Len(attempts) /\ attempts'[AttemptOf(r)] = n
        /\ \A a \in 1..Len(attempts) : a # AttemptOf(r) => attempts'[a] = attempts[a]
    BY <1>1, <2>4, <2>5, Replaced
  <2> QED
    BY <1>4, <2>1, <2>3, <2>4, <2>6
<1>5. CASE PublishAttempt(r)
  <2>1. ~ WriteTable(r)
    BY <1>5 DEF PublishAttempt, WriteTable, At
  <2>2. attempts' = [attempts EXCEPT ![AttemptOf(r)] = [d EXCEPT !.published = Record(r).measurement]]
    BY <1>5 DEF PublishAttempt
  <2> DEFINE n == [d EXCEPT !.published = Record(r).measurement]
  <2>3. n \in Directory /\ n.of = d.of /\ n.tables = d.tables /\ n.published = Record(r).measurement
    BY <1>1, <1>2 DEF Directory
  <2> HIDE DEF n
  <2>4. attempts' = [attempts EXCEPT ![AttemptOf(r)] = n]
    BY <2>2 DEF n
  <2>5. /\ attempts' \in Seq(Directory) /\ Len(attempts') = Len(attempts) /\ attempts'[AttemptOf(r)] = n
        /\ \A a \in 1..Len(attempts) : a # AttemptOf(r) => attempts'[a] = attempts[a]
    BY <1>1, <2>3, <2>4, Replaced
  <2> QED
    BY <1>5, <2>1, <2>3, <2>5
<1> QED
  BY <1>3, <1>4, <1>5

LEMMA AcquisitionTypeStays ==
  ASSUME AcquisitionInv, AcquisitionNext
  PROVE  AcquisitionType'
<1>1. ASSUME NEW r \in Runner, Begin(r)
      PROVE  AcquisitionType'
  BY <1>1, GoesDoes DEF Begin, AcquisitionType, AcquisitionInv, files, Quiet, Trouble, RunPlace,
     UnderLock, AtSession, Working
<1>2. ASSUME NEW r \in Runner, Freeze(r)
      PROVE  AcquisitionType'
  <2>1. run' \in [Runner -> Memory]
    BY <1>2, GoesDoes DEF Freeze, AcquisitionType, AcquisitionInv, RunPlace, UnderLock
  <2>2. valid' = valid /\ valid \in BOOLEAN
    BY <1>2 DEF Freeze, AcquisitionType, AcquisitionInv
  <2>3. valid' \in BOOLEAN
    BY <2>2
  <2>4. plan \in Nat /\ plan' = plan + 1
    <3>1. plan \in Nat
      BY DEF AcquisitionType, AcquisitionInv
    <3>2. plan' = plan + 1
      BY <1>2 DEF Freeze
    <3> QED
      BY <3>1, <3>2
  <2>5. UNCHANGED <<journal, attempts, preflight, reports, lock, captures>>
    BY <1>2 DEF Freeze
  <2> QED
    BY <2>1, <2>3, <2>4, <2>5 DEF AcquisitionType, AcquisitionInv
<1>3. ASSUME NEW r \in Runner, ReadJournal(r)
      PROVE  AcquisitionType'
  <2>1. (IF journal = Missing THEN Fresh ELSE journal) \in Journal
    BY FreshProperties DEF AcquisitionType, AcquisitionInv
  <2> DEFINE j == IF journal = Missing THEN Fresh ELSE journal
  <2>2. run' = [run EXCEPT ![r].place = "survey", ![r].journal = j]
    BY <1>3 DEF ReadJournal
  <2> HIDE DEF j
  <2>3. j \in Journal
    BY <2>1 DEF j
  <2>4. [run[r] EXCEPT !.place = "survey", !.journal = j] \in Memory
    BY <2>3 DEF AcquisitionType, AcquisitionInv, Memory, RunPlace
  <2>5. run' = [run EXCEPT ![r] = [run[r] EXCEPT !.place = "survey", !.journal = j]]
    BY <2>2 DEF AcquisitionType, AcquisitionInv
  <2>6. run' \in [Runner -> Memory]
    BY <2>4, <2>5 DEF AcquisitionType, AcquisitionInv
  <2> QED
    BY <1>3, <2>6 DEF ReadJournal, AcquisitionType, AcquisitionInv, files, Quiet
<1>4. ASSUME NEW r \in Runner, PrepareOnly(r)
      PROVE  AcquisitionType'
  BY <1>4, LeavesDoes DEF PrepareOnly, AcquisitionType, AcquisitionInv, files, Quiet, Trouble
<1>5. ASSUME NEW r \in Runner, Survey(r)
      PROVE  AcquisitionType'
  BY <1>5 DEF Survey, AcquisitionType, AcquisitionInv, files, Quiet, Memory, RunPlace, Measured
<1>6. ASSUME NEW r \in Runner, Refuse(r)
      PROVE  AcquisitionType'
  BY <1>6, LeavesDoes DEF Refuse, AcquisitionType, AcquisitionInv, files, Quiet, Trouble
<1>7. ASSUME NEW r \in Runner, TakeLock(r)
      PROVE  AcquisitionType'
  BY <1>7, GoesDoes DEF TakeLock, AcquisitionType, AcquisitionInv, files, Quiet, Trouble,
     RunPlace, UnderLock, AtSession, Working
<1>8. ASSUME NEW r \in Runner, LockHeld(r)
      PROVE  AcquisitionType'
  BY <1>8, LeavesDoes DEF LockHeld, AcquisitionType, AcquisitionInv, files, Quiet, Trouble
<1>9. ASSUME NEW r \in Runner, Reuse(r)
      PROVE  AcquisitionType'
  <2>1. run[r].at + 1 \in Nat \ {0}
    BY DEF AcquisitionType, AcquisitionInv, Memory
  <2>2. run' \in [Runner -> Memory]
    BY <1>9, <2>1 DEF Reuse, AcquisitionType, AcquisitionInv, Memory
  <2> QED
    BY <1>9, <2>2 DEF Reuse, AcquisitionType, AcquisitionInv, files, Quiet
<1>10. ASSUME NEW r \in Runner, MakeAttempt(r)
      PROVE  AcquisitionType'
  BY <1>10, MakeAttemptDoes, GoesDoes DEF MakeAttempt, AcquisitionType, AcquisitionInv, files,
     Quiet, RunPlace, UnderLock, AtSession
<1>11. ASSUME NEW r \in Runner, NameAttempt(r)
      PROVE  AcquisitionType'
  BY <1>11, NameAttemptWrites, RewrittenProperties DEF Writes, NameAttempt, AcquisitionType,
     AcquisitionInv, files, Quiet, Trouble
<1>12. ASSUME NEW r \in Runner, Continue(r)
      PROVE  AcquisitionType'
  BY <1>12, GoesDoes DEF Continue, AcquisitionType, AcquisitionInv, files, Quiet, Trouble,
     RunPlace, UnderLock, AtSession, Working
<1>13. ASSUME NEW r \in Runner, ResumeCapture(r)
      PROVE  AcquisitionType'
  BY <1>13, GoesDoes DEF ResumeCapture, AcquisitionType, AcquisitionInv, files, Quiet, Trouble,
     RunPlace, UnderLock, AtSession, Working
<1>14. ASSUME NEW r \in Runner, MarkLoading(r)
      PROVE  AcquisitionType'
  BY <1>14, MarkLoadingWrites, RewrittenProperties DEF Writes, MarkLoading, AcquisitionType,
     AcquisitionInv, files, Quiet, Trouble
<1>15. ASSUME NEW r \in Runner, Load(r)
      PROVE  AcquisitionType'
  <2>1. journal' \in Journal /\ run' \in [Runner -> Memory]
    BY <1>15, LoadWrites, RewrittenProperties DEF Writes
  <2>2. attempts' \in Seq(Directory)
    BY <1>15, OneAttemptDoes
  <2> QED
    BY <1>15, <2>1, <2>2 DEF Load, AcquisitionType, AcquisitionInv, Quiet
<1>16. ASSUME NEW r \in Runner, WriteTable(r)
      PROVE  AcquisitionType'
  BY <1>16, OneAttemptDoes DEF WriteTable, AcquisitionType, AcquisitionInv, Quiet
<1>17. ASSUME NEW r \in Runner, Captured(r)
      PROVE  AcquisitionType'
  <2>1. journal' \in Journal /\ run' \in [Runner -> Memory]
    BY <1>17, CapturedWrites, RewrittenProperties DEF Writes
  <2> QED
    BY <1>17, <2>1 DEF Captured, AcquisitionType, AcquisitionInv, Quiet
<1>18. ASSUME NEW r \in Runner, PublishAttempt(r)
      PROVE  AcquisitionType'
  BY <1>18, OneAttemptDoes, GoesDoes DEF PublishAttempt, AcquisitionType, AcquisitionInv, Quiet,
     RunPlace, UnderLock, AtSession, Working
<1>19. ASSUME NEW r \in Runner, PublishMeasurement(r)
      PROVE  AcquisitionType'
  <2>1. Here(r) \in Chosen /\ Record(r) \in Entry
    BY <1>19, AtWork DEF PublishMeasurement, At, Working
  <2>2. Record(r).measurement \in Nat \cup {Missing}
    BY <2>1 DEF Entry
  <2> QED
    BY <1>19, <2>1, <2>2, GoesDoes DEF PublishMeasurement, AcquisitionType, AcquisitionInv,
       Quiet, RunPlace, UnderLock, AtSession, Working
<1>20. ASSUME NEW r \in Runner, MarkComplete(r)
      PROVE  AcquisitionType'
  BY <1>20, MarkCompleteWrites, RewrittenProperties DEF Writes, MarkComplete, AcquisitionType,
     AcquisitionInv, files, Quiet, Trouble
<1>21. ASSUME NEW r \in Runner, Fails(r)
      PROVE  AcquisitionType'
  BY <1>21, FailsWrites, RewrittenProperties DEF Writes, Fails, AcquisitionType, AcquisitionInv,
     files, Quiet, Trouble
<1>22. ASSUME NEW r \in Runner, Finish(r)
      PROVE  AcquisitionType'
  BY <1>22, LeavesDoes DEF Finish, AcquisitionType, AcquisitionInv, files, Quiet, Trouble
<1>23. ASSUME NEW r \in Runner, Error(r)
      PROVE  AcquisitionType'
  BY <1>23, ErrorWrites, RewrittenProperties DEF Writes, Error, AcquisitionType, AcquisitionInv,
     files, Quiet, Trouble
<1>24. ASSUME NEW r \in Runner, CapacityStop(r)
      PROVE  AcquisitionType'
  BY <1>24, LeavesDoes DEF CapacityStop, AcquisitionType, AcquisitionInv, files, Quiet, Trouble
<1>25. ASSUME NEW r \in Runner, Die(r)
      PROVE  AcquisitionType'
  BY <1>25, LeavesDoes DEF Die, AcquisitionType, AcquisitionInv, files, Quiet, Trouble
<1>26. ASSUME NEW r \in Runner, NEW state \in {"rate-limited", "permission-denied"}, Stop(r, state)
      PROVE  AcquisitionType'
  BY <1>26, StopWrites, LeavesDoes DEF Stop, AcquisitionType, AcquisitionInv, files, Quiet, Trouble
<1>27. ASSUME NEW s \in Chosen, Measure(s)
      PROVE  AcquisitionType'
  BY <1>27 DEF Measure, AcquisitionType, AcquisitionInv, Quiet
<1>28. ASSUME Change
      PROVE  AcquisitionType'
  BY <1>28 DEF Change, AcquisitionType, AcquisitionInv, files, Trouble
<1> QED
  BY <1>1, <1>2, <1>3, <1>4, <1>5, <1>6, <1>7, <1>8, <1>9, <1>10, <1>11, <1>12, <1>13, <1>14,
     <1>15, <1>16, <1>17, <1>18, <1>19, <1>20, <1>21, <1>22, <1>23, <1>24, <1>25, <1>26, <1>27,
     <1>28 DEF AcquisitionNext

LEMMA UnchangedGrow ==
  ASSUME AcquisitionInv, UNCHANGED <<attempts, captures>>
  PROVE  Grow
  BY AttemptsProperties DEF Grow, AcquisitionInv, AcquisitionType

LEMMA AttemptsGrow ==
  ASSUME AcquisitionInv, AcquisitionNext
  PROVE  Grow
<1>1. ASSUME NEW r \in Runner, Begin(r)
      PROVE  Grow
  <2>1. UNCHANGED <<attempts, captures>>
    BY <1>1 DEF Begin, files
  <2> QED
    BY <2>1, UnchangedGrow
<1>2. ASSUME NEW r \in Runner, Freeze(r)
      PROVE  Grow
  <2>1. UNCHANGED <<attempts, captures>>
    BY <1>2 DEF Freeze, files
  <2> QED
    BY <2>1, UnchangedGrow
<1>3. ASSUME NEW r \in Runner, ReadJournal(r) \/ PrepareOnly(r) \/ Survey(r) \/ Refuse(r)
      PROVE  Grow
  BY <1>3, AttemptsProperties DEF ReadJournal, PrepareOnly, Survey, Refuse, AcquisitionInv,
     AcquisitionType, files, Quiet, Trouble, Grow
<1>4. ASSUME NEW r \in Runner, TakeLock(r) \/ LockHeld(r) \/ Reuse(r)
      PROVE  Grow
  BY <1>4, AttemptsProperties DEF TakeLock, LockHeld, Reuse, AcquisitionInv, AcquisitionType,
     files, Quiet, Trouble, Grow
<1>5. ASSUME NEW r \in Runner, MakeAttempt(r)
      PROVE  Grow
  BY <1>5, MakeAttemptDoes, AttemptsProperties DEF MakeAttempt, AcquisitionInv, AcquisitionType,
     Quiet, Grow
<1>6. ASSUME NEW r \in Runner, NameAttempt(r) \/ Continue(r) \/ ResumeCapture(r) \/ MarkLoading(r)
      PROVE  Grow
  BY <1>6, AttemptsProperties DEF NameAttempt, Continue, ResumeCapture, MarkLoading,
     AcquisitionInv, AcquisitionType, files, Quiet, Trouble, Grow
<1>7. ASSUME NEW r \in Runner, Load(r)
      PROVE  Grow
  BY <1>7, OneAttemptDoes, AttemptsProperties DEF Load, AcquisitionInv, AcquisitionType, Quiet,
     Grow, PublishAttempt, WriteTable, At
<1>8. ASSUME NEW r \in Runner, WriteTable(r)
      PROVE  Grow
  BY <1>8, OneAttemptDoes, AttemptsProperties, AcquisitionAssumption DEF WriteTable,
     AcquisitionInv, AcquisitionType, Quiet, Grow, PublishAttempt, At
<1>9. ASSUME NEW r \in Runner, Captured(r)
      PROVE  Grow
  BY <1>9, AttemptsProperties DEF Captured, AcquisitionInv, AcquisitionType, files, Quiet, Trouble, Grow
<1>10. ASSUME NEW r \in Runner, PublishAttempt(r)
      PROVE  Grow
  BY <1>10, OneAttemptDoes, AttemptsProperties DEF PublishAttempt, AcquisitionInv,
     AcquisitionType, Quiet, Grow, WriteTable, At, MayPublish
<1>11. ASSUME NEW r \in Runner, PublishMeasurement(r) \/ MarkComplete(r) \/ Fails(r) \/ Finish(r)
      PROVE  Grow
  BY <1>11, AttemptsProperties DEF PublishMeasurement, MarkComplete, Fails, Finish,
     AcquisitionInv, AcquisitionType, files, Quiet, Trouble, Grow
<1>12. ASSUME NEW r \in Runner, Error(r) \/ CapacityStop(r) \/ Die(r)
      PROVE  Grow
  BY <1>12, AttemptsProperties DEF Error, CapacityStop, Die, AcquisitionInv, AcquisitionType,
     files, Quiet, Trouble, Grow
<1>13. ASSUME NEW r \in Runner, NEW state \in {"rate-limited", "permission-denied"}, Stop(r, state)
      PROVE  Grow
  BY <1>13, AttemptsProperties DEF Stop, AcquisitionInv, AcquisitionType, files, Quiet, Trouble, Grow
<1>14. ASSUME NEW s \in Chosen, Measure(s)
      PROVE  Grow
  BY <1>14, AttemptsProperties DEF Measure, AcquisitionInv, AcquisitionType, files, Quiet, Trouble, Grow
<1>15. ASSUME Change
      PROVE  Grow
  BY <1>15, AttemptsProperties DEF Change, AcquisitionInv, AcquisitionType, files, Quiet, Trouble, Grow
<1> QED
  BY <1>1, <1>2, <1>3, <1>4, <1>5, <1>6, <1>7, <1>8, <1>9, <1>10, <1>11, <1>12, <1>13, <1>14,
     <1>15 DEF AcquisitionNext

LEMMA OnlyPublishing ==
  ASSUME AcquisitionInv, AcquisitionNext
  PROVE  \/ UNCHANGED <<preflight, reports>>
         \/ \E r \in Runner : PublishMeasurement(r)
         \/ \E s \in Chosen : Measure(s)
<1>1. ASSUME NEW r \in Runner, Begin(r) \/ Freeze(r) \/ ReadJournal(r) \/ PrepareOnly(r)
      PROVE  UNCHANGED <<preflight, reports>>
  BY <1>1 DEF Begin, Freeze, ReadJournal, PrepareOnly, files, Quiet, Trouble
<1>2. ASSUME NEW r \in Runner, Survey(r) \/ Refuse(r) \/ TakeLock(r) \/ LockHeld(r)
      PROVE  UNCHANGED <<preflight, reports>>
  BY <1>2 DEF Survey, Refuse, TakeLock, LockHeld, files, Quiet, Trouble
<1>3. ASSUME NEW r \in Runner, Reuse(r) \/ MakeAttempt(r) \/ NameAttempt(r) \/ Continue(r)
      PROVE  UNCHANGED <<preflight, reports>>
  BY <1>3 DEF Reuse, MakeAttempt, NameAttempt, Continue, files, Quiet, Trouble
<1>4. ASSUME NEW r \in Runner, ResumeCapture(r) \/ MarkLoading(r) \/ Load(r) \/ WriteTable(r)
      PROVE  UNCHANGED <<preflight, reports>>
  BY <1>4 DEF ResumeCapture, MarkLoading, Load, WriteTable, files, Quiet, Trouble
<1>5. ASSUME NEW r \in Runner, Captured(r) \/ PublishAttempt(r)
      PROVE  UNCHANGED <<preflight, reports>>
  BY <1>5 DEF Captured, PublishAttempt, files, Quiet, Trouble
<1>6. ASSUME NEW r \in Runner, PublishMeasurement(r)
      PROVE  \E q \in Runner : PublishMeasurement(q)
  BY <1>6
<1>7. ASSUME NEW r \in Runner, MarkComplete(r) \/ Fails(r) \/ Finish(r) \/ Error(r)
      PROVE  UNCHANGED <<preflight, reports>>
  BY <1>7 DEF MarkComplete, Fails, Finish, Error, files, Quiet, Trouble
<1>8. ASSUME NEW r \in Runner, CapacityStop(r) \/ Die(r)
      PROVE  UNCHANGED <<preflight, reports>>
  BY <1>8 DEF CapacityStop, Die, files, Quiet, Trouble
<1>9. ASSUME NEW r \in Runner, NEW state \in {"rate-limited", "permission-denied"}, Stop(r, state)
      PROVE  UNCHANGED <<preflight, reports>>
  BY <1>9 DEF Stop, files, Quiet, Trouble
<1>10. ASSUME NEW s \in Chosen, Measure(s)
      PROVE  \E t \in Chosen : Measure(t)
  BY <1>10
<1>11. ASSUME Change
      PROVE  UNCHANGED <<preflight, reports>>
  BY <1>11 DEF Change, files, Quiet, Trouble
<1> QED
  BY <1>1, <1>2, <1>3, <1>4, <1>5, <1>6, <1>7, <1>8, <1>9, <1>10, <1>11 DEF AcquisitionNext

LEMMA RestsStays ==
  ASSUME AcquisitionInv, AcquisitionNext
  PROVE  Rests'
<1>1. Rests /\ Grow /\ preflight \in [Chosen -> Nat \cup {Missing}] /\ reports \in [Chosen -> Nat \cup {Missing}]
  BY AttemptsGrow DEF AcquisitionInv, AcquisitionType
<1>2. Len(attempts) \in Nat /\ Len(attempts') \in Nat /\ Len(attempts) <= Len(attempts')
  BY <1>1, AcquisitionTypeStays DEF AcquisitionType, AcquisitionInv, Grow
<1>3. ASSUME NEW s \in Chosen, NEW m, m # Missing,
             \E a \in 1..Len(attempts) : attempts[a].of = s /\ attempts[a].published = m
      PROVE  \E a \in 1..Len(attempts') : attempts'[a].of = s /\ attempts'[a].published = m
  BY <1>1, <1>2, <1>3 DEF Grow
<1>4. CASE UNCHANGED <<preflight, reports>>
  <2> SUFFICES ASSUME NEW s \in Chosen
               PROVE  /\ preflight[s] # Missing =>
                           \E a \in 1..Len(attempts') :
                               attempts'[a].of = s /\ attempts'[a].published = preflight[s]
                      /\ reports[s] # Missing => reports[s] = preflight[s]
    BY <1>4 DEF Rests
  <2>1. CASE preflight[s] # Missing
    <3>1. \E a \in 1..Len(attempts) : attempts[a].of = s /\ attempts[a].published = preflight[s]
      BY <1>1, <2>1 DEF Rests
    <3> QED
      BY <1>1, <1>3, <2>1, <3>1 DEF Rests
  <2> QED
    BY <1>1, <2>1 DEF Rests
<1>5. ASSUME NEW r \in Runner, PublishMeasurement(r) PROVE Rests'
  <2>1. /\ Here(r) \in Chosen /\ AttemptOf(r) \in 1..Len(attempts) /\ attempts[AttemptOf(r)].of = Here(r)
    BY <1>5, AtWork DEF PublishMeasurement, At, Working
  <2>2. attempts[AttemptOf(r)].published = Record(r).measurement
    BY <1>5 DEF PublishMeasurement, At, AcquisitionInv, PlacesInv, PlaceInv
  <2>3. /\ preflight' = [preflight EXCEPT ![Here(r)] = Record(r).measurement]
        /\ preflight[Here(r)] \in {Missing, Record(r).measurement} /\ UNCHANGED <<attempts, reports>>
    BY <1>5 DEF PublishMeasurement, MayPublish
  <2> QED
    BY <1>1, <2>1, <2>2, <2>3 DEF Rests
<1>6. ASSUME NEW s \in Chosen, Measure(s) PROVE Rests'
  BY <1>1, <1>3, <1>6 DEF Rests, Measure
<1> QED
  BY <1>4, <1>5, <1>6, OnlyPublishing

LEMMA AtTheSession ==
  ASSUME NEW r \in Runner, run'[r].at = run[r].at, run'[r].journal = run[r].journal
  PROVE  Here(r)' = Here(r) /\ Record(r)' = Record(r) /\ AttemptOf(r)' = AttemptOf(r)
  BY DEF Here, Record, AttemptOf

LEMMA OtherPlaces ==
  ASSUME AcquisitionInv, NEW q \in Runner, run'[q] = run[q],
         lock = q => lock' = q /\ UNCHANGED <<attempts, preflight>>
  PROVE  PlaceInv(q)'
<1>1. PlaceInv(q)
  BY DEF AcquisitionInv, PlacesInv
<1>2. Here(q)' = Here(q) /\ Record(q)' = Record(q) /\ AttemptOf(q)' = AttemptOf(q)
  BY AtTheSession
<1>3. CASE lock = q
  BY <1>1, <1>2, <1>3 DEF PlaceInv, UnderLock, AtSession
<1>4. CASE lock # q
  BY <1>1, <1>4 DEF PlaceInv, UnderLock, AtSession, Working
<1> QED
  BY <1>3, <1>4

LEMMA PlacesHold ==
  ASSUME AcquisitionInv
  PROVE  \A q \in Runner : PlaceInv(q) /\ run[q] \in Memory
  BY DEF AcquisitionInv, PlacesInv, AcquisitionType

LEMMA BeforeLock ==
  ASSUME NEW r \in Runner,
         \/ run'[r].place \in {"off", "freeze", "review"}
         \/ run'[r].place \in {"survey", "lock"} /\ run'[r].journal # Missing
         \/ run'[r].place = "visit" /\ lock' = r /\ run'[r].journal # Missing
  PROVE  PlaceInv(r)'
  BY DEF PlaceInv, UnderLock, AtSession, Working

LEMMA WritesRecord ==
  ASSUME NEW r \in Runner, NEW record, NEW place, Writes(r, record, place, run[r].at)
  PROVE  Here(r)' = Here(r) /\ Record(r)' = record
<1>1. Here(r)' = Here(r)
  BY DEF Writes, Here
<1> QED
  BY <1>1, RewrittenProperties DEF Writes, Record

LEMMA WorksOn ==
  ASSUME NEW r \in Runner, run'[r].place \in Working, lock' = r, run'[r].journal # Missing,
         run'[r].at \in 1..Len(Selected), Record(r)' # Missing,
         run'[r].place = "load" => Record(r)'.state = "loading",
         run'[r].place = "capture" => Record(r)'.state = "capturing",
         run'[r].place \in {"publish", "release"} => Record(r)'.state = "captured",
         run'[r].place = "release" => attempts'[AttemptOf(r)'].published = Record(r)'.measurement,
         run'[r].place = "complete" => preflight'[Here(r)'] # Missing
  PROVE  PlaceInv(r)'
  BY DEF PlaceInv, UnderLock, AtSession, Working

(* Whose attempt a record names, and what it says of the measurement. *)
LEMMA Witnessed ==
  ASSUME AcquisitionInv, NEW r \in Runner, run[r].place \in Working
  PROVE  /\ \A owner : Owned(owner) => Tells(Record(r), Here(r), owner)
         /\ Record(r).state = "captured" => Record(r).measurement # Missing
<1>1. /\ run[r].journal # Missing /\ Here(r) \in Chosen /\ Record(r) # Missing
  BY AtWork, AcquisitionAssumption
<1>2. \A owner : Owned(owner) => Tells(Record(r), Here(r), owner)
  BY <1>1 DEF Owned, AllTell, Record
<1> QED
  BY <1>2 DEF AcquisitionInv, Journaled, Tells

LEMMA PlacesStay ==
  ASSUME AcquisitionInv, AcquisitionNext
  PROVE  PlacesInv'
<1>1. ASSUME NEW r \in Runner, Begin(r)
      PROVE  PlacesInv'
  <2> USE DEF AcquisitionType, AcquisitionInv
  <2>1. PlaceInv(r)'
    BY <1>1, GoesDoes, BeforeLock DEF Begin, RunPlace
  <2>2. ASSUME NEW q \in Runner, q # r
        PROVE  PlaceInv(q)'
    <3>1. run'[q] = run[q] /\ (lock = q => lock' = q /\ UNCHANGED <<attempts, preflight>>)
      BY <1>1, <2>2, GoesDoes DEF Begin, files, Quiet, RunPlace, UnderLock, AtSession, Working
    <3> QED
      BY <3>1, OtherPlaces
  <2> QED
    BY <2>1, <2>2 DEF PlacesInv
<1>2. ASSUME NEW r \in Runner, Freeze(r)
      PROVE  PlacesInv'
  <2> USE DEF AcquisitionType, AcquisitionInv
  <2>1. PlaceInv(r)'
    BY <1>2, GoesDoes, BeforeLock DEF Freeze, RunPlace
  <2>2. ASSUME NEW q \in Runner, q # r
        PROVE  PlaceInv(q)'
    <3>1. run'[q] = run[q] /\ (lock = q => lock' = q /\ UNCHANGED <<attempts, preflight>>)
      BY <1>2, <2>2, GoesDoes DEF Freeze, files, Quiet, RunPlace, UnderLock, AtSession, Working
    <3> QED
      BY <3>1, OtherPlaces
  <2> QED
    BY <2>1, <2>2 DEF PlacesInv
<1>3. ASSUME NEW r \in Runner, ReadJournal(r)
      PROVE  PlacesInv'
  <2> USE DEF AcquisitionType, AcquisitionInv
  <2>1. PlaceInv(r)'
    BY <1>3, FreshProperties, AcquisitionAssumption, BeforeLock DEF ReadJournal, Memory
  <2>2. ASSUME NEW q \in Runner, q # r
        PROVE  PlaceInv(q)'
    <3>1. run'[q] = run[q] /\ (lock = q => lock' = q /\ UNCHANGED <<attempts, preflight>>)
      BY <1>3, <2>2 DEF ReadJournal, files, Quiet
    <3> QED
      BY <3>1, OtherPlaces
  <2> QED
    BY <2>1, <2>2 DEF PlacesInv
<1>4. ASSUME NEW r \in Runner, PrepareOnly(r)
      PROVE  PlacesInv'
  <2> USE DEF AcquisitionType, AcquisitionInv
  <2>1. PlaceInv(r)'
    BY <1>4, LeavesDoes, BeforeLock DEF PrepareOnly, Idle
  <2>2. ASSUME NEW q \in Runner, q # r
        PROVE  PlaceInv(q)'
    <3>1. run'[q] = run[q] /\ (lock = q => lock' = q /\ UNCHANGED <<attempts, preflight>>)
      BY <1>4, <2>2, LeavesDoes DEF PrepareOnly, files, Quiet, Trouble
    <3> QED
      BY <3>1, OtherPlaces
  <2> QED
    BY <2>1, <2>2 DEF PlacesInv
<1>5. ASSUME NEW r \in Runner, Survey(r)
      PROVE  PlacesInv'
  <2> USE DEF AcquisitionType, AcquisitionInv
  <2>1. PlaceInv(r)'
    BY <1>5, PlacesHold, BeforeLock DEF Survey, PlaceInv, At, Memory
  <2>2. ASSUME NEW q \in Runner, q # r
        PROVE  PlaceInv(q)'
    <3>1. run'[q] = run[q] /\ (lock = q => lock' = q /\ UNCHANGED <<attempts, preflight>>)
      BY <1>5, <2>2 DEF Survey, files, Quiet
    <3> QED
      BY <3>1, OtherPlaces
  <2> QED
    BY <2>1, <2>2 DEF PlacesInv
<1>6. ASSUME NEW r \in Runner, Refuse(r)
      PROVE  PlacesInv'
  <2> USE DEF AcquisitionType, AcquisitionInv
  <2>1. PlaceInv(r)'
    BY <1>6, LeavesDoes, BeforeLock DEF Refuse, Idle
  <2>2. ASSUME NEW q \in Runner, q # r
        PROVE  PlaceInv(q)'
    <3>1. run'[q] = run[q] /\ (lock = q => lock' = q /\ UNCHANGED <<attempts, preflight>>)
      BY <1>6, <2>2, LeavesDoes DEF Refuse, files, Quiet, Trouble
    <3> QED
      BY <3>1, OtherPlaces
  <2> QED
    BY <2>1, <2>2 DEF PlacesInv
<1>7. ASSUME NEW r \in Runner, TakeLock(r)
      PROVE  PlacesInv'
  <2> USE DEF AcquisitionType, AcquisitionInv
  <2>1. PlaceInv(r)'
    BY <1>7, PlacesHold, GoesDoes, BeforeLock DEF TakeLock, PlaceInv, At, RunPlace, UnderLock
  <2>2. ASSUME NEW q \in Runner, q # r
        PROVE  PlaceInv(q)'
    <3>1. run'[q] = run[q] /\ (lock = q => lock' = q /\ UNCHANGED <<attempts, preflight>>)
      BY <1>7, <2>2, AcquisitionAssumption, GoesDoes DEF TakeLock, files, RunPlace, UnderLock
    <3> QED
      BY <3>1, OtherPlaces
  <2> QED
    BY <2>1, <2>2 DEF PlacesInv
<1>8. ASSUME NEW r \in Runner, LockHeld(r)
      PROVE  PlacesInv'
  <2> USE DEF AcquisitionType, AcquisitionInv
  <2>1. PlaceInv(r)'
    BY <1>8, LeavesDoes, BeforeLock DEF LockHeld, Idle
  <2>2. ASSUME NEW q \in Runner, q # r
        PROVE  PlaceInv(q)'
    <3>1. run'[q] = run[q] /\ (lock = q => lock' = q /\ UNCHANGED <<attempts, preflight>>)
      BY <1>8, <2>2, LeavesDoes DEF LockHeld, files, Quiet, Trouble
    <3> QED
      BY <3>1, OtherPlaces
  <2> QED
    BY <2>1, <2>2 DEF PlacesInv
<1>9. ASSUME NEW r \in Runner, Reuse(r)
      PROVE  PlacesInv'
  <2> USE DEF AcquisitionType, AcquisitionInv
  <2>1. PlaceInv(r)'
    BY <1>9, PlacesHold, BeforeLock DEF Reuse, PlaceInv, UnderLock, At, Memory
  <2>2. ASSUME NEW q \in Runner, q # r
        PROVE  PlaceInv(q)'
    <3>1. run'[q] = run[q] /\ (lock = q => lock' = q /\ UNCHANGED <<attempts, preflight>>)
      BY <1>9, <2>2 DEF Reuse, files, Quiet
    <3> QED
      BY <3>1, OtherPlaces
  <2> QED
    BY <2>1, <2>2 DEF PlacesInv
<1>10. ASSUME NEW r \in Runner, MakeAttempt(r)
      PROVE  PlacesInv'
  <2> USE DEF AcquisitionType, AcquisitionInv
  <2>1. PlaceInv(r)'
    <3>1. /\ run'[r].place = "name" /\ run'[r].at = run[r].at /\ run'[r].journal = run[r].journal
      BY <1>10, GoesDoes DEF MakeAttempt, RunPlace, UnderLock, AtSession
    <3>2. /\ lock' = r /\ run'[r].journal # Missing /\ run'[r].at \in 1..Len(Selected)
      BY <1>10, <3>1, MakeAttemptDoes, PlacesHold DEF MakeAttempt, Open, At, PlaceInv, UnderLock, Quiet
    <3>3. Len(attempts') > 0 /\ attempts'[Len(attempts')].of = Here(r)'
      BY <1>10, <3>1, MakeAttemptDoes, AttemptsProperties, AtTheSession
    <3>4. Record(r)' = Missing
      BY <1>10, <3>1, AtTheSession DEF MakeAttempt
    <3> QED
      BY <3>1, <3>2, <3>3, <3>4 DEF PlaceInv, UnderLock, AtSession, Working
  <2>2. ASSUME NEW q \in Runner, q # r
        PROVE  PlaceInv(q)'
    <3>1. run'[q] = run[q] /\ (lock = q => lock' = q /\ UNCHANGED <<attempts, preflight>>)
      BY <1>10, <2>2, MakeAttemptDoes, GoesDoes DEF MakeAttempt, Quiet, RunPlace, UnderLock, AtSession
    <3> QED
      BY <3>1, OtherPlaces
  <2> QED
    BY <2>1, <2>2 DEF PlacesInv
<1>11. ASSUME NEW r \in Runner, NameAttempt(r)
      PROVE  PlacesInv'
  <2> USE DEF AcquisitionType, AcquisitionInv
  <2>1. PlaceInv(r)'
    <3>1. Writes(r, [attempt |-> Len(attempts), state |-> "created", measurement |-> Missing], "work", run[r].at)
      BY <1>11, NameAttemptWrites
    <3>2. Record(r)' = [attempt |-> Len(attempts), state |-> "created", measurement |-> Missing]
      BY <3>1, WritesRecord
    <3>3. /\ run'[r].place = "work" /\ run'[r].at = run[r].at /\ run'[r].journal \in Journal
          /\ Record(r)' \in Entry /\ Record(r)'.state = "created" /\ lock = r
      BY <3>1, <3>2, RewrittenProperties DEF Writes, Entry
    <3>4. run[r].at \in 1..Len(Selected) /\ lock' = lock
      BY <1>11, PlacesHold DEF NameAttempt, At, PlaceInv, AtSession, Working, Quiet
    <3> QED
      BY <3>3, <3>4, WorksOn, AcquisitionAssumption DEF Working
  <2>2. ASSUME NEW q \in Runner, q # r
        PROVE  PlaceInv(q)'
    <3>1. run'[q] = run[q] /\ (lock = q => lock' = q /\ UNCHANGED <<attempts, preflight>>)
      BY <1>11, <2>2, NameAttemptWrites DEF Writes, NameAttempt, Quiet
    <3> QED
      BY <3>1, OtherPlaces
  <2> QED
    BY <2>1, <2>2 DEF PlacesInv
<1>12. ASSUME NEW r \in Runner, Continue(r)
      PROVE  PlacesInv'
  <2> USE DEF AcquisitionType, AcquisitionInv
  <2>1. PlaceInv(r)'
    <3>1. /\ run'[r].place = "work" /\ run'[r].at = run[r].at /\ run'[r].journal = run[r].journal
      BY <1>12, GoesDoes DEF Continue, RunPlace, UnderLock, AtSession, Working
    <3>2. /\ lock' = r /\ run'[r].journal # Missing /\ run'[r].at \in 1..Len(Selected)
      BY <1>12, <3>1, PlacesHold, SelectedProperties DEF Continue, Open, At, PlaceInv, UnderLock,
         Quiet, Memory
    <3>3. Record(r)' # Missing
      BY <1>12, <3>1, AtTheSession DEF Continue
    <3> QED
      BY <3>1, <3>2, <3>3, WorksOn DEF Working
  <2>2. ASSUME NEW q \in Runner, q # r
        PROVE  PlaceInv(q)'
    <3>1. run'[q] = run[q] /\ (lock = q => lock' = q /\ UNCHANGED <<attempts, preflight>>)
      BY <1>12, <2>2, GoesDoes DEF Continue, files, Quiet, RunPlace, UnderLock, AtSession, Working
    <3> QED
      BY <3>1, OtherPlaces
  <2> QED
    BY <2>1, <2>2 DEF PlacesInv
<1>13. ASSUME NEW r \in Runner, ResumeCapture(r)
      PROVE  PlacesInv'
  <2> USE DEF AcquisitionType, AcquisitionInv
  <2>1. PlaceInv(r)'
    <3>1. /\ lock = r /\ run[r].at \in 1..Len(Selected) /\ run[r].journal # Missing
          /\ Here(r) \in Chosen /\ Record(r) \in Entry /\ PlaceInv(r) /\ run[r].place = "work"
      BY <1>13, AtWork, PlacesHold, AcquisitionAssumption DEF ResumeCapture, At, Working
    <3>2. /\ run'[r].place = "publish" /\ run'[r].at = run[r].at /\ run'[r].journal = run[r].journal
      BY <1>13, GoesDoes DEF ResumeCapture, RunPlace, UnderLock, AtSession, Working
    <3>3. Record(r)' = Record(r) /\ AttemptOf(r)' = AttemptOf(r) /\ Here(r)' = Here(r)
      BY <3>2, AtTheSession
    <3>4. lock' = r
      BY <1>13, <3>1 DEF ResumeCapture, Quiet
    <3> QED
      BY <1>13, <3>1, <3>2, <3>3, <3>4, WorksOn, AcquisitionAssumption DEF Working, PlaceInv,
         ResumeCapture
  <2>2. ASSUME NEW q \in Runner, q # r
        PROVE  PlaceInv(q)'
    <3>1. run'[q] = run[q] /\ (lock = q => lock' = q /\ UNCHANGED <<attempts, preflight>>)
      BY <1>13, <2>2, GoesDoes DEF ResumeCapture, files, Quiet, RunPlace, UnderLock, AtSession, Working
    <3> QED
      BY <3>1, OtherPlaces
  <2> QED
    BY <2>1, <2>2 DEF PlacesInv
<1>14. ASSUME NEW r \in Runner, MarkLoading(r)
      PROVE  PlacesInv'
  <2> USE DEF AcquisitionType, AcquisitionInv
  <2>1. PlaceInv(r)'
    <3>1. Writes(r, [Record(r) EXCEPT !.state = "loading"], "load", run[r].at)
      BY <1>14, MarkLoadingWrites
    <3>2. Record(r)' = [Record(r) EXCEPT !.state = "loading"]
      BY <3>1, WritesRecord
    <3>3. /\ run'[r].place = "load" /\ run'[r].at = run[r].at /\ run'[r].journal \in Journal
          /\ Record(r)' \in Entry /\ Record(r)'.state = "loading" /\ lock = r
      BY <3>1, <3>2, RewrittenProperties DEF Writes, Entry
    <3>4. run[r].at \in 1..Len(Selected) /\ lock' = lock
      BY <1>14, PlacesHold DEF MarkLoading, At, PlaceInv, AtSession, Working, Quiet
    <3> QED
      BY <3>3, <3>4, WorksOn, AcquisitionAssumption DEF Working
  <2>2. ASSUME NEW q \in Runner, q # r
        PROVE  PlaceInv(q)'
    <3>1. run'[q] = run[q] /\ (lock = q => lock' = q /\ UNCHANGED <<attempts, preflight>>)
      BY <1>14, <2>2, MarkLoadingWrites DEF Writes, MarkLoading, Quiet
    <3> QED
      BY <3>1, OtherPlaces
  <2> QED
    BY <2>1, <2>2 DEF PlacesInv
<1>15. ASSUME NEW r \in Runner, Load(r)
      PROVE  PlacesInv'
  <2> USE DEF AcquisitionType, AcquisitionInv
  <2>1. PlaceInv(r)'
    <3>1. Writes(r, [Record(r) EXCEPT !.state = "capturing"], "capture", run[r].at)
      BY <1>15, LoadWrites
    <3>2. Record(r)' = [Record(r) EXCEPT !.state = "capturing"]
      BY <3>1, WritesRecord
    <3>3. /\ run'[r].place = "capture" /\ run'[r].at = run[r].at /\ run'[r].journal \in Journal
          /\ Record(r)' \in Entry /\ Record(r)'.state = "capturing" /\ lock = r
      BY <3>1, <3>2, RewrittenProperties DEF Writes, Entry
    <3>4. run[r].at \in 1..Len(Selected) /\ lock' = lock
      BY <1>15, PlacesHold DEF Load, At, PlaceInv, AtSession, Working, Quiet
    <3> QED
      BY <3>3, <3>4, WorksOn, AcquisitionAssumption DEF Working
  <2>2. ASSUME NEW q \in Runner, q # r
        PROVE  PlaceInv(q)'
    <3>1. run'[q] = run[q] /\ (lock = q => lock' = q /\ UNCHANGED <<attempts, preflight>>)
      BY <1>15, <2>2, LoadWrites DEF Writes, Load, Quiet
    <3> QED
      BY <3>1, OtherPlaces
  <2> QED
    BY <2>1, <2>2 DEF PlacesInv
<1>16. ASSUME NEW r \in Runner, WriteTable(r)
      PROVE  PlacesInv'
  <2> USE DEF AcquisitionType, AcquisitionInv
  <2>1. PlaceInv(r)'
    <3>1. /\ lock = r /\ run[r].at \in 1..Len(Selected) /\ run[r].journal # Missing
          /\ Here(r) \in Chosen /\ Record(r) \in Entry /\ PlaceInv(r) /\ run[r].place = "capture"
      BY <1>16, AtWork, PlacesHold, AcquisitionAssumption DEF WriteTable, At, Working
    <3>2. UNCHANGED <<run, lock, preflight>>
      BY <1>16 DEF WriteTable, Quiet
    <3> QED
      BY <3>1, <3>2, AtTheSession, WorksOn, AcquisitionAssumption DEF PlaceInv, Working
  <2>2. ASSUME NEW q \in Runner, q # r
        PROVE  PlaceInv(q)'
    <3>1. run'[q] = run[q] /\ (lock = q => lock' = q /\ UNCHANGED <<attempts, preflight>>)
      BY <1>16, <2>2, AtWork DEF WriteTable, At, Quiet, Working
    <3> QED
      BY <3>1, OtherPlaces
  <2> QED
    BY <2>1, <2>2 DEF PlacesInv
<1>17. ASSUME NEW r \in Runner, Captured(r)
      PROVE  PlacesInv'
  <2> USE DEF AcquisitionType, AcquisitionInv
  <2>1. PlaceInv(r)'
    <3>0. Record(r) \in Entry
      BY <1>17, AtWork DEF Captured, At, Working
    <3>1. Writes(r, [Record(r) EXCEPT !.state = "captured", !.measurement = captures'], "publish", run[r].at)
      BY <1>17, CapturedWrites
    <3>2. Record(r)' = [Record(r) EXCEPT !.state = "captured", !.measurement = captures']
      BY <3>1, WritesRecord
    <3>3. /\ run'[r].place = "publish" /\ run'[r].at = run[r].at /\ run'[r].journal \in Journal
          /\ Record(r)' \in Entry /\ Record(r)'.state = "captured" /\ lock = r
      <4> DEFINE rec == [Record(r) EXCEPT !.state = "captured", !.measurement = captures']
      <4>1. rec \in Entry /\ rec.state = "captured"
        BY <3>0, <3>1 DEF Writes, Entry
      <4> HIDE DEF rec
      <4>2. Record(r)' = rec
        BY <3>2 DEF rec
      <4> QED
        BY <3>1, <4>1, <4>2, RewrittenProperties DEF Writes
    <3>4. run[r].at \in 1..Len(Selected) /\ lock' = lock
      BY <1>17, PlacesHold DEF Captured, At, PlaceInv, AtSession, Working, Quiet
    <3> QED
      BY <3>3, <3>4, WorksOn, AcquisitionAssumption DEF Working
  <2>2. ASSUME NEW q \in Runner, q # r
        PROVE  PlaceInv(q)'
    <3>1. run'[q] = run[q] /\ (lock = q => lock' = q /\ UNCHANGED <<attempts, preflight>>)
      BY <1>17, <2>2, CapturedWrites DEF Writes, Captured, Quiet
    <3> QED
      BY <3>1, OtherPlaces
  <2> QED
    BY <2>1, <2>2 DEF PlacesInv
<1>18. ASSUME NEW r \in Runner, PublishAttempt(r)
      PROVE  PlacesInv'
  <2> USE DEF AcquisitionType, AcquisitionInv
  <2>1. PlaceInv(r)'
    <3>1. /\ lock = r /\ run[r].at \in 1..Len(Selected) /\ run[r].journal # Missing
          /\ Here(r) \in Chosen /\ Record(r) \in Entry /\ PlaceInv(r) /\ run[r].place = "publish"
      BY <1>18, AtWork, PlacesHold, AcquisitionAssumption DEF PublishAttempt, At, Working
    <3>2. /\ run'[r].place = "release" /\ run'[r].at = run[r].at /\ run'[r].journal = run[r].journal
      BY <1>18, GoesDoes DEF PublishAttempt, RunPlace, UnderLock, AtSession, Working
    <3>3. Record(r)' = Record(r) /\ AttemptOf(r)' = AttemptOf(r) /\ Here(r)' = Here(r)
      BY <3>2, AtTheSession
    <3>4. lock' = r
      BY <1>18, <3>1 DEF PublishAttempt, Quiet
    <3>5. attempts'[AttemptOf(r)].published = Record(r).measurement
      BY <1>18, OneAttemptDoes
    <3> QED
      BY <1>18, <3>1, <3>2, <3>3, <3>4, <3>5, WorksOn, AcquisitionAssumption DEF Working,
         PlaceInv, PublishAttempt
  <2>2. ASSUME NEW q \in Runner, q # r
        PROVE  PlaceInv(q)'
    <3>1. run'[q] = run[q] /\ (lock = q => lock' = q /\ UNCHANGED <<attempts, preflight>>)
      BY <1>18, <2>2, AtWork, GoesDoes DEF PublishAttempt, At, Quiet, RunPlace, UnderLock,
         AtSession, Working
    <3> QED
      BY <3>1, OtherPlaces
  <2> QED
    BY <2>1, <2>2 DEF PlacesInv
<1>19. ASSUME NEW r \in Runner, PublishMeasurement(r)
      PROVE  PlacesInv'
  <2> USE DEF AcquisitionType, AcquisitionInv
  <2>1. PlaceInv(r)'
    <3>1. /\ lock = r /\ run[r].at \in 1..Len(Selected) /\ run[r].journal # Missing
          /\ Here(r) \in Chosen /\ Record(r) \in Entry /\ PlaceInv(r) /\ run[r].place = "release"
      BY <1>19, AtWork, PlacesHold, AcquisitionAssumption DEF PublishMeasurement, At, Working
    <3>2. /\ run'[r].place = "complete" /\ run'[r].at = run[r].at /\ run'[r].journal = run[r].journal
      BY <1>19, GoesDoes DEF PublishMeasurement, RunPlace, UnderLock, AtSession, Working
    <3>3. Record(r)' = Record(r) /\ AttemptOf(r)' = AttemptOf(r) /\ Here(r)' = Here(r)
      BY <3>2, AtTheSession
    <3>4. lock' = r
      BY <1>19, <3>1 DEF PublishMeasurement, Quiet
    <3>5. preflight'[Here(r)] # Missing
      <4>1. preflight' = [preflight EXCEPT ![Here(r)] = Record(r).measurement]
        BY <1>19 DEF PublishMeasurement
      <4>2. Record(r).measurement # Missing
        BY <1>19, <3>1, Witnessed DEF PublishMeasurement, At, Working, PlaceInv
      <4> QED
        BY <3>1, <4>1, <4>2
    <3> QED
      BY <1>19, <3>1, <3>2, <3>3, <3>4, <3>5, WorksOn, AcquisitionAssumption DEF Working,
         PlaceInv, PublishMeasurement
  <2>2. ASSUME NEW q \in Runner, q # r
        PROVE  PlaceInv(q)'
    <3>1. run'[q] = run[q] /\ (lock = q => lock' = q /\ UNCHANGED <<attempts, preflight>>)
      BY <1>19, <2>2, AtWork, GoesDoes DEF PublishMeasurement, At, Quiet, RunPlace, UnderLock,
         AtSession, Working
    <3> QED
      BY <3>1, OtherPlaces
  <2> QED
    BY <2>1, <2>2 DEF PlacesInv
<1>20. ASSUME NEW r \in Runner, MarkComplete(r)
      PROVE  PlacesInv'
  <2> USE DEF AcquisitionType, AcquisitionInv
  <2>1. PlaceInv(r)'
    BY <1>20, MarkCompleteWrites, RewrittenProperties, BeforeLock, AcquisitionAssumption DEF
       Writes, MarkComplete, Quiet
  <2>2. ASSUME NEW q \in Runner, q # r
        PROVE  PlaceInv(q)'
    <3>1. run'[q] = run[q] /\ (lock = q => lock' = q /\ UNCHANGED <<attempts, preflight>>)
      BY <1>20, <2>2, MarkCompleteWrites DEF Writes, MarkComplete, Quiet
    <3> QED
      BY <3>1, OtherPlaces
  <2> QED
    BY <2>1, <2>2 DEF PlacesInv
<1>21. ASSUME NEW r \in Runner, Fails(r)
      PROVE  PlacesInv'
  <2> USE DEF AcquisitionType, AcquisitionInv
  <2>1. PlaceInv(r)'
    BY <1>21, FailsWrites, RewrittenProperties, BeforeLock, AcquisitionAssumption DEF Writes,
       Fails, Quiet
  <2>2. ASSUME NEW q \in Runner, q # r
        PROVE  PlaceInv(q)'
    <3>1. run'[q] = run[q] /\ (lock = q => lock' = q /\ UNCHANGED <<attempts, preflight>>)
      BY <1>21, <2>2, FailsWrites DEF Writes, Fails, Quiet
    <3> QED
      BY <3>1, OtherPlaces
  <2> QED
    BY <2>1, <2>2 DEF PlacesInv
<1>22. ASSUME NEW r \in Runner, Finish(r)
      PROVE  PlacesInv'
  <2> USE DEF AcquisitionType, AcquisitionInv
  <2>1. PlaceInv(r)'
    BY <1>22, LeavesDoes, BeforeLock DEF Finish, Idle
  <2>2. ASSUME NEW q \in Runner, q # r
        PROVE  PlaceInv(q)'
    <3>1. run'[q] = run[q] /\ (lock = q => lock' = q /\ UNCHANGED <<attempts, preflight>>)
      BY <1>22, <2>2, LeavesDoes DEF Finish, files, Quiet, Trouble
    <3> QED
      BY <3>1, OtherPlaces
  <2> QED
    BY <2>1, <2>2 DEF PlacesInv
<1>23. ASSUME NEW r \in Runner, Error(r)
      PROVE  PlacesInv'
  <2> USE DEF AcquisitionType, AcquisitionInv
  <2>1. PlaceInv(r)'
    BY <1>23, ErrorWrites, RewrittenProperties, BeforeLock, AcquisitionAssumption DEF Writes,
       Error, Quiet
  <2>2. ASSUME NEW q \in Runner, q # r
        PROVE  PlaceInv(q)'
    <3>1. run'[q] = run[q] /\ (lock = q => lock' = q /\ UNCHANGED <<attempts, preflight>>)
      BY <1>23, <2>2, ErrorWrites DEF Writes, Error, Quiet
    <3> QED
      BY <3>1, OtherPlaces
  <2> QED
    BY <2>1, <2>2 DEF PlacesInv
<1>24. ASSUME NEW r \in Runner, CapacityStop(r)
      PROVE  PlacesInv'
  <2> USE DEF AcquisitionType, AcquisitionInv
  <2>1. PlaceInv(r)'
    BY <1>24, LeavesDoes, BeforeLock DEF CapacityStop, Idle
  <2>2. ASSUME NEW q \in Runner, q # r
        PROVE  PlaceInv(q)'
    <3>1. run'[q] = run[q] /\ (lock = q => lock' = q /\ UNCHANGED <<attempts, preflight>>)
      BY <1>24, <2>2, LeavesDoes DEF CapacityStop, files, Quiet, Trouble
    <3> QED
      BY <3>1, OtherPlaces
  <2> QED
    BY <2>1, <2>2 DEF PlacesInv
<1>25. ASSUME NEW r \in Runner, Die(r)
      PROVE  PlacesInv'
  <2> USE DEF AcquisitionType, AcquisitionInv
  <2>1. PlaceInv(r)'
    BY <1>25, LeavesDoes, BeforeLock DEF Die, Idle
  <2>2. ASSUME NEW q \in Runner, q # r
        PROVE  PlaceInv(q)'
    <3>1. run'[q] = run[q] /\ (lock = q => lock' = q /\ UNCHANGED <<attempts, preflight>>)
      BY <1>25, <2>2, LeavesDoes DEF Die, files, Quiet, Trouble
    <3> QED
      BY <3>1, OtherPlaces
  <2> QED
    BY <2>1, <2>2 DEF PlacesInv
<1>26. ASSUME NEW r \in Runner, NEW state \in {"rate-limited", "permission-denied"}, Stop(r, state)
      PROVE  PlacesInv'
  <2> USE DEF AcquisitionType, AcquisitionInv
  <2>1. PlaceInv(r)'
    BY <1>26, LeavesDoes, BeforeLock DEF Stop, Idle
  <2>2. ASSUME NEW q \in Runner, q # r
        PROVE  PlaceInv(q)'
    <3>1. run'[q] = run[q] /\ (lock = q => lock' = q /\ UNCHANGED <<attempts, preflight>>)
      BY <1>26, <2>2, LeavesDoes DEF Stop, files, Quiet, Trouble
    <3> QED
      BY <3>1, OtherPlaces
  <2> QED
    BY <2>1, <2>2 DEF PlacesInv
<1>27. ASSUME NEW s \in Chosen, Measure(s)
      PROVE  PlacesInv'
  <2>1. UNCHANGED <<run, lock, attempts, preflight>>
    BY <1>27 DEF Measure, files, Quiet
  <2> QED
    BY <2>1, OtherPlaces DEF PlacesInv
<1>28. ASSUME Change
      PROVE  PlacesInv'
  <2>1. UNCHANGED <<run, lock, attempts, preflight>>
    BY <1>28 DEF Change, files, Quiet
  <2> QED
    BY <2>1, OtherPlaces DEF PlacesInv
<1> QED
  BY <1>1, <1>2, <1>3, <1>4, <1>5, <1>6, <1>7, <1>8, <1>9, <1>10, <1>11, <1>12, <1>13, <1>14,
     <1>15, <1>16, <1>17, <1>18, <1>19, <1>20, <1>21, <1>22, <1>23, <1>24, <1>25, <1>26, <1>27,
     <1>28 DEF AcquisitionNext

LEMMA TellsStill ==
  ASSUME AcquisitionInv, Grow, Len(attempts)' \in Nat, captures' \in Nat,
         NEW entry, NEW s, NEW owner, Tells(entry, s, owner)
  PROVE  Tells(entry, s, owner)'
<1>1. Len(attempts) \in Nat /\ captures \in Nat
  BY AttemptsProperties DEF AcquisitionInv, AcquisitionType
<1> QED
  BY <1>1 DEF Tells, Grow

LEMMA AllTellStill ==
  ASSUME AcquisitionInv, Grow, Len(attempts)' \in Nat, captures' \in Nat, NEW j, NEW owner, AllTell(j, owner)
  PROVE  AllTell(j, owner)'
  BY TellsStill DEF AllTell

LEMMA OneMoreTells ==
  ASSUME NEW j, NEW k, NEW s \in Chosen, NEW owner, j # Missing, AllTell(j, owner)', Tells(k.of[s], s, owner)',
         \A t \in Chosen : t # s => k.of[t] = j.of[t]
  PROVE  AllTell(k, owner)'
  BY DEF AllTell

(* A capture's measurement is of the attempt whose tables were captured. *)
LEMMA SameOwner ==
  ASSUME NEW o, NEW p, \A m \in 1..captures : o[m] = p[m], Owned(o)
  PROVE  Owned(p)
  BY DEF Owned, AllTell, Tells, Published

LEMMA GrownLengths ==
  ASSUME AcquisitionInv, AcquisitionNext
  PROVE  /\ Grow /\ Len(attempts)' \in Nat /\ captures' \in Nat
         /\ Len(attempts) \in Nat /\ captures \in Nat
  BY AttemptsGrow, AcquisitionTypeStays DEF AcquisitionInv, AcquisitionType

(* A step that publishes nothing, writes no record and forgets or copies    *)
(* journals only.                                                           *)
LEMMA NoNewRecord ==
  ASSUME AcquisitionInv, AcquisitionNext, captures' = captures, journal' = journal,
         \A q \in Runner :
             \/ run'[q].journal \in {Missing, journal, Fresh} \/ run'[q].journal = run[q].journal,
         \A a \in 1..Len(attempts)' :
             attempts'[a].published # Missing =>
                 a \in 1..Len(attempts) /\ attempts'[a].published = attempts[a].published
  PROVE  Journaled'
<1>1. PICK owner \in [1..captures -> Nat] : Owned(owner)
  BY DEF AcquisitionInv, Journaled
<1>2. ASSUME NEW j, AllTell(j, owner) PROVE AllTell(j, owner)'
  BY <1>2, AllTellStill, GrownLengths
<1>3. AllTell(Fresh, owner) /\ AllTell(Missing, owner)
  BY FreshProperties DEF AllTell, AcquisitionInv, AcquisitionType
<1>4. AllTell(journal, owner)'
  BY <1>1, <1>2 DEF Owned
<1>5. ASSUME NEW q \in Runner PROVE AllTell(run[q].journal, owner)'
  BY <1>1, <1>2, <1>3 DEF Owned
<1>6. Published(owner)'
  BY <1>1, GrownLengths DEF Owned, Published, Grow
<1>7. Owned(owner)'
  BY <1>4, <1>5, <1>6 DEF Owned
<1> QED
  BY <1>1, <1>7 DEF Journaled

(* A step that writes a record, of what was known already. *)
LEMMA NewRecord ==
  ASSUME AcquisitionInv, AcquisitionNext, captures' = captures, NEW r \in Runner, NEW record, NEW s \in Chosen,
         run[r].journal # Missing, journal'.of[s] = record,
         \A t \in Chosen : t # s => journal'.of[t] = run[r].journal.of[t],
         \A owner : Owned(owner) => Tells(record, s, owner)',
         \A q \in Runner :
             run'[q].journal \in {Missing, journal'} \/ run'[q].journal = run[q].journal,
         \A a \in 1..Len(attempts)' :
             attempts'[a].published # Missing =>
                 a \in 1..Len(attempts) /\ attempts'[a].published = attempts[a].published
  PROVE  Journaled'
<1>1. PICK owner \in [1..captures -> Nat] : Owned(owner)
  BY DEF AcquisitionInv, Journaled
<1>2. ASSUME NEW j, AllTell(j, owner) PROVE AllTell(j, owner)'
  BY <1>2, AllTellStill, GrownLengths
<1>3. AllTell(Missing, owner)
  BY DEF AllTell
<1>4. AllTell(journal, owner)'
  <2>1. \A q \in Runner : AllTell(run[q].journal, owner)
    BY <1>1 DEF Owned
  <2> QED
    BY <1>1, <1>2, <2>1 DEF AllTell
<1>5. ASSUME NEW q \in Runner PROVE AllTell(run[q].journal, owner)'
  BY <1>1, <1>2, <1>3, <1>4 DEF Owned, AllTell
<1>6. Published(owner)'
  BY <1>1, GrownLengths DEF Owned, Published, Grow
<1>7. Owned(owner)'
  BY <1>4, <1>5, <1>6 DEF Owned
<1> QED
  BY <1>1, <1>7 DEF Journaled

LEMMA WritesTell ==
  ASSUME NEW r \in Runner, NEW e, NEW s, s = Here(r), NEW place, NEW at, Writes(r, e, place, at)
  PROVE  /\ run[r].journal # Missing /\ journal'.of[s] = e /\ s \in Chosen
         /\ \A t \in Chosen : t # s => journal'.of[t] = run[r].journal.of[t]
         /\ \A q \in Runner : run'[q].journal \in {Missing, journal'} \/ run'[q].journal = run[q].journal
<1>1. /\ run[r].journal \in Journal /\ s \in Chosen /\ e \in Entry /\ journal' = Rewritten(r, e)
      /\ run'[r].journal = journal' /\ \A q \in Runner : q # r => run'[q] = run[q]
  BY DEF Writes
<1>2. journal'.of[s] = e /\ \A t \in Chosen : t # s => journal'.of[t] = run[r].journal.of[t]
  BY <1>1, RewrittenProperties
<1>3. \A q \in Runner : run'[q].journal \in {Missing, journal'} \/ run'[q].journal = run[q].journal
  BY <1>1
<1> QED
  BY <1>1, <1>2, <1>3, AcquisitionAssumption

LEMMA LoadOnly ==
  ASSUME NEW r \in Runner, Load(r)
  PROVE  ~ PublishAttempt(r) /\ ~ WriteTable(r)
  BY DEF Load, PublishAttempt, WriteTable, At

LEMMA RecordsStay ==
  ASSUME AcquisitionInv, AcquisitionNext
  PROVE  Journaled'
<1>1. ASSUME NEW r \in Runner, Begin(r)
      PROVE  Journaled'
  <2> USE DEF AcquisitionType, AcquisitionInv
  <2>1. captures' = captures /\ journal' = journal /\ attempts' = attempts
    BY <1>1 DEF Begin, files, Quiet, Trouble
  <2>2. \A q \in Runner :
            run'[q].journal \in {Missing, journal, Fresh} \/ run'[q].journal = run[q].journal
    BY <1>1, GoesDoes DEF Begin, RunPlace, UnderLock, AtSession, Working
  <2> QED
    BY <2>1, <2>2, NoNewRecord
<1>2. ASSUME NEW r \in Runner, Freeze(r)
      PROVE  Journaled'
  <2> USE DEF AcquisitionType, AcquisitionInv
  <2>1. captures' = captures /\ journal' = journal /\ attempts' = attempts
    BY <1>2 DEF Freeze, files, Quiet, Trouble
  <2>2. \A q \in Runner :
            run'[q].journal \in {Missing, journal, Fresh} \/ run'[q].journal = run[q].journal
    BY <1>2, GoesDoes DEF Freeze, RunPlace, UnderLock, AtSession, Working
  <2> QED
    BY <2>1, <2>2, NoNewRecord
<1>3. ASSUME NEW r \in Runner, ReadJournal(r)
      PROVE  Journaled'
  <2> USE DEF AcquisitionType, AcquisitionInv
  <2>1. captures' = captures /\ journal' = journal /\ attempts' = attempts
    BY <1>3 DEF ReadJournal, files, Quiet, Trouble
  <2>2. \A q \in Runner :
            run'[q].journal \in {Missing, journal, Fresh} \/ run'[q].journal = run[q].journal
    BY <1>3 DEF ReadJournal, Memory
  <2> QED
    BY <2>1, <2>2, NoNewRecord
<1>4. ASSUME NEW r \in Runner, PrepareOnly(r)
      PROVE  Journaled'
  <2> USE DEF AcquisitionType, AcquisitionInv
  <2>1. captures' = captures /\ journal' = journal /\ attempts' = attempts
    BY <1>4 DEF PrepareOnly, files, Quiet, Trouble
  <2>2. \A q \in Runner :
            run'[q].journal \in {Missing, journal, Fresh} \/ run'[q].journal = run[q].journal
    BY <1>4, LeavesDoes DEF PrepareOnly, Idle
  <2> QED
    BY <2>1, <2>2, NoNewRecord
<1>5. ASSUME NEW r \in Runner, Survey(r)
      PROVE  Journaled'
  <2> USE DEF AcquisitionType, AcquisitionInv
  <2>1. captures' = captures /\ journal' = journal /\ attempts' = attempts
    BY <1>5 DEF Survey, files, Quiet, Trouble
  <2>2. \A q \in Runner :
            run'[q].journal \in {Missing, journal, Fresh} \/ run'[q].journal = run[q].journal
    BY <1>5 DEF Survey, Memory
  <2> QED
    BY <2>1, <2>2, NoNewRecord
<1>6. ASSUME NEW r \in Runner, Refuse(r)
      PROVE  Journaled'
  <2> USE DEF AcquisitionType, AcquisitionInv
  <2>1. captures' = captures /\ journal' = journal /\ attempts' = attempts
    BY <1>6 DEF Refuse, files, Quiet, Trouble
  <2>2. \A q \in Runner :
            run'[q].journal \in {Missing, journal, Fresh} \/ run'[q].journal = run[q].journal
    BY <1>6, LeavesDoes DEF Refuse, Idle
  <2> QED
    BY <2>1, <2>2, NoNewRecord
<1>7. ASSUME NEW r \in Runner, TakeLock(r)
      PROVE  Journaled'
  <2> USE DEF AcquisitionType, AcquisitionInv
  <2>1. captures' = captures /\ journal' = journal /\ attempts' = attempts
    BY <1>7 DEF TakeLock, files, Quiet, Trouble
  <2>2. \A q \in Runner :
            run'[q].journal \in {Missing, journal, Fresh} \/ run'[q].journal = run[q].journal
    BY <1>7, GoesDoes DEF TakeLock, RunPlace, UnderLock, AtSession, Working
  <2> QED
    BY <2>1, <2>2, NoNewRecord
<1>8. ASSUME NEW r \in Runner, LockHeld(r)
      PROVE  Journaled'
  <2> USE DEF AcquisitionType, AcquisitionInv
  <2>1. captures' = captures /\ journal' = journal /\ attempts' = attempts
    BY <1>8 DEF LockHeld, files, Quiet, Trouble
  <2>2. \A q \in Runner :
            run'[q].journal \in {Missing, journal, Fresh} \/ run'[q].journal = run[q].journal
    BY <1>8, LeavesDoes DEF LockHeld, Idle
  <2> QED
    BY <2>1, <2>2, NoNewRecord
<1>9. ASSUME NEW r \in Runner, Reuse(r)
      PROVE  Journaled'
  <2> USE DEF AcquisitionType, AcquisitionInv
  <2>1. captures' = captures /\ journal' = journal /\ attempts' = attempts
    BY <1>9 DEF Reuse, files, Quiet, Trouble
  <2>2. \A q \in Runner :
            run'[q].journal \in {Missing, journal, Fresh} \/ run'[q].journal = run[q].journal
    BY <1>9 DEF Reuse, Memory
  <2> QED
    BY <2>1, <2>2, NoNewRecord
<1>10. ASSUME NEW r \in Runner, MakeAttempt(r)
      PROVE  Journaled'
  <2> USE DEF AcquisitionType, AcquisitionInv
  <2>1. captures' = captures /\ journal' = journal
    BY <1>10 DEF MakeAttempt, Quiet
  <2>2. \A q \in Runner : run'[q].journal = run[q].journal
    BY <1>10, GoesDoes DEF MakeAttempt, RunPlace, UnderLock, AtSession
  <2>3. \A a \in 1..Len(attempts)' : attempts'[a].published # Missing =>
            a \in 1..Len(attempts) /\ attempts'[a].published = attempts[a].published
    BY <1>10, MakeAttemptDoes, AttemptsProperties
  <2> QED
    BY <2>1, <2>2, <2>3, NoNewRecord
<1>11. ASSUME NEW r \in Runner, NameAttempt(r)
      PROVE  Journaled'
  <2> USE DEF AcquisitionType, AcquisitionInv
  <2>e. PICK e : e = [attempt |-> Len(attempts), state |-> "created", measurement |-> Missing]
    OBVIOUS
  <2>s. PICK s : s = Here(r)
    OBVIOUS
  <2>1. Writes(r, e, "work", run[r].at)
    BY <1>11, <2>e, NameAttemptWrites
  <2>2. /\ run[r].journal # Missing /\ journal'.of[s] = e /\ s \in Chosen
        /\ \A t \in Chosen : t # s => journal'.of[t] = run[r].journal.of[t]
        /\ \A q \in Runner : run'[q].journal \in {Missing, journal'} \/ run'[q].journal = run[q].journal
    BY <2>s, <2>1, WritesTell
  <2>3. ASSUME NEW owner, Owned(owner)
        PROVE  Tells(e, s, owner)'
    <3>1. run[r].place = "name" /\ PlaceInv(r) /\ Len(attempts) \in Nat /\ UNCHANGED attempts
      BY <1>11, PlacesHold, AttemptsProperties DEF NameAttempt, At
    <3>2. Len(attempts) > 0 /\ attempts[Len(attempts)].of = s
      BY <2>s, <3>1 DEF PlaceInv
    <3>3. e.attempt = Len(attempts) /\ e.measurement = Missing /\ e.state = "created"
      BY <2>e
    <3> QED
      BY <3>1, <3>2, <3>3 DEF Tells
  <2>4. \A a \in 1..Len(attempts)' : attempts'[a].published # Missing =>
            a \in 1..Len(attempts) /\ attempts'[a].published = attempts[a].published
    BY <1>11 DEF NameAttempt
  <2>5. captures' = captures
    BY <1>11 DEF NameAttempt, Quiet
  <2> QED
    BY <2>1, <2>2, <2>3, <2>4, <2>5, NewRecord
<1>12. ASSUME NEW r \in Runner, Continue(r)
      PROVE  Journaled'
  <2> USE DEF AcquisitionType, AcquisitionInv
  <2>1. captures' = captures /\ journal' = journal /\ attempts' = attempts
    BY <1>12 DEF Continue, files, Quiet, Trouble
  <2>2. \A q \in Runner :
            run'[q].journal \in {Missing, journal, Fresh} \/ run'[q].journal = run[q].journal
    BY <1>12, GoesDoes DEF Continue, RunPlace, UnderLock, AtSession, Working
  <2> QED
    BY <2>1, <2>2, NoNewRecord
<1>13. ASSUME NEW r \in Runner, ResumeCapture(r)
      PROVE  Journaled'
  <2> USE DEF AcquisitionType, AcquisitionInv
  <2>1. captures' = captures /\ journal' = journal /\ attempts' = attempts
    BY <1>13 DEF ResumeCapture, files, Quiet, Trouble
  <2>2. \A q \in Runner :
            run'[q].journal \in {Missing, journal, Fresh} \/ run'[q].journal = run[q].journal
    BY <1>13, GoesDoes DEF ResumeCapture, RunPlace, UnderLock, AtSession, Working
  <2> QED
    BY <2>1, <2>2, NoNewRecord
<1>14. ASSUME NEW r \in Runner, MarkLoading(r)
      PROVE  Journaled'
  <2> USE DEF AcquisitionType, AcquisitionInv
  <2>e. PICK e : e = [Record(r) EXCEPT !.state = "loading"]
    OBVIOUS
  <2>s. PICK s : s = Here(r)
    OBVIOUS
  <2>1. Writes(r, e, "load", run[r].at)
    BY <1>14, <2>e, MarkLoadingWrites
  <2>2. /\ run[r].journal # Missing /\ journal'.of[s] = e /\ s \in Chosen
        /\ \A t \in Chosen : t # s => journal'.of[t] = run[r].journal.of[t]
        /\ \A q \in Runner : run'[q].journal \in {Missing, journal'} \/ run'[q].journal = run[q].journal
    BY <2>s, <2>1, WritesTell
  <2>3. ASSUME NEW owner, Owned(owner)
        PROVE  Tells(e, s, owner)'
    <3>1. PICK old : old = Record(r)
      OBVIOUS
    <3>2. Tells(old, s, owner) /\ Record(r) \in Entry
      BY <1>14, <2>s, <2>3, <3>1, Witnessed, AtWork DEF MarkLoading, At, Working
    <3>3. Tells(old, s, owner)'
      BY <3>2, TellsStill, GrownLengths
    <3>4. /\ e.attempt = old.attempt /\ e.measurement = old.measurement
          /\ e.state = "captured" => old.state = "captured"
      BY <1>14, <2>e, <3>1, <3>2 DEF Entry
    <3> QED
      BY <3>3, <3>4 DEF Tells
  <2>4. \A a \in 1..Len(attempts)' : attempts'[a].published # Missing =>
            a \in 1..Len(attempts) /\ attempts'[a].published = attempts[a].published
    BY <1>14 DEF MarkLoading
  <2>5. captures' = captures
    BY <1>14 DEF MarkLoading, Quiet
  <2> QED
    BY <2>1, <2>2, <2>3, <2>4, <2>5, NewRecord
<1>15. ASSUME NEW r \in Runner, Load(r)
      PROVE  Journaled'
  <2> USE DEF AcquisitionType, AcquisitionInv
  <2>e. PICK e : e = [Record(r) EXCEPT !.state = "capturing"]
    OBVIOUS
  <2>s. PICK s : s = Here(r)
    OBVIOUS
  <2>1. Writes(r, e, "capture", run[r].at)
    BY <1>15, <2>e, LoadWrites
  <2>2. /\ run[r].journal # Missing /\ journal'.of[s] = e /\ s \in Chosen
        /\ \A t \in Chosen : t # s => journal'.of[t] = run[r].journal.of[t]
        /\ \A q \in Runner : run'[q].journal \in {Missing, journal'} \/ run'[q].journal = run[q].journal
    BY <2>s, <2>1, WritesTell
  <2>3. ASSUME NEW owner, Owned(owner)
        PROVE  Tells(e, s, owner)'
    <3>1. PICK old : old = Record(r)
      OBVIOUS
    <3>2. Tells(old, s, owner) /\ Record(r) \in Entry
      BY <1>15, <2>s, <2>3, <3>1, Witnessed, AtWork DEF Load, At, Working
    <3>3. Tells(old, s, owner)'
      BY <3>2, TellsStill, GrownLengths
    <3>4. /\ e.attempt = old.attempt /\ e.measurement = old.measurement
          /\ e.state = "captured" => old.state = "captured"
      BY <1>15, <2>e, <3>1, <3>2 DEF Entry
    <3> QED
      BY <3>3, <3>4 DEF Tells
  <2>4. \A a \in 1..Len(attempts)' : attempts'[a].published # Missing =>
            a \in 1..Len(attempts) /\ attempts'[a].published = attempts[a].published
    BY <1>15, OneAttemptDoes, LoadOnly
  <2>5. captures' = captures
    BY <1>15 DEF Load, Quiet
  <2> QED
    BY <2>1, <2>2, <2>3, <2>4, <2>5, NewRecord
<1>16. ASSUME NEW r \in Runner, WriteTable(r)
      PROVE  Journaled'
  <2>1. captures' = captures /\ journal' = journal /\ run' = run
    BY <1>16 DEF WriteTable, Quiet
  <2>2. ~ PublishAttempt(r)
    BY <1>16 DEF WriteTable, PublishAttempt, At
  <2>3. \A a \in 1..Len(attempts)' : attempts'[a].published # Missing =>
            a \in 1..Len(attempts) /\ attempts'[a].published = attempts[a].published
    BY <1>16, <2>2, OneAttemptDoes
  <2> QED
    BY <2>1, <2>3, NoNewRecord
<1>17. ASSUME NEW r \in Runner, Captured(r)
      PROVE  Journaled'
  <2> USE DEF AcquisitionType, AcquisitionInv
  <2>1. PICK o \in [1..captures -> Nat] : Owned(o)
    BY DEF Journaled
  <2>2. PICK e, s, own : /\ e = [Record(r) EXCEPT !.state = "captured", !.measurement = captures']
                         /\ s = Here(r)
                         /\ own = [m \in 1..captures' |-> IF m <= captures THEN o[m] ELSE AttemptOf(r)]
    OBVIOUS
  <2>3. /\ captures \in Nat /\ captures' = captures + 1 /\ UNCHANGED attempts
        /\ attempts[AttemptOf(r)].tables = Tables
    BY <1>17 DEF Captured
  <2>4. Record(r) \in Entry /\ AttemptOf(r) \in Nat
    BY <1>17, AtWork DEF Captured, At, Working, Entry, AttemptOf
  <2>5. own \in [1..captures' -> Nat] /\ own[captures'] = AttemptOf(r) /\ \A m \in 1..captures : o[m] = own[m]
    BY <2>1, <2>2, <2>3, <2>4
  <2>6. Owned(own)
    BY <2>1, <2>5, SameOwner
  <2>7. ASSUME NEW j, AllTell(j, own)
        PROVE  AllTell(j, own)'
    BY <2>7, AllTellStill, GrownLengths
  <2>8. Writes(r, e, "publish", run[r].at)
    BY <1>17, <2>2, CapturedWrites
  <2>9. e.attempt = AttemptOf(r) /\ e.measurement = captures' /\ captures' # Missing
    BY <2>2, <2>3, <2>4, AcquisitionAssumption DEF Entry, AttemptOf
  <2>10. Tells(e, s, own)'
    <3>1. Tells(Record(r), s, own)
      BY <1>17, <2>2, <2>6, Witnessed DEF Captured, At, Working
    <3>2. AttemptOf(r) \in 1..Len(attempts) /\ attempts[AttemptOf(r)].of = s
      BY <3>1 DEF Tells, AttemptOf
    <3>3. PICK a : a = AttemptOf(r)
      OBVIOUS
    <3> QED
      BY <2>3, <2>5, <2>9, <3>2, <3>3 DEF Tells
  <2>11. /\ journal'.of[s] = e /\ s \in Chosen /\ run[r].journal # Missing
         /\ \A t \in Chosen : t # s => journal'.of[t] = run[r].journal.of[t]
    BY <2>2, <2>8, RewrittenProperties, AcquisitionAssumption DEF Writes
  <2>12. AllTell(journal, own)'
    <3>1. AllTell(run[r].journal, own)
      BY <2>6 DEF Owned
    <3>2. PICK j, k : j = run[r].journal /\ k = journal'
      OBVIOUS
    <3>3. AllTell(j, own)'
      BY <2>7, <3>1, <3>2
    <3>4. j # Missing /\ k.of[s] = e /\ s \in Chosen /\ \A t \in Chosen : t # s => k.of[t] = j.of[t]
      BY <2>11, <3>2
    <3>5. AllTell(k, own)'
      BY <2>10, <3>3, <3>4 DEF AllTell
    <3> QED
      BY <3>2, <3>5
  <2>13. ASSUME NEW q \in Runner
         PROVE  AllTell(run[q].journal, own)'
    <3>1. CASE q = r
      BY <2>8, <2>12, <3>1 DEF Writes
    <3>2. CASE q # r
      BY <2>6, <2>7, <2>8, <3>2 DEF Writes, Owned
    <3> QED
      BY <3>1, <3>2
  <2>14. Published(own)'
    BY <2>3, <2>6 DEF Owned, Published
  <2>15. Owned(own)'
    BY <2>12, <2>13, <2>14 DEF Owned
  <2> QED
    BY <2>5, <2>15 DEF Journaled
<1>18. ASSUME NEW r \in Runner, PublishAttempt(r)
      PROVE  Journaled'
  <2> USE DEF AcquisitionType, AcquisitionInv
  <2>1. PICK owner \in [1..captures -> Nat] : Owned(owner)
    BY DEF Journaled
  <2>2. captures' = captures /\ journal' = journal /\ \A q \in Runner : run'[q].journal = run[q].journal
    BY <1>18, GoesDoes DEF PublishAttempt, Quiet, RunPlace, UnderLock, AtSession, Working
  <2>3. AllTell(journal, owner)' /\ \A q \in Runner : AllTell(run[q].journal, owner)'
    BY <2>1, <2>2, AllTellStill, GrownLengths DEF Owned
  <2>4. /\ Tells(Record(r), Here(r), owner) /\ Record(r).measurement # Missing
        /\ AttemptOf(r) \in 1..Len(attempts) /\ Record(r) \in Entry
    BY <1>18, <2>1, Witnessed, AtWork, PlacesHold DEF PublishAttempt, At, Working, PlaceInv
  <2>5. ASSUME NEW a \in 1..Len(attempts)', attempts'[a].published # Missing
        PROVE  /\ attempts'[a].published \in 1..captures'
               /\ attempts'[a].tables = Tables /\ owner[attempts'[a].published] = a
    <3>1. CASE a = AttemptOf(r)
      <4>1. attempts'[a].published = Record(r).measurement
        BY <1>18, <3>1, OneAttemptDoes
      <4>2. attempts[a].tables = Tables /\ Record(r).measurement \in 1..captures /\ owner[Record(r).measurement] = a
        BY <2>4, <3>1 DEF Tells, AttemptOf
      <4> QED
        BY <2>2, <2>4, <3>1, <4>1, <4>2, GrownLengths DEF Grow
    <3>2. CASE a # AttemptOf(r)
      <4>1. a \in 1..Len(attempts) /\ attempts'[a] = attempts[a]
        BY <1>18, <3>2, OneAttemptDoes
      <4> QED
        BY <2>1, <2>2, <2>5, <4>1 DEF Owned, Published
    <3> QED
      BY <3>1, <3>2
  <2>6. Owned(owner)'
    BY <2>3, <2>5 DEF Owned, Published
  <2> QED
    BY <2>1, <2>2, <2>6 DEF Journaled
<1>19. ASSUME NEW r \in Runner, PublishMeasurement(r)
      PROVE  Journaled'
  <2> USE DEF AcquisitionType, AcquisitionInv
  <2>1. captures' = captures /\ journal' = journal /\ attempts' = attempts
    BY <1>19 DEF PublishMeasurement, files, Quiet, Trouble
  <2>2. \A q \in Runner :
            run'[q].journal \in {Missing, journal, Fresh} \/ run'[q].journal = run[q].journal
    BY <1>19, GoesDoes DEF PublishMeasurement, RunPlace, UnderLock, AtSession, Working
  <2> QED
    BY <2>1, <2>2, NoNewRecord
<1>20. ASSUME NEW r \in Runner, MarkComplete(r)
      PROVE  Journaled'
  <2> USE DEF AcquisitionType, AcquisitionInv
  <2>e. PICK e : e = [Record(r) EXCEPT !.state = "complete"]
    OBVIOUS
  <2>s. PICK s : s = Here(r)
    OBVIOUS
  <2>1. Writes(r, e, "visit", run[r].at + 1)
    BY <1>20, <2>e, MarkCompleteWrites
  <2>2. /\ run[r].journal # Missing /\ journal'.of[s] = e /\ s \in Chosen
        /\ \A t \in Chosen : t # s => journal'.of[t] = run[r].journal.of[t]
        /\ \A q \in Runner : run'[q].journal \in {Missing, journal'} \/ run'[q].journal = run[q].journal
    BY <2>s, <2>1, WritesTell
  <2>3. ASSUME NEW owner, Owned(owner)
        PROVE  Tells(e, s, owner)'
    <3>1. PICK old : old = Record(r)
      OBVIOUS
    <3>2. Tells(old, s, owner) /\ Record(r) \in Entry
      BY <1>20, <2>s, <2>3, <3>1, Witnessed, AtWork DEF MarkComplete, At, Working
    <3>3. Tells(old, s, owner)'
      BY <3>2, TellsStill, GrownLengths
    <3>4. /\ e.attempt = old.attempt /\ e.measurement = old.measurement
          /\ e.state = "captured" => old.state = "captured"
      BY <1>20, <2>e, <3>1, <3>2 DEF Entry
    <3> QED
      BY <3>3, <3>4 DEF Tells
  <2>4. \A a \in 1..Len(attempts)' : attempts'[a].published # Missing =>
            a \in 1..Len(attempts) /\ attempts'[a].published = attempts[a].published
    BY <1>20 DEF MarkComplete
  <2>5. captures' = captures
    BY <1>20 DEF MarkComplete, Quiet
  <2> QED
    BY <2>1, <2>2, <2>3, <2>4, <2>5, NewRecord
<1>21. ASSUME NEW r \in Runner, Fails(r)
      PROVE  Journaled'
  <2> USE DEF AcquisitionType, AcquisitionInv
  <2>e. PICK e : e = [Record(r) EXCEPT !.state = "failed"]
    OBVIOUS
  <2>s. PICK s : s = Here(r)
    OBVIOUS
  <2>1. Writes(r, e, "visit", run[r].at + 1)
    BY <1>21, <2>e, FailsWrites
  <2>2. /\ run[r].journal # Missing /\ journal'.of[s] = e /\ s \in Chosen
        /\ \A t \in Chosen : t # s => journal'.of[t] = run[r].journal.of[t]
        /\ \A q \in Runner : run'[q].journal \in {Missing, journal'} \/ run'[q].journal = run[q].journal
    BY <2>s, <2>1, WritesTell
  <2>3. ASSUME NEW owner, Owned(owner)
        PROVE  Tells(e, s, owner)'
    <3>1. PICK old : old = Record(r)
      OBVIOUS
    <3>2. Tells(old, s, owner) /\ Record(r) \in Entry
      BY <1>21, <2>s, <2>3, <3>1, Witnessed, AtWork DEF Fails, At, Working
    <3>3. Tells(old, s, owner)'
      BY <3>2, TellsStill, GrownLengths
    <3>4. /\ e.attempt = old.attempt /\ e.measurement = old.measurement
          /\ e.state = "captured" => old.state = "captured"
      BY <1>21, <2>e, <3>1, <3>2 DEF Entry
    <3> QED
      BY <3>3, <3>4 DEF Tells
  <2>4. \A a \in 1..Len(attempts)' : attempts'[a].published # Missing =>
            a \in 1..Len(attempts) /\ attempts'[a].published = attempts[a].published
    BY <1>21 DEF Fails
  <2>5. captures' = captures
    BY <1>21 DEF Fails, Quiet
  <2> QED
    BY <2>1, <2>2, <2>3, <2>4, <2>5, NewRecord
<1>22. ASSUME NEW r \in Runner, Finish(r)
      PROVE  Journaled'
  <2> USE DEF AcquisitionType, AcquisitionInv
  <2>1. captures' = captures /\ journal' = journal /\ attempts' = attempts
    BY <1>22 DEF Finish, files, Quiet, Trouble
  <2>2. \A q \in Runner :
            run'[q].journal \in {Missing, journal, Fresh} \/ run'[q].journal = run[q].journal
    BY <1>22, LeavesDoes DEF Finish, Idle
  <2> QED
    BY <2>1, <2>2, NoNewRecord
<1>23. ASSUME NEW r \in Runner, Error(r)
      PROVE  Journaled'
  <2> USE DEF AcquisitionType, AcquisitionInv
  <2>e. PICK e : e = [Record(r) EXCEPT !.state = "failed"]
    OBVIOUS
  <2>s. PICK s : s = Here(r)
    OBVIOUS
  <2>1. Writes(r, e, "visit", run[r].at + 1)
    BY <1>23, <2>e, ErrorWrites
  <2>2. /\ run[r].journal # Missing /\ journal'.of[s] = e /\ s \in Chosen
        /\ \A t \in Chosen : t # s => journal'.of[t] = run[r].journal.of[t]
        /\ \A q \in Runner : run'[q].journal \in {Missing, journal'} \/ run'[q].journal = run[q].journal
    BY <2>s, <2>1, WritesTell
  <2>3. ASSUME NEW owner, Owned(owner)
        PROVE  Tells(e, s, owner)'
    <3>1. PICK old : old = Record(r)
      OBVIOUS
    <3>2. Tells(old, s, owner) /\ Record(r) \in Entry
      BY <1>23, <2>s, <2>3, <3>1, Witnessed, AtWork DEF Error, At, Working
    <3>3. Tells(old, s, owner)'
      BY <3>2, TellsStill, GrownLengths
    <3>4. /\ e.attempt = old.attempt /\ e.measurement = old.measurement
          /\ e.state = "captured" => old.state = "captured"
      BY <1>23, <2>e, <3>1, <3>2 DEF Entry
    <3> QED
      BY <3>3, <3>4 DEF Tells
  <2>4. \A a \in 1..Len(attempts)' : attempts'[a].published # Missing =>
            a \in 1..Len(attempts) /\ attempts'[a].published = attempts[a].published
    BY <1>23 DEF Error
  <2>5. captures' = captures
    BY <1>23 DEF Error, Quiet
  <2> QED
    BY <2>1, <2>2, <2>3, <2>4, <2>5, NewRecord
<1>24. ASSUME NEW r \in Runner, CapacityStop(r)
      PROVE  Journaled'
  <2> USE DEF AcquisitionType, AcquisitionInv
  <2>1. captures' = captures /\ journal' = journal /\ attempts' = attempts
    BY <1>24 DEF CapacityStop, files, Quiet, Trouble
  <2>2. \A q \in Runner :
            run'[q].journal \in {Missing, journal, Fresh} \/ run'[q].journal = run[q].journal
    BY <1>24, LeavesDoes DEF CapacityStop, Idle
  <2> QED
    BY <2>1, <2>2, NoNewRecord
<1>25. ASSUME NEW r \in Runner, Die(r)
      PROVE  Journaled'
  <2> USE DEF AcquisitionType, AcquisitionInv
  <2>1. captures' = captures /\ journal' = journal /\ attempts' = attempts
    BY <1>25 DEF Die, files, Quiet, Trouble
  <2>2. \A q \in Runner :
            run'[q].journal \in {Missing, journal, Fresh} \/ run'[q].journal = run[q].journal
    BY <1>25, LeavesDoes DEF Die, Idle
  <2> QED
    BY <2>1, <2>2, NoNewRecord
<1>26. ASSUME NEW r \in Runner, NEW state \in {"rate-limited", "permission-denied"}, Stop(r, state)
      PROVE  Journaled'
  <2> USE DEF AcquisitionType, AcquisitionInv
  <2>e. PICK e : e = [Record(r) EXCEPT !.state = state]
    OBVIOUS
  <2>s. PICK s : s = Here(r)
    OBVIOUS
  <2>1. /\ e \in Entry /\ journal' = Rewritten(r, e) /\ run[r].journal \in Journal /\ s \in Chosen
    BY <1>26, <2>e, <2>s, StopWrites, AtWork DEF Stop
  <2>2. /\ run[r].journal # Missing /\ journal'.of[s] = e /\ s \in Chosen
        /\ \A t \in Chosen : t # s => journal'.of[t] = run[r].journal.of[t]
        /\ \A q \in Runner : run'[q].journal \in {Missing, journal'} \/ run'[q].journal = run[q].journal
    <3>1. /\ run[r].journal # Missing /\ journal'.of[s] = e
          /\ \A t \in Chosen : t # s => journal'.of[t] = run[r].journal.of[t]
      BY <2>s, <2>1, RewrittenProperties, AcquisitionAssumption
    <3>2. \A q \in Runner : run'[q].journal = Missing \/ run'[q].journal = run[q].journal
      BY <1>26, LeavesDoes DEF Stop, Idle
    <3> QED
      BY <2>1, <3>1, <3>2
  <2>3. ASSUME NEW owner, Owned(owner)
        PROVE  Tells(e, s, owner)'
    <3>1. PICK old : old = Record(r)
      OBVIOUS
    <3>2. Tells(old, s, owner) /\ Record(r) \in Entry
      BY <1>26, <2>s, <2>3, <3>1, Witnessed, AtWork DEF Stop, At, Working
    <3>3. Tells(old, s, owner)'
      BY <3>2, TellsStill, GrownLengths
    <3>4. /\ e.attempt = old.attempt /\ e.measurement = old.measurement
          /\ e.state = "captured" => old.state = "captured"
      BY <1>26, <2>e, <3>1, <3>2 DEF Entry
    <3> QED
      BY <3>3, <3>4 DEF Tells
  <2>4. \A a \in 1..Len(attempts)' : attempts'[a].published # Missing =>
            a \in 1..Len(attempts) /\ attempts'[a].published = attempts[a].published
    BY <1>26 DEF Stop
  <2>5. captures' = captures
    BY <1>26 DEF Stop
  <2> QED
    BY <2>1, <2>2, <2>3, <2>4, <2>5, NewRecord
<1>27. ASSUME NEW s \in Chosen, Measure(s)
      PROVE  Journaled'
  <2>1. captures' = captures /\ journal' = journal /\ attempts' = attempts
    BY <1>27 DEF Measure, files, Quiet, Trouble
  <2>2. \A q \in Runner :
            run'[q].journal \in {Missing, journal, Fresh} \/ run'[q].journal = run[q].journal
    BY <1>27 DEF Measure, Quiet
  <2> QED
    BY <2>1, <2>2, NoNewRecord
<1>28. ASSUME Change
      PROVE  Journaled'
  <2>1. captures' = captures /\ journal' = journal /\ attempts' = attempts
    BY <1>28 DEF Change, files, Quiet, Trouble
  <2>2. \A q \in Runner :
            run'[q].journal \in {Missing, journal, Fresh} \/ run'[q].journal = run[q].journal
    BY <1>28 DEF Change, Quiet
  <2> QED
    BY <2>1, <2>2, NoNewRecord
<1> QED
  BY <1>1, <1>2, <1>3, <1>4, <1>5, <1>6, <1>7, <1>8, <1>9, <1>10, <1>11, <1>12, <1>13, <1>14,
     <1>15, <1>16, <1>17, <1>18, <1>19, <1>20, <1>21, <1>22, <1>23, <1>24, <1>25, <1>26, <1>27,
     <1>28 DEF AcquisitionNext

LEMMA AcquisitionStarts == AcquisitionInit => AcquisitionInv
<1> SUFFICES ASSUME AcquisitionInit PROVE AcquisitionInv
  OBVIOUS
<1>1. AcquisitionType
  BY IdleIsMemory DEF AcquisitionInit, AcquisitionType, Blank
<1>2. Len(attempts) = 0 /\ 1..Len(attempts) = {}
  BY DEF AcquisitionInit
<1>3. Rests
  BY DEF AcquisitionInit, Rests, Blank
<1>4. PlacesInv
  BY DEF AcquisitionInit, PlacesInv, PlaceInv, Idle, UnderLock, AtSession, Working
<1>5. \A owner : Owned(owner)
  BY <1>2 DEF AcquisitionInit, Owned, AllTell, Published, Idle
<1>6. [m \in 1..captures |-> 0] \in [1..captures -> Nat]
  OBVIOUS
<1> QED
  BY <1>1, <1>3, <1>4, <1>5, <1>6 DEF AcquisitionInv, Journaled

LEMMA AcquisitionSteps == AcquisitionInv /\ [AcquisitionNext]_acquisitionVars => AcquisitionInv'
<1> SUFFICES ASSUME AcquisitionInv, [AcquisitionNext]_acquisitionVars PROVE AcquisitionInv'
  OBVIOUS
<1>1. CASE AcquisitionNext
  BY <1>1, AcquisitionTypeStays, RestsStays, PlacesStay, RecordsStay DEF AcquisitionInv
<1>2. CASE UNCHANGED acquisitionVars
  <2>1. /\ UNCHANGED <<valid, plan, captures, journal, attempts, preflight, reports>>
        /\ UNCHANGED <<lock, run>>
    BY <1>2 DEF acquisitionVars, files
  <2>2. AcquisitionType'
    BY <2>1 DEF AcquisitionInv, AcquisitionType
  <2>3. Rests'
    BY <2>1 DEF AcquisitionInv, Rests
  <2>4. PlacesInv'
    BY <2>1, OtherPlaces DEF PlacesInv
  <2>5. Journaled'
    <3>1. PICK owner \in [1..captures -> Nat] : Owned(owner)
      BY DEF AcquisitionInv, Journaled
    <3>2. Owned(owner)'
      BY <2>1, <3>1 DEF Owned, AllTell, Tells, Published
    <3> QED
      BY <2>1, <3>1, <3>2 DEF Journaled
  <2> QED
    BY <2>2, <2>3, <2>4, <2>5 DEF AcquisitionInv
<1> QED
  BY <1>1, <1>2

(* The measurement of a session is that of one attempt, made for it, with   *)
(* every table.                                                             *)
THEOREM MeasurementsAreAuthoritative == AcquisitionSpec => []Authoritative
<1>1. AcquisitionInv => Authoritative
  <2> SUFFICES ASSUME AcquisitionInv, NEW s \in Chosen
               PROVE  /\ preflight[s] # Missing =>
                           \E a \in DOMAIN attempts :
                               /\ Sources(preflight[s]) = {a}
                               /\ attempts[a].of = s /\ attempts[a].tables = Tables
                      /\ reports[s] # Missing => reports[s] = preflight[s]
    BY DEF Authoritative
  <2>1. reports[s] # Missing => reports[s] = preflight[s]
    BY DEF AcquisitionInv, Rests
  <2>2. ASSUME preflight[s] # Missing
        PROVE  \E a \in DOMAIN attempts :
                   Sources(preflight[s]) = {a} /\ attempts[a].of = s /\ attempts[a].tables = Tables
    <3>1. PICK a \in 1..Len(attempts) : attempts[a].of = s /\ attempts[a].published = preflight[s]
      BY <2>2 DEF AcquisitionInv, Rests
    <3>2. PICK owner : Published(owner)
      BY DEF AcquisitionInv, Journaled, Owned
    <3>3. DOMAIN attempts = 1..Len(attempts)
      BY AttemptsProperties DEF AcquisitionInv
    <3>4. attempts[a].tables = Tables /\ owner[preflight[s]] = a
      BY <2>2, <3>1, <3>2 DEF Published
    <3>5. \A b \in 1..Len(attempts) : attempts[b].published = preflight[s] => b = a
      BY <2>2, <3>2, <3>4 DEF Published
    <3>6. Sources(preflight[s]) = {a}
      BY <3>1, <3>3, <3>5 DEF Sources
    <3> QED
      BY <3>1, <3>3, <3>4, <3>6
  <2> QED
    BY <2>1, <2>2
<1> QED
  BY <1>1, AcquisitionStarts, AcquisitionSteps, PTL DEF AcquisitionSpec

-----------------------------------------------------------------------------
(* A run that was interrupted can be resumed. *)

LEMMA OtherSettled ==
  ASSUME NEW q \in Runner, SettledRun(q), run'[q] = run[q], plan' = plan,
         run[q].place \in UnderLock => journal' = journal
  PROVE  SettledRun(q)'
  BY DEF SettledRun, Fresh

(* Under the lock, the record of the session a run is at is the one on disk. *)
LEMMA JournalOnDisk ==
  ASSUME AcquisitionInv, Settled, NEW r \in Runner, run[r].place \in UnderLock, Here(r) \in Chosen
  PROVE  /\ plan = 1 /\ run[r].journal.plan = 1 /\ run[r].journal # Missing
         /\ journal = Missing => \A s \in Chosen : run[r].journal.of[s] = Missing
         /\ journal # Missing => run[r].journal = journal
         /\ Record(r) # Missing => journal # Missing /\ Record(r) = journal.of[Here(r)]
<1>1. SettledRun(r) /\ run[r].journal # Missing
  BY PlacesHold DEF Settled, PlaceInv
<1>2. \A s \in Chosen : Fresh.of[s] = Missing
  BY DEF Fresh, Blank
<1> QED
  BY <1>1, <1>2 DEF SettledRun, Record

LEMMA WhoWrites ==
  ASSUME AcquisitionInv, NEW r \in Runner, lock = r, NEW q \in Runner, q # r
  PROVE  run[q].place \notin UnderLock
  BY PlacesHold DEF PlaceInv

LEMMA PlanStands == Settled => valid /\ (plan = 1 => PlanHolds)
  BY DEF Settled, PlanHolds

(* What happened once stays on the record. *)
LEMMA UpsetGrows ==
  ASSUME AcquisitionNext, Undisturbed'
  PROVE  Undisturbed
  BY DEF Undisturbed, AcquisitionNext, Begin, Freeze, ReadJournal, PrepareOnly, Survey, Refuse,
     TakeLock, LockHeld, Reuse, MakeAttempt, NameAttempt, Continue, ResumeCapture, MarkLoading,
     Load, WriteTable, Captured, PublishAttempt, PublishMeasurement, MarkComplete, Fails, Finish,
     Error, CapacityStop, Die, Stop, Measure, Change, Trouble, Quiet
LEMMA SettledStays ==
  ASSUME AcquisitionInv, Settled, AllResume, Undisturbed', AcquisitionNext
  PROVE  Settled'
<1>1. ASSUME NEW r \in Runner, Begin(r)
      PROVE  Settled'
  <2> USE DEF AcquisitionType, AcquisitionInv
  <2>1. SettledRun(r)'
    BY <1>1, GoesDoes DEF Begin, At, Open, Settled, SettledRun, Quiet, files, Fresh, RunPlace,
       UnderLock, AtSession, Working
  <2>2. /\ valid' = valid /\ plan' = plan
        /\ \A q \in Runner : q # r => run'[q] = run[q] /\ (run[q].place \in UnderLock => journal' = journal)
    BY <1>1, GoesDoes DEF Begin, files, Quiet, RunPlace, UnderLock, AtSession, Working
  <2>3. journal' # Missing => plan = 1 /\ journal'.plan = 1
    BY <1>1 DEF Begin, files, Settled, Quiet, Trouble
  <2>4. valid /\ plan \in {0, 1} /\ \A q \in Runner : SettledRun(q)
    BY DEF Settled
  <2>5. \A q \in Runner : SettledRun(q)'
    BY <2>1, <2>2, <2>4, OtherSettled
  <2> QED
    BY <2>2, <2>3, <2>4, <2>5 DEF Settled
<1>2. ASSUME NEW r \in Runner, Freeze(r)
      PROVE  Settled'
  <2> USE DEF AcquisitionType, AcquisitionInv
  <2>1. plan = 0 /\ plan' = 1 /\ journal' = journal /\ valid' = valid
    <3>1. upset' = (IF plan = 0 THEN upset ELSE upset \cup {"two plans"}) /\ plan' = plan + 1
      BY <1>2 DEF Freeze
    <3>2. UNCHANGED <<valid, journal>>
      BY <1>2 DEF Freeze
    <3>3. plan = 0
      BY <3>1 DEF Undisturbed
    <3> QED
      BY <3>1, <3>2, <3>3
  <2>2. /\ run'[r].place = "review" /\ run'[r].journal = run[r].journal
        /\ \A q \in Runner : q # r => run'[q] = run[q]
    BY <1>2, GoesDoes DEF Freeze, RunPlace
  <2>3. valid /\ journal = Missing /\ \A q \in Runner : run[q].place \in {"off", "freeze"} /\ run[q].journal = Missing
    BY <2>1 DEF Settled, SettledRun
  <2>4. \A q \in Runner : SettledRun(q)'
    BY <2>1, <2>2, <2>3 DEF SettledRun, UnderLock, AtSession, Working
  <2> QED
    BY <2>1, <2>3, <2>4 DEF Settled
<1>3. ASSUME NEW r \in Runner, ReadJournal(r)
      PROVE  Settled'
  <2> USE DEF AcquisitionType, AcquisitionInv
  <2>1. SettledRun(r)'
    BY <1>3, FreshProperties DEF ReadJournal, At, Memory, Settled, SettledRun, Quiet, files,
       RunPlace, UnderLock, AtSession, Working
  <2>2. /\ valid' = valid /\ plan' = plan
        /\ \A q \in Runner : q # r => run'[q] = run[q] /\ (run[q].place \in UnderLock => journal' = journal)
    BY <1>3 DEF ReadJournal, files, Quiet
  <2>3. journal' # Missing => plan = 1 /\ journal'.plan = 1
    BY <1>3 DEF ReadJournal, files, Settled, Quiet, Trouble
  <2>4. valid /\ plan \in {0, 1} /\ \A q \in Runner : SettledRun(q)
    BY DEF Settled
  <2>5. \A q \in Runner : SettledRun(q)'
    BY <2>1, <2>2, <2>4, OtherSettled
  <2> QED
    BY <2>2, <2>3, <2>4, <2>5 DEF Settled
<1>4. ASSUME NEW r \in Runner, PrepareOnly(r)
      PROVE  Settled'
  <2> USE DEF AcquisitionType, AcquisitionInv
  <2>1. SettledRun(r)'
    BY <1>4, LeavesDoes DEF PrepareOnly, SettledRun, Idle, UnderLock, AtSession, Working
  <2>2. /\ valid' = valid /\ plan' = plan
        /\ \A q \in Runner : q # r => run'[q] = run[q] /\ (run[q].place \in UnderLock => journal' = journal)
    BY <1>4, LeavesDoes DEF PrepareOnly, files, Quiet, Trouble
  <2>3. journal' # Missing => plan = 1 /\ journal'.plan = 1
    BY <1>4 DEF PrepareOnly, files, Settled, Quiet, Trouble
  <2>4. valid /\ plan \in {0, 1} /\ \A q \in Runner : SettledRun(q)
    BY DEF Settled
  <2>5. \A q \in Runner : SettledRun(q)'
    BY <2>1, <2>2, <2>4, OtherSettled
  <2> QED
    BY <2>2, <2>3, <2>4, <2>5 DEF Settled
<1>5. ASSUME NEW r \in Runner, Survey(r)
      PROVE  Settled'
  <2> USE DEF AcquisitionType, AcquisitionInv
  <2>1. SettledRun(r)'
    BY <1>5 DEF Survey, At, Memory, Settled, SettledRun, Quiet, files, Fresh, RunPlace,
       UnderLock, AtSession, Working
  <2>2. /\ valid' = valid /\ plan' = plan
        /\ \A q \in Runner : q # r => run'[q] = run[q] /\ (run[q].place \in UnderLock => journal' = journal)
    BY <1>5 DEF Survey, files, Quiet
  <2>3. journal' # Missing => plan = 1 /\ journal'.plan = 1
    BY <1>5 DEF Survey, files, Settled, Quiet, Trouble
  <2>4. valid /\ plan \in {0, 1} /\ \A q \in Runner : SettledRun(q)
    BY DEF Settled
  <2>5. \A q \in Runner : SettledRun(q)'
    BY <2>1, <2>2, <2>4, OtherSettled
  <2> QED
    BY <2>2, <2>3, <2>4, <2>5 DEF Settled
<1>6. ASSUME NEW r \in Runner, Refuse(r)
      PROVE  Settled'
  <2> USE DEF AcquisitionType, AcquisitionInv
  <2>1. SettledRun(r)'
    BY <1>6, LeavesDoes DEF Refuse, SettledRun, Idle, UnderLock, AtSession, Working
  <2>2. /\ valid' = valid /\ plan' = plan
        /\ \A q \in Runner : q # r => run'[q] = run[q] /\ (run[q].place \in UnderLock => journal' = journal)
    BY <1>6, LeavesDoes DEF Refuse, files, Quiet, Trouble
  <2>3. journal' # Missing => plan = 1 /\ journal'.plan = 1
    BY <1>6 DEF Refuse, files, Settled, Quiet, Trouble
  <2>4. valid /\ plan \in {0, 1} /\ \A q \in Runner : SettledRun(q)
    BY DEF Settled
  <2>5. \A q \in Runner : SettledRun(q)'
    BY <2>1, <2>2, <2>4, OtherSettled
  <2> QED
    BY <2>2, <2>3, <2>4, <2>5 DEF Settled
<1>7. ASSUME NEW r \in Runner, TakeLock(r)
      PROVE  Settled'
  <2> USE DEF AcquisitionType, AcquisitionInv
  <2>1. SettledRun(r)'
    BY <1>7, GoesDoes DEF TakeLock, At, Outdated, Undisturbed, Settled, SettledRun, files, Fresh,
       RunPlace, UnderLock, AtSession, Working
  <2>2. /\ valid' = valid /\ plan' = plan
        /\ \A q \in Runner : q # r => run'[q] = run[q] /\ (run[q].place \in UnderLock => journal' = journal)
    BY <1>7, GoesDoes DEF TakeLock, files, RunPlace, UnderLock, AtSession, Working
  <2>3. journal' # Missing => plan = 1 /\ journal'.plan = 1
    BY <1>7 DEF TakeLock, files, Settled, Quiet, Trouble
  <2>4. valid /\ plan \in {0, 1} /\ \A q \in Runner : SettledRun(q)
    BY DEF Settled
  <2>5. \A q \in Runner : SettledRun(q)'
    BY <2>1, <2>2, <2>4, OtherSettled
  <2> QED
    BY <2>2, <2>3, <2>4, <2>5 DEF Settled
<1>8. ASSUME NEW r \in Runner, LockHeld(r)
      PROVE  Settled'
  <2> USE DEF AcquisitionType, AcquisitionInv
  <2>1. SettledRun(r)'
    BY <1>8, LeavesDoes DEF LockHeld, SettledRun, Idle, UnderLock, AtSession, Working
  <2>2. /\ valid' = valid /\ plan' = plan
        /\ \A q \in Runner : q # r => run'[q] = run[q] /\ (run[q].place \in UnderLock => journal' = journal)
    BY <1>8, LeavesDoes DEF LockHeld, files, Quiet, Trouble
  <2>3. journal' # Missing => plan = 1 /\ journal'.plan = 1
    BY <1>8 DEF LockHeld, files, Settled, Quiet, Trouble
  <2>4. valid /\ plan \in {0, 1} /\ \A q \in Runner : SettledRun(q)
    BY DEF Settled
  <2>5. \A q \in Runner : SettledRun(q)'
    BY <2>1, <2>2, <2>4, OtherSettled
  <2> QED
    BY <2>2, <2>3, <2>4, <2>5 DEF Settled
<1>9. ASSUME NEW r \in Runner, Reuse(r)
      PROVE  Settled'
  <2> USE DEF AcquisitionType, AcquisitionInv
  <2>1. SettledRun(r)'
    BY <1>9 DEF Reuse, At, Memory, Settled, SettledRun, Quiet, files, Fresh, RunPlace, UnderLock,
       AtSession, Working
  <2>2. /\ valid' = valid /\ plan' = plan
        /\ \A q \in Runner : q # r => run'[q] = run[q] /\ (run[q].place \in UnderLock => journal' = journal)
    BY <1>9 DEF Reuse, files, Quiet
  <2>3. journal' # Missing => plan = 1 /\ journal'.plan = 1
    BY <1>9 DEF Reuse, files, Settled, Quiet, Trouble
  <2>4. valid /\ plan \in {0, 1} /\ \A q \in Runner : SettledRun(q)
    BY DEF Settled
  <2>5. \A q \in Runner : SettledRun(q)'
    BY <2>1, <2>2, <2>4, OtherSettled
  <2> QED
    BY <2>2, <2>3, <2>4, <2>5 DEF Settled
<1>10. ASSUME NEW r \in Runner, MakeAttempt(r)
      PROVE  Settled'
  <2> USE DEF AcquisitionType, AcquisitionInv
  <2>1. SettledRun(r)'
    BY <1>10, GoesDoes DEF MakeAttempt, At, Open, Settled, SettledRun, Quiet, files, Fresh,
       RunPlace, UnderLock, AtSession, Working
  <2>2. /\ valid' = valid /\ plan' = plan
        /\ \A q \in Runner : q # r => run'[q] = run[q] /\ (run[q].place \in UnderLock => journal' = journal)
    BY <1>10, GoesDoes DEF MakeAttempt, files, Quiet, RunPlace, UnderLock, AtSession, Working
  <2>3. journal' # Missing => plan = 1 /\ journal'.plan = 1
    BY <1>10 DEF MakeAttempt, files, Settled, Quiet, Trouble
  <2>4. valid /\ plan \in {0, 1} /\ \A q \in Runner : SettledRun(q)
    BY DEF Settled
  <2>5. \A q \in Runner : SettledRun(q)'
    BY <2>1, <2>2, <2>4, OtherSettled
  <2> QED
    BY <2>2, <2>3, <2>4, <2>5 DEF Settled
<1>11. ASSUME NEW r \in Runner, NameAttempt(r)
      PROVE  Settled'
  <2> DEFINE rec == [attempt |-> Len(attempts), state |-> "created", measurement |-> Missing]
  <2>0. Writes(r, rec, "work", run[r].at)
        /\ run[r].place \in UnderLock
    BY <1>11, NameAttemptWrites DEF NameAttempt, At, UnderLock, AtSession, Working
  <2> HIDE DEF rec
  <2>9. plan = 1 /\ journal'.plan = 1 /\ journal' \in Journal
    BY <2>0, JournalOnDisk, RewrittenProperties DEF Writes
  <2>2. /\ valid' = valid /\ plan' = plan
        /\ \A q \in Runner : q # r => run'[q] = run[q] /\ (run[q].place \in UnderLock => journal' = journal)
    BY <1>11, <2>0, WhoWrites DEF NameAttempt, Writes, Quiet
  <2>1. SettledRun(r)'
    BY <2>0, <2>2, <2>9, AcquisitionAssumption DEF SettledRun, Writes
  <2>3. journal' # Missing => plan = 1 /\ journal'.plan = 1
    BY <2>9
  <2>4. valid /\ plan \in {0, 1} /\ \A q \in Runner : SettledRun(q)
    BY DEF Settled
  <2>5. \A q \in Runner : SettledRun(q)'
    BY <2>1, <2>2, <2>4, OtherSettled
  <2> QED
    BY <2>2, <2>3, <2>4, <2>5 DEF Settled
<1>12. ASSUME NEW r \in Runner, Continue(r)
      PROVE  Settled'
  <2> USE DEF AcquisitionType, AcquisitionInv
  <2>1. SettledRun(r)'
    BY <1>12, GoesDoes DEF Continue, At, Open, Settled, SettledRun, Quiet, files, Fresh,
       RunPlace, UnderLock, AtSession, Working
  <2>2. /\ valid' = valid /\ plan' = plan
        /\ \A q \in Runner : q # r => run'[q] = run[q] /\ (run[q].place \in UnderLock => journal' = journal)
    BY <1>12, GoesDoes DEF Continue, files, Quiet, RunPlace, UnderLock, AtSession, Working
  <2>3. journal' # Missing => plan = 1 /\ journal'.plan = 1
    BY <1>12 DEF Continue, files, Settled, Quiet, Trouble
  <2>4. valid /\ plan \in {0, 1} /\ \A q \in Runner : SettledRun(q)
    BY DEF Settled
  <2>5. \A q \in Runner : SettledRun(q)'
    BY <2>1, <2>2, <2>4, OtherSettled
  <2> QED
    BY <2>2, <2>3, <2>4, <2>5 DEF Settled
<1>13. ASSUME NEW r \in Runner, ResumeCapture(r)
      PROVE  Settled'
  <2> USE DEF AcquisitionType, AcquisitionInv
  <2>1. SettledRun(r)'
    BY <1>13, GoesDoes DEF ResumeCapture, At, Open, Settled, SettledRun, Quiet, files, Fresh,
       RunPlace, UnderLock, AtSession, Working
  <2>2. /\ valid' = valid /\ plan' = plan
        /\ \A q \in Runner : q # r => run'[q] = run[q] /\ (run[q].place \in UnderLock => journal' = journal)
    BY <1>13, GoesDoes DEF ResumeCapture, files, Quiet, RunPlace, UnderLock, AtSession, Working
  <2>3. journal' # Missing => plan = 1 /\ journal'.plan = 1
    BY <1>13 DEF ResumeCapture, files, Settled, Quiet, Trouble
  <2>4. valid /\ plan \in {0, 1} /\ \A q \in Runner : SettledRun(q)
    BY DEF Settled
  <2>5. \A q \in Runner : SettledRun(q)'
    BY <2>1, <2>2, <2>4, OtherSettled
  <2> QED
    BY <2>2, <2>3, <2>4, <2>5 DEF Settled
<1>14. ASSUME NEW r \in Runner, MarkLoading(r)
      PROVE  Settled'
  <2> DEFINE rec == [Record(r) EXCEPT !.state = "loading"]
  <2>0. Writes(r, rec, "load", run[r].at)
        /\ run[r].place \in UnderLock
    BY <1>14, MarkLoadingWrites DEF MarkLoading, At, UnderLock, AtSession, Working
  <2> HIDE DEF rec
  <2>9. plan = 1 /\ journal'.plan = 1 /\ journal' \in Journal
    BY <2>0, JournalOnDisk, RewrittenProperties DEF Writes
  <2>2. /\ valid' = valid /\ plan' = plan
        /\ \A q \in Runner : q # r => run'[q] = run[q] /\ (run[q].place \in UnderLock => journal' = journal)
    BY <1>14, <2>0, WhoWrites DEF MarkLoading, Writes, Quiet
  <2>1. SettledRun(r)'
    BY <2>0, <2>2, <2>9, AcquisitionAssumption DEF SettledRun, Writes
  <2>3. journal' # Missing => plan = 1 /\ journal'.plan = 1
    BY <2>9
  <2>4. valid /\ plan \in {0, 1} /\ \A q \in Runner : SettledRun(q)
    BY DEF Settled
  <2>5. \A q \in Runner : SettledRun(q)'
    BY <2>1, <2>2, <2>4, OtherSettled
  <2> QED
    BY <2>2, <2>3, <2>4, <2>5 DEF Settled
<1>15. ASSUME NEW r \in Runner, Load(r)
      PROVE  Settled'
  <2> DEFINE rec == [Record(r) EXCEPT !.state = "capturing"]
  <2>0. Writes(r, rec, "capture", run[r].at)
        /\ run[r].place \in UnderLock
    BY <1>15, LoadWrites DEF Load, At, UnderLock, AtSession, Working
  <2> HIDE DEF rec
  <2>9. plan = 1 /\ journal'.plan = 1 /\ journal' \in Journal
    BY <2>0, JournalOnDisk, RewrittenProperties DEF Writes
  <2>2. /\ valid' = valid /\ plan' = plan
        /\ \A q \in Runner : q # r => run'[q] = run[q] /\ (run[q].place \in UnderLock => journal' = journal)
    BY <1>15, <2>0, WhoWrites DEF Load, Writes, Quiet
  <2>1. SettledRun(r)'
    BY <2>0, <2>2, <2>9, AcquisitionAssumption DEF SettledRun, Writes
  <2>3. journal' # Missing => plan = 1 /\ journal'.plan = 1
    BY <2>9
  <2>4. valid /\ plan \in {0, 1} /\ \A q \in Runner : SettledRun(q)
    BY DEF Settled
  <2>5. \A q \in Runner : SettledRun(q)'
    BY <2>1, <2>2, <2>4, OtherSettled
  <2> QED
    BY <2>2, <2>3, <2>4, <2>5 DEF Settled
<1>16. ASSUME NEW r \in Runner, WriteTable(r)
      PROVE  Settled'
  <2>1. UNCHANGED <<valid, plan, journal, run>>
    BY <1>16 DEF WriteTable, Quiet
  <2> QED
    BY <2>1, OtherSettled DEF Settled
<1>17. ASSUME NEW r \in Runner, Captured(r)
      PROVE  Settled'
  <2> DEFINE rec == [Record(r) EXCEPT !.state = "captured", !.measurement = captures']
  <2>0. Writes(r, rec, "publish", run[r].at)
        /\ run[r].place \in UnderLock
    BY <1>17, CapturedWrites DEF Captured, At, UnderLock, AtSession, Working
  <2> HIDE DEF rec
  <2>9. plan = 1 /\ journal'.plan = 1 /\ journal' \in Journal
    BY <2>0, JournalOnDisk, RewrittenProperties DEF Writes
  <2>2. /\ valid' = valid /\ plan' = plan
        /\ \A q \in Runner : q # r => run'[q] = run[q] /\ (run[q].place \in UnderLock => journal' = journal)
    BY <1>17, <2>0, WhoWrites DEF Captured, Writes, Quiet
  <2>1. SettledRun(r)'
    BY <2>0, <2>2, <2>9, AcquisitionAssumption DEF SettledRun, Writes
  <2>3. journal' # Missing => plan = 1 /\ journal'.plan = 1
    BY <2>9
  <2>4. valid /\ plan \in {0, 1} /\ \A q \in Runner : SettledRun(q)
    BY DEF Settled
  <2>5. \A q \in Runner : SettledRun(q)'
    BY <2>1, <2>2, <2>4, OtherSettled
  <2> QED
    BY <2>2, <2>3, <2>4, <2>5 DEF Settled
<1>18. ASSUME NEW r \in Runner, PublishAttempt(r)
      PROVE  Settled'
  <2> USE DEF AcquisitionType, AcquisitionInv
  <2>1. SettledRun(r)'
    BY <1>18, GoesDoes DEF PublishAttempt, At, Open, Settled, SettledRun, Quiet, files, Fresh,
       RunPlace, UnderLock, AtSession, Working
  <2>2. /\ valid' = valid /\ plan' = plan
        /\ \A q \in Runner : q # r => run'[q] = run[q] /\ (run[q].place \in UnderLock => journal' = journal)
    BY <1>18, GoesDoes DEF PublishAttempt, files, Quiet, RunPlace, UnderLock, AtSession, Working
  <2>3. journal' # Missing => plan = 1 /\ journal'.plan = 1
    BY <1>18 DEF PublishAttempt, files, Settled, Quiet, Trouble
  <2>4. valid /\ plan \in {0, 1} /\ \A q \in Runner : SettledRun(q)
    BY DEF Settled
  <2>5. \A q \in Runner : SettledRun(q)'
    BY <2>1, <2>2, <2>4, OtherSettled
  <2> QED
    BY <2>2, <2>3, <2>4, <2>5 DEF Settled
<1>19. ASSUME NEW r \in Runner, PublishMeasurement(r)
      PROVE  Settled'
  <2> USE DEF AcquisitionType, AcquisitionInv
  <2>1. SettledRun(r)'
    BY <1>19, GoesDoes DEF PublishMeasurement, At, Open, Settled, SettledRun, Quiet, files,
       Fresh, RunPlace, UnderLock, AtSession, Working
  <2>2. /\ valid' = valid /\ plan' = plan
        /\ \A q \in Runner : q # r => run'[q] = run[q] /\ (run[q].place \in UnderLock => journal' = journal)
    BY <1>19, GoesDoes DEF PublishMeasurement, files, Quiet, RunPlace, UnderLock, AtSession, Working
  <2>3. journal' # Missing => plan = 1 /\ journal'.plan = 1
    BY <1>19 DEF PublishMeasurement, files, Settled, Quiet, Trouble
  <2>4. valid /\ plan \in {0, 1} /\ \A q \in Runner : SettledRun(q)
    BY DEF Settled
  <2>5. \A q \in Runner : SettledRun(q)'
    BY <2>1, <2>2, <2>4, OtherSettled
  <2> QED
    BY <2>2, <2>3, <2>4, <2>5 DEF Settled
<1>20. ASSUME NEW r \in Runner, MarkComplete(r)
      PROVE  Settled'
  <2> DEFINE rec == [Record(r) EXCEPT !.state = "complete"]
  <2>0. Writes(r, rec, "visit", run[r].at + 1)
        /\ run[r].place \in UnderLock
    BY <1>20, MarkCompleteWrites DEF MarkComplete, At, UnderLock, AtSession, Working
  <2> HIDE DEF rec
  <2>9. plan = 1 /\ journal'.plan = 1 /\ journal' \in Journal
    BY <2>0, JournalOnDisk, RewrittenProperties DEF Writes
  <2>2. /\ valid' = valid /\ plan' = plan
        /\ \A q \in Runner : q # r => run'[q] = run[q] /\ (run[q].place \in UnderLock => journal' = journal)
    BY <1>20, <2>0, WhoWrites DEF MarkComplete, Writes, Quiet
  <2>1. SettledRun(r)'
    BY <2>0, <2>2, <2>9, AcquisitionAssumption DEF SettledRun, Writes
  <2>3. journal' # Missing => plan = 1 /\ journal'.plan = 1
    BY <2>9
  <2>4. valid /\ plan \in {0, 1} /\ \A q \in Runner : SettledRun(q)
    BY DEF Settled
  <2>5. \A q \in Runner : SettledRun(q)'
    BY <2>1, <2>2, <2>4, OtherSettled
  <2> QED
    BY <2>2, <2>3, <2>4, <2>5 DEF Settled
<1>21. ASSUME NEW r \in Runner, Fails(r)
      PROVE  Settled'
  <2> DEFINE rec == [Record(r) EXCEPT !.state = "failed"]
  <2>0. Writes(r, rec, "visit", run[r].at + 1)
        /\ run[r].place \in UnderLock
    BY <1>21, FailsWrites DEF Fails, At, UnderLock, AtSession, Working
  <2> HIDE DEF rec
  <2>9. plan = 1 /\ journal'.plan = 1 /\ journal' \in Journal
    BY <2>0, JournalOnDisk, RewrittenProperties DEF Writes
  <2>2. /\ valid' = valid /\ plan' = plan
        /\ \A q \in Runner : q # r => run'[q] = run[q] /\ (run[q].place \in UnderLock => journal' = journal)
    BY <1>21, <2>0, WhoWrites DEF Fails, Writes, Quiet
  <2>1. SettledRun(r)'
    BY <2>0, <2>2, <2>9, AcquisitionAssumption DEF SettledRun, Writes
  <2>3. journal' # Missing => plan = 1 /\ journal'.plan = 1
    BY <2>9
  <2>4. valid /\ plan \in {0, 1} /\ \A q \in Runner : SettledRun(q)
    BY DEF Settled
  <2>5. \A q \in Runner : SettledRun(q)'
    BY <2>1, <2>2, <2>4, OtherSettled
  <2> QED
    BY <2>2, <2>3, <2>4, <2>5 DEF Settled
<1>22. ASSUME NEW r \in Runner, Finish(r)
      PROVE  Settled'
  <2> USE DEF AcquisitionType, AcquisitionInv
  <2>1. SettledRun(r)'
    BY <1>22, LeavesDoes DEF Finish, SettledRun, Idle, UnderLock, AtSession, Working
  <2>2. /\ valid' = valid /\ plan' = plan
        /\ \A q \in Runner : q # r => run'[q] = run[q] /\ (run[q].place \in UnderLock => journal' = journal)
    BY <1>22, LeavesDoes DEF Finish, files, Quiet, Trouble
  <2>3. journal' # Missing => plan = 1 /\ journal'.plan = 1
    BY <1>22 DEF Finish, files, Settled, Quiet, Trouble
  <2>4. valid /\ plan \in {0, 1} /\ \A q \in Runner : SettledRun(q)
    BY DEF Settled
  <2>5. \A q \in Runner : SettledRun(q)'
    BY <2>1, <2>2, <2>4, OtherSettled
  <2> QED
    BY <2>2, <2>3, <2>4, <2>5 DEF Settled
<1>23. ASSUME NEW r \in Runner, Error(r)
      PROVE  Settled'
  BY <1>23 DEF Error, Trouble, Undisturbed
<1>24. ASSUME NEW r \in Runner, CapacityStop(r)
      PROVE  Settled'
  <2> USE DEF AcquisitionType, AcquisitionInv
  <2>1. SettledRun(r)'
    BY <1>24, LeavesDoes DEF CapacityStop, SettledRun, Idle, UnderLock, AtSession, Working
  <2>2. /\ valid' = valid /\ plan' = plan
        /\ \A q \in Runner : q # r => run'[q] = run[q] /\ (run[q].place \in UnderLock => journal' = journal)
    BY <1>24, LeavesDoes DEF CapacityStop, files, Quiet, Trouble
  <2>3. journal' # Missing => plan = 1 /\ journal'.plan = 1
    BY <1>24 DEF CapacityStop, files, Settled, Quiet, Trouble
  <2>4. valid /\ plan \in {0, 1} /\ \A q \in Runner : SettledRun(q)
    BY DEF Settled
  <2>5. \A q \in Runner : SettledRun(q)'
    BY <2>1, <2>2, <2>4, OtherSettled
  <2> QED
    BY <2>2, <2>3, <2>4, <2>5 DEF Settled
<1>25. ASSUME NEW r \in Runner, Die(r)
      PROVE  Settled'
  <2> USE DEF AcquisitionType, AcquisitionInv
  <2>1. SettledRun(r)'
    BY <1>25, LeavesDoes DEF Die, SettledRun, Idle, UnderLock, AtSession, Working
  <2>2. /\ valid' = valid /\ plan' = plan
        /\ \A q \in Runner : q # r => run'[q] = run[q] /\ (run[q].place \in UnderLock => journal' = journal)
    BY <1>25, LeavesDoes DEF Die, files, Quiet, Trouble
  <2>3. journal' # Missing => plan = 1 /\ journal'.plan = 1
    BY <1>25 DEF Die, files, Settled, Quiet, Trouble
  <2>4. valid /\ plan \in {0, 1} /\ \A q \in Runner : SettledRun(q)
    BY DEF Settled
  <2>5. \A q \in Runner : SettledRun(q)'
    BY <2>1, <2>2, <2>4, OtherSettled
  <2> QED
    BY <2>2, <2>3, <2>4, <2>5 DEF Settled
<1>26. ASSUME NEW r \in Runner, NEW state \in {"rate-limited", "permission-denied"}, Stop(r, state)
      PROVE  Settled'
  BY <1>26 DEF Stop, Trouble, Undisturbed
<1>27. ASSUME NEW s \in Chosen, Measure(s)
      PROVE  Settled'
  <2>1. UNCHANGED <<valid, plan, journal, run>>
    BY <1>27 DEF Measure, Quiet
  <2> QED
    BY <2>1, OtherSettled DEF Settled
<1>28. ASSUME Change
      PROVE  Settled'
  BY <1>28 DEF Change, Trouble, Undisturbed
<1> QED
  BY <1>1, <1>2, <1>3, <1>4, <1>5, <1>6, <1>7, <1>8, <1>9, <1>10, <1>11, <1>12, <1>13, <1>14,
     <1>15, <1>16, <1>17, <1>18, <1>19, <1>20, <1>21, <1>22, <1>23, <1>24, <1>25, <1>26, <1>27,
     <1>28 DEF AcquisitionNext

LEMMA RecordedThen ==
  ASSUME AcquisitionInv, Settled, AllResume, NEW r \in Runner, run[r].place \in UnderLock, Here(r) \in Chosen,
         NEW a \in 1..Len(attempts), attempts[a].of = Here(r), attempts[a].published # Missing,
         preflight[Here(r)] = Missing
  PROVE  /\ Record(r) # Missing /\ Record(r).state = "captured"
         /\ Record(r).attempt = a /\ Record(r).measurement = attempts[a].published
<1>1. /\ journal # Missing /\ journal.of[Here(r)] # Missing
      /\ journal.of[Here(r)].state = "captured" /\ journal.of[Here(r)].attempt = a
      /\ journal.of[Here(r)].measurement = attempts[a].published
  BY DEF AllResume, Resumes
<1>2. run[r].journal = journal
  BY <1>1, JournalOnDisk
<1> QED
  BY <1>1, <1>2 DEF Record

(* A session whose record is rewritten is measured, or none of its attempts *)
(* has been published.                                                      *)
LEMMA RewritingResumes ==
  ASSUME AcquisitionInv, Settled, AllResume, NEW r \in Runner, run[r].place \in UnderLock,
         NEW record, NEW place, NEW at, Writes(r, record, place, at),
         preflight' = preflight, Len(attempts') = Len(attempts),
         \A a \in 1..Len(attempts) :
             attempts'[a].of = attempts[a].of /\ attempts'[a].published = attempts[a].published,
         preflight[Here(r)] = Missing => Record(r) = Missing \/ Record(r).state # "captured"
  PROVE  AllResume'
<1>1. /\ Here(r) \in Chosen /\ journal' \in Journal
      /\ \A s \in Chosen : s # Here(r) => journal'.of[s] = run[r].journal.of[s]
  BY RewrittenProperties DEF Writes
<1>2. journal # Missing => run[r].journal = journal
  BY <1>1, JournalOnDisk
<1> SUFFICES ASSUME NEW a \in 1..Len(attempts), attempts[a].published # Missing, preflight[attempts[a].of] = Missing
             PROVE  /\ journal' # Missing /\ journal'.of[attempts[a].of] # Missing
                    /\ journal'.of[attempts[a].of].state = "captured"
                    /\ journal'.of[attempts[a].of].attempt = a
                    /\ journal'.of[attempts[a].of].measurement = attempts[a].published
  BY DEF AllResume, Resumes
<1>3. attempts[a].of # Here(r)
  BY <1>1, RecordedThen
<1>4. Resumes(a) /\ attempts[a].of \in Chosen
  BY AttemptsProperties DEF AllResume, AcquisitionInv, Directory
<1> QED
  BY <1>1, <1>2, <1>3, <1>4, AcquisitionAssumption DEF Resumes

LEMMA ResumesStay ==
  ASSUME AcquisitionInv, Settled, AllResume, Undisturbed', AcquisitionNext
  PROVE  AllResume'
<1>1. ASSUME NEW r \in Runner, Begin(r)
      PROVE  AllResume'
  <2>1. UNCHANGED <<attempts, preflight, journal>>
    BY <1>1 DEF Begin, files, Quiet, Trouble
  <2> QED
    BY <2>1 DEF AllResume, Resumes
<1>2. ASSUME NEW r \in Runner, Freeze(r)
      PROVE  AllResume'
  <2>1. UNCHANGED <<attempts, preflight, journal>>
    BY <1>2 DEF Freeze, files, Quiet, Trouble
  <2> QED
    BY <2>1 DEF AllResume, Resumes
<1>3. ASSUME NEW r \in Runner, ReadJournal(r)
      PROVE  AllResume'
  <2>1. UNCHANGED <<attempts, preflight, journal>>
    BY <1>3 DEF ReadJournal, files, Quiet, Trouble
  <2> QED
    BY <2>1 DEF AllResume, Resumes
<1>4. ASSUME NEW r \in Runner, PrepareOnly(r)
      PROVE  AllResume'
  <2>1. UNCHANGED <<attempts, preflight, journal>>
    BY <1>4 DEF PrepareOnly, files, Quiet, Trouble
  <2> QED
    BY <2>1 DEF AllResume, Resumes
<1>5. ASSUME NEW r \in Runner, Survey(r)
      PROVE  AllResume'
  <2>1. UNCHANGED <<attempts, preflight, journal>>
    BY <1>5 DEF Survey, files, Quiet, Trouble
  <2> QED
    BY <2>1 DEF AllResume, Resumes
<1>6. ASSUME NEW r \in Runner, Refuse(r)
      PROVE  AllResume'
  <2>1. UNCHANGED <<attempts, preflight, journal>>
    BY <1>6 DEF Refuse, files, Quiet, Trouble
  <2> QED
    BY <2>1 DEF AllResume, Resumes
<1>7. ASSUME NEW r \in Runner, TakeLock(r)
      PROVE  AllResume'
  <2>1. UNCHANGED <<attempts, preflight, journal>>
    BY <1>7 DEF TakeLock, files, Quiet, Trouble
  <2> QED
    BY <2>1 DEF AllResume, Resumes
<1>8. ASSUME NEW r \in Runner, LockHeld(r)
      PROVE  AllResume'
  <2>1. UNCHANGED <<attempts, preflight, journal>>
    BY <1>8 DEF LockHeld, files, Quiet, Trouble
  <2> QED
    BY <2>1 DEF AllResume, Resumes
<1>9. ASSUME NEW r \in Runner, Reuse(r)
      PROVE  AllResume'
  <2>1. UNCHANGED <<attempts, preflight, journal>>
    BY <1>9 DEF Reuse, files, Quiet, Trouble
  <2> QED
    BY <2>1 DEF AllResume, Resumes
<1>10. ASSUME NEW r \in Runner, MakeAttempt(r)
      PROVE  AllResume'
  <2>1. Len(attempts') = Len(attempts) + 1 /\ Len(attempts) \in Nat /\ attempts'[Len(attempts')].published = Missing
        /\ \A a \in 1..Len(attempts) : attempts'[a] = attempts[a]
    BY <1>10, MakeAttemptDoes, AttemptsProperties DEF AcquisitionInv
  <2>2. UNCHANGED <<preflight, journal>>
    BY <1>10 DEF MakeAttempt
  <2> QED
    BY <2>1, <2>2 DEF AllResume, Resumes
<1>11. ASSUME NEW r \in Runner, NameAttempt(r)
      PROVE  AllResume'
  <2>1. /\ Len(attempts') = Len(attempts)
        /\ \A a \in 1..Len(attempts) :
               attempts'[a].of = attempts[a].of /\ attempts'[a].published = attempts[a].published
    BY <1>11 DEF NameAttempt
  <2>2. /\ Writes(r, [attempt |-> Len(attempts), state |-> "created", measurement |-> Missing], "work", run[r].at)
        /\ run[r].place \in UnderLock
    BY <1>11, NameAttemptWrites DEF NameAttempt, At, UnderLock, AtSession, Working
  <2>3. preflight[Here(r)] = Missing => Record(r) = Missing \/ Record(r).state # "captured"
    BY <1>11, PlacesHold DEF NameAttempt, At, PlaceInv
  <2>4. preflight' = preflight
    BY <1>11 DEF NameAttempt
  <2> QED
    BY <2>1, <2>2, <2>3, <2>4, RewritingResumes
<1>12. ASSUME NEW r \in Runner, Continue(r)
      PROVE  AllResume'
  <2>1. UNCHANGED <<attempts, preflight, journal>>
    BY <1>12 DEF Continue, files, Quiet, Trouble
  <2> QED
    BY <2>1 DEF AllResume, Resumes
<1>13. ASSUME NEW r \in Runner, ResumeCapture(r)
      PROVE  AllResume'
  <2>1. UNCHANGED <<attempts, preflight, journal>>
    BY <1>13 DEF ResumeCapture, files, Quiet, Trouble
  <2> QED
    BY <2>1 DEF AllResume, Resumes
<1>14. ASSUME NEW r \in Runner, MarkLoading(r)
      PROVE  AllResume'
  <2>1. /\ Len(attempts') = Len(attempts)
        /\ \A a \in 1..Len(attempts) :
               attempts'[a].of = attempts[a].of /\ attempts'[a].published = attempts[a].published
    BY <1>14 DEF MarkLoading
  <2>2. /\ Writes(r, [Record(r) EXCEPT !.state = "loading"], "load", run[r].at)
        /\ run[r].place \in UnderLock
    BY <1>14, MarkLoadingWrites DEF MarkLoading, At, UnderLock, AtSession, Working
  <2>3. preflight[Here(r)] = Missing => Record(r) = Missing \/ Record(r).state # "captured"
    BY <1>14 DEF MarkLoading
  <2>4. preflight' = preflight
    BY <1>14 DEF MarkLoading
  <2> QED
    BY <2>1, <2>2, <2>3, <2>4, RewritingResumes
<1>15. ASSUME NEW r \in Runner, Load(r)
      PROVE  AllResume'
  <2>1. /\ Len(attempts') = Len(attempts)
        /\ \A a \in 1..Len(attempts) :
               attempts'[a].of = attempts[a].of /\ attempts'[a].published = attempts[a].published
    BY <1>15, OneAttemptDoes, LoadOnly
  <2>2. /\ Writes(r, [Record(r) EXCEPT !.state = "capturing"], "capture", run[r].at)
        /\ run[r].place \in UnderLock
    BY <1>15, LoadWrites DEF Load, At, UnderLock, AtSession, Working
  <2>3. preflight[Here(r)] = Missing => Record(r) = Missing \/ Record(r).state # "captured"
    BY <1>15, PlacesHold DEF Load, At, PlaceInv
  <2>4. preflight' = preflight
    BY <1>15 DEF Load
  <2> QED
    BY <2>1, <2>2, <2>3, <2>4, RewritingResumes
<1>16. ASSUME NEW r \in Runner, WriteTable(r)
      PROVE  AllResume'
  <2>1. /\ Len(attempts') = Len(attempts)
        /\ \A a \in 1..Len(attempts) :
               attempts'[a].of = attempts[a].of /\ attempts'[a].published = attempts[a].published
    BY <1>16, OneAttemptDoes DEF WriteTable, PublishAttempt, At
  <2>2. UNCHANGED <<preflight, journal>>
    BY <1>16 DEF WriteTable
  <2> QED
    BY <2>1, <2>2 DEF AllResume, Resumes
<1>17. ASSUME NEW r \in Runner, Captured(r)
      PROVE  AllResume'
  <2>1. /\ Len(attempts') = Len(attempts)
        /\ \A a \in 1..Len(attempts) :
               attempts'[a].of = attempts[a].of /\ attempts'[a].published = attempts[a].published
    BY <1>17 DEF Captured
  <2>2. /\ Writes(r, [Record(r) EXCEPT !.state = "captured", !.measurement = captures'], "publish", run[r].at)
        /\ run[r].place \in UnderLock
    BY <1>17, CapturedWrites DEF Captured, At, UnderLock, AtSession, Working
  <2>3. preflight[Here(r)] = Missing => Record(r) = Missing \/ Record(r).state # "captured"
    BY <1>17, PlacesHold DEF Captured, At, PlaceInv
  <2>4. preflight' = preflight
    BY <1>17 DEF Captured
  <2> QED
    BY <2>1, <2>2, <2>3, <2>4, RewritingResumes
<1>18. ASSUME NEW r \in Runner, PublishAttempt(r)
      PROVE  AllResume'
  <2>1. /\ Here(r) \in Chosen /\ AttemptOf(r) \in 1..Len(attempts) /\ attempts[AttemptOf(r)].of = Here(r)
        /\ Record(r) # Missing /\ Record(r).state = "captured" /\ run[r].place \in UnderLock
    BY <1>18, AtWork, PlacesHold, AcquisitionAssumption DEF PublishAttempt, At, Working,
       UnderLock, AtSession, PlaceInv
  <2>2. journal # Missing /\ Record(r) = journal.of[Here(r)]
    BY <2>1, JournalOnDisk
  <2>3. UNCHANGED <<journal, preflight>>
    BY <1>18 DEF PublishAttempt
  <2>4. /\ Len(attempts') = Len(attempts)
        /\ \A a \in 1..Len(attempts) : a # AttemptOf(r) => attempts'[a] = attempts[a]
        /\ attempts'[AttemptOf(r)].of = Here(r) /\ attempts'[AttemptOf(r)].published = Record(r).measurement
    BY <1>18, <2>1, OneAttemptDoes
  <2>5. Record(r).attempt = AttemptOf(r)
    BY DEF AttemptOf
  <2>6. ASSUME NEW a \in 1..Len(attempts)
        PROVE  Resumes(a)'
    <3>1. CASE a = AttemptOf(r)
      BY <2>1, <2>2, <2>3, <2>4, <2>5, <3>1 DEF Resumes
    <3>2. CASE a # AttemptOf(r)
      BY <2>3, <2>4, <3>2 DEF AllResume, Resumes
    <3> QED
      BY <3>1, <3>2
  <2> QED
    BY <2>4, <2>6 DEF AllResume
<1>19. ASSUME NEW r \in Runner, PublishMeasurement(r)
      PROVE  AllResume'
  <2>1. UNCHANGED <<attempts, journal>> /\ preflight' = [preflight EXCEPT ![Here(r)] = Record(r).measurement]
    BY <1>19 DEF PublishMeasurement
  <2>2. Record(r).measurement # Missing /\ preflight \in [Chosen -> Nat \cup {Missing}] /\ Here(r) \in Chosen
    BY <1>19, Witnessed, PlacesHold, AtWork DEF PublishMeasurement, At, Working, PlaceInv,
       AcquisitionInv, AcquisitionType
  <2>3. \A s \in Chosen : preflight'[s] = Missing => preflight[s] = Missing
    BY <2>1, <2>2
  <2>4. \A a \in 1..Len(attempts) : attempts[a].of \in Chosen
    BY AttemptsProperties DEF AcquisitionInv, Directory
  <2> QED
    BY <2>1, <2>3, <2>4 DEF AllResume, Resumes
<1>20. ASSUME NEW r \in Runner, MarkComplete(r)
      PROVE  AllResume'
  <2>1. /\ Len(attempts') = Len(attempts)
        /\ \A a \in 1..Len(attempts) :
               attempts'[a].of = attempts[a].of /\ attempts'[a].published = attempts[a].published
    BY <1>20 DEF MarkComplete
  <2>2. /\ Writes(r, [Record(r) EXCEPT !.state = "complete"], "visit", run[r].at + 1)
        /\ run[r].place \in UnderLock
    BY <1>20, MarkCompleteWrites DEF MarkComplete, At, UnderLock, AtSession, Working
  <2>3. preflight[Here(r)] = Missing => Record(r) = Missing \/ Record(r).state # "captured"
    BY <1>20, PlacesHold DEF MarkComplete, At, PlaceInv
  <2>4. preflight' = preflight
    BY <1>20 DEF MarkComplete
  <2> QED
    BY <2>1, <2>2, <2>3, <2>4, RewritingResumes
<1>21. ASSUME NEW r \in Runner, Fails(r)
      PROVE  AllResume'
  <2>1. /\ Len(attempts') = Len(attempts)
        /\ \A a \in 1..Len(attempts) :
               attempts'[a].of = attempts[a].of /\ attempts'[a].published = attempts[a].published
    BY <1>21 DEF Fails
  <2>2. /\ Writes(r, [Record(r) EXCEPT !.state = "failed"], "visit", run[r].at + 1)
        /\ run[r].place \in UnderLock
    BY <1>21, FailsWrites DEF Fails, At, UnderLock, AtSession, Working
  <2>3. preflight[Here(r)] = Missing => Record(r) = Missing \/ Record(r).state # "captured"
    <3> SUFFICES ASSUME preflight[Here(r)] = Missing, Record(r).state = "captured" PROVE FALSE
      OBVIOUS
    <3>1. PlanHolds
      BY <2>2, JournalOnDisk, PlanStands DEF Writes
    <3>2. /\ run[r].place = "publish" /\ attempts[AttemptOf(r)].published \notin {Missing, Record(r).measurement}
      BY <1>21, <3>1 DEF Fails, MayPublish
    <3>3. /\ Here(r) \in Chosen /\ AttemptOf(r) \in 1..Len(attempts) /\ attempts[AttemptOf(r)].of = Here(r)
      BY <3>2, AtWork DEF Working
    <3> QED
      BY <2>2, <3>2, <3>3, RecordedThen
  <2>4. preflight' = preflight
    BY <1>21 DEF Fails
  <2> QED
    BY <2>1, <2>2, <2>3, <2>4, RewritingResumes
<1>22. ASSUME NEW r \in Runner, Finish(r)
      PROVE  AllResume'
  <2>1. UNCHANGED <<attempts, preflight, journal>>
    BY <1>22 DEF Finish, files, Quiet, Trouble
  <2> QED
    BY <2>1 DEF AllResume, Resumes
<1>23. ASSUME NEW r \in Runner, Error(r)
      PROVE  AllResume'
  BY <1>23 DEF Error, Trouble, Undisturbed
<1>24. ASSUME NEW r \in Runner, CapacityStop(r)
      PROVE  AllResume'
  <2>1. UNCHANGED <<attempts, preflight, journal>>
    BY <1>24 DEF CapacityStop, files, Quiet, Trouble
  <2> QED
    BY <2>1 DEF AllResume, Resumes
<1>25. ASSUME NEW r \in Runner, Die(r)
      PROVE  AllResume'
  <2>1. UNCHANGED <<attempts, preflight, journal>>
    BY <1>25 DEF Die, files, Quiet, Trouble
  <2> QED
    BY <2>1 DEF AllResume, Resumes
<1>26. ASSUME NEW r \in Runner, NEW state \in {"rate-limited", "permission-denied"}, Stop(r, state)
      PROVE  AllResume'
  BY <1>26 DEF Stop, Trouble, Undisturbed
<1>27. ASSUME NEW s \in Chosen, Measure(s)
      PROVE  AllResume'
  <2>1. UNCHANGED <<attempts, preflight, journal>>
    BY <1>27 DEF Measure, files, Quiet, Trouble
  <2> QED
    BY <2>1 DEF AllResume, Resumes
<1>28. ASSUME Change
      PROVE  AllResume'
  BY <1>28 DEF Change, Trouble, Undisturbed
<1> QED
  BY <1>1, <1>2, <1>3, <1>4, <1>5, <1>6, <1>7, <1>8, <1>9, <1>10, <1>11, <1>12, <1>13, <1>14,
     <1>15, <1>16, <1>17, <1>18, <1>19, <1>20, <1>21, <1>22, <1>23, <1>24, <1>25, <1>26, <1>27,
     <1>28 DEF AcquisitionNext

LEMMA ResumeStays == AcquisitionInv /\ ResumeInv /\ [AcquisitionNext]_acquisitionVars => ResumeInv'
<1> SUFFICES ASSUME AcquisitionInv, ResumeInv, [AcquisitionNext]_acquisitionVars, Undisturbed'
             PROVE  Settled' /\ AllResume'
  BY DEF ResumeInv
<1>1. CASE AcquisitionNext
  BY <1>1, UpsetGrows, SettledStays, ResumesStay DEF ResumeInv
<1>2. CASE UNCHANGED acquisitionVars
  <2>1. /\ UNCHANGED <<valid, plan, journal, attempts, preflight, run, upset>>
    BY <1>2 DEF acquisitionVars, files
  <2>2. Settled /\ AllResume
    BY <2>1 DEF ResumeInv, Undisturbed
  <2>3. Settled'
    BY <2>1, <2>2, OtherSettled DEF Settled
  <2>4. AllResume'
    BY <2>1, <2>2 DEF AllResume, Resumes
  <2> QED
    BY <2>3, <2>4
<1> QED
  BY <1>1, <1>2

(* An attempt that was published and whose session was not is journaled as  *)
(* captured, unless an error, a change or an overlap came in between.       *)
THEOREM InterruptedIsResumable == AcquisitionSpec => []Resumable
<1>1. AcquisitionInit => ResumeInv
  <2> SUFFICES ASSUME AcquisitionInit PROVE Settled /\ AllResume
    BY DEF ResumeInv
  <2>1. Len(attempts) = 0 /\ 1..Len(attempts) = {}
    BY DEF AcquisitionInit
  <2>2. AllResume
    BY <2>1 DEF AllResume
  <2>3. Settled
    BY DEF AcquisitionInit, Settled, SettledRun, Idle, UnderLock, AtSession, Working
  <2> QED
    BY <2>2, <2>3
<1>2. AcquisitionInv /\ ResumeInv => Resumable
  BY AttemptsProperties DEF Resumable, ResumeInv, AllResume, Resumes, Undisturbed, AcquisitionInv
<1> QED
  BY <1>1, <1>2, AcquisitionStarts, AcquisitionSteps, ResumeStays, PTL DEF AcquisitionSpec

-------------------------------------------------------------------------------
(* The catalog of what is over (Completion). *)

CompletionSpec == CompletionInit /\ [][CompletionNext]_completionVars

CompletionType ==
    /\ \A s \in Session : feed[s] \in Feeds[s]
    /\ elapsed \subseteq Session /\ cancelled \subseteq Session
    /\ shown \in [Session -> Nat]
    /\ disc \in Discovery \cup {Absent} /\ prov \in ProviderList \cup {Absent}
    /\ completion \in [Session -> FeedCapture \cup {Absent}]
    /\ derived \subseteq Session
    /\ archive \in [Session -> ArchiveAnswer \cup {Absent}]
    /\ independent \in [Session -> Nat \cup {Absent}]
    /\ temporal \in [Session -> Promotion \cup {Absent}]
    /\ inventory \in Catalog \cup {Informal, Absent} /\ frozen \in Catalog \cup {Informal, Absent}
    /\ sample \subseteq Session
    /\ discovering \in BOOLEAN
    /\ recon \in [place : {"capture"}, of : [Session -> {"past", "future"}]] \cup {Off}
    /\ fin \in [place : {"archive", "write"}, seen : Evidence, torn : BOOLEAN] \cup {Off}
    /\ rounds \in [{"discover", "reconcile", "finalize", "error"} -> Nat]

(* What was captured of a feed had been published; what rests on a session's *)
(* end was there to be seen when it had been published whole.                *)
Whole(s) == shown[s] = Len(feed[s].records)
FeedInv(s) ==
    /\ shown[s] <= Len(feed[s].records)
    /\ completion[s] # Absent =>
        /\ completion[s].kept <= completion[s].wire /\ completion[s].wire <= shown[s]
        /\ completion[s].early => completion[s].error = "none"
    /\ Complete(archive[s]) => Whole(s)
    /\ temporal[s] # Absent =>
        /\ Whole(s) /\ completion[s] # Absent /\ completion[s].error = "none"
        /\ Classify("past", Records(s, temporal[s].wire), TRUE) = "completed"

(* The order of the work: sources, captures, corrections. *)
OrderInv ==
    /\ recon # Off => disc # Absent /\ prov # Absent
    /\ \A s \in Session : completion[s] # Absent => disc # Absent /\ prov # Absent
    /\ \A s \in derived : completion[s] # Absent

(* A version names a document: discoveries and the provider's lists take    *)
(* turns.                                                                   *)
VersionInv ==
    /\ disc = Absent => rounds.discover = 0 /\ ~ discovering
    /\ disc # Absent => disc.version = rounds.discover
    /\ prov # Absent => disc # Absent /\ prov.version <= rounds.discover
    /\ prov # Absent /\ discovering => prov.version < rounds.discover

(* A session proved under the discovery and the list of today is future in *)
(* the one and not called off in the other.                                *)
PromotedInv(s) ==
    temporal[s] # Absent =>
        /\ disc # Absent /\ prov # Absent
        /\ temporal[s].disc <= disc.version /\ temporal[s].prov <= prov.version
        /\ temporal[s].disc = disc.version => disc.of[s] = "future"
        /\ temporal[s].prov = prov.version => s \notin prov.cancelled

AllCaptured == \A s \in Session : completion[s] # Absent
(* What was read was true, and neither answers nor proofs go away. *)
ReadInv(e) ==
    /\ AllCaptured /\ disc # Absent /\ prov # Absent
    /\ \A s \in Session :
        /\ Complete(e.archive[s]) => Whole(s) /\ Complete(archive[s])
        /\ e.temporal[s] # Absent => temporal[s] = e.temporal[s]

FinInv ==
    fin # Off =>
        /\ ReadInv(fin.seen)
        /\ ~ fin.torn => fin.seen.disc = disc
        /\ ~ fin.torn /\ fin.place = "write" => fin.seen.prov = prov

CatalogInv(c) ==
    c \in Catalog =>
        /\ ReadInv(c.seen)
        /\ \A s \in Session : c.rows[s] = StateOf(s, c.seen)
        /\ c.disc <= disc.version /\ c.prov <= prov.version
        /\ ~ c.torn /\ c.disc = disc.version => c.seen.disc = disc
        /\ ~ c.torn /\ c.prov = prov.version => c.seen.prov = prov

(* A plan keeps the sample that was drawn from its catalog. *)
SampleInv == frozen \in Catalog => sample \in Sampled(frozen)

CompletionInv ==
    /\ CompletionType /\ OrderInv /\ VersionInv /\ FinInv
    /\ \A s \in Session : FeedInv(s) /\ PromotedInv(s)
    /\ CatalogInv(inventory) /\ CatalogInv(frozen) /\ SampleInv

(* What is written of a session stays, a version only grows, and with it    *)
(* goes what it names.                                                      *)
Onward ==
    /\ feed' = feed
    /\ \A s \in Session :
        /\ shown'[s] \in shown[s] .. Len(feed[s].records)
        /\ completion[s] # Absent => completion'[s] = completion[s]
        /\ temporal[s] # Absent => temporal'[s] = temporal[s]
        /\ Complete(archive[s]) => Complete(archive'[s])
    /\ disc # Absent => disc' # Absent /\ (disc' = disc \/ (disc'.version \in Nat /\ disc'.version > disc.version))
    /\ prov # Absent => prov' # Absent /\ (prov' = prov \/ (prov'.version \in Nat /\ prov'.version > prov.version))

LEMMA FeedsAreSequences ==
  ASSUME CompletionType, NEW s \in Session
  PROVE  /\ feed[s].records \in Seq([time : Nat, status : STRING]) /\ Len(feed[s].records) \in Nat
         /\ feed[s].over \in 0 .. Len(feed[s].records)
         /\ \A n \in 1 .. Len(feed[s].records) :
                feed[s].records[n].status \in {"Finalised", "Ends"} => n >= feed[s].over
<1>1. feed[s] \in Feeds[s]
  BY DEF CompletionType
<1>2. feed[s].records \in Seq([time : Nat, status : STRING])
  BY <1>1, CompletionAssumption
<1> QED
  BY <1>1, <1>2, CompletionAssumption

LEMMA CountsDoes ==
  ASSUME CompletionType, NEW kind \in {"discover", "reconcile", "finalize", "error"}, Counts(kind)
  PROVE  /\ rounds' \in [{"discover", "reconcile", "finalize", "error"} -> Nat]
         /\ rounds'[kind] = rounds[kind] + 1
         /\ \A k \in {"discover", "reconcile", "finalize", "error"} : k # kind => rounds'[k] = rounds[k]
  BY DEF Counts, CompletionType


(* What the proofs use of the types, without what they are made of.         *)
LEMMA Typed ==
  ASSUME CompletionInv
  PROVE  /\ shown \in [Session -> Nat]
         /\ \A s \in Session : Len(feed[s].records) \in Nat /\ shown[s] <= Len(feed[s].records)
         /\ completion \in [Session -> FeedCapture \cup {Absent}]
         /\ archive \in [Session -> ArchiveAnswer \cup {Absent}]
         /\ independent \in [Session -> Nat \cup {Absent}]
         /\ temporal \in [Session -> Promotion \cup {Absent}]
         /\ rounds.discover \in Nat
         /\ disc # Absent => disc.version = rounds.discover
         /\ prov # Absent => prov.version \in Nat /\ prov.version <= rounds.discover
         /\ prov # Absent /\ discovering = TRUE => prov.version < rounds.discover
         /\ discovering = TRUE => disc # Absent
<1>1. CompletionType /\ VersionInv /\ \A s \in Session : shown[s] <= Len(feed[s].records)
  BY DEF CompletionInv, FeedInv
<1>2. \A s \in Session : Len(feed[s].records) \in Nat
  BY <1>1, FeedsAreSequences
<1>3. prov # Absent => prov.version \in Nat
  BY <1>1 DEF CompletionType, ProviderList
<1> QED
  BY <1>1, <1>2, <1>3 DEF CompletionType, VersionInv

LEMMA NotAbsent ==
  /\ \A x \in Nat \cup Discovery \cup ProviderList \cup FeedCapture \cup Promotion : x # Absent
  /\ \A x \in Catalog \cup {Informal} \cup ArchiveAnswer \cup Status : x # Absent
  BY CompletionAssumption


LEMMA DiscoverDoes ==
  ASSUME CompletionInv, Discover
  PROVE  /\ rounds' \in [{"discover", "reconcile", "finalize", "error"} -> Nat]
         /\ rounds'.discover = rounds.discover + 1
         /\ disc' \in Discovery /\ disc' # Absent /\ disc'.version = rounds.discover + 1
         /\ discovering' = TRUE /\ discovering = FALSE /\ prov' = prov
<1>1. CompletionType
  BY DEF CompletionInv
<1>2. /\ rounds' \in [{"discover", "reconcile", "finalize", "error"} -> Nat]
      /\ rounds'.discover = rounds.discover + 1
  BY <1>1, CountsDoes DEF Discover
<1>3. /\ disc' = [version |-> rounds'.discover, of |-> [s \in Session |-> IF s \in elapsed THEN "past" ELSE "future"]]
      /\ discovering' = TRUE /\ prov' = prov /\ ~ discovering
  BY DEF Discover
<1>4. discovering = FALSE
  BY <1>1, <1>3 DEF CompletionType
<1>5. disc' \in Discovery
  BY <1>2, <1>3 DEF Discovery
<1> QED
  BY <1>2, <1>3, <1>4, <1>5, NotAbsent

LEMMA DiscoverProviderDoes ==
  ASSUME CompletionInv, NEW failures \in BOOLEAN, DiscoverProvider(failures)
  PROVE  /\ rounds' \in [{"discover", "reconcile", "finalize", "error"} -> Nat]
         /\ rounds'.discover = rounds.discover
         /\ prov' \in ProviderList /\ prov' # Absent /\ prov'.version = rounds.discover
         /\ discovering' = FALSE /\ discovering = TRUE /\ disc' = disc
<1>1. CompletionType
  BY DEF CompletionInv
<1>2. /\ rounds' \in [{"discover", "reconcile", "finalize", "error"} -> Nat]
      /\ rounds'.discover = rounds.discover
  BY <1>1, CountsDoes DEF DiscoverProvider, CompletionType
<1>3. /\ prov' = [version |-> rounds.discover, cancelled |-> cancelled, failures |-> failures]
      /\ discovering' = FALSE /\ disc' = disc /\ discovering
  BY DEF DiscoverProvider
<1>4. discovering = TRUE
  BY <1>1, <1>3 DEF CompletionType
<1>5. prov' \in ProviderList
  BY <1>1, <1>3 DEF ProviderList, CompletionType
<1> QED
  BY <1>2, <1>3, <1>4, <1>5, NotAbsent

LEMMA OnwardSteps ==
  ASSUME CompletionInv, CompletionNext
  PROVE  Onward
<1> USE Typed DEF Onward
<1>1. ASSUME NEW s \in Session, Elapse(s)
      PROVE  Onward
  BY <1>1 DEF Elapse, world, sources, evidence, work
<1>2. ASSUME NEW s \in Session, Publishes(s)
      PROVE  Onward
  BY <1>2 DEF Publishes, sources, evidence, work
<1>3. ASSUME NEW s \in Session, CallOff(s)
      PROVE  Onward
  BY <1>3 DEF CallOff, world, sources, evidence, work
<1>4. ASSUME Discover
      PROVE  Onward
  BY <1>4, DiscoverDoes DEF Discover, world, evidence
<1>5. ASSUME NEW failures \in BOOLEAN, DiscoverProvider(failures)
      PROVE  Onward
  <2>1. prov' # Absent /\ prov'.version = rounds.discover /\ discovering = TRUE /\ disc' = disc
    BY <1>5, DiscoverProviderDoes
  <2> QED
    BY <1>5, <2>1 DEF DiscoverProvider, world, evidence
<1>6. ASSUME Reconcile \/ Reconciled \/ StartFinalize \/ ReadProvider \/ WriteCatalog
      PROVE  Onward
  BY <1>6 DEF Reconcile, Reconciled, StartFinalize, ReadProvider, WriteCatalog, world, sources,
     evidence, work
<1>7. ASSUME NEW s \in Session, NEW error \in {"none", "unavailable", "failed"}, Capture(s, error)
      PROVE  Onward
  BY <1>7 DEF Capture, world, sources, evidence, work
<1>8. ASSUME NEW s \in Session, Derive(s)
      PROVE  Onward
  BY <1>8 DEF Derive, world, sources, evidence, work
<1>9. ASSUME NEW s \in Session, ProveIndependently(s)
      PROVE  Onward
  BY <1>9 DEF ProveIndependently, world, sources, evidence, work
<1>10. ASSUME NEW s \in Session, Promote(s)
      PROVE  Onward
  BY <1>10 DEF Promote, world, sources, work
<1>11. ASSUME CaptureArchive
      PROVE  Onward
  <2>1. \A q \in Session : Complete(archive[q]) => Complete(archive'[q])
    BY <1>11 DEF CaptureArchive, Complete
  <2> QED
    BY <1>11, <2>1 DEF CaptureArchive, world, sources
<1>12. ASSUME NEW s \in Session, AskArchive(s)
      PROVE  Onward
  <2>1. \A q \in Session : Complete(archive[q]) => archive'[q] = archive[q]
    BY <1>12, NotAbsent DEF AskArchive, Unresolved, Complete, ArchiveAnswer
  <2> QED
    BY <1>12, <2>1 DEF AskArchive, world, sources
<1>13. ASSUME AbandonFinalize \/ FreezePlan
      PROVE  Onward
  BY <1>13 DEF AbandonFinalize, FreezePlan, world, sources, evidence, work
<1> QED
  BY <1>1, <1>2, <1>3, <1>4, <1>5, <1>6, <1>7, <1>8, <1>9, <1>10, <1>11, <1>12, <1>13 DEF CompletionNext


LEMMA StatesAreRows ==
  ASSUME NEW s, NEW e
  PROVE  StateOf(s, e) \in Row
  BY DEF StateOf, Proved, Observed, Classify, Row

LEMMA OnDiskIsEvidence ==
  ASSUME CompletionType, disc # Absent, prov # Absent
  PROVE  OnDisk \in Evidence
  BY DEF OnDisk, Evidence, CompletionType

LEMMA FinalizationTyped ==
  ASSUME CompletionType, fin # Off
  PROVE  /\ fin.place \in {"archive", "write"} /\ fin.seen \in Evidence /\ fin.torn \in BOOLEAN
         /\ fin = [place |-> fin.place, seen |-> fin.seen, torn |-> fin.torn]
  BY DEF CompletionType

LEMMA TornTyped ==
  ASSUME CompletionType
  PROVE  Torn \in [place : {"archive", "write"}, seen : Evidence, torn : BOOLEAN] \cup {Off}
  BY DEF CompletionType, Torn

LEMMA FreezePlanDoes ==
  ASSUME CompletionType, FreezePlan
  PROVE  /\ frozen' = inventory /\ frozen' \in Catalog \cup {Informal, Absent}
         /\ sample' \subseteq Session
         /\ frozen' \in Catalog => sample' \in Sampled(frozen')
<1>1. frozen' = inventory /\ inventory \in Catalog \cup {Informal}
  BY DEF FreezePlan, CompletionType
<1>2. sample' \in (IF inventory.formal THEN Sampled(inventory) ELSE {{}})
  BY DEF FreezePlan
<1>3. CASE inventory \in Catalog
  <2>1. inventory.formal = TRUE
    BY <1>3 DEF Catalog
  <2>2. sample' \in Sampled(inventory)
    BY <1>2, <2>1
  <2> QED
    BY <1>1, <2>2 DEF Sampled, CompletedIn
<1>4. CASE inventory = Informal
  <2>1. sample' = {} /\ Informal \notin Catalog
    BY <1>2, <1>4 DEF Informal, Catalog
  <2> QED
    BY <1>1, <1>4, <2>1
<1> QED
  BY <1>1, <1>3, <1>4

LEMMA TypeStays ==
  ASSUME CompletionInv, CompletionType, Onward, CompletionNext
  PROVE  CompletionType'
<1> USE DEF CompletionType
<1>1. ASSUME NEW s \in Session, Elapse(s) \/ CallOff(s) \/ Derive(s)
      PROVE  CompletionType'
  BY <1>1 DEF Elapse, CallOff, Derive, world, sources, evidence, planned, work
<1>2. ASSUME NEW s \in Session, Publishes(s)
      PROVE  CompletionType'
  <2>1. shown' \in [Session -> Nat]
    BY <1>2, FeedsAreSequences DEF Publishes
  <2> QED
    BY <1>2, <2>1 DEF Publishes, sources, evidence, planned, work
<1>3. ASSUME Discover
      PROVE  CompletionType'
  <2>1. rounds' \in [{"discover", "reconcile", "finalize", "error"} -> Nat]
    BY <1>3, DiscoverDoes
  <2>2. disc' \in Discovery
    BY <1>3, DiscoverDoes
  <2>3. fin' \in [place : {"archive", "write"}, seen : Evidence, torn : BOOLEAN] \cup {Off}
    BY <1>3, TornTyped DEF Discover
  <2> QED
    BY <1>3, <2>1, <2>2, <2>3 DEF Discover, world, sources, evidence, planned, work
<1>4. ASSUME NEW failures \in BOOLEAN, DiscoverProvider(failures)
      PROVE  CompletionType'
  <2>1. rounds' \in [{"discover", "reconcile", "finalize", "error"} -> Nat]
    BY <1>4, DiscoverProviderDoes
  <2>2. prov' \in ProviderList
    BY <1>4, DiscoverProviderDoes
  <2>3. fin' \in [place : {"archive", "write"}, seen : Evidence, torn : BOOLEAN] \cup {Off}
    BY <1>4, TornTyped DEF DiscoverProvider
  <2> QED
    BY <1>4, <2>1, <2>2, <2>3 DEF DiscoverProvider, world, sources, evidence, planned, work
<1>5. ASSUME Reconcile
      PROVE  CompletionType'
  <2>1. rounds' \in [{"discover", "reconcile", "finalize", "error"} -> Nat]
    BY <1>5, CountsDoes DEF Reconcile
  <2>2. recon' \in [place : {"capture"}, of : [Session -> {"past", "future"}]]
    BY <1>5 DEF Reconcile, Discovery
  <2> QED
    BY <1>5, <2>1, <2>2 DEF Reconcile, world, sources, evidence, planned, work
<1>6. ASSUME NEW s \in Session, NEW error \in {"none", "unavailable", "failed"}, Capture(s, error)
      PROVE  CompletionType'
  <2>1. rounds' \in [{"discover", "reconcile", "finalize", "error"} -> Nat]
    BY <1>6, CountsDoes DEF Capture
  <2>2. PICK c \in FeedCapture : completion' = [completion EXCEPT ![s] = c]
    <3> DEFINE n == IF error # "none" \/ recon.of[s] = "future" THEN 0 ELSE shown[s]
               lost == n > 0 /\ n = Len(feed[s].records) /\ feed[s].cut
               retained == IF lost THEN n - 1 ELSE n
               early == recon.of[s] = "future" /\ s \notin elapsed
    <3>1. n \in Nat /\ retained \in Nat /\ early \in BOOLEAN
      OBVIOUS
    <3>2. disc.version \in Nat
      BY <1>6 DEF Capture, Discovery, CompletionInv, OrderInv
    <3>3. completion' = [completion EXCEPT ![s] =
             [wire |-> n, kept |-> retained, error |-> error, after |-> disc.version, early |-> early]]
      BY <1>6 DEF Capture
    <3>4. [wire |-> n, kept |-> retained, error |-> error, after |-> disc.version, early |-> early] \in FeedCapture
      BY <3>1, <3>2 DEF FeedCapture
    <3> QED
      BY <3>3, <3>4
  <2> QED
    BY <1>6, <2>1, <2>2 DEF Capture, world, evidence, planned, work
<1>7. ASSUME Reconciled \/ AbandonFinalize
      PROVE  CompletionType'
  BY <1>7 DEF Reconciled, AbandonFinalize, world, sources, evidence, planned, work
<1>8. ASSUME NEW s \in Session, ProveIndependently(s)
      PROVE  CompletionType'
  <2>1. disc.version \in Nat
    BY <1>8 DEF ProveIndependently, Discovery, CompletionInv, OrderInv
  <2> QED
    BY <1>8, <2>1 DEF ProveIndependently, world, sources, planned, work
<1>9. ASSUME NEW s \in Session, Promote(s)
      PROVE  CompletionType'
  <2>1. TemporalProof(s) \in Promotion
    BY <1>9 DEF Promote, SourcesComplete, TemporalProof, Promotion, Discovery, ProviderList
  <2> QED
    BY <1>9, <2>1 DEF Promote, world, sources, planned, work
<1>10. ASSUME CaptureArchive
      PROVE  CompletionType'
  BY <1>10 DEF CaptureArchive, ArchiveAnswer, world, sources, planned, work
<1>11. ASSUME StartFinalize
      PROVE  CompletionType'
  <2>1. rounds' \in [{"discover", "reconcile", "finalize", "error"} -> Nat]
    BY <1>11, CountsDoes DEF StartFinalize
  <2>2. fin' \in [place : {"archive", "write"}, seen : Evidence, torn : BOOLEAN]
    BY <1>11, OnDiskIsEvidence DEF StartFinalize
  <2> QED
    BY <1>11, <2>1, <2>2 DEF StartFinalize, world, sources, evidence, planned, work
<1>12. ASSUME NEW s \in Session, AskArchive(s)
      PROVE  CompletionType'
  <2>1. PICK a \in ArchiveAnswer : /\ archive' = [archive EXCEPT ![s] = a]
                                  /\ fin' = [fin EXCEPT !.seen.archive[s] = a]
    BY <1>12 DEF AskArchive, ArchiveAnswer
  <2>2. fin.seen \in Evidence /\ fin # Off
    BY <1>12, FinalizationTyped DEF AskArchive
  <2>3. [fin.seen EXCEPT !.archive[s] = a] \in Evidence
    BY <2>2 DEF Evidence
  <2>4. fin' = [fin EXCEPT !.seen = [fin.seen EXCEPT !.archive[s] = a]]
    BY <2>1, <2>2
  <2>5. fin' \in [place : {"archive", "write"}, seen : Evidence, torn : BOOLEAN]
    BY <2>2, <2>3, <2>4
  <2> QED
    BY <1>12, <2>1, <2>5 DEF AskArchive, world, sources, planned
<1>13. ASSUME ReadProvider
      PROVE  CompletionType'
  <2>1. fin.seen \in Evidence /\ fin # Off
    BY <1>13, FinalizationTyped DEF ReadProvider
  <2>2. prov \in ProviderList
    BY <1>13 DEF ReadProvider, CompletionInv, FinInv, ReadInv
  <2>3. fin' = [place |-> "write", seen |-> [fin.seen EXCEPT !.prov = prov], torn |-> fin.torn]
    BY <1>13, <2>1, FinalizationTyped DEF ReadProvider
  <2>4. fin' \in [place : {"archive", "write"}, seen : Evidence, torn : BOOLEAN]
    <3>1. [fin.seen EXCEPT !.prov = prov] \in Evidence
      BY <2>1, <2>2 DEF Evidence
    <3> QED
      BY <2>1, <2>3, <3>1, FinalizationTyped
  <2> QED
    BY <1>13, <2>4 DEF ReadProvider, world, sources, evidence, planned, work
<1>14. ASSUME WriteCatalog
      PROVE  CompletionType'
  <2>1. disc # Absent /\ prov # Absent /\ fin.seen \in Evidence /\ fin.torn \in BOOLEAN
    BY <1>14, FinalizationTyped DEF WriteCatalog, CompletionInv, FinInv, ReadInv
  <2>2. disc.version \in Nat /\ prov.version \in Nat
    BY <2>1 DEF Discovery, ProviderList
  <2>3. [s \in Session |-> StateOf(s, fin.seen)] \in [Session -> Row]
    BY StatesAreRows
  <2>4. [s \in Session |-> IF Answered(s) THEN archive[s] ELSE Absent]
          \in [Session -> ArchiveAnswer \cup {Absent}]
    OBVIOUS
  <2>5. inventory' \in Catalog
    BY <1>14, <2>1, <2>2, <2>3, <2>4 DEF WriteCatalog, Catalog
  <2> QED
    BY <1>14, <2>5 DEF WriteCatalog, world, sources, evidence, planned, work
<1>15. ASSUME FreezePlan
      PROVE  CompletionType'
  <2>1. frozen' \in Catalog \cup {Informal, Absent} /\ sample' \subseteq Session
    BY <1>15, FreezePlanDoes
  <2> QED
    BY <1>15, <2>1 DEF FreezePlan, world, sources, evidence, work
<1> QED
  BY <1>1, <1>2, <1>3, <1>4, <1>5, <1>6, <1>7, <1>8, <1>9, <1>10, <1>11, <1>12, <1>13, <1>14,
     <1>15 DEF CompletionNext

LEMMA OrderStays ==
  ASSUME CompletionInv, Onward, CompletionType', CompletionNext
  PROVE  OrderInv'
<1> USE Typed, NotAbsent DEF OrderInv, CompletionInv, Onward
<1>1. ASSUME NEW s \in Session, Elapse(s) \/ Publishes(s) \/ CallOff(s) \/ Derive(s) \/ ProveIndependently(s)
      PROVE  OrderInv'
  BY <1>1 DEF Elapse, Publishes, CallOff, Derive, ProveIndependently, world, sources, evidence, work
<1>2. ASSUME Discover
      PROVE  OrderInv'
  BY <1>2 DEF Discover, world, evidence, CompletionType, Discovery
<1>3. ASSUME NEW failures \in BOOLEAN, DiscoverProvider(failures)
      PROVE  OrderInv'
  BY <1>3 DEF DiscoverProvider, world, sources, evidence, work
<1>4. ASSUME Reconcile
      PROVE  OrderInv'
  BY <1>4 DEF Reconcile, world, sources, evidence, CompletionType
<1>5. ASSUME NEW s \in Session, NEW error \in {"none", "unavailable", "failed"}, Capture(s, error)
      PROVE  OrderInv'
  BY <1>5 DEF Capture, world, evidence, work, CompletionType
<1>6. ASSUME Reconciled \/ CaptureArchive \/ StartFinalize \/ ReadProvider \/ WriteCatalog
      PROVE  OrderInv'
  BY <1>6 DEF Reconciled, CaptureArchive, StartFinalize, ReadProvider, WriteCatalog, world,
     sources, evidence, work
<1>7. ASSUME NEW s \in Session, Promote(s) \/ AskArchive(s)
      PROVE  OrderInv'
  BY <1>7 DEF Promote, AskArchive, world, sources, evidence, work
<1>8. ASSUME AbandonFinalize \/ FreezePlan
      PROVE  OrderInv'
  BY <1>8 DEF AbandonFinalize, FreezePlan, world, sources, evidence, work
<1> QED
  BY <1>1, <1>2, <1>3, <1>4, <1>5, <1>6, <1>7, <1>8 DEF CompletionNext


LEMMA VersionCarries ==
  ASSUME VersionInv, rounds'.discover = rounds.discover, UNCHANGED <<disc, prov, discovering>>
  PROVE  VersionInv'
  BY DEF VersionInv

LEMMA VersionStays ==
  ASSUME CompletionInv, VersionInv, CompletionNext
  PROVE  VersionInv'
<1> USE VersionCarries
<1>1. ASSUME NEW s \in Session, Elapse(s)
      PROVE  VersionInv'
  BY <1>1 DEF Elapse, world, sources, evidence, work
<1>2. ASSUME NEW s \in Session, Publishes(s)
      PROVE  VersionInv'
  BY <1>2 DEF Publishes, world, sources, evidence, work
<1>3. ASSUME NEW s \in Session, CallOff(s)
      PROVE  VersionInv'
  BY <1>3 DEF CallOff, world, sources, evidence, work
<1>4. ASSUME Discover
      PROVE  VersionInv'
  <2>1. prov # Absent => prov.version \in Nat /\ prov.version <= rounds.discover /\ disc' # Absent
    BY <1>4, Typed, DiscoverDoes
  <2>2. disc' # Absent /\ disc'.version = rounds'.discover /\ prov' = prov
        /\ rounds'.discover = rounds.discover + 1 /\ rounds.discover \in Nat
    BY <1>4, DiscoverDoes, Typed
  <2> QED
    BY <2>1, <2>2 DEF VersionInv
<1>5. ASSUME NEW failures \in BOOLEAN, DiscoverProvider(failures)
      PROVE  VersionInv'
  <2>3. /\ rounds'.discover = rounds.discover /\ prov' # Absent /\ prov'.version = rounds.discover
        /\ discovering = TRUE /\ disc' = disc
    BY <1>5, DiscoverProviderDoes
  <2>1. disc' # Absent /\ disc'.version = rounds'.discover /\ prov' # Absent /\ prov'.version <= rounds'.discover
    BY <2>3, Typed
  <2>2. discovering' = FALSE
    BY <1>5, DiscoverProviderDoes
  <2> QED
    BY <2>1, <2>2 DEF VersionInv
<1>6. ASSUME Reconcile
      PROVE  VersionInv'
  <2>1. rounds'.discover = rounds.discover
    BY <1>6, CountsDoes DEF Reconcile, CompletionInv, CompletionType
  <2> QED
    BY <1>6, <2>1 DEF Reconcile, world, sources, evidence, work
<1>7. ASSUME NEW s \in Session, NEW error \in {"none", "unavailable", "failed"}, Capture(s, error)
      PROVE  VersionInv'
  <2>1. rounds'.discover = rounds.discover
    BY <1>7, CountsDoes DEF Capture, CompletionInv, CompletionType
  <2> QED
    BY <1>7, <2>1 DEF Capture, world, sources, evidence, work
<1>8. ASSUME Reconciled \/ CaptureArchive \/ ReadProvider \/ WriteCatalog \/ AbandonFinalize
      PROVE  VersionInv'
  BY <1>8 DEF Reconciled, CaptureArchive, ReadProvider, WriteCatalog, AbandonFinalize, world,
     sources, evidence, work
<1>9. ASSUME NEW s \in Session, Derive(s)
      PROVE  VersionInv'
  BY <1>9 DEF Derive, world, sources, evidence, work
<1>10. ASSUME NEW s \in Session, ProveIndependently(s)
      PROVE  VersionInv'
  BY <1>10 DEF ProveIndependently, world, sources, evidence, work
<1>11. ASSUME NEW s \in Session, Promote(s)
      PROVE  VersionInv'
  BY <1>11 DEF Promote, world, sources, evidence, work
<1>12. ASSUME StartFinalize
      PROVE  VersionInv'
  <2>1. rounds'.discover = rounds.discover
    BY <1>12, CountsDoes DEF StartFinalize, CompletionInv, CompletionType
  <2> QED
    BY <1>12, <2>1 DEF StartFinalize, world, sources, evidence, work
<1>13. ASSUME NEW s \in Session, AskArchive(s)
      PROVE  VersionInv'
  BY <1>13 DEF AskArchive, world, sources, evidence, work
<1>14. ASSUME FreezePlan
      PROVE  VersionInv'
  BY <1>14 DEF FreezePlan, world, sources, evidence, work
<1> QED
  BY <1>1, <1>2, <1>3, <1>4, <1>5, <1>6, <1>7, <1>8, <1>9, <1>10, <1>11, <1>12, <1>13, <1>14 DEF
     CompletionNext


LEMMA ArchivedStill ==
  ASSUME NEW stream, Classify("past", stream, FALSE) = "completed"
  PROVE  Classify("past", stream, TRUE) = "completed"
  BY DEF Classify

LEMMA FeedCarries ==
  ASSUME CompletionInv, Onward, shown' \in [Session -> Nat], NEW q \in Session,
         completion'[q] = completion[q], temporal'[q] = temporal[q], archive'[q] = archive[q]
  PROVE  FeedInv(q)'
<1>1. FeedInv(q)
  BY DEF CompletionInv
<1>2. feed' = feed /\ shown[q] <= shown'[q] /\ shown'[q] <= Len(feed[q].records)
      /\ shown[q] \in Nat /\ shown'[q] \in Nat /\ Len(feed[q].records) \in Nat
  <2>1. shown[q] \in Nat /\ shown'[q] \in Nat /\ Len(feed[q].records) \in Nat
    BY Typed
  <2> QED
    BY <2>1 DEF Onward
<1>3. Whole(q) => Whole(q)'
  BY <1>2 DEF Whole
<1>4. completion[q] # Absent => completion[q].wire \in Nat
  BY Typed DEF FeedCapture
<1>5. temporal[q] # Absent =>
        Classify("past", Records(q, temporal[q].wire), TRUE)' = Classify("past", Records(q, temporal[q].wire), TRUE)
  BY <1>2 DEF Records
<1>6. completion[q] # Absent =>
        /\ completion'[q].kept <= completion'[q].wire /\ completion'[q].wire <= shown'[q]
        /\ completion'[q].early => completion'[q].error = "none"
  BY <1>1, <1>2, <1>4 DEF FeedInv
<1> QED
  BY <1>1, <1>2, <1>3, <1>5, <1>6 DEF FeedInv, Records

LEMMA FeedStays ==
  ASSUME CompletionInv, Onward, shown' \in [Session -> Nat], CompletionNext
  PROVE  \A q \in Session : FeedInv(q)'
<1>1. ASSUME NEW s \in Session, Elapse(s) \/ Publishes(s) \/ CallOff(s) \/ Derive(s) \/ ProveIndependently(s)
      PROVE  \A q \in Session : FeedInv(q)'
  BY <1>1, FeedCarries, Typed DEF Elapse, Publishes, CallOff, Derive, ProveIndependently, world,
     sources, evidence, work
<1>2. ASSUME Discover \/ Reconcile \/ Reconciled \/ StartFinalize \/ ReadProvider
      PROVE  \A q \in Session : FeedInv(q)'
  BY <1>2, FeedCarries, Typed DEF Discover, Reconcile, Reconciled, StartFinalize, ReadProvider,
     world, sources, evidence, work
<1>3. ASSUME NEW failures \in BOOLEAN, DiscoverProvider(failures)
      PROVE  \A q \in Session : FeedInv(q)'
  BY <1>3, FeedCarries, Typed DEF DiscoverProvider, world, sources, evidence, work
<1>4. ASSUME NEW s \in Session, NEW error \in {"none", "unavailable", "failed"}, Capture(s, error)
      PROVE  \A q \in Session : FeedInv(q)'
  <2> SUFFICES ASSUME NEW q \in Session PROVE FeedInv(q)'
    OBVIOUS
  <2>1. temporal' = temporal /\ archive' = archive /\ feed' = feed /\ shown' = shown
    BY <1>4 DEF Capture, world, evidence
  <2>2. CASE q # s
    BY <1>4, <2>1, <2>2, FeedCarries, Typed DEF Capture
  <2>3. CASE q = s
    <3>1. FeedInv(s) /\ completion[s] = Absent /\ temporal[s] = Absent
      BY <1>4 DEF Capture, CompletionInv, FeedInv
    <3>2. shown[s] \in Nat
      BY Typed
    <3> DEFINE n == IF error # "none" \/ recon.of[s] = "future" THEN 0 ELSE shown[s]
               lost == n > 0 /\ n = Len(feed[s].records) /\ feed[s].cut
               retained == IF lost THEN n - 1 ELSE n
               early == recon.of[s] = "future" /\ s \notin elapsed
    <3>3. retained <= n /\ n <= shown[s] /\ (early => error = "none")
      BY <1>4, <3>2 DEF Capture
    <3>4. completion'[s] =
             [wire |-> n, kept |-> retained, error |-> error, after |-> disc.version, early |-> early]
      BY <1>4, Typed DEF Capture
    <3> HIDE DEF n, lost, retained, early
    <3>5. completion'[s].kept <= completion'[s].wire /\ completion'[s].wire <= shown[s]
          /\ (completion'[s].early => completion'[s].error = "none")
      BY <3>3, <3>4
    <3> QED
      BY <2>1, <2>3, <3>1, <3>5 DEF FeedInv, Whole
  <2> QED
    BY <2>2, <2>3
<1>5. ASSUME NEW s \in Session, Promote(s)
      PROVE  \A q \in Session : FeedInv(q)'
  <2> SUFFICES ASSUME NEW q \in Session PROVE FeedInv(q)'
    OBVIOUS
  <2>1. completion' = completion /\ archive' = archive /\ feed' = feed /\ shown' = shown
    BY <1>5 DEF Promote, world, sources
  <2>2. CASE q # s
    BY <1>5, <2>1, <2>2, FeedCarries, Typed DEF Promote
  <2>3. CASE q = s
    <3>1. FeedInv(s) /\ completion[s] # Absent /\ completion[s].early /\ Whole(s)
      BY <1>5 DEF Promote, CompletionInv, FoundFuture, LeavesNoDoubt, Whole
    <3>2. temporal'[s].wire = shown[s]
      BY <1>5, Typed DEF Promote, TemporalProof
    <3>3. Classify("past", Records(s, shown[s]), TRUE) = "completed"
      BY <1>5, ArchivedStill DEF Promote, LeavesNoDoubt
    <3> QED
      BY <2>1, <2>3, <3>1, <3>2, <3>3 DEF FeedInv, Whole, Records
  <2> QED
    BY <2>2, <2>3
<1>6. ASSUME CaptureArchive
      PROVE  \A q \in Session : FeedInv(q)'
  <2> SUFFICES ASSUME NEW q \in Session PROVE FeedInv(q)'
    OBVIOUS
  <2>1. UNCHANGED <<feed, shown, completion, temporal>>
    BY <1>6 DEF CaptureArchive, world, sources
  <2>2. FeedInv(q) /\ (archive'[q] = archive[q] \/ Whole(q))
    BY <1>6, Typed DEF CaptureArchive, CompletionInv, Whole
  <2> QED
    BY <2>1, <2>2 DEF FeedInv, Whole, Records
<1>7. ASSUME NEW s \in Session, AskArchive(s)
      PROVE  \A q \in Session : FeedInv(q)'
  <2> SUFFICES ASSUME NEW q \in Session PROVE FeedInv(q)'
    OBVIOUS
  <2>1. UNCHANGED <<feed, shown, completion, temporal>>
    BY <1>7 DEF AskArchive, world, sources
  <2>2. PICK a : archive' = [archive EXCEPT ![s] = a] /\ (a = "other" \/ Whole(s))
    BY <1>7 DEF AskArchive, Whole
  <2>3. FeedInv(q) /\ (archive'[q] = archive[q] \/ archive'[q] = "other" \/ Whole(q))
    BY <2>2, Typed DEF CompletionInv
  <2> QED
    BY <2>1, <2>3 DEF FeedInv, Whole, Records, Complete
<1>8. ASSUME WriteCatalog \/ AbandonFinalize \/ FreezePlan
      PROVE  \A q \in Session : FeedInv(q)'
  BY <1>8, FeedCarries, Typed DEF WriteCatalog, AbandonFinalize, FreezePlan, world, sources,
     evidence, work
<1> QED
  BY <1>1, <1>2, <1>3, <1>4, <1>5, <1>6, <1>7, <1>8 DEF CompletionNext

LEMMA PromotedStays ==
  ASSUME CompletionInv, CompletionType', CompletionNext
  PROVE  \A q \in Session : PromotedInv(q)'
<1> USE DEF CompletionInv, PromotedInv
<1>1. ASSUME NEW s \in Session, Elapse(s) \/ Publishes(s) \/ CallOff(s) \/ Derive(s) \/ ProveIndependently(s)
      PROVE  \A q \in Session : PromotedInv(q)'
  BY <1>1 DEF Elapse, Publishes, CallOff, Derive, ProveIndependently, world, sources, evidence, work
<1>2. ASSUME Discover
      PROVE  \A q \in Session : PromotedInv(q)'
  <2>1. rounds.discover \in Nat /\ disc' # Absent /\ disc'.version = rounds.discover + 1
    BY <1>2, DiscoverDoes, Typed
  <2>3. UNCHANGED <<prov, temporal>>
    BY <1>2 DEF Discover, evidence
  <2>4. \A q \in Session : temporal[q] # Absent =>
           temporal[q].disc <= rounds.discover /\ temporal[q].disc \in Nat
    BY Typed DEF Promotion
  <2> QED
    BY <2>1, <2>3, <2>4
<1>3. ASSUME NEW failures \in BOOLEAN, DiscoverProvider(failures)
      PROVE  \A q \in Session : PromotedInv(q)'
  <2>1. prov' # Absent /\ prov'.version = rounds.discover /\ rounds.discover \in Nat /\ disc' = disc
    BY <1>3, Typed, DiscoverProviderDoes
  <2>2. temporal' = temporal
    BY <1>3 DEF DiscoverProvider, evidence
  <2>3. \A q \in Session : temporal[q] # Absent =>
           prov.version < rounds.discover /\ prov.version \in Nat /\ temporal[q].prov \in Nat
    BY <1>3, Typed, DiscoverProviderDoes DEF Promotion
  <2> QED
    BY <2>1, <2>2, <2>3
<1>4. ASSUME Reconcile \/ Reconciled \/ CaptureArchive \/ StartFinalize \/ ReadProvider
      PROVE  \A q \in Session : PromotedInv(q)'
  BY <1>4 DEF Reconcile, Reconciled, CaptureArchive, StartFinalize, ReadProvider, world, sources,
     evidence, work
<1>5. ASSUME NEW s \in Session, NEW error \in {"none", "unavailable", "failed"}, Capture(s, error)
      PROVE  \A q \in Session : PromotedInv(q)'
  BY <1>5 DEF Capture, world, sources, evidence, work
<1>6. ASSUME NEW s \in Session, Promote(s)
      PROVE  \A q \in Session : PromotedInv(q)'
  <2>1. UNCHANGED <<disc, prov>> /\ disc # Absent /\ prov # Absent
    BY <1>6 DEF Promote, sources, SourcesComplete
  <2>2. disc.version \in Nat /\ prov.version \in Nat
    BY <2>1, Typed
  <2>3. \A q \in Session \ {s} : temporal'[q] = temporal[q]
    BY <1>6, Typed DEF Promote
  <2>4. temporal'[s].disc = disc.version /\ temporal'[s].prov = prov.version
        /\ disc.of[s] = "future" /\ s \notin prov.cancelled
    BY <1>6, Typed DEF Promote, TemporalProof, FoundFuture, StillOn
  <2> QED
    BY <2>1, <2>2, <2>3, <2>4
<1>7. ASSUME NEW s \in Session, AskArchive(s)
      PROVE  \A q \in Session : PromotedInv(q)'
  BY <1>7 DEF AskArchive, world, sources, evidence, work
<1>8. ASSUME WriteCatalog \/ AbandonFinalize \/ FreezePlan
      PROVE  \A q \in Session : PromotedInv(q)'
  BY <1>8 DEF WriteCatalog, AbandonFinalize, FreezePlan, world, sources, evidence, work
<1> QED
  BY <1>1, <1>2, <1>3, <1>4, <1>5, <1>6, <1>7, <1>8 DEF CompletionNext


LEMMA StatesStay ==
  ASSUME AllCaptured, Onward, NEW s \in Session, NEW e
  PROVE  StateOf(s, e)' = StateOf(s, e)
<1>1. feed' = feed /\ completion'[s] = completion[s]
  BY DEF AllCaptured, Onward
<1>2. Wire(s)' = Wire(s) /\ Kept(s)' = Kept(s) /\ StreamOf(s, e)' = StreamOf(s, e)
  BY <1>1 DEF Wire, Kept, StreamOf, Records, Corrected
<1>3. Scheduled(s, e)' = Scheduled(s, e) /\ Archived(s, e)' = Archived(s, e)
  BY DEF Scheduled, Archived, Complete
<1>4. Observed(s, e)' = Observed(s, e)
  BY <1>1, <1>2, <1>3 DEF Observed
<1>5. Proved(s, e)' = Proved(s, e)
  BY <1>2, <1>4 DEF Proved, Confirmed, Corrected
<1> QED
  BY <1>5 DEF StateOf

LEMMA ReadStays ==
  ASSUME CompletionInv, Onward, NEW e, ReadInv(e)
  PROVE  ReadInv(e)'
<1>1. AllCaptured' /\ disc' # Absent /\ prov' # Absent
  BY Typed DEF ReadInv, AllCaptured, Onward
<1>2. ASSUME NEW s \in Session
      PROVE  /\ Complete(e.archive[s])' => Whole(s)' /\ Complete(archive[s])'
             /\ e.temporal[s] # Absent => temporal'[s] = e.temporal[s]
  <2>1. feed' = feed /\ shown'[s] \in shown[s] .. Len(feed[s].records)
    BY DEF Onward
  <2>2. Whole(s) => Whole(s)'
    BY <2>1, Typed DEF Whole
  <2>3. e.temporal[s] # Absent => temporal'[s] = e.temporal[s]
    BY DEF ReadInv, Onward
  <2>4. Complete(archive[s]) => Complete(archive[s])'
    BY DEF Onward
  <2> QED
    BY <2>2, <2>3, <2>4 DEF ReadInv, Complete
<1> QED
  BY <1>1, <1>2 DEF ReadInv

LEMMA CatalogStays ==
  ASSUME CompletionInv, Onward, NEW c, CatalogInv(c)
  PROVE  CatalogInv(c)'
<1> SUFFICES ASSUME c \in Catalog PROVE CatalogInv(c)'
  BY DEF CatalogInv
<1>1. ReadInv(c.seen)'
  BY ReadStays DEF CatalogInv
<1>2. \A s \in Session : c.rows[s] = StateOf(s, c.seen)'
  BY StatesStay DEF CatalogInv, ReadInv
<1>3. disc # Absent /\ prov # Absent /\ c.disc <= disc.version /\ c.prov <= prov.version
  BY DEF CatalogInv, ReadInv
<1>4. c.disc \in Nat /\ c.prov \in Nat
  BY DEF Catalog
<1>5. disc.version \in Nat /\ prov.version \in Nat
  BY <1>3, Typed
<1> QED
  BY <1>1, <1>2, <1>3, <1>4, <1>5 DEF CatalogInv, Onward


LEMMA FinCarries ==
  ASSUME CompletionInv, Onward, fin' \in {fin, Off}, UNCHANGED <<disc, prov>>
  PROVE  FinInv'
<1> SUFFICES ASSUME fin' = fin, fin # Off PROVE FinInv'
  BY DEF FinInv
<1>1. PICK e : e = fin.seen
  OBVIOUS
<1>2. ReadInv(e)
  BY <1>1 DEF CompletionInv, FinInv
<1>3. ReadInv(e)'
  BY <1>2, ReadStays
<1>4. e = fin'.seen
  BY <1>1
<1>5. ReadInv(fin.seen)'
  BY <1>3, <1>4 DEF ReadInv, AllCaptured, Whole
<1> QED
  BY <1>5 DEF FinInv, CompletionInv

LEMMA FinTorn ==
  ASSUME CompletionInv, Onward, fin' = Torn
  PROVE  FinInv'
<1> SUFFICES ASSUME fin # Off PROVE FinInv'
  BY DEF FinInv, Torn
<1>1. PICK e : e = fin.seen
  OBVIOUS
<1>2. fin.seen = e /\ fin'.seen = e /\ fin'.torn = TRUE
  BY <1>1, FinalizationTyped DEF Torn, CompletionInv
<1>3. ReadInv(e)
  BY <1>2 DEF CompletionInv, FinInv
<1>4. ReadInv(e)'
  BY <1>3, ReadStays
<1>5. ReadInv(fin.seen)'
  BY <1>2, <1>4 DEF ReadInv, AllCaptured, Whole
<1> QED
  BY <1>2, <1>5 DEF FinInv

LEMMA FinStays ==
  ASSUME CompletionInv, Onward, CompletionNext
  PROVE  FinInv'
<1> USE FinCarries
<1>1. ASSUME NEW s \in Session, Elapse(s) \/ Publishes(s) \/ CallOff(s) \/ Derive(s) \/ ProveIndependently(s)
      PROVE  FinInv'
  BY <1>1 DEF Elapse, Publishes, CallOff, Derive, ProveIndependently, world, sources, evidence, work
<1>2. ASSUME Discover
      PROVE  FinInv'
  BY <1>2, FinTorn DEF Discover
<1>3. ASSUME NEW failures \in BOOLEAN, DiscoverProvider(failures)
      PROVE  FinInv'
  BY <1>3, FinTorn DEF DiscoverProvider
<1>4. ASSUME Reconcile \/ Reconciled \/ CaptureArchive \/ AbandonFinalize \/ FreezePlan
      PROVE  FinInv'
  BY <1>4 DEF Reconcile, Reconciled, CaptureArchive, AbandonFinalize, FreezePlan, world, sources,
     evidence, work
<1>5. ASSUME NEW s \in Session, NEW error \in {"none", "unavailable", "failed"}, Capture(s, error)
      PROVE  FinInv'
  BY <1>5 DEF Capture, world, sources, evidence, work
<1>6. ASSUME NEW s \in Session, Promote(s)
      PROVE  FinInv'
  BY <1>6 DEF Promote, world, sources, evidence, work
<1>7. ASSUME StartFinalize
      PROVE  FinInv'
  <2>1. UNCHANGED <<feed, shown, disc, prov, completion, temporal, archive>>
    BY <1>7 DEF StartFinalize, world, sources, evidence
  <2>2. /\ AllCaptured /\ disc # Absent /\ prov # Absent
        /\ fin'.seen = OnDisk /\ fin'.torn = FALSE /\ fin'.place = "archive"
    BY <1>7 DEF StartFinalize, AllCaptured
  <2>3. \A s \in Session : Complete(archive[s]) => Whole(s)
    BY DEF CompletionInv, FeedInv
  <2>4. fin'.seen.archive = archive /\ fin'.seen.temporal = temporal /\ fin'.seen.disc = disc
    BY <2>2 DEF OnDisk
  <2>5. ReadInv(fin.seen)'
    BY <2>1, <2>2, <2>3, <2>4 DEF ReadInv, AllCaptured, Whole, Complete
  <2> QED
    BY <2>1, <2>2, <2>4, <2>5 DEF FinInv
<1>8. ASSUME NEW s \in Session, AskArchive(s)
      PROVE  FinInv'
  <2>1. UNCHANGED <<feed, shown, disc, prov, completion, temporal>>
    BY <1>8 DEF AskArchive, world, sources
  <2>2. PICK a : /\ fin' = [fin EXCEPT !.seen.archive[s] = a] /\ archive' = [archive EXCEPT ![s] = a]
                 /\ a = "other" \/ Whole(s)
    BY <1>8 DEF AskArchive, Whole
  <2>3. fin # Off /\ fin.seen \in Evidence /\ fin.place = "archive"
        /\ fin = [place |-> fin.place, seen |-> fin.seen, torn |-> fin.torn]
    BY <1>8, FinalizationTyped DEF AskArchive, CompletionInv
  <2>4. /\ fin'.torn = fin.torn /\ fin'.place = "archive" /\ fin'.seen = [fin.seen EXCEPT !.archive[s] = a]
    <3>1. fin' = [fin EXCEPT !.seen.archive[s] = a]
      BY <2>2
    <3> QED
      BY <2>3, <3>1
  <2>5. /\ fin'.seen.temporal = fin.seen.temporal /\ fin'.seen.disc = fin.seen.disc
        /\ fin'.seen.archive = [fin.seen.archive EXCEPT ![s] = a]
        /\ fin.seen.archive \in [Session -> ArchiveAnswer \cup {Absent}]
    BY <2>3, <2>4 DEF Evidence
  <2>6. ReadInv(fin.seen) /\ (~ fin.torn => fin.seen.disc = disc)
    BY <2>3 DEF CompletionInv, FinInv
  <2>7. \A q \in Session :
           \/ fin'.seen.archive[q] = fin.seen.archive[q]
           \/ fin'.seen.archive[q] = archive'[q] /\ (archive'[q] = "other" \/ Whole(q))
    <3>1. archive' = [archive EXCEPT ![s] = a] /\ archive \in [Session -> ArchiveAnswer \cup {Absent}]
      BY <2>2, Typed
    <3>2. archive'[s] = a /\ fin'.seen.archive[s] = a
      BY <2>5, <3>1
    <3>3. \A q \in Session \ {s} : fin'.seen.archive[q] = fin.seen.archive[q]
      BY <2>5
    <3> QED
      BY <2>2, <3>2, <3>3
  <2>9. \A q \in Session : Complete(archive[q]) => Complete(archive'[q])
    BY DEF Onward
  <2>8. ReadInv(fin.seen)'
    BY <2>1, <2>5, <2>6, <2>7, <2>9 DEF ReadInv, AllCaptured, Whole, Complete
  <2> QED
    BY <2>1, <2>4, <2>5, <2>6, <2>8 DEF FinInv
<1>9. ASSUME ReadProvider
      PROVE  FinInv'
  <2>1. UNCHANGED <<feed, shown, disc, prov, completion, temporal, archive>>
    BY <1>9 DEF ReadProvider, world, sources, evidence
  <2>2. fin # Off /\ fin.seen \in Evidence /\ fin = [place |-> fin.place, seen |-> fin.seen, torn |-> fin.torn]
    BY <1>9, FinalizationTyped DEF ReadProvider, CompletionInv
  <2>3. /\ fin'.torn = fin.torn /\ fin'.seen = [fin.seen EXCEPT !.prov = prov]
    BY <1>9, <2>2 DEF ReadProvider
  <2>4. /\ fin'.seen.temporal = fin.seen.temporal /\ fin'.seen.disc = fin.seen.disc
        /\ fin'.seen.archive = fin.seen.archive /\ fin'.seen.prov = prov
    BY <2>2, <2>3 DEF Evidence
  <2>5. ReadInv(fin.seen) /\ (~ fin.torn => fin.seen.disc = disc)
    BY <2>2 DEF CompletionInv, FinInv
  <2>6. ReadInv(fin.seen)'
    BY <2>1, <2>4, <2>5 DEF ReadInv, AllCaptured, Whole, Complete
  <2> QED
    BY <2>1, <2>3, <2>4, <2>5, <2>6 DEF FinInv
<1>10. ASSUME WriteCatalog
      PROVE  FinInv'
  BY <1>10 DEF WriteCatalog, sources
<1> QED
  BY <1>1, <1>2, <1>3, <1>4, <1>5, <1>6, <1>7, <1>8, <1>9, <1>10 DEF CompletionNext


LEMMA CatalogCarries ==
  ASSUME CompletionInv, Onward
  PROVE  /\ inventory' = inventory => CatalogInv(inventory)'
         /\ frozen' = frozen => CatalogInv(frozen)'
<1>1. PICK c, d : c = inventory /\ d = frozen
  OBVIOUS
<1>2. CatalogInv(c) /\ CatalogInv(d)
  BY <1>1 DEF CompletionInv
<1>3. CatalogInv(c)' /\ CatalogInv(d)'
  BY <1>2, CatalogStays
<1>4. inventory' = inventory => CatalogInv(inventory)'
  <2> SUFFICES ASSUME inventory' = c PROVE CatalogInv(inventory)'
    BY <1>1
  <2> QED
    BY <1>3
<1>5. frozen' = frozen => CatalogInv(frozen)'
  <2> SUFFICES ASSUME frozen' = d PROVE CatalogInv(frozen)'
    BY <1>1
  <2> QED
    BY <1>3
<1> QED
  BY <1>4, <1>5

LEMMA InventoryStays ==
  ASSUME CompletionInv, Onward, CompletionNext
  PROVE  CatalogInv(inventory)'
<1> USE CatalogCarries
<1>1. ASSUME NEW s \in Session, Elapse(s) \/ Publishes(s) \/ CallOff(s) \/ Derive(s) \/ ProveIndependently(s)
      PROVE  CatalogInv(inventory)'
  BY <1>1 DEF Elapse, Publishes, CallOff, Derive, ProveIndependently, world, sources, evidence, work
<1>2. ASSUME Discover \/ Reconcile \/ CaptureArchive \/ StartFinalize \/ ReadProvider
      PROVE  CatalogInv(inventory)'
  BY <1>2 DEF Discover, Reconcile, CaptureArchive, StartFinalize, ReadProvider, world, sources,
     evidence, work
<1>3. ASSUME NEW failures \in BOOLEAN, DiscoverProvider(failures)
      PROVE  CatalogInv(inventory)'
  BY <1>3 DEF DiscoverProvider, world, sources, evidence, work
<1>4. ASSUME NEW s \in Session, NEW error \in {"none", "unavailable", "failed"}, Capture(s, error)
      PROVE  CatalogInv(inventory)'
  BY <1>4 DEF Capture, world, sources, evidence, work
<1>5. ASSUME Reconciled
      PROVE  CatalogInv(inventory)'
  <2>1. inventory' \notin Catalog
    BY <1>5 DEF Reconciled, Informal, Catalog
  <2> QED
    BY <2>1 DEF CatalogInv
<1>6. ASSUME NEW s \in Session, Promote(s) \/ AskArchive(s)
      PROVE  CatalogInv(inventory)'
  BY <1>6 DEF Promote, AskArchive, world, sources, evidence, work
<1>7. ASSUME WriteCatalog
      PROVE  CatalogInv(inventory)'
  <2>1. UNCHANGED <<feed, shown, disc, prov, completion, temporal>>
    BY <1>7 DEF WriteCatalog, world, sources, evidence
  <2>2. PICK e : e = fin.seen
    OBVIOUS
  <2>3. /\ inventory'.seen = e /\ inventory'.torn = fin.torn
        /\ inventory'.disc = disc.version /\ inventory'.prov = prov.version
        /\ inventory'.rows = [s \in Session |-> StateOf(s, e)]
        /\ fin # Off /\ fin.place = "write"
    BY <1>7, <2>2 DEF WriteCatalog
  <2>4. ReadInv(e) /\ (~ fin.torn => e.disc = disc /\ e.prov = prov)
    BY <2>2, <2>3 DEF CompletionInv, FinInv
  <2>5. ReadInv(e)'
    BY <2>4, ReadStays
  <2>6. \A s \in Session : inventory'.rows[s] = StateOf(s, e)'
    BY <2>3, <2>4, StatesStay DEF ReadInv
  <2>7. disc.version \in Nat /\ prov.version \in Nat
    BY <2>4, Typed DEF ReadInv
  <2>8. ReadInv(inventory.seen)'
    <3> SUFFICES inventory'.seen = e => ReadInv(inventory.seen)'
      BY <2>3
    <3> QED
      BY <2>5 DEF ReadInv, AllCaptured, Whole
  <2>9. \A s \in Session : inventory'.rows[s] = StateOf(s, inventory.seen)'
    <3> SUFFICES ASSUME inventory'.seen = e, NEW s \in Session
                 PROVE  StateOf(s, inventory.seen)' = StateOf(s, e)'
      BY <2>3, <2>6
    <3> QED
      BY DEF StateOf, Proved, Observed, Scheduled, StreamOf, Archived, Confirmed, Corrected,
         Wire, Kept, Records
  <2> QED
    BY <2>1, <2>3, <2>4, <2>7, <2>8, <2>9 DEF CatalogInv
<1>8. ASSUME AbandonFinalize \/ FreezePlan
      PROVE  CatalogInv(inventory)'
  BY <1>8 DEF AbandonFinalize, FreezePlan, world, sources, evidence, work
<1> QED
  BY <1>1, <1>2, <1>3, <1>4, <1>5, <1>6, <1>7, <1>8 DEF CompletionNext

LEMMA FrozenStays ==
  ASSUME CompletionInv, Onward, CompletionNext
  PROVE  CatalogInv(frozen)'
<1> USE CatalogCarries
<1>1. ASSUME NEW s \in Session, Elapse(s) \/ Publishes(s) \/ CallOff(s) \/ Derive(s) \/ ProveIndependently(s)
      PROVE  CatalogInv(frozen)'
  BY <1>1 DEF Elapse, Publishes, CallOff, Derive, ProveIndependently, world, sources, evidence, planned, work
<1>2. ASSUME Discover \/ Reconcile \/ Reconciled \/ CaptureArchive \/ StartFinalize
      PROVE  CatalogInv(frozen)'
  BY <1>2 DEF Discover, Reconcile, Reconciled, CaptureArchive, StartFinalize, world, sources,
     evidence, planned, work
<1>3. ASSUME NEW failures \in BOOLEAN, DiscoverProvider(failures)
      PROVE  CatalogInv(frozen)'
  BY <1>3 DEF DiscoverProvider, world, sources, evidence, planned, work
<1>4. ASSUME NEW s \in Session, NEW error \in {"none", "unavailable", "failed"}, Capture(s, error)
      PROVE  CatalogInv(frozen)'
  BY <1>4 DEF Capture, world, sources, evidence, planned, work
<1>5. ASSUME NEW s \in Session, Promote(s) \/ AskArchive(s)
      PROVE  CatalogInv(frozen)'
  BY <1>5 DEF Promote, AskArchive, world, sources, evidence, planned, work
<1>6. ASSUME ReadProvider \/ WriteCatalog \/ AbandonFinalize
      PROVE  CatalogInv(frozen)'
  BY <1>6 DEF ReadProvider, WriteCatalog, AbandonFinalize, world, sources, evidence, planned, work
<1>7. ASSUME FreezePlan
      PROVE  CatalogInv(frozen)'
  <2>1. frozen' = inventory /\ UNCHANGED <<feed, shown, disc, prov, completion, temporal>>
    BY <1>7 DEF FreezePlan, world, sources, evidence, planned
  <2>2. PICK c : c = inventory
    OBVIOUS
  <2>3. CatalogInv(c)
    BY <2>2 DEF CompletionInv
  <2>4. CatalogInv(c)'
    BY <2>3, CatalogStays
  <2>5. frozen' = c
    BY <2>1, <2>2
  <2> QED
    BY <2>4, <2>5
<1> QED
  BY <1>1, <1>2, <1>3, <1>4, <1>5, <1>6, <1>7 DEF CompletionNext

LEMMA FrozenMoves ==
  ASSUME CompletionNext
  PROVE  UNCHANGED planned \/ FreezePlan
<1>1. ASSUME NEW s \in Session, Elapse(s) \/ Publishes(s) \/ CallOff(s) \/ Derive(s) \/ ProveIndependently(s)
      PROVE  UNCHANGED planned \/ FreezePlan
  BY <1>1 DEF Elapse, Publishes, CallOff, Derive, ProveIndependently
<1>2. ASSUME Discover \/ Reconcile \/ Reconciled \/ CaptureArchive \/ StartFinalize
      PROVE  UNCHANGED planned \/ FreezePlan
  BY <1>2 DEF Discover, Reconcile, Reconciled, CaptureArchive, StartFinalize
<1>3. ASSUME NEW failures \in BOOLEAN, DiscoverProvider(failures)
      PROVE  UNCHANGED planned \/ FreezePlan
  BY <1>3 DEF DiscoverProvider
<1>4. ASSUME NEW s \in Session, NEW error \in {"none", "unavailable", "failed"}, Capture(s, error)
      PROVE  UNCHANGED planned \/ FreezePlan
  BY <1>4 DEF Capture
<1>5. ASSUME NEW s \in Session, Promote(s) \/ AskArchive(s)
      PROVE  UNCHANGED planned \/ FreezePlan
  BY <1>5 DEF Promote, AskArchive
<1>6. ASSUME ReadProvider \/ WriteCatalog \/ AbandonFinalize
      PROVE  UNCHANGED planned \/ FreezePlan
  BY <1>6 DEF ReadProvider, WriteCatalog, AbandonFinalize
<1>7. ASSUME FreezePlan
      PROVE  UNCHANGED planned \/ FreezePlan
  BY <1>7
<1> QED
  BY <1>1, <1>2, <1>3, <1>4, <1>5, <1>6, <1>7 DEF CompletionNext


LEMMA CompletionStarts == CompletionInit => CompletionInv
<1> SUFFICES ASSUME CompletionInit PROVE CompletionInv
  OBVIOUS
<1>1. /\ \A s \in Session : feed[s] \in Feeds[s]
      /\ completion = [s \in Session |-> Absent]
      /\ archive = completion /\ temporal = completion /\ independent = completion
      /\ disc = Absent /\ prov = Absent /\ inventory = Absent /\ frozen = Absent /\ sample = {}
      /\ discovering = FALSE /\ recon = Off /\ fin = Off /\ derived = {}
      /\ rounds = [discover |-> 0, reconcile |-> 0, finalize |-> 0, error |-> 0]
  BY DEF CompletionInit
<1>2. shown \in [Session -> Nat] /\ \A s \in Session : shown[s] <= Len(feed[s].records)
  <2>1. \A s \in Session : feed[s].records \in Seq([time : Nat, status : STRING])
    BY <1>1, CompletionAssumption
  <2>2. \A s \in Session : Len(feed[s].records) \in Nat
    BY <2>1
  <2>3. PICK through \in SUBSET elapsed :
          shown = [s \in Session |-> IF s \in through THEN Len(feed[s].records) ELSE 0]
    BY DEF CompletionInit
  <2> QED
    BY <2>2, <2>3
<1>3. CompletionType
  <2>1. elapsed \subseteq Session /\ cancelled \subseteq Session
    BY DEF CompletionInit
  <2>2. /\ shown \in [Session -> Nat] /\ completion \in [Session -> FeedCapture \cup {Absent}]
        /\ archive \in [Session -> ArchiveAnswer \cup {Absent}] /\ independent \in [Session -> Nat \cup {Absent}]
        /\ temporal \in [Session -> Promotion \cup {Absent}]
    BY <1>1, <1>2
  <2>3. rounds \in [{"discover", "reconcile", "finalize", "error"} -> Nat]
    BY <1>1
  <2>4. disc \in Discovery \cup {Absent} /\ prov \in ProviderList \cup {Absent}
        /\ inventory \in Catalog \cup {Informal, Absent} /\ frozen \in Catalog \cup {Informal, Absent}
        /\ sample \subseteq Session
    BY <1>1
  <2>5. /\ discovering \in BOOLEAN
        /\ recon \in [place : {"capture"}, of : [Session -> {"past", "future"}]] \cup {Off}
        /\ fin \in [place : {"archive", "write"}, seen : Evidence, torn : BOOLEAN] \cup {Off}
        /\ derived \subseteq Session
    BY <1>1
  <2> QED
    BY <1>1, <2>1, <2>2, <2>3, <2>4, <2>5 DEF CompletionType
<1>4. \A s \in Session : FeedInv(s) /\ PromotedInv(s)
  BY <1>1, <1>2, NotAbsent DEF FeedInv, PromotedInv, Complete, ArchiveAnswer
<1>5. CatalogInv(inventory) /\ CatalogInv(frozen) /\ SampleInv
  BY <1>1, NotAbsent DEF CatalogInv, SampleInv
<1> QED
  BY <1>1, <1>3, <1>4, <1>5 DEF CompletionInv, OrderInv, VersionInv, FinInv

LEMMA CompletionSteps == CompletionInv /\ [CompletionNext]_completionVars => CompletionInv'
<1> SUFFICES ASSUME CompletionInv, [CompletionNext]_completionVars PROVE CompletionInv'
  OBVIOUS
<1>1. CASE CompletionNext
  <2>1. Onward
    BY <1>1, OnwardSteps
  <2>2. CompletionType' /\ OrderInv' /\ VersionInv'
    BY <1>1, <2>1, TypeStays, OrderStays, VersionStays DEF CompletionInv
  <2>3. \A q \in Session : FeedInv(q)' /\ PromotedInv(q)'
    BY <1>1, <2>1, <2>2, FeedStays, PromotedStays DEF CompletionType
  <2>4. FinInv' /\ CatalogInv(inventory)' /\ CatalogInv(frozen)'
    BY <1>1, <2>1, FinStays, InventoryStays, FrozenStays
  <2>5. SampleInv'
    <3>1. CASE UNCHANGED planned
      BY <3>1 DEF CompletionInv, SampleInv, planned, Sampled, CompletedIn, StratumOf
    <3>2. CASE FreezePlan
      BY <3>2, FreezePlanDoes DEF CompletionInv, SampleInv, Sampled, CompletedIn, StratumOf
    <3> QED
      BY <1>1, <3>1, <3>2, FrozenMoves
  <2> QED
    BY <2>2, <2>3, <2>4, <2>5 DEF CompletionInv
<1>2. CASE UNCHANGED completionVars
  <2>1. /\ UNCHANGED <<feed, elapsed, shown, cancelled, disc, prov, completion, derived, archive, independent, temporal>>
        /\ UNCHANGED <<inventory, frozen, sample, discovering, recon, fin, rounds>>
    BY <1>2 DEF completionVars, world, sources, evidence, planned, work
  <2>2. Onward
    BY <2>1, Typed DEF Onward
  <2>3. CompletionType' /\ OrderInv' /\ VersionInv'
    <3>1. CompletionType'
      BY <2>1 DEF CompletionInv, CompletionType
    <3>2. OrderInv' /\ VersionInv'
      BY <2>1 DEF CompletionInv, OrderInv, VersionInv
    <3> QED
      BY <3>1, <3>2
  <2>4. \A q \in Session : FeedInv(q)' /\ PromotedInv(q)'
    <3>1. \A q \in Session : FeedInv(q)'
      BY <2>1, <2>2, <2>3, FeedCarries DEF CompletionType
    <3>2. \A q \in Session : PromotedInv(q)'
      BY <2>1 DEF CompletionInv, PromotedInv
    <3> QED
      BY <3>1, <3>2
  <2>5. FinInv' /\ CatalogInv(inventory)' /\ CatalogInv(frozen)'
    BY <2>1, <2>2, FinCarries, CatalogCarries
  <2>6. SampleInv'
    BY <2>1 DEF CompletionInv, SampleInv
  <2> QED
    BY <2>1, <2>3, <2>4, <2>5, <2>6 DEF CompletionInv
<1> QED
  BY <1>1, <1>2


(* A ready catalog and what a reader of it relies on. *)
LEMMA ReadyHolds ==
  ASSUME CompletionInv, ReadyInventory(inventory)
  PROVE  /\ inventory \in Catalog /\ inventory.seen \in Evidence /\ ReadInv(inventory.seen)
         /\ AllCaptured /\ disc # Absent /\ prov # Absent
         /\ \A s \in Session : inventory.rows[s] = StateOf(s, inventory.seen)
         /\ inventory.disc = disc.version /\ inventory.prov = prov.version
         /\ inventory.seen.derived = derived /\ inventory.seen.independent = independent
         /\ inventory.seen.temporal = temporal
         /\ ~ inventory.torn => inventory.seen.disc = disc /\ inventory.seen.prov = prov
<1>1. inventory # Absent /\ inventory.formal
  BY DEF ReadyInventory
<1>2. inventory \in Catalog
  BY <1>1 DEF CompletionInv, CompletionType, Informal
<1>3. Bound(inventory) /\ CatalogInv(inventory)
  BY DEF ReadyInventory, CompletionInv
<1> QED
  BY <1>2, <1>3 DEF Bound, SameProofs, CatalogInv, ReadInv, Catalog

(* What was captured of a feed and ends a session was published at its end. *)
LEMMA EndedIsOver ==
  ASSUME CompletionInv, NEW s \in Session, NEW n \in 0 .. shown[s], LastStatus(Records(s, n)) \in {"Finalised", "Ends"}
  PROVE  Over(s)
<1>1. /\ feed[s].records \in Seq([time : Nat, status : STRING])
      /\ Len(feed[s].records) \in Nat /\ shown[s] \in Nat /\ shown[s] <= Len(feed[s].records)
      /\ feed[s].over \in 0 .. Len(feed[s].records)
      /\ \A i \in 1 .. Len(feed[s].records) :
             feed[s].records[i].status \in {"Finalised", "Ends"} => i >= feed[s].over
  BY FeedsAreSequences, Typed DEF CompletionInv
<1>2. Len(Records(s, n)) = n /\ \A i \in 1 .. n : Records(s, n)[i] = feed[s].records[i]
  BY <1>1 DEF Records
<1>3. CASE n = 0
  <2>1. Records(s, n) = <<>>
    BY <1>1, <1>3 DEF Records
  <2>2. Absent \notin {"Finalised", "Ends"}
    BY NotAbsent DEF Status
  <2> QED
    BY <2>1, <2>2 DEF LastStatus
<1>4. CASE n # 0
  <2>1. LastStatus(Records(s, n)) = feed[s].records[n].status
    BY <1>1, <1>2, <1>4 DEF LastStatus
  <2> QED
    BY <1>1, <1>4, <2>1 DEF Over
<1> QED
  BY <1>3, <1>4

LEMMA CompletedSaysSo ==
  ASSUME NEW scheduled, NEW stream, NEW archived, Classify(scheduled, stream, archived) = "completed"
  PROVE  LastStatus(stream) \in {"Finalised", "Ends"} \/ archived
  BY DEF Classify

LEMMA ReadyIsOver == CompletionInv => CompletedIsOver
<1> SUFFICES ASSUME CompletionInv, ReadyInventory(inventory), NEW s \in Session, inventory.rows[s] = "completed"
             PROVE  Over(s) /\ s \in elapsed
  BY DEF CompletedIsOver
<1> DEFINE e == inventory.seen
<1>1. /\ ReadInv(e) /\ completion[s] # Absent /\ e.temporal = temporal /\ FeedInv(s)
  BY ReadyHolds DEF CompletionInv, AllCaptured
<1>2. s \in elapsed /\ Classify(Scheduled(s, e), StreamOf(s, e), Archived(s, e)) = "completed"
  BY DEF ReadyInventory, RowAllowed
<1>3. Whole(s) => Over(s)
  BY FeedsAreSequences DEF Whole, Over, CompletionInv
<1>4. CASE Archived(s, e)
  <2>1. Whole(s)
    BY <1>1, <1>4 DEF Archived, FeedInv, ReadInv
  <2> QED
    BY <1>2, <1>3, <2>1
<1>5. CASE ~ Archived(s, e)
  <2>1. LastStatus(StreamOf(s, e)) \in {"Finalised", "Ends"}
    BY <1>2, <1>5, CompletedSaysSo
  <2>2. completion[s].wire \in 0 .. shown[s] /\ completion[s].kept \in 0 .. shown[s]
    BY <1>1, Typed DEF FeedInv, FeedCapture
  <2>3. PICK n \in 0 .. shown[s] : StreamOf(s, e) = Records(s, n)
    BY <1>5, <2>2 DEF StreamOf, Archived, Wire, Kept
  <2> QED
    BY <1>2, <2>1, <2>3, EndedIsOver
<1> QED
  BY <1>4, <1>5

(* The archive's word turns nothing but what is unverified. *)
LEMMA WordOfTheArchive ==
  ASSUME NEW scheduled, NEW stream, NEW a \in BOOLEAN, NEW b \in BOOLEAN, a => b,
         Classify(scheduled, stream, a) # "unverified"
  PROVE  Classify(scheduled, stream, b) = Classify(scheduled, stream, a)
  BY DEF Classify

LEMMA UnlessTheArchive ==
  ASSUME NEW s \in Session, NEW e, NEW f, e.disc = f.disc, e.prov = f.prov, e.derived = f.derived,
         e.independent = f.independent, e.temporal[s] = f.temporal[s],
         Complete(e.archive[s]) => Complete(f.archive[s]),
         StateOf(s, e) # "unverified"
  PROVE  StateOf(s, f) = StateOf(s, e)
<1>1. /\ Scheduled(s, f) = Scheduled(s, e) /\ StreamOf(s, f) = StreamOf(s, e)
      /\ Corrected(s, f) = Corrected(s, e) /\ (s \in Confirmed(f) <=> s \in Confirmed(e))
  BY DEF Scheduled, StreamOf, Corrected, Confirmed
<1>2. Archived(s, e) => Archived(s, f)
  BY DEF Archived
<1>3. Archived(s, e) \in BOOLEAN /\ Archived(s, f) \in BOOLEAN
  BY DEF Archived, Complete
<1>4. Observed(s, e) # "unverified" => Observed(s, f) = Observed(s, e)
  BY <1>1, <1>2, <1>3, WordOfTheArchive DEF Observed
<1>5. Observed(s, e) = "future" <=> Observed(s, f) = "future"
  BY <1>1 DEF Observed, Classify
<1>6. Proved(s, e) # "unverified" => Proved(s, f) = Proved(s, e)
  BY <1>1, <1>4, <1>5 DEF Proved
<1>7. Proved(s, e) = "future" <=> Proved(s, f) = "future"
  BY <1>1, <1>5 DEF Proved
<1> QED
  BY <1>6, <1>7 DEF StateOf

LEMMA ReadyIsOfToday == CompletionInv => ReadyIsCurrent
<1> SUFFICES ASSUME CompletionInv, ReadyInventory(inventory), ~ inventory.torn, NEW s \in Session
             PROVE  inventory.rows[s] = StateOf(s, OnDisk)
  BY DEF ReadyIsCurrent
<1> DEFINE e == inventory.seen
<1>1. /\ e.disc = OnDisk.disc /\ e.prov = OnDisk.prov /\ e.derived = OnDisk.derived
      /\ e.independent = OnDisk.independent /\ e.temporal = OnDisk.temporal
      /\ inventory.rows[s] = StateOf(s, e)
  BY ReadyHolds DEF OnDisk
<1>2. Complete(e.archive[s]) => Complete(OnDisk.archive[s])
  BY ReadyHolds DEF ReadInv, OnDisk
<1>3. StateOf(s, e) # "unverified"
  BY <1>1 DEF ReadyInventory, RowAllowed
<1> QED
  BY <1>1, <1>2, <1>3, UnlessTheArchive

(* A sample covers the catalog it was drawn from, but for the sessions that  *)
(* OpenF1 lists in a season nothing is pinned of.                           *)
LEMMA SamplesCover ==
  ASSUME frozen \in Catalog, sample \in Sampled(frozen), NEW s \in CompletedIn(frozen), s \notin Pinless
  PROVE  Covered(s)
<1> DEFINE group == StratumOf(s) \cap CompletedIn(frozen)
<1>1. /\ s \in Session /\ s \in group
      /\ Kinds[s].target \in {1, 3} /\ Kinds[s].openf1 \in Listing
  BY CompletionAssumption DEF CompletedIn, StratumOf
<1>2. EnoughOf(group, sample, s) /\ Pinned(group, sample, s)
  BY DEF Sampled
<1>3. Modern(s) => \E q \in sample \cap StratumOf(s) : Modern(q)
  <2> SUFFICES ASSUME Modern(s) PROVE \E q \in sample \cap group : Modern(q)
    OBVIOUS
  <2>1. Kinds[s].openf1 = "2023"
    BY <1>1 DEF Modern, Listing, Pinless
  <2> QED
    BY <1>2, <2>1 DEF Pinned, Modern
<1>4. sample \cap StratumOf(s) # {}
  <2>1. CASE group \subseteq sample
    BY <1>1, <2>1
  <2>2. CASE Cardinality(sample \cap group) >= Kinds[s].target
    <3>1. Cardinality(sample \cap group) # 0
      BY <1>1, <2>2
    <3>2. sample \cap group # {}
      BY <3>1, FS_EmptySet
    <3> QED
      BY <3>2
  <2> QED
    BY <1>2, <2>1, <2>2 DEF EnoughOf
<1> QED
  BY <1>3, <1>4 DEF Covered

LEMMA PlansGrow == CompletionInv => PlanOutlivesGrowth
<1> SUFFICES ASSUME CompletionInv, PlanMade, ReadyInventory(inventory), SameSources(inventory), ~ inventory.torn
             PROVE  \/ Validated(inventory)
                    \/ /\ Selects(inventory) /\ StrictGrowth(inventory)
                       /\ Uncovered(inventory) \subseteq Newly(inventory) \cup Pinless
  BY DEF PlanOutlivesGrowth
<1> DEFINE e == inventory.seen
           d == frozen.seen
<1>1. /\ inventory \in Catalog /\ e.derived = derived /\ e.independent = independent /\ e.temporal = temporal
      /\ e.disc = disc /\ e.prov = prov /\ inventory.disc = disc.version /\ inventory.prov = prov.version
      /\ \A s \in Session : inventory.rows[s] = StateOf(s, e) /\ inventory.rows[s] # "unverified"
  BY ReadyHolds DEF ReadyInventory, RowAllowed
<1>2. /\ frozen \in Catalog /\ ReadInv(d) /\ ~ frozen.torn
      /\ \A s \in Session : frozen.rows[s] = StateOf(s, d) /\ frozen.rows[s] # "unverified"
      /\ sample # {} /\ sample \in Sampled(frozen)
  BY DEF CompletionInv, CompletionType, CatalogInv, SampleInv, PlanMade, SameSources, Informal
<1>3. /\ d.disc = disc /\ d.prov = prov /\ d.derived = derived /\ d.independent = independent
  BY <1>1, <1>2 DEF SameSources, CompletionInv, CatalogInv
<1>4. \A s \in Promoted(d) : e.temporal[s] = d.temporal[s]
  BY <1>1, <1>2 DEF Promoted, ReadInv
<1>5. ASSUME NEW s \in Session, s \notin Newly(inventory)
      PROVE  e.temporal[s] = d.temporal[s] /\ inventory.rows[s] = frozen.rows[s]
  <2>1. e.temporal[s] = d.temporal[s]
    BY <1>4, <1>5 DEF Newly, Promoted
  <2>2. \/ Complete(e.archive[s]) => Complete(d.archive[s])
        \/ Complete(d.archive[s]) => Complete(e.archive[s])
    OBVIOUS
  <2> QED
    BY <1>1, <1>2, <1>3, <2>1, <2>2, UnlessTheArchive
<1>6. ASSUME NEW s \in Newly(inventory)
      PROVE  frozen.rows[s] = "future" /\ disc.of[s] = "future" /\ inventory.rows[s] = "completed"
  <2>1. s \in Session /\ temporal[s] # Absent /\ e.temporal[s] = temporal[s] /\ d.temporal[s] = Absent
    BY <1>1 DEF Newly, Promoted
  <2>2. temporal[s].disc = disc.version /\ temporal[s].prov = prov.version
        /\ independent[s] = Absent /\ s \notin derived
    BY <2>1 DEF ReadyInventory, Replays, TemporalReplays, Apart, Promoted, Confirmed, OnDisk
  <2>3. disc.of[s] = "future" /\ s \notin prov.cancelled
    BY <2>1, <2>2 DEF CompletionInv, PromotedInv
  <2>4. completion[s].error = "none" /\ Classify("past", Records(s, temporal[s].wire), TRUE) = "completed"
    BY <2>1 DEF CompletionInv, FeedInv
  <2>5. StateOf(s, d) = "future"
    BY <1>3, <2>1, <2>2, <2>3 DEF StateOf, Proved, Confirmed, Corrected, Observed, Scheduled, Classify
  <2>6. StateOf(s, e) = "completed"
    <3>1. Scheduled(s, e) = "past" /\ StreamOf(s, e) = Records(s, temporal[s].wire) /\ Archived(s, e) = TRUE
      BY <2>1 DEF Scheduled, StreamOf, Archived
    <3>2. Observed(s, e) = "completed"
      BY <2>4, <3>1 DEF Observed
    <3> QED
      BY <1>1, <2>1, <2>2, <2>3, <3>2 DEF StateOf, Proved, Confirmed, Corrected
  <2> QED
    BY <1>1, <1>2, <2>1, <2>3, <2>5, <2>6
<1>7. Changed(inventory) = Newly(inventory)
  BY <1>5, <1>6 DEF Changed, Newly, Promoted
<1>8. Selects(inventory)
  <2>1. sample \subseteq CompletedIn(frozen)
    BY <1>2 DEF Sampled
  <2>2. \A s \in CompletedIn(frozen) : s \in CompletedIn(inventory)
    BY <1>5, <1>6 DEF CompletedIn
  <2> QED
    BY <1>2, <2>1, <2>2 DEF Selects
<1>9. CASE Newly(inventory) = {}
  <2>1. inventory.rows \in [Session -> Row] /\ frozen.rows \in [Session -> Row]
        /\ e.temporal \in [Session -> Promotion \cup {Absent}] /\ d.temporal \in [Session -> Promotion \cup {Absent}]
    BY <1>1, <1>2 DEF Catalog, Evidence
  <2>2. inventory.rows = frozen.rows /\ e.temporal = d.temporal
    BY <1>5, <1>9, <2>1
  <2> QED
    BY <1>8, <2>2 DEF Unchanged, Validated
<1>10. CASE Newly(inventory) # {}
  <2>1. StrictGrowth(inventory)
    BY <1>4, <1>6, <1>7, <1>10 DEF StrictGrowth
  <2>2. Uncovered(inventory) \subseteq Newly(inventory) \cup Pinless
    <3> SUFFICES ASSUME NEW s \in CompletedIn(inventory), s \notin Newly(inventory), s \notin Pinless
                 PROVE  Covered(s)
      BY DEF Uncovered
    <3>1. s \in CompletedIn(frozen)
      BY <1>5 DEF CompletedIn
    <3> QED
      BY <1>2, <3>1, SamplesCover
  <2> QED
    BY <1>8, <2>1, <2>2
<1> QED
  BY <1>9, <1>10

LEMMA CompletionInvariant == CompletionSpec => []CompletionInv
  BY CompletionStarts, CompletionSteps, PTL DEF CompletionSpec

(* What a ready catalog counts as completed was run and finalised, for every *)
(* feed and whenever it was captured.                                       *)
THEOREM CompletedSessionsAreOver == CompletionSpec => []CompletedIsOver
  BY CompletionInvariant, ReadyIsOver, PTL

(* A ready catalog that nothing was replaced under is what the evidence     *)
(* beside it says today.                                                    *)
THEOREM ReadyCatalogsAreCurrent == CompletionSpec => []ReadyIsCurrent
  BY CompletionInvariant, ReadyIsOfToday, PTL

(* Of the same sources, every later ready catalog is the frozen one, grown   *)
(* by nothing but newly proved sessions, and the plan's sample holds good of *)
(* it - unless one of these, or one that nothing pins, lacks a sample.       *)
THEOREM PlansOutliveGrowth == CompletionSpec => []PlanOutlivesGrowth
  BY CompletionInvariant, PlansGrow, PTL
===============================================================================
