-------------------------------- MODULE Playback --------------------------------
(***************************************************************************)
(* The replay page's clock (apps/web/src/features/replay/                  *)
(* useReplayController.ts) and the race state it shows for it              *)
(* (useRaceSnapshot.ts).                                                   *)
(*                                                                         *)
(* What the user does is rendered and followed by its effects at once;     *)
(* what a frame, a response or the document sets is rendered later         *)
(* (Commit), and the effects of that run later still (Effects).  The refs  *)
(* are written by handlers, frames and effects, whichever runs.            *)
(***************************************************************************)
EXTENDS Integers

CONSTANTS
    End,           \* maximumMs; minimumMs is 0
    MaxActs,       \* how often the user or the document acts, or a read fails
    Nothing

ASSUME PlaybackAssumption == End \in Nat /\ MaxActs \in Nat /\ Nothing \notin Int

VARIABLES
    view,          \* as rendered: cursorMs, authoritativeCursorMs, isPlaying, the snapshot
    pend,          \* what has been set and not rendered
    due,           \* a render whose effects have not run
    ran,           \* what the effects ran with last
    ref,           \* cursorRef, playingRef, target
    frame,         \* an animation frame has been asked for
    read,          \* the snapshot's read in flight, or its timer
    scrubbing,     \* pointerScrubbing
    hidden, acts

playVars == <<view, pend, due, ran, ref, frame, read, scrubbing, hidden, acts>>

Clock == 0..End
Clamp(n) == IF n > End THEN End ELSE n
Unset == [cur |-> Nothing, auth |-> Nothing, play |-> Nothing, snap |-> Nothing]
\* v with what p sets
With(v, p) == [f \in DOMAIN v |-> IF p[f] = Nothing THEN v[f] ELSE p[f]]

\* useRaceSnapshot: the key of a read, and what is shown of its outcome.
Key(v) == <<v.play, IF v.play THEN Nothing ELSE v.auth>>
Read(v, target) == [key |-> Key(v), at |-> target]
Shown(v) ==
    IF v.snap.key = Key(v) /\ v.snap.at # Nothing /\ v.snap.at <= v.auth /\ (v.play \/ v.snap.at = v.auth)
    THEN v.snap.at ELSE Nothing
Failed(v) == v.snap.key = Key(v) /\ v.snap.at = Nothing

PlayInit ==
    /\ \E c \in Clock :
        /\ view = [cur |-> c, auth |-> c, play |-> FALSE, snap |-> [key |-> Nothing, at |-> Nothing]]
        /\ ref = [cur |-> c, play |-> FALSE, target |-> c]
    /\ ran = view /\ read = Read(view, view.auth)
    /\ pend = Unset /\ due = FALSE /\ frame = FALSE /\ scrubbing = FALSE /\ hidden = FALSE /\ acts = 0

\* The effects of a render v that followed `from', on r: only those whose dependencies changed.
MutAfter(from, v, r) ==
    [cur |-> IF v.cur # from.cur THEN v.cur ELSE r.cur,
     play |-> IF v.play # from.play THEN v.play ELSE r.play,
     target |-> IF v.auth # from.auth THEN v.auth ELSE r.target,
     frame |-> IF v.play # from.play THEN v.play ELSE r.frame,
     read |-> IF v.play # from.play THEN Read(v, v.auth) ELSE r.read]
After(from, v, r) ==
    [cur |-> IF v.cur # from.cur THEN v.cur ELSE r.cur,
     play |-> IF v.play # from.play THEN v.play ELSE r.play,
     target |-> IF v.auth # from.auth THEN v.auth ELSE r.target,
     frame |-> IF v.play # from.play THEN v.play ELSE r.frame,
     read |-> IF Key(v) # Key(from) \/ v.play # from.play THEN Read(v, v.auth) ELSE r.read]
Refs == [cur |-> ref.cur, play |-> ref.play, target |-> ref.target, frame |-> frame, read |-> read]
Set(r) ==
    /\ ref' = [cur |-> r.cur, play |-> r.play, target |-> r.target]
    /\ frame' = r.frame /\ read' = r.read

Commit ==
    /\ pend # Unset /\ ~ due
    /\ view' = With(view, pend) /\ pend' = Unset /\ due' = TRUE
    /\ UNCHANGED <<ran, ref, frame, read, scrubbing, hidden, acts>>

Effects ==
    /\ due /\ due' = FALSE
    /\ Set(After(ran, view, Refs)) /\ ran' = view
    /\ UNCHANGED <<view, pend, scrubbing, hidden, acts>>

\* tick; whether STATE_RECONCILE_MS have passed is left open.
Tick ==
    /\ frame /\ ~ hidden
    /\ LET next == Clamp(ref.cur + 1)
           over == next >= End
       IN /\ ref' = [ref EXCEPT !.cur = next]
          /\ \E reconcile \in BOOLEAN :
                pend' = [pend EXCEPT !.cur = next,
                                     !.auth = IF reconcile \/ over THEN next ELSE @,
                                     !.play = IF over THEN FALSE ELSE @]
          /\ frame' = ~ over
    /\ UNCHANGED <<view, due, ran, read, scrubbing, hidden, acts>>

--------------------------------------------------------------------------------
\* A handler set `set' and left the refs at r: what is due runs, then all of this at once.
\* What it set comes after what was pending.
Handled(set, r) ==
    LET v == With(view, set)
    IN /\ acts < MaxActs /\ acts' = acts + 1
       /\ view' = v /\ due' = FALSE
       /\ pend' = [f \in DOMAIN pend |-> IF set[f] = Nothing THEN pend[f] ELSE Nothing]
       /\ Set(After(view, v, After(ran, view, r))) /\ ran' = v
       /\ UNCHANGED hidden

\* seek, as the slider's handleChange and everything else calls it
Seek(n) ==
    /\ Handled([Unset EXCEPT !.cur = n, !.auth = IF scrubbing THEN Nothing ELSE n], [Refs EXCEPT !.cur = n])
    /\ UNCHANGED scrubbing
\* handleRelease, on blur too
Release == Handled([Unset EXCEPT !.auth = ref.cur], Refs) /\ scrubbing' = FALSE
TogglePlaying ==
    LET playing == ~ ref.play
    IN /\ Handled([Unset EXCEPT !.play = playing, !.auth = IF playing THEN Nothing ELSE ref.cur],
                  [Refs EXCEPT !.play = playing])
       /\ UNCHANGED scrubbing
\* handlePointerDown: beginScrub
PointerDown == Handled([Unset EXCEPT !.play = FALSE, !.auth = ref.cur], Refs) /\ scrubbing' = TRUE

\* onVisibilityChange; no frame comes while the document is hidden.
Hide ==
    /\ ~ hidden /\ acts < MaxActs
    /\ hidden' = TRUE /\ acts' = acts + 1
    /\ pend' = IF ref.play THEN [pend EXCEPT !.play = FALSE, !.auth = ref.cur] ELSE pend
    /\ UNCHANGED <<view, due, ran, ref, frame, read, scrubbing>>
Reveal ==
    /\ hidden /\ hidden' = FALSE
    /\ UNCHANGED <<view, pend, due, ran, ref, frame, read, scrubbing, acts>>

--------------------------------------------------------------------------------
\* read(): the state at the time asked for, dropped when the target has moved back before it;
\* while playing, a timer until the next.
Response ==
    /\ read # Nothing /\ read.at # Nothing
    /\ pend' = IF read.at <= ref.target THEN [pend EXCEPT !.snap = read] ELSE pend
    /\ read' = IF ran.play THEN [read EXCEPT !.at = Nothing] ELSE Nothing
    /\ UNCHANGED <<view, due, ran, ref, frame, scrubbing, hidden, acts>>
\* The timer fires.
Again ==
    /\ read # Nothing /\ read.at = Nothing
    /\ read' = [read EXCEPT !.at = ref.target]
    /\ UNCHANGED <<view, pend, due, ran, ref, frame, scrubbing, hidden, acts>>
Failure ==
    /\ read # Nothing /\ read.at # Nothing /\ acts < MaxActs
    /\ pend' = [pend EXCEPT !.snap = [key |-> read.key, at |-> Nothing]]
    /\ read' = Nothing /\ acts' = acts + 1
    /\ UNCHANGED <<view, due, ran, ref, frame, scrubbing, hidden>>

Page == Commit \/ Effects \/ Tick \/ Response \/ Again \/ Reveal
User ==
    \/ \E n \in Clock : Seek(n)
    \/ Release \/ TogglePlaying \/ PointerDown \/ Hide \/ Failure
PlayNext == Page \/ User
PlayFairness ==
    /\ WF_playVars(Commit) /\ WF_playVars(Effects) /\ WF_playVars(Tick)
    /\ WF_playVars(Response) /\ WF_playVars(Again) /\ WF_playVars(Reveal)

(* Playing ends, and when it has the page shows the state at the cursor it *)
(* asked for, or that it failed: no response, frame, render or effect that *)
(* comes late leaves it without.                                           *)
PausedShowsState == <>[](~ view.play /\ (Shown(view) = view.auth \/ Failed(view)))
=================================================================================
