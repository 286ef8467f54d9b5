---------------------------- MODULE CorpusPromise ----------------------------
(***************************************************************************)
(* What the production corpus promises for one session: it gathers copies  *)
(* of the captured data, archives the session losslessly, serves it, and   *)
(* discards a copy only while the archive is intact and served.            *)
(***************************************************************************)
CONSTANT Copy

VARIABLES
    copies,    \* complete copies on disk besides the archive
    archive,   \* raw bundle and canonical revision together
    served     \* readers see the revision

vars == <<copies, archive, served>>

Init == copies \subseteq Copy /\ archive = "none" /\ ~ served

Gather(c) == copies' = copies \cup {c} /\ UNCHANGED <<archive, served>>

(* An artifact may already have gone bad when the second one is published. *)
Archive == archive = "none" /\ archive' \in {"intact", "damaged"} /\ UNCHANGED <<copies, served>>

Decay == archive = "intact" /\ archive' = "damaged" /\ UNCHANGED <<copies, served>>

Serve == archive # "none" /\ served' /\ UNCHANGED <<copies, archive>>

Discard(c) ==
    /\ archive = "intact" /\ served
    /\ copies' = copies \ {c}
    /\ UNCHANGED <<archive, served>>

Next == Archive \/ Decay \/ Serve \/ \E c \in Copy : Gather(c) \/ Discard(c)

Spec == Init /\ [][Next]_vars
=============================================================================
