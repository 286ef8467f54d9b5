----------------------------- MODULE Lifecycle ------------------------------
(***************************************************************************)
(* The job checkpoint of one session (detailed/lifecycle.py): a JSON file  *)
(* that is replaced atomically, so that every operation is one step.  A    *)
(* failed job keeps its checkpoint and must be resumed before it advances. *)
(***************************************************************************)
EXTENDS Naturals, Sequences

Order == <<"DISCOVERED", "DOWNLOADING", "SOURCE_CACHED", "RAW_EVIDENCE_PUBLISHED",
           "NORMALIZING", "CANONICAL_PUBLISHED", "VALIDATED", "CACHE_RELEASED", "COMPLETE">>

Checkpoint == {Order[i] : i \in 1..Len(Order)}
Rank(checkpoint) == CHOOSE i \in 1..Len(Order) : Order[i] = checkpoint
Job == [state : Checkpoint \cup {"FAILED"}, checkpoint : Checkpoint]

(* What read() returns before there is a job file. *)
NewJob == [state |-> "DISCOVERED", checkpoint |-> "DISCOVERED"]

(* advance: one checkpoint further, or from VALIDATED past CACHE_RELEASED. *)
MayAdvance(job, checkpoint) ==
    /\ job.state # "FAILED"
    /\ \/ Rank(checkpoint) = Rank(job.checkpoint) + 1
       \/ job.checkpoint = "VALIDATED" /\ checkpoint = "COMPLETE"

Advanced(job, checkpoint) == [job EXCEPT !.state = checkpoint, !.checkpoint = checkpoint]

Failed(job) == [job EXCEPT !.state = "FAILED"]

MutResumedStaysFailed(job) == job

Resumed(job) == [job EXCEPT !.state = job.checkpoint]
=============================================================================
