--------------------------- MODULE RequestBudget ----------------------------
(***************************************************************************)
(* The durable request budget of detailed/rate_budget.py: a history of     *)
(* request timestamps and a cooldown, kept in one file that is replaced    *)
(* atomically.  A policy allows `limit` requests in any `interval`.        *)
(* A history is written in time order and stays so (IntentCovered checks   *)
(* it), so that sorted() is the identity on it and what is retained of it  *)
(* is its end.                                                             *)
(***************************************************************************)
EXTENDS Integers, Sequences, FiniteSets

Policy == [limit : Nat \ {0}, interval : Nat \ {0}]
Budget == [stamps : Seq(Int), notBefore : Int]

Unused == [stamps |-> <<>>, notBefore |-> 0]

InOrder(b) == \A i \in 1..(Len(b.stamps) - 1) : b.stamps[i] <= b.stamps[i + 1]

Expired(b, policy, now) == {i \in DOMAIN b.stamps : b.stamps[i] <= now - policy.interval}
Retained(b, policy, now) ==
    SubSeq(b.stamps, Cardinality(Expired(b, policy, now)) + 1, Len(b.stamps))

(* Both reserve and the probe refuse a history that lies in the future. *)
ClockWentBack(b, policy, now) ==
    LET kept == Retained(b, policy, now) IN kept # <<>> /\ kept[Len(kept)] > now

(* A full budget frees a slot when the limit-th youngest retained timestamp *)
(* leaves the interval.                                                     *)
SlotDelay(b, policy, now) ==
    LET kept == Retained(b, policy, now) IN
    IF Len(kept) < policy.limit THEN 0
    ELSE kept[Len(kept) - policy.limit + 1] + policy.interval - now

Larger(m, n) == IF m >= n THEN m ELSE n

(* How long until the budget allows a request; 0 when it does now. *)
Delay(b, policy, now) == Larger(0, Larger(b.notBefore - now, SlotDelay(b, policy, now)))

(* A reservation is written before the network attempt; it forgets the      *)
(* timestamps that have left the interval.                                  *)
Reserved(b, policy, now) == [b EXCEPT !.stamps = Append(Retained(b, policy, now), now)]

(* defer_until never shortens a cooldown. *)
Deferred(b, until) == [b EXCEPT !.notBefore = Larger(@, until)]
=============================================================================
