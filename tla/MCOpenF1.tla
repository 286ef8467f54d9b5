------------------------------- MODULE MCOpenF1 -------------------------------
(* The OpenF1 side: the transport with its minute and spacing budgets, the   *)
(* hourly quota, and the leaf of one session; and FastF1's guard.  They share *)
(* no variable: a behaviour is of one of them, as their product would say no *)
(* more.                                                                     *)
(*                                                                           *)
(* One client object at a time, as the worker lock has it; at most two       *)
(* requests in any three ticks, one in any tick, of every quota; a recovery  *)
(* waits three ticks, a provider may ask for three or four.                  *)
EXTENDS OpenF1Client, HourlyBudget, Enrichment, TransportGuard, TLC

CONSTANTS laps, weather
VARIABLE part

MCMinutePolicy == [limit |-> 2, interval |-> 3]
MCSpacingPolicy == [limit |-> 1, interval |-> 1]
MCRetryAfter == {3, 4}
MCEndpoints == <<laps, weather>>

SumInit ==
    /\ Init /\ HourlyInit /\ EnrichmentInit /\ GuardInit
    /\ part \in {"transport", "hourly", "leaf", "guard"}
    /\ part # "leaf" => flow = "corpus"

SumNext ==
    \/ part = "transport" /\ Next /\ UNCHANGED <<hourlyVars, enrichmentVars, guardVars, part>>
    \/ part = "hourly" /\ HourlyNext /\ UNCHANGED <<vars, enrichmentVars, guardVars, part>>
    \/ part = "leaf" /\ EnrichmentNext /\ UNCHANGED <<vars, hourlyVars, guardVars, part>>
    \/ part = "guard" /\ GuardNext /\ UNCHANGED <<vars, hourlyVars, enrichmentVars, part>>

SumSpec == SumInit /\ [][SumNext]_<<vars, hourlyVars, enrichmentVars, guardVars, part>>
===============================================================================
