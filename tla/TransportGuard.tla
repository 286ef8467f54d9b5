---------------------------- MODULE TransportGuard ----------------------------
(***************************************************************************)
(* The guard around FastF1's transport (detailed/provider_guard.py): while *)
(* an operation loads a session, every request below the provider's cache  *)
(* waits for a durable budget, its answer is observed, and a denial or an  *)
(* answer that could not be observed ends the operation - although FastF1  *)
(* catches what a request raises and goes on with what it has.             *)
(*                                                                         *)
(* One operation at a time, as the worker lock has it (Acquisition).       *)
(***************************************************************************)
EXTENDS RequestBudget

CONSTANTS
    GuardPolicy,              \* 450 requests in 3600 s
    MaxHours, MaxAnswers      \* bounds of the checked instance

ASSUME GuardAssumption == GuardPolicy \in Policy

VARIABLES
    hours,              \* time
    guardBudget,        \* runtime/fastf1-budget.json
    loading,            \* the operation: where it is
    denied, unobserved, \* the guard: a denial, a failed observation
    answers, rejection  \* history: answers of this operation; time of the last native rejection

guardVars == <<hours, guardBudget, loading, denied, unobserved, answers, rejection>>

GuardInit ==
    /\ hours = 0 /\ guardBudget = Unused
    /\ loading = "off" /\ denied = FALSE /\ unobserved = FALSE
    /\ answers = <<>> /\ rejection = - GuardPolicy.interval

Moves(from, to) == loading \in from /\ loading' = to
Latched == denied \/ unobserved

(* guarded_transport, fastf1_guard *)
OpenGuard ==
    /\ Moves({"off", "done", "failed"}, "loading")
    /\ denied' = FALSE /\ unobserved' = FALSE /\ answers' = <<>>
    /\ UNCHANGED <<hours, guardBudget, rejection>>

(* send: a request, by a loader that may have swallowed what the last one   *)
(* raised.                                                                  *)
MutUnlatched == ~ denied
Unlatched == ~ Latched
GuardAsks ==
    /\ Moves({"loading"}, "waiting")
    /\ Unlatched
    /\ UNCHANGED <<hours, guardBudget, denied, unobserved, answers, rejection>>

Paced ==
    /\ Moves({"waiting"}, "sending")
    /\ Delay(guardBudget, GuardPolicy, hours) = 0
    /\ guardBudget' = Reserved(guardBudget, GuardPolicy, hours)
    /\ UNCHANGED <<hours, denied, unobserved, answers, rejection>>

(* The answer: a denial; one the observer fails on, or whose body is cut    *)
(* short; one that a later hook or a redirect fails on; or a good one.      *)
Receive(answer) ==
    /\ Moves({"sending"}, "loading")
    /\ Len(answers) < MaxAnswers
    /\ answers' = Append(answers, answer)
    /\ denied' = (denied \/ answer = "denied")
    /\ unobserved' = (unobserved \/ answer \in {"unobserved", "later"})
    /\ UNCHANGED <<hours, guardBudget, rejection>>

(* FastF1's own limiter refuses: a full cooldown, for every worker.         *)
NativeRejection ==
    /\ Moves({"sending"}, "loading")
    /\ guardBudget' = Deferred(guardBudget, hours + GuardPolicy.interval)
    /\ rejection' = hours
    /\ UNCHANGED <<hours, denied, unobserved, answers>>

(* No answer at all is an error of the request only.                        *)
GuardUnanswered ==
    /\ Moves({"sending"}, "loading")
    /\ UNCHANGED <<hours, guardBudget, denied, unobserved, answers, rejection>>

(* The end of the load, whole as the loader sees it.                        *)
EndGuard ==
    /\ Moves({"loading"}, IF Latched THEN "failed" ELSE "done")
    /\ UNCHANGED <<hours, guardBudget, denied, unobserved, answers, rejection>>

(* An error of the load, or the death of the process.                      *)
GuardDies ==
    /\ Moves({"loading", "waiting", "sending"}, "off")
    /\ UNCHANGED <<hours, guardBudget, denied, unobserved, answers, rejection>>

Hour ==
    /\ hours < MaxHours /\ hours' = hours + 1
    /\ UNCHANGED <<guardBudget, loading, denied, unobserved, answers, rejection>>

GuardNext ==
    \/ OpenGuard \/ GuardAsks \/ Paced \/ NativeRejection \/ GuardUnanswered \/ EndGuard
    \/ (\E answer \in {"good", "denied", "unobserved", "later"} : Receive(answer))
    \/ GuardDies \/ Hour

(* Whatever the loader swallows: an operation is done only if each of its   *)
(* answers was good, nothing is asked after one that was not, and nothing   *)
(* is sent, by this worker or the next, within the interval after FastF1's  *)
(* own limiter refused a request.                                           *)
GuardKept ==
    /\ \A i \in DOMAIN answers :
        answers[i] # "good" => i = Len(answers) /\ loading \notin {"done", "waiting", "sending"}
    /\ loading = "sending" => hours >= rejection + GuardPolicy.interval
===============================================================================
