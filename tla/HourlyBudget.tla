----------------------------- MODULE HourlyBudget -----------------------------
(***************************************************************************)
(* The hourly quota the production client adds to the owned transport      *)
(* (detailed/corpus_openf1_transport.py): a third history and an intent of *)
(* its own around the reservations and the pending attempt of the client   *)
(* below, which are one history and one step here (OpenF1Client has them   *)
(* in full).  The first production run finds no hourly history and takes   *)
(* what the study's client left as its start.                              *)
(*                                                                         *)
(* `elapsed` is real time; the code reads `clock`, which may be set back.  *)
(***************************************************************************)
EXTENDS RequestBudget

CONSTANTS
    HourPolicy,     \* 650 requests in 3600 s
    BasePolicy,     \* what minute and spacing budget allow together
    NoFile,         \* no hourly history yet
    MaxElapsed, MaxSetbacks, MaxKills   \* bounds of the checked instance

ASSUME HourAssumption ==
    /\ HourPolicy \in Policy /\ BasePolicy \in Policy
    /\ BasePolicy.interval <= HourPolicy.interval
    /\ NoFile \notin Budget

VARIABLES
    elapsed, clock, setbacks, kills,
    base, baseTouched,    \* the client's own history, and when its file was written
    hour,                 \* corpus-openf1-hour-budget.json
    underway, intent,     \* the base's pending attempt, and the hourly one
    stage, reserved, sent,   \* the worker: where, reserved_at, sent_at
    studySends, hourSends    \* history: real times of requests

hourFiles == <<base, baseTouched, hour, underway, intent>>
hourClock == <<elapsed, clock, setbacks>>
hourlyVars == <<hourClock, kills, hourFiles, stage, reserved, sent, studySends, hourSends>>

HourlyInit ==
    /\ elapsed = 0 /\ clock = 0 /\ setbacks = 0 /\ kills = 0
    /\ base = Unused /\ baseTouched = {}
    /\ hour = NoFile /\ underway = {} /\ intent = {}
    /\ stage = "off" /\ reserved = 0 /\ sent = 0
    /\ studySends = <<>> /\ hourSends = <<>>

To(from, to) ==
    /\ stage = from /\ stage' = to
    /\ UNCHANGED <<hourClock, kills, studySends>>

Keeps(files) == UNCHANGED <<files, reserved, sent, hourSends>>

Latest(set) == CHOOSE t \in set : \A u \in set : u <= t

(* The study's client, which knows of no hourly quota, has made a request.  *)
StudyRequest ==
    /\ stage = "off" /\ hour = NoFile /\ underway = {}
    /\ ~ ClockWentBack(base, BasePolicy, clock) /\ Delay(base, BasePolicy, clock) = 0
    /\ base' = Reserved(base, BasePolicy, clock) /\ baseTouched' = {clock}
    /\ studySends' = Append(studySends, elapsed)
    /\ UNCHANGED <<hourClock, kills, hour, underway, intent, stage, reserved, sent, hourSends>>

-----------------------------------------------------------------------------
(* _recover_pending, under the worker lock. *)

EnterHourly == To("off", "recover") /\ Keeps(hourFiles)

BaseReadable == ~ ClockWentBack(base, BasePolicy, clock)
Known == {base.stamps[i] : i \in DOMAIN base.stamps} \cup baseTouched \cup underway \cup intent

FirstHistory == IF Known = {} THEN 0 ELSE Latest(Known) + HourPolicy.interval

OpenHour ==
    /\ To("recover", "check")
    /\ BaseReadable
    /\ IF hour # NoFile THEN UNCHANGED hour
       ELSE /\ \A t \in baseTouched \cup underway \cup intent : t <= clock
            /\ hour' = [Unused EXCEPT !.notBefore = FirstHistory]
    /\ Keeps(<<base, baseTouched, underway, intent>>)

(* An intent without the reservation that came before it is not believed.   *)
HourRecoverable ==
    /\ ~ ClockWentBack(hour, HourPolicy, clock)
    /\ \A r \in intent : r <= clock /\ \E i \in DOMAIN hour.stamps : hour.stamps[i] >= r
    /\ \A r \in underway : r <= clock /\ \E i \in DOMAIN base.stamps : base.stamps[i] >= r

CheckHour ==
    /\ To("check", IF underway \cup intent = {} THEN "ready" ELSE "defer")
    /\ HourRecoverable
    /\ Keeps(hourFiles)

DeferHour ==
    /\ To("defer", "recoverBase")
    /\ hour' = Deferred(hour, clock + HourPolicy.interval)
    /\ Keeps(<<base, baseTouched, underway, intent>>)

RecoverBase ==
    /\ To("recoverBase", "dropIntent")
    /\ IF underway = {} THEN UNCHANGED <<base, baseTouched>>
       ELSE base' = Deferred(base, clock + BasePolicy.interval) /\ baseTouched' = {clock}
    /\ underway' = {}
    /\ Keeps(<<hour, intent>>)

DropIntent ==
    /\ To("dropIntent", "ready")
    /\ intent' = {}
    /\ Keeps(<<base, baseTouched, hour, underway>>)

(* A history that lies in the future, or an intent not covered by one. *)
RefuseRecovery ==
    /\ \/ stage = "recover" /\ ~ BaseReadable
       \/ stage = "recover" /\ hour = NoFile
          /\ \E t \in baseTouched \cup underway \cup intent : t > clock
       \/ stage = "check" /\ ~ HourRecoverable
    /\ To(stage, "off")
    /\ Keeps(hourFiles)

-----------------------------------------------------------------------------
(* A request. *)

ReserveBase ==
    /\ To("ready", "begin")
    /\ BaseReadable /\ Delay(base, BasePolicy, clock) = 0
    /\ reserved' = clock
    /\ base' = Reserved(base, BasePolicy, clock) /\ baseTouched' = {clock}
    /\ UNCHANGED <<hour, underway, intent, sent, hourSends>>

HourReadable == ~ ClockWentBack(hour, HourPolicy, reserved)

ReserveHour ==
    /\ To("begin", "intend")
    /\ intent = {} /\ HourReadable /\ Delay(hour, HourPolicy, reserved) = 0
    /\ hour' = Reserved(hour, HourPolicy, reserved)
    /\ Keeps(<<base, baseTouched, underway, intent>>)

(* HourlyBudgetStop, or an unreadable history: latched, the base's slot is  *)
(* spent, and the operation ends.                                           *)
Exhausted ==
    /\ To("begin", "off")
    /\ ~ HourReadable \/ Delay(hour, HourPolicy, reserved) > 0
    /\ Keeps(hourFiles)

Intend ==
    /\ To("intend", "pend")
    /\ intent' = {reserved}
    /\ Keeps(<<base, baseTouched, hour, underway>>)

Pend ==
    /\ To("pend", "send")
    /\ underway' = {reserved}
    /\ Keeps(<<base, baseTouched, hour, intent>>)

SendHourly ==
    /\ To("send", "anchor")
    /\ sent' = clock
    /\ hourSends' = Append(hourSends, elapsed)
    /\ UNCHANGED <<hourFiles, reserved>>

(* _finish_attempt: the hourly reservation becomes the time of the send     *)
(* before the base may erase what a recovery would go by.                   *)
HourAnchorable ==
    /\ intent = {reserved} /\ sent >= reserved
    /\ ~ ClockWentBack(hour, HourPolicy, sent)
    /\ hour.stamps # <<>> /\ hour.stamps[Len(hour.stamps)] = reserved

MutAnchorHour ==
    /\ To("anchor", "anchorBase")
    /\ HourAnchorable
    /\ Keeps(hourFiles)

AnchorHour ==
    /\ To("anchor", "anchorBase")
    /\ HourAnchorable
    /\ hour' = [hour EXCEPT !.stamps[Len(hour.stamps)] = sent]
    /\ Keeps(<<base, baseTouched, underway, intent>>)

AnchorRefused ==
    /\ To("anchor", "off")
    /\ ~ HourAnchorable
    /\ Keeps(hourFiles)

AnchorBase ==
    /\ To("anchorBase", "clearIntent")
    /\ base' = [base EXCEPT !.stamps[Len(base.stamps)] = sent] /\ baseTouched' = {clock}
    /\ underway' = {}
    /\ Keeps(<<hour, intent>>)

ClearIntent ==
    /\ To("clearIntent", "ready")
    /\ intent' = {}
    /\ Keeps(<<base, baseTouched, hour, underway>>)

LeaveHourly == To("ready", "off") /\ Keeps(hourFiles)

-----------------------------------------------------------------------------
Elapse ==
    /\ elapsed < MaxElapsed
    /\ elapsed' = elapsed + 1 /\ clock' = clock + 1
    /\ UNCHANGED <<setbacks, kills, hourFiles, stage, reserved, sent, studySends, hourSends>>

TurnBack ==
    /\ setbacks < MaxSetbacks /\ clock > 0
    /\ setbacks' = setbacks + 1 /\ clock' = clock - 1
    /\ UNCHANGED <<elapsed, kills, hourFiles, stage, reserved, sent, studySends, hourSends>>

Kill ==
    /\ stage # "off" /\ kills < MaxKills
    /\ kills' = kills + 1
    /\ stage' = "off"
    /\ UNCHANGED <<hourClock, hourFiles, reserved, sent, studySends, hourSends>>

HourlyNext ==
    \/ StudyRequest
    \/ EnterHourly \/ OpenHour \/ CheckHour \/ DeferHour \/ RecoverBase \/ DropIntent \/ RefuseRecovery
    \/ ReserveBase \/ ReserveHour \/ Exhausted \/ Intend \/ Pend \/ SendHourly
    \/ AnchorHour \/ AnchorRefused \/ AnchorBase \/ ClearIntent \/ LeaveHourly
    \/ Elapse \/ TurnBack \/ Kill

-----------------------------------------------------------------------------
(* The hourly quota holds on the real clock whatever dies, waits or is set  *)
(* back: no hour has more production requests than the limit, counted from  *)
(* when they were sent, and none follows a request of the study within the  *)
(* hour, although the study's client kept no hourly history.                *)
HourKept ==
    /\ \A i \in 1..(Len(hourSends) - HourPolicy.limit) :
        hourSends[i + HourPolicy.limit] - hourSends[i] >= HourPolicy.interval
    /\ \A i \in DOMAIN hourSends, j \in DOMAIN studySends :
        hourSends[i] - studySends[j] >= HourPolicy.interval
===============================================================================
