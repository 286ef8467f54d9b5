---------------------------- MODULE OpenF1Client ----------------------------
(***************************************************************************)
(* The owned OpenF1 transport (detailed/openf1_transport.py): one worker   *)
(* at a time fetches historical data within two durable budgets, a request *)
(* limit per minute and a spacing between requests.  Every request is      *)
(* reserved, recorded as pending, sent, and then anchored to the time it   *)
(* was really sent, with durable writes of their own in between, so that a *)
(* crash anywhere, or the next worker after it, cannot gain a request.     *)
(*                                                                         *)
(* `real` is elapsed time; the code reads `wall`, which may be set back.   *)
(***************************************************************************)
EXTENDS RequestBudget

CONSTANTS
    Client,         \* OpenF1Client objects, each in a process of its own
    NoOne,          \* no worker owns the data root
    MinutePolicy, SpacingPolicy,
    Cooldown,       \* 60 s: the least a recovery or a 429 waits
    RetryAfter,     \* the Retry-After delays a provider may ask for
    MaxWait,        \* MAX_OPERATION_WAIT of one fetch
    MaxReal, MaxBack, MaxCrashes   \* bounds of the checked instance

ASSUME ClientAssumption ==
    /\ NoOne \notin Client
    /\ MinutePolicy \in Policy /\ SpacingPolicy \in Policy
    /\ SpacingPolicy.limit = 1
    /\ Cooldown \in Nat /\ Cooldown >= MinutePolicy.interval
    /\ Cooldown >= SpacingPolicy.interval
    /\ RetryAfter \subseteq Nat /\ \A d \in RetryAfter : d >= Cooldown
    /\ MaxWait \in Nat
    /\ MaxReal \in Nat /\ MaxBack \in Nat /\ MaxCrashes \in Nat

VARIABLES
    real, wall, back, crashes,   \* time, and how often the environment acted
    minute, spacing,             \* the two budget files
    pending,                     \* openf1-pending-attempt.json: reserved_at, if any
    owner,                       \* the client holding the worker lock
    latch,                       \* _denied and _failure of each client
    last,                        \* last_request of each client, on the real clock
    pc, attempt, waited, wake,   \* the owner's fetch: where, which try, its pauses
    reservedAt, sentAt,
    until,                       \* the cooldown being written
    next,                        \* where the fetch goes after _finish_attempt
    sends,                       \* history: real times of the requests sent
    quiet                        \* history: real time a persisted 429 asks to wait for

time == <<real, wall, back>>
durable == <<minute, spacing, pending>>
try == <<attempt, waited, wake, reservedAt, sentAt, until, next>>
history == <<sends, quiet>>
vars == <<time, crashes, durable, owner, latch, last, pc, try, history>>

Init ==
    /\ real = 0 /\ wall = 0 /\ back = 0 /\ crashes = 0
    /\ minute = Unused /\ spacing = Unused
    /\ pending = {}
    /\ owner = NoOne
    /\ latch = [c \in Client |-> "none"]
    /\ last = [c \in Client |-> -SpacingPolicy.interval]
    /\ pc = "idle"
    /\ attempt = 0 /\ waited = 0 /\ wake = 0
    /\ reservedAt = 0 /\ sentAt = 0 /\ until = 0
    /\ next = "ready"
    /\ sends = <<>>
    /\ quiet = 0

Latch(reason) == latch' = [latch EXCEPT ![owner] = reason]

(* The fetch is over: its locals are gone. *)
Forget ==
    /\ attempt' = 0 /\ waited' = 0 /\ wake' = 0
    /\ reservedAt' = 0 /\ sentAt' = 0 /\ until' = 0 /\ next' = "ready"

(* An exception leaves fetch, or the recovery, without touching a file. *)
Abort(place) == pc' = place /\ Forget /\ UNCHANGED <<time, crashes, durable, last, history>>

-----------------------------------------------------------------------------
(* A new client object: nothing latched, no request made. *)
Construct(c) ==
    /\ owner # c
    /\ latch' = [latch EXCEPT ![c] = "none"]
    /\ last' = [last EXCEPT ![c] = -SpacingPolicy.interval]
    /\ UNCHANGED <<time, crashes, durable, owner, pc, try, history>>

(* __enter__: take the worker lock, recover an attempt a crash left.        *)
Enter(c) ==
    /\ owner = NoOne
    /\ latch[c] = "none"
    /\ owner' = c
    /\ pc' = "recover"
    /\ UNCHANGED <<time, crashes, durable, latch, last, try, history>>

(* The pending attempt must have its reservation in both budgets. *)
Recoverable ==
    \A r \in pending :
        /\ r <= wall
        /\ \A bp \in {<<minute, MinutePolicy>>, <<spacing, SpacingPolicy>>} :
            /\ ~ ClockWentBack(bp[1], bp[2], wall)
            /\ \E i \in DOMAIN bp[1].stamps : bp[1].stamps[i] >= r

MutRecoverAtOnce ==
    /\ pc = "recover"
    /\ Recoverable
    /\ IF pending = {} THEN pc' = "ready" /\ UNCHANGED until
       ELSE pc' = "forget" /\ until' = wall + Cooldown
    /\ UNCHANGED <<time, crashes, durable, owner, latch, last,
                   attempt, waited, wake, reservedAt, sentAt, next, history>>

Recover ==
    /\ pc = "recover"
    /\ Recoverable
    /\ IF pending = {} THEN pc' = "ready" /\ UNCHANGED until
       ELSE pc' = "deferMinute" /\ until' = wall + Cooldown
    /\ UNCHANGED <<time, crashes, durable, owner, latch, last,
                   attempt, waited, wake, reservedAt, sentAt, next, history>>

(* Refused, or a runtime write failed: the client is latched and leaves. *)
RecoverFails ==
    /\ \/ pc = "recover" /\ ~ Recoverable
       \/ pc \in {"deferMinute", "deferSpacing", "forget"}
    /\ Latch("failed")
    /\ owner' = NoOne
    /\ Abort("idle")

DeferMinute ==
    /\ pc = "deferMinute"
    /\ minute' = Deferred(minute, until)
    /\ pc' = "deferSpacing"
    /\ UNCHANGED <<time, crashes, spacing, pending, owner, latch, last, try, history>>

DeferSpacing ==
    /\ pc = "deferSpacing"
    /\ spacing' = Deferred(spacing, until)
    /\ pc' = "forget"
    /\ UNCHANGED <<time, crashes, minute, pending, owner, latch, last, try, history>>

ForgetPending ==
    /\ pc = "forget"
    /\ pending' = {}
    /\ pc' = "ready"
    /\ Forget
    /\ UNCHANGED <<time, crashes, minute, spacing, owner, latch, last, history>>

Exit ==
    /\ pc = "ready"
    /\ owner' = NoOne
    /\ UNCHANGED latch
    /\ Abort("idle")

-----------------------------------------------------------------------------
(* fetch: wait until both budgets and the in-process spacing allow it.      *)

Fetch ==
    /\ pc = "ready"
    /\ latch[owner] = "none"
    /\ pc' = "probe"
    /\ UNCHANGED <<time, crashes, durable, owner, latch, last, try, history>>

LocalDelay == Larger(0, SpacingPolicy.interval - (real - last[owner]))

TotalDelay ==
    Larger(LocalDelay,
           Larger(Delay(minute, MinutePolicy, wall), Delay(spacing, SpacingPolicy, wall)))

BudgetsReadable ==
    ~ ClockWentBack(minute, MinutePolicy, wall) /\ ~ ClockWentBack(spacing, SpacingPolicy, wall)

(* _pause: refused when the operation has waited too long already. *)
Sleep(delay, place) ==
    /\ delay <= MaxWait - waited
    /\ waited' = waited + delay
    /\ wake' = real + delay
    /\ pc' = place

Wait ==
    /\ pc = "probe"
    /\ BudgetsReadable /\ TotalDelay > 0
    /\ Sleep(TotalDelay, "pause")
    /\ UNCHANGED <<time, crashes, durable, owner, latch, last,
                   attempt, reservedAt, sentAt, until, next, history>>

Wake ==
    /\ pc = "pause"
    /\ real >= wake
    /\ wake' = 0
    /\ pc' = "probe"
    /\ UNCHANGED <<time, crashes, durable, owner, latch, last,
                   attempt, waited, reservedAt, sentAt, until, next, history>>

(* The clock went back, the wait is too long, or the caller's check or the  *)
(* disk guard refuses: an error, but the client may fetch again.            *)
GiveUp ==
    /\ pc \in {"probe", "pause"}
    /\ UNCHANGED <<owner, latch>>
    /\ Abort("ready")

Allowed ==
    /\ pc = "probe"
    /\ BudgetsReadable /\ TotalDelay = 0
    /\ reservedAt' = wall
    /\ pc' = "reserveMinute"
    /\ UNCHANGED <<time, crashes, durable, owner, latch, last,
                   attempt, waited, wake, sentAt, until, next, history>>

ReserveMinute ==
    /\ pc = "reserveMinute"
    /\ minute' = Reserved(minute, MinutePolicy, reservedAt)
    /\ pc' = "reserveSpacing"
    /\ UNCHANGED <<time, crashes, spacing, pending, owner, latch, last, try, history>>

MutReserveSpacingTwice ==
    /\ pc = "reserveSpacing"
    /\ minute' = Reserved(minute, MinutePolicy, reservedAt)
    /\ pc' = "begin"
    /\ UNCHANGED <<time, crashes, spacing, pending, owner, latch, last, try, history>>

ReserveSpacing ==
    /\ pc = "reserveSpacing"
    /\ spacing' = Reserved(spacing, SpacingPolicy, reservedAt)
    /\ pc' = "begin"
    /\ UNCHANGED <<time, crashes, minute, pending, owner, latch, last, try, history>>

(* _begin_attempt: the intent is durable before the request leaves. *)
Begin ==
    /\ pc = "begin"
    /\ pending = {}
    /\ pending' = {reservedAt}
    /\ pc' = "send"
    /\ UNCHANGED <<time, crashes, minute, spacing, owner, latch, last, try, history>>

(* A reservation or the intent cannot be written: latched, slots wasted. *)
OwnedWriteFails ==
    /\ pc \in {"reserveMinute", "reserveSpacing", "begin"}
    /\ Latch("failed")
    /\ UNCHANGED owner
    /\ Abort("ready")

Send ==
    /\ pc = "send"
    /\ last' = [last EXCEPT ![owner] = real]
    /\ sentAt' = wall
    /\ sends' = Append(sends, real)
    /\ pc' = "answer"
    /\ UNCHANGED <<time, crashes, durable, owner, latch,
                   attempt, waited, wake, reservedAt, until, next, quiet>>

-----------------------------------------------------------------------------
(* The answer, and _finish_attempt on every path out of it.                 *)

Finish(place) == pc' = "anchorMinute" /\ next' = place

(* 200, or a 404 that the caller may treat as missing data. *)
Answered ==
    /\ pc = "answer"
    /\ Finish("ready")
    /\ UNCHANGED <<time, crashes, durable, owner, latch, last,
                   attempt, waited, wake, reservedAt, sentAt, until, history>>

(* 401 and 403 deny, every other failure latches the client too. *)
Refused(reason) ==
    /\ pc = "answer"
    /\ Latch(reason)
    /\ Finish("ready")
    /\ UNCHANGED <<time, crashes, durable, owner, last,
                   attempt, waited, wake, reservedAt, sentAt, until, history>>

RateLimited(delay) ==
    /\ pc = "answer"
    /\ until' = wall + delay
    /\ pc' = "coolMinute"
    /\ UNCHANGED <<time, crashes, durable, owner, latch, last,
                   attempt, waited, wake, reservedAt, sentAt, next, history>>

CoolMinute ==
    /\ pc = "coolMinute"
    /\ minute' = Deferred(minute, until)
    /\ quiet' = Larger(quiet, real + (until - wall))
    /\ pc' = "coolSpacing"
    /\ UNCHANGED <<time, crashes, spacing, pending, owner, latch, last, try, sends>>

CoolSpacing ==
    /\ pc = "coolSpacing"
    /\ spacing' = Deferred(spacing, until)
    /\ pc' = "retry"
    /\ UNCHANGED <<time, crashes, minute, pending, owner, latch, last, try, history>>

(* The first two 429s are retried after the cooldown; the attempt is        *)
(* anchored only after that pause.                                          *)
BackOff ==
    /\ pc = "retry"
    /\ attempt < 2
    /\ Sleep(Larger(0, until - wall), "backoff")
    /\ UNCHANGED <<time, crashes, durable, owner, latch, last,
                   attempt, reservedAt, sentAt, until, next, history>>

BackedOff ==
    /\ pc = "backoff"
    /\ real >= wake
    /\ Finish("probe")
    /\ UNCHANGED <<time, crashes, durable, owner, latch, last,
                   attempt, waited, wake, reservedAt, sentAt, until, history>>

(* The third 429, too long a cooldown, or a failure while handling it. *)
RetryFails ==
    /\ pc \in {"coolMinute", "coolSpacing", "retry", "backoff"}
    /\ Latch("failed")
    /\ Finish("ready")
    /\ UNCHANGED <<time, crashes, durable, owner, last,
                   attempt, waited, wake, reservedAt, sentAt, until, history>>

(* What _finish_attempt demands of a budget before it replaces the          *)
(* reservation by the time the request was really sent.                     *)
Anchorable(b, policy) ==
    /\ pending = {reservedAt}
    /\ sentAt >= reservedAt
    /\ ~ ClockWentBack(b, policy, sentAt)
    /\ b.stamps # <<>> /\ b.stamps[Len(b.stamps)] \in {reservedAt, sentAt}

Anchored(b) == [b EXCEPT !.stamps[Len(b.stamps)] = sentAt]

AnchorMinute ==
    /\ pc = "anchorMinute"
    /\ Anchorable(minute, MinutePolicy)
    /\ minute' = Anchored(minute)
    /\ pc' = "anchorSpacing"
    /\ UNCHANGED <<time, crashes, spacing, pending, owner, latch, last, try, history>>

AnchorSpacing ==
    /\ pc = "anchorSpacing"
    /\ Anchorable(spacing, SpacingPolicy)
    /\ spacing' = Anchored(spacing)
    /\ pc' = "clear"
    /\ UNCHANGED <<time, crashes, minute, pending, owner, latch, last, try, history>>

(* _clear_pending, then the next try or the end of the fetch. *)
Clear ==
    /\ pc = "clear"
    /\ pending' = {}
    /\ pc' = next
    /\ IF next = "probe"
       THEN /\ attempt' = attempt + 1
            /\ UNCHANGED waited
       ELSE attempt' = 0 /\ waited' = 0
    /\ wake' = 0 /\ reservedAt' = 0 /\ sentAt' = 0 /\ until' = 0 /\ next' = "ready"
    /\ UNCHANGED <<time, crashes, minute, spacing, owner, latch, last, history>>

(* The clock went back since the reservation, or a write failed: latched,   *)
(* and the pending attempt is left to the next worker's recovery.           *)
AnchorFails ==
    /\ pc \in {"anchorMinute", "anchorSpacing", "clear"}
    /\ latch' = [latch EXCEPT ![owner] = IF @ = "none" THEN "failed" ELSE @]
    /\ UNCHANGED owner
    /\ Abort("ready")

-----------------------------------------------------------------------------
(* The environment. *)

Tick ==
    /\ real < MaxReal
    /\ real' = real + 1
    /\ wall' = wall + 1
    /\ UNCHANGED <<back, crashes, durable, owner, latch, last, pc, try, history>>

(* The wall clock is set back. *)
SetBack ==
    /\ back < MaxBack
    /\ wall > 0
    /\ back' = back + 1
    /\ wall' = wall - 1
    /\ UNCHANGED <<real, crashes, durable, owner, latch, last, pc, try, history>>

(* The owner dies; the system drops its lock, a new client may take over.  *)
Crash ==
    /\ owner # NoOne
    /\ crashes < MaxCrashes
    /\ crashes' = crashes + 1
    /\ owner' = NoOne
    /\ latch' = [latch EXCEPT ![owner] = "none"]
    /\ last' = [last EXCEPT ![owner] = -SpacingPolicy.interval]
    /\ pc' = "idle"
    /\ Forget
    /\ UNCHANGED <<time, durable, history>>

Next ==
    \/ \E c \in Client : Construct(c) \/ Enter(c)
    \/ Recover \/ RecoverFails \/ DeferMinute \/ DeferSpacing \/ ForgetPending \/ Exit
    \/ Fetch \/ Wait \/ Wake \/ GiveUp \/ Allowed
    \/ ReserveMinute \/ ReserveSpacing \/ Begin \/ OwnedWriteFails \/ Send
    \/ Answered \/ (\E reason \in {"denied", "failed"} : Refused(reason))
    \/ (\E delay \in RetryAfter : RateLimited(delay))
    \/ CoolMinute \/ CoolSpacing \/ BackOff \/ BackedOff \/ RetryFails
    \/ AnchorMinute \/ AnchorSpacing \/ Clear \/ AnchorFails
    \/ Tick \/ SetBack \/ Crash

Spec == Init /\ [][Next]_vars

-----------------------------------------------------------------------------
(* "A crash may waste a slot but cannot gain one": measured on the real     *)
(* clock, and whatever crashes, restarts, failed writes and clock changes   *)
(* come in between, requests keep their spacing and no interval ever holds  *)
(* more of them than the limit.                                             *)
RequestsSpaced ==
    \A p \in {MinutePolicy, SpacingPolicy} :
        \A i \in 1..(Len(sends) - p.limit) :
            sends[i + p.limit] - sends[i] >= p.interval

(* A 429 whose cooldown reached the disk is honoured in full, by this       *)
(* client, by the one after a crash, and when a recovery adds its own       *)
(* shorter cooldown; a client that was denied, or failed in any way that    *)
(* latches it, sends nothing more, in its retry loop or entered again.      *)
Heeded == pc = "send" => real >= quiet /\ latch[owner] = "none"
WithinBudget == RequestsSpaced /\ Heeded

(* A request is on the wire only under a recorded intent, an intent left by *)
(* a crash always finds its reservation in both budgets, and the histories  *)
(* stay in order: recovery is never refused for what the client wrote.      *)
IntentCovered ==
    /\ pc \in {"send", "answer", "coolMinute", "coolSpacing", "retry", "backoff",
               "anchorMinute", "anchorSpacing", "clear"} => pending = {reservedAt}
    /\ \A r \in pending, b \in {minute, spacing} :
        \E i \in DOMAIN b.stamps : b.stamps[i] >= r
    /\ InOrder(minute) /\ InOrder(spacing)
=============================================================================
