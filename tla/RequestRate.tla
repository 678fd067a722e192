---------------------------- MODULE RequestRate -----------------------------
(***************************************************************************)
(* The rate limit of a client's session (client/limits.py), notified by    *)
(* HTTPEngine.throttle before each request, while other tasks do the same. *)
(* A call of notify is one step, or two when it sleeps in between.         *)
(*                                                                         *)
(* time() never gives the same value twice, and a task that sleeps goes on *)
(* at its time or later.  Times are whole numbers.                         *)
(***************************************************************************)
EXTENDS Integers, FiniteSets

CONSTANTS
    NoTime,     \* Python's None, where no time is set
    Tasks,      \* tasks that send requests, one at a time each
    Count,      \* _count: how many requests a period is to have
    Period,     \* _period
    MaxTime     \* bound: the time at which the model ends

ASSUME RateAssumption ==
    /\ IsFiniteSet(Tasks) /\ NoTime \notin Nat
    /\ Count \in Nat \ {0} /\ Period \in Nat \ {0} /\ MaxTime \in Nat

VARIABLES
    optimistic, \* does it trust the server's clock?
    now,        \* the time last read
    usage,      \* _actual_usage
    nextFlush,  \* _next_flush
    wakeAt,     \* when each task's sleep ends, or NoTime
    spent       \* history: the requests let go since _next_flush was last set

rateVars == <<optimistic, now, usage, nextFlush, wakeAt, spent>>

Sleepers == {task \in Tasks : wakeAt[task] # NoTime}

RateType ==
    /\ optimistic \in BOOLEAN
    /\ now \in Nat /\ usage \in Nat /\ spent \in Nat
    /\ nextFlush \in Nat \cup {NoTime}
    /\ wakeAt \in [Tasks -> Nat \cup {NoTime}]

NewRate ==
    /\ now = 0 /\ usage = 0 /\ nextFlush = NoTime /\ spent = 0
    /\ wakeAt = [task \in Tasks |-> NoTime]

RateInit == optimistic \in BOOLEAN /\ NewRate

-----------------------------------------------------------------------------
(* notify, at the time t that it reads.                                    *)

Times == now + 1 .. MaxTime

\* The first call, and the first after the end of the period.
BeginPeriod(t) ==
    /\ nextFlush # NoTime => t > nextFlush
    /\ nextFlush' = t + Period
    /\ usage' = 1 /\ spent' = 1
    /\ UNCHANGED wakeAt

\* Mutant of GoOn: one more than Count.
GoOnOnceMore(t) ==
    /\ nextFlush # NoTime
    /\ t <= nextFlush /\ (t < nextFlush => usage <= Count)
    /\ usage' = usage + 1 /\ spent' = spent + 1
    /\ UNCHANGED <<nextFlush, wakeAt>>

GoOn(t) ==
    /\ nextFlush # NoTime
    /\ t <= nextFlush /\ (t < nextFlush => usage < Count)
    /\ usage' = usage + 1 /\ spent' = spent + 1
    /\ UNCHANGED <<nextFlush, wakeAt>>

Sleep(task, t) ==
    /\ nextFlush # NoTime /\ t < nextFlush /\ usage >= Count
    /\ wakeAt' = [wakeAt EXCEPT ![task] = IF optimistic THEN nextFlush ELSE t + Period]
    /\ UNCHANGED <<usage, nextFlush, spent>>

Notify(task, t) ==
    /\ wakeAt[task] = NoTime
    /\ BeginPeriod(t) \/ GoOn(t) \/ Sleep(task, t)

\* After its sleep a task counts from zero again, whoever counted meanwhile.
Wake(task, t) ==
    /\ wakeAt[task] # NoTime /\ t >= wakeAt[task]
    /\ usage' = 1 /\ spent' = spent + 1
    /\ wakeAt' = [wakeAt EXCEPT ![task] = NoTime]
    /\ UNCHANGED nextFlush

RateNext ==
    \E task \in Tasks, t \in Times :
        /\ Notify(task, t) \/ Wake(task, t)
        /\ now' = t
        /\ UNCHANGED optimistic

RateSpec == RateInit /\ [][RateNext]_rateVars

-----------------------------------------------------------------------------
\* In a period, from one setting of _next_flush to the next, RequestRate lets
\* through at most Count requests and one more, times the tasks that ask: what
\* each sleeper takes from the count it does not give twice.
RateIsKept == spent <= Cardinality(Tasks) * (Count + 1)
=============================================================================
