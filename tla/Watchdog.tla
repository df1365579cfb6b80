------------------------------ MODULE Watchdog ------------------------------
(***************************************************************************)
(* The Watchdog library of cdrone (controller/Watchdog.cpp).               *)
(*                                                                         *)
(* Each watchdog is a counter (m_counts) and a limit in epochs (m_maxes, 0 *)
(* when stopped), written by the thread that owns it.  One check thread    *)
(* sleeps an epoch at a time, adds the epochs that went by to every        *)
(* counter, and kills the process when a counter is over its limit.  The   *)
(* limits are plain integers that both threads access: what the check      *)
(* thread compares with is the value it tested or a fresh one.             *)
(*                                                                         *)
(* Time is counted in ticks, Ms of them to the millisecond, because the    *)
(* check thread truncates what it measures to milliseconds.                *)
(***************************************************************************)
EXTENDS Integers

CONSTANTS
    N,         \* number of watchdogs
    Epoch,     \* EPOCH in milliseconds; 50 in the code
    Duration,  \* m_duration in milliseconds
    Ms,        \* ticks in a millisecond
    MaxGap,    \* bound: ticks from one wake of the check thread to the next
    Horizon    \* bound: ticks since a stopped watchdog's counter was zeroed

ASSUME NAssumption == N \in Nat \ {0}
ASSUME EpochAssumption == Epoch \in Nat \ {0}
ASSUME DurationAssumption == Duration \in Nat \ {0}
ASSUME MsAssumption == Ms \in Nat \ {0}
ASSUME GapAssumption == MaxGap \in Nat /\ MaxGap >= Epoch * Ms
ASSUME HorizonAssumption == Horizon \in Nat

Dogs == 1 .. N

\* The limit start() computes: the duration in epochs, rounded up.
Limit == (Duration + Epoch - 1) \div Epoch

VARIABLES
    counts,    \* m_counts
    maxes,     \* m_maxes
    owner,     \* owner[d]: what the thread of d does next, "idle" or "setMax"
    cpc,       \* the check thread: where it is,
    i,         \*   the watchdog it looks at,
    addCount,  \*   addCount,
    extra,     \*   extra, in milliseconds,
    tested,    \*   the limit it tested against zero,
    count,     \*   the counter it loaded
    since,     \* ticks since the check thread took lastTime
    slept,     \* ticks since its sleep_for began
    killed,    \* the watchdog the process was killed for, or 0
    shutdown,  \* m_shutdown
    age,       \* history: ticks since the counter was zeroed
    credit,    \* history: ticks already on the books at that moment
    prompt     \* history: no epoch came between the two stores of start()

checker == <<cpc, i, addCount, extra, tested, count>>
clock == <<since, slept, age>>
history == <<credit, prompt>>
vars == <<counts, maxes, owner, checker, clock, killed, shutdown, history>>

Alive == killed = 0

\* Epochs the check thread has measured but not yet added to counter d.
Pending(d) == IF cpc = "increment" /\ i <= d THEN addCount ELSE 0

\* The time counter d has been charged with, or will be at the next wake.
Booked(d) == Ms * (Epoch * (counts[d] + Pending(d)) + extra) + since

Init ==
    /\ counts = [d \in Dogs |-> 0] /\ maxes = [d \in Dogs |-> 0]
    /\ owner = [d \in Dogs |-> "idle"]
    /\ cpc = "sleep" /\ i = 1 /\ addCount = 0 /\ extra = 0
    /\ tested = 0 /\ count = 0
    /\ since = 0 /\ slept = 0
    /\ killed = 0 /\ shutdown = FALSE
    /\ age = [d \in Dogs |-> 0] /\ credit = [d \in Dogs |-> 0]
    /\ prompt = [d \in Dogs |-> TRUE]

-----------------------------------------------------------------------------
(* The thread that owns a watchdog.                                        *)

\* m_counts[m_id] = 0
Zero(d) ==
    /\ counts' = [counts EXCEPT ![d] = 0]
    /\ age' = [age EXCEPT ![d] = 0]
    /\ credit' = [credit EXCEPT ![d] =
                     Ms * (Epoch * Pending(d) + extra) + since]
    /\ prompt' = [prompt EXCEPT ![d] = TRUE]

\* start(), first the counter ...
Start(d) ==
    /\ Alive /\ ~shutdown /\ owner[d] = "idle" /\ maxes[d] = 0
    /\ Zero(d)
    /\ owner' = [owner EXCEPT ![d] = "setMax"]
    /\ UNCHANGED <<maxes, checker, since, slept, killed, shutdown>>

\* ... then the limit.
SetMax(d) ==
    /\ Alive /\ owner[d] = "setMax"
    /\ maxes' = [maxes EXCEPT ![d] = Limit]
    /\ owner' = [owner EXCEPT ![d] = "idle"]
    /\ prompt' = [prompt EXCEPT ![d] = (counts[d] = 0)]
    /\ UNCHANGED <<counts, checker, clock, killed, shutdown, credit>>

\* ok()
Ok(d) ==
    /\ Alive /\ ~shutdown /\ owner[d] = "idle"
    /\ Zero(d)
    /\ UNCHANGED <<maxes, owner, checker, since, slept, killed, shutdown>>

\* stop()
Stop(d) ==
    /\ Alive /\ ~shutdown /\ owner[d] = "idle"
    /\ maxes' = [maxes EXCEPT ![d] = 0]
    /\ UNCHANGED <<counts, owner, checker, clock, killed, shutdown, history>>

\* destroy(), which main calls when the owners are joined, so are stopped.
Destroy ==
    /\ Alive /\ ~shutdown
    /\ \A d \in Dogs : owner[d] = "idle" /\ maxes[d] = 0
    /\ shutdown' = TRUE
    /\ UNCHANGED <<counts, maxes, owner, checker, clock, killed, history>>

-----------------------------------------------------------------------------
(* The check thread.                                                       *)

\* Time passes, wherever the threads are.
Tick ==
    /\ Alive /\ cpc # "ended"
    /\ since < IF cpc = "sleep" THEN MaxGap ELSE MaxGap - Epoch * Ms
    /\ \A d \in Dogs : maxes[d] # 0 \/ shutdown \/ age[d] < Horizon
    /\ since' = since + 1
    /\ slept' = IF cpc = "sleep" THEN slept + 1 ELSE 0
    /\ age' = [d \in Dogs |-> age[d] + 1]
    /\ UNCHANGED <<counts, maxes, owner, checker, killed, shutdown, history>>

\* extra with the time since the last wake, in whole milliseconds.
Measured == extra + since \div Ms - Epoch

\* The epochs to add, and what is left of extra.
NumOverIgnored == 0
NumOver == IF Measured > Epoch THEN Measured \div Epoch ELSE 0
CarryAll == Measured
Carry == Measured - NumOver * Epoch

\* sleep_for(EPOCH) is over.
Elapsed == slept >= Epoch * Ms

Wake ==
    /\ Alive /\ cpc = "sleep" /\ Elapsed
    /\ addCount' = 1 + NumOver
    /\ extra' = Carry
    /\ since' = 0 /\ slept' = 0
    /\ cpc' = "increment" /\ i' = 1
    /\ UNCHANGED <<counts, maxes, owner, tested, count, killed, shutdown, age,
                   history>>

\* The loops run over all m_nWatchdogs.
LastDog == N

\* m_counts[i] += addCount
Increment ==
    /\ Alive /\ cpc = "increment"
    /\ counts' = [counts EXCEPT ![i] = @ + addCount]
    /\ IF i < LastDog THEN i' = i + 1 /\ UNCHANGED cpc
                      ELSE i' = 1 /\ cpc' = "test"
    /\ UNCHANGED <<maxes, owner, addCount, extra, tested, count, clock, killed,
                   shutdown, history>>

\* while (!m_shutdown)
LoopsOnce == FALSE
Loops == ~shutdown

\* On to the next watchdog; after the last one, the loop's condition.
Advance ==
    /\ i' = IF i < LastDog THEN i + 1 ELSE 1
    /\ cpc' = IF i < LastDog THEN "test"
              ELSE IF Loops THEN "sleep" ELSE "ended"

\* m_maxes[i] != 0
Test ==
    /\ Alive /\ cpc = "test"
    /\ tested' = maxes[i]
    /\ IF maxes[i] # 0 THEN cpc' = "load" /\ UNCHANGED i ELSE Advance
    /\ UNCHANGED <<counts, maxes, owner, addCount, extra, count, clock, killed,
                   shutdown, history>>

\* The load of m_counts[i] ...
LoadCount ==
    /\ Alive /\ cpc = "load"
    /\ count' = counts[i]
    /\ cpc' = "compare"
    /\ UNCHANGED <<counts, maxes, owner, i, addCount, extra, tested, clock,
                   killed, shutdown, history>>

Exceeds(max) == count > max

\* ... and > m_maxes[i]: the tested value, or another load of it.
Compare ==
    /\ Alive /\ cpc = "compare"
    /\ \E max \in {tested, maxes[i]} :
          IF Exceeds(max)
          THEN killed' = i /\ UNCHANGED <<i, cpc>>
          ELSE Advance /\ UNCHANGED killed
    /\ UNCHANGED <<counts, maxes, owner, addCount, extra, tested, count, clock,
                   shutdown, history>>

-----------------------------------------------------------------------------
Owner(d) == Start(d) \/ SetMax(d) \/ Ok(d) \/ Stop(d)

CheckThread == Wake \/ Increment \/ Test \/ LoadCount \/ Compare

Next == (\E d \in Dogs : Owner(d)) \/ Destroy \/ Tick \/ CheckThread

Spec == Init /\ [][Next]_vars

(* Time passes and the check thread is scheduled; an owner that began a     *)
(* start() finishes it.                                                     *)
Fairness ==
    /\ WF_vars(Tick) /\ WF_vars(CheckThread)
    /\ \A d \in Dogs : WF_vars(SetMax(d))

FairSpec == Spec /\ Fairness

-----------------------------------------------------------------------------
(* Properties.                                                             *)

TypeOK ==
    /\ counts \in [Dogs -> Nat] /\ maxes \in [Dogs -> {0, Limit}]
    /\ owner \in [Dogs -> {"idle", "setMax"}]
    /\ cpc \in {"sleep", "increment", "test", "load", "compare", "ended"}
    /\ i \in Dogs /\ addCount \in Nat /\ extra \in Nat
    /\ tested \in {0, Limit} /\ count \in Nat
    /\ since \in Nat /\ slept \in Nat
    /\ killed \in 0 .. N /\ shutdown \in BOOLEAN
    /\ age \in [Dogs -> Nat] /\ credit \in [Dogs -> Nat]
    /\ prompt \in [Dogs -> BOOLEAN]

\* The bookkeeping of check_thread (extra, addCount, "XXX: is this ok?") never
\* charges a counter with time that has not passed, and loses less than one
\* millisecond per epoch charged, the remainder duration_cast drops.
TimeConserved ==
    \A d \in Dogs :
        /\ Booked(d) <= age[d] + credit[d]
        /\ age[d] + credit[d] <=
              Booked(d) + (Ms - 1) * (counts[d] + Pending(d))

\* What is carried over to the next wake is never more than one epoch.
ExtraBounded == extra <= Epoch

Slack == 2 * MaxGap

\* A counter over its limit means the owner was silent for the duration but
\* for two gaps: the one its last ok() fell in, and the one before, which the
\* check thread may have been about to add just then.
OverLimitMeansSilent ==
    \A d \in Dogs :
        counts[d] > Limit => age[d] + Slack >= Ms * Epoch * (Limit + 1)

\* A watchdog that runs is never silent for much longer than its duration
\* while the process lives: the gaps of two wakes and the truncated time
\* (unless its owner lost the processor for epochs inside start() itself).
DetectInTime ==
    \A d \in Dogs :
        Alive /\ maxes[d] # 0 /\ prompt[d]
            => age[d] <= Ms * Epoch * Limit + 2 * MaxGap + (Ms - 1) * Limit

\* A watchdog that runs is fed again, or stopped, or the process is killed.
Detects ==
    \A d \in Dogs :
        maxes[d] # 0 /\ age[d] > 0 ~> age[d] = 0 \/ maxes[d] = 0 \/ ~Alive
=============================================================================
