------------------------------- MODULE Polling -------------------------------
(***************************************************************************)
(* The timing of one goroutine of runner.Run: the stability threshold that *)
(* turns raw successes into a completed condition, and the schedule that   *)
(* says how long to wait before the next check.  Time is a number of ticks *)
(* (nanoseconds in the code).  Runner models the same loop without a clock, *)
(* with all the goroutines and with fatal results, which end a goroutine    *)
(* whatever its schedule says.                                             *)
(***************************************************************************)
EXTENDS Integers, Sequences

CONSTANTS
    Interval,           \* Config.Interval
    MaxInterval,        \* Config.MaxInterval
    Exponential,        \* BOOLEAN: is Config.Backoff exponential?
    Jitter,             \* Config.Jitter, in percent
    RequiredSuccesses,  \* Config.RequiredSuccesses
    StableFor,          \* Config.StableFor
    CheckTimes,         \* how long a check may take
    MaxDuration,        \* the largest time.Duration, 2^63 - 1 in the code
    MaxPolls            \* bound on the number of checks (model only)

ASSUME PollConfig ==
    /\ Interval \in Nat \ {0}
    /\ MaxInterval \in Nat
    /\ Interval <= MaxInterval
    /\ MaxDuration \in Nat
    /\ MaxInterval <= MaxDuration
    /\ Exponential \in BOOLEAN
    /\ Jitter \in 0..100
    /\ RequiredSuccesses \in Nat \ {0}
    /\ StableFor \in Nat
    /\ CheckTimes \subseteq Nat
    /\ MaxPolls \in Nat

\* What float64 makes of a wait that no Duration holds is up to the platform: maximum
\* intervals of that length, more than 146 years, are left out.
ASSUME JitterConfig == (MaxInterval * (100 + Jitter)) \div 100 <= MaxDuration

VARIABLES
    now,          \* the clock when the goroutine looks at it
    consecutive,  \* stabilityProgress.consecutive
    stableSince,  \* stabilityProgress.stableSince; Never is the zero time
    current,      \* pollSchedule.current
    history       \* the checks so far: raw result, time, thresholded result, wait

vars == <<now, consecutive, stableSince, current, history>>

Never == -1

Last == history[Len(history)]

\* A check in the history.
Entry == [raw : {"satisfied", "unsatisfied"}, at : Nat,
          result : {"satisfied", "unsatisfied"}, wait : Nat]

\* A Duration is a signed integer that wraps around.
Wrapped(d) == IF d <= MaxDuration THEN d ELSE d - 2 * (MaxDuration + 1)

\* minDuration.
Shorter(a, b) == IF a < b THEN a ELSE b

\* Mutant of NextExponentialInterval: doubles without looking at the cap first.
NextExponentialIntervalUnguarded(c) == Shorter(Wrapped(c * 2), MaxInterval)

\* nextExponentialInterval.
NextExponentialInterval(c) ==
    IF c >= MaxInterval \div 2 THEN MaxInterval ELSE Shorter(Wrapped(c * 2), MaxInterval)

\* The factors withJitter may draw, in percent: the ends of its range and the
\* middle. The upper end is never drawn.
JitterFactors == IF Jitter = 0 THEN {100} ELSE {100 - Jitter, 100, 100 + Jitter - 1}

\* withJitter, for the factor drawn; never less than one tick, and never more than a
\* Duration holds (JitterConfig).
WithJitter(interval, factor) ==
    LET jittered == (interval * factor) \div 100
    IN  IF jittered > 1 THEN jittered ELSE 1

\* Mutant of WaitBase: the schedule does not look at the raw result.
WaitBaseCurrent(succeeded) == current

\* The interval pollSchedule.next returns, before jitter.
WaitBase(succeeded) == IF succeeded THEN Interval ELSE current

\* Mutant of Advanced: a satisfied check does not start the backoff over.
AdvancedWithoutReset(succeeded) ==
    IF Exponential /\ ~succeeded THEN NextExponentialInterval(current) ELSE current

\* What pollSchedule.next makes of the current interval.
Advanced(succeeded) ==
    IF succeeded THEN Interval
    ELSE IF Exponential THEN NextExponentialInterval(current)
    ELSE current

\* Types. The schedule stays between the base interval and the maximum: doubling
\* never overflows a Duration, however large the maximum is.
PollingTypeOK ==
    /\ now \in Nat
    /\ consecutive \in Nat
    /\ stableSince \in Nat \cup {Never}
    /\ current \in Interval..MaxInterval
    /\ history \in Seq(Entry)

Init ==
    /\ now = 0
    /\ consecutive = 0
    /\ stableSince = Never
    /\ current = Interval
    /\ history = <<>>

\* stabilitySatisfied.
StabilitySatisfied(count, since, at) ==
    /\ count >= RequiredSuccesses
    /\ StableFor = 0 \/ at - since >= StableFor

\* A condition that completed is not checked again.
Polls ==
    /\ Len(history) < MaxPolls
    /\ \A k \in 1..Len(history) : history[k].result = "unsatisfied"

\* Mutant of PollUnsatisfied: the streak keeps the time of its first success.
PollUnsatisfiedKeepsStart(took, factor) ==
    LET at == now + took
        wait == WithJitter(WaitBase(FALSE), factor)
    IN  /\ Polls
        /\ consecutive' = 0
        /\ current' = Advanced(FALSE)
        /\ history' = Append(history, [raw |-> "unsatisfied", at |-> at,
                                       result |-> "unsatisfied", wait |-> wait])
        /\ now' = at + wait
        /\ UNCHANGED stableSince

\* An unsatisfied check, or one whose attempt expired: the streak is reset and the
\* schedule backs off.
PollUnsatisfied(took, factor) ==
    LET at == now + took
        wait == WithJitter(WaitBase(FALSE), factor)
    IN  /\ Polls
        /\ consecutive' = 0
        /\ stableSince' = Never
        /\ current' = Advanced(FALSE)
        /\ history' = Append(history, [raw |-> "unsatisfied", at |-> at,
                                       result |-> "unsatisfied", wait |-> wait])
        /\ now' = at + wait

\* A satisfied check: the streak grows and may complete the condition; if it does
\* not, the next check comes after the base interval.
PollSatisfied(took, factor) ==
    LET at == now + took
        since == IF stableSince = Never THEN at ELSE stableSince
        complete == StabilitySatisfied(consecutive + 1, since, at)
        wait == WithJitter(WaitBase(TRUE), factor)
    IN  /\ Polls
        /\ consecutive' = consecutive + 1
        /\ stableSince' = since
        /\ current' = IF complete THEN current ELSE Advanced(TRUE)
        /\ history' = Append(history,
                        [raw |-> "satisfied", at |-> at,
                         result |-> IF complete THEN "satisfied" ELSE "unsatisfied",
                         wait |-> IF complete THEN 0 ELSE wait])
        /\ now' = IF complete THEN at ELSE at + wait

\* The goroutine is done, or the model stops polling.
Stop == ~Polls /\ UNCHANGED vars

Next ==
    \/ \E took \in CheckTimes, factor \in JitterFactors :
         PollUnsatisfied(took, factor) \/ PollSatisfied(took, factor)
    \/ Stop

Spec == Init /\ [][Next]_vars

-----------------------------------------------------------------------------
(* Properties.                                                             *)

\* The raw results of the last n checks were all satisfied.
StreakOf(n) ==
    n \in 1..Len(history) /\ \A k \in Len(history) - n + 1..Len(history) :
                                history[k].raw = "satisfied"

\* A check completes its condition exactly when some run of satisfied checks that
\* ends with it is long enough, in number and in time: any unsatisfied check in
\* between starts both over (applyStabilityThreshold).
CompletesWhenStable ==
    history # <<>> =>
      (Last.result = "satisfied" <=>
         \E n \in 1..Len(history) :
           /\ StreakOf(n)
           /\ n >= RequiredSuccesses
           /\ Last.at - history[Len(history) - n + 1].at >= StableFor)

\* How many checks in a row failed before the k-th of h, back to the last success or to
\* the start.
SuccessesBefore(h, k) == {j \in 1..k - 1 : h[j].raw = "satisfied"}
FailuresBefore(h, k) ==
    IF SuccessesBefore(h, k) = {} THEN k - 1
    ELSE k - 1 - CHOOSE j \in SuccessesBefore(h, k) : \A i \in SuccessesBefore(h, k) : i <= j

\* The base interval, doubled n times.
Doubled[n \in Nat] == IF n = 0 THEN Interval ELSE 2 * Doubled[n - 1]

Capped(d) == IF d < MaxInterval THEN d ELSE MaxInterval

\* The interval after n failures in a row. The code takes the cap one tick early when
\* the maximum is odd.
BackedOff(n) ==
    LET ideal == IF Exponential THEN Capped(Doubled[n]) ELSE Interval
    IN  {ideal} \cup (IF Exponential /\ ideal = MaxInterval - 1 THEN {MaxInterval} ELSE {})

\* The wait after a failed check is the base interval, doubled for every failure
\* before it in the same streak of failures and capped at the maximum; a raw
\* success starts it over. Jitter moves it by at most its percentage (pollSchedule.next).
BackoffFollowsFailures ==
    \A k \in 1..Len(history) :
      history[k].raw = "unsatisfied" =>
        \E base \in BackedOff(FailuresBefore(history, k)), f \in JitterFactors :
            history[k].wait = WithJitter(base, f)

\* A condition that is stabilizing is checked at the base rate, however far it had
\* backed off before: it completes at most one base interval, its jitter and one
\* check after it has become stable (runCondition passes the raw result to next).
StabilizesAtBaseRate ==
    \A k \in 2..Len(history) :
      history[k - 1].raw = "satisfied" =>
        \E took \in CheckTimes :
          100 * (history[k].at - took - history[k - 1].at) <= Interval * (100 + Jitter)

-----------------------------------------------------------------------------
(* What makes the properties inductive.                                    *)

\* The streak is the longest run of satisfied checks that ends the history, and
\* stableSince is when it began.
StreakInv ==
    /\ consecutive <= Len(history)
    /\ \A k \in 1..Len(history) : k > Len(history) - consecutive => history[k].raw = "satisfied"
    /\ consecutive < Len(history) => history[Len(history) - consecutive].raw = "unsatisfied"
    /\ IF consecutive = 0 THEN stableSince = Never
       ELSE stableSince = history[Len(history) - consecutive + 1].at

\* Checks come one after the other.
TimeInv ==
    /\ \A j, k \in 1..Len(history) : j <= k => history[j].at <= history[k].at
    /\ \A k \in 1..Len(history) : history[k].at <= now

\* The last result is the verdict on the streak.
VerdictInv ==
    history # <<>> =>
      (Last.result = "satisfied" <=>
         consecutive > 0 /\ StabilitySatisfied(consecutive, stableSince, Last.at))

\* After a satisfied check that did not complete, the next one is at most a base
\* interval and its jitter away.
PaceInv ==
    history # <<>> /\ Last.raw = "satisfied" /\ Last.result = "unsatisfied" =>
      100 * (now - Last.at) <= Interval * (100 + Jitter)

\* The schedule has counted the failures since the last success.
BackoffInv ==
    /\ BackoffFollowsFailures
    /\ Polls => current \in BackedOff(FailuresBefore(history, Len(history) + 1))

PollInv ==
    /\ PollingTypeOK
    /\ StreakInv
    /\ TimeInv
    /\ VerdictInv
    /\ PaceInv
    /\ StabilizesAtBaseRate
    /\ BackoffInv
=============================================================================
