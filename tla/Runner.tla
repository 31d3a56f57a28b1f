------------------------------- MODULE Runner -------------------------------
(***************************************************************************)
(* runner.Run: one goroutine per condition, polling under a shared context *)
(* until the readiness conditions are met, a fatal result appears, or the  *)
(* context ends.  The goroutines share a capacity-1 gate per underlying    *)
(* condition pointer, the counter readyRemaining, the terminal word they   *)
(* compare-and-swap, the cancel function of the run context and the mutex  *)
(* of the attempt recorder.  Everything else is local to a goroutine until *)
(* the group is joined.                                                    *)
(*                                                                         *)
(* A step of a goroutine ends where another goroutine, the deadline timer  *)
(* or the caller can interfere with what it does next:                     *)
(*                                                                         *)
(*   top -> gate -> check -> decide -> [claim] -> [cancel] -> [emit ->     *)
(*   callback] -> wait -> top ...                       every exit: exited *)
(***************************************************************************)
EXTENDS Integers, FiniteSets

CONSTANTS
    Conds,              \* the configured conditions
    Guards,             \* those whose role is guard
    Gates,              \* the gates made by conditionGates
    GateOf,             \* condition -> its gate; shared by shared pointers
    Mode,               \* "all" or "any"
    RequiredSuccesses,  \* consecutive successes that count as one
    StableFor,          \* BOOLEAN: is Config.StableFor positive?
    AttemptTimeout,     \* BOOLEAN: is Config.PerAttemptTimeout positive?
    HasCallback,        \* BOOLEAN: is Config.OnAttempt set?
    MaxAttempts         \* bound on the attempts of one condition (model only)

Ready == Conds \ Guards

ASSUME RunConfig ==
    /\ IsFiniteSet(Conds)
    /\ Guards \subseteq Conds
    /\ Ready # {}
    /\ GateOf \in [Conds -> Gates]
    /\ Mode \in {"all", "any"}
    /\ RequiredSuccesses \in Nat \ {0}
    /\ StableFor \in BOOLEAN
    /\ AttemptTimeout \in BOOLEAN
    /\ HasCallback \in BOOLEAN
    /\ MaxAttempts \in Nat \ {0}

VARIABLES
    ctx,             \* "live", or what ended the run context: the first cause stays
    terminal,        \* the atomic terminal word
    readyRemaining,  \* the atomic counter of mode all
    held,            \* the gates whose channel is full
    mu,              \* the goroutine that holds attemptRecorder.mu, as a set
    pc,              \* where each goroutine is
    result,          \* the thresholded result of the attempt a goroutine is on
    progress,        \* stabilityProgress of each goroutine
    records,         \* []ConditionResult
    emitted,         \* OnAttempt calls that returned, per condition
    outcome          \* Outcome.Status, "none" while Run has not returned

shared == <<ctx, terminal, readyRemaining, held, mu>>
locals == <<pc, result, progress, records, emitted>>
vars == <<ctx, terminal, readyRemaining, held, mu,
          pc, result, progress, records, emitted, outcome>>

CheckStatus == {"satisfied", "unsatisfied", "fatal"}
Steps == {"top", "gate", "check", "decide", "claim", "cancel",
          "emit", "callback", "wait", "exited"}

TypeOK ==
    /\ ctx \in {"live", "deadline", "parent", "runner"}
    /\ terminal \in {"none", "satisfied", "fatal"}
    /\ readyRemaining \in Nat
    /\ held \subseteq Gates
    /\ mu \subseteq Conds
    /\ pc \in [Conds -> Steps]
    /\ result \in [Conds -> CheckStatus]
    /\ progress \in [Conds -> [consecutive : Nat, stable : BOOLEAN]]
    /\ records \in [Conds -> [satisfied : BOOLEAN, fatal : BOOLEAN, attempts : Nat]]
    /\ emitted \in [Conds -> Nat]
    /\ outcome \in {"none", "satisfied", "fatal", "timeout", "cancelled"}

NoProgress == [consecutive |-> 0, stable |-> FALSE]

Init ==
    /\ ctx = "live"
    /\ terminal = "none"
    /\ readyRemaining = Cardinality(Ready)
    /\ held = {}
    /\ mu = {}
    /\ pc = [i \in Conds |-> "top"]
    /\ result = [i \in Conds |-> "unsatisfied"]
    /\ progress = [i \in Conds |-> NoProgress]
    /\ records = [i \in Conds |-> [satisfied |-> FALSE, fatal |-> FALSE, attempts |-> 0]]
    /\ emitted = [i \in Conds |-> 0]
    /\ outcome = "none"

Goto(i, there) == pc' = [pc EXCEPT ![i] = there]

-----------------------------------------------------------------------------
(* The poll loop of runCondition up to the result of the check.            *)

\* The select at the head of the loop: the context is done.
LeaveLoop(i) ==
    /\ pc[i] = "top"
    /\ ctx # "live"
    /\ Goto(i, "exited")
    /\ UNCHANGED <<shared, result, progress, records, emitted, outcome>>

BeginAttempt(i) ==
    /\ pc[i] = "top"
    /\ ctx = "live"
    /\ Goto(i, "gate")
    /\ UNCHANGED <<shared, result, progress, records, emitted, outcome>>

\* acquireConditionGate: the select takes either ready case, so a free gate may
\* be taken after the context is done.
AcquireGate(i) ==
    /\ pc[i] = "gate"
    /\ GateOf[i] \notin held
    /\ held' = held \cup {GateOf[i]}
    /\ Goto(i, "check")
    /\ UNCHANGED <<ctx, terminal, readyRemaining, mu, result, progress, records,
                   emitted, outcome>>

AbandonGate(i) ==
    /\ pc[i] = "gate"
    /\ ctx # "live"
    /\ Goto(i, "exited")
    /\ UNCHANGED <<shared, result, progress, records, emitted, outcome>>

\* GuardCondition.Check turns the satisfaction of the guarded condition into a
\* fatal result.
RoleResult(i, raw) == IF i \in Guards /\ raw = "satisfied" THEN "fatal" ELSE raw

\* applyStabilityThreshold. The streak starts at its first success; with a
\* stable-for duration that success never ends it, a later one may, and once
\* the duration has passed it has passed for the rest of the streak.
ThresholdMet(p) == p.consecutive >= RequiredSuccesses /\ p.stable

ApplyThreshold(i, raw) ==
    IF raw # "satisfied"
    THEN /\ progress' = [progress EXCEPT ![i] = NoProgress]
         /\ result' = [result EXCEPT ![i] = raw]
    ELSE \E stable \in BOOLEAN :
         LET p == [consecutive |-> progress[i].consecutive + 1, stable |-> stable]
         IN  /\ progress[i].stable => stable
             /\ ~StableFor => stable
             /\ StableFor /\ progress[i].consecutive = 0 => ~stable
             /\ progress' = [progress EXCEPT ![i] = p]
             /\ result' = [result EXCEPT ![i] =
                              IF ThresholdMet(p) THEN "satisfied" ELSE "unsatisfied"]

\* What runCondition does with a recorded attempt's raw result.
TakeResult(i, raw) ==
    IF i \in Guards
    THEN /\ progress' = [progress EXCEPT ![i] = NoProgress]
         /\ result' = [result EXCEPT ![i] = raw]
    ELSE ApplyThreshold(i, raw)

\* checkCondition, after Check returned in time with the context still live.
CheckReturns(i, raw) ==
    /\ pc[i] = "check"
    /\ ctx = "live"
    /\ held' = held \ {GateOf[i]}
    /\ TakeResult(i, RoleResult(i, raw))
    /\ Goto(i, "decide")
    /\ UNCHANGED <<ctx, terminal, readyRemaining, mu, records, emitted, outcome>>

\* Mutant of CheckExpires: an expired attempt ends its condition.
CheckExpiresForGood(i) ==
    /\ AttemptTimeout
    /\ pc[i] = "check"
    /\ ctx = "live"
    /\ held' = held \ {GateOf[i]}
    /\ Goto(i, "exited")
    /\ UNCHANGED <<ctx, terminal, readyRemaining, mu, result, progress, records,
                   emitted, outcome>>

\* Mutant of CheckExpires: the gate is released only when the check returned.
CheckExpiresWithGate(i) ==
    /\ AttemptTimeout
    /\ pc[i] = "check"
    /\ ctx = "live"
    /\ TakeResult(i, "unsatisfied")
    /\ Goto(i, "decide")
    /\ UNCHANGED <<ctx, terminal, readyRemaining, held, mu, records, emitted, outcome>>

\* The attempt context expired: whatever Check answered is replaced by an
\* unsatisfied result.
CheckExpires(i) ==
    /\ AttemptTimeout
    /\ pc[i] = "check"
    /\ ctx = "live"
    /\ held' = held \ {GateOf[i]}
    /\ TakeResult(i, "unsatisfied")
    /\ Goto(i, "decide")
    /\ UNCHANGED <<ctx, terminal, readyRemaining, mu, records, emitted, outcome>>

\* Mutant of CheckDropped: the early return keeps the gate.
CheckDroppedWithGate(i) ==
    /\ pc[i] = "check"
    /\ ctx # "live"
    /\ Goto(i, "exited")
    /\ UNCHANGED <<shared, result, progress, records, emitted, outcome>>

\* The run context ended during Check: the answer is dropped, nothing recorded.
CheckDropped(i) ==
    /\ pc[i] = "check"
    /\ ctx # "live"
    /\ held' = held \ {GateOf[i]}
    /\ Goto(i, "exited")
    /\ UNCHANGED <<ctx, terminal, readyRemaining, mu, result, progress, records,
                   emitted, outcome>>

-----------------------------------------------------------------------------
(* resultEndsCondition, cancelSatisfiedRun and updateRecord.               *)

\* done: the attempt ends its condition.
Done(i) == result[i] # "unsatisfied"

AfterAttempt(i) == IF Done(i) THEN "exited" ELSE "wait"

AfterRecord(i) == IF HasCallback THEN "emit" ELSE AfterAttempt(i)

\* record.Attempts and updateRecord; a flag once set stays set.
UpdateRecord(i) ==
    records' = [records EXCEPT ![i] =
                  [satisfied |-> @.satisfied \/ result[i] = "satisfied",
                   fatal     |-> @.fatal \/ result[i] = "fatal",
                   attempts  |-> @.attempts + 1]]

\* terminal.CompareAndSwap(none, verdict): the winner goes on to cancel.
Wins(verdict) == terminal = "none" /\ terminal' = verdict
Loses == terminal # "none" /\ UNCHANGED terminal

\* Mutant of DecideUnsatisfied: an unsatisfied attempt ends its condition.
DecideUnsatisfiedForGood(i) ==
    /\ pc[i] = "decide"
    /\ result[i] = "unsatisfied"
    /\ UpdateRecord(i)
    /\ Goto(i, "exited")
    /\ UNCHANGED <<shared, result, progress, emitted, outcome>>

DecideUnsatisfied(i) ==
    /\ pc[i] = "decide"
    /\ result[i] = "unsatisfied"
    /\ UpdateRecord(i)
    /\ Goto(i, AfterRecord(i))
    /\ UNCHANGED <<shared, result, progress, emitted, outcome>>

\* Mutant of DecideFatal: a store instead of a compare-and-swap.
DecideFatalStores(i) ==
    /\ pc[i] = "decide"
    /\ result[i] = "fatal"
    /\ terminal' = "fatal"
    /\ Goto(i, "cancel")
    /\ UNCHANGED <<ctx, readyRemaining, held, mu, result, progress, records,
                   emitted, outcome>>

\* Mutant of DecideFatal: a late fatal result is recorded but not reported.
DecideFatalRecordsLate(i) ==
    /\ pc[i] = "decide"
    /\ result[i] = "fatal"
    /\ \/ Wins("fatal") /\ Goto(i, "cancel") /\ UNCHANGED records
       \/ Loses /\ Goto(i, "exited") /\ UpdateRecord(i)
    /\ UNCHANGED <<ctx, readyRemaining, held, mu, result, progress, emitted, outcome>>

DecideFatal(i) ==
    /\ pc[i] = "decide"
    /\ result[i] = "fatal"
    /\ \/ Wins("fatal") /\ Goto(i, "cancel")
       \/ Loses /\ Goto(i, "exited")          \* a late fatal result is not recorded
    /\ UNCHANGED <<ctx, readyRemaining, held, mu, result, progress, records,
                   emitted, outcome>>

DecideAny(i) ==
    /\ pc[i] = "decide"
    /\ result[i] = "satisfied"
    /\ Mode = "any"
    /\ \/ Wins("satisfied") /\ Goto(i, "cancel") /\ UNCHANGED records
       \/ Loses /\ UpdateRecord(i) /\ Goto(i, AfterRecord(i))
    /\ UNCHANGED <<ctx, readyRemaining, held, mu, result, progress, emitted, outcome>>

\* Mutant of DecideAll: a condition that is not the last one goes on polling.
DecideAllKeepsPolling(i) ==
    /\ pc[i] = "decide"
    /\ result[i] = "satisfied"
    /\ Mode = "all"
    /\ readyRemaining' = readyRemaining - 1
    /\ IF readyRemaining' = 0
       THEN Goto(i, "claim") /\ UNCHANGED records
       ELSE UpdateRecord(i) /\ Goto(i, "wait")
    /\ UNCHANGED <<ctx, terminal, held, mu, result, progress, emitted, outcome>>

\* Mutant of DecideAll: a satisfied result counts only while the run is undecided.
DecideAllCountsWhileOpen(i) ==
    /\ pc[i] = "decide"
    /\ result[i] = "satisfied"
    /\ Mode = "all"
    /\ readyRemaining' = IF terminal = "none" THEN readyRemaining - 1 ELSE readyRemaining
    /\ IF readyRemaining' = 0
       THEN Goto(i, "claim") /\ UNCHANGED records
       ELSE UpdateRecord(i) /\ Goto(i, AfterRecord(i))
    /\ UNCHANGED <<ctx, terminal, held, mu, result, progress, emitted, outcome>>

\* Mutant of DecideAll: the counter is compared before it is decremented.
DecideAllComparesFirst(i) ==
    /\ pc[i] = "decide"
    /\ result[i] = "satisfied"
    /\ Mode = "all"
    /\ readyRemaining' = readyRemaining - 1
    /\ IF readyRemaining = 0
       THEN Goto(i, "claim") /\ UNCHANGED records
       ELSE UpdateRecord(i) /\ Goto(i, AfterRecord(i))
    /\ UNCHANGED <<ctx, terminal, held, mu, result, progress, emitted, outcome>>

\* readyRemaining.Add(-1): whoever brings it to zero goes on to claim the run.
DecideAll(i) ==
    /\ pc[i] = "decide"
    /\ result[i] = "satisfied"
    /\ Mode = "all"
    /\ readyRemaining' = readyRemaining - 1
    /\ IF readyRemaining' = 0
       THEN Goto(i, "claim") /\ UNCHANGED records
       ELSE UpdateRecord(i) /\ Goto(i, AfterRecord(i))
    /\ UNCHANGED <<ctx, terminal, held, mu, result, progress, emitted, outcome>>

\* Mutant of Claim: a store instead of a compare-and-swap.
ClaimStores(i) ==
    /\ pc[i] = "claim"
    /\ terminal' = "satisfied"
    /\ Goto(i, "cancel")
    /\ UNCHANGED <<ctx, readyRemaining, held, mu, result, progress, records,
                   emitted, outcome>>

\* Mutant of Claim: the winner does not cancel the run.
ClaimWithoutCancel(i) ==
    /\ pc[i] = "claim"
    /\ Wins("satisfied") \/ Loses
    /\ UpdateRecord(i)
    /\ Goto(i, AfterRecord(i))
    /\ UNCHANGED <<ctx, readyRemaining, held, mu, result, progress, emitted, outcome>>

\* The compare-and-swap after the counter reached zero, a step of its own.
Claim(i) ==
    /\ pc[i] = "claim"
    /\ \/ Wins("satisfied") /\ Goto(i, "cancel") /\ UNCHANGED records
       \/ Loses /\ UpdateRecord(i) /\ Goto(i, AfterRecord(i))
    /\ UNCHANGED <<ctx, readyRemaining, held, mu, result, progress, emitted, outcome>>

\* Mutant of CancelRun: the recording goroutine leaves the context alone.
CancelRunForgotten(i) ==
    /\ pc[i] = "cancel"
    /\ UpdateRecord(i)
    /\ Goto(i, AfterRecord(i))
    /\ UNCHANGED <<ctx, terminal, readyRemaining, held, mu, result, progress,
                   emitted, outcome>>

\* cancel(): without effect on a context that has already ended.
CancelRun(i) ==
    /\ pc[i] = "cancel"
    /\ ctx' = IF ctx = "live" THEN "runner" ELSE ctx
    /\ UpdateRecord(i)
    /\ Goto(i, AfterRecord(i))
    /\ UNCHANGED <<terminal, readyRemaining, held, mu, result, progress, emitted, outcome>>

-----------------------------------------------------------------------------
(* attemptRecorder.emit and waitInterval.                                  *)

LockCallback(i) ==
    /\ pc[i] = "emit"
    /\ mu = {}
    /\ mu' = {i}
    /\ Goto(i, "callback")
    /\ UNCHANGED <<ctx, terminal, readyRemaining, held, result, progress, records,
                   emitted, outcome>>

\* OnAttempt returns and the deferred unlock runs.
CallbackReturns(i) ==
    /\ pc[i] = "callback"
    /\ emitted' = [emitted EXCEPT ![i] = @ + 1]
    /\ mu' = {}
    /\ Goto(i, AfterAttempt(i))
    /\ UNCHANGED <<ctx, terminal, readyRemaining, held, result, progress, records, outcome>>

\* The timer case of the select in waitInterval. The model polls a condition at
\* most MaxAttempts times.
TimerFires(i) ==
    /\ pc[i] = "wait"
    /\ records[i].attempts < MaxAttempts
    /\ Goto(i, "top")
    /\ UNCHANGED <<shared, result, progress, records, emitted, outcome>>

WaitCancelled(i) ==
    /\ pc[i] = "wait"
    /\ ctx # "live"
    /\ Goto(i, "exited")
    /\ UNCHANGED <<shared, result, progress, records, emitted, outcome>>

-----------------------------------------------------------------------------
(* The context's timer, the caller, and the join in Run.                   *)

\* context.WithTimeout expires, or the caller cancels the parent context.
EndContext(why) ==
    /\ outcome = "none"
    /\ ctx = "live"
    /\ ctx' = why
    /\ UNCHANGED <<terminal, readyRemaining, held, mu, locals, outcome>>

Deadline == EndContext("deadline")
ParentCancel == EndContext("parent")

OutcomeSatisfied ==
    IF Mode = "any" THEN \E i \in Ready : records[i].satisfied
                    ELSE \A i \in Ready : records[i].satisfied

\* Mutant of FinalStatus: an ended context outranks the verdict.
FinalStatusContextFirst ==
    IF ctx = "deadline" THEN "timeout"
    ELSE IF ctx = "parent" THEN "cancelled"
    ELSE terminal

FinalStatus ==
    IF terminal # "none" THEN terminal
    ELSE IF \E i \in Conds : records[i].fatal THEN "fatal"
    ELSE IF OutcomeSatisfied THEN "satisfied"
    ELSE IF ctx = "deadline" THEN "timeout"
    ELSE "cancelled"

\* Mutant of Return: Run does not wait for the goroutines of a decided run.
ReturnEarly ==
    /\ outcome = "none"
    /\ terminal # "none" \/ \A i \in Conds : pc[i] = "exited"
    /\ outcome' = FinalStatus
    /\ UNCHANGED <<shared, locals>>

\* errgroup.Wait returns when every goroutine has; finalStatus reads what they left.
Return ==
    /\ outcome = "none"
    /\ \A i \in Conds : pc[i] = "exited"
    /\ outcome' = FinalStatus
    /\ UNCHANGED <<shared, locals>>

\* Run has returned: nothing of it is left running.
Returned == outcome # "none" /\ UNCHANGED vars

-----------------------------------------------------------------------------
Poll(i) ==
    \/ LeaveLoop(i) \/ BeginAttempt(i) \/ AcquireGate(i) \/ AbandonGate(i)
    \/ \E raw \in CheckStatus : CheckReturns(i, raw)
    \/ CheckExpires(i) \/ CheckDropped(i)

Decide(i) ==
    \/ DecideUnsatisfied(i) \/ DecideFatal(i) \/ DecideAny(i) \/ DecideAll(i)
    \/ Claim(i) \/ CancelRun(i)

Pause(i) ==
    LockCallback(i) \/ CallbackReturns(i) \/ TimerFires(i) \/ WaitCancelled(i)

Next ==
    \/ \E i \in Conds : Poll(i) \/ Decide(i) \/ Pause(i)
    \/ Deadline
    \/ ParentCancel
    \/ Return
    \/ Returned

Spec == Init /\ [][Next]_vars

-----------------------------------------------------------------------------
(* Fairness.  The Go scheduler runs every goroutine that can run, and its  *)
(* channels and mutexes serve blocked senders and lockers in turn, so one  *)
(* that can take a gate or the mutex again and again does.  A check need   *)
(* not return on its own: condition.Condition only promises that it does   *)
(* once its context has ended.                                             *)

GoroutineFairness ==
    \A i \in Conds :
        /\ WF_vars(LeaveLoop(i) \/ BeginAttempt(i) \/ AbandonGate(i) \/ CheckExpires(i)
                   \/ CheckDropped(i) \/ Decide(i) \/ CallbackReturns(i)
                   \/ TimerFires(i) \/ WaitCancelled(i))
        /\ SF_vars(AcquireGate(i))
        /\ SF_vars(LockCallback(i))

\* The program without its timer: enough for a decided run to return.
UntimedSpec == Spec /\ GoroutineFairness /\ WF_vars(Return)

FairSpec == UntimedSpec /\ WF_vars(Deadline)

-----------------------------------------------------------------------------
(* Properties.                                                             *)

\* The readiness condition i counts: it was counted down in mode all, or its
\* satisfied result got as far as the terminal word in mode any.
Counted(i) ==
    \/ records[i].satisfied
    \/ result[i] = "satisfied" /\ pc[i] \in {"claim", "cancel"}

Uncounted == {i \in Ready : ~Counted(i)}

\* What Run reports agrees with the records it hands out: satisfied only when the
\* mode's goal is met and nothing is fatal, fatal with the one record that caused
\* it, timeout and cancelled only when the records show neither (finalStatus,
\* whose fallbacks on the records must therefore never be needed).
ReportMatchesRecords ==
    /\ outcome = "satisfied" => OutcomeSatisfied /\ \A i \in Conds : ~records[i].fatal
    /\ outcome = "fatal" => \E i \in Conds : \A j \in Conds : records[j].fatal <=> j = i
    /\ outcome \in {"timeout", "cancelled"} =>
         ~OutcomeSatisfied /\ \A i \in Conds : ~records[i].fatal

\* A timeout is reported only of a run whose own deadline ended its context, and
\* a cancellation only of one its caller ended: the runner's own cancel is never
\* reported as the caller's (finalStatus reads ctx.Err only when undecided).
ReportMatchesCause ==
    /\ outcome = "timeout" => ctx = "deadline"
    /\ outcome = "cancelled" => ctx = "parent"

\* readyRemaining counts exactly the readiness conditions whose satisfaction has
\* not been counted, whatever the goroutines are in the middle of, and when it
\* reaches zero one of them is on its way to claim the run (cancelSatisfiedRun).
CounterMatchesRecords ==
    Mode = "all" =>
      /\ readyRemaining = Cardinality(Uncounted)
      /\ readyRemaining = 0 /\ terminal = "none" => \E i \in Ready : pc[i] = "claim"

\* A satisfied verdict is backed by satisfied readiness conditions, and a decided
\* run whose context is still live has exactly one goroutine that will cancel it.
VerdictHasOwner ==
    /\ terminal = "satisfied" =>
         IF Mode = "any" THEN \E i \in Ready : Counted(i) ELSE \A i \in Ready : Counted(i)
    /\ terminal # "none" /\ ctx = "live" =>
         \E i \in Conds : \A j \in Conds : pc[j] = "cancel" <=> j = i

\* While the run is live and undecided no goroutine gives up its condition: only
\* a condition that satisfied in mode all has left its loop (runCondition).
NobodyGivesUp ==
    ctx = "live" /\ terminal = "none" =>
      \A i \in Conds : pc[i] = "exited" => Mode = "all" /\ records[i].satisfied

\* A full gate has exactly one goroutine inside Check, and the gates are empty
\* again when Run returns: conditions that share a pointer are never checked
\* concurrently and no exit path keeps a gate (checkCondition).
GateDiscipline ==
    /\ held = {GateOf[i] : i \in {j \in Conds : pc[j] = "check"}}
    /\ \A i, j \in Conds :
         pc[i] = "check" /\ pc[j] = "check" /\ GateOf[i] = GateOf[j] => i = j

\* OnAttempt calls are serialized, every recorded attempt is reported once, late only
\* while its goroutine is about to report it, and no call is under way or still to come
\* when Run has returned (attemptRecorder.emit, Run).
AttemptsReportedOnce ==
    /\ mu = {i \in Conds : pc[i] = "callback"}
    /\ \A i, j \in mu : i = j
    /\ HasCallback =>
         \A i \in Conds :
           records[i].attempts = emitted[i] + (IF pc[i] \in {"emit", "callback"} THEN 1 ELSE 0)

CallbacksMatchAttempts ==
    /\ AttemptsReportedOnce
    /\ outcome # "none" => \A i \in Conds : pc[i] \notin {"emit", "callback"}

\* The first terminal result wins: a decided run stays decided as it is, and no
\* record becomes fatal after that except the one of the goroutine that decided it
\* (resultEndsCondition).
FirstTerminalResultWins ==
    [][terminal # "none" =>
         /\ terminal' = terminal
         /\ \A i \in Conds : records'[i].fatal /\ ~records[i].fatal =>
              pc[i] = "cancel" /\ terminal = "fatal"]_vars

\* A decided run returns without waiting for its deadline, whichever checks are
\* still in flight (the cancel function handed to the goroutines).
DecidedRunReturns == terminal # "none" ~> outcome # "none"

\* In mode all the run returns once every readiness condition has counted, even
\* though the counter and the terminal word are updated in two steps.
CompletedRunReturns ==
    Uncounted = {} ~> outcome # "none"

\* With a per-attempt timeout, a goroutine that waits for a shared gate gets it
\* or leaves: conditions sharing a pointer do not starve each other
\* (acquireConditionGate).
GateIsServed ==
    \A i \in Conds : pc[i] = "gate" ~> pc[i] \in {"check", "exited"}

\* What the specification says of mode all (docs/SPEC.md:391): a fatal guard that
\* completes after all readiness conditions have completed does not turn the run
\* into a fatal one.
NoFatalAfterReadiness ==
    [][terminal' = "fatal" /\ terminal # "fatal" => Uncounted # {}]_vars

\* The run contract: completed conditions are those that count, the verdict is the
\* terminal word.
Contract == INSTANCE RunContract WITH
    Ready     <- Ready,
    Mode      <- Mode,
    completed <- Ready \ Uncounted,
    verdict   <- terminal,
    cause     <- ctx,
    report    <- outcome

\* Every step of a run is a step its contract allows: one verdict, one cause, one
\* report that follows from them (Run).
KeepsContract == Contract!Spec

\* And every run returns: whatever the checks do, the deadline ends the context,
\* the checks return, and no gate or callback lock keeps a goroutine (Run).
ImplementsContract == Contract!FairSpec
=============================================================================
