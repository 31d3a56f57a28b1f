---------------------------- MODULE RunnerProofs ----------------------------
(***************************************************************************)
(* Proofs about Runner, for every set of conditions, every role, mode and  *)
(* gate assignment.  The inductive invariant RunInv adds to the properties *)
(* of Runner what each program counter says about its goroutine            *)
(* (AttemptInv), who decided the run and on what grounds (OwnerInv,        *)
(* CancelInv, GoalInv) and what a returned run left behind (OutcomeInv).   *)
(***************************************************************************)
EXTENDS Runner, TLAPS, FiniteSetTheorems

Reported == {"emit", "callback", "exited"}

\* What a goroutine's program counter says about its result and its record.
AttemptOK(i) ==
    /\ result[i] = "satisfied" => i \in Ready
    /\ pc[i] \in {"top", "gate", "check", "wait"} => result[i] = "unsatisfied"
    /\ pc[i] = "claim" => result[i] = "satisfied" /\ Mode = "all"
    /\ pc[i] = "cancel" => result[i] = terminal /\ terminal # "none"
    /\ records[i].satisfied => result[i] = "satisfied" /\ pc[i] \in Reported
    /\ records[i].fatal => result[i] = "fatal" /\ pc[i] \in Reported
    /\ result[i] = "satisfied" /\ pc[i] \in Reported => records[i].satisfied
    /\ result[i] = "fatal" /\ pc[i] \in Reported => terminal # "none"
    /\ result[i] = "unsatisfied" /\ pc[i] = "exited" => ctx # "live"

AttemptInv == \A i \in Conds : AttemptOK(i)

\* The goroutine that decided the run, while it is about to cancel it, and the one
\* whose record is fatal.
Owns(i) == pc[i] = "cancel" \/ records[i].fatal

\* The verdict has at most one owner, and a fatal one has exactly one.
OwnerInv ==
    /\ \A i \in Conds : records[i].fatal => terminal = "fatal"
    /\ \A i, j \in Conds : Owns(i) /\ Owns(j) => i = j
    /\ terminal = "fatal" => \E i \in Conds : Owns(i)

\* The runner's own cancel and the verdict come together.
CancelInv ==
    /\ terminal # "none" /\ ctx = "live" => \E i \in Conds : pc[i] = "cancel"
    /\ ctx = "runner" => terminal # "none"

\* A satisfied verdict rests on what counts.
GoalInv ==
    /\ \A i \in Conds : Mode = "any" /\ records[i].satisfied => terminal # "none"
    /\ \A i \in Conds : pc[i] = "claim" => Uncounted = {}
    /\ terminal = "satisfied" => IF Mode = "any" THEN Uncounted # Ready ELSE Uncounted = {}

\* A returned run left no goroutine behind and reported what its records say.
OutcomeInv ==
    /\ outcome # "none" => \A i \in Conds : pc[i] = "exited"
    /\ ReportMatchesRecords
    /\ ReportMatchesCause

RunInv ==
    /\ TypeOK
    /\ AttemptInv
    /\ CounterMatchesRecords
    /\ OwnerInv
    /\ CancelInv
    /\ GoalInv
    /\ OutcomeInv

-----------------------------------------------------------------------------
(* What the helpers of the actions do.                                     *)

\* The result of a check: satisfied or fatal only if the answer was, and a guard never satisfies.
LEMMA TakeResultType ==
    ASSUME TypeOK, NEW i \in Conds, NEW raw \in CheckStatus, TakeResult(i, raw),
           i \in Guards => raw # "satisfied"
    PROVE  /\ progress' \in [Conds -> [consecutive : Nat, stable : BOOLEAN]]
           /\ \E r \in CheckStatus : /\ result' = [result EXCEPT ![i] = r]
                                     /\ r = "satisfied" => raw = "satisfied" /\ i \in Ready
                                     /\ r = "fatal" => raw = "fatal"
<1> DEFINE P == [consecutive : Nat, stable : BOOLEAN]
<1>1. NoProgress \in P
  BY DEF NoProgress
<1>2. CASE i \in Guards
  <2>1. progress' = [progress EXCEPT ![i] = NoProgress]
        /\ result' = [result EXCEPT ![i] = raw]
    BY <1>2 DEF TakeResult
  <2> QED BY <1>1, <1>2, <2>1 DEF TypeOK
<1>3. CASE i \notin Guards
  <2>1. ApplyThreshold(i, raw) /\ i \in Ready
    BY <1>3 DEF TakeResult, Ready
  <2>2. CASE raw # "satisfied"
    <3>1. progress' = [progress EXCEPT ![i] = NoProgress]
          /\ result' = [result EXCEPT ![i] = raw]
      BY <2>1, <2>2 DEF ApplyThreshold
    <3> QED BY <1>1, <2>2, <3>1 DEF TypeOK
  <2>3. CASE raw = "satisfied"
    <3>1. PICK stable \in BOOLEAN :
            LET p == [consecutive |-> progress[i].consecutive + 1, stable |-> stable]
            IN  /\ progress' = [progress EXCEPT ![i] = p]
                /\ result' = [result EXCEPT ![i] =
                                IF ThresholdMet(p) THEN "satisfied" ELSE "unsatisfied"]
      BY <2>1, <2>3 DEF ApplyThreshold
    <3>2. [consecutive |-> progress[i].consecutive + 1, stable |-> stable] \in P
      BY DEF TypeOK
    <3>3. progress' \in [Conds -> P]
      BY <3>1, <3>2 DEF TypeOK
    <3> QED BY <2>1, <2>3, <3>1, <3>3 DEF CheckStatus
  <2> QED BY <2>2, <2>3
<1> QED BY <1>2, <1>3

\* updateRecord writes the record of one condition only, and marks it by the result it got.
LEMMA UpdateRecordEffect ==
    ASSUME TypeOK, NEW i \in Conds, UpdateRecord(i)
    PROVE  /\ records' \in [Conds -> [satisfied : BOOLEAN, fatal : BOOLEAN, attempts : Nat]]
           /\ \A j \in Conds : j # i => records'[j] = records[j]
           /\ records'[i].satisfied <=> records[i].satisfied \/ result[i] = "satisfied"
           /\ records'[i].fatal <=> records[i].fatal \/ result[i] = "fatal"
           /\ records'[i].attempts = records[i].attempts + 1
<1>1. records' \in [Conds -> [satisfied : BOOLEAN, fatal : BOOLEAN, attempts : Nat]]
  BY DEF TypeOK, UpdateRecord
<1>2. records'[i] = [satisfied |-> records[i].satisfied \/ result[i] = "satisfied",
                     fatal     |-> records[i].fatal \/ result[i] = "fatal",
                     attempts  |-> records[i].attempts + 1]
  BY DEF TypeOK, UpdateRecord
<1>3. \A j \in Conds : j # i => records'[j] = records[j]
  BY DEF TypeOK, UpdateRecord
<1> QED BY <1>1, <1>2, <1>3

\* Where a goroutine goes once its record is written.
LEMMA AfterRecordCases ==
    ASSUME NEW i \in Conds
    PROVE  AfterRecord(i) = IF HasCallback THEN "emit"
                            ELSE IF result[i] = "unsatisfied" THEN "wait" ELSE "exited"
  BY DEF AfterRecord, AfterAttempt, Done

-----------------------------------------------------------------------------
(* Each part of the invariant is preserved by every action.                *)

\* The attempt invariant.
LEMMA AttemptStep ==
    ASSUME TypeOK, AttemptInv, [Next]_vars
    PROVE  AttemptInv'
<1>1. ASSUME NEW i \in Conds, LeaveLoop(i) PROVE AttemptInv'
  BY <1>1 DEF LeaveLoop, Goto, TypeOK, AttemptInv, AttemptOK, Reported, Steps,
          CheckStatus, shared, locals
<1>2. ASSUME NEW i \in Conds, BeginAttempt(i) PROVE AttemptInv'
  BY <1>2 DEF BeginAttempt, Goto, TypeOK, AttemptInv, AttemptOK, Reported, Steps,
          CheckStatus, shared, locals
<1>3. ASSUME NEW i \in Conds, AcquireGate(i) PROVE AttemptInv'
  BY <1>3 DEF AcquireGate, Goto, TypeOK, AttemptInv, AttemptOK, Reported, Steps,
          CheckStatus, shared, locals
<1>4. ASSUME NEW i \in Conds, AbandonGate(i) PROVE AttemptInv'
  BY <1>4 DEF AbandonGate, Goto, TypeOK, AttemptInv, AttemptOK, Reported, Steps,
          CheckStatus, shared, locals
<1>5. ASSUME NEW i \in Conds, NEW raw \in CheckStatus, CheckReturns(i, raw) PROVE AttemptInv'
  <2>1. PICK r \in CheckStatus : /\ result' = [result EXCEPT ![i] = r]
                                 /\ r = "satisfied" => i \in Ready
    BY <1>5, TakeResultType DEF CheckReturns, RoleResult, CheckStatus
  <2> QED BY <1>5, <2>1 DEF CheckReturns, Goto, TypeOK, AttemptInv, AttemptOK, Reported, Steps,
         CheckStatus
<1>6. ASSUME NEW i \in Conds, CheckExpires(i) PROVE AttemptInv'
  <2>1. PICK r \in CheckStatus : /\ result' = [result EXCEPT ![i] = r]
                                 /\ r = "satisfied" => i \in Ready
    BY <1>6, TakeResultType DEF CheckExpires, CheckStatus
  <2> QED BY <1>6, <2>1 DEF CheckExpires, Goto, TypeOK, AttemptInv, AttemptOK, Reported, Steps,
         CheckStatus
<1>7. ASSUME NEW i \in Conds, CheckDropped(i) PROVE AttemptInv'
  BY <1>7 DEF CheckDropped, Goto, TypeOK, AttemptInv, AttemptOK, Reported, Steps,
          CheckStatus, shared, locals
<1>8. ASSUME NEW i \in Conds, DecideUnsatisfied(i) PROVE AttemptInv'
  BY <1>8 DEF DecideUnsatisfied, Goto, UpdateRecord, AfterRecord, AfterAttempt,
          Done, TypeOK, AttemptInv, AttemptOK, Reported, Steps, CheckStatus, shared,
          locals
<1>9. ASSUME NEW i \in Conds, DecideFatal(i) PROVE AttemptInv'
  BY <1>9 DEF DecideFatal, Goto, Wins, Loses, TypeOK, AttemptInv, AttemptOK,
          Reported, Steps, CheckStatus, shared, locals
<1>10. ASSUME NEW i \in Conds, DecideAny(i) PROVE AttemptInv'
  <2> SUFFICES ASSUME NEW j \in Conds PROVE AttemptOK(j)'
    BY DEF AttemptInv
  <2>1. CASE Loses /\ UpdateRecord(i) /\ Goto(i, AfterRecord(i))
    BY <1>10, <2>1, UpdateRecordEffect, AfterRecordCases
    DEF DecideAny, Goto, Loses, TypeOK, AttemptInv, AttemptOK, Reported
  <2>2. CASE Wins("satisfied") /\ Goto(i, "cancel") /\ UNCHANGED records
    BY <1>10, <2>2 DEF DecideAny, Wins, Goto, TypeOK, AttemptInv, AttemptOK, Reported
  <2> QED BY <1>10, <2>1, <2>2 DEF DecideAny
<1>11. ASSUME NEW i \in Conds, DecideAll(i) PROVE AttemptInv'
  <2> SUFFICES ASSUME NEW j \in Conds PROVE AttemptOK(j)'
    BY DEF AttemptInv
  <2>1. CASE UpdateRecord(i) /\ Goto(i, AfterRecord(i))
    BY <1>11, <2>1, UpdateRecordEffect, AfterRecordCases
    DEF DecideAll, Goto, TypeOK, AttemptInv, AttemptOK, Reported
  <2>2. CASE Goto(i, "claim") /\ UNCHANGED records
    BY <1>11, <2>2 DEF DecideAll, Goto, TypeOK, AttemptInv, AttemptOK, Reported
  <2> QED BY <1>11, <2>1, <2>2 DEF DecideAll
<1>12. ASSUME NEW i \in Conds, Claim(i) PROVE AttemptInv'
  <2> SUFFICES ASSUME NEW j \in Conds PROVE AttemptOK(j)'
    BY DEF AttemptInv
  <2>1. CASE Loses /\ UpdateRecord(i) /\ Goto(i, AfterRecord(i))
    BY <1>12, <2>1, UpdateRecordEffect, AfterRecordCases
    DEF Claim, Goto, Loses, TypeOK, AttemptInv, AttemptOK, Reported
  <2>2. CASE Wins("satisfied") /\ Goto(i, "cancel") /\ UNCHANGED records
    BY <1>12, <2>2 DEF Claim, Wins, Goto, TypeOK, AttemptInv, AttemptOK, Reported
  <2> QED BY <1>12, <2>1, <2>2 DEF Claim
<1>13. ASSUME NEW i \in Conds, CancelRun(i) PROVE AttemptInv'
  BY <1>13 DEF CancelRun, Goto, UpdateRecord, AfterRecord, AfterAttempt, Done,
          TypeOK, AttemptInv, AttemptOK, Reported, Steps, CheckStatus, shared,
          locals
<1>14. ASSUME NEW i \in Conds, LockCallback(i) PROVE AttemptInv'
  BY <1>14 DEF LockCallback, Goto, TypeOK, AttemptInv, AttemptOK, Reported, Steps,
          CheckStatus, shared, locals
<1>15. ASSUME NEW i \in Conds, CallbackReturns(i) PROVE AttemptInv'
  BY <1>15 DEF CallbackReturns, Goto, AfterAttempt, Done, TypeOK, AttemptInv,
          AttemptOK, Reported, Steps, CheckStatus, shared, locals
<1>16. ASSUME NEW i \in Conds, TimerFires(i) PROVE AttemptInv'
  BY <1>16 DEF TimerFires, Goto, TypeOK, AttemptInv, AttemptOK, Reported, Steps,
          CheckStatus, shared, locals
<1>17. ASSUME NEW i \in Conds, WaitCancelled(i) PROVE AttemptInv'
  BY <1>17 DEF WaitCancelled, Goto, TypeOK, AttemptInv, AttemptOK, Reported, Steps,
          CheckStatus, shared, locals
<1>18. ASSUME NEW why \in {"deadline", "parent"}, EndContext(why) PROVE AttemptInv'
  BY <1>18 DEF EndContext, locals, TypeOK, AttemptInv, AttemptOK, Reported, Steps,
          CheckStatus, shared, locals
<1>19. ASSUME Return PROVE AttemptInv'
  BY <1>19 DEF Return, shared, locals, TypeOK, AttemptInv, AttemptOK, Reported,
          Steps, CheckStatus, shared, locals
<1>20. ASSUME UNCHANGED vars PROVE AttemptInv'
  BY <1>20 DEF vars, TypeOK, AttemptInv, AttemptOK, Reported, Steps, CheckStatus,
          shared, locals
<1> QED
  BY <1>1, <1>2, <1>3, <1>4, <1>5, <1>6, <1>7, <1>8, <1>9, <1>10, <1>11, <1>12,
     <1>13, <1>14, <1>15, <1>16, <1>17, <1>18, <1>19, <1>20 DEF Next, Poll, Decide,
     Pause, Deadline, ParentCancel, Returned

\* A step either leaves the readiness conditions that do not count alone, or counts
\* one of them; only counting touches the counter, and only in mode all.
Counting ==
    \/ Uncounted' = Uncounted /\ readyRemaining' = readyRemaining
    \/ \E i \in Uncounted :
         /\ Uncounted' = Uncounted \ {i}
         /\ readyRemaining' = IF Mode = "all" THEN readyRemaining - 1 ELSE readyRemaining
         /\ result[i] = "satisfied" /\ pc[i] = "decide" /\ pc'[i] # "decide"

\* A step makes at most one condition count, and takes it off the counter at the same moment.
LEMMA CountingStep ==
    ASSUME TypeOK, AttemptInv, [Next]_vars
    PROVE  Counting
<1>1. ASSUME NEW i \in Conds, LeaveLoop(i) PROVE Counting
  <2>1. \A j \in Ready : Counted(j)' <=> Counted(j)
    BY <1>1
    DEF LeaveLoop, Goto, Counted, Ready, TypeOK, AttemptInv, AttemptOK, Reported, shared, locals
  <2> QED BY <1>1, <2>1 DEF LeaveLoop, Counting, Uncounted, shared, locals
<1>2. ASSUME NEW i \in Conds, BeginAttempt(i) PROVE Counting
  <2>1. \A j \in Ready : Counted(j)' <=> Counted(j)
    BY <1>2
    DEF BeginAttempt, Goto, Counted, Ready, TypeOK, AttemptInv, AttemptOK, Reported, shared, locals
  <2> QED BY <1>2, <2>1 DEF BeginAttempt, Counting, Uncounted, shared, locals
<1>3. ASSUME NEW i \in Conds, AcquireGate(i) PROVE Counting
  <2>1. \A j \in Ready : Counted(j)' <=> Counted(j)
    BY <1>3
    DEF AcquireGate, Goto, Counted, Ready, TypeOK, AttemptInv, AttemptOK, Reported, shared, locals
  <2> QED BY <1>3, <2>1 DEF AcquireGate, Counting, Uncounted, shared, locals
<1>4. ASSUME NEW i \in Conds, AbandonGate(i) PROVE Counting
  <2>1. \A j \in Ready : Counted(j)' <=> Counted(j)
    BY <1>4
    DEF AbandonGate, Goto, Counted, Ready, TypeOK, AttemptInv, AttemptOK, Reported, shared, locals
  <2> QED BY <1>4, <2>1 DEF AbandonGate, Counting, Uncounted, shared, locals
<1>5. ASSUME NEW i \in Conds, NEW raw \in CheckStatus, CheckReturns(i, raw) PROVE Counting
  <2>1. PICK r \in CheckStatus : result' = [result EXCEPT ![i] = r]
    BY <1>5, TakeResultType DEF CheckReturns, RoleResult, CheckStatus
  <2>2. \A j \in Ready : Counted(j)' <=> Counted(j)
    BY <1>5, <2>1 DEF CheckReturns, Goto, Counted, Ready, TypeOK, AttemptInv, AttemptOK, Reported, shared, locals
  <2> QED BY <1>5, <2>2 DEF CheckReturns, Counting, Uncounted
<1>6. ASSUME NEW i \in Conds, CheckExpires(i) PROVE Counting
  <2>1. PICK r \in CheckStatus : result' = [result EXCEPT ![i] = r]
    BY <1>6, TakeResultType DEF CheckExpires, CheckStatus
  <2>2. \A j \in Ready : Counted(j)' <=> Counted(j)
    BY <1>6, <2>1 DEF CheckExpires, Goto, Counted, Ready, TypeOK, AttemptInv, AttemptOK, Reported, shared, locals
  <2> QED BY <1>6, <2>2 DEF CheckExpires, Counting, Uncounted
<1>7. ASSUME NEW i \in Conds, CheckDropped(i) PROVE Counting
  <2>1. \A j \in Ready : Counted(j)' <=> Counted(j)
    BY <1>7
    DEF CheckDropped, Goto, Counted, Ready, TypeOK, AttemptInv, AttemptOK, Reported, shared, locals
  <2> QED BY <1>7, <2>1 DEF CheckDropped, Counting, Uncounted, shared, locals
<1>8. ASSUME NEW i \in Conds, DecideUnsatisfied(i) PROVE Counting
  <2>1. \A j \in Ready : Counted(j)' <=> Counted(j)
    BY <1>8, UpdateRecordEffect, AfterRecordCases
    DEF DecideUnsatisfied, Goto, Counted, Ready, TypeOK, AttemptInv, AttemptOK, Reported, shared, locals
  <2> QED BY <1>8, <2>1 DEF DecideUnsatisfied, Counting, Uncounted, shared, locals
<1>9. ASSUME NEW i \in Conds, DecideFatal(i) PROVE Counting
  <2>1. \A j \in Ready : Counted(j)' <=> Counted(j)
    BY <1>9
    DEF DecideFatal, Goto, Wins, Loses, Counted, Ready, TypeOK, AttemptInv, AttemptOK, Reported, shared, locals
  <2> QED BY <1>9, <2>1 DEF DecideFatal, Counting, Uncounted, shared, locals
<1>10. ASSUME NEW i \in Conds, DecideAny(i) PROVE Counting
  <2>1. i \in Uncounted
    BY <1>10 DEF DecideAny, Uncounted, Counted, AttemptInv, AttemptOK, Reported
  <2>2. CASE Loses /\ UpdateRecord(i) /\ Goto(i, AfterRecord(i))
    <3>1. \A j \in Ready : Counted(j)' <=> Counted(j) \/ j = i
      BY <1>10, <2>2, UpdateRecordEffect, AfterRecordCases
      DEF DecideAny, Goto, Loses, Counted, Ready, TypeOK, AttemptInv, AttemptOK, Reported, shared, locals
    <3>2. pc'[i] # "decide"
      BY <2>2, AfterRecordCases DEF Goto, TypeOK
    <3> QED BY <1>10, <2>1, <2>2, <3>1, <3>2 DEF DecideAny, Counting, Uncounted
  <2>3. CASE Wins("satisfied") /\ Goto(i, "cancel") /\ UNCHANGED records
    <3>1. \A j \in Ready : Counted(j)' <=> Counted(j) \/ j = i
      BY <1>10, <2>3 DEF DecideAny, Wins, Goto, Counted, Ready, TypeOK, AttemptInv, AttemptOK, Reported, shared, locals
    <3>2. pc'[i] # "decide"
      BY <2>3 DEF Goto, TypeOK
    <3> QED BY <1>10, <2>1, <2>3, <3>1, <3>2 DEF DecideAny, Counting, Uncounted
  <2> QED BY <1>10, <2>2, <2>3 DEF DecideAny
<1>11. ASSUME NEW i \in Conds, DecideAll(i) PROVE Counting
  <2>1. i \in Uncounted
    BY <1>11 DEF DecideAll, Uncounted, Counted, AttemptInv, AttemptOK, Reported
  <2>2. CASE UpdateRecord(i) /\ Goto(i, AfterRecord(i))
    <3>1. \A j \in Ready : Counted(j)' <=> Counted(j) \/ j = i
      BY <1>11, <2>2, UpdateRecordEffect, AfterRecordCases
      DEF DecideAll, Goto, Counted, Ready, TypeOK, AttemptInv, AttemptOK, Reported, shared, locals
    <3>2. pc'[i] # "decide"
      BY <2>2, AfterRecordCases DEF Goto, TypeOK
    <3> QED BY <1>11, <2>1, <2>2, <3>1, <3>2 DEF DecideAll, Counting, Uncounted
  <2>3. CASE Goto(i, "claim") /\ UNCHANGED records
    <3>1. \A j \in Ready : Counted(j)' <=> Counted(j) \/ j = i
      BY <1>11, <2>3 DEF DecideAll, Goto, Counted, Ready, TypeOK, AttemptInv, AttemptOK, Reported, shared, locals
    <3>2. pc'[i] # "decide"
      BY <2>3 DEF Goto, TypeOK
    <3> QED BY <1>11, <2>1, <2>3, <3>1, <3>2 DEF DecideAll, Counting, Uncounted
  <2> QED BY <1>11, <2>2, <2>3 DEF DecideAll
<1>12. ASSUME NEW i \in Conds, Claim(i) PROVE Counting
  <2>1. CASE Loses /\ UpdateRecord(i) /\ Goto(i, AfterRecord(i))
    <3>1. \A j \in Ready : Counted(j)' <=> Counted(j)
      BY <1>12, <2>1, UpdateRecordEffect, AfterRecordCases DEF Claim, Goto, Counted, Ready, TypeOK, AttemptInv, AttemptOK, Reported, shared, locals
    <3> QED BY <1>12, <3>1 DEF Claim, Counting, Uncounted
  <2>2. CASE Wins("satisfied") /\ Goto(i, "cancel") /\ UNCHANGED records
    <3>1. \A j \in Ready : Counted(j)' <=> Counted(j)
      BY <1>12, <2>2 DEF Claim, Goto, Counted, Ready, TypeOK, AttemptInv, AttemptOK, Reported, shared, locals
    <3> QED BY <1>12, <3>1 DEF Claim, Counting, Uncounted
  <2> QED BY <1>12, <2>1, <2>2 DEF Claim
<1>13. ASSUME NEW i \in Conds, CancelRun(i) PROVE Counting
  <2>1. \A j \in Ready : Counted(j)' <=> Counted(j)
    BY <1>13, UpdateRecordEffect, AfterRecordCases
    DEF CancelRun, Goto, Counted, Ready, TypeOK, AttemptInv, AttemptOK, Reported, shared, locals
  <2> QED BY <1>13, <2>1 DEF CancelRun, Counting, Uncounted, shared, locals
<1>14. ASSUME NEW i \in Conds, LockCallback(i) PROVE Counting
  <2>1. \A j \in Ready : Counted(j)' <=> Counted(j)
    BY <1>14
    DEF LockCallback, Goto, Counted, Ready, TypeOK, AttemptInv, AttemptOK, Reported, shared, locals
  <2> QED BY <1>14, <2>1 DEF LockCallback, Counting, Uncounted, shared, locals
<1>15. ASSUME NEW i \in Conds, CallbackReturns(i) PROVE Counting
  <2>1. \A j \in Ready : Counted(j)' <=> Counted(j)
    BY <1>15
    DEF CallbackReturns, Goto, AfterAttempt, Done, Counted, Ready, TypeOK, AttemptInv, AttemptOK, Reported, shared, locals
  <2> QED BY <1>15, <2>1 DEF CallbackReturns, Counting, Uncounted, shared, locals
<1>16. ASSUME NEW i \in Conds, TimerFires(i) PROVE Counting
  <2>1. \A j \in Ready : Counted(j)' <=> Counted(j)
    BY <1>16
    DEF TimerFires, Goto, Counted, Ready, TypeOK, AttemptInv, AttemptOK, Reported, shared, locals
  <2> QED BY <1>16, <2>1 DEF TimerFires, Counting, Uncounted, shared, locals
<1>17. ASSUME NEW i \in Conds, WaitCancelled(i) PROVE Counting
  <2>1. \A j \in Ready : Counted(j)' <=> Counted(j)
    BY <1>17
    DEF WaitCancelled, Goto, Counted, Ready, TypeOK, AttemptInv, AttemptOK, Reported, shared, locals
  <2> QED BY <1>17, <2>1 DEF WaitCancelled, Counting, Uncounted, shared, locals
<1>18. ASSUME NEW why \in {"deadline", "parent"}, EndContext(why) PROVE Counting
  BY <1>18 DEF EndContext, Counting, Uncounted, Counted, locals, shared
<1>19. ASSUME Return PROVE Counting
  BY <1>19 DEF Return, Counting, Uncounted, Counted, locals, shared
<1>20. ASSUME UNCHANGED vars PROVE Counting
  BY <1>20 DEF vars, Counting, Uncounted, Counted, locals, shared
<1> QED
  BY <1>1, <1>2, <1>3, <1>4, <1>5, <1>6, <1>7, <1>8, <1>9, <1>10, <1>11, <1>12,
     <1>13, <1>14, <1>15, <1>16, <1>17, <1>18, <1>19, <1>20 DEF Next, Poll, Decide,
     Pause, Deadline, ParentCancel, Returned

\* The counter stays the number of readiness conditions that do not count, and a
\* counter at zero has somebody to claim the run.
ClaimPending ==
    Mode = "all" /\ readyRemaining = 0 /\ terminal = "none" => \E i \in Ready : pc[i] = "claim"

\* There are finitely many conditions, so the ones that do not count yet have a cardinality.
LEMMA UncountedFinite == IsFiniteSet(Uncounted)
  BY RunConfig, FS_Subset DEF Uncounted, Ready

\* Whoever brings the counter to zero stays there to claim the run until it is decided.
LEMMA ClaimStep ==
    ASSUME TypeOK, AttemptInv, ClaimPending, [Next]_vars
    PROVE  ClaimPending'
<1> USE DEF ClaimPending
<1>1. ASSUME NEW i \in Conds, LeaveLoop(i) PROVE ClaimPending'
  BY <1>1 DEF LeaveLoop, Goto, TypeOK, AttemptInv, AttemptOK, Ready, shared, locals
<1>2. ASSUME NEW i \in Conds, BeginAttempt(i) PROVE ClaimPending'
  BY <1>2 DEF BeginAttempt, Goto, TypeOK, AttemptInv, AttemptOK, Ready, shared,
          locals
<1>3. ASSUME NEW i \in Conds, AcquireGate(i) PROVE ClaimPending'
  BY <1>3 DEF AcquireGate, Goto, TypeOK, AttemptInv, AttemptOK, Ready, shared,
          locals
<1>4. ASSUME NEW i \in Conds, AbandonGate(i) PROVE ClaimPending'
  BY <1>4 DEF AbandonGate, Goto, TypeOK, AttemptInv, AttemptOK, Ready, shared,
          locals
<1>5. ASSUME NEW i \in Conds, NEW raw \in CheckStatus, CheckReturns(i, raw) PROVE ClaimPending'
  BY <1>5 DEF CheckReturns, Goto, TypeOK, AttemptInv, AttemptOK, Ready, shared,
          locals
<1>6. ASSUME NEW i \in Conds, CheckExpires(i) PROVE ClaimPending'
  BY <1>6 DEF CheckExpires, Goto, TypeOK, AttemptInv, AttemptOK, Ready, shared,
          locals
<1>7. ASSUME NEW i \in Conds, CheckDropped(i) PROVE ClaimPending'
  BY <1>7 DEF CheckDropped, Goto, TypeOK, AttemptInv, AttemptOK, Ready, shared,
          locals
<1>8. ASSUME NEW i \in Conds, DecideUnsatisfied(i) PROVE ClaimPending'
  BY <1>8 DEF DecideUnsatisfied, Goto, UpdateRecord, AfterRecord, AfterAttempt,
          Done, TypeOK, AttemptInv, AttemptOK, Ready, shared, locals
<1>9. ASSUME NEW i \in Conds, DecideFatal(i) PROVE ClaimPending'
  BY <1>9 DEF DecideFatal, Goto, Wins, Loses, TypeOK, AttemptInv, AttemptOK, Ready,
          shared, locals
<1>10. ASSUME NEW i \in Conds, DecideAny(i) PROVE ClaimPending'
  BY <1>10 DEF DecideAny, Goto, Wins, Loses, TypeOK, AttemptInv, AttemptOK, Ready, shared, locals
<1>11. ASSUME NEW i \in Conds, DecideAll(i) PROVE ClaimPending'
  BY <1>11 DEF DecideAll, Goto, TypeOK, AttemptInv, AttemptOK, Ready
<1>12. ASSUME NEW i \in Conds, Claim(i) PROVE ClaimPending'
  BY <1>12 DEF Claim, Goto, Wins, Loses, UpdateRecord, AfterRecord, AfterAttempt,
          Done, TypeOK, AttemptInv, AttemptOK, Ready, shared, locals
<1>13. ASSUME NEW i \in Conds, CancelRun(i) PROVE ClaimPending'
  BY <1>13 DEF CancelRun, Goto, UpdateRecord, AfterRecord, AfterAttempt, Done,
          TypeOK, AttemptInv, AttemptOK, Ready, shared, locals
<1>14. ASSUME NEW i \in Conds, LockCallback(i) PROVE ClaimPending'
  BY <1>14 DEF LockCallback, Goto, TypeOK, AttemptInv, AttemptOK, Ready, shared,
          locals
<1>15. ASSUME NEW i \in Conds, CallbackReturns(i) PROVE ClaimPending'
  BY <1>15 DEF CallbackReturns, Goto, AfterAttempt, Done, TypeOK, AttemptInv,
          AttemptOK, Ready, shared, locals
<1>16. ASSUME NEW i \in Conds, TimerFires(i) PROVE ClaimPending'
  BY <1>16 DEF TimerFires, Goto, TypeOK, AttemptInv, AttemptOK, Ready, shared,
          locals
<1>17. ASSUME NEW i \in Conds, WaitCancelled(i) PROVE ClaimPending'
  BY <1>17 DEF WaitCancelled, Goto, TypeOK, AttemptInv, AttemptOK, Ready, shared,
          locals
<1>18. ASSUME NEW why \in {"deadline", "parent"}, EndContext(why) PROVE ClaimPending'
  BY <1>18 DEF EndContext, locals, TypeOK, AttemptInv, AttemptOK, Ready, shared,
          locals
<1>19. ASSUME Return PROVE ClaimPending'
  BY <1>19 DEF Return, shared, locals, TypeOK, AttemptInv, AttemptOK, Ready, shared,
          locals
<1>20. ASSUME UNCHANGED vars PROVE ClaimPending'
  BY <1>20 DEF vars, TypeOK, AttemptInv, AttemptOK, Ready, shared, locals
<1> QED
  BY <1>1, <1>2, <1>3, <1>4, <1>5, <1>6, <1>7, <1>8, <1>9, <1>10, <1>11, <1>12,
     <1>13, <1>14, <1>15, <1>16, <1>17, <1>18, <1>19, <1>20 DEF Next, Poll, Decide,
     Pause, Deadline, ParentCancel, Returned

\* The counter keeps being the number of readiness conditions that do not count yet.
LEMMA CounterStep ==
    ASSUME TypeOK, AttemptInv, CounterMatchesRecords, [Next]_vars
    PROVE  CounterMatchesRecords' /\ readyRemaining' \in Nat
<1>1. ClaimPending'
  BY ClaimStep DEF ClaimPending, CounterMatchesRecords
<1>2. Mode = "all" => readyRemaining' = Cardinality(Uncounted') /\ readyRemaining' \in Nat
  <2> SUFFICES ASSUME Mode = "all"
               PROVE  readyRemaining' = Cardinality(Uncounted') /\ readyRemaining' \in Nat
    OBVIOUS
  <2>1. readyRemaining = Cardinality(Uncounted)
    BY DEF CounterMatchesRecords
  <2>2. CASE Uncounted' = Uncounted /\ readyRemaining' = readyRemaining
    BY <2>1, <2>2 DEF TypeOK
  <2>3. ASSUME NEW i \in Uncounted, Uncounted' = Uncounted \ {i},
               readyRemaining' = readyRemaining - 1
        PROVE  readyRemaining' = Cardinality(Uncounted') /\ readyRemaining' \in Nat
    <3>1. Cardinality(Uncounted') = Cardinality(Uncounted) - 1
      BY <2>3, UncountedFinite, FS_RemoveElement
    <3>2. IsFiniteSet(Uncounted')
      BY <2>3, UncountedFinite, FS_RemoveElement
    <3>3. Cardinality(Uncounted') \in Nat
      BY <3>2, FS_CardinalityType
    <3> QED BY <2>1, <2>3, <3>1, <3>3
  <2> QED BY <2>2, <2>3, CountingStep DEF Counting
<1>3. Mode # "all" => readyRemaining' \in Nat
  BY CountingStep DEF Counting, TypeOK
<1> QED BY <1>1, <1>2, <1>3 DEF ClaimPending, CounterMatchesRecords

\* Every variable keeps its type; the counter does because of what it counts.
LEMMA TypeStep ==
    ASSUME TypeOK, AttemptInv, CounterMatchesRecords, [Next]_vars
    PROVE  TypeOK'
<1>1. ASSUME NEW i \in Conds, LeaveLoop(i) PROVE TypeOK'
  BY RunConfig, <1>1 DEF LeaveLoop, Goto, TypeOK, Steps, shared, locals
<1>2. ASSUME NEW i \in Conds, BeginAttempt(i) PROVE TypeOK'
  BY RunConfig, <1>2 DEF BeginAttempt, Goto, TypeOK, Steps, shared, locals
<1>3. ASSUME NEW i \in Conds, AcquireGate(i) PROVE TypeOK'
  BY RunConfig, <1>3 DEF AcquireGate, Goto, TypeOK, Steps, shared, locals
<1>4. ASSUME NEW i \in Conds, AbandonGate(i) PROVE TypeOK'
  BY RunConfig, <1>4 DEF AbandonGate, Goto, TypeOK, Steps, shared, locals
<1>5. ASSUME NEW i \in Conds, NEW raw \in CheckStatus, CheckReturns(i, raw) PROVE TypeOK'
  <2>1. /\ result' \in [Conds -> CheckStatus]
        /\ progress' \in [Conds -> [consecutive : Nat, stable : BOOLEAN]]
    BY <1>5, TakeResultType DEF CheckReturns, RoleResult, CheckStatus, TypeOK
  <2> QED BY <1>5, <2>1, RunConfig DEF CheckReturns, Goto, TypeOK, Steps
<1>6. ASSUME NEW i \in Conds, CheckExpires(i) PROVE TypeOK'
  <2>1. /\ result' \in [Conds -> CheckStatus]
        /\ progress' \in [Conds -> [consecutive : Nat, stable : BOOLEAN]]
    BY <1>6, TakeResultType DEF CheckExpires, CheckStatus, TypeOK
  <2> QED BY <1>6, <2>1, RunConfig DEF CheckExpires, Goto, TypeOK, Steps
<1>7. ASSUME NEW i \in Conds, CheckDropped(i) PROVE TypeOK'
  BY RunConfig, <1>7 DEF CheckDropped, Goto, TypeOK, Steps, shared, locals
<1>8. ASSUME NEW i \in Conds, DecideUnsatisfied(i) PROVE TypeOK'
  <2>1. AfterRecord(i) \in Steps
    BY AfterRecordCases DEF Steps
  <2>2. records' \in [Conds -> [satisfied : BOOLEAN, fatal : BOOLEAN, attempts : Nat]]
    BY <1>8, UpdateRecordEffect DEF DecideUnsatisfied, TypeOK
  <2> QED BY <1>8, <2>1, <2>2 DEF DecideUnsatisfied, Goto, TypeOK, Steps, shared
<1>9. ASSUME NEW i \in Conds, DecideFatal(i) PROVE TypeOK'
  BY RunConfig, <1>9 DEF DecideFatal, Goto, Wins, Loses, TypeOK, Steps, shared,
          locals
<1>10. ASSUME NEW i \in Conds, DecideAny(i) PROVE TypeOK'
  <2>1. AfterRecord(i) \in Steps
    BY AfterRecordCases DEF Steps
  <2>2. records' \in [Conds -> [satisfied : BOOLEAN, fatal : BOOLEAN, attempts : Nat]]
    BY <1>10, UpdateRecordEffect DEF DecideAny, TypeOK
  <2> QED BY <1>10, <2>1, <2>2 DEF DecideAny, Goto, Wins, Loses, TypeOK, Steps, shared
<1>11. ASSUME NEW i \in Conds, DecideAll(i) PROVE TypeOK'
  <2>1. AfterRecord(i) \in Steps
    BY AfterRecordCases DEF Steps
  <2>2. records' \in [Conds -> [satisfied : BOOLEAN, fatal : BOOLEAN, attempts : Nat]]
    BY <1>11, UpdateRecordEffect DEF DecideAll, TypeOK
  <2>3. readyRemaining' \in Nat
    BY CounterStep
  <2> QED BY <1>11, <2>1, <2>2, <2>3 DEF DecideAll, Goto, TypeOK, Steps, shared
<1>12. ASSUME NEW i \in Conds, Claim(i) PROVE TypeOK'
  <2>1. AfterRecord(i) \in Steps
    BY AfterRecordCases DEF Steps
  <2>2. records' \in [Conds -> [satisfied : BOOLEAN, fatal : BOOLEAN, attempts : Nat]]
    BY <1>12, UpdateRecordEffect DEF Claim, TypeOK
  <2> QED BY <1>12, <2>1, <2>2 DEF Claim, Goto, Wins, Loses, TypeOK, Steps, shared
<1>13. ASSUME NEW i \in Conds, CancelRun(i) PROVE TypeOK'
  <2>1. AfterRecord(i) \in Steps
    BY AfterRecordCases DEF Steps
  <2>2. records' \in [Conds -> [satisfied : BOOLEAN, fatal : BOOLEAN, attempts : Nat]]
    BY <1>13, UpdateRecordEffect DEF CancelRun, TypeOK
  <2> QED BY <1>13, <2>1, <2>2 DEF CancelRun, Goto, TypeOK, Steps, shared
<1>14. ASSUME NEW i \in Conds, LockCallback(i) PROVE TypeOK'
  BY RunConfig, <1>14 DEF LockCallback, Goto, TypeOK, Steps, shared, locals
<1>15. ASSUME NEW i \in Conds, CallbackReturns(i) PROVE TypeOK'
  BY RunConfig, <1>15 DEF CallbackReturns, Goto, AfterAttempt, Done, TypeOK, Steps,
          shared, locals
<1>16. ASSUME NEW i \in Conds, TimerFires(i) PROVE TypeOK'
  BY RunConfig, <1>16 DEF TimerFires, Goto, TypeOK, Steps, shared, locals
<1>17. ASSUME NEW i \in Conds, WaitCancelled(i) PROVE TypeOK'
  BY RunConfig, <1>17 DEF WaitCancelled, Goto, TypeOK, Steps, shared, locals
<1>18. ASSUME NEW why \in {"deadline", "parent"}, EndContext(why) PROVE TypeOK'
  BY RunConfig, <1>18 DEF EndContext, locals, TypeOK, Steps, shared, locals
<1>19. ASSUME Return PROVE TypeOK'
  BY <1>19 DEF Return, FinalStatus, TypeOK, shared, locals
<1>20. ASSUME UNCHANGED vars PROVE TypeOK'
  BY RunConfig, <1>20 DEF vars, TypeOK, Steps, shared, locals
<1> QED
  BY <1>1, <1>2, <1>3, <1>4, <1>5, <1>6, <1>7, <1>8, <1>9, <1>10, <1>11, <1>12,
     <1>13, <1>14, <1>15, <1>16, <1>17, <1>18, <1>19, <1>20 DEF Next, Poll, Decide,
     Pause, Deadline, ParentCancel, Returned

\* The owner of the verdict.
LEMMA OwnerKept ==
    ASSUME OwnerInv, terminal' = terminal,
           \A j \in Conds : (Owns(j)' <=> Owns(j)) /\ (records'[j].fatal <=> records[j].fatal)
    PROVE  OwnerInv'
  BY DEF OwnerInv

\* A verdict keeps its one owner until the run context is cancelled.
LEMMA OwnerStep ==
    ASSUME TypeOK, AttemptInv, OwnerInv, [Next]_vars
    PROVE  OwnerInv'
<1>1. ASSUME NEW i \in Conds, LeaveLoop(i) PROVE OwnerInv'
  BY <1>1 DEF LeaveLoop, Goto, OwnerInv, Owns, TypeOK, AttemptInv, AttemptOK,
          Reported, shared, locals
<1>2. ASSUME NEW i \in Conds, BeginAttempt(i) PROVE OwnerInv'
  BY <1>2 DEF BeginAttempt, Goto, OwnerInv, Owns, TypeOK, AttemptInv, AttemptOK,
          Reported, shared, locals
<1>3. ASSUME NEW i \in Conds, AcquireGate(i) PROVE OwnerInv'
  BY <1>3 DEF AcquireGate, Goto, OwnerInv, Owns, TypeOK, AttemptInv, AttemptOK,
          Reported, shared, locals
<1>4. ASSUME NEW i \in Conds, AbandonGate(i) PROVE OwnerInv'
  BY <1>4 DEF AbandonGate, Goto, OwnerInv, Owns, TypeOK, AttemptInv, AttemptOK,
          Reported, shared, locals
<1>5. ASSUME NEW i \in Conds, NEW raw \in CheckStatus, CheckReturns(i, raw) PROVE OwnerInv'
  BY <1>5 DEF CheckReturns, Goto, OwnerInv, Owns, TypeOK, AttemptInv, AttemptOK,
          Reported, shared, locals
<1>6. ASSUME NEW i \in Conds, CheckExpires(i) PROVE OwnerInv'
  BY <1>6 DEF CheckExpires, Goto, OwnerInv, Owns, TypeOK, AttemptInv, AttemptOK,
          Reported, shared, locals
<1>7. ASSUME NEW i \in Conds, CheckDropped(i) PROVE OwnerInv'
  BY <1>7 DEF CheckDropped, Goto, OwnerInv, Owns, TypeOK, AttemptInv, AttemptOK,
          Reported, shared, locals
<1>8. ASSUME NEW i \in Conds, DecideUnsatisfied(i) PROVE OwnerInv'
  <2>1. \A j \in Conds :
          (Owns(j)' <=> Owns(j)) /\ (records'[j].fatal <=> records[j].fatal)
    BY <1>8, UpdateRecordEffect, AfterRecordCases
    DEF DecideUnsatisfied, Goto, Owns, TypeOK, AttemptInv, AttemptOK, Reported
  <2>2. terminal' = terminal
    BY <1>8 DEF DecideUnsatisfied, shared
  <2> QED BY <2>1, <2>2, OwnerKept
<1>9. ASSUME NEW i \in Conds, DecideFatal(i) PROVE OwnerInv'
  BY <1>9 DEF DecideFatal, Goto, Wins, Loses, OwnerInv, Owns, TypeOK, AttemptInv,
          AttemptOK, Reported, shared, locals
<1>10. ASSUME NEW i \in Conds, DecideAny(i) PROVE OwnerInv'
  <2>1. CASE Loses /\ UpdateRecord(i) /\ Goto(i, AfterRecord(i))
    <3>1. \A j \in Conds :
            (Owns(j)' <=> Owns(j)) /\ (records'[j].fatal <=> records[j].fatal)
      BY <1>10, <2>1, UpdateRecordEffect, AfterRecordCases
      DEF DecideAny, Goto, Loses, Owns, TypeOK, AttemptInv, AttemptOK, Reported
    <3>2. terminal' = terminal
      BY <1>10, <2>1 DEF DecideAny, Loses, shared
    <3> QED BY <3>1, <3>2, OwnerKept
  <2>2. CASE Wins("satisfied") /\ Goto(i, "cancel") /\ UNCHANGED records
    BY <1>10, <2>2 DEF DecideAny, Goto, Wins, OwnerInv, Owns, TypeOK, AttemptInv, AttemptOK,
           Reported
  <2> QED BY <1>10, <2>1, <2>2 DEF DecideAny
<1>11. ASSUME NEW i \in Conds, DecideAll(i) PROVE OwnerInv'
  <2>1. \A j \in Conds :
          (Owns(j)' <=> Owns(j)) /\ (records'[j].fatal <=> records[j].fatal)
    BY <1>11, UpdateRecordEffect, AfterRecordCases
    DEF DecideAll, Goto, Owns, TypeOK, AttemptInv, AttemptOK, Reported
  <2>2. terminal' = terminal
    BY <1>11 DEF DecideAll, shared
  <2> QED BY <2>1, <2>2, OwnerKept
<1>12. ASSUME NEW i \in Conds, Claim(i) PROVE OwnerInv'
  <2>1. CASE Loses /\ UpdateRecord(i) /\ Goto(i, AfterRecord(i))
    BY <1>12, <2>1, UpdateRecordEffect, AfterRecordCases DEF Claim, Goto, Loses,
            OwnerInv, Owns, TypeOK, AttemptInv, AttemptOK, Reported, shared, locals
  <2>2. CASE Wins("satisfied") /\ Goto(i, "cancel") /\ UNCHANGED records
    BY <1>12, <2>2 DEF Claim, Goto, Wins, OwnerInv, Owns, TypeOK, AttemptInv,
            AttemptOK, Reported, shared, locals
  <2> QED BY <1>12, <2>1, <2>2 DEF Claim
<1>13. ASSUME NEW i \in Conds, CancelRun(i) PROVE OwnerInv'
  BY <1>13, UpdateRecordEffect, AfterRecordCases DEF CancelRun, Goto, OwnerInv,
          Owns, TypeOK, AttemptInv, AttemptOK, Reported, shared, locals
<1>14. ASSUME NEW i \in Conds, LockCallback(i) PROVE OwnerInv'
  BY <1>14 DEF LockCallback, Goto, OwnerInv, Owns, TypeOK, AttemptInv, AttemptOK,
          Reported, shared, locals
<1>15. ASSUME NEW i \in Conds, CallbackReturns(i) PROVE OwnerInv'
  BY <1>15 DEF CallbackReturns, Goto, AfterAttempt, Done, OwnerInv, Owns, TypeOK,
          AttemptInv, AttemptOK, Reported, shared, locals
<1>16. ASSUME NEW i \in Conds, TimerFires(i) PROVE OwnerInv'
  BY <1>16 DEF TimerFires, Goto, OwnerInv, Owns, TypeOK, AttemptInv, AttemptOK,
          Reported, shared, locals
<1>17. ASSUME NEW i \in Conds, WaitCancelled(i) PROVE OwnerInv'
  BY <1>17 DEF WaitCancelled, Goto, OwnerInv, Owns, TypeOK, AttemptInv, AttemptOK,
          Reported, shared, locals
<1>18. ASSUME NEW why \in {"deadline", "parent"}, EndContext(why) PROVE OwnerInv'
  BY <1>18 DEF EndContext, locals, OwnerInv, Owns, TypeOK, AttemptInv, AttemptOK,
          Reported, shared, locals
<1>19. ASSUME Return PROVE OwnerInv'
  BY <1>19 DEF Return, shared, locals, OwnerInv, Owns, TypeOK, AttemptInv,
          AttemptOK, Reported, shared, locals
<1>20. ASSUME UNCHANGED vars PROVE OwnerInv'
  BY <1>20 DEF vars, OwnerInv, Owns, TypeOK, AttemptInv, AttemptOK, Reported,
          shared, locals
<1> QED
  BY <1>1, <1>2, <1>3, <1>4, <1>5, <1>6, <1>7, <1>8, <1>9, <1>10, <1>11, <1>12,
     <1>13, <1>14, <1>15, <1>16, <1>17, <1>18, <1>19, <1>20 DEF Next, Poll, Decide,
     Pause, Deadline, ParentCancel, Returned

\* The runner's cancel.
LEMMA CancelStep ==
    ASSUME TypeOK, AttemptInv, CancelInv, OwnerInv, [Next]_vars
    PROVE  CancelInv'
<1>1. ASSUME NEW i \in Conds, LeaveLoop(i) PROVE CancelInv'
  BY <1>1 DEF LeaveLoop, Goto, CancelInv, TypeOK, AttemptInv, AttemptOK, Reported,
          shared, locals
<1>2. ASSUME NEW i \in Conds, BeginAttempt(i) PROVE CancelInv'
  BY <1>2 DEF BeginAttempt, Goto, CancelInv, TypeOK, AttemptInv, AttemptOK,
          Reported, shared, locals
<1>3. ASSUME NEW i \in Conds, AcquireGate(i) PROVE CancelInv'
  BY <1>3 DEF AcquireGate, Goto, CancelInv, TypeOK, AttemptInv, AttemptOK, Reported,
          shared, locals
<1>4. ASSUME NEW i \in Conds, AbandonGate(i) PROVE CancelInv'
  BY <1>4 DEF AbandonGate, Goto, CancelInv, TypeOK, AttemptInv, AttemptOK, Reported,
          shared, locals
<1>5. ASSUME NEW i \in Conds, NEW raw \in CheckStatus, CheckReturns(i, raw) PROVE CancelInv'
  BY <1>5 DEF CheckReturns, Goto, CancelInv, TypeOK, AttemptInv, AttemptOK,
          Reported, shared, locals
<1>6. ASSUME NEW i \in Conds, CheckExpires(i) PROVE CancelInv'
  BY <1>6 DEF CheckExpires, Goto, CancelInv, TypeOK, AttemptInv, AttemptOK,
          Reported, shared, locals
<1>7. ASSUME NEW i \in Conds, CheckDropped(i) PROVE CancelInv'
  BY <1>7 DEF CheckDropped, Goto, CancelInv, TypeOK, AttemptInv, AttemptOK,
          Reported, shared, locals
<1>8. ASSUME NEW i \in Conds, DecideUnsatisfied(i) PROVE CancelInv'
  BY <1>8, UpdateRecordEffect, AfterRecordCases DEF DecideUnsatisfied, Goto,
          CancelInv, TypeOK, AttemptInv, AttemptOK, Reported, shared, locals
<1>9. ASSUME NEW i \in Conds, DecideFatal(i) PROVE CancelInv'
  BY <1>9 DEF DecideFatal, Goto, Wins, Loses, CancelInv, TypeOK, AttemptInv,
          AttemptOK, Reported, shared, locals
<1>10. ASSUME NEW i \in Conds, DecideAny(i) PROVE CancelInv'
  <2>1. CASE Loses /\ UpdateRecord(i) /\ Goto(i, AfterRecord(i))
    BY <1>10, <2>1, UpdateRecordEffect, AfterRecordCases DEF DecideAny, Goto, Loses,
            CancelInv, TypeOK, AttemptInv, AttemptOK, Reported, shared, locals
  <2>2. CASE Wins("satisfied") /\ Goto(i, "cancel") /\ UNCHANGED records
    BY <1>10, <2>2 DEF DecideAny, Goto, Wins, CancelInv, TypeOK, AttemptInv,
            AttemptOK, Reported, shared, locals
  <2> QED BY <1>10, <2>1, <2>2 DEF DecideAny
<1>11. ASSUME NEW i \in Conds, DecideAll(i) PROVE CancelInv'
  BY <1>11, UpdateRecordEffect, AfterRecordCases DEF DecideAll, Goto, CancelInv,
          TypeOK, AttemptInv, AttemptOK, Reported, shared, locals
<1>12. ASSUME NEW i \in Conds, Claim(i) PROVE CancelInv'
  <2>1. CASE Loses /\ UpdateRecord(i) /\ Goto(i, AfterRecord(i))
    BY <1>12, <2>1, UpdateRecordEffect, AfterRecordCases DEF Claim, Goto, Loses,
            CancelInv, TypeOK, AttemptInv, AttemptOK, Reported, shared, locals
  <2>2. CASE Wins("satisfied") /\ Goto(i, "cancel") /\ UNCHANGED records
    BY <1>12, <2>2 DEF Claim, Goto, Wins, CancelInv, TypeOK, AttemptInv, AttemptOK,
            Reported, shared, locals
  <2> QED BY <1>12, <2>1, <2>2 DEF Claim
<1>13. ASSUME NEW i \in Conds, CancelRun(i) PROVE CancelInv'
  BY <1>13, UpdateRecordEffect, AfterRecordCases DEF CancelRun, Goto, CancelInv,
          TypeOK, AttemptInv, AttemptOK, Reported, shared, locals
<1>14. ASSUME NEW i \in Conds, LockCallback(i) PROVE CancelInv'
  BY <1>14 DEF LockCallback, Goto, CancelInv, TypeOK, AttemptInv, AttemptOK,
          Reported, shared, locals
<1>15. ASSUME NEW i \in Conds, CallbackReturns(i) PROVE CancelInv'
  BY <1>15 DEF CallbackReturns, Goto, AfterAttempt, Done, CancelInv, TypeOK,
          AttemptInv, AttemptOK, Reported, shared, locals
<1>16. ASSUME NEW i \in Conds, TimerFires(i) PROVE CancelInv'
  BY <1>16 DEF TimerFires, Goto, CancelInv, TypeOK, AttemptInv, AttemptOK, Reported,
          shared, locals
<1>17. ASSUME NEW i \in Conds, WaitCancelled(i) PROVE CancelInv'
  BY <1>17 DEF WaitCancelled, Goto, CancelInv, TypeOK, AttemptInv, AttemptOK,
          Reported, shared, locals
<1>18. ASSUME NEW why \in {"deadline", "parent"}, EndContext(why) PROVE CancelInv'
  BY <1>18 DEF EndContext, locals, CancelInv, TypeOK, AttemptInv, AttemptOK,
          Reported, shared, locals
<1>19. ASSUME Return PROVE CancelInv'
  BY <1>19 DEF Return, shared, locals, CancelInv, TypeOK, AttemptInv, AttemptOK,
          Reported, shared, locals
<1>20. ASSUME UNCHANGED vars PROVE CancelInv'
  BY <1>20 DEF vars, CancelInv, TypeOK, AttemptInv, AttemptOK, Reported, shared,
          locals
<1> QED
  BY <1>1, <1>2, <1>3, <1>4, <1>5, <1>6, <1>7, <1>8, <1>9, <1>10, <1>11, <1>12,
     <1>13, <1>14, <1>15, <1>16, <1>17, <1>18, <1>19, <1>20 DEF Next, Poll, Decide,
     Pause, Deadline, ParentCancel, Returned

\* The terminal word changes once, and only by the three compare-and-swaps.
Settling ==
    \/ terminal' = terminal
    \/ \E i \in Conds :
         /\ terminal = "none"
         /\ \/ DecideFatal(i) /\ terminal' = "fatal"
            \/ (DecideAny(i) \/ Claim(i)) /\ terminal' = "satisfied" /\ pc'[i] = "cancel"

\* A verdict is set once, by a fatal result or by a claim, and never changed.
LEMMA SettlingStep ==
    ASSUME TypeOK, [Next]_vars
    PROVE  Settling
<1>1. ASSUME NEW i \in Conds, LeaveLoop(i) PROVE Settling
  BY <1>1 DEF LeaveLoop, Goto, Settling, TypeOK, shared, locals
<1>2. ASSUME NEW i \in Conds, BeginAttempt(i) PROVE Settling
  BY <1>2 DEF BeginAttempt, Goto, Settling, TypeOK, shared, locals
<1>3. ASSUME NEW i \in Conds, AcquireGate(i) PROVE Settling
  BY <1>3 DEF AcquireGate, Goto, Settling, TypeOK, shared, locals
<1>4. ASSUME NEW i \in Conds, AbandonGate(i) PROVE Settling
  BY <1>4 DEF AbandonGate, Goto, Settling, TypeOK, shared, locals
<1>5. ASSUME NEW i \in Conds, NEW raw \in CheckStatus, CheckReturns(i, raw) PROVE Settling
  BY <1>5 DEF CheckReturns, Goto, Settling, TypeOK, shared, locals
<1>6. ASSUME NEW i \in Conds, CheckExpires(i) PROVE Settling
  BY <1>6 DEF CheckExpires, Goto, Settling, TypeOK, shared, locals
<1>7. ASSUME NEW i \in Conds, CheckDropped(i) PROVE Settling
  BY <1>7 DEF CheckDropped, Goto, Settling, TypeOK, shared, locals
<1>8. ASSUME NEW i \in Conds, DecideUnsatisfied(i) PROVE Settling
  BY <1>8 DEF DecideUnsatisfied, Goto, UpdateRecord, AfterRecord, AfterAttempt,
          Done, Settling, TypeOK, shared, locals
<1>9. ASSUME NEW i \in Conds, DecideFatal(i) PROVE Settling
  BY <1>9 DEF DecideFatal, Goto, Wins, Loses, Settling, TypeOK, shared, locals
<1>10. ASSUME NEW i \in Conds, DecideAny(i) PROVE Settling
  BY <1>10 DEF DecideAny, Goto, Wins, Loses, UpdateRecord, AfterRecord,
          AfterAttempt, Done, Settling, TypeOK, shared, locals
<1>11. ASSUME NEW i \in Conds, DecideAll(i) PROVE Settling
  BY <1>11 DEF DecideAll, Goto, UpdateRecord, AfterRecord, AfterAttempt, Done,
          Settling, TypeOK, shared, locals
<1>12. ASSUME NEW i \in Conds, Claim(i) PROVE Settling
  BY <1>12 DEF Claim, Goto, Wins, Loses, UpdateRecord, AfterRecord, AfterAttempt,
          Done, Settling, TypeOK, shared, locals
<1>13. ASSUME NEW i \in Conds, CancelRun(i) PROVE Settling
  BY <1>13 DEF CancelRun, Goto, UpdateRecord, AfterRecord, AfterAttempt, Done,
          Settling, TypeOK, shared, locals
<1>14. ASSUME NEW i \in Conds, LockCallback(i) PROVE Settling
  BY <1>14 DEF LockCallback, Goto, Settling, TypeOK, shared, locals
<1>15. ASSUME NEW i \in Conds, CallbackReturns(i) PROVE Settling
  BY <1>15 DEF CallbackReturns, Goto, AfterAttempt, Done, Settling, TypeOK, shared,
          locals
<1>16. ASSUME NEW i \in Conds, TimerFires(i) PROVE Settling
  BY <1>16 DEF TimerFires, Goto, Settling, TypeOK, shared, locals
<1>17. ASSUME NEW i \in Conds, WaitCancelled(i) PROVE Settling
  BY <1>17 DEF WaitCancelled, Goto, Settling, TypeOK, shared, locals
<1>18. ASSUME NEW why \in {"deadline", "parent"}, EndContext(why) PROVE Settling
  BY <1>18 DEF EndContext, locals, Settling, TypeOK, shared, locals
<1>19. ASSUME Return PROVE Settling
  BY <1>19 DEF Return, shared, locals, Settling, TypeOK, shared, locals
<1>20. ASSUME UNCHANGED vars PROVE Settling
  BY <1>20 DEF vars, Settling, TypeOK, shared, locals
<1> QED
  BY <1>1, <1>2, <1>3, <1>4, <1>5, <1>6, <1>7, <1>8, <1>9, <1>10, <1>11, <1>12,
     <1>13, <1>14, <1>15, <1>16, <1>17, <1>18, <1>19, <1>20 DEF Next, Poll, Decide,
     Pause, Deadline, ParentCancel, Returned

\* In mode any a satisfied record means a decided run.
RecordedAny ==
    \A i \in Conds : Mode = "any" /\ records[i].satisfied => terminal # "none"

\* In mode any nobody records a success before the run is decided.
LEMMA RecordedAnyStep ==
    ASSUME TypeOK, AttemptInv, RecordedAny, [Next]_vars
    PROVE  RecordedAny'
<1>1. ASSUME NEW i \in Conds, LeaveLoop(i) PROVE RecordedAny'
  BY <1>1 DEF LeaveLoop, Goto, RecordedAny, TypeOK, AttemptInv, AttemptOK, Reported,
          shared, locals
<1>2. ASSUME NEW i \in Conds, BeginAttempt(i) PROVE RecordedAny'
  BY <1>2 DEF BeginAttempt, Goto, RecordedAny, TypeOK, AttemptInv, AttemptOK,
          Reported, shared, locals
<1>3. ASSUME NEW i \in Conds, AcquireGate(i) PROVE RecordedAny'
  BY <1>3 DEF AcquireGate, Goto, RecordedAny, TypeOK, AttemptInv, AttemptOK,
          Reported, shared, locals
<1>4. ASSUME NEW i \in Conds, AbandonGate(i) PROVE RecordedAny'
  BY <1>4 DEF AbandonGate, Goto, RecordedAny, TypeOK, AttemptInv, AttemptOK,
          Reported, shared, locals
<1>5. ASSUME NEW i \in Conds, NEW raw \in CheckStatus, CheckReturns(i, raw) PROVE RecordedAny'
  BY <1>5 DEF CheckReturns, Goto, RecordedAny, TypeOK, AttemptInv, AttemptOK,
          Reported, shared, locals
<1>6. ASSUME NEW i \in Conds, CheckExpires(i) PROVE RecordedAny'
  BY <1>6 DEF CheckExpires, Goto, RecordedAny, TypeOK, AttemptInv, AttemptOK,
          Reported, shared, locals
<1>7. ASSUME NEW i \in Conds, CheckDropped(i) PROVE RecordedAny'
  BY <1>7 DEF CheckDropped, Goto, RecordedAny, TypeOK, AttemptInv, AttemptOK,
          Reported, shared, locals
<1>8. ASSUME NEW i \in Conds, DecideUnsatisfied(i) PROVE RecordedAny'
  BY <1>8, UpdateRecordEffect, AfterRecordCases DEF DecideUnsatisfied, Goto,
          RecordedAny, TypeOK, AttemptInv, AttemptOK, Reported, shared, locals
<1>9. ASSUME NEW i \in Conds, DecideFatal(i) PROVE RecordedAny'
  BY <1>9 DEF DecideFatal, Goto, Wins, Loses, RecordedAny, TypeOK, AttemptInv,
          AttemptOK, Reported, shared, locals
<1>10. ASSUME NEW i \in Conds, DecideAny(i) PROVE RecordedAny'
  <2>1. CASE Loses /\ UpdateRecord(i) /\ Goto(i, AfterRecord(i))
    BY <1>10, <2>1, UpdateRecordEffect, AfterRecordCases DEF DecideAny, Goto, Loses,
            RecordedAny, TypeOK, AttemptInv, AttemptOK, Reported, shared, locals
  <2>2. CASE Wins("satisfied") /\ Goto(i, "cancel") /\ UNCHANGED records
    BY <1>10, <2>2 DEF DecideAny, Goto, Wins, RecordedAny, TypeOK, AttemptInv,
            AttemptOK, Reported, shared, locals
  <2> QED BY <1>10, <2>1, <2>2 DEF DecideAny
<1>11. ASSUME NEW i \in Conds, DecideAll(i) PROVE RecordedAny'
  BY <1>11, UpdateRecordEffect, AfterRecordCases DEF DecideAll, Goto, RecordedAny,
          TypeOK, AttemptInv, AttemptOK, Reported, shared, locals
<1>12. ASSUME NEW i \in Conds, Claim(i) PROVE RecordedAny'
  <2>1. CASE Loses /\ UpdateRecord(i) /\ Goto(i, AfterRecord(i))
    BY <1>12, <2>1, UpdateRecordEffect, AfterRecordCases DEF Claim, Goto, Loses,
            RecordedAny, TypeOK, AttemptInv, AttemptOK, Reported, shared, locals
  <2>2. CASE Wins("satisfied") /\ Goto(i, "cancel") /\ UNCHANGED records
    BY <1>12, <2>2 DEF Claim, Goto, Wins, RecordedAny, TypeOK, AttemptInv,
            AttemptOK, Reported, shared, locals
  <2> QED BY <1>12, <2>1, <2>2 DEF Claim
<1>13. ASSUME NEW i \in Conds, CancelRun(i) PROVE RecordedAny'
  BY <1>13, UpdateRecordEffect, AfterRecordCases DEF CancelRun, Goto, RecordedAny,
          TypeOK, AttemptInv, AttemptOK, Reported, shared, locals
<1>14. ASSUME NEW i \in Conds, LockCallback(i) PROVE RecordedAny'
  BY <1>14 DEF LockCallback, Goto, RecordedAny, TypeOK, AttemptInv, AttemptOK,
          Reported, shared, locals
<1>15. ASSUME NEW i \in Conds, CallbackReturns(i) PROVE RecordedAny'
  BY <1>15 DEF CallbackReturns, Goto, AfterAttempt, Done, RecordedAny, TypeOK,
          AttemptInv, AttemptOK, Reported, shared, locals
<1>16. ASSUME NEW i \in Conds, TimerFires(i) PROVE RecordedAny'
  BY <1>16 DEF TimerFires, Goto, RecordedAny, TypeOK, AttemptInv, AttemptOK,
          Reported, shared, locals
<1>17. ASSUME NEW i \in Conds, WaitCancelled(i) PROVE RecordedAny'
  BY <1>17 DEF WaitCancelled, Goto, RecordedAny, TypeOK, AttemptInv, AttemptOK,
          Reported, shared, locals
<1>18. ASSUME NEW why \in {"deadline", "parent"}, EndContext(why) PROVE RecordedAny'
  BY <1>18 DEF EndContext, locals, RecordedAny, TypeOK, AttemptInv, AttemptOK,
          Reported, shared, locals
<1>19. ASSUME Return PROVE RecordedAny'
  BY <1>19 DEF Return, shared, locals, RecordedAny, TypeOK, AttemptInv, AttemptOK,
          Reported, shared, locals
<1>20. ASSUME UNCHANGED vars PROVE RecordedAny'
  BY <1>20 DEF vars, RecordedAny, TypeOK, AttemptInv, AttemptOK, Reported, shared,
          locals
<1> QED
  BY <1>1, <1>2, <1>3, <1>4, <1>5, <1>6, <1>7, <1>8, <1>9, <1>10, <1>11, <1>12,
     <1>13, <1>14, <1>15, <1>16, <1>17, <1>18, <1>19, <1>20 DEF Next, Poll, Decide,
     Pause, Deadline, ParentCancel, Returned

\* Whoever claims the run has seen every readiness condition count.
Claims == \A i \in Conds : pc[i] = "claim" => Uncounted = {}

\* Nobody claims a run of which a readiness condition does not count yet.
LEMMA ClaimsStep ==
    ASSUME TypeOK, AttemptInv, CounterMatchesRecords, Claims, [Next]_vars
    PROVE  Claims'
<1> USE DEF Claims
<1>a. Uncounted' \subseteq Uncounted
  BY CountingStep DEF Counting
<1>1. ASSUME NEW i \in Conds, LeaveLoop(i) PROVE Claims'
  BY <1>a, <1>1 DEF LeaveLoop, Goto, TypeOK, shared, locals
<1>2. ASSUME NEW i \in Conds, BeginAttempt(i) PROVE Claims'
  BY <1>a, <1>2 DEF BeginAttempt, Goto, TypeOK, shared, locals
<1>3. ASSUME NEW i \in Conds, AcquireGate(i) PROVE Claims'
  BY <1>a, <1>3 DEF AcquireGate, Goto, TypeOK, shared, locals
<1>4. ASSUME NEW i \in Conds, AbandonGate(i) PROVE Claims'
  BY <1>a, <1>4 DEF AbandonGate, Goto, TypeOK, shared, locals
<1>5. ASSUME NEW i \in Conds, NEW raw \in CheckStatus, CheckReturns(i, raw) PROVE Claims'
  BY <1>a, <1>5 DEF CheckReturns, Goto, TypeOK, shared, locals
<1>6. ASSUME NEW i \in Conds, CheckExpires(i) PROVE Claims'
  BY <1>a, <1>6 DEF CheckExpires, Goto, TypeOK, shared, locals
<1>7. ASSUME NEW i \in Conds, CheckDropped(i) PROVE Claims'
  BY <1>a, <1>7 DEF CheckDropped, Goto, TypeOK, shared, locals
<1>8. ASSUME NEW i \in Conds, DecideUnsatisfied(i) PROVE Claims'
  BY <1>a, <1>8, UpdateRecordEffect, AfterRecordCases DEF DecideUnsatisfied, Goto,
          TypeOK, shared, locals
<1>9. ASSUME NEW i \in Conds, DecideFatal(i) PROVE Claims'
  BY <1>a, <1>9 DEF DecideFatal, Goto, Wins, Loses, TypeOK, shared, locals
<1>10. ASSUME NEW i \in Conds, DecideAny(i) PROVE Claims'
  <2>1. CASE Loses /\ UpdateRecord(i) /\ Goto(i, AfterRecord(i))
    BY <1>a, <1>10, <2>1, UpdateRecordEffect, AfterRecordCases DEF DecideAny, Goto,
            Loses, TypeOK, shared, locals
  <2>2. CASE Wins("satisfied") /\ Goto(i, "cancel") /\ UNCHANGED records
    BY <1>a, <1>10, <2>2 DEF DecideAny, Goto, Wins, TypeOK, shared, locals
  <2> QED BY <1>10, <2>1, <2>2 DEF DecideAny
<1>11. ASSUME NEW i \in Conds, DecideAll(i) PROVE Claims'
  <2>1. ASSUME NEW j \in Conds, pc'[j] = "claim", j # i PROVE Uncounted' = {}
    BY <1>a, <1>11, <2>1 DEF DecideAll, Goto, TypeOK
  <2>2. ASSUME pc'[i] = "claim" PROVE Uncounted' = {}
    <3>1. readyRemaining' = 0
      BY <1>11, <2>2, AfterRecordCases DEF DecideAll, Goto, TypeOK
    <3>2. IsFiniteSet(Uncounted') /\ Cardinality(Uncounted') = 0
      BY <1>a, <1>11, <3>1, UncountedFinite, CounterStep, FS_Subset
      DEF DecideAll, CounterMatchesRecords
    <3> QED BY <3>2, FS_EmptySet
  <2> QED BY <2>1, <2>2
<1>12. ASSUME NEW i \in Conds, Claim(i) PROVE Claims'
  <2>1. CASE Loses /\ UpdateRecord(i) /\ Goto(i, AfterRecord(i))
    BY <1>a, <1>12, <2>1, UpdateRecordEffect, AfterRecordCases DEF Claim, Goto,
            Loses, TypeOK, shared, locals
  <2>2. CASE Wins("satisfied") /\ Goto(i, "cancel") /\ UNCHANGED records
    BY <1>a, <1>12, <2>2 DEF Claim, Goto, Wins, TypeOK, shared, locals
  <2> QED BY <1>12, <2>1, <2>2 DEF Claim
<1>13. ASSUME NEW i \in Conds, CancelRun(i) PROVE Claims'
  BY <1>a, <1>13, UpdateRecordEffect, AfterRecordCases DEF CancelRun, Goto, TypeOK,
          shared, locals
<1>14. ASSUME NEW i \in Conds, LockCallback(i) PROVE Claims'
  BY <1>a, <1>14 DEF LockCallback, Goto, TypeOK, shared, locals
<1>15. ASSUME NEW i \in Conds, CallbackReturns(i) PROVE Claims'
  BY <1>a, <1>15 DEF CallbackReturns, Goto, AfterAttempt, Done, TypeOK, shared,
          locals
<1>16. ASSUME NEW i \in Conds, TimerFires(i) PROVE Claims'
  BY <1>a, <1>16 DEF TimerFires, Goto, TypeOK, shared, locals
<1>17. ASSUME NEW i \in Conds, WaitCancelled(i) PROVE Claims'
  BY <1>a, <1>17 DEF WaitCancelled, Goto, TypeOK, shared, locals
<1>18. ASSUME NEW why \in {"deadline", "parent"}, EndContext(why) PROVE Claims'
  BY <1>a, <1>18 DEF EndContext, locals, TypeOK, shared, locals
<1>19. ASSUME Return PROVE Claims'
  BY <1>a, <1>19 DEF Return, shared, locals, TypeOK, shared, locals
<1>20. ASSUME UNCHANGED vars PROVE Claims'
  BY <1>a, <1>20 DEF vars, TypeOK, shared, locals
<1> QED
  BY <1>1, <1>2, <1>3, <1>4, <1>5, <1>6, <1>7, <1>8, <1>9, <1>10, <1>11, <1>12,
     <1>13, <1>14, <1>15, <1>16, <1>17, <1>18, <1>19, <1>20 DEF Next, Poll, Decide,
     Pause, Deadline, ParentCancel, Returned

\* The grounds of a satisfied verdict.
LEMMA GoalStep ==
    ASSUME TypeOK, AttemptInv, CounterMatchesRecords, GoalInv, [Next]_vars
    PROVE  GoalInv'
<1>1. RecordedAny'
  BY RecordedAnyStep DEF GoalInv, RecordedAny
<1>2. Claims'
  BY ClaimsStep DEF GoalInv, Claims
<1>3. terminal' = "satisfied" =>
        IF Mode = "any" THEN Uncounted' # Ready ELSE Uncounted' = {}
  <2>1. Uncounted' \subseteq Uncounted /\ Uncounted \subseteq Ready
    BY CountingStep DEF Counting, Uncounted
  <2>2. CASE terminal' = terminal
    BY <2>1, <2>2 DEF GoalInv
  <2>3. CASE terminal' = "fatal"
    BY <2>3
  <2>4. ASSUME NEW i \in Conds, DecideAny(i), pc'[i] = "cancel"
        PROVE  Mode = "any" /\ Uncounted' # Ready
    <3>1. i \in Ready /\ Counted(i)'
      BY <2>4 DEF DecideAny, Counted, AttemptInv, AttemptOK
    <3> QED BY <2>4, <3>1 DEF DecideAny, Uncounted
  <2>5. ASSUME NEW i \in Conds, Claim(i)
        PROVE  Mode = "all" /\ Uncounted' = {}
    BY <2>1, <2>5 DEF Claim, GoalInv, AttemptInv, AttemptOK
  <2> QED BY <2>2, <2>3, <2>4, <2>5, SettlingStep DEF Settling
<1> QED BY <1>1, <1>2, <1>3 DEF GoalInv, RecordedAny, Claims

\* An undecided run that returns has met no goal, has no fatal record, and ended by
\* its deadline or by its caller: the fallbacks of finalStatus are never needed.
LEMMA UndecidedReturn ==
    ASSUME TypeOK, AttemptInv, CounterMatchesRecords, OwnerInv, CancelInv, GoalInv, Return,
           terminal = "none"
    PROVE  /\ \A i \in Conds : ~records[i].fatal
           /\ ~OutcomeSatisfied
           /\ ctx \in {"deadline", "parent"}
<1>1. \A i \in Conds : pc[i] = "exited" /\ ~records[i].fatal
  BY DEF Return, OwnerInv
<1>2. ~OutcomeSatisfied
  <2>1. CASE Mode = "any"
    BY <2>1 DEF OutcomeSatisfied, GoalInv, Ready
  <2>2. CASE Mode = "all"
    <3>1. Uncounted # {}
      BY <1>1, <2>2, FS_EmptySet DEF CounterMatchesRecords, Ready
    <3> QED BY <1>1, <2>2, <3>1 DEF OutcomeSatisfied, Uncounted, Counted
  <2> QED BY <2>1, <2>2, RunConfig
<1>3. ctx # "live"
  <2> SUFFICES ASSUME ctx = "live" PROVE OutcomeSatisfied
    BY <1>2
  <2>1. \A i \in Ready : records[i].satisfied
    BY <1>1 DEF AttemptInv, AttemptOK, Reported, TypeOK, CheckStatus, Ready
  <2> QED BY <2>1, RunConfig DEF OutcomeSatisfied
<1> QED BY <1>1, <1>2, <1>3 DEF CancelInv, TypeOK

\* What Run returns.
LEMMA OutcomeReturn ==
    ASSUME TypeOK, AttemptInv, CounterMatchesRecords, OwnerInv, CancelInv, GoalInv, Return
    PROVE  OutcomeInv'
<1>1. /\ \A i \in Conds : pc[i] = "exited" /\ pc'[i] = "exited"
      /\ records' = records /\ ctx' = ctx /\ terminal' = terminal
      /\ outcome' = FinalStatus
  BY DEF Return, shared, locals
<1>2. \A i \in Ready : i \in Uncounted <=> ~records[i].satisfied
  BY <1>1 DEF Uncounted, Counted, Ready
<1>3. CASE terminal = "satisfied"
  <2>1. OutcomeSatisfied
    BY <1>2, <1>3 DEF GoalInv, OutcomeSatisfied, Uncounted
  <2>2. \A i \in Conds : ~records[i].fatal
    BY <1>3 DEF OwnerInv
  <2> QED BY <1>1, <1>3, <2>1, <2>2
      DEF OutcomeInv, FinalStatus, ReportMatchesRecords, ReportMatchesCause, OutcomeSatisfied
<1>4. CASE terminal = "fatal"
  <2>1. PICK i \in Conds : Owns(i)
    BY <1>4 DEF OwnerInv
  <2>2. \A j \in Conds : records[j].fatal <=> j = i
    BY <1>1, <2>1 DEF OwnerInv, Owns
  <2> QED BY <1>1, <1>4, <2>2
      DEF OutcomeInv, FinalStatus, ReportMatchesRecords, ReportMatchesCause
<1>5. CASE terminal = "none"
  <2>1. /\ \A i \in Conds : ~records[i].fatal
        /\ ~OutcomeSatisfied
        /\ ctx \in {"deadline", "parent"}
    BY <1>5, UndecidedReturn
  <2> QED BY <1>1, <1>5, <2>1
      DEF OutcomeInv, FinalStatus, ReportMatchesRecords, ReportMatchesCause, OutcomeSatisfied
<1> QED BY <1>3, <1>4, <1>5 DEF TypeOK

\* What is reported agrees with the records and with the cause at the join and stays so.
LEMMA OutcomeStep ==
    ASSUME RunInv, [Next]_vars
    PROVE  OutcomeInv'
<1> USE DEF RunInv
<1>1. ASSUME NEW i \in Conds, LeaveLoop(i) PROVE OutcomeInv'
  <2>1. outcome = "none" /\ outcome' = "none"
    BY <1>1 DEF LeaveLoop, OutcomeInv, shared
  <2> QED BY <2>1 DEF OutcomeInv, ReportMatchesRecords, ReportMatchesCause
<1>2. ASSUME NEW i \in Conds, BeginAttempt(i) PROVE OutcomeInv'
  <2>1. outcome = "none" /\ outcome' = "none"
    BY <1>2 DEF BeginAttempt, OutcomeInv, shared
  <2> QED BY <2>1 DEF OutcomeInv, ReportMatchesRecords, ReportMatchesCause
<1>3. ASSUME NEW i \in Conds, AcquireGate(i) PROVE OutcomeInv'
  <2>1. outcome = "none" /\ outcome' = "none"
    BY <1>3 DEF AcquireGate, OutcomeInv, shared
  <2> QED BY <2>1 DEF OutcomeInv, ReportMatchesRecords, ReportMatchesCause
<1>4. ASSUME NEW i \in Conds, AbandonGate(i) PROVE OutcomeInv'
  <2>1. outcome = "none" /\ outcome' = "none"
    BY <1>4 DEF AbandonGate, OutcomeInv, shared
  <2> QED BY <2>1 DEF OutcomeInv, ReportMatchesRecords, ReportMatchesCause
<1>5. ASSUME NEW i \in Conds, NEW raw \in CheckStatus, CheckReturns(i, raw) PROVE OutcomeInv'
  <2>1. outcome = "none" /\ outcome' = "none"
    BY <1>5 DEF CheckReturns, OutcomeInv, shared
  <2> QED BY <2>1 DEF OutcomeInv, ReportMatchesRecords, ReportMatchesCause
<1>6. ASSUME NEW i \in Conds, CheckExpires(i) PROVE OutcomeInv'
  <2>1. outcome = "none" /\ outcome' = "none"
    BY <1>6 DEF CheckExpires, OutcomeInv, shared
  <2> QED BY <2>1 DEF OutcomeInv, ReportMatchesRecords, ReportMatchesCause
<1>7. ASSUME NEW i \in Conds, CheckDropped(i) PROVE OutcomeInv'
  <2>1. outcome = "none" /\ outcome' = "none"
    BY <1>7 DEF CheckDropped, OutcomeInv, shared
  <2> QED BY <2>1 DEF OutcomeInv, ReportMatchesRecords, ReportMatchesCause
<1>8. ASSUME NEW i \in Conds, DecideUnsatisfied(i) PROVE OutcomeInv'
  <2>1. outcome = "none" /\ outcome' = "none"
    BY <1>8 DEF DecideUnsatisfied, OutcomeInv, shared
  <2> QED BY <2>1 DEF OutcomeInv, ReportMatchesRecords, ReportMatchesCause
<1>9. ASSUME NEW i \in Conds, DecideFatal(i) PROVE OutcomeInv'
  <2>1. outcome = "none" /\ outcome' = "none"
    BY <1>9 DEF DecideFatal, OutcomeInv, shared
  <2> QED BY <2>1 DEF OutcomeInv, ReportMatchesRecords, ReportMatchesCause
<1>10. ASSUME NEW i \in Conds, DecideAny(i) PROVE OutcomeInv'
  <2>1. outcome = "none" /\ outcome' = "none"
    BY <1>10 DEF DecideAny, OutcomeInv, shared
  <2> QED BY <2>1 DEF OutcomeInv, ReportMatchesRecords, ReportMatchesCause
<1>11. ASSUME NEW i \in Conds, DecideAll(i) PROVE OutcomeInv'
  <2>1. outcome = "none" /\ outcome' = "none"
    BY <1>11 DEF DecideAll, OutcomeInv, shared
  <2> QED BY <2>1 DEF OutcomeInv, ReportMatchesRecords, ReportMatchesCause
<1>12. ASSUME NEW i \in Conds, Claim(i) PROVE OutcomeInv'
  <2>1. outcome = "none" /\ outcome' = "none"
    BY <1>12 DEF Claim, OutcomeInv, shared
  <2> QED BY <2>1 DEF OutcomeInv, ReportMatchesRecords, ReportMatchesCause
<1>13. ASSUME NEW i \in Conds, CancelRun(i) PROVE OutcomeInv'
  <2>1. outcome = "none" /\ outcome' = "none"
    BY <1>13 DEF CancelRun, OutcomeInv, shared
  <2> QED BY <2>1 DEF OutcomeInv, ReportMatchesRecords, ReportMatchesCause
<1>14. ASSUME NEW i \in Conds, LockCallback(i) PROVE OutcomeInv'
  <2>1. outcome = "none" /\ outcome' = "none"
    BY <1>14 DEF LockCallback, OutcomeInv, shared
  <2> QED BY <2>1 DEF OutcomeInv, ReportMatchesRecords, ReportMatchesCause
<1>15. ASSUME NEW i \in Conds, CallbackReturns(i) PROVE OutcomeInv'
  <2>1. outcome = "none" /\ outcome' = "none"
    BY <1>15 DEF CallbackReturns, OutcomeInv, shared
  <2> QED BY <2>1 DEF OutcomeInv, ReportMatchesRecords, ReportMatchesCause
<1>16. ASSUME NEW i \in Conds, TimerFires(i) PROVE OutcomeInv'
  <2>1. outcome = "none" /\ outcome' = "none"
    BY <1>16 DEF TimerFires, OutcomeInv, shared
  <2> QED BY <2>1 DEF OutcomeInv, ReportMatchesRecords, ReportMatchesCause
<1>17. ASSUME NEW i \in Conds, WaitCancelled(i) PROVE OutcomeInv'
  <2>1. outcome = "none" /\ outcome' = "none"
    BY <1>17 DEF WaitCancelled, OutcomeInv, shared
  <2> QED BY <2>1 DEF OutcomeInv, ReportMatchesRecords, ReportMatchesCause
<1>18. ASSUME NEW why \in {"deadline", "parent"}, EndContext(why) PROVE OutcomeInv'
  BY <1>18 DEF EndContext, OutcomeInv, ReportMatchesRecords, ReportMatchesCause, locals
<1>19. ASSUME Return PROVE OutcomeInv'
  BY <1>19, OutcomeReturn
<1>20. ASSUME UNCHANGED vars PROVE OutcomeInv'
  BY <1>20 DEF vars, OutcomeInv, ReportMatchesRecords, ReportMatchesCause, OutcomeSatisfied
<1> QED
  BY <1>1, <1>2, <1>3, <1>4, <1>5, <1>6, <1>7, <1>8, <1>9, <1>10, <1>11, <1>12,
     <1>13, <1>14, <1>15, <1>16, <1>17, <1>18, <1>19, <1>20 DEF Next, Poll, Decide,
     Pause, Deadline, ParentCancel, Returned

\* The owner of a fatal verdict stays its owner.
FatalOwned == \A i \in Conds : terminal = "fatal" /\ Owns(i) => Owns(i)'

\* No step of another goroutine takes a fatal verdict from its owner.
LEMMA FatalKept ==
    ASSUME TypeOK, AttemptInv, [Next]_vars
    PROVE  FatalOwned
<1>1. ASSUME NEW i \in Conds, LeaveLoop(i) PROVE FatalOwned
  BY <1>1 DEF LeaveLoop, Goto, FatalOwned, Owns, TypeOK, AttemptInv, AttemptOK,
          Reported, shared, locals
<1>2. ASSUME NEW i \in Conds, BeginAttempt(i) PROVE FatalOwned
  BY <1>2 DEF BeginAttempt, Goto, FatalOwned, Owns, TypeOK, AttemptInv, AttemptOK,
          Reported, shared, locals
<1>3. ASSUME NEW i \in Conds, AcquireGate(i) PROVE FatalOwned
  BY <1>3 DEF AcquireGate, Goto, FatalOwned, Owns, TypeOK, AttemptInv, AttemptOK,
          Reported, shared, locals
<1>4. ASSUME NEW i \in Conds, AbandonGate(i) PROVE FatalOwned
  BY <1>4 DEF AbandonGate, Goto, FatalOwned, Owns, TypeOK, AttemptInv, AttemptOK,
          Reported, shared, locals
<1>5. ASSUME NEW i \in Conds, NEW raw \in CheckStatus, CheckReturns(i, raw) PROVE FatalOwned
  BY <1>5 DEF CheckReturns, Goto, FatalOwned, Owns, TypeOK, AttemptInv, AttemptOK,
          Reported, shared, locals
<1>6. ASSUME NEW i \in Conds, CheckExpires(i) PROVE FatalOwned
  BY <1>6 DEF CheckExpires, Goto, FatalOwned, Owns, TypeOK, AttemptInv, AttemptOK,
          Reported, shared, locals
<1>7. ASSUME NEW i \in Conds, CheckDropped(i) PROVE FatalOwned
  BY <1>7 DEF CheckDropped, Goto, FatalOwned, Owns, TypeOK, AttemptInv, AttemptOK,
          Reported, shared, locals
<1>8. ASSUME NEW i \in Conds, DecideUnsatisfied(i) PROVE FatalOwned
  BY <1>8, UpdateRecordEffect, AfterRecordCases DEF DecideUnsatisfied, Goto,
          FatalOwned, Owns, TypeOK, AttemptInv, AttemptOK, Reported, shared, locals
<1>9. ASSUME NEW i \in Conds, DecideFatal(i) PROVE FatalOwned
  BY <1>9 DEF DecideFatal, Goto, Wins, Loses, FatalOwned, Owns, TypeOK, AttemptInv,
          AttemptOK, Reported, shared, locals
<1>10. ASSUME NEW i \in Conds, DecideAny(i) PROVE FatalOwned
  <2>1. CASE Loses /\ UpdateRecord(i) /\ Goto(i, AfterRecord(i))
    BY <1>10, <2>1, UpdateRecordEffect, AfterRecordCases DEF DecideAny, Goto, Loses,
            FatalOwned, Owns, TypeOK, AttemptInv, AttemptOK, Reported, shared,
            locals
  <2>2. CASE Wins("satisfied") /\ Goto(i, "cancel") /\ UNCHANGED records
    BY <1>10, <2>2 DEF DecideAny, Goto, Wins, FatalOwned, Owns, TypeOK, AttemptInv,
            AttemptOK, Reported, shared, locals
  <2> QED BY <1>10, <2>1, <2>2 DEF DecideAny
<1>11. ASSUME NEW i \in Conds, DecideAll(i) PROVE FatalOwned
  BY <1>11, UpdateRecordEffect, AfterRecordCases DEF DecideAll, Goto, FatalOwned,
          Owns, TypeOK, AttemptInv, AttemptOK, Reported, shared, locals
<1>12. ASSUME NEW i \in Conds, Claim(i) PROVE FatalOwned
  <2>1. CASE Loses /\ UpdateRecord(i) /\ Goto(i, AfterRecord(i))
    BY <1>12, <2>1, UpdateRecordEffect, AfterRecordCases DEF Claim, Goto, Loses,
            FatalOwned, Owns, TypeOK, AttemptInv, AttemptOK, Reported, shared,
            locals
  <2>2. CASE Wins("satisfied") /\ Goto(i, "cancel") /\ UNCHANGED records
    BY <1>12, <2>2 DEF Claim, Goto, Wins, FatalOwned, Owns, TypeOK, AttemptInv,
            AttemptOK, Reported, shared, locals
  <2> QED BY <1>12, <2>1, <2>2 DEF Claim
<1>13. ASSUME NEW i \in Conds, CancelRun(i) PROVE FatalOwned
  BY <1>13, UpdateRecordEffect, AfterRecordCases DEF CancelRun, Goto, FatalOwned,
          Owns, TypeOK, AttemptInv, AttemptOK, Reported, shared, locals
<1>14. ASSUME NEW i \in Conds, LockCallback(i) PROVE FatalOwned
  BY <1>14 DEF LockCallback, Goto, FatalOwned, Owns, TypeOK, AttemptInv, AttemptOK,
          Reported, shared, locals
<1>15. ASSUME NEW i \in Conds, CallbackReturns(i) PROVE FatalOwned
  BY <1>15 DEF CallbackReturns, Goto, AfterAttempt, Done, FatalOwned, Owns, TypeOK,
          AttemptInv, AttemptOK, Reported, shared, locals
<1>16. ASSUME NEW i \in Conds, TimerFires(i) PROVE FatalOwned
  BY <1>16 DEF TimerFires, Goto, FatalOwned, Owns, TypeOK, AttemptInv, AttemptOK,
          Reported, shared, locals
<1>17. ASSUME NEW i \in Conds, WaitCancelled(i) PROVE FatalOwned
  BY <1>17 DEF WaitCancelled, Goto, FatalOwned, Owns, TypeOK, AttemptInv, AttemptOK,
          Reported, shared, locals
<1>18. ASSUME NEW why \in {"deadline", "parent"}, EndContext(why) PROVE FatalOwned
  BY <1>18 DEF EndContext, locals, FatalOwned, Owns, TypeOK, AttemptInv, AttemptOK,
          Reported, shared, locals
<1>19. ASSUME Return PROVE FatalOwned
  BY <1>19 DEF Return, shared, locals, FatalOwned, Owns, TypeOK, AttemptInv,
          AttemptOK, Reported, shared, locals
<1>20. ASSUME UNCHANGED vars PROVE FatalOwned
  BY <1>20 DEF vars, FatalOwned, Owns, TypeOK, AttemptInv, AttemptOK, Reported,
          shared, locals
<1> QED
  BY <1>1, <1>2, <1>3, <1>4, <1>5, <1>6, <1>7, <1>8, <1>9, <1>10, <1>11, <1>12,
     <1>13, <1>14, <1>15, <1>16, <1>17, <1>18, <1>19, <1>20 DEF Next, Poll, Decide,
     Pause, Deadline, ParentCancel, Returned

-----------------------------------------------------------------------------
(* The theorems.                                                           *)

\* The invariant holds when the goroutines are started.
LEMMA InitInv == Init => RunInv
<1> SUFFICES ASSUME Init PROVE RunInv
  OBVIOUS
<1> USE DEF Init
<1>1. Uncounted = Ready /\ Cardinality(Ready) \in Nat /\ Cardinality(Ready) # 0
  <2>1. IsFiniteSet(Ready)
    BY RunConfig, FS_Subset DEF Ready
  <2>2. Uncounted = Ready
    BY DEF Uncounted, Counted, Ready
  <2> QED BY <2>1, <2>2, RunConfig, FS_CardinalityType, FS_EmptySet
<1>2. TypeOK
  BY <1>1 DEF TypeOK, Steps, CheckStatus, NoProgress
<1>3. AttemptInv
  BY DEF AttemptInv, AttemptOK
<1>4. CounterMatchesRecords
  BY <1>1 DEF CounterMatchesRecords
<1>5. OwnerInv /\ CancelInv /\ GoalInv
  BY DEF OwnerInv, Owns, CancelInv, GoalInv
<1>6. OutcomeInv
  BY DEF OutcomeInv, ReportMatchesRecords, ReportMatchesCause
<1> QED BY <1>2, <1>3, <1>4, <1>5, <1>6 DEF RunInv

\* Every step of every goroutine, of the deadline, the caller and the join keeps the invariant.
LEMMA StepInv == RunInv /\ [Next]_vars => RunInv'
  BY TypeStep, AttemptStep, CounterStep, OwnerStep, CancelStep, GoalStep, OutcomeStep DEF RunInv

\* The inductive invariant holds in every state of every run.
THEOREM RunInvariant == Spec => []RunInv
  BY InitInv, StepInv, PTL DEF Spec

\* Type correctness: the counter readyRemaining in particular never goes negative.
THEOREM TypeCorrect == Spec => []TypeOK
  BY RunInvariant, PTL DEF RunInv

\* The status Run reports agrees with the records it hands out.
THEOREM ReportSound == Spec => []ReportMatchesRecords
  BY RunInvariant, PTL DEF RunInv, OutcomeInv

\* A timeout or a cancellation is reported only of a context that ended that way.
THEOREM CauseSound == Spec => []ReportMatchesCause
  BY RunInvariant, PTL DEF RunInv, OutcomeInv

\* The counter is the number of readiness conditions that do not count yet.
THEOREM CounterSound == Spec => []CounterMatchesRecords
  BY RunInvariant, PTL DEF RunInv

\* No goroutine leaves an undecided live run before its condition is satisfied.
THEOREM NobodyLeaves == Spec => []NobodyGivesUp
<1>1. RunInv => NobodyGivesUp
  BY RunConfig DEF RunInv, AttemptInv, AttemptOK, GoalInv, NobodyGivesUp, Reported, TypeOK, CheckStatus
<1> QED BY <1>1, RunInvariant, PTL

\* A verdict is backed by what counts, and by exactly one goroutine that cancels.
THEOREM VerdictOwned == Spec => []VerdictHasOwner
<1>1. RunInv => VerdictHasOwner
  <2> SUFFICES ASSUME RunInv PROVE VerdictHasOwner
    OBVIOUS
  <2>1. terminal = "satisfied" =>
          IF Mode = "any" THEN \E i \in Ready : Counted(i) ELSE \A i \in Ready : Counted(i)
    BY DEF RunInv, GoalInv, Uncounted
  <2>2. terminal # "none" /\ ctx = "live" =>
          \E i \in Conds : \A j \in Conds : pc[j] = "cancel" <=> j = i
    BY DEF RunInv, CancelInv, OwnerInv, Owns
  <2> QED BY <2>1, <2>2 DEF VerdictHasOwner
<1> QED BY <1>1, RunInvariant, PTL

\* The first terminal result wins: the verdict never changes, and no later result
\* makes a record fatal.
THEOREM FirstResultWins == Spec => FirstTerminalResultWins
<1> DEFINE Once == terminal # "none" =>
         /\ terminal' = terminal
         /\ \A i \in Conds : records'[i].fatal /\ ~records[i].fatal =>
              pc[i] = "cancel" /\ terminal = "fatal"
<1>1. RunInv /\ [Next]_vars => [Once]_vars
  <2> SUFFICES ASSUME RunInv, [Next]_vars, terminal # "none"
               PROVE  /\ terminal' = terminal
                      /\ \A i \in Conds : records'[i].fatal /\ ~records[i].fatal =>
                           pc[i] = "cancel" /\ terminal = "fatal"
    OBVIOUS
  <2>1. terminal' = terminal
    BY SettlingStep DEF RunInv, Settling
  <2>2. ASSUME NEW i \in Conds, records'[i].fatal, ~records[i].fatal
        PROVE  pc[i] = "cancel" /\ terminal = "fatal"
    <3>1. terminal = "fatal"
      BY <2>1, <2>2, OwnerStep DEF RunInv, OwnerInv
    <3>2. PICK k \in Conds : Owns(k)
      BY <3>1 DEF RunInv, OwnerInv
    <3>3. Owns(k)'
      BY <3>1, <3>2, FatalKept DEF RunInv, FatalOwned
    <3>4. k = i
      BY <2>2, <3>3, OwnerStep DEF RunInv, OwnerInv, Owns
    <3> QED BY <2>2, <3>1, <3>2, <3>4 DEF Owns
  <2> QED BY <2>1, <2>2
<1> QED BY <1>1, RunInvariant, PTL DEF Spec, FirstTerminalResultWins

-----------------------------------------------------------------------------
(* Gates and callbacks need no more than themselves.                       *)

\* A step that neither takes nor leaves a gate keeps the discipline.
LEMMA GateKept ==
    ASSUME GateDiscipline, held' = held,
           \A j \in Conds : pc'[j] = "check" <=> pc[j] = "check"
    PROVE  GateDiscipline'
<1>1. {j \in Conds : pc'[j] = "check"} = {j \in Conds : pc[j] = "check"}
  OBVIOUS
<1> QED BY <1>1 DEF GateDiscipline

\* A goroutine that leaves its check leaves its gate with it.
LEMMA GateReleased ==
    ASSUME TypeOK, GateDiscipline, NEW i \in Conds, pc[i] = "check",
           held' = held \ {GateOf[i]},
           \A j \in Conds : pc'[j] = "check" <=> pc[j] = "check" /\ j # i
    PROVE  GateDiscipline'
<1>1. held' = {GateOf[j] : j \in {k \in Conds : pc'[k] = "check"}}
  <2>1. ASSUME NEW g \in held' PROVE \E j \in Conds : pc'[j] = "check" /\ g = GateOf[j]
    BY <2>1 DEF GateDiscipline
  <2>2. ASSUME NEW j \in Conds, pc'[j] = "check" PROVE GateOf[j] \in held'
    BY <2>2 DEF GateDiscipline
  <2> QED BY <2>1, <2>2
<1> QED BY <1>1 DEF GateDiscipline

\* Every step keeps the discipline of the gates, whatever the verdict.
LEMMA GateStep ==
    ASSUME TypeOK, GateDiscipline, [Next]_vars
    PROVE  GateDiscipline'
<1>1. ASSUME NEW i \in Conds, LeaveLoop(i) PROVE GateDiscipline'
  <2>1. \A j \in Conds : pc'[j] = "check" <=> pc[j] = "check"
    BY <1>1 DEF LeaveLoop, Goto, TypeOK
  <2> QED BY <1>1, <2>1, GateKept DEF LeaveLoop, shared
<1>2. ASSUME NEW i \in Conds, BeginAttempt(i) PROVE GateDiscipline'
  <2>1. \A j \in Conds : pc'[j] = "check" <=> pc[j] = "check"
    BY <1>2 DEF BeginAttempt, Goto, TypeOK
  <2> QED BY <1>2, <2>1, GateKept DEF BeginAttempt, shared
<1>3. ASSUME NEW i \in Conds, AcquireGate(i) PROVE GateDiscipline'
  <2>1. \A j \in Conds : pc'[j] = "check" <=> pc[j] = "check" \/ j = i
    BY <1>3 DEF AcquireGate, Goto, TypeOK
  <2>2. held' = {GateOf[j] : j \in {k \in Conds : pc'[k] = "check"}}
    BY <1>3, <2>1 DEF AcquireGate, GateDiscipline
  <2> QED BY <1>3, <2>1, <2>2 DEF AcquireGate, GateDiscipline
<1>4. ASSUME NEW i \in Conds, AbandonGate(i) PROVE GateDiscipline'
  <2>1. \A j \in Conds : pc'[j] = "check" <=> pc[j] = "check"
    BY <1>4 DEF AbandonGate, Goto, TypeOK
  <2> QED BY <1>4, <2>1, GateKept DEF AbandonGate, shared
<1>5. ASSUME NEW i \in Conds, NEW raw \in CheckStatus, CheckReturns(i, raw) PROVE GateDiscipline'
  <2>1. \A j \in Conds : pc'[j] = "check" <=> pc[j] = "check" /\ j # i
    BY <1>5 DEF CheckReturns, Goto, TypeOK
  <2> QED BY <1>5, <2>1, GateReleased DEF CheckReturns
<1>6. ASSUME NEW i \in Conds, CheckExpires(i) PROVE GateDiscipline'
  <2>1. \A j \in Conds : pc'[j] = "check" <=> pc[j] = "check" /\ j # i
    BY <1>6 DEF CheckExpires, Goto, TypeOK
  <2> QED BY <1>6, <2>1, GateReleased DEF CheckExpires
<1>7. ASSUME NEW i \in Conds, CheckDropped(i) PROVE GateDiscipline'
  <2>1. \A j \in Conds : pc'[j] = "check" <=> pc[j] = "check" /\ j # i
    BY <1>7 DEF CheckDropped, Goto, TypeOK
  <2> QED BY <1>7, <2>1, GateReleased DEF CheckDropped
<1>8. ASSUME NEW i \in Conds, DecideUnsatisfied(i) PROVE GateDiscipline'
  <2>1. \A j \in Conds : pc'[j] = "check" <=> pc[j] = "check"
    BY <1>8, AfterRecordCases DEF DecideUnsatisfied, Goto, AfterAttempt, Done, TypeOK
  <2> QED BY <1>8, <2>1, GateKept DEF DecideUnsatisfied, shared
<1>9. ASSUME NEW i \in Conds, DecideFatal(i) PROVE GateDiscipline'
  <2>1. \A j \in Conds : pc'[j] = "check" <=> pc[j] = "check"
    BY <1>9 DEF DecideFatal, Goto, Wins, Loses, TypeOK
  <2> QED BY <1>9, <2>1, GateKept DEF DecideFatal, shared
<1>10. ASSUME NEW i \in Conds, DecideAny(i) PROVE GateDiscipline'
  <2>1. \A j \in Conds : pc'[j] = "check" <=> pc[j] = "check"
    BY <1>10, AfterRecordCases DEF DecideAny, Goto, Wins, Loses, AfterAttempt, Done, TypeOK
  <2> QED BY <1>10, <2>1, GateKept DEF DecideAny, shared
<1>11. ASSUME NEW i \in Conds, DecideAll(i) PROVE GateDiscipline'
  <2>1. \A j \in Conds : pc'[j] = "check" <=> pc[j] = "check"
    BY <1>11, AfterRecordCases DEF DecideAll, Goto, AfterAttempt, Done, TypeOK
  <2> QED BY <1>11, <2>1, GateKept DEF DecideAll, shared
<1>12. ASSUME NEW i \in Conds, Claim(i) PROVE GateDiscipline'
  <2>1. \A j \in Conds : pc'[j] = "check" <=> pc[j] = "check"
    BY <1>12, AfterRecordCases DEF Claim, Goto, Wins, Loses, AfterAttempt, Done, TypeOK
  <2> QED BY <1>12, <2>1, GateKept DEF Claim, shared
<1>13. ASSUME NEW i \in Conds, CancelRun(i) PROVE GateDiscipline'
  <2>1. \A j \in Conds : pc'[j] = "check" <=> pc[j] = "check"
    BY <1>13, AfterRecordCases DEF CancelRun, Goto, AfterAttempt, Done, TypeOK
  <2> QED BY <1>13, <2>1, GateKept DEF CancelRun, shared
<1>14. ASSUME NEW i \in Conds, LockCallback(i) PROVE GateDiscipline'
  <2>1. \A j \in Conds : pc'[j] = "check" <=> pc[j] = "check"
    BY <1>14 DEF LockCallback, Goto, TypeOK
  <2> QED BY <1>14, <2>1, GateKept DEF LockCallback, shared
<1>15. ASSUME NEW i \in Conds, CallbackReturns(i) PROVE GateDiscipline'
  <2>1. \A j \in Conds : pc'[j] = "check" <=> pc[j] = "check"
    BY <1>15 DEF CallbackReturns, Goto, AfterAttempt, Done, TypeOK
  <2> QED BY <1>15, <2>1, GateKept DEF CallbackReturns, shared
<1>16. ASSUME NEW i \in Conds, TimerFires(i) PROVE GateDiscipline'
  <2>1. \A j \in Conds : pc'[j] = "check" <=> pc[j] = "check"
    BY <1>16 DEF TimerFires, Goto, TypeOK
  <2> QED BY <1>16, <2>1, GateKept DEF TimerFires, shared
<1>17. ASSUME NEW i \in Conds, WaitCancelled(i) PROVE GateDiscipline'
  <2>1. \A j \in Conds : pc'[j] = "check" <=> pc[j] = "check"
    BY <1>17 DEF WaitCancelled, Goto, TypeOK
  <2> QED BY <1>17, <2>1, GateKept DEF WaitCancelled, shared
<1>18. ASSUME NEW why \in {"deadline", "parent"}, EndContext(why) PROVE GateDiscipline'
  BY <1>18, GateKept DEF EndContext, locals
<1>19. ASSUME Return PROVE GateDiscipline'
  BY <1>19, GateKept DEF Return, shared, locals
<1>20. ASSUME UNCHANGED vars PROVE GateDiscipline'
  BY <1>20, GateKept DEF vars
<1> QED
  BY <1>1, <1>2, <1>3, <1>4, <1>5, <1>6, <1>7, <1>8, <1>9, <1>10, <1>11, <1>12,
     <1>13, <1>14, <1>15, <1>16, <1>17, <1>18, <1>19, <1>20 DEF Next, Poll, Decide,
     Pause, Deadline, ParentCancel, Returned

\* Conditions that share a pointer are never checked concurrently, and no exit path
\* keeps a gate.
THEOREM GatesSound == Spec => []GateDiscipline
<1>1. Init => GateDiscipline
  BY DEF Init, GateDiscipline
<1>2. RunInv /\ GateDiscipline /\ [Next]_vars => GateDiscipline'
  BY GateStep DEF RunInv
<1> QED BY <1>1, <1>2, RunInvariant, PTL DEF Spec

\* Every step keeps the number of callbacks in line with the attempts.
LEMMA CallbackStep ==
    ASSUME TypeOK, AttemptInv, AttemptsReportedOnce, [Next]_vars
    PROVE  AttemptsReportedOnce'
<1>1. ASSUME NEW i \in Conds, LeaveLoop(i) PROVE AttemptsReportedOnce'
  <2>1. /\ mu' = {j \in Conds : pc'[j] = "callback"}
        /\ \A j, k \in mu' : j = k
    BY <1>1 DEF LeaveLoop, Goto, TypeOK, AttemptsReportedOnce, shared
  <2>2. ASSUME HasCallback, NEW j \in Conds
        PROVE  records'[j].attempts =
                 emitted'[j] + (IF pc'[j] \in {"emit", "callback"} THEN 1 ELSE 0)
    BY <1>1, <2>2 DEF LeaveLoop, Goto, TypeOK, AttemptsReportedOnce, shared
  <2> QED BY <2>1, <2>2 DEF AttemptsReportedOnce
<1>2. ASSUME NEW i \in Conds, BeginAttempt(i) PROVE AttemptsReportedOnce'
  <2>1. /\ mu' = {j \in Conds : pc'[j] = "callback"}
        /\ \A j, k \in mu' : j = k
    BY <1>2 DEF BeginAttempt, Goto, TypeOK, AttemptsReportedOnce, shared
  <2>2. ASSUME HasCallback, NEW j \in Conds
        PROVE  records'[j].attempts =
                 emitted'[j] + (IF pc'[j] \in {"emit", "callback"} THEN 1 ELSE 0)
    BY <1>2, <2>2 DEF BeginAttempt, Goto, TypeOK, AttemptsReportedOnce, shared
  <2> QED BY <2>1, <2>2 DEF AttemptsReportedOnce
<1>3. ASSUME NEW i \in Conds, AcquireGate(i) PROVE AttemptsReportedOnce'
  <2>1. /\ mu' = {j \in Conds : pc'[j] = "callback"}
        /\ \A j, k \in mu' : j = k
    BY <1>3 DEF AcquireGate, Goto, TypeOK, AttemptsReportedOnce, shared
  <2>2. ASSUME HasCallback, NEW j \in Conds
        PROVE  records'[j].attempts =
                 emitted'[j] + (IF pc'[j] \in {"emit", "callback"} THEN 1 ELSE 0)
    BY <1>3, <2>2 DEF AcquireGate, Goto, TypeOK, AttemptsReportedOnce, shared
  <2> QED BY <2>1, <2>2 DEF AttemptsReportedOnce
<1>4. ASSUME NEW i \in Conds, AbandonGate(i) PROVE AttemptsReportedOnce'
  <2>1. /\ mu' = {j \in Conds : pc'[j] = "callback"}
        /\ \A j, k \in mu' : j = k
    BY <1>4 DEF AbandonGate, Goto, TypeOK, AttemptsReportedOnce, shared
  <2>2. ASSUME HasCallback, NEW j \in Conds
        PROVE  records'[j].attempts =
                 emitted'[j] + (IF pc'[j] \in {"emit", "callback"} THEN 1 ELSE 0)
    BY <1>4, <2>2 DEF AbandonGate, Goto, TypeOK, AttemptsReportedOnce, shared
  <2> QED BY <2>1, <2>2 DEF AttemptsReportedOnce
<1>5. ASSUME NEW i \in Conds, NEW raw \in CheckStatus, CheckReturns(i, raw) PROVE AttemptsReportedOnce'
  <2>1. /\ mu' = {j \in Conds : pc'[j] = "callback"}
        /\ \A j, k \in mu' : j = k
    BY <1>5 DEF CheckReturns, Goto, TypeOK, AttemptsReportedOnce, shared
  <2>2. ASSUME HasCallback, NEW j \in Conds
        PROVE  records'[j].attempts =
                 emitted'[j] + (IF pc'[j] \in {"emit", "callback"} THEN 1 ELSE 0)
    BY <1>5, <2>2 DEF CheckReturns, Goto, TypeOK, AttemptsReportedOnce, shared
  <2> QED BY <2>1, <2>2 DEF AttemptsReportedOnce
<1>6. ASSUME NEW i \in Conds, CheckExpires(i) PROVE AttemptsReportedOnce'
  <2>1. /\ mu' = {j \in Conds : pc'[j] = "callback"}
        /\ \A j, k \in mu' : j = k
    BY <1>6 DEF CheckExpires, Goto, TypeOK, AttemptsReportedOnce, shared
  <2>2. ASSUME HasCallback, NEW j \in Conds
        PROVE  records'[j].attempts =
                 emitted'[j] + (IF pc'[j] \in {"emit", "callback"} THEN 1 ELSE 0)
    BY <1>6, <2>2 DEF CheckExpires, Goto, TypeOK, AttemptsReportedOnce, shared
  <2> QED BY <2>1, <2>2 DEF AttemptsReportedOnce
<1>7. ASSUME NEW i \in Conds, CheckDropped(i) PROVE AttemptsReportedOnce'
  <2>1. /\ mu' = {j \in Conds : pc'[j] = "callback"}
        /\ \A j, k \in mu' : j = k
    BY <1>7 DEF CheckDropped, Goto, TypeOK, AttemptsReportedOnce, shared
  <2>2. ASSUME HasCallback, NEW j \in Conds
        PROVE  records'[j].attempts =
                 emitted'[j] + (IF pc'[j] \in {"emit", "callback"} THEN 1 ELSE 0)
    BY <1>7, <2>2 DEF CheckDropped, Goto, TypeOK, AttemptsReportedOnce, shared
  <2> QED BY <2>1, <2>2 DEF AttemptsReportedOnce
<1>8. ASSUME NEW i \in Conds, DecideUnsatisfied(i) PROVE AttemptsReportedOnce'
  <2>1. /\ mu' = {j \in Conds : pc'[j] = "callback"}
        /\ \A j, k \in mu' : j = k
    BY <1>8, UpdateRecordEffect, AfterRecordCases DEF DecideUnsatisfied, Goto, AfterAttempt, Done, TypeOK, AttemptsReportedOnce, shared
  <2>2. ASSUME HasCallback, NEW j \in Conds
        PROVE  records'[j].attempts =
                 emitted'[j] + (IF pc'[j] \in {"emit", "callback"} THEN 1 ELSE 0)
    BY <1>8, <2>2, UpdateRecordEffect, AfterRecordCases DEF DecideUnsatisfied, Goto, AfterAttempt, Done, TypeOK, AttemptsReportedOnce, shared
  <2> QED BY <2>1, <2>2 DEF AttemptsReportedOnce
<1>9. ASSUME NEW i \in Conds, DecideFatal(i) PROVE AttemptsReportedOnce'
  <2>1. /\ mu' = {j \in Conds : pc'[j] = "callback"}
        /\ \A j, k \in mu' : j = k
    BY <1>9 DEF DecideFatal, Goto, Wins, Loses, TypeOK, AttemptsReportedOnce, shared
  <2>2. ASSUME HasCallback, NEW j \in Conds
        PROVE  records'[j].attempts =
                 emitted'[j] + (IF pc'[j] \in {"emit", "callback"} THEN 1 ELSE 0)
    BY <1>9, <2>2 DEF DecideFatal, Goto, Wins, Loses, TypeOK, AttemptsReportedOnce, shared
  <2> QED BY <2>1, <2>2 DEF AttemptsReportedOnce
<1>10. ASSUME NEW i \in Conds, DecideAny(i) PROVE AttemptsReportedOnce'
  <2>1. CASE Loses /\ UpdateRecord(i) /\ Goto(i, AfterRecord(i))
    <3>1. /\ mu' = {j \in Conds : pc'[j] = "callback"}
          /\ \A j, k \in mu' : j = k
      BY <1>10, <2>1, UpdateRecordEffect, AfterRecordCases DEF DecideAny, Goto, Loses, TypeOK, AttemptsReportedOnce, shared
    <3>2. ASSUME HasCallback, NEW j \in Conds
          PROVE  records'[j].attempts =
                   emitted'[j] + (IF pc'[j] \in {"emit", "callback"} THEN 1 ELSE 0)
      BY <1>10, <2>1, <3>2, UpdateRecordEffect, AfterRecordCases DEF DecideAny, Goto, Loses, TypeOK, AttemptsReportedOnce, shared
    <3> QED BY <3>1, <3>2 DEF AttemptsReportedOnce
  <2>2. CASE Wins("satisfied") /\ Goto(i, "cancel") /\ UNCHANGED records
    <3>1. /\ mu' = {j \in Conds : pc'[j] = "callback"}
          /\ \A j, k \in mu' : j = k
      BY <1>10, <2>2 DEF DecideAny, Goto, Wins, TypeOK, AttemptsReportedOnce, shared
    <3>2. ASSUME HasCallback, NEW j \in Conds
          PROVE  records'[j].attempts =
                   emitted'[j] + (IF pc'[j] \in {"emit", "callback"} THEN 1 ELSE 0)
      BY <1>10, <2>2, <3>2 DEF DecideAny, Goto, Wins, TypeOK, AttemptsReportedOnce, shared
    <3> QED BY <3>1, <3>2 DEF AttemptsReportedOnce
  <2> QED BY <1>10, <2>1, <2>2 DEF DecideAny
<1>11. ASSUME NEW i \in Conds, DecideAll(i) PROVE AttemptsReportedOnce'
  <2>1. CASE UpdateRecord(i) /\ Goto(i, AfterRecord(i))
    <3>1. /\ mu' = {j \in Conds : pc'[j] = "callback"}
          /\ \A j, k \in mu' : j = k
      BY <1>11, <2>1, UpdateRecordEffect, AfterRecordCases DEF DecideAll, Goto, TypeOK, AttemptsReportedOnce, shared
    <3>2. ASSUME HasCallback, NEW j \in Conds
          PROVE  records'[j].attempts =
                   emitted'[j] + (IF pc'[j] \in {"emit", "callback"} THEN 1 ELSE 0)
      BY <1>11, <2>1, <3>2, UpdateRecordEffect, AfterRecordCases DEF DecideAll, Goto, TypeOK, AttemptsReportedOnce, shared
    <3> QED BY <3>1, <3>2 DEF AttemptsReportedOnce
  <2>2. CASE Goto(i, "claim") /\ UNCHANGED records
    <3>1. /\ mu' = {j \in Conds : pc'[j] = "callback"}
          /\ \A j, k \in mu' : j = k
      BY <1>11, <2>2 DEF DecideAll, Goto, TypeOK, AttemptsReportedOnce, shared
    <3>2. ASSUME HasCallback, NEW j \in Conds
          PROVE  records'[j].attempts =
                   emitted'[j] + (IF pc'[j] \in {"emit", "callback"} THEN 1 ELSE 0)
      BY <1>11, <2>2, <3>2 DEF DecideAll, Goto, TypeOK, AttemptsReportedOnce, shared
    <3> QED BY <3>1, <3>2 DEF AttemptsReportedOnce
  <2> QED BY <1>11, <2>1, <2>2 DEF DecideAll
<1>12. ASSUME NEW i \in Conds, Claim(i) PROVE AttemptsReportedOnce'
  <2>1. CASE Loses /\ UpdateRecord(i) /\ Goto(i, AfterRecord(i))
    <3>1. /\ mu' = {j \in Conds : pc'[j] = "callback"}
          /\ \A j, k \in mu' : j = k
      BY <1>12, <2>1, UpdateRecordEffect, AfterRecordCases DEF Claim, Goto, Loses, TypeOK, AttemptsReportedOnce, shared
    <3>2. ASSUME HasCallback, NEW j \in Conds
          PROVE  records'[j].attempts =
                   emitted'[j] + (IF pc'[j] \in {"emit", "callback"} THEN 1 ELSE 0)
      BY <1>12, <2>1, <3>2, UpdateRecordEffect, AfterRecordCases DEF Claim, Goto, Loses, TypeOK, AttemptsReportedOnce, shared
    <3> QED BY <3>1, <3>2 DEF AttemptsReportedOnce
  <2>2. CASE Wins("satisfied") /\ Goto(i, "cancel") /\ UNCHANGED records
    <3>1. /\ mu' = {j \in Conds : pc'[j] = "callback"}
          /\ \A j, k \in mu' : j = k
      BY <1>12, <2>2 DEF Claim, Goto, Wins, TypeOK, AttemptsReportedOnce, shared
    <3>2. ASSUME HasCallback, NEW j \in Conds
          PROVE  records'[j].attempts =
                   emitted'[j] + (IF pc'[j] \in {"emit", "callback"} THEN 1 ELSE 0)
      BY <1>12, <2>2, <3>2 DEF Claim, Goto, Wins, TypeOK, AttemptsReportedOnce, shared
    <3> QED BY <3>1, <3>2 DEF AttemptsReportedOnce
  <2> QED BY <1>12, <2>1, <2>2 DEF Claim
<1>13. ASSUME NEW i \in Conds, CancelRun(i) PROVE AttemptsReportedOnce'
  <2>1. /\ mu' = {j \in Conds : pc'[j] = "callback"}
        /\ \A j, k \in mu' : j = k
    BY <1>13, UpdateRecordEffect, AfterRecordCases DEF CancelRun, Goto, AfterAttempt, Done, TypeOK, AttemptsReportedOnce, shared
  <2>2. ASSUME HasCallback, NEW j \in Conds
        PROVE  records'[j].attempts =
                 emitted'[j] + (IF pc'[j] \in {"emit", "callback"} THEN 1 ELSE 0)
    BY <1>13, <2>2, UpdateRecordEffect, AfterRecordCases DEF CancelRun, Goto, AfterAttempt, Done, TypeOK, AttemptsReportedOnce, shared
  <2> QED BY <2>1, <2>2 DEF AttemptsReportedOnce
<1>14. ASSUME NEW i \in Conds, LockCallback(i) PROVE AttemptsReportedOnce'
  <2>1. /\ mu' = {j \in Conds : pc'[j] = "callback"}
        /\ \A j, k \in mu' : j = k
    BY <1>14 DEF LockCallback, Goto, TypeOK, AttemptsReportedOnce, shared
  <2>2. ASSUME HasCallback, NEW j \in Conds
        PROVE  records'[j].attempts =
                 emitted'[j] + (IF pc'[j] \in {"emit", "callback"} THEN 1 ELSE 0)
    BY <1>14, <2>2 DEF LockCallback, Goto, TypeOK, AttemptsReportedOnce, shared
  <2> QED BY <2>1, <2>2 DEF AttemptsReportedOnce
<1>15. ASSUME NEW i \in Conds, CallbackReturns(i) PROVE AttemptsReportedOnce'
  <2>1. /\ mu' = {j \in Conds : pc'[j] = "callback"}
        /\ \A j, k \in mu' : j = k
    BY <1>15 DEF CallbackReturns, Goto, AfterAttempt, Done, TypeOK, AttemptsReportedOnce, shared
  <2>2. ASSUME HasCallback, NEW j \in Conds
        PROVE  records'[j].attempts =
                 emitted'[j] + (IF pc'[j] \in {"emit", "callback"} THEN 1 ELSE 0)
    BY <1>15, <2>2 DEF CallbackReturns, Goto, AfterAttempt, Done, TypeOK, AttemptsReportedOnce, shared
  <2> QED BY <2>1, <2>2 DEF AttemptsReportedOnce
<1>16. ASSUME NEW i \in Conds, TimerFires(i) PROVE AttemptsReportedOnce'
  <2>1. /\ mu' = {j \in Conds : pc'[j] = "callback"}
        /\ \A j, k \in mu' : j = k
    BY <1>16 DEF TimerFires, Goto, TypeOK, AttemptsReportedOnce, shared
  <2>2. ASSUME HasCallback, NEW j \in Conds
        PROVE  records'[j].attempts =
                 emitted'[j] + (IF pc'[j] \in {"emit", "callback"} THEN 1 ELSE 0)
    BY <1>16, <2>2 DEF TimerFires, Goto, TypeOK, AttemptsReportedOnce, shared
  <2> QED BY <2>1, <2>2 DEF AttemptsReportedOnce
<1>17. ASSUME NEW i \in Conds, WaitCancelled(i) PROVE AttemptsReportedOnce'
  <2>1. /\ mu' = {j \in Conds : pc'[j] = "callback"}
        /\ \A j, k \in mu' : j = k
    BY <1>17 DEF WaitCancelled, Goto, TypeOK, AttemptsReportedOnce, shared
  <2>2. ASSUME HasCallback, NEW j \in Conds
        PROVE  records'[j].attempts =
                 emitted'[j] + (IF pc'[j] \in {"emit", "callback"} THEN 1 ELSE 0)
    BY <1>17, <2>2 DEF WaitCancelled, Goto, TypeOK, AttemptsReportedOnce, shared
  <2> QED BY <2>1, <2>2 DEF AttemptsReportedOnce
<1>18. ASSUME NEW why \in {"deadline", "parent"}, EndContext(why) PROVE AttemptsReportedOnce'
  BY <1>18 DEF EndContext, locals, AttemptsReportedOnce
<1>19. ASSUME Return PROVE AttemptsReportedOnce'
  BY <1>19 DEF Return, shared, locals, AttemptsReportedOnce
<1>20. ASSUME UNCHANGED vars PROVE AttemptsReportedOnce'
  BY <1>20 DEF vars, AttemptsReportedOnce
<1> QED
  BY <1>1, <1>2, <1>3, <1>4, <1>5, <1>6, <1>7, <1>8, <1>9, <1>10, <1>11, <1>12,
     <1>13, <1>14, <1>15, <1>16, <1>17, <1>18, <1>19, <1>20 DEF Next, Poll, Decide,
     Pause, Deadline, ParentCancel, Returned

\* OnAttempt calls are serialized, every recorded attempt is reported once, and none is
\* reported after Run has returned.
THEOREM CallbacksSound == Spec => []CallbacksMatchAttempts
<1>1. Init => AttemptsReportedOnce
  BY DEF Init, AttemptsReportedOnce
<1>2. RunInv /\ AttemptsReportedOnce /\ [Next]_vars => AttemptsReportedOnce'
  BY CallbackStep DEF RunInv
<1>3. RunInv /\ AttemptsReportedOnce => CallbacksMatchAttempts
  BY DEF RunInv, OutcomeInv, CallbacksMatchAttempts
<1> QED BY <1>1, <1>2, <1>3, RunInvariant, PTL DEF Spec

-----------------------------------------------------------------------------
(* Every step of a run is a step of its contract.                          *)

\* A goroutine that can still step belongs to a run that has not returned.
LEMMA RunningRun ==
    ASSUME RunInv, NEW i \in Conds, pc[i] # "exited"
    PROVE  outcome = "none"
  BY DEF RunInv, OutcomeInv

\* Every step of Runner is a step of RunContract or leaves its variables alone.
LEMMA ContractStep ==
    ASSUME RunInv, [Next]_vars
    PROVE  [Contract!Next]_(Contract!vars)
<1> USE DEF RunInv
<1>1. ASSUME NEW i \in Conds, LeaveLoop(i) PROVE [Contract!Next]_(Contract!vars)
  <2>1. Uncounted' = Uncounted
    BY <1>1, CountingStep DEF LeaveLoop, Goto, Counting, Uncounted, TypeOK
  <2> QED BY <1>1, <2>1 DEF LeaveLoop, Contract!vars, shared, locals
<1>2. ASSUME NEW i \in Conds, BeginAttempt(i) PROVE [Contract!Next]_(Contract!vars)
  <2>1. Uncounted' = Uncounted
    BY <1>2, CountingStep DEF BeginAttempt, Goto, Counting, Uncounted, TypeOK
  <2> QED BY <1>2, <2>1 DEF BeginAttempt, Contract!vars, shared, locals
<1>3. ASSUME NEW i \in Conds, AcquireGate(i) PROVE [Contract!Next]_(Contract!vars)
  <2>1. Uncounted' = Uncounted
    BY <1>3, CountingStep DEF AcquireGate, Goto, Counting, Uncounted, TypeOK
  <2> QED BY <1>3, <2>1 DEF AcquireGate, Contract!vars, shared, locals
<1>4. ASSUME NEW i \in Conds, AbandonGate(i) PROVE [Contract!Next]_(Contract!vars)
  <2>1. Uncounted' = Uncounted
    BY <1>4, CountingStep DEF AbandonGate, Goto, Counting, Uncounted, TypeOK
  <2> QED BY <1>4, <2>1 DEF AbandonGate, Contract!vars, shared, locals
<1>5. ASSUME NEW i \in Conds, NEW raw \in CheckStatus, CheckReturns(i, raw) PROVE [Contract!Next]_(Contract!vars)
  <2>1. Uncounted' = Uncounted
    BY <1>5, CountingStep DEF CheckReturns, Goto, Counting, Uncounted, TypeOK
  <2> QED BY <1>5, <2>1 DEF CheckReturns, Contract!vars, shared, locals
<1>6. ASSUME NEW i \in Conds, CheckExpires(i) PROVE [Contract!Next]_(Contract!vars)
  <2>1. Uncounted' = Uncounted
    BY <1>6, CountingStep DEF CheckExpires, Goto, Counting, Uncounted, TypeOK
  <2> QED BY <1>6, <2>1 DEF CheckExpires, Contract!vars, shared, locals
<1>7. ASSUME NEW i \in Conds, CheckDropped(i) PROVE [Contract!Next]_(Contract!vars)
  <2>1. Uncounted' = Uncounted
    BY <1>7, CountingStep DEF CheckDropped, Goto, Counting, Uncounted, TypeOK
  <2> QED BY <1>7, <2>1 DEF CheckDropped, Contract!vars, shared, locals
<1>8. ASSUME NEW i \in Conds, DecideUnsatisfied(i) PROVE [Contract!Next]_(Contract!vars)
  <2>1. Uncounted' = Uncounted
    BY <1>8, CountingStep DEF DecideUnsatisfied, Goto, AfterAttempt, Done, Counting, Uncounted, TypeOK
  <2> QED BY <1>8, <2>1 DEF DecideUnsatisfied, Contract!vars, shared, locals
<1>9. ASSUME NEW i \in Conds, DecideFatal(i) PROVE [Contract!Next]_(Contract!vars)
  <2>1. outcome = "none" /\ Uncounted' = Uncounted
    BY <1>9, CountingStep, RunningRun DEF DecideFatal, Goto, Counting, Uncounted, Ready, TypeOK
  <2>2. CASE Wins("fatal")
    <3>1. Contract!Fail
      BY <1>9, <2>1, <2>2 DEF DecideFatal, Wins, Contract!Fail
    <3> QED BY <3>1 DEF Contract!Next
  <2>3. CASE Loses
    BY <1>9, <2>1, <2>3 DEF DecideFatal, Loses, Contract!vars
  <2> QED BY <1>9, <2>2, <2>3 DEF DecideFatal
<1>10. ASSUME NEW i \in Conds, DecideAny(i) PROVE [Contract!Next]_(Contract!vars)
  <2>1. outcome = "none" /\ i \in Uncounted /\ i \in Ready
    BY <1>10, RunningRun DEF DecideAny, Uncounted, Counted, AttemptInv, AttemptOK, Reported
  <2>2. i \notin Uncounted'
    <3>1. CASE Loses /\ UpdateRecord(i)
      BY <1>10, <2>1, <3>1, UpdateRecordEffect DEF DecideAny, Uncounted, Counted
    <3>2. CASE Goto(i, "cancel")
      BY <1>10, <2>1, <3>2 DEF DecideAny, Goto, Uncounted, Counted, TypeOK
    <3> QED BY <1>10, <3>1, <3>2 DEF DecideAny
  <2>3. Uncounted' = Uncounted \ {i}
    <3>1. PICK k \in Uncounted : /\ Uncounted' = Uncounted \ {k}
                                 /\ pc[k] = "decide" /\ pc'[k] # "decide"
      BY <2>1, <2>2, CountingStep DEF Counting
    <3>2. k = i
      BY <1>10, <3>1 DEF DecideAny, Goto, Uncounted, Ready, TypeOK
    <3> QED BY <3>1, <3>2
  <2>4. Contract!Complete(i)
    BY <1>10, <2>1, <2>3 DEF DecideAny, Wins, Loses, Contract!Complete, Uncounted
  <2> QED BY <2>1, <2>4 DEF Contract!Next
<1>11. ASSUME NEW i \in Conds, DecideAll(i) PROVE [Contract!Next]_(Contract!vars)
  <2>1. outcome = "none" /\ i \in Uncounted /\ i \in Ready
    BY <1>11, RunningRun DEF DecideAll, Uncounted, Counted, AttemptInv, AttemptOK, Reported
  <2>2. Uncounted' = Uncounted \ {i}
    <3>1. PICK k \in Uncounted : /\ Uncounted' = Uncounted \ {k}
                                 /\ pc[k] = "decide" /\ pc'[k] # "decide"
      BY <1>11, CountingStep DEF DecideAll, Counting, TypeOK
    <3>2. k = i
      BY <1>11, <3>1 DEF DecideAll, Goto, Uncounted, Ready, TypeOK
    <3> QED BY <3>1, <3>2
  <2>3. Contract!Complete(i)
    BY <1>11, <2>1, <2>2 DEF DecideAll, Contract!Complete, Uncounted
  <2> QED BY <2>1, <2>3 DEF Contract!Next
<1>12. ASSUME NEW i \in Conds, Claim(i) PROVE [Contract!Next]_(Contract!vars)
  <2>1. outcome = "none" /\ Uncounted' = Uncounted
    BY <1>12, CountingStep, RunningRun DEF Claim, Goto, Counting, Uncounted, Ready, TypeOK
  <2>2. CASE Wins("satisfied")
    <3>1. Uncounted = {} /\ Mode = "all"
      BY <1>12 DEF Claim, GoalInv, AttemptInv, AttemptOK
    <3>2. Contract!Settle
      BY <1>12, <2>1, <2>2, <3>1 DEF Claim, Wins, Contract!Settle, Contract!GoalMet
    <3> QED BY <3>2 DEF Contract!Next
  <2>3. CASE Loses
    BY <1>12, <2>1, <2>3 DEF Claim, Loses, Contract!vars
  <2> QED BY <1>12, <2>2, <2>3 DEF Claim
<1>13. ASSUME NEW i \in Conds, CancelRun(i) PROVE [Contract!Next]_(Contract!vars)
  <2>1. outcome = "none" /\ Uncounted' = Uncounted
    <3>1. \A j \in Conds : pc[j] = "decide" => pc'[j] = pc[j]
      BY <1>13 DEF CancelRun, Goto, TypeOK
    <3> QED BY <1>13, <3>1, CountingStep, RunningRun
        DEF CancelRun, Counting, Uncounted, Ready
  <2>2. CASE ctx = "live"
    <3>1. Contract!Interrupt("runner")
      BY <1>13, <2>1, <2>2 DEF CancelRun, Contract!Interrupt, AttemptInv, AttemptOK
    <3> QED BY <3>1 DEF Contract!Next, Contract!Causes
  <2>3. CASE ctx # "live"
    BY <1>13, <2>1, <2>3 DEF CancelRun, Contract!vars
  <2> QED BY <2>2, <2>3
<1>14. ASSUME NEW i \in Conds, LockCallback(i) PROVE [Contract!Next]_(Contract!vars)
  <2>1. Uncounted' = Uncounted
    BY <1>14, CountingStep DEF LockCallback, Goto, Counting, Uncounted, TypeOK
  <2> QED BY <1>14, <2>1 DEF LockCallback, Contract!vars, shared, locals
<1>15. ASSUME NEW i \in Conds, CallbackReturns(i) PROVE [Contract!Next]_(Contract!vars)
  <2>1. Uncounted' = Uncounted
    BY <1>15, CountingStep DEF CallbackReturns, Goto, AfterAttempt, Done, Counting, Uncounted, TypeOK
  <2> QED BY <1>15, <2>1 DEF CallbackReturns, Contract!vars, shared, locals
<1>16. ASSUME NEW i \in Conds, TimerFires(i) PROVE [Contract!Next]_(Contract!vars)
  <2>1. Uncounted' = Uncounted
    BY <1>16, CountingStep DEF TimerFires, Goto, Counting, Uncounted, TypeOK
  <2> QED BY <1>16, <2>1 DEF TimerFires, Contract!vars, shared, locals
<1>17. ASSUME NEW i \in Conds, WaitCancelled(i) PROVE [Contract!Next]_(Contract!vars)
  <2>1. Uncounted' = Uncounted
    BY <1>17, CountingStep DEF WaitCancelled, Goto, Counting, Uncounted, TypeOK
  <2> QED BY <1>17, <2>1 DEF WaitCancelled, Contract!vars, shared, locals
<1>18. ASSUME NEW why \in {"deadline", "parent"}, EndContext(why) PROVE [Contract!Next]_(Contract!vars)
  <2>1. Uncounted' = Uncounted
    BY <1>18 DEF EndContext, Uncounted, Counted, locals
  <2>2. Contract!Interrupt(why)
    BY <1>18, <2>1 DEF EndContext, Contract!Interrupt
  <2> QED BY <2>2 DEF Contract!Next, Contract!Causes
<1>19. ASSUME Return PROVE [Contract!Next]_(Contract!vars)
  <2>1. Uncounted' = Uncounted
    BY <1>19 DEF Return, Uncounted, Counted, shared, locals
  <2>2. /\ outcome = "none" /\ outcome' = FinalStatus
        /\ \A i \in Conds : pc'[i] = "exited"
        /\ terminal' = terminal /\ ctx' = ctx /\ records' = records
    BY <1>19 DEF Return, shared, locals
  <2>3. terminal = "none" => /\ ~OutcomeSatisfied
                             /\ ctx # "live"
                             /\ \A i \in Conds : ~records[i].fatal
    BY <1>19, UndecidedReturn
  <2>4. ctx # "live"
    BY <1>19, <2>3 DEF Return, CancelInv
  <2>5. CASE terminal # "none"
    <3>1. Contract!Report
      BY <2>1, <2>2, <2>4, <2>5 DEF FinalStatus, Contract!Report
    <3> QED BY <3>1 DEF Contract!Next
  <2>6. CASE terminal = "none"
    <3>2. outcome' = IF ctx = "deadline" THEN "timeout" ELSE "cancelled"
      BY <2>2, <2>3, <2>6 DEF FinalStatus
    <3>3. ~Contract!GoalMet
      BY <1>19, <2>3, <2>6, RunConfig
      DEF Return, Contract!GoalMet, OutcomeSatisfied, Uncounted, Counted, Ready
    <3>4. Contract!Report
      BY <2>1, <2>2, <2>4, <2>6, <3>2, <3>3 DEF Contract!Report
    <3> QED BY <3>4 DEF Contract!Next
  <2> QED BY <2>5, <2>6
<1>20. ASSUME UNCHANGED vars PROVE [Contract!Next]_(Contract!vars)
  BY <1>20 DEF vars, Uncounted, Counted, Contract!vars
<1> QED
  BY <1>1, <1>2, <1>3, <1>4, <1>5, <1>6, <1>7, <1>8, <1>9, <1>10, <1>11, <1>12,
     <1>13, <1>14, <1>15, <1>16, <1>17, <1>18, <1>19, <1>20 DEF Next, Poll, Decide,
     Pause, Deadline, ParentCancel, Returned

\* A run implements its contract: one verdict, one cause, one report that follows
\* from them, for every number of conditions.
THEOREM RunnerKeepsContract == Spec => KeepsContract
<1>1. Init => Contract!Init
  BY DEF Init, Contract!Init, Uncounted, Counted, Ready
<1> QED BY <1>1, ContractStep, RunInvariant, PTL DEF Spec, KeepsContract, Contract!Spec
=============================================================================
