---------------------------- MODULE ProcessProofs ----------------------------
(***************************************************************************)
(* Proofs about Process, for any readiness conditions, mode and output.    *)
(* ProcessInv says what each place of main knows of the run and of the     *)
(* code (PlaceInv, CodeInv), how a report follows from what ended the run  *)
(* (ReportInv), and that whatever heard of a signal heard of one that was  *)
(* sent (SignalInv).                                                       *)
(***************************************************************************)
EXTENDS Process, TLAPS

\* The run reports only between run and print, and a signal is taken only at the end.
PlaceInv ==
    /\ pc \in {"main", "notify", "execute", "run"} => report = "none"
    /\ pc = "print" => report # "none"
    /\ pc \in {"run", "print"} => invocation = "wait"
    /\ pc \in {"main", "notify", "execute", "run", "print", "select", "exit"} => taken = "none"
    /\ pc \in {"reset", "raise"} => taken # "none"

\* The code that Execute returned, once it did.
CodeInv ==
    pc \in {"select", "exit", "reset", "raise"} /\ invocation = "wait" =>
      /\ code = 0 => report = "satisfied"
      /\ code = 1 => report = "timeout"
      /\ code = 2 => report = "none"
      /\ code = 3 => report = "fatal" \/ (JSON /\ report # "none")
      /\ code = 130 => report = "cancelled"
      /\ report = "cancelled" => code = 130 \/ (JSON /\ code = 3)

\* A run that was not decided reports what ended it; only a decided one ends itself.
ReportInv ==
    /\ report = "timeout" => cause = "deadline"
    /\ report = "cancelled" => cause = "parent" /\ invocation = "wait"
    /\ cause = "runner" => verdict # "none"

\* Every consequence of a signal has one that was sent.
SignalInv ==
    /\ cause = "parent" => cancelled
    /\ ctxCh => sent # {}
    /\ delivery.to # {} => delivery.signal \in sent

ProcessInv ==
    /\ TypeOK
    /\ PlaceInv
    /\ CodeInv
    /\ ReportInv
    /\ SignalInv
    /\ ExitTellsOutcome
    /\ CancelledBySignal
    /\ FirstSignalDecides

\* main has not registered for signals and nothing was run.
LEMMA InitInv == Init => ProcessInv
<1> SUFFICES ASSUME Init PROVE ProcessInv
  OBVIOUS
<1> USE DEF Init, Run!Init, Alive, Idle
<1>1. TypeOK
  <2>1. delivery \in [signal : sent \cup {"none"}, to : SUBSET {"main", "context"}]
    OBVIOUS
  <2>2. Run!TypeOK
    BY DEF Run!TypeOK
  <2>3. ctxCh \in BOOLEAN /\ cancelled \in BOOLEAN /\ (cancelled => ctxCh)
    OBVIOUS
  <2>4. code \in 0..3 \cup {ExitCancelled}
    OBVIOUS
  <2>5. exit \in {Alive, 0, 1, 2, 3, 130, 143} /\ (exit = Alive <=> pc # "gone")
    OBVIOUS
  <2>6. /\ pc \in {"main", "notify", "execute", "run", "print", "select", "exit",
                   "reset", "raise", "gone"}
        /\ sent \subseteq TerminationSignals /\ pending \subseteq sent
        /\ sigCh \in sent \cup {"none"} /\ taken \in sent \cup {"none"}
    OBVIOUS
  <2> QED BY <2>1, <2>2, <2>3, <2>4, <2>5, <2>6 DEF TypeOK
<1>2. PlaceInv /\ CodeInv /\ ReportInv /\ SignalInv
  BY DEF PlaceInv, CodeInv, ReportInv, SignalInv
<1>3. ExitTellsOutcome /\ CancelledBySignal /\ FirstSignalDecides
  BY DEF ExitTellsOutcome, CancelledBySignal, FirstSignalDecides
<1> QED BY <1>1, <1>2, <1>3 DEF ProcessInv

\* Every step of the signals, of the run and of main preserves ProcessInv.
LEMMA StepInv == ProcessInv /\ [Next]_vars => ProcessInv'
<1> SUFFICES ASSUME ProcessInv, [Next]_vars PROVE ProcessInv'
  OBVIOUS
<1> USE DEF ProcessInv, TypeOK, Run!TypeOK, PlaceInv, CodeInv, ReportInv, SignalInv,
            ExitTellsOutcome, CancelledBySignal, FirstSignalDecides,
            signals, runner, Alive, ExitCancelled, Run!Causes
<1>0. CASE UNCHANGED vars
  BY <1>0 DEF vars, Died
<1>1. ASSUME NEW sig \in TerminationSignals, Signal(sig) PROVE ProcessInv'
  <2>1. CASE Handled(sig)
    <3>1. /\ sent' = sent \cup {sig} /\ pending' = pending \cup {sig} /\ sig \notin sent
          /\ UNCHANGED <<pc, exit, invocation, delivery, sigCh, ctxCh, cancelled, taken, code>>
          /\ UNCHANGED <<completed, verdict, cause, report>>
      BY <1>1, <2>1 DEF Signal
    <3>2. TypeOK'
      BY <3>1
    <3>3. PlaceInv' /\ CodeInv' /\ ReportInv' /\ SignalInv'
      BY <3>1
    <3>4. ExitTellsOutcome' /\ CancelledBySignal' /\ FirstSignalDecides'
      BY <3>1 DEF Died
    <3> QED BY <3>2, <3>3, <3>4
  <2>2. CASE ~Handled(sig)
    <3>1. /\ sent' = sent \cup {sig} /\ pc' = "gone" /\ exit' = Died(sig)
          /\ UNCHANGED <<pending, invocation, delivery, sigCh, ctxCh, cancelled, taken, code>>
          /\ UNCHANGED <<completed, verdict, cause, report>>
      BY <1>1, <2>2 DEF Signal, Die
    <3>2. pc = "main" \/ (pc = "raise" /\ sig = taken)
      BY <2>2 DEF Handled
    <3>3. exit' \in {130, 143} /\ (exit' = 143 <=> sig = "SIGTERM")
      BY <3>1 DEF Died, TerminationSignals
    <3>4. TypeOK'
      BY <3>1, <3>3
    <3>5. FirstSignalDecides'
      BY <3>1, <3>2
    <3> QED BY <3>1, <3>3, <3>4, <3>5
  <2> QED BY <2>1, <2>2
<1>2. ASSUME NEW sig \in TerminationSignals, BeginDelivery(sig) PROVE ProcessInv'
  BY <1>2, ProcessConfig DEF BeginDelivery, Channels, Handled, Unlocked, TerminationSignals
<1>3. ASSUME NEW channel \in {"main", "context"}, Deliver(channel) PROVE ProcessInv'
  BY <1>3, ProcessConfig DEF Deliver
<1>4. CASE CancelContext
  BY <1>4, ProcessConfig DEF CancelContext
<1>5. ASSUME NEW c \in Ready, Completes(c) PROVE ProcessInv'
  BY <1>5, ProcessConfig DEF Completes, RunStep, Run!Complete
<1>6. CASE Settles
  BY <1>6, ProcessConfig DEF Settles, RunStep, Run!Settle
<1>7. CASE Fails
  BY <1>7, ProcessConfig DEF Fails, RunStep, Run!Fail
<1>8. CASE Expires
  BY <1>8, ProcessConfig DEF Expires, RunStep, Run!Interrupt
<1>9. CASE EndsItself
  BY <1>9, ProcessConfig DEF EndsItself, RunStep, Run!Interrupt
<1>10. CASE ParentEnds
  BY <1>10, ProcessConfig DEF ParentEnds, RunStep, Run!Interrupt
<1>11. CASE RunReturns
  BY <1>11, ProcessConfig DEF RunReturns, Step, Run!Report
<1>12. CASE NotifyMain
  BY <1>12, ProcessConfig DEF NotifyMain, Step
<1>13. CASE NotifyContext
  BY <1>13, ProcessConfig DEF NotifyContext, Step
<1>14. ASSUME NEW c \in 0..3, ExecuteReturns(c) PROVE ProcessInv'
  BY <1>14, ProcessConfig DEF ExecuteReturns, Step, ExitSatisfied, ExitInvalid, ExitFatal
<1>15. CASE StartRun
  BY <1>15, ProcessConfig DEF StartRun, Step
<1>16. CASE Printed
  BY <1>16, ProcessConfig DEF Printed, Step, ExitCodeForStatus, ExitSatisfied, ExitFatal,
            ExitTimeout
<1>17. CASE NotPrinted
  BY <1>17, ProcessConfig DEF NotPrinted, Step, ExitFatal
<1>18. CASE NoSignal
  BY <1>18, ProcessConfig DEF NoSignal, Step
<1>19. CASE TakeSignal
  BY <1>19, ProcessConfig DEF TakeSignal, Step
<1>20. CASE Exit
  BY <1>20, ProcessConfig DEF Exit, Step
<1>21. CASE ResetSignal
  BY <1>21, ProcessConfig DEF ResetSignal, Step
<1>22. CASE Reraised
  BY <1>22, ProcessConfig DEF Reraised, Die, Died, TerminationSignals
<1>23. CASE FallbackExit
  BY <1>23, ProcessConfig DEF FallbackExit, Step, Died, TerminationSignals
<1>24. CASE Gone
  BY <1>24, ProcessConfig DEF Gone, vars
<1> QED
  BY <1>0, <1>1, <1>2, <1>3, <1>4, <1>5, <1>6, <1>7, <1>8, <1>9, <1>10, <1>11, <1>12, <1>13,
     <1>14, <1>15, <1>16, <1>17, <1>18, <1>19, <1>20, <1>21, <1>22, <1>23, <1>24
     DEF Next, Os, RunSteps, Main

-----------------------------------------------------------------------------
\* In every reachable state, what main, the signal channels and the run know agrees
\* with the signals that were sent and with how the run ended.
THEOREM ProcessInvariant == Spec => []ProcessInv
  BY InitInv, StepInv, PTL DEF Spec

\* The variables keep their types, and the process has a status just when it is gone.
THEOREM TypeCorrect == Spec => []TypeOK
<1>1. ProcessInv => TypeOK
  BY DEF ProcessInv
<1> QED BY <1>1, ProcessInvariant, PTL

\* Whatever the exit status says of the run or of a signal is true (exitCodeForStatus,
\* exitAfterSignal, main).
THEOREM ExitSound == Spec => []ExitTellsOutcome
<1>1. ProcessInv => ExitTellsOutcome
  BY DEF ProcessInv
<1> QED BY <1>1, ProcessInvariant, PTL

\* A run is reported as cancelled only after a signal, and the process does not then
\* exit as one that timed out or failed (NotifyContext, finalStatus, main).
THEOREM CancelledSound == Spec => []CancelledBySignal
<1>1. ProcessInv => CancelledBySignal
  BY DEF ProcessInv
<1> QED BY <1>1, ProcessInvariant, PTL

\* The signal that main found decides the exit status, whatever the run returned and
\* whichever signal follows (exitAfterSignal).
THEOREM FirstSignalSound == Spec => []FirstSignalDecides
<1>1. ProcessInv => FirstSignalDecides
  BY DEF ProcessInv
<1> QED BY <1>1, ProcessInvariant, PTL
=============================================================================
