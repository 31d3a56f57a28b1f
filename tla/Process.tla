------------------------------- MODULE Process -------------------------------
(***************************************************************************)
(* The waitfor process on Unix: main registers two consumers of SIGINT and *)
(* SIGTERM, a channel that it reads last and a context that ends the run;  *)
(* cli.Execute parses, runs, prints and returns a code; main then exits    *)
(* with that code or dies of the signal.  The runner is its contract.      *)
(*                                                                         *)
(* main -> notify -> execute -> [run -> print] -> select                   *)
(*                       select -> exit -> gone,   select -> reset -> raise -> gone *)
(***************************************************************************)
EXTENDS Integers, FiniteSets

CONSTANTS
    Ready, Mode,  \* as in RunContract
    JSON          \* BOOLEAN: --output json

ASSUME ProcessConfig == Ready # {} /\ Mode \in {"all", "any"} /\ JSON \in BOOLEAN

VARIABLES
    pc,          \* what the main goroutine does next
    invocation,  \* what the arguments ask for
    sent,        \* the signals sent so far; each is sent at most once
    pending,     \* what the Go runtime has queued
    delivery,    \* the signal being handed out, and the channels still to get it
    sigCh,       \* main's channel of capacity 1, "none" when empty
    ctxCh,       \* did the channel of signal.NotifyContext get a signal?
    cancelled,   \* is that context cancelled?
    taken,       \* the signal that main found in sigCh
    code,        \* what Execute returned
    exit,        \* the status that a parent shell sees, Alive before
    completed, verdict, cause, report   \* the run: see RunContract

runner == <<completed, verdict, cause, report>>
signals == <<sent, pending, delivery, sigCh, ctxCh, cancelled>>
vars == <<pc, invocation, signals, taken, code, exit, runner>>

Run == INSTANCE RunContract

\* terminationSignals, and the shell's status for a process that died of one.
TerminationSignals == {"SIGINT", "SIGTERM"}
Died(sig) == IF sig = "SIGINT" THEN 130 ELSE 143

ExitSatisfied == 0
ExitTimeout == 1
ExitInvalid == 2
ExitFatal == 3
ExitCancelled == 130
Alive == -1

Idle == [signal |-> "none", to |-> {}]

TypeOK ==
    /\ pc \in {"main", "notify", "execute", "run", "print", "select", "exit",
               "reset", "raise", "gone"}
    /\ invocation \in {"help", "doctor", "wait"}
    /\ sent \subseteq TerminationSignals
    /\ pending \subseteq sent
    /\ delivery \in [signal : sent \cup {"none"}, to : SUBSET {"main", "context"}]
    /\ sigCh \in sent \cup {"none"}
    /\ taken \in sent \cup {"none"}
    /\ ctxCh \in BOOLEAN /\ cancelled \in BOOLEAN
    /\ cancelled => ctxCh
    /\ code \in 0..3 \cup {ExitCancelled}
    /\ exit \in {Alive, 0, 1, 2, 3, 130, 143}
    /\ exit = Alive <=> pc # "gone"
    /\ Run!TypeOK

Init ==
    /\ pc = "main"
    /\ invocation \in {"help", "doctor", "wait"}
    /\ sent = {} /\ pending = {} /\ delivery = Idle
    /\ sigCh = "none" /\ ctxCh = FALSE /\ cancelled = FALSE
    /\ taken = "none" /\ code = 0 /\ exit = Alive
    /\ Run!Init

-----------------------------------------------------------------------------
(* Signals: the kernel, and the goroutine of os/signal that hands them out. *)

\* Before signal.Notify, and after signal.Reset, a signal is fatal.
Handled(sig) == pc # "main" /\ ~(pc = "raise" /\ sig = taken)

Die(sig) == pc' = "gone" /\ exit' = Died(sig)

Signal(sig) ==
    /\ pc # "gone"
    /\ sig \notin sent
    /\ sent' = sent \cup {sig}
    /\ IF Handled(sig) THEN pending' = pending \cup {sig} /\ UNCHANGED <<pc, exit>>
                       ELSE Die(sig) /\ UNCHANGED pending
    /\ UNCHANGED <<invocation, delivery, sigCh, ctxCh, cancelled, taken, code, runner>>

\* The lock of os/signal is held until every channel was served.
Unlocked == delivery.to = {}

\* Mutant of Channels: the context of the run is not told of signals.
ChannelsOfMain(sig) == IF Handled(sig) THEN {"main"} ELSE {}

\* The channels that are registered when the signal's turn comes.
Channels(sig) ==
    IF ~Handled(sig) THEN {}
    ELSE IF pc = "notify" THEN {"main"} ELSE {"main", "context"}

BeginDelivery(sig) ==
    /\ pc # "gone"
    /\ Unlocked
    /\ sig \in pending
    /\ pending' = pending \ {sig}
    /\ delivery' = [signal |-> sig, to |-> Channels(sig)]
    /\ UNCHANGED <<pc, invocation, sent, sigCh, ctxCh, cancelled, taken, code, exit, runner>>

\* A send does not wait: what does not fit is dropped. The channels are served in
\* any order.
Deliver(channel) ==
    /\ pc # "gone"
    /\ channel \in delivery.to
    /\ delivery' = [delivery EXCEPT !.to = @ \ {channel}]
    /\ sigCh' = IF channel = "main" /\ sigCh = "none" THEN delivery.signal ELSE sigCh
    /\ ctxCh' = (ctxCh \/ channel = "context")
    /\ UNCHANGED <<pc, invocation, sent, pending, cancelled, taken, code, exit, runner>>

\* Mutant of CancelContext: the context is cancelled without a signal.
CancelContextUnasked ==
    /\ pc # "gone"
    /\ ~cancelled
    /\ cancelled' = TRUE
    /\ UNCHANGED <<pc, invocation, sent, pending, delivery, sigCh, ctxCh, taken, code,
                   exit, runner>>

\* The goroutine of signal.NotifyContext.
CancelContext ==
    /\ pc # "gone"
    /\ ctxCh /\ ~cancelled
    /\ cancelled' = TRUE
    /\ UNCHANGED <<pc, invocation, sent, pending, delivery, sigCh, ctxCh, taken, code,
                   exit, runner>>

-----------------------------------------------------------------------------
(* main and Execute.                                                       *)

Step(from, to) == pc = from /\ pc' = to

\* signal.Notify(sigCh, ...).
NotifyMain ==
    /\ Step("main", "notify")
    /\ UNCHANGED <<invocation, signals, taken, code, exit, runner>>

\* signal.NotifyContext, after SIGPIPE was ignored: waits for the lock.
NotifyContext ==
    /\ Step("notify", "execute")
    /\ Unlocked
    /\ UNCHANGED <<invocation, signals, taken, code, exit, runner>>

\* Execute returns without a run: help, a doctor that is content or not, arguments
\* that do not parse, a doctor report that could not be written.
ExecuteReturns(c) ==
    /\ Step("execute", "select")
    /\ c \in CASE invocation = "help"   -> {ExitSatisfied}
               [] invocation = "doctor" -> {ExitSatisfied, ExitInvalid, ExitFatal}
               [] invocation = "wait"   -> {ExitInvalid}
    /\ code' = c
    /\ UNCHANGED <<invocation, signals, taken, exit, runner>>

\* run parses the arguments and calls runner.Run.
StartRun ==
    /\ Step("execute", "run")
    /\ invocation = "wait"
    /\ UNCHANGED <<invocation, signals, taken, code, exit, runner>>

\* A step of the run: its context ends for its parent's sake when a signal has
\* cancelled that.
RunStep(step) == pc = "run" /\ step /\ UNCHANGED <<pc, invocation, signals, taken, code, exit>>

\* Mutant of ParentEnds: the run is cancelled for nobody's sake.
ParentEndsUnasked == RunStep(Run!Interrupt("parent"))

Completes(c) == RunStep(Run!Complete(c))
Settles == RunStep(Run!Settle)
Fails == RunStep(Run!Fail)
Expires == RunStep(Run!Interrupt("deadline"))
EndsItself == RunStep(Run!Interrupt("runner"))
ParentEnds == cancelled /\ RunStep(Run!Interrupt("parent"))

RunReturns ==
    /\ Step("run", "print")
    /\ Run!Report
    /\ UNCHANGED <<invocation, signals, taken, code, exit>>

\* Mutant of ExitCodeForStatus: no case for a fatal run.
ExitCodeWithoutFatal(status) ==
    CASE status = "satisfied" -> ExitSatisfied
      [] status = "cancelled" -> ExitCancelled
      [] OTHER -> ExitTimeout

ExitCodeForStatus(status) ==
    CASE status = "satisfied" -> ExitSatisfied
      [] status = "fatal" -> ExitFatal
      [] status = "cancelled" -> ExitCancelled
      [] OTHER -> ExitTimeout

\* The printer writes the outcome; in text, whether it could be written is ignored.
Printed ==
    /\ Step("print", "select")
    /\ code' = ExitCodeForStatus(report)
    /\ UNCHANGED <<invocation, signals, taken, exit, runner>>

NotPrinted ==
    /\ Step("print", "select")
    /\ JSON
    /\ code' = ExitFatal
    /\ UNCHANGED <<invocation, signals, taken, exit, runner>>

\* The select at the end of main.
NoSignal ==
    /\ Step("select", "exit")
    /\ sigCh = "none"
    /\ UNCHANGED <<invocation, signals, taken, code, exit, runner>>

TakeSignal ==
    /\ Step("select", "reset")
    /\ sigCh # "none"
    /\ taken' = sigCh
    /\ sigCh' = "none"
    /\ UNCHANGED <<invocation, sent, pending, delivery, ctxCh, cancelled, code, exit, runner>>

\* os.Exit(code).
Exit ==
    /\ Step("exit", "gone")
    /\ exit' = code
    /\ UNCHANGED <<invocation, signals, taken, code, runner>>

\* signal.Reset(sig).
ResetSignal ==
    /\ Step("reset", "raise")
    /\ Unlocked
    /\ UNCHANGED <<invocation, signals, taken, code, exit, runner>>

\* The signal that main sent to itself kills the process,
Reraised ==
    /\ pc = "raise"
    /\ Die(taken)
    /\ UNCHANGED <<invocation, signals, taken, code, runner>>

\* Mutant of FallbackExit: one code for both signals.
FallbackExitInterrupt ==
    /\ Step("raise", "gone")
    /\ exit' = 130
    /\ UNCHANGED <<invocation, signals, taken, code, runner>>

\* or os.Exit comes first.
FallbackExit ==
    /\ Step("raise", "gone")
    /\ exit' = IF taken = "SIGTERM" THEN 143 ELSE 130
    /\ UNCHANGED <<invocation, signals, taken, code, runner>>

\* Nothing is left.
Gone == pc = "gone" /\ UNCHANGED vars

-----------------------------------------------------------------------------
Os ==
    \/ \E sig \in TerminationSignals : Signal(sig) \/ BeginDelivery(sig)
    \/ \E channel \in {"main", "context"} : Deliver(channel)
    \/ CancelContext

RunSteps ==
    \/ \E c \in Ready : Completes(c)
    \/ Settles \/ Fails \/ Expires \/ EndsItself \/ ParentEnds \/ RunReturns

Main ==
    \/ NotifyMain \/ NotifyContext
    \/ \E c \in 0..3 : ExecuteReturns(c)
    \/ StartRun
    \/ Printed \/ NotPrinted
    \/ NoSignal \/ TakeSignal
    \/ Exit \/ ResetSignal \/ Reraised \/ FallbackExit

Next == Os \/ RunSteps \/ Main \/ Gone

Spec == Init /\ [][Next]_vars

\* Every goroutine runs; signals may never be sent, conditions may never hold and
\* the deadline may be as far away as it likes. A run need not return, even when its
\* context has ended: it joins every check, and a check may never end (ExecCheck).
FairSpec ==
    /\ Spec
    /\ \A sig \in TerminationSignals : WF_vars(BeginDelivery(sig))
    /\ \A channel \in {"main", "context"} : WF_vars(Deliver(channel))
    /\ WF_vars(CancelContext)
    /\ WF_vars(Main)
    /\ WF_vars(ParentEnds)

-----------------------------------------------------------------------------
(* Properties.                                                             *)

\* What the exit status tells: 0 that the run was satisfied and no signal was found,
\* 1 that it timed out, 2 that nothing was run, 3 that it was fatal or, in JSON, not
\* written, 143 that SIGTERM was sent. SIGTERM may end in 130 when its delivery to
\* main's channel comes last of all; a signal that is sent in time is never taken for
\* a timeout (exitCodeForStatus, main).
ExitTellsOutcome ==
    invocation = "wait" =>
      /\ exit = 0 => report = "satisfied" /\ taken = "none"
      /\ exit = 1 => report = "timeout" /\ cause = "deadline"
      /\ exit = 2 => report = "none"
      /\ exit = 3 => report = "fatal" \/ (JSON /\ report # "none")
      /\ exit = 130 => sent # {}
      /\ exit = 143 => "SIGTERM" \in sent

\* A run is cancelled only by a signal that the process got, and a process whose run
\* was cancelled does not exit as one that timed out or failed, unless it could not
\* write its report (NotifyContext, finalStatus, main).
CancelledBySignal ==
    report = "cancelled" =>
      /\ sent # {}
      /\ exit \in {Alive, 130, 143} \/ (JSON /\ exit = 3)

\* Once main has found a signal, the process ends as that signal asks: not with the
\* code of the run, and not by the other signal, which may come at any moment
\* (exitAfterSignal).
FirstSignalDecides ==
    taken # "none" /\ exit # Alive => exit = Died(taken)

\* A run that has been told to end and never does: a check of it has not returned.
Hangs == pc = "run" /\ cause # "live"

\* A signal that comes once the context is registered ends the process, however far
\* away the deadline, unless a check does not return when its context ends: the signal
\* reaches the run in any case, and a run that returns is all that the process waits
\* for (main, Execute, run).
SignalEndsProcess ==
    (pc \in {"execute", "run"} /\ pending # {}) ~> (pc = "gone" \/ []Hangs)
=============================================================================
