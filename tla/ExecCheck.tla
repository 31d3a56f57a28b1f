------------------------------ MODULE ExecCheck ------------------------------
(***************************************************************************)
(* ExecCondition.Check on Unix: one command, the processes it starts, the  *)
(* pipes that carry their output, the goroutine of os/exec that watches    *)
(* the attempt context, and the Cancel function that kills the command's   *)
(* process group.  What cmd.Run does is modelled from os/exec: it waits    *)
(* for the command, then for the watcher, then until nobody holds a pipe.  *)
(***************************************************************************)
EXTENDS Integers

CONSTANTS
    Descendants,  \* the processes that the command may start
    ExitCodes,    \* the codes with which it may exit
    Expected      \* ExecCondition.ExpectedExitCode

\* What ExitCode returns of a process that a signal ended.
Signalled == -1

ASSUME ExecConfig ==
    /\ ExitCodes \subseteq Nat
    /\ Expected \in Nat
    /\ "command" \notin Descendants

VARIABLES
    ctx,       \* the attempt context: "live" or "done"
    pc,        \* Check: "start", "wait", "watch", "copy" or "done"
    watcher,   \* the watching goroutine: "none", "watching", "fired" or "dismissed"
    watchErr,  \* did Cancel find a process to kill?
    command,   \* "none", "running", "exited" or "reaped"
    status,    \* how it ended
    family,    \* each descendant: "unborn", "grouped", "escaped" or "dead"
    pipe,      \* who can still write to the output pipes
    runErr,    \* what cmd.Run returns: "nil", "exit" or "context"
    result

os == <<command, status, family, pipe>>
vars == <<ctx, pc, watcher, watchErr, command, status, family, pipe, runErr, result>>

Processes == Descendants \cup {"command"}

TypeOK ==
    /\ ctx \in {"live", "done"}
    /\ pc \in {"start", "wait", "watch", "copy", "done"}
    /\ watcher \in {"none", "watching", "fired", "dismissed"}
    /\ watchErr \in BOOLEAN
    /\ command \in {"none", "running", "exited", "reaped"}
    /\ status \in ExitCodes \cup {Signalled}
    /\ family \in [Descendants -> {"unborn", "grouped", "escaped", "dead"}]
    /\ pipe \subseteq {p \in Processes :
                         IF p = "command" THEN command = "running"
                                          ELSE family[p] \in {"grouped", "escaped"}}
    /\ runErr \in {"nil", "exit", "context"}
    /\ runErr = "context" => ctx = "done"
    /\ result \in {"none", "satisfied", "unsatisfied", "fatal"}

Init ==
    /\ ctx = "live" /\ pc = "start"
    /\ watcher = "none" /\ watchErr = FALSE
    /\ command = "none" /\ status = Signalled
    /\ family = [d \in Descendants |-> "unborn"]
    /\ pipe = {}
    /\ runErr = "nil" /\ result = "none"

-----------------------------------------------------------------------------
(* The context, and the processes.                                         *)

ContextEnds ==
    /\ ctx = "live"
    /\ ctx' = "done"
    /\ UNCHANGED <<pc, watcher, watchErr, os, runErr, result>>

\* The command starts a process in its group, with its output or redirected.
Fork(d) ==
    /\ command = "running"
    /\ family[d] = "unborn"
    /\ family' = [family EXCEPT ![d] = "grouped"]
    /\ pipe' \in {pipe, pipe \cup {d}}
    /\ UNCHANGED <<ctx, pc, watcher, watchErr, command, status, runErr, result>>

\* It makes a session of its own.
Escape(d) ==
    /\ family[d] = "grouped"
    /\ family' = [family EXCEPT ![d] = "escaped"]
    /\ UNCHANGED <<ctx, pc, watcher, watchErr, command, status, pipe, runErr, result>>

Ends(d) ==
    /\ family[d] \in {"grouped", "escaped"}
    /\ family' = [family EXCEPT ![d] = "dead"]
    /\ pipe' = pipe \ {d}
    /\ UNCHANGED <<ctx, pc, watcher, watchErr, command, status, runErr, result>>

\* The command exits, or is killed by somebody else.
CommandEnds(how) ==
    /\ command = "running"
    /\ command' = "exited"
    /\ status' = how
    /\ pipe' = pipe \ {"command"}
    /\ UNCHANGED <<ctx, pc, watcher, watchErr, family, runErr, result>>

-----------------------------------------------------------------------------
(* Check, up to the end of cmd.Run.                                        *)

Answer(r) == pc' = "done" /\ result' = r

\* cmd.Start refuses a context that has ended.
StartRefused ==
    /\ pc = "start"
    /\ ctx = "done"
    /\ Answer("unsatisfied")
    /\ UNCHANGED <<ctx, watcher, watchErr, os, runErr>>

\* There is no such program or directory, or it cannot be started.
StartFails ==
    /\ pc = "start"
    /\ Answer(IF ctx = "done" THEN "unsatisfied" ELSE "fatal")
    /\ UNCHANGED <<ctx, watcher, watchErr, os, runErr>>

Start ==
    /\ pc = "start"
    /\ ctx = "live"
    /\ command' = "running" /\ pipe' = {"command"}
    /\ watcher' = "watching"
    /\ pc' = "wait"
    /\ UNCHANGED <<ctx, watchErr, status, family, runErr, result>>

\* The processes that kill(-pid) reaches: the command is one until it was reaped.
Group == {d \in Descendants : family[d] = "grouped"}
             \cup (IF command \in {"running", "exited"} THEN {"command"} ELSE {})

\* Mutant of CancelCommand: no process group, only the command is killed.
CancelCommandAlone ==
    /\ watcher = "watching"
    /\ ctx = "done"
    /\ watcher' = "fired" /\ watchErr' = (Group # {})
    /\ IF command = "running" THEN command' = "exited" /\ status' = Signalled
                              ELSE UNCHANGED <<command, status>>
    /\ pipe' = pipe \ {"command"}
    /\ UNCHANGED <<ctx, pc, family, runErr, result>>

\* Mutant of CancelCommand: the group that is killed is not the command's.
CancelCommandMisses ==
    /\ watcher = "watching"
    /\ ctx = "done"
    /\ watcher' = "fired" /\ watchErr' = FALSE
    /\ UNCHANGED <<ctx, pc, os, runErr, result>>

\* The watcher calls cmd.Cancel, which kills the group; an empty one has finished.
CancelCommand ==
    /\ watcher = "watching"
    /\ ctx = "done"
    /\ watcher' = "fired" /\ watchErr' = (Group # {})
    /\ IF command = "running" THEN command' = "exited" /\ status' = Signalled
                              ELSE UNCHANGED <<command, status>>
    /\ family' = [d \in Descendants |-> IF d \in Group THEN "dead" ELSE family[d]]
    /\ pipe' = pipe \ Group
    /\ UNCHANGED <<ctx, pc, runErr, result>>

\* Process.Wait.
Reap ==
    /\ pc = "wait"
    /\ command = "exited"
    /\ command' = "reaped"
    /\ runErr' = IF status = 0 THEN "nil" ELSE "exit"
    /\ pc' = "watch"
    /\ UNCHANGED <<ctx, watcher, watchErr, status, family, pipe, result>>

\* Wait meets the watcher: it is told to stop,
Dismiss ==
    /\ pc = "watch"
    /\ watcher = "watching"
    /\ watcher' = "dismissed"
    /\ pc' = "copy"
    /\ UNCHANGED <<ctx, watchErr, os, runErr, result>>

\* or reports what it did.
HearWatcher ==
    /\ pc = "watch"
    /\ watcher = "fired"
    /\ runErr' = IF runErr = "nil" /\ watchErr THEN "context" ELSE runErr
    /\ pc' = "copy"
    /\ UNCHANGED <<ctx, watcher, watchErr, os, result>>

\* Mutant of Code: an error is an exit, whatever the context says.
CodeIgnoresStatus == IF runErr = "nil" THEN 0 ELSE Expected

\* classifyRunError, where it comes to an exit code.
Cancelled == runErr # "nil" /\ ctx = "done"
Code == IF runErr = "nil" THEN 0 ELSE status

\* The pipes are closed, all output was read, and cmd.Run returns: the exit code and
\* then the output are compared with what is expected.
CopyDone ==
    /\ pc = "copy"
    /\ pipe = {}
    /\ \/ ~Cancelled /\ Code = Expected /\ Answer("satisfied")
       \/ Answer("unsatisfied")
    /\ UNCHANGED <<ctx, watcher, watchErr, os, runErr>>

Done == pc = "done" /\ UNCHANGED vars

-----------------------------------------------------------------------------
Environment ==
    \/ ContextEnds
    \/ \E d \in Descendants : Fork(d) \/ Escape(d) \/ Ends(d)
    \/ \E how \in ExitCodes \cup {Signalled} : CommandEnds(how)

Check ==
    \/ StartRefused \/ StartFails \/ Start \/ Reap \/ Dismiss \/ HearWatcher \/ CopyDone

Next == Environment \/ Check \/ CancelCommand \/ Done

Spec == Init /\ [][Next]_vars

\* The goroutines run. Processes need not end, and the context need not either.
FairSpec == Spec /\ WF_vars(Check) /\ WF_vars(CancelCommand)

-----------------------------------------------------------------------------
(* Properties.                                                             *)

\* The answer is about the command's own exit: satisfied only if it ended with the
\* expected code and was not killed, fatal only if it never ran, and unsatisfied of
\* a live context only if it ended (classifyRunError reads the context after cmd.Run,
\* when it may have ended too).
AnswerMatchesExit ==
    /\ result = "satisfied" => command = "reaped" /\ status = Expected
    /\ result = "fatal" => command = "none"
    /\ result = "unsatisfied" /\ ctx = "live" => command = "reaped"

\* No output comes after the answer: what was matched is all that there is.
AnswerSeesAllOutput == pc = "done" => pipe = {}

\* When the attempt ended before the command did, no process of its group is left,
\* whatever it had started (prepareExecCommand).
CancelledGroupIsGone ==
    watcher = "fired" => \A d \in Descendants : family[d] # "grouped"

\* A cancelled check returns, unless a process that outlived the command keeps its
\* output open (Check, prepareExecCommand).
CancelledCheckReturns ==
    <>[](ctx = "live" \/ pc = "done" \/ (pc = "copy" /\ pipe # {}))

\* What docs/SPEC.md:361 says of every Check: it returns when ctx is cancelled.
ReturnsWhenCancelled == ctx = "done" ~> pc = "done"
=============================================================================
