# Formal verification of waitfor

`waitfor` is a command-line tool that waits until conditions hold: a TCP port accepts connections,
a URL answers, a DNS record appears, a container or a Kubernetes resource is ready, a file or a log
line exists, a command succeeds. It exits 0 when the conditions are met, 1 when a deadline passes,
2 on bad input, 3 when something is fatal or a guard fires, and 128 plus the signal when it is
interrupted. This directory holds TLA+ models of its core, the TLC configurations that check them
and the TLAPS proofs of what matters most about them. All paths below are relative to `src/`.

Contents: [inventory](#1-inventory), [plan](#2-plan), [the models](#3-the-models-and-the-code),
[the runs](#4-the-runs), [fairness](#5-fairness), [the proofs](#6-the-proofs),
[disagreements found](#7-disagreements-between-code-and-documentation),
[what is not modelled](#8-what-is-not-modelled).

## 1. Inventory

### How the parts interact

`main` starts a context that a signal cancels and calls `cli.Execute`, which parses the arguments
into a `runner.Config` with one condition per segment and calls `runner.Run`. `Run` starts one
goroutine per condition; each goroutine calls `Check` on its condition until the condition
completes or the run ends. Conditions never call each other: they meet in the gate of a shared
pointer, in the counter and the terminal word of the run, and in the attempt recorder, whose mutex
serializes the `OnAttempt` callback of the CLI. `Run` joins its goroutines and derives one
`Outcome`, which the CLI prints and turns into an exit code. Each backend has its options checked
twice, by its parser in the CLI and by its first `Check`, and its `Check` looks at something that
others change meanwhile: files, services, zones, pods, processes.

### Components

| component (code) | state | operations | what is hard | what makes it correct |
|---|---|---|---|---|
| Runner (`internal/runner/runner.go`) | run context, terminal word, `readyRemaining`, gates, recorder mutex; per goroutine: progress, schedule, record | `Run`, `runCondition`, `checkCondition`, `cancelSatisfiedRun`, `resultEndsCondition`, `emit`, `finalStatus` | goroutines decide the run in two atomic operations, against the deadline, the caller, guards and each other; gates and a mutex on every path | one verdict, the first one; a report that agrees with the records; no gate kept; every decided run returns |
| Poll schedule and stability (`runner.go:460-600`) | streak, its start, current interval | `applyStabilityThreshold`, `pollSchedule.next`, `withJitter` | flapping checks, expired attempts, doubling near the largest Duration | completes exactly when stable; backs off by doubling; base rate while stabilizing |
| Condition core, guards (`internal/condition/condition.go`) | none | `GuardCondition.Check`, unwrapping | a guard inverts satisfaction into a fatal result; wrappers share pointers | a guard never satisfies; shared pointers share a gate |
| Log (`internal/condition/log.go`) | offset, previous file info, count, `initialized`, `missingInit` | `Check`: stat, rotation test, first offset, open, scan | writers and rotation between any two system calls, cancelled scans, half-written lines, long lines | no line skipped or counted twice; a new file is read whole |
| Exec (`exec.go`, `exec_unix.go`) | process, its group, output buffer | `Check`: start, wait, kill of the group | deadline against exit; descendants that keep the pipes open | answer matches the exit; the check returns |
| Process and signals (`cmd/waitfor`) | two signal channels, exit code | `main`, signal handling, re-raise | a signal before, during and after `Execute` | exit code matches what happened |
| CLI execution (`internal/cli/cli.go`) | config, printer | `run`, exit codes | the report may fail to be written | exit code follows the outcome |
| CLI segments and options (`cli.go`) | segments, the segment being read | `splitConditionSegments`, `parseConditionName`, `parseCondition`, one parser per backend | `--` separates conditions, introduces commands, is part of them and may be a value; options are validated in two places | a line of the grammar of `docs/SPEC.md` is read as written; what is accepted is valid |
| File (`file.go`) | none | `Check`: stat, open, reads | two looks at a path that others replace, several reads of a file that others write | an answer that was true at some moment of the check |
| HTTP (`http.go`) | cached client | `Check`: request, redirects, status, body | redirects and the service change between hops | status and body of one response |
| DNS (`dns.go`) | none | `Check`: system or wire lookup, absence, matchers | lost and truncated answers, one question per address family | an answer that was true at some moment |
| Kubernetes (`k8s.go`) | client, or the error of making it | `Check`: get or list, ready, rollout, complete, selection | counts written by a controller for an older generation | a satisfied rollout is one |
| TCP, Docker (`tcp.go`, `docker.go`) | none | one dial, one inspect | error classes | which answers satisfy, retry or are fatal |
| JSON expressions (`internal/expr`) | none | path, comparison, truth | comparison across kinds of values | the six operators agree with each other |
| Printer (`internal/output`) | writer, mutex | one line per attempt, one outcome | none beyond the mutex | formatting |
| Doctor (`cli/doctor.go`) | none | probes in sequence | none | worst status wins |

The hazards of the code, each with its line and the properties that would catch it, are listed in
`PROJECT.json`; those that no property covers say why.

## 2. Plan

The order follows how much of the program's promise rests on a part, and how little of it a test
reaches.

1. **RunContract, Runner, MCRunner, RunnerProofs** (done). The abstract specification of one run,
   the goroutines that implement it, the refinement, the inductive invariant and its proofs.
2. **Polling, PollingProofs** (done). The same loop of one goroutine with a clock instead of
   company: threshold and schedule.
3. **LogTail, LogTailProofs** (done). The one condition that keeps state between checks, and its
   count for any number of files, lines and rotations.
4. **ExecCheck** (done). One command, its descendants and pipes, against the end of the attempt; its
   proofs are the first part of ChecksProofs.
5. **Process, ProcessProofs** (done). `main`, the two consumers of a signal, the CLI's exit code and
   the printer's failure, composed with `RunContract` in place of the runner: the exit code a user sees.
6. **JSONExpr, CommandLine, CheckFrame, FileCheck, HTTPCheck, DNSCheck, K8sCheck, ProbeCheck** (done).
   The way from the command line to one answer of each backend. `CheckFrame` says once what a check
   is and what makes an answer right; every backend instantiates it with a world that changes.
   **Checks** (done) composes them with ExecCheck.
7. **AnswerProofs** (File, HTTP, DNS), **K8sProofs**, **CommandLineProofs** (done). What each backend
   says, and what the command line reads, alone. **ChecksProofs** (done) carries all of it over to the
   composition and adds that the two places that look at options agree.

Abstract specifications: `RunContract` for the runner (refined by `Runner`, used by `Process`), and,
as state history instead of a second specification, the two facts `held` and `lacked` of `CheckFrame`
for every backend. Every safety property that a run finds to hold is also a theorem, but for
`TailIsLastLines`. What is left is what the prover cannot reach ([section 6](#6-the-proofs)) and, in the models, the parts that
[section 8](#8-what-is-not-modelled) names.

## 3. The models and the code

### RunContract

What one call of `runner.Run` promises: a set of completed readiness conditions, at most one
verdict, one cause that ended the run context, one report. `Settle` is a step of its own because
the code decides a mode-all run in two atomic operations. A report is the verdict if there is one;
otherwise it says how the context ended, and that is only possible when the goal is not met.

### Runner

Each goroutine has a program counter; a step ends where something else can interfere.

| `pc` | code (`runner.go`) | actions |
|---|---|---|
| `top` | head of the loop of `runCondition` | `LeaveLoop`, `BeginAttempt` |
| `gate` | `acquireConditionGate` | `AcquireGate`, `AbandonGate` |
| `check` | `Check` inside `checkCondition`, then threshold | `CheckReturns`, `CheckExpires`, `CheckDropped` |
| `decide` | `resultEndsCondition`, first atomic operation | `DecideUnsatisfied`, `DecideFatal`, `DecideAny`, `DecideAll` |
| `claim` | compare-and-swap after the counter reached zero | `Claim` |
| `cancel` | `cancel()` and `updateRecord` | `CancelRun` |
| `emit`, `callback` | `attemptRecorder.emit`: lock, call, unlock | `LockCallback`, `CallbackReturns` |
| `wait` | `waitInterval` | `TimerFires`, `WaitCancelled` |

`Deadline`, `ParentCancel` and `Return` are the context's timer, the caller and the join.
Abstractions: there is no clock, so a streak becomes stable at a nondeterministic later success and
stays so; `Check` answers anything at any time; a select with two ready cases takes either, which
is why a gate can be taken after the context has ended; a check that is interrupted by the end of
the run, one whose answer comes too late and one that fails on its context are one action.
`MaxAttempts` bounds how often a condition is polled.

### Polling

One goroutine, ticks for nanoseconds. Every step is one check with its result, its duration and the
jitter drawn; the history keeps what was seen. The schedule is driven by the raw result and the
threshold by the same raw result, as in `runCondition`; an expired attempt is an unsatisfied one.
`Wrapped` is the overflow of a Duration, with a small `MaxDuration`. `WithJitter` works in whole
percents and draws the ends and the middle of the range instead of a float; the upper end is
exclusive in the code and is `Jitter - 1` percent here. The largest wait fits a Duration
(`JitterConfig`): what becomes of a float that does not is up to the platform. `BackedOff` is the reference for the backoff:
the base interval doubled once for every failure. Fatal results and the end of the run end
the goroutine whatever the schedule says, and are in Runner.

### LogTail

One goroutine runs `Check` again and again, in the steps `stat`, `tail`, `open` and `scan`; writers
append, rotate, truncate, delete and create the file between any two of them. A file is a sequence
of units: a whole line that matches or not, a piece of a line, or the last piece of a line. An
inode that is used again gets a new `born` number, which the code cannot see. `StatRotated`,
`StatSame`, `StatFirst` and `StatTail` are the branches of `resetOnRotation` and `initOffset`
after a successful `os.Stat`; `ScanDone` and `ScanAborted` are the two ends of `scanLines`; failures of
`os.Stat` and `os.Open` are `CheckFails`, `TailMissing` and `OpenMissing`. `Kind` says what the
scanner takes for a line when a read begins or ends inside one. `TooLong` is the scanner's limit.

The variables `counted`, `base`, `late`, `raced` and `split` are history for the properties: what
the count is about. `raced` marks a count that ran over a replacement that `os.SameFile` and the
size cannot tell (a truncated file that has grown past the offset, a reused inode, a rotation
between `os.Stat` and `os.Open`): the code has no way to see these, the tests do not ask for it,
and the safety properties excuse exactly them, until the next rotation that is noticed.
`RereadsReplacedFiles` keeps the excuse small: a count goes on over a replacement only while the file at
the path has the inode that was seen last and at least the length that was read, so that every other
replacement is noticed by the next check. What the base of a count may be when `--tail` chooses it is
`TailIsLastLines`, in terms of the lines of what the file held when it was read backwards.

### ExecCheck

One call of `ExecCondition.Check` on Unix and everything `os/exec` does for it. `Start` is
`cmd.Start`, `Reap` is `Process.Wait`, `Dismiss` and `HearWatcher` are the meeting of `cmd.Wait` with
the goroutine that watches the context, and `CopyDone` is the return of `cmd.Run` once every output
pipe is closed, with `classifyRunError` and the comparison of exit code and output. `CancelCommand`
is the `Cancel` function of `prepareExecCommand`. Descendants may redirect their output, leave the
process group (`Escape`) or end at any moment. The output is abstract: it matches or it does not.

### Process

`main` from its first instruction to the end of the process. `Signal` is the kernel; a signal is
fatal before `signal.Notify` and after `signal.Reset`. `BeginDelivery` and `Deliver` are the goroutine
of `os/signal`, which serves the registered channels one after the other and does not wait for a full
one; `CancelContext` is the goroutine of `signal.NotifyContext`. The run is an instance of
RunContract whose parent may end only when that context is cancelled, so what is checked of Process
holds of the runner as far as Runner implements its contract. `Printed` and `NotPrinted` are the two
ends of `printer.Outcome`. Each signal is sent at most once. On Windows there is one signal and
`exitAfterSignal` exits with 130; that build is not modelled.

### CommandLine

`TypeLine` is what a user types: a list of conditions written by the grammar of `docs/SPEC.md`
(`written` keeps what was meant), or any other list of arguments. `SplitArgument` is one turn of the
loop of `splitConditionSegments` with its variables `i`, `current` and `segments`; `ReadSegment` is
one turn of the loop of `parseConditions`: `guard`, `parseConditionName`, the backend, the command
behind the first `--` of an `exec` segment, and how many targets pflag leaves. An argument is a
string, because the code asks of it only whether it is `--`, a backend, `guard`, a flag with a value,
a flag without, or `--name`; the flags are a few of each sort. The loops over the words of a line or
a segment (`Joined`, `ConditionName`, `Targets`) are recursive functions on the number of words.
`PlainCondition` says which conditions the grammar can be read back from: among others, that a `--`
inside one, in front of something that looks like a condition, is the value of a flag or introduces
the command. The error that `splitConditionSegments` has for an empty condition between two
separators is not in `SplitArgument`: a separator is only found in front of a backend or a guard, and
`SplitInv` shows that the current segment is never empty there nor at the end of the line.

### CheckFrame and the backends

`CheckFrame` is what the backends share. `Parse` is the backend's parser: options are accepted, or
refused and the program exits with 2. Then `Check` goes through its stages, holding in `hand` what it
has found, until `Reply`; `world` is what it looks at. `failed` is an unsatisfied reply for an error
met on the way: nothing is claimed of it. Every action of a backend ends with an observation, so that
`held` and `lacked` say whether the thing asked for was true, and false, at some moment of the check.
`ReplyWasRight` asks of a satisfied reply that it was true, and of an unsatisfied one that it was false,
at some such moment. `XHolds` is what the documentation says of a flag, at one moment; `XAccepts` is
the CLI's validation, `XValid` that of `Check`.

| module | steps of Check | the world |
|---|---|---|
| FileCheck | `FileStarts`, `FileStat`, `FileOpen`, `FileRead` (one piece at a time) | which file the path names and the content of each: `AppendPiece`, `Truncate`, `Rename` |
| HTTPCheck | `HTTPStarts`, `HTTPSend` (one hop at a time), `HTTPRead` | the service's answer, the redirects in front of it |
| DNSCheck | `DNSStarts`, `AskSystem` (one family at a time), `SystemAnswers`, `AskWire` (once over UDP, again over TCP) | the zone |
| K8sCheck | `K8sStarts`, `K8sCall` (the API answers, then what is made of it) | the objects: `Edit`, `PodMoves`, `Sync` (the controller writes the status), deletion |
| ProbeCheck | `TCPStarts`, `TCPDial`; `DockerStarts`, `DockerInspect`; the options of log and exec | a server; the containers |

`hand.rewritten` marks a file that was truncated while it was being read, from which a reader may get
old and new text together; the property excuses only that. `LeftoverPods` is a stateful set whose
status counts pods that are about to go, which `checkStatefulSetRollout` cannot tell apart. A file's
text is a sequence of pieces, a body the words that the matchers find in it and the document it
parses as, a record its type and value, a workload its pods by template and readiness. An answer over
UDP may be truncated whatever size was offered, since what fits is up to the server.

`JSONExpr` is the expression language as functions on values that carry their kind; `HTTPCheck` uses
it for bodies, and `JSONComparisonsAgree` is about every comparison that a run makes. Numbers are
integers, of which large ones stand for the infinities, and `NaN`, which `strconv.ParseFloat` reads in a
literal and no JSON document holds.

### Checks

The composition: a line is split and read, and if it is one condition without guard or name, its
options are typed for the backend (`ParseOptions`) and checked once. A guard or a name changes only what
becomes of the answer and is left to Runner. An exec condition continues as ExecCheck, whose `Check`
and `CancelCommand` are steps of Checks; a log condition ends with the validation of its options, since
LogTail continues from there with a goroutine that checks again and again.

## 4. The runs

| run | instance | checks | states |
|---|---|---|---|
| `runner_all` | mode all, two readiness conditions and a guard that shares a pointer with one of them, three attempts each, attempt timeout, callback | `TypeOK`, `ReportMatchesRecords`, `CounterMatchesRecords`, `VerdictHasOwner`, `NobodyGivesUp`, `GateDiscipline`, `CallbacksMatchAttempts`, `FirstTerminalResultWins`, `KeepsContract` | 275,383 |
| `runner_live` | the same without a callback, two attempts each, no fairness of the deadline | `CompletedRunReturns`, `DecidedRunReturns`, `GateIsServed` | 28,596 |
| `runner_any` | mode any, own gates, two successes held for a duration, two attempts each | `ReportMatchesCause`, `ImplementsContract` | 59,544 |
| `runner_late_guard` | mode all, one attempt each | `NoFatalAfterReadiness` is violated | |
| `polling` | five checks, exponential backoff from 4 to 17 ticks, jitter 50 %, two successes held for 7 ticks, checks that take 0 or 3 ticks, a largest Duration of 25 ticks | `PollingTypeOK`, `CompletesWhenStable`, `BackoffFollowsFailures`, `StabilizesAtBaseRate` | 183,189 |
| `log_tail` | two inodes, three appends, two changes of the path, each way to start, a tail of two lines, a read limit of two units, a tail limit of three | `TypeOK`, `CountedIsFile`, `NewFileReadWhole`, `CountsEveryLineOnce`, `RereadsReplacedFiles`, `TailIsLastLines`, `QuietLogIsRead` | 592,956 |
| `log_satisfaction` | one file, two appends, no rotation | `SatisfiedOnceReached` is violated | |
| `log_partial_line` | one file, two appends, no rotation | `EveryLineMatched` is violated | |
| `checks` | lines of up to two conditions; then one condition of any backend: two files, reads and texts of two pieces; four responses with numbers, texts, truth values and nulls, of which one is no JSON, one redirect followed; six states of a zone, any UDP answer truncated or not; two selected objects, or one workload, named or selected, of up to three pods and generations; a command with two descendants, exit codes 0 and 7 of which 7 is expected | `SegmentsMatchGrammar`, `AcceptedConfigIsValid`, `FileAnswerWitnessed`, `HTTPAnswerWitnessed`, `JSONComparisonsAgree`, `DNSAnswerWitnessed`, `K8sAnswerWitnessed`, `AnswerMatchesExit`, `CancelledGroupIsGone`, `CancelledCheckReturns` | 389,316 |
| `guard_exec` | the same | `GuardedExecKeepsCommand` is violated | |
| `exec_hang` | a command, one descendant | `ReturnsWhenCancelled` is violated | |
| `process` | both signals, a run of two conditions in mode all, JSON output, help and doctor | `TypeOK`, `ExitTellsOutcome`, `CancelledBySignal`, `FirstSignalDecides`, `SignalEndsProcess` | 9,657 |

What they show:

- **The outcome.** Whatever the goroutines, the deadline and the caller do, and in whatever order,
  a run has one verdict, reports it once, and what it reports agrees with the records
  (`ReportMatchesRecords`), with the cause (`ReportMatchesCause`) and with the contract
  (`KeepsContract`). The fallbacks of `finalStatus` on the records are never needed.
- **The two atomics.** `readyRemaining` counts exactly the readiness conditions that do not count
  yet, and when it is zero somebody claims the run or has lost to a fatal result
  (`CounterMatchesRecords`, `VerdictHasOwner`). Nobody leaves an undecided run (`NobodyGivesUp`).
- **Gates and callbacks.** A gate is held exactly during a check, on every exit path; callbacks are
  serialized, none is lost or doubled, and none comes after the run has returned.
- **Return.** A decided or completed run returns without its deadline; any run returns with it;
  with an attempt timeout nobody starves at a shared gate.
- **Timing.** A condition completes exactly when a streak of successes that ends now is long enough
  in number and time. A wait is the base interval doubled once for every failure in a row, capped
  and jittered; the code takes the cap one tick early when the maximum is odd, which the property
  states.
- **Logs.** The count is about one stretch of one file: nothing is skipped or read twice across
  failed and cancelled checks, a file that appears or replaces another while waiting is read from
  its first byte, only a replaced file is read again, and a log left alone is read to its end. What
  `--tail` starts with are the last lines of the file, also when its last line is unfinished or it
  changed since its size was looked at.
- **Commands.** An answer is about the command's own exit; a cancelled attempt
  leaves nothing of the command's process group; and only a process that outlived the command with
  its output open can keep a cancelled check from returning (`CancelledCheckReturns`), as `exec_hang`
  shows it does.
- **The command line.** Any line of the grammar is read as the conditions that were written, although
  `--` has four meanings, except for guarded commands named like a backend (`guard_exec`); of any line
  at all no argument is lost (`SegmentsMatchGrammar`). Options that the command line has accepted are
  never refused by the check, but for those listed in `LeftToCheck`: there a mistake ends the program
  with 3 instead of 2 (`AcceptedConfigIsValid`).
- **Answers.** A reply is never put together from moments that do not belong together
  (`FileAnswerWitnessed`, `HTTPAnswerWitnessed`, `DNSAnswerWitnessed`), and a satisfied rollout was
  complete at some moment since the newest edit (`K8sAnswerWitnessed`), whatever the counts are.
- **Exit status.** It tells the outcome of the run (`ExitTellsOutcome`), of the first signal if main
  found one (`FirstSignalDecides`), and a run is cancelled by nothing but a signal. A signal that
  comes once the context is registered ends the process, unless the run has been told to end and a check
  of it never returns (`SignalEndsProcess`): `exec_hang` shows such a check, and then SIGTERM does not
  end the program. Two gaps are visible
  in the model and left as the code has them: a signal handled between `signal.Notify` and
  `signal.NotifyContext` does not reach the run, and SIGTERM exits with 130 if the run unwinds before
  main's channel was served.

**Bounds.** In Runner every property relates at most two conditions and a third that decides, and
two attempts let a condition fail, wait, come back to its gate and then complete or fire; shared
and separate gates, one and several successes, with and without callback and attempt timeout are
divided over the runs (the liveness run leaves the callback out: it triples the
behaviour graph, and its mutex is held only inside the callback, as `CallbacksMatchAttempts` says). In Polling five checks hold a success, a failure and a streak that
completes, or four doublings, which is past the cap of 17 and reaches it from both sides of the
odd half; `MaxDuration` is the longest wait that jitter makes of the maximum and less than twice the
maximum, so an unguarded doubling overflows. In LogTail two
inodes and two changes give rotation, copytruncate, deletion followed by creation and the reuse of
an inode; three units exceed the read limit of two, hold a line in three pieces, and hold more lines than a tail
of two.
In ExecCheck two descendants can be on
different sides of everything that tells them apart (group, pipe, alive), and the expected code is not
the one of a clean exit, so that both are compared. In Process two conditions make `Settle` a step
of its own and the two signals are all there are.
In Checks two conditions on a line are enough for every use of `--` to follow every other, since
`splitConditionSegments` carries only the current segment along; two files let the path be replaced
between two looks, a limit of two pieces cuts a text of three; one redirect is followed and two lead
nowhere; a zone has up to two records of a type, so that a truncated answer may lack one; a literal is a
number, nan, a truth value or null, and meets values of every kind; three generations let the controller be
behind by one or two, and three pods hold a workload of two with one old pod left. Options about the
same thing are tried in all their combinations, options about different things separately.
Every bound on counters (`MaxAttempts`, `MaxPolls`, `MaxWrites`, `MaxChanges`, `MaxPieces`,
`MaxRedirects`, `MaxGeneration`, `MaxPods`) is a guard in the model and named there; the proofs hold
for all of those of the modules they are about. Every run but those of Checks checks for deadlock; a run
that has returned, and a goroutine of Polling that is done, stutter explicitly. Checks stops where the
program does: at a refused line and at a reply.

## 5. Fairness

`UntimedSpec` is Runner with weak fairness of every goroutine's own steps and of the join, and
strong fairness of taking a gate or the callback mutex: the Go scheduler runs what can run, and Go's
channels and mutexes serve those who wait in turn. `CheckReturns` has no fairness: a check need not
answer. It must return when its context has ended (`CheckDropped`), and with an attempt timeout when
that has passed (`CheckExpires`); this is what `condition.Condition` asks of its implementations,
and `exec_hang` shows the one condition that may not keep to it: runs with an `exec` condition that
leaves processes behind are outside what Runner's liveness says. `FairSpec` adds the deadline,
which is always set (`validateTimingConfig` refuses a run without one), and `ImplementsContract` needs it: without it
a run of conditions that never hold does not return.

`LogTail!FairSpec` says that the runner keeps checking (weak fairness of each step) and that not
every scan is cut short (strong fairness of `ScanDone`). It says nothing of the writers.
`ExecCheck!FairSpec` has the goroutines of Check run, and lets processes live for ever.
`ChecksSpec` assumes the same of an exec check, and nothing of the other backends.
`Process!FairSpec` has every goroutine of the program but the run's run. It assumes no deadline, and
nothing of the run: `Run` joins every check, and a check may never end. `SignalEndsProcess` says what
is left, and is violated when its second half, `[]Hangs`, is taken away.

## 6. The proofs

`tlapm` checks every step. Nothing is assumed but what the modules ask of their constants, which TLC
evaluates on every run:

- `RunConfig`: a finite set of conditions of which one is not a guard, a gate for each, a positive
  number of required successes (`Config` is validated before the first goroutine starts).
- `PollConfig`: `0 < Interval <= MaxInterval <= MaxDuration`, a jitter of at most 100 percent;
  `JitterConfig`: the longest wait is a Duration. Only maximum intervals of more than 146 years are
  not, and no proof needs it.
- `LogConfig`: positive limits (the scanner's, the tail's) and a positive number of matches and of
  lines for `--tail`; which contents match is open.
- `ExecConfig`, `ProcessConfig`: exit codes are naturals and the command is not its own descendant;
  a run has a readiness condition.
- `LineConfig`: lines are lists of conditions, or of words, of any length; `--name` takes a value;
  `--`, `guard`, a backend and `--name=value` are no flags of the lists `conditionValueFlags` and of
  the switches.
- `FileConfig`, `HTTPConfig`, `DNSConfig`, `K8sConfig`, `ProbeConfig`: the sets of options, responses,
  zones and containers hold options, responses, zones and containers; limits are naturals; a zone has
  finitely many records, and one that does not exist has none.
- `JSONConfig`: the numerals of expressions are not `true`, `false` or `null` and stand for integers or
  for `NaN`, which is none.

**RunnerProofs** proves, for any number of conditions, guards, gates and attempts and both modes,
`TypeOK`, `ReportMatchesRecords`, `ReportMatchesCause`, `CounterMatchesRecords`, `NobodyGivesUp`,
`VerdictHasOwner`, `FirstTerminalResultWins`, `GateDiscipline`, `CallbacksMatchAttempts` and
`KeepsContract`, that is, that every step of Runner is a step of RunContract or stutters. The first
of these come from one inductive invariant,

    RunInv == TypeOK /\ AttemptInv /\ CounterMatchesRecords /\ OwnerInv
              /\ CancelInv /\ GoalInv /\ OutcomeInv

`CounterMatchesRecords` is nearly inductive; it needs `AttemptInv`, which says what a goroutine's
result, record and place have to do with each other (a goroutine that decides a satisfied
readiness condition has not counted before), so that each goroutine decrements at most once.
`OwnerInv` says that a verdict has at most one owner, the goroutine that is about to cancel or the one
whose record is fatal, and that a fatal verdict always has one; `CancelInv` that a decided run whose
context is still live will be cancelled, and that the runner cancels only decided runs; `GoalInv`
that what a satisfied verdict rests on counts; `OutcomeInv` carries these over the join. `ReportMatchesRecords` does not follow from its own conjuncts, since
the report is computed from records that were written long before; it follows from `RunInv` at the
join, when every goroutine has exited. Gates and callbacks have invariants of their own, which do
not depend on the verdict. The decrement of `readyRemaining` rests on lemmas on the cardinality of
`Uncounted`.

**PollingProofs** proves, for every interval, maximum, threshold and number of checks, `PollingTypeOK`,
which says that the schedule stays between interval and maximum and that doubling never wraps
around, `CompletesWhenStable` and `StabilizesAtBaseRate`, from

    PollInv == PollingTypeOK /\ StreakInv /\ TimeInv /\ VerdictInv /\ PaceInv /\ StabilizesAtBaseRate
               /\ BackoffInv

`StreakInv` identifies the two fields of `stabilityProgress` with the longest run of successes that
ends the history, `TimeInv` orders the checks in time, so that the longest streak that is long enough
decides, and `VerdictInv` is the last result in terms of the fields. `PaceInv` carries the bound on
the wait to the next check. `BackoffInv` says of a goroutine that polls on that its current interval is
the base interval doubled once for every failure in a row, capped, and `BackoffFollowsFailures` of the
waits so far. The reference `Doubled` is a recursive function of the number of failures; that it is
what its definition says is proved by induction in the form of a lemma about sets of numbers.

**LogTailProofs** proves, for any inodes, limits, matchers and writers, `TypeOK`, `CountedIsFile`,
`NewFileReadWhole`, `CountsEveryLineOnce` and the action property `RereadsReplacedFiles`, from

    LogInv == TypeOK /\ PlaceInv /\ BornInv /\ SeenInv /\ ChunkInv /\ LateInv
              /\ CountedIsFile /\ CountsEveryLineOnce

The properties speak of a file that is still at the path, and the code only knows what it saw of one.
`BornInv` says that a replacement is younger than anything remembered, so that an equal `born` means the
same file; `SeenInv` that such a file still reaches to the offset and to the size that was seen, so
that the next `resetOnRotation` does not take it for a shorter one; `ChunkInv` that what was read and
is not counted yet lies right behind the offset. `LateInv` carries over the checks that a file which
appeared late is counted from its first byte. The step of `ScanDone` is the long one: the new count is
the count of a longer stretch, and the lines in it are the old ones and those of the chunk.

**ProcessProofs** proves `TypeOK`, `ExitTellsOutcome`, `CancelledBySignal` and `FirstSignalDecides`
from `ProcessInv`. Its part `CodeInv` says what the code that `Execute` returned tells of the report, and
has to allow 3 for every report when the output is JSON, because printing can fail; `ReportInv` and
`SignalInv` lead from a cancelled report over the context to a signal that was sent.

**AnswerProofs** proves `FileAnswerWitnessed`, `HTTPAnswerWitnessed`, `JSONComparisonsAgree` and
`DNSAnswerWitnessed` for any files, texts, limits, responses, matchers, expressions, zones and options.
Each of `FileInv`, `HTTPInv` and `DNSInv` has the same two halves: what holds or lacks now has been
noted in `held` or `lacked`, and what Check has in hand was so at one moment. For a file the second
half is the argument: until a truncation, what has been read is a prefix of the open file, and as long
as the thing asked for has always held, the first pieces of that file contain the text; a rename
changes which file the path names but not the open one. For HTTP the response in hand was the
service's answer when it was sent, whatever hop it came from. For DNS an answer of one family was the
zone's at one moment; for two families, asked one after the other, only every single record was, and of
these (`--type ANY`) the property claims no more than what rests on one record. `JSONComparisonsAgree` rests on lemmas
about `Compare` alone: of every kind of value and of literal, and of `NaN` apart from the other numbers.

**K8sProofs** proves `K8sAnswerWitnessed` for any options, generations and pods. A named object that is
read once is one moment, and selected objects come in one list. A rollout is judged by counts that a
controller wrote earlier. `RolloutInv` says that a status which passes for a rollout of the newest
generation, without pods left over, was written when there was one, and `WorkloadInv` that a status is
never of a later generation than its workload, so that every edit makes it old. The pods that a
stateful set has left over are the exception that the property names.

**CommandLineProofs** proves `SegmentsMatchGrammar` for lines of any length, from

    SplitInv    the segments and the current one, joined by --, are the arguments seen so far
    LinesInv    of a plain line, the cut is behind the j-th word of the k-th condition, and the
                conditions read so far are the first ones that were written

`SplitInv` alone gives that no argument is lost. For `LinesInv`, `LinePlaces` says where on the line
the words of a condition are; `InsideKept` that inside a plain condition nothing separates;
`SeparatorFound` that between two there is a separator; and `ConditionRead` that parsing a condition as it
is written gives the condition: `OwnRead` follows `parseConditionName` through its words,
`CommandPlace` finds the `--` in front of a command. `Joined` and `ConditionName` are recursive
functions, and what they compute is proved from `SetInduction`, induction as a lemma about sets of
numbers.

**ChecksProofs** begins with an exec condition alone: for any descendants, exit codes and expected
code, `TypeOK`, `AnswerMatchesExit`, `AnswerSeesAllOutput` and `CancelledGroupIsGone`, from

    ExecInv == TypeOK /\ StageInv /\ ErrorInv /\ WatcherInv /\ AnswerMatchesExit

`StageInv` says how far the command is at each stage of Check, in particular that it was reaped
before its output is awaited, so that no answer but the first two can miss it; `ErrorInv` ties the
error of `cmd.Run` to the status that `classifyRunError` reads; `WatcherInv` says that a watcher that
fired left no running command behind, hence nobody who could add to the group it killed. It then
proves of the composition, under `ChecksSpec`, every safety property of the run `checks` and again `TypeOK`, from

    ChecksInv == LinesInv /\ AnswersInv /\ ExecInv /\ AcceptedConfigIsValid

where `AnswersInv` joins the invariants of the backends. A step of one backend leaves the others'
invariants nothing to say, since the condition is not theirs; the line and the command change by
their own steps only. That the two places that look at options agree is a fact about the options of each
backend (`AcceptedIsValid`), and options are parsed once.

**Only model-checked**: the liveness properties (`CompletedRunReturns`, `DecidedRunReturns`,
`GateIsServed`, the liveness half of `ImplementsContract`, `QuietLogIsRead`,
`CancelledCheckReturns`, `SignalEndsProcess`), since fairness and ENABLED are beyond the prover, and
`TailIsLastLines`, whose count of lines from behind is a statement about every suffix of a read.
The type invariant of `ExecCheck` is proved and not in a run.
`AnswerSeesAllOutput` (no answer before the last writer to the output is gone) is proved and not in a
run, and `ReportMatchesRecords` is checked in mode all and proved for both modes.

## 7. Disagreements between code and documentation

Each has a run in which TLC finds a behaviour of the model, and so of the code, that a sentence of
the documentation excludes.

- `runner_late_guard`: `docs/SPEC.md:391` says that a fatal guard that completes after all readiness
  conditions does not turn the run into a fatal one. A guard can do so between the decrement of
  `readyRemaining` to zero and the compare-and-swap that claims the run (`runner.go:709`).
- `log_satisfaction`: `docs/SPEC.md:299` says that a log condition is satisfied when the count has
  reached `--min-matches`. A scan without a new match reports unsatisfied even then
  (`log.go:188`), so `--successes 2` needs a match in two scans running, and a satisfied answer that
  the runner discards because the attempt had expired is lost.
- `log_partial_line`: `docs/SPEC.md:283` says that each new line is matched. A line that is half
  written when it is read is scanned as two (`log.go:86`).

- `exec_hang`: `docs/SPEC.md:361` says that `Check` must return promptly when its context is
  cancelled. A command that exits and leaves a process with its output open (`sh -c 'daemon &'`) keeps
  it for as long as that process lives: the watching goroutine is dismissed when the command is
  reaped, and no `WaitDelay` is set (`exec.go:54`).
- `guard_exec`: `docs/SPEC.md:45` says that the first `--` of an exec condition introduces its command.
  `isExecCommandSeparator` looks for `exec` at the head of the segment, where a guarded condition has
  `guard` (`cli.go:1268`), so that `guard exec -- docker ps` is cut in two and refused.

Seen while modelling, without a run of their own:

- Jitter is applied after the cap (`runner.go:585`), so a wait may be longer than `--max-interval`,
  which `docs/SPEC.md:70` calls the maximum interval.
- The first `--` of an exec segment is the separator also where it was meant as a value
  (`exec --output-contains -- -- cmd`), and a condition that ends in a word that is also a flag with a
  value keeps the `--` that follows (`isValueForPreviousFlag`). `PlainLine` leaves both out.
- What `LeftToCheck` lists is an invalid argument to the documentation and exits with 3.
- One failed pod or job among the selected objects makes the condition fatal even after another one
  has satisfied it (`k8s.go:305`), and a named condition is not compared with the generation.
- `--jsonpath '.v != nan'` is true of every number, and `== nan`, `< nan` and the others of none.
- A number compared with a text is neither equal nor unequal; quotes do not make a text of a numeral.
- `--absent` with the wire resolver takes an answer of SERVFAIL for an absence, since it has no records.
- The system resolver takes any host with addresses for its own CNAME record.

## 8. What is not modelled

- Doctor: a sequence of probes without shared state, folded into the worst status.
- The global options (`parseGlobal`) and cobra's command object: independent tests of one value each.
- The text of things: durations, URLs, patterns, host names, expressions and log lines are sound or
  malformed, match or do not; the printer's formatting; redaction.
- Process groups and signals of other systems than Unix.
- Waits that no Duration holds (`JitterConfig`); a rollout of several selected workloads, of which each
  would be judged as one is, and of an object of generation 0, for which `checkObservedGeneration` asks
  nothing: the API server numbers a workload from 1.
- Wrapper chains deeper than `maxConditionUnwrapDepth`, descriptors, attempt details and timings.
- A FIFO as the path of a file condition, whose `os.Open` would wait: files are regular or directories.
- Two conditions of one run that look at the same world: each answer is about its own check, and what
  the runner makes of answers that come in any order is in Runner, whose `Check` answers anything.
- Tests and build files.
