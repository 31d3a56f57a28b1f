---------------------------- MODULE ChecksProofs ----------------------------
(***************************************************************************)
(* Proofs about ExecCheck and Checks, for any lines, options, situations   *)
(* and processes: what an exec condition answers; that the check does not  *)
(* find invalid what the command line has accepted; and that what is       *)
(* proved of the command line and of each backend alone holds of the       *)
(* program, in which a condition goes from one to the other.               *)
(***************************************************************************)
EXTENDS Checks, AnswerProofs, K8sProofs, CommandLineProofs

-----------------------------------------------------------------------------
(* The command of an exec condition, for any descendants, exit codes and   *)
(* expected code.  ExecInv adds to the properties what each stage of Check *)
(* knows of the command (StageInv), what cmd.Run's error says of its       *)
(* status (ErrorInv) and what a fired watcher left behind (WatcherInv).    *)

\* What Check's place says about the command and the answer.
StageInv ==
    /\ pc = "start" => command = "none" /\ watcher = "none" /\ pipe = {}
    /\ pc = "wait" => command \in {"running", "exited"}
    /\ pc \in {"watch", "copy"} => command = "reaped"
    /\ pc = "done" => command \in {"none", "reaped"} /\ pipe = {} /\ result # "none"
    /\ pc # "done" => result = "none"
    /\ pc \in {"start", "wait"} => runErr = "nil"

\* The error of cmd.Run and the status of a command that was reaped.
ErrorInv ==
    command = "reaped" => (runErr = "exit" <=> status # 0)

WatcherInv ==
    /\ watcher = "fired" => ctx = "done" /\ command # "running"
    /\ CancelledGroupIsGone

ExecInv == TypeOK /\ StageInv /\ ErrorInv /\ WatcherInv /\ AnswerMatchesExit

\* Check has not begun, so no stage has a claim to make.
LEMMA InitInv == Init => ExecInv
<1> SUFFICES ASSUME Init PROVE ExecInv
  OBVIOUS
<1> USE DEF Init
<1>1. TypeOK
  BY DEF TypeOK, Processes
<1>2. StageInv /\ ErrorInv /\ WatcherInv /\ AnswerMatchesExit
  BY DEF StageInv, ErrorInv, WatcherInv, CancelledGroupIsGone, AnswerMatchesExit
<1> QED BY <1>1, <1>2 DEF ExecInv

\* Every step of Check, of its watcher and of the processes preserves ExecInv.
LEMMA StepInv == ExecInv /\ [Next]_vars => ExecInv'
<1> SUFFICES ASSUME ExecInv, [Next]_vars PROVE ExecInv'
  OBVIOUS
<1> USE DEF ExecInv, TypeOK, StageInv, ErrorInv, WatcherInv, CancelledGroupIsGone,
            AnswerMatchesExit, Processes, os, Answer
<1>0. CASE UNCHANGED vars
  BY <1>0 DEF vars
<1>1. CASE ContextEnds
  BY <1>1 DEF ContextEnds
<1>2. ASSUME NEW d \in Descendants, Fork(d) PROVE ExecInv'
  BY <1>2, ExecConfig DEF Fork
<1>3. ASSUME NEW d \in Descendants, Escape(d) PROVE ExecInv'
  BY <1>3, ExecConfig DEF Escape
<1>4. ASSUME NEW d \in Descendants, Ends(d) PROVE ExecInv'
  BY <1>4, ExecConfig DEF Ends
<1>5. ASSUME NEW how \in ExitCodes \cup {Signalled}, CommandEnds(how) PROVE ExecInv'
  BY <1>5 DEF CommandEnds
<1>6. CASE StartRefused
  BY <1>6 DEF StartRefused
<1>7. CASE StartFails
  BY <1>7 DEF StartFails
<1>8. CASE Start
  BY <1>8 DEF Start
<1>9. CASE Reap
  BY <1>9 DEF Reap
<1>10. CASE Dismiss
  BY <1>10 DEF Dismiss
<1>11. CASE HearWatcher
  BY <1>11 DEF HearWatcher
<1>12. CASE CopyDone
  BY <1>12 DEF CopyDone, Cancelled, Code
<1>13. CASE CancelCommand
  BY <1>13, ExecConfig DEF CancelCommand, Group
<1> QED
  BY <1>0, <1>1, <1>2, <1>3, <1>4, <1>5, <1>6, <1>7, <1>8, <1>9, <1>10, <1>11, <1>12, <1>13
     DEF Next, Environment, Check, Done

-----------------------------------------------------------------------------
\* In every reachable state, what Check, its watcher and os/exec know of the command
\* agrees with what has become of it.
THEOREM ExecInvariant == Spec => []ExecInv
  BY InitInv, StepInv, PTL DEF Spec

\* The variables keep their types, and only live processes hold a pipe.
THEOREM TypeCorrect == Spec => []TypeOK
<1>1. ExecInv => TypeOK
  BY DEF ExecInv
<1> QED BY <1>1, ExecInvariant, PTL

\* Check answers satisfied only of a command that ended with the expected code, fatal
\* only when it never ran, and unsatisfied in a live context only when it ended.
THEOREM AnswerSound == Spec => []AnswerMatchesExit
<1>1. ExecInv => AnswerMatchesExit
  BY DEF ExecInv
<1> QED BY <1>1, ExecInvariant, PTL

\* Check answers only when no process can write to the command's output any more.
THEOREM OutputComplete == Spec => []AnswerSeesAllOutput
<1>1. ExecInv => AnswerSeesAllOutput
  BY DEF ExecInv, StageInv, AnswerSeesAllOutput
<1> QED BY <1>1, ExecInvariant, PTL

\* Once Cancel ran, the process group of the command has no member left.
THEOREM GroupGone == Spec => []CancelledGroupIsGone
<1>1. ExecInv => CancelledGroupIsGone
  BY DEF ExecInv, WatcherInv
<1> QED BY <1>1, ExecInvariant, PTL

-----------------------------------------------------------------------------
(* The invariant of the program.                                           *)

\* parseXCondition of the backend whose options they are.
Accepted(o) ==
    \/ o \in FileRequests /\ FileAccepts(o)
    \/ o \in HTTPRequests /\ HTTPAccepts(o)
    \/ o \in DNSRequests /\ DNSAccepts(o)
    \/ o \in K8sRequests /\ K8sAccepts(o)
    \/ o \in TCPRequests /\ TCPAccepts(o)
    \/ o \in DockerRequests /\ DockerAccepts(o)
    \/ o \in LogRequests /\ LogAccepts(o)
    \/ o \in ExecRequests /\ ExecAccepts(o)

\* Every backend's invariant, and that of the options.
AnswersInv == FileInv /\ HTTPInv /\ DNSInv /\ K8sInv

ChecksInv == LinesInv /\ AnswersInv /\ ExecInv /\ AcceptedConfigIsValid

-----------------------------------------------------------------------------
(* The two places that look at options.                                    *)

\* Every backend's parser accepts what its Check finds valid, but for the options that
\* it leaves to Check.
LEMMA AcceptedIsValid ==
    ASSUME DNSConfig, K8sConfig, NEW o, Accepted(o)
    PROVE  Valid(o) <=> ~LeftToCheck(o)
<1>1. CASE o \in FileRequests /\ FileAccepts(o)
  <2>1. o.backend = "file" /\ o.path \in BOOLEAN
    BY <1>1 DEF FileRequests
  <2> QED BY <1>1, <2>1 DEF FileAccepts, FileValid, Valid, LeftToCheck
<1>2. CASE o \in HTTPRequests /\ HTTPAccepts(o)
  <2>1. o.backend = "http"
    BY <1>2 DEF HTTPRequests
  <2> QED BY <1>2, <2>1 DEF HTTPAccepts, HTTPValid, Valid, LeftToCheck
<1>3. CASE o \in DNSRequests /\ DNSAccepts(o)
  <2>1. o.backend = "dns"
    BY <1>3 DEF DNSConfig
  <2>2. DNSValid(o)
    BY <1>3 DEF DNSAccepts, DNSValid
  <2> QED BY <2>1, <2>2 DEF Valid, LeftToCheck
<1>4. CASE o \in K8sRequests /\ K8sAccepts(o)
  <2>1. o.backend = "k8s"
    BY <1>4 DEF K8sConfig
  <2>2. K8sValid(o) <=> ~(CanonicalKind(o.kind) \notin KnownKinds \/ (o.selector = "" /\ ~o.named))
    BY <1>4 DEF K8sAccepts, K8sValid
  <2> QED BY <2>1, <2>2 DEF Valid, LeftToCheck
<1>5. CASE o \in TCPRequests /\ TCPAccepts(o)
  <2>1. o.backend = "tcp"
    BY <1>5 DEF TCPRequests
  <2> QED BY <1>5, <2>1 DEF TCPAccepts, TCPValid, Valid, LeftToCheck
<1>6. CASE o \in DockerRequests /\ DockerAccepts(o)
  <2>1. o.backend = "docker" /\ o.container \in {"given", "blank"}
    BY <1>6 DEF DockerRequests
  <2> QED BY <1>6, <2>1 DEF DockerValid, Valid, LeftToCheck
<1>7. CASE o \in LogRequests /\ LogAccepts(o)
  <2>1. o.backend = "log" /\ o.path \in BOOLEAN /\ o.tail \in Int
    BY <1>7 DEF LogRequests
  <2> QED BY <1>7, <2>1 DEF LogValid, Valid, LeftToCheck
<1>8. CASE o \in ExecRequests /\ ExecAccepts(o)
  <2>1. o.backend = "exec" /\ o.command \in {"none", "empty word", "given"}
    BY <1>8 DEF ExecRequests
  <2> QED BY <1>8, <2>1 DEF ExecAccepts, ExecValid, Valid, LeftToCheck
<1> QED BY <1>1, <1>2, <1>3, <1>4, <1>5, <1>6, <1>7, <1>8 DEF Accepted

\* The command line reads the options of one backend and refuses them or starts the check.
LEMMA ParsedOptions ==
    ASSUME ParseOptions
    PROVE  stage' = "refused" \/ Accepted(request')
<1> USE DEF Parse, Accepted
<1>1. CASE FileParse
  BY <1>1 DEF FileParse
<1>2. CASE HTTPParse
  BY <1>2 DEF HTTPParse
<1>3. CASE DNSParse
  BY <1>3 DEF DNSParse
<1>4. CASE K8sParse
  BY <1>4 DEF K8sParse
<1>5. CASE TCPParse
  BY <1>5 DEF TCPParse
<1>6. CASE DockerParse
  BY <1>6 DEF DockerParse
<1>7. CASE LogParse
  BY <1>7 DEF LogParse
<1>8. CASE ExecParse
  BY <1>8 DEF ExecParse
<1> QED BY <1>1, <1>2, <1>3, <1>4, <1>5, <1>6, <1>7, <1>8 DEF ParseOptions

\* Every other step leaves the options alone, and takes place when a check has begun.
LEMMA OptionsKept ==
    ASSUME ReadLine \/ CheckStep \/ WorldStep \/ ExecCheckStep \/ ExecCancel \/ ExecWorld
    PROVE  request' = request /\ (stage' = stage \/ stage \notin {"typed", "refused"})
<1> USE DEF Reply, Proceed, Turns, Running
<1>1. CASE ReadLine \/ ExecCheckStep \/ ExecCancel \/ ExecWorld
  BY <1>1 DEF ReadLine, ExecCheckStep, ExecCancel, ExecWorld, frameVars
<1>2. CASE FileCheckStep \/ FileWorld
  BY <1>2 DEF FileCheckStep, FileStarts, FileStat, FileOpen, FileRead, FileWorld, Truncate,
              AppendPiece, Rename
<1>3. CASE HTTPCheckStep \/ HTTPWorld
  BY <1>3 DEF HTTPCheckStep, HTTPStarts, HTTPSend, HTTPRead, HTTPWorld
<1>4. CASE DNSCheckStep \/ DNSWorld
  BY <1>4 DEF DNSCheckStep, DNSStarts, SystemAnswers, AskWire, AskSystem, DNSEvaluate, DNSWorld
<1>5. CASE K8sCheckStep \/ K8sWorld
  BY <1>5 DEF K8sCheckStep, K8sStarts, K8sCall, K8sWorld, Becomes, Edit, PodMoves, Sync
<1>6. CASE TCPCheckStep \/ TCPWorld \/ DockerCheckStep \/ DockerWorld
  BY <1>6 DEF TCPCheckStep, TCPStarts, TCPDial, TCPWorld, DockerCheckStep, DockerStarts,
              DockerInspect, DockerWorld
<1>7. CASE LogStarts \/ ExecStarts
  BY <1>7 DEF LogStarts, ExecStarts, Starts
<1> QED BY <1>1, <1>2, <1>3, <1>4, <1>5, <1>6, <1>7 DEF CheckStep, WorldStep

\* What the command line has accepted stays accepted: options are parsed once.
LEMMA ConfigStep == AcceptedConfigIsValid /\ [ChecksNext]_checksVars => AcceptedConfigIsValid'
<1> SUFFICES ASSUME AcceptedConfigIsValid, [ChecksNext]_checksVars PROVE AcceptedConfigIsValid'
  OBVIOUS
<1>1. CASE ParseOptions
  <2>1. CASE stage' = "refused"
    BY <2>1 DEF AcceptedConfigIsValid
  <2>2. CASE stage' # "refused"
    <3>1. Accepted(request')
      BY <1>1, <2>2, ParsedOptions
    <3>2. Valid(request') <=> ~LeftToCheck(request')
      BY <3>1, AcceptedIsValid, DNSConfig, K8sConfig
    <3> QED BY <3>2 DEF AcceptedConfigIsValid
  <2> QED BY <2>1, <2>2
<1>2. CASE ReadLine \/ CheckStep \/ WorldStep \/ ExecCheckStep \/ ExecCancel \/ ExecWorld
  BY <1>2, OptionsKept DEF AcceptedConfigIsValid
<1>3. CASE UNCHANGED checksVars
  BY <1>3 DEF checksVars, frameVars, AcceptedConfigIsValid
<1> QED BY <1>1, <1>2, <1>3 DEF ChecksNext

-----------------------------------------------------------------------------
(* One backend at work leaves what is known of the others as it is.        *)

\* A step of one backend: the invariants of the others ask for no more than the frame.
LEMMA FileAlone == FileInv' /\ request'.backend = "file" => AnswersInv'
  BY DEF AnswersInv, FileInv, HTTPInv, DNSInv, K8sInv, FrameInv, Started, K8sStarted

\* The same of a step of the HTTP backend.
LEMMA HTTPAlone == HTTPInv' /\ request'.backend = "http" => AnswersInv'
  BY DEF AnswersInv, FileInv, HTTPInv, DNSInv, K8sInv, FrameInv, Started, K8sStarted

\* The same of a step of the DNS backend.
LEMMA DNSAlone == DNSInv' /\ request'.backend = "dns" => AnswersInv'
  BY DEF AnswersInv, FileInv, HTTPInv, DNSInv, K8sInv, FrameInv, Started, K8sStarted

\* The same of a step of the Kubernetes backend.
LEMMA K8sAlone == K8sInv' /\ request'.backend = "k8s" => AnswersInv'
  BY DEF AnswersInv, FileInv, HTTPInv, DNSInv, K8sInv, FrameInv, Started, K8sStarted

\* A condition of a backend whose invariant is not one of the four.
OtherBackend == request.backend \in {"tcp", "docker", "log", "exec"}

\* The backends without an invariant of their own keep the others' by keeping the frame.
LEMMA OthersAlone == FrameInv' /\ OtherBackend' => AnswersInv'
  BY DEF OtherBackend, AnswersInv, FileInv, HTTPInv, DNSInv, K8sInv, FrameInv, Started, K8sStarted

\* The command line starts a check of one backend.
LEMMA ParseStep == AnswersInv /\ ParseOptions => AnswersInv'
<1> SUFFICES ASSUME AnswersInv, ParseOptions PROVE AnswersInv'
  OBVIOUS
<1>0. FrameInv
  BY DEF AnswersInv, FileInv
<1>1. CASE FileParse
  <2>1. request'.backend = "file"
    BY <1>1 DEF FileParse, Parse, FileRequests
  <2> QED BY <1>1, <2>1, FileParsed, FileAlone DEF AnswersInv
<1>2. CASE HTTPParse
  <2>1. request'.backend = "http"
    BY <1>2 DEF HTTPParse, Parse, HTTPRequests
  <2> QED BY <1>2, <2>1, HTTPParsed, HTTPAlone DEF AnswersInv
<1>3. CASE DNSParse
  <2>1. request'.backend = "dns"
    BY <1>3, DNSConfig DEF DNSParse, Parse, DNSConfig
  <2> QED BY <1>3, <2>1, DNSParsed, DNSAlone DEF AnswersInv
<1>4. CASE K8sParse
  <2>1. request'.backend = "k8s"
    BY <1>4, K8sConfig DEF K8sParse, Parse, K8sConfig
  <2> QED BY <1>4, <2>1, K8sParsed, K8sAlone DEF AnswersInv
<1>5. CASE TCPParse
  <2>1. FrameInv' /\ OtherBackend'
    BY <1>0, <1>5 DEF TCPParse, Parse, TCPRequests, TCPObserve, Observe, FrameInv, OtherBackend
  <2> QED BY <2>1, OthersAlone
<1>6. CASE DockerParse
  <2>1. FrameInv' /\ OtherBackend'
    BY <1>0, <1>6 DEF DockerParse, Parse, DockerRequests, DockerObserve, Observe, FrameInv, OtherBackend
  <2> QED BY <2>1, OthersAlone
<1>7. CASE LogParse
  <2>1. FrameInv' /\ OtherBackend'
    BY <1>0, <1>7 DEF LogParse, Parse, LogRequests, FrameInv, OtherBackend
  <2> QED BY <2>1, OthersAlone
<1>8. CASE ExecParse
  <2>1. FrameInv' /\ OtherBackend'
    BY <1>0, <1>8 DEF ExecParse, Parse, ExecRequests, FrameInv, OtherBackend
  <2> QED BY <2>1, OthersAlone
<1> QED BY <1>1, <1>2, <1>3, <1>4, <1>5, <1>6, <1>7, <1>8 DEF ParseOptions

\* A check that runs goes on, or what it looks at changes.
LEMMA CheckStepKeeps == AnswersInv /\ (CheckStep \/ WorldStep) => AnswersInv'
<1> SUFFICES ASSUME AnswersInv, CheckStep \/ WorldStep, request' = request PROVE AnswersInv'
  BY OptionsKept
<1>0. FrameInv
  BY DEF AnswersInv, FileInv
<1>1. CASE FileCheckStep \/ FileWorld
  BY <1>1, FileChecked, FileTurns, FileAlone DEF AnswersInv, FileCheckStep, FileWorld, Running
<1>2. CASE HTTPCheckStep \/ HTTPWorld
  BY <1>2, HTTPChecked, HTTPTurns, HTTPAlone DEF AnswersInv, HTTPCheckStep, HTTPWorld, Running
<1>3. CASE DNSCheckStep \/ DNSWorld
  BY <1>3, DNSChecked, DNSTurns, DNSAlone DEF AnswersInv, DNSCheckStep, DNSWorld, Running
<1>4. CASE K8sCheckStep \/ K8sWorld
  BY <1>4, K8sChecked, K8sTurns, K8sAlone DEF AnswersInv, K8sCheckStep, K8sWorld, Running
<1>5. CASE TCPCheckStep \/ TCPWorld
  <2>1. FrameInv' /\ OtherBackend'
    BY <1>0, <1>5 DEF TCPCheckStep, TCPWorld, TCPStarts, TCPDial, Running, Reply, Proceed, Turns,
                      TCPObserve, Observe, FrameInv, OtherBackend
  <2> QED BY <2>1, OthersAlone
<1>6. CASE DockerCheckStep \/ DockerWorld
  <2>1. FrameInv' /\ OtherBackend'
    BY <1>0, <1>6 DEF DockerCheckStep, DockerWorld, DockerStarts, DockerInspect, Running, Reply,
                      Proceed, Turns, DockerObserve, Observe, FrameInv, OtherBackend
  <2> QED BY <2>1, OthersAlone
<1>7. CASE LogStarts \/ ExecStarts
  <2>1. FrameInv' /\ OtherBackend'
    BY <1>0, <1>7 DEF LogStarts, ExecStarts, Starts, Running, Reply, Proceed, FrameInv, OtherBackend
  <2> QED BY <2>1, OthersAlone
<1> QED BY <1>1, <1>2, <1>3, <1>4, <1>5, <1>6, <1>7 DEF CheckStep, WorldStep

\* The check of a command replies with what ExecCheck finds.
LEMMA ExecStepKeeps == AnswersInv /\ ExecCheckStep => AnswersInv'
<1> SUFFICES ASSUME AnswersInv, ExecCheckStep PROVE AnswersInv'
  OBVIOUS
<1>1. FrameInv
  BY DEF AnswersInv, FileInv
<1>2. FrameInv' /\ OtherBackend'
  BY <1>1 DEF ExecCheckStep, Running, Reply, FrameInv, OtherBackend
<1> QED BY <1>2, OthersAlone

\* A step that no check sees.
LEMMA FrameKept == AnswersInv /\ UNCHANGED frameVars => AnswersInv'
<1> SUFFICES ASSUME AnswersInv, UNCHANGED frameVars PROVE AnswersInv'
  OBVIOUS
<1>1. FileInv'
  BY DEF AnswersInv, frameVars, FileInv, FrameInv, Started, FileRun, FileTypes, ReadInv, ReplyWasRight
<1>2. HTTPInv'
  BY DEF AnswersInv, frameVars, HTTPInv, FrameInv, Started, HTTPRun, HTTPTypes, ReplyWasRight
<1>3. DNSInv'
  BY DEF AnswersInv, frameVars, DNSInv, FrameInv, Started, DNSRun, DNSTypes, SystemInv, OneFamily,
         BothFamilies, DNSReplyInv, ReplyWasRight
<1>4. K8sInv'
  <2>1. RolloutInv' <=> RolloutInv
    BY DEF frameVars, RolloutInv, WorkloadInv, Rollout, Leftover
  <2>2. PlainInv' <=> PlainInv
    BY DEF frameVars, PlainInv, ReplyWasRight
  <2> QED BY <2>1, <2>2 DEF AnswersInv, frameVars, K8sInv, K8sStarted
<1> QED BY <1>1, <1>2, <1>3, <1>4 DEF AnswersInv

\* Every step of the program keeps what is known of all backends.
LEMMA AnswersStep == AnswersInv /\ [ChecksNext]_checksVars => AnswersInv'
<1> SUFFICES ASSUME AnswersInv, [ChecksNext]_checksVars PROVE AnswersInv'
  OBVIOUS
<1>1. CASE ParseOptions
  BY <1>1, ParseStep
<1>2. CASE CheckStep \/ WorldStep
  BY <1>2, CheckStepKeeps
<1>3. CASE ExecCheckStep
  BY <1>3, ExecStepKeeps
<1>4. CASE ReadLine \/ ExecCancel \/ ExecWorld \/ UNCHANGED checksVars
  <2>1. UNCHANGED frameVars
    BY <1>4 DEF ReadLine, ExecCancel, ExecWorld, checksVars
  <2> QED BY <2>1, FrameKept
<1> QED BY <1>1, <1>2, <1>3, <1>4 DEF ChecksNext

\* For ExecCheck, a step of the program is one of its own, or none.
LEMMA ExecSteps == [ChecksNext]_checksVars => [Next]_vars
  BY DEF ChecksNext, checksVars, ReadLine, ExecCheckStep, ExecCancel, ExecWorld, Next

\* For the command line, a step of the program is one of its own, or none.
LEMMA LineSteps == [ChecksNext]_checksVars => [LineNext]_lineVars
  BY DEF ChecksNext, checksVars, ReadLine, ExecCheckStep, ExecCancel, ExecWorld

-----------------------------------------------------------------------------
\* No check has begun, and no options are there to be wrong.
LEMMA ChecksStart == ChecksInit => ChecksInv
<1> SUFFICES ASSUME ChecksInit PROVE ChecksInv
  OBVIOUS
<1>1. LineInit /\ FrameInit /\ Init
  BY DEF ChecksInit
<1>2. FileInv /\ HTTPInv /\ DNSInv
  BY <1>1, FrameStarts DEF FileInv, HTTPInv, DNSInv
<1>3. K8sInv /\ AcceptedConfigIsValid
  BY <1>1 DEF FrameInit, K8sInv, K8sStarted, Nothing, AcceptedConfigIsValid
<1> QED BY <1>1, <1>2, <1>3, PlainStart, InitInv DEF ChecksInv, AnswersInv

\* In every reachable state of the program, from the first argument to the answer, what
\* is known of the line and its segments, of each backend, of the command's processes and of the options holds.
THEOREM ChecksInvariant == ChecksSpec => []ChecksInv
<1>1. ChecksInv /\ [ChecksNext]_checksVars => ChecksInv'
  BY LineSteps, PlainStep, ConfigStep, AnswersStep, ExecSteps, StepInv DEF ChecksInv
<1> QED BY <1>1, ChecksStart, PTL DEF ChecksSpec

\* In the program, too, a plain line is read as it was written and no argument is lost.
THEOREM LinesRead == ChecksSpec => []SegmentsMatchGrammar
<1>1. ChecksInv => SegmentsMatchGrammar
  BY PlainReads DEF ChecksInv
<1> QED BY <1>1, ChecksInvariant, PTL

\* The two places that look at options, the command line and validate of each backend,
\* agree: what the first accepts the second finds valid, but for a few named options.
THEOREM OptionsAgree == ChecksSpec => []AcceptedConfigIsValid
<1>1. ChecksInv => AcceptedConfigIsValid
  BY DEF ChecksInv
<1> QED BY <1>1, ChecksInvariant, PTL

\* In the program, too, every answer of every backend was right at some moment of its
\* check, and the comparisons of a JSON expression agree with each other.
THEOREM AnswersRight ==
    ChecksSpec => [](/\ FileAnswerWitnessed /\ HTTPAnswerWitnessed /\ JSONComparisonsAgree
                     /\ DNSAnswerWitnessed /\ K8sAnswerWitnessed)
<1>1. ChecksInv => /\ FileAnswerWitnessed /\ HTTPAnswerWitnessed /\ JSONComparisonsAgree
                   /\ DNSAnswerWitnessed /\ K8sAnswerWitnessed
  BY FileInvTells, HTTPInvTells, ComparisonsTell, DNSInvTells, K8sInvTells DEF ChecksInv, AnswersInv
<1> QED BY <1>1, ChecksInvariant, PTL

\* In the program, too, an exec condition's answer is about its command's own exit, and
\* a cancelled command leaves no process of its group.
THEOREM CommandAnswersRight == ChecksSpec => [](TypeOK /\ AnswerMatchesExit /\ CancelledGroupIsGone)
<1>1. ChecksInv => TypeOK /\ AnswerMatchesExit /\ CancelledGroupIsGone
  BY DEF ChecksInv, ExecInv, WatcherInv
<1> QED BY <1>1, ChecksInvariant, PTL
=============================================================================
