------------------------------- MODULE Checks -------------------------------
(***************************************************************************)
(* From the command line to an answer: a line becomes conditions, and one  *)
(* that stands alone goes to its backend, which accepts its options and    *)
(* checks it once.  A log condition goes on as LogTail.                    *)
(***************************************************************************)
EXTENDS CommandLine, FileCheck, HTTPCheck, DNSCheck, K8sCheck, ProbeCheck, ExecCheck

checksVars == <<lineVars, frameVars, vars>>

ChecksInit == LineInit /\ FrameInit /\ Init

ReadLine == LineNext /\ UNCHANGED <<frameVars, vars>>

\* backendParsers: the backend's own parser gets the segment. A guard and a name change
\* what becomes of the answer only (GuardCondition and NamedCondition).
Alone(backend) ==
    /\ phase = "accepted" /\ stage = "typed"
    /\ Len(parsed) = 1 /\ parsed[1].backend = backend
    /\ ~parsed[1].guard /\ parsed[1].name = ""

ParseOptions ==
    \/ Alone("file") /\ FileParse
    \/ Alone("http") /\ HTTPParse
    \/ Alone("dns") /\ DNSParse
    \/ Alone("k8s") /\ K8sParse
    \/ Alone("tcp") /\ TCPParse
    \/ Alone("docker") /\ DockerParse
    \/ Alone("log") /\ LogParse
    \/ Alone("exec") /\ ExecParse

\* One step of Check, of all backends but exec.
CheckStep ==
    \/ FileCheckStep \/ HTTPCheckStep \/ DNSCheckStep \/ K8sCheckStep
    \/ TCPCheckStep \/ DockerCheckStep
    \/ LogStarts \/ ExecStarts

WorldStep == FileWorld \/ HTTPWorld \/ DNSWorld \/ K8sWorld \/ TCPWorld \/ DockerWorld

\* ExecCondition.Check replies with what ExecCheck finds.
ExecCheckStep ==
    /\ Running("exec") /\ stage = "run"
    /\ Check
    /\ IF pc' = "done" THEN Reply(result') ELSE UNCHANGED <<request, stage, world, hand, reply>>
    /\ UNCHANGED <<lineVars, held, lacked>>

ExecStarted == request.backend = "exec" /\ (stage = "run" \/ pc = "done")
ExecCancel == ExecStarted /\ CancelCommand /\ UNCHANGED <<lineVars, frameVars>>
ExecWorld == ExecStarted /\ Environment /\ UNCHANGED <<lineVars, frameVars>>

ChecksNext ==
    \/ ReadLine
    \/ (ParseOptions \/ CheckStep \/ WorldStep) /\ UNCHANGED <<lineVars, vars>>
    \/ ExecCheckStep \/ ExecCancel \/ ExecWorld

\* The goroutines of an exec check run; nothing is assumed of the others, nor of the world.
ChecksSpec ==
    ChecksInit /\ [][ChecksNext]_checksVars /\ WF_checksVars(ExecCheckStep) /\ WF_checksVars(ExecCancel)

-----------------------------------------------------------------------------
(* Properties.                                                             *)

Valid(o) ==
    CASE o.backend = "file" -> FileValid(o)
      [] o.backend = "http" -> HTTPValid(o)
      [] o.backend = "dns" -> DNSValid(o)
      [] o.backend = "k8s" -> K8sValid(o)
      [] o.backend = "tcp" -> TCPValid(o)
      [] o.backend = "docker" -> DockerValid(o)
      [] o.backend = "log" -> LogValid(o)
      [] o.backend = "exec" -> ExecValid(o)

\* What the command line does not look at: an empty path, container or program, a host
\* with an empty port, a method that is no token, a negative --tail, and of a Kubernetes
\* resource its kind and its missing or superfluous name.
LeftToCheck(o) ==
    CASE o.backend = "file" -> ~o.path
      [] o.backend = "http" -> o.fault = "method"
      [] o.backend = "dns" -> FALSE
      [] o.backend = "k8s" -> CanonicalKind(o.kind) \notin KnownKinds \/ (o.selector = "" /\ ~o.named)
      [] o.backend = "tcp" -> o.address = "host:"
      [] o.backend = "docker" -> o.container = "blank"
      [] o.backend = "log" -> ~o.path \/ o.tail < 0
      [] o.backend = "exec" -> o.command = "empty word"

\* Options are looked at twice, by the command line (docs/SPEC.md: an invalid argument
\* ends the program with 2) and by the first check (with 3), in two places that know
\* nothing of each other. What the command line has accepted is never found invalid by
\* the check, but for the options that the command line leaves to it.
AcceptedConfigIsValid ==
    stage \notin {"typed", "refused"} => (Valid(request) <=> ~LeftToCheck(request))
=============================================================================
