----------------------------- MODULE ProbeCheck -----------------------------
(***************************************************************************)
(* The conditions that look once, TCPCondition.Check and                   *)
(* DockerCondition.Check, and the options of the log and exec conditions,  *)
(* whose checks are LogTail and ExecCheck.                                 *)
(***************************************************************************)
EXTENDS Integers, CheckFrame

CONSTANT Containers  \* the states of a container: [status, health], health "" for none configured

DockerStatuses == {"any", "created", "running", "paused", "restarting", "removing", "exited", "dead"}
DockerHealths == {"", "healthy", "unhealthy", "starting", "none"}

ASSUME ProbeConfig ==
    \A c \in Containers : c.status \in DockerStatuses \ {"any"} /\ c.health \in DockerHealths

-----------------------------------------------------------------------------
(* TCP: a host and a port, only a host, only a colon after it, or nothing. *)

TCPRequests == [backend : {"tcp"}, address : {"host:port", "host", "host:", ""}]

\* parseTCPCondition asks no more than net.SplitHostPort.
TCPAccepts(o) == o.address \in {"host:port", "host:"}
\* validateTCPConfig
TCPValid(o) == o.address = "host:port"

TCPHolds(o, w) == w.listening
TCPObserve == Observe(TCPHolds(request', world'))

\* A server starts or stops to listen.
TCPWorld ==
    /\ Running("tcp")
    /\ Turns([listening |-> ~world.listening])
    /\ TCPObserve

TCPStarts ==
    /\ stage = "check"
    /\ IF TCPValid(request) THEN Proceed("dial") ELSE Reply("fatal")

\* A dial that is refused and one that gets no answer in time are the same to Check.
TCPDial ==
    /\ stage = "dial"
    /\ Reply("failed") \/ Reply(IF world.listening THEN "satisfied" ELSE "unsatisfied")

TCPCheckStep ==
    /\ Running("tcp")
    /\ TCPStarts \/ TCPDial
    /\ TCPObserve

TCPParse ==
    \E o \in TCPRequests, b \in BOOLEAN :
        Parse(o, TCPAccepts(o), [listening |-> b], Nothing) /\ TCPObserve

-----------------------------------------------------------------------------
(* Docker. The command line and the condition both ignore the case of the  *)
(* words.                                                                  *)

DockerRequests ==
    [backend : {"docker"}, container : {"given", "blank"},
     status : DockerStatuses \cup {"odd"}, health : DockerHealths \cup {"odd"}]

\* parseDockerCondition
DockerAccepts(o) == o.status \in DockerStatuses /\ o.health \in DockerHealths
DockerValid(o) == o.container = "given" /\ DockerAccepts(o)

NoContainer == [status |-> "absent", health |-> ""]

\* checkDockerStatus and checkDockerHealth
DockerHolds(o, c) ==
    /\ c # NoContainer
    /\ o.status \in {"any", c.status}
    /\ CASE o.health = "" -> TRUE
         [] o.health = "none" -> c.health = ""
         [] OTHER -> c.health = o.health

DockerObserve == Observe(DockerHolds(request', world'))

DockerWorld ==
    /\ Running("docker")
    /\ \E c \in Containers \cup {NoContainer} : c # world /\ Turns(c)
    /\ DockerObserve

DockerStarts ==
    /\ stage = "check"
    /\ IF DockerValid(request) THEN Proceed("inspect") ELSE Reply("fatal")

\* There is no docker command, it fails or says what cannot be parsed, or it reports
\* the container or that there is none (classifyDockerInspectError).
DockerInspect ==
    /\ stage = "inspect"
    /\ \/ Reply("fatal")
       \/ Reply("failed")
       \/ Reply(IF DockerHolds(request, world) THEN "satisfied" ELSE "unsatisfied")

DockerCheckStep ==
    /\ Running("docker")
    /\ DockerStarts \/ DockerInspect
    /\ DockerObserve

DockerParse ==
    \E o \in DockerRequests, c \in Containers \cup {NoContainer} :
        Parse(o, DockerAccepts(o), c, Nothing) /\ DockerObserve

-----------------------------------------------------------------------------
(* The options of log and exec. Their worlds are in their own modules.     *)

LogRequests ==
    [backend : {"log"}, path : BOOLEAN, matcher : {"none", "compiles", "malformed"},
     fromStart : BOOLEAN, tail : -1..1, minMatches : 0..1]

\* validateLogOptions and buildLogCondition
LogAccepts(o) ==
    /\ o.matcher = "compiles"
    /\ ~(o.fromStart /\ o.tail > 0)
    /\ o.minMatches >= 1

\* validateLogConfig
LogValid(o) == LogAccepts(o) /\ o.path /\ o.tail >= 0

ExecRequests ==
    [backend : {"exec"}, command : {"none", "empty word", "given"}, env : {"key=value", "key"},
     exitCode : {"negative", "given"}, maxOutput : 0..1, jsonpath : {"none", "compiles", "malformed"}]

\* parseExecCondition and validateExecOptions
ExecAccepts(o) ==
    /\ o.command # "none" /\ o.env = "key=value"
    /\ o.exitCode = "given" /\ o.maxOutput > 0
    /\ o.jsonpath # "malformed"

\* validateExecConfig
ExecValid(o) == ExecAccepts(o) /\ o.command = "given"

\* Both conditions look at their options first.
Starts(backend, valid) ==
    /\ Running(backend)
    /\ stage = "check"
    /\ IF valid THEN Proceed("run") ELSE Reply("fatal")
    /\ UNCHANGED <<held, lacked>>

LogParse == \E o \in LogRequests : Parse(o, LogAccepts(o), Nothing, Nothing) /\ UNCHANGED <<held, lacked>>
ExecParse == \E o \in ExecRequests : Parse(o, ExecAccepts(o), Nothing, Nothing) /\ UNCHANGED <<held, lacked>>
LogStarts == Starts("log", LogValid(request))
ExecStarts == Starts("exec", ExecValid(request))

ProbeNext ==
    \/ TCPParse \/ TCPCheckStep \/ TCPWorld
    \/ DockerParse \/ DockerCheckStep \/ DockerWorld
    \/ LogParse \/ LogStarts
    \/ ExecParse \/ ExecStarts

ProbeSpec == FrameInit /\ [][ProbeNext]_frameVars
=============================================================================
