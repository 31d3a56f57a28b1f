---------------------------- MODULE CommandLine ----------------------------
(***************************************************************************)
(* How the command line becomes conditions: splitConditionSegments cuts    *)
(* the arguments at the -- that separate conditions and leaves the others  *)
(* alone (the one before an exec command, those of the command, and the    *)
(* values of flags); parseCondition then reads guard, --name, the backend  *)
(* and the command of every segment.  An argument is a string.             *)
(***************************************************************************)
EXTENDS Integers, Sequences

CONSTANTS
    Lines,       \* lines of the grammar: sequences of conditions as they are written
    OtherLines,  \* other sequences of arguments
    ValueFlags,  \* conditionValueFlags
    Switches,    \* the flags without a value
    InlineName   \* the arguments of the form --name=value, each with its value

Backends == {"http", "tcp", "exec", "file", "log", "k8s", "dns", "docker"}

Conditions ==
    [guard : BOOLEAN, backend : Backends, name : STRING, words : Seq(STRING), command : Seq(STRING)]

ASSUME LineConfig ==
    /\ Lines \subseteq Seq(Conditions)
    /\ OtherLines \subseteq Seq(STRING)
    /\ "--name" \in ValueFlags
    /\ ValueFlags \subseteq STRING
    /\ {"--", "guard"} \cup Backends \cup DOMAIN InlineName \subseteq
           STRING \ (ValueFlags \cup Switches)

VARIABLES
    written,   \* the conditions that are meant, or <<>>
    args,      \* the arguments
    at,        \* i of splitConditionSegments
    current, segments,
    parsed,    \* the conditions of the segments so far
    phase      \* "typing", "splitting", "parsing", "accepted" or "refused"

lineVars == <<written, args, at, current, segments, parsed, phase>>

LineInit ==
    /\ written = <<>> /\ args = <<>> /\ at = 1
    /\ current = <<>> /\ segments = <<>> /\ parsed = <<>>
    /\ phase = "typing"

-----------------------------------------------------------------------------
(* The grammar of docs/SPEC.md.                                            *)

WrittenCondition(c) ==
    (IF c.guard THEN <<"guard">> ELSE <<>>)
        \o (<<c.backend>>
              \o (c.words \o (IF c.name = "" THEN <<>> ELSE <<"--name", c.name>>))
              \o (IF c.backend = "exec" THEN <<"--">> \o c.command ELSE <<>>))

JoinedWith(line, part) == IF line = <<>> THEN part ELSE line \o <<"--">> \o part

Joined(parts) ==
    LET upTo[k \in 0..Len(parts)] ==
            IF k = 0 THEN <<>> ELSE JoinedWith(upTo[k - 1], parts[k])
    IN  upTo[Len(parts)]

Written(conditions) == Joined([k \in DOMAIN conditions |-> WrittenCondition(conditions[k])])

-----------------------------------------------------------------------------
(* splitConditionSegments.                                                 *)

IsConditionStart(i) ==
    /\ i <= Len(args)
    /\ \/ args[i] \in Backends
       \/ args[i] = "guard" /\ i < Len(args) /\ args[i + 1] \in Backends

IsValueForPreviousFlag(line, i) == i > 1 /\ line[i - 1] \in ValueFlags

IsExecCommandSeparator == current # <<>> /\ current[1] = "exec" /\ ~\E i \in DOMAIN current : current[i] = "--"

\* Mutant of IsSeparatorBefore: the values of flags are not looked at.
IsSeparatorBeforeFlags(i) ==
    /\ args[i] = "--"
    /\ IsConditionStart(i + 1)
    /\ ~IsExecCommandSeparator

IsSeparatorBefore(i) ==
    /\ args[i] = "--"
    /\ IsConditionStart(i + 1)
    /\ ~IsValueForPreviousFlag(args, i)
    /\ ~IsExecCommandSeparator

RefusedLine(line) ==
    \/ line = <<>>
    \/ line[1] = "--"
    \/ line[Len(line)] = "--" /\ ~IsValueForPreviousFlag(line, Len(line))

TypeLine(conditions, line) ==
    /\ written' = conditions /\ args' = line
    /\ phase' = IF RefusedLine(line) THEN "refused" ELSE "splitting"
    /\ UNCHANGED <<at, current, segments, parsed>>

SplitArgument ==
    /\ phase = "splitting"
    /\ IF at > Len(args)
       THEN segments' = Append(segments, current) /\ current' = <<>> /\ phase' = "parsing" /\ UNCHANGED at
       ELSE /\ at' = at + 1
            /\ UNCHANGED phase
            /\ IF IsSeparatorBefore(at)
               THEN segments' = Append(segments, current) /\ current' = <<>>
               ELSE current' = Append(current, args[at]) /\ UNCHANGED segments
    /\ UNCHANGED <<written, args, parsed>>

-----------------------------------------------------------------------------
(* parseCondition.                                                         *)

Unreadable == [backend |-> "error"]

\* What pflag leaves of the arguments that are neither flags nor their values.
TakeTarget(s, word) ==
    CASE s.flag -> [s EXCEPT !.flag = FALSE]
      [] ~s.flag /\ ~s.ended /\ word = "--" -> [s EXCEPT !.ended = TRUE]
      [] ~s.flag /\ ~s.ended /\ word \in ValueFlags -> [s EXCEPT !.flag = TRUE]
      [] ~s.flag /\ ~s.ended /\ word \in Switches -> s
      [] OTHER -> [s EXCEPT !.count = @ + 1]

Targets(words) ==
    LET upTo[k \in 0..Len(words)] ==
            IF k = 0 THEN [flag |-> FALSE, ended |-> FALSE, count |-> 0]
            ELSE TakeTarget(upTo[k - 1], words[k])
    IN  IF upTo[Len(words)].flag THEN -1 ELSE upTo[Len(words)].count

\* setConditionName
WithName(s, name) ==
    IF name = "" \/ s.name # "" THEN [s EXCEPT !.bad = TRUE] ELSE [s EXCEPT !.name = name, !.next = FALSE]

\* parseConditionName, of the arguments before conditionFlagLimit.
TakeName(s, word) ==
    CASE s.bad -> s
      [] ~s.bad /\ s.next -> WithName(s, word)
      [] ~s.bad /\ ~s.next /\ word = "--name" -> [s EXCEPT !.next = TRUE]
      [] ~s.bad /\ ~s.next /\ word \in DOMAIN InlineName -> WithName(s, InlineName[word])
      [] OTHER -> [s EXCEPT !.words = Append(@, word)]

NoName == [words |-> <<>>, name |-> "", next |-> FALSE, bad |-> FALSE]

ConditionName(words) ==
    LET upTo[k \in 0..Len(words)] ==
            IF k = 0 THEN NoName ELSE TakeName(upTo[k - 1], words[k])
    IN  upTo[Len(words)]

\* parseCondition without its guards, and parseExecCondition's separator; the options
\* and the target are the backends' own.
ParseBackend(guard, segment) ==
    LET separators == {i \in DOMAIN segment : segment[i] = "--"}
        limit == IF segment[1] = "exec" /\ separators # {}
                 THEN CHOOSE i \in separators : \A j \in separators : i <= j
                 ELSE Len(segment) + 1
        own == ConditionName(SubSeq(segment, 2, limit - 1))
        command == SubSeq(segment, limit + 1, Len(segment))
    IN  IF own.bad \/ own.next \/ segment[1] \notin Backends
               \/ (segment[1] = "exec" /\ command = <<>>)
               \/ Targets(own.words) # (IF segment[1] = "exec" THEN 0 ELSE 1)
        THEN Unreadable
        ELSE [guard |-> guard, backend |-> segment[1], name |-> own.name,
              words |-> own.words, command |-> command]

ParseCondition(segment) ==
    LET others == {i \in DOMAIN segment : segment[i] # "guard"}
        start == CHOOSE i \in others : \A j \in others : i <= j
    IN  IF others = {} THEN Unreadable
        ELSE ParseBackend(start > 1, SubSeq(segment, start, Len(segment)))

\* The next condition of parseConditions; runner.ValidateConfig wants one that is no guard.
ReadSegment ==
    /\ phase = "parsing"
    /\ LET read == ParseCondition(segments[Len(parsed) + 1])
           all == Append(parsed, read)
       IN  IF read = Unreadable
           THEN phase' = "refused" /\ UNCHANGED parsed
           ELSE /\ parsed' = all
                /\ phase' = CASE Len(all) < Len(segments) -> "parsing"
                              [] Len(all) = Len(segments) /\ \E k \in DOMAIN all : ~all[k].guard -> "accepted"
                              [] OTHER -> "refused"
    /\ UNCHANGED <<written, args, at, current, segments>>

LineNext ==
    \/ /\ phase = "typing"
       /\ \/ \E conditions \in Lines : TypeLine(conditions, Written(conditions))
          \/ \E line \in OtherLines : TypeLine(<<>>, line)
    \/ SplitArgument
    \/ ReadSegment

LineSpec == LineInit /\ [][LineNext]_lineVars

-----------------------------------------------------------------------------
(* Properties.                                                             *)

StartsCondition(words) ==
    /\ words # <<>>
    /\ words[1] \in Backends \/ (Len(words) > 1 /\ words[1] = "guard" /\ words[2] \in Backends)

\* A condition that docs/SPEC.md:45 promises to read as it is written: it has one target,
\* or a command that -- introduces; any other -- in front of something that looks like a
\* condition is the value of a flag; and it has no second name.
PlainCondition(c) ==
    LET words == WrittenCondition(c)
    IN  /\ Targets(c.words) = (IF c.backend = "exec" THEN 0 ELSE 1)
        /\ c.backend = "exec" <=> c.command # <<>>
        /\ c.backend = "exec" => c.name # "--" /\ \A i \in DOMAIN c.words : c.words[i] # "--"
        /\ \A i \in DOMAIN words :
               words[i] = "--" /\ StartsCondition(SubSeq(words, i + 1, Len(words)))
                   => IsValueForPreviousFlag(words, i) \/ i = Len(words) - Len(c.command)
        /\ \A i \in DOMAIN c.words : c.words[i] \notin {"--name"} \cup DOMAIN InlineName

\* No condition ends in a word that is also a flag with a value, and the line not in --.
PlainLine(conditions) ==
    /\ conditions # <<>>
    /\ \A k \in DOMAIN conditions :
        LET words == WrittenCondition(conditions[k])
        IN  /\ PlainCondition(conditions[k])
            /\ IF k = Len(conditions) THEN ~RefusedLine(words)
               ELSE words[Len(words)] \notin ValueFlags

GuardsCommand(conditions) ==
    \E k \in DOMAIN conditions :
        conditions[k].guard /\ conditions[k].backend = "exec" /\ StartsCondition(conditions[k].command)

ReadAsWritten ==
    phase \in {"accepted", "refused"} =>
        IF \E k \in DOMAIN written : ~written[k].guard
        THEN phase = "accepted" /\ parsed = written
        ELSE phase = "refused"

\* Every line of the grammar is read as the conditions that were written, with their
\* guards, names and commands, although one token separates conditions, introduces a
\* command, is a part of one and is a flag's value; and of any line at all no argument
\* gets lost (splitConditionSegments, isSeparatorBefore, parseConditionName). The
\* command of a guarded exec condition must not be named like a backend.
SegmentsMatchGrammar ==
    /\ PlainLine(written) /\ ~GuardsCommand(written) => ReadAsWritten
    /\ phase \in {"splitting", "parsing"} =>
           Joined(segments \o IF current = <<>> THEN <<>> ELSE <<current>>)
               \in {SubSeq(args, 1, at - 1), SubSeq(args, 1, at - 2)}

\* docs/SPEC.md:45: exec uses -- to separate its own flags from the command being run,
\* and a condition may be a guard in front of that (isExecCommandSeparator).
GuardedExecKeepsCommand == PlainLine(written) => ReadAsWritten
=============================================================================
