------------------------------- MODULE LogTail -------------------------------
(***************************************************************************)
(* LogCondition.Check: one goroutine reads a file by its path, from where   *)
(* the last check stopped, while other processes append to the file,       *)
(* rotate it, truncate it, delete it and create it again.  The check is    *)
(* several steps long - Stat, Open, the scan - and the file may change     *)
(* between any two of them.                                                *)
(*                                                                         *)
(* A file is a sequence of units: "m" and "n" are whole lines that match   *)
(* and do not match; "p" is a piece of a line without its newline and "e"  *)
(* the last piece of such a line.  Offsets and limits count units.         *)
(***************************************************************************)
EXTENDS Integers, Sequences, FiniteSets

CONSTANTS
    Inodes,      \* what os.SameFile compares
    None,        \* no file at the path
    Starts,      \* subset of {"begin", "tail", "end"}: --from-start, --tail, neither
    TailLines,   \* LogCondition.Tail, when it is set
    MinMatches,  \* LogCondition.MinMatches
    Matching,    \* the kinds of token that pass matchLine: see Kind
    ReadLimit,   \* maxLogScanBytes
    TailLimit,   \* maxTailScanBytes
    MaxWrites,   \* bound on appends (model only)
    MaxChanges   \* bound on rotations, truncations and deletions (model only)

ASSUME LogConfig ==
    /\ None \notin Inodes
    /\ Starts \subseteq {"begin", "tail", "end"}
    /\ TailLines \in Nat \ {0}
    /\ MinMatches \in Nat \ {0}
    /\ Matching \subseteq {"m", "whole", "head", "rest"}
    /\ ReadLimit \in Nat \ {0}
    /\ TailLimit \in Nat \ {0}
    /\ MaxWrites \in Nat
    /\ MaxChanges \in Nat

VARIABLES
    path,         \* the inode the path leads to, or None
    files,        \* the content of each inode
    born,         \* which file of its life an inode holds: a new one at every change
    writes, changes,
    start,        \* which of Starts the user chose
    offset, prevInfo, initialized, matchCount, missingInit,  \* the fields of LogCondition
    pc,           \* what Check does next: "stat", "tail", "open" or "scan"
    info,         \* what os.Stat returned: inode, size, and which file it was
    chunk,        \* what was read: the units, and whether they begin inside a line
    result,       \* what the last check reported
    \* What this count is about, for the properties only:
    counted,      \* the units behind matchCount, in the order they were read
    base,         \* the offset it began at
    late,         \* is its file one that came after the wait had started?
    raced,        \* was its file replaced in a way that Check could not see?
    split         \* did one of its reads begin or end inside a line?

disk == <<path, files, born, writes, changes>>
fields == <<offset, prevInfo, initialized, matchCount, missingInit>>
ghosts == <<counted, base, late, raced, split>>
vars == <<disk, start, fields, pc, info, chunk, result, ghosts>>

Unit == {"m", "n", "p", "e"}
Terminated == {"m", "n", "e"}
Result == {"none", "satisfied", "unsatisfied"}

NoInfo == [inode |-> None, size |-> 0, born |-> 0]
NoChunk == [units |-> <<>>, inside |-> FALSE, born |-> 0]

\* What os.Stat returns, and all of it that is looked at when it is prevInfo.
FileInfo == [inode |-> path, size |-> Len(files[path]), born |-> born[path]]
Identity(stat) == [stat EXCEPT !.size = 0]

TypeOK ==
    /\ path \in Inodes \cup {None}
    /\ files \in [Inodes -> Seq(Unit)]
    /\ born \in [Inodes -> Nat]
    /\ writes \in 0..MaxWrites /\ changes \in 0..MaxChanges
    /\ start \in Starts
    /\ offset \in Nat /\ matchCount \in Nat
    /\ prevInfo \in [inode : Inodes \cup {None}, size : Nat, born : Nat]
    /\ info \in [inode : Inodes \cup {None}, size : Nat, born : Nat]
    /\ initialized \in BOOLEAN /\ missingInit \in BOOLEAN
    /\ pc \in {"stat", "tail", "open", "scan"}
    /\ chunk \in [units : Seq(Unit), inside : BOOLEAN, born : Nat]
    /\ Len(chunk.units) <= ReadLimit
    /\ result \in Result
    /\ counted \in Seq(Unit)
    /\ base \in Nat
    /\ late \in BOOLEAN /\ raced \in BOOLEAN /\ split \in BOOLEAN
    /\ initialized => ~missingInit

Init ==
    /\ path \in Inodes \cup {None}
    /\ files = [i \in Inodes |-> <<>>]
    /\ born = [i \in Inodes |-> 0]
    /\ writes = 0 /\ changes = 0
    /\ start \in Starts
    /\ offset = 0 /\ matchCount = 0
    /\ prevInfo = NoInfo /\ initialized = FALSE /\ missingInit = FALSE
    /\ pc = "stat" /\ info = NoInfo /\ chunk = NoChunk
    /\ result = "none"
    /\ counted = <<>> /\ base = 0 /\ late = FALSE /\ raced = FALSE /\ split = FALSE

-----------------------------------------------------------------------------
(* The processes that write the log.                                       *)

\* Does the file stand inside a line after its first k units?
InsideLine(file, k) == k \in 1..Len(file) /\ file[k] = "p"

\* A writer appends a unit; a line that was begun is continued.
WriterAppends(u) ==
    /\ path # None
    /\ writes < MaxWrites
    /\ u \in IF InsideLine(files[path], Len(files[path])) THEN {"p", "e"} ELSE {"m", "n", "p"}
    /\ files' = [files EXCEPT ![path] = Append(@, u)]
    /\ writes' = writes + 1
    /\ UNCHANGED <<path, born, changes, start, fields, pc, info, chunk, result, ghosts>>

\* The path leads to an empty file from now on: a rotation or a first creation
\* (another inode, or a deleted one again), or copytruncate (the same inode).
NewFile(i) ==
    /\ changes < MaxChanges
    /\ changes' = changes + 1
    /\ path' = i
    /\ files' = [files EXCEPT ![i] = <<>>]
    /\ born' = [born EXCEPT ![i] = changes + 1]
    /\ UNCHANGED <<writes, start, fields, pc, info, chunk, result, ghosts>>

Delete ==
    /\ path # None
    /\ changes < MaxChanges
    /\ changes' = changes + 1
    /\ path' = None
    /\ UNCHANGED <<files, born, writes, start, fields, pc, info, chunk, result, ghosts>>

-----------------------------------------------------------------------------
(* The check.                                                              *)

\* The attempt is cancelled before it starts, or os.Stat fails in another way than
\* by not finding the file.
CheckFails ==
    /\ pc = "stat"
    /\ result' = "unsatisfied"
    /\ UNCHANGED <<disk, start, fields, pc, info, chunk, ghosts>>

\* Mutant of StatMissing: nothing is remembered of a missing file.
StatMissingForgets ==
    /\ pc = "stat"
    /\ path = None
    /\ late' = (late \/ ~initialized)
    /\ result' = "unsatisfied"
    /\ UNCHANGED <<disk, start, offset, prevInfo, initialized, matchCount, missingInit,
                   pc, info, chunk, counted, base, raced, split>>

\* os.Stat finds no file: before the first file was seen, that is remembered.
StatMissing ==
    /\ pc = "stat"
    /\ path = None
    /\ missingInit' = (missingInit \/ ~initialized)
    /\ late' = (late \/ ~initialized)
    /\ result' = "unsatisfied"
    /\ UNCHANGED <<disk, start, offset, prevInfo, initialized, matchCount, pc, info, chunk,
                   counted, base, raced, split>>

\* Mutant of Rotated: a file that did not grow counts as shrunk.
RotatedAtEnd(stat) ==
    /\ prevInfo # NoInfo
    /\ stat.inode # prevInfo.inode \/ stat.size <= offset

\* Mutant of Rotated: a shrunk file is not noticed.
RotatedByInode(stat) ==
    /\ prevInfo # NoInfo
    /\ stat.inode # prevInfo.inode

\* The condition in resetOnRotation.
Rotated(stat) ==
    /\ prevInfo # NoInfo
    /\ stat.inode # prevInfo.inode \/ stat.size < offset

\* Mutant of StatRotated: the matches in the old file still count.
StatRotatedKeepsCount ==
    LET stat == FileInfo
    IN  /\ pc = "stat"
        /\ path # None
        /\ Rotated(stat)
        /\ offset' = 0
        /\ initialized' = TRUE /\ missingInit' = FALSE
        /\ info' = stat /\ prevInfo' = Identity(stat)
        /\ counted' = <<>> /\ base' = 0 /\ late' = TRUE /\ raced' = FALSE /\ split' = FALSE
        /\ pc' = "open"
        /\ UNCHANGED <<disk, start, matchCount, chunk, result>>

\* os.Stat finds a file, and resetOnRotation finds that it is not the one that was
\* read so far: everything starts over.
StatRotated ==
    LET stat == FileInfo
    IN  /\ pc = "stat"
        /\ path # None
        /\ Rotated(stat)
        /\ offset' = 0 /\ matchCount' = 0
        /\ initialized' = TRUE /\ missingInit' = FALSE
        /\ info' = stat /\ prevInfo' = Identity(stat)
        /\ counted' = <<>> /\ base' = 0 /\ late' = TRUE /\ raced' = FALSE /\ split' = FALSE
        /\ pc' = "open"
        /\ UNCHANGED <<disk, start, chunk, result>>

\* os.Stat finds the file that was read so far.
StatSame ==
    LET stat == FileInfo
    IN  /\ pc = "stat"
        /\ path # None
        /\ ~Rotated(stat)
        /\ initialized
        /\ info' = stat /\ prevInfo' = Identity(stat)
        /\ raced' = (raced \/ stat.born # prevInfo.born)
        /\ pc' = "open"
        /\ UNCHANGED <<disk, start, offset, initialized, matchCount, missingInit, chunk,
                       result, counted, base, late, split>>

\* Mutant of StatFirst: the note of a missing file is not cleared.
StatFirstKeepsMissing ==
    LET stat == FileInfo
        from == IF missingInit \/ start = "begin" THEN 0 ELSE stat.size
    IN  /\ pc = "stat"
        /\ path # None
        /\ ~initialized
        /\ missingInit \/ start # "tail"
        /\ offset' = from /\ base' = from
        /\ initialized' = TRUE
        /\ info' = stat /\ prevInfo' = Identity(stat)
        /\ pc' = "open"
        /\ UNCHANGED <<disk, start, matchCount, missingInit, chunk, result,
                       counted, late, raced, split>>

\* os.Stat finds the first file, and initOffset says where its reading begins: at 0
\* if the file was missing before, or if the user asked for that; else at its end.
StatFirst ==
    LET stat == FileInfo
        from == IF missingInit \/ start = "begin" THEN 0 ELSE stat.size
    IN  /\ pc = "stat"
        /\ path # None
        /\ ~initialized
        /\ missingInit \/ start # "tail"
        /\ offset' = from /\ base' = from
        /\ initialized' = TRUE /\ missingInit' = FALSE
        /\ info' = stat /\ prevInfo' = Identity(stat)
        /\ pc' = "open"
        /\ UNCHANGED <<disk, start, matchCount, chunk, result, counted, late, raced, split>>

\* The same, but the user asked for the last lines: they must be looked for first.
StatTail ==
    /\ pc = "stat"
    /\ path # None
    /\ ~initialized
    /\ ~missingInit /\ start = "tail"
    /\ info' = FileInfo
    /\ pc' = "tail"
    /\ UNCHANGED <<disk, start, fields, chunk, result, ghosts>>

\* Mutant of FindTailStart: a trailing newline is a line of its own.
FindTailStartTrailing(units, from, n) ==
    LET newlines == {k \in 1..Len(units) : units[k] \in Terminated}
        before(k) == Cardinality({j \in newlines : j >= k})
    IN  IF Cardinality(newlines) < n THEN from
        ELSE from + (CHOOSE k \in newlines : before(k) = n)

\* findTailStart: where the last n lines of the units begin, if they begin here.
FindTailStart(units, from, n) ==
    LET newlines == {k \in 1..Len(units) - 1 : units[k] \in Terminated}
        before(k) == Cardinality({j \in newlines : j >= k})
    IN  IF Cardinality(newlines) < n THEN from
        ELSE from + (CHOOSE k \in newlines : before(k) = n)

\* Up to n units of what the path leads to now, from the offset.
ReadFrom(from, n) ==
    LET file == files[path]
    IN  SubSeq(file, from + 1, IF from + n < Len(file) THEN from + n ELSE Len(file))

\* computeTailOffset opens the path again: the size is the one os.Stat saw, the
\* content is what is there by now.
TailOffset ==
    LET from == IF info.size > TailLimit THEN info.size - TailLimit ELSE 0
        found == IF info.size = 0 THEN 0
                 ELSE FindTailStart(ReadFrom(from, TailLimit), from, TailLines)
    IN  /\ pc = "tail"
        /\ path # None \/ info.size = 0
        /\ offset' = found /\ base' = found
        /\ initialized' = TRUE
        /\ prevInfo' = Identity(info)
        /\ raced' = (info.size # 0 /\ born[path] # info.born)
        /\ pc' = "open"
        /\ UNCHANGED <<disk, start, matchCount, missingInit, info, chunk, result, counted,
                       late, split>>

\* The file has gone: the check fails and the next one is the first again.
TailMissing ==
    /\ pc = "tail"
    /\ path = None /\ info.size # 0
    /\ pc' = "stat" /\ result' = "unsatisfied" /\ info' = NoInfo
    /\ UNCHANGED <<disk, start, fields, chunk, ghosts>>

\* readNewContent opens the path, seeks to the offset and reads.
Open ==
    /\ pc = "open"
    /\ path # None
    /\ chunk' = [units |-> ReadFrom(offset, ReadLimit),
                 inside |-> InsideLine(files[path], offset),
                 born |-> born[path]]
    /\ pc' = "scan"
    /\ UNCHANGED <<disk, start, fields, info, result, ghosts>>

OpenMissing ==
    /\ pc = "open"
    /\ path = None
    /\ pc' = "stat" /\ result' = "unsatisfied" /\ info' = NoInfo
    /\ UNCHANGED <<disk, start, fields, chunk, ghosts>>

\* The scanner ends a token at each newline and at the end of what was read.
Ends(units) == {k \in 1..Len(units) : units[k] \in Terminated \/ k = Len(units)}

\* What the token that ends at k is: "m" or "n", or of a line that was written in
\* pieces all of it, its head, or some rest of it.
Kind(c, k) ==
    LET begin == CHOOSE j \in 1..k : /\ \A i \in j..k - 1 : c.units[i] = "p"
                                     /\ j = 1 \/ c.units[j - 1] # "p"
    IN  CASE c.units[k] \in {"m", "n"} -> c.units[k]
          [] c.units[k] \notin {"m", "n"} /\ begin = 1 /\ c.inside -> "rest"
          [] c.units[k] = "p" /\ ~(begin = 1 /\ c.inside) -> "head"
          [] OTHER -> "whole"

Hits(c) == Cardinality({k \in Ends(c.units) : Kind(c, k) \in Matching})

\* A full read without a single newline is more than the scanner's buffer takes.
TooLong(units) == Len(units) = ReadLimit /\ \A k \in 1..Len(units) : units[k] = "p"

\* scanLines reads all lines: the matches are counted, the offset moves on, and the
\* check is satisfied if there are enough matches and one of them is new.
ScanDone ==
    LET hits == Hits(chunk)
        read == chunk.units
    IN  /\ pc = "scan"
        /\ ~TooLong(read)
        /\ matchCount' = matchCount + hits
        /\ offset' = offset + Len(read)
        /\ result' = IF matchCount + hits >= MinMatches /\ hits > 0
                     THEN "satisfied" ELSE "unsatisfied"
        /\ counted' = counted \o read
        /\ raced' = (raced \/ (read # <<>> /\ chunk.born # info.born))
        /\ split' = (split \/ (read # <<>> /\ (chunk.inside \/ read[Len(read)] = "p")))
        /\ pc' = "stat" /\ info' = NoInfo /\ chunk' = NoChunk
        /\ UNCHANGED <<disk, start, prevInfo, initialized, missingInit, base, late>>

\* Mutant of ScanAborted: the offset moves past what was not scanned.
ScanAbortedAdvances ==
    /\ pc = "scan"
    /\ result' = "unsatisfied"
    /\ offset' = offset + Len(chunk.units)
    /\ pc' = "stat" /\ info' = NoInfo /\ chunk' = NoChunk
    /\ UNCHANGED <<disk, start, prevInfo, initialized, matchCount, missingInit, ghosts>>

\* scanLines gives up, at a cancelled context or at a line that is too long: neither
\* the count nor the offset changes.
ScanAborted ==
    /\ pc = "scan"
    /\ result' = "unsatisfied"
    /\ pc' = "stat" /\ info' = NoInfo /\ chunk' = NoChunk
    /\ UNCHANGED <<disk, start, fields, ghosts>>

Environment ==
    \/ \E u \in Unit : WriterAppends(u)
    \/ \E i \in Inodes : NewFile(i)
    \/ Delete

Stat == StatMissing \/ StatRotated \/ StatSame \/ StatFirst \/ StatTail

Check ==
    \/ Stat
    \/ CheckFails
    \/ TailOffset
    \/ TailMissing
    \/ Open
    \/ OpenMissing
    \/ ScanDone
    \/ ScanAborted

Next == Environment \/ Check

Spec == Init /\ [][Next]_vars

\* The runner keeps polling, and not every attempt is cut short.
FairSpec ==
    /\ Spec
    /\ WF_vars(Stat) /\ WF_vars(TailOffset \/ TailMissing) /\ WF_vars(Open \/ OpenMissing)
    /\ SF_vars(ScanDone) /\ WF_vars(ScanDone \/ ScanAborted)

-----------------------------------------------------------------------------
(* Properties.                                                             *)

\* The path still leads to the file that the last os.Stat saw, and the count did not
\* run over a replacement that os.SameFile and the size cannot tell.
Known ==
    /\ path # None
    /\ initialized
    /\ prevInfo.inode = path /\ prevInfo.born = born[path]
    /\ ~raced

\* The count is about one stretch of one file, from where it began up to the offset:
\* no unit is skipped and none is read twice, whatever failed, was cancelled or was
\* rotated in between (readNewContent, scanLines).
CountedIsFile ==
    Known => counted = SubSeq(files[path], base + 1, offset)

\* A file that came to the path after the wait had started is read from its first
\* byte: the first one after a missing file, and every one after a rotation
\* (missingInit, resetOnRotation).
NewFileReadWhole ==
    Known /\ late => counted = SubSeq(files[path], 1, offset)

\* The count is the number of matching lines among the units it is about, each of
\* them once, as long as no read begins or ends inside a line (scanLines).
CountsEveryLineOnce ==
    ~split =>
      matchCount = Cardinality({k \in 1..Len(counted) :
                      \/ counted[k] = "m" /\ "m" \in Matching
                      \/ counted[k] = "e" /\ "whole" \in Matching})

\* The offset goes back only if the file at the path is not the one that was read: a
\* file that merely grew or was left alone is never read again. And a count goes on over
\* a replacement only while nothing shows it: the path has the inode that was seen last
\* and is as long as what was read of it, so that a file that was exchanged between two
\* steps of one check is found out by the next one (resetOnRotation).
RereadsReplacedFiles ==
    [][/\ offset' < offset => Identity(FileInfo) # prevInfo
       /\ pc = "stat" /\ pc' = "open" /\ raced' =>
            path = prevInfo.inode /\ offset <= Len(files[path])]_vars

\* What --tail starts with are the last lines of what is there, as many as were asked
\* for or else all of them, within the limit: as the scanner tells lines, with and
\* without a final newline, in a file that may have grown or shrunk since its size was
\* looked at (computeTailOffset, findTailStart).
TailIsLastLines ==
    [][pc = "tail" /\ pc' = "open" /\ info.size # 0 =>
         LET from == IF info.size > TailLimit THEN info.size - TailLimit ELSE 0
             read == ReadFrom(from, TailLimit)
             tail == SubSeq(read, offset' - from + 1, Len(read))
             lines(units) == Cardinality(Ends(units))
         IN  /\ offset' \in from..from + Len(read)
             /\ offset' = from \/ files[path][offset'] \in Terminated
             /\ lines(tail) = TailLines \/ (lines(tail) < TailLines /\ offset' = from)]_vars

\* A log that its writers leave alone is read to its end, but for a line that is too
\* long to be scanned (Check, under the runner's polling).
QuietLogIsRead ==
    <>[](\/ path = None
         \/ TooLong(ReadFrom(offset, ReadLimit))
         \/ offset = Len(files[path]))

\* What docs/SPEC.md:299 says of Check: it is satisfied when the count has reached
\* --min-matches. Every scan that runs to its end should say so.
SatisfiedOnceReached ==
    [][ScanDone /\ matchCount' >= MinMatches => result' = "satisfied"]_vars

\* The matching lines of the file that lie between the first offset and the offset.
LinesRead ==
    {k \in base + 1..offset :
       \/ files[path][k] = "m" /\ "m" \in Matching
       \/ /\ files[path][k] = "e" /\ "whole" \in Matching
          /\ \E j \in base + 1..k - 1 :
               /\ ~InsideLine(files[path], j - 1)
               /\ \A i \in j..k - 1 : files[path][i] = "p"}

\* What docs/SPEC.md:283-293 says of Check: every new line that passes the matchers
\* increments the count.
EveryLineMatched ==
    Known /\ pc = "stat" => matchCount >= Cardinality(LinesRead)
=============================================================================
