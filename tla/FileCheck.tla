------------------------------ MODULE FileCheck ------------------------------
(***************************************************************************)
(* FileCondition.Check looks at a path with os.Stat and then, for its      *)
(* content, opens the path again and reads, one piece after the other,     *)
(* while other processes append to the file, truncate it, delete it or put *)
(* another one in its place.                                               *)
(***************************************************************************)
EXTENDS Integers, Sequences, CheckFrame

CONSTANTS
    Files,      \* the files that may stand at the path
    Pieces,     \* what one read may find
    WantedText, \* the required substring, as a sequence of pieces
    ReadLimit,  \* maxFileContainsBytes, in pieces
    MaxPieces   \* bound: how many pieces a file may have together with any other

ASSUME FileConfig ==
    /\ ReadLimit \in Nat /\ MaxPieces \in Nat
    /\ "nothing" \notin Files /\ "directory" \notin Files
    /\ WantedText \in Seq(Pieces)

\* The world: what the path names, and the content of each file.
Directory == "directory"
NoFile == "nothing"
EmptyFileHand == [file |-> NoFile, text |-> <<>>, rewritten |-> FALSE]

FileRequests == [backend : {"file"}, path : BOOLEAN, exists : BOOLEAN, deleted : BOOLEAN,
                 nonempty : BOOLEAN, contains : BOOLEAN]

\* Mutant of FileAccepts: a text is looked for in a file that must be deleted.
FileAcceptsDeletedText(o) ==
    ~(o.exists /\ o.deleted) /\ ~(o.exists /\ o.nonempty) /\ ~(o.deleted /\ o.nonempty)

\* parseFileState; an empty path is an argument like any other.
FileAccepts(o) ==
    /\ ~(o.exists /\ o.deleted) /\ ~(o.exists /\ o.nonempty) /\ ~(o.deleted /\ o.nonempty)
    /\ ~(o.deleted /\ o.contains)

\* validateFileConfig
FileValid(o) == o.path /\ ~(o.deleted /\ o.contains)

Contains(text) ==
    \E i \in 0..(Len(text) - Len(WantedText)) :
        SubSeq(text, i + 1, i + Len(WantedText)) = WantedText

FirstPieces(text) == SubSeq(text, 1, IF Len(text) < ReadLimit THEN Len(text) ELSE ReadLimit)

\* What docs/SPEC.md says of the file flags, at one moment.
FileHolds(o, w) ==
    IF o.deleted THEN w.at = NoFile
    ELSE /\ w.at # NoFile
         /\ o.nonempty /\ w.at \in Files => w.text[w.at] # <<>>
         /\ o.contains => w.at \in Files /\ Contains(FirstPieces(w.text[w.at]))

\* A file that has left the path while Check reads it is still the one that it reads.
OpenFileHolds(h, w) == h.file # NoFile /\ Contains(FirstPieces(w.text[h.file]))

FileObserve ==
    /\ held' = (held \/ (stage' # "refused" /\ (FileHolds(request', world') \/ OpenFileHolds(hand', world'))))
    /\ lacked' = (lacked \/ (stage' # "refused" /\ ~FileHolds(request', world')))

-----------------------------------------------------------------------------
(* The other processes.                                                    *)

\* By anybody who has the file open, wherever the path leads by now.
AppendPiece(f, p) ==
    /\ \A g \in Files :
           Len(world.text[f]) + (IF g = f THEN 0 ELSE Len(world.text[g])) < MaxPieces
    /\ Turns([world EXCEPT !.text[f] = Append(@, p)])

Truncate(f) ==
    /\ world.text[f] # <<>>
    /\ world' = [world EXCEPT !.text[f] = <<>>]
    /\ hand' = [hand EXCEPT !.rewritten = @ \/ hand.file = f]
    /\ UNCHANGED <<request, stage, reply>>

\* Creation, deletion and replacement of what is at the path.
Rename(to) == to # world.at /\ Turns([world EXCEPT !.at = to])

FileWorld ==
    /\ Running("file")
    /\ \/ \E f \in Files : Truncate(f) \/ \E p \in Pieces : AppendPiece(f, p)
       \/ \E to \in Files \cup {NoFile, Directory} : Rename(to)
    /\ FileObserve

-----------------------------------------------------------------------------
(* Check.                                                                  *)

FileStarts ==
    /\ stage = "check"
    /\ \/ Reply("failed")
       \/ IF FileValid(request) THEN Proceed("stat") ELSE Reply("fatal")

\* os.Stat and what follows from it, up to checkFileContent.
FileStat ==
    /\ stage = "stat"
    /\ LET empty == request.nonempty /\ world.at \in Files /\ world.text[world.at] = <<>>
       IN  \/ Reply("failed")
           \/ /\ world.at = NoFile
              /\ Reply(IF request.deleted THEN "satisfied" ELSE "unsatisfied")
           \/ /\ world.at # NoFile /\ (request.deleted \/ empty)
              /\ Reply("unsatisfied")
           \/ /\ world.at # NoFile /\ ~request.deleted /\ ~empty
              /\ IF ~request.contains THEN Reply("satisfied")
                 ELSE IF world.at = Directory THEN Reply("fatal") ELSE Proceed("open")

\* The context has ended or os.Open fails, or the file that is at the path now is open.
FileOpen ==
    /\ stage = "open"
    /\ \/ Reply("failed")
       \/ /\ world.at \in Files
          /\ hand' = [hand EXCEPT !.file = world.at]
          /\ stage' = "read"
          /\ UNCHANGED <<request, world, reply>>

\* Mutant of FileRead: the path is opened anew for every read.
FileReadReopened ==
    /\ stage = "read"
    /\ LET at == IF world.at \in Files THEN world.at ELSE hand.file
           text == world.text[at]  next == Len(hand.text) + 1
       IN  \/ Reply("failed")
           \/ /\ next <= Len(text) /\ next <= ReadLimit
              /\ hand' = [hand EXCEPT !.file = at, !.text = Append(@, text[next])]
              /\ UNCHANGED <<request, stage, world, reply>>
           \/ /\ next > Len(text) \/ next > ReadLimit
              /\ Reply(IF Contains(hand.text) THEN "satisfied" ELSE "unsatisfied")

\* readFileContentLimit reads on where it stopped; at the end or at the limit the
\* text is searched.
FileRead ==
    /\ stage = "read"
    /\ LET text == world.text[hand.file]  next == Len(hand.text) + 1
       IN  \/ Reply("failed")
           \/ /\ next <= Len(text) /\ next <= ReadLimit
              /\ hand' = [hand EXCEPT !.text = Append(@, text[next])]
              /\ UNCHANGED <<request, stage, world, reply>>
           \/ /\ next > Len(text) \/ next > ReadLimit
              /\ Reply(IF Contains(hand.text) THEN "satisfied" ELSE "unsatisfied")

FileCheckStep ==
    /\ Running("file")
    /\ FileStarts \/ FileStat \/ FileOpen \/ FileRead
    /\ FileObserve

FileParse ==
    \E o \in FileRequests, at \in Files \cup {NoFile, Directory}, text \in [Files -> {<<>>, WantedText}] :
        /\ Parse(o, FileAccepts(o), [at |-> at, text |-> text], EmptyFileHand)
        /\ FileObserve

FileNext == FileParse \/ FileCheckStep \/ FileWorld

FileSpec == FrameInit /\ [][FileNext]_frameVars

-----------------------------------------------------------------------------
\* What Check says of the file was so at some moment of the check, however it was
\* deleted, replaced and appended to meanwhile: the two looks at the path, and the
\* pieces of one read, do not add up to something that never was (FileCondition.Check).
\* Only a file truncated under the reader may show a mixture of its old and new text.
FileAnswerWitnessed ==
    request.backend = "file" /\ reply # "none" /\ ~hand.rewritten => ReplyWasRight
=============================================================================
