---------------------------- MODULE AnswerProofs ----------------------------
(***************************************************************************)
(* Proofs about FileCheck, HTTPCheck and DNSCheck, for any files, texts    *)
(* and limits, any responses, matchers and expressions, and any zones and  *)
(* options: whatever the check had put together when it replied was so at  *)
(* some moment of the check.  Each invariant says that what is the case    *)
(* now has been taken note of, and what the check has in hand was the case *)
(* at one moment.                                                          *)
(***************************************************************************)
EXTENDS FileCheck, HTTPCheck, DNSCheck, FiniteSetTheorems, SequenceTheorems, TLAPS

\* Is a condition of this backend being checked, or has it been?
Started(backend) == request.backend = backend /\ stage \notin {"typed", "refused"}

\* There is a reply only when the check is done.
FrameInv ==
    /\ reply # "none" => stage = "done"
    /\ stage \in {"typed", "refused"} => reply = "none"
    /\ held \in BOOLEAN /\ lacked \in BOOLEAN

-----------------------------------------------------------------------------
(* Files.                                                                  *)

FileTypes ==
    /\ request \in FileRequests
    /\ world \in [at : Files \cup {NoFile, Directory}, text : [Files -> Seq(Pieces)]]
    /\ hand \in [file : Files \cup {NoFile}, text : Seq(Pieces), rewritten : BOOLEAN]

Prefix(s, t) == Len(s) <= Len(t) /\ \A i \in 1..Len(s) : s[i] = t[i]

\* What has been read is the beginning of the file that is open, and if the path never
\* led to a file as wanted no more, then the open file contains the text.
ReadInv ==
    /\ hand.file \in Files
    /\ request.contains
    /\ ~hand.rewritten =>
         /\ Prefix(hand.text, world.text[hand.file])
         /\ Len(hand.text) <= ReadLimit
         /\ ~lacked => Contains(FirstPieces(world.text[hand.file]))

FileRun ==
    /\ FileTypes
    /\ FileHolds(request, world) \/ OpenFileHolds(hand, world) => held
    /\ ~FileHolds(request, world) => lacked
    /\ stage \in {"check", "stat", "open"} => hand = EmptyFileHand
    /\ stage = "open" => request.contains
    /\ stage = "read" => ReadInv
    /\ ~hand.rewritten => ReplyWasRight

FileInv == FrameInv /\ (Started("file") => FileRun)

-----------------------------------------------------------------------------
(* HTTP.                                                                   *)

HTTPTypes ==
    /\ request \in HTTPRequests
    /\ world \in [service : Responses, redirects : Nat]
    /\ hand \in [hops : Nat, response : Responses \cup {Redirection}]

ResponseMatches(o, r) == StatusMatches(o.status, r.code) /\ BodyMatches(o, r)

\* The response in hand was the service's answer at one moment.
HTTPRun ==
    /\ HTTPTypes
    /\ request.noRedirects => hand.hops = 0
    /\ HTTPHolds(request, world) => held
    /\ ~HTTPHolds(request, world) => lacked
    /\ stage = "read" => IF ResponseMatches(request, hand.response) THEN held ELSE lacked
    /\ ReplyWasRight

HTTPInv == FrameInv /\ (Started("http") => HTTPRun)

-----------------------------------------------------------------------------
(* DNS.                                                                    *)

DNSTypes ==
    /\ request \in DNSRequests
    /\ world \in Zones
    /\ hand = [families |-> hand.families, network |-> hand.network,
               values |-> hand.values, erred |-> hand.erred]

\* The part of DNSEvaluate that the system resolver can reach.
SystemRight(o, values) == IF o.absent THEN values = {} ELSE PresentValues(o, values)

\* One family: nothing is in hand, or an error, or what the zone held at one moment.
OneFamily ==
    /\ request.type # "ANY"
    /\ hand.families \subseteq {request.type} /\ hand.erred \subseteq {request.type}
    /\ hand.families # {} => hand.values = {} /\ hand.erred = {}
    /\ hand.erred # {} => hand.values = {}
    /\ hand.families = {} /\ hand.erred = {} =>
         IF SystemRight(request, hand.values) THEN held ELSE lacked

\* Both families: what each value alone says of the zone was so.
BothFamilies ==
    /\ request.type = "ANY"
    /\ hand.families \subseteq {"A", "AAAA"}
    /\ ~request.absent => \A v \in hand.values : PresentValues(request, {v}) => held

SystemInv ==
    /\ DNSValid(request) /\ request.resolver = "system"
    /\ IsFiniteSet(hand.values)
    /\ OneFamily \/ BothFamilies

\* DNSAnswerWitnessed, of a query that was made.
DNSReplyInv ==
    (request.type = "ANY" /\ request.resolver = "system" =>
        reply = "satisfied" /\ ~request.absent /\ Cardinality(hand.values) = 1) => ReplyWasRight

DNSRun ==
    /\ DNSTypes
    /\ DNSHolds(request, world) => held
    /\ ~DNSHolds(request, world) => lacked
    /\ stage \in {"check", "system", "wire", "done"}
    /\ stage = "wire" => request.resolver = "wire"
    /\ stage = "check" => hand = NoAnswer
    /\ stage = "system" => SystemInv
    /\ DNSReplyInv

DNSInv == FrameInv /\ (Started("dns") => DNSRun)

-----------------------------------------------------------------------------
(* What a prefix of a text says of the text.                               *)

\* A text contains what its beginning contains.
LEMMA PrefixContains ==
    ASSUME FileConfig, NEW s \in Seq(Pieces), NEW t \in Seq(Pieces), Prefix(s, t), Contains(s)
    PROVE  Contains(t)
<1> DEFINE n == Len(WantedText)
<1>1. WantedText \in Seq(Pieces) /\ n \in Nat /\ Len(s) \in Nat /\ Len(t) \in Nat
  BY DEF FileConfig
<1>2. PICK i \in 0..(Len(s) - n) : SubSeq(s, i + 1, i + n) = WantedText
  BY DEF Contains
<1>3. i \in 0..(Len(t) - n) /\ i + n <= Len(s) /\ i + 1 \in Int /\ i + n \in Int
  BY <1>1 DEF Prefix
<1>4. \A j \in i + 1..i + n : s[j] \in Pieces /\ t[j] \in Pieces /\ s[j] = t[j]
  BY <1>1, <1>3 DEF Prefix
<1>5. /\ SubSeq(t, i + 1, i + n) \in Seq(Pieces)
      /\ Len(SubSeq(t, i + 1, i + n)) = n
      /\ \A j \in 1..n : SubSeq(t, i + 1, i + n)[j] = t[i + j]
  BY <1>1, <1>3, <1>4, SubSeqProperties
<1>6. \A j \in 1..n : SubSeq(s, i + 1, i + n)[j] = s[i + j]
  BY <1>1, <1>3, <1>4, SubSeqProperties
<1>7. \A j \in 1..n : SubSeq(t, i + 1, i + n)[j] = WantedText[j]
  BY <1>1, <1>2, <1>3, <1>4, <1>5, <1>6
<1>8. SubSeq(t, i + 1, i + n) = WantedText
  BY <1>1, <1>5, <1>7, SeqEqual
<1> QED BY <1>3, <1>8 DEF Contains

\* readFileContentLimit returns the beginning of the file, up to its limit.
LEMMA FirstPiecesAre ==
    ASSUME FileConfig, NEW t \in Seq(Pieces)
    PROVE  /\ FirstPieces(t) \in Seq(Pieces)
           /\ Len(FirstPieces(t)) = IF Len(t) < ReadLimit THEN Len(t) ELSE ReadLimit
           /\ Prefix(FirstPieces(t), t)
<1> DEFINE n == IF Len(t) < ReadLimit THEN Len(t) ELSE ReadLimit
<1>1. n \in Nat /\ n <= Len(t) /\ \A i \in 1..n : t[i] \in Pieces
  BY DEF FileConfig
<1>2. FirstPieces(t) = SubSeq(t, 1, n)
  BY DEF FirstPieces
<1> HIDE DEF n
<1>3. /\ SubSeq(t, 1, n) \in Seq(Pieces)
      /\ Len(SubSeq(t, 1, n)) = IF 1 <= n THEN n - 1 + 1 ELSE 0
      /\ \A i \in 1..n - 1 + 1 : SubSeq(t, 1, n)[i] = t[1 + i - 1]
  BY <1>1, SubSeqProperties
<1>4. Len(SubSeq(t, 1, n)) = n /\ \A i \in 1..n : SubSeq(t, 1, n)[i] = t[i]
  BY <1>1, <1>3
<1> QED BY <1>1, <1>2, <1>3, <1>4 DEF n, Prefix

\* What a reader finds in a file stays there when the file grows.
LEMMA GrowingContains ==
    ASSUME FileConfig, NEW t \in Seq(Pieces), NEW p \in Pieces, Contains(FirstPieces(t))
    PROVE  Contains(FirstPieces(Append(t, p)))
<1> DEFINE u == Append(t, p)
<1>1. u \in Seq(Pieces) /\ Len(u) = Len(t) + 1 /\ \A i \in 1..Len(t) : u[i] = t[i]
  BY AppendProperties
<1>2. Len(t) \in Nat /\ ReadLimit \in Nat
  BY DEF FileConfig
<1> HIDE DEF u
<1>3. /\ FirstPieces(t) \in Seq(Pieces)
      /\ Len(FirstPieces(t)) = IF Len(t) < ReadLimit THEN Len(t) ELSE ReadLimit
      /\ Prefix(FirstPieces(t), t)
  BY FirstPiecesAre
<1>4. /\ FirstPieces(u) \in Seq(Pieces)
      /\ Len(FirstPieces(u)) = IF Len(u) < ReadLimit THEN Len(u) ELSE ReadLimit
      /\ Prefix(FirstPieces(u), u)
  BY <1>1, FirstPiecesAre
<1>5. Len(FirstPieces(t)) <= Len(FirstPieces(u)) /\ Len(FirstPieces(t)) <= Len(t)
  BY <1>1, <1>2, <1>3, <1>4
<1>6. \A i \in 1..Len(FirstPieces(t)) : FirstPieces(t)[i] = FirstPieces(u)[i]
  BY <1>1, <1>2, <1>3, <1>4, <1>5 DEF Prefix
<1>7. Prefix(FirstPieces(t), FirstPieces(u))
  BY <1>5, <1>6 DEF Prefix
<1> QED BY <1>3, <1>4, <1>7, PrefixContains DEF u

\* A read that is at its end has the beginning of the file, up to the limit.
LEMMA ReadToTheEnd ==
    ASSUME FileConfig, NEW s \in Seq(Pieces), NEW t \in Seq(Pieces),
           Prefix(s, t), Len(s) <= ReadLimit, Len(s) >= Len(t) \/ Len(s) >= ReadLimit
    PROVE  s = FirstPieces(t)
<1>1. Len(s) \in Nat /\ Len(t) \in Nat /\ ReadLimit \in Nat
  BY DEF FileConfig
<1>2. /\ FirstPieces(t) \in Seq(Pieces)
      /\ Len(FirstPieces(t)) = IF Len(t) < ReadLimit THEN Len(t) ELSE ReadLimit
      /\ Prefix(FirstPieces(t), t)
  BY FirstPiecesAre
<1>3. Len(s) <= Len(t)
  BY DEF Prefix
<1>4. Len(s) = Len(FirstPieces(t))
  BY <1>1, <1>2, <1>3
<1>5. \A i \in 1..Len(s) : s[i] = FirstPieces(t)[i]
  BY <1>1, <1>2, <1>3, <1>4 DEF Prefix
<1> QED BY <1>2, <1>4, <1>5, SeqEqual

-----------------------------------------------------------------------------
(* FileCondition.Check.                                                    *)

\* Nothing was asked yet.
LEMMA FrameStarts == FrameInit => FrameInv /\ \A b \in {"file", "http", "dns"} : ~Started(b)
  BY DEF FrameInit, FrameInv, Started, Nothing

\* The command line refuses the options, or the check of a file that is as it is begins.
LEMMA FileParsed == FileInv /\ FileParse => FileInv'
<1> SUFFICES ASSUME FileInv, FileParse PROVE FileInv'
  OBVIOUS
<1> USE FileConfig
<1>1. PICK o \in FileRequests, at \in Files \cup {NoFile, Directory},
           text \in [Files -> {<<>>, WantedText}] :
        Parse(o, FileAccepts(o), [at |-> at, text |-> text], EmptyFileHand) /\ FileObserve
  BY DEF FileParse
<1>2. reply = "none" /\ reply' = "none" /\ stage' \in {"check", "refused"} /\ request' = o
  BY <1>1 DEF Parse, FileInv, FrameInv
<1>3. FrameInv'
  BY <1>1, <1>2 DEF FileInv, FrameInv, FileObserve
<1>4. CASE stage' = "refused"
  BY <1>3, <1>4 DEF FileInv, Started
<1>5. CASE stage' = "check"
  <2>1. world' = [at |-> at, text |-> text] /\ hand' = EmptyFileHand
    BY <1>1, <1>5 DEF Parse
  <2>2. text \in [Files -> Seq(Pieces)]
    <3>1. \A f \in Files : text[f] \in Seq(Pieces)
      BY EmptySeq DEF FileConfig
    <3> QED BY <3>1
  <2>3. FileTypes'
    BY <1>2, <2>1, <2>2 DEF FileTypes, EmptyFileHand
  <2>4. /\ FileHolds(request', world') \/ OpenFileHolds(hand', world') => held'
        /\ ~FileHolds(request', world') => lacked'
    BY <1>1, <1>5 DEF FileObserve
  <2>5. FileRun'
    BY <1>2, <1>5, <2>1, <2>3, <2>4 DEF FileRun, ReplyWasRight, EmptyFileHand
  <2> QED BY <1>3, <2>5 DEF FileInv
<1> QED BY <1>2, <1>4, <1>5

\* A reply is right if what it says was so before, or is so now.
LEMMA FileReplies ==
    ASSUME FileInv, Running("file"), FileObserve, NEW r, Reply(r),
           r = "satisfied" /\ ~hand.rewritten =>
               held \/ FileHolds(request, world) \/ OpenFileHolds(hand, world),
           r = "unsatisfied" /\ ~hand.rewritten => lacked \/ ~FileHolds(request, world)
    PROVE  FileInv'
<1>1. /\ stage' = "done" /\ reply' = r
      /\ request' = request /\ world' = world /\ hand' = hand
  BY DEF Reply
<1>2. /\ held' = (held \/ FileHolds(request, world) \/ OpenFileHolds(hand, world))
      /\ lacked' = (lacked \/ ~FileHolds(request, world))
  BY <1>1 DEF FileObserve
<1>3. FileRun
  BY DEF FileInv, Running, Started
<1>4. FrameInv'
  BY <1>1, <1>2 DEF FileInv, FrameInv
<1>5. FileTypes'
  BY <1>1, <1>3 DEF FileRun, FileTypes
<1>6. /\ FileHolds(request', world') \/ OpenFileHolds(hand', world') => held'
      /\ ~FileHolds(request', world') => lacked'
  BY <1>1, <1>2
<1>7. (~hand.rewritten => ReplyWasRight)'
  BY <1>1, <1>2 DEF ReplyWasRight
<1>8. FileRun'
  BY <1>1, <1>5, <1>6, <1>7 DEF FileRun
<1> QED BY <1>4, <1>8 DEF FileInv

\* The next step of Check may only be the opening of the file if a text is looked for.
LEMMA FileProceeds ==
    ASSUME FileInv, Running("file"), FileObserve, NEW next \in {"stat", "open"}, Proceed(next),
           stage \in {"check", "stat"}, next = "open" => request.contains
    PROVE  FileInv'
<1>1. /\ stage' = next /\ reply' = reply
      /\ request' = request /\ world' = world /\ hand' = hand
  BY DEF Proceed
<1>2. /\ FileHolds(request', world') \/ OpenFileHolds(hand', world') => held'
      /\ ~FileHolds(request', world') => lacked'
      /\ held' \in BOOLEAN /\ lacked' \in BOOLEAN
  BY <1>1 DEF FileObserve
<1>3. FileRun /\ reply = "none"
  BY DEF FileInv, FrameInv, Running, Started
<1>4. FrameInv'
  BY <1>1, <1>2, <1>3 DEF FrameInv
<1>5. FileTypes'
  BY <1>1, <1>3 DEF FileRun, FileTypes
<1>6. FileRun'
  BY <1>1, <1>2, <1>3, <1>5 DEF FileRun, ReplyWasRight
<1> QED BY <1>4, <1>6 DEF FileInv

\* os.Stat tells what is at the path at this moment.
LEMMA FileStats == FileInv /\ Running("file") /\ FileStat /\ FileObserve => FileInv'
<1> SUFFICES ASSUME FileInv, Running("file"), FileStat, FileObserve PROVE FileInv'
  OBVIOUS
<1> USE FileConfig
<1>1. FileTypes
  BY DEF FileInv, FileRun, Running, Started
<1>2. world.at \in Files \cup {NoFile, Directory} /\ NoFile \notin Files /\ Directory \notin Files
      /\ NoFile # Directory
  BY <1>1 DEF FileTypes, FileConfig, NoFile, Directory
<1> DEFINE empty == request.nonempty /\ world.at \in Files /\ world.text[world.at] = <<>>
<1>3. CASE Reply("failed")
  BY <1>3, FileReplies
<1>4. CASE world.at = NoFile /\ Reply(IF request.deleted THEN "satisfied" ELSE "unsatisfied")
  <2>1. IF request.deleted THEN FileHolds(request, world) ELSE ~FileHolds(request, world)
    BY <1>4 DEF FileHolds
  <2> QED BY <1>4, <2>1, FileReplies
<1>5. CASE world.at # NoFile /\ (request.deleted \/ empty) /\ Reply("unsatisfied")
  <2>1. ~FileHolds(request, world)
    BY <1>5 DEF FileHolds
  <2> QED BY <1>5, <2>1, FileReplies
<1>6. CASE /\ world.at # NoFile /\ ~request.deleted /\ ~empty
           /\ IF ~request.contains THEN Reply("satisfied")
              ELSE IF world.at = Directory THEN Reply("fatal") ELSE Proceed("open")
  <2>1. CASE ~request.contains
    <3>1. FileHolds(request, world) /\ Reply("satisfied")
      BY <1>6, <2>1 DEF FileHolds
    <3> QED BY <3>1, FileReplies
  <2>2. CASE request.contains /\ world.at = Directory
    BY <1>6, <2>2, FileReplies
  <2>3. CASE request.contains /\ world.at # Directory
    BY <1>6, <2>3, FileProceeds DEF FileStat
  <2> QED BY <2>1, <2>2, <2>3
<1> QED BY <1>3, <1>4, <1>5, <1>6 DEF FileStat

\* The file that is at the path is open; if the path never led to a file as wanted no
\* more, this file contains the text.
LEMMA FileOpens == FileInv /\ Running("file") /\ FileOpen /\ FileObserve => FileInv'
<1> SUFFICES ASSUME FileInv, Running("file"), FileOpen, FileObserve PROVE FileInv'
  OBVIOUS
<1>1. FileRun /\ reply = "none"
  BY DEF FileInv, FrameInv, Running, Started
<1>2. CASE Reply("failed")
  BY <1>2, FileReplies
<1>3. CASE /\ world.at \in Files /\ stage' = "read"
           /\ hand' = [hand EXCEPT !.file = world.at] /\ UNCHANGED <<request, world, reply>>
  <2>1. /\ request' = request /\ world' = world /\ reply' = "none" /\ stage' = "read"
        /\ hand' = [file |-> world.at, text |-> <<>>, rewritten |-> FALSE]
    <3>1. hand = [file |-> NoFile, text |-> <<>>, rewritten |-> FALSE]
      BY <1>1 DEF FileOpen, FileRun, EmptyFileHand
    <3>2. hand' = [file |-> world.at, text |-> <<>>, rewritten |-> FALSE]
      BY <1>3, <3>1
    <3> QED BY <1>1, <1>3, <3>2
  <2>2. /\ FileHolds(request', world') \/ OpenFileHolds(hand', world') => held'
        /\ ~FileHolds(request', world') => lacked'
        /\ held' \in BOOLEAN /\ lacked' \in BOOLEAN
    BY <2>1 DEF FileObserve
  <2>3. FrameInv'
    BY <2>1, <2>2 DEF FrameInv
  <2>4. FileTypes'
    BY <1>1, <1>3, <2>1, EmptySeq DEF FileRun, FileTypes
  <2>5. world.text[world.at] \in Seq(Pieces) /\ request.contains
    BY <1>1, <1>3 DEF FileRun, FileTypes, FileOpen
  <2>6. Prefix(<<>>, world.text[world.at]) /\ Len(<<>>) <= ReadLimit
    BY <2>5, FileConfig DEF Prefix, FileConfig
  <2>7. FileHolds(request, world) => Contains(FirstPieces(world.text[world.at]))
    BY <1>3, <2>5, FileConfig DEF FileHolds, FileConfig, NoFile
  <2>8. ReadInv'
    BY <1>3, <2>1, <2>2, <2>5, <2>6, <2>7 DEF ReadInv
  <2>9. FileRun'
    BY <2>1, <2>2, <2>4, <2>8 DEF FileRun, ReplyWasRight
  <2> QED BY <2>3, <2>9 DEF FileInv
<1> QED BY <1>2, <1>3 DEF FileOpen

\* One read more finds the next piece of the open file, or its end and the answer.
LEMMA FileReads == FileInv /\ Running("file") /\ FileRead /\ FileObserve => FileInv'
<1> SUFFICES ASSUME FileInv, Running("file"), FileRead, FileObserve PROVE FileInv'
  OBVIOUS
<1> USE FileConfig
<1> DEFINE text == world.text[hand.file]  next == Len(hand.text) + 1
<1>1. FileRun /\ reply = "none" /\ FileTypes /\ ReadInv
  BY DEF FileInv, FrameInv, Running, Started, FileRun, FileRead
<1>2. text \in Seq(Pieces) /\ hand.text \in Seq(Pieces) /\ hand.file \in Files
      /\ Len(text) \in Nat /\ Len(hand.text) \in Nat /\ ReadLimit \in Nat
  BY <1>1 DEF FileTypes, ReadInv, FileConfig
<1>3. CASE Reply("failed")
  BY <1>3, FileReplies
<1>4. CASE /\ next <= Len(text) /\ next <= ReadLimit
           /\ hand' = [hand EXCEPT !.text = Append(@, text[next])]
           /\ UNCHANGED <<request, stage, world, reply>>
  <2> DEFINE more == Append(hand.text, text[next])
  <2>1. /\ request' = request /\ world' = world /\ reply' = "none" /\ stage' = stage
        /\ stage = "read"
    BY <1>1, <1>4 DEF FileRead
  <2>2. hand' = [file |-> hand.file, text |-> more, rewritten |-> hand.rewritten]
    BY <1>1, <1>4 DEF FileTypes
  <2>3. /\ more \in Seq(Pieces) /\ Len(more) = next
        /\ \A i \in 1..Len(hand.text) : more[i] = hand.text[i]
        /\ more[next] = text[next]
    <3>1. text[next] \in Pieces
      BY <1>2, <1>4
    <3> QED BY <1>2, <3>1, AppendProperties
  <2> HIDE DEF more
  <2>4. FileTypes'
    BY <1>1, <2>1, <2>2, <2>3 DEF FileTypes
  <2>5. OpenFileHolds(hand', world') <=> OpenFileHolds(hand, world)
    BY <2>1, <2>2 DEF OpenFileHolds
  <2>6. /\ FileHolds(request', world') \/ OpenFileHolds(hand', world') => held'
        /\ ~FileHolds(request', world') => lacked'
        /\ held' \in BOOLEAN /\ lacked' \in BOOLEAN /\ (lacked => lacked')
    BY <1>1, <2>1, <2>5 DEF FileObserve, FileRun
  <2>7. ~hand.rewritten => Prefix(more, text) /\ Len(more) <= ReadLimit
    <3>1. SUFFICES ASSUME ~hand.rewritten PROVE Prefix(more, text)
      BY <1>4, <2>3
    <3>2. Prefix(hand.text, text)
      BY <1>1, <3>1 DEF ReadInv
    <3>3. \A i \in 1..next : more[i] = text[i]
      BY <1>2, <2>3, <3>2 DEF Prefix
    <3> QED BY <1>4, <2>3, <3>3 DEF Prefix
  <2>8. ReadInv'
    BY <1>1, <1>2, <2>1, <2>2, <2>6, <2>7 DEF ReadInv
  <2>9. FileRun'
    BY <2>1, <2>4, <2>6, <2>8 DEF FileRun, ReplyWasRight
  <2>10. FrameInv'
    BY <2>1, <2>6 DEF FrameInv
  <2> QED BY <2>9, <2>10 DEF FileInv
<1>5. CASE /\ next > Len(text) \/ next > ReadLimit
           /\ Reply(IF Contains(hand.text) THEN "satisfied" ELSE "unsatisfied")
  <2>1. ~hand.rewritten => hand.text = FirstPieces(text)
    <3>1. SUFFICES ASSUME ~hand.rewritten PROVE hand.text = FirstPieces(text)
      OBVIOUS
    <3>2. Prefix(hand.text, text) /\ Len(hand.text) <= ReadLimit
      BY <1>1, <3>1 DEF ReadInv
    <3>3. Len(hand.text) >= Len(text) \/ Len(hand.text) >= ReadLimit
      BY <1>2, <1>5
    <3> QED BY <1>2, <3>2, <3>3, ReadToTheEnd
  <2>2. Contains(hand.text) /\ ~hand.rewritten => OpenFileHolds(hand, world)
    BY <1>2, <2>1 DEF OpenFileHolds, FileConfig, NoFile
  <2>3. ~Contains(hand.text) /\ ~hand.rewritten => lacked
    BY <1>1, <2>1 DEF ReadInv
  <2> QED BY <1>5, <2>2, <2>3, FileReplies
<1> QED BY <1>3, <1>4, <1>5 DEF FileRead

\* A step of the check keeps the invariant.
LEMMA FileChecked == FileInv /\ FileCheckStep => FileInv'
<1> SUFFICES ASSUME FileInv, FileCheckStep PROVE FileInv'
  OBVIOUS
<1>1. Running("file") /\ FileObserve
  BY DEF FileCheckStep
<1>2. CASE FileStarts
  <2>1. stage = "check" /\ (Reply("failed") \/ Reply("fatal") \/ Proceed("stat"))
    BY <1>2 DEF FileStarts
  <2> QED BY <1>1, <2>1, FileReplies, FileProceeds
<1> QED BY <1>1, <1>2, FileStats, FileOpens, FileReads DEF FileCheckStep

\* What others do to the files is taken note of, and a file that grows keeps what was
\* read of it.
LEMMA FileTurns == FileInv /\ FileWorld => FileInv'
<1> SUFFICES ASSUME FileInv, FileWorld PROVE FileInv'
  OBVIOUS
<1> USE FileConfig
<1>1. FileRun /\ reply = "none" /\ FileTypes /\ stage # "refused" /\ FileObserve
  BY DEF FileInv, FrameInv, Running, Started, FileRun, FileWorld
<1>2. /\ request' = request /\ stage' = stage /\ reply' = reply
      /\ lacked => lacked'
      /\ held' \in BOOLEAN /\ lacked' \in BOOLEAN
      /\ FileHolds(request', world') \/ OpenFileHolds(hand', world') => held'
      /\ ~FileHolds(request', world') => lacked'
  <2>1. request' = request /\ stage' = stage /\ reply' = reply
    BY DEF FileWorld, Truncate, AppendPiece, Rename, Turns
  <2> QED BY <1>1, <2>1 DEF FileObserve
<1>3. ASSUME FileTypes', stage \in {"check", "stat", "open"} => hand' = hand,
             stage = "read" => ReadInv'
      PROVE  FileInv'
  <2>1. FrameInv'
    BY <1>1, <1>2 DEF FrameInv
  <2>2. FileRun'
    BY <1>1, <1>2, <1>3 DEF FileRun, ReplyWasRight
  <2> QED BY <2>1, <2>2 DEF FileInv
<1>4. CASE \E to \in Files \cup {NoFile, Directory} : Rename(to)
  <2>1. PICK to \in Files \cup {NoFile, Directory} :
          hand' = hand /\ world' = [world EXCEPT !.at = to]
    BY <1>4 DEF Rename, Turns
  <2>2. world' = [at |-> to, text |-> world.text]
    BY <1>1, <2>1 DEF FileTypes
  <2>3. FileTypes'
    BY <1>1, <1>2, <2>1, <2>2 DEF FileTypes
  <2>4. stage = "read" => ReadInv'
    BY <1>1, <1>2, <2>1, <2>2 DEF FileRun, ReadInv
  <2> QED BY <1>3, <2>1, <2>3, <2>4
<1>5. ASSUME NEW f \in Files, Truncate(f)
      PROVE  FileInv'
  <2>1. /\ world' = [at |-> world.at, text |-> [world.text EXCEPT ![f] = <<>>]]
        /\ hand' = [file |-> hand.file, text |-> hand.text,
                    rewritten |-> hand.rewritten \/ hand.file = f]
    BY <1>1, <1>5 DEF FileTypes, Truncate
  <2>2. FileTypes'
    <3>1. [world.text EXCEPT ![f] = <<>>] \in [Files -> Seq(Pieces)]
      BY <1>1, EmptySeq DEF FileTypes
    <3> QED BY <1>1, <1>2, <2>1, <3>1 DEF FileTypes
  <2>3. stage \in {"check", "stat", "open"} => hand' = hand
    <3>1. NoFile # f
      BY DEF FileConfig, NoFile
    <3>2. SUFFICES ASSUME hand = EmptyFileHand PROVE hand' = hand
      BY <1>1 DEF FileRun
    <3>3. hand.rewritten = FALSE /\ hand.file = NoFile
      BY <3>2 DEF EmptyFileHand
    <3>4. (hand.rewritten \/ hand.file = f) = FALSE
      BY <3>1, <3>3
    <3> QED BY <2>1, <3>2, <3>3, <3>4 DEF EmptyFileHand
  <2>4. stage = "read" => ReadInv'
    <3>1. ASSUME stage = "read", ~hand'.rewritten
          PROVE  world'.text[hand.file] = world.text[hand.file]
      <4>1. hand.file # f /\ world'.text = [world.text EXCEPT ![f] = <<>>]
        BY <2>1, <3>1
      <4>2. hand.file \in Files /\ world.text \in [Files -> Seq(Pieces)]
        BY <1>1, <3>1 DEF FileTypes, FileRun, ReadInv
      <4> QED BY <4>1, <4>2
    <3> QED BY <1>1, <1>2, <2>1, <3>1 DEF FileRun, ReadInv
  <2> QED BY <1>3, <2>2, <2>3, <2>4
<1>6. ASSUME NEW f \in Files, NEW p \in Pieces, AppendPiece(f, p)
      PROVE  FileInv'
  <2> DEFINE more == Append(world.text[f], p)
  <2>1. /\ hand' = hand
        /\ world' = [at |-> world.at, text |-> [world.text EXCEPT ![f] = more]]
    BY <1>1, <1>6 DEF FileTypes, AppendPiece, Turns
  <2>2. /\ world.text[f] \in Seq(Pieces) /\ more \in Seq(Pieces)
        /\ Len(more) = Len(world.text[f]) + 1
        /\ \A i \in 1..Len(world.text[f]) : more[i] = world.text[f][i]
    BY <1>1, AppendProperties DEF FileTypes
  <2>3. Contains(FirstPieces(world.text[f])) => Contains(FirstPieces(more))
    BY <2>2, GrowingContains
  <2> HIDE DEF more
  <2>4. FileTypes'
    BY <1>1, <1>2, <2>1, <2>2 DEF FileTypes
  <2>5. ASSUME stage = "read" PROVE ReadInv'
    <3>1. ReadInv /\ hand.file \in Files
      BY <1>1, <2>5 DEF FileRun, ReadInv
    <3>2. CASE hand.file # f
      BY <1>1, <1>2, <2>1, <3>1, <3>2 DEF ReadInv, FileTypes
    <3>3. CASE hand.file = f
      <4>1. world'.text[hand'.file] = more
        BY <1>1, <2>1, <3>3 DEF FileTypes
      <4>2. Prefix(hand.text, world.text[f]) => Prefix(hand.text, more)
        <5>1. Len(hand.text) \in Nat /\ Len(world.text[f]) \in Nat
          BY <1>1, <2>2 DEF FileTypes
        <5> QED BY <2>2, <5>1 DEF Prefix
      <4> QED BY <1>2, <2>1, <2>3, <3>1, <3>3, <4>1, <4>2 DEF ReadInv
    <3> QED BY <3>2, <3>3
  <2> QED BY <1>3, <2>1, <2>4, <2>5
<1> QED BY <1>4, <1>5, <1>6 DEF FileWorld

\* FileInv is an invariant of the check of any file.
THEOREM FileInvariant == FileSpec => []FileInv
<1>1. FrameInit => FileInv
  BY FrameStarts DEF FileInv
<1>2. FileInv /\ [FileNext]_frameVars => FileInv'
  <2>1. FileInv /\ UNCHANGED frameVars => FileInv'
    BY DEF frameVars, FileInv, FrameInv, Started, FileRun, FileTypes, ReadInv, ReplyWasRight
  <2> QED BY <2>1, FileParsed, FileChecked, FileTurns DEF FileNext
<1> QED BY <1>1, <1>2, PTL DEF FileSpec

\* The invariant says that the reply was right.
LEMMA FileInvTells == FileInv => FileAnswerWitnessed
<1>1. FileInv /\ reply # "none" => stage \notin {"typed", "refused"}
  BY DEF FileInv, FrameInv
<1> QED BY <1>1 DEF FileInv, FileRun, FileAnswerWitnessed, Started

\* What Check says of a file was so at some moment of the check, whatever others do to
\* the file and to its path meanwhile, unless they truncate it under the reader.
THEOREM FileAnswerRight == FileSpec => []FileAnswerWitnessed
  BY FileInvTells, FileInvariant, PTL

-----------------------------------------------------------------------------
(* HTTPCondition.Check.                                                    *)

\* The command line refuses the options, or the check of some service begins.
LEMMA HTTPParsed == HTTPInv /\ HTTPParse => HTTPInv'
<1> SUFFICES ASSUME HTTPInv, HTTPParse PROVE HTTPInv'
  OBVIOUS
<1>1. PICK o \in HTTPRequests, r \in Responses, n \in 0..(MaxRedirects + 1) :
        Parse(o, HTTPAccepts(o), [service |-> r, redirects |-> n], NoResponse) /\ HTTPObserve
  BY DEF HTTPParse
<1>2. reply = "none" /\ reply' = "none" /\ stage' \in {"check", "refused"} /\ request' = o
  BY <1>1 DEF Parse, HTTPInv, FrameInv
<1>3. FrameInv'
  BY <1>1, <1>2 DEF HTTPInv, FrameInv, HTTPObserve, Observe
<1>4. CASE stage' = "refused"
  BY <1>3, <1>4 DEF HTTPInv, Started
<1>5. CASE stage' = "check"
  <2>1. /\ world' = [service |-> r, redirects |-> n]
        /\ hand' = [hops |-> 0, response |-> Redirection]
    BY <1>1, <1>5 DEF Parse, NoResponse
  <2>2. HTTPTypes'
    BY <1>2, <2>1 DEF HTTPTypes
  <2>3. /\ HTTPHolds(request', world') => held'
        /\ ~HTTPHolds(request', world') => lacked'
    BY <1>1, <1>5 DEF HTTPObserve, Observe
  <2>4. HTTPRun'
    BY <1>2, <1>5, <2>1, <2>2, <2>3 DEF HTTPRun, ReplyWasRight
  <2> QED BY <1>3, <2>4 DEF HTTPInv
<1> QED BY <1>2, <1>4, <1>5

\* Any step or turn of the world leaves the invariant true if its parts about the
\* response in hand and the reply are.
LEMMA HTTPKept ==
    ASSUME HTTPInv, Running("http"), HTTPObserve, request' = request,
           stage' \notin {"typed", "refused"}, HTTPTypes', reply' # "none" => stage' = "done",
           request.noRedirects => hand'.hops = 0,
           stage' = "read" => IF ResponseMatches(request, hand'.response) THEN held' ELSE lacked',
           reply' = "satisfied" => held', reply' = "unsatisfied" => lacked'
    PROVE  HTTPInv'
<1>1. /\ HTTPHolds(request', world') => held'
      /\ ~HTTPHolds(request', world') => lacked'
      /\ held' \in BOOLEAN /\ lacked' \in BOOLEAN
  BY DEF HTTPObserve, Observe
<1>2. FrameInv'
  BY <1>1 DEF FrameInv
<1>3. HTTPRun'
  BY <1>1 DEF HTTPRun, ReplyWasRight
<1> QED BY <1>2, <1>3 DEF HTTPInv

\* The client follows the redirects, and the answer that it gets is the service's own.
LEMMA HTTPSends == HTTPInv /\ Running("http") /\ HTTPSend /\ HTTPObserve => HTTPInv'
<1> SUFFICES ASSUME HTTPInv, Running("http"), HTTPSend, HTTPObserve PROVE HTTPInv'
  OBVIOUS
<1>1. HTTPRun /\ HTTPTypes /\ reply = "none" /\ stage = "send"
  BY DEF HTTPInv, FrameInv, Running, Started, HTTPRun, HTTPSend
<1>2. CASE Reply("failed")
  BY <1>1, <1>2, HTTPKept DEF Reply, HTTPTypes, HTTPRun
<1>3. CASE /\ hand.hops < world.redirects /\ ~request.noRedirects
           /\ hand' = [hand EXCEPT !.hops = @ + 1] /\ UNCHANGED <<request, stage, world, reply>>
  <2>1. hand' = [hops |-> hand.hops + 1, response |-> hand.response]
    BY <1>1, <1>3 DEF HTTPTypes
  <2>2. HTTPTypes'
    BY <1>1, <1>3, <2>1 DEF HTTPTypes
  <2> QED BY <1>1, <1>3, <2>1, <2>2, HTTPKept
<1>4. CASE /\ hand.hops >= world.redirects \/ request.noRedirects
           /\ hand' = [hand EXCEPT !.response =
                           IF hand.hops < world.redirects THEN Redirection ELSE world.service]
           /\ stage' = "read" /\ UNCHANGED <<request, world, reply>>
  <2> DEFINE answer == IF hand.hops < world.redirects THEN Redirection ELSE world.service
  <2>1. hand' = [hops |-> hand.hops, response |-> answer]
    BY <1>1, <1>4 DEF HTTPTypes
  <2>2. HTTPTypes'
    BY <1>1, <1>4, <2>1 DEF HTTPTypes
  <2>3. answer = IF request.noRedirects /\ world.redirects > 0 THEN Redirection ELSE world.service
    <3>1. hand.hops \in Nat /\ world.redirects \in Nat /\ (request.noRedirects => hand.hops = 0)
      BY <1>1 DEF HTTPTypes, HTTPRun
    <3> QED BY <1>4, <3>1
  <2> HIDE DEF answer
  <2>4. ResponseMatches(request, answer) <=> HTTPHolds(request, world)
    BY <2>3 DEF ResponseMatches, HTTPHolds
  <2>5. IF HTTPHolds(request, world) THEN held' ELSE lacked'
    <3>1. request' = request /\ world' = world /\ stage' # "refused"
      BY <1>4
    <3> QED BY <3>1 DEF HTTPObserve, Observe
  <2>6. IF ResponseMatches(request, hand'.response) THEN held' ELSE lacked'
    <3>1. hand'.response = answer
      BY <2>1
    <3> QED BY <2>4, <2>5, <3>1
  <2> QED BY <1>1, <1>4, <2>1, <2>2, <2>6, HTTPKept DEF HTTPRun
<1> QED BY <1>2, <1>3, <1>4 DEF HTTPSend

\* A step of the check keeps the invariant: what is compared is the response in hand.
LEMMA HTTPChecked == HTTPInv /\ HTTPCheckStep => HTTPInv'
<1> SUFFICES ASSUME HTTPInv, HTTPCheckStep PROVE HTTPInv'
  OBVIOUS
<1>1. Running("http") /\ HTTPObserve /\ HTTPRun /\ HTTPTypes /\ reply = "none"
  BY DEF HTTPInv, FrameInv, Running, Started, HTTPRun, HTTPCheckStep
<1>2. CASE HTTPStarts
  BY <1>1, <1>2, HTTPKept DEF HTTPStarts, Reply, Proceed, HTTPTypes, HTTPRun
<1>3. CASE HTTPRead
  <2>1. (held => held') /\ (lacked => lacked')
    BY <1>1 DEF HTTPObserve, Observe
  <2>2. PICK r \in {"failed", "satisfied", "unsatisfied"} :
           Reply(r) /\ (r = "satisfied" => held) /\ (r = "unsatisfied" => lacked)
    BY <1>1, <1>3 DEF HTTPRead, HTTPRun, ResponseMatches
  <2> QED BY <1>1, <2>1, <2>2, HTTPKept DEF Reply, HTTPTypes, HTTPRun
<1> QED BY <1>1, <1>2, <1>3, HTTPSends DEF HTTPCheckStep

\* What the service turns into is taken note of.
LEMMA HTTPTurns == HTTPInv /\ HTTPWorld => HTTPInv'
<1> SUFFICES ASSUME HTTPInv, HTTPWorld PROVE HTTPInv'
  OBVIOUS
<1>1. Running("http") /\ HTTPObserve /\ HTTPRun /\ HTTPTypes /\ reply = "none"
  BY DEF HTTPInv, FrameInv, Running, Started, HTTPRun, HTTPWorld
<1>2. /\ request' = request /\ stage' = stage /\ hand' = hand /\ reply' = reply
      /\ world' \in [service : Responses, redirects : Nat]
  BY <1>1, HTTPConfig DEF HTTPWorld, Turns, HTTPTypes, HTTPConfig
<1>3. (held => held') /\ (lacked => lacked')
  BY <1>1 DEF HTTPObserve, Observe
<1> QED BY <1>1, <1>2, <1>3, HTTPKept DEF HTTPTypes, HTTPRun, Running

\* HTTPInv is an invariant of the check of any service.
THEOREM HTTPInvariant == HTTPSpec => []HTTPInv
<1>1. FrameInit => HTTPInv
  BY FrameStarts DEF HTTPInv
<1>2. HTTPInv /\ [HTTPNext]_frameVars => HTTPInv'
  <2>1. HTTPInv /\ UNCHANGED frameVars => HTTPInv'
    BY DEF frameVars, HTTPInv, FrameInv, Started, HTTPRun, HTTPTypes, ReplyWasRight
  <2> QED BY <2>1, HTTPParsed, HTTPChecked, HTTPTurns DEF HTTPNext
<1> QED BY <1>1, <1>2, PTL DEF HTTPSpec

\* The invariant says that the reply was right.
LEMMA HTTPInvTells == HTTPInv => HTTPAnswerWitnessed
  BY DEF HTTPInv, FrameInv, HTTPRun, HTTPAnswerWitnessed, Started, ReplyWasRight

\* Status and body are those of one response that the service gave during the check,
\* however it is redeployed or moved behind redirects meanwhile.
THEOREM HTTPAnswerRight == HTTPSpec => []HTTPAnswerWitnessed
  BY HTTPInvTells, HTTPInvariant, PTL

\* A literal that parses as a number parses as one of the numbers, or as nan.
LEMMA LiteralNumber ==
    ASSUME JSONConfig, NEW raw, ParseLiteral(raw).kind = "number"
    PROVE  ParseLiteral(raw) = Number(ParseLiteral(raw).is) /\ ParseLiteral(raw).is \in Int \cup {NaN}
<1>1. raw \notin {"true", "false", "null"} /\ raw \in DOMAIN NumberOf
  BY DEF ParseLiteral, Truth, Null, Text
<1>2. ParseLiteral(raw) = Number(NumberOf[raw])
  BY <1>1 DEF ParseLiteral
<1> QED BY <1>1, <1>2 DEF JSONConfig, Number

\* compareFloat64 on two numbers.
LEMMA NumbersAgree ==
    ASSUME JSONConfig, NEW a \in Int, NEW b \in Int
    PROVE  /\ CompareNumbers(a, b, "==") = IF a = b THEN "yes" ELSE "no"
           /\ CompareNumbers(a, b, "!=") = IF a # b THEN "yes" ELSE "no"
           /\ CompareNumbers(a, b, ">=") = IF a >= b THEN "yes" ELSE "no"
           /\ CompareNumbers(a, b, "<=") = IF a <= b THEN "yes" ELSE "no"
           /\ CompareNumbers(a, b, ">") = IF a > b THEN "yes" ELSE "no"
           /\ CompareNumbers(a, b, "<") = IF a < b THEN "yes" ELSE "no"
  BY DEF CompareNumbers, CompareEqual, Verdict, JSONConfig

\* compareFloat64 on a number and nan.
LEMMA NaNDiffers ==
    ASSUME NEW a
    PROVE  /\ CompareNumbers(a, NaN, "!=") = "yes"
           /\ \A op \in {"==", ">=", "<=", ">", "<"} : CompareNumbers(a, NaN, op) = "no"
  BY DEF CompareNumbers, Verdict

\* compareBool, compareString and compareNullable on two values of any kind.
LEMMA EqualsAgree ==
    ASSUME NEW a, NEW b
    PROVE  /\ CompareEqual(a, b, "==") = IF a = b THEN "yes" ELSE "no"
           /\ CompareEqual(a, b, "!=") = IF a # b THEN "yes" ELSE "no"
           /\ \A op \in {">=", "<=", ">", "<"} : CompareEqual(a, b, op) = "error"
  BY DEF CompareEqual, Verdict

\* What JSONComparisonsAgree asks of the six verdicts, given whether the value found is
\* missing or of another kind than the literal, and whether the literal is nan.
Agree(eq, ne, ge, le, gt, lt, unlike, unordered) ==
    /\ ~(eq = "yes" /\ ne = "yes")
    /\ ge = "yes" <=> "yes" \in {gt, eq} /\ lt # "error"
    /\ le = "yes" <=> "yes" \in {lt, eq} /\ gt # "error"
    /\ lt # "error" /\ ~unordered => (ne = "yes" <=> "yes" \in {lt, gt})
    /\ unordered => ne = "yes" /\ lt = "no" /\ gt = "no"
    /\ eq = "no" /\ ne = "no" => unlike

\* The six verdicts of compareValues agree, if what is found is a number when it
\* says so.
LEMMA ValuesAgree ==
    ASSUME JSONConfig, NEW found, NEW want,
           found.kind = "number" => found.is \in Int,
           want.kind = "number" => want = Number(want.is) /\ want.is \in Int \cup {NaN}
    PROVE  Agree(CompareValues(found, want, "=="), CompareValues(found, want, "!="),
                 CompareValues(found, want, ">="), CompareValues(found, want, "<="),
                 CompareValues(found, want, ">"), CompareValues(found, want, "<"),
                 found.kind # want.kind, found.kind = "number" /\ want = Number(NaN))
<1> DEFINE unordered == found.kind = "number" /\ want = Number(NaN)
           Ops == {"==", "!=", ">=", "<=", ">", "<"}
<1>1. ASSUME NEW a, NEW b, ~unordered, \A op \in Ops : CompareValues(found, want, op) = CompareEqual(a, b, op)
      PROVE  Agree(CompareValues(found, want, "=="), CompareValues(found, want, "!="),
                   CompareValues(found, want, ">="), CompareValues(found, want, "<="),
                   CompareValues(found, want, ">"), CompareValues(found, want, "<"),
                   found.kind # want.kind, unordered)
  BY <1>1, EqualsAgree DEF Agree
<1>0. unordered => want.kind = "number"
  BY DEF Number
<1>2. CASE "null" \in {found.kind, want.kind}
  <2>1. \A op \in Ops : CompareValues(found, want, op) = CompareEqual(found.kind, want.kind, op)
    BY <1>2 DEF CompareValues
  <2> QED BY <1>0, <1>1, <1>2, <2>1
<1>3. CASE found.kind \in {"number", "bool"} /\ want.kind \notin {found.kind, "null"}
  <2>1. \A op \in Ops : CompareValues(found, want, op) = "no"
    BY <1>3 DEF CompareValues
  <2> QED BY <1>0, <1>3, <2>1 DEF Agree
<1>4. CASE found.kind = "number" /\ want.kind = "number" /\ want.is # NaN
  <2>1. \A op \in Ops : CompareValues(found, want, op) = CompareNumbers(found.is, want.is, op)
    BY <1>4 DEF CompareValues
  <2>2. found.is \in Int /\ want.is \in Int
    BY <1>4
  <2>5. ~unordered
    BY <1>4 DEF Number
  <2> DEFINE a == found.is  b == want.is
  <2>3. a \in Int /\ b \in Int
    BY <2>2
  <2>4. /\ CompareValues(found, want, "==") = IF a = b THEN "yes" ELSE "no"
        /\ CompareValues(found, want, "!=") = IF a # b THEN "yes" ELSE "no"
        /\ CompareValues(found, want, ">=") = IF a >= b THEN "yes" ELSE "no"
        /\ CompareValues(found, want, "<=") = IF a <= b THEN "yes" ELSE "no"
        /\ CompareValues(found, want, ">") = IF a > b THEN "yes" ELSE "no"
        /\ CompareValues(found, want, "<") = IF a < b THEN "yes" ELSE "no"
    BY <2>1, <2>3, NumbersAgree
  <2> HIDE DEF a, b
  <2> QED BY <1>4, <2>3, <2>4, <2>5 DEF Agree
<1>7. CASE found.kind = "number" /\ want.kind = "number" /\ want.is = NaN
  <2>1. \A op \in Ops : CompareValues(found, want, op) = CompareNumbers(found.is, NaN, op)
    BY <1>7 DEF CompareValues
  <2>2. unordered
    BY <1>7
  <2>3. /\ CompareValues(found, want, "!=") = "yes"
        /\ \A op \in {"==", ">=", "<=", ">", "<"} : CompareValues(found, want, op) = "no"
    BY <2>1, NaNDiffers
  <2> QED BY <2>2, <2>3 DEF Agree
<1>5. CASE found.kind = "bool" /\ want.kind = "bool"
  <2>1. \A op \in Ops : CompareValues(found, want, op) = CompareEqual(found.is, want.is, op)
    BY <1>5 DEF CompareValues
  <2> QED BY <1>0, <1>1, <1>5, <2>1
<1>6. CASE "null" \notin {found.kind, want.kind} /\ found.kind \notin {"number", "bool"}
  <2>1. \A op \in Ops :
          CompareValues(found, want, op) = CompareEqual(ToText(found), ToText(want), op)
    BY <1>6 DEF CompareValues
  <2> QED BY <1>1, <1>6, <2>1
<1> QED BY <1>2, <1>3, <1>4, <1>5, <1>6, <1>7

\* The document in hand, the path and the literal are such that the six verdicts agree.
LEMMA ComparisonsTell == HTTPInv => JSONComparisonsAgree
<1> SUFFICES ASSUME HTTPInv, request.backend = "http", stage = "read",
                    request.json # NoExpression, hand.response.doc.kind # "unparsable"
             PROVE  JSONComparisonsAgree
  BY DEF JSONComparisonsAgree
<1> DEFINE doc == hand.response.doc  e == request.json
           found == Lookup(doc, e.path)  want == ParseLiteral(e.want)
           is(op) == Evaluate(doc, [e EXCEPT !.op = op])
<1>1. HTTPTypes
  BY DEF HTTPInv, HTTPRun, Started
<1>2. e \in Expressions /\ hand.response \in Responses
  BY <1>1 DEF HTTPTypes, HTTPRequests, Redirection, NotJSON
<1>3. e = [path |-> e.path, op |-> e.op, want |-> e.want]
  BY <1>2, HTTPConfig DEF HTTPConfig
<1>4. found.kind = "number" => found.is \in Int
  BY <1>2, HTTPConfig DEF HTTPConfig
<1>5. want.kind = "number" => want = Number(want.is) /\ want.is \in Int \cup {NaN}
  BY LiteralNumber, JSONConfig
<1>6. \A op \in {"==", "!=", ">=", "<=", ">", "<"} :
        is(op) = IF found.kind = "missing" THEN "no" ELSE CompareValues(found, want, op)
  <2>1. ASSUME NEW op \in {"==", "!=", ">=", "<=", ">", "<"}
        PROVE  is(op) = IF found.kind = "missing" THEN "no" ELSE CompareValues(found, want, op)
    <3>1. [e EXCEPT !.op = op] = [path |-> e.path, op |-> op, want |-> e.want]
      BY <1>3
    <3> QED BY <3>1 DEF Evaluate
  <2> QED BY <2>1
<1>7. Agree(is("=="), is("!="), is(">="), is("<="), is(">"), is("<"),
            found.kind = "missing" \/ found.kind # want.kind,
            found.kind = "number" /\ want = Number(NaN))
  <2> HIDE DEF found, want, is
  <2>1. CASE found.kind = "missing"
    BY <1>6, <2>1 DEF Agree
  <2>2. CASE found.kind # "missing"
    BY <1>4, <1>5, <1>6, <2>2, ValuesAgree, JSONConfig DEF Agree
  <2> QED BY <2>1, <2>2
<1> QED BY <1>7 DEF JSONComparisonsAgree, Agree

\* The six comparisons of one document with one literal agree with each other, for any
\* documents, paths and literals, as far as numbers are ordered: nan is different from
\* all of them.
THEOREM ComparisonsAgree == HTTPSpec => []JSONComparisonsAgree
  BY ComparisonsTell, HTTPInvariant, PTL

-----------------------------------------------------------------------------
(* DNSCondition.Check.                                                     *)

\* What is asked of the system resolver comes down to the values of the families.
LEMMA SystemHolds ==
    ASSUME NEW o, NEW z, DNSValid(o), o.resolver = "system", ~z.broken
    PROVE  DNSHolds(o, z) <=> SystemRight(o, UNION {SystemValues(z, f) : f \in Families(o)})
<1> DEFINE records == UNION {SystemValues(z, f) : f \in Families(o)}
<1>1. o.rcode = "" /\ o.absentMode = "any"
  BY DEF DNSValid
<1>2. ~RCodeOnly(o)
  BY <1>1 DEF RCodeOnly
<1> HIDE DEF records
<1>3. DNSHolds(o, z) <=>
        CASE o.absent /\ o.absentMode = "nxdomain" -> RCode(z) = "NXDOMAIN"
          [] o.absent /\ o.absentMode = "nodata" -> RCode(z) = "NOERROR" /\ records = {}
          [] o.absent /\ o.absentMode = "any" -> records = {} /\ (z.broken => o.resolver = "wire")
          [] OTHER -> RCodeOnly(o) \/ PresentValues(o, records)
  BY <1>1 DEF DNSHolds, records
<1>4. CASE o.absent
  BY <1>1, <1>3, <1>4 DEF SystemRight, records
<1>5. CASE ~o.absent
  BY <1>2, <1>3, <1>5 DEF SystemRight, records
<1> QED BY <1>4, <1>5

\* evaluate makes the same of the values.
LEMMA SystemEvaluated ==
    ASSUME NEW o, NEW values, DNSValid(o), o.resolver = "system"
    PROVE  DNSRight(o, values, "NOERROR") <=> SystemRight(o, values)
<1>1. o.rcode = "" /\ o.absentMode = "any" /\ ~RCodeOnly(o)
  BY DEF DNSValid, RCodeOnly
<1>2. CASE o.absent
  BY <1>1, <1>2 DEF DNSRight, SystemRight
<1>3. CASE ~o.absent
  BY <1>1, <1>3 DEF DNSRight, SystemRight
<1> QED BY <1>2, <1>3

\* A complete answer of the wire resolver is evaluated to what is asked of the zone.
LEMMA WireEvaluated ==
    ASSUME NEW o, NEW z, o.resolver = "wire"
    PROVE  DNSRight(o, OfType(AnswerSection(z, o.type), o.type), RCode(z)) <=> DNSHolds(o, z)
<1> DEFINE records == OfType(AnswerSection(z, o.type), o.type)
<1> HIDE DEF records
<1>1. DNSHolds(o, z) <=>
        /\ o.rcode \in {"", RCode(z)}
        /\ CASE o.absent /\ o.absentMode = "nxdomain" -> RCode(z) = "NXDOMAIN"
             [] o.absent /\ o.absentMode = "nodata" -> RCode(z) = "NOERROR" /\ records = {}
             [] o.absent /\ o.absentMode = "any" -> records = {} /\ (z.broken => o.resolver = "wire")
             [] OTHER -> RCodeOnly(o) \/ PresentValues(o, records)
  BY DEF DNSHolds, records
<1>2. CASE o.absent
  BY <1>1, <1>2 DEF DNSRight, records
<1>3. CASE ~o.absent
  BY <1>1, <1>3 DEF DNSRight, records
<1> QED BY <1>2, <1>3

\* One value that is right on its own makes every finite set right that it is in.
LEMMA PresentGrows ==
    ASSUME NEW o, o.minCount \in Int, NEW S, IsFiniteSet(S), NEW v \in S, PresentValues(o, {v})
    PROVE  PresentValues(o, S)
<1>1. {v} \in SUBSET S
  OBVIOUS
<1>2. IsFiniteSet({v}) /\ Cardinality({v}) = 1
  BY FS_Singleton
<1>3. Cardinality({v}) <= Cardinality(S) /\ Cardinality(S) \in Nat
  BY <1>1, FS_Subset, FS_CardinalityType
<1>4. Cardinality({v}) >= o.minCount
  BY DEF PresentValues
<1>5. Cardinality(S) >= o.minCount
  BY <1>2, <1>3, <1>4
<1> QED BY <1>5 DEF PresentValues

\* The values of a family are finitely many.
LEMMA FamilyFinite ==
    ASSUME NEW z \in Zones, NEW f
    PROVE  IsFiniteSet(SystemValues(z, f))
<1>1. IsFiniteSet(z.records)
  BY DNSConfig DEF DNSConfig
<1>2. OfType(z.records, f) \in SUBSET z.records
  BY DEF OfType
<1>3. IsFiniteSet(OfType(z.records, f))
  BY <1>1, <1>2, FS_Subset
<1>4. IsFiniteSet({[type |-> "CNAME", value |-> HostName]})
  BY FS_Singleton
<1> QED BY <1>3, <1>4 DEF SystemValues

\* The command line refuses the options, or the check of some zone begins.
LEMMA DNSParsed == DNSInv /\ DNSParse => DNSInv'
<1> SUFFICES ASSUME DNSInv, DNSParse PROVE DNSInv'
  OBVIOUS
<1>1. PICK o \in DNSRequests, z \in Zones : Parse(o, DNSAccepts(o), z, NoAnswer) /\ DNSObserve
  BY DEF DNSParse
<1>2. reply = "none" /\ reply' = "none" /\ stage' \in {"check", "refused"} /\ request' = o
  BY <1>1 DEF Parse, DNSInv, FrameInv
<1>3. FrameInv'
  BY <1>1, <1>2 DEF DNSInv, FrameInv, DNSObserve, Observe
<1>4. CASE stage' = "refused"
  BY <1>3, <1>4 DEF DNSInv, Started
<1>5. CASE stage' = "check"
  <2>1. world' = z /\ hand' = NoAnswer
    BY <1>1, <1>5 DEF Parse
  <2>2. DNSTypes'
    BY <1>2, <2>1 DEF DNSTypes, NoAnswer
  <2>3. /\ DNSHolds(request', world') => held'
        /\ ~DNSHolds(request', world') => lacked'
    BY <1>1, <1>5 DEF DNSObserve, Observe
  <2>4. DNSReplyInv'
    BY <1>2 DEF DNSReplyInv, ReplyWasRight
  <2>5. DNSRun'
    BY <1>5, <2>1, <2>2, <2>3, <2>4 DEF DNSRun, NoAnswer
  <2> QED BY <1>3, <2>5 DEF DNSInv
<1> QED BY <1>2, <1>4, <1>5

\* What a step of the check, or a turn of the zone, leaves to be shown.
LEMMA DNSKept ==
    ASSUME DNSInv, Running("dns"), DNSObserve, request' = request, DNSTypes',
           stage' \in {"check", "system", "wire", "done"}, reply' # "none" => stage' = "done",
           stage' = "wire" => request.resolver = "wire",
           stage' = "check" => hand' = NoAnswer,
           stage' = "system" => SystemInv',
           DNSReplyInv'
    PROVE  DNSInv'
<1>1. /\ DNSHolds(request', world') => held'
      /\ ~DNSHolds(request', world') => lacked'
      /\ held' \in BOOLEAN /\ lacked' \in BOOLEAN
  BY DEF DNSObserve, Observe
<1>2. FrameInv'
  BY <1>1 DEF FrameInv
<1>3. DNSRun'
  BY <1>1 DEF DNSRun
<1> QED BY <1>2, <1>3 DEF DNSInv

\* The reply to a query is right if what was found was so.
LEMMA DNSReplies ==
    ASSUME DNSInv, Running("dns"), DNSObserve, NEW r, Reply(r),
           (request.type = "ANY" /\ request.resolver = "system" =>
               r = "satisfied" /\ ~request.absent /\ Cardinality(hand.values) = 1) =>
           /\ r = "satisfied" => held \/ DNSHolds(request, world)
           /\ r = "unsatisfied" => lacked \/ ~DNSHolds(request, world)
    PROVE  DNSInv'
<1>1. /\ stage' = "done" /\ reply' = r
      /\ request' = request /\ world' = world /\ hand' = hand
  BY DEF Reply
<1>2. /\ held' = (held \/ DNSHolds(request, world))
      /\ lacked' = (lacked \/ ~DNSHolds(request, world))
  BY <1>1 DEF DNSObserve, Observe
<1>3. DNSRun
  BY DEF DNSInv, Started, Running
<1>4. DNSTypes'
  BY <1>1, <1>3 DEF DNSTypes, DNSRun
<1>5. DNSReplyInv'
  BY <1>1, <1>2 DEF DNSReplyInv, ReplyWasRight
<1> QED BY <1>1, <1>4, <1>5, DNSKept

\* Check looks at the options and chooses its resolver.
LEMMA DNSBegins == DNSInv /\ Running("dns") /\ DNSStarts /\ DNSObserve => DNSInv'
<1> SUFFICES ASSUME DNSInv, Running("dns"), DNSStarts, DNSObserve PROVE DNSInv'
  OBVIOUS
<1>1. DNSRun /\ DNSTypes /\ reply = "none" /\ stage = "check" /\ hand = NoAnswer
  BY DEF DNSInv, FrameInv, Running, Started, DNSRun, DNSStarts
<1>2. CASE ~DNSValid(request)
  <2>1. Reply("fatal")
    BY <1>2 DEF DNSStarts
  <2> QED BY <2>1, DNSReplies
<1>3. CASE DNSValid(request)
  <2>1. /\ hand' = IF request.resolver = "wire"
                   THEN [hand EXCEPT !.network = request.transport]
                   ELSE [hand EXCEPT !.families = Families(request)]
        /\ stage' = request.resolver /\ request' = request /\ world' = world /\ reply' = "none"
    BY <1>1, <1>3 DEF DNSStarts
  <2>2. request.resolver \in {"system", "wire"}
    BY <1>3 DEF DNSValid
  <2>3. DNSReplyInv'
    BY <2>1 DEF DNSReplyInv, ReplyWasRight
  <2>4. CASE request.resolver = "wire"
    <3>1. hand' = [NoAnswer EXCEPT !.network = request.transport]
      BY <1>1, <2>1, <2>4
    <3>2. DNSTypes'
      BY <1>1, <2>1, <3>1 DEF DNSTypes, NoAnswer
    <3> QED BY <2>1, <2>3, <2>4, <3>2, DNSKept
  <2>5. CASE request.resolver = "system"
    <3>1. hand' = [families |-> Families(request), network |-> "none", values |-> {}, erred |-> {}]
      BY <1>1, <2>1, <2>5 DEF NoAnswer
    <3>2. DNSTypes'
      BY <1>1, <2>1, <3>1 DEF DNSTypes
    <3>3. (OneFamily \/ BothFamilies)'
      <4>1. CASE request.type = "ANY"
        BY <2>1, <3>1, <4>1 DEF BothFamilies, Families
      <4>2. CASE request.type # "ANY"
        BY <2>1, <3>1, <4>2 DEF OneFamily, Families
      <4> QED BY <4>1, <4>2
    <3>4. SystemInv'
      <4>1. DNSValid(request')
        BY <1>3, <2>1
      <4>2. IsFiniteSet(hand'.values)
        BY <3>1, FS_EmptySet
      <4> QED BY <2>1, <2>5, <3>3, <4>1, <4>2 DEF SystemInv
    <3> QED BY <2>1, <2>3, <2>5, <3>2, <3>4, DNSKept
  <2> QED BY <2>2, <2>4, <2>5
<1> QED BY <1>2, <1>3

\* One more family has answered, or failed to.
LEMMA FamilyAsked ==
    ASSUME NEW f, DNSInv, Running("dns"), AskSystem(f), DNSObserve
    PROVE  DNSInv'
<1>1. DNSRun /\ DNSTypes /\ reply = "none" /\ stage = "system" /\ f \in hand.families /\ SystemInv
  BY DEF DNSInv, FrameInv, Running, Started, DNSRun, AskSystem
<1>2. /\ request' = request /\ stage' = "system" /\ world' = world /\ reply' = "none"
  BY <1>1 DEF AskSystem
<1>3. /\ held' = (held \/ DNSHolds(request, world))
      /\ lacked' = (lacked \/ ~DNSHolds(request, world))
  BY <1>2 DEF DNSObserve, Observe
<1>4. DNSValid(request') /\ request.resolver = "system" /\ IsFiniteSet(hand.values)
  BY <1>1, <1>2 DEF SystemInv
<1>5. ASSUME DNSTypes', IsFiniteSet(hand'.values), (OneFamily \/ BothFamilies)'
      PROVE  DNSInv'
  <2>1. SystemInv'
    BY <1>2, <1>4, <1>5 DEF SystemInv
  <2>2. DNSReplyInv'
    BY <1>2 DEF DNSReplyInv, ReplyWasRight
  <2> QED BY <1>2, <1>5, <2>1, <2>2, DNSKept
<1>6. CASE hand' = [hand EXCEPT !.families = @ \ {f}, !.erred = @ \cup {f}]
  <2>1. hand' = [families |-> hand.families \ {f}, network |-> hand.network,
                 values |-> hand.values, erred |-> hand.erred \cup {f}]
    BY <1>1, <1>6 DEF DNSTypes
  <2>2. DNSTypes'
    BY <1>1, <1>2, <2>1 DEF DNSTypes
  <2>3. OneFamily => OneFamily'
    BY <1>1, <1>2, <2>1 DEF OneFamily
  <2>4. BothFamilies => BothFamilies'
    BY <1>2, <1>3, <2>1 DEF BothFamilies
  <2> QED BY <1>1, <1>4, <1>5, <2>1, <2>2, <2>3, <2>4 DEF SystemInv
<1>7. CASE /\ ~world.broken
           /\ hand' = [hand EXCEPT !.families = @ \ {f}, !.values = @ \cup SystemValues(world, f)]
  <2> DEFINE found == SystemValues(world, f)
             records == UNION {SystemValues(world, g) : g \in Families(request)}
  <2>1. hand' = [families |-> hand.families \ {f}, network |-> hand.network,
                 values |-> hand.values \cup found, erred |-> hand.erred]
    BY <1>1, <1>7 DEF DNSTypes
  <2>2. DNSTypes'
    BY <1>1, <1>2, <2>1 DEF DNSTypes
  <2>3. \A g : IsFiniteSet(SystemValues(world, g))
    BY <1>1, FamilyFinite DEF DNSTypes
  <2>4. IsFiniteSet(hand'.values)
    BY <1>4, <2>1, <2>3, FS_Union
  <2>5. DNSHolds(request, world) <=> SystemRight(request, records)
    BY <1>2, <1>4, <1>7, SystemHolds
  <2>6. ASSUME OneFamily PROVE OneFamily'
    <3>1. request.type # "ANY" /\ f = request.type /\ hand.values = {} /\ hand.erred = {}
      BY <1>1, <2>6 DEF OneFamily
    <3>2. records = found
      BY <3>1 DEF Families
    <3>3. hand'.values = found /\ hand'.erred = {} /\ hand'.families = {}
      BY <2>1, <2>6, <3>1 DEF OneFamily
    <3>4. IF SystemRight(request, found) THEN held' ELSE lacked'
      BY <1>3, <2>5, <3>2
    <3> HIDE DEF found
    <3>5. IF SystemRight(request', hand'.values) THEN held' ELSE lacked'
      BY <1>2, <3>3, <3>4
    <3> QED BY <1>2, <3>1, <3>3, <3>5 DEF OneFamily
  <2>7. ASSUME BothFamilies PROVE BothFamilies'
    <3>1. request.type = "ANY" /\ f \in {"A", "AAAA"} /\ f \in Families(request)
      BY <1>1, <2>7 DEF BothFamilies, Families
    <3>2. found \subseteq records
      BY <3>1
    <3>3. IsFiniteSet(records)
      <4>1. records = SystemValues(world, "A") \cup SystemValues(world, "AAAA")
        BY <3>1 DEF Families
      <4> QED BY <2>3, <4>1, FS_Union
    <3> HIDE DEF records, found
    <3>4. ASSUME NEW v \in found, ~request.absent, PresentValues(request, {v}) PROVE held'
      <4>1. PresentValues(request, records)
        <5>1. request.minCount \in Int
          BY <1>1, DNSConfig DEF DNSTypes, DNSConfig
        <5>2. v \in records
          BY <3>2
        <5> QED BY <3>3, <3>4, <5>1, <5>2, PresentGrows
      <4> QED BY <1>3, <2>5, <3>4, <4>1 DEF SystemRight
    <3>5. \A v \in hand'.values : ~request.absent /\ PresentValues(request, {v}) => held'
      BY <1>3, <2>1, <2>7, <3>4 DEF BothFamilies
    <3> QED BY <1>2, <2>1, <2>7, <3>5 DEF BothFamilies
  <2> QED BY <1>1, <1>5, <2>2, <2>4, <2>6, <2>7 DEF SystemInv
<1> QED BY <1>6, <1>7 DEF AskSystem

\* The system resolver's answer: what was found, or that nothing was.
LEMMA SystemReplies == DNSInv /\ Running("dns") /\ SystemAnswers /\ DNSObserve => DNSInv'
<1> SUFFICES ASSUME DNSInv, Running("dns"), SystemAnswers, DNSObserve PROVE DNSInv'
  OBVIOUS
<1>1. DNSRun /\ SystemInv /\ hand.families = {} /\ DNSValid(request) /\ request.resolver = "system"
  BY DEF DNSInv, Running, Started, DNSRun, SystemAnswers, SystemInv
<1>2. CASE hand.values # {} /\ DNSEvaluate(request, hand.values, "NOERROR")
  <2>1. Reply(IF SystemRight(request, hand.values) THEN "satisfied" ELSE "unsatisfied")
    BY <1>1, <1>2, SystemEvaluated DEF DNSEvaluate
  <2>2. CASE OneFamily
    <3>1. IF SystemRight(request, hand.values) THEN held ELSE lacked
      BY <1>1, <1>2, <2>2 DEF OneFamily
    <3> QED BY <2>1, <3>1, DNSReplies
  <2>3. CASE BothFamilies
    <3>1. ASSUME SystemRight(request, hand.values), ~request.absent, Cardinality(hand.values) = 1
          PROVE  held
      <4>1. PICK v : hand.values = {v}
        BY <1>1, <3>1, FS_Singleton DEF SystemInv
      <4> QED BY <2>3, <3>1, <4>1 DEF SystemRight, BothFamilies
    <3>2. request.type = "ANY"
      BY <2>3 DEF BothFamilies
    <3> QED BY <1>1, <2>1, <3>1, <3>2, DNSReplies
  <2> QED BY <1>1, <2>2, <2>3 DEF SystemInv
<1>3. CASE Reply("failed")
  BY <1>3, DNSReplies
<1>4. CASE /\ hand.values = {} /\ hand.erred # Families(request)
           /\ Reply(IF request.absent THEN "satisfied" ELSE "unsatisfied")
  <2>1. CASE OneFamily
    <3>1. hand.erred = {}
      BY <1>4, <2>1 DEF OneFamily, Families
    <3>2. IF SystemRight(request, {}) THEN held ELSE lacked
      BY <1>1, <1>4, <2>1, <3>1 DEF OneFamily
    <3>3. SystemRight(request, {}) <=> request.absent
      BY DEF SystemRight, PresentValues
    <3> QED BY <1>4, <3>2, <3>3, DNSReplies
  <2>2. CASE BothFamilies
    <3>1. Cardinality(hand.values) = 0
      BY <1>4, FS_EmptySet
    <3>2. request.type = "ANY"
      BY <2>2 DEF BothFamilies
    <3> QED BY <1>1, <1>4, <3>1, <3>2, DNSReplies
  <2> QED BY <1>1, <2>1, <2>2 DEF SystemInv
<1> QED BY <1>2, <1>3, <1>4 DEF SystemAnswers

\* The wire resolver's answer is complete when it is evaluated.
LEMMA WireAsked == DNSInv /\ Running("dns") /\ AskWire /\ DNSObserve => DNSInv'
<1> SUFFICES ASSUME DNSInv, Running("dns"), AskWire, DNSObserve PROVE DNSInv'
  OBVIOUS
<1> DEFINE answer == AnswerSection(world, request.type)
<1>1. DNSRun /\ DNSTypes /\ reply = "none" /\ stage = "wire" /\ request.resolver = "wire"
  BY DEF DNSInv, FrameInv, Running, Started, DNSRun, AskWire
<1>2. CASE Reply("failed")
  BY <1>2, DNSReplies
<1>3. CASE DNSEvaluate(request, OfType(answer, request.type), RCode(world))
  <2>1. Reply(IF DNSHolds(request, world) THEN "satisfied" ELSE "unsatisfied")
    BY <1>1, <1>3, WireEvaluated DEF DNSEvaluate
  <2> QED BY <2>1, DNSReplies
<1>4. CASE hand' = [hand EXCEPT !.network = "tcp"] /\ UNCHANGED <<request, stage, world, reply>>
  <2>1. DNSTypes'
    <3>1. hand' = [families |-> hand.families, network |-> "tcp",
                   values |-> hand.values, erred |-> hand.erred]
      BY <1>1, <1>4 DEF DNSTypes
    <3> QED BY <1>1, <1>4, <3>1 DEF DNSTypes
  <2>2. DNSReplyInv'
    BY <1>1, <1>4 DEF DNSReplyInv, ReplyWasRight
  <2> QED BY <1>1, <1>4, <2>1, <2>2, DNSKept
<1> QED BY <1>2, <1>3, <1>4 DEF AskWire

\* A step of the check keeps the invariant.
LEMMA DNSChecked == DNSInv /\ DNSCheckStep => DNSInv'
  BY DNSBegins, FamilyAsked, SystemReplies, WireAsked DEF DNSCheckStep

\* What the zone turns into is taken note of.
LEMMA DNSTurns == DNSInv /\ DNSWorld => DNSInv'
<1> SUFFICES ASSUME DNSInv, DNSWorld PROVE DNSInv'
  OBVIOUS
<1>1. Running("dns") /\ DNSObserve /\ DNSRun /\ DNSTypes /\ reply = "none" /\ stage # "done"
  BY DEF DNSInv, FrameInv, Running, Started, DNSRun, DNSWorld
<1>2. /\ request' = request /\ stage' = stage /\ hand' = hand /\ reply' = reply
      /\ world' \in Zones
  BY <1>1 DEF DNSWorld, Turns
<1>3. (held => held') /\ (lacked => lacked')
  BY <1>1, <1>2 DEF DNSObserve, Observe, DNSRun
<1>4. DNSTypes'
  BY <1>1, <1>2 DEF DNSTypes
<1>5. stage = "system" => SystemInv'
  BY <1>1, <1>2, <1>3 DEF DNSRun, SystemInv, OneFamily, BothFamilies
<1>6. DNSReplyInv'
  BY <1>1, <1>2 DEF DNSReplyInv, ReplyWasRight
<1> QED BY <1>1, <1>2, <1>4, <1>5, <1>6, DNSKept DEF DNSRun

\* DNSInv is an invariant of the check of any zone.
THEOREM DNSInvariant == DNSSpec => []DNSInv
<1>1. FrameInit => DNSInv
  BY FrameStarts DEF DNSInv
<1>2. DNSInv /\ [DNSNext]_frameVars => DNSInv'
  <2>1. DNSInv /\ UNCHANGED frameVars => DNSInv'
    BY DEF frameVars, DNSInv, FrameInv, Started, DNSRun, DNSTypes, SystemInv, OneFamily,
           BothFamilies, DNSReplyInv, ReplyWasRight
  <2> QED BY <2>1, DNSParsed, DNSChecked, DNSTurns DEF DNSNext
<1> QED BY <1>1, <1>2, PTL DEF DNSSpec

\* The invariant says that the reply was right.
LEMMA DNSInvTells == DNSInv => DNSAnswerWitnessed
<1>1. ASSUME DNSInv, ~Started("dns"), request.backend = "dns" PROVE ReplyWasRight
  BY <1>1 DEF DNSInv, FrameInv, Started, ReplyWasRight
<1> QED BY <1>1 DEF DNSInv, DNSRun, DNSReplyInv, DNSAnswerWitnessed, Started

\* What Check says of a name was so at some moment of the check, for every zone that
\* changes between two questions and all options, with the one exception that two
\* families of addresses may be asked for at two moments.
THEOREM DNSAnswerRight == DNSSpec => []DNSAnswerWitnessed
  BY DNSInvTells, DNSInvariant, PTL

=============================================================================
