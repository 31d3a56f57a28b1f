---------------------------- MODULE LogTailProofs ----------------------------
(***************************************************************************)
(* Proofs about LogTail, for any inodes, limits, matchers and bounds on    *)
(* what writers do.  LogInv says what the place of the check tells of the  *)
(* fields (PlaceInv), that every replacement of a file is younger than     *)
(* anything that was seen of the one before (BornInv), how far the file    *)
(* that was seen still reaches (SeenInv), what the unread chunk holds      *)
(* (ChunkInv), and where a late file's count begins (LateInv).             *)
(***************************************************************************)
EXTENDS LogTail, FiniteSetTheorems, SequenceTheorems, NaturalsInduction, TLAPS

\* Nothing is remembered before the first file, and what a check works with is what
\* its own os.Stat saw.
PlaceInv ==
    /\ prevInfo.inode \in Inodes <=> initialized
    /\ IF pc = "stat" THEN info = NoInfo ELSE info.inode \in Inodes
    /\ pc \in {"open", "scan"} => prevInfo = Identity(info)
    /\ pc = "tail" => ~initialized /\ ~missingInit
    /\ pc # "scan" => chunk = NoChunk
    /\ ~initialized =>
         /\ prevInfo = NoInfo
         /\ offset = 0 /\ matchCount = 0 /\ counted = <<>> /\ base = 0
         /\ ~split /\ ~raced

\* A file is born at a change that came after everything that was seen before.
BornInv ==
    /\ \A i \in Inodes : born[i] <= changes
    /\ prevInfo.born <= changes /\ info.born <= changes /\ chunk.born <= changes
    /\ path # None =>
         prevInfo.born <= born[path] /\ info.born <= born[path] /\ chunk.born <= born[path]
    /\ pc = "scan" => info.born <= chunk.born

\* The file that os.Stat saw, while it is at the path, has at least the size that was
\* seen and reaches at least to the offset.
SeenInv ==
    /\ base <= offset
    /\ path # None /\ initialized /\ prevInfo.inode = path /\ prevInfo.born = born[path] =>
         offset <= Len(files[path])
    /\ path # None /\ pc # "stat" /\ info.inode = path /\ info.born = born[path] =>
         info.size <= Len(files[path])

\* What was read and is not counted yet lies behind the offset, while its file is
\* still there.
ChunkInv ==
    pc = "scan" /\ path # None /\ chunk.born = born[path] /\ chunk.units # <<>> =>
      /\ offset + Len(chunk.units) <= Len(files[path])
      /\ chunk.units = SubSeq(files[path], offset + 1, offset + Len(chunk.units))

\* A file that came after the wait had started is read from its first byte.
LateInv == late => IF initialized THEN base = 0 ELSE missingInit

LogInv ==
    /\ TypeOK
    /\ PlaceInv
    /\ BornInv
    /\ SeenInv
    /\ ChunkInv
    /\ LateInv
    /\ CountedIsFile
    /\ CountsEveryLineOnce

-----------------------------------------------------------------------------
(* Counting.                                                               *)

Less == {p \in Nat \X Nat : p[1] < p[2]}

\* A set of natural numbers that is not empty has a least element.
LEMMA LeastNatural ==
    ASSUME NEW T, T \subseteq Nat, T # {}
    PROVE  \E x \in T : \A y \in T : x <= y
<1>1. IsWellFoundedOn(Less, Nat)
  <2>1. Less = OpToRel(<, Nat)
    BY DEF Less, OpToRel
  <2> QED BY <2>1, NatLessThanWellFounded
<1>2. PICK x \in T : \A y \in T : ~(<<y, x>> \in Less)
  BY <1>1, WFMin
<1>3. ASSUME NEW y \in T PROVE x <= y
  <2>1. x \in Nat /\ y \in Nat
    OBVIOUS
  <2>2. y < x => <<y, x>> \in Less
    BY <2>1 DEF Less
  <2> QED BY <1>2, <2>1, <2>2
<1> QED BY <1>3

\* A set of numbers below a bound can be counted.
LEMMA CountableSet ==
    ASSUME NEW N \in Nat, NEW S, S \subseteq 1..N
    PROVE  IsFiniteSet(S) /\ Cardinality(S) \in Nat
<1>1. IsFiniteSet(1..N)
  BY FS_Interval
<1>2. IsFiniteSet(S)
  BY <1>1, FS_Subset
<1> QED BY <1>2, FS_CardinalityType

AtOrAbove(S, k) == {j \in S : j >= k}

\* Of n or more numbers, one has exactly n of them at or above it: the start of the
\* last n lines exists (findTailStart).
LEMMA NthFromTheTop ==
    ASSUME NEW N \in Nat, NEW S, S \subseteq 1..N, NEW n \in Nat \ {0},
           Cardinality(S) >= n
    PROVE  \E k \in S : Cardinality(AtOrAbove(S, k)) = n
<1> DEFINE Count(k) == Cardinality(AtOrAbove(S, k))
           T == {k \in 1..N + 1 : Count(k) < n}
<1>0. \A j \in S : j \in Nat /\ j >= 1 /\ j <= N
  OBVIOUS
<1> HIDE DEF T, Count
<1>1. ASSUME NEW k \in Nat PROVE IsFiniteSet(AtOrAbove(S, k)) /\ Count(k) \in Nat
  <2>1. AtOrAbove(S, k) \subseteq 1..N
    BY DEF AtOrAbove
  <2> QED BY <2>1, CountableSet DEF Count
<1>2. N + 1 \in T
  <2>1. AtOrAbove(S, N + 1) = {}
    <3>1. \A j \in S : ~(j >= N + 1)
      BY <1>0
    <3> QED BY <3>1 DEF AtOrAbove
  <2>2. Count(N + 1) = 0
    BY <2>1, FS_EmptySet DEF Count
  <2> QED BY <2>2 DEF T
<1>3. PICK m \in T : \A k \in T : m <= k
  <2>1. T \subseteq Nat /\ T # {}
    BY <1>2 DEF T
  <2> QED BY <2>1, LeastNatural
<1>4. m # 1
  <2>1. AtOrAbove(S, 1) = S
    BY <1>0 DEF AtOrAbove
  <2>2. ~(Count(1) < n)
    BY <2>1, <1>1 DEF Count
  <2> QED BY <2>2 DEF T
<1> DEFINE k == m - 1
<1>5. k \in 1..N /\ k \notin T /\ m = k + 1
  <2>1. m \in 1..N + 1
    BY DEF T
  <2> QED BY <2>1, <1>3, <1>4
<1>6. Count(k) >= n /\ Count(m) < n /\ Count(k) \in Nat /\ Count(m) \in Nat
  BY <1>1, <1>5 DEF T
<1> HIDE DEF k
<1>7. AtOrAbove(S, k) = IF k \in S THEN AtOrAbove(S, m) \cup {k} ELSE AtOrAbove(S, m)
  <2>1. \A j \in S : j >= k <=> (j >= m \/ j = k)
    BY <1>0, <1>5
  <2> QED BY <2>1 DEF AtOrAbove
<1>8. k \notin AtOrAbove(S, m)
  BY <1>5 DEF AtOrAbove
<1>9. k \in S
  BY <1>6, <1>7 DEF Count
<1>10. Count(k) = Count(m) + 1
  <2>1. IsFiniteSet(AtOrAbove(S, m)) /\ AtOrAbove(S, k) = AtOrAbove(S, m) \cup {k}
    BY <1>1, <1>5, <1>7, <1>9
  <2> QED BY <2>1, <1>8, FS_AddElement DEF Count
<1> QED BY <1>6, <1>9, <1>10 DEF Count

-----------------------------------------------------------------------------
(* Reading.                                                                *)

\* findTailStart answers a place between the offset it was given and the end of what
\* was read.
LEMMA TailStartBound ==
    ASSUME NEW units \in Seq(Unit), NEW from \in Nat, NEW n \in Nat \ {0}
    PROVE  /\ FindTailStart(units, from, n) \in Nat
           /\ FindTailStart(units, from, n) >= from
           /\ FindTailStart(units, from, n) <= from + Len(units)
<1> DEFINE newlines == {k \in 1..Len(units) - 1 : units[k] \in Terminated}
           before(k) == Cardinality({j \in newlines : j >= k})
<1>1. Len(units) \in Nat
  OBVIOUS
<1>2. newlines \subseteq 1..Len(units)
  BY <1>1
<1>3. CASE Cardinality(newlines) < n
  BY <1>1, <1>3 DEF FindTailStart
<1>4. CASE ~(Cardinality(newlines) < n)
  <2>1. Cardinality(newlines) \in Nat
    BY <1>1, <1>2, CountableSet
  <2>2. \E k \in newlines : before(k) = n
    <3> HIDE DEF newlines
    <3>1. Cardinality(newlines) >= n
      BY <2>1, <1>4
    <3>2. PICK k \in newlines : Cardinality(AtOrAbove(newlines, k)) = n
      BY <3>1, <1>1, <1>2, NthFromTheTop
    <3> QED BY <3>2 DEF AtOrAbove
  <2> DEFINE first == CHOOSE k \in newlines : before(k) = n
  <2>3. first \in newlines
    BY <2>2
  <2>4. FindTailStart(units, from, n) = from + first
    BY <1>4 DEF FindTailStart
  <2> QED BY <1>1, <2>3, <2>4
<1> QED BY <1>3, <1>4

\* A read returns what is behind the offset, up to its limit and the end of the file.
LEMMA ReadFromBehind ==
    ASSUME TypeOK, path # None, NEW from \in Nat, NEW n \in Nat \ {0}
    PROVE  LET read == ReadFrom(from, n)
           IN  /\ read \in Seq(Unit)
               /\ Len(read) <= n
               /\ read # <<>> =>
                    /\ from + Len(read) <= Len(files[path])
                    /\ read = SubSeq(files[path], from + 1, from + Len(read))
<1> DEFINE file == files[path]
           end == IF from + n < Len(file) THEN from + n ELSE Len(file)
<1>1. file \in Seq(Unit) /\ Len(file) \in Nat
  BY DEF TypeOK
<1>2. ReadFrom(from, n) = SubSeq(file, from + 1, end)
  BY DEF ReadFrom
<1>3. end \in Nat /\ end <= Len(file)
  BY <1>1
<1>4. \A i \in from + 1..end : file[i] \in Unit
  BY <1>1, <1>3
<1> HIDE DEF file
<1>5. /\ SubSeq(file, from + 1, end) \in Seq(Unit)
      /\ Len(SubSeq(file, from + 1, end)) = IF from + 1 <= end THEN end - from ELSE 0
  BY <1>3, <1>4, SubSeqProperties
<1>6. CASE from + 1 <= end
  BY <1>1, <1>2, <1>3, <1>5, <1>6 DEF file
<1>7. CASE ~(from + 1 <= end)
  <2>1. SubSeq(file, from + 1, end) = <<>>
    BY <1>3, <1>7, SubSeqEmpty
  <2> QED BY <1>1, <1>2, <1>5, <1>7, <2>1
<1> QED BY <1>6, <1>7

\* What lies before the end of a file stays when its writer appends.
LEMMA AppendKeeps ==
    ASSUME NEW file \in Seq(Unit), NEW u \in Unit,
           NEW a \in Nat, NEW b \in Nat, b <= Len(file)
    PROVE  SubSeq(Append(file, u), a + 1, b) = SubSeq(file, a + 1, b)
<1> DEFINE longer == Append(file, u)
<1>1. /\ Len(file) \in Nat /\ longer \in Seq(Unit)
      /\ \A i \in 1..Len(file) : longer[i] = file[i]
  BY AppendProperties
<1>2. \A i \in a + 1..b : longer[i] \in Unit /\ file[i] \in Unit /\ longer[i] = file[i]
  BY <1>1
<1>3. /\ SubSeq(longer, a + 1, b) \in Seq(Unit) /\ SubSeq(file, a + 1, b) \in Seq(Unit)
      /\ Len(SubSeq(longer, a + 1, b)) = Len(SubSeq(file, a + 1, b))
      /\ \A i \in 1..b - a : SubSeq(longer, a + 1, b)[i] = SubSeq(file, a + 1, b)[i]
      /\ Len(SubSeq(file, a + 1, b)) = IF a + 1 <= b THEN b - a ELSE 0
  BY <1>1, <1>2, SubSeqProperties
<1> HIDE DEF longer
<1> QED BY <1>3, SeqEqual DEF longer

-----------------------------------------------------------------------------
(* Matching.                                                               *)

\* The units that end a matching line, when no line is split.
Marks(units) ==
    {k \in 1..Len(units) : \/ units[k] = "m" /\ "m" \in Matching
                           \/ units[k] = "e" /\ "whole" \in Matching}

\* The matching lines of a sequence are a natural number.
LEMMA MarksType ==
    ASSUME NEW units \in Seq(Unit)
    PROVE  IsFiniteSet(Marks(units)) /\ Cardinality(Marks(units)) \in Nat
<1>1. Len(units) \in Nat
  OBVIOUS
<1>2. Marks(units) \subseteq 1..Len(units)
  BY DEF Marks
<1> QED BY <1>1, <1>2, CountableSet

\* What was read is as many lines longer as the new piece holds.
LEMMA MarksOfConcat ==
    ASSUME NEW s \in Seq(Unit), NEW t \in Seq(Unit)
    PROVE  Cardinality(Marks(s \o t)) = Cardinality(Marks(s)) + Cardinality(Marks(t))
<1> DEFINE n == Len(s)
           shifted == {k \in n + 1..n + Len(t) : k - n \in Marks(t)}
           shift == [k \in Marks(t) |-> k + n]
<1>1. n \in Nat /\ Len(t) \in Nat
  OBVIOUS
<1>2. Marks(s \o t) = Marks(s) \cup shifted
  <2>1. /\ Len(s \o t) = n + Len(t)
        /\ \A i \in 1..n + Len(t) : (s \o t)[i] = IF i <= n THEN s[i] ELSE t[i - n]
    BY ConcatProperties
  <2>2. ASSUME NEW k \in 1..n PROVE k \in Marks(s \o t) <=> k \in Marks(s)
    BY <1>1, <2>1 DEF Marks
  <2>3. ASSUME NEW k \in n + 1..n + Len(t)
        PROVE  k \in Marks(s \o t) <=> k - n \in Marks(t)
    BY <1>1, <2>1 DEF Marks
  <2>4. Marks(s) \subseteq 1..n /\ Marks(s \o t) \subseteq 1..n + Len(t)
    BY <2>1 DEF Marks
  <2>5. 1..n + Len(t) = (1..n) \cup (n + 1..n + Len(t))
    BY <1>1
  <2> QED BY <2>2, <2>3, <2>4, <2>5
<1>3. Marks(s) \cap shifted = {}
  BY <1>1 DEF Marks
<1>4. IsFiniteSet(shifted) /\ Cardinality(shifted) = Cardinality(Marks(t))
  <2>1. Marks(t) \subseteq 1..Len(t)
    BY DEF Marks
  <2>2. shift \in Bijection(Marks(t), shifted)
    BY <1>1, <2>1 DEF Bijection, Injection, Surjection, IsInjective
  <2> QED BY <2>2, MarksType, FS_Bijection DEF ExistsBijection
<1>5. Cardinality(Marks(s) \cap shifted) = 0
  BY <1>3, FS_EmptySet
<1> HIDE DEF shifted
<1>6. IsFiniteSet(Marks(s)) /\ Cardinality(Marks(s)) \in Nat /\ Cardinality(Marks(t)) \in Nat
  BY MarksType
<1>7. Cardinality(Marks(s) \cup shifted) =
        Cardinality(Marks(s)) + Cardinality(shifted) - Cardinality(Marks(s) \cap shifted)
  BY <1>4, <1>6, FS_Union
<1> QED BY <1>2, <1>4, <1>5, <1>6, <1>7

\* The hits of a chunk are a natural number.
LEMMA HitsType ==
    ASSUME NEW c \in [units : Seq(Unit), inside : BOOLEAN, born : Nat]
    PROVE  Hits(c) \in Nat
<1>1. Len(c.units) \in Nat
  OBVIOUS
<1>2. {k \in Ends(c.units) : Kind(c, k) \in Matching} \subseteq 1..Len(c.units)
  BY DEF Ends
<1> QED BY <1>1, <1>2, CountableSet DEF Hits

\* A chunk that splits no line hits as often as it ends a matching line.
LEMMA HitsAreMarks ==
    ASSUME LogConfig,
           NEW c \in [units : Seq(Unit), inside : BOOLEAN, born : Nat],
           ~c.inside,
           c.units # <<>> => c.units[Len(c.units)] # "p"
    PROVE  Hits(c) = Cardinality(Marks(c.units))
<1>1. Len(c.units) \in Nat /\ \A k \in 1..Len(c.units) : c.units[k] \in Unit
  OBVIOUS
<1>2. ASSUME NEW k \in 1..Len(c.units)
      PROVE  k \in Ends(c.units) <=> c.units[k] \in Terminated
  BY <1>1 DEF Ends, Terminated, Unit
<1>3. ASSUME NEW k \in 1..Len(c.units), c.units[k] \in Terminated
      PROVE  Kind(c, k) \in Matching <=> k \in Marks(c.units)
  <2>1. CASE c.units[k] \in {"m", "n"}
    <3>1. Kind(c, k) = c.units[k]
      BY <2>1 DEF Kind
    <3>2. "n" \notin Matching
      BY DEF LogConfig
    <3> QED BY <3>1, <3>2, <2>1 DEF Marks
  <2>2. CASE c.units[k] = "e"
    <3>1. Kind(c, k) = "whole"
      BY <2>2 DEF Kind
    <3> QED BY <3>1, <2>2 DEF Marks
  <2> QED BY <1>3, <2>1, <2>2 DEF Terminated
<1>4. {k \in Ends(c.units) : Kind(c, k) \in Matching} = Marks(c.units)
  <2>1. Ends(c.units) \subseteq 1..Len(c.units) /\ Marks(c.units) \subseteq 1..Len(c.units)
    BY DEF Ends, Marks
  <2>2. \A k \in Marks(c.units) : c.units[k] \in Terminated
    BY DEF Marks, Terminated
  <2> QED BY <1>2, <1>3, <2>1, <2>2
<1> QED BY <1>4 DEF Hits

-----------------------------------------------------------------------------
(* The invariant.                                                          *)

Stats == [inode : Inodes \cup {None}, size : Nat, born : Nat]

\* What os.Stat says of a file at the path, and what is kept of it.
LEMMA StatFacts ==
    ASSUME LogConfig, TypeOK, path # None
    PROVE  /\ path \in Inodes
           /\ FileInfo \in Stats /\ Identity(FileInfo) \in Stats
           /\ FileInfo.inode = path /\ FileInfo.born = born[path]
           /\ FileInfo.size = Len(files[path])
           /\ Identity(FileInfo).inode = path /\ Identity(FileInfo).born = born[path]
           /\ files[path] \in Seq(Unit) /\ Len(files[path]) \in Nat /\ born[path] \in Nat
<1>1. /\ path \in Inodes /\ files[path] \in Seq(Unit) /\ born[path] \in Nat
      /\ Len(files[path]) \in Nat
  BY DEF TypeOK
<1>2. FileInfo = [inode |-> path, size |-> Len(files[path]), born |-> born[path]]
  BY DEF FileInfo
<1>3. Identity(FileInfo) = [inode |-> path, size |-> 0, born |-> born[path]]
  BY <1>2 DEF Identity
<1> QED BY <1>1, <1>2, <1>3 DEF Stats

\* Nothing was seen, read or counted.
LEMMA InitInv == Init => LogInv
<1> SUFFICES ASSUME Init PROVE LogInv
  OBVIOUS
<1> USE LogConfig DEF Init, NoInfo, NoChunk
<1>1. TypeOK
  <2>1. info \in Stats /\ prevInfo \in Stats
    BY DEF Stats
  <2>2. chunk \in [units : Seq(Unit), inside : BOOLEAN, born : Nat] /\ Len(chunk.units) = 0
    OBVIOUS
  <2>3. files \in [Inodes -> Seq(Unit)] /\ born \in [Inodes -> Nat] /\ counted \in Seq(Unit)
    OBVIOUS
  <2>4. writes \in 0..MaxWrites /\ changes \in 0..MaxChanges /\ 0 <= ReadLimit
    BY DEF LogConfig
  <2> QED BY <2>1, <2>2, <2>3, <2>4 DEF TypeOK, Stats, Result
<1>2. PlaceInv /\ BornInv /\ SeenInv /\ ChunkInv /\ LateInv
  BY DEF PlaceInv, BornInv, SeenInv, ChunkInv, LateInv, LogConfig
<1>3. CountedIsFile /\ CountsEveryLineOnce
  <2>1. Cardinality({}) = 0
    BY FS_EmptySet
  <2> QED BY <2>1 DEF CountedIsFile, Known, CountsEveryLineOnce
<1> QED BY <1>1, <1>2, <1>3 DEF LogInv

\* A writer that appends moves nothing that was seen, read or counted.
LEMMA WriterAppendsKeeps ==
    ASSUME LogInv, NEW u \in Unit, WriterAppends(u) PROVE LogInv'
<1> USE LogConfig DEF LogInv, fields, ghosts, WriterAppends
<1>1. path \in Inodes /\ files[path] \in Seq(Unit) /\ Len(files[path]) \in Nat
  BY DEF TypeOK
<1>2. /\ files'[path] = Append(files[path], u)
      /\ Append(files[path], u) \in Seq(Unit)
      /\ Len(files'[path]) = Len(files[path]) + 1
  BY <1>1, AppendProperties DEF TypeOK
<1>3. TypeOK'
  <2>1. files' \in [Inodes -> Seq(Unit)]
    BY <1>1, <1>2 DEF TypeOK
  <2>2. writes' \in 0..MaxWrites
    BY DEF TypeOK
  <2> QED BY <2>1, <2>2 DEF TypeOK
<1>4. PlaceInv' /\ BornInv' /\ LateInv'
  BY DEF PlaceInv, BornInv, LateInv
<1>5. SeenInv'
  BY <1>1, <1>2 DEF SeenInv, TypeOK
<1>6. ChunkInv'
  <2> SUFFICES ASSUME pc = "scan", chunk.born = born[path], chunk.units # <<>>
               PROVE  /\ offset + Len(chunk.units) <= Len(files'[path])
                      /\ chunk.units =
                           SubSeq(files'[path], offset + 1, offset + Len(chunk.units))
    BY DEF ChunkInv
  <2>1. /\ offset + Len(chunk.units) <= Len(files[path])
        /\ chunk.units = SubSeq(files[path], offset + 1, offset + Len(chunk.units))
    BY DEF ChunkInv
  <2>2. offset \in Nat /\ Len(chunk.units) \in Nat /\ offset + Len(chunk.units) \in Nat
    BY DEF TypeOK
  <2> QED BY <1>1, <1>2, <2>1, <2>2, AppendKeeps
<1>7. CountedIsFile'
  <2>1. ASSUME Known PROVE counted = SubSeq(files'[path], base + 1, offset)
    <3>1. offset <= Len(files[path]) /\ base \in Nat /\ offset \in Nat
      BY <2>1 DEF Known, SeenInv, TypeOK
    <3>2. counted = SubSeq(files[path], base + 1, offset)
      BY <2>1 DEF CountedIsFile
    <3> QED BY <1>1, <1>2, <3>1, <3>2, AppendKeeps
  <2> QED BY <2>1 DEF CountedIsFile, Known
<1>8. CountsEveryLineOnce'
  BY DEF CountsEveryLineOnce
<1> QED BY <1>3, <1>4, <1>5, <1>6, <1>7, <1>8

\* A new file at the path is none that anything is known of.
LEMMA NewFileKeeps ==
    ASSUME LogInv, NEW i \in Inodes, NewFile(i) PROVE LogInv'
<1> USE LogConfig DEF LogInv, fields, ghosts, NewFile
<1>1. /\ changes \in Nat /\ changes' = changes + 1
      /\ path' = i /\ i # None /\ born'[i] = changes + 1
      /\ \A j \in Inodes : j # i => born'[j] = born[j]
  BY DEF TypeOK, LogConfig
<1>2. TypeOK'
  <2>1. files' \in [Inodes -> Seq(Unit)] /\ born' \in [Inodes -> Nat]
    BY <1>1 DEF TypeOK
  <2>2. changes' \in 0..MaxChanges
    BY <1>1 DEF TypeOK, LogConfig
  <2> QED BY <2>1, <2>2 DEF TypeOK
<1>3. prevInfo.born \in Nat /\ info.born \in Nat /\ chunk.born \in Nat /\ born \in [Inodes -> Nat]
  BY DEF TypeOK
<1>4. PlaceInv' /\ LateInv'
  BY DEF PlaceInv, LateInv
<1>5. BornInv'
  <2>1. ASSUME NEW j \in Inodes PROVE born'[j] <= changes'
    BY <1>1, <1>3 DEF BornInv
  <2> QED BY <1>1, <1>3, <2>1 DEF BornInv
<1>6. SeenInv' /\ ChunkInv' /\ CountedIsFile'
  BY <1>1, <1>3 DEF BornInv, SeenInv, ChunkInv, CountedIsFile, Known
<1>7. CountsEveryLineOnce'
  BY DEF CountsEveryLineOnce
<1> QED BY <1>2, <1>4, <1>5, <1>6, <1>7

\* Without a file at the path nothing is claimed of one.
LEMMA DeleteKeeps ==
    ASSUME LogInv, Delete PROVE LogInv'
<1> USE LogConfig DEF LogInv, fields, ghosts, Delete
<1>1. changes \in Nat /\ changes' = changes + 1 /\ changes' \in 0..MaxChanges
  BY DEF TypeOK, LogConfig
<1>2. TypeOK'
  BY <1>1 DEF TypeOK
<1>3. BornInv'
  <2>1. /\ prevInfo.born \in Nat /\ info.born \in Nat /\ chunk.born \in Nat
        /\ \A j \in Inodes : born[j] \in Nat
    BY DEF TypeOK
  <2> QED BY <1>1, <2>1 DEF BornInv
<1>4. PlaceInv' /\ SeenInv' /\ ChunkInv' /\ LateInv'
  BY DEF PlaceInv, SeenInv, ChunkInv, LateInv
<1>5. CountedIsFile' /\ CountsEveryLineOnce'
  BY DEF CountedIsFile, Known, CountsEveryLineOnce
<1> QED BY <1>2, <1>3, <1>4, <1>5

-----------------------------------------------------------------------------
(* os.Stat.                                                                *)

\* A file that was not there is remembered until the first one comes.
LEMMA StatMissingKeeps ==
    ASSUME LogInv, StatMissing PROVE LogInv'
<1> USE LogConfig DEF LogInv, disk, StatMissing
<1>1. TypeOK' /\ LateInv'
  BY DEF TypeOK, Result, LateInv
<1>2. PlaceInv' /\ BornInv' /\ SeenInv' /\ ChunkInv'
  BY DEF PlaceInv, BornInv, SeenInv, ChunkInv
<1>3. CountedIsFile' /\ CountsEveryLineOnce'
  BY DEF CountedIsFile, Known, CountsEveryLineOnce
<1> QED BY <1>1, <1>2, <1>3

\* Where the reading of a file begins, the count is empty and about that file.
LEMMA FreshCount ==
    ASSUME NEW from \in Nat, offset' = from, base' = from, counted' = <<>>, matchCount' = 0
    PROVE  CountedIsFile' /\ CountsEveryLineOnce'
<1>1. SubSeq(files'[path'], from + 1, from) = <<>>
  BY SubSeqEmpty
<1>2. Cardinality({}) = 0
  BY FS_EmptySet
<1>3. Len(counted') = 0
  OBVIOUS
<1>4. CountsEveryLineOnce'
  <2>1. Marks(counted') = {}
    BY <1>3 DEF Marks
  <2> QED BY <1>2, <2>1 DEF CountsEveryLineOnce, Marks
<1> QED BY <1>1, <1>4 DEF CountedIsFile

\* After a rotation everything starts over.
LEMMA StatRotatedKeeps ==
    ASSUME LogInv, StatRotated PROVE LogInv'
<1> USE LogConfig DEF LogInv, disk, StatRotated
<1>1. path # None /\ info' = FileInfo /\ prevInfo' = Identity(FileInfo)
  OBVIOUS
<1> USE StatFacts
<1>2. TypeOK'
  <2>1. info' \in Stats /\ prevInfo' \in Stats
    BY <1>1
  <2>2. offset' \in Nat /\ matchCount' \in Nat /\ base' \in Nat /\ counted' \in Seq(Unit)
    OBVIOUS
  <2> QED BY <2>1, <2>2 DEF TypeOK, Stats
<1>3. PlaceInv'
  BY <1>1 DEF PlaceInv
<1>4. BornInv' /\ SeenInv' /\ ChunkInv' /\ LateInv'
  BY <1>1 DEF BornInv, SeenInv, ChunkInv, LateInv
<1>5. CountedIsFile' /\ CountsEveryLineOnce'
  <2>1. counted' = <<>> /\ matchCount' = 0 /\ \E from \in Nat : offset' = from /\ base' = from
    OBVIOUS
  <2> HIDE DEF LogInv, disk, StatRotated
  <2> QED BY <2>1, FreshCount
<1> QED BY <1>2, <1>3, <1>4, <1>5

\* The file that was read so far still reaches to the offset, and if it was replaced
\* behind the check's back then that is noted.
LEMMA StatSameKeeps ==
    ASSUME LogInv, StatSame PROVE LogInv'
<1> USE LogConfig DEF LogInv, disk, StatSame
<1>1. path # None /\ info' = FileInfo /\ prevInfo' = Identity(FileInfo)
  OBVIOUS
<1> USE StatFacts
<1>2. TypeOK'
  <2>1. info' \in Stats /\ prevInfo' \in Stats
    BY <1>1
  <2>2. raced' \in BOOLEAN
    OBVIOUS
  <2> QED BY <2>1, <2>2 DEF TypeOK, Stats
<1>3. PlaceInv'
  BY <1>1 DEF PlaceInv
<1>4. BornInv' /\ ChunkInv' /\ LateInv'
  BY <1>1 DEF BornInv, ChunkInv, LateInv
<1>5. prevInfo.inode = path /\ offset <= Len(files[path])
  <2>1. prevInfo # NoInfo
    BY DEF PlaceInv, NoInfo, LogConfig
  <2> QED BY <2>1 DEF Rotated, TypeOK
<1>6. SeenInv'
  BY <1>1, <1>5 DEF SeenInv
<1>7. CountedIsFile'
  <2>1. Known' => Known
    BY <1>5 DEF Known
  <2> QED BY <2>1 DEF CountedIsFile
<1>8. CountsEveryLineOnce'
  BY DEF CountsEveryLineOnce
<1> QED BY <1>2, <1>3, <1>4, <1>6, <1>7, <1>8

\* The first file is read from its first byte if it was missed before.
LEMMA StatFirstKeeps ==
    ASSUME LogInv, StatFirst PROVE LogInv'
<1> USE LogConfig DEF LogInv, disk, StatFirst
<1>1. path # None /\ info' = FileInfo /\ prevInfo' = Identity(FileInfo)
  OBVIOUS
<1> USE StatFacts
<1>2. offset' \in Nat /\ base' = offset' /\ offset' <= Len(files[path])
  OBVIOUS
<1>3. TypeOK'
  <2>1. info' \in Stats /\ prevInfo' \in Stats
    BY <1>1
  <2> QED BY <1>2, <2>1 DEF TypeOK, Stats
<1>4. PlaceInv'
  BY <1>1 DEF PlaceInv
<1>5. BornInv' /\ SeenInv' /\ ChunkInv' /\ LateInv'
  BY <1>1, <1>2 DEF BornInv, SeenInv, ChunkInv, LateInv
<1>6. CountedIsFile' /\ CountsEveryLineOnce'
  <2>1. counted' = <<>> /\ matchCount' = 0 /\ \E from \in Nat : offset' = from /\ base' = from
    BY <1>2 DEF PlaceInv
  <2> HIDE DEF LogInv, disk, StatFirst
  <2> QED BY <2>1, FreshCount
<1> QED BY <1>3, <1>4, <1>5, <1>6

-----------------------------------------------------------------------------
(* The tail, the read and the scan.                                        *)

\* The last lines begin somewhere in the file that os.Stat saw, if it is still there.
LEMMA TailOffsetKeeps ==
    ASSUME LogInv, TailOffset PROVE LogInv'
<1> USE LogConfig DEF LogInv, disk, TailOffset
<1>1. info \in Stats /\ info.inode \in Inodes /\ info.size \in Nat
  BY DEF TypeOK, PlaceInv, Stats
<1>2. Identity(info) \in Stats /\ Identity(info).inode = info.inode
      /\ Identity(info).born = info.born
  BY <1>1 DEF Identity, Stats
<1>3. /\ base' = offset' /\ offset' \in Nat
      /\ path # None /\ info.inode = path /\ info.born = born[path] =>
           offset' <= Len(files[path])
  <2> DEFINE from == IF info.size > TailLimit THEN info.size - TailLimit ELSE 0
             read == ReadFrom(from, TailLimit)
  <2>1. CASE info.size = 0
    BY <2>1, StatFacts
  <2>2. CASE info.size # 0
    <3>1. path # None /\ from \in Nat /\ from <= info.size
      BY <1>1, <2>2 DEF LogConfig
    <3>2. /\ read \in Seq(Unit)
          /\ read # <<>> => from + Len(read) <= Len(files[path])
      BY <3>1, ReadFromBehind DEF LogConfig
    <3> HIDE DEF from, read
    <3>3. offset' = FindTailStart(read, from, TailLines) /\ base' = offset'
      BY <2>2 DEF from, read
    <3>4. offset' \in Nat /\ offset' <= from + Len(read)
      BY <3>1, <3>2, <3>3, TailStartBound DEF LogConfig
    <3>5. info.inode = path /\ info.born = born[path] => from <= Len(files[path])
      BY <1>1, <3>1, StatFacts DEF SeenInv
    <3>6. Len(read) \in Nat /\ (read = <<>> => Len(read) = 0)
      BY <3>2
    <3> QED BY <3>1, <3>2, <3>3, <3>4, <3>5, <3>6, StatFacts
  <2> QED BY <2>1, <2>2
<1>4. TypeOK'
  <2>1. prevInfo' \in Stats /\ raced' \in BOOLEAN
    BY <1>2
  <2>2. initialized' /\ ~missingInit'
    BY DEF PlaceInv
  <2> QED BY <1>3, <2>1, <2>2 DEF TypeOK, Stats
<1>5. PlaceInv'
  BY <1>1, <1>2 DEF PlaceInv
<1>6. BornInv' /\ ChunkInv' /\ LateInv'
  BY <1>2 DEF BornInv, ChunkInv, LateInv, PlaceInv
<1>7. SeenInv'
  BY <1>2, <1>3 DEF SeenInv
<1>8. CountedIsFile' /\ CountsEveryLineOnce'
  <2>1. counted' = <<>> /\ matchCount' = 0 /\ \E from \in Nat : offset' = from /\ base' = from
    BY <1>3 DEF PlaceInv
  <2> HIDE DEF LogInv, disk, TailOffset
  <2> QED BY <2>1, FreshCount
<1> QED BY <1>4, <1>5, <1>6, <1>7, <1>8

\* What was read lies behind the offset.
LEMMA OpenKeeps ==
    ASSUME LogInv, Open PROVE LogInv'
<1> USE LogConfig DEF LogInv, disk, fields, ghosts, Open
<1> DEFINE read == ReadFrom(offset, ReadLimit)
<1>1. /\ read \in Seq(Unit) /\ Len(read) <= ReadLimit
      /\ read # <<>> => /\ offset + Len(read) <= Len(files[path])
                        /\ read = SubSeq(files[path], offset + 1, offset + Len(read))
  BY ReadFromBehind DEF LogConfig, TypeOK
<1>2. /\ chunk'.units = read /\ chunk'.born = born[path]
      /\ chunk' \in [units : Seq(Unit), inside : BOOLEAN, born : Nat]
  <2>1. InsideLine(files[path], offset) \in BOOLEAN
    BY DEF InsideLine
  <2> HIDE DEF read
  <2> QED BY <1>1, <2>1, StatFacts DEF read
<1> HIDE DEF read
<1>3. TypeOK'
  BY <1>1, <1>2 DEF TypeOK
<1>4. PlaceInv' /\ LateInv'
  BY DEF PlaceInv, LateInv
<1>5. BornInv'
  <2>1. path \in Inodes
    BY DEF TypeOK
  <2> QED BY <1>2, <2>1 DEF BornInv
<1>6. SeenInv'
  BY DEF SeenInv
<1>7. ChunkInv'
  BY <1>1, <1>2 DEF ChunkInv
<1>8. CountedIsFile' /\ CountsEveryLineOnce'
  BY DEF CountedIsFile, Known, CountsEveryLineOnce
<1> QED BY <1>3, <1>4, <1>5, <1>6, <1>7, <1>8

\* A scan that ends adds what it read to the count and to the offset alike.
LEMMA ScanDoneKeeps ==
    ASSUME LogInv, ScanDone PROVE LogInv'
<1> USE LogConfig DEF LogInv, disk, ScanDone
<1> DEFINE read == chunk.units
<1>1. /\ read \in Seq(Unit) /\ Len(read) \in Nat /\ counted \in Seq(Unit)
      /\ offset \in Nat /\ base \in Nat
      /\ chunk \in [units : Seq(Unit), inside : BOOLEAN, born : Nat]
  BY DEF TypeOK
<1>2. Hits(chunk) \in Nat
  BY <1>1, HitsType
<1>3. TypeOK'
  <2>1. chunk' \in [units : Seq(Unit), inside : BOOLEAN, born : Nat] /\ Len(chunk'.units) = 0
    BY DEF NoChunk
  <2>2. info' \in Stats
    BY DEF NoInfo, Stats
  <2>3. counted' \in Seq(Unit) /\ matchCount' \in Nat /\ offset' \in Nat
    BY <1>1, <1>2 DEF TypeOK
  <2>4. raced' \in BOOLEAN /\ split' \in BOOLEAN /\ result' \in Result
    BY DEF TypeOK, Result
  <2>5. 0 <= ReadLimit
    BY DEF LogConfig
  <2> QED BY <2>1, <2>2, <2>3, <2>4, <2>5 DEF TypeOK, Stats
<1>4. PlaceInv'
  <2>1. initialized /\ prevInfo.inode \in Inodes
    BY DEF PlaceInv, Identity, TypeOK
  <2>2. pc' = "stat" /\ info' = NoInfo /\ chunk' = NoChunk
        /\ UNCHANGED <<prevInfo, initialized, missingInit>>
    OBVIOUS
  <2> HIDE DEF ScanDone
  <2> QED BY <2>1, <2>2 DEF PlaceInv
<1>5. BornInv' /\ ChunkInv' /\ LateInv'
  BY DEF BornInv, ChunkInv, LateInv, NoInfo, NoChunk, TypeOK
<1>6. ASSUME path # None, prevInfo.inode = path, prevInfo.born = born[path], read # <<>>
      PROVE  /\ offset + Len(read) <= Len(files[path])
             /\ read = SubSeq(files[path], offset + 1, offset + Len(read))
  <2>1. prevInfo.born = info.born
    BY DEF PlaceInv, Identity, TypeOK
  <2>2. chunk.born = born[path]
    BY <1>6, <2>1, StatFacts DEF BornInv, TypeOK
  <2> QED BY <1>6, <2>2 DEF ChunkInv
<1>7. read = <<>> => Len(read) = 0
  OBVIOUS
<1>8. SeenInv'
  <2>1. ASSUME path # None, initialized, prevInfo.inode = path, prevInfo.born = born[path]
        PROVE  offset + Len(read) <= Len(files[path])
    BY <1>1, <1>6, <1>7, <2>1, StatFacts DEF SeenInv
  <2>2. base' <= offset'
    BY <1>1 DEF SeenInv
  <2> QED BY <2>1, <2>2 DEF SeenInv
<1>9. CountedIsFile'
  <2> SUFFICES ASSUME Known
               PROVE  counted \o read = SubSeq(files[path], base + 1, offset + Len(read))
    BY DEF CountedIsFile, Known
  <2>1. counted = SubSeq(files[path], base + 1, offset)
    BY DEF CountedIsFile
  <2>2. base <= offset /\ offset <= Len(files[path]) /\ files[path] \in Seq(Unit)
    BY StatFacts DEF SeenInv, Known
  <2>3. CASE read = <<>>
    BY <1>1, <1>7, <2>1, <2>3, ConcatEmptySeq
  <2>4. CASE read # <<>>
    <3>1. /\ offset + Len(read) <= Len(files[path])
          /\ read = SubSeq(files[path], offset + 1, offset + Len(read))
      BY <1>6, <2>4 DEF Known
    <3> HIDE DEF read
    <3>2. /\ base + 1 \in 1..Len(files[path]) + 1
          /\ offset \in base..Len(files[path])
          /\ offset + Len(read) \in offset..Len(files[path])
      BY <1>1, <2>2, <3>1
    <3>3. offset \in (base + 1) - 1..Len(files[path])
      BY <1>1, <3>2
    <3>4. SubSeq(files[path], base + 1, offset)
            \o SubSeq(files[path], offset + 1, offset + Len(read))
            = SubSeq(files[path], base + 1, offset + Len(read))
      BY <2>2, <3>2, <3>3, ConcatAdjacentSubSeq
    <3> QED BY <2>1, <3>1, <3>4
  <2> QED BY <2>3, <2>4
<1>10. CountsEveryLineOnce'
  <2> SUFFICES ASSUME ~split' PROVE matchCount + Hits(chunk) = Cardinality(Marks(counted \o read))
    BY DEF CountsEveryLineOnce, Marks
  <2>1. matchCount = Cardinality(Marks(counted))
    BY DEF CountsEveryLineOnce, Marks
  <2>2. Hits(chunk) = Cardinality(Marks(read))
    <3>1. CASE read = <<>>
      <4>1. {k \in Ends(read) : Kind(chunk, k) \in Matching} = {} /\ Marks(read) = {}
        BY <3>1 DEF Ends, Marks
      <4> QED BY <4>1 DEF Hits
    <3>2. CASE read # <<>>
      <4>1. ~chunk.inside /\ read[Len(read)] # "p"
        BY <3>2
      <4> QED BY <1>1, <4>1, HitsAreMarks
    <3> QED BY <3>1, <3>2
  <2> QED BY <1>1, <2>1, <2>2, MarksOfConcat
<1> QED BY <1>3, <1>4, <1>5, <1>8, <1>9, <1>10

\* A step of the check that gives up leaves the fields as they are.
LEMMA GivesUpKeeps ==
    ASSUME LogInv,
           pc' = "stat", info' = NoInfo, chunk' = NoChunk, result' = "unsatisfied",
           UNCHANGED <<disk, start, fields, ghosts>>
    PROVE  LogInv'
<1> USE LogConfig DEF LogInv, disk, fields, ghosts
<1>1. TypeOK'
  <2>1. chunk' \in [units : Seq(Unit), inside : BOOLEAN, born : Nat] /\ Len(chunk'.units) = 0
    BY DEF NoChunk
  <2>2. info' \in Stats /\ result' \in Result /\ 0 <= ReadLimit
    BY DEF NoInfo, Stats, Result, LogConfig
  <2> QED BY <2>1, <2>2 DEF TypeOK, Stats
<1>2. PlaceInv'
  BY DEF PlaceInv, NoInfo, LogConfig
<1>3. BornInv' /\ SeenInv' /\ ChunkInv' /\ LateInv'
  BY DEF BornInv, SeenInv, ChunkInv, LateInv, NoInfo, NoChunk, TypeOK
<1>4. CountedIsFile' /\ CountsEveryLineOnce'
  BY DEF CountedIsFile, Known, CountsEveryLineOnce
<1> QED BY <1>1, <1>2, <1>3, <1>4

\* A file whose last lines are wanted is only noted.
LEMMA StatTailKeeps ==
    ASSUME LogInv, StatTail PROVE LogInv'
<1> USE LogConfig DEF LogInv, disk, fields, ghosts, StatTail
<1>1. TypeOK'
  BY StatFacts DEF TypeOK, Stats
<1>2. PlaceInv' /\ BornInv' /\ SeenInv' /\ ChunkInv' /\ LateInv'
  BY StatFacts DEF PlaceInv, BornInv, SeenInv, ChunkInv, LateInv
<1>3. CountedIsFile' /\ CountsEveryLineOnce'
  BY DEF CountedIsFile, Known, CountsEveryLineOnce
<1> QED BY <1>1, <1>2, <1>3

\* Every step of the writers and of the check preserves LogInv.
LEMMA StepInv == LogInv /\ [Next]_vars => LogInv'
<1> SUFFICES ASSUME LogInv, [Next]_vars PROVE LogInv'
  OBVIOUS
<1>1. CASE UNCHANGED vars
  BY <1>1 DEF vars, disk, fields, ghosts, LogInv, TypeOK, PlaceInv, BornInv, SeenInv, ChunkInv,
             LateInv, CountedIsFile, Known, CountsEveryLineOnce
<1>2. CASE Environment
  BY <1>2, WriterAppendsKeeps, NewFileKeeps, DeleteKeeps DEF Environment
<1>3. CASE Stat
  BY <1>3, StatMissingKeeps, StatRotatedKeeps, StatSameKeeps, StatFirstKeeps, StatTailKeeps DEF Stat
<1>4. CASE CheckFails \/ TailMissing \/ OpenMissing \/ ScanAborted
  <2>1. /\ result' = "unsatisfied" /\ pc' = "stat"
        /\ UNCHANGED <<disk, start, fields, ghosts>>
    BY <1>4 DEF CheckFails, TailMissing, OpenMissing, ScanAborted
  <2>2. info' = NoInfo
    BY <1>4 DEF CheckFails, TailMissing, OpenMissing, ScanAborted, LogInv, PlaceInv
  <2>3. chunk' = NoChunk
    BY <1>4 DEF CheckFails, TailMissing, OpenMissing, ScanAborted, LogInv, PlaceInv
  <2> QED BY <2>1, <2>2, <2>3, GivesUpKeeps
<1>5. CASE TailOffset \/ Open \/ ScanDone
  BY <1>5, TailOffsetKeeps, OpenKeeps, ScanDoneKeeps
<1> QED BY <1>1, <1>2, <1>3, <1>4, <1>5 DEF Next, Check

-----------------------------------------------------------------------------
\* In every reachable state, what the check remembers, what it is reading and what it
\* has counted agree with the files that its writers replaced meanwhile.
THEOREM LogInvariant == Spec => []LogInv
  BY InitInv, StepInv, PTL DEF Spec

\* The variables keep their types, and no read is longer than its limit.
THEOREM TypeCorrect == Spec => []TypeOK
<1>1. LogInv => TypeOK
  BY DEF LogInv
<1> QED BY <1>1, LogInvariant, PTL

\* The count is about one stretch of one file up to the offset: no unit of it is
\* skipped or read twice, however the file is replaced between the steps of a check,
\* unless by one that os.SameFile and the size cannot tell (readNewContent, scanLines).
THEOREM CountSound == Spec => []CountedIsFile
<1>1. LogInv => CountedIsFile
  BY DEF LogInv
<1> QED BY <1>1, LogInvariant, PTL

\* A file that came after the wait had started is read from its first byte
\* (missingInit, resetOnRotation).
THEOREM LateFileRead == Spec => []NewFileReadWhole
<1>1. LogInv => NewFileReadWhole
  <2> SUFFICES ASSUME LogInv, Known, late PROVE counted = SubSeq(files[path], 1, offset)
    BY DEF NewFileReadWhole
  <2>1. base = 0
    BY DEF LogInv, LateInv, Known
  <2> QED BY <2>1 DEF LogInv, CountedIsFile
<1> QED BY <1>1, LogInvariant, PTL

\* Every matching line among what was read is counted once, while no read begins or
\* ends inside a line (scanLines).
THEOREM LinesCounted == Spec => []CountsEveryLineOnce
<1>1. LogInv => CountsEveryLineOnce
  BY DEF LogInv
<1> QED BY <1>1, LogInvariant, PTL

\* A check that goes on from os.Stat with what it counted before was told nothing by the
\* inode and the size (resetOnRotation).
LEMMA HiddenReplacement ==
    ASSUME LogConfig, LogInv, [Next]_vars, pc = "stat", pc' = "open", raced'
    PROVE  path = prevInfo.inode /\ offset <= Len(files[path])
<1>1. TypeOK /\ (~initialized => ~raced)
  BY DEF LogInv, PlaceInv
<1>2. StatRotated \/ StatSame \/ StatFirst
  BY DEF Next, Environment, Check, Stat, vars, WriterAppends, NewFile, Delete, StatMissing,
         StatTail, CheckFails, TailOffset, TailMissing, Open, OpenMissing, ScanDone, ScanAborted
<1>3. StatSame
  BY <1>1, <1>2 DEF StatRotated, StatFirst
<1>4. path # None /\ initialized /\ ~Rotated(FileInfo)
  BY <1>3 DEF StatSame
<1>5. prevInfo # NoInfo
  BY <1>1, <1>4, LogConfig DEF LogInv, PlaceInv, NoInfo, LogConfig
<1> QED BY <1>1, <1>4, <1>5, StatFacts DEF Rotated, TypeOK

\* The offset goes back only when the file at the path is not the one that was read, and
\* a count goes on only over replacements that nothing shows (resetOnRotation).
THEOREM NeverRereads == Spec => RereadsReplacedFiles
<1> DEFINE Replaced == offset' < offset => Identity(FileInfo) # prevInfo
<1>1. LogInv /\ [Next]_vars => [Replaced]_vars
  <2> SUFFICES ASSUME LogInv, [Next]_vars, offset' < offset
               PROVE  Identity(FileInfo) # prevInfo
    OBVIOUS
  <2> USE LogConfig
  <2>1. offset \in Nat /\ TypeOK /\ (~initialized => offset = 0)
    BY DEF LogInv, TypeOK, PlaceInv
  <2>2. CASE StatRotated
    <3>1. path # None /\ prevInfo # NoInfo /\ (path # prevInfo.inode \/ Len(files[path]) < offset)
      BY <2>1, <2>2, StatFacts DEF StatRotated, Rotated
    <3>2. initialized
      BY <3>1 DEF LogInv, PlaceInv
    <3>3. prevInfo.inode = path => prevInfo.born # born[path]
      BY <2>1, <3>1, <3>2, StatFacts DEF LogInv, SeenInv
    <3> QED BY <2>1, <3>1, <3>3, StatFacts
  <2>3. CASE StatFirst \/ TailOffset
    <3>1. ~initialized
      BY <2>3 DEF StatFirst, TailOffset, LogInv, PlaceInv
    <3>2. LogInv'
      BY StepInv
    <3>3. offset' \in Nat
      BY <3>2 DEF LogInv, TypeOK
    <3> QED BY <2>1, <3>1, <3>3
  <2>4. CASE ScanDone
    <3>1. offset' = offset + Len(chunk.units) /\ Len(chunk.units) \in Nat
      BY <2>1, <2>4 DEF ScanDone, TypeOK
    <3> QED BY <2>1, <3>1
  <2>5. ASSUME UNCHANGED offset PROVE FALSE
    BY <2>1, <2>5
  <2> QED
    BY <2>2, <2>3, <2>4, <2>5
       DEF Next, Environment, Check, Stat, vars, fields, WriterAppends, NewFile, Delete,
           StatMissing, StatSame, StatTail, CheckFails, TailMissing, Open, OpenMissing, ScanAborted
<1> DEFINE Hidden == pc = "stat" /\ pc' = "open" /\ raced' =>
                      path = prevInfo.inode /\ offset <= Len(files[path])
<1>2. LogInv /\ [Next]_vars => [Hidden]_vars
  BY HiddenReplacement, LogConfig
<1>3. LogInv /\ [Next]_vars => [Replaced /\ Hidden]_vars
  BY <1>1, <1>2
<1> QED BY <1>3, LogInvariant, PTL DEF Spec, RereadsReplacedFiles
=============================================================================
