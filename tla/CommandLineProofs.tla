------------------------- MODULE CommandLineProofs -------------------------
(***************************************************************************)
(* Proofs about CommandLine, for any line, flags and names: no argument is *)
(* lost between the line and its segments (SplitInv), and a plain line of  *)
(* the grammar is cut and read as it was written (LinesInv).               *)
(***************************************************************************)
EXTENDS CommandLine, SequenceTheorems, WellFoundedInduction, TLAPS

-----------------------------------------------------------------------------
(* Induction over numbers, as a fact about sets.                           *)

Before == {ss \in Nat \X Nat : ss[1] < ss[2]}

\* The numbers are well-founded, with the relation written as a set.
LEMMA BeforeIsWellFounded == IsWellFoundedOn(Before, Nat)
  BY NatLessThanWellFounded DEF OpToRel, Before

\* A set of numbers that has 0 and the successor of each of its members has them all.
LEMMA SetInduction ==
    ASSUME NEW T, 0 \in T, \A n \in T \cap Nat : n + 1 \in T
    PROVE  \A n \in Nat : n \in T
<1>1. SUFFICES ASSUME Nat \ T # {} PROVE FALSE
  OBVIOUS
<1>2. PICK x \in Nat \ T : \A y \in Nat \ T : ~(<<y, x>> \in Before)
  BY <1>1, BeforeIsWellFounded, WFMin
<1>3. x # 0 /\ x - 1 \in Nat /\ <<x - 1, x>> \in Before
  BY <1>2 DEF Before
<1>4. x - 1 \in T
  BY <1>2, <1>3
<1>5. (x - 1) + 1 \in T
  BY <1>3, <1>4
<1> QED
  BY <1>2, <1>5

-----------------------------------------------------------------------------
(* Joined and ConditionName are what their recursive functions say.        *)

Words == Seq(STRING)

\* The lines joined from the first parts, up to the n-th.
JoinsInto(parts, n, g) ==
    /\ g[0] = <<>>
    /\ \A k \in 1..n : g[k] = JoinedWith(g[k - 1], parts[k])

Joins(parts, n, g) == g \in [0..n -> Words] /\ JoinsInto(parts, n, g)

\* One more part makes one more line.
LEMMA JoinedWithWords ==
    ASSUME NEW line \in Words, NEW part \in Words
    PROVE  JoinedWith(line, part) \in Words
<1>1. <<"--">> \in Words
  BY LineConfig DEF LineConfig, Words
<1> QED BY <1>1, ConcatProperties DEF Words, JoinedWith

\* The parts of a line can be joined one after the other.
LEMMA JoinsExist ==
    ASSUME NEW parts \in Seq(Words)
    PROVE  \E g : Joins(parts, Len(parts), g)
<1> DEFINE T == {n \in Nat : n <= Len(parts) => \E g : Joins(parts, n, g)}
<1>1. 0 \in T
  <2>1. Joins(parts, 0, [k \in 0..0 |-> <<>>])
    BY EmptySeq DEF Joins, JoinsInto, Words
  <2> QED BY <2>1
<1>2. ASSUME NEW n \in T \cap Nat PROVE n + 1 \in T
  <2>1. CASE n + 1 <= Len(parts)
    <3>1. PICK g : Joins(parts, n, g)
      BY <1>2, <2>1, LenProperties
    <3> DEFINE h == [k \in 0..n + 1 |-> IF k = n + 1 THEN JoinedWith(g[n], parts[n + 1]) ELSE g[k]]
    <3>2. parts[n + 1] \in Words /\ g[n] \in Words
      BY <2>1, <3>1, ElementOfSeq DEF Joins, JoinsInto
    <3>3. h \in [0..n + 1 -> Words]
      BY <3>1, <3>2, JoinedWithWords DEF Joins, JoinsInto
    <3>4. \A k \in 0..n : h[k] = g[k]
      OBVIOUS
    <3>5. h[n + 1] = JoinedWith(h[n], parts[n + 1])
      BY <3>4
    <3>6. ASSUME NEW k \in 1..n + 1 PROVE h[k] = JoinedWith(h[k - 1], parts[k])
      <4>1. CASE k = n + 1
        BY <3>5, <4>1
      <4>2. CASE k # n + 1
        <5>1. k \in 1..n /\ k \in 0..n /\ k - 1 \in 0..n
          BY <4>2
        <5>2. g[k] = JoinedWith(g[k - 1], parts[k])
          BY <3>1, <5>1 DEF Joins, JoinsInto
        <5>3. h[k] = g[k] /\ h[k - 1] = g[k - 1]
          BY <3>4, <5>1
        <5> HIDE DEF h
        <5> QED BY <5>2, <5>3
      <4> QED BY <4>1, <4>2
    <3>7. h[0] = <<>>
      BY <3>1, <3>4 DEF Joins, JoinsInto
    <3> HIDE DEF h
    <3>8. Joins(parts, n + 1, h)
      BY <3>3, <3>6, <3>7 DEF Joins, JoinsInto
    <3> QED BY <3>8
  <2> QED BY <2>1
<1> HIDE DEF T
<1>3. \A n \in Nat : n \in T
  BY <1>1, <1>2, SetInduction
<1> QED BY <1>3, LenProperties DEF T

\* There is one way to join them.
LEMMA JoinsAgree ==
    ASSUME NEW p, NEW q, NEW n \in Nat, NEW m \in Nat, NEW g, NEW h, n <= m,
           \A k \in 1..n : p[k] = q[k], JoinsInto(p, n, g), JoinsInto(q, m, h)
    PROVE  g[n] = h[n]
<1> USE DEF JoinsInto
<1> DEFINE T == {k \in Nat : k <= n => g[k] = h[k]}
<1>1. 0 \in T
  OBVIOUS
<1>2. ASSUME NEW k \in T \cap Nat PROVE k + 1 \in T
  <2>1. CASE k + 1 <= n
    <3>1. k + 1 \in 1..n /\ k + 1 \in 1..m /\ (k + 1) - 1 = k /\ g[k] = h[k]
      BY <1>2, <2>1
    <3>2. g[k + 1] = JoinedWith(g[k], p[k + 1]) /\ h[k + 1] = JoinedWith(h[k], q[k + 1])
      BY <3>1
    <3> QED BY <3>1, <3>2
  <2> QED BY <2>1
<1> HIDE DEF T
<1>3. \A k \in Nat : k \in T
  BY <1>1, <1>2, SetInduction
<1> QED BY <1>3 DEF T

\* Joined gives the last of these lines.
LEMMA JoinedIs ==
    ASSUME NEW parts \in Seq(Words), NEW g, Joins(parts, Len(parts), g)
    PROVE  Joined(parts) = g[Len(parts)]
<1> DEFINE L == Len(parts)
           Next(f) == [k \in 0..L |-> IF k = 0 THEN <<>> ELSE JoinedWith(f[k - 1], parts[k])]
           chosen == CHOOSE f : f = Next(f)
<1>1. L \in Nat
  BY LenProperties
<1> HIDE DEF L
<1>2. g = Next(g)
  BY <1>1 DEF Joins, JoinsInto, L
<1>3. chosen = Next(chosen)
  BY <1>2
<1>4. Joined(parts) = chosen[L]
  BY DEF Joined, L
<1> HIDE DEF chosen
<1>5. JoinsInto(parts, L, chosen)
  BY <1>1, <1>3 DEF JoinsInto
<1>6. JoinsInto(parts, L, g)
  BY DEF Joins, L
<1>7. g[L] = chosen[L]
  BY <1>1, <1>5, <1>6, JoinsAgree
<1> QED BY <1>4, <1>7 DEF L

\* A line is a list of words, and one more part is joined to what was there.
LEMMA JoinedAppend ==
    ASSUME NEW parts \in Seq(Words), NEW part \in Words
    PROVE  /\ Joined(parts) \in Words
           /\ Joined(Append(parts, part)) = JoinedWith(Joined(parts), part)
<1> DEFINE more == Append(parts, part)
           L == Len(parts)
<1>1. /\ more \in Seq(Words) /\ L \in Nat /\ Len(more) = L + 1 /\ more[L + 1] = part
      /\ \A k \in 1..L : more[k] = parts[k]
  BY AppendProperties, LenProperties
<1> HIDE DEF more
<1>2. PICK g : Joins(parts, L, g)
  BY JoinsExist
<1>3. PICK h : Joins(more, L + 1, h)
  BY <1>1, JoinsExist
<1>4. Joined(parts) = g[L] /\ Joined(more) = h[L + 1]
  BY <1>1, <1>2, <1>3, JoinedIs
<1>5. g[L] = h[L]
  <2>1. JoinsInto(parts, L, g) /\ JoinsInto(more, L + 1, h)
    BY <1>2, <1>3 DEF Joins
  <2>2. L + 1 \in Nat /\ L <= L + 1 /\ \A k \in 1..L : parts[k] = more[k]
    BY <1>1
  <2> HIDE DEF L
  <2> QED BY <1>1, <2>1, <2>2, JoinsAgree
<1>6. h[L + 1] = JoinedWith(h[L], part) /\ g[L] \in Words
  <2>1. L + 1 \in 1..L + 1 /\ (L + 1) - 1 = L /\ L \in 0..L
    BY <1>1
  <2> QED BY <1>1, <1>2, <1>3, <2>1 DEF Joins, JoinsInto
<1> QED BY <1>4, <1>5, <1>6 DEF more

\* Nothing is joined from nothing.
LEMMA JoinedNone == Joined(<<>>) = <<>>
<1>1. <<>> \in Seq(Words) /\ Len(<<>>) = 0
  BY EmptySeq
<1>2. PICK g : Joins(<<>>, 0, g)
  BY <1>1, JoinsExist
<1> QED BY <1>1, <1>2, JoinedIs DEF Joins, JoinsInto

\* What is joined is longer than what was there by the part, and by a -- unless it is the first.
LEMMA JoinedWithPositions ==
    ASSUME NEW line \in Words, NEW part \in Words, line # <<>>
    PROVE  /\ Len(JoinedWith(line, part)) = Len(line) + 1 + Len(part)
           /\ \A i \in 1..Len(line) : JoinedWith(line, part)[i] = line[i]
           /\ JoinedWith(line, part)[Len(line) + 1] = "--"
           /\ \A i \in 1..Len(part) : JoinedWith(line, part)[Len(line) + 1 + i] = part[i]
<1> DEFINE head == line \o <<"--">>
<1>1. <<"--">> \in Words /\ Len(<<"--">>) = 1 /\ <<"--">>[1] = "--"
  BY LineConfig DEF LineConfig, Words
<1>2. JoinedWith(line, part) = head \o part
  BY DEF JoinedWith
<1>3. /\ head \in Words /\ Len(head) = Len(line) + 1
      /\ \A i \in 1..Len(line) + 1 : head[i] = IF i <= Len(line) THEN line[i] ELSE <<"--">>[i - Len(line)]
  BY <1>1, ConcatProperties DEF Words
<1>4. Len(line) \in Nat /\ Len(part) \in Nat
  BY LenProperties DEF Words
<1>5. (Len(line) + 1) - Len(line) = 1
  BY <1>4
<1>6. head[Len(line) + 1] = "--" /\ \A i \in 1..Len(line) : head[i] = line[i]
  BY <1>1, <1>3, <1>4, <1>5
<1> HIDE DEF head
<1>7. /\ Len(head \o part) = Len(line) + 1 + Len(part)
      /\ \A i \in 1..Len(line) + 1 + Len(part) :
            (head \o part)[i] = IF i <= Len(line) + 1 THEN head[i] ELSE part[i - (Len(line) + 1)]
  <2>1. /\ Len(head \o part) = Len(head) + Len(part)
        /\ \A i \in 1..Len(head) + Len(part) :
              (head \o part)[i] = IF i <= Len(head) THEN head[i] ELSE part[i - Len(head)]
    <3>1. head \in Seq(STRING) /\ part \in Seq(STRING)
      BY <1>3 DEF Words
    <3> QED BY <3>1, ConcatProperties, Zenon
  <2> QED BY <1>3, <2>1
<1>8. ASSUME NEW i \in 1..Len(part) PROVE (head \o part)[Len(line) + 1 + i] = part[i]
  <2>1. /\ Len(line) + 1 + i \in 1..Len(line) + 1 + Len(part)
        /\ ~(Len(line) + 1 + i <= Len(line) + 1) /\ Len(line) + 1 + i - (Len(line) + 1) = i
    BY <1>4
  <2> QED BY <1>7, <2>1
<1> QED BY <1>2, <1>4, <1>6, <1>7, <1>8

\* A word more in the last part is a word more in the line.
LEMMA JoinedLonger ==
    ASSUME NEW line \in Words, NEW part \in Words, NEW word \in STRING, part # <<>>
    PROVE  JoinedWith(line, Append(part, word)) = Append(JoinedWith(line, part), word)
<1>1. <<"--">> \in Words /\ <<word>> \in Words
  BY LineConfig DEF LineConfig, Words
<1>2. Append(part, word) = part \o <<word>>
  BY AppendIsConcat DEF Words
<1>3. CASE line = <<>>
  BY <1>3 DEF JoinedWith
<1>4. CASE line # <<>>
  <2>1. line \o <<"--">> \in Words
    BY <1>1, ConcatProperties DEF Words
  <2>2. (line \o <<"--">>) \o part \in Words
    BY <2>1, ConcatProperties DEF Words
  <2>3. (line \o <<"--">>) \o (part \o <<word>>) = ((line \o <<"--">>) \o part) \o <<word>>
    BY <1>1, <2>1, ConcatAssociative DEF Words
  <2>4. ((line \o <<"--">>) \o part) \o <<word>> = Append((line \o <<"--">>) \o part, word)
    BY <2>2, AppendIsConcat DEF Words
  <2> QED BY <1>2, <1>4, <2>3, <2>4 DEF JoinedWith
<1> QED BY <1>3, <1>4

\* The first words of a line, one at a time.
LEMMA FirstWords ==
    ASSUME NEW line \in Words, NEW n \in 0..Len(line)
    PROVE  /\ SubSeq(line, 1, n) \in Words /\ Len(SubSeq(line, 1, n)) = n
           /\ \A i \in 1..n : SubSeq(line, 1, n)[i] = line[i]
           /\ n < Len(line) => /\ line[n + 1] \in STRING
                              /\ SubSeq(line, 1, n + 1) = Append(SubSeq(line, 1, n), line[n + 1])
           /\ n = Len(line) => SubSeq(line, 1, n) = line
<1>1. Len(line) \in Nat
  BY LenProperties DEF Words
<1> QED BY <1>1 DEF Words

-----------------------------------------------------------------------------
(* No argument is lost.                                                    *)

\* What the loop of splitConditionSegments has in its variables: the segments and the
\* current one, joined, are the arguments it has seen.
Cut ==
    /\ segments = <<>> \/ Joined(segments) # <<>>
    /\ current # <<>> => Joined(Append(segments, current)) = SubSeq(args, 1, at - 1)
    /\ current = <<>> /\ segments = <<>> => at = 1
    /\ current = <<>> /\ segments # <<>> =>
           /\ at > 2 /\ IsConditionStart(at) /\ args[at - 1] = "--"
           /\ Joined(segments) = SubSeq(args, 1, at - 2)

SplitInv ==
    /\ phase \in {"typing", "splitting", "parsing", "accepted", "refused"}
    /\ phase = "typing" => at = 1 /\ current = <<>> /\ segments = <<>> /\ parsed = <<>>
    /\ phase \in {"splitting", "parsing"} =>
           /\ args \in Words /\ args # <<>> /\ args[1] # "--"
           /\ at \in 1..Len(args) + 1
           /\ current \in Words /\ segments \in Seq(Words)
    /\ phase = "splitting" => Cut
    /\ phase = "parsing" => current = <<>> /\ at = Len(args) + 1 /\ Joined(segments) = args

\* The name of a condition that has none.
Unnamed == ""

\* The parts of a condition behind guard: its own words with its name, and its command.
Named(c) == c.words \o (IF c.name = Unnamed THEN <<>> ELSE <<"--name", c.name>>)
Commanded(c) == IF c.backend = "exec" THEN <<"--">> \o c.command ELSE <<>>
Unguarded(c) == <<c.backend>> \o Named(c) \o Commanded(c)

\* The parts are words, and their places are known.
LEMMA UnguardedWords ==
    ASSUME NEW c \in Conditions
    PROVE  /\ Named(c) \in Words /\ Commanded(c) \in Words /\ Unguarded(c) \in Words
           /\ Len(Unguarded(c)) = 1 + Len(Named(c)) + Len(Commanded(c))
           /\ Unguarded(c)[1] = c.backend
           /\ \A i \in 1..Len(Named(c)) : Unguarded(c)[1 + i] = Named(c)[i]
           /\ \A i \in 1..Len(Commanded(c)) :
                 Unguarded(c)[1 + Len(Named(c)) + i] = Commanded(c)[i]
<1>1. /\ <<c.backend>> \in Words /\ Len(<<c.backend>>) = 1 /\ <<c.backend>>[1] = c.backend
      /\ <<"--name", c.name>> \in Words /\ c.words \in Words /\ c.command \in Words
      /\ <<"--">> \in Words /\ <<>> \in Words
  BY LineConfig DEF LineConfig, Words, Conditions
<1>2. Named(c) \in Words /\ Commanded(c) \in Words
  BY <1>1, ConcatProperties DEF Words, Named, Commanded
<1> DEFINE named == Named(c)
           commanded == Commanded(c)
           start == <<c.backend>> \o named
<1>3. Len(named) \in Nat /\ Len(commanded) \in Nat
  BY <1>2, LenProperties DEF Words
<1>4. /\ start \in Words /\ Len(start) = 1 + Len(named)
      /\ start[1] = c.backend /\ \A i \in 1..Len(named) : start[1 + i] = named[i]
  BY <1>1, <1>2, <1>3 DEF Words
<1>5. Unguarded(c) = start \o commanded
  BY DEF Unguarded
<1> HIDE DEF named, commanded, start
<1>6. /\ start \o commanded \in Words /\ Len(start \o commanded) = Len(start) + Len(commanded)
      /\ \A i \in 1..Len(start) : (start \o commanded)[i] = start[i]
      /\ \A i \in 1..Len(commanded) : (start \o commanded)[Len(start) + i] = commanded[i]
  <2>1. start \in Words /\ commanded \in Words
    BY <1>2, <1>4 DEF commanded
  <2> QED BY <2>1 DEF Words
<1>7. 1 \in 1..Len(start) /\ \A i \in 1..Len(named) : 1 + i \in 1..Len(start)
  BY <1>3, <1>4
<1> QED BY <1>2, <1>4, <1>5, <1>6, <1>7 DEF named, commanded

\* What is written is guard, if the condition is one, and these parts.
LEMMA WrittenIs ==
    ASSUME NEW c \in Conditions
    PROVE  WrittenCondition(c) = (IF c.guard THEN <<"guard">> ELSE <<>>) \o Unguarded(c)
  BY DEF WrittenCondition, Unguarded, Named, Commanded, Unnamed

\* A condition as it is written is a list of words that begins with its backend or with guard.
LEMMA ConditionWords ==
    ASSUME NEW c \in Conditions
    PROVE  /\ WrittenCondition(c) \in Words /\ WrittenCondition(c) # <<>>
           /\ ~c.guard => WrittenCondition(c) = Unguarded(c)
           /\ c.guard => /\ Len(WrittenCondition(c)) = 1 + Len(Unguarded(c))
                        /\ WrittenCondition(c)[1] = "guard"
                        /\ \A i \in 1..Len(Unguarded(c)) :
                              WrittenCondition(c)[1 + i] = Unguarded(c)[i]
<1> DEFINE own == Unguarded(c)
<1>1. own \in Words /\ Len(own) \in Nat /\ own # <<>> /\ c.guard \in BOOLEAN
  <2>1. own \in Words /\ Len(own) = 1 + Len(Named(c)) + Len(Commanded(c))
    BY UnguardedWords
  <2>2. Len(Named(c)) \in Nat /\ Len(Commanded(c)) \in Nat
    BY UnguardedWords, LenProperties DEF Words
  <2> HIDE DEF own
  <2> QED BY <2>1, <2>2, EmptySeq DEF Conditions
<1> HIDE DEF own
<1>2. CASE c.guard
  <2>1. WrittenCondition(c) = <<"guard">> \o own
    BY <1>2, WrittenIs DEF own
  <2>2. <<"guard">> \in Words /\ Len(<<"guard">>) = 1 /\ <<"guard">>[1] = "guard"
    BY LineConfig DEF LineConfig, Words
  <2>3. /\ <<"guard">> \o own \in Words /\ Len(<<"guard">> \o own) = 1 + Len(own)
        /\ (<<"guard">> \o own)[1] = "guard"
        /\ \A i \in 1..Len(own) : (<<"guard">> \o own)[1 + i] = own[i]
    BY <1>1, <2>2 DEF Words
  <2>4. Len(WrittenCondition(c)) # 0
    BY <1>1, <2>1, <2>3
  <2> QED BY <1>2, <2>1, <2>3, <2>4, EmptySeq DEF own
<1>3. CASE ~c.guard
  <2>1. WrittenCondition(c) = <<>> \o own
    BY <1>3, WrittenIs DEF own
  <2>2. <<>> \o own = own
    BY <1>1, ConcatEmptySeq DEF Words
  <2> QED BY <1>1, <1>3, <2>1, <2>2 DEF own
<1> QED BY <1>1, <1>2, <1>3

\* Arguments that are typed are words.
LEMMA TypedWords ==
    ASSUME NEW line \in OtherLines \cup {Written(conditions) : conditions \in Lines}
    PROVE  line \in Words
<1>1. CASE line \in OtherLines
  BY <1>1, LineConfig DEF LineConfig, Words
<1>2. ASSUME NEW conditions \in Lines, line = Written(conditions) PROVE line \in Words
  <2> DEFINE parts == [k \in DOMAIN conditions |-> WrittenCondition(conditions[k])]
  <2>1. conditions \in Seq(Conditions)
    BY LineConfig DEF LineConfig
  <2>2. parts \in Seq(Words)
    BY <2>1, ConditionWords
  <2>3. <<>> \in Words
    BY EmptySeq DEF Words
  <2> HIDE DEF parts
  <2> QED BY <1>2, <2>2, <2>3, JoinedAppend DEF Written, parts
<1> QED BY <1>1, <1>2

\* One turn of the loop: an argument goes to the current segment, or is a -- that ends it.
LEMMA SplitStep ==
    ASSUME SplitInv, SplitArgument
    PROVE  SplitInv'
<1> DEFINE line == Joined(segments)
           seen == SubSeq(args, 1, at - 1)
<1>0. /\ args \in Words /\ args # <<>> /\ args[1] # "--" /\ at \in 1..Len(args) + 1
      /\ current \in Words /\ segments \in Seq(Words) /\ Cut /\ phase = "splitting"
      /\ args' = args /\ Len(args) \in Nat /\ parsed' = parsed /\ written' = written
  BY LenProperties DEF SplitInv, SplitArgument, Words
<1>1. line \in Words /\ Joined(Append(segments, current)) = JoinedWith(line, current)
  BY <1>0, JoinedAppend
<1>2. /\ current = <<>> /\ segments # <<>> => at <= Len(args) /\ args[at] # "--"
      /\ current = <<>> /\ segments = <<>> => at <= Len(args) /\ args[at] # "--"
  <2>1. at <= Len(args) /\ IsConditionStart(at) => args[at] # "--"
    BY DEF IsConditionStart, Backends
  <2>2. IsConditionStart(at) => at <= Len(args)
    BY DEF IsConditionStart
  <2>3. Len(args) # 0
    BY <1>0, EmptySeq DEF Words
  <2>4. current = <<>> /\ segments # <<>> => IsConditionStart(at)
    BY <1>0 DEF Cut
  <2>5. current = <<>> /\ segments = <<>> => at = 1
    BY <1>0 DEF Cut
  <2> QED BY <1>0, <2>1, <2>2, <2>3, <2>4, <2>5
<1>3. CASE at > Len(args)
  <2>1. /\ segments' = Append(segments, current) /\ current' = <<>> /\ phase' = "parsing"
        /\ at' = at /\ at = Len(args) + 1
    BY <1>0, <1>3 DEF SplitArgument
  <2>2. current # <<>>
    BY <1>0, <1>2, <1>3
  <2>3. Joined(segments') = args
    <3>1. Joined(Append(segments, current)) = SubSeq(args, 1, at - 1)
      BY <1>0, <2>2 DEF Cut
    <3>2. SubSeq(args, 1, Len(args)) = args /\ at - 1 = Len(args)
      BY <1>0, <2>1, FirstWords
    <3> QED BY <2>1, <3>1, <3>2
  <2>4. segments' \in Seq(Words) /\ current' \in Words
    BY <1>0, <2>1, AppendProperties, EmptySeq DEF Words
  <2> QED BY <1>0, <2>1, <2>3, <2>4 DEF SplitInv
<1>4. CASE at <= Len(args) /\ IsSeparatorBefore(at)
  <2>1. /\ segments' = Append(segments, current) /\ current' = <<>> /\ phase' = phase
        /\ at' = at + 1
    BY <1>0, <1>4 DEF SplitArgument
  <2>2. args[at] = "--" /\ IsConditionStart(at + 1)
    BY <1>4 DEF IsSeparatorBefore
  <2>3. current # <<>> /\ at # 1
    BY <1>0, <1>2, <2>2
  <2>4. Joined(segments') = seen
    BY <1>0, <2>1, <2>3 DEF Cut
  <2>5. seen # <<>>
    <3>1. at - 1 \in 0..Len(args) /\ at - 1 # 0
      BY <1>0, <2>3
    <3>2. Len(seen) = at - 1
      BY <1>0, <3>1, FirstWords
    <3> QED BY <3>1, <3>2, EmptySeq
  <2>6. segments' \in Seq(Words) /\ current' \in Words /\ segments' # <<>>
    BY <1>0, <2>1, AppendProperties, EmptySeq DEF Words
  <2>7. IsConditionStart(at)'
    BY <1>0, <2>1, <2>2 DEF IsConditionStart
  <2>8. at' > 2 /\ at' - 1 = at /\ at' - 2 = at - 1 /\ at' \in 1..Len(args) + 1
    BY <1>0, <1>4, <2>1, <2>3
  <2>9. Cut'
    BY <1>0, <2>1, <2>2, <2>4, <2>5, <2>6, <2>7, <2>8 DEF Cut
  <2> QED BY <1>0, <2>1, <2>6, <2>8, <2>9 DEF SplitInv
<1>5. CASE at <= Len(args) /\ ~IsSeparatorBefore(at)
  <2> DEFINE word == args[at]
  <2>1. /\ segments' = segments /\ current' = Append(current, word) /\ phase' = phase
        /\ at' = at + 1
    BY <1>0, <1>5 DEF SplitArgument
  <2>2. at - 1 \in 0..Len(args) /\ at - 1 < Len(args) /\ (at - 1) + 1 = at
    BY <1>0, <1>5
  <2>3. word \in STRING /\ SubSeq(args, 1, at) = Append(seen, word) /\ seen \in Words
    BY <1>0, <2>2, FirstWords
  <2>4. current' \in Words /\ current' # <<>>
    BY <1>0, <2>1, <2>3, AppendProperties, EmptySeq DEF Words
  <2>5. Joined(Append(segments, current')) = JoinedWith(line, Append(current, word))
    BY <1>0, <2>1, <2>4, JoinedAppend
  <2>6. JoinedWith(line, Append(current, word)) = SubSeq(args, 1, at)
    <3>1. CASE current # <<>>
      <4>1. JoinedWith(line, current) = seen
        BY <1>0, <1>1, <3>1 DEF Cut
      <4>2. JoinedWith(line, Append(current, word)) = Append(JoinedWith(line, current), word)
        BY <1>0, <1>1, <2>3, <3>1, JoinedLonger
      <4> QED BY <2>3, <4>1, <4>2
    <3>2. CASE current = <<>> /\ segments = <<>>
      <4>1. at = 1 /\ line = <<>>
        BY <1>0, <3>2, JoinedNone DEF Cut
      <4>2. seen = <<>>
        BY <1>0, <4>1 DEF Words
      <4> QED BY <2>3, <3>2, <4>1, <4>2 DEF JoinedWith
    <3>3. CASE current = <<>> /\ segments # <<>>
      <4>1. /\ at > 2 /\ args[at - 1] = "--" /\ line = SubSeq(args, 1, at - 2) /\ line # <<>>
        BY <1>0, <3>3 DEF Cut
      <4>2. at - 2 \in 0..Len(args) /\ at - 2 < Len(args) /\ (at - 2) + 1 = at - 1
        BY <1>0, <2>2, <4>1
      <4>3. seen = Append(line, "--") /\ "--" \in STRING
        BY <1>0, <4>1, <4>2, FirstWords
      <4>4. seen = line \o <<"--">>
        BY <1>1, <4>3, AppendIsConcat DEF Words
      <4>5. Append(seen, word) = seen \o <<word>>
        BY <2>3, AppendIsConcat DEF Words
      <4>6. Append(current, word) = <<word>>
        BY <3>3
      <4> QED BY <2>3, <4>1, <4>4, <4>5, <4>6 DEF JoinedWith
    <3> QED BY <3>1, <3>2, <3>3
  <2>7. at' - 1 = at /\ at' \in 1..Len(args) + 1
    BY <1>0, <1>5, <2>1
  <2>8. segments' = <<>> \/ Joined(segments') # <<>>
    BY <1>0, <2>1 DEF Cut
  <2>9. Cut'
    BY <1>0, <2>1, <2>4, <2>5, <2>6, <2>7, <2>8 DEF Cut
  <2> QED BY <1>0, <2>1, <2>4, <2>7, <2>9 DEF SplitInv
<1> QED BY <1>0, <1>3, <1>4, <1>5

\* A line is typed before it is split.
LEMMA TypeStep ==
    ASSUME SplitInv, phase = "typing",
           \/ \E conditions \in Lines : TypeLine(conditions, Written(conditions))
           \/ \E line \in OtherLines : TypeLine(<<>>, line)
    PROVE  SplitInv'
<1>1. PICK conditions, line : line \in Words /\ TypeLine(conditions, line)
  <2>1. CASE \E some \in Lines : TypeLine(some, Written(some))
    BY <2>1, TypedWords
  <2>2. CASE \E line \in OtherLines : TypeLine(<<>>, line)
    BY <2>2, TypedWords
  <2> QED BY <2>1, <2>2
<1>2. line \in Words
  BY <1>1
<1>3. /\ at' = 1 /\ current' = <<>> /\ segments' = <<>> /\ args' = line /\ parsed' = <<>>
      /\ phase' = IF RefusedLine(line) THEN "refused" ELSE "splitting"
  BY <1>1 DEF TypeLine, SplitInv
<1>4. ~RefusedLine(line) => line # <<>> /\ line[1] # "--"
  BY DEF RefusedLine
<1>5. <<>> \in Words /\ <<>> \in Seq(Words) /\ 1 \in 1..Len(line) + 1
  BY <1>2, EmptySeq, LenProperties DEF Words
<1>6. Cut'
  BY <1>3 DEF Cut
<1> QED BY <1>2, <1>3, <1>4, <1>5, <1>6 DEF SplitInv

\* Reading a segment leaves the segments as they are.
LEMMA ReadStep == SplitInv /\ ReadSegment => SplitInv'
<1> SUFFICES ASSUME SplitInv, ReadSegment PROVE SplitInv'
  OBVIOUS
<1>1. /\ phase = "parsing" /\ phase' \in {"parsing", "accepted", "refused"}
      /\ UNCHANGED <<written, args, at, current, segments>>
  BY DEF ReadSegment
<1> QED BY <1>1 DEF SplitInv

\* The invariant holds after every step.
LEMMA LineStep == SplitInv /\ [LineNext]_lineVars => SplitInv'
<1>1. SplitInv /\ UNCHANGED lineVars => SplitInv'
  BY DEF SplitInv, Cut, lineVars, IsConditionStart
<1> QED BY <1>1, TypeStep, SplitStep, ReadStep DEF LineNext

\* The second half of SegmentsMatchGrammar.
NothingLost ==
    phase \in {"splitting", "parsing"} =>
        Joined(segments \o IF current = <<>> THEN <<>> ELSE <<current>>)
            \in {SubSeq(args, 1, at - 1), SubSeq(args, 1, at - 2)}

\* What the loop knows of its variables says that nothing is lost.
LEMMA SplitLosesNothing == SplitInv => NothingLost
<1> SUFFICES ASSUME SplitInv, phase \in {"splitting", "parsing"} PROVE NothingLost
  BY DEF NothingLost
<1>1. args \in Words /\ segments \in Seq(Words) /\ current \in Words
  BY DEF SplitInv
<1>2. CASE current # <<>>
  <2>1. Joined(Append(segments, current)) = SubSeq(args, 1, at - 1)
    BY <1>2 DEF SplitInv, Cut
  <2>2. Append(segments, current) = segments \o <<current>>
    BY <1>1, AppendIsConcat
  <2> QED BY <1>2, <2>1, <2>2 DEF NothingLost
<1>3. CASE current = <<>>
  <2>1. segments \o <<>> = segments
    BY <1>1, ConcatEmptySeq
  <2>2. Joined(segments) \in {SubSeq(args, 1, at - 1), SubSeq(args, 1, at - 2)}
    <3>1. CASE phase = "parsing"
      <4>1. at = Len(args) + 1 /\ Joined(segments) = args
        BY <3>1 DEF SplitInv
      <4>2. Len(args) \in 0..Len(args) /\ (Len(args) + 1) - 1 = Len(args)
        BY <1>1, LenProperties DEF Words
      <4>3. SubSeq(args, 1, Len(args)) = args
        BY <1>1, <4>2, FirstWords
      <4> QED BY <4>1, <4>2, <4>3
    <3>2. CASE phase = "splitting" /\ segments = <<>>
      <4>1. at = 1
        BY <1>3, <3>2 DEF SplitInv, Cut
      <4>2. SubSeq(args, 1, at - 1) = <<>>
        BY <4>1, SubSeqEmpty
      <4> QED BY <3>2, <4>1, <4>2, JoinedNone
    <3>3. CASE phase = "splitting" /\ segments # <<>>
      BY <1>3, <3>3 DEF SplitInv, Cut
    <3> QED BY <3>1, <3>2, <3>3
  <2> QED BY <1>3, <2>1, <2>2 DEF NothingLost
<1> QED BY <1>2, <1>3

-----------------------------------------------------------------------------
(* A condition is read as it was written.                                  *)

\* What parseConditionName has after some words, and a name.
Own(words, name) == [words |-> words, name |-> name, next |-> FALSE, bad |-> FALSE]

\* What it has when the next word is the name.
Announced(words) == [words |-> words, name |-> Unnamed, next |-> TRUE, bad |-> FALSE]

\* Words that do not name the condition.
Nameless(words) == \A i \in DOMAIN words : words[i] \notin {"--name"} \cup DOMAIN InlineName

\* ConditionName is what its recursive function says.
LEMMA ConditionNameIs ==
    ASSUME NEW words \in Words, NEW h, h[0] = NoName,
           \A k \in 1..Len(words) : h[k] = TakeName(h[k - 1], words[k])
    PROVE  ConditionName(words) = h[Len(words)]
<1> DEFINE L == Len(words)
           Step(f) == [k \in 0..L |-> IF k = 0 THEN NoName ELSE TakeName(f[k - 1], words[k])]
           chosen == CHOOSE f : f = Step(f)
           g == [k \in 0..L |-> h[k]]
<1>1. L \in Nat
  BY LenProperties DEF Words
<1>2. \A k \in 1..L : h[k] = TakeName(h[k - 1], words[k])
  OBVIOUS
<1>3. ConditionName(words) = chosen[L]
  BY DEF ConditionName
<1> HIDE DEF L
<1>4. g = Step(g)
  <2>1. ASSUME NEW k \in 0..L PROVE g[k] = Step(g)[k]
    <3>1. CASE k = 0
      BY <1>1, <3>1
    <3>2. CASE k # 0
      <4>1. k \in 1..L /\ k - 1 \in 0..L
        BY <1>1, <3>2
      <4> QED BY <1>2, <3>2, <4>1
    <3> QED BY <3>1, <3>2
  <2> QED BY <2>1
<1> HIDE DEF g
<1>5. chosen = Step(chosen)
  BY <1>4
<1> HIDE DEF chosen
<1>6. chosen[0] = NoName /\ \A k \in 1..L : chosen[k] = TakeName(chosen[k - 1], words[k])
  BY <1>1, <1>5
<1> DEFINE T == {k \in Nat : k <= L => chosen[k] = h[k]}
<1>7. 0 \in T
  BY <1>6
<1>8. ASSUME NEW k \in T \cap Nat PROVE k + 1 \in T
  <2>1. CASE k + 1 <= L
    <3>1. k + 1 \in 1..L /\ (k + 1) - 1 = k /\ chosen[k] = h[k]
      BY <1>1, <1>8, <2>1
    <3>2. chosen[k + 1] = TakeName(chosen[k], words[k + 1]) /\ h[k + 1] = TakeName(h[k], words[k + 1])
      BY <1>2, <1>6, <3>1
    <3> QED BY <3>1, <3>2
  <2> QED BY <2>1
<1> HIDE DEF T
<1>9. \A k \in Nat : k \in T
  BY <1>7, <1>8, SetInduction
<1> QED BY <1>1, <1>3, <1>9 DEF T, L

\* One word of parseConditionName: it is kept, or it announces the name, or it is the name.
LEMMA TakenName ==
    ASSUME NEW words \in Words
    PROVE  /\ \A word \in STRING : word \notin {"--name"} \cup DOMAIN InlineName
                 => TakeName(Own(words, Unnamed), word) = Own(Append(words, word), Unnamed)
           /\ TakeName(Own(words, Unnamed), "--name") = Announced(words)
           /\ \A name \in STRING : name # Unnamed
                 => TakeName(Announced(words), name) = Own(words, name)
<1>1. "--name" \notin DOMAIN InlineName
  BY LineConfig DEF LineConfig
<1> QED BY <1>1 DEF TakeName, WithName, Own, Announced, Unnamed

\* Words without a name are kept.
LEMMA WordsKept ==
    ASSUME NEW words \in Words, Nameless(words)
    PROVE  ConditionName(words) = Own(words, Unnamed)
<1> DEFINE h == [k \in 0..Len(words) |-> Own(SubSeq(words, 1, k), Unnamed)]
<1>1. Len(words) \in Nat /\ DOMAIN words = 1..Len(words)
  BY LenProperties DEF Words
<1>0. \A k \in 0..Len(words) : h[k] = Own(SubSeq(words, 1, k), Unnamed)
  OBVIOUS
<1> HIDE DEF h
<1>2. h[0] = NoName
  <2>1. SubSeq(words, 1, 0) = <<>>
    BY SubSeqEmpty
  <2>2. 0 \in 0..Len(words)
    BY <1>1
  <2>3. h[0] = Own(SubSeq(words, 1, 0), Unnamed)
    BY <1>0, <2>2, Zenon
  <2> QED BY <2>1, <2>3 DEF Own, NoName, Unnamed
<1>3. ASSUME NEW k \in 1..Len(words) PROVE h[k] = TakeName(h[k - 1], words[k])
  <2>1. k - 1 \in 0..Len(words) /\ k - 1 < Len(words) /\ (k - 1) + 1 = k
    BY <1>1
  <2>2. /\ SubSeq(words, 1, k - 1) \in Words /\ words[k] \in STRING
        /\ SubSeq(words, 1, k) = Append(SubSeq(words, 1, k - 1), words[k])
    BY <2>1, FirstWords
  <2>3. words[k] \notin {"--name"} \cup DOMAIN InlineName
    BY <1>1 DEF Nameless
  <2>4. TakeName(Own(SubSeq(words, 1, k - 1), Unnamed), words[k]) = Own(SubSeq(words, 1, k), Unnamed)
    BY <2>2, <2>3, TakenName
  <2>5. h[k - 1] = Own(SubSeq(words, 1, k - 1), Unnamed) /\ h[k] = Own(SubSeq(words, 1, k), Unnamed)
    <3>1. k - 1 \in 0..Len(words) /\ k \in 0..Len(words)
      BY <1>1
    <3> QED BY <1>0, <3>1, Zenon
  <2> QED BY <2>4, <2>5
<1>4. SubSeq(words, 1, Len(words)) = words /\ Len(words) \in 0..Len(words)
  BY <1>1, FirstWords
<1>5. h[Len(words)] = Own(words, Unnamed)
  BY <1>0, <1>4
<1> QED BY <1>2, <1>3, <1>5, ConditionNameIs

\* The name behind them is taken out.
LEMMA NameTaken ==
    ASSUME NEW words \in Words, Nameless(words), NEW name \in STRING, name # Unnamed
    PROVE  ConditionName(words \o <<"--name", name>>) = Own(words, name)
<1> DEFINE n == Len(words)
           all == words \o <<"--name", name>>
           h == [k \in 0..n + 2 |-> IF k <= n THEN Own(SubSeq(words, 1, k), Unnamed)
                                   ELSE IF k = n + 1 THEN Announced(words)
                                   ELSE Own(words, name)]
<1>1. n \in Nat /\ DOMAIN words = 1..n
  BY LenProperties DEF Words
<1>2. /\ all \in Words /\ Len(all) = n + 2
      /\ \A k \in 1..n : all[k] = words[k]
      /\ all[n + 1] = "--name" /\ all[n + 2] = name
  <2>1. <<"--name", name>> \in Words
    BY LineConfig DEF LineConfig, Words
  <2> QED BY <1>1, <2>1 DEF Words
<1>3. /\ \A k \in 0..n : h[k] = Own(SubSeq(words, 1, k), Unnamed)
      /\ h[n + 1] = Announced(words)
      /\ h[n + 2] = Own(words, name)
  <2>1. ASSUME NEW k \in 0..n PROVE h[k] = Own(SubSeq(words, 1, k), Unnamed)
    <3>1. k \in 0..n + 2 /\ k <= n
      BY <1>1
    <3> QED BY <3>1
  <2>2. n + 1 \in 0..n + 2 /\ n + 2 \in 0..n + 2 /\ ~(n + 1 <= n) /\ ~(n + 2 <= n) /\ n + 2 # n + 1
    BY <1>1
  <2> QED BY <2>1, <2>2
<1> HIDE DEF h, all
<1>4. h[0] = NoName
  <2>1. SubSeq(words, 1, 0) = <<>>
    BY SubSeqEmpty
  <2>2. 0 \in 0..n
    BY <1>1
  <2>3. h[0] = Own(SubSeq(words, 1, 0), Unnamed)
    BY <1>3, <2>2, Zenon
  <2> QED BY <2>1, <2>3 DEF Own, NoName, Unnamed
<1>5. h[n] = Own(words, Unnamed)
  <2>1. n \in 0..n /\ SubSeq(words, 1, n) = words
    BY <1>1, FirstWords
  <2>2. h[n] = Own(SubSeq(words, 1, n), Unnamed)
    BY <1>3, <2>1, Zenon
  <2> QED BY <2>1, <2>2
<1>6. ASSUME NEW k \in 1..Len(all) PROVE h[k] = TakeName(h[k - 1], all[k])
  <2>1. CASE k \in 1..n
    <3>1. k - 1 \in 0..n /\ k \in 0..n /\ k - 1 < n /\ (k - 1) + 1 = k
      BY <1>1, <2>1
    <3>2. /\ SubSeq(words, 1, k - 1) \in Words /\ words[k] \in STRING
          /\ SubSeq(words, 1, k) = Append(SubSeq(words, 1, k - 1), words[k])
      BY <3>1, FirstWords
    <3>3. words[k] \notin {"--name"} \cup DOMAIN InlineName /\ all[k] = words[k]
      BY <1>1, <1>2, <2>1 DEF Nameless
    <3>4. TakeName(Own(SubSeq(words, 1, k - 1), Unnamed), words[k]) = Own(SubSeq(words, 1, k), Unnamed)
      BY <3>2, <3>3, TakenName
    <3>5. h[k - 1] = Own(SubSeq(words, 1, k - 1), Unnamed) /\ h[k] = Own(SubSeq(words, 1, k), Unnamed)
      BY <1>3, <3>1, Zenon
    <3> QED BY <3>3, <3>4, <3>5
  <2>2. CASE k = n + 1
    <3>1. k - 1 = n
      BY <1>1, <2>2
    <3>2. TakeName(Own(words, Unnamed), "--name") = Announced(words)
      BY TakenName
    <3> QED BY <1>2, <1>3, <1>5, <2>2, <3>1, <3>2
  <2>3. CASE k = n + 2
    <3>1. k - 1 = n + 1
      BY <1>1, <2>3
    <3>2. TakeName(Announced(words), name) = Own(words, name)
      BY TakenName
    <3> QED BY <1>2, <1>3, <2>3, <3>1, <3>2
  <2> QED BY <1>1, <1>2, <2>1, <2>2, <2>3
<1> HIDE DEF n
<1>7. ConditionName(all) = h[Len(all)]
  BY <1>2, <1>4, <1>6, ConditionNameIs
<1> QED BY <1>2, <1>3, <1>7 DEF all

\* What a plain condition has apart from its places on the line.
LEMMA PlainParts ==
    ASSUME NEW c \in Conditions, PlainCondition(c)
    PROVE  /\ Targets(c.words) = (IF c.backend = "exec" THEN 0 ELSE 1)
           /\ c.backend = "exec" <=> c.command # <<>>
           /\ c.backend = "exec" => \A i \in 1..Len(Named(c)) : Named(c)[i] # "--"
           /\ Nameless(c.words)
<1>1. /\ Targets(c.words) = (IF c.backend = "exec" THEN 0 ELSE 1)
      /\ c.backend = "exec" <=> c.command # <<>>
      /\ c.backend = "exec" => c.name # "--" /\ \A i \in DOMAIN c.words : c.words[i] # "--"
      /\ Nameless(c.words)
  BY DEF PlainCondition, Nameless
<1>2. c.words \in Words /\ <<"--name", c.name>> \in Words
  BY LineConfig DEF LineConfig, Words, Conditions
<1>3. ASSUME c.backend = "exec", NEW i \in 1..Len(Named(c)) PROVE Named(c)[i] # "--"
  <2>1. CASE c.name = Unnamed
    <3>1. Named(c) = c.words
      BY <1>2, <2>1, ConcatEmptySeq DEF Named, Words
    <3> QED BY <1>1, <1>2, <1>3, <3>1 DEF Words
  <2>2. CASE c.name # Unnamed
    <3>1. Named(c) = c.words \o <<"--name", c.name>>
      BY <2>2 DEF Named
    <3>2. \A k \in 1..2 : <<"--name", c.name>>[k] # "--"
      BY <1>1, <1>3
    <3> QED BY <1>1, <1>2, <1>3, <3>1, <3>2 DEF Words
  <2> QED BY <2>1, <2>2
<1> QED BY <1>1, <1>3

\* parseConditionName finds the words and the name of a plain condition.
LEMMA OwnRead ==
    ASSUME NEW c \in Conditions, Nameless(c.words)
    PROVE  ConditionName(Named(c)) = Own(c.words, c.name)
<1>1. c.words \in Words /\ c.name \in STRING
  BY DEF Words, Conditions
<1>2. CASE c.name = Unnamed
  <2>1. Named(c) = c.words
    BY <1>1, <1>2, ConcatEmptySeq DEF Named, Words
  <2> QED BY <1>1, <1>2, <2>1, WordsKept
<1>3. CASE c.name # Unnamed
  <2>1. Named(c) = c.words \o <<"--name", c.name>>
    BY <1>3 DEF Named
  <2> QED BY <1>1, <1>3, <2>1, NameTaken
<1> QED BY <1>2, <1>3

\* A part of a list of words, given by its places.
LEMMA PartOf ==
    ASSUME NEW line \in Words, NEW part \in Words, NEW n \in Nat, n + Len(part) <= Len(line),
           \A i \in 1..Len(part) : line[n + i] = part[i]
    PROVE  SubSeq(line, n + 1, n + Len(part)) = part
<1> DEFINE found == SubSeq(line, n + 1, n + Len(part))
<1>1. Len(part) \in Nat /\ Len(line) \in Nat
  BY LenProperties DEF Words
<1>2. \A i \in n + 1..n + Len(part) : line[i] \in STRING
  BY <1>1 DEF Words
<1>3. /\ found \in Words
      /\ Len(found) = IF n + 1 <= n + Len(part) THEN n + Len(part) - (n + 1) + 1 ELSE 0
      /\ \A i \in 1..n + Len(part) - (n + 1) + 1 : found[i] = line[n + 1 + i - 1]
  <2> DEFINE first == n + 1
             last == n + Len(part)
  <2>1. first \in Int /\ last \in Int /\ \A i \in first..last : line[i] \in STRING
    BY <1>1, <1>2
  <2> HIDE DEF first, last
  <2>2. /\ SubSeq(line, first, last) \in Words
        /\ Len(SubSeq(line, first, last)) = IF first <= last THEN last - first + 1 ELSE 0
        /\ \A i \in 1..last - first + 1 : SubSeq(line, first, last)[i] = line[first + i - 1]
    BY <2>1, SubSeqProperties DEF Words
  <2> QED BY <2>2 DEF first, last
<1> HIDE DEF found
<1>4. Len(found) = Len(part)
  BY <1>1, <1>3
<1>5. \A i \in 1..Len(part) : found[i] = part[i]
  BY <1>1, <1>3
<1>6. found = part
  BY <1>3, <1>4, <1>5, SeqEqual DEF Words
<1> QED BY <1>6 DEF found

\* parseCondition of a plain condition behind guard finds its name, its words and its command.
LEMMA BackendRead ==
    ASSUME NEW c \in Conditions, PlainCondition(c), NEW guard
    PROVE  ParseBackend(guard, Unguarded(c)) =
             [guard |-> guard, backend |-> c.backend, name |-> c.name,
              words |-> c.words, command |-> c.command]
<1> DEFINE segment == Unguarded(c)
           separators == {i \in DOMAIN segment : segment[i] = "--"}
           limit == IF segment[1] = "exec" /\ separators # {}
                    THEN CHOOSE i \in separators : \A j \in separators : i <= j
                    ELSE Len(segment) + 1
           own == ConditionName(SubSeq(segment, 2, limit - 1))
           command == SubSeq(segment, limit + 1, Len(segment))
           named == Named(c)
<1>1. /\ named \in Words /\ Commanded(c) \in Words /\ segment \in Words
      /\ Len(segment) = 1 + Len(named) + Len(Commanded(c))
      /\ segment[1] = c.backend
      /\ \A i \in 1..Len(named) : segment[1 + i] = named[i]
      /\ \A i \in 1..Len(Commanded(c)) : segment[1 + Len(named) + i] = Commanded(c)[i]
  BY UnguardedWords
<1>2. /\ Targets(c.words) = (IF c.backend = "exec" THEN 0 ELSE 1)
      /\ c.backend = "exec" <=> c.command # <<>>
      /\ c.backend = "exec" => \A i \in 1..Len(named) : named[i] # "--"
      /\ Nameless(c.words)
  BY PlainParts
<1>3. /\ Len(named) \in Nat /\ Len(Commanded(c)) \in Nat /\ DOMAIN segment = 1..Len(segment)
      /\ c.command \in Words /\ Len(c.command) \in Nat /\ c.backend \in Backends
  BY <1>1, LenProperties DEF Words, Conditions
<1>4. ParseBackend(guard, segment) =
        IF own.bad \/ own.next \/ segment[1] \notin Backends
               \/ (segment[1] = "exec" /\ command = <<>>)
               \/ Targets(own.words) # (IF segment[1] = "exec" THEN 0 ELSE 1)
        THEN Unreadable
        ELSE [guard |-> guard, backend |-> segment[1], name |-> own.name,
              words |-> own.words, command |-> command]
  BY DEF ParseBackend
<1> HIDE DEF segment, named, limit, command, own
<1>5. SubSeq(segment, 2, 1 + Len(named)) = named
  <2>1. 1 \in Nat /\ 1 + Len(named) <= Len(segment) /\ 1 + 1 = 2
    BY <1>1, <1>3
  <2>2. SubSeq(segment, 1 + 1, 1 + Len(named)) = named
    BY <1>1, <2>1, PartOf
  <2> QED BY <2>1, <2>2
<1>6. limit = 2 + Len(named) /\ command = c.command
  <2>1. CASE c.backend = "exec"
    <3>1. Commanded(c) = <<"--">> \o c.command /\ <<"--">> \in Words
      BY <2>1, LineConfig DEF Commanded, LineConfig, Words
    <3>2. /\ Len(Commanded(c)) = 1 + Len(c.command) /\ Commanded(c)[1] = "--"
          /\ \A i \in 1..Len(c.command) : Commanded(c)[1 + i] = c.command[i]
      BY <1>3, <3>1 DEF Words
    <3>3. segment[2 + Len(named)] = "--" /\ 2 + Len(named) \in 1..Len(segment)
      <4>1. 1 \in 1..Len(Commanded(c)) /\ 1 + Len(named) + 1 = 2 + Len(named)
        BY <1>3, <3>2
      <4>2. segment[1 + Len(named) + 1] = Commanded(c)[1]
        BY <1>1, <4>1
      <4>3. 2 + Len(named) \in 1..1 + Len(named) + Len(Commanded(c))
        <5>1. Len(named) \in Nat /\ Len(Commanded(c)) \in Nat /\ Len(Commanded(c)) >= 1
          BY <1>3, <3>2
        <5> QED BY <5>1
      <4> QED BY <1>1, <3>2, <4>1, <4>2, <4>3
    <3>4. ASSUME NEW i \in separators PROVE 2 + Len(named) <= i
      <4>1. i \in 1..Len(segment) /\ segment[i] = "--"
        BY <1>3
      <4>2. i # 1
        BY <1>1, <2>1, <4>1
      <4>3. CASE i <= 1 + Len(named)
        <5>1. i - 1 \in 1..Len(named) /\ 1 + (i - 1) = i
          BY <1>3, <4>1, <4>2, <4>3
        <5>2. segment[i] = named[i - 1]
          BY <1>1, <5>1
        <5> QED BY <1>2, <2>1, <4>1, <5>1, <5>2
      <4> QED BY <1>3, <4>1, <4>3
    <3>5. 2 + Len(named) \in separators
      BY <1>3, <3>3
    <3>6. limit = CHOOSE i \in separators : \A j \in separators : i <= j
      BY <1>1, <2>1, <3>5 DEF limit
    <3>7. separators \subseteq Int
      BY <1>3
    <3> HIDE DEF separators
    <3>8. limit \in separators /\ \A j \in separators : limit <= j
      BY <3>4, <3>5, <3>6
    <3>9. limit = 2 + Len(named)
      BY <1>3, <3>4, <3>5, <3>7, <3>8
    <3>10. /\ Len(segment) = 2 + Len(named) + Len(c.command)
           /\ \A i \in 1..Len(c.command) : segment[2 + Len(named) + i] = c.command[i]
      <4>1. ASSUME NEW i \in 1..Len(c.command)
            PROVE  segment[2 + Len(named) + i] = c.command[i]
        <5>1. 1 + i \in 1..Len(Commanded(c)) /\ 1 + Len(named) + (1 + i) = 2 + Len(named) + i
          BY <1>3, <3>2
        <5>2. segment[1 + Len(named) + (1 + i)] = Commanded(c)[1 + i]
          BY <1>1, <5>1
        <5> QED BY <3>2, <5>1, <5>2
      <4>2. 1 + Len(named) + (1 + Len(c.command)) = 2 + Len(named) + Len(c.command)
        <5>1. \A n, m \in Nat : 1 + n + (1 + m) = 2 + n + m
          OBVIOUS
        <5>2. Len(named) \in Nat /\ Len(c.command) \in Nat
          BY <1>3
        <5> QED BY <5>1, <5>2, Zenon
      <4> QED BY <1>1, <3>2, <4>1, <4>2
    <3>11. 2 + Len(named) \in Nat /\ 2 + Len(named) + Len(c.command) <= Len(segment)
      BY <1>3, <3>10
    <3>12. SubSeq(segment, 2 + Len(named) + 1, 2 + Len(named) + Len(c.command)) = c.command
      BY <1>1, <1>3, <3>10, <3>11, PartOf
    <3> QED BY <3>9, <3>10, <3>12 DEF command
  <2>2. CASE c.backend # "exec"
    <3>1. limit = Len(segment) + 1 /\ Commanded(c) = <<>> /\ c.command = <<>>
      BY <1>1, <1>2, <2>2 DEF limit, Commanded
    <3>2. Len(segment) = 1 + Len(named)
      BY <1>1, <1>3, <3>1
    <3>3. limit + 1 \in Int /\ Len(segment) \in Int /\ Len(segment) < limit + 1
      BY <1>3, <3>1, <3>2
    <3>4. command = <<>>
      BY <3>3, SubSeqEmpty DEF command
    <3> QED BY <1>3, <3>1, <3>2, <3>4
  <2> QED BY <2>1, <2>2
<1>7. own = Own(c.words, c.name)
  <2>1. limit - 1 = 1 + Len(named)
    BY <1>3, <1>6
  <2>2. ConditionName(named) = Own(c.words, c.name)
    BY <1>2, OwnRead DEF named
  <2> QED BY <1>5, <2>1, <2>2 DEF own
<1>8. own.words = c.words /\ own.name = c.name /\ ~own.bad /\ ~own.next
  BY <1>7 DEF Own
<1>9. ParseBackend(guard, segment) =
        [guard |-> guard, backend |-> c.backend, name |-> c.name,
         words |-> c.words, command |-> c.command]
  BY <1>1, <1>2, <1>3, <1>4, <1>6, <1>8
<1> QED BY <1>9 DEF segment

\* parseCondition of a plain condition gives the condition.
LEMMA ConditionRead ==
    ASSUME NEW c \in Conditions, PlainCondition(c)
    PROVE  ParseCondition(WrittenCondition(c)) = c
<1> DEFINE words == WrittenCondition(c)
           own == Unguarded(c)
           others == {i \in DOMAIN words : words[i] # "guard"}
           start == CHOOSE i \in others : \A j \in others : i <= j
           first == IF c.guard THEN 2 ELSE 1
<1>1. /\ words \in Words /\ own \in Words /\ Len(own) \in Nat /\ Len(own) >= 1 /\ c.guard \in BOOLEAN
      /\ own[1] = c.backend /\ c.backend \in Backends
  <2>1. own \in Words /\ Len(own) = 1 + Len(Named(c)) + Len(Commanded(c)) /\ own[1] = c.backend
    BY UnguardedWords
  <2>2. Len(Named(c)) \in Nat /\ Len(Commanded(c)) \in Nat
    BY UnguardedWords, LenProperties DEF Words
  <2>3. words \in Words
    BY ConditionWords
  <2> HIDE DEF own, words
  <2> QED BY <2>1, <2>2, <2>3 DEF Conditions
<1>2. /\ ~c.guard => words = own
      /\ c.guard => /\ Len(words) = 1 + Len(own) /\ words[1] = "guard"
                   /\ \A i \in 1..Len(own) : words[1 + i] = own[i]
  BY ConditionWords
<1>3. ParseCondition(words) =
        IF others = {} THEN Unreadable
        ELSE ParseBackend(start > 1, SubSeq(words, start, Len(words)))
  BY DEF ParseCondition
<1>4. ParseBackend(c.guard, own) =
        [guard |-> c.guard, backend |-> c.backend, name |-> c.name,
         words |-> c.words, command |-> c.command]
  BY BackendRead
<1> HIDE DEF words, own, start
<1>5. DOMAIN words = 1..Len(words) /\ Len(words) \in Nat
  BY <1>1, LenProperties DEF Words
<1>6. "guard" \notin Backends
  BY DEF Backends
<1>7. first \in others /\ \A i \in others : first <= i
  <2>1. CASE c.guard
    <3>1. words[1 + 1] = own[1] /\ 2 \in 1..Len(words) /\ 1 + 1 = 2
      BY <1>1, <1>2, <1>5, <2>1
    <3>2. \A i \in others : i \in 1..Len(words) /\ i # 1
      BY <1>2, <1>5, <2>1
    <3> QED BY <1>1, <1>5, <1>6, <2>1, <3>1, <3>2
  <2>2. CASE ~c.guard
    <3>0. words = own
      BY <1>2, <2>2
    <3>1. words[1] \in Backends /\ 1 \in 1..Len(words)
      BY <1>1, <3>0
    <3>2. \A i \in others : i \in 1..Len(words)
      BY <1>5
    <3> QED BY <1>5, <1>6, <2>2, <3>1, <3>2
  <2> QED BY <1>1, <2>1, <2>2
<1>8. others # {} /\ start = first
  <2>1. others \subseteq Int /\ first \in Int
    BY <1>5
  <2>2. start = CHOOSE i \in others : \A j \in others : i <= j
    BY DEF start
  <2> HIDE DEF others, first
  <2>3. start \in others /\ \A j \in others : start <= j
    BY <1>7, <2>2
  <2> QED BY <1>7, <2>1, <2>3
<1>9. SubSeq(words, first, Len(words)) = own /\ ((first > 1) = c.guard)
  <2>1. CASE c.guard
    <3>1. 1 \in Nat /\ 1 + Len(own) <= Len(words) /\ 1 + 1 = 2 /\ first = 2 /\ Len(words) = 1 + Len(own)
      BY <1>1, <1>2, <2>1
    <3>2. SubSeq(words, 1 + 1, 1 + Len(own)) = own
      BY <1>1, <1>2, <2>1, <3>1, PartOf
    <3>3. (2 > 1) = TRUE
      OBVIOUS
    <3> QED BY <1>1, <2>1, <3>1, <3>2, <3>3
  <2>2. CASE ~c.guard
    <3>1. SubSeq(own, 1, Len(own)) = own
      BY <1>1, SubSeqFull DEF Words
    <3>2. (1 > 1) = FALSE
      OBVIOUS
    <3> QED BY <1>1, <1>2, <2>2, <3>1, <3>2
  <2> QED BY <1>1, <2>1, <2>2
<1>10. ParseCondition(words) = ParseBackend(c.guard, own)
  BY <1>3, <1>8, <1>9
<1>11. c = [guard |-> c.guard, backend |-> c.backend, name |-> c.name,
            words |-> c.words, command |-> c.command]
  BY DEF Conditions
<1> QED BY <1>4, <1>10, <1>11 DEF words

-----------------------------------------------------------------------------
(* A plain line is cut where its conditions end.                           *)

\* The conditions of a line as they are written.
Parts(conditions) == [k \in DOMAIN conditions |-> WrittenCondition(conditions[k])]

\* The number of arguments in front of the part after the k-th.
Ahead(parts, k) == IF k = 0 THEN 0 ELSE Len(Joined(SubSeq(parts, 1, k))) + 1

\* One list of words is the beginning of another.
Begins(front, line) == Len(front) <= Len(line) /\ \A i \in 1..Len(front) : line[i] = front[i]

\* The first parts, one at a time.
LEMMA FirstParts ==
    ASSUME NEW parts \in Seq(Words), NEW n \in 0..Len(parts)
    PROVE  /\ SubSeq(parts, 1, n) \in Seq(Words)
           /\ n < Len(parts) => /\ parts[n + 1] \in Words
                               /\ SubSeq(parts, 1, n + 1) = Append(SubSeq(parts, 1, n), parts[n + 1])
           /\ n = Len(parts) => SubSeq(parts, 1, n) = parts
<1>1. Len(parts) \in Nat
  BY LenProperties
<1> QED BY <1>1

\* The line of the first parts begins the line of one part more.
LEMMA JoinedGrows ==
    ASSUME NEW parts \in Seq(Words), NEW n \in Nat, n < Len(parts),
           \A k \in 1..Len(parts) : parts[k] # <<>>
    PROVE  LET front == Joined(SubSeq(parts, 1, n))
               more == Joined(SubSeq(parts, 1, n + 1))
               part == parts[n + 1]
           IN  /\ front \in Words /\ more \in Words /\ more # <<>> /\ part \in Words
               /\ n = 0 => front = <<>> /\ more = part
               /\ front = <<>> => more = part
               /\ front # <<>> => /\ Len(more) = Len(front) + 1 + Len(part)
                                 /\ Begins(front, more)
                                 /\ more[Len(front) + 1] = "--"
                                 /\ \A i \in 1..Len(part) : more[Len(front) + 1 + i] = part[i]
<1> DEFINE front == Joined(SubSeq(parts, 1, n))
           more == Joined(SubSeq(parts, 1, n + 1))
           part == parts[n + 1]
<1>1. n \in 0..Len(parts) /\ n + 1 \in 1..Len(parts)
  BY LenProperties
<1>2. /\ SubSeq(parts, 1, n) \in Seq(Words) /\ part \in Words /\ part # <<>>
      /\ SubSeq(parts, 1, n + 1) = Append(SubSeq(parts, 1, n), part)
  BY <1>1, FirstParts
<1>3. front \in Words /\ more = JoinedWith(front, part)
  BY <1>2, JoinedAppend
<1>4. more \in Words
  BY <1>2, <1>3, JoinedWithWords
<1>5. n = 0 => front = <<>>
  <2>1. n = 0 => SubSeq(parts, 1, n) = <<>>
    BY SubSeqEmpty
  <2> QED BY <2>1, JoinedNone
<1> HIDE DEF front, more, part
<1>6. front = <<>> => more = part
  BY <1>3 DEF JoinedWith
<1>7. ASSUME front # <<>>
      PROVE  /\ Len(more) = Len(front) + 1 + Len(part)
             /\ \A i \in 1..Len(front) : more[i] = front[i]
             /\ more[Len(front) + 1] = "--"
             /\ \A i \in 1..Len(part) : more[Len(front) + 1 + i] = part[i]
  BY <1>2, <1>3, <1>7, JoinedWithPositions
<1>8. Len(front) \in Nat /\ Len(part) \in Nat
  BY <1>2, <1>3, LenProperties DEF Words
<1>9. front # <<>> => Begins(front, more) /\ more # <<>>
  <2>1. front # <<>> => Len(front) <= Len(more) /\ Len(more) # 0
    BY <1>7, <1>8
  <2> QED BY <1>4, <1>7, <2>1, EmptySeq DEF Begins
<1> QED BY <1>2, <1>3, <1>4, <1>5, <1>6, <1>7, <1>9 DEF front, more, part

\* The lines of the first parts are lists of words, and not empty.
LEMMA FrontNotEmpty ==
    ASSUME NEW parts \in Seq(Words), \A k \in 1..Len(parts) : parts[k] # <<>>,
           NEW m \in 1..Len(parts)
    PROVE  Joined(SubSeq(parts, 1, m)) \in Words /\ Joined(SubSeq(parts, 1, m)) # <<>>
<1> DEFINE n == m - 1
<1>1. n \in Nat /\ n < Len(parts) /\ n + 1 = m
  BY LenProperties
<1> HIDE DEF n
<1>2. Joined(SubSeq(parts, 1, n + 1)) \in Words /\ Joined(SubSeq(parts, 1, n + 1)) # <<>>
  BY <1>1, JoinedGrows
<1> QED BY <1>1, <1>2

\* The line of the first parts begins the whole line.
LEMMA FrontBegins ==
    ASSUME NEW parts \in Seq(Words), \A k \in 1..Len(parts) : parts[k] # <<>>
    PROVE  \A m \in 1..Len(parts) : Begins(Joined(SubSeq(parts, 1, m)), Joined(parts))
<1> DEFINE n == Len(parts)
           J(m) == Joined(SubSeq(parts, 1, m))
           line == Joined(parts)
           T == {d \in Nat : d < n => Begins(J(n - d), line)}
<1>1. n \in Nat
  BY LenProperties
<1>2. ASSUME NEW m \in 1..n - 1
      PROVE  /\ J(m) # <<>> /\ Begins(J(m), J(m + 1)) /\ Len(J(m)) \in Nat /\ Len(J(m + 1)) \in Nat
             /\ J(m) \in Words
  <2>1. m - 1 \in Nat /\ m - 1 < n /\ m \in Nat /\ m < n /\ (m - 1) + 1 = m
    BY <1>1
  <2>2. J(m) # <<>> /\ J(m) \in Words
    BY <1>1, <2>1, FrontNotEmpty
  <2>3. J(m) # <<>> => Begins(J(m), J(m + 1))
    BY <2>1, JoinedGrows
  <2>4. J(m + 1) \in Words
    BY <2>1, JoinedGrows
  <2> QED BY <2>2, <2>3, <2>4, LenProperties DEF Words
<1>3. 0 \in T
  <2>1. SubSeq(parts, 1, n) = parts
    BY SubSeqFull
  <2>2. Begins(line, line)
    <3>1. line \in Words
      BY JoinedAppend, EmptySeq DEF Words
    <3> QED BY <3>1, LenProperties DEF Begins, Words
  <2>3. n - 0 = n
    BY <1>1
  <2> QED BY <2>1, <2>2, <2>3
<1>4. ASSUME NEW d \in T \cap Nat PROVE d + 1 \in T
  <2>1. CASE d + 1 < n
    <3>1. n - (d + 1) \in 1..n - 1 /\ (n - (d + 1)) + 1 = n - d
      BY <1>1, <2>1
    <3>2. Begins(J(n - d), line)
      BY <1>1, <1>4, <2>1
    <3>3. /\ Begins(J(n - (d + 1)), J(n - d))
          /\ Len(J(n - (d + 1))) \in Nat /\ Len(J(n - d)) \in Nat
      BY <1>2, <3>1
    <3>4. Len(line) \in Nat
      <4>1. line \in Words
        BY JoinedAppend, EmptySeq DEF Words
      <4> QED BY <4>1, LenProperties DEF Words
    <3> HIDE DEF J, line
    <3>5. Begins(J(n - (d + 1)), line)
      BY <3>2, <3>3, <3>4 DEF Begins
    <3> QED BY <3>5
  <2> QED BY <2>1
<1> HIDE DEF T
<1>5. \A d \in Nat : d \in T
  BY <1>3, <1>4, SetInduction
<1>6. ASSUME NEW m \in 1..n PROVE Begins(J(m), line)
  <2>1. n - m \in Nat /\ n - m < n /\ n - (n - m) = m
    BY <1>1
  <2>2. n - m \in T
    BY <1>5, <2>1
  <2> QED BY <2>1, <2>2 DEF T
<1> QED BY <1>6

\* Where a part is on the line, and what is behind it.
LEMMA LinePlaces ==
    ASSUME NEW parts \in Seq(Words), \A k \in 1..Len(parts) : parts[k] # <<>>,
           NEW k \in 0..Len(parts) - 1
    PROVE  LET line == Joined(parts)  part == parts[k + 1]  a == Ahead(parts, k)
           IN  /\ line \in Words /\ part \in Words /\ a \in Nat /\ a + Len(part) <= Len(line)
               /\ \A j \in 1..Len(part) : line[a + j] = part[j]
               /\ k + 1 = Len(parts) => Len(line) = a + Len(part)
               /\ k + 1 < Len(parts) => /\ line[a + Len(part) + 1] = "--"
                                        /\ Ahead(parts, k + 1) = a + Len(part) + 1
<1> DEFINE line == Joined(parts)
           part == parts[k + 1]
           a == Ahead(parts, k)
           J(m) == Joined(SubSeq(parts, 1, m))
<1>1. Len(parts) \in Nat /\ k \in Nat /\ k < Len(parts) /\ k + 1 \in 1..Len(parts)
  BY LenProperties
<1>2. /\ J(k) \in Words /\ J(k + 1) \in Words /\ J(k + 1) # <<>> /\ part \in Words
      /\ k = 0 => J(k) = <<>> /\ J(k + 1) = part
      /\ J(k) # <<>> => /\ Len(J(k + 1)) = Len(J(k)) + 1 + Len(part)
                       /\ \A i \in 1..Len(part) : J(k + 1)[Len(J(k)) + 1 + i] = part[i]
  BY <1>1, JoinedGrows
<1>3. k # 0 => J(k) # <<>>
  <2>1. k # 0 => k - 1 \in Nat /\ k - 1 < Len(parts) /\ (k - 1) + 1 = k
    BY <1>1
  <2> QED BY <2>1, JoinedGrows
<1>4. a = IF k = 0 THEN 0 ELSE Len(J(k)) + 1
  BY DEF Ahead
<1>5. Begins(J(k + 1), line)
  BY <1>1, FrontBegins
<1>6. line \in Words
  BY JoinedAppend, EmptySeq DEF Words
<1>7. Len(J(k)) \in Nat /\ Len(J(k + 1)) \in Nat /\ Len(part) \in Nat /\ Len(line) \in Nat
  BY <1>2, <1>6, LenProperties DEF Words
<1>8. ASSUME k + 1 < Len(parts)
      PROVE  line[Len(J(k + 1)) + 1] = "--" /\ Ahead(parts, k + 1) = Len(J(k + 1)) + 1
  <2>1. k + 1 \in Nat /\ k + 1 # 0 /\ (k + 1) + 1 \in 1..Len(parts)
    BY <1>1, <1>8
  <2>2. /\ J(k + 2) \in Words /\ J(k + 2)[Len(J(k + 1)) + 1] = "--"
        /\ Len(J(k + 2)) = Len(J(k + 1)) + 1 + Len(parts[k + 2])
        /\ parts[k + 2] \in Words
    <3> DEFINE n == k + 1
    <3>1. n + 1 = k + 2 /\ n \in Nat /\ n < Len(parts) /\ J(n) # <<>>
      BY <1>1, <1>2, <1>8
    <3> HIDE DEF n
    <3>2. /\ J(n + 1) \in Words /\ J(n + 1)[Len(J(n)) + 1] = "--"
          /\ Len(J(n + 1)) = Len(J(n)) + 1 + Len(parts[n + 1])
          /\ parts[n + 1] \in Words
      BY <3>1, JoinedGrows
    <3> QED BY <3>1, <3>2 DEF n
  <2>3. Begins(J(k + 2), line)
    <3>1. k + 2 \in 1..Len(parts)
      BY <1>1, <2>1
    <3> QED BY <3>1, FrontBegins
  <2>4. Len(parts[k + 2]) \in Nat
    BY <2>2, LenProperties DEF Words
  <2>5. Ahead(parts, k + 1) = Len(J(k + 1)) + 1
    BY <2>1 DEF Ahead
  <2> HIDE DEF J, line
  <2>6. Len(J(k + 1)) + 1 \in 1..Len(J(k + 2))
    <3>1. \A n, m \in Nat : n + 1 \in 1..n + 1 + m
      OBVIOUS
    <3>2. Len(J(k + 1)) + 1 \in 1..Len(J(k + 1)) + 1 + Len(parts[k + 2])
      BY <1>7, <2>4, <3>1, Zenon
    <3> QED BY <2>2, <3>2, Zenon
  <2> QED BY <2>2, <2>3, <2>5, <2>6 DEF Begins
<1>9. k + 1 = Len(parts) => J(k + 1) = line
  BY SubSeqFull
<1> HIDE DEF J, line, part, a
<1>10. a \in Nat /\ Len(J(k + 1)) = a + Len(part) /\ \A j \in 1..Len(part) : J(k + 1)[a + j] = part[j]
  BY <1>2, <1>3, <1>4, <1>7
<1>11. ASSUME NEW j \in 1..Len(part) PROVE line[a + j] = part[j]
  <2>1. a + j \in 1..Len(J(k + 1))
    BY <1>7, <1>10
  <2> QED BY <1>5, <1>10, <2>1 DEF Begins
<1>12. a + Len(part) <= Len(line)
  BY <1>5, <1>10 DEF Begins
<1> QED BY <1>2, <1>6, <1>8, <1>9, <1>10, <1>11, <1>12 DEF line, part, a

\* A condition begins like one.
LEMMA ConditionStarts ==
    ASSUME NEW c \in Conditions
    PROVE  LET p == WrittenCondition(c)
           IN  /\ p \in Words /\ Len(p) \in Nat /\ Len(p) >= 1 /\ p[1] # "--"
               /\ p[1] \in Backends \/ (Len(p) > 1 /\ p[1] = "guard" /\ p[2] \in Backends)
               /\ c.guard => p[1] = "guard"
               /\ ~c.guard => p[1] = c.backend
<1> DEFINE p == WrittenCondition(c)
           own == Unguarded(c)
<1>1. /\ p \in Words /\ p # <<>> /\ (~c.guard => p = own)
      /\ c.guard => Len(p) = 1 + Len(own) /\ p[1] = "guard" /\ \A i \in 1..Len(own) : p[1 + i] = own[i]
  BY ConditionWords
<1>2. /\ own \in Words /\ own[1] = c.backend /\ Len(own) = 1 + Len(Named(c)) + Len(Commanded(c))
      /\ Named(c) \in Words /\ Commanded(c) \in Words
  BY UnguardedWords
<1>3. c.guard \in BOOLEAN /\ c.backend \in Backends /\ "--" \notin Backends
  BY DEF Conditions, Backends
<1> HIDE DEF p, own
<1>4. Len(own) \in Nat /\ Len(own) >= 1
  <2>1. Len(Named(c)) \in Nat /\ Len(Commanded(c)) \in Nat
    BY <1>2, LenProperties DEF Words
  <2>2. \A n, m \in Nat : 1 + n + m \in Nat /\ 1 + n + m >= 1
    OBVIOUS
  <2> QED BY <1>2, <2>1, <2>2, Zenon
<1>5. ASSUME c.guard PROVE p[1] = "guard" /\ Len(p) = 1 + Len(own) /\ p[2] = c.backend
  <2>1. 1 \in 1..Len(own)
    BY <1>4
  <2>2. p[1 + 1] = own[1]
    BY <1>1, <1>5, <2>1
  <2>3. 1 + 1 = 2
    OBVIOUS
  <2> QED BY <1>1, <1>2, <1>5, <2>2, <2>3
<1>6. ASSUME ~c.guard PROVE p[1] = c.backend /\ Len(p) = Len(own)
  <2>1. p = own
    BY <1>1, <1>6, Zenon
  <2> QED BY <1>2, <2>1
<1>7. Len(p) \in Nat /\ Len(p) >= 1 /\ (c.guard => Len(p) > 1)
  <2>1. CASE c.guard
    BY <1>4, <1>5, <2>1
  <2>2. CASE ~c.guard
    BY <1>4, <1>6, <2>2
  <2> QED BY <1>3, <2>1, <2>2
<1>8. p[1] # "--" /\ (p[1] \in Backends \/ (Len(p) > 1 /\ p[1] = "guard" /\ p[2] \in Backends))
  <2>1. CASE c.guard
    BY <1>3, <1>5, <1>7, <2>1
  <2>2. CASE ~c.guard
    BY <1>3, <1>6, <2>2
  <2> QED BY <1>3, <2>1, <2>2
<1>9. (c.guard => p[1] = "guard") /\ (~c.guard => p[1] = c.backend)
  BY <1>5, <1>6, Zenon
<1> QED BY <1>1, <1>7, <1>8, <1>9, Zenon DEF p

\* Where the command of a plain exec condition is; without guard, no -- is before its own.
LEMMA CommandPlace ==
    ASSUME NEW c \in Conditions, PlainCondition(c), c.backend = "exec"
    PROVE  LET p == WrittenCondition(c)  n == Len(p) - Len(c.command)
           IN  /\ n \in Nat /\ n > 1 /\ n < Len(p) /\ p[n] = "--"
               /\ SubSeq(p, n + 1, Len(p)) = c.command
               /\ ~c.guard => \A i \in 1..n - 1 : p[i] # "--"
<1> DEFINE p == WrittenCondition(c)
           own == Unguarded(c)
           named == Named(c)
           m == Len(c.command)
           b == IF c.guard THEN 1 ELSE 0
<1>1. /\ p \in Words /\ (~c.guard => p = own)
      /\ c.guard => Len(p) = 1 + Len(own) /\ \A i \in 1..Len(own) : p[1 + i] = own[i]
  BY ConditionWords
<1>2. /\ own \in Words /\ own[1] = c.backend /\ Len(own) = 1 + Len(named) + Len(Commanded(c))
      /\ named \in Words /\ Commanded(c) \in Words
      /\ \A i \in 1..Len(named) : own[1 + i] = named[i]
      /\ \A i \in 1..Len(Commanded(c)) : own[1 + Len(named) + i] = Commanded(c)[i]
  BY UnguardedWords
<1>3. c.command # <<>> /\ \A i \in 1..Len(named) : named[i] # "--"
  BY PlainParts
<1>4. c.command \in Words /\ c.guard \in BOOLEAN /\ Commanded(c) = <<"--">> \o c.command /\ <<"--">> \in Words
  BY LineConfig DEF Commanded, Conditions, LineConfig, Words
<1>5. /\ Len(Commanded(c)) = 1 + m /\ Commanded(c)[1] = "--"
      /\ \A i \in 1..m : Commanded(c)[1 + i] = c.command[i]
  BY <1>4 DEF Words
<1>6. m \in Nat /\ m # 0 /\ Len(named) \in Nat
  BY <1>2, <1>3, <1>4, LenProperties, EmptySeq DEF Words
<1> HIDE DEF p, own, named, m
<1>7. /\ b \in 0..1 /\ Len(p) = b + Len(own) /\ \A i \in 1..Len(own) : p[b + i] = own[i]
  <2>1. CASE c.guard
    BY <1>1, <2>1
  <2>2. CASE ~c.guard
    <3>1. b = 0 /\ p = own
      BY <1>1, <2>2, Zenon
    <3>2. Len(own) \in Nat
      BY <1>2, LenProperties DEF Words
    <3> QED BY <3>1, <3>2
  <2> QED BY <1>4, <2>1, <2>2
<1>8. Len(own) = Len(named) + m + 2
  BY <1>2, <1>5, <1>6
<1>9. own[Len(named) + 2] = "--"
  <2>1. 1 \in 1..Len(Commanded(c)) /\ 1 + Len(named) + 1 = Len(named) + 2
    BY <1>5, <1>6
  <2>2. own[1 + Len(named) + 1] = Commanded(c)[1]
    BY <1>2, <2>1
  <2> QED BY <1>5, <2>1, <2>2
<1>10. ASSUME NEW i \in 1..m PROVE own[Len(named) + 2 + i] = c.command[i]
  <2>1. 1 + i \in 1..Len(Commanded(c)) /\ 1 + Len(named) + (1 + i) = Len(named) + 2 + i
    BY <1>5, <1>6
  <2>2. own[1 + Len(named) + (1 + i)] = Commanded(c)[1 + i]
    BY <1>2, <2>1
  <2> QED BY <1>5, <2>1, <2>2
<1> DEFINE n == b + Len(named) + 2
<1>11. Len(p) = n + m /\ n \in Nat /\ n > 1 /\ n < Len(p) /\ Len(p) - m = n
  BY <1>6, <1>7, <1>8
<1>12. p[n] = "--"
  <2>1. Len(named) + 2 \in 1..Len(own) /\ b + (Len(named) + 2) = n
    BY <1>6, <1>7, <1>8
  <2> QED BY <1>7, <1>9, <2>1
<1>13. ASSUME NEW i \in 1..m PROVE p[n + i] = c.command[i]
  <2>1. Len(named) + 2 + i \in 1..Len(own) /\ b + (Len(named) + 2 + i) = n + i
    BY <1>6, <1>7, <1>8
  <2> QED BY <1>7, <1>10, <2>1
<1>14. SubSeq(p, n + 1, n + m) = c.command
  <2>0. n + m <= Len(p)
    BY <1>6, <1>11
  <2>1. p \in Words /\ c.command \in Words /\ n \in Nat /\ n + Len(c.command) <= Len(p)
    BY <1>1, <1>4, <1>11, <2>0, Zenon DEF m
  <2>2. \A i \in 1..Len(c.command) : p[n + i] = c.command[i]
    BY <1>13 DEF m
  <2> HIDE DEF n
  <2>3. SubSeq(p, n + 1, n + Len(c.command)) = c.command
    BY <2>1, <2>2, PartOf
  <2> QED BY <2>3 DEF m
<1>15. ASSUME ~c.guard, NEW i \in 1..n - 1 PROVE p[i] # "--"
  <2>1. b = 0 /\ p = own
    BY <1>1, <1>15, Zenon
  <2>0. n - 1 = 1 + Len(named)
    BY <1>6, <2>1
  <2>2. CASE i = 1
    BY <1>2, <2>1, <2>2
  <2>3. CASE i # 1
    <3>1. i - 1 \in 1..Len(named) /\ 1 + (i - 1) = i
      BY <1>6, <2>0, <2>3
    <3> QED BY <1>2, <1>3, <2>1, <3>1
  <2> QED BY <2>2, <2>3
<1> HIDE DEF n
<1> QED BY <1>11, <1>12, <1>14, <1>15 DEF p, m

\* What is behind a place of a list of words starts a condition if its words do.
LEMMA RestStarts ==
    ASSUME NEW p \in Words, NEW i \in 1..Len(p), i < Len(p),
           p[i + 1] \in Backends \/ (i + 1 < Len(p) /\ p[i + 1] = "guard" /\ p[i + 2] \in Backends)
    PROVE  StartsCondition(SubSeq(p, i + 1, Len(p)))
<1> DEFINE rest == SubSeq(p, i + 1, Len(p))
<1>1. Len(p) \in Nat
  BY LenProperties DEF Words
<1>2. /\ Len(rest) = Len(p) - i /\ rest[1] = p[i + 1]
      /\ i + 1 < Len(p) => rest[2] = p[i + 2]
  BY <1>1 DEF Words
<1>3. Len(rest) # 0 /\ (i + 1 < Len(p) => Len(rest) > 1)
  BY <1>1, <1>2
<1>4. rest # <<>>
  BY <1>3, EmptySeq
<1> HIDE DEF rest
<1>5. StartsCondition(rest)
  BY <1>2, <1>3, <1>4 DEF StartsCondition
<1> QED BY <1>5 DEF rest

\* Inside a plain condition nothing separates: what looks like a separator is a flag's
\* value, or introduces the command. A guarded command must not look like a condition.
LEMMA InsideKept ==
    ASSUME NEW c \in Conditions, PlainCondition(c),
           ~(c.guard /\ c.backend = "exec" /\ StartsCondition(c.command)),
           args \in Words, NEW a \in Nat,
           a + Len(WrittenCondition(c)) <= Len(args),
           \A j \in 1..Len(WrittenCondition(c)) : args[a + j] = WrittenCondition(c)[j],
           \/ a + Len(WrittenCondition(c)) = Len(args)
           \/ args[a + Len(WrittenCondition(c)) + 1] = "--",
           NEW i \in 1..Len(WrittenCondition(c)),
           current = SubSeq(WrittenCondition(c), 1, i - 1)
    PROVE  ~IsSeparatorBefore(a + i)
<1> DEFINE p == WrittenCondition(c)
           n == Len(p)
<1>1. SUFFICES ASSUME IsSeparatorBefore(a + i) PROVE FALSE
  OBVIOUS
<1>2. /\ args[a + i] = "--" /\ IsConditionStart(a + i + 1)
      /\ ~IsValueForPreviousFlag(args, a + i) /\ ~IsExecCommandSeparator
  BY <1>1 DEF IsSeparatorBefore
<1>3. /\ p \in Words /\ n \in Nat /\ i \in 1..n /\ a + n <= Len(args)
      /\ \A j \in 1..n : args[a + j] = p[j]
      /\ a + n = Len(args) \/ args[a + n + 1] = "--"
      /\ current = SubSeq(p, 1, i - 1)
  BY ConditionStarts
<1>4. p[i] = "--" /\ Len(args) \in Nat
  BY <1>2, <1>3, LenProperties DEF Words
<1>5. PlainCondition(c) /\ ~(c.guard /\ c.backend = "exec" /\ StartsCondition(c.command))
  OBVIOUS
<1>6. \A k \in DOMAIN p :
         p[k] = "--" /\ StartsCondition(SubSeq(p, k + 1, Len(p)))
             => IsValueForPreviousFlag(p, k) \/ k = Len(p) - Len(c.command)
  BY <1>5 DEF PlainCondition
<1>7. /\ c.backend = "exec" <=> c.command # <<>>
      /\ ~c.guard => p[1] = c.backend
  BY PlainParts, ConditionStarts
<1>8. c.backend = "exec" =>
        /\ n - Len(c.command) > 1 /\ n - Len(c.command) \in Nat
        /\ SubSeq(p, n - Len(c.command) + 1, n) = c.command
        /\ ~c.guard => \A k \in 1..n - Len(c.command) - 1 : p[k] # "--"
  BY CommandPlace
<1> HIDE DEF p
<1>9. /\ a + i + 1 <= Len(args)
      /\ \/ args[a + i + 1] \in Backends
         \/ args[a + i + 1] = "guard" /\ a + i + 1 < Len(args) /\ args[a + i + 1 + 1] \in Backends
  BY <1>2 DEF IsConditionStart
<1>10. "--" \notin Backends
  BY DEF Backends
<1>11. i < n
  <2>1. CASE i = n
    BY <1>3, <1>4, <1>9, <1>10, <2>1
  <2> QED BY <1>3, <2>1
<1>12. args[a + i + 1] = p[i + 1]
  <2>1. i + 1 \in 1..n /\ a + (i + 1) = a + i + 1
    BY <1>3, <1>11
  <2> QED BY <1>3, <2>1
<1>13. p[i + 1] \in Backends \/ (i + 1 < n /\ p[i + 1] = "guard" /\ p[i + 2] \in Backends)
  <2>1. CASE i + 1 = n
    <3>1. a + i + 1 = a + n /\ a + i + 1 + 1 = a + n + 1
      BY <1>3, <2>1
    <3> QED BY <1>3, <1>4, <1>9, <1>10, <1>12, <3>1
  <2>2. CASE i + 1 # n
    <3>1. i + 1 < n /\ i + 2 \in 1..n /\ a + (i + 2) = a + i + 1 + 1
      BY <1>3, <1>11, <2>2
    <3>2. args[a + i + 1 + 1] = p[i + 2]
      BY <1>3, <3>1
    <3> QED BY <1>9, <1>12, <3>1, <3>2
  <2> QED BY <2>1, <2>2
<1>14. StartsCondition(SubSeq(p, i + 1, n))
  BY <1>3, <1>11, <1>13, RestStarts
<1>15. DOMAIN p = 1..n
  BY <1>3, LenProperties DEF Words
<1>16. IsValueForPreviousFlag(p, i) \/ i = n - Len(c.command)
  BY <1>3, <1>4, <1>6, <1>14, <1>15
<1>17. ~IsValueForPreviousFlag(p, i)
  <2>1. SUFFICES ASSUME i > 1, p[i - 1] \in ValueFlags PROVE FALSE
    BY DEF IsValueForPreviousFlag
  <2>2. i - 1 \in 1..n /\ a + (i - 1) = a + i - 1 /\ a + i > 1
    BY <1>3, <2>1
  <2>3. args[a + i - 1] = p[i - 1]
    BY <1>3, <2>2
  <2> QED BY <1>2, <2>1, <2>2, <2>3 DEF IsValueForPreviousFlag
<1>18. i = n - Len(c.command)
  BY <1>16, <1>17
<1>19. c.backend = "exec"
  <2>1. c.command = <<>> => Len(c.command) = 0
    BY EmptySeq
  <2>2. c.command = <<>> => i = n
    BY <1>3, <1>18, <2>1
  <2> QED BY <1>7, <1>11, <2>2
<1>20. ~c.guard
  <2>1. SubSeq(p, i + 1, n) = c.command
    BY <1>8, <1>18, <1>19
  <2> QED BY <1>5, <1>14, <1>19, <2>1
<1>21. IsExecCommandSeparator
  <2>1. i > 1 /\ \A k \in 1..i - 1 : p[k] # "--"
    BY <1>8, <1>18, <1>19, <1>20
  <2>2. i - 1 \in 0..Len(p) /\ i - 1 # 0 /\ 1 \in 1..i - 1
    BY <1>3, <2>1
  <2>3. current \in Words /\ Len(current) = i - 1 /\ \A k \in 1..i - 1 : current[k] = p[k]
    <3> DEFINE front == SubSeq(p, 1, i - 1)
    <3>1. front \in Words /\ Len(front) = i - 1 /\ \A k \in 1..i - 1 : front[k] = p[k]
      BY <1>3, <2>2, FirstWords
    <3> QED BY <1>3, <3>1
  <2>4. DOMAIN current = 1..i - 1 /\ current # <<>>
    BY <2>2, <2>3, EmptySeq, LenProperties DEF Words
  <2>5. current[1] = "exec"
    BY <1>7, <1>19, <1>20, <2>2, <2>3
  <2> QED BY <2>1, <2>3, <2>4, <2>5 DEF IsExecCommandSeparator
<1> QED BY <1>2, <1>21

\* Between two plain conditions is a separator.
LEMMA SeparatorFound ==
    ASSUME NEW c \in Conditions, PlainCondition(c), NEW d \in Conditions,
           args \in Words, NEW i \in 2..Len(args),
           args[i] = "--",
           args[i - 1] \notin ValueFlags,
           i + Len(WrittenCondition(d)) <= Len(args),
           \A j \in 1..Len(WrittenCondition(d)) : args[i + j] = WrittenCondition(d)[j],
           current = WrittenCondition(c)
    PROVE  IsSeparatorBefore(i)
<1> DEFINE p == WrittenCondition(c)
           q == WrittenCondition(d)
<1>1. /\ Len(q) \in Nat /\ Len(q) >= 1
      /\ q[1] \in Backends \/ (Len(q) > 1 /\ q[1] = "guard" /\ q[2] \in Backends)
      /\ i + Len(q) <= Len(args) /\ \A j \in 1..Len(q) : args[i + j] = q[j]
  BY ConditionStarts
<1>2. /\ current = p /\ p \in Words
      /\ c.guard => p[1] = "guard"
      /\ ~c.guard => p[1] = c.backend
  BY ConditionStarts
<1>3. c.backend = "exec" => \E k \in DOMAIN p : p[k] = "--"
  <2>1. SUFFICES ASSUME c.backend = "exec" PROVE \E k \in DOMAIN p : p[k] = "--"
    OBVIOUS
  <2> DEFINE k == Len(p) - Len(c.command)
  <2>2. k \in Nat /\ k > 1 /\ k < Len(p) /\ p[k] = "--"
    BY <2>1, CommandPlace
  <2>3. DOMAIN p = 1..Len(p) /\ Len(p) \in Nat
    BY <1>2, LenProperties DEF Words
  <2> HIDE DEF p, k
  <2> QED BY <2>2, <2>3
<1> HIDE DEF p, q
<1>4. IsConditionStart(i + 1)
  <2>1. Len(args) \in Nat
    BY LenProperties DEF Words
  <2>2. args[i + 1] = q[1] /\ i + 1 <= Len(args)
    BY <1>1, <2>1
  <2>3. Len(q) > 1 => args[i + 1 + 1] = q[2] /\ i + 1 < Len(args)
    <3>1. SUFFICES ASSUME Len(q) > 1 PROVE args[i + 1 + 1] = q[2] /\ i + 1 < Len(args)
      OBVIOUS
    <3>2. 2 \in 1..Len(q) /\ i + 2 = i + 1 + 1 /\ i + 1 < Len(args)
      BY <1>1, <2>1, <3>1
    <3> QED BY <1>1, <3>2
  <2> QED BY <1>1, <2>2, <2>3 DEF IsConditionStart
<1>5. ~IsExecCommandSeparator
  <2>1. "guard" # "exec"
    OBVIOUS
  <2> QED BY <1>2, <1>3, <2>1 DEF IsExecCommandSeparator
<1>6. ~IsValueForPreviousFlag(args, i)
  BY DEF IsValueForPreviousFlag
<1> QED BY <1>4, <1>5, <1>6 DEF IsSeparatorBefore

-----------------------------------------------------------------------------
(* A plain line is read as it was written.                                 *)

\* How far the cut of a line is: behind the j-th word of the part after the k-th.
CutAt(parts, k, j) ==
    /\ segments = SubSeq(parts, 1, k)
    /\ current = SubSeq(parts[k + 1], 1, j)
    /\ at = Ahead(parts, k) + j + 1

CutSomewhere(parts) ==
    \E k \in 0..Len(parts) - 1 : \E j \in 0..Len(parts[k + 1]) : CutAt(parts, k, j)

\* What the loops have in their variables while they cut and read a plain line.
LinesInv ==
    /\ SplitInv
    /\ written \in Lines \cup {<<>>}
    /\ phase = "typing" => written = <<>>
    /\ phase = "splitting" => parsed = <<>>
    /\ PlainLine(written) /\ ~GuardsCommand(written) =>
         /\ phase = "splitting" => args = Written(written) /\ CutSomewhere(Parts(written))
         /\ phase = "parsing" =>
               /\ segments = Parts(written)
               /\ \E k \in 0..Len(written) - 1 : parsed = SubSeq(written, 1, k)
         /\ ReadAsWritten

\* The parts of a line are lists of words.
LEMMA PartsWords ==
    ASSUME NEW conditions \in Seq(Conditions)
    PROVE  /\ Parts(conditions) \in Seq(Words)
           /\ Len(Parts(conditions)) = Len(conditions)
           /\ \A k \in 1..Len(conditions) :
                 /\ Parts(conditions)[k] = WrittenCondition(conditions[k])
                 /\ Parts(conditions)[k] # <<>>
                 /\ conditions[k] \in Conditions
           /\ Written(conditions) = Joined(Parts(conditions))
<1>1. DOMAIN conditions = 1..Len(conditions) /\ Len(conditions) \in Nat
  BY LenProperties
<1>2. \A k \in 1..Len(conditions) : conditions[k] \in Conditions
  OBVIOUS
<1>3. \A k \in 1..Len(conditions) :
         WrittenCondition(conditions[k]) \in Words /\ WrittenCondition(conditions[k]) # <<>>
  BY <1>2, ConditionWords
<1>4. /\ Parts(conditions) \in Seq(Words) /\ Len(Parts(conditions)) = Len(conditions)
      /\ \A k \in 1..Len(conditions) : Parts(conditions)[k] = WrittenCondition(conditions[k])
  BY <1>1, <1>3 DEF Parts
<1>5. Written(conditions) = Joined(Parts(conditions))
  BY DEF Written, Parts
<1> QED BY <1>2, <1>3, <1>4, <1>5

\* A plain line that is typed is not refused.
LEMMA PlainTyped ==
    ASSUME NEW conditions \in Seq(Conditions), PlainLine(conditions)
    PROVE  /\ ~RefusedLine(Written(conditions))
           /\ \E k \in 0..Len(Parts(conditions)) - 1 : k = 0
<1> DEFINE parts == Parts(conditions)
           line == Written(conditions)
           n == Len(parts)
           last == parts[n]
           a == Ahead(parts, n - 1)
<1>1. /\ parts \in Seq(Words) /\ n = Len(conditions) /\ n \in Nat /\ n # 0
      /\ \A k \in 1..n : parts[k] = WrittenCondition(conditions[k]) /\ parts[k] # <<>> /\ conditions[k] \in Conditions
      /\ line = Joined(parts)
  BY PartsWords, LenProperties, EmptySeq DEF PlainLine
<1>2. ~RefusedLine(WrittenCondition(conditions[Len(conditions)]))
  BY <1>1, LenProperties DEF PlainLine
<1> HIDE DEF parts, line, n
<1>3. n - 1 \in 0..n - 1 /\ 0 \in 0..n - 1 /\ n \in 1..n /\ (n - 1) + 1 = n
  BY <1>1
<1>4. /\ line \in Words /\ last \in Words /\ a \in Nat /\ Len(line) = a + Len(last)
      /\ \A j \in 1..Len(last) : line[a + j] = last[j]
  BY <1>1, <1>3, LinePlaces DEF n
<1>5. /\ parts[1] \in Words /\ Len(parts[1]) <= Len(line)
      /\ \A j \in 1..Len(parts[1]) : line[0 + j] = parts[1][j]
  <2>1. Ahead(parts, 0) = 0 /\ 0 + 1 = 1
    BY DEF Ahead
  <2>2. /\ parts[0 + 1] \in Words /\ Ahead(parts, 0) + Len(parts[0 + 1]) <= Len(line)
        /\ \A j \in 1..Len(parts[0 + 1]) : line[Ahead(parts, 0) + j] = parts[0 + 1][j]
    BY <1>1, <1>3, LinePlaces DEF n
  <2>3. Len(parts[1]) \in Nat
    BY <2>1, <2>2, LenProperties DEF Words
  <2> QED BY <2>1, <2>2, <2>3
<1>6. 1 \in 1..n
  BY <1>1
<1>7. Len(parts[1]) \in Nat /\ Len(parts[1]) >= 1 /\ parts[1][1] # "--"
  BY <1>1, <1>6, ConditionStarts
<1>8. line # <<>> /\ line[1] # "--"
  <2>1. line[0 + 1] = parts[1][1]
    BY <1>5, <1>7
  <2>2. Len(line) # 0
    BY <1>4, <1>5, <1>7, LenProperties DEF Words
  <2> QED BY <1>7, <2>1, <2>2, EmptySeq
<1>9. last = WrittenCondition(conditions[Len(conditions)]) /\ ~RefusedLine(last)
  BY <1>1, <1>2, <1>3
<1>10. Len(last) \in Nat /\ Len(last) >= 1
  BY <1>1, <1>3, ConditionStarts
<1> HIDE DEF last, a
<1>11. line[Len(line)] = "--" => IsValueForPreviousFlag(line, Len(line))
  <2>1. SUFFICES ASSUME line[Len(line)] = "--" PROVE IsValueForPreviousFlag(line, Len(line))
    OBVIOUS
  <2>2. Len(last) \in 1..Len(last) /\ line[a + Len(last)] = last[Len(last)]
    BY <1>4, <1>10
  <2>3. last[Len(last)] = "--"
    BY <1>4, <2>1, <2>2
  <2>4. Len(last) > 1 /\ last[Len(last) - 1] \in ValueFlags
    BY <1>9, <2>3 DEF RefusedLine, IsValueForPreviousFlag
  <2>5. Len(last) - 1 \in 1..Len(last) /\ a + (Len(last) - 1) = Len(line) - 1 /\ Len(line) > 1
    BY <1>4, <1>10, <2>4
  <2>6. line[a + (Len(last) - 1)] = last[Len(last) - 1]
    BY <1>4, <2>5
  <2> QED BY <2>4, <2>5, <2>6 DEF IsValueForPreviousFlag
<1>12. ~RefusedLine(line)
  BY <1>8, <1>11 DEF RefusedLine
<1> QED BY <1>3, <1>12 DEF line, parts, n

\* The lines that are written are lines of conditions.
LEMMA WrittenLines == written \in Lines \cup {<<>>} => written \in Seq(Conditions)
  BY LineConfig, EmptySeq DEF LineConfig

\* A line is typed, and nothing of it is cut yet.
LEMMA PlainTypeStep ==
    ASSUME LinesInv, phase = "typing",
           \/ \E conditions \in Lines : TypeLine(conditions, Written(conditions))
           \/ \E line \in OtherLines : TypeLine(<<>>, line)
    PROVE  LinesInv'
<1>1. SplitInv' /\ segments = <<>> /\ current = <<>> /\ at = 1 /\ parsed = <<>>
  BY TypeStep DEF LinesInv, SplitInv
<1>2. PICK conditions, line :
        /\ conditions \in Lines \cup {<<>>} /\ TypeLine(conditions, line)
        /\ conditions # <<>> => line = Written(conditions)
  <2>1. CASE \E some \in Lines : TypeLine(some, Written(some))
    BY <2>1
  <2>2. CASE \E line \in OtherLines : TypeLine(<<>>, line)
    BY <2>2
  <2> QED BY <2>1, <2>2
<1>3. /\ written' = conditions /\ args' = line
      /\ at' = 1 /\ current' = <<>> /\ segments' = <<>> /\ parsed' = <<>>
      /\ phase' = IF RefusedLine(line) THEN "refused" ELSE "splitting"
  BY <1>1, <1>2 DEF TypeLine
<1>4. ASSUME PlainLine(conditions)
      PROVE  /\ phase' = "splitting" /\ args' = Written(conditions)
             /\ CutSomewhere(Parts(conditions))'
  <2> DEFINE parts == Parts(conditions)
  <2>1. conditions # <<>> /\ conditions \in Seq(Conditions)
    BY <1>2, <1>4, LineConfig, EmptySeq DEF PlainLine, LineConfig
  <2>2. ~RefusedLine(Written(conditions)) /\ 0 \in 0..Len(parts) - 1
    BY <1>4, <2>1, PlainTyped
  <2>3. parts \in Seq(Words) /\ Len(parts) \in Nat
    BY <2>1, PartsWords, LenProperties
  <2> HIDE DEF parts
  <2>4. 0 + 1 \in 1..Len(parts) /\ 0 + 1 = 1
    BY <2>2, <2>3
  <2>5. parts[0 + 1] \in Words
    BY <2>3, <2>4, ElementOfSeq
  <2>6. 0 \in 0..Len(parts[0 + 1])
    BY <2>5, LenProperties DEF Words
  <2>7. SubSeq(parts, 1, 0) = <<>> /\ SubSeq(parts[0 + 1], 1, 0) = <<>>
    BY SubSeqEmpty
  <2>8. CutAt(parts, 0, 0)'
    BY <1>3, <2>7 DEF CutAt, Ahead
  <2>9. CutSomewhere(parts)'
    BY <2>2, <2>6, <2>8 DEF CutSomewhere
  <2> QED BY <1>2, <1>3, <2>1, <2>2, <2>9 DEF parts
<1>5. PlainLine(conditions) => ReadAsWritten'
  BY <1>4 DEF ReadAsWritten
<1>6. phase' # "typing" /\ phase' # "parsing"
  BY <1>3
<1> QED BY <1>1, <1>2, <1>3, <1>4, <1>5, <1>6 DEF LinesInv

\* One turn of the loop: a word more of this part, or the next part, or the end.
LEMMA CutStep ==
    ASSUME NEW parts \in Seq(Words), NEW conditions \in Seq(Conditions),
           parts = Parts(conditions), PlainLine(conditions), ~GuardsCommand(conditions),
           args = Joined(parts), CutSomewhere(parts), SplitArgument
    PROVE  \/ phase' = "splitting" /\ CutSomewhere(parts)'
           \/ phase' = "parsing" /\ segments' = parts
<1> DEFINE N == Len(parts)
<1>1. /\ N = Len(conditions) /\ N \in Nat /\ \A k \in 1..N : parts[k] # <<>>
      /\ DOMAIN conditions = 1..N
  BY PartsWords, LenProperties
<1>2. ASSUME NEW k \in 1..N
      PROVE  /\ parts[k] = WrittenCondition(conditions[k]) /\ parts[k] \in Words
             /\ conditions[k] \in Conditions /\ PlainCondition(conditions[k])
             /\ k # N => parts[k][Len(parts[k])] \notin ValueFlags
             /\ ~(conditions[k].guard /\ conditions[k].backend = "exec"
                     /\ StartsCondition(conditions[k].command))
  <2>1. parts[k] = WrittenCondition(conditions[k]) /\ conditions[k] \in Conditions
    BY <1>1, PartsWords
  <2>2. PlainCondition(conditions[k])
    BY <1>1 DEF PlainLine
  <2>3. k # N => parts[k][Len(parts[k])] \notin ValueFlags
    <3>1. k # Len(conditions) =>
            WrittenCondition(conditions[k])[Len(WrittenCondition(conditions[k]))] \notin ValueFlags
      BY <1>1 DEF PlainLine
    <3> QED BY <1>1, <2>1, <3>1
  <2>4. ~(conditions[k].guard /\ conditions[k].backend = "exec"
             /\ StartsCondition(conditions[k].command))
    BY <1>1 DEF GuardsCommand
  <2>5. parts[k] \in Words
    BY ElementOfSeq
  <2> QED BY <2>1, <2>2, <2>3, <2>4, <2>5
<1>3. PICK k \in 0..N - 1 : \E j \in 0..Len(parts[k + 1]) : CutAt(parts, k, j)
  BY DEF CutSomewhere
<1> DEFINE p == parts[k + 1]
           a == Ahead(parts, k)
           c == conditions[k + 1]
<1>4. PICK j \in 0..Len(p) : CutAt(parts, k, j)
  BY <1>3
<1>5. k \in Nat /\ k + 1 \in 1..N /\ k \in 0..N /\ k < N
  BY <1>1
<1>6. /\ args \in Words /\ p \in Words /\ a \in Nat /\ a + Len(p) <= Len(args)
      /\ \A i \in 1..Len(p) : args[a + i] = p[i]
      /\ k + 1 = N => Len(args) = a + Len(p)
      /\ k + 1 < N => args[a + Len(p) + 1] = "--" /\ Ahead(parts, k + 1) = a + Len(p) + 1
  BY <1>1, LinePlaces
<1>7. /\ p = WrittenCondition(c) /\ c \in Conditions /\ PlainCondition(c)
      /\ ~(c.guard /\ c.backend = "exec" /\ StartsCondition(c.command))
      /\ k + 1 # N => p[Len(p)] \notin ValueFlags
  BY <1>2, <1>5
<1>8. Append(SubSeq(parts, 1, k), p) = SubSeq(parts, 1, k + 1)
  BY <1>5, FirstParts
<1>9. segments = SubSeq(parts, 1, k) /\ current = SubSeq(p, 1, j) /\ at = a + j + 1 /\ phase = "splitting"
  BY <1>4 DEF CutAt, SplitArgument
<1>10. Len(p) >= 1
  BY <1>7, ConditionStarts
<1>11. Len(p) \in Nat /\ Len(args) \in Nat
  BY <1>6, LenProperties DEF Words
<1> HIDE DEF N, p, a, c
<1>12. CASE j < Len(p)
  <2> DEFINE i == j + 1
  <2>1. i \in 1..Len(p) /\ i - 1 = j /\ a + i = at /\ at <= Len(args) /\ i \in 0..Len(p)
    BY <1>6, <1>9, <1>11, <1>12
  <2> HIDE DEF i
  <2>2. ~IsSeparatorBefore(a + i)
    <3>1. a + Len(p) = Len(args) \/ args[a + Len(p) + 1] = "--"
      BY <1>1, <1>5, <1>6
    <3>2. current = SubSeq(p, 1, i - 1)
      BY <1>9, <2>1
    <3> QED BY <1>6, <1>7, <2>1, <3>1, <3>2, InsideKept
  <2>3. /\ at' = at + 1 /\ phase' = phase /\ current' = Append(current, args[at])
        /\ segments' = segments
    BY <1>9, <1>11, <2>1, <2>2 DEF SplitArgument
  <2>4. current' = SubSeq(p, 1, i)
    <3>1. args[at] = p[i]
      BY <1>6, <2>1
    <3>2. SubSeq(p, 1, i) = Append(SubSeq(p, 1, j), p[i])
      BY <1>6, <1>12, FirstWords DEF i
    <3> QED BY <1>9, <2>3, <3>1, <3>2
  <2>5. at' = a + i + 1
    BY <1>6, <2>1, <2>3
  <2>6. CutAt(parts, k, i)'
    BY <1>9, <2>3, <2>4, <2>5 DEF CutAt, a, p
  <2>7. CutSomewhere(parts)'
    BY <2>1, <2>6 DEF CutSomewhere, N, p
  <2> QED BY <1>9, <2>3, <2>7
<1>13. CASE j = Len(p)
  <2>1. current = p
    <3>1. SubSeq(p, 1, Len(p)) = p
      BY <1>6, SubSeqFull DEF Words
    <3> QED BY <1>9, <1>13, <3>1
  <2>2. at = a + Len(p) + 1
    BY <1>9, <1>13
  <2>3. CASE k + 1 = N
    <3>1. at > Len(args)
      BY <1>6, <1>11, <2>2, <2>3
    <3>2. segments' = Append(segments, current) /\ phase' = "parsing"
      BY <3>1 DEF SplitArgument
    <3>3. SubSeq(parts, 1, k + 1) = parts
      BY <2>3, SubSeqFull DEF N
    <3> QED BY <1>8, <1>9, <2>1, <3>2, <3>3
  <2>4. CASE k + 1 < N
    <3> DEFINE m == k + 1
               q == parts[m + 1]
               d == conditions[m + 1]
    <3>1. m \in 0..N - 1 /\ m + 1 \in 1..N /\ Ahead(parts, m) = at
      BY <1>1, <1>5, <1>6, <2>2, <2>4
    <3>2. q = WrittenCondition(d) /\ d \in Conditions /\ q \in Words
      BY <1>2, <3>1
    <3> HIDE DEF m
    <3>3. /\ Ahead(parts, m) + Len(parts[m + 1]) <= Len(args)
          /\ \A n \in 1..Len(parts[m + 1]) : args[Ahead(parts, m) + n] = parts[m + 1][n]
      BY <1>1, <3>1, LinePlaces DEF N
    <3>4. at + Len(q) <= Len(args) /\ \A n \in 1..Len(q) : args[at + n] = q[n]
      BY <3>1, <3>3
    <3>5. Len(q) \in Nat
      BY <3>2, LenProperties DEF Words
    <3> HIDE DEF q, d
    <3>6. at \in 2..Len(args) /\ at - 1 = a + Len(p) /\ at <= Len(args)
      BY <1>6, <1>10, <1>11, <2>2, <3>4, <3>5
    <3>7. args[at] = "--" /\ args[at - 1] \notin ValueFlags
      <4>1. Len(p) \in 1..Len(p)
        BY <1>10, <1>11
      <4>2. args[a + Len(p)] = p[Len(p)]
        BY <1>6, <4>1
      <4> QED BY <1>6, <1>7, <2>2, <2>4, <3>6, <4>2
    <3>8. IsSeparatorBefore(at)
      BY <1>6, <1>7, <2>1, <3>2, <3>4, <3>6, <3>7, SeparatorFound
    <3>9. /\ segments' = Append(segments, current) /\ current' = <<>> /\ at' = at + 1
          /\ phase' = phase
      BY <1>11, <3>6, <3>8 DEF SplitArgument
    <3>10. segments' = SubSeq(parts, 1, m)
      BY <1>8, <1>9, <2>1, <3>9 DEF m
    <3>11. SubSeq(parts[m + 1], 1, 0) = <<>> /\ 0 \in 0..Len(parts[m + 1])
      BY <3>5, SubSeqEmpty DEF q
    <3>12. at' = Ahead(parts, m) + 0 + 1
      BY <1>6, <1>11, <2>2, <3>1, <3>9
    <3>13. CutAt(parts, m, 0)'
      BY <3>9, <3>10, <3>11, <3>12 DEF CutAt
    <3>14. CutSomewhere(parts)'
      BY <3>1, <3>11, <3>13 DEF CutSomewhere, N
    <3> QED BY <1>9, <3>9, <3>14
  <2> QED BY <1>1, <1>5, <2>3, <2>4
<1> QED BY <1>11, <1>12, <1>13

\* One turn of the loop preserves LinesInv.
LEMMA PlainSplitStep ==
    ASSUME LinesInv, SplitArgument
    PROVE  LinesInv'
<1>1. SplitInv' /\ phase = "splitting" /\ parsed = <<>>
  BY SplitStep DEF LinesInv, SplitArgument
<1>2. /\ written' = written /\ args' = args /\ parsed' = parsed
      /\ phase' \in {"splitting", "parsing"}
  BY <1>1 DEF SplitArgument
<1>3. ASSUME PlainLine(written), ~GuardsCommand(written)
      PROVE  /\ phase' = "splitting" => args' = Written(written) /\ CutSomewhere(Parts(written))'
             /\ phase' = "parsing" => /\ segments' = Parts(written)
                                      /\ \E k \in 0..Len(written) - 1 : parsed' = SubSeq(written, 1, k)
  <2>1. /\ written \in Seq(Conditions) /\ args = Written(written) /\ CutSomewhere(Parts(written))
        /\ written # <<>>
    BY <1>1, <1>3, WrittenLines DEF LinesInv, PlainLine
  <2>2. PICK conditions : conditions = written
    OBVIOUS
  <2>3. PICK parts : parts = Parts(conditions)
    OBVIOUS
  <2>4. /\ conditions \in Seq(Conditions) /\ parts \in Seq(Words) /\ args = Joined(parts)
        /\ CutSomewhere(parts) /\ PlainLine(conditions) /\ ~GuardsCommand(conditions)
    BY <1>3, <2>1, <2>2, <2>3, PartsWords
  <2>5. \/ phase' = "splitting" /\ CutSomewhere(parts)'
        \/ phase' = "parsing" /\ segments' = parts
    BY <2>3, <2>4, CutStep
  <2>6. parsed' = SubSeq(written, 1, 0) /\ 0 \in 0..Len(written) - 1
    <3>1. Len(written) \in Nat /\ Len(written) # 0
      BY <2>1, LenProperties, EmptySeq
    <3>2. SubSeq(written, 1, 0) = <<>>
      BY SubSeqEmpty
    <3> QED BY <1>1, <1>2, <3>1, <3>2
  <2>7. parts = Parts(written')
    BY <1>2, <2>2, <2>3
  <2>8. CutSomewhere(parts)' => CutSomewhere(Parts(written))'
    BY <2>7 DEF CutSomewhere, CutAt
  <2>9. phase' = "splitting" => args' = Written(written)
    BY <1>2, <2>1
  <2> QED BY <2>2, <2>3, <2>5, <2>6, <2>8, <2>9
<1>4. ReadAsWritten'
  BY <1>2 DEF ReadAsWritten
<1>5. written' \in Lines \cup {<<>>}
  BY <1>2 DEF LinesInv
<1>6. phase' # "typing"
  BY <1>2
<1>7. PlainLine(written)' /\ ~GuardsCommand(written)' => PlainLine(written) /\ ~GuardsCommand(written)
  BY <1>2
<1> QED BY <1>1, <1>2, <1>3, <1>4, <1>5, <1>6, <1>7 DEF LinesInv

\* The next segment gives the next condition; after the last one the line is decided.
LEMMA PlainReadStep ==
    ASSUME LinesInv, ReadSegment
    PROVE  LinesInv'
<1>1. /\ SplitInv' /\ phase = "parsing" /\ phase' \in {"parsing", "accepted", "refused"}
      /\ UNCHANGED <<written, args, at, current, segments>>
  BY ReadStep DEF LinesInv, ReadSegment
<1>2. ASSUME PlainLine(written), ~GuardsCommand(written)
      PROVE  /\ phase' = "parsing" => /\ segments' = Parts(written)
                                      /\ \E k \in 0..Len(written) - 1 : parsed' = SubSeq(written, 1, k)
             /\ ReadAsWritten'
  <2> DEFINE N == Len(written)
             all == Append(parsed, ParseCondition(segments[Len(parsed) + 1]))
  <2>1. /\ written \in Seq(Conditions) /\ segments = Parts(written) /\ N \in Nat
        /\ \E k \in 0..N - 1 : parsed = SubSeq(written, 1, k)
    BY <1>1, <1>2, WrittenLines, LenProperties DEF LinesInv
  <2>2. PICK k \in 0..N - 1 : parsed = SubSeq(written, 1, k)
    BY <2>1
  <2>3. /\ k \in Nat /\ k < N /\ k + 1 \in 1..N /\ k + 1 \in 0..N
        /\ Len(parsed) = k /\ DOMAIN written = 1..N
    BY <2>1, <2>2
  <2>4. /\ Len(segments) = N
        /\ segments[k + 1] = WrittenCondition(written[k + 1])
        /\ written[k + 1] \in Conditions
    BY <2>1, <2>3, PartsWords
  <2>5. PlainCondition(written[k + 1])
    BY <1>2, <2>3 DEF PlainLine
  <2>6. ParseCondition(segments[Len(parsed) + 1]) = written[k + 1]
    BY <2>3, <2>4, <2>5, ConditionRead
  <2>7. written[k + 1] # Unreadable
    <3>1. written[k + 1].backend \in Backends
      BY <2>4 DEF Conditions
    <3>2. Unreadable.backend \notin Backends
      BY DEF Unreadable, Backends
    <3> QED BY <3>1, <3>2
  <2>8. all = SubSeq(written, 1, k + 1) /\ Len(all) = k + 1
    BY <2>1, <2>2, <2>3, <2>6
  <2>9. /\ parsed' = all
        /\ phase' = CASE Len(all) < Len(segments) -> "parsing"
                      [] Len(all) = Len(segments) /\ \E n \in DOMAIN all : ~all[n].guard -> "accepted"
                      [] OTHER -> "refused"
    BY <2>6, <2>7 DEF ReadSegment
  <2>10. CASE k + 1 < N
    <3>1. phase' = "parsing" /\ parsed' = SubSeq(written, 1, k + 1) /\ k + 1 \in 0..N - 1
      BY <2>1, <2>3, <2>4, <2>8, <2>9, <2>10
    <3> QED BY <1>1, <2>1, <3>1 DEF ReadAsWritten
  <2>11. CASE k + 1 = N
    <3>1. SubSeq(written, 1, k + 1) = written
      BY <2>1, <2>11, SubSeqFull
    <3>2. parsed' = written /\ all = written /\ Len(all) = Len(segments)
      BY <2>4, <2>8, <2>9, <2>11, <3>1
    <3>3. ~(Len(all) < Len(segments))
      BY <2>1, <2>4, <3>2
    <3> HIDE DEF all
    <3>4. phase' = IF \E n \in DOMAIN written : ~written[n].guard THEN "accepted" ELSE "refused"
      BY <2>9, <3>2, <3>3
    <3> QED BY <1>1, <3>2, <3>4 DEF ReadAsWritten
  <2>12. k + 1 < N \/ k + 1 = N
    <3>1. \A n \in Nat : \A m \in 0..n - 1 : m + 1 < n \/ m + 1 = n
      OBVIOUS
    <3>2. N \in Nat /\ k \in 0..N - 1
      BY <2>1, <2>2
    <3> QED BY <3>1, <3>2, Zenon
  <2> QED BY <2>10, <2>11, <2>12, Zenon
<1>3. written' \in Lines \cup {<<>>}
  BY <1>1 DEF LinesInv
<1>4. phase' # "typing" /\ phase' # "splitting"
  BY <1>1
<1>5. PlainLine(written)' /\ ~GuardsCommand(written)' => PlainLine(written) /\ ~GuardsCommand(written)
  BY <1>1
<1>6. Parts(written)' = Parts(written) /\ written' = written
  BY <1>1
<1> QED BY <1>1, <1>2, <1>3, <1>4, <1>5, <1>6 DEF LinesInv

\* LinesInv is inductive.
LEMMA PlainStep == LinesInv /\ [LineNext]_lineVars => LinesInv'
<1>1. LinesInv /\ UNCHANGED lineVars => LinesInv'
  <2>1. SUFFICES ASSUME LinesInv, UNCHANGED lineVars PROVE LinesInv'
    OBVIOUS
  <2>2. SplitInv'
    BY <2>1, LineStep DEF LinesInv
  <2>3. CutSomewhere(Parts(written)) => CutSomewhere(Parts(written))'
    BY <2>1 DEF CutSomewhere, CutAt, lineVars
  <2>4. /\ PlainLine(written)' = PlainLine(written) /\ GuardsCommand(written)' = GuardsCommand(written)
        /\ Parts(written)' = Parts(written) /\ Written(written)' = Written(written)
        /\ UNCHANGED <<written, args, phase, parsed, segments>>
    BY <2>1 DEF lineVars
  <2>5. ReadAsWritten => ReadAsWritten'
    BY <2>4 DEF ReadAsWritten
  <2> QED BY <2>1, <2>2, <2>3, <2>4, <2>5 DEF LinesInv
<1> QED BY <1>1, PlainTypeStep, PlainSplitStep, PlainReadStep DEF LineNext

\* At first nothing is typed.
LEMMA PlainStart == LineInit => LinesInv
  BY EmptySeq DEF LineInit, LinesInv, SplitInv, ReadAsWritten

\* What is read, and what is lost, is as the invariant has it.
LEMMA PlainReads == LinesInv => SegmentsMatchGrammar
<1> SUFFICES ASSUME LinesInv PROVE SegmentsMatchGrammar
  OBVIOUS
<1>1. PlainLine(written) /\ ~GuardsCommand(written) => ReadAsWritten
  BY DEF LinesInv
<1>2. NothingLost
  BY SplitLosesNothing DEF LinesInv
<1> QED BY <1>1, <1>2 DEF SegmentsMatchGrammar, NothingLost

\* Every plain line of the grammar is read as its conditions, and no argument of any line
\* is lost, however long the line is (splitConditionSegments and parseCondition).
THEOREM LinesReadAsWritten == LineSpec => []SegmentsMatchGrammar
<1>1. LineSpec => []LinesInv
  BY PlainStart, PlainStep, PTL DEF LineSpec
<1> QED BY <1>1, PlainReads, PTL

=============================================================================
