---------------------------- MODULE PollingProofs ----------------------------
(***************************************************************************)
(* Proofs about Polling, for every interval, maximum, jitter, threshold and *)
(* duration: the types, and with them that the schedule never overflows;   *)
(* when a condition completes; and how soon a stabilizing one is checked   *)
(* again.                                                                  *)
(***************************************************************************)
EXTENDS Polling, SequenceTheorems, WellFoundedInduction, TLAPS

\* nextExponentialInterval stays between the base interval and the maximum, and what
\* it doubles fits a Duration.
LEMMA NextIntervalInRange ==
    ASSUME PollConfig, NEW c \in Interval..MaxInterval
    PROVE  NextExponentialInterval(c) \in Interval..MaxInterval
<1>1. CASE c >= MaxInterval \div 2
  BY <1>1 DEF NextExponentialInterval, PollConfig
<1>2. CASE ~(c >= MaxInterval \div 2)
  <2>1. c * 2 \in Interval..MaxInterval
    BY <1>2 DEF PollConfig
  <2>2. Wrapped(c * 2) = c * 2
    BY <2>1 DEF Wrapped, PollConfig
  <2>. QED
    BY <1>2, <2>1, <2>2 DEF NextExponentialInterval, Shorter, PollConfig
<1>. QED
  BY <1>1, <1>2

\* What pollSchedule.next leaves behind is in the same range.
LEMMA AdvancedInRange ==
    ASSUME PollConfig, current \in Interval..MaxInterval, NEW b \in BOOLEAN
    PROVE  Advanced(b) \in Interval..MaxInterval
<1>1. Interval \in Interval..MaxInterval
  BY DEF PollConfig
<1>2. NextExponentialInterval(current) \in Interval..MaxInterval
  BY NextIntervalInRange
<1>. QED
  BY <1>1, <1>2 DEF Advanced

\* A jittered wait is at least one tick and at most the interval with its jitter.
LEMMA JitterBounds ==
    ASSUME PollConfig, NEW d \in Nat \ {0}, NEW f \in JitterFactors
    PROVE  /\ WithJitter(d, f) \in Nat \ {0}
           /\ 100 * WithJitter(d, f) <= d * (100 + Jitter)
<1>1. f \in 0..100 + Jitter /\ Jitter \in Nat
  BY DEF JitterFactors, PollConfig
<1>2. d * f \in Int /\ d * (100 + Jitter) \in Int
  BY <1>1
<1>3. d * f <= d * (100 + Jitter)
  BY <1>1, SMTT(20)
<1>4. 100 <= d * (100 + Jitter)
  BY <1>1, SMTT(20)
<1>5. ASSUME NEW n \in Int, NEW u \in Int, n <= u, 100 <= u
      PROVE  LET j == n \div 100
                 w == IF j > 1 THEN j ELSE 1
             IN  w \in Nat \ {0} /\ 100 * w <= u
  BY <1>5
<1>. QED
  BY <1>2, <1>3, <1>4, <1>5 DEF WithJitter

\* The waits the two kinds of check take.
LEMMA WaitInNat ==
    ASSUME PollConfig, current \in Interval..MaxInterval, NEW b \in BOOLEAN,
           NEW f \in JitterFactors
    PROVE  WithJitter(WaitBase(b), f) \in Nat
<1>1. WaitBase(b) \in Nat \ {0}
  BY DEF WaitBase, PollConfig
<1>. QED
  BY <1>1, JitterBounds

-----------------------------------------------------------------------------

\* What both kinds of check have in common, with the entry they append.
Polled(took, e, next) ==
    /\ Polls
    /\ took \in CheckTimes
    /\ e \in Entry
    /\ e.at = now + took
    /\ history' = Append(history, e)
    /\ now' = next
    /\ next \in Nat
    /\ e.at <= next

\* A failed check appends a failure and starts the streak over.
LEMMA UnsatisfiedPolled ==
    ASSUME PollConfig, PollingTypeOK, NEW took \in CheckTimes, NEW f \in JitterFactors,
           PollUnsatisfied(took, f)
    PROVE  \E e \in Entry, next \in Nat :
             /\ Polled(took, e, next)
             /\ e.raw = "unsatisfied" /\ e.result = "unsatisfied"
             /\ consecutive' = 0 /\ stableSince' = Never
             /\ current' \in Interval..MaxInterval
<1> DEFINE wait == WithJitter(WaitBase(FALSE), f)
           e == [raw |-> "unsatisfied", at |-> now + took,
                 result |-> "unsatisfied", wait |-> wait]
<1>1. wait \in Nat
  BY WaitInNat DEF PollingTypeOK
<1>2. took \in Nat /\ now \in Nat
  BY DEF PollConfig, PollingTypeOK
<1>3. current' \in Interval..MaxInterval
  BY AdvancedInRange DEF PollUnsatisfied, PollingTypeOK
<1>4. /\ Polls /\ consecutive' = 0 /\ stableSince' = Never
      /\ history' = Append(history, e) /\ now' = now + took + wait
  BY DEF PollUnsatisfied
<1> HIDE DEF wait
<1>5. e \in Entry /\ now + took + wait \in Nat /\ now + took <= now + took + wait
  BY <1>1, <1>2 DEF Entry
<1>6. Polled(took, e, now + took + wait)
  BY <1>4, <1>5 DEF Polled
<1>. QED
  BY <1>3, <1>4, <1>5, <1>6

\* A satisfied check appends a success, with the verdict on the streak it extends.
LEMMA SatisfiedPolled ==
    ASSUME PollConfig, PollingTypeOK, NEW took \in CheckTimes, NEW f \in JitterFactors,
           PollSatisfied(took, f)
    PROVE  \E e \in Entry, next \in Nat :
             /\ Polled(took, e, next)
             /\ e.raw = "satisfied"
             /\ e.result = "satisfied" <=>
                  StabilitySatisfied(consecutive', stableSince', e.at)
             /\ consecutive' = consecutive + 1
             /\ stableSince' = IF stableSince = Never THEN e.at ELSE stableSince
             /\ current' \in Interval..MaxInterval
             /\ e.result = "unsatisfied" =>
                  100 * (next - e.at) <= Interval * (100 + Jitter)
<1> DEFINE at == now + took
           since == IF stableSince = Never THEN at ELSE stableSince
           complete == StabilitySatisfied(consecutive + 1, since, at)
           wait == WithJitter(WaitBase(TRUE), f)
           e == [raw |-> "satisfied", at |-> at,
                 result |-> IF complete THEN "satisfied" ELSE "unsatisfied",
                 wait |-> IF complete THEN 0 ELSE wait]
           next == IF complete THEN at ELSE at + wait
<1>1. wait \in Nat /\ 100 * wait <= Interval * (100 + Jitter)
  <2>1. Interval \in Nat \ {0} /\ WaitBase(TRUE) = Interval
    BY DEF PollConfig, WaitBase
  <2>. QED
    BY <2>1, JitterBounds
<1>2. at \in Nat
  BY DEF PollConfig, PollingTypeOK
<1>3. current' \in Interval..MaxInterval
  BY AdvancedInRange DEF PollSatisfied, PollingTypeOK
<1>4. /\ Polls /\ consecutive' = consecutive + 1 /\ stableSince' = since
      /\ history' = Append(history, e) /\ now' = next
  BY DEF PollSatisfied
<1> HIDE DEF wait, at
<1>5. next \in Nat /\ at <= next
  BY <1>1, <1>2
<1>6. ~complete => 100 * (next - at) <= Interval * (100 + Jitter)
  <2>1. SUFFICES ASSUME ~complete PROVE 100 * (next - at) <= Interval * (100 + Jitter)
    OBVIOUS
  <2>2. next - at = wait
    BY <1>1, <1>2, <2>1
  <2> HIDE DEF next, complete
  <2>. QED
    BY <1>1, <2>2
<1> HIDE DEF next, complete, since
<1>7. /\ e \in Entry /\ e.at = at /\ e.raw = "satisfied"
      /\ e.result = "satisfied" <=> complete
      /\ e.result = "unsatisfied" <=> ~complete
  BY <1>1, <1>2 DEF Entry
<1> HIDE DEF e
<1>8. Polled(took, e, next)
  BY <1>4, <1>5, <1>7 DEF Polled, at
<1>9. complete <=> StabilitySatisfied(consecutive', stableSince', e.at)
  BY <1>4, <1>7 DEF complete
<1>10. stableSince' = IF stableSince = Never THEN e.at ELSE stableSince
  BY <1>4, <1>7 DEF since
<1>. QED
  BY <1>3, <1>4, <1>5, <1>6, <1>7, <1>8, <1>9, <1>10

-----------------------------------------------------------------------------

\* The history after a check.
LEMMA HistoryGrows ==
    ASSUME PollingTypeOK, NEW e \in Entry, history' = Append(history, e)
    PROVE  /\ history' \in Seq(Entry)
           /\ Len(history) \in Nat
           /\ Len(history') = Len(history) + 1
           /\ \A k \in 1..Len(history) : history'[k] = history[k]
           /\ history'[Len(history) + 1] = e
           /\ history' # <<>>
           /\ Last' = e
<1>1. history \in Seq(Entry)
  BY DEF PollingTypeOK
<1>2. Len(history) \in Nat
  BY <1>1
<1>. QED
  BY <1>1, <1>2, AppendProperties DEF Last

\* The checks before the last one, and the last one.
LEMMA Positions ==
    ASSUME NEW n \in Nat, NEW k \in 1..n + 1
    PROVE  k \in 1..n \/ k = n + 1
  OBVIOUS

\* Time only moves on.
LEMMA TimeKept ==
    ASSUME PollConfig, PollingTypeOK, TimeInv,
           NEW took \in CheckTimes, NEW e \in Entry, NEW next \in Nat, Polled(took, e, next)
    PROVE  TimeInv'
<1>1. history' = Append(history, e) /\ now' = next /\ e.at <= next /\ now <= e.at
  BY DEF Polled, PollConfig, PollingTypeOK
<1>2. e.at \in Nat /\ now \in Nat
  BY DEF Entry, PollingTypeOK
<1>3. \A k \in 1..Len(history) : history[k].at \in Nat
  <2>1. \A k \in 1..Len(history) : history[k] \in Entry
    BY DEF PollingTypeOK
  <2>. QED
    BY <2>1 DEF Entry
<1>4. \A k \in 1..Len(history) : history[k].at <= e.at /\ history[k].at <= next
  BY <1>1, <1>2, <1>3 DEF TimeInv
<1>5. ASSUME NEW k \in 1..Len(history') PROVE history'[k].at <= now'
  <2>1. CASE k \in 1..Len(history)
    BY <2>1, <1>1, <1>4, HistoryGrows
  <2>2. CASE k = Len(history) + 1
    BY <2>2, <1>1, HistoryGrows
  <2>. QED
    BY <1>1, <2>1, <2>2, HistoryGrows, Positions
<1>6. ASSUME NEW j \in 1..Len(history'), NEW k \in 1..Len(history'), j <= k
      PROVE  history'[j].at <= history'[k].at
  <2>1. CASE k \in 1..Len(history)
    <3>1. j \in 1..Len(history)
      BY <1>6, <2>1, <1>1, HistoryGrows
    <3>. QED
      BY <3>1, <2>1, <1>1, <1>6, HistoryGrows DEF TimeInv
  <2>2. CASE k = Len(history) + 1 /\ j \in 1..Len(history)
    BY <2>2, <1>1, <1>4, HistoryGrows
  <2>3. CASE k = Len(history) + 1 /\ j = Len(history) + 1
    BY <2>3, <1>1, <1>2, HistoryGrows
  <2>. QED
    BY <1>1, <2>1, <2>2, <2>3, HistoryGrows, Positions
<1>. QED
  BY <1>5, <1>6 DEF TimeInv

\* A condition that is still polled has not completed.
LEMMA StillPolled ==
    ASSUME PollingTypeOK, Polls, history # <<>>
    PROVE  /\ Len(history) \in 1..Len(history)
           /\ Last \in Entry
           /\ Last.result = "unsatisfied"
<1>1. Len(history) \in 1..Len(history)
  BY EmptySeq DEF PollingTypeOK
<1>. QED
  BY <1>1 DEF Polls, Last, PollingTypeOK

\* The new check comes at the base rate if the one before it was satisfied.
LEMMA RateKept ==
    ASSUME PollConfig, PollingTypeOK, PaceInv, StabilizesAtBaseRate,
           NEW took \in CheckTimes, NEW e \in Entry, NEW next \in Nat, Polled(took, e, next)
    PROVE  StabilizesAtBaseRate'
<1> DEFINE n == Len(history)
<1>1. history' = Append(history, e) /\ Polls /\ e.at = now + took
  BY DEF Polled
<1>2. now \in Nat /\ took \in Nat /\ n \in Nat
  BY <1>1, HistoryGrows DEF PollingTypeOK, PollConfig
<1>3. SUFFICES ASSUME NEW k \in 2..n + 1, history'[k - 1].raw = "satisfied"
               PROVE  \E t \in CheckTimes :
                        100 * (history'[k].at - t - history'[k - 1].at)
                          <= Interval * (100 + Jitter)
  BY <1>1, HistoryGrows DEF StabilizesAtBaseRate
<1>4. CASE k \in 1..n
  <2>1. k - 1 \in 1..n /\ k \in 2..n
    BY <1>2, <1>4
  <2>2. history'[k] = history[k] /\ history'[k - 1] = history[k - 1]
    BY <2>1, <1>1, <1>4, HistoryGrows
  <2>. QED
    BY <2>1, <2>2, <1>3 DEF StabilizesAtBaseRate
<1>5. CASE k = n + 1
  <2>1. k - 1 = n /\ n \in 1..n
    BY <1>2, <1>5
  <2>2. history # <<>>
    BY <2>1, EmptySeq
  <2>3. history'[k] = e /\ history'[k - 1] = Last
    BY <2>1, <1>1, <1>5, HistoryGrows DEF Last
  <2>4. 100 * (now - Last.at) <= Interval * (100 + Jitter)
    BY <2>2, <2>3, <1>1, <1>3, StillPolled DEF PaceInv
  <2>5. Last.at \in Nat
    BY <2>2, <1>1, StillPolled DEF Entry
  <2>6. e.at - took - Last.at = now - Last.at
    BY <2>5, <1>1, <1>2
  <2>. QED
    BY <2>3, <2>4, <2>6
<1>. QED
  BY <1>2, <1>4, <1>5, Positions
-----------------------------------------------------------------------------
(* Induction over numbers. The library's induction theorems have operators *)
(* for parameters; this one is about a set, and follows from the existence *)
(* of a least element.                                                     *)

Before == {ss \in Nat \X Nat : ss[1] < ss[2]}

\* The numbers are well-founded, with the relation written as a set.
LEMMA BeforeIsWellFounded == IsWellFoundedOn(Before, Nat)
  BY NatLessThanWellFounded DEF OpToRel, Before

\* Of some numbers, one is the least.
LEMMA LeastNumber ==
    ASSUME NEW T, T \subseteq Nat, T # {}
    PROVE  \E x \in T : \A y \in T : x <= y
<1>1. PICK x \in T : \A y \in T : ~(<<y, x>> \in Before)
  BY BeforeIsWellFounded, WFMin
<1>2. ASSUME NEW y \in T PROVE x <= y
  <2>1. x \in Nat /\ y \in Nat /\ ~(<<y, x>> \in Before)
    BY <1>1
  <2> QED BY <2>1 DEF Before
<1>. QED
  BY <1>2

\* A set of numbers that has 0 and the successor of each of its members has them all.
LEMMA SetInduction ==
    ASSUME NEW T, 0 \in T, \A n \in T \cap Nat : n + 1 \in T
    PROVE  \A n \in Nat : n \in T
<1>1. SUFFICES ASSUME Nat \ T # {} PROVE FALSE
  OBVIOUS
<1>2. PICK x \in Nat \ T : \A y \in Nat \ T : x <= y
  BY <1>1, LeastNumber
<1>3. x # 0 /\ x - 1 \in Nat /\ x - 1 \in T
  BY <1>2
<1>4. (x - 1) + 1 \in T
  BY <1>3
<1>. QED
  BY <1>2, <1>4

\* The first doublings, up to the n-th.
Doublings(g, n) ==
    /\ g \in [0..n -> Nat \ {0}]
    /\ g[0] = Interval
    /\ \A i \in 1..n : g[i] = 2 * g[i - 1]

\* Doubled is what its recursive definition says.
LEMMA DoubledIs ==
    ASSUME PollConfig
    PROVE  /\ Doubled[0] = Interval
           /\ \A n \in Nat : Doubled[n] \in Nat \ {0} /\ Doubled[n + 1] = 2 * Doubled[n]
<1> USE DEF PollConfig
<1>1. \A n \in Nat : \E g : Doublings(g, n)
  <2> DEFINE T == {n \in Nat : \E g : Doublings(g, n)}
  <2>1. 0 \in T
    <3>1. Doublings([i \in 0..0 |-> Interval], 0)
      BY DEF Doublings
    <3> QED BY <3>1
  <2>2. ASSUME NEW n \in T \cap Nat PROVE n + 1 \in T
    <3>1. PICK g : Doublings(g, n)
      BY <2>2
    <3>2. Doublings([i \in 0..n + 1 |-> IF i = n + 1 THEN 2 * g[n] ELSE g[i]], n + 1)
      <4> DEFINE h == [i \in 0..n + 1 |-> IF i = n + 1 THEN 2 * g[n] ELSE g[i]]
      <4>1. \A i \in 0..n : g[i] \in Nat \ {0} /\ h[i] = g[i]
        BY <3>1 DEF Doublings
      <4>2. h[n + 1] = 2 * g[n] /\ n \in 0..n
        OBVIOUS
      <4>3. h \in [0..n + 1 -> Nat \ {0}]
        <5>1. ASSUME NEW i \in 0..n + 1 PROVE h[i] \in Nat \ {0}
          <6>1. i \in 0..n \/ i = n + 1
            OBVIOUS
          <6>2. 2 * g[n] \in Nat \ {0}
            BY <4>1, <4>2
          <6> QED BY <4>1, <4>2, <6>1, <6>2
        <5> QED BY <5>1
      <4>4. h[0] = Interval
        BY <3>1, <4>1 DEF Doublings
      <4>5. ASSUME NEW i \in 1..n + 1 PROVE h[i] = 2 * h[i - 1]
        <5>1. CASE i \in 1..n
          BY <3>1, <4>1, <5>1 DEF Doublings
        <5>2. CASE i = n + 1
          BY <4>1, <4>2, <5>2
        <5> QED BY <5>1, <5>2
      <4> QED BY <4>3, <4>4, <4>5 DEF Doublings
    <3> QED BY <3>2
  <2> HIDE DEF T
  <2>3. \A n \in Nat : n \in T
    BY <2>1, <2>2, SetInduction
  <2> QED BY <2>3 DEF T
<1>2. ASSUME NEW n \in Nat, NEW m \in Nat, NEW g, NEW h, Doublings(g, n), Doublings(h, m)
      PROVE  \A i \in 0..n : i <= m => g[i] = h[i]
  <2> DEFINE T == {i \in Nat : i <= n /\ i <= m => g[i] = h[i]}
  <2>1. 0 \in T
    BY <1>2 DEF Doublings
  <2>2. ASSUME NEW i \in T \cap Nat PROVE i + 1 \in T
    <3>1. CASE i + 1 <= n /\ i + 1 <= m
      <4>1. i + 1 \in 1..n /\ i + 1 \in 1..m /\ (i + 1) - 1 = i /\ g[i] = h[i]
        BY <2>2, <3>1
      <4> QED BY <1>2, <4>1 DEF Doublings
    <3> QED BY <3>1
  <2> HIDE DEF T
  <2>3. \A i \in Nat : i \in T
    BY <2>1, <2>2, SetInduction
  <2> QED BY <2>3 DEF T
<1> DEFINE Some(n) == CHOOSE g : Doublings(g, n)
           G == [n \in Nat |-> Some(n)[n]]
<1>3. \A n \in Nat : Doublings(Some(n), n)
  BY <1>1
<1> HIDE DEF Some
<1>4. \A n \in Nat : G[n] \in Nat \ {0}
  BY <1>3 DEF Doublings
<1>5. G[0] = Interval
  BY <1>3 DEF Doublings
<1>6. ASSUME NEW n \in Nat, n # 0 PROVE G[n] = 2 * G[n - 1]
  <2>1. n - 1 \in Nat /\ n \in 1..n
    BY <1>6
  <2>2. Doublings(Some(n), n) /\ Doublings(Some(n - 1), n - 1)
    BY <1>3, <2>1
  <2>3. Some(n)[n] = 2 * Some(n)[n - 1]
    BY <2>1, <2>2 DEF Doublings
  <2>4. Some(n)[n - 1] = Some(n - 1)[n - 1]
    BY <1>2, <2>1, <2>2
  <2> QED BY <2>1, <2>3, <2>4
<1> HIDE DEF G
<1>7. G = [n \in Nat |-> IF n = 0 THEN Interval ELSE 2 * G[n - 1]]
  BY <1>5, <1>6 DEF G
<1>8. Doubled = [n \in Nat |-> IF n = 0 THEN Interval ELSE 2 * Doubled[n - 1]]
  BY <1>7 DEF Doubled
<1>9. \A n \in Nat : Doubled[n] \in Nat \ {0}
  <2> DEFINE T == {n \in Nat : Doubled[n] \in Nat \ {0}}
  <2>1. 0 \in T
    BY <1>8
  <2>2. ASSUME NEW n \in T \cap Nat PROVE n + 1 \in T
    <3>1. Doubled[n + 1] = 2 * Doubled[n]
      BY <1>8
    <3> QED BY <3>1
  <2> HIDE DEF T
  <2>3. \A n \in Nat : n \in T
    BY <2>1, <2>2, SetInduction
  <2> QED BY <2>3 DEF T
<1>10. Doubled[0] = Interval
  BY <1>8
<1>11. ASSUME NEW n \in Nat PROVE Doubled[n + 1] = 2 * Doubled[n]
  BY <1>8
<1>. QED
  BY <1>9, <1>10, <1>11


\* nextExponentialInterval after n failures leads to the interval after n + 1.
LEMMA NextBackedOff ==
    ASSUME PollConfig, Exponential, NEW n \in Nat, NEW c \in BackedOff(n)
    PROVE  NextExponentialInterval(c) \in BackedOff(n + 1)
<1> DEFINE d == Doubled[n]
<1>1. d \in Nat \ {0} /\ Doubled[n + 1] = 2 * d
  BY DoubledIs
<1>2. MaxInterval \in Nat \ {0} /\ MaxInterval <= MaxDuration /\ MaxDuration \in Nat
  BY DEF PollConfig
<1> HIDE DEF d
<1>3. c = Capped(d) \/ (Capped(d) = MaxInterval - 1 /\ c = MaxInterval)
  BY DEF BackedOff, d
<1>4. \/ NextExponentialInterval(c) = Capped(2 * d)
      \/ Capped(2 * d) = MaxInterval - 1 /\ NextExponentialInterval(c) = MaxInterval
  BY <1>1, <1>2, <1>3 DEF Capped, NextExponentialInterval, Wrapped, Shorter
<1>. QED
  BY <1>1, <1>4 DEF BackedOff

\* The failures before a check are counted from the last success before it.
LEMMA FailuresCounted ==
    ASSUME NEW h \in Seq(Entry), NEW k \in 1..Len(h)
    PROVE  /\ FailuresBefore(h, k) \in Nat
           /\ h[k].raw = "satisfied" => FailuresBefore(h, k + 1) = 0
           /\ h[k].raw # "satisfied" => FailuresBefore(h, k + 1) = FailuresBefore(h, k) + 1
<1> DEFINE S(m) == SuccessesBefore(h, m)
           last(m) == CHOOSE j \in S(m) : \A i \in S(m) : i <= j
<1>0. k \in Nat \ {0} /\ k + 1 - 1 = k
  OBVIOUS
<1>1. ASSUME NEW m \in {k, k + 1}, S(m) # {}
      PROVE  last(m) \in S(m) /\ \A i \in S(m) : i <= last(m)
  <2> DEFINE T == {n \in Nat : m - n \in S(m)}
  <2>1. S(m) \subseteq 1..m - 1 /\ m \in Nat
    BY DEF SuccessesBefore
  <2>2. PICK first \in S(m) : TRUE
    BY <1>1
  <2>3. m - first \in T
    BY <2>1
  <2> HIDE DEF S
  <2>4. PICK n \in T : \A x \in T : n <= x
    BY <2>3, LeastNumber
  <2>5. \A j \in S(m) : m - j \in T
    BY <2>1
  <2>6. m - n \in S(m) /\ n \in Nat
    BY <2>4
  <2>7. ASSUME NEW j \in S(m) PROVE j <= m - n
    <3>1. n <= m - j /\ j \in Int
      BY <2>1, <2>4, <2>5
    <3> QED BY <2>1, <2>6, <3>1
  <2> HIDE DEF T
  <2>8. \E j \in S(m) : \A i \in S(m) : i <= j
    BY <2>6, <2>7
  <2> QED BY <2>8
<1>2. FailuresBefore(h, k) = IF S(k) = {} THEN k - 1 ELSE k - 1 - last(k)
  BY DEF FailuresBefore
<1>3. FailuresBefore(h, k + 1) = IF S(k + 1) = {} THEN k ELSE k - last(k + 1)
  BY <1>0 DEF FailuresBefore
<1>4. ASSUME h[k].raw = "satisfied" PROVE FailuresBefore(h, k + 1) = 0
  <2>1. k \in S(k + 1) /\ \A i \in S(k + 1) : i \in Int /\ i <= k
    BY <1>0, <1>4 DEF SuccessesBefore
  <2> HIDE DEF S, last
  <2>2. last(k + 1) = k
    BY <1>1, <2>1
  <2>3. FailuresBefore(h, k + 1) = k - k
    BY <1>3, <2>1, <2>2
  <2> QED BY <2>3, <1>0
<1>5. ASSUME h[k].raw # "satisfied", FailuresBefore(h, k) \in Nat
      PROVE  FailuresBefore(h, k + 1) = FailuresBefore(h, k) + 1
  <2>1. S(k + 1) = S(k)
    BY <1>0, <1>5 DEF SuccessesBefore
  <2>2. last(k + 1) = last(k)
    BY <2>1
  <2>3. S(k) # {} => last(k) \in Int
    BY <1>1 DEF SuccessesBefore
  <2> HIDE DEF S, last
  <2>4. FailuresBefore(h, k + 1) = IF S(k) = {} THEN k ELSE k - last(k)
    BY <2>1, <2>2, <1>3
  <2>5. CASE S(k) = {}
    BY <2>4, <2>5, <1>2, <1>0
  <2>6. CASE S(k) # {}
    BY <2>3, <2>4, <2>6, <1>2, <1>0
  <2> QED BY <2>5, <2>6
<1>6. FailuresBefore(h, k) \in Nat
  <2>1. S(k) \subseteq 1..k - 1
    BY DEF SuccessesBefore
  <2>2. S(k) # {} => last(k) \in 1..k - 1
    BY <1>1, <2>1
  <2> HIDE DEF S, last
  <2> QED BY <2>2, <1>2
<1>. QED
  BY <1>4, <1>5, <1>6

\* They are about earlier checks only.
LEMMA FailuresStay ==
    ASSUME NEW h \in Seq(Entry), NEW e \in Entry, NEW k \in 1..Len(h) + 1
    PROVE  FailuresBefore(Append(h, e), k) = FailuresBefore(h, k)
<1>1. \A j \in 1..k - 1 : j \in 1..Len(h) /\ Append(h, e)[j] = h[j]
  BY AppendProperties
<1>2. SuccessesBefore(Append(h, e), k) = SuccessesBefore(h, k)
  BY <1>1 DEF SuccessesBefore
<1>. QED
  BY <1>2 DEF FailuresBefore

\* A check that takes its wait from the schedule keeps what is said of all waits.
LEMMA BackoffGrows ==
    ASSUME PollingTypeOK, BackoffFollowsFailures, NEW e \in Entry, history' = Append(history, e),
           e.raw = "unsatisfied" =>
             \E base \in BackedOff(FailuresBefore(history, Len(history) + 1)), f \in JitterFactors :
                 e.wait = WithJitter(base, f)
    PROVE  BackoffFollowsFailures'
<1> DEFINE n == Len(history)
<1>1. history \in Seq(Entry) /\ n \in Nat
  BY DEF PollingTypeOK
<1>2. SUFFICES ASSUME NEW k \in 1..n + 1, history'[k].raw = "unsatisfied"
               PROVE  \E base \in BackedOff(FailuresBefore(history', k)), f \in JitterFactors :
                        history'[k].wait = WithJitter(base, f)
  BY HistoryGrows DEF BackoffFollowsFailures
<1>3. FailuresBefore(history', k) = FailuresBefore(history, k)
  BY <1>1, FailuresStay
<1>4. CASE k \in 1..n
  BY <1>2, <1>3, <1>4, HistoryGrows DEF BackoffFollowsFailures
<1>5. CASE k = n + 1
  BY <1>2, <1>3, <1>5, HistoryGrows
<1>. QED
  BY <1>1, <1>4, <1>5, Positions

\* A failed check waits as long as the failures before it say, and is one more.
LEMMA UnsatisfiedBacksOff ==
    ASSUME PollConfig, PollingTypeOK, BackoffInv, NEW took \in CheckTimes, NEW f \in JitterFactors,
           PollUnsatisfied(took, f)
    PROVE  BackoffInv'
<1> DEFINE n == Len(history)
           fails == FailuresBefore(history, n + 1)
<1>1. PICK e \in Entry : /\ history' = Append(history, e) /\ e.raw = "unsatisfied"
                         /\ e.wait = WithJitter(current, f) /\ current' = Advanced(FALSE) /\ Polls
  <2> DEFINE wait == WithJitter(WaitBase(FALSE), f)
             d == [raw |-> "unsatisfied", at |-> now + took, result |-> "unsatisfied", wait |-> wait]
  <2>1. wait \in Nat /\ now + took \in Nat
    <3>1. current \in Interval..MaxInterval
      BY DEF PollingTypeOK
    <3>2. wait \in Nat
      BY <3>1, WaitInNat
    <3>3. now + took \in Nat
      BY DEF PollingTypeOK, PollConfig
    <3> QED BY <3>2, <3>3
  <2>2. history' = Append(history, d) /\ current' = Advanced(FALSE) /\ Polls
    BY DEF PollUnsatisfied
  <2>3. wait = WithJitter(current, f)
    BY DEF WaitBase
  <2> HIDE DEF wait
  <2>4. d \in Entry /\ d.raw = "unsatisfied" /\ d.wait = wait
    BY <2>1 DEF Entry
  <2> QED BY <2>2, <2>3, <2>4
<1>2. current \in BackedOff(fails)
  BY <1>1 DEF BackoffInv
<1>3. BackoffFollowsFailures'
  BY <1>1, <1>2, BackoffGrows DEF BackoffInv
<1>4. fails \in Nat /\ FailuresBefore(history', Len(history') + 1) = fails + 1
  <2>1. /\ history' \in Seq(Entry) /\ Len(history') = n + 1 /\ n \in Nat
        /\ history'[n + 1] = e
    BY <1>1, HistoryGrows
  <2>2. FailuresBefore(history', n + 1) = fails
    BY <1>1, <2>1, FailuresStay DEF PollingTypeOK
  <2>3. n + 1 \in 1..Len(history') /\ history'[n + 1].raw # "satisfied"
    BY <1>1, <2>1
  <2> QED BY <2>1, <2>2, <2>3, FailuresCounted
<1> HIDE DEF fails
<1>5. current' \in BackedOff(fails + 1)
  <2>1. CASE Exponential
    BY <1>1, <1>2, <1>4, <2>1, NextBackedOff DEF Advanced
  <2>2. CASE ~Exponential
    BY <1>1, <1>2, <2>2 DEF Advanced, BackedOff
  <2> QED BY <2>1, <2>2
<1>. QED
  BY <1>3, <1>4, <1>5 DEF BackoffInv

\* A satisfied check starts the count and the schedule over, or ends the checks.
LEMMA SatisfiedStartsOver ==
    ASSUME PollConfig, PollingTypeOK, BackoffInv, NEW took \in CheckTimes, NEW f \in JitterFactors,
           PollSatisfied(took, f)
    PROVE  BackoffInv'
<1> DEFINE n == Len(history)
<1>1. PICK e \in Entry, next \in Nat : Polled(took, e, next) /\ e.raw = "satisfied"
  BY SatisfiedPolled
<1>2. history' = Append(history, e)
  BY <1>1 DEF Polled
<1>3. BackoffFollowsFailures'
  BY <1>1, <1>2, BackoffGrows DEF BackoffInv
<1>4. /\ history' \in Seq(Entry) /\ Len(history') = n + 1 /\ n \in Nat
      /\ history'[n + 1] = e
  BY <1>2, HistoryGrows
<1>5. FailuresBefore(history', Len(history') + 1) = 0
  BY <1>1, <1>4, FailuresCounted
<1>6. ASSUME Polls' PROVE current' = Interval
  <2>1. history'[n + 1].result = "unsatisfied"
    BY <1>4, <1>6 DEF Polls
  <2> QED BY <1>4, <2>1 DEF PollSatisfied, Advanced
<1>7. Interval \in BackedOff(0)
  BY DoubledIs DEF BackedOff, Capped, PollConfig
<1>. QED
  BY <1>3, <1>5, <1>6, <1>7 DEF BackoffInv

-----------------------------------------------------------------------------

\* The start: nothing was checked.
LEMMA InitInv ==
    ASSUME PollConfig, Init
    PROVE  PollInv
<1>1. history = <<>> /\ Len(history) = 0 /\ history \in Seq(Entry)
  BY EmptySeq DEF Init
<1>2. PollingTypeOK
  BY <1>1 DEF Init, PollingTypeOK, PollConfig
<1>3. StreakInv
  BY <1>1 DEF Init, StreakInv
<1>4. TimeInv /\ VerdictInv /\ PaceInv /\ StabilizesAtBaseRate
  BY <1>1 DEF TimeInv, VerdictInv, PaceInv, StabilizesAtBaseRate
<1>5. BackoffInv
  <2>1. FailuresBefore(history, Len(history) + 1) = 0
    BY <1>1 DEF FailuresBefore, SuccessesBefore
  <2>2. current \in BackedOff(0)
    BY DoubledIs DEF Init, BackedOff, Capped, PollConfig
  <2> QED BY <1>1, <2>1, <2>2 DEF BackoffInv, BackoffFollowsFailures
<1>. QED
  BY <1>2, <1>3, <1>4, <1>5 DEF PollInv

\* A failed check keeps the invariant: the streak is empty again.
LEMMA UnsatisfiedInv ==
    ASSUME PollConfig, PollInv, NEW took \in CheckTimes, NEW f \in JitterFactors,
           PollUnsatisfied(took, f)
    PROVE  PollInv'
<1>1. PICK e \in Entry, next \in Nat :
             /\ Polled(took, e, next)
             /\ e.raw = "unsatisfied" /\ e.result = "unsatisfied"
             /\ consecutive' = 0 /\ stableSince' = Never
             /\ current' \in Interval..MaxInterval
  BY UnsatisfiedPolled DEF PollInv
<1>2. history' = Append(history, e) /\ now' = next
  BY <1>1 DEF Polled
<1>3. PollingTypeOK
  BY DEF PollInv
<1>4. PollingTypeOK'
  BY <1>1, <1>2, <1>3, HistoryGrows DEF PollingTypeOK
<1>5. StreakInv'
  BY <1>1, <1>2, <1>3, HistoryGrows DEF StreakInv
<1>6. VerdictInv' /\ PaceInv'
  BY <1>1, <1>2, <1>3, HistoryGrows DEF VerdictInv, PaceInv
<1>7. TimeInv' /\ StabilizesAtBaseRate'
  BY <1>1, TimeKept, RateKept DEF PollInv
<1>8. BackoffInv'
  BY UnsatisfiedBacksOff DEF PollInv
<1>. QED
  BY <1>4, <1>5, <1>6, <1>7, <1>8 DEF PollInv

\* A satisfied check keeps the invariant: the streak is one check longer, and begins
\* with this check if it was empty.
LEMMA SatisfiedInv ==
    ASSUME PollConfig, PollInv, NEW took \in CheckTimes, NEW f \in JitterFactors,
           PollSatisfied(took, f)
    PROVE  PollInv'
<1> DEFINE n == Len(history)
<1>1. PICK e \in Entry, next \in Nat :
             /\ Polled(took, e, next)
             /\ e.raw = "satisfied"
             /\ e.result = "satisfied" <=>
                  StabilitySatisfied(consecutive', stableSince', e.at)
             /\ consecutive' = consecutive + 1
             /\ stableSince' = IF stableSince = Never THEN e.at ELSE stableSince
             /\ current' \in Interval..MaxInterval
             /\ e.result = "unsatisfied" =>
                  100 * (next - e.at) <= Interval * (100 + Jitter)
  BY SatisfiedPolled DEF PollInv
<1>2. history' = Append(history, e) /\ now' = next
  BY <1>1 DEF Polled
<1>3. PollingTypeOK /\ StreakInv /\ consecutive \in Nat /\ n \in Nat
  BY <1>2, HistoryGrows DEF PollInv, PollingTypeOK
<1>4. e.at \in Nat /\ e.result \in {"satisfied", "unsatisfied"}
  BY <1>1 DEF Entry
<1>5. PollingTypeOK'
  BY <1>1, <1>2, <1>3, <1>4, HistoryGrows DEF PollingTypeOK
<1>6. StreakInv'
  <2>1. consecutive' <= Len(history')
    BY <1>1, <1>2, <1>3, HistoryGrows DEF StreakInv
  <2>2. ASSUME NEW k \in 1..Len(history'), k > Len(history') - consecutive'
        PROVE  history'[k].raw = "satisfied"
    <3>1. CASE k \in 1..n
      <4>1. k > n - consecutive
        BY <1>1, <1>2, <1>3, <2>2, <3>1, HistoryGrows
      <4>. QED
        BY <3>1, <4>1, <1>2, <1>3, HistoryGrows DEF StreakInv
    <3>2. CASE k = n + 1
      BY <3>2, <1>1, <1>2, <1>3, HistoryGrows
    <3>. QED
      BY <1>2, <1>3, <3>1, <3>2, HistoryGrows, Positions
  <2>3. ASSUME consecutive' < Len(history')
        PROVE  history'[Len(history') - consecutive'].raw = "unsatisfied"
    <3>1. /\ consecutive < n
          /\ Len(history') - consecutive' = n - consecutive
          /\ n - consecutive \in 1..n
      BY <2>3, <1>1, <1>2, <1>3, HistoryGrows
    <3>. QED
      BY <3>1, <1>2, <1>3, HistoryGrows DEF StreakInv
  <2>4. consecutive' # 0
    BY <1>1, <1>3
  <2>5. stableSince' = history'[Len(history') - consecutive' + 1].at
    <3>1. Len(history') - consecutive' + 1 = n - consecutive + 1
      BY <1>1, <1>2, <1>3, HistoryGrows
    <3>2. CASE consecutive = 0
      BY <3>1, <3>2, <1>1, <1>2, <1>3, HistoryGrows DEF StreakInv
    <3>3. CASE consecutive # 0
      <4>1. n - consecutive + 1 \in 1..n
        BY <3>3, <1>3 DEF StreakInv
      <4>2. /\ stableSince = history[n - consecutive + 1].at
            /\ history[n - consecutive + 1] \in Entry
        BY <3>3, <4>1, <1>3 DEF StreakInv, PollingTypeOK
      <4>3. stableSince \in Nat
        BY <4>2 DEF Entry
      <4>4. stableSince' = stableSince
        BY <4>3, <1>1 DEF Never
      <4>. QED
        BY <3>1, <4>1, <4>2, <4>4, <1>2, <1>3, HistoryGrows
    <3>. QED
      BY <3>2, <3>3
  <2>. QED
    BY <2>1, <2>2, <2>3, <2>4, <2>5 DEF StreakInv
<1>7. VerdictInv'
  <2>1. Last' = e /\ consecutive' > 0
    BY <1>1, <1>2, <1>3, HistoryGrows
  <2>. QED
    BY <2>1, <1>1 DEF VerdictInv, StabilitySatisfied
<1>8. PaceInv'
  BY <1>1, <1>2, <1>3, HistoryGrows DEF PaceInv
<1>9. TimeInv' /\ StabilizesAtBaseRate'
  BY <1>1, TimeKept, RateKept DEF PollInv
<1>10. BackoffInv'
  BY SatisfiedStartsOver DEF PollInv
<1>. QED
  BY <1>5, <1>6, <1>7, <1>8, <1>9, <1>10 DEF PollInv

\* The inductive invariant.
THEOREM PollInvariant == Spec => []PollInv
<1>1. Init => PollInv
  BY PollConfig, InitInv
<1>2. PollInv /\ [Next]_vars => PollInv'
  <2>1. SUFFICES ASSUME PollInv, [Next]_vars PROVE PollInv'
    OBVIOUS
  <2>2. CASE UNCHANGED vars
    BY <2>1, <2>2 DEF vars, PollInv, PollingTypeOK, StreakInv, TimeInv, VerdictInv, PaceInv,
                      StabilizesAtBaseRate, Last, StabilitySatisfied, BackoffInv,
                      BackoffFollowsFailures, Polls
  <2>3. ASSUME NEW took \in CheckTimes, NEW f \in JitterFactors, PollUnsatisfied(took, f)
        PROVE  PollInv'
    BY <2>1, <2>3, PollConfig, UnsatisfiedInv
  <2>4. ASSUME NEW took \in CheckTimes, NEW f \in JitterFactors, PollSatisfied(took, f)
        PROVE  PollInv'
    BY <2>1, <2>4, PollConfig, SatisfiedInv
  <2>. QED
    BY <2>1, <2>2, <2>3, <2>4 DEF Next, Stop
<1>. QED
  BY <1>1, <1>2, PTL DEF Spec

\* Types: among them, that the schedule stays between the base interval and the
\* maximum and that doubling never overflows (nextExponentialInterval).
THEOREM TypeCorrect == Spec => []PollingTypeOK
<1>1. PollInv => PollingTypeOK
  BY DEF PollInv
<1>. QED
  BY <1>1, PollInvariant, PTL

\* A condition that is stabilizing is checked at the base rate (runCondition, next).
THEOREM PaceSound == Spec => []StabilizesAtBaseRate
<1>1. PollInv => StabilizesAtBaseRate
  BY DEF PollInv
<1>. QED
  BY <1>1, PollInvariant, PTL

\* A check completes its condition exactly when a streak of satisfied checks that
\* ends with it is long enough, in number and in time (applyStabilityThreshold).
THEOREM CompletionSound == Spec => []CompletesWhenStable
<1>1. ASSUME PollInv PROVE CompletesWhenStable
  <2> DEFINE n == Len(history)
             Stable(m) == /\ StreakOf(m)
                          /\ m >= RequiredSuccesses
                          /\ Last.at - history[n - m + 1].at >= StableFor
  <2>1. SUFFICES ASSUME history # <<>>
                 PROVE  Last.result = "satisfied" <=> \E m \in 1..n : Stable(m)
    BY DEF CompletesWhenStable
  <2>2. /\ n \in Nat /\ n \in 1..n /\ consecutive \in 0..n
        /\ RequiredSuccesses \in Nat \ {0} /\ StableFor \in Nat
    BY <1>1, <2>1, EmptySeq, PollConfig DEF PollInv, PollingTypeOK, StreakInv, PollConfig
  <2>3. \A k \in 1..n : history[k].at \in Nat
    <3>1. \A k \in 1..n : history[k] \in Entry
      BY <1>1 DEF PollInv, PollingTypeOK
    <3>. QED
      BY <3>1 DEF Entry
  <2>4. ASSUME Last.result = "satisfied" PROVE \E m \in 1..n : Stable(m)
    <3>1. consecutive > 0 /\ StabilitySatisfied(consecutive, stableSince, Last.at)
      BY <1>1, <2>1, <2>4 DEF PollInv, VerdictInv
    <3>2. consecutive \in 1..n /\ n - consecutive + 1 \in 1..n
      BY <3>1, <2>2
    <3>3. StreakOf(consecutive)
      BY <1>1, <3>2 DEF StreakOf, PollInv, StreakInv
    <3>4. stableSince = history[n - consecutive + 1].at
      BY <1>1, <3>2 DEF PollInv, StreakInv
    <3>5. history[n - consecutive + 1].at <= Last.at
      BY <1>1, <2>2, <3>2 DEF PollInv, TimeInv, Last
    <3>6. Last.at - history[n - consecutive + 1].at >= StableFor
      BY <3>1, <3>2, <3>4, <3>5, <2>2, <2>3 DEF StabilitySatisfied, Last
    <3>. QED
      BY <3>1, <3>2, <3>3, <3>6 DEF StabilitySatisfied
  <2>5. ASSUME NEW m \in 1..n, Stable(m) PROVE Last.result = "satisfied"
    <3>1. m <= consecutive
      <4>1. SUFFICES ASSUME consecutive < m PROVE FALSE
        BY <2>2
      <4>2. n - consecutive \in 1..n /\ n - consecutive >= n - m + 1 /\ consecutive < n
        BY <4>1, <2>2
      <4>3. history[n - consecutive].raw = "unsatisfied"
        BY <4>2, <1>1 DEF PollInv, StreakInv
      <4>4. history[n - consecutive].raw = "satisfied"
        BY <4>2, <2>2, <2>5 DEF StreakOf
      <4>. QED
        BY <4>3, <4>4
    <3>2. consecutive \in 1..n /\ n - consecutive + 1 \in 1..n /\ n - m + 1 \in 1..n
      BY <3>1, <2>2
    <3>3. stableSince = history[n - consecutive + 1].at
      BY <1>1, <3>2 DEF PollInv, StreakInv
    <3>4. history[n - consecutive + 1].at <= history[n - m + 1].at
      BY <1>1, <3>1, <3>2, <2>2 DEF PollInv, TimeInv
    <3>5. Last.at - stableSince >= StableFor
      BY <3>2, <3>3, <3>4, <2>2, <2>3, <2>5 DEF Last
    <3>6. StabilitySatisfied(consecutive, stableSince, Last.at) /\ consecutive > 0
      BY <3>1, <3>2, <3>5, <2>2, <2>5 DEF StabilitySatisfied
    <3>. QED
      BY <3>6, <1>1, <2>1 DEF PollInv, VerdictInv
  <2>. QED
    BY <2>4, <2>5
<1>. QED
  BY <1>1, PollInvariant, PTL

\* The wait after a failed check is the base interval, doubled for every failure since
\* the last success and capped at the maximum (pollSchedule.next).
THEOREM BackoffSound == Spec => []BackoffFollowsFailures
<1>1. PollInv => BackoffFollowsFailures
  BY DEF PollInv, BackoffInv
<1>. QED
  BY <1>1, PollInvariant, PTL
=============================================================================
