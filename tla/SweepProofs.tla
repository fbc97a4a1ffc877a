------------------------------ MODULE SweepProofs ------------------------------
(***************************************************************************)
(* Proofs about the load sweep, for any levels, durations, timeouts,       *)
(* replicas and context sizes, and any quantile and service level.         *)
(***************************************************************************)
EXTENDS LoadSweep, OperatorProofs

\* The rank of a quantile is the least that holds its share.
LEMMA RankBounds ==
    \A n \in Nat \ {0} : /\ Rank(n) \in 1..n
                         /\ 100 * Rank(n) >= Quantile * n
                         /\ 100 * (Rank(n) - 1) < Quantile * n
<1> SUFFICES ASSUME NEW n \in Nat \ {0}
             PROVE  /\ Rank(n) \in 1..n
                    /\ 100 * Rank(n) >= Quantile * n
                    /\ 100 * (Rank(n) - 1) < Quantile * n
  OBVIOUS
<1> DEFINE x == Quantile * n
<1>1. x \in Nat /\ n <= x /\ x <= 100 * n
  <2>1. Quantile \in Nat /\ 1 <= Quantile /\ Quantile <= 100
    BY SweepAssumption
  <2>2. \A q, m \in Nat : 1 <= q /\ q <= 100 => q * m \in Nat /\ m <= q * m /\ q * m <= 100 * m
    OBVIOUS
  <2>3. QED
    BY <2>1, <2>2
<1>2. Rank(n) = (x + 99) \div 100
  BY DEF Rank
<1> HIDE DEF x
<1>3. \A m \in Nat : /\ m \div 100 \in Nat /\ (m \div 100) * 100 <= m
                     /\ m < (m \div 100 + 1) * 100
  OBVIOUS
<1>4. x + 99 \in Nat
  BY <1>1
<1>5. Rank(n) \in Nat /\ Rank(n) * 100 <= x + 99 /\ x + 99 < (Rank(n) + 1) * 100
  BY <1>2, <1>3, <1>4
<1>6. 100 * Rank(n) >= x /\ 100 * (Rank(n) - 1) < x
  BY <1>1, <1>5
<1>7. Rank(n) \in 1..n
  BY <1>1, <1>5
<1>8. QED
  BY <1>6, <1>7 DEF x

\* The percentile of some completions is the latency that the rank falls on.
LEMMA PercentileTyped ==
    ASSUME NEW ok \in Counts(CallTimeout), Completed(ok) > 0
    PROVE  /\ Percentile(ok) \in 1..CallTimeout
           /\ AtMost(ok, Percentile(ok)) >= Rank(Completed(ok))
           /\ AtMost(ok, Percentile(ok) - 1) < Rank(Completed(ok))
<1> DEFINE n == Completed(ok)
<1>1. CallTimeout \in Nat
  BY SweepAssumption
<1>2. n \in Nat \ {0} /\ n = AtMost(ok, CallTimeout)
  BY <1>1, AtMostTyped DEF Completed
<1>3. Rank(n) \in 1..AtMost(ok, CallTimeout)
  BY <1>2, RankBounds
<1>4. \E k \in 1..CallTimeout : AtMost(ok, k) >= Rank(n) /\ AtMost(ok, k - 1) < Rank(n)
  BY <1>1, <1>3, RankFalls
<1>5. Percentile(ok) = CHOOSE k \in 1..CallTimeout :
                           AtMost(ok, k) >= Rank(n) /\ AtMost(ok, k - 1) < Rank(n)
  BY <1>2 DEF Percentile
<1> HIDE DEF n
<1>6. /\ Percentile(ok) \in 1..CallTimeout
      /\ AtMost(ok, Percentile(ok)) >= Rank(n)
      /\ AtMost(ok, Percentile(ok) - 1) < Rank(n)
  BY <1>4, <1>5
<1>7. QED
  BY <1>6 DEF n

\* What the sweep and the bench report as p<q> (loadtest.py:124-130): at least that
\* share of the completions took no longer, and a smaller share took less.
THEOREM PercentileIsAQuantile ==
    \A ok \in Counts(CallTimeout) :
        Completed(ok) > 0 =>
            /\ Percentile(ok) \in 1..CallTimeout
            /\ 100 * AtMost(ok, Percentile(ok)) >= Quantile * Completed(ok)
            /\ 100 * AtMost(ok, Percentile(ok) - 1) < Quantile * Completed(ok)
<1> SUFFICES ASSUME NEW ok \in Counts(CallTimeout), Completed(ok) > 0
             PROVE  /\ Percentile(ok) \in 1..CallTimeout
                    /\ 100 * AtMost(ok, Percentile(ok)) >= Quantile * Completed(ok)
                    /\ 100 * AtMost(ok, Percentile(ok) - 1) < Quantile * Completed(ok)
  OBVIOUS
<1> DEFINE n == Completed(ok)
           r == Rank(n)
           x == Quantile * n
           p == Percentile(ok)
<1>1. CallTimeout \in Nat \ {0} /\ Quantile \in Nat
  BY SweepAssumption
<1>2. \A l \in 0..CallTimeout : AtMost(ok, l) \in Nat
  BY <1>1, AtMostTyped
<1>3. n \in Nat \ {0}
  BY <1>1, <1>2 DEF Completed
<1>4. x \in Nat
  BY <1>1, <1>3
<1>5. r \in Nat /\ 100 * r >= x /\ 100 * (r - 1) < x
  BY <1>3, RankBounds
<1>6. p \in 1..CallTimeout /\ AtMost(ok, p) >= r /\ AtMost(ok, p - 1) < r
  BY PercentileTyped
<1> HIDE DEF n, r, x, p
<1>7. AtMost(ok, p) \in Nat /\ AtMost(ok, p - 1) \in Nat
  BY <1>1, <1>2, <1>6
<1>8. 100 * AtMost(ok, p) >= x /\ 100 * AtMost(ok, p - 1) < x
  BY <1>4, <1>5, <1>6, <1>7
<1>9. QED
  BY <1>6, <1>8 DEF n, x, p

\* The completions over the SLO and those up to a latency below it are different ones.
LEMMA SlowOrFast ==
    ASSUME NEW ok \in Counts(CallTimeout), NEW p \in 0..CallTimeout, p < Slo
    PROVE  Completed(Slow(ok)) + AtMost(ok, p) <= Completed(ok)
<1> DEFINE slow == Slow(ok)
           S == {l \in 0..CallTimeout :
                   AtMost(slow, l) + (IF l <= p THEN AtMost(ok, l) ELSE AtMost(ok, p))
                       <= AtMost(ok, l)}
<1>0. CallTimeout \in Nat \ {0} /\ Slo \in Nat
  BY SweepAssumption
<1>1. /\ slow \in Counts(CallTimeout)
      /\ \A l \in 1..CallTimeout : slow[l] = IF l < Slo THEN 0 ELSE ok[l]
      /\ \A l \in 1..CallTimeout : ok[l] \in Nat
  BY DEF Slow, Counts
<1> HIDE DEF slow
<1>2. /\ AtMost(ok, 0) = 0 /\ AtMost(slow, 0) = 0
      /\ \A l \in 1..CallTimeout : AtMost(ok, l) = AtMost(ok, l - 1) + ok[l]
      /\ \A l \in 1..CallTimeout : AtMost(slow, l) = AtMost(slow, l - 1) + slow[l]
      /\ \A l \in 0..CallTimeout : AtMost(ok, l) \in Nat /\ AtMost(slow, l) \in Nat
  BY <1>0, <1>1, AtMostTyped
<1>3. 0 \in S
  BY <1>0, <1>2
<1>4. ASSUME NEW n \in 0..CallTimeout, n < CallTimeout, n \in S
      PROVE  n + 1 \in S
  <2>1. /\ n + 1 \in 1..CallTimeout /\ n + 1 \in 0..CallTimeout /\ (n + 1) - 1 = n
        /\ AtMost(slow, n) + (IF n <= p THEN AtMost(ok, n) ELSE AtMost(ok, p))
              <= AtMost(ok, n)
    BY <1>0, <1>4
  <2>2. /\ AtMost(slow, n + 1) = AtMost(slow, n) + slow[n + 1]
        /\ AtMost(ok, n + 1) = AtMost(ok, n) + ok[n + 1]
        /\ AtMost(ok, n) \in Nat /\ AtMost(slow, n) \in Nat /\ AtMost(ok, p) \in Nat
        /\ ok[n + 1] \in Nat
    BY <1>0, <1>1, <1>2, <2>1
  <2>3. slow[n + 1] = IF n + 1 < Slo THEN 0 ELSE ok[n + 1]
    BY <1>1, <2>1
  <2>4. CASE n + 1 <= p
    <3>1. slow[n + 1] = 0
      BY <1>0, <2>3, <2>4
    <3>2. AtMost(slow, n + 1) + AtMost(ok, n + 1) <= AtMost(ok, n + 1)
      BY <2>1, <2>2, <2>4, <3>1
    <3>3. QED
      BY <2>1, <2>4, <3>2
  <2>5. CASE ~(n + 1 <= p)
    <3>1. AtMost(slow, n) + AtMost(ok, p) <= AtMost(ok, n)
      <4>1. n <= p => n = p
        BY <1>0, <2>5
      <4>2. QED
        BY <2>1, <4>1
    <3>2. AtMost(slow, n + 1) + AtMost(ok, p) <= AtMost(ok, n + 1)
      BY <2>2, <2>3, <3>1
    <3>3. QED
      BY <2>1, <2>5, <3>2
  <2>6. QED
    BY <2>4, <2>5
<1> HIDE DEF S
<1>5. CallTimeout \in S
  BY <1>0, <1>3, <1>4, NumbersUpTo
<1>6. AtMost(slow, CallTimeout) + AtMost(ok, p) <= AtMost(ok, CallTimeout)
  <2>1. CallTimeout <= p => p = CallTimeout
    BY <1>0
  <2>2. QED
    BY <1>5, <2>1 DEF S
<1>7. QED
  BY <1>6 DEF Completed, slow
----
\* The levels are in order, and none is of no worker.
LEMMA LevelsAscend ==
    /\ Len(Levels) \in Nat \ {0}
    /\ \A i \in 1..Len(Levels) : Levels[i] \in Nat \ {0}
    /\ \A i, j \in 1..Len(Levels) : i < j => Levels[i] < Levels[j]
<1>0. Len(Levels) \in Nat \ {0} /\ \A i \in 1..Len(Levels) : Levels[i] \in Nat \ {0}
  <2>1. Levels \in Seq(Nat \ {0}) /\ Levels # <<>>
    BY SweepAssumption
  <2>2. QED
    BY <2>1
<1>1. ASSUME NEW i \in 1..Len(Levels)
      PROVE  \A j \in 1..Len(Levels) : i < j => Levels[i] < Levels[j]
  <2> DEFINE N == Len(Levels)
             S == {j \in 0..N : i < j => Levels[i] < Levels[j]}
  <2>1. 0 \in S
    BY <1>0
  <2>2. ASSUME NEW j \in 0..N, j < N, j \in S
        PROVE  j + 1 \in S
    <3>1. i < j => Levels[i] < Levels[j]
      BY <2>2
    <3>2. i <= j => Levels[j] < Levels[j + 1]
      BY <1>0, <2>2, SweepAssumption
    <3>3. i < j + 1 => Levels[i] < Levels[j + 1]
      <4>1. i < j + 1 => i < j \/ i = j
        BY <2>2
      <4>2. i <= j => Levels[i] \in Nat /\ Levels[j] \in Nat /\ Levels[j + 1] \in Nat
        BY <1>0, <2>2
      <4>3. QED
        BY <3>1, <3>2, <4>1, <4>2
    <3>4. QED
      BY <2>2, <3>3
  <2> HIDE DEF S
  <2>3. \A j \in 0..N : j \in S
    BY <1>0, <2>1, <2>2, NumbersUpTo
  <2>4. QED
    BY <1>0, <2>3 DEF S
<1>2. QED
  BY <1>0, <1>1

\* The sustainable levels of some judged ones, and whether the first k are those
\* before the first that is not.
Good(judged) == {i \in 1..Len(judged) : judged[i].sustainable}
Leading(judged, k) == /\ k \in 0..Len(judged) /\ 1..k \subseteq Good(judged)
                      /\ k < Len(judged) => k + 1 \notin Good(judged)

LEMMA SomeLeading ==
    ASSUME NEW judged \in Seq(Judged)
    PROVE  \E k : Leading(judged, k)
<1> DEFINE n == Len(judged)
           Stops == {k \in 0..n : k = n \/ k + 1 \notin Good(judged)}
<1>0. n \in Nat
  OBVIOUS
<1> HIDE DEF n
<1>1. PICK k \in Stops : \A m \in Stops : k <= m
  <2>1. Stops \subseteq Nat /\ n \in Stops
    BY <1>0
  <2>2. QED
    BY <2>1, LeastNumber
<1>2. ASSUME NEW i \in 1..k
      PROVE  i \in Good(judged)
  <2>1. i - 1 \in 0..n /\ i - 1 \notin Stops /\ (i - 1) + 1 = i
    BY <1>0, <1>1
  <2>2. QED
    BY <2>1
<1>3. k \in 0..n /\ (k < n => k + 1 \notin Good(judged))
  BY <1>0
<1>4. QED
  BY <1>2, <1>3 DEF Leading, n

\* The width of the leading levels is the last of theirs.
WidthAt(judged, k) == IF k = 0 THEN 0 ELSE judged[k].concurrency

\* The recursion of the width: up the levels from each of them.
Climbs(width, judged) ==
    width = [i \in 0..Len(judged) |->
                IF i < Len(judged) /\ judged[i + 1].sustainable THEN width[i + 1]
                ELSE IF i = 0 THEN 0 ELSE judged[i].concurrency]

\* From each level it climbs to the last one that none unsustainable comes before.
LEMMA SomeClimb ==
    ASSUME NEW judged \in Seq(Judged)
    PROVE  \E width : Climbs(width, judged)
<1> DEFINE n == Len(judged)
           Stops(i) == {k \in i..n : k = n \/ ~judged[k + 1].sustainable}
           stop(i) == CHOOSE k \in Stops(i) : \A m \in Stops(i) : k <= m
           width == [i \in 0..n |-> WidthAt(judged, stop(i))]
<1>0. n \in Nat
  OBVIOUS
<1> HIDE DEF n
<1>1. ASSUME NEW i \in 0..n
      PROVE  stop(i) \in Stops(i) /\ \A m \in Stops(i) : stop(i) <= m
  <2>1. Stops(i) \subseteq Nat /\ n \in Stops(i)
    BY <1>0
  <2>2. \E k \in Stops(i) : \A m \in Stops(i) : k <= m
    BY <2>1, LeastNumber
  <2> HIDE DEF Stops
  <2>3. QED
    BY <2>2
<1>2. ASSUME NEW i \in 0..n
      PROVE  stop(i) = IF i < n /\ judged[i + 1].sustainable THEN stop(i + 1) ELSE i
  <2>1. CASE i < n /\ judged[i + 1].sustainable
    <3>1. i + 1 \in 0..n
      BY <1>0, <2>1
    <3>2. Stops(i) = Stops(i + 1)
      <4>1. i \notin Stops(i)
        BY <1>0, <2>1
      <4>2. \A k \in i..n : k # i => k \in (i + 1)..n
        BY <1>0
      <4>3. \A k \in (i + 1)..n : k \in i..n
        BY <1>0
      <4>4. QED
        BY <4>1, <4>2, <4>3
    <3> HIDE DEF Stops
    <3>3. QED
      BY <2>1, <3>2
  <2>2. CASE ~(i < n /\ judged[i + 1].sustainable)
    <3>1. i \in Stops(i)
      BY <1>0, <2>2
    <3>2. stop(i) <= i /\ stop(i) \in i..n
      BY <1>1, <3>1
    <3> HIDE DEF stop
    <3>3. stop(i) = i
      BY <1>0, <3>2
    <3>4. QED
      BY <2>2, <3>3
  <2>3. QED
    BY <2>1, <2>2
<1> HIDE DEF stop
<1>3. ASSUME NEW i \in 0..n
      PROVE  width[i] = IF i < n /\ judged[i + 1].sustainable THEN width[i + 1]
                        ELSE IF i = 0 THEN 0 ELSE judged[i].concurrency
  <2>1. CASE i < n /\ judged[i + 1].sustainable
    <3>1. i + 1 \in 0..n /\ stop(i) = stop(i + 1)
      BY <1>0, <1>2, <2>1
    <3>2. QED
      BY <2>1, <3>1
  <2>2. CASE ~(i < n /\ judged[i + 1].sustainable)
    <3>1. stop(i) = i
      BY <1>2, <2>2
    <3>2. QED
      BY <2>2, <3>1 DEF WidthAt
  <2>3. QED
    BY <2>1, <2>2
<1>4. width = [i \in 0..n |->
                  IF i < n /\ judged[i + 1].sustainable THEN width[i + 1]
                  ELSE IF i = 0 THEN 0 ELSE judged[i].concurrency]
  BY <1>3
<1> HIDE DEF width
<1>5. Climbs(width, judged)
  BY <1>4 DEF Climbs, n
<1>6. QED
  BY <1>5

\* The strict width is that of the levels before the first that is not sustainable.
LEMMA WidthIsLeading ==
    ASSUME NEW judged \in Seq(Judged), NEW k, Leading(judged, k)
    PROVE  SustainableWidth(judged) = WidthAt(judged, k)
<1> DEFINE n == Len(judged)
           width == CHOOSE f : f = [i \in 0..Len(judged) |->
                                      IF i < Len(judged) /\ judged[i + 1].sustainable
                                      THEN f[i + 1]
                                      ELSE IF i = 0 THEN 0 ELSE judged[i].concurrency]
           S == {d \in 0..k : width[k - d] = WidthAt(judged, k)}
<1>1. SustainableWidth(judged) = width[0]
  BY Zenon DEF SustainableWidth
<1>2. Climbs(width, judged)
  BY SomeClimb, Zenon DEF Climbs
<1>3. n \in Nat /\ k \in 0..n
  BY DEF Leading
<1> HIDE DEF width
<1>4. \A i \in 0..n : width[i] = IF i < n /\ judged[i + 1].sustainable THEN width[i + 1]
                                 ELSE IF i = 0 THEN 0 ELSE judged[i].concurrency
  BY <1>2 DEF Climbs
<1>5. 0 \in S
  <2>1. ~(k < n /\ judged[k + 1].sustainable)
    BY <1>3 DEF Leading, Good
  <2>2. width[k] = WidthAt(judged, k)
    BY <1>3, <1>4, <2>1 DEF WidthAt
  <2>3. k - 0 = k
    BY <1>3
  <2>4. QED
    BY <1>3, <2>2, <2>3
<1>6. ASSUME NEW d \in 0..k, d < k, d \in S
      PROVE  d + 1 \in S
  <2> DEFINE i == k - (d + 1)
  <2>1. i \in 0..n /\ i < n /\ i + 1 = k - d /\ i + 1 \in 1..k
    BY <1>3, <1>6
  <2>2. judged[i + 1].sustainable
    BY <2>1 DEF Leading, Good
  <2>3. width[i] = width[i + 1]
    BY <1>4, <2>1, <2>2
  <2>4. width[i + 1] = WidthAt(judged, k)
    BY <1>6, <2>1
  <2>5. QED
    BY <1>3, <1>6, <2>3, <2>4
<1> HIDE DEF S
<1>7. k \in S
  <2>1. k \in Nat /\ k \in 0..k
    BY <1>3
  <2>2. \A d \in 0..k : d \in S
    BY <1>5, <1>6, <2>1, NumbersUpTo
  <2>3. QED
    BY <2>1, <2>2
<1>8. width[0] = WidthAt(judged, k)
  <2>1. k - k = 0
    BY <1>3
  <2>2. QED
    BY <1>7, <2>1 DEF S
<1>9. QED
  BY <1>1, <1>8

\* Some judged levels, as the ladder has them.
OfLadder(judged) == /\ judged \in Seq(Judged) /\ Len(judged) <= Len(Levels)
                    /\ \A i \in 1..Len(judged) : judged[i].concurrency = Levels[i]

\* The tolerant width is the largest sustainable level.
LEMMA WidestTyped ==
    ASSUME NEW judged, OfLadder(judged)
    PROVE  /\ MaxSloMeetingWidth(judged) \in Nat
           /\ \A i \in Good(judged) : Levels[i] <= MaxSloMeetingWidth(judged)
           /\ Good(judged) # {} =>
                 \E i \in Good(judged) : MaxSloMeetingWidth(judged) = Levels[i]
           /\ Good(judged) = {} => MaxSloMeetingWidth(judged) = 0
<1> DEFINE meeting == {judged[i].concurrency :
                         i \in {j \in 1..Len(judged) : judged[j].sustainable}}
           n == Len(judged)
<1>1. n \in Nat /\ n <= Len(Levels) /\ Good(judged) \subseteq 1..n
  BY DEF OfLadder, Good
<1>2. \A i \in 1..n : judged[i].concurrency = Levels[i] /\ Levels[i] \in Nat
  BY <1>1, LevelsAscend DEF OfLadder
<1>3. meeting = {Levels[i] : i \in Good(judged)}
  BY <1>2 DEF Good
<1>4. MaxSloMeetingWidth(judged)
         = IF meeting = {} THEN 0 ELSE CHOOSE c \in meeting : \A d \in meeting : d <= c
  BY DEF MaxSloMeetingWidth
<1> HIDE DEF meeting, n
<1>5. ASSUME Good(judged) # {}
      PROVE  \E i \in Good(judged) : \A j \in Good(judged) : Levels[j] <= Levels[i]
  <2>1. PICK i \in Good(judged) : \A j \in Good(judged) : j <= i
    <3>1. Good(judged) \subseteq 0..n
      BY <1>1
    <3>2. QED
      BY <1>1, <1>5, <3>1, GreatestNumber
  <2>2. ASSUME NEW j \in Good(judged)
        PROVE  Levels[j] <= Levels[i]
    <3>1. /\ i \in 1..Len(Levels) /\ j \in 1..Len(Levels)
          /\ Levels[i] \in Nat /\ Levels[j] \in Nat /\ j <= i
      BY <1>1, <1>2, <2>1, LevelsAscend
    <3>2. j < i \/ j = i
      BY <3>1
    <3>3. QED
      BY <3>1, <3>2, LevelsAscend
  <2>3. QED
    BY <2>2
<1>6. CASE Good(judged) = {}
  <2>1. meeting = {}
    BY <1>3, <1>6
  <2>2. QED
    BY <1>4, <1>6, <2>1
<1>7. CASE Good(judged) # {}
  <2>1. meeting # {}
    BY <1>3, <1>7
  <2>2. \E c \in meeting : \A d \in meeting : d <= c
    BY <1>3, <1>5, <1>7
  <2>3. /\ MaxSloMeetingWidth(judged) \in meeting
        /\ \A d \in meeting : d <= MaxSloMeetingWidth(judged)
    BY <1>4, <2>1, <2>2
  <2>4. QED
    BY <1>1, <1>2, <1>3, <1>7, <2>3
<1>8. QED
  BY <1>6, <1>7

\* The strict width, against the levels it is taken from and the tolerant one.
LEMMA WidthsAgree ==
    ASSUME NEW judged, OfLadder(judged)
    PROVE  LET width == SustainableWidth(judged)
               good == Good(judged)
           IN  /\ width \in Nat
               /\ \A i \in 1..Len(judged) :
                     judged[i].concurrency <= width <=> 1..i \subseteq good
               /\ width <= MaxSloMeetingWidth(judged)
               /\ width < MaxSloMeetingWidth(judged) => good # 1..Cardinality(good)
               /\ Len(judged) > 0 /\ 1 \notin good => width = 0
<1> DEFINE width == SustainableWidth(judged)
           good == Good(judged)
           n == Len(judged)
<1>1. PICK k : Leading(judged, k)
  BY SomeLeading DEF OfLadder
<1>2. width = WidthAt(judged, k)
  BY <1>1, WidthIsLeading DEF OfLadder
<1>3. /\ n \in Nat /\ n <= Len(Levels) /\ k \in 0..n /\ 1..k \subseteq good
      /\ k < n => k + 1 \notin good
      /\ good \subseteq 1..n
  BY <1>1 DEF Leading, OfLadder, Good
<1>4. \A i \in 1..n : judged[i].concurrency = Levels[i]
  BY DEF OfLadder
<1>5. /\ \A i \in 1..n : Levels[i] \in Nat \ {0}
      /\ \A i, j \in 1..n : i < j => Levels[i] < Levels[j]
  BY <1>3, LevelsAscend
<1> HIDE DEF width, good, n
<1>6. width = IF k = 0 THEN 0 ELSE Levels[k]
  BY <1>2, <1>3, <1>4 DEF WidthAt
<1>7. width \in Nat
  BY <1>3, <1>5, <1>6
<1>8. ASSUME NEW i \in 1..n
      PROVE  judged[i].concurrency <= width <=> 1..i \subseteq good
  <2>1. Levels[i] <= width <=> i <= k
    <3>1. CASE k = 0
      BY <1>3, <1>5, <1>6, <3>1
    <3>2. CASE k # 0
      <4>1. k \in 1..n /\ width = Levels[k]
        BY <1>3, <1>6, <3>2
      <4>2. i < k \/ i = k \/ k < i
        BY <1>3
      <4>3. QED
        BY <1>3, <1>5, <4>1, <4>2
    <3>3. QED
      BY <3>1, <3>2
  <2>2. i <= k => 1..i \subseteq good
    BY <1>3
  <2>3. ~(i <= k) => k + 1 \in 1..i /\ k < n
    BY <1>3
  <2>4. QED
    BY <1>3, <1>4, <2>1, <2>2, <2>3
<1>9. /\ MaxSloMeetingWidth(judged) \in Nat
      /\ \A i \in good : Levels[i] <= MaxSloMeetingWidth(judged)
      /\ good # {} => \E i \in good : MaxSloMeetingWidth(judged) = Levels[i]
      /\ good = {} => MaxSloMeetingWidth(judged) = 0
  BY WidestTyped DEF good
<1>10. width <= MaxSloMeetingWidth(judged)
  <2>1. k # 0 => k \in good
    BY <1>3
  <2>2. QED
    BY <1>6, <1>9, <2>1
<1>11. ASSUME good = 1..Cardinality(good), Cardinality(good) \in Nat
       PROVE  ~(width < MaxSloMeetingWidth(judged))
  <2> DEFINE c == Cardinality(good)
  <2>1. c \in Nat /\ good = 1..c
    BY <1>11
  <2> HIDE DEF c
  <2>2. c = k
    <3>1. c <= n
      <4>1. c # 0 => c \in 1..n
        BY <1>3, <2>1
      <4>2. QED
        BY <1>3, <2>1, <4>1
    <3>2. k <= c
      <4>1. k # 0 => k \in 1..c
        BY <1>3, <2>1
      <4>2. QED
        BY <1>3, <2>1, <4>1
    <3>3. ~(k < c)
      <4>1. k < c => k < n /\ k + 1 \in 1..c
        BY <1>3, <2>1, <3>1
      <4>2. QED
        BY <1>3, <2>1, <4>1
    <3>4. QED
      BY <1>3, <2>1, <3>2, <3>3
  <2>3. CASE k = 0
    <3>1. good = {}
      BY <2>1, <2>2, <2>3
    <3>2. QED
      BY <1>6, <1>9, <2>3, <3>1
  <2>4. CASE k # 0
    <3>1. k \in 1..n /\ width = Levels[k]
      BY <1>3, <1>6, <2>4
    <3>2. PICK i \in good : MaxSloMeetingWidth(judged) = Levels[i]
      <4>1. k \in good
        BY <1>3, <3>1
      <4>2. QED
        BY <1>9, <4>1
    <3>3. i \in 1..n /\ (i < k \/ i = k)
      BY <1>3, <2>1, <2>2, <3>1, <3>2
    <3>4. Levels[i] <= Levels[k] /\ Levels[i] \in Nat /\ Levels[k] \in Nat
      BY <1>5, <3>1, <3>3
    <3>5. QED
      BY <3>1, <3>2, <3>4
  <2>5. QED
    BY <2>3, <2>4
<1>12. Cardinality(good) \in Nat
  <2>1. IsFiniteSet(1..n)
    BY <1>3, FS_Interval
  <2>2. IsFiniteSet(good)
    BY <1>3, <2>1, FS_Subset
  <2>3. QED
    BY <2>2, FS_CardinalityType
<1>13. n > 0 /\ 1 \notin good => width = 0
  <2>1. k # 0 => 1 \in 1..k
    BY <1>3
  <2>2. QED
    BY <1>3, <1>6, <2>1
<1>14. QED
  BY <1>7, <1>8, <1>10, <1>11, <1>12, <1>13 DEF width, good, n
----
\* A level is judged on its samples alone.
LEMMA SummarizeTyped ==
    ASSUME NEW concurrency \in Nat, NEW sampled \in Samples,
           NEW delta \in Int, NEW kv \in Nat
    PROVE  LET judged == Summarize(concurrency, sampled, delta, kv)
           IN  /\ judged \in Judgement
               /\ judged.concurrency = concurrency
               /\ judged.requests = Completed(sampled.ok) + sampled.errors
               /\ judged.kv_peak = kv
               /\ judged.measured = Measured(sampled)
               /\ judged.preemption_free => delta <= 0
               /\ judged.sustainable => /\ Completed(sampled.ok) > 0
                                        /\ Percentile(sampled.ok) < Slo
                                        /\ sampled.errors = 0
<1> DEFINE some == Measured(sampled)
           meets == /\ Completed(sampled.ok) > 0
                    /\ Percentile(sampled.ok) < Slo
                    /\ sampled.errors = 0
           free == delta <= 0
           judged == Summarize(concurrency, sampled, delta, kv)
           record(c, r, k, d, s, m, f, g) ==
               [concurrency |-> c, requests |-> r, measured |-> s, kv_peak |-> k,
                preemptions |-> d, meets_slo |-> m, preemption_free |-> f, sustainable |-> g]
<1>1. Completed(sampled.ok) + sampled.errors \in Nat
  <2>1. sampled.ok \in Counts(CallTimeout) /\ sampled.errors \in Nat
    BY DEF Samples, Counts
  <2>2. Completed(sampled.ok) \in Nat
    BY <2>1, AtMostTyped, SweepAssumption DEF Completed
  <2>3. QED
    BY <2>1, <2>2
<1>2. judged = record(concurrency, Completed(sampled.ok) + sampled.errors, kv, delta,
                      some, meets, free, meets /\ free)
  BY Zenon DEF Summarize
<1>4. some \in BOOLEAN /\ meets \in BOOLEAN /\ free \in BOOLEAN
  <2>1. some \in BOOLEAN
    BY DEF Measured
  <2>2. meets \in BOOLEAN
    OBVIOUS
  <2>3. free \in BOOLEAN
    OBVIOUS
  <2>4. QED
    BY <2>1, <2>2, <2>3, Zenon
<1> DEFINE both == meets /\ free
<1>9. both \in BOOLEAN
  OBVIOUS
<1>10. judged = record(concurrency, Completed(sampled.ok) + sampled.errors, kv, delta,
                       some, meets, free, both)
  BY <1>2, Zenon
<1> DEFINE requests == Completed(sampled.ok) + sampled.errors
<1>3. requests \in Nat
  BY <1>1
<1> HIDE DEF some, meets, free, both, requests
<1>5. /\ judged \in Judgement
      /\ judged.concurrency = concurrency
      /\ judged.requests = requests
      /\ judged.kv_peak = kv
      /\ judged.measured = some
      /\ judged.preemption_free = free
      /\ judged.sustainable = both
  <2> HIDE DEF judged
  <2>1. concurrency \in Nat /\ kv \in Nat /\ delta \in Int
    OBVIOUS
  <2>2. judged = record(concurrency, requests, kv, delta, some, meets, free, both)
    BY <1>10, Zenon DEF requests
  <2>3. QED
    BY <1>3, <1>4, <1>9, <2>1, <2>2 DEF Judgement
<1> HIDE DEF judged
<1>6. judged.sustainable => meets
  BY <1>5, Zenon DEF both
<1>7. judged.preemption_free => free
  BY <1>5, Zenon
<1>8. QED
  BY <1>5, <1>6, <1>7, Zenon DEF judged, some, meets, free, requests
----
\* There are finitely many workers.
LEMMA UsageTyped ==
    /\ IsFiniteSet(Workers) /\ Cardinality(Workers) \in Nat
    /\ Usage \in 0..Cardinality(Workers)
    /\ IsFiniteSet({w \in Workers : worker[w] = "calling"})
<1>1. IsFiniteSet(Workers)
  <2>1. Levels[Len(Levels)] \in Nat
    BY LevelsAscend
  <2>2. QED
    BY <2>1, FS_Interval DEF Workers
<1>2. Cardinality(Workers) \in Nat
  BY <1>1, FS_CardinalityType
<1>3. IsFiniteSet({w \in Workers : worker[w] = "calling"})
  BY <1>1, FS_Subset
<1>4. Usage \in Nat /\ Usage <= Cardinality(Workers)
  <2>1. {w \in Workers : worker[w] = "calling"} \subseteq Workers
    OBVIOUS
  <2>2. QED
    BY <1>1, <1>3, <2>1, FS_CardinalityType, FS_Subset DEF Usage
<1>5. QED
  BY <1>1, <1>2, <1>3, <1>4

\* The calls under way, when one begins and when one ends.
LEMMA UsageSteps ==
    ASSUME NEW w \in Workers, worker \in [Workers -> {"ready", "calling", "done"}]
    PROVE  /\ Fire(w) => Usage' = Usage + 1
           /\ Leave(w) => Usage' = Usage
           /\ CallReturns(w) \/ CallFails(w) => Usage' = Usage - 1
<1> DEFINE calling == {v \in Workers : worker[v] = "calling"}
<1>1. IsFiniteSet(calling) /\ Usage = Cardinality(calling)
  BY UsageTyped DEF Usage
<1>2. Usage' = Cardinality(calling')
  BY DEF Usage
<1>3. ASSUME Fire(w)
      PROVE  Usage' = Usage + 1
  <2>1. w \notin calling /\ calling' = calling \cup {w}
    BY <1>3 DEF Fire
  <2>2. QED
    BY <1>1, <1>2, <2>1, FS_AddElement
<1>4. ASSUME Leave(w)
      PROVE  Usage' = Usage
  <2>1. calling' = calling
    BY <1>4 DEF Leave
  <2>2. QED
    BY <1>1, <1>2, <2>1
<1>5. ASSUME CallReturns(w) \/ CallFails(w)
      PROVE  Usage' = Usage - 1
  <2>1. w \in calling /\ calling' = calling \ {w}
    BY <1>5 DEF CallReturns, CallFails
  <2>2. QED
    BY <1>1, <1>2, <2>1, FS_RemoveElement
<1>6. QED
  BY <1>3, <1>4, <1>5
----
\* What the end of a level makes of it.
LEMMA Judging ==
    ASSUME ProgressInv, EndLevel
    PROVE  /\ phase = "running"
           /\ level' \in Judgement
           /\ level'.requests = Completed(samples.ok) + samples.errors
           /\ level'.kv_peak \in PolledPeaks
           /\ level'.measured = Measured(samples)
           /\ level'.sustainable => /\ Completed(samples.ok) > 0
                                    /\ Percentile(samples.ok) < Slo
                                    /\ samples.errors = 0
           /\ \E value \in 0..MaxPreemptions, blind \in BOOLEAN :
                 /\ Scrape(value, blind)
                 /\ level'.preemption_free => value - before <= 0
                 /\ seen' = [seen EXCEPT !.lost = blind]
           /\ levels' = Append(levels, [concurrency |-> level'.concurrency,
                                        measured |-> level'.measured,
                                        sustainable |-> level'.sustainable])
           /\ level'.concurrency = Levels[Len(levels) + 1]
<1>1. PICK value \in 0..MaxPreemptions, blind \in BOOLEAN, kv \in PolledPeaks :
         /\ Scrape(value, blind)
         /\ level' = Summarize(Concurrency, samples, value - before, kv)
         /\ levels' = Append(levels, [concurrency |-> level'.concurrency,
                                      measured |-> level'.measured,
                                      sustainable |-> level'.sustainable])
         /\ seen' = [seen EXCEPT !.lost = blind]
  BY Zenon DEF EndLevel, JudgeLevel
<1>2. phase = "running"
  BY DEF EndLevel
<1>3. Concurrency \in Nat /\ Concurrency = Levels[Len(levels) + 1]
  <2>1. Len(levels) \in Nat /\ Len(levels) < Len(Levels)
    BY <1>2 DEF ProgressInv
  <2>2. QED
    BY <2>1, LevelsAscend DEF Concurrency
<1>4. samples \in Samples /\ value - before \in Int
  BY SweepAssumption DEF ProgressInv, TypeOK
<1>5. kv \in Nat
  <2>1. peak \in Nat /\ Usage \in Nat
    BY UsageTyped DEF ProgressInv, TypeOK
  <2>2. QED
    BY <2>1 DEF PolledPeaks, Larger
<1>6. /\ level' \in Judgement
      /\ level'.concurrency = Concurrency
      /\ level'.requests = Completed(samples.ok) + samples.errors
      /\ level'.kv_peak = kv
      /\ level'.measured = Measured(samples)
      /\ level'.preemption_free => value - before <= 0
      /\ level'.sustainable => /\ Completed(samples.ok) > 0
                               /\ Percentile(samples.ok) < Slo
                               /\ samples.errors = 0
  BY <1>1, <1>3, <1>4, <1>5, SummarizeTyped
<1>7. QED
  BY <1>1, <1>2, <1>3, <1>6
----
\* No level is a level.
LEMMA NoLevelTyped == NoLevel \in Judgement /\ NoSamples \in Samples
<1>1. NoSamples \in Samples
  BY DEF NoSamples, Samples
<1>2. Summarize(0, NoSamples, 0, 0) \in Judgement
  BY <1>1, SummarizeTyped
<1>3. QED
  BY <1>1, <1>2 DEF NoLevel

\* A sample is counted at its latency, and a failed call apart.
LEMMA SampleTaken ==
    ASSUME NEW s \in Samples
    PROVE  /\ \A l \in 1..CallTimeout, b \in {0, 1} :
                 LET t == [s EXCEPT !.ok[l] = @ + 1, !.blank = @ + b]
                 IN  /\ t \in Samples
                     /\ t.ok = [s.ok EXCEPT ![l] = @ + 1]
                     /\ t.blank = s.blank + b /\ t.errors = s.errors
           /\ LET t == [s EXCEPT !.errors = @ + 1]
              IN  /\ t \in Samples
                  /\ t.ok = s.ok /\ t.blank = s.blank /\ t.errors = s.errors + 1
<1>1. ASSUME NEW l \in 1..CallTimeout, NEW b \in {0, 1}
      PROVE  LET t == [s EXCEPT !.ok[l] = @ + 1, !.blank = @ + b]
             IN  /\ t \in Samples
                 /\ t.ok = [s.ok EXCEPT ![l] = @ + 1]
                 /\ t.blank = s.blank + b /\ t.errors = s.errors
  <2> DEFINE more == [s.ok EXCEPT ![l] = @ + 1]
             t == [s EXCEPT !.ok[l] = @ + 1, !.blank = @ + b]
  <2>1. more \in [1..CallTimeout -> Nat]
    <3>1. s.ok \in [1..CallTimeout -> Nat]
      BY DEF Samples
    <3>2. \A f \in [1..CallTimeout -> Nat] :
             [f EXCEPT ![l] = @ + 1] \in [1..CallTimeout -> Nat]
      OBVIOUS
    <3>3. QED
      BY <3>1, <3>2
  <2>2. t = [s EXCEPT !.ok = more, !.blank = @ + b]
    OBVIOUS
  <2> HIDE DEF more
  <2>3. [s EXCEPT !.ok = more, !.blank = @ + b] \in Samples
    <3>1. s.blank + b \in Nat
      BY DEF Samples
    <3>2. QED
      BY <2>1, <3>1 DEF Samples
  <2>4. /\ [s EXCEPT !.ok = more, !.blank = @ + b].ok = more
        /\ [s EXCEPT !.ok = more, !.blank = @ + b].blank = s.blank + b
        /\ [s EXCEPT !.ok = more, !.blank = @ + b].errors = s.errors
    BY DEF Samples
  <2> HIDE DEF t
  <2>5. QED
    BY <2>2, <2>3, <2>4 DEF more, t
<1>2. LET t == [s EXCEPT !.errors = @ + 1]
      IN  /\ t \in Samples
          /\ t.ok = s.ok /\ t.blank = s.blank /\ t.errors = s.errors + 1
  <2>1. s.errors + 1 \in Nat
    BY DEF Samples
  <2>2. QED
    BY <2>1 DEF Samples
<1>3. QED
  BY <1>1, <1>2

\* A level begins with an empty account.
LEMMA NothingTyped == Nothing \in Account
<1>1. FALSE \in BOOLEAN
  OBVIOUS
<1>2. QED
  BY <1>1 DEF Nothing, Account

\* What the properties keep of a level stays an account of it.
LEMMA AccountTyped ==
    ASSUME NEW s \in Account, NEW n \in Nat, NEW b \in BOOLEAN
    PROVE  /\ [s EXCEPT !.fired = @ + 1, !.usage = n] \in Account
           /\ \A m \in Nat : [s EXCEPT !.late = n, !.blank = m] \in Account
           /\ [s EXCEPT !.failed = @ + 1] \in Account
           /\ [s EXCEPT !.hits = @ + 1] \in Account
           /\ [s EXCEPT !.blind = b] \in Account
           /\ [s EXCEPT !.lost = b] \in Account
<1>1. [s EXCEPT !.lost = b] \in Account
  BY DEF Account
<1>2. [s EXCEPT !.blind = b] \in Account
  BY DEF Account
<1>3. [s EXCEPT !.fired = @ + 1, !.usage = n] \in Account
  <2>1. [s EXCEPT !.fired = @ + 1] \in Account
    BY DEF Account
  <2>2. \A t \in Account : [t EXCEPT !.usage = n] \in Account
    BY DEF Account
  <2>3. [[s EXCEPT !.fired = @ + 1] EXCEPT !.usage = n] \in Account
    BY <2>1, <2>2
  <2>4. QED
    BY <2>3
<1>4. ASSUME NEW m \in Nat
      PROVE  [s EXCEPT !.late = n, !.blank = m] \in Account
  <2>1. [s EXCEPT !.late = n] \in Account
    BY DEF Account
  <2>2. \A t \in Account : [t EXCEPT !.blank = m] \in Account
    BY DEF Account
  <2>3. [[s EXCEPT !.late = n] EXCEPT !.blank = m] \in Account
    BY <2>1, <2>2
  <2>4. QED
    BY <2>3
<1>5. [s EXCEPT !.failed = @ + 1] \in Account
  BY DEF Account
<1>6. [s EXCEPT !.hits = @ + 1] \in Account
  BY DEF Account
<1>7. QED
  BY <1>1, <1>2, <1>3, <1>4, <1>5, <1>6

\* What is made of the levels of one context size.
LEMMA PointTyped ==
    ASSUME ProgressInv, WidthInv, phase = "judged"
    PROVE  /\ OfLadder(levels)
           /\ CurvePoint(levels) \in Point
           /\ CurvePoint(levels).strict_batch <= CurvePoint(levels).sustainable_batch
<1>1. OfLadder(levels)
  BY DEF ProgressInv, TypeOK, WidthInv, OfLadder
<1>2. /\ SustainableWidth(levels) \in Nat
      /\ SustainableWidth(levels) <= MaxSloMeetingWidth(levels)
      /\ MaxSloMeetingWidth(levels) \in Nat
  <2>1. Len(levels) > 0
    BY LevelsAscend DEF ProgressInv
  <2>2. QED
    BY <1>1, <2>1, WidthsAgree, WidestTyped
<1>3. levels[1] \in Judged
  <2>1. 1 \in 1..Len(levels)
    BY LevelsAscend DEF ProgressInv
  <2>2. QED
    BY <2>1 DEF ProgressInv
<1>4. levels[1].measured \in BOOLEAN
  BY <1>3 DEF Judged
<1>5. /\ CurvePoint(levels).measured = levels[1].measured
      /\ CurvePoint(levels).sustainable_batch = MaxSloMeetingWidth(levels)
      /\ CurvePoint(levels).strict_batch = SustainableWidth(levels)
      /\ CurvePoint(levels) \in Point
  BY <1>2, <1>4 DEF CurvePoint, Point
<1>6. QED
  BY <1>1, <1>2, <1>3, <1>5

\* The steps of the sweep keep its types.
LEMMA ProgressInit == Init => ProgressInv
<1> SUFFICES ASSUME Init
             PROVE  ProgressInv
  OBVIOUS
<1>1. TypeOK
  BY NoLevelTyped, UsageTyped, SweepAssumption DEF Init, TypeOK
<1>2. /\ seen \in Account
      /\ levels \in Seq(Judged) /\ curve \in Seq(Point)
      /\ Len(levels) < Len(Levels) /\ Len(curve) < Contexts
  BY NothingTyped, LevelsAscend, SweepAssumption DEF Init
<1>3. QED
  BY <1>1, <1>2 DEF ProgressInv, Init

LEMMA ProgressKept == ProgressInv /\ WidthInv /\ [Next]_vars => ProgressInv'
<1> SUFFICES ASSUME ProgressInv, WidthInv, [Next]_vars
             PROVE  ProgressInv'
  OBVIOUS
<1> USE SweepAssumption DEF ProgressInv
<1>0. TypeOK
  OBVIOUS
<1>1. CASE Warmup
  BY <1>0, <1>1 DEF Warmup, TypeOK, work, metrics, output, Latency
<1>2. CASE StartLevel
  <2>1. PICK value \in 0..MaxPreemptions, blind \in BOOLEAN :
           before' = value /\ seen' = [Nothing EXCEPT !.blind = blind]
    BY <1>2, Zenon DEF StartLevel
  <2>2. seen' \in Account /\ before' \in 0..MaxPreemptions
    BY <2>1, AccountTyped, NothingTyped
  <2>3. /\ NoLevel \in Judgement
        /\ NoSamples \in Samples
        /\ Cardinality(Workers) \in Nat
    BY NoLevelTyped, UsageTyped
  <2>4. /\ phase = "before" /\ phase' = "running" /\ now' = 0
        /\ worker' = [w \in Workers |-> IF w <= Concurrency THEN "ready" ELSE "done"]
        /\ samples' = NoSamples
        /\ poller' = "reading" /\ peak' = 0 /\ level' = NoLevel
        /\ UNCHANGED <<started, preempted, levels, curve>>
    BY <1>2 DEF StartLevel
  <2>5. /\ worker' \in [Workers -> {"ready", "calling", "done"}]
        /\ \A w \in Workers : worker'[w] # "calling"
    BY <2>4
  <2>6. TypeOK'
    <3>1. /\ now' \in 0..(Duration + CallTimeout) /\ peak' \in 0..Cardinality(Workers)
          /\ \A w \in Workers : worker'[w] = "calling" => Latency(w)' \in 0..CallTimeout
      BY <2>3, <2>4, <2>5
    <3>2. /\ started' \in [Workers -> 0..Duration]
          /\ preempted' \in [Replicas -> 0..MaxPreemptions]
          /\ Len(levels') <= Len(Levels) /\ Len(curve') <= Contexts
      BY <1>0, <2>4 DEF TypeOK
    <3>3. /\ samples' \in Samples /\ level' \in Judgement
          /\ phase' = "running" /\ poller' = "reading"
      BY <2>3, <2>4
    <3>4. QED
      BY <2>2, <2>5, <3>1, <3>2, <3>3 DEF TypeOK
  <2>7. QED
    BY <2>2, <2>4, <2>6
<1>3. CASE EndLevel
  <2>1. /\ phase = "running" /\ level' \in Judgement
        /\ levels' = Append(levels, [concurrency |-> level'.concurrency,
                                     measured |-> level'.measured,
                                     sustainable |-> level'.sustainable])
    BY <1>3, Judging
  <2>2. PICK blind \in BOOLEAN : seen' = [seen EXCEPT !.lost = blind]
    BY <1>3, Judging
  <2>3. seen' \in Account
    BY <2>2, AccountTyped
  <2>4. [concurrency |-> level'.concurrency, measured |-> level'.measured,
         sustainable |-> level'.sustainable] \in Judged
    BY <2>1 DEF Judgement, Judged
  <2>5. levels' \in Seq(Judged) /\ Len(levels') = Len(levels) + 1
    BY <2>1, <2>4
  <2>6. Len(levels) + 1 <= Len(Levels) /\ Len(levels) \in Nat
    BY <2>1, LevelsAscend
  <2>7. /\ phase' = IF Len(levels) + 1 < Len(Levels) THEN "before" ELSE "judged"
        /\ worker' = [w \in Workers |-> "done"] /\ samples' = NoSamples
        /\ now' = 0 /\ before' = 0 /\ poller' = "resting"
        /\ UNCHANGED <<started, preempted, peak, curve>>
    BY <1>3 DEF EndLevel, JudgeLevel
  <2>8. /\ worker' \in [Workers -> {"ready", "calling", "done"}]
        /\ \A w \in Workers : worker'[w] # "calling"
    BY <2>7
  <2>9. TypeOK'
    BY <1>0, <2>1, <2>5, <2>6, <2>7, <2>8, NoLevelTyped DEF TypeOK
  <2>10. QED
    BY <2>1, <2>3, <2>5, <2>6, <2>7, <2>9, LevelsAscend
<1>4. CASE EndContext
  <2>1. /\ phase = "judged" /\ curve' = Append(curve, CurvePoint(levels))
        /\ levels' = IF Len(curve) + 1 < Contexts THEN <<>> ELSE levels
        /\ phase' = IF Len(curve) + 1 < Contexts THEN "before" ELSE "done"
        /\ UNCHANGED <<work, metrics, level, seen>>
    BY <1>4 DEF EndContext
  <2>2. CurvePoint(levels) \in Point
    BY <2>1, PointTyped
  <2>3. curve' \in Seq(Point) /\ Len(curve') = Len(curve) + 1 /\ Len(curve) \in Nat
    BY <2>1, <2>2
  <2>4. levels' \in Seq(Judged) /\ Len(levels') <= Len(Levels) /\ Len(Levels) \in Nat \ {0}
    BY <2>1, LevelsAscend
  <2>5. phase' = "before" => Len(levels') = 0
    BY <2>1
  <2>6. TypeOK'
    BY <1>0, <2>1, <2>3, <2>4 DEF TypeOK, work, metrics, Latency
  <2>7. QED
    BY <2>1, <2>3, <2>4, <2>5, <2>6
<1>5. CASE PollReads
  <2>1. Usage \in 0..Cardinality(Workers) /\ Cardinality(Workers) \in Nat
    BY UsageTyped
  <2>2. peak \in 0..Cardinality(Workers) /\ (peak' = peak \/ peak' = Larger(peak, Usage))
    BY <1>0, <1>5 DEF PollReads, TypeOK
  <2>3. peak' \in 0..Cardinality(Workers)
    BY <2>1, <2>2 DEF Larger
  <2>4. QED
    BY <1>0, <1>5, <2>3 DEF PollReads, TypeOK, work, output, Latency
<1>6. CASE PollAgain
  BY <1>0, <1>6 DEF PollAgain, TypeOK, work, output, Latency
<1>7. ASSUME NEW w \in Workers, WorkerStep(w)
      PROVE  ProgressInv'
  <2>0. /\ worker \in [Workers -> {"ready", "calling", "done"}]
        /\ started \in [Workers -> 0..Duration]
        /\ now \in 0..(Duration + CallTimeout)
        /\ \A v \in Workers : worker[v] = "calling" => now - started[v] \in 0..CallTimeout
    BY <1>0 DEF TypeOK, Latency
  <2>1. ASSUME /\ worker' \in [Workers -> {"ready", "calling", "done"}]
               /\ started' \in [Workers -> 0..Duration]
               /\ \A v \in Workers : worker'[v] = "calling" => now - started'[v] \in 0..CallTimeout
               /\ samples' \in Samples
               /\ seen' \in Account
               /\ UNCHANGED <<phase, now, metrics, output>>
        PROVE  ProgressInv'
    <3>1. TypeOK'
      BY <1>0, <2>1 DEF TypeOK, metrics, output, Latency
    <3>2. QED
      BY <2>1, <3>1 DEF output
  <2>2. CASE Fire(w)
    <3>1. seen' \in Account
      <4>1. seen' = [seen EXCEPT !.fired = @ + 1, !.usage = Larger(@, Usage + 1)]
        BY <2>2 DEF Fire
      <4>2. Larger(seen.usage, Usage + 1) \in Nat
        BY UsageTyped DEF Account, Larger
      <4>3. QED
        BY <4>1, <4>2, AccountTyped
    <3>2. /\ worker' = [worker EXCEPT ![w] = "calling"]
          /\ started' = [started EXCEPT ![w] = now] /\ now < Duration
          /\ UNCHANGED <<phase, now, samples, metrics, output>>
      BY <2>2 DEF Fire
    <3>3. /\ worker' \in [Workers -> {"ready", "calling", "done"}]
          /\ started' \in [Workers -> 0..Duration]
          /\ \A v \in Workers : worker'[v] = "calling" => now - started'[v] \in 0..CallTimeout
      BY <2>0, <3>2
    <3>4. samples' \in Samples
      BY <1>0, <3>2 DEF TypeOK
    <3>5. QED
      BY <2>1, <3>1, <3>2, <3>3, <3>4
  <2>3. CASE Leave(w)
    <3>1. /\ worker' = [worker EXCEPT ![w] = "done"]
          /\ UNCHANGED <<phase, now, started, samples, metrics, output, seen>>
      BY <2>3 DEF Leave
    <3>2. /\ worker' \in [Workers -> {"ready", "calling", "done"}]
          /\ started' \in [Workers -> 0..Duration]
          /\ \A v \in Workers : worker'[v] = "calling" => now - started'[v] \in 0..CallTimeout
      BY <2>0, <3>1
    <3>3. samples' \in Samples
      BY <1>0, <3>1 DEF TypeOK
    <3>4. QED
      BY <2>1, <3>1, <3>2, <3>3
  <2>4. CASE CallReturns(w) \/ CallFails(w)
    <3>1. /\ worker' = [worker EXCEPT ![w] = "ready"]
          /\ started' = [started EXCEPT ![w] = 0]
          /\ UNCHANGED <<phase, now, metrics, output>>
          /\ worker[w] = "calling" /\ Latency(w) > 0
      BY <2>4 DEF CallReturns, CallFails
    <3>2. /\ worker' \in [Workers -> {"ready", "calling", "done"}]
          /\ started' \in [Workers -> 0..Duration]
          /\ \A v \in Workers : worker'[v] = "calling" => now - started'[v] \in 0..CallTimeout
      BY <2>0, <3>1
    <3>3. Latency(w) \in 1..CallTimeout
      BY <2>0, <3>1 DEF Latency
    <3>4. samples \in Samples
      BY <1>0 DEF TypeOK
    <3>5. /\ \A l \in 1..CallTimeout, b \in {0, 1} :
                [samples EXCEPT !.ok[l] = @ + 1, !.blank = @ + b] \in Samples
          /\ [samples EXCEPT !.errors = @ + 1] \in Samples
      BY <3>4, SampleTaken
    <3>6. samples' \in Samples
      <4>1. CASE CallReturns(w)
        <5>1. PICK b \in {0, 1} :
                 samples' = [samples EXCEPT !.ok[Latency(w)] = @ + 1, !.blank = @ + b]
          BY <4>1 DEF CallReturns
        <5>2. QED
          BY <3>3, <3>5, <5>1
      <4>2. CASE CallFails(w)
        BY <3>5, <4>2 DEF CallFails
      <4>3. QED
        BY <2>4, <4>1, <4>2
    <3>7. seen' \in Account
      <4>1. CASE CallReturns(w)
        <5>1. PICK b \in {0, 1} :
                 seen' = [seen EXCEPT !.late = IF Latency(w) < Slo THEN @ ELSE @ + 1,
                                      !.blank = @ + b]
          BY <4>1 DEF CallReturns
        <5>2. /\ (IF Latency(w) < Slo THEN seen.late ELSE seen.late + 1) \in Nat
              /\ seen.blank + b \in Nat
          BY DEF Account
        <5>3. QED
          BY <5>1, <5>2, AccountTyped
      <4>2. CASE CallFails(w)
        BY <4>2, AccountTyped DEF CallFails
      <4>3. QED
        BY <2>4, <4>1, <4>2
    <3>8. QED
      BY <2>1, <3>1, <3>2, <3>6, <3>7
  <2>5. QED
    BY <1>7, <2>2, <2>3, <2>4 DEF WorkerStep
<1>8. CASE Tick
  <2>1. /\ now' = now + 1 /\ now < Duration + CallTimeout
        /\ \A w \in Workers : worker[w] = "calling" => now - started[w] < CallTimeout
        /\ UNCHANGED <<phase, worker, started, samples, metrics, output, seen>>
    BY <1>8 DEF Tick, Latency
  <2>2. /\ now \in 0..(Duration + CallTimeout) /\ started \in [Workers -> 0..Duration]
        /\ \A w \in Workers : worker[w] = "calling" => now - started[w] \in 0..CallTimeout
    BY <1>0 DEF TypeOK, Latency
  <2>3. /\ now' \in 0..(Duration + CallTimeout)
        /\ \A w \in Workers : worker'[w] = "calling" => now' - started'[w] \in 0..CallTimeout
    BY <2>1, <2>2
  <2>4. TypeOK'
    BY <1>0, <2>1, <2>3 DEF TypeOK, metrics, output, Latency
  <2>5. QED
    BY <2>1, <2>4 DEF output
<1>9. ASSUME NEW p \in Replicas, Preempt(p)
      PROVE  ProgressInv'
  <2>1. seen' \in Account
    BY <1>9, AccountTyped DEF Preempt
  <2>2. /\ preempted' = [preempted EXCEPT ![p] = @ + 1] /\ preempted[p] < MaxPreemptions
        /\ UNCHANGED <<phase, work, before, poller, peak, output>>
    BY <1>9 DEF Preempt
  <2>3. preempted' \in [Replicas -> 0..MaxPreemptions]
    BY <1>0, <2>2 DEF TypeOK
  <2>4. TypeOK'
    BY <1>0, <2>2, <2>3 DEF TypeOK, work, output, Latency
  <2>5. QED
    BY <2>1, <2>2, <2>4 DEF output
<1>10. CASE UNCHANGED vars
  BY <1>0, <1>10 DEF vars, TypeOK, work, metrics, output, Latency
<1>11. QED
  BY <1>1, <1>2, <1>3, <1>4, <1>5, <1>6, <1>7, <1>8, <1>9, <1>10 DEF Next

\* The judged levels stay those of the ladder, and their widths in order.
LEMMA WidthKept == ProgressInv /\ WidthInv /\ [Next]_vars => WidthInv'
<1> SUFFICES ASSUME ProgressInv, WidthInv, [Next]_vars
             PROVE  WidthInv'
  OBVIOUS
<1>1. CASE EndLevel
  <2>1. /\ phase = "running"
        /\ levels' = Append(levels, [concurrency |-> level'.concurrency,
                                     measured |-> level'.measured,
                                     sustainable |-> level'.sustainable])
        /\ level'.concurrency = Levels[Len(levels) + 1]
    BY <1>1, Judging
  <2>2. UNCHANGED curve
    BY <1>1 DEF EndLevel, JudgeLevel
  <2>3. levels \in Seq(Judged)
    BY DEF ProgressInv
  <2> DEFINE one == [concurrency |-> level'.concurrency, measured |-> level'.measured,
                     sustainable |-> level'.sustainable]
  <2>4. one.concurrency = Levels[Len(levels) + 1]
    BY <2>1
  <2> HIDE DEF one
  <2>5. levels' = Append(levels, one)
    BY <2>1 DEF one
  <2>6. /\ Len(levels') = Len(levels) + 1 /\ Len(levels) \in Nat
        /\ \A i \in 1..Len(levels) : levels'[i] = levels[i]
        /\ levels'[Len(levels) + 1] = one
    BY <2>3, <2>5
  <2>7. \A i \in 1..Len(levels') : levels'[i].concurrency = Levels[i]
    <3>1. \A i \in 1..Len(levels') : i \in 1..Len(levels) \/ i = Len(levels) + 1
      BY <2>6
    <3>2. QED
      BY <2>4, <2>6, <3>1 DEF WidthInv
  <2>8. QED
    BY <2>2, <2>7 DEF WidthInv
<1>2. CASE EndContext
  <2>1. /\ phase = "judged" /\ curve' = Append(curve, CurvePoint(levels))
        /\ levels' = <<>> \/ levels' = levels
    BY <1>2 DEF EndContext
  <2>2. CurvePoint(levels).strict_batch <= CurvePoint(levels).sustainable_batch
    BY <2>1, PointTyped
  <2>3. curve \in Seq(Point)
    BY DEF ProgressInv
  <2>4. /\ Len(curve') = Len(curve) + 1 /\ Len(curve) \in Nat
        /\ \A i \in 1..Len(curve) : curve'[i] = curve[i]
        /\ curve'[Len(curve) + 1] = CurvePoint(levels)
    BY <2>1, <2>3
  <2>5. \A i \in 1..Len(curve') : curve'[i].strict_batch <= curve'[i].sustainable_batch
    <3>1. \A i \in 1..Len(curve') : i \in 1..Len(curve) \/ i = Len(curve) + 1
      BY <2>4
    <3>2. QED
      BY <2>2, <2>4, <3>1 DEF WidthInv
  <2>6. QED
    BY <2>1, <2>5 DEF WidthInv
<1>3. ASSUME UNCHANGED <<levels, curve>>
      PROVE  WidthInv'
  BY <1>3 DEF WidthInv
<1>4. QED
  BY <1>1, <1>2, <1>3 DEF Next, vars, output, Warmup, StartLevel, PollReads, PollAgain,
     WorkerStep, Fire, Leave, CallReturns, CallFails, Tick, Preempt

\* Every call of a level that runs stays accounted for.
LEMMA CallsKept == ProgressInv /\ CallsInv /\ [Next]_vars => CallsInv'
<1> SUFFICES ASSUME ProgressInv, CallsInv, [Next]_vars, phase' = "running"
             PROVE  /\ seen'.fired = Completed(samples'.ok) + samples'.errors + Usage'
                    /\ seen'.failed = samples'.errors
                    /\ seen'.late = Completed(Slow(samples'.ok)) /\ seen'.blank = samples'.blank
                    /\ peak' <= seen'.usage /\ Usage' <= seen'.usage
  BY DEF CallsInv
<1>0. /\ CallTimeout \in Nat \ {0} /\ Usage \in Nat /\ seen \in Account
      /\ samples \in Samples
      /\ samples.ok \in Counts(CallTimeout) /\ samples.errors \in Nat /\ samples.blank \in Nat
      /\ worker \in [Workers -> {"ready", "calling", "done"}]
      /\ peak \in Nat
  <2>1. Usage \in Nat /\ Cardinality(Workers) \in Nat
    BY UsageTyped
  <2>2. QED
    BY <2>1, SweepAssumption DEF ProgressInv, TypeOK, Counts, Samples
<1>1. CASE StartLevel
  <2>1. /\ worker' = [w \in Workers |-> IF w <= Concurrency THEN "ready" ELSE "done"]
        /\ samples' = NoSamples /\ peak' = 0
        /\ \E blind \in BOOLEAN : seen' = [Nothing EXCEPT !.blind = blind]
    BY <1>1 DEF StartLevel
  <2>2. /\ seen'.fired = 0 /\ seen'.failed = 0 /\ seen'.late = 0 /\ seen'.usage = 0
        /\ seen'.blank = 0
    BY <2>1 DEF Nothing
  <2>3. Usage' = 0
    <3>1. {w \in Workers : worker'[w] = "calling"} = {}
      BY <2>1
    <3>2. QED
      BY <3>1, FS_EmptySet DEF Usage
  <2>4. Completed(samples'.ok) = 0 /\ samples'.errors = 0 /\ samples'.blank = 0
    BY <1>0, <2>1, AtMostNone DEF NoSamples, Completed
  <2>5. Completed(Slow(samples'.ok)) = 0
    <3>1. Slow(samples'.ok) = [l \in 1..CallTimeout |-> 0]
      BY <2>1 DEF Slow, NoSamples
    <3>2. QED
      BY <1>0, <3>1, AtMostNone DEF Completed
  <2>6. QED
    BY <2>1, <2>2, <2>3, <2>4, <2>5
<1>2. ASSUME phase = "running"
      PROVE  /\ seen.fired = Completed(samples.ok) + samples.errors + Usage
             /\ seen.failed = samples.errors
             /\ seen.late = Completed(Slow(samples.ok)) /\ seen.blank = samples.blank
             /\ peak <= seen.usage /\ Usage <= seen.usage
  BY <1>2 DEF CallsInv
<1>3. Completed(samples.ok) \in Nat
  BY <1>0, AtMostTyped DEF Completed
<1>4. CASE UNCHANGED <<phase, worker, samples, seen, peak>>
  <2>1. Usage' = Usage
    BY <1>4 DEF Usage
  <2>2. QED
    BY <1>2, <1>4, <2>1
<1>5. CASE PollReads
  <2>1. phase = "running" /\ (peak' = peak \/ peak' = Larger(peak, Usage))
        /\ UNCHANGED <<worker, samples, seen>>
    BY <1>5 DEF PollReads, work
  <2>2. Usage' = Usage
    BY <2>1 DEF Usage
  <2>3. QED
    BY <1>2, <2>1, <2>2 DEF Larger
<1>6. ASSUME NEW w \in Workers, Fire(w)
      PROVE  /\ seen'.fired = Completed(samples'.ok) + samples'.errors + Usage'
             /\ seen'.failed = samples'.errors
             /\ seen'.late = Completed(Slow(samples'.ok)) /\ seen'.blank = samples'.blank
             /\ peak' <= seen'.usage /\ Usage' <= seen'.usage
  <2>1. /\ phase = "running" /\ UNCHANGED <<samples, peak>>
        /\ seen' = [seen EXCEPT !.fired = @ + 1, !.usage = Larger(@, Usage + 1)]
    BY <1>6 DEF Fire, metrics
  <2>2. /\ seen'.fired = seen.fired + 1 /\ seen'.usage = Larger(seen.usage, Usage + 1)
        /\ seen'.failed = seen.failed /\ seen'.late = seen.late /\ seen'.blank = seen.blank
    BY <1>0, <2>1 DEF Account
  <2>3. Usage' = Usage + 1
    BY <1>0, <1>6, UsageSteps
  <2>4. seen.usage \in Nat
    BY <1>0 DEF Account
  <2>5. peak' <= seen'.usage /\ Usage' <= seen'.usage
    BY <1>0, <1>2, <2>1, <2>2, <2>3, <2>4 DEF Larger
  <2>6. QED
    BY <1>0, <1>2, <1>3, <2>1, <2>2, <2>3, <2>5
<1>7. ASSUME NEW w \in Workers, Leave(w)
      PROVE  /\ seen'.fired = Completed(samples'.ok) + samples'.errors + Usage'
             /\ seen'.failed = samples'.errors
             /\ seen'.late = Completed(Slow(samples'.ok)) /\ seen'.blank = samples'.blank
             /\ peak' <= seen'.usage /\ Usage' <= seen'.usage
  <2>1. phase = "running" /\ UNCHANGED <<samples, peak, seen>>
    BY <1>7 DEF Leave, metrics
  <2>2. Usage' = Usage
    BY <1>0, <1>7, UsageSteps
  <2>3. QED
    BY <1>2, <2>1, <2>2
<1>8. ASSUME NEW w \in Workers, CallReturns(w)
      PROVE  /\ seen'.fired = Completed(samples'.ok) + samples'.errors + Usage'
             /\ seen'.failed = samples'.errors
             /\ seen'.late = Completed(Slow(samples'.ok)) /\ seen'.blank = samples'.blank
             /\ peak' <= seen'.usage /\ Usage' <= seen'.usage
  <2> DEFINE l == Latency(w)
             more == [samples.ok EXCEPT ![l] = @ + 1]
  <2>0. /\ phase = "running" /\ UNCHANGED peak
        /\ \E b \in {0, 1} :
              /\ samples' = [samples EXCEPT !.ok[l] = @ + 1, !.blank = @ + b]
              /\ seen' = [seen EXCEPT !.late = IF l < Slo THEN @ ELSE @ + 1,
                                      !.blank = @ + b]
    BY <1>8 DEF CallReturns, metrics
  <2>1. PICK b \in {0, 1} :
           /\ samples' = [samples EXCEPT !.ok[l] = @ + 1, !.blank = @ + b]
           /\ seen' = [seen EXCEPT !.late = IF l < Slo THEN @ ELSE @ + 1,
                                   !.blank = @ + b]
    BY <2>0
  <2>2. l \in 1..CallTimeout
    BY <1>0, <1>8 DEF CallReturns, ProgressInv, TypeOK, Latency
  <2>3. Usage' = Usage - 1
    BY <1>0, <1>8, UsageSteps
  <2> HIDE DEF l
  <2>4. /\ samples'.ok = more /\ samples'.errors = samples.errors
        /\ samples'.blank = samples.blank + b
    <3>1. \A m \in 1..CallTimeout, d \in {0, 1} :
             LET t == [samples EXCEPT !.ok[m] = @ + 1, !.blank = @ + d]
             IN  /\ t \in Samples
                 /\ t.ok = [samples.ok EXCEPT ![m] = @ + 1]
                 /\ t.blank = samples.blank + d /\ t.errors = samples.errors
      BY <1>0, SampleTaken, Zenon
    <3>2. LET t == [samples EXCEPT !.ok[l] = @ + 1, !.blank = @ + b]
          IN  t.ok = [samples.ok EXCEPT ![l] = @ + 1]
              /\ t.blank = samples.blank + b /\ t.errors = samples.errors
      BY <2>2, <3>1
    <3>3. QED
      BY <2>1, <3>2
  <2>13. \A ok \in Counts(CallTimeout) :
           AtMost([ok EXCEPT ![l] = @ + 1], CallTimeout)
              = AtMost(ok, CallTimeout) + (IF l <= CallTimeout THEN 1 ELSE 0)
    <3> SUFFICES ASSUME NEW ok \in Counts(CallTimeout)
                 PROVE  AtMost([ok EXCEPT ![l] = @ + 1], CallTimeout)
                          = AtMost(ok, CallTimeout)
                              + (IF l <= CallTimeout THEN 1 ELSE 0)
      OBVIOUS
    <3> DEFINE one == [ok EXCEPT ![l] = @ + 1]
    <3>1. CallTimeout \in Nat /\ CallTimeout \in 0..CallTimeout
      BY <1>0
    <3>2. \A m \in 0..CallTimeout :
             AtMost(one, m) = AtMost(ok, m) + (IF l <= m THEN 1 ELSE 0)
      BY <2>2, <3>1, AtMostOneMore
    <3>3. QED
      BY <3>1, <3>2
  <2>5. Completed(more) = Completed(samples.ok) + 1
    <3>1. AtMost(more, CallTimeout)
             = AtMost(samples.ok, CallTimeout) + (IF l <= CallTimeout THEN 1 ELSE 0)
      BY <1>0, <2>13
    <3>2. l <= CallTimeout
      BY <1>0, <2>2
    <3>3. QED
      BY <3>1, <3>2 DEF Completed
  <2>6. Completed(Slow(more)) = Completed(Slow(samples.ok)) + (IF l < Slo THEN 0 ELSE 1)
    <3>1. Slow(samples.ok) \in Counts(CallTimeout)
      BY <1>0 DEF Slow, Counts
    <3>2. CASE l < Slo
      <4>1. Slow(more) = Slow(samples.ok)
        BY <1>0, <2>2, <3>2 DEF Slow, Counts
      <4>2. Completed(Slow(samples.ok)) \in Nat
        BY <1>0, <3>1, AtMostTyped DEF Completed
      <4>3. QED
        BY <3>2, <4>1, <4>2
    <3>3. CASE ~(l < Slo)
      <4>1. Slow(more) = [Slow(samples.ok) EXCEPT ![l] = @ + 1]
        BY <1>0, <2>2, <3>3 DEF Slow, Counts
      <4>2. AtMost(Slow(more), CallTimeout)
               = AtMost(Slow(samples.ok), CallTimeout) + (IF l <= CallTimeout THEN 1 ELSE 0)
        BY <2>13, <3>1, <4>1
      <4>3. l <= CallTimeout
        BY <1>0, <2>2
      <4>4. QED
        BY <3>3, <4>2, <4>3 DEF Completed
    <3>4. QED
      BY <3>2, <3>3
  <2>7. /\ seen'.fired = seen.fired /\ seen'.failed = seen.failed /\ seen'.usage = seen.usage
        /\ seen'.late = IF l < Slo THEN seen.late ELSE seen.late + 1
        /\ seen'.blank = seen.blank + b
    BY <1>0, <2>1 DEF Account
  <2>8. seen.usage \in Nat /\ seen.late \in Nat /\ seen.fired \in Nat
    BY <1>0 DEF Account
  <2>9. seen'.fired = Completed(samples'.ok) + samples'.errors + Usage'
    BY <1>0, <1>2, <1>3, <2>0, <2>3, <2>4, <2>5, <2>7
  <2>10. seen'.late = Completed(Slow(samples'.ok)) /\ seen'.blank = samples'.blank
    BY <1>2, <2>0, <2>4, <2>6, <2>7, <2>8
  <2>11. Usage' <= seen'.usage /\ peak' <= seen'.usage
    BY <1>0, <1>2, <2>0, <2>3, <2>7, <2>8
  <2>12. QED
    BY <1>2, <2>0, <2>4, <2>7, <2>9, <2>10, <2>11
<1>9. ASSUME NEW w \in Workers, CallFails(w)
      PROVE  /\ seen'.fired = Completed(samples'.ok) + samples'.errors + Usage'
             /\ seen'.failed = samples'.errors
             /\ seen'.late = Completed(Slow(samples'.ok)) /\ seen'.blank = samples'.blank
             /\ peak' <= seen'.usage /\ Usage' <= seen'.usage
  <2>1. /\ phase = "running" /\ UNCHANGED peak
        /\ samples' = [samples EXCEPT !.errors = @ + 1]
        /\ seen' = [seen EXCEPT !.failed = @ + 1]
    BY <1>9 DEF CallFails, metrics
  <2>2. /\ samples'.ok = samples.ok /\ samples'.errors = samples.errors + 1
        /\ samples'.blank = samples.blank
    BY <1>0, <2>1, SampleTaken
  <2>3. Usage' = Usage - 1
    BY <1>0, <1>9, UsageSteps
  <2>4. /\ seen'.fired = seen.fired /\ seen'.late = seen.late /\ seen'.usage = seen.usage
        /\ seen'.failed = seen.failed + 1 /\ seen'.blank = seen.blank
    BY <1>0, <2>1 DEF Account
  <2>5. seen.usage \in Nat
    BY <1>0 DEF Account
  <2>6. Completed(samples'.ok) = Completed(samples.ok)
    BY <2>2
  <2>7. Completed(Slow(samples'.ok)) = Completed(Slow(samples.ok))
    BY <2>2
  <2>8. seen'.fired = Completed(samples'.ok) + samples'.errors + Usage'
    BY <1>0, <1>2, <1>3, <2>1, <2>2, <2>3, <2>4, <2>6
  <2>9. peak' <= seen'.usage /\ Usage' <= seen'.usage
    BY <1>0, <1>2, <2>1, <2>3, <2>4, <2>5
  <2>10. QED
    BY <1>2, <2>1, <2>2, <2>4, <2>7, <2>8, <2>9
<1>10. ASSUME NEW p \in Replicas, Preempt(p)
       PROVE  /\ seen'.fired = Completed(samples'.ok) + samples'.errors + Usage'
              /\ seen'.failed = samples'.errors
              /\ seen'.late = Completed(Slow(samples'.ok)) /\ seen'.blank = samples'.blank
              /\ peak' <= seen'.usage /\ Usage' <= seen'.usage
  <2>1. /\ phase = "running" /\ UNCHANGED <<worker, samples, peak>>
        /\ seen' = [seen EXCEPT !.hits = @ + 1]
    BY <1>10 DEF Preempt, work
  <2>2. /\ seen'.fired = seen.fired /\ seen'.late = seen.late /\ seen'.usage = seen.usage
        /\ seen'.failed = seen.failed /\ seen'.blank = seen.blank
    BY <1>0, <2>1 DEF Account
  <2>3. Usage' = Usage
    BY <2>1 DEF Usage
  <2>4. QED
    BY <1>2, <2>1, <2>2, <2>3
<1>11. ~Warmup /\ ~EndLevel /\ ~EndContext
  BY DEF Warmup, EndLevel, JudgeLevel, EndContext
<1>12. PollAgain \/ Tick \/ UNCHANGED vars => UNCHANGED <<phase, worker, samples, seen, peak>>
  BY DEF PollAgain, Tick, vars, work, metrics
<1>13. QED
  BY <1>1, <1>4, <1>5, <1>6, <1>7, <1>8, <1>9, <1>10, <1>11, <1>12 DEF Next, WorkerStep

\* What is reported of a level stays what happened in it.
LEMMA LevelKept ==
    ProgressInv /\ CallsInv /\ HonestLevel /\ HonestPeak /\ [Next]_vars
        => HonestLevel' /\ HonestPeak'
<1> SUFFICES ASSUME ProgressInv, CallsInv, HonestLevel, HonestPeak, [Next]_vars
             PROVE  HonestLevel' /\ HonestPeak'
  OBVIOUS
<1>1. CASE EndLevel
  <2> DEFINE ok == samples.ok
             n == Completed(ok)
  <2>0. /\ CallTimeout \in Nat \ {0} /\ Quantile \in Nat /\ Slo \in Nat
        /\ seen \in Account /\ ok \in Counts(CallTimeout) /\ samples.errors \in Nat
        /\ samples.blank \in Nat
        /\ peak \in Nat /\ Usage \in Nat
    <3>1. Usage \in Nat /\ Cardinality(Workers) \in Nat
      BY UsageTyped
    <3>2. QED
      BY <3>1, SweepAssumption DEF ProgressInv, TypeOK, Counts, Samples
  <2>1. /\ phase = "running"
        /\ level'.requests = n + samples.errors
        /\ level'.kv_peak \in PolledPeaks
        /\ level'.measured = Measured(samples)
        /\ level'.sustainable => n > 0 /\ Percentile(ok) < Slo /\ samples.errors = 0
        /\ \E blind \in BOOLEAN : seen' = [seen EXCEPT !.lost = blind]
    BY <1>1, Judging
  <2>2. /\ seen'.fired = seen.fired /\ seen'.failed = seen.failed
        /\ seen'.late = seen.late /\ seen'.usage = seen.usage /\ seen'.blank = seen.blank
    BY <2>0, <2>1 DEF Account
  <2>3. Usage = 0
    <3>1. {w \in Workers : worker[w] = "calling"} = {}
      BY <1>1 DEF EndLevel
    <3>2. QED
      BY <3>1, FS_EmptySet DEF Usage
  <2>4. /\ seen.fired = n + samples.errors + Usage
        /\ seen.failed = samples.errors
        /\ seen.late = Completed(Slow(ok)) /\ seen.blank = samples.blank
        /\ peak <= seen.usage /\ Usage <= seen.usage
    BY <2>1 DEF CallsInv
  <2>5. n \in Nat /\ \A l \in 0..CallTimeout : AtMost(ok, l) \in Nat
    BY <2>0, AtMostTyped DEF Completed
  <2>6. Completed(Slow(ok)) \in Nat
    <3>1. Slow(ok) \in Counts(CallTimeout)
      BY <2>0 DEF Slow, Counts
    <3>2. QED
      BY <2>0, <3>1, AtMostTyped DEF Completed
  <2>7. level'.requests = seen'.fired
    BY <2>0, <2>1, <2>2, <2>3, <2>4, <2>5
  <2>8. ASSUME level'.sustainable
        PROVE  /\ seen'.fired > 0 /\ seen'.failed = 0
               /\ 100 * seen'.late <= (100 - Quantile) * seen'.fired
               /\ ~level'.measured => 2 * seen'.blank >= seen'.fired
    <3> DEFINE p == Percentile(ok)
               fast == AtMost(ok, p)
               slow == Completed(Slow(ok))
               x == Quantile * n
    <3>1. n > 0 /\ p < Slo /\ samples.errors = 0
      BY <2>1, <2>8
    <3>2. seen'.fired = n /\ seen'.failed = 0 /\ seen'.late = slow
      BY <2>0, <2>2, <2>3, <2>4, <2>5, <3>1
    <3>3. p \in 1..CallTimeout /\ 100 * fast >= x
      BY <2>0, <3>1, PercentileIsAQuantile
    <3>4. slow + fast <= n /\ fast \in Nat /\ slow \in Nat
      <4>1. p \in 0..CallTimeout
        BY <2>0, <3>3
      <4>2. QED
        BY <2>0, <2>5, <2>6, <3>1, <4>1, SlowOrFast
    <3>5. x \in Nat /\ (100 - Quantile) * n = 100 * n - x
      BY <2>0, <2>5
    <3>8. ~level'.measured => 2 * seen'.blank >= n
      <4>1. ~level'.measured => ~(samples.blank < (n + 1) \div 2)
        BY <2>1 DEF Measured
      <4>2. 2 * ((n + 1) \div 2) >= n /\ (n + 1) \div 2 \in Nat
        BY <2>5
      <4>3. seen'.blank = samples.blank
        BY <2>2, <2>4
      <4>4. QED
        BY <2>0, <2>5, <4>1, <4>2, <4>3
    <3> HIDE DEF p, fast, slow, x, n
    <3>6. 100 * slow <= 100 * n - x
      BY <2>5, <3>3, <3>4, <3>5
    <3>7. QED
      BY <3>1, <3>2, <3>5, <3>6, <3>8
  <2>9. level'.kv_peak <= seen'.usage
    <3>1. /\ level'.kv_peak \in {0, peak, Usage} /\ seen.usage \in Nat
      BY <2>0, <2>1 DEF PolledPeaks, Larger, Account
    <3>2. QED
      BY <2>0, <2>2, <2>4, <3>1
  <2>10. QED
    BY <2>7, <2>8, <2>9 DEF HonestLevel, HonestPeak
<1>2. CASE EndContext
  <2>1. JustJudged' => JustJudged
    BY <1>2 DEF EndContext, JustJudged
  <2>2. UNCHANGED <<level, seen>>
    BY <1>2 DEF EndContext
  <2>3. QED
    BY <2>1, <2>2 DEF HonestLevel, HonestPeak
<1>3. CASE UNCHANGED vars
  BY <1>3 DEF HonestLevel, HonestPeak, JustJudged, vars, output
<1>4. ASSUME ~JustJudged'
      PROVE  HonestLevel' /\ HonestPeak'
  BY <1>4 DEF HonestLevel, HonestPeak
<1>5. ASSUME \/ Warmup \/ StartLevel \/ PollReads \/ PollAgain \/ Tick
             \/ \E w \in Workers : WorkerStep(w)
             \/ \E p \in Replicas : Preempt(p)
      PROVE  ~JustJudged'
  <2>1. CASE Warmup
    BY <2>1 DEF Warmup, JustJudged, output, ProgressInv
  <2>2. CASE ~Warmup
    <3>1. phase' = "running"
      BY <1>5, <2>2 DEF StartLevel, PollReads, PollAgain, Tick, WorkerStep, Fire, Leave,
         CallReturns, CallFails, Preempt
    <3>2. QED
      BY <3>1 DEF JustJudged
  <2>3. QED
    BY <2>1, <2>2
<1>6. QED
  BY <1>1, <1>2, <1>3, <1>4, <1>5 DEF Next

\* The invariant holds of every state of every sweep.
LEMMA SweepInductive == /\ Init => SweepInv
                        /\ SweepInv /\ [Next]_vars => SweepInv'
<1>1. ASSUME Init
      PROVE  SweepInv
  <2>1. ProgressInv
    BY <1>1, ProgressInit
  <2>2. CallsInv /\ HonestLevel /\ HonestPeak
    BY <1>1 DEF Init, CallsInv, HonestLevel, HonestPeak, JustJudged
  <2>3. WidthInv
    BY <1>1 DEF Init, WidthInv
  <2>4. QED
    BY <2>1, <2>2, <2>3 DEF SweepInv
<1>2. SweepInv /\ [Next]_vars => SweepInv'
  BY ProgressKept, CallsKept, LevelKept, WidthKept DEF SweepInv
<1>3. QED
  BY <1>1, <1>2

\* The ladder is climbed level by level and size by size, no call outlives its timeout
\* and every reading has its type.
THEOREM SweepTypeCorrect == Spec => []TypeOK
<1>1. SweepInv => TypeOK
  BY DEF SweepInv, ProgressInv
<1>2. QED
  BY <1>1, SweepInductive, PTL DEF Spec

\* A level is judged by all the calls it started, and is called sustainable only when
\* none failed and the share over the SLO is within what the quantile leaves; a
\* sustainable level without a measured size had no usage for half of its calls or
\* more (loadtest.py:156, 165, 216-241).
THEOREM LevelsAreHonest == Spec => []HonestLevel
<1>1. SweepInv => HonestLevel
  BY DEF SweepInv
<1>2. QED
  BY <1>1, SweepInductive, PTL DEF Spec

\* The reported peak of a level was its own (loadtest.py:250-256, 261-270).
THEOREM PeaksAreHonest == Spec => []HonestPeak
<1>1. SweepInv => HonestPeak
  BY DEF SweepInv
<1>2. QED
  BY <1>1, SweepInductive, PTL DEF Spec

\* The strict width is the last of the sustainable levels that no unsustainable one
\* comes before; it is never above the tolerant width, and below it only when a
\* sustainable level stands behind an unsustainable one, at every moment of every
\* sweep and in the points of the curve (loadtest.py:175-196, 351-357).
THEOREM WidthsAreHonest == Spec => []HonestWidth
<1>1. ASSUME SweepInv
      PROVE  HonestWidth
  <2>1. OfLadder(levels)
    BY <1>1 DEF SweepInv, ProgressInv, TypeOK, WidthInv, OfLadder
  <2>2. Good(levels) = {i \in 1..Len(levels) : levels[i].sustainable}
    BY DEF Good
  <2>3. QED
    BY <1>1, <2>1, <2>2, WidthsAgree DEF SweepInv, WidthInv, HonestWidth
<1>2. QED
  BY <1>1, SweepInductive, PTL DEF Spec
----
\* The one counter moves on from its reading by at least the preemptions of a level.
LEMMA HitsKept ==
    ASSUME NEW p, Replicas = {p}
    PROVE  /\ Init => HitsInv /\ NoPreemptionMissed
           /\ SweepInv /\ HitsInv /\ NoPreemptionMissed /\ [Next]_vars
                 => HitsInv' /\ NoPreemptionMissed'
<1>1. Init => HitsInv /\ NoPreemptionMissed
  BY DEF Init, HitsInv, NoPreemptionMissed, JustJudged
<1> SUFFICES ASSUME SweepInv, HitsInv, NoPreemptionMissed, [Next]_vars
             PROVE  HitsInv' /\ NoPreemptionMissed'
  BY <1>1
<1>2. \A value, blind : Scrape(value, blind) => value = 0 \/ value = preempted[p]
  BY DEF Scrape
<1>3. /\ preempted \in [Replicas -> 0..MaxPreemptions] /\ before \in 0..MaxPreemptions
      /\ seen \in Account /\ MaxPreemptions \in Nat /\ preempted[p] \in 0..MaxPreemptions
  BY SweepAssumption DEF SweepInv, ProgressInv, TypeOK
<1>4. CASE StartLevel
  <2>1. PICK value, blind : /\ Scrape(value, blind) /\ before' = value
                            /\ seen' = [Nothing EXCEPT !.blind = blind]
    BY <1>4 DEF StartLevel
  <2>2. seen'.hits = 0 /\ before' \in {0, preempted[p]} /\ preempted' = preempted
    BY <1>2, <1>4, <2>1 DEF Nothing, StartLevel
  <2>3. phase' = "running"
    BY <1>4 DEF StartLevel
  <2>4. QED
    BY <1>3, <2>2, <2>3 DEF HitsInv, NoPreemptionMissed, JustJudged
<1>5. CASE EndLevel
  <2>1. PICK value \in 0..MaxPreemptions, blind \in BOOLEAN :
           /\ Scrape(value, blind)
           /\ level'.preemption_free => value - before <= 0
           /\ seen' = [seen EXCEPT !.lost = blind]
    BY <1>5, Judging DEF SweepInv
  <2>2. phase = "running" /\ phase' # "running"
    BY <1>5 DEF EndLevel, JudgeLevel
  <2>3. /\ seen'.hits = seen.hits /\ seen'.lost = blind
        /\ seen.hits <= preempted[p] - before /\ seen.hits \in Nat
    BY <1>3, <2>1, <2>2 DEF HitsInv, Account
  <2>4. ~blind => value = preempted[p]
    BY <2>1 DEF Scrape
  <2>5. level'.preemption_free /\ ~seen'.lost => seen'.hits = 0
    BY <1>3, <2>1, <2>3, <2>4
  <2>6. QED
    BY <2>2, <2>5 DEF HitsInv, NoPreemptionMissed
<1>6. CASE EndContext
  BY <1>6 DEF EndContext, HitsInv, NoPreemptionMissed, JustJudged
<1>7. CASE Warmup
  BY <1>7 DEF Warmup, HitsInv, NoPreemptionMissed, JustJudged, output, SweepInv, ProgressInv
<1>8. CASE UNCHANGED vars
  BY <1>8 DEF vars, output, metrics, HitsInv, NoPreemptionMissed, JustJudged
<1>9. ASSUME NEW q \in Replicas, Preempt(q)
      PROVE  HitsInv' /\ NoPreemptionMissed'
  <2>1. /\ q = p /\ phase = "running" /\ phase' = "running" /\ before' = before
        /\ preempted' = [preempted EXCEPT ![p] = @ + 1]
        /\ seen' = [seen EXCEPT !.hits = @ + 1]
    BY <1>9 DEF Preempt
  <2>2. seen'.hits = seen.hits + 1 /\ preempted'[p] = preempted[p] + 1
    BY <1>3, <2>1 DEF Account
  <2>3. seen.hits <= preempted[p] - before /\ seen.hits \in Nat
    BY <1>3, <2>1 DEF HitsInv, Account
  <2>4. QED
    BY <1>3, <2>1, <2>2, <2>3 DEF HitsInv, NoPreemptionMissed, JustJudged
<1>10. ASSUME \/ PollReads \/ PollAgain \/ Tick
              \/ \E w \in Workers : WorkerStep(w)
       PROVE  HitsInv' /\ NoPreemptionMissed'
  <2>1. phase = "running" /\ phase' = "running" /\ UNCHANGED <<preempted, before>>
    BY <1>10 DEF PollReads, PollAgain, Tick, WorkerStep, Fire, Leave, CallReturns, CallFails,
       metrics
  <2>2. seen'.hits = seen.hits
    <3>1. CASE PollReads \/ PollAgain \/ Tick
      BY <3>1 DEF PollReads, PollAgain, Tick
    <3>2. ASSUME NEW w \in Workers, WorkerStep(w)
          PROVE  seen'.hits = seen.hits
      BY <1>3, <3>2 DEF WorkerStep, Fire, Leave, CallReturns, CallFails, Account
    <3>3. QED
      BY <1>10, <3>1, <3>2
  <2>3. QED
    BY <2>1, <2>2 DEF HitsInv, NoPreemptionMissed, JustJudged
<1>11. QED
  BY <1>4, <1>5, <1>6, <1>7, <1>8, <1>9, <1>10 DEF Next

\* With one replica behind the endpoint, a level that is called free of preemptions had
\* none, unless the read after it failed; the read before it may have
\* (loadtest.py:160, 260-269, 283-289).
THEOREM PreemptionsAreSeen ==
    ASSUME NEW p, Replicas = {p}
    PROVE  Spec => []NoPreemptionMissed
<1>1. Init => SweepInv /\ HitsInv /\ NoPreemptionMissed
  BY SweepInductive, HitsKept
<1>2. SweepInv /\ HitsInv /\ NoPreemptionMissed /\ [Next]_vars
         => (SweepInv /\ HitsInv /\ NoPreemptionMissed)'
  BY SweepInductive, HitsKept
<1>3. QED
  BY <1>1, <1>2, PTL DEF Spec
=============================================================================
