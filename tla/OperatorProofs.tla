----------------------------- MODULE OperatorProofs -----------------------------
(***************************************************************************)
(* What the pure operators of the models return, for every argument:       *)
(* running totals and tallies, with the induction over numbers they need;  *)
(* the cost model; the assembly of a context, the decision of the router   *)
(* and the degradation ladder.  The proofs about the components that use   *)
(* these operators rest on it.                                             *)
(***************************************************************************)
EXTENDS Tally, FleetCost, Routing, FiniteSetTheorems, NaturalsInduction, WellFoundedInduction,
        TLAPS

\* A nonempty set of numbers has a least one.
LEMMA LeastNumber ==
    ASSUME NEW S, S \subseteq Nat, S # {}
    PROVE  \E n \in S : \A m \in S : n <= m
<1>1. PICK n \in S : \A m \in S : ~(<<m, n>> \in OpToRel(<, Nat))
  BY NatLessThanWellFounded, WFMin
<1>2. \A m \in S : ~(m < n)
  BY <1>1 DEF OpToRel
<1>3. QED
  BY <1>2

\* A nonempty set of numbers below a bound has a greatest one.
LEMMA GreatestNumber ==
    ASSUME NEW N \in Nat, NEW S, S \subseteq 0..N, S # {}
    PROVE  \E n \in S : \A m \in S : m <= n
<1> DEFINE T == {d \in 0..N : N - d \in S}
<1>1. T \subseteq Nat /\ T # {}
  <2>1. PICK n \in S : TRUE
    OBVIOUS
  <2>2. N - n \in 0..N /\ N - (N - n) = n
    BY <2>1
  <2>3. N - n \in T
    BY <2>2
  <2>4. QED
    BY <2>3
<1>2. PICK d \in T : \A e \in T : d <= e
  BY <1>1, LeastNumber
<1>3. ASSUME NEW m \in S
      PROVE  m <= N - d
  <2>1. m \in 0..N /\ N - m \in 0..N /\ N - (N - m) = m
    OBVIOUS
  <2>2. N - m \in T
    BY <2>1
  <2>3. d <= N - m /\ d \in 0..N
    BY <1>2, <2>2
  <2>4. QED
    BY <2>1, <2>3
<1>4. QED
  BY <1>2, <1>3

\* A set that has a first number and the next one of each of its own, up to a bound,
\* has them all.
LEMMA NumbersUpTo ==
    ASSUME NEW N \in Nat, NEW S, 0 \in S, \A n \in 0..N : n < N /\ n \in S => n + 1 \in S
    PROVE  \A n \in 0..N : n \in S
<1> DEFINE Out == {n \in 0..N : n \notin S}
<1> SUFFICES ASSUME Out # {}
             PROVE  FALSE
  OBVIOUS
<1>1. PICK n \in Out : \A m \in Out : n <= m
  <2>1. Out \subseteq Nat
    OBVIOUS
  <2>2. QED
    BY <2>1, LeastNumber
<1>2. n \in 0..N /\ n \notin S /\ n # 0
  OBVIOUS
<1>3. n - 1 \in 0..N /\ n - 1 < N /\ n - 1 \notin Out
  BY <1>1, <1>2
<1>4. n - 1 \in S
  BY <1>3
<1>5. (n - 1) + 1 \in S
  BY <1>3, <1>4
<1>6. QED
  BY <1>2, <1>5
----
\* f holds the running totals of the first n numbers of s.
RunningTotal(f, s, n) == f = [i \in 0..n |-> IF i = 0 THEN 0 ELSE f[i - 1] + s[i]]

\* There are such totals.
LEMMA RunningTotals ==
    ASSUME NEW N \in Nat, NEW s
    PROVE  \E f : RunningTotal(f, s, N)
<1> DEFINE S == {n \in 0..N : \E f : RunningTotal(f, s, n)}
<1>1. 0 \in S
  <2>1. RunningTotal([i \in 0..0 |-> 0], s, 0)
    BY DEF RunningTotal
  <2>2. QED
    BY <2>1
<1>2. ASSUME NEW n \in 0..N, n < N, n \in S
      PROVE  n + 1 \in S
  <2>1. PICK f : RunningTotal(f, s, n)
    BY <1>2
  <2> DEFINE g == [i \in 0..(n + 1) |-> IF i = n + 1 THEN f[n] + s[n + 1] ELSE f[i]]
  <2>2. ASSUME NEW i \in 0..(n + 1)
        PROVE  g[i] = IF i = 0 THEN 0 ELSE g[i - 1] + s[i]
    <3>1. CASE i = n + 1
      BY <1>2, <3>1
    <3>2. CASE i # n + 1
      BY <1>2, <2>1, <3>2 DEF RunningTotal
    <3>3. QED
      BY <3>1, <3>2
  <2>3. RunningTotal(g, s, n + 1)
    BY <2>2 DEF RunningTotal
  <2>4. QED
    BY <1>2, <2>3
<1> HIDE DEF S
<1>3. N \in S
  BY <1>1, <1>2, NumbersUpTo
<1>4. QED
  BY <1>3 DEF S

\* They are what one expects of them.
LEMMA RunningTotalStep ==
    ASSUME NEW N \in Nat, NEW s, NEW f, RunningTotal(f, s, N)
    PROVE  f[0] = 0 /\ \A n \in 1..N : f[n] = f[n - 1] + s[n]
BY DEF RunningTotal

\* Totals of numbers are numbers.
LEMMA RunningTotalTyped ==
    ASSUME NEW N \in Nat, NEW s, \A i \in 1..N : s[i] \in Nat, NEW f, RunningTotal(f, s, N)
    PROVE  \A n \in 0..N : f[n] \in Nat
<1> DEFINE S == {n \in 0..N : f[n] \in Nat}
<1>1. 0 \in S
  BY RunningTotalStep
<1>2. ASSUME NEW n \in 0..N, n < N, n \in S
      PROVE  n + 1 \in S
  <2>1. f[n + 1] = f[n] + s[n + 1] /\ s[n + 1] \in Nat /\ f[n] \in Nat
    <3>1. n + 1 \in 1..N /\ (n + 1) - 1 = n
      BY <1>2
    <3>2. QED
      BY <1>2, <3>1, RunningTotalStep
  <2>2. QED
    BY <1>2, <2>1
<1> HIDE DEF S
<1>3. \A n \in 0..N : n \in S
  BY <1>1, <1>2, NumbersUpTo
<1>4. QED
  BY <1>3 DEF S

\* How far they are taken makes no difference to those both hold.
LEMMA RunningTotalsAgree ==
    ASSUME NEW N \in Nat, NEW M \in Nat, M <= N, NEW s,
           NEW f, RunningTotal(f, s, N), NEW g, RunningTotal(g, s, M)
    PROVE  \A n \in 0..M : f[n] = g[n]
<1> DEFINE S == {n \in 0..M : f[n] = g[n]}
<1>0. /\ f[0] = 0 /\ \A n \in 1..N : f[n] = f[n - 1] + s[n]
      /\ g[0] = 0 /\ \A n \in 1..M : g[n] = g[n - 1] + s[n]
  BY RunningTotalStep
<1>1. 0 \in S
  BY <1>0
<1>2. ASSUME NEW n \in 0..M, n < M, n \in S
      PROVE  n + 1 \in S
  <2>1. n + 1 \in 1..M /\ n + 1 \in 1..N /\ (n + 1) - 1 = n /\ f[n] = g[n]
    BY <1>2
  <2>2. f[n + 1] = g[n + 1]
    BY <1>0, <2>1
  <2>3. QED
    BY <1>2, <2>2
<1> HIDE DEF S
<1>3. \A n \in 0..M : n \in S
  BY <1>1, <1>2, NumbersUpTo
<1>4. QED
  BY <1>3 DEF S
----
\* A tally of N classes.
Counts(N) == [1..N -> Nat]

\* The count of the completions at or below a latency is a running total.
LEMMA AtMostTotals ==
    ASSUME NEW N \in Nat, NEW ok
    PROVE  \E f : RunningTotal(f, ok, N) /\ \A l \in 0..N : AtMost(ok, l) = f[l]
<1>1. PICK f : RunningTotal(f, ok, N)
  BY RunningTotals
<1>2. ASSUME NEW l \in 0..N
      PROVE  AtMost(ok, l) = f[l]
  <2> DEFINE g == CHOOSE g : g = [k \in 0..l |-> IF k = 0 THEN 0 ELSE g[k - 1] + ok[k]]
  <2>1. l \in Nat /\ l <= N
    OBVIOUS
  <2>2. PICK h : RunningTotal(h, ok, l)
    BY <2>1, RunningTotals
  <2>3. g = [k \in 0..l |-> IF k = 0 THEN 0 ELSE g[k - 1] + ok[k]]
    BY <2>2, Zenon DEF RunningTotal
  <2>4. RunningTotal(g, ok, l)
    BY <2>3, Zenon DEF RunningTotal
  <2>5. AtMost(ok, l) = g[l]
    BY Zenon DEF AtMost
  <2> HIDE DEF g
  <2>6. g[l] = f[l]
    BY <1>1, <2>1, <2>4, RunningTotalsAgree
  <2>7. QED
    BY <2>5, <2>6
<1>3. QED
  BY <1>1, <1>2

LEMMA AtMostTyped ==
    ASSUME NEW N \in Nat, NEW ok \in Counts(N)
    PROVE  /\ AtMost(ok, 0) = 0
           /\ \A l \in 0..N : AtMost(ok, l) \in Nat
           /\ \A l \in 1..N : AtMost(ok, l) = AtMost(ok, l - 1) + ok[l]
<1>1. PICK f : RunningTotal(f, ok, N) /\ \A l \in 0..N : AtMost(ok, l) = f[l]
  BY AtMostTotals
<1>2. \A i \in 1..N : ok[i] \in Nat
  BY DEF Counts
<1>3. \A n \in 0..N : f[n] \in Nat
  BY <1>1, <1>2, RunningTotalTyped
<1>4. f[0] = 0 /\ \A n \in 1..N : f[n] = f[n - 1] + ok[n]
  BY <1>1, RunningTotalStep
<1>5. \A n \in 1..N : n - 1 \in 0..N /\ n \in 0..N
  OBVIOUS
<1>6. QED
  BY <1>1, <1>3, <1>4, <1>5

\* No completion, and one more of a latency.
LEMMA AtMostNone ==
    ASSUME NEW N \in Nat
    PROVE  \A l \in 0..N : AtMost([k \in 1..N |-> 0], l) = 0
<1> DEFINE ok == [k \in 1..N |-> 0]
           S == {n \in 0..N : AtMost(ok, n) = 0}
<1>0. ok \in Counts(N) /\ \A l \in 1..N : ok[l] = 0
  BY DEF Counts
<1> HIDE DEF ok
<1>1. /\ AtMost(ok, 0) = 0
      /\ \A l \in 1..N : AtMost(ok, l) = AtMost(ok, l - 1) + ok[l]
  BY <1>0, AtMostTyped
<1>2. 0 \in S
  BY <1>1
<1>3. ASSUME NEW n \in 0..N, n < N, n \in S
      PROVE  n + 1 \in S
  <2>1. n + 1 \in 1..N /\ (n + 1) - 1 = n /\ AtMost(ok, n) = 0
    BY <1>3
  <2>2. AtMost(ok, n + 1) = 0
    BY <1>0, <1>1, <2>1
  <2>3. QED
    BY <1>3, <2>2
<1> HIDE DEF S
<1>4. \A n \in 0..N : n \in S
  BY <1>2, <1>3, NumbersUpTo
<1>5. QED
  BY <1>4 DEF S, ok

LEMMA AtMostOneMore ==
    ASSUME NEW N \in Nat, NEW ok \in Counts(N), NEW i \in 1..N
    PROVE  LET more == [ok EXCEPT ![i] = @ + 1]
           IN  /\ more \in Counts(N)
               /\ \A l \in 0..N : AtMost(more, l) = AtMost(ok, l) + (IF i <= l THEN 1 ELSE 0)
<1> DEFINE more == [ok EXCEPT ![i] = @ + 1]
           S == {l \in 0..N : AtMost(more, l) = AtMost(ok, l) + (IF i <= l THEN 1 ELSE 0)}
<1>0. /\ more \in Counts(N)
      /\ \A l \in 1..N : more[l] = IF l = i THEN ok[l] + 1 ELSE ok[l]
      /\ \A l \in 1..N : ok[l] \in Nat
  BY DEF Counts
<1> HIDE DEF more
<1>1. /\ AtMost(ok, 0) = 0 /\ AtMost(more, 0) = 0
      /\ \A l \in 1..N : AtMost(ok, l) = AtMost(ok, l - 1) + ok[l]
      /\ \A l \in 1..N : AtMost(more, l) = AtMost(more, l - 1) + more[l]
      /\ \A l \in 0..N : AtMost(ok, l) \in Nat
  BY <1>0, AtMostTyped
<1>2. 0 \in S
  BY <1>1
<1>3. ASSUME NEW n \in 0..N, n < N, n \in S
      PROVE  n + 1 \in S
  <2>1. /\ n + 1 \in 1..N /\ n + 1 \in 0..N /\ (n + 1) - 1 = n
        /\ AtMost(more, n) = AtMost(ok, n) + (IF i <= n THEN 1 ELSE 0)
    BY <1>3
  <2>2. /\ AtMost(more, n + 1) = AtMost(more, n) + more[n + 1]
        /\ AtMost(ok, n + 1) = AtMost(ok, n) + ok[n + 1]
        /\ AtMost(ok, n) \in Nat /\ ok[n + 1] \in Nat
    BY <1>0, <1>1, <2>1
  <2>3. more[n + 1] = IF n + 1 = i THEN ok[n + 1] + 1 ELSE ok[n + 1]
    BY <1>0, <2>1
  <2>4. AtMost(more, n + 1) = AtMost(ok, n + 1) + (IF i <= n + 1 THEN 1 ELSE 0)
    BY <2>1, <2>2, <2>3
  <2>5. QED
    BY <2>1, <2>4
<1> HIDE DEF S
<1>4. \A n \in 0..N : n \in S
  BY <1>2, <1>3, NumbersUpTo
<1>5. QED
  BY <1>0, <1>4 DEF S, more
----
\* A tally has as many at or before a class as at or before any earlier one, and at least
\* those of the class.
LEMMA AtMostGrows ==
    ASSUME NEW N \in Nat, NEW tally \in Counts(N)
    PROVE  /\ \A k, l \in 0..N : k <= l => AtMost(tally, k) <= AtMost(tally, l)
           /\ \A l \in 1..N : tally[l] <= AtMost(tally, N)
<1>1. /\ \A l \in 0..N : AtMost(tally, l) \in Nat
      /\ \A l \in 1..N : AtMost(tally, l) = AtMost(tally, l - 1) + tally[l]
      /\ \A l \in 1..N : tally[l] \in Nat
  BY AtMostTyped DEF Counts
<1>2. ASSUME NEW k \in 0..N
      PROVE  \A l \in 0..N : k <= l => AtMost(tally, k) <= AtMost(tally, l)
  <2> DEFINE S == {l \in 0..N : k <= l => AtMost(tally, k) <= AtMost(tally, l)}
  <2>1. 0 \in S
    BY <1>1
  <2>2. ASSUME NEW n \in 0..N, n < N, n \in S
        PROVE  n + 1 \in S
    <3>1. n + 1 \in 1..N /\ n + 1 \in 0..N /\ (n + 1) - 1 = n
      BY <2>2
    <3>2. AtMost(tally, n + 1) = AtMost(tally, n) + tally[n + 1] /\ tally[n + 1] \in Nat
      BY <1>1, <3>1
    <3>3. k <= n + 1 => k = n + 1 \/ k <= n
      OBVIOUS
    <3>4. k <= n + 1 => AtMost(tally, k) <= AtMost(tally, n + 1)
      BY <1>1, <2>2, <3>1, <3>2, <3>3
    <3>5. QED
      BY <3>1, <3>4
  <2> HIDE DEF S
  <2>3. \A l \in 0..N : l \in S
    BY <2>1, <2>2, NumbersUpTo
  <2>4. QED
    BY <2>3 DEF S
<1>3. ASSUME NEW l \in 1..N
      PROVE  tally[l] <= AtMost(tally, N)
  <2>1. l \in 0..N /\ l - 1 \in 0..N /\ N \in 0..N /\ l <= N
    OBVIOUS
  <2>2. AtMost(tally, l) <= AtMost(tally, N)
    BY <1>2, <2>1
  <2>3. QED
    BY <1>1, <2>1, <2>2
<1>4. QED
  BY <1>2, <1>3

\* A rank within a tally falls on a class.
LEMMA RankFalls ==
    ASSUME NEW N \in Nat, NEW tally \in Counts(N), NEW r \in 1..AtMost(tally, N)
    PROVE  \E k \in 1..N : AtMost(tally, k) >= r /\ AtMost(tally, k - 1) < r
<1> DEFINE Enough == {l \in 0..N : AtMost(tally, l) >= r}
<1>1. AtMost(tally, 0) = 0 /\ \A l \in 0..N : AtMost(tally, l) \in Nat
  BY AtMostTyped
<1>2. N \in Enough /\ Enough \subseteq Nat /\ r \in Nat /\ r >= 1
  BY <1>1
<1>3. PICK l \in Enough : \A m \in Enough : l <= m
  BY <1>2, LeastNumber
<1>4. l \in 0..N /\ AtMost(tally, l) >= r
  OBVIOUS
<1>5. l # 0
  BY <1>1, <1>2, <1>4
<1>6. l - 1 \in 0..N /\ l - 1 \notin Enough
  BY <1>3, <1>4, <1>5
<1>7. AtMost(tally, l - 1) < r
  BY <1>1, <1>2, <1>6
<1>8. QED
  BY <1>4, <1>5, <1>7
----
\* A quotient rounded up is enough and one less is not.
LEMMA CeilingBounds ==
    ASSUME NEW a \in Nat, NEW b \in Nat \ {0}
    PROVE  /\ Ceiling(a, b) \in Nat
           /\ Ceiling(a, b) * b >= a
           /\ (Ceiling(a, b) - 1) * b < a
<1>1. \A n \in Nat, d \in Nat \ {0} :
         n \div d \in Nat /\ (n \div d) * d <= n /\ n < (n \div d + 1) * d
  OBVIOUS
<1>2. a + b - 1 \in Nat
  OBVIOUS
<1>3. QED
  BY <1>1, <1>2 DEF Ceiling

\* A fleet that may be priced.
Fleet == [daily : Nat, peak : Nat \ {0}, service : Nat, batch : Nat \ {0}, cotenant : BOOLEAN]

LEMMA FleetTyped ==
    ASSUME NEW fleet \in Fleet
    PROVE  Load(fleet) \in Nat /\ EffectiveBatch(fleet) \in Nat \ {0}
BY DEF Fleet, Load, EffectiveBatch

\* The replicas of the middle and of the top of a fleet's band.
LEMMA BandTyped ==
    ASSUME NEW fleet \in Fleet
    PROVE  LET width == EffectiveBatch(fleet) * SECONDS_PER_DAY
           IN  /\ width \in Nat \ {0}
               /\ Baseline(fleet) \in Nat /\ Baseline(fleet) >= 1
               /\ AtPeak(fleet) \in Nat /\ AtPeak(fleet) >= Baseline(fleet)
               /\ Baseline(fleet) * width >= Load(fleet)
               /\ AtPeak(fleet) * width >= fleet.peak * Load(fleet)
               /\ AtPeak(fleet) > 1 => (AtPeak(fleet) - 1) * width < fleet.peak * Load(fleet)
<1> DEFINE width == EffectiveBatch(fleet) * SECONDS_PER_DAY
           load == Load(fleet)
<1>1. /\ load \in Nat /\ fleet.peak \in Nat /\ fleet.peak >= 1
      /\ EffectiveBatch(fleet) \in Nat \ {0}
  BY FleetTyped DEF Fleet
<1>2. width \in Nat \ {0} /\ width = SECONDS_PER_DAY * EffectiveBatch(fleet)
  BY <1>1 DEF SECONDS_PER_DAY
<1>3. /\ Baseline(fleet) = IF Ceiling(load, width) < 1 THEN 1 ELSE Ceiling(load, width)
      /\ AtPeak(fleet) = IF Ceiling(fleet.peak * load, width) < Baseline(fleet)
                          THEN Baseline(fleet) ELSE Ceiling(fleet.peak * load, width)
  BY <1>2 DEF Baseline, AtPeak, ReplicasFor
<1>4. fleet.peak * load \in Nat /\ fleet.peak * load >= load
  BY <1>1
<1> HIDE DEF width, load
<1>5. /\ Ceiling(load, width) \in Nat /\ Ceiling(load, width) * width >= load
      /\ (Ceiling(load, width) - 1) * width < load
  BY <1>1, <1>2, CeilingBounds
<1>6. /\ Ceiling(fleet.peak * load, width) \in Nat
      /\ Ceiling(fleet.peak * load, width) * width >= fleet.peak * load
      /\ (Ceiling(fleet.peak * load, width) - 1) * width < fleet.peak * load
  BY <1>2, <1>4, CeilingBounds
<1>7. /\ Baseline(fleet) \in Nat /\ Baseline(fleet) >= 1 /\ Baseline(fleet) >= Ceiling(load, width)
      /\ Baseline(fleet) = 1 \/ Baseline(fleet) = Ceiling(load, width)
  BY <1>3, <1>5
<1>8. /\ AtPeak(fleet) \in Nat /\ AtPeak(fleet) >= Baseline(fleet)
      /\ AtPeak(fleet) >= Ceiling(fleet.peak * load, width)
      /\ AtPeak(fleet) = Baseline(fleet) \/ AtPeak(fleet) = Ceiling(fleet.peak * load, width)
  BY <1>3, <1>6, <1>7
<1>9. \A a, b \in Nat : a <= b => a * width <= b * width
  BY <1>2
<1>10. Baseline(fleet) * width >= load
  BY <1>1, <1>2, <1>5, <1>7, <1>9
<1>11. AtPeak(fleet) * width >= fleet.peak * load
  BY <1>1, <1>2, <1>4, <1>6, <1>8, <1>9
<1>12. AtPeak(fleet) > 1 => (AtPeak(fleet) - 1) * width < fleet.peak * load
  BY <1>1, <1>2, <1>4, <1>5, <1>6, <1>7, <1>8
<1>13. QED
  BY <1>2, <1>7, <1>8, <1>10, <1>11, <1>12 DEF width, load

\* Every fleet's band brackets its cost (cost.py:269-279).
THEOREM BandsBracket == \A fleet \in Fleet : BandBrackets(fleet)
<1> SUFFICES ASSUME NEW fleet \in Fleet
             PROVE  BandBrackets(fleet)
  OBVIOUS
<1> DEFINE width == EffectiveBatch(fleet) * SECONDS_PER_DAY
<1>1. PooledMid(fleet) <= PooledHigh(fleet)
  BY BandTyped DEF PooledMid, PooledHigh, ReplicaDay, GPU_CENTS_PER_HOUR
<1>2. PooledLow(fleet) <= PooledMid(fleet)
  <2>1. /\ EffectiveBatch(fleet) \in Nat \ {0} /\ Load(fleet) \in Nat /\ Baseline(fleet) \in Nat
        /\ Load(fleet) <= Baseline(fleet) * (EffectiveBatch(fleet) * 86400)
    BY FleetTyped, BandTyped DEF SECONDS_PER_DAY
  <2>2. PooledLow(fleet) = Load(fleet) \div (45 * EffectiveBatch(fleet))
    BY DEF PooledLow, SECONDS_PER_DAY, ReplicaDay, GPU_CENTS_PER_HOUR
  <2>3. \A n \in Nat, d \in Nat \ {0} : n \div d \in Nat /\ (n \div d) * d <= n
    OBVIOUS
  <2>4. PooledLow(fleet) \in Nat /\ PooledLow(fleet) * (45 * EffectiveBatch(fleet)) <= Load(fleet)
    BY <2>1, <2>2, <2>3
  <2>5. \A low, base \in Nat, e \in Nat \ {0} :
           low * (45 * e) <= base * (e * 86400) => low <= base * 1920
    <3> SUFFICES ASSUME NEW low \in Nat, NEW base \in Nat, NEW e \in Nat \ {0},
                        low * (45 * e) <= base * (e * 86400), low > base * 1920
                 PROVE  FALSE
      OBVIOUS
    <3>1. (45 * low) * e <= (86400 * base) * e
      OBVIOUS
    <3>2. \A x, y \in Nat : x > y => x * e > y * e
      OBVIOUS
    <3>3. 45 * low > 86400 * base
      OBVIOUS
    <3>4. QED
      BY <3>1, <3>2, <3>3
  <2>6. PooledMid(fleet) = Baseline(fleet) * 1920
    BY DEF PooledMid, ReplicaDay, GPU_CENTS_PER_HOUR
  <2>7. QED
    BY <2>1, <2>4, <2>5, <2>6
<1>3. QED
  BY <1>1, <1>2, BandTyped DEF BandBrackets, Project

\* The exposure to cold starts does not grow with the traffic (cost.py:282-303).
THEOREM ExposureIsFlat == \A fleet \in Fleet : ExposureFlat(fleet)
<1> SUFFICES ASSUME NEW fleet \in Fleet
             PROVE  ExposureFlat(fleet)
  OBVIOUS
<1> DEFINE top == AtPeak(fleet)
           ups == AtPeak(fleet) - Baseline(fleet)
           exposed == (ups * 120 * fleet.peak * 100) \div (top * 864)
<1>1. /\ fleet.peak \in Nat /\ top \in Nat \ {0} /\ ups \in Nat /\ ups <= top
  BY BandTyped DEF Fleet
<1>2. RampupExposure(fleet) = IF ups = 0 \/ fleet.daily = 0 THEN 0
                              ELSE IF exposed > 10000 THEN 10000 ELSE exposed
  BY DEF RampupExposure, AUTOSCALER_LAG_SEC, MEASURED_COLD_BOOT_SEC, SECONDS_PER_DAY
<1> HIDE DEF top, ups
<1>3. exposed \in Nat /\ exposed * (top * 864) <= ups * 120 * fleet.peak * 100
  <2>1. \A n \in Nat, d \in Nat \ {0} : n \div d \in Nat /\ (n \div d) * d <= n
    OBVIOUS
  <2>2. ups * 120 * fleet.peak * 100 \in Nat /\ top * 864 \in Nat \ {0}
    BY <1>1
  <2>3. QED
    BY <2>1, <2>2
<1> HIDE DEF exposed
<1>4. exposed * 864 <= 12000 * fleet.peak
  <2>1. ups * fleet.peak <= top * fleet.peak
    BY <1>1
  <2>2. ups * 120 * fleet.peak * 100 = 12000 * (ups * fleet.peak)
    BY <1>1
  <2> DEFINE x == exposed * 864
             y == 12000 * fleet.peak
  <2>3. x * top <= y * top /\ x \in Nat /\ y \in Nat
    BY <1>1, <1>3, <2>1, <2>2
  <2> HIDE DEF x, y
  <2>4. x > y => x * top > y * top
    BY <1>1, <2>3
  <2>5. x <= y
    BY <1>1, <2>3, <2>4
  <2>6. QED
    BY <2>5 DEF x, y
<1>5. RampupExposure(fleet) \in Nat /\ RampupExposure(fleet) * 864 <= 12000 * fleet.peak
  BY <1>1, <1>2, <1>3, <1>4
<1>6. QED
  BY <1>1, <1>5 DEF ExposureFlat, AUTOSCALER_LAG_SEC, MEASURED_COLD_BOOT_SEC, SECONDS_PER_DAY

\* A narrower batch is never priced lower.
LEMMA NarrowerIsDearer ==
    ASSUME NEW wide \in Fleet, NEW narrow \in Fleet, wide.cotenant, narrow.cotenant,
           wide.daily = narrow.daily, wide.service = narrow.service,
           wide.peak = narrow.peak, wide.batch >= narrow.batch
    PROVE  PooledLow(wide) <= PooledLow(narrow) /\ PooledHigh(wide) <= PooledHigh(narrow)
<1>1. /\ EffectiveBatch(wide) = wide.batch /\ EffectiveBatch(narrow) = narrow.batch
      /\ wide.batch \in Nat \ {0} /\ narrow.batch \in Nat \ {0} /\ narrow.peak \in Nat \ {0}
  BY DEF EffectiveBatch, Fleet
<1>2. Load(wide) = Load(narrow) /\ Load(narrow) \in Nat
  BY FleetTyped DEF Load
<1> DEFINE load == Load(narrow)
<1>3. PooledLow(wide) <= PooledLow(narrow)
  <2>1. /\ PooledLow(wide) = load \div (45 * wide.batch)
        /\ PooledLow(narrow) = load \div (45 * narrow.batch)
    BY <1>1, <1>2 DEF PooledLow, SECONDS_PER_DAY, ReplicaDay, GPU_CENTS_PER_HOUR
  <2>2. \A n \in Nat, c, d \in Nat \ {0} : c >= d => n \div c <= n \div d
    <3> SUFFICES ASSUME NEW n \in Nat, NEW c \in Nat \ {0}, NEW d \in Nat \ {0}, c >= d
                 PROVE  n \div c <= n \div d
      OBVIOUS
    <3>1. /\ n \div c \in Nat /\ (n \div c) * c <= n
          /\ n \div d \in Nat /\ n < (n \div d + 1) * d
      OBVIOUS
    <3>2. \A x, y \in Nat : x >= y + 1 => x * c >= (y + 1) * d
      OBVIOUS
    <3>3. QED
      BY <3>1, <3>2
  <2>3. 45 * wide.batch \in Nat \ {0} /\ 45 * narrow.batch \in Nat \ {0}
        /\ 45 * wide.batch >= 45 * narrow.batch
    BY <1>1
  <2>4. QED
    BY <1>2, <2>1, <2>2, <2>3
<1>4. ASSUME NEW a \in Nat
      PROVE  ReplicasFor(a, wide.batch) <= ReplicasFor(a, narrow.batch)
  <2> DEFINE c == SECONDS_PER_DAY * wide.batch
             d == SECONDS_PER_DAY * narrow.batch
  <2>1. c \in Nat \ {0} /\ d \in Nat \ {0} /\ c >= d
    BY <1>1 DEF SECONDS_PER_DAY
  <2> HIDE DEF c, d
  <2>2. /\ Ceiling(a, c) \in Nat /\ (Ceiling(a, c) - 1) * c < a
        /\ Ceiling(a, d) \in Nat /\ Ceiling(a, d) * d >= a
    BY <2>1, CeilingBounds
  <2>3. \A x, y \in Nat : x >= y + 1 => (x - 1) * c >= y * d
    BY <2>1
  <2>4. Ceiling(a, c) <= Ceiling(a, d)
    <3> SUFFICES ASSUME Ceiling(a, c) >= Ceiling(a, d) + 1
                 PROVE  FALSE
      BY <2>2
    <3>1. (Ceiling(a, c) - 1) * c >= Ceiling(a, d) * d
      BY <2>2, <2>3
    <3>2. QED
      BY <2>1, <2>2, <3>1
  <2>5. QED
    BY <2>4 DEF c, d, ReplicasFor
<1>5. /\ ReplicasFor(load, wide.batch) <= ReplicasFor(load, narrow.batch)
      /\ ReplicasFor(narrow.peak * load, wide.batch)
            <= ReplicasFor(narrow.peak * load, narrow.batch)
  BY <1>1, <1>2, <1>4
<1>6. \A a \in Nat : ReplicasFor(a, wide.batch) \in Nat /\ ReplicasFor(a, narrow.batch) \in Nat
  <2>1. SECONDS_PER_DAY * wide.batch \in Nat \ {0} /\ SECONDS_PER_DAY * narrow.batch \in Nat \ {0}
    BY <1>1 DEF SECONDS_PER_DAY
  <2>2. QED
    BY <2>1, CeilingBounds DEF ReplicasFor
<1>7. load \in Nat /\ narrow.peak * load \in Nat
  BY <1>1, <1>2
<1>8. Baseline(wide) <= Baseline(narrow) /\ Baseline(wide) \in Nat /\ Baseline(narrow) \in Nat
  BY <1>1, <1>2, <1>5, <1>6, <1>7 DEF Baseline
<1>9. AtPeak(wide) <= AtPeak(narrow) /\ AtPeak(wide) \in Nat /\ AtPeak(narrow) \in Nat
  BY <1>1, <1>2, <1>5, <1>6, <1>7, <1>8 DEF AtPeak
<1>10. PooledHigh(wide) <= PooledHigh(narrow)
  BY <1>9 DEF PooledHigh, ReplicaDay, GPU_CENTS_PER_HOUR
<1>11. QED
  BY <1>3, <1>10

\* A cost configuration.
CostSettings == [cents_per_hour : Nat, boot : Nat, idle : Nat, requests_per_window : Nat \ {0}]

LEMMA RoundedBounds ==
    ASSUME NEW a \in Nat, NEW b \in Nat \ {0}
    PROVE  Rounded(a, b) \in Nat /\ 2 * b * Rounded(a, b) + b > 2 * a
<1>1. \A n \in Nat, d \in Nat \ {0} : n \div d \in Nat /\ n < (n \div d + 1) * d
  OBVIOUS
<1>2. 2 * a + b \in Nat /\ 2 * b \in Nat \ {0}
  OBVIOUS
<1>3. Rounded(a, b) \in Nat /\ 2 * a + b < (Rounded(a, b) + 1) * (2 * b)
  BY <1>1, <1>2 DEF Rounded
<1>4. QED
  BY <1>3

\* A window of requests at the headline cost pays for its boot, its idle time and
\* every warm call of it (cost.py:84-93).
THEOREM HeadlinePays ==
    ASSUME NEW config \in CostSettings, NEW latency \in Nat
    PROVE  LET cost == SelfHostedCost([latency |-> latency, cold |-> FALSE], config)
               window == config.requests_per_window
           IN  /\ cost \in [active : Nat, amortized : Nat]
               /\ 360 * window * (Headline(cost) + 1)
                    >= config.cents_per_hour * (config.boot + config.idle + window * latency)
<1> DEFINE cost == SelfHostedCost([latency |-> latency, cold |-> FALSE], config)
           w == config.requests_per_window
           c == config.cents_per_hour
           fixed == config.boot + config.idle
<1>1. w \in Nat \ {0} /\ c \in Nat /\ fixed \in Nat
  BY DEF CostSettings
<1>2. cost = [active |-> Rounded(c * latency, 360), amortized |-> Rounded(c * fixed, 360 * w)]
  BY DEF SelfHostedCost
<1> HIDE DEF cost, w, c, fixed
<1>3. c * latency \in Nat /\ c * fixed \in Nat /\ 360 * w \in Nat \ {0}
  BY <1>1
<1>4. /\ cost.active \in Nat /\ 720 * cost.active + 360 > 2 * (c * latency)
      /\ cost.amortized \in Nat
      /\ 2 * (360 * w) * cost.amortized + 360 * w > 2 * (c * fixed)
  <2>1. cost.active = Rounded(c * latency, 360) /\ cost.amortized = Rounded(c * fixed, 360 * w)
    BY <1>2
  <2>2. /\ Rounded(c * latency, 360) \in Nat
        /\ 2 * 360 * Rounded(c * latency, 360) + 360 > 2 * (c * latency)
    BY <1>3, RoundedBounds
  <2>3. /\ Rounded(c * fixed, 360 * w) \in Nat
        /\ 2 * (360 * w) * Rounded(c * fixed, 360 * w) + 360 * w > 2 * (c * fixed)
    <3> DEFINE a == c * fixed
               b == 360 * w
    <3>1. a \in Nat /\ b \in Nat \ {0}
      BY <1>3
    <3> HIDE DEF a, b
    <3>2. Rounded(a, b) \in Nat /\ 2 * b * Rounded(a, b) + b > 2 * a
      BY <3>1, RoundedBounds
    <3>3. QED
      BY <3>2 DEF a, b
  <2>4. QED
    BY <2>1, <2>2, <2>3
<1>5. w * (720 * cost.active + 360) >= w * (2 * (c * latency))
  BY <1>1, <1>3, <1>4
<1>6. /\ w * (720 * cost.active + 360) = 720 * (w * cost.active) + 360 * w
      /\ w * (2 * (c * latency)) = 2 * (c * (w * latency))
      /\ 2 * (360 * w) * cost.amortized = 720 * (w * cost.amortized)
      /\ c * (fixed + w * latency) = c * fixed + c * (w * latency)
      /\ 360 * w * (cost.active + cost.amortized + 1)
            = 360 * (w * cost.active) + 360 * (w * cost.amortized) + 360 * w
  BY <1>1, <1>3, <1>4
<1>7. /\ w * cost.active \in Nat /\ w * cost.amortized \in Nat
      /\ c * (w * latency) \in Nat
  BY <1>1, <1>4
<1>8. 360 * w * (cost.active + cost.amortized + 1) >= c * (fixed + w * latency)
  BY <1>1, <1>3, <1>4, <1>5, <1>6, <1>7
<1>9. cost \in [active : Nat, amortized : Nat]
  BY <1>2, <1>4
<1>10. QED
  BY <1>8, <1>9 DEF cost, w, c, fixed, Headline
----
\* The inclusion decision of the assembly (authorization.py:38-50, assembly.py:52-55)
\* and the release gate's own account of authorization (privacy_asserts.py:34-38)
\* agree on every item.
THEOREM VerdictIsAuthorized ==
    \A item, member, task, now :
        Verdict(item, member, task, now) = Allowed
            <=> Authorized(item, member, task, now)
BY DEF Verdict, Authorized, MemberSees, Allowed

\* Every decision names one of the reasons the audit record knows.
LEMMA VerdictTyped ==
    \A item, member, task, now : Verdict(item, member, task, now) \in Reasons
BY DEF Verdict, MemberSees, Reasons, Allowed

\* Of every candidate, included or not, the assembly leaves one reference.
LEMMA AssembleTyped ==
    ASSUME NEW Items, NEW candidates \in [Items -> ContextItem],
           NEW member, NEW task, NEW now
    PROVE  Assemble(candidates, member, task, now) \in [Items -> ContextRef]
<1>1. \A i \in Items : candidates[i].sensitivity \in Sensitivity
  BY DEF ContextItem
<1>2. QED
  BY <1>1, VerdictTyped DEF Assemble, ContextRef

\* What an assembly includes are exactly the authorized candidates: there is
\* nothing for the gate's check of the prompt to find, and nothing a member may
\* see is withheld.
THEOREM AssembledIsAuthorized ==
    ASSUME NEW candidates, NEW member, NEW task, NEW now
    PROVE  LET refs == Assemble(candidates, member, task, now)
           IN  /\ Included(refs) = {i \in DOMAIN candidates :
                                       Authorized(candidates[i], member, task, now)}
               /\ Admitted(candidates, refs, member, task, now) = {}
               /\ \A text \in SUBSET Included(refs) :
                     Surfaced(candidates, text, member, task, now) = {}
<1> DEFINE refs == Assemble(candidates, member, task, now)
<1>1. /\ DOMAIN refs = DOMAIN candidates
      /\ \A i \in DOMAIN candidates :
            refs[i].included <=> Verdict(candidates[i], member, task, now) = Allowed
  BY DEF Assemble
<1> HIDE DEF refs
<1>2. \A i \in DOMAIN candidates :
         refs[i].included <=> Authorized(candidates[i], member, task, now)
  BY <1>1, VerdictIsAuthorized
<1>3. Included(refs) = {i \in DOMAIN candidates :
                           Authorized(candidates[i], member, task, now)}
  BY <1>1, <1>2 DEF Included
<1>4. Admitted(candidates, refs, member, task, now) = {}
  BY <1>1, <1>2 DEF Admitted
<1>5. ASSUME NEW text \in SUBSET Included(refs)
      PROVE  Surfaced(candidates, text, member, task, now) = {}
  BY <1>3 DEF Surfaced
<1>6. QED
  BY <1>3, <1>4, <1>5 DEF refs
----
\* A retention that has run out never comes back.
LEMMA ExpiryIsFinal ==
    ASSUME NEW item \in ContextItem, NEW now \in Nat, NEW later \in Nat,
           now <= later, Expired(item, now)
    PROVE  Expired(item, later)
<1>1. item.timestamp \in Nat /\ item.retention_policy.days \in Nat
  BY DEF ContextItem, RetentionPolicy
<1>2. Day * item.retention_policy.days \in Nat
  BY <1>1, DayAssumption
<1>3. Horizon(item) \in Nat
  BY <1>1, <1>2 DEF Horizon
<1>4. QED
  BY <1>3 DEF Expired

\* With the passing of time a member's view of a family only shrinks: an item
\* that is authorized later was authorized before.
THEOREM AuthorizationDecays ==
    ASSUME NEW item \in ContextItem, NEW member, NEW task,
           NEW now \in Nat, NEW later \in Nat, now <= later,
           Authorized(item, member, task, later)
    PROVE  Authorized(item, member, task, now)
BY ExpiryIsFinal DEF Authorized, MemberSees, Allowed
----
\* The four rungs and their places on the ladder.
LEMMA Rungs == /\ Len(Ladder) = 4
               /\ Rung("self_hosted") = 1 /\ Rung("hosted_fast") = 2
               /\ Rung("hosted_strong") = 3 /\ Rung("deterministic_fallback") = 4
               /\ \A route \in Routes : Rung(route) \in 1..4 /\ Ladder[Rung(route)] = route
<1>1. /\ Len(Ladder) = 4
      /\ Ladder[1] = "self_hosted" /\ Ladder[2] = "hosted_fast"
      /\ Ladder[3] = "hosted_strong" /\ Ladder[4] = "deterministic_fallback"
  BY DEF Ladder
<1>2. \A i \in 1..4 : i = 1 \/ i = 2 \/ i = 3 \/ i = 4
  OBVIOUS
<1>3. ASSUME NEW n \in 1..4
      PROVE  Rung(Ladder[n]) = n
  <2>1. \A i \in 1..4 : Ladder[i] = Ladder[n] => i = n
    BY <1>1, <1>2
  <2>2. \E i \in 1..Len(Ladder) : Ladder[i] = Ladder[n]
    BY <1>1
  <2>3. QED
    BY <1>1, <2>1, <2>2 DEF Rung
<1>4. /\ Rung(Ladder[1]) = 1 /\ Rung(Ladder[2]) = 2 /\ Rung(Ladder[3]) = 3
      /\ Rung(Ladder[4]) = 4
  BY <1>3
<1>5. QED
  BY <1>1, <1>4 DEF Routes

\* The next route is one rung down, until the floor, which is its own next.
LEMMA NextRouteDescends ==
    ASSUME NEW route \in Routes
    PROVE  /\ NextRoute(route) \in Routes
           /\ NextRoute(route) = route <=> route = "deterministic_fallback"
           /\ route # "deterministic_fallback" =>
                 Rung(NextRoute(route)) = Rung(route) + 1
<1>1. \A i \in 1..4 : i = 1 \/ i = 2 \/ i = 3 \/ i = 4
  OBVIOUS
<1>2. /\ Ladder[1] = "self_hosted" /\ Ladder[2] = "hosted_fast"
      /\ Ladder[3] = "hosted_strong" /\ Ladder[4] = "deterministic_fallback"
  BY DEF Ladder
<1>3. \E i \in 1..Len(Ladder) : Ladder[i] = route
  BY Rungs
<1>4. NextRoute(route) = IF Rung(route) < 4 THEN Ladder[Rung(route) + 1] ELSE Ladder[4]
  BY <1>3, Rungs DEF NextRoute
<1>5. CASE route = "self_hosted"
  <2>1. NextRoute(route) = "hosted_fast"
    BY <1>2, <1>4, <1>5, Rungs
  <2>2. QED
    BY <1>5, <2>1, Rungs DEF Routes
<1>6. CASE route = "hosted_fast"
  <2>1. NextRoute(route) = "hosted_strong"
    BY <1>2, <1>4, <1>6, Rungs
  <2>2. QED
    BY <1>6, <2>1, Rungs DEF Routes
<1>7. CASE route = "hosted_strong"
  <2>1. NextRoute(route) = "deterministic_fallback"
    BY <1>2, <1>4, <1>7, Rungs
  <2>2. QED
    BY <1>7, <2>1, Rungs DEF Routes
<1>8. CASE route = "deterministic_fallback"
  <2>1. NextRoute(route) = "deterministic_fallback"
    BY <1>2, <1>4, <1>8, Rungs
  <2>2. QED
    BY <1>8, <2>1, Rungs DEF Routes
<1>9. QED
  BY <1>5, <1>6, <1>7, <1>8 DEF Routes

\* The router decides for a rung of the ladder.
LEMMA DecisionTyped ==
    \A req, refs, health : DecideRoute(req, refs, health) \in Routes
BY DEF DecideRoute, Routes

\* The routes that may answer a hard request.
StrongRoutes == {"hosted_strong", "deterministic_fallback"}

\* A hard request starts at the strongest model or at the template, whatever the
\* health of the self-hosted model (router.py:31-34, 47-48).
THEOREM HardIsDecidedStrong ==
    \A req, refs, health :
        Hard(req, refs) => DecideRoute(req, refs, health) \in StrongRoutes
BY DEF DecideRoute, ClassifyDifficulty, StrongRoutes

\* From the strongest model the ladder leads to the template and nowhere else.
LEMMA StrongStaysStrong ==
    \A route \in StrongRoutes : NextRoute(route) \in StrongRoutes
<1>1. /\ NextRoute("hosted_strong") \in Routes
      /\ Rung(NextRoute("hosted_strong")) = 4
  BY NextRouteDescends, Rungs DEF Routes
<1>2. NextRoute("hosted_strong") = "deterministic_fallback"
  BY <1>1, Rungs DEF Routes
<1>3. NextRoute("deterministic_fallback") = "deterministic_fallback"
  BY NextRouteDescends DEF Routes
<1>4. QED
  BY <1>2, <1>3 DEF StrongRoutes
=============================================================================
