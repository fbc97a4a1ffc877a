------------------------------ MODULE ReportProofs ------------------------------
(***************************************************************************)
(* Proofs about the context size report, for any sizes and any number of   *)
(* records, with the gateway appending while it reads.                     *)
(***************************************************************************)
EXTENDS ContextReport, OperatorProofs

\* The sizes are numbers, one for each place.
LEMMA SizesTyped == Len(Sizes) \in Nat /\ \A i \in Places : Sizes[i] \in Nat
BY ReportAssumption DEF Places

\* The rank of a percentile is the least that holds its share.
LEMMA RankHolds ==
    ASSUME NEW q \in Quantiles, NEW n \in Nat \ {0}
    PROVE  Rank(q, n) \in 1..n /\ 100 * Rank(q, n) >= q * n /\ 100 * (Rank(q, n) - 1) < q * n
<1> DEFINE x == q * n
           rank == Ceiling(x, 100)
<1>1. x \in Nat /\ x > 0 /\ x <= 100 * n
  BY DEF Quantiles
<1> HIDE DEF x
<1>2. rank \in Nat /\ rank * 100 >= x /\ (rank - 1) * 100 < x
  BY <1>1, CeilingBounds
<1>3. Rank(q, n) = IF rank < 1 THEN 1 ELSE IF rank > n THEN n ELSE rank
  BY DEF Rank, x
<1> HIDE DEF rank
<1>4. rank \in 1..n
  BY <1>1, <1>2
<1>5. Rank(q, n) = rank
  BY <1>3, <1>4
<1>6. QED
  BY <1>2, <1>4, <1>5 DEF x

\* A higher percentile has no lower rank.
LEMMA RanksAscend ==
    ASSUME NEW p \in Quantiles, NEW q \in Quantiles, p < q, NEW n \in Nat \ {0}
    PROVE  Rank(p, n) <= Rank(q, n)
<1> DEFINE x == p * n
           y == q * n
<1>1. x \in Nat /\ y \in Nat /\ x <= y
  BY DEF Quantiles
<1>2. /\ Rank(p, n) \in Nat /\ 100 * (Rank(p, n) - 1) < x
      /\ Rank(q, n) \in Nat /\ 100 * Rank(q, n) >= y
  BY RankHolds
<1> HIDE DEF x, y
<1>3. QED
  BY <1>1, <1>2

\* The place of a percentile: where its rank falls.
PlaceOf(counts, q) ==
    CHOOSE i \in Places : /\ AtMost(counts, i) >= Rank(q, Total(counts))
                          /\ AtMost(counts, i - 1) < Rank(q, Total(counts))

LEMMA PlaceFound ==
    ASSUME NEW counts \in Counts(Len(Sizes)), Total(counts) > 0, NEW q \in Quantiles
    PROVE  /\ PlaceOf(counts, q) \in Places
           /\ AtMost(counts, PlaceOf(counts, q)) >= Rank(q, Total(counts))
           /\ AtMost(counts, PlaceOf(counts, q) - 1) < Rank(q, Total(counts))
           /\ Percentile(counts, q) = Sizes[PlaceOf(counts, q)]
<1>1. Total(counts) \in Nat \ {0} /\ Total(counts) = AtMost(counts, Len(Sizes))
  BY SizesTyped, AtMostTyped DEF Total
<1>2. Rank(q, Total(counts)) \in 1..AtMost(counts, Len(Sizes))
  BY <1>1, RankHolds
<1>3. \E i \in Places : /\ AtMost(counts, i) >= Rank(q, Total(counts))
                        /\ AtMost(counts, i - 1) < Rank(q, Total(counts))
  BY <1>2, SizesTyped, RankFalls DEF Places
<1>4. /\ PlaceOf(counts, q) \in Places
      /\ AtMost(counts, PlaceOf(counts, q)) >= Rank(q, Total(counts))
      /\ AtMost(counts, PlaceOf(counts, q) - 1) < Rank(q, Total(counts))
  BY <1>3 DEF PlaceOf
<1>5. Percentile(counts, q) = Sizes[PlaceOf(counts, q)]
  BY DEF Percentile, PlaceOf
<1>6. QED
  BY <1>4, <1>5

\* What the report prints as p<q> (context_dist.py:60-65): at least that share of the
\* records are no larger, and a smaller share is smaller.
THEOREM ReportedIsAQuantile ==
    \A counts \in Counts(Len(Sizes)), q \in Quantiles :
        Total(counts) > 0 => IsQuantile(counts, q, Percentile(counts, q))
<1> SUFFICES ASSUME NEW counts \in Counts(Len(Sizes)), NEW q \in Quantiles, Total(counts) > 0
             PROVE  IsQuantile(counts, q, Percentile(counts, q))
  OBVIOUS
<1> DEFINE n == Total(counts)
           r == Rank(q, n)
           x == q * n
           i == PlaceOf(counts, q)
<1>1. n \in Nat \ {0} /\ \A l \in 0..Len(Sizes) : AtMost(counts, l) \in Nat
  BY SizesTyped, AtMostTyped DEF Total
<1>2. x \in Nat
  BY <1>1 DEF Quantiles
<1>3. r \in Nat /\ 100 * r >= x /\ 100 * (r - 1) < x
  BY <1>1, RankHolds
<1>4. /\ i \in Places /\ AtMost(counts, i) >= r /\ AtMost(counts, i - 1) < r
      /\ Percentile(counts, q) = Sizes[i]
  BY PlaceFound
<1> HIDE DEF n, r, x, i
<1>5. AtMost(counts, i) \in Nat /\ AtMost(counts, i - 1) \in Nat
  BY <1>1, <1>4, SizesTyped DEF Places
<1>6. 100 * AtMost(counts, i) >= x /\ 100 * AtMost(counts, i - 1) < x
  BY <1>2, <1>3, <1>4, <1>5
<1>7. QED
  BY <1>4, <1>6 DEF IsQuantile, x, n

\* A higher percentile is no smaller.
LEMMA PercentilesAscend ==
    ASSUME NEW counts \in Counts(Len(Sizes)), Total(counts) > 0,
           NEW p \in Quantiles, NEW q \in Quantiles, p < q
    PROVE  /\ Percentile(counts, p) \in Nat /\ Percentile(counts, q) \in Nat
           /\ Percentile(counts, p) <= Percentile(counts, q)
<1> DEFINE i == PlaceOf(counts, p)
           j == PlaceOf(counts, q)
           low == Rank(p, Total(counts))
           high == Rank(q, Total(counts))
<1>0. Len(Sizes) \in Nat /\ Total(counts) \in Nat \ {0}
  BY SizesTyped, AtMostTyped DEF Total
<1>1. low <= high /\ low \in Nat /\ high \in Nat
  <2>1. \A n \in Nat \ {0} :
           /\ Rank(p, n) <= Rank(q, n)
           /\ Rank(p, n) \in Nat /\ Rank(q, n) \in Nat
    BY RanksAscend, RankHolds
  <2>2. QED
    BY <1>0, <2>1
<1>2. /\ i \in Places /\ j \in Places
      /\ AtMost(counts, i - 1) < low /\ AtMost(counts, j) >= high
      /\ Percentile(counts, p) = Sizes[i] /\ Percentile(counts, q) = Sizes[j]
  BY PlaceFound
<1> HIDE DEF i, j, low, high
<1>3. i - 1 \in 0..Len(Sizes) /\ j \in 0..Len(Sizes) /\ i \in Nat /\ j \in Nat
  BY <1>0, <1>2 DEF Places
<1>4. AtMost(counts, i - 1) \in Nat /\ AtMost(counts, j) \in Nat
  BY <1>0, <1>3, AtMostTyped
<1>5. j <= i - 1 => AtMost(counts, j) <= AtMost(counts, i - 1)
  BY <1>0, <1>3, AtMostGrows
<1>6. i <= j
  BY <1>1, <1>2, <1>3, <1>4, <1>5
<1>7. Sizes[i] \in Nat /\ Sizes[j] \in Nat /\ (i < j => Sizes[i] < Sizes[j])
  BY <1>2, SizesTyped, ReportAssumption DEF Places
<1>8. i = j => Sizes[i] = Sizes[j]
  OBVIOUS
<1>9. Sizes[i] <= Sizes[j]
  BY <1>3, <1>6, <1>7, <1>8
<1>10. QED
  BY <1>2, <1>7, <1>9

\* A longer context has no wider batch, and none wider than what was measured.
LEMMA RegimesNarrow ==
    /\ \A tokens \in Nat : RegimeBatch(tokens) \in Nat \ {0}
    /\ \A a, b \in Nat : a <= b => RegimeBatch(a) >= RegimeBatch(b)
BY DEF RegimeBatch

LEMMA RegimesMeasured ==
    \A tokens \in Nat : \A batch \in MeasuredAtMost(tokens) : RegimeBatch(tokens) <= batch
<1> SUFFICES ASSUME NEW tokens \in Nat, NEW batch \in MeasuredAtMost(tokens)
             PROVE  RegimeBatch(tokens) <= batch
  OBVIOUS
<1> DEFINE m == MeasuredBatchByContext
<1>1. /\ Len(m) = 6
      /\ m[1] = <<184, 16>> /\ m[2] = <<276, 4>> /\ m[3] = <<529, 4>>
      /\ m[4] = <<1035, 4>> /\ m[5] = <<1937, 2>> /\ m[6] = <<3367, 1>>
  BY DEF MeasuredBatchByContext
<1> HIDE DEF m
<1>2. PICK i \in 1..6 : m[i][1] <= tokens /\ batch = m[i][2]
  BY <1>1 DEF MeasuredAtMost, m
<1>3. i = 1 \/ i = 2 \/ i = 3 \/ i = 4 \/ i = 5 \/ i = 6
  OBVIOUS
<1>4. QED
  BY <1>1, <1>2, <1>3 DEF RegimeBatch

\* What is printed of whole records.
Honest(counts, n, rows) ==
    /\ n = Total(counts)
    /\ n > 0 =>
         \A q \in Quantiles :
            /\ IsQuantile(counts, q, rows[q].tokens)
            /\ \A batch \in MeasuredAtMost(rows[q].tokens) : rows[q].batch <= batch
            /\ \A p \in Quantiles : p < q => /\ rows[p].low <= rows[q].low
                                             /\ rows[p].high <= rows[q].high

LEMMA PrintedHonest ==
    ASSUME NEW counts \in Counts(Len(Sizes))
    PROVE  /\ Printed(counts).state \in {"empty", "printed"}
           /\ Printed(counts).n \in Nat
           /\ Honest(counts, Printed(counts).n, Printed(counts).rows)
<1>1. Total(counts) \in Nat
  BY SizesTyped, AtMostTyped DEF Total
<1>2. CASE Total(counts) = 0
  <2>1. Printed(counts).state = "empty" /\ Printed(counts).n = 0
    BY <1>2 DEF Printed, Nothing
  <2>2. QED
    BY <1>2, <2>1 DEF Honest
<1>3. CASE Total(counts) # 0
  <2> DEFINE rows == [q \in Quantiles |-> Row(counts, q)]
  <2>1. Total(counts) > 0
    BY <1>1, <1>3
  <2>2. /\ Printed(counts).state = "printed" /\ Printed(counts).n = Total(counts)
        /\ Printed(counts).rows = rows
    BY <1>3 DEF Printed
  <2>3. ASSUME NEW q \in Quantiles
        PROVE  /\ rows[q].tokens = Percentile(counts, q)
               /\ rows[q].batch = RegimeBatch(Percentile(counts, q))
               /\ rows[q].low = PooledLow(Basis(RegimeBatch(Percentile(counts, q))))
               /\ rows[q].high = PooledHigh(Basis(RegimeBatch(Percentile(counts, q))))
    BY Zenon DEF Row
  <2> HIDE DEF rows
  <2>4. ASSUME NEW q \in Quantiles
        PROVE  /\ IsQuantile(counts, q, rows[q].tokens)
               /\ \A batch \in MeasuredAtMost(rows[q].tokens) : rows[q].batch <= batch
    <3>1. IsQuantile(counts, q, Percentile(counts, q))
      BY <2>1, ReportedIsAQuantile
    <3>2. Percentile(counts, q) \in Nat
      BY <2>1, PlaceFound, SizesTyped
    <3>3. QED
      BY <2>3, <3>1, <3>2, RegimesMeasured
  <2>5. ASSUME NEW p \in Quantiles, NEW q \in Quantiles, p < q
        PROVE  rows[p].low <= rows[q].low /\ rows[p].high <= rows[q].high
    <3> DEFINE wide == RegimeBatch(Percentile(counts, p))
               narrow == RegimeBatch(Percentile(counts, q))
    <3>1. /\ Percentile(counts, p) \in Nat /\ Percentile(counts, q) \in Nat
          /\ Percentile(counts, p) <= Percentile(counts, q)
      BY <2>1, <2>5, PercentilesAscend
    <3>2. wide \in Nat \ {0} /\ narrow \in Nat \ {0} /\ wide >= narrow
      BY <3>1, RegimesNarrow
    <3>3. /\ rows[p].low = PooledLow(Basis(wide)) /\ rows[q].low = PooledLow(Basis(narrow))
          /\ rows[p].high = PooledHigh(Basis(wide)) /\ rows[q].high = PooledHigh(Basis(narrow))
      BY <2>3
    <3> HIDE DEF wide, narrow
    <3>4. TRUE \in BOOLEAN
      OBVIOUS
    <3>5. Basis(wide) \in Fleet /\ Basis(narrow) \in Fleet
      BY <3>2, <3>4 DEF Basis, Fleet
    <3>6. /\ Basis(wide).cotenant /\ Basis(narrow).cotenant
          /\ Basis(wide).daily = Basis(narrow).daily /\ Basis(wide).service = Basis(narrow).service
          /\ Basis(wide).peak = Basis(narrow).peak /\ Basis(wide).batch >= Basis(narrow).batch
      BY <3>2 DEF Basis
    <3>7. /\ PooledLow(Basis(wide)) <= PooledLow(Basis(narrow))
          /\ PooledHigh(Basis(wide)) <= PooledHigh(Basis(narrow))
      BY <3>5, <3>6, NarrowerIsDearer
    <3>8. QED
      BY <3>3, <3>7
  <2>6. QED
    BY <1>1, <2>2, <2>4, <2>5 DEF Honest
<1>4. QED
  BY <1>2, <1>3
----
\* A record more.
LEMMA OneMore ==
    ASSUME NEW counts \in Counts(Len(Sizes)), NEW i \in Places
    PROVE  With(counts, i) \in Counts(Len(Sizes)) /\ Total(With(counts, i)) = Total(counts) + 1
<1> DEFINE N == Len(Sizes)
           more == [counts EXCEPT ![i] = @ + 1]
<1>1. N \in Nat /\ i \in 1..N
  BY SizesTyped DEF Places
<1>2. /\ more \in Counts(N)
      /\ \A l \in 0..N : AtMost(more, l) = AtMost(counts, l) + (IF i <= l THEN 1 ELSE 0)
  BY <1>1, AtMostOneMore
<1>3. N \in 0..N /\ i <= N
  BY <1>1
<1> HIDE DEF more, N
<1>4. AtMost(more, N) = AtMost(counts, N) + 1
  BY <1>2, <1>3
<1>5. QED
  BY <1>2, <1>4 DEF Total, With, more, N

LEMMA ReportInductive == /\ Init => ReportInv
                         /\ ReportInv /\ [Next]_vars => ReportInv'
<1>0. /\ Len(Sizes) \in Nat /\ MaxRecords \in Nat /\ MaxOlder \in Nat
      /\ NoField \notin Places /\ NoLine \notin Places /\ NoField # NoLine
      /\ Places = 1..Len(Sizes) /\ Counts(Len(Sizes)) = [Places -> Nat]
  BY SizesTyped, ReportAssumption DEF Places, NoField, NoLine, Counts
<1>1. Init => ReportInv
  <2> SUFFICES ASSUME Init
               PROVE  ReportInv
    OBVIOUS
  <2>1. Total(records) = 0
    <3>1. \A l \in 0..Len(Sizes) : AtMost([k \in 1..Len(Sizes) |-> 0], l) = 0
      BY <1>0, AtMostNone
    <3>2. records = [k \in 1..Len(Sizes) |-> 0]
      BY <1>0 DEF Init
    <3>3. QED
      BY <1>0, <3>1, <3>2 DEF Total
  <2>2. report.state = "none" /\ report.n = 0
    BY DEF Init, Nothing
  <2>3. records \in [Places -> Nat] /\ older \in 0..MaxOlder /\ writing = NoLine
    BY DEF Init
  <2>4. QED
    BY <1>0, <2>1, <2>2, <2>3 DEF ReportInv
<1> SUFFICES ASSUME ReportInv, [Next]_vars
             PROVE  ReportInv'
  BY <1>1
<1>2. records \in Counts(Len(Sizes)) /\ Total(records) \in Nat
  BY <1>0, AtMostTyped DEF ReportInv, Total
<1>3. report' = Nothing => report'.state = "none" /\ report'.n = 0
  BY DEF Nothing
<1>4. ASSUME NEW kind \in Places \cup {NoField}, StartLine(kind)
      PROVE  ReportInv'
  <2>1. UNCHANGED <<records, older>> /\ writing' = kind /\ report' = Nothing
    BY <1>4 DEF StartLine
  <2>2. \/ kind \in Places /\ Total(records) < MaxRecords
        \/ kind = NoField /\ older < MaxOlder
    BY <1>4 DEF StartLine
  <2>3. Total(records)' = Total(records)
    BY <2>1 DEF Total
  <2>4. QED
    BY <1>0, <1>3, <2>1, <2>2, <2>3 DEF ReportInv
<1>5. CASE EndLine
  <2>1. writing' = NoLine /\ report' = Nothing
    BY <1>5 DEF EndLine
  <2>2. CASE writing = NoField
    <3>1. records' = records /\ older' = older + 1
      BY <1>5, <2>2 DEF EndLine
    <3>2. Total(records)' = Total(records)
      BY <3>1 DEF Total
    <3>3. QED
      BY <1>0, <1>3, <2>1, <2>2, <3>1, <3>2 DEF ReportInv
  <2>3. CASE writing \in Places
    <3>1. records' = With(records, writing) /\ older' = older
      BY <1>0, <1>5, <2>3 DEF EndLine
    <3>2. /\ With(records, writing) \in Counts(Len(Sizes))
          /\ Total(With(records, writing)) = Total(records) + 1
      BY <1>2, <2>3, OneMore
    <3>3. records' \in [Places -> Nat] /\ Total(records)' = Total(records) + 1
      BY <1>0, <3>1, <3>2 DEF Total
    <3>4. QED
      BY <1>0, <1>2, <1>3, <2>1, <2>3, <3>1, <3>3 DEF ReportInv
  <2>4. QED
    BY <1>5, <2>2, <2>3 DEF EndLine, ReportInv
<1>6. CASE Report
  <2>1. UNCHANGED <<records, older, writing>> /\ Total(records)' = Total(records)
    BY <1>6 DEF Report, Total
  <2>2. report'.state \in {"none", "raised", "empty", "printed"} /\ report'.n \in 0..MaxRecords
    <3>1. CASE report' = Printed(records)
      <4>1. /\ Printed(records).state \in {"empty", "printed"}
            /\ Honest(records, Printed(records).n, Printed(records).rows)
        BY <1>2, PrintedHonest
      <4>2. Printed(records).n = Total(records)
        BY <4>1 DEF Honest
      <4>3. QED
        BY <1>0, <1>2, <3>1, <4>1, <4>2 DEF ReportInv
    <3>2. CASE writing \in Places /\ report' = Printed(With(records, writing))
      <4> DEFINE more == With(records, writing)
      <4>1. more \in Counts(Len(Sizes)) /\ Total(more) = Total(records) + 1
        BY <1>2, <3>2, OneMore
      <4> HIDE DEF more
      <4>2. /\ Printed(more).state \in {"empty", "printed"}
            /\ Honest(more, Printed(more).n, Printed(more).rows)
        BY <4>1, PrintedHonest
      <4>3. Printed(more).n = Total(records) + 1
        BY <4>1, <4>2 DEF Honest
      <4>4. QED
        BY <1>0, <1>2, <3>2, <4>2, <4>3 DEF ReportInv, more
    <3>3. CASE report' = [Nothing EXCEPT !.state = "raised"]
      BY <1>0, <3>3 DEF Nothing
    <3>4. QED
      BY <1>6, <3>1, <3>2, <3>3 DEF Report
  <2>3. QED
    BY <2>1, <2>2 DEF ReportInv
<1>7. CASE UNCHANGED vars
  BY <1>7 DEF vars, ReportInv, Total
<1>8. QED
  BY <1>4, <1>5, <1>6, <1>7 DEF Next
----
\* The file never holds more records than were appended, and a report is of no more.
THEOREM ReportTypeCorrect == Spec => []TypeOK
<1>1. ASSUME ReportInv
      PROVE  TypeOK
  <2>1. Len(Sizes) \in Nat /\ MaxRecords \in Nat /\ records \in Counts(Len(Sizes))
    BY <1>1, SizesTyped, ReportAssumption DEF ReportInv, Counts, Places
  <2>2. \A i \in Places : records[i] \in 0..MaxRecords
    <3>1. \A i \in Places : records[i] <= Total(records) /\ records[i] \in Nat
      BY <2>1, AtMostGrows DEF Places, Total, Counts
    <3>2. Total(records) \in Nat /\ Total(records) <= MaxRecords
      BY <1>1, <2>1, AtMostTyped DEF Total, ReportInv
    <3>3. QED
      BY <2>1, <3>1, <3>2
  <2>3. records \in [Places -> 0..MaxRecords]
    BY <1>1, <2>2 DEF ReportInv
  <2>4. QED
    BY <1>1, <2>3 DEF ReportInv, TypeOK
<1>2. QED
  BY <1>1, ReportInductive, PTL DEF Spec

\* A report that is printed beside a writer is one of the records that were whole, at most
\* one more that was being written, and none of those without the field; its percentiles
\* are quantiles of them, a higher one is never priced lower, and none is priced at a
\* batch width beyond what was measured at a shorter context (context_dist.py:39-44,
\* 60-65, 81-100).
THEOREM ReportsAreHonest == Spec => ReportHonest
<1>1. ReportInv /\ [Next]_vars =>
         [report'.state \in {"empty", "printed"} =>
             \E counts \in {records} \cup {With(records, i) : i \in {writing} \cap Places} :
                Honest(counts, report'.n, report'.rows)]_vars
  <2> SUFFICES ASSUME ReportInv, Next, report'.state \in {"empty", "printed"}
               PROVE  \E counts \in {records} \cup {With(records, i) : i \in {writing} \cap Places} :
                         Honest(counts, report'.n, report'.rows)
    OBVIOUS
  <2>1. records \in Counts(Len(Sizes))
    BY DEF ReportInv, Counts, Places
  <2>2. CASE Report
    <3>1. CASE report' = Printed(records)
      <4>1. Honest(records, Printed(records).n, Printed(records).rows)
        BY <2>1, PrintedHonest
      <4>2. QED
        BY <3>1, <4>1
    <3>2. CASE writing \in Places /\ report' = Printed(With(records, writing))
      <4> DEFINE more == With(records, writing)
      <4>1. more \in Counts(Len(Sizes))
        BY <2>1, <3>2, OneMore
      <4>2. more \in {With(records, i) : i \in {writing} \cap Places} /\ report' = Printed(more)
        BY <3>2
      <4> HIDE DEF more
      <4>3. Honest(more, Printed(more).n, Printed(more).rows)
        BY <4>1, PrintedHonest
      <4>4. QED
        BY <4>2, <4>3
    <3>3. CASE report' = [Nothing EXCEPT !.state = "raised"]
      BY <3>3 DEF Nothing
    <3>4. QED
      BY <2>2, <3>1, <3>2, <3>3 DEF Report
  <2>3. CASE EndLine \/ \E kind \in Places \cup {NoField} : StartLine(kind)
    BY <2>3 DEF EndLine, StartLine, Nothing
  <2>4. QED
    BY <2>2, <2>3 DEF Next
<1>2. QED
  BY <1>1, ReportInductive, PTL DEF Spec, ReportHonest, Honest
=============================================================================
