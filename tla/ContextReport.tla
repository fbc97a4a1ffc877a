----------------------------- MODULE ContextReport -----------------------------
(***************************************************************************)
(* telemetry/context_dist.py: a report over the audit file of a gateway    *)
(* that may be appending to it.  It reads the file once, takes the nearest *)
(* rank percentiles of the context sizes and prices each at the batch      *)
(* width of its regime.  The order of the records does not matter to it,   *)
(* so the file is the number of records of each size, and its last line.   *)
(* A size is named by its place among the sizes.                           *)
(***************************************************************************)
EXTENDS FleetCost, Tally, Sequences

CONSTANTS Sizes,      \* the included_context_tokens of the records, in ascending order
          MaxRecords, \* bound on the records that have the field
          MaxOlder    \* and on those that do not

ASSUME ReportAssumption ==
    /\ Sizes \in Seq(Nat) /\ \A i, j \in 1..Len(Sizes) : i < j => Sizes[i] < Sizes[j]
    /\ MaxRecords \in Nat /\ MaxOlder \in Nat

Places == 1..Len(Sizes)

VARIABLES
    records,  \* the whole records of each size
    older,    \* the whole records that lack the field
    writing,  \* the place of the size in the line being appended, NoField or NoLine
    report    \* the report printed since the file last changed: how it ended, of
              \* how many records, and its rows

vars == <<records, older, writing, report>>

NoField == -1
NoLine == -2

Quantiles == {50, 90, 95, 99}
NoRows == [q \in Quantiles |-> [tokens |-> 0, batch |-> 0, low |-> 0, high |-> 0]]
Nothing == [state |-> "none", n |-> 0, rows |-> NoRows]

Init == /\ records = [i \in Places |-> 0]
        /\ older \in 0..MaxOlder
        /\ writing = NoLine
        /\ report = Nothing
----
Total(counts) == AtMost(counts, Len(Sizes))

\* Mutant: the rank is rounded down.
RankDown(q, n) == IF (q * n) \div 100 < 1 THEN 1 ELSE (q * n) \div 100

\* percentile: the nearest rank, from 1.
Rank(q, n) == LET rank == Ceiling(q * n, 100)
              IN  IF rank < 1 THEN 1 ELSE IF rank > n THEN n ELSE rank

Percentile(counts, q) ==
    LET rank == Rank(q, Total(counts))
    IN  Sizes[CHOOSE i \in Places : AtMost(counts, i) >= rank /\ AtMost(counts, i - 1) < rank]

\* regime_for: the batch width, by the first bound the tokens are below.
RegimeBatch(tokens) == IF tokens < 250 THEN 16
                       ELSE IF tokens < 1000 THEN 4
                       ELSE IF tokens < 3000 THEN 2 ELSE 1

\* _pooled_cost_band: a million families, four requests a day each, 0.93 s.
Basis(batch) == [daily |-> 4000, peak |-> 3, service |-> 930, batch |-> batch,
                 cotenant |-> TRUE]

Row(counts, q) ==
    LET tokens == Percentile(counts, q)
        fleet == Basis(RegimeBatch(tokens))
    IN  [tokens |-> tokens, batch |-> RegimeBatch(tokens),
         low |-> PooledLow(fleet), high |-> PooledHigh(fleet)]

\* run and _print_distribution over the sizes read_context_tokens returned.
Printed(counts) ==
    IF Total(counts) = 0 THEN [Nothing EXCEPT !.state = "empty"]
    ELSE [state |-> "printed", n |-> Total(counts), rows |-> [q \in Quantiles |-> Row(counts, q)]]
----
\* The gateway appends a record: its line is first there in part ...
StartLine(kind) == /\ writing = NoLine
                   /\ \/ kind \in Places /\ Total(records) < MaxRecords
                      \/ kind = NoField /\ older < MaxOlder
                   /\ writing' = kind
                   /\ report' = Nothing
                   /\ UNCHANGED <<records, older>>

With(counts, i) == [counts EXCEPT ![i] = @ + 1]

\* Mutant: the record is added again when its line ends.
EndLineAgain == /\ writing \in Places
                /\ records' = With(records, writing)
                /\ report' = Nothing
                /\ UNCHANGED <<older, writing>>

\* ... and then whole; if the gateway dies in between it stays as it is.
EndLine == /\ writing # NoLine
           /\ records' = IF writing = NoField THEN records ELSE With(records, writing)
           /\ older' = IF writing = NoField THEN older + 1 ELSE older
           /\ writing' = NoLine
           /\ report' = Nothing

\* run: one read of the file.  Of a line that is being written it finds nothing,
\* all but the end of line, or a part that json.loads raises on.
Report == /\ \/ report' = Printed(records)
             \/ writing \in Places /\ report' = Printed(With(records, writing))
             \/ writing # NoLine /\ report' = [Nothing EXCEPT !.state = "raised"]
          /\ UNCHANGED <<records, older, writing>>

Next == (\E kind \in Places \cup {NoField} : StartLine(kind)) \/ EndLine \/ Report

Spec == Init /\ [][Next]_vars
----
TypeOK == /\ records \in [Places -> 0..MaxRecords]
          /\ older \in 0..MaxOlder
          /\ writing \in Places \cup {NoField, NoLine}
          /\ report.state \in {"none", "raised", "empty", "printed"}
          /\ report.n \in 0..MaxRecords

\* The share of the counts at or below a size is at least q percent, and of those
\* below it less: what a reader takes p<q> to mean.
IsQuantile(counts, q, size) ==
    \E i \in Places : /\ size = Sizes[i]
                      /\ 100 * AtMost(counts, i) >= q * Total(counts)
                      /\ 100 * AtMost(counts, i - 1) < q * Total(counts)

\* The narrowest batch width measured at a context no longer than this one: what
\* serving it may count on at most.
MeasuredAtMost(tokens) ==
    {MeasuredBatchByContext[i][2] :
        i \in {j \in 1..Len(MeasuredBatchByContext) : MeasuredBatchByContext[j][1] <= tokens}}

\* A report that is printed is one of the records that were whole when the file
\* was read, at most one more that was being written, and none of those without
\* the field; its percentiles are quantiles of them, a higher one is never priced
\* lower, and none is priced at a batch width beyond what was measured at a
\* shorter context (context_dist.py:39-44, 60-65, 81-100).
ReportHonest ==
    [][report'.state \in {"empty", "printed"} =>
          \E counts \in {records} \cup {With(records, i) : i \in {writing} \cap Places} :
             /\ report'.n = Total(counts)
             /\ report'.n > 0 =>
                  \A q \in Quantiles :
                     LET row == report'.rows[q] IN
                     /\ IsQuantile(counts, q, row.tokens)
                     /\ \A batch \in MeasuredAtMost(row.tokens) : row.batch <= batch
                     /\ \A p \in Quantiles : p < q => /\ report'.rows[p].low <= row.low
                                                      /\ report'.rows[p].high <= row.high]_vars
----
\* What makes the type of the records hold: the line being written is of a record there
\* is room for.
ReportInv == /\ records \in [Places -> Nat] /\ Total(records) <= MaxRecords
             /\ writing \in Places \cup {NoField, NoLine}
             /\ writing \in Places => Total(records) < MaxRecords
             /\ older \in 0..MaxOlder /\ (writing = NoField => older < MaxOlder)
             /\ report.state \in {"none", "raised", "empty", "printed"}
             /\ report.n \in 0..MaxRecords
=============================================================================
