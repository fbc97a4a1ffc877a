------------------------------- MODULE LoadSweep -------------------------------
(***************************************************************************)
(* serving/loadtest.py: the closed-loop concurrency sweep.  Each level     *)
(* reads the preemption counter, keeps that many worker threads calling    *)
(* the endpoint until a deadline, waits for all of them, reads the counter *)
(* again and judges the level, while a poller thread of the level samples  *)
(* the KV gauge.  The ladder of levels is run once for each context size,  *)
(* and the widths reported of it come from its judged levels.  Time is in  *)
(* ticks from the start of a level.                                        *)
(***************************************************************************)
EXTENDS Tally, Sequences, FiniteSets

CONSTANTS Levels,         \* CONCURRENCY_LEVELS
          Duration,       \* how long a level holds its load
          CallTimeout,    \* the longest a call can last
          Slo,            \* INTERACTIVE_P95_SLO_MS
          Quantile,       \* 95
          Contexts,       \* how many context sizes are swept
          Replicas,       \* the replicas behind the endpoint
          ScrapesFail,    \* whether a read of /metrics may fail
          MaxPreemptions  \* bound on the preemptions of a sweep

ASSUME SweepAssumption ==
    /\ Levels \in Seq(Nat \ {0}) /\ Levels # <<>>
    /\ \A i \in 1..Len(Levels) - 1 : Levels[i] < Levels[i + 1]
    /\ Duration \in Nat \ {0} /\ CallTimeout \in Nat \ {0} /\ Slo \in Nat
    /\ Contexts \in Nat \ {0}
    /\ Quantile \in 1..100 /\ ScrapesFail \in BOOLEAN /\ MaxPreemptions \in Nat

VARIABLES
    phase,      \* warmup, exit, before, running, judged or done
    now,        \* ticks since the level began
    worker,     \* each worker of the level: ready, calling or done
    started,    \* when its current call began
    samples,    \* how many calls of the level took how long, how many of them
                \* came without a usage, and how many failed
    preempted,  \* the counter of each replica
    before,     \* its reading before the level
    poller,     \* the KV poller of the level: reading, or resting between reads
    peak,       \* the largest gauge it has read
    level,      \* the level just judged, until the next begins
    levels,     \* what the widths need of the judged levels of this context size
    curve,      \* what was made of those of the sizes before
    seen        \* for the properties: what really happened in this level

work == <<now, worker, started, samples>>
metrics == <<preempted, before, poller, peak>>
output == <<level, levels, curve>>
vars == <<phase, work, metrics, output, seen>>

Workers == 1..Levels[Len(Levels)]
Concurrency == Levels[Len(levels) + 1]
Nothing == [fired |-> 0, failed |-> 0, late |-> 0, blank |-> 0, hits |-> 0, usage |-> 0,
            blind |-> FALSE, lost |-> FALSE]
Samples == [ok : [1..CallTimeout -> Nat], blank : Nat, errors : Nat]
NoSamples == [ok |-> [l \in 1..CallTimeout |-> 0], blank |-> 0, errors |-> 0]
----
\* _percentile: the nearest rank over the sorted latencies; 0 of no latency.
Rank(n) == (Quantile * n + 99) \div 100

Completed(ok) == AtMost(ok, CallTimeout)

Percentile(ok) ==
    IF Completed(ok) = 0 THEN 0
    ELSE CHOOSE l \in 1..CallTimeout :
            /\ AtMost(ok, l) >= Rank(Completed(ok))
            /\ AtMost(ok, l - 1) < Rank(Completed(ok))

\* prompt_tokens_measured is a median; a completion without a usage counts 0 tokens,
\* so it is 0 when half of them or more have none.
Measured(sampled) == sampled.blank < (Completed(sampled.ok) + 1) \div 2

\* Mutant: one preemption is let through.
SummarizeLeniently(concurrency, sampled, delta, kv) ==
    LET meets == /\ Completed(sampled.ok) > 0
                 /\ Percentile(sampled.ok) < Slo
                 /\ sampled.errors = 0
        free == delta <= 1
    IN  [concurrency |-> concurrency, requests |-> Completed(sampled.ok) + sampled.errors,
         measured |-> Measured(sampled), kv_peak |-> kv,
         preemptions |-> delta, meets_slo |-> meets, preemption_free |-> free,
         sustainable |-> meets /\ free]

\* _summarize_level
Summarize(concurrency, sampled, delta, kv) ==
    LET meets == /\ Completed(sampled.ok) > 0
                 /\ Percentile(sampled.ok) < Slo
                 /\ sampled.errors = 0
        free == delta <= 0
    IN  [concurrency |-> concurrency, requests |-> Completed(sampled.ok) + sampled.errors,
         measured |-> Measured(sampled), kv_peak |-> kv,
         preemptions |-> delta, meets_slo |-> meets, preemption_free |-> free,
         sustainable |-> meets /\ free]

\* Mutant: the number of sustainable levels, wherever they are.
SustainableCount(judged) == Cardinality({i \in 1..Len(judged) : judged[i].sustainable})

\* _sustainable_width: up the levels until the first that is not sustainable.
SustainableWidth(judged) ==
    LET width[i \in 0..Len(judged)] ==
            IF i < Len(judged) /\ judged[i + 1].sustainable THEN width[i + 1]
            ELSE IF i = 0 THEN 0 ELSE judged[i].concurrency
    IN  width[0]

\* _max_slo_meeting_width
MaxSloMeetingWidth(judged) ==
    LET meeting == {judged[i].concurrency :
                      i \in {j \in 1..Len(judged) : judged[j].sustainable}}
    IN  IF meeting = {} THEN 0 ELSE CHOOSE c \in meeting : \A d \in meeting : d <= c

NoLevel == Summarize(0, NoSamples, 0, 0)

\* _curve_point: the size is what the first level's calls measured.
CurvePoint(judged) == [measured |-> judged[1].measured,
                       sustainable_batch |-> MaxSloMeetingWidth(judged),
                       strict_batch |-> SustainableWidth(judged)]

\* _fetch_metrics and _scan_metric: the counter of the replica that answers, or 0
\* of an empty text when the read fails.
Scrape(value, blind) ==
    \/ ~blind /\ \E p \in Replicas : value = preempted[p]
    \/ blind /\ ScrapesFail /\ value = 0
----
\* The KV gauge: the calls the replica is serving.
Usage == Cardinality({w \in Workers : worker[w] = "calling"})

Larger(a, b) == IF a < b THEN b ELSE a

Init == /\ phase = "warmup"
        /\ now = 0
        /\ worker = [w \in Workers |-> "done"]
        /\ started = [w \in Workers |-> 0]
        /\ samples = NoSamples
        /\ preempted = [p \in Replicas |-> 0]
        /\ before = 0
        /\ poller = "resting" /\ peak = 0
        /\ level = NoLevel
        /\ levels = <<>> /\ curve = <<>>
        /\ seen = Nothing

\* run_sweep: the first contact must work.
Warmup == /\ phase = "warmup"
          /\ \/ phase' = "before"
             \/ phase' = "exit"
          /\ UNCHANGED <<work, metrics, output, seen>>

\* Mutant: the poller of the level before is kept, with its peak.
StartLevelKeepingPeak ==
    /\ phase = "before"
    /\ \E value \in 0..MaxPreemptions, blind \in BOOLEAN :
          /\ Scrape(value, blind)
          /\ before' = value
          /\ seen' = [Nothing EXCEPT !.blind = blind]
    /\ phase' = "running"
    /\ now' = 0
    /\ worker' = [w \in Workers |-> IF w <= Concurrency THEN "ready" ELSE "done"]
    /\ samples' = NoSamples
    /\ poller' = "reading" /\ level' = NoLevel
    /\ UNCHANGED <<started, preempted, peak, levels, curve>>

\* _measure_level: read the counter, then start the poller and the level's workers.
StartLevel == /\ phase = "before"
              /\ \E value \in 0..MaxPreemptions, blind \in BOOLEAN :
                    /\ Scrape(value, blind)
                    /\ before' = value
                    /\ seen' = [Nothing EXCEPT !.blind = blind]
              /\ phase' = "running"
              /\ now' = 0
              /\ worker' = [w \in Workers |-> IF w <= Concurrency THEN "ready" ELSE "done"]
              /\ samples' = NoSamples
              /\ poller' = "reading" /\ peak' = 0 /\ level' = NoLevel
              /\ UNCHANGED <<started, preempted, levels, curve>>

\* _poll_kv: a read returns the gauge, or fails and counts as 0 ...
PollReads == /\ phase = "running" /\ poller = "reading"
             /\ \/ peak' = Larger(peak, Usage)
                \/ ScrapesFail /\ UNCHANGED peak
             /\ poller' = "resting"
             /\ UNCHANGED <<phase, work, preempted, before, output, seen>>

\* ... and half a second later it reads again.
PollAgain == /\ phase = "running" /\ poller = "resting"
             /\ poller' = "reading"
             /\ UNCHANGED <<phase, work, preempted, before, peak, output, seen>>

\* _worker_loop: one more call while the deadline has not passed ...
Fire(w) == /\ phase = "running" /\ worker[w] = "ready"
           /\ now < Duration
           /\ worker' = [worker EXCEPT ![w] = "calling"]
           /\ started' = [started EXCEPT ![w] = now]
           /\ seen' = [seen EXCEPT !.fired = @ + 1, !.usage = Larger(@, Usage + 1)]
           /\ UNCHANGED <<phase, now, samples, metrics, output>>

\* ... and out of the loop when it has.
Leave(w) == /\ phase = "running" /\ worker[w] = "ready"
            /\ now >= Duration
            /\ worker' = [worker EXCEPT ![w] = "done"]
            /\ UNCHANGED <<phase, now, started, samples, metrics, output, seen>>

Latency(w) == now - started[w]

\* _fire_one: the completion, with a usage or without, whose latency is kept ...
CallReturns(w) ==
    /\ phase = "running" /\ worker[w] = "calling"
    /\ Latency(w) > 0
    /\ worker' = [worker EXCEPT ![w] = "ready"]
    /\ started' = [started EXCEPT ![w] = 0]
    /\ \E blank \in {0, 1} :
          /\ samples' = [samples EXCEPT !.ok[Latency(w)] = @ + 1, !.blank = @ + blank]
          /\ seen' = [seen EXCEPT !.late = IF Latency(w) < Slo THEN @ ELSE @ + 1,
                                  !.blank = @ + blank]
    /\ UNCHANGED <<phase, now, metrics, output>>

\* ... or the exception, which is recorded and does not stop the worker.
CallFails(w) ==
    /\ phase = "running" /\ worker[w] = "calling"
    /\ Latency(w) > 0
    /\ worker' = [worker EXCEPT ![w] = "ready"]
    /\ started' = [started EXCEPT ![w] = 0]
    /\ samples' = [samples EXCEPT !.errors = @ + 1]
    /\ seen' = [seen EXCEPT !.failed = @ + 1]
    /\ UNCHANGED <<phase, now, metrics, output>>

\* Mutant: no timeout.
TickFreely == /\ phase = "running"
              /\ now < Duration + CallTimeout
              /\ now' = now + 1
              /\ UNCHANGED <<phase, worker, started, samples, metrics, output, seen>>

\* A call ends within its timeout.
Tick == /\ phase = "running"
        /\ now < Duration + CallTimeout
        /\ \A w \in Workers : worker[w] = "calling" => Latency(w) < CallTimeout
        /\ now' = now + 1
        /\ UNCHANGED <<phase, worker, started, samples, metrics, output, seen>>

\* A replica under load preempts a call.
Preempt(p) == /\ phase = "running"
              /\ Usage > 0
              /\ preempted[p] < MaxPreemptions
              /\ preempted' = [preempted EXCEPT ![p] = @ + 1]
              /\ seen' = [seen EXCEPT !.hits = @ + 1]
              /\ UNCHANGED <<phase, work, before, poller, peak, output>>

\* What the poller left in kv_out within the join: its peak, with or without a read
\* that was under way; or nothing, when that read takes longer.
PolledPeaks == IF poller = "reading" THEN {0, peak, Larger(peak, Usage)} ELSE {peak}

\* The level is judged on a reading of the counter and a peak of the gauge; what
\* was local to it is gone.
JudgeLevel ==
    /\ \E value \in 0..MaxPreemptions, blind \in BOOLEAN, kv \in PolledPeaks :
          /\ Scrape(value, blind)
          /\ level' = Summarize(Concurrency, samples, value - before, kv)
          /\ levels' = Append(levels, [concurrency |-> level'.concurrency,
                                       measured |-> level'.measured,
                                       sustainable |-> level'.sustainable])
          /\ seen' = [seen EXCEPT !.lost = blind]
    /\ worker' = [w \in Workers |-> "done"] /\ samples' = NoSamples
    /\ now' = 0 /\ before' = 0 /\ poller' = "resting"
    /\ phase' = IF Len(levels) + 1 < Len(Levels) THEN "before" ELSE "judged"
    /\ UNCHANGED <<started, preempted, peak, curve>>

\* Mutant: the level is judged at the deadline.
EndLevelAtDeadline == phase = "running" /\ now >= Duration /\ JudgeLevel

\* Mutant: the level waits for a completion of every worker.
EndLevelAllSampled == /\ phase = "running"
                      /\ \A w \in Workers : worker[w] = "done"
                      /\ Completed(samples.ok) >= Concurrency
                      /\ JudgeLevel

\* _measure_level: every worker is waited for, the poller stopped and joined, the
\* counter read again and the level judged; _sweep_context goes on to the next.
EndLevel == /\ phase = "running"
            /\ \A w \in Workers : worker[w] = "done"
            /\ JudgeLevel

\* run_ctxcurve and run_sweep: the widths of this context size, then the next one;
\* after the last the capture is frozen.
EndContext == /\ phase = "judged"
              /\ curve' = Append(curve, CurvePoint(levels))
              /\ levels' = IF Len(curve) + 1 < Contexts THEN <<>> ELSE levels
              /\ phase' = IF Len(curve) + 1 < Contexts THEN "before" ELSE "done"
              /\ UNCHANGED <<work, metrics, level, seen>>

WorkerStep(w) == Fire(w) \/ Leave(w) \/ CallReturns(w) \/ CallFails(w)

Next == \/ Warmup \/ StartLevel \/ EndLevel \/ EndContext
        \/ PollReads \/ PollAgain
        \/ \E w \in Workers : WorkerStep(w)
        \/ Tick
        \/ \E p \in Replicas : Preempt(p)

Spec == Init /\ [][Next]_vars

\* Threads run, time passes, and a call ends by its timeout at the latest.
FairSpec == /\ Spec
            /\ \A w \in Workers : WF_vars(WorkerStep(w))
            /\ WF_vars(Tick) /\ WF_vars(StartLevel) /\ WF_vars(EndLevel)
----
Judgement == [concurrency : Nat, requests : Nat, measured : BOOLEAN, kv_peak : Nat, preemptions : Int, meets_slo : BOOLEAN,
              preemption_free : BOOLEAN, sustainable : BOOLEAN]

TypeOK == /\ phase \in {"warmup", "exit", "before", "running", "judged", "done"}
          /\ now \in 0..(Duration + CallTimeout)
          /\ worker \in [Workers -> {"ready", "calling", "done"}]
          /\ started \in [Workers -> 0..Duration]
          /\ \A w \in Workers : worker[w] = "calling" => Latency(w) \in 0..CallTimeout
          /\ samples \in Samples
          /\ preempted \in [Replicas -> 0..MaxPreemptions]
          /\ before \in 0..MaxPreemptions
          /\ poller \in {"reading", "resting"} /\ peak \in 0..Cardinality(Workers)
          /\ level \in Judgement /\ Len(levels) <= Len(Levels)
          /\ Len(curve) <= Contexts

JustJudged == levels # <<>> /\ phase \in {"before", "judged", "done"}

\* The calls a level is judged by are all those its workers started, the ones
\* that end after the deadline included; and a level called sustainable had at
\* least one, none that failed, and no larger share at or over the SLO than the
\* quantile leaves room for; one without a measured size had no usage for half of
\* them or more (loadtest.py:156, 165, 216-241).
HonestLevel ==
    JustJudged =>
        /\ level.requests = seen.fired
        /\ level.sustainable =>
              /\ seen.fired > 0 /\ seen.failed = 0
              /\ 100 * seen.late <= (100 - Quantile) * seen.fired
              /\ ~level.measured => 2 * seen.blank >= seen.fired

\* With one replica, a preemption of a level goes unseen only if the read after it
\* fails: a lost read before it makes the level look worse, never better
\* (loadtest.py:160, 260-269, 283-289).
NoPreemptionMissed ==
    JustJudged /\ level.preemption_free /\ ~seen.lost => seen.hits = 0

\* The peak reported of a level is one its own poller read while it ran, or 0 of a
\* poller that could not read or was not waited for: never more than the level's
\* calls ever held, and never one of the level before (loadtest.py:250-256, 261-270).
HonestPeak == JustJudged => level.kv_peak <= seen.usage

\* The strict width is the last of the sustainable levels that no unsustainable
\* one comes before, and is never above the tolerant one, in the judged levels and in
\* the points made of them (loadtest.py:175-196, 351-357).
HonestWidth ==
    LET width == SustainableWidth(levels)
        good == {i \in 1..Len(levels) : levels[i].sustainable}
    IN  /\ \A i \in 1..Len(levels) : levels[i].concurrency <= width <=> 1..i \subseteq good
        /\ width <= MaxSloMeetingWidth(levels)
        /\ width < MaxSloMeetingWidth(levels) => good # 1..Cardinality(good)
        /\ \A i \in 1..Len(curve) : curve[i].strict_batch <= curve[i].sustainable_batch

\* A level ends although its calls may fail or hang until their timeout.
LevelEnds == phase = "running" ~> phase # "running"
----
\* loadtest.py:288 says of a read of the metrics that fails, "absence => 0
\* preemptions recorded": a level in which nothing was preempted is not recorded
\* as preempted for it.  The reading before the level is lost, and the whole
\* counter of the levels before is recorded against this one.
AbsenceRecordsNone ==
    JustJudged /\ (seen.blind \/ seen.lost) /\ seen.hits = 0 => level.preemptions <= 0
----
(***************************************************************************)
(* What makes these hold, as one inductive invariant in parts.             *)
(***************************************************************************)
Judged == [concurrency : Nat, measured : BOOLEAN, sustainable : BOOLEAN]
Account == [fired : Nat, failed : Nat, late : Nat, blank : Nat, hits : Nat, usage : Nat,
            blind : BOOLEAN, lost : BOOLEAN]
Point == [measured : BOOLEAN, sustainable_batch : Nat, strict_batch : Nat]

\* The ladder and the context sizes are walked to their ends and no further.
ProgressInv ==
    /\ TypeOK
    /\ seen \in Account
    /\ levels \in Seq(Judged) /\ curve \in Seq(Point)
    /\ phase \in {"warmup", "before", "running"} => Len(levels) < Len(Levels)
    /\ phase = "judged" => Len(levels) = Len(Levels)
    /\ phase # "done" => Len(curve) < Contexts
    /\ phase = "warmup" => levels = <<>>

\* The completions at or over the SLO.
Slow(ok) == [l \in 1..CallTimeout |-> IF l < Slo THEN 0 ELSE ok[l]]

\* While a level runs, every call it started is sampled or under way.
CallsInv ==
    phase = "running" =>
        /\ seen.fired = Completed(samples.ok) + samples.errors + Usage
        /\ seen.failed = samples.errors
        /\ seen.late = Completed(Slow(samples.ok)) /\ seen.blank = samples.blank
        /\ peak <= seen.usage /\ Usage <= seen.usage

\* The judged levels are the first of the ladder.
WidthInv ==
    /\ \A i \in 1..Len(levels) : levels[i].concurrency = Levels[i]
    /\ \A i \in 1..Len(curve) : curve[i].strict_batch <= curve[i].sustainable_batch

\* The counter of the one replica is ahead of its reading by the preemptions of the
\* level at least; by more when that reading was lost.
HitsInv == \A p \in Replicas : phase = "running" => seen.hits <= preempted[p] - before

SweepInv == ProgressInv /\ CallsInv /\ HonestLevel /\ HonestPeak /\ WidthInv
=============================================================================
