# A verification of the private-context inference gateway

TLA+ models of the gateway in this repository, model-checked with TLC, and theorems about every
component that keeps state, checked by TLAPS: each safety property that TLC checks on a small
instance is also proved for every value of the constants. Paths below are relative to the
repository's root. Every definition that models code is mapped to the lines it stands for in
`PROJECT.json`, which also lists the runs, the mutants that show each property can fail, the hazards
and the findings.

## 1. Inventory

A family member asks a question; `POST /infer` picks the stored items that member may see,
chooses one of four routes, degrades down a ladder when a model fails, writes a hash-chained
audit record and only then answers. FastAPI runs the handler in worker threads, so requests
share everything below.

| Component | State | Operations | Talks to |
|---|---|---|---|
| Audit store `audit/store.py` | the JSONL file, `_append_lock` | `append`, `verify_chain` | called by the engine; the file outlives the process |
| Authorization, assembly `context/` | none (pure) | `can_member_see`, `assemble_context` | called by the engine |
| Router, ladder `gateway/router.py`, `fallback.py` | none (the clients) | `decide_route`, `Router.run`, `next_route` | reads the self-hosted client's health, calls clients |
| Engine, app `gateway/engine.py`, `app.py` | the family of this process | `infer`, `/infer`, `/healthz` | clock, assembler, router, store |
| Contract `gateway/contract.py` | none | enumerations, request and response types | all |
| Clients `serving/clients.py` | `_warmed` of the self-hosted client | `complete`, `healthy`, `saturated` | the replica, the hosted APIs |
| Deployment `serving/deploy_modal.py` | the platform's replica | boot, boot guard, idle window, scaling | called by the client |
| Composition `gateway/composition.py` | none | builds store, clients, gateway, once per process | |
| Synthetic family `data/synthetic_family.py` | none | `build_family(anchor)` | the engine's candidates |
| Leakage checks `eval/privacy_asserts.py` | none | `check_no_leakage` | the release gate |
| Release gate `eval/gate.py`, `leaky_assembly.py` | results so far | `run_gate`, `main` | a gateway of template clients |
| Load tester `serving/loadtest.py` | samples, counters, judged levels, a thread pool | the sweep, the context curve, the KV poller, the diurnal replay | the replica and its `/metrics`; a gateway of its own |
| Cost model `telemetry/cost.py` | none (pure) | per-request and fleet cost | the engine, the reports |
| Context size report `telemetry/context_dist.py` | none | `read_context_tokens`, `percentile`, `regime_for` | reads the audit file of a running gateway |
| Evidence run `evidence/__main__.py` | audit files, a hashed payload | six sections, then a verdict | a gateway, the client, the cost model, the gate |
| Others: `eval/judge.py`, container and CI files | none | | |

What is hard in it, and what makes it correct:

* **Audit store.** Threads append to one file; the last hash is read and the record written
  under a lock; a write can be cut short by a full disk or a death; the verifier takes no lock.
  Correct: the chain never forks, a call that returned has exactly one record, nothing is
  chained behind damage, all but one such record can be read back, the lock is always let go, the
  verifier neither cries wolf nor misses what was acknowledged.
* **Engine, router, ladder.** The decision is taken on a health snapshot and a clock reading that are
  both old when the last rung is called; any client may fail; the audit may fail; the process
  may die. Correct: nothing unauthorized reaches a prompt or an answer, hard questions never
  go to a weak model, the ladder is walked in order to its floor, no answer without a record.
* **Clients and replica.** `_warmed` is shared by overlapping calls and outlives the replica
  it describes; the health methods are constants.
* **Load tester.** Calls outlive the deadline of their level; counters are scraped from an
  endpoint that may fail; percentiles of few samples decide.
* **Diurnal replay.** Calls queue, overlap, fail and end in any order over replicas that come and go;
  only a latency tells a cold start. Correct: a capture is complete and in order or there is none, no
  cold start is invented, and a call that started a replica and was served by it is counted.
* **Evidence run.** It may be killed and started again over the files it left, on another day, live or
  not. Correct: COMPLETE means that this run proved what it prints, and the hash depends on none of that.
* **Context report.** It reads a file whose last line is being written.
* **Release gate.** A blind gate lets a leak out; the gate's oracle shares a predicate with
  the code it judges.

`PROJECT.json` lists each hazard at its line.

## 2. Modules

| Module | Models | Uses |
|---|---|---|
| `AppendOnlyLog` | what the audit store promises: abstract specification | |
| `AuditStore` | `audit/store.py` step by step | implements `AppendOnlyLog` |
| `ContextAssembly` | the two gates, the references, the leakage checks | |
| `Routing` | `decide_route`, the ladder | `ContextAssembly` |
| `Gateway` | `Gateway.infer`, `Router.run`, process starts and deaths | `Routing`, an instance of `AppendOnlyLog` |
| `SyntheticFamily`, `MCGateway` | `build_family`; instances for TLC | `Gateway` |
| `SelfHostedReplica` | the warm flag, health, replica, idle window | `Routing` |
| `Tally` | the running total behind both percentiles | |
| `LoadSweep`, `MCLoadSweep` | the concurrency sweep, its poller, the context curve | `Tally` |
| `Composition` | the client behind each route, by environment | `Routing` |
| `DiurnalReplay`, `MCDiurnalReplay` | the diurnal replay | `Composition` |
| `FleetCost` | `telemetry/cost.py`, pure | |
| `ContextReport`, `MCContextReport` | the context size report beside a writer | `FleetCost`, `Tally` |
| `EvalGate` | the release gate, with and without the injected leak | `Routing`, `SyntheticFamily` |
| `EvidenceRun`, `MCEvidenceRun` | the evidence run over all of these | `EvalGate`, `Composition`, `FleetCost` |
| `OperatorProofs` | lemmas and theorems about the pure operators | `Tally`, `FleetCost`, `Routing` |
| `AuditStoreProofs`, `GatewayProofs`, `ReplicaProofs`, `SweepProofs`, `DiurnalProofs`, `ReportProofs`, `EvidenceProofs` | the theorems about the component of that name | that component, `OperatorProofs` |

### AuditStore
One thread per call in `Calls`. `Compose` is the body built before the lock; `Acquire` the `with`;
`ReadLast` and `ReadRaises` are `_last_hash`, which parses every line and raises on one that is
not JSON; `WritePart` is what another reader can see of a write in progress; `WriteLine`
and `WriteRaises` end it; `Return` releases the lock and returns the hash. `StartVerify`,
`VerifyLine`, `FinishVerify` are one reader in `verify_chain`, a line at a time, interleaved
with the appends. `Crash` ends the calls in progress and keeps what the kernel had.

The file is a sequence of *fragments*. A completed write is a whole record with its end of
line; an abandoned one may leave a proper prefix, or a whole record without the end of line.
The second is why a torn write is subtle: such a file still parses, until the next record
would be written on the same line. SHA-256 is modelled as injective: a hash *is* the
sequence of bodies it commits to. The in-memory state of a store is its lock alone, so the
restart after `Crash` needs no step of its own.

### AppendOnlyLog
A log, and what each call knows of its own append. `Commit` and `Acknowledge` are a successful
append and its return; `Abandon` and `AbandonLeaving` are a failure, or a death of several calls
at once, that leaves nothing, a record nobody was told of, or damage; nothing is committed to a
log with damage in it. `AuditStore` implements it under `LogView` (the call of each whole
record, or damage) and `OutcomeView`. `Gateway` uses its actions as the audit log it appends to.

### ContextAssembly, Routing, SyntheticFamily
Pure operators. An item keeps the fields the gates read; a policy text is its parsed kind and
number of days; the prompt is the set of items in it. `Verdict` has the reason of the
first gate that refuses, in the code's order. `Authorized`, `Admitted` and
`Surfaced` are `check_no_leakage`. The family has its seven items, on a clock of 20 ticks a day, which
makes every age in the source whole.

### Gateway
One thread per request. `Receive` is `infer` up to the first model call: it reads the clock,
assembles, snapshots health, decides, and answers a decision for the floor from the local
template. `Complete`, `StepDown`, `GiveUp` are the three ways one turn of `Router.run`'s
loop ends. `AppendRecord`, `AuditRaises`, `Answer` are the audit and the return. `Tick` moves the
clock between any two steps; `Crash` restarts the process, which rebuilds the family at the
new instant. A model may repeat any part of its prompt; the template lists all of it.
A `Crash` with no request in progress is left out: it would change only `anchor`, and the
start times already vary that.

### SelfHostedReplica
`Arrive` runs `DecideRoute` on the health the client really reports, notes `cold` from `_warmed`
and wakes a replica that is at zero. `Finish` is the completion coming back: it sets the flag before
`Answer` reads it, which may raise (no choices); `Raise` is a call that is refused or times out and
does not set it. The replica's boot, failure, idle minutes and scale-down are the platform's, with the window of
`deploy_modal.py`.

### LoadSweep
`Warmup`, `StartLevel`, `EndLevel` are `run_sweep` and `_measure_level`; `Fire`, `Leave`,
`CallReturns`, `CallFails` are `_worker_loop` and `_fire_one`. `Percentile`, `Summarize`,
`SustainableWidth`, `MaxSloMeetingWidth` are the functions of those names, the third a
recursive function rather than a RECURSIVE operator. `PollReads` and `PollAgain` are one turn of
`_poll_kv`, and `PolledPeaks` what it may leave behind when its join of 5 s gives up a read of
10 s. `EndContext` takes the widths of one context size (`CurvePoint`) and starts the next; `run_sweep`
and `run_ctxcurve` differ in their ladders and labels only. A completion may come without a usage; a
level whose median of prompt tokens is 0 for that is not `Measured`. `seen` is not in the code: it records what really happened in
a level, for the properties to compare the judgement with.

### DiurnalReplay
`Trace` is `_diurnal_trace` over given rates (the sine is data). `Submit` is the main thread at an
offset, `Begin` a pool thread that takes the oldest arrival and calls `infer`; `Served`, `FellBack`,
`Audited` are the ways that call goes on; `Collect`, `CollectRaises`, `PoolExits` are
`future.result()` in order, its exception, and the exit of the `with` block that waits for the
pool; `Freeze` truncates and then writes the capture. Calls of `infer` are reduced to what `Gateway`
shows of them. The audit file is kept from one replay to the next, and `audit` is what an append makes
of it: one that finds its last line without an end still returns, and glues its record to it; the next
one raises. The platform is free: `RoutedTo` lets any replica take a call, one at zero included, which
then loads for `Boot` ticks or fails to; `ScaleDown` takes any idle one away. `found` is not in the code: it
keeps the state of the replica each call was routed to. `MayAnswer` of `Composition` gives the rungs that
can answer.

### Composition, FleetCost
Pure operators. `FleetCost` is in whole numbers: milliseconds, micro-dollars, cents; a quotient the
code keeps as a float is a numerator until it is compared or rounded. All arithmetic fits in
TLC's 32 bits for fleets of millions of families.

### ContextReport
The order of the records does not matter to the report, so the file is the number of records of
each size, by the place of the size in ascending order, and the line being written. The rank of a
percentile falls on the first place at which the running total of those numbers (`AtMost`)
reaches it, which is what sorting them and indexing finds; `LoadSweep` counts latencies the same way. A read of that line finds nothing, all but its end of
line (which parses), or a part that raises.

### EvalGate, EvidenceRun
`RunScenario` is one pass of `run_gate`'s loop, with the answer computed by the same
operators the gateway model uses. `MayKnow` in the properties restates the privacy rule
independently of the order and shape of the gates. `EvidenceRun` has one action per section of
`main`, in the order of the mode it runs in; section 6 takes `EvalGate`'s steps twice, and
`python -m eval.gate` by itself is the section `alone`. The environment has the endpoint, the API key and
the price of the host. `Raises` and `Killed` end a run anywhere and
may leave a torn line; `Rerun` starts another over the files, in another environment or on another day.

## 3. Runs

| Run | Instance | Shows |
|---|---|---|
| `audit_store` | 3 calls, 1 death, 1 reader | the chain stays intact, acknowledged once, no false alarm, acknowledged records are legible and counted, damage freezes the file, refinement of the log; every append ends |
| `gateway_single` | 1 request of every member, task and class; 4 health reports; the whole family; every edge of the clock | safety floor, ladder order, no leakage, only the audit can fail |
| `gateway_concurrent` | 2 requests, 2 items, any client failing, 1 death | no answer without a record, no leakage between requests, giving up only at the floor, every request ends, a spoiled log fails closed |
| `replica_pass` | 3 overlapping calls, 1 restart, 1 failed boot | `cold_start` is exactly "no completion had come back to this process" |
| `sweep_pass` | 1 context size, levels 1 and 2, calls of 1 or 2 ticks, 1 preemption, metrics that may fail | the judgement is honest about all calls, preemptions, the KV peak and the widths; a level ends |
| `diurnal_pass` | 3 arrivals, 2 threads, 2 replicas loaded or not, 1 failed boot, an audit file of any past | a capture is complete and in order, or the replay raised; a cold call met no loaded replica, a call that started one is cold; the replay ends |
| `context_report` | 4 sizes at the bounds of the regimes, 11 records, 1 without the field | a printed report is one of whole records, its percentiles are quantiles, none is priced below what was measured |
| `evidence` | 2 starts of the process, 4 families, 3 environments with hosts of 8, 80 and 200 cents an hour, 2 days; the gate alone over the shipped family, one with nothing to hide, and every family one field away from either, leak injected or not | the gate blocks exactly when it should; COMPLETE is proven; one simulated hash; honest costs |
| `verify_returns` | 2 calls, 1 death | finding: `verify_chain` can raise |
| `budget` | 1 request | finding: no code reads `latency_budget_ms` |
| `replica_cold` | 3 calls | finding: a reloaded replica is reported and billed as warm |
| `sweep_absence` | levels 1 and 2, metrics that may fail | finding: a missed reading charges a level with its predecessors' preemptions |

**Bounds.** `MaxCrashes`, `MaxRestarts`, `MaxOutages`, `MaxPreemptions` bound what the environment
may do to a system that has no memory of how often it was done.

* Three calls on the store are a writer, one that waits with a stale idea of the file, and one that comes
  after a failure. One death is enough to leave each kind of damage with calls before and
  after it; the proofs cover any number of both.
* Two requests are enough for interference, since requests share only the log, the clock and the
  process; the two shapes are one that starts at the top of the ladder and one that is hard.
  `gateway_single` has all the shapes instead. `DayEdges` are the start (day 60), the last tick
  of the teen location's seven days, the first after it, and the first after the groceries'
  thirty. The couple's note expires between the two instants of `NoteEdge`.
* In `sweep_pass` a level holds its load for 2 ticks with calls of at most 2, so a call may
  start in time and end late. With at most four samples the rank of 95 is always the largest;
  `Quantile` is therefore a parameter, 60 in the runs, where the rank leaves some sample
  above it. Two levels give each pattern of a good and a bad one; a third multiplies the states
  into the millions. A call lasts at least a tick.
* `sweep_pass` has one context size and one preemption: a counter that rose in the first level is what
  the second starts from, and metrics that may fail make more of it than a second size would. The walk
  over the sizes is proved for any number of them (`SweepTypeCorrect`, `WidthsAreHonest`).
  `sweep_absence` has two preemptions.
* In `diurnal_pass` the arrivals come at 0, 1 and 1. The first two hold both threads while a replica
  loads (3 ticks, the threshold is 1), so the third queues for longer than the threshold and may then be
  answered warm; or a thread becomes free and the third starts the other replica, or meets one
  that was scaled down behind the call before it.
* In `evidence` a warm call may take 15 s, and on a host of 8 cents the sparse projection is then below the
  pooled floor: the condition on the price of the host in `CostHonest` is needed.
* Eleven records make the ranks of 50, 90, 95 and 99 three different ones. Two starts of the
  evidence run are one that leaves files and one that finds them. Its families are the shipped one, one with
  nothing to leak, one whose digest is empty and one whose digest is hard, one for each way the
  verdict can go.
* The release gate runs over all single-field edits of two families. In the shipped one some scenario
  always leaks when it can; in the open one an edit is the only thing there is to leak, so each gate
  of an item is for some scenario the only one that decides.

CHECK_DEADLOCK is off in every run: a store with all calls ended, a gateway that has served its
requests, a sweep or replay that is done and a gate that has its verdict really stop.

**Fairness.** A thread that can take its next step eventually takes it (operating system
scheduling); a model call ends since clients have timeouts (900 s for the self-hosted one
and the load tester's, the SDK's own for hosted ones); an append ends since local file writes do.
Weak fairness is enough: nothing depends on winning a race for the lock forever, because each
call takes the lock once. No fairness is assumed of arrivals, of the disk failing, of ticks of
the gateway's clock, of deaths, of the verifier, or of the platform, except that in the load tester time
passes and in the replay a boot ends, well or not, within its timeout (`startup_timeout`, `deploy_modal.py`).
`SelfHostedReplica` and `EvidenceRun` have no fairness at all.

## 4. Proofs

Each theorem holds for every value of the constants that satisfies the assumption of its module
(`GatewayAssumption`, `SweepAssumption`, ...), which TLC evaluates on every run. The table gives
what is proved; `Spec` is the safety part of each specification, without fairness.

| Module | Theorem | Statement |
|---|---|---|
| `AuditStoreProofs` | `TypeCorrect` | `Spec => []TypeOK` |
| | `ChainAlwaysIntact` | `Spec => []ChainIntact` |
| | `UnreadableFrozen` | `Spec => UnreadableIsFrozen` |
| | `VerifierNeverAlarms` | `Spec => []NoFalseAlarm` |
| | `AckedExactlyOnce` | `Spec => []AckedOnce` |
| | `VerifierCountsAcked` | `Spec => []IntactCountsAcked` |
| | `StoreImplementsLog` | `Spec => ImplementsLog` |
| | `StoreForgetsNothing` | `Spec => [](Log!AckedIsLogged /\ AckedLegible)` |
| `GatewayProofs` | `GatewayKeepsLog` | `Spec => Audit!LogSpec` |
| | `GatewayTypeCorrect` | `Spec => []TypeOK` |
| | `NoAnswerWithoutRecord` | `Spec => []AnsweredIsAudited` |
| | `SpoiledStaysClosed` | the safety half of `SpoiledFailsClosed` |
| | `HardQuestionsStayStrong` | `Spec => []SafetyFloor` |
| | `LadderWalkedInOrder` | `Spec => []LadderInOrder` |
| | `GivingUpIsLast` | `Spec => []GivesUpAtTheFloor` |
| | `OnlyTheAuditFails` | `Spec => []OnlyAuditFails`, if the template cannot fail |
| | `NothingLeaks` | `Spec => []NoLeakage` |
| `ReplicaProofs` | `ReplicaTypeCorrect`, `ColdIsFirst` | `Spec => []TypeOK`, `Spec => ColdUntilFirstCompletion` |
| `SweepProofs` | `SweepTypeCorrect`, `LevelsAreHonest`, `PeaksAreHonest`, `WidthsAreHonest` | `Spec =>` `[]TypeOK`, `[]HonestLevel`, `[]HonestPeak`, `[]HonestWidth` |
| | `PreemptionsAreSeen` | `Spec => []NoPreemptionMissed`, with one replica |
| | `PercentileIsAQuantile` | of any latencies |
| `DiurnalProofs` | `ReplayTypeCorrect`, `CapturesAreHonest`, `ColdCallsWaited` | `Spec =>` `[]TypeOK`, `[]HonestCapture`, `[]ColdWasLoading` |
| `ReportProofs` | `ReportTypeCorrect`, `ReportsAreHonest` | `Spec => []TypeOK`, `Spec => ReportHonest` |
| | `ReportedIsAQuantile` | of any context sizes |
| `EvidenceProofs` | `EvidenceTypeCorrect`, `GateIsExact`, `LeaksAreNeverReleased` | `EvidenceSpec =>` `[]EvidenceTypeOK`, `[]GateExact`, `[]LeakNeverReleased` |
| | `CompleteIsEarned`, `SimulationIsReproducible` | `EvidenceSpec =>` `[]CompleteIsProven`, `[]SameHash` |
| | `CostsAreHonest` | `EvidenceSpec => []CostHonest` |
| `OperatorProofs` | `VerdictIsAuthorized`, `AssembledIsAuthorized`, `AuthorizationDecays` | of every item, family, member, task and clock reading |
| | `HardIsDecidedStrong` | of every request and health snapshot |
| | `BandsBracket`, `ExposureIsFlat`, `HeadlinePays` | of every fleet, configuration and latency |

**Hypotheses.** Two theorems need one that is not an assumption of the model, because the model is
also run without it. `OnlyTheAuditFails` has `"deterministic_fallback" \notin Failing`: the template
client computes its answer (`fallback.py:5-7`); `gateway_concurrent` lets it fail to reach
`GivesUpAtTheFloor`. `PreemptionsAreSeen` has one replica: a second one has a counter of its own. That
the read of the metrics after the level did not fail is a condition in the property itself.
The assumptions are of the kind "a bound is a number"; those that say more are that there
is some shape of request, some environment and some level, that the levels and sizes ascend, and in
the replay that a boot takes longer than the threshold of a cold call (`MEASURED_COLD_BOOT_SEC` of
90 s, `telemetry/cost.py`, against the 10 s of `loadtest.py:53`).

**The arguments.** A property is seldom inductive; what is added to it is defined at the end of its
component's module, in named parts, and was checked by TLC before it was proved.

*The chain.* Nothing in `ChainIntact` says that the hash a writer read
is still the last one when it writes. `ChainInv` adds `LockHeld` (who is past `Acquire` owns the
lock, so there is one), `TailOwned` (a write in progress is that call's line and carries
the hash it read), `FreshPrev` (between its read and its write the file still
parses and still ends in that hash) and `DamageIsLast` (a torn fragment can only be the last).
Dropping the lock breaks `LockHeld`, dropping the parse breaks `FreshPrev`. The proof goes by
action; `QuietStep` covers all those that leave the file alone, `ChainExtends` and
`TailExtends` those that add to it. `UnreadableIsFrozen` follows from `FreshPrev`: the two
actions that extend the file need a call that has read a file that parses.

*The reader.* `ReaderInv` says what `verify_chain` has accepted so far is whole and its
running hash is that of the last line accepted. It survives the writers because what is
visible only grows (`VisibleGrows`), and it excludes the verdict "broken" because the whole of
what is visible is chained (`VisibleChained`). `FloorInv` adds that the records of the calls that had
returned when it started are among the lines there were then, so a reader that reached the end has passed them.

*Once, and legible.* `RecordInv` relates records to calls: a whole record's call is past its write, two
whole records have two calls, and a call past its write has one. A record can still share its line with
one that lost its end: `EndsInv` says where a line of the file may lack one, and `LegibleStep` takes
`AckedLegible` from it.

*Refinement.* `LogViewSteps` and `OutcomeOfOne` compute the two views after a step;
`ReadableNotSpoiled` is where `FreshPrev` meets the guard of `Commit`; `AbandonSteps` handles failed
writes and deaths. Every other step is a stutter. `LogInductive` shows of the abstract log alone
that it loses no appended call, and `StoreForgetsNothing` takes that over to the store.
`GatewayKeepsLog` is the other half: the gateway's use of the log is a behaviour of the same
`AppendOnlyLog`, so what it may assume is what the store implements.

*The gateway.* `AuditInv` relates the stage of a request to the log and to the outcome of its append
(`StagesAgree`, `LogAgrees`). `LadderInv` says that the rungs a request has tried are those from
where it was decided down to the current one, and that a hard one was decided strong
(`HardIsDecidedStrong`; `NextRouteDescends` does the step). `ContextInv` keeps the references of a
request equal to what assembling the family of its process at its instant returns, so
`AssembledIsAuthorized` speaks of them however many requests, ticks and restarts came between.

*The client.* `WarmInv`: the flag is set exactly when some completion has come back to this process, read or not,
and the calls in flight are this process's.

*The sweep.* `CallsInv` balances the calls started against those completed, failed and in flight,
which is what makes a level judged after its last call honest; `WidthInv` and `HitsInv` relate the
widths to the judged levels and the counter to what happened: a lost read before a level puts the counter
further ahead of it, never less. The arithmetic is of tallies:
`AtMostTyped`, `AtMostGrows`, `RankFalls`.

*The replay.* `TimesInv`: nothing that is timed began in the future. `CollectedInv`: what was
collected is final, and over a file that lost the end of a line either some call failed or too few were
done for the file to have stayed whole (`FileInv`, `FileStays`). `LoadingInv`: a call that found a loaded
replica is `Prompt`, held by one that was up when the call began and not for longer than `Service`; one
that started a replica `WaitsForLoad`, so it is held by one whose load, restarted or not, began no earlier
than the call.

*The report.* `ReportInv`: a line is only written while there is room for its record. The rest is
arithmetic of one read: `PercentilesAscend`, `RegimesNarrow` and `NarrowerIsDearer` give the order
of prices.

*The evidence run.* `GateInv` counts the violations found so far by scenario; `RunInv` relates each
section of the payload to what the earlier ones left (`AnswerInv`, `PriceInv`, `CostInv`,
`VerdictInv`), and pins the payload of a simulated run, which is what makes two of them equal;
`ProcessInv` has the types. `DearerHost` compares the sparse projection with the floor of the fleet for any
latency, boot and price from that of the GPU up.

*Induction over numbers.* The library's induction theorems take an operator and cannot be used, but
its `WFMin` takes a set. `LeastNumber` and `NumbersUpTo` are derived from it: a set that has 0 and
with every number below a bound the next one has them all. With them running totals, percentiles,
widths and the trace of the replay, all recursive functions, are computed by proof.

**Only model-checked:** everything under fairness: `EveryAppendEnds`, `EveryRequestEnds`,
`SpoiledFailsClosed` (its safety half is proved), `LevelEnds`, `ReplayEnds`. They are liveness properties and need ENABLED, which the prover does not treat. That
`Gateway` with the real `AuditStore` below it behaves as with `AppendOnlyLog` is proved in two
halves, not as one theorem of a composed specification.

## 5. Findings

Shown by a run:

1. `verify_chain` returns `(intact, count)` by its docstring; reading beside an append,
   or after a torn write, it raises (`audit/store.py:91`).
2. `latency_budget_ms` is "honored by the router" in the contract and in ADR 0001; nothing reads it.
3. `_warmed` outlives the replica: loads after a scale-down are billed as active generation.
4. A failed read of `/metrics` counts as 0 and can turn into preemptions that never happened.

Read in the code, where a run would only compare two constants or show the absence of code:

5. The self-hosted client is always healthy and never saturated, so the router's health rules
   cannot fire in production (`serving/clients.py:156`).
6. `IDLE_SCALEDOWN_SEC = 120.0` says it "matches deploy" (`telemetry/cost.py:37`); the deployment
   has 5 minutes (`serving/deploy_modal.py:90`).
7. `_max_slo_meeting_width` is documented as "meeting the SLO" and filters on `sustainable`, which
   also asks for no preemption (`serving/loadtest.py:189-196`).
8. The load tester's "endpoint resolution mirrors serving/clients.py" (`serving/loadtest.py:26`), and
   prefers `MODAL_BASE_URL` where the client prefers `SELF_HOSTED_BASE_URL`: with both set, the replay prints
   one endpoint and measures the other.
9. The live evidence run prints "a real self-hosted model served this request" whatever route
   answered (`evidence/__main__.py:105-106`); the verdict does look at the route.
10. The replay's latency leaves out the time in the pool's queue, and a call that waits for less of a boot
    than the threshold is not cold: the measured ramp-up fraction is a lower bound (`serving/loadtest.py:430-431`).
11. The evidence run's cold sample is "genuine" after a forced unload, which only a local Ollama
    supports (`evidence/__main__.py:68-69, 220-221`): on a loaded endpoint it waited for nothing and the
    measured boot is about 0. `EvidenceRun` has such runs; nothing the run keeps tells them apart.
12. A completion without a usage counts 0 prompt tokens (`serving/loadtest.py:165, 220`), so a point of the
    context curve can have widths and a size of 0.
13. The sparse projection is printed as the "UPPER BOUND" of the fleet (`evidence/__main__.py:156`) at the
    price of the host (line 49), the pooled fleet at that of its GPU (`telemetry/cost.py:167`): with a
    cheaper host and slow warm calls the bound is below the floor of the fleet.

## 6. Not modelled

`recorded_at` (no order of it is promised); response identifiers and token counts; prompt and
answer wording, reasoning-scratch stripping; the hosted price tables (`_hosted_cost`, `cost_for`: a
lookup and a product); `/healthz` (changes nothing); the platform beyond the replicas' boots and
scaling; the text of captures and reports; `eval/judge.py`, which scores the wording of answers with
regular expressions or a model and keeps no state; container and CI files.

## 7. Plan

Done, in the order of importance: store and its abstract log, assembly and routing, gateway,
replica, sweep with its poller and curve, release gate, cost model, context report, composition,
evidence run, diurnal replay; the refinement of the log, and the theorems of section 4 about all of them.

Next, the model: `Gateway` with the composition's choice of clients, so that a ladder with the
template in several places is checked for interleaved requests too; the replay's calls of `infer` as
instances of `Gateway` rather than what it shows of them.

Next, the proofs:
1. The replica: the calls in flight against the idle window, and what a reload costs the calls that meet it.
2. The sweep over several replicas: which preemptions two readings of different counters can hide.
