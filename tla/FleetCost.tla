------------------------------- MODULE FleetCost -------------------------------
(***************************************************************************)
(* telemetry/cost.py: the cost of one request on each route, the sparse    *)
(* projection of it to a fleet, and the pooled fleet sized at its diurnal  *)
(* peak.  All of it is pure.  Times are milliseconds, one request costs    *)
(* micro-dollars and a day costs cents; a fleet is                         *)
(*   [daily    |-> families * requests_per_family_per_day, in thousands,   *)
(*    peak     |-> diurnal_peak_factor, a whole number,                    *)
(*    service  |-> warm_service_sec, in milliseconds,                      *)
(*    batch    |-> max_concurrent_per_replica,                             *)
(*    cotenant |-> cotenancy_permitted].                                   *)
(* A quotient the code keeps as a float is a numerator here until it is    *)
(* compared or reported.                                                   *)
(***************************************************************************)
LOCAL INSTANCE Integers
LOCAL INSTANCE Sequences

LOCAL AtLeast(floor, n) == IF n < floor THEN floor ELSE n

Ceiling(a, b) == (a + b - 1) \div b
Rounded(a, b) == (2 * a + b) \div (2 * b)

GPU_CENTS_PER_HOUR == 80
SECONDS_PER_DAY == 86400

\* SelfHostedCostConfig, at its defaults.
DefaultConfig == [cents_per_hour |-> GPU_CENTS_PER_HOUR, boot |-> 30000, idle |-> 120000,
                  requests_per_window |-> 3]

\* _self_hosted_cost: a cent an hour is 1/360 micro-dollar a millisecond, and a
\* cold call has no active second.
SelfHostedCost(result, config) ==
    LET active == config.cents_per_hour * (IF result.cold THEN 0 ELSE result.latency)
        window == config.cents_per_hour * (config.boot + config.idle)
    IN  [active |-> Rounded(active, 360),
         amortized |-> Rounded(window, 360 * config.requests_per_window)]

\* CostBreakdown.headline_usd
Headline(breakdown) == breakdown.active + breakdown.amortized

\* project_fleet_cost: one request's cost, times every request.
SparseDay(perRequest, daily) == (perRequest * daily) \div 10
----
\* _effective_batch: sequences share a replica only where co-tenancy is permitted.
EffectiveBatch(fleet) == IF fleet.cotenant THEN fleet.batch ELSE 1

\* _avg_rate times the service time: the average concurrency is Load / SECONDS_PER_DAY.
Load(fleet) == fleet.daily * fleet.service

\* Mutant: the replica count is truncated.
ReplicasTruncated(load, batch) == load \div (SECONDS_PER_DAY * batch)

\* math.ceil of a concurrency over the batch width.
ReplicasFor(load, batch) == Ceiling(load, SECONDS_PER_DAY * batch)

\* _replica_band: whole replicas for the average, at least one, and for the peak.
Baseline(fleet) == AtLeast(1, ReplicasFor(Load(fleet), EffectiveBatch(fleet)))
AtPeak(fleet) == AtLeast(Baseline(fleet),
                         ReplicasFor(fleet.peak * Load(fleet), EffectiveBatch(fleet)))

\* A replica for a day, and the share of it a thousandth of the load takes.
ReplicaDay == 24 * GPU_CENTS_PER_HOUR
PooledLow(fleet) == Load(fleet) \div ((SECONDS_PER_DAY \div ReplicaDay) * EffectiveBatch(fleet))
PooledMid(fleet) == Baseline(fleet) * ReplicaDay
PooledHigh(fleet) == AtPeak(fleet) * ReplicaDay

AUTOSCALER_LAG_SEC == 30
MEASURED_COLD_BOOT_SEC == 90

\* _rampup_cold_start_fraction, in hundredths of a percent: the replicas added on
\* the way to the peak are cold for a lag and a boot, at their share of the peak rate.
RampupExposure(fleet) ==
    LET scaleUps == AtPeak(fleet) - Baseline(fleet)
        window == AUTOSCALER_LAG_SEC + MEASURED_COLD_BOOT_SEC
        exposed == (scaleUps * window * fleet.peak * 100)
                       \div (AtPeak(fleet) * (SECONDS_PER_DAY \div 100))
    IN  IF scaleUps = 0 \/ fleet.daily = 0 THEN 0
        ELSE IF exposed > 10000 THEN 10000 ELSE exposed

\* _expected_latency_ms and _tail_latency_regime
ExpectedLatency(fleet) ==
    fleet.service + (RampupExposure(fleet) * MEASURED_COLD_BOOT_SEC) \div 10
TailRegime(fleet) == IF RampupExposure(fleet) < 500 THEN "warm-dominated" ELSE "cold-exposed"

\* PooledDiurnalFleetCostModel.project
Project(fleet) ==
    [baseline |-> Baseline(fleet), at_peak |-> AtPeak(fleet),
     low |-> PooledLow(fleet), mid |-> PooledMid(fleet), high |-> PooledHigh(fleet),
     exposure |-> RampupExposure(fleet), latency |-> ExpectedLatency(fleet),
     tail |-> TailRegime(fleet)]

\* scenario_table
ScenarioTable(fleets) == [i \in 1..Len(fleets) |-> Project(fleets[i])]

\* MEASURED_BATCH_BY_CONTEXT: tokens of context, sustainable batch.
MeasuredBatchByContext ==
    << <<184, 16>>, <<276, 4>>, <<529, 4>>, <<1035, 4>>, <<1937, 2>>, <<3367, 1>> >>
----
(***************************************************************************)
(* What the projections promise of a fleet.                                *)
(***************************************************************************)
\* The replicas priced at the top of the band can hold every request of the peak
\* and none of them is to spare, but for the floor of one; those in the middle
\* hold the average; and low <= mid <= high.
BandBrackets(fleet) ==
    LET row == Project(fleet)
        width == EffectiveBatch(fleet) * SECONDS_PER_DAY
    IN  /\ row.at_peak * width >= fleet.peak * Load(fleet)
        /\ row.at_peak > 1 => (row.at_peak - 1) * width < fleet.peak * Load(fleet)
        /\ row.baseline * width >= Load(fleet)
        /\ row.low <= row.mid /\ row.mid <= row.high

\* The exposure is bounded by what does not depend on how dense the traffic is.
ExposureFlat(fleet) ==
    RampupExposure(fleet) * SECONDS_PER_DAY
        <= 10000 * fleet.peak * (AUTOSCALER_LAG_SEC + MEASURED_COLD_BOOT_SEC)
=============================================================================
