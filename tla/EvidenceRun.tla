------------------------------ MODULE EvidenceRun ------------------------------
(***************************************************************************)
(* evidence/__main__.py: one process that builds a gateway from the        *)
(* environment (Composition), serves one digest through it, samples the    *)
(* self-hosted client's latency, prices it (FleetCost), runs the release   *)
(* gate with and without the injected leak (EvalGate) and verifies its own *)
(* audit file.  It may raise or be killed on the way and be started again, *)
(* on another day and in another environment, over the files it left.      *)
(* `python -m eval.gate` run by itself is the section "alone".             *)
(***************************************************************************)
EXTENDS EvalGate, Composition, FleetCost

CONSTANTS EvidenceFamilies, \* the families the whole run is checked over
          Environments,     \* what the process may find in its environment, the host's
                            \* price (SELF_HOSTED_USD_PER_HOUR) in cents included
          Clocks,           \* the wall clock of a run
          WarmLatencies,    \* milliseconds a live call takes on a loaded model
          BootLatency,      \* milliseconds it waits for the model to load
          MaxRuns           \* bound on the starts of the process

ASSUME EvidenceAssumption ==
    /\ EvidenceFamilies \subseteq Families
    /\ Environments \subseteq [base_url : {"none", "ollama", "modal"}, key : BOOLEAN,
                               cents_per_hour : Nat]
    /\ Environments # {}
    /\ Now \in Clocks /\ Clocks \subseteq Nat
    /\ WarmLatencies \subseteq Nat /\ BootLatency \in Nat /\ MaxRuns \in Nat \ {0}

VARIABLES
    env,       \* the environment of this process
    clock,     \* its wall clock, which the evidence is not to depend on
    runs,      \* starts of the process
    section,   \* what main does next, or how it ended
    loaded,    \* whether the live endpoint holds the model
    auditFile, \* evidence_audit.jsonl: its records, and whether all lines parse
    gateFile,  \* whether all lines of each gate's audit file parse
    answer,    \* section 1: the route, the client behind it, the context's counts
    split,     \* section 3: the cold and the warm sample
    price,     \* section 4: the cost breakdown of the warm sample
    verdict,   \* section 6: how the clean and the leaky gate ended
    hashes     \* the payloads hashed by the simulated runs

files == <<auditFile, gateFile>>
printed == <<answer, split, price, verdict>>
process == <<env, clock, runs>>
evidence == <<process, section, loaded, files, printed, hashes>>

Live == env.base_url # "none"

Gates == {"alone", "clean", "leak"}
Ended == {"complete", "incomplete", "raised", "killed"}

NoAnswer == [route |-> "deterministic_fallback", client |-> "template", included |-> 0,
             excluded |-> 0]
NoSample == [latency |-> 0, cold |-> FALSE]
NoSplit == [cold |-> NoSample, warm |-> NoSample]
NoPrice == [active |-> 0, amortized |-> 0]
NoVerdict == [clean |-> "running", leak |-> "running", violations |-> 0]

EvidenceInit ==
    /\ Init
    /\ \/ section = "alone"
       \/ family \in EvidenceFamilies /\ leaky = FALSE /\ section = "start"
    /\ env \in (IF section = "alone" THEN {CHOOSE e \in Environments : TRUE} ELSE Environments)
    /\ loaded \in (IF Live /\ section = "start" THEN BOOLEAN ELSE {FALSE})
    /\ clock = Now /\ runs = 1
    /\ auditFile = [records |-> 0, whole |-> TRUE]
    /\ gateFile = [g \in Gates |-> TRUE]
    /\ answer = NoAnswer /\ split = NoSplit /\ price = NoPrice /\ verdict = NoVerdict
    /\ hashes = {}
----
\* Mutant: the audit file of the run before is kept.
BeginKeeping == /\ section = "start"
                /\ section' = IF Live THEN "split" ELSE "respond"
                /\ UNCHANGED <<vars, process, loaded, files, printed, hashes>>

\* main: unlink the audit file; live, the latency split comes first.
Begin == /\ section = "start"
         /\ auditFile' = [records |-> 0, whole |-> TRUE]
         /\ section' = IF Live THEN "split" ELSE "respond"
         /\ UNCHANGED <<vars, process, loaded, gateFile, printed, hashes>>

\* _section_1: a digest for m_mom at ANCHOR.
Digest == [member |-> "m_mom", task |-> "family_digest", request_class |-> "interactive"]

\* What the gateway answers to the digest at an instant, with or without the
\* offline clients.
Answers(instant, offline) ==
    LET refs == Assemble(family, Digest.member, Digest.task, instant)
        decided == DecideRoute(Digest, refs, ReportedHealth)
    IN  {[route |-> route, client |-> ClientBehind(env, offline, route),
          included |-> IncludedCount(refs),
          excluded |-> Cardinality(DOMAIN refs) - IncludedCount(refs)] :
            route \in MayAnswer(env, offline, decided)}

\* Mutant: the flag is passed as it is.
RespondOnline == /\ section = "respond"
                 /\ auditFile.whole
                 /\ answer' \in Answers(Now, Live)
                 /\ auditFile' = [auditFile EXCEPT !.records = @ + 1]
                 /\ section' = IF Live THEN "price" ELSE "split"
                 /\ UNCHANGED <<vars, process, loaded, gateFile, split, price, verdict, hashes>>

\* Mutant: the digest is answered as of today.
RespondToday == /\ section = "respond"
                /\ auditFile.whole
                /\ answer' \in Answers(clock, ~Live)
                /\ auditFile' = [auditFile EXCEPT !.records = @ + 1]
                /\ section' = IF Live THEN "price" ELSE "split"
                /\ UNCHANGED <<vars, process, loaded, gateFile, split, price, verdict, hashes>>

\* Sections 1 and 2: the answer, and its record in the audit file.
Respond == /\ section = "respond"
           /\ auditFile.whole
           /\ answer' \in Answers(Now, ~Live)
           /\ auditFile' = [auditFile EXCEPT !.records = @ + 1]
           /\ section' = IF Live THEN "price" ELSE "split"
           /\ UNCHANGED <<vars, process, loaded, gateFile, split, price, verdict, hashes>>

\* _unload_self_hosted: a local Ollama is asked to stop, and may not; no other
\* endpoint is.
LoadedAfterUnload == IF env.base_url = "ollama" THEN {FALSE, loaded} ELSE {loaded}

\* SimulatedSelfHostedClient.complete, and SelfHostedOpenAIClient.complete over a call
\* of that latency: cold is what the client has not answered before.
Simulated(warmed) == IF warmed THEN [latency |-> 320, cold |-> FALSE]
                     ELSE [latency |-> 9000, cold |-> TRUE]
Completed(warmed, latency) == [latency |-> latency, cold |-> ~warmed]

\* Section 3: two calls of a client made for it.
LatencySplit ==
    /\ section = "split"
    /\ IF Live
       THEN \E up \in LoadedAfterUnload, first \in WarmLatencies, second \in WarmLatencies :
               split' = [cold |-> Completed(FALSE, IF up THEN first ELSE first + BootLatency),
                         warm |-> Completed(TRUE, second)]
       ELSE split' = [cold |-> Simulated(FALSE), warm |-> Simulated(TRUE)]
    /\ loaded' = Live
    /\ section' = IF Live THEN "respond" ELSE "price"
    /\ UNCHANGED <<vars, process, files, answer, price, verdict, hashes>>

\* _live_cost_config: the host's price, what the samples measured, and Ollama's five
\* minutes.
CostConfig ==
    IF Live
    THEN [cents_per_hour |-> env.cents_per_hour,
          boot |-> IF split.cold.latency > split.warm.latency
                   THEN split.cold.latency - split.warm.latency ELSE 0,
          idle |-> 300000, requests_per_window |-> 3]
    ELSE DefaultConfig

\* _fleet_scenarios: one pooled fleet per measured context size.
FleetScenarios ==
    [i \in 1..Len(MeasuredBatchByContext) |->
        [daily |-> 4000, peak |-> 3, cotenant |-> TRUE,
         service |-> IF split.warm.latency < 1 THEN 1 ELSE split.warm.latency,
         batch |-> MeasuredBatchByContext[i][2]]]

\* _print_fleet_regimes: the sparse projection printed next to them, and hashed.
FleetDay == SparseDay(Headline(price), FleetScenarios[1].daily)

\* Sections 4 and 5: the breakdown of the warm call; the fleet is a function of it.
Price == /\ section = "price"
         /\ price' = SelfHostedCost(split.warm, CostConfig)
         /\ section' = "clean"
         /\ UNCHANGED <<vars, process, loaded, files, answer, split, verdict, hashes>>
----
\* Section 6, and eval.gate by itself: run_gate over its audit file, which must
\* parse for a scenario's record to be appended.
GateStep ==
    /\ section \in Gates
    /\ Next
    /\ results' # results => gateFile[section]
    /\ IF gate' = "raised"
       THEN \E whole \in {gateFile[section], FALSE} :
               gateFile' = [gateFile EXCEPT ![section] = whole]
       ELSE UNCHANGED gateFile
    /\ UNCHANGED <<process, section, loaded, auditFile, printed, hashes>>

\* The clean gate's result is kept and the gate is run again with the leak.
CleanGateEnds == /\ section = "clean"
                 /\ gate \in {"passed", "blocked"}
                 /\ verdict' = [verdict EXCEPT !.clean = gate]
                 /\ leaky' = TRUE /\ results' = <<>> /\ gate' = "running"
                 /\ section' = "leak"
                 /\ UNCHANGED <<family, process, loaded, files, answer, split, price, hashes>>

\* GateResult.total_violations
TotalViolations(judged) ==
    LET upTo[i \in 0..Len(judged)] ==
            IF i = 0 THEN 0 ELSE upTo[i - 1] + judged[i].violations
    IN  upTo[Len(judged)]

LeakGateEnds == /\ section = "leak"
                /\ gate \in {"passed", "blocked"}
                /\ verdict' = [verdict EXCEPT !.leak = gate, !.violations = TotalViolations(results)]
                /\ section' = "conclude"
                /\ UNCHANGED <<vars, process, loaded, files, answer, split, price, hashes>>

\* What is hashed: answer, price, the fleet's day, the leak's violations.
Payload == [answer |-> answer, price |-> price, fleet_day |-> FleetDay,
            leak_blocked |-> verdict.leak = "blocked", violations |-> verdict.violations,
            chain_intact |-> auditFile.whole]

\* main: EVIDENCE COMPLETE.
Proven == /\ verdict.leak = "blocked" /\ verdict.clean # "blocked"
          /\ auditFile.whole
          /\ answer.route = "self_hosted"

\* _verify_audit, the payload and its hash, the last line and the exit status.
Conclude == /\ section = "conclude"
            /\ hashes' = IF Live THEN hashes ELSE hashes \cup {Payload}
            /\ section' = IF Proven THEN "complete" ELSE "incomplete"
            /\ UNCHANGED <<vars, process, loaded, files, printed>>
----
\* A live call, or the append of the digest's record, raises out of main; so does
\* a gate that raised.
Raises == /\ \/ section = "split" /\ Live /\ UNCHANGED auditFile
             \/ section = "respond" /\ \E whole \in {auditFile.whole, FALSE} :
                                          auditFile' = [auditFile EXCEPT !.whole = whole]
             \/ section \in {"clean", "leak"} /\ gate = "raised" /\ UNCHANGED auditFile
          /\ section' = "raised"
          /\ UNCHANGED <<vars, process, loaded, gateFile, printed, hashes>>

\* The process is killed; the record it is writing may stay torn.
Killed == /\ section \in {"split", "respond", "price", "clean", "leak", "conclude"}
          /\ \/ UNCHANGED files
             \/ section = "respond" /\ auditFile' = [auditFile EXCEPT !.whole = FALSE]
                                    /\ UNCHANGED gateFile
             \/ section \in {"clean", "leak"} /\ gate = "running"
                    /\ gateFile' = [gateFile EXCEPT ![section] = FALSE]
                    /\ UNCHANGED auditFile
          /\ section' = "killed"
          /\ UNCHANGED <<vars, process, loaded, printed, hashes>>

\* It is run again, later and perhaps elsewhere; the model may have been unloaded.
Rerun == /\ section \in Ended /\ runs < MaxRuns
         /\ env' \in Environments /\ clock' \in Clocks /\ runs' = runs + 1
         /\ loaded' \in {loaded, FALSE}
         /\ section' = "start"
         /\ leaky' = FALSE /\ results' = <<>> /\ gate' = "running"
         /\ answer' = NoAnswer /\ split' = NoSplit /\ price' = NoPrice
         /\ verdict' = NoVerdict
         /\ UNCHANGED <<family, files, hashes>>

EvidenceNext == \/ Begin \/ Respond \/ LatencySplit \/ Price
                \/ GateStep \/ CleanGateEnds \/ LeakGateEnds \/ Conclude
                \/ Raises \/ Killed \/ Rerun

EvidenceSpec == EvidenceInit /\ [][EvidenceNext]_<<vars, evidence>>
----
Sample == [latency : Nat, cold : BOOLEAN]

EvidenceTypeOK ==
    /\ TypeOK
    /\ env \in Environments /\ clock \in Clocks /\ runs \in 1..MaxRuns
    /\ section \in Gates \cup Ended \cup {"start", "split", "respond", "price", "conclude"}
    /\ loaded \in BOOLEAN
    /\ auditFile \in [records : 0..1, whole : BOOLEAN]
    /\ gateFile \in [Gates -> BOOLEAN]
    /\ answer \in [route : Routes, client : Remote \cup {"simulated", "template"},
                   included : Nat, excluded : Nat]
    /\ split \in [cold : Sample, warm : Sample]
    /\ price \in [active : Nat, amortized : Nat]
    /\ verdict.violations \in Nat

\* Some member of a product scenario has something to lose to an assembler that
\* looks at consent only.
SomethingToLeak ==
    \E k \in 1..Len(Scenarios), i \in FamilyItems :
        /\ family[i].consent_state = "granted"
        /\ ~MayKnow(family[i], Scenarios[k].member, Scenarios[k].task)

\* COMPLETE is printed only by a run that had a leak to find and found it, whose
\* audit file holds its own record and nothing else, and whose digest was answered
\* by the client its label names, whatever earlier runs raised or were killed in
\* (evidence/__main__.py:217, 261-263).
CompleteIsProven ==
    section = "complete" =>
        /\ SomethingToLeak
        /\ gate = "blocked" /\ leaky
        /\ auditFile = [records |-> 1, whole |-> TRUE]
        /\ answer.client = IF Live THEN "openai" ELSE "simulated"

\* Every simulated run of one family hashes the same payload, whatever day it is
\* and whatever runs, live ones too, came before or were killed
\* (evidence/__main__.py:14, 258).
SameHash == Cardinality(hashes) <= 1

\* A window of requests at the headline cost pays for its boot, its idle time and
\* every warm call of it, up to the rounding of the two parts (cost.py:84-93).
HeadlineCovers ==
    LET config == CostConfig
        window == config.requests_per_window
    IN  360 * window * (Headline(price) + 1)
            >= config.cents_per_hour * (config.boot + config.idle + window * split.warm.latency)

\* The fleet printed next to it is one that could serve: every row's replicas hold
\* the load they are priced for, a longer context is never cheaper, the exposure
\* does not grow with the traffic, and the sparse projection is above the pooled
\* floor, unless the host is cheaper than the pool's GPU (cost.py:122-141, 269-300,
\* evidence/__main__.py:49, 154-156).
CostHonest ==
    price # NoPrice =>
        LET rows == ScenarioTable(FleetScenarios)
        IN  /\ HeadlineCovers
            /\ \A i \in 1..Len(rows) :
                  /\ BandBrackets(FleetScenarios[i]) /\ ExposureFlat(FleetScenarios[i])
                  /\ CostConfig.cents_per_hour >= GPU_CENTS_PER_HOUR => rows[i].low <= FleetDay
                  /\ \A j \in 1..i : rows[j].low <= rows[i].low /\ rows[j].high <= rows[i].high
----
(***************************************************************************)
(* What makes these hold, as one inductive invariant in parts.             *)
(***************************************************************************)
Answered == \/ section \in {"price", "clean", "leak", "conclude", "complete", "incomplete"}
            \/ section = "split" /\ ~Live

\* The audit file holds nothing until the digest is answered and exactly its record
\* from then on; the answer is one the gateway may give.
AnswerInv ==
    /\ env \in Environments /\ auditFile \in [records : 0..1, whole : BOOLEAN]
    /\ section = "respond" \/ (section = "split" /\ Live) => auditFile.records = 0
    /\ Answered => auditFile = [records |-> 1, whole |-> TRUE] /\ answer \in Answers(Now, ~Live)

\* What is kept of the second gate is what that gate, with the leak, came to.
VerdictInv ==
    /\ verdict.violations \in Nat /\ DOMAIN verdict = {"clean", "leak", "violations"}
    /\ section \in {"leak", "conclude", "complete", "incomplete"} => leaky
    /\ section \in {"conclude", "complete", "incomplete"} =>
          /\ gate \in {"passed", "blocked"}
          /\ verdict.leak = gate
          /\ verdict.violations = TotalViolations(results)
    /\ section = "complete" => Proven

\* The sample is taken before it is priced, and a simulated one is always the same.
SimulatedPrice == SelfHostedCost(Simulated(TRUE), DefaultConfig)

PriceInv ==
    /\ ~Live /\ section = "price" => split.warm = Simulated(TRUE)
    /\ ~Live /\ section \in {"clean", "leak", "conclude", "complete", "incomplete"} =>
          price = SimulatedPrice

\* Two samples of one client, the second one warm, were taken and are what was priced.
Sampled ==
    IF Live
    THEN \E up \in BOOLEAN, first \in WarmLatencies, second \in WarmLatencies :
            split = [cold |-> Completed(FALSE, IF up THEN first ELSE first + BootLatency),
                     warm |-> Completed(TRUE, second)]
    ELSE split = [cold |-> Simulated(FALSE), warm |-> Simulated(TRUE)]

CostInv ==
    /\ loaded \in BOOLEAN
    /\ section \in {"alone", "start", "split", "respond", "price"} => price = NoPrice
    /\ section = "price" \/ (section = "respond" /\ Live) \/ price # NoPrice => Sampled
    /\ price # NoPrice => price = SelfHostedCost(split.warm, CostConfig)

\* All that a simulated run hashes, from the family alone.
SimulatedAnswer ==
    LET refs == Assemble(family, Digest.member, Digest.task, Now)
        decided == DecideRoute(Digest, refs, ReportedHealth)
    IN  [route |-> decided, client |-> IF decided = "self_hosted" THEN "simulated" ELSE "template",
         included |-> IncludedCount(refs),
         excluded |-> Cardinality(DOMAIN refs) - IncludedCount(refs)]

LeakResults ==
    [k \in 1..Len(Scenarios) |-> JudgeContext(Scenarios[k], LeakyAssemble(family))]

SimulatedPayload ==
    [answer |-> SimulatedAnswer, price |-> SimulatedPrice,
     fleet_day |-> SparseDay(Headline(SimulatedPrice), 4000),
     leak_blocked |-> SomethingToLeak, violations |-> TotalViolations(LeakResults),
     chain_intact |-> TRUE]

\* The answer and the samples are those of this process, or not taken yet.
ProcessInv ==
    /\ clock \in Clocks /\ runs \in 1..MaxRuns /\ gateFile \in [Gates -> BOOLEAN]
    /\ section \in Gates \cup Ended \cup {"start", "split", "respond", "price", "conclude"}
    /\ answer = NoAnswer \/ answer \in Answers(Now, ~Live)
    /\ split = NoSplit \/ Sampled

RunInv == /\ GateInv /\ AnswerInv /\ VerdictInv /\ PriceInv /\ CostInv
          /\ hashes \subseteq {SimulatedPayload}
=============================================================================
