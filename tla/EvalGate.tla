------------------------------- MODULE EvalGate -------------------------------
(***************************************************************************)
(* eval/gate.py: the release gate runs the product scenarios one after     *)
(* another through one gateway whose clients are all the template, asks    *)
(* check_no_leakage about each answer, and blocks on any violation.  With  *)
(* --inject-leak the assembler is that of eval/leaky_assembly.py.          *)
(***************************************************************************)
EXTENDS Routing, SyntheticFamily

CONSTANTS Families,  \* the families the gate is run over
          Now        \* ANCHOR, the instant of every request

ASSUME GateAssumption == /\ Now \in Nat
                         /\ Families \subseteq [FamilyItems -> ContextItem]

VARIABLES family,   \* the candidates
          leaky,    \* --inject-leak
          results,  \* one per scenario that was run
          gate      \* running, passed, blocked or raised

vars == <<family, leaky, results, gate>>

Scenario(member, task, class, routes) ==
    [member |-> member, task |-> task, request_class |-> class, expect_routes |-> routes]

\* eval/scenarios/product_scenarios.json
Scenarios ==
    <<Scenario("m_mom", "family_digest", "batch",
               {"self_hosted", "hosted_fast", "deterministic_fallback"}),
      Scenario("m_child", "family_digest", "batch",
               {"self_hosted", "hosted_fast", "deterministic_fallback"}),
      Scenario("m_dad", "notify_decision", "interactive", {"hosted_strong"}),
      Scenario("m_mom", "lost_item", "interactive",
               {"self_hosted", "hosted_fast", "hosted_strong"}),
      Scenario("m_child", "notify_decision", "interactive", Routes)>>

Init == /\ family \in Families
        /\ leaky \in BOOLEAN
        /\ results = <<>>
        /\ gate = "running"
----
\* leaky_assemble_context: consent is the only gate.
LeakyAssemble(candidates) ==
    [i \in DOMAIN candidates |->
        LET admitted == candidates[i].consent_state = "granted"
        IN  [included |-> admitted, reason |-> IF admitted THEN Allowed ELSE "consent",
             sensitivity |-> candidates[i].sensitivity]]

\* Mutant: the flag does not reach the gateway.
AssembledAsShipped(sc) == Assemble(family, sc.member, sc.task, Now)

\* _build_gateway picks the assembler.
Assembled(sc) == IF leaky THEN LeakyAssemble(family)
                 ELSE Assemble(family, sc.member, sc.task, Now)

\* DeterministicClient.healthy and .saturated
Health == [healthy |-> TRUE, saturated |-> FALSE]

\* Gateway.infer with template clients, then the leakage checks: the template
\* lists every item of its prompt, whatever route it stands for.
JudgeContext(sc, refs) ==
    LET route == DecideRoute(sc, refs, Health)
        text == Included(refs)
    IN  [route |-> route, route_expected |-> route \in sc.expect_routes,
         violations |-> Cardinality(Admitted(family, refs, sc.member, sc.task, Now))
                        + Cardinality(Surfaced(family, text, sc.member, sc.task, Now))]

Judge(sc) == JudgeContext(sc, Assembled(sc))

\* Mutant: the loop variable is read after the loop.
BlockedByLast == results[Len(results)].violations > 0

\* GateResult.blocked
Blocked == \E i \in 1..Len(results) : results[i].violations > 0

\* run_gate: the next scenario.
RunScenario == /\ gate = "running"
               /\ Len(results) < Len(Scenarios)
               /\ results' = Append(results, Judge(Scenarios[Len(results) + 1]))
               /\ UNCHANGED <<family, leaky, gate>>

\* The audit append of a scenario raises (the file of an earlier run is kept and
\* may be spoiled): the gate ends with the exception.
GateRaises == /\ gate = "running"
              /\ Len(results) < Len(Scenarios)
              /\ gate' = "raised"
              /\ UNCHANGED <<family, leaky, results>>

\* main: the verdict and the exit status.
Verdicts == /\ gate = "running"
            /\ Len(results) = Len(Scenarios)
            /\ gate' = IF Blocked THEN "blocked" ELSE "passed"
            /\ UNCHANGED <<family, leaky, results>>

Next == RunScenario \/ GateRaises \/ Verdicts

Spec == Init /\ [][Next]_vars
----
TypeOK == /\ DOMAIN family = FamilyItems
          /\ leaky \in BOOLEAN
          /\ results \in Seq([route : Routes, route_expected : BOOLEAN, violations : Nat])
          /\ Len(results) <= Len(Scenarios)
          /\ gate \in {"running", "passed", "blocked", "raised"}

\* What a member may be told, said without the order of the gates.
MayKnow(item, member, task) ==
    /\ member \in item.visible_to
    /\ item.consent_state = "granted"
    /\ item.prompt_eligible
    /\ item.summarizable \/ task \notin SummaryTasks
    /\ \/ item.retention_policy.kind \in {"never", "session"}
       \/ /\ item.retention_policy.kind = "days"
          /\ Now - item.timestamp <= Day * item.retention_policy.days

\* The gate is neither blind nor nervous: it blocks exactly when the injected
\* assembler lets some scenario's member have an item that is not for them
\* (gate.py:47-48, privacy_asserts.py:53-65, leaky_assembly.py:31-33).
GateExact ==
    gate \in {"passed", "blocked"} =>
        (gate = "blocked" <=>
            /\ leaky
            /\ \E k \in 1..Len(Scenarios), i \in FamilyItems :
                  /\ family[i].consent_state = "granted"
                  /\ ~MayKnow(family[i], Scenarios[k].member, Scenarios[k].task))

\* The shipped family with the leaky assembler is never released, whatever fails
\* while the gate runs (README.md:25, "is blocked by CI").
LeakNeverReleased == leaky /\ family = BuildFamily(Now) => gate # "passed"
----
\* What the gate has at any time: the verdicts, in order, of the scenarios it has
\* run, and once it has ended well, of all of them.
GateInv ==
    /\ family \in Families
    /\ leaky \in BOOLEAN
    /\ gate \in {"running", "passed", "blocked", "raised"}
    /\ results \in Seq([route : Routes, route_expected : BOOLEAN, violations : Nat])
    /\ Len(results) <= Len(Scenarios)
    /\ \A k \in 1..Len(results) : results[k] = Judge(Scenarios[k])
    /\ gate \in {"passed", "blocked"} =>
          Len(results) = Len(Scenarios) /\ (gate = "blocked" <=> Blocked)
=============================================================================
