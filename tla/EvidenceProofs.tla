---------------------------- MODULE EvidenceProofs ----------------------------
(***************************************************************************)
(* Proofs about the release gate and the evidence run around it, for every *)
(* set of families, environments and clock readings and any number of      *)
(* starts of the process.                                                  *)
(***************************************************************************)
EXTENDS EvidenceRun, OperatorProofs

\* The family has finitely many items.
LEMMA FamilyIsFinite == IsFiniteSet(FamilyItems)
<1>1. IsFiniteSet({"i_groceries"} \cup {"i_teen_location"} \cup {"i_child_counselor"})
  BY FS_Singleton, FS_Union
<1>2. IsFiniteSet({"i_private_doc"} \cup {"i_stale_ping"} \cup {"i_safety_evidence"}
                      \cup {"i_revoked"})
  BY FS_Singleton, FS_Union
<1>3. FamilyItems =
        ({"i_groceries"} \cup {"i_teen_location"} \cup {"i_child_counselor"}) \cup
        ({"i_private_doc"} \cup {"i_stale_ping"} \cup {"i_safety_evidence"} \cup {"i_revoked"})
  BY DEF FamilyItems
<1>4. QED
  BY <1>1, <1>2, <1>3, FS_Union

\* The two accounts of what a member may be told agree: that of the code, gate by
\* gate (authorization.py:38-60), and the one the gate's properties are stated in.
LEMMA MayKnowIsAuthorized ==
    ASSUME NEW item \in ContextItem, NEW member, NEW task
    PROVE  MayKnow(item, member, task) <=> Authorized(item, member, task, Now)
<1>1. /\ Now \in Nat /\ item.timestamp \in Nat
      /\ item.retention_policy.kind \in {"never", "session", "days", "unknown"}
      /\ item.retention_policy.days \in Nat /\ Day \in Nat
  BY GateAssumption, DayAssumption DEF ContextItem, RetentionPolicy
<1>2. Day * item.retention_policy.days \in Nat
  BY <1>1
<1>3. Now > Horizon(item) <=> ~(Now - item.timestamp <= Day * item.retention_policy.days)
  BY <1>1, <1>2 DEF Horizon
<1>4. Expired(item, Now) <=>
        ~ \/ item.retention_policy.kind \in {"never", "session"}
          \/ /\ item.retention_policy.kind = "days"
             /\ Now - item.timestamp <= Day * item.retention_policy.days
  BY <1>1, <1>3 DEF Expired
<1>5. QED
  BY <1>4 DEF MayKnow, Authorized, MemberSees, Allowed

\* What an assembler that looks at consent only would give away of a scenario.
Exposed(sc) == {i \in FamilyItems : /\ family[i].consent_state = "granted"
                                    /\ ~MayKnow(family[i], sc.member, sc.task)}

\* The verdict on one scenario: what the checks of the prompt and of the answer
\* count is nothing with the shipped assembler, and with the injected one, each
\* item twice that is given away.
LEMMA JudgeCounts ==
    ASSUME family \in [FamilyItems -> ContextItem], leaky \in BOOLEAN, NEW sc
    PROVE  Judge(sc).violations =
              IF leaky THEN Cardinality(Exposed(sc)) + Cardinality(Exposed(sc)) ELSE 0
<1>1. Cardinality({}) = 0
  BY FS_EmptySet
<1>2. CASE leaky
  <2> DEFINE refs == LeakyAssemble(family)
  <2>1. Assembled(sc) = refs
    BY <1>2 DEF Assembled
  <2>2. /\ DOMAIN refs = FamilyItems
        /\ \A i \in FamilyItems :
              refs[i].included <=> family[i].consent_state = "granted"
    BY DEF LeakyAssemble
  <2> HIDE DEF refs
  <2>3. \A i \in FamilyItems : MayKnow(family[i], sc.member, sc.task)
                                 <=> Authorized(family[i], sc.member, sc.task, Now)
    BY MayKnowIsAuthorized
  <2>4. Admitted(family, refs, sc.member, sc.task, Now) = Exposed(sc)
    BY <2>2, <2>3 DEF Admitted, Exposed
  <2>5. Surfaced(family, Included(refs), sc.member, sc.task, Now) = Exposed(sc)
    BY <2>2, <2>3 DEF Surfaced, Included, Exposed
  <2>6. QED
    BY <1>2, <2>1, <2>4, <2>5 DEF Judge, JudgeContext
<1>3. CASE ~leaky
  <2> DEFINE refs == Assemble(family, sc.member, sc.task, Now)
  <2>1. Assembled(sc) = refs
    BY <1>3 DEF Assembled
  <2>2. /\ Admitted(family, refs, sc.member, sc.task, Now) = {}
        /\ Surfaced(family, Included(refs), sc.member, sc.task, Now) = {}
    BY AssembledIsAuthorized
  <2> HIDE DEF refs
  <2>3. QED
    BY <1>1, <1>3, <2>1, <2>2 DEF Judge, JudgeContext
<1>4. QED
  BY <1>2, <1>3

\* A scenario has violations exactly when the leak is injected and gives an item away.
LEMMA JudgeExact ==
    ASSUME family \in [FamilyItems -> ContextItem], leaky \in BOOLEAN, NEW sc
    PROVE  /\ Judge(sc).violations \in Nat
           /\ Judge(sc).violations > 0 <=> leaky /\ Exposed(sc) # {}
<1>1. IsFiniteSet(Exposed(sc))
  BY FamilyIsFinite, FS_Subset DEF Exposed
<1>2. /\ Cardinality(Exposed(sc)) \in Nat
      /\ Cardinality(Exposed(sc)) = 0 <=> Exposed(sc) = {}
  BY <1>1, FS_CardinalityType, FS_EmptySet
<1>3. QED
  BY <1>2, JudgeCounts

\* A verdict is a function of the family and of the assembler.
LEMMA JudgeStays == UNCHANGED <<family, leaky>> => \A sc : Judge(sc)' = Judge(sc)
BY DEF Judge, JudgeContext, Assembled

\* Every verdict is well typed.
LEMMA JudgeTyped ==
    ASSUME family \in [FamilyItems -> ContextItem], leaky \in BOOLEAN, NEW sc
    PROVE  Judge(sc) \in [route : Routes, route_expected : BOOLEAN, violations : Nat]
<1>1. Judge(sc).violations \in Nat
  BY JudgeExact
<1>2. \A r : (r \in sc.expect_routes) \in BOOLEAN
  OBVIOUS
<1>3. QED
  BY <1>1, <1>2, DecisionTyped DEF Judge, JudgeContext

\* The gate's invariant holds from the start and every step of it keeps it.
LEMMA GateInductive == /\ Init => GateInv
                       /\ GateInv /\ [Next]_vars => GateInv'
<1>0. Len(Scenarios) = 5
  BY DEF Scenarios
<1>1. Init => GateInv
  BY <1>0 DEF Init, GateInv
<1>2. ASSUME GateInv, [Next]_vars
      PROVE  GateInv'
  <2>0. family \in [FamilyItems -> ContextItem]
    BY <1>2, GateAssumption DEF GateInv
  <2>1. CASE RunScenario
    <3>1. /\ UNCHANGED <<family, leaky, gate>> /\ gate = "running"
          /\ Len(results) < Len(Scenarios)
          /\ results' = Append(results, Judge(Scenarios[Len(results) + 1]))
      BY <2>1 DEF RunScenario
    <3>2. Judge(Scenarios[Len(results) + 1])
             \in [route : Routes, route_expected : BOOLEAN, violations : Nat]
      BY <1>2, <2>0, JudgeTyped DEF GateInv
    <3>3. /\ results' \in Seq([route : Routes, route_expected : BOOLEAN, violations : Nat])
          /\ Len(results') = Len(results) + 1
          /\ \A k \in 1..Len(results') : results'[k] = Judge(Scenarios[k])
      BY <1>2, <3>1, <3>2 DEF GateInv
    <3>4. \A sc : Judge(sc)' = Judge(sc)
      BY <3>1, JudgeStays
    <3>5. QED
      BY <1>0, <1>2, <3>1, <3>3, <3>4 DEF GateInv
  <2>2. CASE GateRaises
    <3>1. /\ UNCHANGED <<family, leaky, results>> /\ gate' = "raised"
          /\ \A sc : Judge(sc)' = Judge(sc)
      BY <2>2, JudgeStays DEF GateRaises
    <3>2. QED
      BY <1>2, <3>1 DEF GateInv
  <2>3. CASE Verdicts
    <3>1. /\ UNCHANGED <<family, leaky, results>> /\ Len(results) = Len(Scenarios)
          /\ gate' = IF Blocked THEN "blocked" ELSE "passed"
          /\ \A sc : Judge(sc)' = Judge(sc)
      BY <2>3, JudgeStays DEF Verdicts
    <3>2. Blocked' <=> Blocked
      BY <3>1 DEF Blocked
    <3>3. QED
      BY <1>2, <3>1, <3>2 DEF GateInv
  <2>4. CASE UNCHANGED vars
    <3>1. /\ UNCHANGED <<family, leaky, results, gate>>
          /\ \A sc : Judge(sc)' = Judge(sc)
      BY <2>4, JudgeStays DEF vars
    <3>2. Blocked' <=> Blocked
      BY <3>1 DEF Blocked
    <3>3. QED
      BY <1>2, <3>1, <3>2 DEF GateInv
  <2>5. QED
    BY <1>2, <2>1, <2>2, <2>3, <2>4 DEF Next
<1>3. QED
  BY <1>1, <1>2

\* Where the gate has ended well it has told a leak from none.
LEMMA GateTells == GateInv => GateExact /\ LeakNeverReleased
<1> SUFFICES ASSUME GateInv
             PROVE  GateExact /\ LeakNeverReleased
  OBVIOUS
<1>1. family \in [FamilyItems -> ContextItem]
  BY GateAssumption DEF GateInv
<1>2. ASSUME gate \in {"passed", "blocked"}
      PROVE  gate = "blocked" <=>
               leaky /\ \E k \in 1..Len(Scenarios) : Exposed(Scenarios[k]) # {}
  BY <1>1, <1>2, JudgeExact DEF GateInv, Blocked
<1>3. GateExact
  BY <1>2 DEF GateExact, Exposed
<1>4. ASSUME leaky, family = BuildFamily(Now)
      PROVE  gate # "passed"
  <2>1. 1 \in 1..Len(Scenarios) /\ Scenarios[1].task = "family_digest"
    BY DEF Scenarios, Scenario
  <2>2. /\ family["i_private_doc"].consent_state = "granted"
        /\ ~family["i_private_doc"].summarizable
    BY <1>4 DEF BuildFamily, FamilyItem
  <2>3. /\ "i_private_doc" \in FamilyItems
        /\ ~MayKnow(family["i_private_doc"], Scenarios[1].member, Scenarios[1].task)
    BY <2>1, <2>2 DEF FamilyItems, MayKnow, SummaryTasks
  <2>4. QED
    BY <1>2, <1>4, <2>1, <2>2, <2>3 DEF Exposed
<1>5. QED
  BY <1>3, <1>4 DEF LeakNeverReleased
----
\* What may be answered is a function of the family and of the environment.
LEMMA AnswersStay ==
    UNCHANGED <<family, env>> =>
        (Live' <=> Live) /\ Answers(Now, ~Live)' = Answers(Now, ~Live)
BY DEF Answers, Live, Digest

\* An answer counts every item of the family once.
LEMMA AnswersTyped ==
    ASSUME family \in [FamilyItems -> ContextItem], NEW offline \in BOOLEAN,
           NEW given \in Answers(Now, offline)
    PROVE  given \in [route : Routes, client : Remote \cup {"simulated", "template"},
                      included : Nat, excluded : Nat]
<1> DEFINE refs == Assemble(family, Digest.member, Digest.task, Now)
           decided == DecideRoute(Digest, refs, ReportedHealth)
<1>1. DOMAIN refs = FamilyItems
  BY DEF Assemble
<1>2. PICK route \in MayAnswer(env, offline, decided) :
         given = [route |-> route, client |-> ClientBehind(env, offline, route),
                  included |-> IncludedCount(refs),
                  excluded |-> Cardinality(DOMAIN refs) - IncludedCount(refs)]
  BY Zenon DEF Answers
<1>3. IncludedCount(refs) \in Nat /\ Cardinality(DOMAIN refs) - IncludedCount(refs) \in Nat
  <2>1. Included(refs) \subseteq DOMAIN refs
    BY DEF Included
  <2> HIDE DEF refs
  <2>2. /\ Cardinality(DOMAIN refs) \in Nat /\ Cardinality(Included(refs)) \in Nat
        /\ Cardinality(Included(refs)) <= Cardinality(DOMAIN refs)
    BY <1>1, <2>1, FamilyIsFinite, FS_Subset, FS_CardinalityType
  <2>3. QED
    BY <2>2 DEF IncludedCount
<1> HIDE DEF refs, decided
<1>4. route \in Routes
  BY DEF MayAnswer
<1>5. ClientBehind(env, offline, route) \in Remote \cup {"simulated", "template"}
  BY DEF ClientBehind, Remote, SelfHostedFromEnv, Hosted
<1>6. QED
  BY <1>2, <1>3, <1>4, <1>5

\* A simulated run has one answer to give: none of its clients calls out.
LEMMA SimulatedAnswers == ~Live => Answers(Now, ~Live) \subseteq {SimulatedAnswer}
<1> SUFFICES ASSUME ~Live, NEW given \in Answers(Now, ~Live)
             PROVE  given = SimulatedAnswer
  OBVIOUS
<1> DEFINE refs == Assemble(family, Digest.member, Digest.task, Now)
           decided == DecideRoute(Digest, refs, ReportedHealth)
<1>1. PICK route \in MayAnswer(env, ~Live, decided) :
         given = [route |-> route, client |-> ClientBehind(env, ~Live, route),
                  included |-> IncludedCount(refs),
                  excluded |-> Cardinality(DOMAIN refs) - IncludedCount(refs)]
  BY Zenon DEF Answers
<1>2. (~Live) = TRUE
  OBVIOUS
<1>3. SimulatedAnswer =
         [route |-> decided, client |-> IF decided = "self_hosted" THEN "simulated" ELSE "template",
          included |-> IncludedCount(refs),
          excluded |-> Cardinality(DOMAIN refs) - IncludedCount(refs)]
  BY DEF SimulatedAnswer
<1>4. decided \in Routes
  BY DecisionTyped
<1> HIDE DEF refs, decided
<1>5. \A r : ClientBehind(env, TRUE, r) =
               IF r = "self_hosted" THEN "simulated" ELSE "template"
  BY DEF ClientBehind
<1>6. route = decided
  <2>1. route \in Routes /\ Rung(route) \in 1..4 /\ Rung(decided) \in 1..4
    BY <1>4, Rungs DEF MayAnswer
  <2>2. Rung(decided) <= Rung(route)
    BY DEF MayAnswer
  <2>3. \A i \in Rung(decided)..(Rung(route) - 1) :
           ClientBehind(env, TRUE, Ladder[i]) \in Remote
    BY <1>2 DEF MayAnswer
  <2>4. Rung(decided) \notin Rung(decided)..(Rung(route) - 1)
    BY <1>5, <2>3 DEF Remote
  <2>5. Rung(route) = Rung(decided)
    BY <2>1, <2>2, <2>4
  <2>6. QED
    BY <1>4, <2>1, <2>5, Rungs
<1>7. QED
  BY <1>1, <1>2, <1>3, <1>5, <1>6

\* What a simulated run hashes is a function of the family.
LEMMA PayloadStays ==
    UNCHANGED family => SimulatedPayload' = SimulatedPayload
<1> SUFFICES ASSUME UNCHANGED family
             PROVE  SimulatedPayload' = SimulatedPayload
  OBVIOUS
<1>1. SomethingToLeak' = SomethingToLeak
  BY DEF SomethingToLeak
<1>2. LeakResults' = LeakResults
  BY DEF LeakResults, JudgeContext
<1>3. SimulatedAnswer' = SimulatedAnswer
  BY DEF SimulatedAnswer
<1>4. QED
  BY <1>1, <1>2, <1>3 DEF SimulatedPayload

\* A step of the run leaves the family as it is, and the gate's variables to the gate
\* or to its next run.
LEMMA GateKept ==
    RunInv /\ [EvidenceNext]_<<vars, evidence>> => GateInv' /\ UNCHANGED family
<1> SUFFICES ASSUME RunInv, [EvidenceNext]_<<vars, evidence>>
             PROVE  GateInv' /\ UNCHANGED family
  OBVIOUS
<1>1. CASE [Next]_vars
  <2>1. UNCHANGED family
    BY <1>1 DEF Next, RunScenario, GateRaises, Verdicts, vars
  <2>2. QED
    BY <1>1, <2>1, GateInductive DEF RunInv
<1>2. CASE CleanGateEnds \/ Rerun
  <2>1. /\ UNCHANGED family /\ leaky' \in BOOLEAN /\ results' = <<>> /\ gate' = "running"
    BY <1>2 DEF CleanGateEnds, Rerun
  <2>2. QED
    BY <2>1 DEF RunInv, GateInv
<1>3. [Next]_vars \/ CleanGateEnds \/ Rerun
  BY DEF EvidenceNext, Begin, Respond, LatencySplit, Price, GateStep, LeakGateEnds, Conclude,
         Raises, Killed
<1>4. QED
  BY <1>1, <1>2, <1>3

\* The answer's record is kept as the only one.
LEMMA AnswerKept ==
    RunInv /\ [EvidenceNext]_<<vars, evidence>> => AnswerInv'
<1> SUFFICES ASSUME RunInv, [EvidenceNext]_<<vars, evidence>>
             PROVE  AnswerInv'
  OBVIOUS
<1>0. UNCHANGED family
  BY GateKept
<1>1. UNCHANGED env => (Live' <=> Live) /\ Answers(Now, ~Live)' = Answers(Now, ~Live)
  BY <1>0, AnswersStay
<1>2. CASE Begin
  BY <1>2, <1>1 DEF Begin, RunInv, AnswerInv, Answered, process
<1>3. CASE Respond
  <2>1. /\ answer' \in Answers(Now, ~Live) /\ UNCHANGED env
        /\ auditFile' = [auditFile EXCEPT !.records = @ + 1] /\ auditFile.whole
        /\ auditFile.records = 0 /\ auditFile \in [records : 0..1, whole : BOOLEAN]
    BY <1>3, Zenon DEF Respond, RunInv, AnswerInv, process
  <2>2. auditFile' = [records |-> 1, whole |-> TRUE]
    <3>1. auditFile = [records |-> 0, whole |-> auditFile.whole] /\ auditFile.whole = TRUE
      BY <2>1
    <3>2. auditFile = [records |-> 0, whole |-> TRUE]
      BY <3>1
    <3>3. auditFile' = [auditFile EXCEPT !.records = 1]
      BY <2>1
    <3>4. QED
      BY <3>2, <3>3
  <2>3. section' = IF Live THEN "price" ELSE "split"
    BY <1>3 DEF Respond
  <2>4. Live' <=> Live
    BY <1>1, <2>1
  <2>5. env' \in Environments /\ auditFile' \in [records : 0..1, whole : BOOLEAN]
    BY <2>1, <2>2 DEF RunInv, AnswerInv
  <2>6. answer' \in Answers(Now, ~Live)'
    BY <1>1, <2>1, Zenon
  <2>7. ~(section' = "respond" \/ (section' = "split" /\ Live'))
    BY <2>3, <2>4
  <2>8. QED
    BY <2>2, <2>5, <2>6, <2>7, Zenon DEF AnswerInv
<1>4. CASE LatencySplit
  <2>1. /\ section = "split" /\ section' = IF Live THEN "respond" ELSE "price"
        /\ UNCHANGED <<env, auditFile, answer>>
    BY <1>4 DEF LatencySplit, process, files
  <2>2. QED
    BY <1>1, <2>1 DEF RunInv, AnswerInv, Answered
<1>5. CASE \/ Price \/ GateStep \/ CleanGateEnds \/ LeakGateEnds \/ Conclude
           \/ UNCHANGED <<vars, evidence>>
  <2>1. /\ UNCHANGED <<env, auditFile, answer>>
        /\ \/ section' = section
           \/ section \in {"price", "clean", "leak", "conclude"}
              /\ section' \in {"clean", "leak", "conclude", "complete", "incomplete"}
    BY <1>5 DEF Price, GateStep, CleanGateEnds, LeakGateEnds, Conclude, evidence, process,
                files, printed
  <2>2. QED
    BY <1>1, <2>1 DEF RunInv, AnswerInv, Answered
<1>6. CASE Raises \/ Killed
  <2>1. /\ UNCHANGED env /\ section' \in {"raised", "killed"}
        /\ auditFile' \in [records : 0..1, whole : BOOLEAN]
    BY <1>6 DEF Raises, Killed, RunInv, AnswerInv, process, files
  <2>2. QED
    BY <2>1 DEF RunInv, AnswerInv, Answered
<1>7. CASE Rerun
  <2>1. section' = "start" /\ env' \in Environments /\ UNCHANGED auditFile
    BY <1>7 DEF Rerun, files
  <2>2. QED
    BY <2>1 DEF RunInv, AnswerInv, Answered
<1>8. QED
  BY <1>2, <1>3, <1>4, <1>5, <1>6, <1>7 DEF EvidenceNext

\* The violations of any verdicts add up to a number.
LEMMA TotalTyped ==
    ASSUME NEW judged \in Seq([route : Routes, route_expected : BOOLEAN, violations : Nat])
    PROVE  TotalViolations(judged) \in Nat
<1> DEFINE s == [i \in 1..Len(judged) |-> judged[i].violations]
           upTo == CHOOSE f : f = [i \in 0..Len(judged) |->
                                     IF i = 0 THEN 0 ELSE f[i - 1] + judged[i].violations]
<1>1. \A f : RunningTotal(f, s, Len(judged)) <=>
               f = [i \in 0..Len(judged) |->
                      IF i = 0 THEN 0 ELSE f[i - 1] + judged[i].violations]
  <2>1. \A i \in 0..Len(judged) : i # 0 => s[i] = judged[i].violations
    OBVIOUS
  <2>2. ASSUME NEW f
        PROVE  [i \in 0..Len(judged) |-> IF i = 0 THEN 0 ELSE f[i - 1] + s[i]]
                 = [i \in 0..Len(judged) |->
                      IF i = 0 THEN 0 ELSE f[i - 1] + judged[i].violations]
    BY <2>1
  <2>3. QED
    BY <2>2, Zenon DEF RunningTotal
<1>2. Len(judged) \in Nat /\ \A i \in 1..Len(judged) : s[i] \in Nat
  <2>1. \A i \in 1..Len(judged) :
           judged[i] \in [route : Routes, route_expected : BOOLEAN, violations : Nat]
    <3>1. \A S, q : q \in Seq(S) => \A i \in 1..Len(q) : q[i] \in S
      OBVIOUS
    <3>2. QED
      BY <3>1, Zenon
  <2>2. \A i \in 1..Len(judged) : judged[i].violations \in Nat
    BY <2>1
  <2>3. QED
    BY <2>2
<1>3. RunningTotal(upTo, s, Len(judged))
  BY <1>1, <1>2, RunningTotals, Zenon
<1>4. TotalViolations(judged) = upTo[Len(judged)]
  BY DEF TotalViolations
<1> HIDE DEF upTo, s
<1>5. upTo[Len(judged)] \in Nat
  BY <1>2, <1>3, RunningTotalTyped
<1>6. QED
  BY <1>4, <1>5

\* What is kept of the second gate stays its verdict.
LEMMA VerdictKept ==
    RunInv /\ [EvidenceNext]_<<vars, evidence>> => VerdictInv'
<1> SUFFICES ASSUME RunInv, [EvidenceNext]_<<vars, evidence>>
             PROVE  VerdictInv'
  OBVIOUS
<1> DEFINE Past == {"conclude", "complete", "incomplete"}
<1>1. CASE Begin \/ Respond \/ LatencySplit \/ Price \/ Raises \/ Killed
  <2>1. /\ section' \notin {"leak"} \cup Past /\ UNCHANGED verdict
    BY <1>1 DEF Begin, Respond, LatencySplit, Price, Raises, Killed, printed
  <2>2. QED
    BY <2>1 DEF RunInv, VerdictInv
<1>2. CASE GateStep
  <2>1. /\ UNCHANGED <<section, leaky, verdict>> /\ section \in Gates
    BY <1>2 DEF GateStep, Next, RunScenario, GateRaises, Verdicts, printed
  <2>2. QED
    BY <2>1 DEF RunInv, VerdictInv, Gates
<1>3. CASE CleanGateEnds
  <2>1. /\ verdict' = [verdict EXCEPT !.clean = gate] /\ section' = "leak" /\ leaky'
    BY <1>3 DEF CleanGateEnds
  <2>2. QED
    BY <2>1 DEF RunInv, VerdictInv
<1>4. CASE LeakGateEnds
  <2>1. /\ verdict' = [verdict EXCEPT !.leak = gate, !.violations = TotalViolations(results)]
        /\ UNCHANGED <<leaky, gate, results>> /\ gate \in {"passed", "blocked"}
        /\ section = "leak" /\ section' = "conclude"
    BY <1>4 DEF LeakGateEnds, vars
  <2>2. TotalViolations(results) \in Nat
    BY TotalTyped DEF RunInv, GateInv
  <2>3. verdict'.leak = gate /\ verdict'.violations = TotalViolations(results)
    BY <2>1 DEF RunInv, VerdictInv
  <2>4. TotalViolations(results') = TotalViolations(results)
    BY <2>1
  <2>5. DOMAIN verdict' = {"clean", "leak", "violations"} /\ leaky'
    BY <2>1 DEF RunInv, VerdictInv
  <2>6. QED
    BY <2>1, <2>2, <2>3, <2>4, <2>5 DEF VerdictInv
<1>5. CASE Conclude
  <2>1. /\ UNCHANGED <<leaky, gate, results, verdict, auditFile, answer>>
        /\ section = "conclude" /\ section' = IF Proven THEN "complete" ELSE "incomplete"
    BY <1>5 DEF Conclude, vars, printed, files
  <2>2. Proven' <=> Proven
    BY <2>1 DEF Proven
  <2>3. TotalViolations(results') = TotalViolations(results)
    BY <2>1
  <2>4. QED
    BY <2>1, <2>2, <2>3 DEF RunInv, VerdictInv
<1>6. CASE Rerun
  <2>1. section' = "start" /\ verdict' = NoVerdict
    BY <1>6 DEF Rerun
  <2>2. QED
    BY <2>1 DEF VerdictInv, NoVerdict
<1>7. CASE UNCHANGED <<vars, evidence>>
  <2>1. UNCHANGED <<leaky, gate, results, verdict, section, auditFile, answer>>
    BY <1>7 DEF vars, evidence, printed, files
  <2>2. /\ Proven' <=> Proven
        /\ TotalViolations(results') = TotalViolations(results)
    BY <2>1 DEF Proven
  <2>3. QED
    BY <2>1, <2>2 DEF RunInv, VerdictInv
<1>8. QED
  BY <1>1, <1>2, <1>3, <1>4, <1>5, <1>6, <1>7 DEF EvidenceNext

\* A simulated run is priced at the defaults.
LEMMA SimulatedCosts == ~Live => CostConfig = DefaultConfig
BY DEF CostConfig

\* The settings a run prices with are a function of its environment and its samples.
LEMMA ConfigStays == UNCHANGED <<env, split>> => CostConfig' = CostConfig
BY DEF CostConfig, DefaultConfig, Live

\* A simulated run has one price.
LEMMA PriceKept ==
    RunInv /\ [EvidenceNext]_<<vars, evidence>> => PriceInv'
<1> SUFFICES ASSUME RunInv, [EvidenceNext]_<<vars, evidence>>
             PROVE  PriceInv'
  OBVIOUS
<1> DEFINE Priced == {"clean", "leak", "conclude", "complete", "incomplete"}
<1>1. UNCHANGED env => (Live' <=> Live)
  BY DEF Live
<1>2. CASE Begin \/ Respond \/ Raises \/ Killed \/ Rerun
  <2>1. section' \notin Priced /\ (section' = "price" => Live /\ UNCHANGED env)
    BY <1>2 DEF Begin, Respond, Raises, Killed, Rerun, process
  <2>2. QED
    BY <1>1, <2>1 DEF PriceInv
<1>3. CASE LatencySplit
  <2>1. /\ UNCHANGED env /\ section' = IF Live THEN "respond" ELSE "price"
        /\ ~Live => split' = [cold |-> Simulated(FALSE), warm |-> Simulated(TRUE)]
    BY <1>3 DEF LatencySplit, process
  <2>2. ~Live => split'.warm = Simulated(TRUE)
    <3>1. \A cold, warm : [cold |-> cold, warm |-> warm].warm = warm
      OBVIOUS
    <3>2. QED
      BY <2>1, <3>1, Zenon
  <2>3. QED
    BY <1>1, <2>1, <2>2 DEF PriceInv
<1>4. CASE Price
  <2>1. /\ UNCHANGED env /\ section = "price" /\ section' = "clean"
        /\ price' = SelfHostedCost(split.warm, CostConfig)
    BY <1>4 DEF Price, process
  <2>2. ~Live => CostConfig = DefaultConfig
    BY SimulatedCosts
  <2>3. ~Live => split.warm = Simulated(TRUE)
    BY <2>1, Zenon DEF RunInv, PriceInv
  <2>4. ~Live => price' = SimulatedPrice
    BY <2>1, <2>2, <2>3, Zenon DEF SimulatedPrice
  <2>5. QED
    BY <1>1, <2>1, <2>4 DEF PriceInv, SimulatedPrice
<1>5. CASE GateStep \/ CleanGateEnds \/ LeakGateEnds \/ Conclude \/ UNCHANGED <<vars, evidence>>
  <2>1. /\ UNCHANGED <<env, split, price>>
        /\ section' = section \/ (section \in Priced /\ section' \in Priced)
    BY <1>5 DEF GateStep, CleanGateEnds, LeakGateEnds, Conclude, evidence, process, printed
  <2>2. QED
    BY <1>1, <2>1 DEF RunInv, PriceInv, SimulatedPrice
<1>6. QED
  BY <1>2, <1>3, <1>4, <1>5 DEF EvidenceNext

\* What is priced was sampled.
LEMMA CostKept ==
    RunInv /\ [EvidenceNext]_<<vars, evidence>> => CostInv'
<1> SUFFICES ASSUME RunInv, [EvidenceNext]_<<vars, evidence>>
             PROVE  CostInv'
  OBVIOUS
<1> DEFINE Unpriced == {"alone", "start", "split", "respond", "price"}
<1>1. UNCHANGED env => (Live' <=> Live)
  BY DEF Live
<1>2. UNCHANGED <<env, split>> => (Sampled' <=> Sampled)
  BY <1>1 DEF Sampled
<1>3. CASE Begin
  <2>1. /\ UNCHANGED <<env, split, price, loaded>> /\ section = "start"
        /\ section' = IF Live THEN "split" ELSE "respond"
    BY <1>3 DEF Begin, process, printed
  <2>2. QED
    BY <1>1, <1>2, <2>1 DEF RunInv, CostInv
<1>4. CASE Respond
  <2>1. /\ UNCHANGED <<env, split, price, loaded>> /\ section = "respond"
        /\ section' = IF Live THEN "price" ELSE "split"
    BY <1>4 DEF Respond, process
  <2>2. QED
    BY <1>1, <1>2, <2>1 DEF RunInv, CostInv
<1>5. CASE LatencySplit
  <2>1. /\ UNCHANGED <<env, price>> /\ section = "split"
        /\ section' = IF Live THEN "respond" ELSE "price"
    BY <1>5 DEF LatencySplit, process
  <2>2. Live => Sampled'
    <3>1. ASSUME Live
          PROVE  \E up \in LoadedAfterUnload, first \in WarmLatencies, second \in WarmLatencies :
                    split' = [cold |-> Completed(FALSE, IF up THEN first
                                                        ELSE first + BootLatency),
                              warm |-> Completed(TRUE, second)]
      BY <1>5, <3>1 DEF LatencySplit
    <3>2. LoadedAfterUnload \subseteq BOOLEAN
      BY DEF LoadedAfterUnload, RunInv, CostInv
    <3>3. QED
      BY <1>1, <2>1, <3>1, <3>2, Zenon DEF Sampled
  <2>3. ~Live => Sampled'
    BY <1>1, <1>5, <2>1, Zenon DEF LatencySplit, Sampled
  <2>4. price' = NoPrice
    BY <2>1 DEF RunInv, CostInv
  <2>5. loaded' \in BOOLEAN
    <3>1. Live \in BOOLEAN
      BY DEF Live
    <3>2. QED
      BY <1>5, <3>1, Zenon DEF LatencySplit
  <2>6. QED
    BY <2>2, <2>3, <2>4, <2>5, Zenon DEF CostInv
<1>6. CASE Price
  <2>1. /\ UNCHANGED <<env, split, loaded>> /\ section = "price" /\ section' = "clean"
        /\ price' = SelfHostedCost(split.warm, CostConfig)
    BY <1>6 DEF Price, process
  <2>2. Sampled'
    BY <1>2, <2>1 DEF RunInv, CostInv
  <2>3. CostConfig' = CostConfig
    BY <2>1, ConfigStays
  <2>4. price' = SelfHostedCost(split.warm, CostConfig)'
    BY <2>1, <2>3
  <2>5. QED
    BY <2>1, <2>2, <2>4 DEF RunInv, CostInv
<1>7. CASE \/ GateStep \/ CleanGateEnds \/ LeakGateEnds \/ Conclude \/ Raises \/ Killed
           \/ UNCHANGED <<vars, evidence>>
  <2>1. /\ UNCHANGED <<env, split, price, loaded>>
        /\ section' = section \/ section' \notin Unpriced
    BY <1>7 DEF GateStep, CleanGateEnds, LeakGateEnds, Conclude, Raises, Killed, evidence,
                process, printed
  <2>2. CostConfig' = CostConfig
    BY <2>1, ConfigStays
  <2>3. SelfHostedCost(split.warm, CostConfig)' = SelfHostedCost(split.warm, CostConfig)
    BY <2>1, <2>2
  <2>4. QED
    BY <1>1, <1>2, <2>1, <2>3 DEF RunInv, CostInv
<1>8. CASE Rerun
  <2>1. section' = "start" /\ price' = NoPrice
    BY <1>8 DEF Rerun
  <2>2. NoPrice' = NoPrice
    BY DEF NoPrice
  <2>3. loaded' \in BOOLEAN
    BY <1>8 DEF Rerun, RunInv, CostInv
  <2>4. QED
    BY <2>1, <2>2, <2>3 DEF CostInv
<1>9. QED
  BY <1>3, <1>4, <1>5, <1>6, <1>7, <1>8 DEF EvidenceNext

\* A simulated run hashes the one payload of its family.
LEMMA HashKept ==
    RunInv /\ [EvidenceNext]_<<vars, evidence>> => hashes' \subseteq {SimulatedPayload'}
<1> SUFFICES ASSUME RunInv, [EvidenceNext]_<<vars, evidence>>
             PROVE  hashes' \subseteq {SimulatedPayload'}
  OBVIOUS
<1>1. SimulatedPayload' = SimulatedPayload
  BY GateKept, PayloadStays
<1>2. CASE UNCHANGED hashes
  BY <1>1, <1>2 DEF RunInv
<1>3. CASE Conclude /\ ~Live
  <2>1. hashes' = hashes \cup {Payload} /\ section = "conclude"
    BY <1>3 DEF Conclude
  <2>2. answer = SimulatedAnswer /\ auditFile = [records |-> 1, whole |-> TRUE]
    BY <1>3, <2>1, SimulatedAnswers DEF RunInv, AnswerInv, Answered
  <2>3. price = SimulatedPrice
    BY <1>3, <2>1 DEF RunInv, PriceInv
  <2>4. FleetDay = SparseDay(Headline(SimulatedPrice), 4000)
    <3>1. FleetScenarios[1].daily = 4000
      BY DEF FleetScenarios, MeasuredBatchByContext
    <3>2. QED
      BY <2>3, <3>1 DEF FleetDay
  <2>5. leaky /\ gate \in {"passed", "blocked"} /\ verdict.leak = gate
        /\ verdict.violations = TotalViolations(results)
    BY <2>1 DEF RunInv, VerdictInv
  <2>6. (verdict.leak = "blocked") = SomethingToLeak
    BY <2>5, GateTells DEF RunInv, GateExact, SomethingToLeak
  <2>7. results = LeakResults
    <3>1. /\ Len(results) = Len(Scenarios)
          /\ \A k \in 1..Len(results) :
                results[k] = JudgeContext(Scenarios[k], LeakyAssemble(family))
      BY <2>5 DEF RunInv, GateInv, Judge, Assembled
    <3>2. results = [k \in 1..Len(results) |-> results[k]]
      BY DEF RunInv, GateInv
    <3>3. QED
      BY <3>1, <3>2 DEF LeakResults
  <2>8. Payload = SimulatedPayload
    BY <2>2, <2>3, <2>4, <2>5, <2>6, <2>7, Zenon DEF Payload, SimulatedPayload
  <2>9. QED
    BY <1>1, <2>1, <2>8 DEF RunInv
<1>4. UNCHANGED hashes \/ (Conclude /\ ~Live)
  BY DEF EvidenceNext, Begin, Respond, LatencySplit, Price, GateStep, CleanGateEnds,
         LeakGateEnds, Conclude, Raises, Killed, Rerun, evidence
<1>5. QED
  BY <1>2, <1>3, <1>4

\* The run's invariant holds from the start and every step keeps it.
LEMMA RunInductive == /\ EvidenceInit => RunInv
                      /\ RunInv /\ [EvidenceNext]_<<vars, evidence>> => RunInv'
<1>1. ASSUME EvidenceInit
      PROVE  RunInv
  <2>1. GateInv
    BY <1>1, GateInductive DEF EvidenceInit
  <2>2. section \in {"alone", "start"} /\ env \in Environments
    BY <1>1, EvidenceAssumption DEF EvidenceInit
  <2>3. AnswerInv
    BY <1>1, <2>2 DEF EvidenceInit, AnswerInv, Answered
  <2>4. VerdictInv
    BY <1>1, <2>2 DEF EvidenceInit, VerdictInv, NoVerdict
  <2>5. PriceInv
    BY <2>2 DEF PriceInv
  <2>6. CostInv
    BY <1>1, <2>2 DEF EvidenceInit, CostInv
  <2>7. hashes = {}
    BY <1>1 DEF EvidenceInit
  <2>8. QED
    BY <2>1, <2>3, <2>4, <2>5, <2>6, <2>7 DEF RunInv
<1>2. RunInv /\ [EvidenceNext]_<<vars, evidence>> => RunInv'
  BY GateKept, AnswerKept, VerdictKept, PriceKept, CostKept, HashKept DEF RunInv
<1>3. QED
  BY <1>1, <1>2
----
\* Whatever the families hold, the release gate, run by itself or twice by the
\* evidence run, blocks exactly when the leak is injected and some scenario's member
\* is given an item that is not for them (gate.py:47-48, privacy_asserts.py:53-65).
THEOREM GateIsExact == EvidenceSpec => []GateExact
<1>1. RunInv => GateExact
  BY GateTells DEF RunInv
<1>2. QED
  BY <1>1, RunInductive, PTL DEF EvidenceSpec

\* The shipped family with the leak is never released (README.md:25).
THEOREM LeaksAreNeverReleased == EvidenceSpec => []LeakNeverReleased
<1>1. RunInv => LeakNeverReleased
  BY GateTells DEF RunInv
<1>2. QED
  BY <1>1, RunInductive, PTL DEF EvidenceSpec

\* COMPLETE is printed only by a run that had a leak to find and found it, over an
\* audit file with its own record alone (evidence/__main__.py:217, 261-263).
THEOREM CompleteIsEarned == EvidenceSpec => []CompleteIsProven
<1>1. ASSUME RunInv
      PROVE  CompleteIsProven
  <2> SUFFICES ASSUME section = "complete"
               PROVE  /\ SomethingToLeak /\ gate = "blocked" /\ leaky
                      /\ auditFile = [records |-> 1, whole |-> TRUE]
                      /\ answer.client = IF Live THEN "openai" ELSE "simulated"
    BY Zenon DEF CompleteIsProven
  <2>1. gate = "blocked" /\ leaky /\ answer.route = "self_hosted"
    BY <1>1 DEF RunInv, VerdictInv, Proven
  <2>2. SomethingToLeak
    BY <1>1, <2>1, GateTells DEF RunInv, GateExact, SomethingToLeak
  <2>3. auditFile = [records |-> 1, whole |-> TRUE] /\ answer \in Answers(Now, ~Live)
    BY <1>1 DEF RunInv, AnswerInv, Answered
  <2>4. answer.client = ClientBehind(env, ~Live, answer.route)
    BY <2>3 DEF Answers
  <2>5. answer.client = IF Live THEN "openai" ELSE "simulated"
    BY <2>1, <2>4 DEF ClientBehind, SelfHostedFromEnv, Live
  <2>6. QED
    BY <2>1, <2>2, <2>3, <2>5
<1>2. QED
  BY <1>1, RunInductive, PTL DEF EvidenceSpec

\* All simulated runs of a family hash one payload (evidence/__main__.py:14, 258).
THEOREM SimulationIsReproducible == EvidenceSpec => []SameHash
<1>1. ASSUME RunInv
      PROVE  SameHash
  <2>1. hashes = {} \/ hashes = {SimulatedPayload}
    BY <1>1 DEF RunInv
  <2>2. Cardinality(hashes) \in {0, 1}
    BY <2>1, FS_EmptySet, FS_Singleton
  <2>3. QED
    BY <2>2 DEF SameHash
<1>2. QED
  BY <1>1, RunInductive, PTL DEF EvidenceSpec
----
\* The two samples of a live run, and those of a simulated one.
LEMMA LiveSplit ==
    Sampled /\ Live =>
        \E up \in BOOLEAN, first \in WarmLatencies, second \in WarmLatencies :
           split = [cold |-> [latency |-> IF up THEN first ELSE first + BootLatency,
                              cold |-> TRUE],
                    warm |-> [latency |-> second, cold |-> FALSE]]
<1> SUFFICES ASSUME Sampled, Live
             PROVE  \E up \in BOOLEAN, first \in WarmLatencies, second \in WarmLatencies :
                       split = [cold |-> [latency |-> IF up THEN first ELSE first + BootLatency,
                                          cold |-> TRUE],
                                warm |-> [latency |-> second, cold |-> FALSE]]
  OBVIOUS
<1>0. (~TRUE) = FALSE /\ (~FALSE) = TRUE
  OBVIOUS
<1>1. PICK up \in BOOLEAN, first \in WarmLatencies, second \in WarmLatencies :
         split = [cold |-> Completed(FALSE, IF up THEN first ELSE first + BootLatency),
                  warm |-> Completed(TRUE, second)]
  BY Zenon DEF Sampled
<1>2. Completed(FALSE, IF up THEN first ELSE first + BootLatency)
         = [latency |-> IF up THEN first ELSE first + BootLatency, cold |-> TRUE]
  BY <1>0, Zenon DEF Completed
<1>3. Completed(TRUE, second) = [latency |-> second, cold |-> FALSE]
  BY <1>0, Zenon DEF Completed
<1>4. split = [cold |-> [latency |-> IF up THEN first ELSE first + BootLatency, cold |-> TRUE],
               warm |-> [latency |-> second, cold |-> FALSE]]
  BY <1>1, <1>2, <1>3, Zenon
<1>5. QED
  BY <1>4, Zenon

LEMMA SimulatedSplit ==
    Sampled /\ ~Live => split = [cold |-> [latency |-> 9000, cold |-> TRUE],
                                 warm |-> [latency |-> 320, cold |-> FALSE]]
<1> SUFFICES ASSUME Sampled, ~Live
             PROVE  split = [cold |-> [latency |-> 9000, cold |-> TRUE],
                             warm |-> [latency |-> 320, cold |-> FALSE]]
  OBVIOUS
<1>1. QED
  BY DEF Sampled, Simulated

\* The settings of a live run.
LEMMA LiveConfig ==
    Live => CostConfig =
              [cents_per_hour |-> env.cents_per_hour, idle |-> 300000, requests_per_window |-> 3,
               boot |-> IF split.cold.latency > split.warm.latency
                        THEN split.cold.latency - split.warm.latency ELSE 0]
BY DEF CostConfig

\* The settings a run prices with, and the sample it prices, are well typed.
LEMMA ConfigTyped ==
    ASSUME Sampled, env \in Environments
    PROVE  /\ split \in [cold : Sample, warm : Sample]
           /\ split.warm = [latency |-> split.warm.latency, cold |-> FALSE]
           /\ CostConfig \in CostSettings
<1>1. CASE Live
  <2>1. PICK up \in BOOLEAN, first \in WarmLatencies, second \in WarmLatencies :
           split = [cold |-> [latency |-> IF up THEN first ELSE first + BootLatency,
                              cold |-> TRUE],
                    warm |-> [latency |-> second, cold |-> FALSE]]
    BY <1>1, LiveSplit
  <2>2. first \in Nat /\ second \in Nat /\ BootLatency \in Nat
    BY EvidenceAssumption
  <2>3. (IF up THEN first ELSE first + BootLatency) \in Nat
    BY <2>2
  <2>4. split \in [cold : Sample, warm : Sample]
    BY <2>1, <2>2, <2>3 DEF Sample
  <2>5. split.warm = [latency |-> second, cold |-> FALSE]
    BY <2>1
  <2>6. split.cold.latency \in Nat /\ split.warm.latency \in Nat
    BY <2>4 DEF Sample
  <2>7. CostConfig \in CostSettings
    <3>1. env.cents_per_hour \in Nat
      BY EvidenceAssumption
    <3>2. QED
      BY <1>1, <2>6, <3>1, LiveConfig DEF CostSettings
  <2>8. QED
    BY <2>4, <2>5, <2>7
<1>2. CASE ~Live
  <2>1. DefaultConfig \in CostSettings
    BY DEF DefaultConfig, CostSettings, GPU_CENTS_PER_HOUR
  <2>2. /\ split = [cold |-> split.cold, warm |-> split.warm]
        /\ split.cold = [latency |-> 9000, cold |-> TRUE]
        /\ split.warm = [latency |-> 320, cold |-> FALSE]
    BY <1>2, SimulatedSplit
  <2>3. split.cold \in Sample /\ split.warm \in Sample
    BY <2>2 DEF Sample
  <2>4. split \in [cold : Sample, warm : Sample]
    <3>1. \A c, w \in Sample : [cold |-> c, warm |-> w]
                               \in [cold : Sample, warm : Sample]
      OBVIOUS
    <3>2. [cold |-> split.cold, warm |-> split.warm]
             \in [cold : Sample, warm : Sample]
      BY <2>3, <3>1, Zenon
    <3>3. split = [cold |-> split.cold, warm |-> split.warm]
      BY <2>2
    <3>4. QED
      BY <3>2, <3>3
  <2>5. split.warm = [latency |-> split.warm.latency, cold |-> FALSE]
    BY <2>2
  <2>6. QED
    BY <1>2, <2>1, <2>4, <2>5, SimulatedCosts
<1>3. QED
  BY <1>1, <1>2

\* The rows of the printed fleet.
LEMMA ScenariosTyped ==
    ASSUME Sampled, env \in Environments
    PROVE  /\ Len(FleetScenarios) = 6
           /\ \A i \in 1..6 : /\ FleetScenarios[i] \in Fleet
                              /\ FleetScenarios[i].daily = 4000 /\ FleetScenarios[i].peak = 3
                              /\ FleetScenarios[i].cotenant
                              /\ FleetScenarios[i].service =
                                    IF split.warm.latency < 1 THEN 1 ELSE split.warm.latency
           /\ \A i \in 1..6 : \A j \in 1..i : FleetScenarios[j].batch >= FleetScenarios[i].batch
<1>1. split.warm.latency \in Nat
  BY ConfigTyped DEF Sample
<1>2. /\ Len(MeasuredBatchByContext) = 6
      /\ MeasuredBatchByContext[1][2] = 16 /\ MeasuredBatchByContext[2][2] = 4
      /\ MeasuredBatchByContext[3][2] = 4 /\ MeasuredBatchByContext[4][2] = 4
      /\ MeasuredBatchByContext[5][2] = 2 /\ MeasuredBatchByContext[6][2] = 1
  BY DEF MeasuredBatchByContext
<1>3. \A i \in 1..6 : i = 1 \/ i = 2 \/ i = 3 \/ i = 4 \/ i = 5 \/ i = 6
  OBVIOUS
<1>4. \A i \in 1..6 : MeasuredBatchByContext[i][2] \in Nat \ {0}
  BY <1>2, <1>3
<1>5. \A i \in 1..6 : \A j \in 1..i : MeasuredBatchByContext[j][2] >= MeasuredBatchByContext[i][2]
  BY <1>2, <1>3
<1>6. FleetScenarios =
        [i \in 1..6 |->
           [daily |-> 4000, peak |-> 3, cotenant |-> TRUE,
            service |-> IF split.warm.latency < 1 THEN 1 ELSE split.warm.latency,
            batch |-> MeasuredBatchByContext[i][2]]]
  BY <1>2 DEF FleetScenarios
<1>7. \A i \in 1..6 : FleetScenarios[i].batch = MeasuredBatchByContext[i][2]
  BY <1>6
<1>8. \A i \in 1..6 : \A j \in 1..i : FleetScenarios[j].batch >= FleetScenarios[i].batch
  BY <1>5, <1>7
<1>9. Len(FleetScenarios) = 6
  BY <1>6
<1>10. QED
  BY <1>1, <1>4, <1>6, <1>8, <1>9 DEF Fleet

\* A dearer host costs more.
LEMMA DearerHost ==
    ASSUME NEW cents \in Nat, NEW n \in Nat, cents >= 80
    PROVE  cents * n \in Nat /\ cents * n >= 80 * n
OBVIOUS

\* The sparse projection of what was priced is above the floor of every row, where
\* the host costs at least what the pool's GPU does.
LEMMA SparseIsDearer ==
    ASSUME Sampled, env \in Environments, price = SelfHostedCost(split.warm, CostConfig),
           CostConfig.cents_per_hour >= GPU_CENTS_PER_HOUR, NEW i \in 1..6
    PROVE  PooledLow(FleetScenarios[i]) <= FleetDay
<1> DEFINE latency == split.warm.latency
           cents == CostConfig.cents_per_hour
           load == 4000 * (IF latency < 1 THEN 1 ELSE latency)
           batch == FleetScenarios[i].batch
           low == PooledLow(FleetScenarios[i])
<1>1. /\ latency \in Nat /\ split.warm.cold = FALSE
      /\ batch \in Nat \ {0} /\ EffectiveBatch(FleetScenarios[i]) = batch
      /\ Load(FleetScenarios[i]) = load
  BY ConfigTyped, ScenariosTyped DEF Sample, Fleet, EffectiveBatch, Load
<1>2. low \in Nat /\ low * 45 <= load
  <2>1. low = load \div (45 * batch)
    BY <1>1 DEF PooledLow, SECONDS_PER_DAY, ReplicaDay, GPU_CENTS_PER_HOUR
  <2>2. \A n \in Nat, d \in Nat \ {0} : n \div d \in Nat /\ (n \div d) * d <= n
    OBVIOUS
  <2>3. low \in Nat /\ low * (45 * batch) <= load
    <3>1. load \in Nat /\ 45 * batch \in Nat \ {0}
      BY <1>1
    <3> HIDE DEF load, low, batch
    <3>2. QED
      BY <2>1, <2>2, <3>1
  <2>4. low * 45 <= low * (45 * batch)
    BY <1>1, <2>3
  <2>5. QED
    BY <1>1, <2>3, <2>4
<1>3. /\ cents \in Nat /\ cents >= 80
      /\ CostConfig.requests_per_window = 3
      /\ CostConfig.boot \in Nat /\ CostConfig.idle \in Nat
      /\ CostConfig.boot + CostConfig.idle >= 120000
  <2>1. CostConfig.boot \in Nat /\ CostConfig.idle \in Nat /\ CostConfig.cents_per_hour \in Nat
    BY ConfigTyped DEF CostSettings
  <2>2. DefaultConfig = [cents_per_hour |-> 80, boot |-> 30000, idle |-> 120000,
                         requests_per_window |-> 3]
    BY DEF DefaultConfig, GPU_CENTS_PER_HOUR
  <2>3. cents >= 80
    BY DEF GPU_CENTS_PER_HOUR
  <2>4. CASE Live
    BY <2>1, <2>3, <2>4, LiveConfig
  <2>5. CASE ~Live
    BY <2>1, <2>2, <2>3, <2>5, SimulatedCosts
  <2>6. QED
    BY <2>4, <2>5
<1>4. price.active = Rounded(cents * latency, 360)
      /\ price.amortized = Rounded(cents * (CostConfig.boot + CostConfig.idle), 1080)
  BY <1>1, <1>3 DEF SelfHostedCost
<1>5. price.active \in Nat /\ 720 * price.active + 360 > 160 * latency
  <2>1. cents * latency \in Nat /\ cents * latency >= 80 * latency
    BY <1>1, <1>3, DearerHost
  <2>2. \A a \in Nat : Rounded(a, 360) \in Nat /\ 720 * Rounded(a, 360) + 360 > 2 * a
    BY RoundedBounds
  <2> DEFINE active == cents * latency
  <2>3. active \in Nat /\ active >= 80 * latency /\ price.active = Rounded(active, 360)
    BY <1>4, <2>1
  <2> HIDE DEF active, latency
  <2>4. QED
    BY <1>1, <2>2, <2>3
<1>6. price.amortized \in Nat /\ price.amortized >= 8000
  <2> DEFINE fixed == CostConfig.boot + CostConfig.idle
             window == cents * fixed
  <2>1. fixed \in Nat /\ fixed >= 120000
    BY <1>3
  <2>2. \A a \in Nat : /\ Rounded(a, 1080) \in Nat
                       /\ 2160 * Rounded(a, 1080) + 1080 > 2 * a
    BY RoundedBounds
  <2>3. price.amortized = Rounded(window, 1080)
    BY <1>4, Zenon
  <2> HIDE DEF fixed
  <2>4. window \in Nat /\ window >= 80 * fixed
    BY <1>3, <2>1, DearerHost
  <2> HIDE DEF window
  <2>5. QED
    BY <2>1, <2>2, <2>3, <2>4
<1>7. FleetDay = 400 * (price.active + price.amortized)
  <2>1. FleetScenarios[1].daily = 4000
    BY ScenariosTyped
  <2>2. \A n \in Nat : (n * 4000) \div 10 = 400 * n
    OBVIOUS
  <2>3. price.active + price.amortized \in Nat
    BY <1>5, <1>6
  <2>4. QED
    BY <2>1, <2>2, <2>3 DEF FleetDay, SparseDay, Headline
<1>8. load \in Nat /\ load <= 4000 * latency + 4000
  BY <1>1
<1> HIDE DEF latency, load, low, cents
<1>9. low <= 400 * (price.active + price.amortized)
  BY <1>1, <1>2, <1>5, <1>6, <1>8
<1>10. QED
  BY <1>7, <1>9 DEF low

\* Whatever is priced, on a host of any price, the printed cost covers the window it
\* is of, the fleet is one that could serve, and a host at least as dear as the pool's
\* GPU makes the sparse projection dearer than the pooled floor (cost.py:84-93, 269-303,
\* evidence/__main__.py:49, 125-131, 154-156).
THEOREM CostsAreHonest == EvidenceSpec => []CostHonest
<1>1. ASSUME RunInv
      PROVE  CostHonest
  <2> SUFFICES ASSUME price # NoPrice
               PROVE  LET rows == ScenarioTable(FleetScenarios)
                      IN  /\ HeadlineCovers
                          /\ \A i \in 1..Len(rows) :
                                /\ BandBrackets(FleetScenarios[i])
                                /\ ExposureFlat(FleetScenarios[i])
                                /\ CostConfig.cents_per_hour >= GPU_CENTS_PER_HOUR
                                      => rows[i].low <= FleetDay
                                /\ \A j \in 1..i : /\ rows[j].low <= rows[i].low
                                                   /\ rows[j].high <= rows[i].high
    BY DEF CostHonest
  <2>1. Sampled /\ price = SelfHostedCost(split.warm, CostConfig) /\ env \in Environments
    BY <1>1 DEF RunInv, CostInv, AnswerInv
  <2>2. HeadlineCovers
    <3>1. CostConfig \in CostSettings /\ split.warm.latency \in Nat
          /\ split.warm = [latency |-> split.warm.latency, cold |-> FALSE]
      BY <2>1, ConfigTyped DEF Sample
    <3>2. LET cost == SelfHostedCost([latency |-> split.warm.latency, cold |-> FALSE], CostConfig)
              window == CostConfig.requests_per_window
          IN  360 * window * (Headline(cost) + 1)
                >= CostConfig.cents_per_hour *
                     (CostConfig.boot + CostConfig.idle + window * split.warm.latency)
      BY <3>1, HeadlinePays
    <3>3. price = SelfHostedCost([latency |-> split.warm.latency, cold |-> FALSE], CostConfig)
      BY <2>1, <3>1, Zenon
    <3>4. QED
      BY <3>2, <3>3, Zenon DEF HeadlineCovers
  <2> DEFINE rows == ScenarioTable(FleetScenarios)
  <2>3. /\ Len(rows) = 6
        /\ \A i \in 1..6 : /\ rows[i].low = PooledLow(FleetScenarios[i])
                           /\ rows[i].high = PooledHigh(FleetScenarios[i])
    <3>1. rows = [i \in 1..6 |-> Project(FleetScenarios[i])]
      <4>1. Len(FleetScenarios) = 6
        BY <2>1, ScenariosTyped
      <4>2. QED
        BY <4>1, Zenon DEF ScenarioTable
    <3>2. \A i \in 1..6 : rows[i] = Project(FleetScenarios[i])
      BY <3>1
    <3>3. \A fleet : /\ Project(fleet).low = PooledLow(fleet)
                     /\ Project(fleet).high = PooledHigh(fleet)
      BY DEF Project
    <3>4. Len(rows) = 6
      BY <3>1
    <3> HIDE DEF rows
    <3>5. QED
      BY <3>2, <3>3, <3>4
  <2> HIDE DEF rows
  <2>4. \A i \in 1..6 : /\ BandBrackets(FleetScenarios[i]) /\ ExposureFlat(FleetScenarios[i])
                        /\ CostConfig.cents_per_hour >= GPU_CENTS_PER_HOUR
                              => rows[i].low <= FleetDay
    BY <2>1, <2>3, ScenariosTyped, BandsBracket, ExposureIsFlat, SparseIsDearer
  <2>5. ASSUME NEW i \in 1..6, NEW j \in 1..i
        PROVE  rows[j].low <= rows[i].low /\ rows[j].high <= rows[i].high
    <3>1. j \in 1..6
      OBVIOUS
    <3>2. /\ FleetScenarios[j] \in Fleet /\ FleetScenarios[i] \in Fleet
          /\ FleetScenarios[j].cotenant /\ FleetScenarios[i].cotenant
          /\ FleetScenarios[j].daily = FleetScenarios[i].daily
          /\ FleetScenarios[j].service = FleetScenarios[i].service
          /\ FleetScenarios[j].peak = FleetScenarios[i].peak
          /\ FleetScenarios[j].batch >= FleetScenarios[i].batch
      BY <2>1, <3>1, ScenariosTyped
    <3>3. QED
      BY <2>3, <3>1, <3>2, NarrowerIsDearer
  <2>6. QED
    BY <2>2, <2>3, <2>4, <2>5, Zenon DEF rows
<1>2. QED
  BY <1>1, RunInductive, PTL DEF EvidenceSpec
----
\* The steps of the process keep what it holds of its own answer and samples.
LEMMA ProcessKept ==
    /\ EvidenceInit => ProcessInv
    /\ RunInv /\ ProcessInv /\ [EvidenceNext]_<<vars, evidence>> => ProcessInv'
<1> DEFINE Sections == Gates \cup Ended \cup {"start", "split", "respond", "price", "conclude"}
<1>1. ASSUME EvidenceInit
      PROVE  ProcessInv
  <2>1. section \in Sections
    BY <1>1 DEF EvidenceInit, Gates
  <2>2. gateFile \in [Gates -> BOOLEAN]
    <3>1. TRUE \in BOOLEAN
      OBVIOUS
    <3>2. gateFile = [g \in Gates |-> TRUE]
      BY <1>1 DEF EvidenceInit
    <3>3. QED
      BY <3>1, <3>2
  <2>3. clock \in Clocks /\ runs \in 1..MaxRuns /\ answer = NoAnswer /\ split = NoSplit
    BY <1>1, EvidenceAssumption DEF EvidenceInit
  <2>4. QED
    BY <2>1, <2>2, <2>3 DEF ProcessInv
<1> SUFFICES ASSUME RunInv, ProcessInv, [EvidenceNext]_<<vars, evidence>>
             PROVE  ProcessInv'
  BY <1>1
<1>2. section' \in Sections
  BY Zenon DEF ProcessInv, EvidenceNext, Begin, Respond, LatencySplit, Price, GateStep,
     CleanGateEnds, LeakGateEnds, Conclude, Raises, Killed, Rerun, Gates, Ended, evidence
<1>3. clock' \in Clocks /\ runs' \in 1..MaxRuns
  <2>1. CASE Rerun
    BY <2>1, EvidenceAssumption DEF Rerun, ProcessInv
  <2>2. CASE ~Rerun
    <3>1. UNCHANGED process
      BY <2>2 DEF EvidenceNext, Begin, Respond, LatencySplit, Price, GateStep,
         CleanGateEnds, LeakGateEnds, Conclude, Raises, Killed, evidence
    <3>2. QED
      BY <3>1 DEF process, ProcessInv
  <2>3. QED
    BY <2>1, <2>2
<1>4. gateFile' \in [Gates -> BOOLEAN]
  <2>0. gateFile \in [Gates -> BOOLEAN] /\ FALSE \in BOOLEAN
    BY DEF ProcessInv
  <2>1. CASE GateStep
    <3>1. \/ UNCHANGED gateFile
          \/ \E whole \in {gateFile[section], FALSE} :
                gateFile' = [gateFile EXCEPT ![section] = whole]
      BY <2>1 DEF GateStep
    <3>2. section \in Gates
      BY <2>1 DEF GateStep
    <3>3. {gateFile[section], FALSE} \subseteq BOOLEAN
      BY <2>0, <3>2
    <3>4. QED
      BY <2>0, <3>1, <3>3
  <2>2. CASE Killed
    <3>1. UNCHANGED gateFile \/ gateFile' = [gateFile EXCEPT ![section] = FALSE]
      BY <2>2 DEF Killed, files
    <3>2. QED
      BY <2>0, <3>1
  <2>3. CASE ~GateStep /\ ~Killed
    <3>1. UNCHANGED gateFile
      BY <2>3 DEF EvidenceNext, Begin, Respond, LatencySplit, Price,
         CleanGateEnds, LeakGateEnds, Conclude, Raises, Rerun, evidence, files
    <3>2. QED
      BY <2>0, <3>1
  <2>4. QED
    BY <2>1, <2>2, <2>3
<1>5. answer' = NoAnswer \/ answer' \in Answers(Now, ~Live)'
  <2>1. CASE Rerun
    BY <2>1 DEF Rerun, NoAnswer
  <2>2. CASE ~Rerun
    <3>1. UNCHANGED <<family, env>>
      <4>1. UNCHANGED family
        BY GateKept
      <4>2. UNCHANGED env
        BY <2>2 DEF EvidenceNext, Begin, Respond, LatencySplit, Price, GateStep,
           CleanGateEnds, LeakGateEnds, Conclude, Raises, Killed, evidence, process
      <4>3. QED
        BY <4>1, <4>2
    <3>2. Answers(Now, ~Live)' = Answers(Now, ~Live)
      BY <3>1, AnswersStay
    <3>3. answer' = answer \/ answer' \in Answers(Now, ~Live)
      BY <2>2 DEF EvidenceNext, Begin, Respond, LatencySplit, Price, GateStep,
         CleanGateEnds, LeakGateEnds, Conclude, Raises, Killed, evidence, printed
    <3>4. QED
      BY <3>2, <3>3 DEF ProcessInv
  <2>3. QED
    BY <2>1, <2>2
<1>6. split' = NoSplit \/ Sampled'
  <2>1. CASE Rerun
    BY <2>1 DEF Rerun
  <2>2. CASE LatencySplit
    <3>1. \/ section' = "respond" /\ Live'
          \/ section' = "price"
      BY <2>2 DEF LatencySplit, Live, process
    <3>2. QED
      BY <3>1, CostKept DEF CostInv
  <2>3. CASE ~Rerun /\ ~LatencySplit
    <3>1. UNCHANGED <<env, split>>
      BY <2>3 DEF EvidenceNext, Begin, Respond, Price, GateStep,
         CleanGateEnds, LeakGateEnds, Conclude, Raises, Killed, evidence, process, printed
    <3>2. Sampled' <=> Sampled
      BY <3>1 DEF Sampled, Live
    <3>3. QED
      BY <3>1, <3>2 DEF ProcessInv
  <2>4. QED
    BY <2>1, <2>2, <2>3
<1>7. QED
  BY <1>2, <1>3, <1>4, <1>5, <1>6 DEF ProcessInv

\* Everything the run keeps and prints has its type.
THEOREM EvidenceTypeCorrect == EvidenceSpec => []EvidenceTypeOK
<1>1. ASSUME RunInv, ProcessInv
      PROVE  EvidenceTypeOK
  <2>1. family \in [FamilyItems -> ContextItem]
    BY <1>1, GateAssumption DEF RunInv, GateInv
  <2>2. TypeOK
    BY <1>1, <2>1 DEF RunInv, GateInv, TypeOK
  <2>3. answer \in [route : Routes, client : Remote \cup {"simulated", "template"},
                    included : Nat, excluded : Nat]
    <3>1. (~Live) \in BOOLEAN
      BY DEF Live
    <3>2. NoAnswer \in [route : Routes, client : Remote \cup {"simulated", "template"},
                        included : Nat, excluded : Nat]
      BY DEF NoAnswer, Routes
    <3>3. QED
      BY <1>1, <2>1, <3>1, <3>2, AnswersTyped DEF ProcessInv
  <2>4. split \in [cold : Sample, warm : Sample]
    <3>1. CASE split = NoSplit
      <4>1. FALSE \in BOOLEAN
        OBVIOUS
      <4>2. NoSample \in Sample
        BY <4>1 DEF NoSample, Sample
      <4>3. QED
        BY <3>1, <4>1, <4>2 DEF NoSplit
    <3>2. CASE Sampled
      BY <1>1, <3>2, ConfigTyped DEF RunInv, AnswerInv
    <3>3. QED
      BY <1>1, <3>1, <3>2 DEF ProcessInv
  <2>5. price \in [active : Nat, amortized : Nat]
    <3>1. CASE price = NoPrice
      BY <3>1 DEF NoPrice
    <3>2. CASE price # NoPrice
      <4>1. Sampled /\ price = SelfHostedCost(split.warm, CostConfig)
        BY <1>1, <3>2 DEF RunInv, CostInv
      <4>2. /\ split.warm = [latency |-> split.warm.latency, cold |-> FALSE]
            /\ CostConfig \in CostSettings /\ split.warm.latency \in Nat
        BY <1>1, <4>1, ConfigTyped DEF Sample, RunInv, AnswerInv
      <4>3. SelfHostedCost([latency |-> split.warm.latency, cold |-> FALSE], CostConfig)
               \in [active : Nat, amortized : Nat]
        BY <4>2, HeadlinePays
      <4>4. QED
        BY <4>1, <4>2, <4>3
    <3>3. QED
      BY <3>1, <3>2
  <2>6. QED
    BY <1>1, <2>2, <2>3, <2>4, <2>5
       DEF RunInv, ProcessInv, AnswerInv, VerdictInv, CostInv, EvidenceTypeOK
<1>2. QED
  BY <1>1, RunInductive, ProcessKept, PTL DEF EvidenceSpec
=============================================================================
