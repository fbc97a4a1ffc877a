----------------------------- MODULE GatewayProofs -----------------------------
(***************************************************************************)
(* Proofs about Gateway for every number of requests, any family, any      *)
(* health reports and failing clients, and any number of process deaths.   *)
(***************************************************************************)
EXTENDS Gateway, OperatorProofs

\* The family a process has built is one of items.
LEMMA CandidatesTyped == anchor \in Instants => Candidates \in [Items -> ContextItem]
BY GatewayAssumption DEF Candidates

\* The included items are items of the family.
LEMMA IncludedTyped ==
    TypeOK => \A r \in Requests : Included(refs[r]) \in SUBSET Items
<1> SUFFICES ASSUME TypeOK, NEW r \in Requests
             PROVE  Included(refs[r]) \subseteq Items
  OBVIOUS
<1>1. refs[r] = <<>> \/ refs[r] \in [Items -> ContextRef]
  BY DEF TypeOK
<1>2. CASE refs[r] = <<>>
  BY <1>2 DEF Included
<1>3. CASE refs[r] \in [Items -> ContextRef]
  BY <1>3 DEF Included
<1>4. QED
  BY <1>1, <1>2, <1>3

\* The log and what is known of it stay well typed, whichever append or end of
\* an append a step makes.
LEMMA LogTyped ==
    ASSUME Audit!LogTypeOK, UNCHANGED audit \/ Audit!LogNext
    PROVE  Audit!LogTypeOK'
<1> USE DEF Audit!LogTypeOK, Audit!Outcomes
<1>1. CASE UNCHANGED audit
  BY <1>1 DEF audit
<1>2. ASSUME NEW r \in Requests, Audit!Commit(r)
      PROVE  Audit!LogTypeOK'
  BY <1>2 DEF Audit!Commit
<1>3. ASSUME NEW r \in Requests, Audit!Acknowledge(r)
      PROVE  Audit!LogTypeOK'
  BY <1>3 DEF Audit!Acknowledge
<1>4. ASSUME NEW dead \in SUBSET Requests, Audit!Abandon(dead)
      PROVE  Audit!LogTypeOK'
  BY <1>4 DEF Audit!Abandon
<1>5. ASSUME NEW dead \in SUBSET Requests, NEW r \in Requests, Audit!AbandonLeaving(dead, r)
      PROVE  Audit!LogTypeOK'
  <2>1. PICK entry \in {r, Damage} : log' = Append(log, entry)
    BY <1>5 DEF Audit!AbandonLeaving
  <2>2. log' \in Seq(Requests \cup {Damage})
    BY <2>1
  <2>3. outcome' \in [Requests -> {"waiting", "appended", "acked", "failed"}]
    BY <1>5 DEF Audit!AbandonLeaving
  <2>4. QED
    BY <2>2, <2>3
<1>6. QED
  BY <1>1, <1>2, <1>3, <1>4, <1>5 DEF Audit!LogNext

\* Every step of the gateway is one of the log's steps, or leaves the log alone.
LEMMA AuditSteps ==
    ASSUME [Next]_vars
    PROVE  UNCHANGED audit \/ Audit!LogNext
<1>1. ASSUME NEW r \in Requests, AppendRecord(r)
      PROVE  Audit!LogNext
  BY <1>1 DEF AppendRecord, Audit!LogNext
<1>2. ASSUME NEW r \in Requests, Answer(r)
      PROVE  Audit!LogNext
  BY <1>2 DEF Answer, Audit!LogNext
<1>3. ASSUME NEW r \in Requests, AuditRaises(r)
      PROVE  Audit!LogNext
  <2>1. {r} \in SUBSET Requests
    OBVIOUS
  <2>2. QED
    BY <1>3, <2>1 DEF AuditRaises, Audit!LogNext
<1>4. ASSUME Crash
      PROVE  Audit!LogNext
  <2>1. InProgress \in SUBSET Requests
    BY DEF InProgress
  <2>2. QED
    BY <1>4, <2>1 DEF Crash, Audit!LogNext
<1>5. QED
  BY <1>1, <1>2, <1>3, <1>4 DEF Next, Receive, RequestStep, Complete, StepDown, GiveUp,
     Tick, vars, audit

\* The gateway uses its audit log as AppendOnlyLog promises: what the store is
\* proved to implement is what the gateway runs on (engine.py:77-93).
THEOREM GatewayKeepsLog == Spec => Audit!LogSpec
<1>1. Init => Audit!LogInit
  BY DEF Init
<1>2. [Next]_vars => [Audit!LogNext]_<<log, outcome>>
  BY AuditSteps DEF audit
<1>3. QED
  BY <1>1, <1>2, PTL DEF Spec, Audit!LogSpec, Audit!logVars
----
\* The initial state is well typed and every step keeps the state so.
LEMMA TypeInductive == /\ Init => TypeOK
                       /\ TypeOK /\ [Next]_vars => TypeOK'
<1>1. Init => TypeOK
  <2> SUFFICES ASSUME Init
               PROVE  TypeOK
    OBVIOUS
  <2>1. (CHOOSE s \in Shapes : TRUE) \in Shapes
    BY GatewayAssumption
  <2>2. Audit!LogTypeOK
    BY DEF Init, Audit!LogInit, Audit!LogTypeOK, Audit!Outcomes
  <2>3. req \in [Requests -> Shapes]
    BY <2>1 DEF Init
  <2>4. now \in Instants /\ anchor \in Instants /\ crashes \in 0..MaxCrashes
    BY GatewayAssumption DEF Init
  <2>5. QED
    BY <2>2, <2>3, <2>4 DEF Init, TypeOK, Routes
<1>2. TypeOK /\ [Next]_vars => TypeOK'
  <2> SUFFICES ASSUME TypeOK, [Next]_vars
               PROVE  TypeOK'
    OBVIOUS
  <2>1. Audit!LogTypeOK'
    BY AuditSteps, LogTyped DEF TypeOK
  <2>2. ASSUME NEW r \in Requests, NEW shape \in Shapes, NEW health \in HealthReports,
               Receive(r, shape, health)
        PROVE  TypeOK'
    <3> DEFINE assembled == Assemble(Candidates, shape.member, shape.task, now)
    <3>1. assembled \in [Items -> ContextRef]
      BY CandidatesTyped, AssembleTyped DEF TypeOK
    <3>2. Included(assembled) \in SUBSET Items
      BY <3>1 DEF Included
    <3>3. DecideRoute(shape, assembled, health) \in Routes
      BY DecisionTyped
    <3>4. now \in Nat
      BY GatewayAssumption DEF TypeOK
    <3> HIDE DEF assembled
    <3>5. /\ refs' = [refs EXCEPT ![r] = assembled]
          /\ route' = [route EXCEPT ![r] = DecideRoute(shape, assembled, health)]
          /\ text' = [text EXCEPT ![r] =
                        IF DecideRoute(shape, assembled, health) = "deterministic_fallback"
                        THEN Included(assembled) ELSE {}]
          /\ \E stage \in {"auditing", "routing"} : pc' = [pc EXCEPT ![r] = stage]
          /\ req' = [req EXCEPT ![r] = shape]
          /\ eventAt' = [eventAt EXCEPT ![r] = now]
          /\ UNCHANGED <<tried, clock>>
      BY <2>2 DEF Receive, assembled
    <3>6. QED
      BY <2>1, <3>1, <3>2, <3>3, <3>4, <3>5 DEF TypeOK, clock
  <2>3. ASSUME NEW r \in Requests, Complete(r)
        PROVE  TypeOK'
    <3>1. PICK said \in Texts(r) : text' = [text EXCEPT ![r] = said]
      BY <2>3 DEF Complete
    <3>2. said \in SUBSET Items
      BY IncludedTyped DEF Texts
    <3>3. QED
      BY <2>1, <2>3, <3>1, <3>2 DEF Complete, TypeOK, request, clock
  <2>4. ASSUME NEW r \in Requests, StepDown(r)
        PROVE  TypeOK'
    <3>1. NextRoute(route[r]) \in Routes
      BY NextRouteDescends DEF TypeOK
    <3>2. QED
      BY <2>1, <2>4, <3>1 DEF StepDown, TypeOK, request, clock
  <2>5. ASSUME NEW r \in Requests, GiveUp(r)
        PROVE  TypeOK'
    BY <2>1, <2>5 DEF GiveUp, TypeOK, request, clock, Ended
  <2>6. ASSUME NEW r \in Requests, AppendRecord(r) \/ AuditRaises(r) \/ Answer(r)
        PROVE  TypeOK'
    BY <2>1, <2>6 DEF AppendRecord, AuditRaises, Answer, TypeOK, request, clock, Ended
  <2>7. CASE Tick
    BY <2>1, <2>7 DEF Tick, TypeOK, request
  <2>8. CASE Crash
    <3>1. pc' \in [Requests -> {"new", "routing", "auditing"} \cup Ended]
      BY <2>8 DEF Crash, TypeOK, Ended
    <3>2. crashes' \in 0..MaxCrashes
      BY <2>8, GatewayAssumption DEF Crash, TypeOK
    <3>3. QED
      BY <2>1, <2>8, <3>1, <3>2 DEF Crash, TypeOK, request
  <2>9. CASE UNCHANGED vars
    BY <2>1, <2>9 DEF vars, TypeOK, request, clock
  <2>10. QED
    BY <2>2, <2>3, <2>4, <2>5, <2>6, <2>7, <2>8, <2>9 DEF Next, RequestStep
<1>3. QED
  BY <1>1, <1>2

\* Every reachable state of the gateway is well typed: every reference list is
\* one of the whole family, every route a rung, every text made of items.
THEOREM GatewayTypeCorrect == Spec => []TypeOK
BY TypeInductive, PTL DEF Spec
----
(***************************************************************************)
(* No answer without a record: stages, outcomes and the log go together.   *)
(***************************************************************************)

\* A log that is one entry longer holds what it held, and that entry.
LEMMA LogGrows ==
    ASSUME Audit!LogTypeOK, NEW entry \in Requests \cup {Damage},
           log' = Append(log, entry)
    PROVE  /\ Len(log) \in Nat /\ Len(log') = Len(log) + 1
           /\ \A i \in 1..Len(log) : log'[i] = log[i]
           /\ log'[Len(log) + 1] = entry
           /\ \A i \in 1..Len(log') : i \in 1..Len(log) \/ i = Len(log) + 1
<1>1. log \in Seq(Requests \cup {Damage})
  BY DEF Audit!LogTypeOK
<1>2. QED
  BY <1>1

\* A step that does not touch the log keeps the agreement when every append
\* either knows what it knew, is answered, or has given up.
LEMMA QuietLog ==
    ASSUME LogAgrees, log' = log,
           \A r \in Requests : \/ outcome'[r] = outcome[r]
                               \/ outcome[r] = "appended" /\ outcome'[r] = "acked"
                               \/ outcome'[r] = "failed"
    PROVE  LogAgrees'
BY DEF LogAgrees

\* The entry that a writing request r adds leaves the agreement intact, when r
\* itself knows of it or has failed, and nobody else starts to wait.
LEMMA LoudLog ==
    ASSUME TypeOK, LogAgrees, NEW r \in Requests, outcome[r] = "waiting",
           NEW entry \in {r, Damage}, log' = Append(log, entry),
           outcome'[r] = "failed" \/ (outcome'[r] = "appended" /\ entry = r),
           \A q \in Requests \ {r} : outcome'[q] \in {outcome[q], "failed"}
    PROVE  LogAgrees'
<1>1. Audit!LogTypeOK /\ entry \in Requests \cup {Damage}
  BY DEF TypeOK
<1>2. /\ Len(log) \in Nat /\ Len(log') = Len(log) + 1
      /\ \A i \in 1..Len(log) : log'[i] = log[i]
      /\ log'[Len(log) + 1] = entry
      /\ \A i \in 1..Len(log') : i \in 1..Len(log) \/ i = Len(log) + 1
  BY <1>1, LogGrows
<1>3. \A i \in 1..Len(log) : log[i] # r
  BY DEF LogAgrees
<1>4. \A q \in Requests \ {r} : entry # q
  BY GatewayAssumption
<1>5. ASSUME NEW q \in Requests
      PROVE  /\ outcome'[q] = "waiting" => \A i \in 1..Len(log') : log'[i] # q
             /\ outcome'[q] \in {"appended", "acked"} => \E i \in 1..Len(log') : log'[i] = q
             /\ \A i, j \in 1..Len(log') : log'[i] = q /\ log'[j] = q => i = j
  <2>1. CASE q = r
    <3>1. outcome'[q] # "waiting"
      BY <2>1
    <3>2. outcome'[q] \in {"appended", "acked"} => log'[Len(log) + 1] = q
      BY <1>2, <2>1
    <3>3. Len(log) + 1 \in 1..Len(log')
      BY <1>2
    <3>4. \A i \in 1..Len(log') : log'[i] = q => i = Len(log) + 1
      BY <1>2, <1>3, <2>1
    <3>5. QED
      BY <3>1, <3>2, <3>3, <3>4
  <2>2. CASE q # r
    <3>1. \A i \in 1..Len(log') : log'[i] = q => i \in 1..Len(log) /\ log[i] = q
      BY <1>2, <1>4, <2>2
    <3>2. \A i \in 1..Len(log) : i \in 1..Len(log') /\ log'[i] = log[i]
      BY <1>2
    <3>3. outcome'[q] = outcome[q] \/ outcome'[q] = "failed"
      BY <2>2
    <3>4. QED
      BY <3>1, <3>2, <3>3 DEF LogAgrees
  <2>3. QED
    BY <2>1, <2>2
<1>6. QED
  BY <1>5 DEF LogAgrees

\* The stages of the requests agree with what their appends have come to.
LEMMA StagesInductive ==
    ASSUME TypeOK, StagesAgree, [Next]_vars
    PROVE  StagesAgree'
<1> USE DEF TypeOK, StagesAgree, Audit!LogTypeOK, Audit!Outcomes
<1>1. ASSUME NEW r \in Requests, NEW shape \in Shapes, NEW health \in HealthReports,
             Receive(r, shape, health)
      PROVE  StagesAgree'
  <2>1. PICK stage \in {"auditing", "routing"} : pc' = [pc EXCEPT ![r] = stage]
    BY <1>1 DEF Receive
  <2>2. outcome' = outcome /\ outcome[r] = "waiting"
    BY <1>1 DEF Receive, audit
  <2>3. QED
    BY <2>1, <2>2
<1>2. ASSUME NEW r \in Requests, Complete(r) \/ StepDown(r) \/ GiveUp(r)
      PROVE  StagesAgree'
  BY <1>2 DEF Complete, StepDown, GiveUp, audit
<1>3. ASSUME NEW r \in Requests, AppendRecord(r)
      PROVE  StagesAgree'
  BY <1>3 DEF AppendRecord, Audit!Commit
<1>4. ASSUME NEW r \in Requests, Answer(r)
      PROVE  StagesAgree'
  BY <1>4 DEF Answer, Audit!Acknowledge
<1>5. ASSUME NEW r \in Requests, AuditRaises(r)
      PROVE  StagesAgree'
  <2>1. outcome' = [q \in Requests |-> IF q \in {r} THEN "failed" ELSE outcome[q]]
    BY <1>5 DEF AuditRaises, Audit!Abandon, Audit!AbandonLeaving
  <2>2. pc' = [pc EXCEPT ![r] = "failed"]
    BY <1>5 DEF AuditRaises
  <2>3. QED
    BY <2>1, <2>2
<1>6. CASE Crash
  <2>1. outcome' = [q \in Requests |-> IF q \in InProgress THEN "failed" ELSE outcome[q]]
    BY <1>6 DEF Crash, Audit!Abandon, Audit!AbandonLeaving
  <2>2. pc' = [q \in Requests |-> IF q \in InProgress THEN "killed" ELSE pc[q]]
    BY <1>6 DEF Crash
  <2>3. QED
    BY <2>1, <2>2 DEF InProgress
<1>7. CASE Tick \/ UNCHANGED vars
  BY <1>7 DEF Tick, vars, audit
<1>8. QED
  BY <1>1, <1>2, <1>3, <1>4, <1>5, <1>6, <1>7 DEF Next, RequestStep

\* The log agrees with what the appends know of it.
LEMMA LogInductive ==
    ASSUME TypeOK, LogAgrees, [Next]_vars
    PROVE  LogAgrees'
<1>1. outcome \in [Requests -> {"waiting", "appended", "acked", "failed"}]
  BY DEF TypeOK, Audit!LogTypeOK, Audit!Outcomes
<1>2. ASSUME NEW r \in Requests, Audit!Commit(r)
      PROVE  LogAgrees'
  <2>1. /\ outcome[r] = "waiting" /\ log' = Append(log, r)
        /\ outcome'[r] = "appended" /\ \A q \in Requests \ {r} : outcome'[q] = outcome[q]
    BY <1>1, <1>2 DEF Audit!Commit
  <2>2. QED
    BY <2>1, LoudLog
<1>3. ASSUME NEW r \in Requests, Audit!Acknowledge(r)
      PROVE  LogAgrees'
  BY <1>1, <1>3, QuietLog DEF Audit!Acknowledge
<1>4. ASSUME NEW dead \in SUBSET Requests, Audit!Abandon(dead)
      PROVE  LogAgrees'
  BY <1>4, QuietLog DEF Audit!Abandon
<1>5. ASSUME NEW dead \in SUBSET Requests, NEW r \in Requests, Audit!AbandonLeaving(dead, r)
      PROVE  LogAgrees'
  <2>1. PICK entry \in {r, Damage} : log' = Append(log, entry)
    BY <1>5 DEF Audit!AbandonLeaving
  <2>2. /\ outcome[r] = "waiting" /\ outcome'[r] = "failed"
        /\ \A q \in Requests \ {r} : outcome'[q] \in {outcome[q], "failed"}
    BY <1>5 DEF Audit!AbandonLeaving
  <2>3. QED
    BY <2>1, <2>2, LoudLog
<1>6. CASE UNCHANGED audit
  BY <1>6, QuietLog DEF audit
<1>7. QED
  BY <1>2, <1>3, <1>4, <1>5, <1>6, AuditSteps DEF Audit!LogNext

\* The audit invariant holds from the start and every step keeps it.
LEMMA AuditInductive == /\ Init => AuditInv
                        /\ AuditInv /\ [Next]_vars => AuditInv'
<1>1. Init => AuditInv
  <2> SUFFICES ASSUME Init
               PROVE  StagesAgree /\ LogAgrees
    BY TypeInductive DEF AuditInv
  <2>1. Len(log) = 0 /\ \A r \in Requests : outcome[r] = "waiting" /\ pc[r] = "new"
    BY DEF Init, Audit!LogInit
  <2>2. QED
    BY <2>1 DEF StagesAgree, LogAgrees
<1>2. AuditInv /\ [Next]_vars => AuditInv'
  BY TypeInductive, StagesInductive, LogInductive DEF AuditInv
<1>3. QED
  BY <1>1, <1>2

\* A response reaches the client only after its record is in the log, once, and a
\* request the ladder has not answered has no record (engine.py:77, 93-94).
THEOREM NoAnswerWithoutRecord == Spec => []AnsweredIsAudited
<1>1. ASSUME AuditInv
      PROVE  AnsweredIsAudited
  <2> SUFFICES ASSUME NEW r \in Requests
               PROVE  /\ pc[r] = "answered" => Logged(r) # {}
                      /\ pc[r] \in {"new", "routing"} => Logged(r) = {}
                      /\ Cardinality(Logged(r)) <= 1
    BY DEF AnsweredIsAudited
  <2>1. pc[r] = "answered" => Logged(r) # {}
    BY <1>1 DEF AuditInv, StagesAgree, LogAgrees, Logged
  <2>2. pc[r] \in {"new", "routing"} => Logged(r) = {}
    BY <1>1 DEF AuditInv, StagesAgree, LogAgrees, Logged
  <2>3. \A i, j \in Logged(r) : i = j
    BY <1>1 DEF AuditInv, LogAgrees, Logged
  <2>4. Cardinality(Logged(r)) <= 1
    <3>1. CASE Logged(r) = {}
      BY <3>1, FS_EmptySet
    <3>2. CASE Logged(r) # {}
      <4>1. PICK i : i \in Logged(r)
        BY <3>2
      <4>2. Logged(r) = {i}
        BY <2>3, <4>1
      <4>3. Cardinality({i}) = 1
        BY FS_Singleton
      <4>4. QED
        BY <4>2, <4>3
    <3>3. QED
      BY <3>1, <3>2
  <2>5. QED
    BY <2>1, <2>2, <2>4
<1>2. QED
  BY <1>1, AuditInductive, PTL DEF Spec

\* A spoiled log is a closed one: nothing is added to it, and no append that still
\* waits ever returns (store.py:55 raises in engine.py:93).
SpoiledIsClosed ==
    [][Audit!Spoiled =>
          /\ Audit!Spoiled' /\ log' = log
          /\ \A r \in Requests :
                outcome[r] = "waiting" => outcome'[r] \in {"waiting", "failed"}]_vars

\* Once damage is in the log no unrecorded request is ever answered, in any number
\* of steps and over any number of restarts: the safety half of SpoiledFailsClosed.
THEOREM SpoiledStaysClosed == Spec => SpoiledIsClosed
<1>1. ASSUME TypeOK, [Next]_vars, Audit!Spoiled
      PROVE  /\ Audit!Spoiled' /\ log' = log
             /\ \A r \in Requests :
                   outcome[r] = "waiting" => outcome'[r] \in {"waiting", "failed"}
  <2>1. CASE UNCHANGED audit
    BY <1>1, <2>1 DEF audit, Audit!Spoiled
  <2>2. ASSUME NEW r \in Requests, Audit!Commit(r)
        PROVE  FALSE
    BY <1>1, <2>2 DEF Audit!Commit
  <2>3. ASSUME NEW r \in Requests, Audit!Acknowledge(r)
        PROVE  log' = log /\ \A q \in Requests :
                  outcome[q] = "waiting" => outcome'[q] = "waiting"
    BY <1>1, <2>3 DEF Audit!Acknowledge, TypeOK, Audit!LogTypeOK
  <2>4. ASSUME NEW dead \in SUBSET Requests, Audit!Abandon(dead)
        PROVE  log' = log /\ \A q \in Requests : outcome'[q] \in {outcome[q], "failed"}
    BY <2>4 DEF Audit!Abandon
  <2>5. ASSUME NEW dead \in SUBSET Requests, NEW r \in Requests,
               Audit!AbandonLeaving(dead, r)
        PROVE  FALSE
    BY <1>1, <2>5 DEF Audit!AbandonLeaving
  <2>6. log' = log => Audit!Spoiled'
    BY <1>1 DEF Audit!Spoiled
  <2>7. QED
    BY <1>1, <2>1, <2>2, <2>3, <2>4, <2>5, <2>6, AuditSteps DEF Audit!LogNext
<1>2. QED
  BY <1>1, TypeInductive, PTL DEF Spec, SpoiledIsClosed
----
(***************************************************************************)
(* The walk down the ladder.                                               *)
(***************************************************************************)

\* What one more route does to a list of routes that were tried.
LEMMA OneMoreTried ==
    ASSUME NEW steps \in Seq(Routes), NEW last \in Routes
    PROVE  LET more == Append(steps, last)
           IN  /\ more # <<>> /\ Len(more) = Len(steps) + 1 /\ Len(steps) \in Nat
               /\ more[Len(more)] = last
               /\ \A i \in 1..Len(steps) : more[i] = steps[i]
OBVIOUS

\* A list of routes in the order of the ladder, with the next one down, is in the
\* order of the ladder.
LEMMA OrderExtends ==
    ASSUME NEW steps \in Seq(Routes), NEW last \in Routes,
           \A i \in 1..Len(steps) - 1 : Rung(steps[i + 1]) = Rung(steps[i]) + 1,
           steps # <<>> => Rung(last) = Rung(steps[Len(steps)]) + 1
    PROVE  LET more == Append(steps, last)
           IN  \A i \in 1..Len(more) - 1 : Rung(more[i + 1]) = Rung(more[i]) + 1
<1> DEFINE more == Append(steps, last)
<1>1. /\ Len(more) = Len(steps) + 1 /\ Len(steps) \in Nat
      /\ more[Len(steps) + 1] = last
      /\ \A i \in 1..Len(steps) : more[i] = steps[i]
  BY OneMoreTried
<1> HIDE DEF more
<1>2. ASSUME NEW i \in 1..Len(more) - 1
      PROVE  Rung(more[i + 1]) = Rung(more[i]) + 1
  <2>1. CASE i = Len(steps)
    <3>1. steps # <<>> /\ more[i] = steps[Len(steps)] /\ more[i + 1] = last
      BY <1>1, <1>2, <2>1
    <3>2. QED
      BY <3>1
  <2>2. CASE i # Len(steps)
    <3>1. i \in 1..Len(steps) - 1 /\ i \in 1..Len(steps) /\ i + 1 \in 1..Len(steps)
      BY <1>1, <1>2, <2>2
    <3>2. QED
      BY <1>1, <3>1
  <2>3. QED
    BY <2>1, <2>2
<1>3. QED
  BY <1>2 DEF more

\* The client of the route that request r tries is called, in the order of the
\* ladder, and none too weak for the question.
CallsRung(r) ==
    /\ \A q \in Requests \ {r} : tried'[q] = tried[q]
    /\ tried'[r] # <<>> /\ tried'[r][Len(tried'[r])] = route[r]
    /\ Len(tried'[r]) = Len(tried[r]) + 1 /\ Len(tried[r]) \in Nat
    /\ \A i \in 1..Len(tried'[r]) - 1 :
          Rung(tried'[r][i + 1]) = Rung(tried'[r][i]) + 1
    /\ Hard(req[r], refs[r]) =>
          \A i \in 1..Len(tried'[r]) :
             tried'[r][i] \in {"hosted_strong", "deterministic_fallback"}

\* Recording the route being tried is such a call.
LEMMA OneMoreCall ==
    ASSUME LadderInv, NEW r \in Requests, pc[r] = "routing",
           tried' = [tried EXCEPT ![r] = Append(@, route[r])]
    PROVE  CallsRung(r)
<1>1. /\ tried[r] \in Seq(Routes) /\ route[r] \in Routes
      /\ tried'[r] = Append(tried[r], route[r])
      /\ \A q \in Requests \ {r} : tried'[q] = tried[q]
  BY DEF LadderInv, TypeOK
<1>2. /\ tried'[r] # <<>> /\ Len(tried'[r]) = Len(tried[r]) + 1 /\ Len(tried[r]) \in Nat
      /\ tried'[r][Len(tried'[r])] = route[r]
      /\ \A i \in 1..Len(tried[r]) : tried'[r][i] = tried[r][i]
  BY <1>1, OneMoreTried
<1>3. /\ \A i \in 1..Len(tried[r]) - 1 : Rung(tried[r][i + 1]) = Rung(tried[r][i]) + 1
      /\ tried[r] # <<>> => Rung(route[r]) = Rung(tried[r][Len(tried[r])]) + 1
  BY DEF LadderInv, LadderInOrder
<1>4. \A i \in 1..Len(tried'[r]) - 1 :
         Rung(tried'[r][i + 1]) = Rung(tried'[r][i]) + 1
  BY <1>1, <1>3, OrderExtends
<1>5. ASSUME Hard(req[r], refs[r]), NEW i \in 1..Len(tried'[r])
      PROVE  tried'[r][i] \in {"hosted_strong", "deterministic_fallback"}
  <2>1. i \in 1..Len(tried[r]) \/ i = Len(tried'[r])
    BY <1>2
  <2>2. /\ \A j \in 1..Len(tried[r]) :
              tried[r][j] \in {"hosted_strong", "deterministic_fallback"}
        /\ route[r] \in {"hosted_strong", "deterministic_fallback"}
    BY <1>5 DEF LadderInv, SafetyFloor, HardStaysStrong
  <2>3. QED
    BY <1>2, <2>1, <2>2
<1>6. QED
  BY <1>1, <1>2, <1>4, <1>5 DEF CallsRung

\* What is said of every request needs to be shown again only for the one whose
\* step it was: the others have not moved.
LEMMA OthersStay ==
    ASSUME LadderInv, NEW r \in Requests,
           \A q \in Requests \ {r} :
              /\ pc'[q] = pc[q] /\ req'[q] = req[q] /\ refs'[q] = refs[q]
              /\ route'[q] = route[q] /\ tried'[q] = tried[q] /\ outcome'[q] = outcome[q],
           pc'[r] # "new",
           pc'[r] = "routing" => Len(tried'[r]) < Rung(route'[r]),
           pc'[r] = "failed" /\ outcome'[r] = "waiting" =>
              tried'[r] # <<>> /\ tried'[r][Len(tried'[r])] = "deterministic_fallback",
           \A i \in 1..Len(tried'[r]) - 1 :
              Rung(tried'[r][i + 1]) = Rung(tried'[r][i]) + 1,
           tried'[r] # <<>> /\ pc'[r] = "routing" =>
              Rung(route'[r]) = Rung(tried'[r][Len(tried'[r])]) + 1,
           tried'[r] # <<>> /\ pc'[r] \in {"auditing", "answered"} =>
              route'[r] = tried'[r][Len(tried'[r])],
           Hard(req'[r], refs'[r]) =>
              /\ route'[r] \in {"hosted_strong", "deterministic_fallback"}
              /\ \A i \in 1..Len(tried'[r]) :
                    tried'[r][i] \in {"hosted_strong", "deterministic_fallback"},
           TypeOK'
    PROVE  LadderInv'
<1>1. OnTheLadder'
  BY DEF LadderInv, OnTheLadder
<1>2. LadderInOrder'
  BY DEF LadderInv, LadderInOrder
<1>3. HardStaysStrong' /\ SafetyFloor'
  BY DEF LadderInv, HardStaysStrong, SafetyFloor
<1>4. QED
  BY <1>1, <1>2, <1>3 DEF LadderInv

\* An exhausted request is at the floor: a loop over four rungs that only goes
\* down cannot end above it.
LEMMA ExhaustedIsFloor ==
    ASSUME LadderInv, NEW r \in Requests, pc[r] = "routing", Exhausted(r)
    PROVE  route[r] = "deterministic_fallback"
<1>1. route[r] \in Routes /\ tried[r] \in Seq(Routes)
  BY DEF LadderInv, TypeOK
<1>2. CASE NextRoute(route[r]) = route[r]
  BY <1>1, <1>2, NextRouteDescends
<1>3. CASE Len(tried[r]) + 1 = Len(Ladder)
  <2>1. Len(tried[r]) \in Nat /\ Len(tried[r]) + 1 = 4
    BY <1>1, <1>3 DEF Ladder
  <2>2. \A n \in Nat, k \in 1..4 : n + 1 = 4 /\ n < k => k = 4
    OBVIOUS
  <2>3. Rung(route[r]) \in 1..4 /\ Len(tried[r]) < Rung(route[r])
    BY <1>1, Rungs DEF LadderInv, OnTheLadder
  <2>4. Rung(route[r]) = 4
    BY <2>1, <2>2, <2>3
  <2>5. QED
    BY <1>1, <2>4, Rungs DEF Routes
<1>4. QED
  BY <1>2, <1>3 DEF Exhausted

\* A step of one request that calls no client, after it was received, and
\* leaves it above the audit or lets it fail there.
LEMMA PastTheLadder ==
    ASSUME LadderInv, TypeOK', NEW r \in Requests, pc[r] = "auditing",
           UNCHANGED <<request, route, tried>>,
           \A q \in Requests \ {r} : pc'[q] = pc[q] /\ outcome'[q] = outcome[q],
           pc'[r] \in {"auditing", "answered"} \/ (pc'[r] = "failed" /\ outcome'[r] = "failed")
    PROVE  LadderInv'
<1>1. /\ \A i \in 1..Len(tried[r]) - 1 : Rung(tried[r][i + 1]) = Rung(tried[r][i]) + 1
      /\ tried[r] # <<>> => route[r] = tried[r][Len(tried[r])]
      /\ Hard(req[r], refs[r]) =>
            /\ route[r] \in {"hosted_strong", "deterministic_fallback"}
            /\ \A i \in 1..Len(tried[r]) :
                  tried[r][i] \in {"hosted_strong", "deterministic_fallback"}
  BY DEF LadderInv, LadderInOrder, HardStaysStrong, SafetyFloor
<1>2. QED
  BY <1>1, OthersStay DEF request

\* The ladder's invariant holds from the start and every step keeps it.
LEMMA LadderInductive == /\ Init => LadderInv
                         /\ LadderInv /\ [Next]_vars => LadderInv'
<1>1. Init => LadderInv
  <2> SUFFICES ASSUME Init
               PROVE  LadderInv
    OBVIOUS
  <2>1. \A r \in Requests : pc[r] = "new" /\ tried[r] = <<>>
    BY DEF Init
  <2>2. QED
    BY <2>1, TypeInductive DEF LadderInv, OnTheLadder, LadderInOrder, HardStaysStrong,
       SafetyFloor
<1>2. LadderInv /\ [Next]_vars => LadderInv'
  <2> SUFFICES ASSUME LadderInv, [Next]_vars
               PROVE  LadderInv'
    OBVIOUS
  <2>0. TypeOK /\ TypeOK'
    BY TypeInductive DEF LadderInv
  <2>1. ASSUME NEW r \in Requests, NEW shape \in Shapes, NEW health \in HealthReports,
               Receive(r, shape, health)
        PROVE  LadderInv'
    <3> DEFINE assembled == Assemble(Candidates, shape.member, shape.task, now)
               decided == DecideRoute(shape, assembled, health)
    <3>1. /\ pc[r] = "new" /\ tried' = tried /\ outcome' = outcome
          /\ refs'[r] = assembled /\ req'[r] = shape /\ route'[r] = decided
          /\ pc'[r] = IF decided = "deterministic_fallback" THEN "auditing" ELSE "routing"
          /\ \A q \in Requests \ {r} :
                /\ pc'[q] = pc[q] /\ req'[q] = req[q] /\ refs'[q] = refs[q]
                /\ route'[q] = route[q]
      BY <2>0, <2>1 DEF Receive, TypeOK, audit
    <3>2. tried[r] = <<>> /\ tried'[r] = <<>>
      BY <3>1 DEF LadderInv, OnTheLadder
    <3>3. decided \in Routes /\ (Hard(shape, assembled) => decided \in StrongRoutes)
      BY DecisionTyped, HardIsDecidedStrong
    <3> HIDE DEF assembled, decided
    <3>4. pc'[r] = "routing" => Len(tried'[r]) < Rung(route'[r])
      BY <3>1, <3>2, <3>3, Rungs
    <3>5. QED
      BY <2>0, <3>1, <3>2, <3>3, <3>4, OthersStay DEF StrongRoutes
  <2>2. ASSUME NEW r \in Requests, Complete(r)
        PROVE  LadderInv'
    <3>1. /\ pc[r] = "routing" /\ pc'[r] = "auditing"
          /\ tried' = [tried EXCEPT ![r] = Append(@, route[r])]
          /\ UNCHANGED <<request, route, audit>>
          /\ \A q \in Requests \ {r} : pc'[q] = pc[q]
      BY <2>0, <2>2 DEF Complete, TypeOK
    <3>2. Hard(req[r], refs[r]) => route[r] \in {"hosted_strong", "deterministic_fallback"}
      BY <3>1 DEF LadderInv, HardStaysStrong
    <3>3. CallsRung(r)
      BY <3>1, OneMoreCall
    <3>4. QED
      BY <2>0, <3>1, <3>2, <3>3, OthersStay DEF request, audit, CallsRung
  <2>3. ASSUME NEW r \in Requests, StepDown(r)
        PROVE  LadderInv'
    <3>1. /\ pc[r] = "routing" /\ pc' = pc
          /\ tried' = [tried EXCEPT ![r] = Append(@, route[r])]
          /\ UNCHANGED <<request, audit>>
          /\ route'[r] = NextRoute(route[r]) /\ NextRoute(route[r]) # route[r]
          /\ \A q \in Requests \ {r} : route'[q] = route[q]
      BY <2>0, <2>3 DEF StepDown, Exhausted, TypeOK
    <3>2. route[r] \in Routes /\ Rung(route[r]) \in 1..4 /\ Rung(route'[r]) = Rung(route[r]) + 1
      BY <2>0, <3>1, NextRouteDescends, Rungs DEF TypeOK
    <3>3. CallsRung(r)
      BY <3>1, OneMoreCall
    <3>4. Len(tried[r]) < Rung(route[r])
      BY <3>1 DEF LadderInv, OnTheLadder
    <3>5. Len(tried'[r]) < Rung(route'[r])
      BY <3>2, <3>3, <3>4 DEF CallsRung
    <3>6. Hard(req[r], refs[r]) => route'[r] \in {"hosted_strong", "deterministic_fallback"}
      BY <3>1, StrongStaysStrong DEF LadderInv, HardStaysStrong, StrongRoutes
    <3>7. QED
      BY <2>0, <3>1, <3>2, <3>3, <3>5, <3>6, OthersStay DEF request, audit, CallsRung
  <2>4. ASSUME NEW r \in Requests, GiveUp(r)
        PROVE  LadderInv'
    <3>1. /\ pc[r] = "routing" /\ pc'[r] = "failed"
          /\ tried' = [tried EXCEPT ![r] = Append(@, route[r])]
          /\ UNCHANGED <<request, route, audit>>
          /\ \A q \in Requests \ {r} : pc'[q] = pc[q]
      BY <2>0, <2>4 DEF GiveUp, TypeOK
    <3>2. route[r] = "deterministic_fallback"
      BY <2>4, <3>1, ExhaustedIsFloor DEF GiveUp
    <3>3. CallsRung(r)
      BY <3>1, OneMoreCall
    <3>4. Hard(req[r], refs[r]) => route[r] \in {"hosted_strong", "deterministic_fallback"}
      BY <3>2
    <3>5. QED
      BY <2>0, <3>1, <3>2, <3>3, <3>4, OthersStay DEF request, audit, CallsRung
  <2>5. ASSUME NEW r \in Requests, AppendRecord(r)
        PROVE  LadderInv'
    BY <2>0, <2>5, PastTheLadder DEF AppendRecord, Audit!Commit, TypeOK, Audit!LogTypeOK
  <2>6. ASSUME NEW r \in Requests, Answer(r)
        PROVE  LadderInv'
    BY <2>0, <2>6, PastTheLadder DEF Answer, Audit!Acknowledge, TypeOK, Audit!LogTypeOK
  <2>7. ASSUME NEW r \in Requests, AuditRaises(r)
        PROVE  LadderInv'
    <3>1. \A q \in Requests : outcome'[q] = IF q = r THEN "failed" ELSE outcome[q]
      BY <2>7 DEF AuditRaises, Audit!Abandon, Audit!AbandonLeaving
    <3>2. /\ pc[r] = "auditing" /\ pc'[r] = "failed"
          /\ \A q \in Requests \ {r} : pc'[q] = pc[q]
      BY <2>0, <2>7 DEF AuditRaises, TypeOK
    <3>3. QED
      BY <2>0, <2>7, <3>1, <3>2, PastTheLadder DEF AuditRaises
  <2>8. CASE Crash
    <3>1. /\ \A q \in Requests : pc'[q] = IF q \in InProgress THEN "killed" ELSE pc[q]
          /\ \A q \in Requests : outcome'[q] = IF q \in InProgress THEN "failed" ELSE outcome[q]
          /\ UNCHANGED <<request, route, tried>>
      BY <2>8 DEF Crash, Audit!Abandon, Audit!AbandonLeaving
    <3>2. \A q \in InProgress : pc[q] # "new"
      BY DEF InProgress
    <3>3. OnTheLadder' /\ LadderInOrder'
      BY <3>1, <3>2 DEF LadderInv, OnTheLadder, LadderInOrder
    <3>4. HardStaysStrong' /\ SafetyFloor'
      BY <3>1, <3>2 DEF LadderInv, HardStaysStrong, SafetyFloor, request
    <3>5. QED
      BY <2>0, <3>3, <3>4 DEF LadderInv
  <2>9. CASE Tick \/ UNCHANGED vars
    BY <2>0, <2>9 DEF Tick, vars, request, audit, LadderInv, OnTheLadder, LadderInOrder,
       HardStaysStrong, SafetyFloor
  <2>10. QED
    BY <2>1, <2>2, <2>3, <2>4, <2>5, <2>6, <2>7, <2>8, <2>9 DEF Next, RequestStep
<1>3. QED
  BY <1>1, <1>2

\* Whatever the health snapshot and whatever fails, a hard question is put to the
\* strongest model or the template and to nothing between (router.py:31-34, 47-48).
THEOREM HardQuestionsStayStrong == Spec => []SafetyFloor
BY LadderInductive, PTL DEF Spec, LadderInv

\* No client is called twice for one request, no rung is skipped, and the answer
\* carries the route that gave it (router.py:97-106, fallback.py:22-27).
THEOREM LadderWalkedInOrder == Spec => []LadderInOrder
BY LadderInductive, PTL DEF Spec, LadderInv

\* A request gives up only when the template itself has failed, with all of the
\* ladder from where it started tried, and leaves no record (router.py:104-107).
THEOREM GivingUpIsLast == Spec => []GivesUpAtTheFloor
<1>1. AuditInv /\ LadderInv => GivesUpAtTheFloor
  BY DEF AuditInv, LogAgrees, LadderInv, OnTheLadder, GivesUpAtTheFloor, Logged
<1>2. QED
  BY <1>1, AuditInductive, LadderInductive, PTL DEF Spec

\* While the template cannot fail, the ladder always ends in an answer: the only
\* error a client sees is that of the audit write (fallback.py:5-7).
THEOREM OnlyTheAuditFails ==
    ASSUME "deterministic_fallback" \notin Failing
    PROVE  Spec => []OnlyAuditFails
<1>1. Init => OnlyAuditFails
  BY DEF Init, OnlyAuditFails
<1>2. LadderInv /\ OnlyAuditFails /\ [Next]_vars => OnlyAuditFails'
  <2> SUFFICES ASSUME LadderInv, OnlyAuditFails, [Next]_vars
               PROVE  OnlyAuditFails'
    OBVIOUS
  <2>1. pc \in [Requests -> {"new", "routing", "auditing"} \cup Ended]
    BY DEF LadderInv, TypeOK
  <2>2. \A r \in Requests : ~GiveUp(r)
    BY ExhaustedIsFloor DEF GiveUp
  <2>3. ASSUME NEW r \in Requests, AppendRecord(r) \/ Answer(r)
        PROVE  OnlyAuditFails'
    BY <2>1, <2>3 DEF AppendRecord, Answer, Audit!Commit, Audit!Acknowledge, OnlyAuditFails,
       LadderInv, TypeOK, Audit!LogTypeOK
  <2>4. ASSUME NEW r \in Requests, AuditRaises(r)
        PROVE  OnlyAuditFails'
    BY <2>1, <2>4 DEF AuditRaises, Audit!Abandon, Audit!AbandonLeaving, OnlyAuditFails
  <2>5. CASE Crash
    BY <2>5 DEF Crash, Audit!Abandon, Audit!AbandonLeaving, OnlyAuditFails
  <2>6. ASSUME NEW r \in Requests, NEW shape \in Shapes, NEW health \in HealthReports,
               Receive(r, shape, health)
        PROVE  OnlyAuditFails'
    <3>1. PICK stage \in {"auditing", "routing"} : pc' = [pc EXCEPT ![r] = stage]
      BY <2>6 DEF Receive
    <3>2. outcome' = outcome
      BY <2>6 DEF Receive, audit
    <3>3. QED
      BY <2>1, <3>1, <3>2 DEF OnlyAuditFails
  <2>7. ASSUME NEW r \in Requests, Complete(r) \/ StepDown(r)
        PROVE  OnlyAuditFails'
    BY <2>1, <2>7 DEF Complete, StepDown, OnlyAuditFails, audit
  <2>8. CASE Tick \/ UNCHANGED vars
    BY <2>8 DEF Tick, vars, OnlyAuditFails, audit
  <2>9. QED
    BY <2>2, <2>3, <2>4, <2>5, <2>6, <2>7, <2>8 DEF Next, RequestStep
<1>3. QED
  BY <1>1, <1>2, LadderInductive, PTL DEF Spec
----
(***************************************************************************)
(* No leakage: what a request in progress carries was assembled for it.    *)
(***************************************************************************)

\* A request in progress whose assembly, member, task, clock reading and family
\* are the same in the next state, and whose text grows by nothing foreign,
\* keeps its context.
LEMMA ContextKept ==
    ASSUME ContextInv, TypeOK', anchor' = anchor,
           \A r \in InProgress' :
              \/ /\ r \in InProgress
                 /\ refs'[r] = refs[r] /\ req'[r] = req[r] /\ eventAt'[r] = eventAt[r]
                 /\ text'[r] = text[r] \/ text'[r] \subseteq Included(refs[r])
              \/ /\ refs'[r] = Assemble(Candidates, req'[r].member, req'[r].task, eventAt'[r])
                 /\ text'[r] \subseteq Included(refs'[r])
    PROVE  ContextInv'
<1>1. Candidates' = Candidates
  BY DEF Candidates
<1>2. QED
  BY <1>1 DEF ContextInv

\* The context invariant holds from the start and every step keeps it.
LEMMA ContextInductive == /\ Init => ContextInv
                          /\ ContextInv /\ [Next]_vars => ContextInv'
<1>1. Init => ContextInv
  BY TypeInductive DEF Init, ContextInv, InProgress
<1>2. ContextInv /\ [Next]_vars => ContextInv'
  <2> SUFFICES ASSUME ContextInv, [Next]_vars
               PROVE  ContextInv'
    OBVIOUS
  <2>0. TypeOK /\ TypeOK'
    BY TypeInductive DEF ContextInv
  <2>1. ASSUME NEW r \in Requests, NEW shape \in Shapes, NEW health \in HealthReports,
               Receive(r, shape, health)
        PROVE  ContextInv'
    <3> DEFINE assembled == Assemble(Candidates, shape.member, shape.task, now)
    <3>1. /\ refs'[r] = assembled /\ req'[r] = shape /\ eventAt'[r] = now
          /\ text'[r] \in {Included(assembled), {}} /\ anchor' = anchor
          /\ \A q \in Requests \ {r} :
                /\ pc'[q] = pc[q] /\ refs'[q] = refs[q] /\ req'[q] = req[q]
                /\ eventAt'[q] = eventAt[q] /\ text'[q] = text[q]
      BY <2>0, <2>1 DEF Receive, TypeOK, clock
    <3>2. text'[r] \subseteq Included(refs'[r])
      BY <3>1
    <3>3. \A q \in InProgress' : q = r \/ q \in InProgress
      BY <3>1 DEF InProgress
    <3>4. QED
      BY <2>0, <3>1, <3>2, <3>3, ContextKept DEF InProgress
  <2>2. ASSUME NEW r \in Requests, Complete(r)
        PROVE  ContextInv'
    <3>1. PICK said \in Texts(r) : text' = [text EXCEPT ![r] = said]
      BY <2>2 DEF Complete
    <3>2. said \subseteq Included(refs[r])
      BY DEF Texts
    <3>3. /\ text'[r] \subseteq Included(refs[r])
          /\ \A q \in Requests \ {r} : text'[q] = text[q]
      BY <2>0, <3>1, <3>2 DEF TypeOK
    <3>4. InProgress' = InProgress /\ UNCHANGED request /\ anchor' = anchor
      BY <2>0, <2>2 DEF Complete, InProgress, TypeOK, clock
    <3>5. QED
      BY <2>0, <3>3, <3>4, ContextKept DEF request, InProgress
  <2>3. ASSUME NEW r \in Requests,
               StepDown(r) \/ GiveUp(r) \/ AppendRecord(r) \/ AuditRaises(r) \/ Answer(r)
        PROVE  ContextInv'
    <3>1. InProgress' \subseteq InProgress
      BY <2>0, <2>3 DEF StepDown, GiveUp, AppendRecord, AuditRaises, Answer, InProgress,
         TypeOK
    <3>2. UNCHANGED <<request, text>> /\ anchor' = anchor
      BY <2>3 DEF StepDown, GiveUp, AppendRecord, AuditRaises, Answer, clock
    <3>3. QED
      BY <2>0, <3>1, <3>2, ContextKept DEF request
  <2>4. CASE Tick \/ UNCHANGED vars
    BY <2>0, <2>4, ContextKept DEF Tick, vars, request, clock, InProgress
  <2>5. CASE Crash
    <3>1. InProgress' = {}
      BY <2>5 DEF Crash, InProgress
    <3>2. QED
      BY <2>0, <3>1 DEF ContextInv
  <2>6. QED
    BY <2>1, <2>2, <2>3, <2>4, <2>5 DEF Next, RequestStep
<1>3. QED
  BY <1>1, <1>2

\* The release gate's check finds no violation in any prompt or text of a request
\* in progress, at any rung, for every family and any number of requests that
\* interleave (assembly.py:52-68, privacy_asserts.py:41-66).
THEOREM NothingLeaks == Spec => []NoLeakage
<1>1. ASSUME ContextInv
      PROVE  NoLeakage
  <2> SUFFICES ASSUME NEW r \in InProgress
               PROVE  /\ Admitted(Candidates, refs[r], req[r].member, req[r].task,
                                  eventAt[r]) = {}
                      /\ Surfaced(Candidates, text[r], req[r].member, req[r].task,
                                  eventAt[r]) = {}
    BY DEF NoLeakage
  <2>1. /\ refs[r] = Assemble(Candidates, req[r].member, req[r].task, eventAt[r])
        /\ text[r] \in SUBSET Included(refs[r])
    BY <1>1 DEF ContextInv
  <2>2. QED
    BY <2>1, AssembledIsAuthorized
<1>2. QED
  BY <1>1, ContextInductive, PTL DEF Spec
================================================================================
