------------------------------- MODULE Gateway -------------------------------
(***************************************************************************)
(* gateway/engine.py composed with the router, the clients, the audit log  *)
(* and the process that hosts them (gateway/app.py): POST /infer runs      *)
(* Gateway.infer in a worker thread, so requests interleave at every call  *)
(* of a model and at the append to the audit log.  The log is the abstract *)
(* AppendOnlyLog that AuditStore implements.                               *)
(***************************************************************************)
EXTENDS Routing

CONSTANTS Requests,        \* the requests that arrive, one worker thread each
          Shapes,          \* what a client may ask: member, task, class and budget
          HealthReports,   \* the health snapshots the configured client may give
          Failing,         \* the routes whose client may raise
          Items,           \* the item ids of the family
          FamilyAt(_),     \* build_family: the items as of a process start
          StartTimes,      \* when the first process may start
          Instants,        \* the readings of the clock
          MaxCrashes,      \* bound on the number of process deaths
          Damage           \* what a failed append may leave in the log

ASSUME GatewayAssumption ==
    /\ Shapes \subseteq [member : Members, task : TaskKind,
                        request_class : RequestClass, latency_budget : Nat]
    /\ Shapes # {}
    /\ HealthReports \subseteq HealthSnapshot
    /\ Failing \subseteq Routes
    /\ StartTimes \subseteq Instants /\ Instants \subseteq Nat
    /\ \A t \in Instants : FamilyAt(t) \in [Items -> ContextItem]
    /\ MaxCrashes \in Nat
    /\ Damage \notin Requests

VARIABLES
    pc,        \* new, routing, auditing, answered, failed or killed
    req,       \* the request each thread serves
    eventAt,   \* the clock reading infer was called with
    refs,      \* the references of the assembled context
    route,     \* the route being tried, or that gave the result
    tried,     \* the routes whose client was called, in order
    text,      \* the items whose content is in the response text
    log,       \* the audit log
    outcome,   \* what each append has come to
    now,       \* the wall clock
    anchor,    \* when this process built the family
    crashes    \* process deaths so far

request == <<req, eventAt, refs>>
audit == <<log, outcome>>
clock == <<now, anchor, crashes>>
vars == <<pc, request, route, tried, text, audit, clock>>

Audit == INSTANCE AppendOnlyLog WITH Calls <- Requests

Candidates == FamilyAt(anchor)

Init == /\ pc = [r \in Requests |-> "new"]
        /\ req = [r \in Requests |-> CHOOSE s \in Shapes : TRUE]
        /\ eventAt = [r \in Requests |-> 0]
        /\ now \in StartTimes
        /\ anchor = now
        /\ refs = [r \in Requests |-> <<>>]
        /\ route = [r \in Requests |-> "deterministic_fallback"]
        /\ tried = [r \in Requests |-> <<>>]
        /\ text = [r \in Requests |-> {}]
        /\ Audit!LogInit
        /\ crashes = 0
----
\* infer, up to the first call of a model: read the clock, assemble, take a
\* health snapshot, decide.  A decision for the floor is answered from the
\* local template, which prints the content of every survivor.
Receive(r, shape, health) ==
    /\ pc[r] = "new"
    /\ LET assembled == Assemble(Candidates, shape.member, shape.task, now)
           decided == DecideRoute(shape, assembled, health)
           local == decided = "deterministic_fallback"
       IN  /\ refs' = [refs EXCEPT ![r] = assembled]
           /\ route' = [route EXCEPT ![r] = decided]
           /\ text' = [text EXCEPT ![r] = IF local THEN Included(assembled) ELSE {}]
           /\ pc' = [pc EXCEPT ![r] = IF local THEN "auditing" ELSE "routing"]
    /\ req' = [req EXCEPT ![r] = shape]
    /\ eventAt' = [eventAt EXCEPT ![r] = now]
    /\ UNCHANGED <<tried, audit, clock>>

\* Mutant: the prompt is a buffer that the requests share.
TextsShared(r) == SUBSET UNION {Included(refs[q]) : q \in Requests}

\* A model answers from its prompt, so its text repeats any part of it; the
\* deterministic client lists all of it.
Texts(r) == IF route[r] = "deterministic_fallback" THEN {Included(refs[r])}
            ELSE SUBSET Included(refs[r])

\* Router.run: the client of the current route returns, and the response is built.
Complete(r) == /\ pc[r] = "routing"
               /\ tried' = [tried EXCEPT ![r] = Append(@, route[r])]
               /\ \E said \in Texts(r) : text' = [text EXCEPT ![r] = said]
               /\ pc' = [pc EXCEPT ![r] = "auditing"]
               /\ UNCHANGED <<request, route, audit, clock>>

\* Mutant: the loop runs once too few.
ExhaustedEarly(r) == \/ NextRoute(route[r]) = route[r]
                     \/ Len(tried[r]) + 2 = Len(Ladder)

Exhausted(r) == \/ NextRoute(route[r]) = route[r]
                \/ Len(tried[r]) + 1 = Len(Ladder)

\* Router.run: the client raises (an error, a timeout) and the next rung is tried.
StepDown(r) == /\ pc[r] = "routing"
               /\ route[r] \in Failing
               /\ ~Exhausted(r)
               /\ tried' = [tried EXCEPT ![r] = Append(@, route[r])]
               /\ route' = [route EXCEPT ![r] = NextRoute(@)]
               /\ UNCHANGED <<pc, request, text, audit, clock>>

\* Router.run: "degradation ladder exhausted"; infer raises before any audit.
GiveUp(r) == /\ pc[r] = "routing"
             /\ route[r] \in Failing
             /\ Exhausted(r)
             /\ tried' = [tried EXCEPT ![r] = Append(@, route[r])]
             /\ pc' = [pc EXCEPT ![r] = "failed"]
             /\ UNCHANGED <<request, route, text, audit, clock>>

\* Mutant: the append does not parse what is there.
AppendRecordAnyway(r) == /\ pc[r] = "auditing"
                         /\ outcome[r] = "waiting"
                         /\ log' = Append(log, r)
                         /\ outcome' = [outcome EXCEPT ![r] = "appended"]
                         /\ UNCHANGED <<pc, request, route, tried, text, clock>>

\* _audit_append writes the record of the response that is about to be returned.
AppendRecord(r) == /\ pc[r] = "auditing"
                   /\ Audit!Commit(r)
                   /\ UNCHANGED <<pc, request, route, tried, text, clock>>

\* Mutant: on a spoiled log the append waits for a repair.
AuditRaisesOnWrite(r) == /\ pc[r] = "auditing"
                         /\ outcome[r] = "waiting"
                         /\ ~Audit!Spoiled
                         /\ Audit!Abandon({r}) \/ Audit!AbandonLeaving({r}, r)
                         /\ pc' = [pc EXCEPT ![r] = "failed"]
                         /\ UNCHANGED <<request, route, tried, text, clock>>

\* _audit_append raises: there is no answer.
AuditRaises(r) == /\ pc[r] = "auditing"
                  /\ outcome[r] = "waiting"
                  /\ Audit!Abandon({r}) \/ Audit!AbandonLeaving({r}, r)
                  /\ pc' = [pc EXCEPT ![r] = "failed"]
                  /\ UNCHANGED <<request, route, tried, text, clock>>

\* Mutant: the record is written after the answer.
AnswerFirst(r) == /\ pc[r] = "auditing"
                  /\ pc' = [pc EXCEPT ![r] = "answered"]
                  /\ UNCHANGED <<request, route, tried, text, audit, clock>>

\* infer returns and app.infer answers 200 with the audited response.
Answer(r) == /\ pc[r] = "auditing"
             /\ Audit!Acknowledge(r)
             /\ pc' = [pc EXCEPT ![r] = "answered"]
             /\ UNCHANGED <<request, route, tried, text, clock>>
----
Tick == /\ \E t \in Instants : t > now /\ now' = t
        /\ UNCHANGED <<pc, request, route, tried, text, audit, anchor, crashes>>

InProgress == {r \in Requests : pc[r] \in {"routing", "auditing"}}

\* The process dies with its requests and is started again: the family is built
\* anew, the audit log is the file that is there.
Crash == /\ crashes < MaxCrashes
         /\ InProgress # {}
         /\ \/ Audit!Abandon(InProgress)
            \/ \E r \in InProgress :
                  pc[r] = "auditing" /\ Audit!AbandonLeaving(InProgress, r)
         /\ pc' = [r \in Requests |-> IF r \in InProgress THEN "killed" ELSE pc[r]]
         /\ anchor' = now
         /\ crashes' = crashes + 1
         /\ UNCHANGED <<request, route, tried, text, now>>

\* What the thread of a request does by itself.
RequestStep(r) == Complete(r) \/ AppendRecord(r) \/ Answer(r)

Next == \/ \E r \in Requests :
              \/ \E shape \in Shapes, health \in HealthReports : Receive(r, shape, health)
              \/ RequestStep(r) \/ StepDown(r) \/ GiveUp(r) \/ AuditRaises(r)
        \/ Tick \/ Crash

Spec == Init /\ [][Next]_vars

\* Every client call returns or raises: each has a timeout (900 s for the
\* self-hosted one, the SDK's for the hosted ones).  So does every append.
Fairness == \A r \in Requests :
               WF_vars(RequestStep(r) \/ StepDown(r) \/ GiveUp(r) \/ AuditRaises(r))

FairSpec == Spec /\ Fairness
----
Ended == {"answered", "failed", "killed"}

TypeOK == /\ pc \in [Requests -> {"new", "routing", "auditing"} \cup Ended]
          /\ req \in [Requests -> Shapes]
          /\ eventAt \in [Requests -> Nat]
          /\ refs \in [Requests -> {<<>>} \cup [Items -> ContextRef]]
          /\ route \in [Requests -> Routes]
          /\ tried \in [Requests -> Seq(Routes)]
          /\ text \in [Requests -> SUBSET Items]
          /\ Audit!LogTypeOK
          /\ now \in Instants /\ anchor \in Instants
          /\ crashes \in 0..MaxCrashes

Logged(r) == {i \in 1..Len(log) : log[i] = r}

\* A response reaches the client only after its record is in the log, once; and
\* a request that never got a response from the ladder has no record
\* (engine.py:93-94, 77).
AnsweredIsAudited ==
    \A r \in Requests :
        /\ pc[r] = "answered" => Logged(r) # {}
        /\ pc[r] \in {"new", "routing"} => Logged(r) = {}
        /\ Cardinality(Logged(r)) <= 1

\* Whatever the health snapshot and whatever fails, a notification decision, or
\* a context with safety-critical evidence in it, is answered by the strongest
\* model or by the template, and by nothing between (router.py:31-34, 47-48).
SafetyFloor ==
    \A r \in Requests :
        pc[r] # "new" /\ Hard(req[r], refs[r]) =>
            \A i \in 1..Len(tried[r]) :
                tried[r][i] \in {"hosted_strong", "deterministic_fallback"}

\* A request walks down the ladder rung by rung: no client is called twice for
\* one request, none is skipped, and the answer carries the route that gave it
\* (router.py:97-106, fallback.py:22-27).
LadderInOrder ==
    \A r \in Requests :
        LET steps == tried[r] IN
        /\ \A i \in 1..Len(steps) - 1 : Rung(steps[i + 1]) = Rung(steps[i]) + 1
        /\ steps # <<>> /\ pc[r] = "routing" => Rung(route[r]) = Rung(steps[Len(steps)]) + 1
        /\ steps # <<>> /\ pc[r] \in {"auditing", "answered"} => route[r] = steps[Len(steps)]

\* The release gate's independent check finds no violation in any prompt or
\* response, at any rung, for the clock reading the request was assembled at
\* (assembly.py:52-68, privacy_asserts.py:41-66).
NoLeakage ==
    \A r \in InProgress :
        /\ Admitted(Candidates, refs[r], req[r].member, req[r].task, eventAt[r]) = {}
        /\ Surfaced(Candidates, text[r], req[r].member, req[r].task, eventAt[r]) = {}

\* While the template cannot fail, the ladder always ends in an answer: the only
\* error a client sees is that of the audit write (fallback.py:5-7).
OnlyAuditFails == \A r \in Requests : pc[r] = "failed" => outcome[r] = "failed"

\* When even the template may fail, a request gives up only after the whole rest
\* of the ladder was tried, and leaves nothing in the log (router.py:104-107).
GivesUpAtTheFloor ==
    \A r \in Requests :
        pc[r] = "failed" /\ outcome[r] = "waiting" =>
            /\ tried[r] # <<>> /\ tried[r][Len(tried[r])] = "deterministic_fallback"
            /\ Logged(r) = {}

\* Every request that was received ends: answered, failed or with the process.
EveryRequestEnds ==
    \A r \in Requests : pc[r] \in {"routing", "auditing"} ~> pc[r] \in Ended

\* Once a torn record spoils the log no request that is not in it yet is
\* answered: the gateway fails closed rather than answer unaudited
\* (store.py:55 raises in engine.py:93).
SpoiledFailsClosed ==
    \A r \in Requests :
        Audit!Spoiled /\ pc[r] \in {"routing", "auditing"} /\ outcome[r] = "waiting"
            ~> pc[r] \in {"failed", "killed"}
----
\* What contract.py:47 says of latency_budget_ms, "explicit budget the router
\* honors", at its weakest: no further model is called once the budget is spent.
BudgetHonored ==
    [][\A r \in Requests :
          tried'[r] # tried[r] => now <= eventAt[r] + req[r].latency_budget]_tried
----
(***************************************************************************)
(* The inductive invariants that the properties above rest on.             *)
(***************************************************************************)

\* How far a request is and what its append has come to.
StagesAgree ==
    \A r \in Requests :
        /\ pc[r] \in {"new", "routing"} => outcome[r] = "waiting"
        /\ pc[r] = "auditing" => outcome[r] \in {"waiting", "appended"}
        /\ pc[r] = "answered" => outcome[r] = "acked"
        /\ pc[r] = "failed" => outcome[r] \in {"waiting", "failed"}
        /\ pc[r] = "killed" => outcome[r] = "failed"

\* An append that waits has put nothing in the log, one that returned has, and
\* none puts two records there.
LogAgrees ==
    \A r \in Requests :
        /\ outcome[r] = "waiting" => \A i \in 1..Len(log) : log[i] # r
        /\ outcome[r] \in {"appended", "acked"} => \E i \in 1..Len(log) : log[i] = r
        /\ \A i, j \in 1..Len(log) : log[i] = r /\ log[j] = r => i = j

AuditInv == TypeOK /\ StagesAgree /\ LogAgrees

\* Where on the ladder a request is: nothing was tried before it was received,
\* and below the rungs tried there is the rung it tries now.
OnTheLadder ==
    \A r \in Requests :
        /\ pc[r] = "new" => tried[r] = <<>>
        /\ pc[r] = "routing" => Len(tried[r]) < Rung(route[r])
        /\ pc[r] = "failed" /\ outcome[r] = "waiting" =>
              tried[r] # <<>> /\ tried[r][Len(tried[r])] = "deterministic_fallback"

\* The rung a hard request is at.
HardStaysStrong ==
    \A r \in Requests :
        pc[r] # "new" /\ Hard(req[r], refs[r]) =>
            route[r] \in {"hosted_strong", "deterministic_fallback"}

LadderInv == TypeOK /\ OnTheLadder /\ LadderInOrder /\ HardStaysStrong /\ SafetyFloor

\* A request in progress was assembled for its member and task, at its clock
\* reading, from the family of the process that still runs it, and its text
\* repeats only what was included.
ContextInv ==
    /\ TypeOK
    /\ \A r \in InProgress :
          /\ refs[r] = Assemble(Candidates, req[r].member, req[r].task, eventAt[r])
          /\ text[r] \subseteq Included(refs[r])
=============================================================================
