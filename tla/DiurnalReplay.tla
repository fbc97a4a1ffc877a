----------------------------- MODULE DiurnalReplay -----------------------------
(***************************************************************************)
(* serving/loadtest.py diurnal: an open-loop trace of arrivals replayed    *)
(* through a gateway in this process, by a pool of threads, against the    *)
(* autoscaled replicas behind the self-hosted route.  The main thread      *)
(* submits each arrival at its offset, then collects the results in order; *)
(* what is frozen is how many of the calls served by a replica were cold,  *)
(* which is told from their latency.  A tick is a step of the trace, and   *)
(* threads take no tick to be scheduled.                                   *)
(***************************************************************************)
EXTENDS Composition

CONSTANTS Rates,        \* the rate of arrivals at each step, in parts of an arrival
          Unit,         \* the parts of one arrival
          PoolSize,     \* max_workers
          Threshold,    \* COLD_LATENCY_THRESHOLD_MS
          Service,      \* the longest a loaded replica takes to answer
          Boot,         \* how long a replica loads
          Replicas,     \* those the platform may start
          Environments, \* what the process may find in its environment
          MaxOutages    \* bound on the boots that fail

ASSUME DiurnalAssumption ==
    /\ Rates \in Seq(Nat) /\ Unit \in Nat \ {0} /\ PoolSize \in Nat \ {0}
    /\ Service \in Nat /\ Threshold \in Nat /\ Boot \in Nat /\ Boot > Threshold
    /\ Environments \subseteq Environment /\ MaxOutages \in Nat

VARIABLES
    phase,    \* replaying, collecting, raising, raised, freezing, frozen, killed
    now,      \* ticks since the replay began
    call,     \* each arrival: unsent, queued, calling, auditing, done or failed
    begun,    \* when its call of complete began
    serving,  \* the calls in flight on each replica
    result,   \* the response: its route and latency
    samples,  \* what was collected
    capture,  \* the capture file: old, torn or new
    audit,    \* the audit file, kept from one replay to the next: its lines whole, the
              \* last one without its end, or one of them not to be parsed
    env,      \* the environment
    replica,  \* each replica: zero, booting or up, and since when
    outages,  \* failed boots
    found     \* for the properties: the state of the replica each call was routed to

threads == <<call, begun, serving, result, found>>
platform == <<replica, outages>>
output == <<samples, capture>>
vars == <<phase, now, threads, output, audit, env, platform>>
----
\* _diurnal_trace: the rate is carried over until it makes an arrival.
Carry == LET carry[k \in 0..Len(Rates)] ==
                IF k = 0 THEN 0 ELSE (carry[k - 1] + Rates[k]) % Unit
         IN  carry

Trace == LET upTo[k \in 0..Len(Rates)] ==
                IF k = 0 THEN <<>>
                ELSE upTo[k - 1]
                     \o [i \in 1..((Carry[k - 1] + Rates[k]) \div Unit) |-> k - 1]
         IN  upTo[Len(Rates)]

Arrivals == 1..Len(Trace)

NoResult == [route |-> "deterministic_fallback", latency |-> 0]
Running == {i \in Arrivals : call[i] \in {"calling", "auditing"}}

Init == /\ phase = (IF Trace = <<>> THEN "collecting" ELSE "replaying") /\ now = 0
        /\ call = [i \in Arrivals |-> "unsent"]
        /\ begun = [i \in Arrivals |-> 0]
        /\ serving = [p \in Replicas |-> {}]
        /\ result = [i \in Arrivals |-> NoResult]
        /\ samples = <<>> /\ capture = "old"
        /\ audit \in {"whole", "unended", "torn"}
        /\ env \in Environments
        /\ replica \in [Replicas -> {[state |-> s, since |-> 0] : s \in {"zero", "up"}}]
        /\ outages = 0
        /\ found = [i \in Arrivals |-> "none"]

\* The first arrival that is in a state: they are submitted, and taken by the pool,
\* in the order of the trace.
First(i, state) == call[i] = state /\ \A j \in 1..(i - 1) : call[j] # state

Due(i) == phase = "replaying" /\ First(i, "unsent") /\ now >= Trace[i]

\* _replay_trace: the arrival whose offset has come is submitted; after the last
\* one the results are collected.
Submit(i) == /\ Due(i)
             /\ call' = [call EXCEPT ![i] = "queued"]
             /\ phase' = IF i = Len(Trace) THEN "collecting" ELSE phase
             /\ UNCHANGED <<now, begun, serving, result, found, output, audit, env, platform>>

\* The platform's choice: any replica, loaded or not, takes the call, a new one if it
\* is at zero; each takes as many as the pool has threads.
RoutedTo(p, i) ==
    /\ serving' = [serving EXCEPT ![p] = @ \cup {i}]
    /\ replica' = IF replica[p].state = "zero"
                  THEN [replica EXCEPT ![p] = [state |-> "booting", since |-> now]]
                  ELSE replica
    /\ found' = [found EXCEPT ![i] = replica[p].state]

\* Mutant: a thread for every arrival.
BeginAtOnce(i) ==
    /\ First(i, "queued")
    /\ \E p \in Replicas : RoutedTo(p, i)
    /\ call' = [call EXCEPT ![i] = "calling"]
    /\ begun' = [begun EXCEPT ![i] = now]
    /\ UNCHANGED <<phase, now, result, output, audit, env, outages>>

\* Mutant: a thread whose call raised is not given back.
FreeUnlessRaised == Cardinality(Running \cup {i \in Arrivals : call[i] = "failed"}) < PoolSize

Free == Cardinality(Running) < PoolSize

\* _fire in a thread of the pool: infer decides for the self-hosted route, whose
\* client always calls itself healthy, and sends the call.
Begin(i) ==
    /\ First(i, "queued") /\ Free
    /\ \E p \in Replicas : RoutedTo(p, i)
    /\ call' = [call EXCEPT ![i] = "calling"]
    /\ begun' = [begun EXCEPT ![i] = now]
    /\ UNCHANGED <<phase, now, result, output, audit, env, outages>>

\* Mutant: the latency since the arrival, its time in the queue included.
LatencyOfArrival(i) == now - Trace[i]

\* SelfHostedOpenAIClient.complete: the clock runs from the call of complete.
Latency(i) == now - begun[i]

Responds(i, response) == /\ call[i] = "calling"
                         /\ call' = [call EXCEPT ![i] = "auditing"]
                         /\ result' = [result EXCEPT ![i] = response]
                         /\ begun' = [begun EXCEPT ![i] = 0]
                         /\ serving' = [p \in Replicas |-> serving[p] \ {i}]
                         /\ UNCHANGED <<phase, now, found, output, audit, env, platform>>

\* The replica answers ...
Served(i) == /\ \E p \in Replicas : i \in serving[p] /\ replica[p].state = "up"
             /\ Responds(i, [route |-> "self_hosted", latency |-> Latency(i)])

\* ... or the call raises and a rung below answers, with the latency of its own
\* client: a hosted model may take longer than the threshold, a template does not.
FellBack(i) ==
    \E route \in MayAnswer(env, FALSE, "self_hosted") \ {"self_hosted"} :
        Responds(i, [route |-> route,
                     latency |-> IF ClientBehind(env, FALSE, route) \in Remote
                                 THEN Threshold + 1 ELSE 0])

\* What a record that is not written to its end, or is glued to one, makes of the file.
Left == [whole |-> {"whole", "unended", "torn"}, unended |-> {"unended", "torn"},
         torn |-> {"torn"}]

\* The audit record is written, behind the end of the last line or not, or infer
\* raises and the future holds the error.
Audited(i) == /\ call[i] = "auditing"
              /\ \/ /\ audit # "torn" /\ call' = [call EXCEPT ![i] = "done"]
                    /\ audit' = IF audit = "whole" THEN "whole" ELSE "torn"
                 \/ /\ call' = [call EXCEPT ![i] = "failed"]
                    /\ audit' \in Left[audit]
              /\ UNCHANGED <<phase, now, begun, serving, result, found, output, env, platform>>
----
\* DiurnalSample: cold is a matter of the latency.
Sample(i) == [offset |-> Trace[i], latency |-> result[i].latency, route |-> result[i].route,
              cold |-> result[i].latency > Threshold]

\* Mutant: the results are taken as they come.
CollectAsCompleted == /\ phase = "collecting"
                      /\ \E i \in Arrivals :
                            /\ call[i] = "done"
                            /\ ~\E k \in 1..Len(samples) : samples[k] = Sample(i)
                            /\ samples' = Append(samples, Sample(i))
                      /\ UNCHANGED <<phase, now, threads, capture, audit, env, platform>>

\* future.result() of the next arrival: its sample ...
Collect == /\ phase = "collecting" /\ Len(samples) < Len(Trace)
           /\ call[Len(samples) + 1] = "done"
           /\ samples' = Append(samples, Sample(Len(samples) + 1))
           /\ UNCHANGED <<phase, now, threads, capture, audit, env, platform>>

\* ... or what its call raised, which leaves the pool's block ...
CollectRaises == /\ phase = "collecting" /\ Len(samples) < Len(Trace)
                 /\ call[Len(samples) + 1] = "failed"
                 /\ phase' = "raising"
                 /\ UNCHANGED <<now, threads, output, audit, env, platform>>

\* ... once all that was submitted has been run.
PoolExits == /\ phase = "raising"
             /\ \A i \in Arrivals : call[i] \in {"done", "failed"}
             /\ phase' = "raised"
             /\ UNCHANGED <<now, threads, output, audit, env, platform>>

\* run_diurnal and _freeze: the file is truncated, then written.
Freeze == \/ /\ phase = "collecting" /\ Len(samples) = Len(Trace)
             /\ phase' = "freezing" /\ capture' = "torn"
             /\ UNCHANGED <<now, threads, samples, audit, env, platform>>
          \/ /\ phase = "freezing"
             /\ phase' = "frozen" /\ capture' = "new"
             /\ UNCHANGED <<now, threads, samples, audit, env, platform>>

Ended == {"raised", "frozen", "killed"}

\* The process is killed, and its memory lost; a record that is being written may be
\* left torn.
Killed == /\ phase \notin Ended
          /\ phase' = "killed"
          /\ audit' \in IF \E i \in Arrivals : call[i] = "auditing" THEN Left[audit] ELSE {audit}
          /\ call' = [i \in Arrivals |-> "unsent"] /\ begun' = [i \in Arrivals |-> 0]
          /\ result' = [i \in Arrivals |-> NoResult] /\ samples' = <<>>
          /\ serving' = [p \in Replicas |-> {}] /\ found' = [i \in Arrivals |-> "none"]
          /\ UNCHANGED <<now, capture, env, platform>>

BootEnds(p) == /\ replica[p].state = "booting"
               /\ \/ /\ now - replica[p].since = Boot
                     /\ replica' = [replica EXCEPT ![p] = [state |-> "up", since |-> now]]
                     /\ UNCHANGED outages
                  \/ /\ outages < MaxOutages
                     /\ replica' = [replica EXCEPT ![p] = [state |-> "zero", since |-> now]]
                     /\ outages' = outages + 1
               /\ UNCHANGED <<phase, now, threads, output, audit, env>>

\* The platform scales an idle replica down, whatever the others do.
ScaleDown(p) == /\ replica[p].state = "up" /\ serving[p] = {}
                /\ replica' = [replica EXCEPT ![p] = [state |-> "zero", since |-> 0]]
                /\ UNCHANGED <<phase, now, threads, output, audit, env, outages>>

Later(a, b) == IF a < b THEN b ELSE a

\* A call its replica, up or not, must have answered or refused by now.
Overdue(i) == \E p \in Replicas :
                 /\ i \in serving[p] /\ replica[p].state # "booting"
                 /\ now - Later(begun[i], replica[p].since) >= Service

Tick == /\ phase \notin Ended
        /\ \A i \in Arrivals : ~Due(i) /\ ~Overdue(i) /\ call[i] # "auditing"
        /\ Free => \A i \in Arrivals : call[i] # "queued"
        /\ \A p \in Replicas : replica[p].state = "booting" => now - replica[p].since < Boot
        /\ \E i \in Arrivals : call[i] \in {"unsent", "calling"}
        /\ now' = now + 1
        /\ UNCHANGED <<phase, threads, output, audit, env, platform>>

CallStep(i) == Begin(i) \/ Served(i) \/ FellBack(i) \/ Audited(i)
MainStep == (\E i \in Arrivals : Submit(i)) \/ Collect \/ CollectRaises \/ PoolExits \/ Freeze

Next == \/ MainStep
        \/ \E i \in Arrivals : phase \notin Ended /\ CallStep(i)
        \/ \E p \in Replicas : phase \notin Ended /\ (BootEnds(p) \/ ScaleDown(p))
        \/ Tick \/ Killed

Spec == Init /\ [][Next]_vars

\* Threads run, time passes, a boot and a call end.
FairSpec == /\ Spec
            /\ WF_vars(MainStep) /\ WF_vars(Tick)
            /\ \A i \in Arrivals : WF_vars(phase \notin Ended /\ CallStep(i))
            /\ \A p \in Replicas : WF_vars(phase \notin Ended /\ BootEnds(p))
----
TypeOK == /\ phase \in {"replaying", "collecting", "raising", "freezing"} \cup Ended
          /\ now \in Nat
          /\ call \in [Arrivals -> {"unsent", "queued", "calling", "auditing", "done", "failed"}]
          /\ Cardinality(Running) <= PoolSize
          /\ serving \in [Replicas -> SUBSET Arrivals]
          /\ result \in [Arrivals -> [route : Routes, latency : Nat]]
          /\ Len(samples) <= Len(Trace)
          /\ capture \in {"old", "torn", "new"}
          /\ audit \in {"whole", "unended", "torn"} /\ env \in Environments
          /\ outages \in 0..MaxOutages
          /\ found \in [Arrivals -> {"none", "zero", "booting", "up"}]

\* A capture is frozen only when every arrival of the trace was answered, and has
\* one sample of each, in the order they arrived whatever order they ended in; a
\* replay that raises had a call that raised, has run every other one to its end
\* and leaves the capture of the replay before; and a capture of several arrivals
\* is frozen only over an audit file whose lines all parse (loadtest.py:433-444,
\* audit/store.py:70-76).
HonestCapture ==
    /\ phase \in {"freezing", "frozen"} =>
          /\ Len(samples) = Len(Trace)
          /\ \A i \in Arrivals : call[i] = "done" /\ samples[i] = Sample(i)
          /\ Len(Trace) > 1 => audit = "whole"
    /\ phase = "raised" =>
          /\ capture = "old"
          /\ \E i \in Arrivals : call[i] = "failed"
          /\ \A i \in Arrivals : call[i] \in {"done", "failed"}

\* A served call counted as cold was routed to a replica that was not loaded, or took
\* no longer than a loaded one may, however long it had queued in the pool; and every
\* served call that started a replica is counted, however many replicas the platform
\* starts or scales down around it and even when the first load fails
\* (loadtest.py:53, 430-431, 457-458).
ColdWasLoading ==
    \A i \in Arrivals : result[i].route = "self_hosted" =>
        /\ Sample(i).cold => found[i] # "up" \/ result[i].latency <= Service
        /\ found[i] = "zero" => Sample(i).cold

\* The replay ends, whatever fails in it and however its calls queue.
ReplayEnds == phase = "replaying" ~> phase \in Ended
----
(***************************************************************************)
(* What makes these hold, as one inductive invariant in parts.             *)
(***************************************************************************)
DiurnalSample == [offset : Nat, latency : Nat, route : Routes, cold : BOOLEAN]

\* Nothing that is timed began in the future.
TimesInv ==
    /\ TypeOK
    /\ samples \in Seq(DiurnalSample)
    /\ begun \in [Arrivals -> 0..now]
    /\ replica \in [Replicas -> [state : {"zero", "booting", "up"}, since : 0..now]]

\* What was collected is final, and what was raised stays raised.
CollectedInv ==
    /\ \A i \in 1..Len(samples) : call[i] = "done" /\ samples[i] = Sample(i)
    /\ phase = "replaying" => samples = <<>>
    /\ phase \in {"freezing", "frozen"} => Len(samples) = Len(Trace)
    /\ phase \in {"replaying", "collecting", "raising", "raised"} => capture = "old"
    /\ phase \in {"raising", "raised"} => \E i \in Arrivals : call[i] = "failed"
    /\ phase = "raised" => \A i \in Arrivals : call[i] \in {"done", "failed"}
    /\ audit = "unended" => \/ \E i \in Arrivals : call[i] = "failed"
                            \/ \A i \in Arrivals : call[i] # "done"
    /\ audit = "torn" => \/ \E i \in Arrivals : call[i] = "failed"
                         \/ \A i, j \in Arrivals : call[i] = "done" /\ call[j] = "done" => i = j

\* A call that did not have to wait is held by a loaded replica, and not for long.
Prompt(i) == \E p \in Replicas : /\ i \in serving[p] /\ replica[p].state = "up"
                                 /\ replica[p].since <= begun[i]
                                 /\ now - begun[i] <= Service

\* One that started a replica waits for all of a load.
WaitsForLoad(i) ==
    \A p \in Replicas : i \in serving[p] =>
        /\ replica[p].state = "booting" => begun[i] <= replica[p].since
        /\ replica[p].state = "up" => begun[i] + Boot <= replica[p].since

LoadingInv ==
    /\ \A p \in Replicas : \A i \in serving[p] : call[i] = "calling"
    /\ \A i \in Arrivals : call[i] = "calling" =>
          /\ found[i] = "up" => Prompt(i)
          /\ found[i] = "zero" => WaitsForLoad(i)
    /\ \A i \in Arrivals : result[i].route = "self_hosted" =>
          /\ call[i] \in {"auditing", "done", "failed"}
          /\ found[i] = "up" => result[i].latency <= Service
          /\ found[i] = "zero" => result[i].latency > Threshold

DiurnalInv == TimesInv /\ CollectedInv /\ LoadingInv
=============================================================================
