------------------------------ MODULE DiurnalProofs ------------------------------
(***************************************************************************)
(* Proofs about the replay of a day, for any rates, pool, thresholds,      *)
(* replicas, environments and failures.                                    *)
(***************************************************************************)
EXTENDS DiurnalReplay, OperatorProofs

\* What f has carried over, and the arrivals it has counted, after n steps of the trace.
Carries(f, n) == f = [k \in 0..n |-> IF k = 0 THEN 0 ELSE (f[k - 1] + Rates[k]) % Unit]

Burst(n) == [i \in 1..((Carry[n - 1] + Rates[n]) \div Unit) |-> n - 1]

Extended(arrivals, n) == arrivals \o Burst(n)

Traces(f, n) == f = [k \in 0..n |-> IF k = 0 THEN <<>> ELSE Extended(f[k - 1], k)]

\* What is carried over from step to step is a number of parts.
LEMMA CarryTyped == \A k \in 0..Len(Rates) : Carry[k] \in Nat
<1> DEFINE N == Len(Rates)
           S == {n \in 0..N : \E f : Carries(f, n)}
           T == {n \in 0..N : Carry[n] \in Nat}
<1>1. N \in Nat /\ (\A k \in 1..N : Rates[k] \in Nat) /\ Unit \in Nat /\ Unit > 0
  BY DiurnalAssumption
<1>2. 0 \in S
  <2>1. Carries([k \in 0..0 |-> 0], 0)
    BY DEF Carries
  <2>2. QED
    BY <1>1, <2>1
<1>3. ASSUME NEW n \in 0..N, n < N, n \in S
      PROVE  n + 1 \in S
  <2>1. PICK f : Carries(f, n)
    BY <1>3
  <2> DEFINE g == [k \in 0..(n + 1) |-> IF k = n + 1 THEN (f[n] + Rates[n + 1]) % Unit ELSE f[k]]
  <2>2. ASSUME NEW k \in 0..(n + 1)
        PROVE  g[k] = IF k = 0 THEN 0 ELSE (g[k - 1] + Rates[k]) % Unit
    <3>1. CASE k = n + 1
      BY <1>3, <3>1
    <3>2. CASE k # n + 1
      BY <1>3, <2>1, <3>2 DEF Carries
    <3>3. QED
      BY <3>1, <3>2
  <2>3. Carries(g, n + 1)
    BY <2>2 DEF Carries
  <2>4. QED
    BY <1>1, <1>3, <2>3
<1> HIDE DEF S, N
<1>4. N \in S
  <2>1. \A n \in 0..N : n \in S
    BY <1>1, <1>2, <1>3, NumbersUpTo
  <2>2. QED
    BY <1>1, <2>1
<1>5. Carries(Carry, N)
  <2>1. PICK f : Carries(f, N)
    BY <1>4 DEF S
  <2>2. QED
    BY <2>1, Zenon DEF Carry, Carries, N
<1>6. Carry[0] = 0 /\ \A k \in 1..N : Carry[k] = (Carry[k - 1] + Rates[k]) % Unit
  <2>1. QED
    BY <1>1, <1>5 DEF Carries
<1>7. 0 \in T
  BY <1>1, <1>6
<1>8. ASSUME NEW n \in 0..N, n < N, n \in T
      PROVE  n + 1 \in T
  <2>1. n + 1 \in 1..N /\ (n + 1) - 1 = n /\ n + 1 \in 0..N
    BY <1>1, <1>8
  <2>2. Carry[n + 1] = (Carry[n] + Rates[n + 1]) % Unit /\ Carry[n] \in Nat
    BY <1>6, <1>8, <2>1
  <2>3. Rates[n + 1] \in Nat
    BY <1>1, <2>1
  <2> DEFINE sum == Carry[n] + Rates[n + 1]
  <2>4. sum \in Nat
    BY <2>2, <2>3
  <2> HIDE DEF sum
  <2>5. sum % Unit \in Nat
    BY <1>1, <2>4
  <2>6. QED
    BY <2>1, <2>2, <2>5 DEF sum
<1> HIDE DEF T
<1>9. \A n \in 0..N : n \in T
  BY <1>1, <1>7, <1>8, NumbersUpTo
<1>10. QED
  BY <1>9 DEF T, N

\* The trace is a sequence of steps.
LEMMA TraceTyped == Trace \in Seq(Nat)
<1> DEFINE N == Len(Rates)
           S == {n \in 0..N : \E f : Traces(f, n)}
           upTo == CHOOSE f : Traces(f, N)
           T == {n \in 0..N : upTo[n] \in Seq(Nat)}
<1>1. N \in Nat /\ (\A k \in 1..N : Rates[k] \in Nat) /\ Unit \in Nat /\ Unit > 0
  BY DiurnalAssumption
<1>2. ASSUME NEW n \in 1..N
      PROVE  Burst(n) \in Seq(Nat)
  <2>1. n - 1 \in 0..N /\ n - 1 \in Nat
    BY <1>1
  <2> DEFINE sum == Carry[n - 1] + Rates[n]
  <2>2. sum \in Nat
    BY <1>1, <2>1, CarryTyped
  <2> HIDE DEF sum
  <2>3. sum \div Unit \in Nat
    BY <1>1, <2>2
  <2>4. [i \in 1..(sum \div Unit) |-> n - 1] \in Seq(Nat)
    BY <2>1, <2>3
  <2>5. QED
    BY <2>4 DEF sum, Burst
<1>3. 0 \in S
  <2>1. Traces([k \in 0..0 |-> <<>>], 0)
    BY DEF Traces
  <2>2. QED
    BY <1>1, <2>1
<1>4. ASSUME NEW n \in 0..N, n < N, n \in S
      PROVE  n + 1 \in S
  <2>1. PICK f : Traces(f, n)
    BY <1>4
  <2> DEFINE g == [k \in 0..(n + 1) |-> IF k = n + 1 THEN Extended(f[n], n + 1) ELSE f[k]]
  <2>2. ASSUME NEW k \in 0..(n + 1)
        PROVE  g[k] = IF k = 0 THEN <<>> ELSE Extended(g[k - 1], k)
    <3>1. CASE k = n + 1
      BY <1>4, <3>1
    <3>2. CASE k # n + 1
      BY <1>4, <2>1, <3>2 DEF Traces
    <3>3. QED
      BY <3>1, <3>2
  <2>3. Traces(g, n + 1)
    BY <2>2 DEF Traces
  <2>4. QED
    BY <1>1, <1>4, <2>3
<1> HIDE DEF S, N
<1>5. N \in S
  <2>1. \A n \in 0..N : n \in S
    BY <1>1, <1>3, <1>4, NumbersUpTo
  <2>2. QED
    BY <1>1, <2>1
<1>6. Traces(upTo, N)
  <2>1. PICK f : Traces(f, N)
    BY <1>5 DEF S
  <2>2. QED
    BY <2>1, Zenon
<1>7. Trace = upTo[N]
  BY Zenon DEF Trace, Traces, Burst, Extended, N
<1> HIDE DEF upTo
<1>8. upTo[0] = <<>> /\ \A k \in 1..N : upTo[k] = Extended(upTo[k - 1], k)
  <2>1. QED
    BY <1>1, <1>6 DEF Traces
<1>9. 0 \in T
  <2>1. 0 \in 0..N /\ <<>> \in Seq(Nat)
    BY <1>1
  <2>2. QED
    BY <1>8, <2>1
<1>10. ASSUME NEW n \in 0..N, n < N, n \in T
       PROVE  n + 1 \in T
  <2>1. n + 1 \in 1..N /\ (n + 1) - 1 = n /\ n + 1 \in 0..N
    BY <1>1, <1>10
  <2>2. upTo[n + 1] = Extended(upTo[n], n + 1) /\ upTo[n] \in Seq(Nat)
    BY <1>8, <1>10, <2>1
  <2>3. Burst(n + 1) \in Seq(Nat)
    BY <1>2, <2>1
  <2>4. upTo[n + 1] \in Seq(Nat)
    BY <2>2, <2>3 DEF Extended
  <2>5. QED
    BY <2>1, <2>4
<1> HIDE DEF T
<1>11. \A n \in 0..N : n \in T
  BY <1>1, <1>9, <1>10, NumbersUpTo
<1>12. QED
  BY <1>1, <1>7, <1>11 DEF T

\* The arrivals are numbered, and each has its step.
LEMMA ArrivalsTyped == /\ Len(Trace) \in Nat /\ Arrivals = 1..Len(Trace)
                       /\ \A i \in Arrivals : Trace[i] \in Nat
                       /\ IsFiniteSet(Arrivals)
<1>1. Len(Trace) \in Nat /\ \A i \in 1..Len(Trace) : Trace[i] \in Nat
  BY TraceTyped
<1>2. IsFiniteSet(1..Len(Trace))
  BY <1>1, FS_Interval
<1>3. QED
  BY <1>1, <1>2 DEF Arrivals
----
\* The types of a response.
Response == [route : Routes, latency : Nat]

\* What is read of a result makes a sample.
LEMMA SampleTyped ==
    ASSUME result \in [Arrivals -> Response]
    PROVE  \A i \in Arrivals : Sample(i) \in DiurnalSample
<1> TAKE i \in Arrivals
<1>1. Trace[i] \in Nat /\ result[i].latency \in Nat /\ result[i].route \in Routes
  BY ArrivalsTyped DEF Response
<1> DEFINE cold == result[i].latency > Threshold
<1>2. cold \in BOOLEAN
  OBVIOUS
<1> HIDE DEF cold
<1>3. [offset |-> Trace[i], latency |-> result[i].latency, route |-> result[i].route,
       cold |-> cold] \in DiurnalSample
  BY <1>1, <1>2 DEF DiurnalSample
<1>4. QED
  BY <1>3 DEF Sample, cold

\* The pool is never given back more threads than it had.
LEMMA PoolShrinks ==
    ASSUME TimesInv, Running' \subseteq Running
    PROVE  Cardinality(Running') <= PoolSize
<1>1. Running \subseteq Arrivals /\ IsFiniteSet(Arrivals) /\ Cardinality(Running) <= PoolSize
  BY ArrivalsTyped DEF Running, TimesInv, TypeOK
<1>2. IsFiniteSet(Running)
  BY <1>1, FS_Subset
<1>3. Cardinality(Running') <= Cardinality(Running) /\ IsFiniteSet(Running')
  BY <1>2, FS_Subset
<1>4. Cardinality(Running) \in Nat /\ Cardinality(Running') \in Nat /\ PoolSize \in Nat
  BY <1>2, <1>3, FS_CardinalityType, DiurnalAssumption
<1>5. QED
  BY <1>1, <1>3, <1>4

\* A thread that is free takes one call.
LEMMA PoolFills ==
    ASSUME TimesInv, Free, NEW i \in Arrivals, Running' \subseteq Running \cup {i}
    PROVE  Cardinality(Running') <= PoolSize
<1>1. Running \subseteq Arrivals /\ IsFiniteSet(Arrivals)
  BY ArrivalsTyped DEF Running
<1>2. IsFiniteSet(Running)
  BY <1>1, FS_Subset
<1>3. /\ IsFiniteSet(Running \cup {i})
      /\ Cardinality(Running \cup {i}) <= Cardinality(Running) + 1
  BY <1>2, FS_AddElement, FS_CardinalityType
<1>4. Cardinality(Running') <= Cardinality(Running \cup {i}) /\ IsFiniteSet(Running')
  BY <1>3, FS_Subset
<1>5. /\ Cardinality(Running) \in Nat /\ Cardinality(Running \cup {i}) \in Nat
      /\ Cardinality(Running') \in Nat /\ PoolSize \in Nat
  BY <1>2, <1>3, <1>4, FS_CardinalityType, DiurnalAssumption
<1>6. QED
  BY <1>3, <1>4, <1>5 DEF Free

LEMMA TimesInit == Init => TimesInv
<1> SUFFICES ASSUME Init
             PROVE  TimesInv
  OBVIOUS
<1>1. Running = {}
  BY DEF Init, Running
<1>2. Cardinality(Running) <= PoolSize
  BY <1>1, FS_EmptySet, DiurnalAssumption
<1>3. NoResult \in Response
  BY DEF NoResult, Response, Routes
<1>4. \A s \in {"zero", "up"} :
         [state |-> s, since |-> 0] \in [state : {"zero", "booting", "up"}, since : 0..now]
  BY DEF Init
<1>5. begun \in [Arrivals -> 0..now] /\ call \in [Arrivals -> {"unsent"}]
  BY DEF Init
<1>6. /\ phase \in {"replaying", "collecting"} /\ now = 0
      /\ serving \in [Replicas -> SUBSET Arrivals]
      /\ found \in [Arrivals -> {"none"}]
      /\ samples \in Seq(DiurnalSample) /\ Len(samples) = 0 /\ capture = "old"
  BY DEF Init
<1>7. audit \in {"whole", "unended", "torn"} /\ env \in Environments
  BY DEF Init
<1>8. result \in [Arrivals -> Response] /\ outages \in 0..MaxOutages
  BY <1>3, DiurnalAssumption DEF Init
<1>9. replica \in [Replicas -> [state : {"zero", "booting", "up"}, since : 0..now]]
  BY <1>4 DEF Init
<1>10. TypeOK
  BY <1>2, <1>5, <1>6, <1>7, <1>8, ArrivalsTyped DEF TypeOK, Response
<1>11. QED
  BY <1>5, <1>6, <1>9, <1>10 DEF TimesInv

LEMMA TimesStep == TimesInv /\ [Next]_vars => TimesInv'
<1> SUFFICES ASSUME TimesInv, [Next]_vars
             PROVE  TimesInv'
  OBVIOUS
<1> DEFINE States == {"unsent", "queued", "calling", "auditing", "done", "failed"}
           Founds == {"none", "zero", "booting", "up"}
           Files == {"whole", "unended", "torn"}
           Loads(t) == [state : {"zero", "booting", "up"}, since : 0..t]
           TypeGoal == /\ phase' \in {"replaying", "collecting", "raising", "freezing"} \cup Ended
                       /\ now' \in Nat /\ call' \in [Arrivals -> States]
                       /\ Cardinality(Running') <= PoolSize
                       /\ serving' \in [Replicas -> SUBSET Arrivals] /\ result' \in [Arrivals -> Response]
                       /\ Len(samples') <= Len(Trace) /\ capture' \in {"old", "torn", "new"}
                       /\ outages' \in 0..MaxOutages /\ found' \in [Arrivals -> Founds]
                       /\ samples' \in Seq(DiurnalSample) /\ begun' \in [Arrivals -> 0..now']
                       /\ replica' \in [Replicas -> Loads(now')]
<1>1. /\ phase \in {"replaying", "collecting", "raising", "freezing"} \cup Ended /\ now \in Nat
      /\ call \in [Arrivals -> States] /\ Cardinality(Running) <= PoolSize
      /\ serving \in [Replicas -> SUBSET Arrivals] /\ result \in [Arrivals -> Response]
      /\ Len(samples) <= Len(Trace) /\ capture \in {"old", "torn", "new"}
      /\ outages \in 0..MaxOutages /\ found \in [Arrivals -> Founds]
      /\ samples \in Seq(DiurnalSample) /\ begun \in [Arrivals -> 0..now]
      /\ replica \in [Replicas -> Loads(now)]
  BY DEF TimesInv, TypeOK, Response
<1>2. audit \in Files /\ env \in Environments
  BY DEF TimesInv, TypeOK
<1>3. SUFFICES TypeGoal
  <2>1. \A file \in Files : Left[file] \subseteq Files
    BY DEF Left
  <2>2. audit' \in Files /\ env' = env
    <3>0. {"whole", "torn"} \subseteq Files
      OBVIOUS
    <3> HIDE DEF Files
    <3>1. CASE MainStep
      BY <1>2, <3>1 DEF MainStep, Submit, Collect, CollectRaises, PoolExits, Freeze
    <3>2. ASSUME NEW i \in Arrivals, CallStep(i)
          PROVE  audit' \in Files /\ env' = env
      <4>1. CASE Audited(i)
        <5>1. env' = env /\ (audit' \in {"whole", "torn"} \/ audit' \in Left[audit])
          BY <4>1 DEF Audited
        <5>2. QED
          BY <1>2, <2>1, <3>0, <5>1
      <4>2. CASE ~Audited(i)
        BY <1>2, <3>2, <4>2 DEF CallStep, Begin, Served, FellBack, Responds
      <4>3. QED
        BY <4>1, <4>2
    <3>3. ASSUME NEW p \in Replicas, BootEnds(p) \/ ScaleDown(p)
          PROVE  audit' \in Files /\ env' = env
      BY <1>2, <3>3 DEF BootEnds, ScaleDown
    <3>4. CASE Killed
      <4>1. env' = env /\ (audit' = audit \/ audit' \in Left[audit])
        BY <3>4 DEF Killed
      <4>2. QED
        BY <1>2, <2>1, <4>1
    <3>5. CASE Tick \/ UNCHANGED vars
      BY <1>2, <3>5 DEF Tick, vars
    <3>6. QED
      BY <3>1, <3>2, <3>3, <3>4, <3>5 DEF Next
  <2>3. QED
    BY <1>2, <1>3, <2>2 DEF TimesInv, TypeOK, Response
<1> HIDE DEF States
<1>4. /\ {"unsent", "queued", "calling", "auditing", "done", "failed"} \subseteq States
      /\ Loads(now) \subseteq Loads(now + 1)
  BY <1>1 DEF States
<1> USE <1>1, <1>4
<1>5. CASE MainStep
  <2>1. UNCHANGED <<now, begun, serving, result, found, replica, outages>>
    BY <1>5 DEF MainStep, Submit, Collect, CollectRaises, PoolExits, Freeze, threads, platform
  <2>2. ASSUME NEW i \in Arrivals, Submit(i)
        PROVE  /\ call' \in [Arrivals -> States] /\ UNCHANGED <<samples, capture>>
               /\ phase' \in {"collecting", phase} /\ Running' \subseteq Running
    BY <2>2 DEF Submit, Running, output, Due, First
  <2>3. CASE Collect
    <3>1. Len(samples) + 1 \in Arrivals
      BY <2>3, ArrivalsTyped DEF Collect
    <3>2. Sample(Len(samples) + 1) \in DiurnalSample
      BY <3>1, SampleTyped
    <3>3. /\ samples' \in Seq(DiurnalSample) /\ Len(samples') = Len(samples) + 1
          /\ phase' = phase /\ capture' = capture /\ call' = call
      BY <2>3, <3>2 DEF Collect, threads
    <3>4. Running' = Running /\ Len(samples') <= Len(Trace)
      BY <2>3, <3>3, ArrivalsTyped DEF Collect, Running
    <3>5. QED
      BY <2>1, <3>3, <3>4, PoolShrinks
  <2>4. CASE CollectRaises \/ PoolExits \/ Freeze
    <3>1. /\ phase' \in {"raising", "raised", "freezing", "frozen"} /\ call' = call
          /\ samples' = samples /\ capture' \in {"torn", "new", capture}
      BY <2>4 DEF CollectRaises, PoolExits, Freeze, threads, output
    <3>2. Running' = Running
      BY <3>1 DEF Running
    <3>3. QED
      BY <2>1, <3>1, <3>2, PoolShrinks DEF Ended
  <2>5. CASE \E i \in Arrivals : Submit(i)
    BY <2>1, <2>2, <2>5, PoolShrinks
  <2>6. QED
    BY <1>5, <2>3, <2>4, <2>5 DEF MainStep
<1>6. ASSUME NEW i \in Arrivals, Begin(i)
      PROVE  TypeGoal
  <2>1. PICK p \in Replicas :
           /\ serving' = [serving EXCEPT ![p] = @ \cup {i}]
           /\ replica' = IF replica[p].state = "zero"
                         THEN [replica EXCEPT ![p] = [state |-> "booting", since |-> now]]
                         ELSE replica
           /\ found' = [found EXCEPT ![i] = replica[p].state]
    BY <1>6 DEF Begin, RoutedTo
  <2>2. /\ call' = [call EXCEPT ![i] = "calling"] /\ begun' = [begun EXCEPT ![i] = now] /\ Free
        /\ UNCHANGED <<phase, now, result, samples, capture, outages>>
    BY <1>6 DEF Begin, output
  <2>3. Cardinality(Running') <= PoolSize
    <3>1. Running' \subseteq Running \cup {i}
      BY <2>2 DEF Running
    <3>2. QED
      BY <2>2, <3>1, PoolFills
  <2>4. [state |-> "booting", since |-> now] \in Loads(now)
    OBVIOUS
  <2>5. replica' \in [Replicas -> Loads(now)] /\ begun' \in [Arrivals -> 0..now]
    <3> HIDE DEF Loads
    <3>1. replica' \in [Replicas -> Loads(now)]
      BY <2>1, <2>4
    <3>2. QED
      BY <2>2, <3>1
  <2>6. /\ serving' \in [Replicas -> SUBSET Arrivals] /\ found' \in [Arrivals -> Founds]
        /\ call' \in [Arrivals -> States]
    BY <2>1, <2>2
  <2>7. QED
    BY <2>2, <2>3, <2>5, <2>6
<1>7. ASSUME NEW i \in Arrivals, NEW response \in Response, Responds(i, response)
      PROVE  TypeGoal
  <2>1. /\ call' = [call EXCEPT ![i] = "auditing"] /\ result' = [result EXCEPT ![i] = response]
        /\ begun' = [begun EXCEPT ![i] = 0] /\ serving' = [p \in Replicas |-> serving[p] \ {i}]
        /\ call[i] = "calling"
        /\ UNCHANGED <<phase, now, found, samples, capture, replica, outages>>
    BY <1>7 DEF Responds, output, platform
  <2>2. Running' \subseteq Running
    BY <2>1 DEF Running
  <2>3. Cardinality(Running') <= PoolSize
    BY <2>2, PoolShrinks
  <2>4. /\ call' \in [Arrivals -> States] /\ result' \in [Arrivals -> Response]
        /\ begun' \in [Arrivals -> 0..now] /\ serving' \in [Replicas -> SUBSET Arrivals]
    BY <2>1
  <2>5. QED
    BY <2>1, <2>3, <2>4
<1>8. ASSUME NEW i \in Arrivals, Audited(i)
      PROVE  TypeGoal
  <2>0. /\ call[i] = "auditing" /\ \E s \in {"done", "failed"} : call' = [call EXCEPT ![i] = s]
        /\ UNCHANGED <<phase, now, begun, serving, result, found, samples, capture, replica,
                       outages>>
    BY <1>8 DEF Audited, output, platform
  <2>1. call' \in [Arrivals -> States] /\ Running' \subseteq Running
    BY <2>0 DEF Running
  <2>2. Cardinality(Running') <= PoolSize
    BY <2>1, PoolShrinks
  <2>3. QED
    BY <2>0, <2>1, <2>2
<1>9. ASSUME NEW i \in Arrivals, CallStep(i)
      PROVE  TypeGoal
  <2>1. CASE Served(i)
    <3>1. [route |-> "self_hosted", latency |-> Latency(i)] \in Response
      BY DEF Response, Routes, Latency
    <3>2. QED
      BY <1>7, <2>1, <3>1 DEF Served
  <2>2. CASE FellBack(i)
    <3>1. PICK route \in MayAnswer(env, FALSE, "self_hosted") :
             Responds(i, [route |-> route,
                          latency |-> IF ClientBehind(env, FALSE, route) \in Remote
                                      THEN Threshold + 1 ELSE 0])
      BY <2>2 DEF FellBack
    <3>2. route \in Routes
      BY DEF MayAnswer
    <3> DEFINE latency == IF ClientBehind(env, FALSE, route) \in Remote THEN Threshold + 1 ELSE 0
    <3>3. latency \in Nat
      <4>1. Threshold + 1 \in Nat /\ 0 \in Nat
        BY DiurnalAssumption
      <4>2. QED
        BY <4>1, Zenon
    <3> HIDE DEF latency
    <3>4. [route |-> route, latency |-> latency] \in Response
      BY <3>2, <3>3 DEF Response
    <3>5. Responds(i, [route |-> route, latency |-> latency])
      BY <3>1 DEF latency
    <3>6. QED
      BY <1>7, <3>4, <3>5
  <2>3. QED
    BY <1>6, <1>8, <1>9, <2>1, <2>2 DEF CallStep
<1>10. ASSUME NEW p \in Replicas, BootEnds(p) \/ ScaleDown(p)
       PROVE  TypeGoal
  <2>1. /\ UNCHANGED <<phase, now, call, begun, serving, result, found, samples, capture>>
        /\ outages' \in 0..MaxOutages
    BY <1>10, DiurnalAssumption DEF BootEnds, ScaleDown, output, threads
  <2>2. PICK state \in {"zero", "booting", "up"}, since \in {0, now} :
           replica' = [replica EXCEPT ![p] = [state |-> state, since |-> since]]
    BY <1>10 DEF BootEnds, ScaleDown
  <2>3. [state |-> state, since |-> since] \in Loads(now)
    OBVIOUS
  <2>4. replica' \in [Replicas -> Loads(now)]
    BY <2>2, <2>3
  <2>5. Running' = Running
    BY <2>1 DEF Running
  <2>6. QED
    BY <2>1, <2>4, <2>5
<1>11. CASE Tick
  <2>1. /\ UNCHANGED <<phase, call, begun, serving, result, found, samples, capture, replica,
                       outages>>
        /\ now' = now + 1
    BY <1>11 DEF Tick, output, threads, platform
  <2>2. Running' = Running
    BY <2>1 DEF Running
  <2>3. 0..now \subseteq 0..(now + 1)
    OBVIOUS
  <2>4. begun' \in [Arrivals -> 0..now'] /\ replica' \in [Replicas -> Loads(now')]
    <3> HIDE DEF Loads
    <3>1. QED
      BY <2>1, <2>3
  <2>5. QED
    BY <2>1, <2>2, <2>4
<1>12. CASE Killed
  <2>1. /\ call' = [i \in Arrivals |-> "unsent"] /\ begun' = [i \in Arrivals |-> 0]
        /\ result' = [i \in Arrivals |-> NoResult] /\ samples' = <<>>
        /\ serving' = [p \in Replicas |-> {}] /\ phase' = "killed"
        /\ found' = [i \in Arrivals |-> "none"]
        /\ UNCHANGED <<now, capture, replica, outages>>
    BY <1>12 DEF Killed, platform
  <2>2. Running' \subseteq Running
    BY <2>1 DEF Running
  <2>3. NoResult \in Response
    BY DEF NoResult, Response, Routes
  <2>4. Len(samples') = 0 /\ samples' \in Seq(DiurnalSample) /\ Len(Trace) \in Nat
    BY <2>1, ArrivalsTyped
  <2>5. QED
    BY <2>1, <2>2, <2>3, <2>4, PoolShrinks DEF Ended
<1>13. CASE UNCHANGED vars
  <2>1. UNCHANGED <<phase, now, call, begun, serving, result, found, samples, capture, replica,
                    outages>>
    BY <1>13 DEF vars, output, threads, platform
  <2>2. Running' = Running
    BY <2>1 DEF Running
  <2>3. QED
    BY <2>1, <2>2
<1>14. QED
  BY <1>5, <1>9, <1>10, <1>11, <1>12, <1>13 DEF Next
----
\* A call that ended is not touched.
LEMMA EndedStays ==
    ASSUME TimesInv, NEW i \in Arrivals, CallStep(i)
    PROVE  /\ UNCHANGED <<phase, now, samples, capture>>
           /\ \A j \in Arrivals : call[j] \in {"done", "failed"} =>
                 call'[j] = call[j] /\ result'[j] = result[j]
<1>1. /\ call \in [Arrivals -> {"unsent", "queued", "calling", "auditing", "done", "failed"}]
      /\ result \in [Arrivals -> Response]
  BY DEF TimesInv, TypeOK, Response
<1>2. CASE Begin(i)
  BY <1>1, <1>2 DEF Begin, First, output
<1>3. CASE Served(i) \/ FellBack(i)
  <2>1. PICK response : Responds(i, response)
    BY <1>3 DEF Served, FellBack
  <2>2. QED
    BY <1>1, <2>1 DEF Responds, output
<1>4. CASE Audited(i)
  BY <1>1, <1>4 DEF Audited, output
<1>5. QED
  BY <1>2, <1>3, <1>4 DEF CallStep

\* What the audit file tells of the calls that ended well.
FileInv == /\ audit = "unended" => \/ \E i \in Arrivals : call[i] = "failed"
                                  \/ \A i \in Arrivals : call[i] # "done"
           /\ audit = "torn" => \/ \E i \in Arrivals : call[i] = "failed"
                               \/ \A i, j \in Arrivals :
                                     call[i] = "done" /\ call[j] = "done" => i = j

\* A call ends well behind whole lines, or as the only one behind a last line without
\* its end; and one fails for every other way to leave the file.
LEMMA FileStays ==
    ASSUME TimesInv, FileInv, NEW i \in Arrivals, CallStep(i)
    PROVE  FileInv'
<1>1. /\ call \in [Arrivals -> {"unsent", "queued", "calling", "auditing", "done", "failed"}]
      /\ audit \in {"whole", "unended", "torn"}
  BY DEF TimesInv, TypeOK
<1>2. CASE ~Audited(i)
  <2>1. audit' = audit /\ \E s \in {"calling", "auditing"} : call' = [call EXCEPT ![i] = s]
    BY <1>2 DEF CallStep, Begin, Served, FellBack, Responds
  <2>2. call[i] \in {"queued", "calling"}
    BY <1>2 DEF CallStep, Begin, First, Served, FellBack, Responds
  <2>3. \A j \in Arrivals : /\ call[j] = "failed" => call'[j] = "failed"
                            /\ call'[j] = "done" => call[j] = "done"
    BY <1>1, <2>1, <2>2
  <2>4. QED
    BY <2>1, <2>3 DEF FileInv
<1>3. CASE Audited(i)
  <2>1. CASE call' = [call EXCEPT ![i] = "failed"]
    BY <1>1, <2>1 DEF FileInv
  <2>2. CASE /\ audit # "torn" /\ call' = [call EXCEPT ![i] = "done"]
             /\ audit' = IF audit = "whole" THEN "whole" ELSE "torn"
    <3>1. call[i] = "auditing"
      BY <1>3 DEF Audited
    <3>2. CASE audit = "whole"
      BY <2>2, <3>2 DEF FileInv
    <3>3. CASE audit = "unended"
      <4>1. audit' = "torn"
        BY <2>2, <3>3
      <4>2. CASE \E j \in Arrivals : call[j] = "failed"
        BY <1>1, <2>2, <3>1, <4>1, <4>2 DEF FileInv
      <4>3. CASE \A j \in Arrivals : call[j] # "done"
        <5>1. \A j \in Arrivals : call'[j] = "done" => j = i
          BY <1>1, <2>2, <4>3
        <5>2. QED
          BY <4>1, <5>1 DEF FileInv
      <4>4. QED
        BY <3>3, <4>2, <4>3 DEF FileInv
    <3>4. QED
      BY <1>1, <2>2, <3>2, <3>3
  <2>3. QED
    BY <1>3, <2>1, <2>2 DEF Audited
<1>4. QED
  BY <1>2, <1>3

LEMMA CollectedInit == Init => CollectedInv
<1> SUFFICES ASSUME Init
             PROVE  CollectedInv
  OBVIOUS
<1>1. /\ phase \in {"replaying", "collecting"} /\ Len(samples) = 0 /\ samples = <<>>
      /\ capture = "old" /\ \A i \in Arrivals : call[i] # "done"
  BY DEF Init
<1>2. QED
  BY <1>1 DEF CollectedInv

LEMMA CollectedStep == TimesInv /\ CollectedInv /\ [Next]_vars => CollectedInv'
<1> SUFFICES ASSUME TimesInv, CollectedInv, [Next]_vars
             PROVE  CollectedInv'
  OBVIOUS
<1>1. /\ call \in [Arrivals -> {"unsent", "queued", "calling", "auditing", "done", "failed"}]
      /\ samples \in Seq(DiurnalSample) /\ Len(samples) \in Nat /\ Len(samples) <= Len(Trace)
  BY DEF TimesInv, TypeOK
<1>2. \A i \in 1..Len(samples) : i \in Arrivals
  BY <1>1, ArrivalsTyped
<1>3. \A i \in Arrivals : result'[i] = result[i] => Sample(i)' = Sample(i)
  BY DEF Sample
<1>4. ASSUME NEW i \in Arrivals, Submit(i)
      PROVE  CollectedInv'
  <2>1. /\ call[i] = "unsent" /\ call' = [call EXCEPT ![i] = "queued"] /\ phase = "replaying"
        /\ phase' \in {"replaying", "collecting"} /\ UNCHANGED <<samples, capture, audit>>
    BY <1>4 DEF Submit, Due, First, output
  <2>2. samples = <<>> /\ Len(samples) = 0 /\ capture = "old"
    BY <2>1 DEF CollectedInv
  <2>3. \A j \in Arrivals : /\ call[j] = "failed" => call'[j] = "failed"
                            /\ call'[j] = "done" => call[j] = "done"
    BY <1>1, <2>1
  <2>4. QED
    BY <2>1, <2>2, <2>3 DEF CollectedInv
<1>5. CASE Collect
  <2>1. /\ phase = "collecting" /\ samples' = Append(samples, Sample(Len(samples) + 1))
        /\ call[Len(samples) + 1] = "done"
        /\ UNCHANGED <<phase, call, result, capture, audit>>
    BY <1>5 DEF Collect, threads
  <2>2. Len(samples) + 1 \in Arrivals
    BY <1>1, <1>5, ArrivalsTyped DEF Collect
  <2>3. \A i \in 1..Len(samples') : i \in Arrivals /\ call'[i] = "done" /\ samples'[i] = Sample(i)
    BY <1>1, <1>2, <2>1, <2>2 DEF CollectedInv
  <2>4. \A i \in Arrivals : Sample(i)' = Sample(i)
    BY <1>3, <2>1
  <2>5. QED
    BY <2>1, <2>3, <2>4 DEF CollectedInv
<1>6. CASE CollectRaises
  <2>1. /\ phase = "collecting" /\ phase' = "raising" /\ call[Len(samples) + 1] = "failed"
        /\ UNCHANGED <<call, result, samples, capture, audit>>
    BY <1>6 DEF CollectRaises, threads, output
  <2>2. Len(samples) + 1 \in Arrivals
    BY <1>1, <1>6, ArrivalsTyped DEF CollectRaises
  <2>3. QED
    BY <1>2, <1>3, <2>1, <2>2 DEF CollectedInv
<1>7. CASE PoolExits
  <2>1. /\ phase = "raising" /\ phase' = "raised"
        /\ \A i \in Arrivals : call[i] \in {"done", "failed"}
        /\ UNCHANGED <<call, result, samples, capture, audit>>
    BY <1>7 DEF PoolExits, threads, output
  <2>2. QED
    BY <1>2, <1>3, <2>1 DEF CollectedInv
<1>8. CASE Freeze
  <2>1. /\ phase' \in {"freezing", "frozen"} /\ Len(samples) = Len(Trace)
        /\ UNCHANGED <<call, result, samples, audit>>
    BY <1>8 DEF Freeze, threads, CollectedInv
  <2>2. QED
    BY <1>2, <1>3, <2>1 DEF CollectedInv
<1>9. ASSUME NEW i \in Arrivals, phase \notin Ended, CallStep(i)
      PROVE  CollectedInv'
  <2>1. /\ UNCHANGED <<phase, samples, capture>>
        /\ \A j \in Arrivals : call[j] \in {"done", "failed"} =>
              call'[j] = call[j] /\ result'[j] = result[j]
    BY <1>9, EndedStays
  <2>2. \A j \in 1..Len(samples) : call'[j] = "done" /\ samples'[j] = Sample(j)'
    BY <1>2, <1>3, <2>1 DEF CollectedInv
  <2>3. FileInv'
    BY <1>9, FileStays DEF CollectedInv, FileInv
  <2>4. phase \in {"raising", "raised"} => \E j \in Arrivals : call'[j] = "failed"
    BY <2>1 DEF CollectedInv
  <2>5. phase' # "raised"
    BY <1>9, <2>1 DEF Ended
  <2>6. QED
    BY <2>1, <2>2, <2>3, <2>4, <2>5 DEF CollectedInv, FileInv
<1>10. ASSUME UNCHANGED <<phase, call, result, samples, capture, audit>>
       PROVE  CollectedInv'
  BY <1>2, <1>3, <1>10 DEF CollectedInv
<1>11. CASE Killed
  <2>1. /\ phase' = "killed" /\ samples' = <<>> /\ Len(samples') = 0
        /\ \A i \in Arrivals : call'[i] # "done"
    BY <1>11 DEF Killed
  <2>2. QED
    BY <2>1 DEF CollectedInv
<1>12. ASSUME NEW p \in Replicas, BootEnds(p) \/ ScaleDown(p)
       PROVE  CollectedInv'
  BY <1>10, <1>12 DEF BootEnds, ScaleDown, threads, output
<1>13. CASE Tick \/ UNCHANGED vars
  BY <1>10, <1>13 DEF Tick, vars, threads, output
<1>14. QED
  BY <1>4, <1>5, <1>6, <1>7, <1>8, <1>9, <1>11, <1>12, <1>13 DEF Next, MainStep
----
LEMMA LoadingInit == Init => LoadingInv
<1> SUFFICES ASSUME Init
             PROVE  LoadingInv
  OBVIOUS
<1>1. /\ \A p \in Replicas : serving[p] = {}
      /\ \A i \in Arrivals : call[i] = "unsent" /\ result[i].route # "self_hosted"
  BY DEF Init, NoResult
<1>2. QED
  BY <1>1 DEF LoadingInv

\* A call is held, for as long as its replica loads and answers, from Begin to Responds.
LEMMA LoadingStep == TimesInv /\ LoadingInv /\ [Next]_vars => LoadingInv'
<1> SUFFICES ASSUME TimesInv, LoadingInv, [Next]_vars
             PROVE  LoadingInv'
  OBVIOUS
<1>1. /\ call \in [Arrivals -> {"unsent", "queued", "calling", "auditing", "done", "failed"}]
      /\ serving \in [Replicas -> SUBSET Arrivals] /\ result \in [Arrivals -> Response]
      /\ found \in [Arrivals -> {"none", "zero", "booting", "up"}]
      /\ now \in Nat /\ begun \in [Arrivals -> 0..now]
      /\ replica \in [Replicas -> [state : {"zero", "booting", "up"}, since : 0..now]]
  BY DEF TimesInv, TypeOK, Response
<1>2. /\ \A p \in Replicas : serving[p] \subseteq Arrivals /\ replica[p].since \in 0..now
      /\ \A i \in Arrivals : begun[i] \in 0..now
  BY <1>1
<1>3. ASSUME NEW i \in Arrivals, Begin(i)
      PROVE  LoadingInv'
  <2>1. PICK p \in Replicas :
           /\ serving' = [serving EXCEPT ![p] = @ \cup {i}]
           /\ replica' = IF replica[p].state = "zero"
                         THEN [replica EXCEPT ![p] = [state |-> "booting", since |-> now]]
                         ELSE replica
           /\ found' = [found EXCEPT ![i] = replica[p].state]
    BY <1>3 DEF Begin, RoutedTo
  <2>2. /\ call' = [call EXCEPT ![i] = "calling"] /\ begun' = [begun EXCEPT ![i] = now]
        /\ call[i] = "queued" /\ UNCHANGED <<now, result>>
    BY <1>3 DEF Begin, First
  <2>3. \A q \in Replicas : \A j \in serving'[q] : call'[j] = "calling"
    BY <1>1, <2>1, <2>2 DEF LoadingInv
  <2>4. \A q \in Replicas : /\ replica[q].state = "up" => replica'[q] = replica[q]
                            /\ \/ replica'[q] = replica[q]
                               \/ q = p /\ replica'[q] = [state |-> "booting", since |-> now]
    BY <1>1, <2>1
  <2>5. \A q \in Replicas : i \notin serving[q]
    BY <2>2 DEF LoadingInv
  <2>6. ASSUME NEW j \in Arrivals, call'[j] = "calling"
        PROVE  /\ found'[j] = "up" => Prompt(j)'
               /\ found'[j] = "zero" => WaitsForLoad(j)'
    <3>1. CASE j = i
      <4>1. found'[i] = replica[p].state
        BY <1>1, <2>1
      <4>2. found'[i] = "up" => Prompt(i)'
        <5>1. CASE replica[p].state = "up"
          <6>1. replica'[p] = replica[p] /\ i \in serving'[p] /\ begun'[i] = now
            BY <1>1, <2>1, <2>2, <2>4, <5>1
          <6>2. replica[p].since <= now /\ now - now <= Service
            BY <1>1, <1>2, DiurnalAssumption
          <6>3. QED
            BY <2>2, <5>1, <6>1, <6>2 DEF Prompt
        <5>2. QED
          BY <4>1, <5>1
      <4>3. found'[i] = "zero" => WaitsForLoad(i)'
        <5>1. CASE replica[p].state = "zero"
          <6>1. \A q \in Replicas : i \in serving'[q] => q = p
            BY <1>1, <2>1, <2>5
          <6>2. replica'[p] = [state |-> "booting", since |-> now] /\ begun'[i] = now
            BY <1>1, <2>1, <2>2, <5>1
          <6>3. QED
            BY <1>1, <6>1, <6>2 DEF WaitsForLoad
        <5>2. QED
          BY <4>1, <5>1
      <4>4. QED
        BY <3>1, <4>2, <4>3
    <3>2. CASE j # i
      <4>1. call[j] = "calling" /\ begun'[j] = begun[j] /\ found'[j] = found[j]
        BY <1>1, <2>1, <2>2, <2>6, <3>2
      <4>2. ASSUME Prompt(j)
            PROVE  Prompt(j)'
        <5>1. PICK q \in Replicas : /\ j \in serving[q] /\ replica[q].state = "up"
                                    /\ replica[q].since <= begun[j]
                                    /\ now - begun[j] <= Service
          BY <4>2 DEF Prompt
        <5>2. j \in serving'[q] /\ replica'[q] = replica[q]
          BY <1>1, <2>1, <2>4, <5>1
        <5>3. QED
          BY <2>2, <4>1, <5>1, <5>2 DEF Prompt
      <4>3. ASSUME WaitsForLoad(j)
            PROVE  WaitsForLoad(j)'
        <5>1. ASSUME NEW q \in Replicas, j \in serving'[q]
              PROVE  /\ replica'[q].state = "booting" => begun[j] <= replica'[q].since
                     /\ replica'[q].state = "up" => begun[j] + Boot <= replica'[q].since
          <6>1. j \in serving[q]
            BY <1>1, <2>1, <3>2, <5>1
          <6>2. CASE replica'[q] = replica[q]
            BY <4>3, <6>1, <6>2 DEF WaitsForLoad
          <6>3. CASE replica'[q] = [state |-> "booting", since |-> now]
            BY <1>2, <6>3
          <6>4. QED
            BY <2>4, <6>2, <6>3
        <5>2. QED
          BY <4>1, <5>1 DEF WaitsForLoad
      <4>4. QED
        BY <4>1, <4>2, <4>3 DEF LoadingInv
    <3>3. QED
      BY <3>1, <3>2
  <2>7. \A j \in Arrivals : result'[j].route = "self_hosted" =>
           /\ call'[j] \in {"auditing", "done", "failed"}
           /\ found'[j] = "up" => result'[j].latency <= Service
           /\ found'[j] = "zero" => result'[j].latency > Threshold
    BY <1>1, <2>1, <2>2 DEF LoadingInv
  <2>8. QED
    BY <2>3, <2>6, <2>7 DEF LoadingInv
<1>4. ASSUME NEW i \in Arrivals, NEW response, Responds(i, response),
             response.route = "self_hosted" =>
                /\ found[i] = "up" => response.latency <= Service
                /\ found[i] = "zero" => response.latency > Threshold
      PROVE  LoadingInv'
  <2>1. /\ call' = [call EXCEPT ![i] = "auditing"] /\ result' = [result EXCEPT ![i] = response]
        /\ begun' = [begun EXCEPT ![i] = 0] /\ serving' = [p \in Replicas |-> serving[p] \ {i}]
        /\ UNCHANGED <<now, found, replica>>
    BY <1>4 DEF Responds, platform
  <2>2. \A q \in Replicas : \A j \in serving'[q] : call'[j] = "calling"
    BY <1>1, <2>1 DEF LoadingInv
  <2>3. ASSUME NEW j \in Arrivals, call'[j] = "calling"
        PROVE  /\ found'[j] = "up" => Prompt(j)'
               /\ found'[j] = "zero" => WaitsForLoad(j)'
    <3>1. j # i /\ call[j] = "calling" /\ begun'[j] = begun[j]
      BY <1>1, <2>1, <2>3
    <3>2. \A q \in Replicas : j \in serving'[q] <=> j \in serving[q]
      BY <2>1, <3>1
    <3>3. Prompt(j) => Prompt(j)'
      BY <2>1, <3>1, <3>2 DEF Prompt
    <3>4. WaitsForLoad(j) => WaitsForLoad(j)'
      BY <2>1, <3>1, <3>2 DEF WaitsForLoad
    <3>5. QED
      BY <2>1, <3>1, <3>3, <3>4 DEF LoadingInv
  <2>4. \A j \in Arrivals : result'[j].route = "self_hosted" =>
           /\ call'[j] \in {"auditing", "done", "failed"}
           /\ found'[j] = "up" => result'[j].latency <= Service
           /\ found'[j] = "zero" => result'[j].latency > Threshold
    BY <1>1, <1>4, <2>1 DEF LoadingInv
  <2>5. QED
    BY <2>2, <2>3, <2>4 DEF LoadingInv
<1>5. ASSUME NEW i \in Arrivals, Served(i)
      PROVE  LoadingInv'
  <2> DEFINE response == [route |-> "self_hosted", latency |-> Latency(i)]
  <2>1. Responds(i, response) /\ call[i] = "calling"
    BY <1>5 DEF Served, Responds
  <2>2. response.latency = now - begun[i]
    BY DEF Latency
  <2>3. found[i] = "up" => now - begun[i] <= Service
    BY <2>1 DEF LoadingInv, Prompt
  <2>4. ASSUME found[i] = "zero"
        PROVE  now - begun[i] > Threshold
    <3>1. PICK p \in Replicas : i \in serving[p] /\ replica[p].state = "up"
      BY <1>5 DEF Served
    <3>2. begun[i] + Boot <= replica[p].since
      BY <2>1, <2>4, <3>1 DEF LoadingInv, WaitsForLoad
    <3>3. QED
      BY <1>1, <1>2, <3>2, DiurnalAssumption
  <2> HIDE DEF response
  <2>5. QED
    BY <1>4, <2>1, <2>2, <2>3, <2>4
<1>6. ASSUME NEW i \in Arrivals, FellBack(i)
      PROVE  LoadingInv'
  <2>1. PICK response : Responds(i, response) /\ response.route # "self_hosted"
    BY <1>6 DEF FellBack
  <2>2. QED
    BY <1>4, <2>1
<1>7. ASSUME UNCHANGED <<now, begun, serving, result, found, replica>>,
             \A i \in Arrivals :
                /\ call'[i] = "calling" <=> call[i] = "calling"
                /\ call[i] \in {"auditing", "done", "failed"} =>
                      call'[i] \in {"auditing", "done", "failed"}
      PROVE  LoadingInv'
  <2>1. \A i \in Arrivals : (Prompt(i)' <=> Prompt(i)) /\ (WaitsForLoad(i)' <=> WaitsForLoad(i))
    BY <1>7 DEF Prompt, WaitsForLoad
  <2>2. \A p \in Replicas : \A i \in serving'[p] : call'[i] = "calling"
    BY <1>2, <1>7 DEF LoadingInv
  <2>3. \A i \in Arrivals : call'[i] = "calling" => /\ found'[i] = "up" => Prompt(i)'
                                                    /\ found'[i] = "zero" => WaitsForLoad(i)'
    BY <1>7, <2>1 DEF LoadingInv
  <2>4. QED
    BY <1>7, <2>2, <2>3 DEF LoadingInv
<1>8. CASE MainStep
  <2>1. ASSUME NEW i \in Arrivals, Submit(i)
        PROVE  LoadingInv'
    BY <1>1, <1>7, <2>1 DEF Submit, Due, First, platform
  <2>2. CASE Collect \/ CollectRaises \/ PoolExits \/ Freeze
    BY <1>7, <2>2 DEF Collect, CollectRaises, PoolExits, Freeze, threads, platform
  <2>3. QED
    BY <1>8, <2>1, <2>2 DEF MainStep
<1>9. ASSUME NEW i \in Arrivals, Audited(i)
      PROVE  LoadingInv'
  BY <1>1, <1>7, <1>9 DEF Audited, platform
<1>10. ASSUME NEW p \in Replicas, BootEnds(p) \/ ScaleDown(p)
       PROVE  LoadingInv'
  <2>1. /\ UNCHANGED <<now, call, begun, serving, result, found>>
        /\ replica[p].state = "booting" \/ serving[p] = {}
    BY <1>10 DEF BootEnds, ScaleDown, threads
  <2>2. /\ \A q \in Replicas : q # p => replica'[q] = replica[q]
        /\ \/ replica'[p].state = "zero"
           \/ /\ replica[p].state = "booting" /\ now - replica[p].since = Boot
              /\ replica'[p] = [state |-> "up", since |-> now]
    BY <1>1, <1>10 DEF BootEnds, ScaleDown
  <2>3. ASSUME NEW i \in Arrivals, Prompt(i)
        PROVE  Prompt(i)'
    <3>1. PICK q \in Replicas : /\ i \in serving[q] /\ replica[q].state = "up"
                                /\ replica[q].since <= begun[i]
                                /\ now - begun[i] <= Service
      BY <2>3 DEF Prompt
    <3>2. q # p
      BY <2>1, <3>1
    <3>3. QED
      BY <2>1, <2>2, <3>1, <3>2 DEF Prompt
  <2>4. ASSUME NEW i \in Arrivals, WaitsForLoad(i)
        PROVE  WaitsForLoad(i)'
    <3>1. ASSUME NEW q \in Replicas, i \in serving[q]
          PROVE  /\ replica'[q].state = "booting" => begun[i] <= replica'[q].since
                 /\ replica'[q].state = "up" => begun[i] + Boot <= replica'[q].since
      <4>1. CASE q # p
        BY <2>2, <2>4, <3>1, <4>1 DEF WaitsForLoad
      <4>2. CASE q = p /\ replica'[p].state = "zero"
        BY <4>2
      <4>3. CASE /\ q = p /\ replica[p].state = "booting" /\ now - replica[p].since = Boot
                 /\ replica'[p] = [state |-> "up", since |-> now]
        <5>1. begun[i] <= replica[p].since
          BY <2>4, <3>1, <4>3 DEF WaitsForLoad
        <5>2. begun[i] \in Nat /\ replica[p].since \in Nat /\ Boot \in Nat
          BY <1>1, <1>2, DiurnalAssumption
        <5>3. QED
          BY <1>1, <4>3, <5>1, <5>2
      <4>4. QED
        BY <2>2, <4>1, <4>2, <4>3
    <3>2. QED
      BY <2>1, <3>1 DEF WaitsForLoad
  <2>5. QED
    BY <1>2, <2>1, <2>3, <2>4 DEF LoadingInv
<1>11. CASE Tick
  <2>1. /\ UNCHANGED <<call, begun, serving, result, found, replica>> /\ now' = now + 1
        /\ \A i \in Arrivals : ~Overdue(i)
    BY <1>11 DEF Tick, threads, platform
  <2>2. ASSUME NEW i \in Arrivals, Prompt(i)
        PROVE  Prompt(i)'
    <3>1. PICK q \in Replicas : /\ i \in serving[q] /\ replica[q].state = "up"
                                /\ replica[q].since <= begun[i]
                                /\ now - begun[i] <= Service
      BY <2>2 DEF Prompt
    <3>2. ~(now - Later(begun[i], replica[q].since) >= Service)
      BY <2>1, <3>1 DEF Overdue
    <3>3. begun[i] \in 0..now /\ replica[q].since \in 0..now /\ Service \in Nat
      BY <1>1, <1>2, DiurnalAssumption
    <3>4. Later(begun[i], replica[q].since) = begun[i]
      BY <3>1, <3>3 DEF Later
    <3>5. (now + 1) - begun[i] <= Service
      BY <1>1, <3>2, <3>3, <3>4
    <3>6. QED
      BY <2>1, <3>1, <3>5 DEF Prompt
  <2>3. \A i \in Arrivals : WaitsForLoad(i)' <=> WaitsForLoad(i)
    BY <2>1 DEF WaitsForLoad
  <2>4. QED
    BY <2>1, <2>2, <2>3 DEF LoadingInv
<1>12. CASE Killed
  <2>1. /\ \A i \in Arrivals : call'[i] = "unsent" /\ result'[i].route # "self_hosted"
        /\ \A p \in Replicas : serving'[p] = {}
    BY <1>12 DEF Killed, NoResult
  <2>2. QED
    BY <2>1 DEF LoadingInv
<1>13. CASE UNCHANGED vars
  BY <1>7, <1>13 DEF vars, threads, platform
<1>14. QED
  BY <1>3, <1>5, <1>6, <1>8, <1>9, <1>10, <1>11, <1>12, <1>13 DEF Next, CallStep

LEMMA DiurnalInductive == /\ Init => DiurnalInv
                          /\ DiurnalInv /\ [Next]_vars => DiurnalInv'
BY TimesInit, TimesStep, CollectedInit, CollectedStep, LoadingInit, LoadingStep DEF DiurnalInv
----
\* The replay's phases, calls, results and capture have their types, and the pool never
\* runs more calls than it has threads.
THEOREM ReplayTypeCorrect == Spec => []TypeOK
<1>1. DiurnalInv => TypeOK
  BY DEF DiurnalInv, TimesInv
<1>2. QED
  BY <1>1, DiurnalInductive, PTL DEF Spec

\* A capture is frozen only when every arrival was answered, and holds one sample of
\* each in the order they arrived; a replay that raises had a call that raised, has run
\* every other one to its end and leaves the capture of the replay before; several
\* arrivals are frozen only over an audit file whose lines all parse
\* (loadtest.py:433-444, audit/store.py:70-76).
THEOREM CapturesAreHonest == Spec => []HonestCapture
<1>1. ASSUME DiurnalInv
      PROVE  HonestCapture
  <2>1. ASSUME phase \in {"freezing", "frozen"}
        PROVE  /\ Len(samples) = Len(Trace)
               /\ \A i \in Arrivals : call[i] = "done" /\ samples[i] = Sample(i)
    BY <1>1, <2>1 DEF DiurnalInv, CollectedInv, Arrivals
  <2>2. ASSUME phase \in {"freezing", "frozen"}, Len(Trace) > 1
        PROVE  audit = "whole"
    <3>1. 1 \in Arrivals /\ 2 \in Arrivals
      BY <2>2, TraceTyped DEF Arrivals
    <3>2. \A i \in Arrivals : call[i] = "done"
      BY <2>1, <2>2
    <3>3. audit \in {"whole", "unended", "torn"}
      BY <1>1 DEF DiurnalInv, TimesInv, TypeOK
    <3>4. QED
      BY <1>1, <3>1, <3>2, <3>3 DEF DiurnalInv, CollectedInv
  <2>3. QED
    BY <1>1, <2>1, <2>2 DEF DiurnalInv, CollectedInv, HonestCapture
<1>2. QED
  BY <1>1, DiurnalInductive, PTL DEF Spec

\* A served call counted as cold was routed to a replica that was not loaded, or took no
\* longer than a loaded one may; and every served call that started a replica is counted
\* (loadtest.py:53, 430-431, 457-458).
THEOREM ColdCallsWaited == Spec => []ColdWasLoading
<1>1. ASSUME DiurnalInv
      PROVE  ColdWasLoading
  <2>1. ASSUME NEW i \in Arrivals, result[i].route = "self_hosted"
        PROVE  /\ Sample(i).cold => found[i] # "up" \/ result[i].latency <= Service
               /\ found[i] = "zero" => Sample(i).cold
    <3>1. Sample(i).cold = (result[i].latency > Threshold)
      BY DEF Sample
    <3>2. QED
      BY <1>1, <2>1, <3>1 DEF DiurnalInv, LoadingInv
  <2>2. QED
    BY <2>1 DEF ColdWasLoading
<1>2. QED
  BY <1>1, DiurnalInductive, PTL DEF Spec
=============================================================================
