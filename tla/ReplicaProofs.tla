----------------------------- MODULE ReplicaProofs -----------------------------
(***************************************************************************)
(* Proofs about SelfHostedReplica for every number of overlapping calls,   *)
(* gateway restarts and failed boots.                                      *)
(***************************************************************************)
EXTENDS SelfHostedReplica, TLAPS

\* A flag per call stays one when the flag of one call is set.
LEMMA FlagSet ==
    \A f \in [Calls -> BOOLEAN], c \in Calls, b \in BOOLEAN :
        [f EXCEPT ![c] = b] \in [Calls -> BOOLEAN]
OBVIOUS

\* The initial state is well typed and every step keeps the state so.
LEMMA TypeInductive == /\ Init => TypeOK
                       /\ TypeOK /\ [Next]_vars => TypeOK'
<1> USE ReplicaBounds DEF SCALEDOWN_WINDOW_MIN, CallStates
<1>1. ASSUME Init
      PROVE  TypeOK
  <2>1. warmed \in BOOLEAN /\ cold \in [Calls -> BOOLEAN] /\ loaded \in [Calls -> BOOLEAN]
    BY <1>1, Zenon DEF Init
  <2>2. /\ idle \in 0..SCALEDOWN_WINDOW_MIN /\ outages \in 0..MaxOutages
        /\ process \in 0..MaxRestarts /\ servedBy \in [Calls -> 0..MaxRestarts]
    BY <1>1 DEF Init
  <2>3. QED
    BY <1>1, <2>1, <2>2, Zenon DEF Init, TypeOK
<1>2. ASSUME TypeOK, [Next]_vars
      PROVE  TypeOK'
  <2>1. ASSUME NEW c \in Calls, Arrive(c)
        PROVE  TypeOK'
    <3>1. \A decided : call' = [call EXCEPT ![c] = IF decided = "self_hosted"
                                                   THEN "started" ELSE "elsewhere"]
                => call' \in [Calls -> CallStates]
      BY <1>2 DEF TypeOK
    <3>2. call' \in [Calls -> CallStates]
      BY <2>1, <3>1 DEF Arrive
    <3>3. cold' \in [Calls -> BOOLEAN] /\ loaded' \in [Calls -> BOOLEAN]
      <4>1. (~warmed) \in BOOLEAN /\ (replica \in {"zero", "booting"}) \in BOOLEAN
        OBVIOUS
      <4>2. /\ cold' = [cold EXCEPT ![c] = ~warmed]
            /\ loaded' = [loaded EXCEPT ![c] = replica \in {"zero", "booting"}]
        BY <2>1, Zenon DEF Arrive
      <4>3. QED
        BY <1>2, <4>1, <4>2, FlagSet, Zenon DEF TypeOK
    <3>4. servedBy' \in [Calls -> 0..MaxRestarts] /\ idle' \in 0..SCALEDOWN_WINDOW_MIN
      BY <1>2, <2>1 DEF Arrive, TypeOK
    <3>5. replica' \in {"zero", "booting", "up", "broken"}
      BY <1>2, <2>1 DEF Arrive, TypeOK
    <3>6. UNCHANGED <<outages, process, warmed>>
      BY <2>1 DEF Arrive, gateway
    <3>7. QED
      BY <1>2, <3>2, <3>3, <3>4, <3>5, <3>6, Zenon DEF TypeOK
  <2>2. ASSUME NEW c \in Calls, Finish(c) \/ Answer(c) \/ Raise(c)
        PROVE  TypeOK'
    <3>1. call' \in [Calls -> CallStates]
      BY <1>2, <2>2 DEF Finish, Answer, Raise, TypeOK
    <3>2. warmed' \in BOOLEAN
      BY <1>2, <2>2, Zenon DEF Finish, Answer, Raise, gateway, TypeOK
    <3>3. UNCHANGED <<platform, process, cold, servedBy, loaded>>
      BY <2>2 DEF Finish, Answer, Raise, gateway
    <3>4. QED
      BY <1>2, <3>1, <3>2, <3>3, Zenon DEF TypeOK, platform
  <2>3. CASE RestartGateway
    <3>1. /\ process' \in 0..MaxRestarts
          /\ call' \in [Calls -> CallStates]
      BY <1>2, <2>3 DEF RestartGateway, TypeOK
    <3>2. warmed' \in BOOLEAN /\ UNCHANGED <<platform, cold, servedBy, loaded>>
      BY <2>3, Zenon DEF RestartGateway
    <3>3. QED
      BY <1>2, <3>1, <3>2, Zenon DEF TypeOK, platform
  <2>4. CASE BootDone \/ BootFails \/ IdleMinute \/ ScaleToZero
    BY <1>2, <2>4 DEF BootDone, BootFails, IdleMinute, ScaleToZero, gateway, calls, TypeOK
  <2>5. CASE UNCHANGED vars
    BY <1>2, <2>5 DEF vars, platform, gateway, calls, TypeOK
  <2>6. QED
    BY <1>2, <2>1, <2>2, <2>3, <2>4, <2>5 DEF Next
<1>3. QED
  BY <1>1, <1>2

\* Every reachable state of the client and its replica is well typed; the replica
\* is never idle beyond its window.
THEOREM ReplicaTypeCorrect == Spec => []TypeOK
BY TypeInductive, PTL DEF Spec

\* The flag's invariant holds from the start and every step keeps it.
LEMMA WarmInductive == /\ Init => WarmInv
                       /\ WarmInv /\ [Next]_vars => WarmInv'
<1>1. Init => WarmInv
  BY TypeInductive DEF Init, WarmInv, Started, Completed
<1>2. WarmInv /\ [Next]_vars => WarmInv'
  <2> SUFFICES ASSUME WarmInv, [Next]_vars
               PROVE  WarmInv'
    OBVIOUS
  <2>0. /\ TypeOK' /\ call \in [Calls -> CallStates]
        /\ servedBy \in [Calls -> 0..MaxRestarts] /\ process \in 0..MaxRestarts
        /\ MaxRestarts \in Nat
    BY TypeInductive, ReplicaBounds DEF WarmInv, TypeOK
  <2>1. ASSUME NEW c \in Calls, Arrive(c)
        PROVE  WarmInv'
    <3>1. /\ call[c] = "new" /\ call'[c] \in {"started", "elsewhere"}
          /\ servedBy'[c] = process
          /\ \A d \in Calls \ {c} : call'[d] = call[d] /\ servedBy'[d] = servedBy[d]
          /\ UNCHANGED <<process, warmed>>
      BY <2>0, <2>1 DEF Arrive, gateway
    <3>2. QED
      BY <2>0, <3>1 DEF WarmInv, Started, Completed
  <2>2. ASSUME NEW c \in Calls, Finish(c)
        PROVE  WarmInv'
    <3>1. /\ call'[c] = "returned" /\ warmed' = TRUE /\ servedBy[c] = process
          /\ \A d \in Calls \ {c} : call'[d] = call[d]
          /\ UNCHANGED <<process, servedBy>>
      BY <2>0, <2>2 DEF Finish, WarmInv, Started
    <3>2. QED
      BY <2>0, <3>1 DEF WarmInv, Started, Completed
  <2>3. ASSUME NEW c \in Calls, Raise(c)
        PROVE  WarmInv'
    <3>1. /\ call[c] = "started" /\ call'[c] = "failed"
          /\ \A d \in Calls \ {c} : call'[d] = call[d]
          /\ UNCHANGED <<process, warmed, servedBy>>
      BY <2>0, <2>3 DEF Raise, gateway
    <3>2. QED
      BY <2>0, <3>1 DEF WarmInv, Started, Completed
  <2>7. ASSUME NEW c \in Calls, Answer(c)
        PROVE  WarmInv'
    <3>1. /\ call[c] = "returned" /\ call'[c] \in {"ok", "unread"}
          /\ \A d \in Calls \ {c} : call'[d] = call[d]
          /\ UNCHANGED <<process, warmed, servedBy>>
      BY <2>0, <2>7 DEF Answer, gateway
    <3>2. QED
      BY <2>0, <3>1 DEF WarmInv, Started, Completed
  <2>4. CASE RestartGateway
    <3>1. /\ process' = process + 1 /\ warmed' = FALSE /\ servedBy' = servedBy
          /\ \A d \in Calls : call'[d] # "started"
      BY <2>0, <2>4 DEF RestartGateway, Started
    <3>2. \A d \in Calls : servedBy'[d] < process'
      BY <2>0, <3>1 DEF WarmInv
    <3>3. QED
      BY <2>0, <3>1, <3>2 DEF WarmInv, Started, Completed
  <2>5. CASE UNCHANGED <<gateway, calls>>
    BY <2>0, <2>5 DEF WarmInv, Started, Completed, gateway, calls
  <2>6. QED
    BY <2>1, <2>2, <2>3, <2>4, <2>5, <2>7
       DEF Next, BootDone, BootFails, IdleMinute, ScaleToZero, vars
<1>3. QED
  BY <1>1, <1>2

\* A call is reported cold exactly when no completion had come back to its process
\* when it began, however the calls overlap, fail and are cut off by restarts
\* (clients.py:163, 174-177).
THEOREM ColdIsFirst == Spec => ColdUntilFirstCompletion
<1>1. ASSUME WarmInv, [Next]_vars, NEW c \in Calls, call[c] = "new", call'[c] = "started"
      PROVE  cold'[c] <=> ~\E d \in Completed : servedBy[d] = process
  <2>1. Arrive(c)
    <3>1. call' # call
      BY <1>1
    <3>2. \A d \in Calls : Finish(d) \/ Answer(d) \/ Raise(d) => call'[c] # "started"
      BY <1>1 DEF Finish, Answer, Raise, WarmInv, TypeOK
    <3>3. ~RestartGateway
      BY <1>1 DEF RestartGateway
    <3>4. \A d \in Calls \ {c} : ~Arrive(d)
      BY <1>1 DEF Arrive, WarmInv, TypeOK
    <3>5. QED
      BY <1>1, <3>1, <3>2, <3>3, <3>4
         DEF Next, BootDone, BootFails, IdleMinute, ScaleToZero, calls, vars
  <2>2. cold'[c] <=> ~warmed
    BY <1>1, <2>1, Zenon DEF Arrive, WarmInv, TypeOK
  <2>3. QED
    BY <1>1, <2>2, Zenon DEF WarmInv
<1>2. WarmInv /\ [Next]_vars =>
        [\A c \in Calls :
            call[c] = "new" /\ call'[c] = "started" =>
               (cold'[c] <=> ~\E d \in Completed : servedBy[d] = process)]_calls
  BY <1>1
<1>3. QED
  BY <1>2, WarmInductive, PTL DEF Spec, ColdUntilFirstCompletion
================================================================================
