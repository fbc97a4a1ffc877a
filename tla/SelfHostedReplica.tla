-------------------------- MODULE SelfHostedReplica --------------------------
(***************************************************************************)
(* The self-hosted route end to end: the client and its warm flag          *)
(* (serving/clients.py), the health the router reads from it               *)
(* (gateway/router.py), the serverless replica behind it that scales to    *)
(* zero (serving/deploy_modal.py), and how a call's time is billed         *)
(* (telemetry/cost.py).  The replica is the platform's; the gateway sees   *)
(* it only through its calls.  The clock counts minutes of idleness.       *)
(***************************************************************************)
EXTENDS Routing

CONSTANTS Calls,       \* the requests that reach the router, a thread each
          MaxRestarts, \* bound on restarts of the gateway process
          MaxOutages   \* bound on boots of the replica that fail

ASSUME ReplicaBounds == MaxRestarts \in Nat /\ MaxOutages \in Nat

VARIABLES
    replica,   \* zero, booting, up or broken
    idle,      \* minutes the replica has been up without a call
    outages,   \* failed boots so far
    process,   \* which gateway process this is, from 0
    warmed,    \* the client's _warmed
    call,      \* new, started, returned, ok, unread, failed or elsewhere
    cold,      \* the cold_start of each call's result
    servedBy,  \* the process that served each call
    loaded     \* whether the call waited for the model to load

platform == <<replica, idle, outages>>
gateway == <<process, warmed>>
calls == <<call, cold, servedBy, loaded>>
vars == <<platform, gateway, calls>>

SCALEDOWN_WINDOW_MIN == 5   \* scaledown_window=5 * MINUTES

\* A freeform question with one ordinary item in its context.
Question == [task |-> "freeform", request_class |-> "interactive"]
Context == [i |-> [included |-> TRUE, reason |-> Allowed, sensitivity |-> "normal"]]

\* SelfHostedOpenAIClient.healthy and .saturated.
Health == [healthy |-> TRUE, saturated |-> FALSE]

Init == /\ replica = "zero"
        /\ idle = 0
        /\ outages = 0
        /\ process = 0
        /\ warmed = FALSE
        /\ call = [c \in Calls |-> "new"]
        /\ cold = [c \in Calls |-> FALSE]
        /\ servedBy = [c \in Calls |-> 0]
        /\ loaded = [c \in Calls |-> FALSE]

Started == {c \in Calls : call[c] = "started"}

\* The router decides on the snapshot; on the self-hosted route the client notes
\* whether it is cold and sends the request, which wakes a replica at zero.
Arrive(c) ==
    /\ call[c] = "new"
    /\ call' = [call EXCEPT ![c] =
                   IF DecideRoute(Question, Context, Health) = "self_hosted"
                   THEN "started" ELSE "elsewhere"]
    /\ cold' = [cold EXCEPT ![c] = ~warmed]
    /\ servedBy' = [servedBy EXCEPT ![c] = process]
    /\ loaded' = [loaded EXCEPT ![c] = replica \in {"zero", "booting"}]
    /\ replica' = IF replica = "zero" THEN "booting" ELSE replica
    /\ idle' = 0
    /\ UNCHANGED <<outages, gateway>>

\* The completion comes back: from here on the client calls itself warm, before
\* it has looked at what came back.
Finish(c) == /\ call[c] = "started"
             /\ replica = "up"
             /\ call' = [call EXCEPT ![c] = "returned"]
             /\ warmed' = TRUE
             /\ UNCHANGED <<platform, process, cold, servedBy, loaded>>

\* The answer is read from it, or reading it raises (no choices).
Answer(c) == /\ call[c] = "returned"
             /\ \E read \in {"ok", "unread"} : call' = [call EXCEPT ![c] = read]
             /\ UNCHANGED <<platform, gateway, cold, servedBy, loaded>>

\* Mutant: _warmed is set in a finally.
RaiseWarms(c) == /\ call[c] = "started"
                 /\ call' = [call EXCEPT ![c] = "failed"]
                 /\ warmed' = TRUE
                 /\ UNCHANGED <<platform, process, cold, servedBy, loaded>>

\* The request raises: the endpoint refuses it or the timeout expires.
Raise(c) == /\ call[c] = "started"
            /\ call' = [call EXCEPT ![c] = "failed"]
            /\ UNCHANGED <<platform, gateway, cold, servedBy, loaded>>

\* A new gateway process has a new client; its predecessor's calls are gone.
RestartGateway == /\ process < MaxRestarts
                  /\ process' = process + 1
                  /\ warmed' = FALSE
                  /\ call' = [c \in Calls |-> IF call[c] \in {"started", "returned"}
                                            THEN "failed" ELSE call[c]]
                  /\ UNCHANGED <<platform, cold, servedBy, loaded>>
----
BootDone == /\ replica = "booting"
            /\ replica' = "up"
            /\ UNCHANGED <<idle, outages, gateway, calls>>

\* serve() fails at its boot guard, or the model does not load.
BootFails == /\ replica = "booting"
             /\ outages < MaxOutages
             /\ outages' = outages + 1
             /\ replica' = "broken"
             /\ UNCHANGED <<idle, gateway, calls>>

\* Mutant: the window is checked one minute late.
IdleMinuteLate == /\ replica = "up"
                  /\ Started = {}
                  /\ idle <= SCALEDOWN_WINDOW_MIN
                  /\ idle' = idle + 1
                  /\ UNCHANGED <<replica, outages, gateway, calls>>

IdleMinute == /\ replica = "up"
              /\ Started = {}
              /\ idle < SCALEDOWN_WINDOW_MIN
              /\ idle' = idle + 1
              /\ UNCHANGED <<replica, outages, gateway, calls>>

ScaleToZero == /\ replica = "up"
               /\ Started = {}
               /\ idle = SCALEDOWN_WINDOW_MIN
               /\ replica' = "zero"
               /\ idle' = 0
               /\ UNCHANGED <<outages, gateway, calls>>

Next == \/ \E c \in Calls : Arrive(c) \/ Finish(c) \/ Answer(c) \/ Raise(c)
        \/ RestartGateway
        \/ BootDone \/ BootFails \/ IdleMinute \/ ScaleToZero

Spec == Init /\ [][Next]_vars
----
CallStates == {"new", "started", "returned", "ok", "unread", "failed", "elsewhere"}

TypeOK == /\ replica \in {"zero", "booting", "up", "broken"}
          /\ idle \in 0..SCALEDOWN_WINDOW_MIN
          /\ outages \in 0..MaxOutages
          /\ process \in 0..MaxRestarts
          /\ warmed \in BOOLEAN
          /\ call \in [Calls -> CallStates]
          /\ cold \in [Calls -> BOOLEAN]
          /\ servedBy \in [Calls -> 0..MaxRestarts]
          /\ loaded \in [Calls -> BOOLEAN]

Completed == {c \in Calls : call[c] \in {"returned", "ok", "unread"}}

\* A call is reported cold exactly when no call of its process had had its
\* completion come back when it began: a first call that was refused or timed out
\* is no warm-up, one whose completion could not be read is, and all the calls
\* that overlap the first are cold (clients.py:163, 174-177).
ColdUntilFirstCompletion ==
    [][\A c \in Calls :
          call[c] = "new" /\ call'[c] = "started" =>
             (cold'[c] <=> ~\E d \in Completed : servedBy[d] = process)]_calls

\* What makes the flag tell the truth: it is up exactly when a completion has come
\* back to this process, calls in flight are this process's, and none is a later
\* one's.
WarmInv ==
    /\ TypeOK
    /\ warmed <=> \E d \in Completed : servedBy[d] = process
    /\ \A d \in Calls : servedBy[d] <= process
    /\ \A d \in Started : servedBy[d] = process
----
\* What a comment of the repository says; the code does otherwise.

\* clients.py:128-129: cold_start marks the call "which pays model-load latency".
\* cost.py bills the time of the other calls as active generation.
ColdStartPaysLoad == \A c \in Calls : call[c] = "ok" => (loaded[c] => cold[c])
=============================================================================
