---------------------------- MODULE AppendOnlyLog ----------------------------
(***************************************************************************)
(* What the audit store promises to the gateway, without files, lines,     *)
(* hashes or locks: a log of calls that only ever grows at its end, in     *)
(* which every call that was told "appended" appears.  A failing append    *)
(* may spoil the log; a spoiled log accepts nothing any more.              *)
(* AuditStore implements this specification, and Gateway relies on it.     *)
(***************************************************************************)
EXTENDS Naturals, Sequences

CONSTANTS Calls,    \* the append calls, one per inference request
          Damage    \* what a failed append can leave in the log: not a call

VARIABLES log,      \* Seq(Calls \cup {Damage})
          outcome   \* what each call knows: waiting, appended, acked or failed

logVars == <<log, outcome>>

Outcomes == {"waiting", "appended", "acked", "failed"}

LogTypeOK == /\ log \in Seq(Calls \cup {Damage})
             /\ outcome \in [Calls -> Outcomes]

LogInit == /\ log = <<>>
           /\ outcome = [c \in Calls |-> "waiting"]

Spoiled == \E i \in 1..Len(log) : log[i] = Damage

\* A waiting call puts its record at the end of a log that is not spoiled.
Commit(c) == /\ outcome[c] = "waiting"
             /\ ~Spoiled
             /\ log' = Append(log, c)
             /\ outcome' = [outcome EXCEPT ![c] = "appended"]

\* The caller learns that its record is in the log.
Acknowledge(c) == /\ outcome[c] = "appended"
                  /\ outcome' = [outcome EXCEPT ![c] = "acked"]
                  /\ UNCHANGED log

Unresolved(c) == outcome[c] \in {"waiting", "appended"}

\* Some calls end without an answer, one because its append failed or several
\* because the process died.  They leave nothing new behind ...
Abandon(dead) == /\ dead # {}
                 /\ \A c \in dead : Unresolved(c)
                 /\ outcome' = [c \in Calls |-> IF c \in dead THEN "failed"
                                                ELSE outcome[c]]
                 /\ UNCHANGED log

\* ... or the one that was writing leaves damage, or a record nobody was told of.
AbandonLeaving(dead, c) ==
    /\ c \in dead
    /\ \A d \in dead : Unresolved(d)
    /\ outcome[c] = "waiting"
    /\ ~Spoiled
    /\ \E entry \in {c, Damage} : log' = Append(log, entry)
    /\ outcome' = [d \in Calls |-> IF d \in dead THEN "failed" ELSE outcome[d]]

LogNext == \/ \E c \in Calls : Commit(c) \/ Acknowledge(c)
           \/ \E dead \in SUBSET Calls : \/ Abandon(dead)
                                         \/ \E c \in Calls : AbandonLeaving(dead, c)

LogSpec == LogInit /\ [][LogNext]_logVars
----
\* The promise that matters: a call told "appended" is in the log.
AckedIsLogged == \A c \in Calls :
                    outcome[c] \in {"appended", "acked"}
                       => \E i \in 1..Len(log) : log[i] = c
=============================================================================
