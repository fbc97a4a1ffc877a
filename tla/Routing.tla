-------------------------------- MODULE Routing --------------------------------
(***************************************************************************)
(* gateway/router.py (the decision) and gateway/fallback.py (the ladder):  *)
(* pure functions of the request, the assembled references and a snapshot  *)
(* of the self-hosted model's health.                                      *)
(***************************************************************************)
EXTENDS ContextAssembly, Integers, Sequences

RequestClass == {"interactive", "batch", "background"}

\* Mutant: the enumeration's order, with the cache in it.
LadderWithCache == <<"self_hosted", "hosted_fast", "hosted_strong", "cache",
                     "deterministic_fallback">>

Ladder == <<"self_hosted", "hosted_fast", "hosted_strong", "deterministic_fallback">>

Routes == {"self_hosted", "hosted_fast", "hosted_strong", "deterministic_fallback"}

Rung(route) == CHOOSE i \in 1..Len(Ladder) : Ladder[i] = route

\* Mutant: two rungs down.
NextRouteSkips(failed) ==
    IF Rung(failed) + 2 <= Len(Ladder) THEN Ladder[Rung(failed) + 2] ELSE Ladder[Len(Ladder)]

\* The next rung down; the floor is its own next rung, and a route that is not
\* on the ladder (the cache) falls to the floor.
NextRoute(failed) ==
    IF \E i \in 1..Len(Ladder) : Ladder[i] = failed
    THEN IF Rung(failed) < Len(Ladder) THEN Ladder[Rung(failed) + 1] ELSE Ladder[Len(Ladder)]
    ELSE "deterministic_fallback"

HealthSnapshot == [healthy : BOOLEAN, saturated : BOOLEAN]

HardTasks == {"notify_decision"}

EasyLimit == 6

Hard(req, refs) == \/ req.task \in HardTasks
                   \/ \E i \in Included(refs) : refs[i].sensitivity = "safety_critical"

Easy(req, refs) == /\ ~Hard(req, refs)
                   /\ req.task \in {"family_digest", "lost_item"}
                   /\ IncludedCount(refs) <= EasyLimit

ClassifyDifficulty(req, refs) == IF Hard(req, refs) THEN "hard"
                                 ELSE IF Easy(req, refs) THEN "easy" ELSE "medium"

\* Mutant: the health of the self-hosted model is looked at first.
DecideRouteByHealth(req, refs, health) ==
    IF Included(refs) = {} THEN "deterministic_fallback"
    ELSE IF health.saturated \/ ~health.healthy THEN "hosted_fast"
    ELSE IF ClassifyDifficulty(req, refs) = "hard" THEN "hosted_strong" ELSE "self_hosted"

DecideRoute(req, refs, health) ==
    LET difficulty == ClassifyDifficulty(req, refs)
    IN  IF Included(refs) = {} THEN "deterministic_fallback"
        ELSE IF difficulty = "hard" THEN "hosted_strong"
        ELSE IF /\ req.request_class = "interactive"
                /\ difficulty = "easy"
                /\ health.healthy
                /\ ~health.saturated THEN "self_hosted"
        ELSE IF health.saturated \/ ~health.healthy THEN "hosted_fast"
        ELSE "self_hosted"
=============================================================================
