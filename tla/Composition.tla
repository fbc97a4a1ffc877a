------------------------------ MODULE Composition ------------------------------
(***************************************************************************)
(* gateway/composition.py and the constructors of serving/clients.py: the  *)
(* client behind each route, from what the environment configures: base_url *)
(* (none, a local Ollama or a Modal endpoint) and whether there is an      *)
(* ANTHROPIC_API_KEY.                                                      *)
(***************************************************************************)
EXTENDS Routing

Environment == [base_url : {"none", "ollama", "modal"}, key : BOOLEAN]

\* self_hosted_from_env
SelfHostedFromEnv(env) == IF env.base_url = "none" THEN "simulated" ELSE "openai"

\* _hosted
Hosted(env) == IF env.key THEN "anthropic" ELSE "template"

\* build_router: with offline, no credential is looked at.
ClientBehind(env, offline, route) ==
    IF route = "deterministic_fallback" THEN "template"
    ELSE IF offline THEN IF route = "self_hosted" THEN "simulated" ELSE "template"
    ELSE IF route = "self_hosted" THEN SelfHostedFromEnv(env) ELSE Hosted(env)

\* The clients that call out, and may raise; the others compute their answer.
Remote == {"openai", "anthropic"}

\* Every client reports itself healthy and not saturated.
ReportedHealth == [healthy |-> TRUE, saturated |-> FALSE]

\* Gateway.infer's Router.run: the answer comes from the first rung at or below
\* the decided one whose client does not raise, so from any rung above which all
\* the tried ones are remote.
MayAnswer(env, offline, decided) ==
    {route \in Routes :
        /\ Rung(decided) <= Rung(route)
        /\ \A i \in Rung(decided)..(Rung(route) - 1) :
              ClientBehind(env, offline, Ladder[i]) \in Remote}
=============================================================================
