--------------------------- MODULE ContextAssembly ---------------------------
(***************************************************************************)
(* context/authorization.py, context/assembly.py and the types of          *)
(* context/schema.py and gateway/contract.py they use: which items of a    *)
(* family may enter the prompt of a requesting member, and the reference   *)
(* each candidate leaves in the audit record.  All of it is pure: time is  *)
(* an argument, in ticks.                                                  *)
(***************************************************************************)
EXTENDS Naturals, FiniteSets

CONSTANTS Members,  \* the family members that may ask
          Day       \* ticks of the clock per day

ASSUME DayAssumption == Day \in Nat \ {0}

TaskKind == {"family_digest", "notify_decision", "lost_item", "context_persist",
             "freeform"}
Sensitivity == {"normal", "sensitive", "safety_critical"}
ConsentState == {"granted", "revoked", "pending"}

\* "never", "session", "<days>d", or text that is none of these.
RetentionPolicy == [kind : {"never", "session", "days", "unknown"}, days : Nat]

ContextItem == [visible_to : SUBSET Members, sensitivity : Sensitivity,
                retention_policy : RetentionPolicy, consent_state : ConsentState,
                summarizable : BOOLEAN, prompt_eligible : BOOLEAN, timestamp : Nat]

Horizon(item) == item.timestamp + Day * item.retention_policy.days

Expired(item, now) ==
    \/ item.retention_policy.kind = "unknown"
    \/ item.retention_policy.kind = "days" /\ now > Horizon(item)

Allowed == "allowed"

\* can_member_see: the first gate that refuses names the reason.
MemberSees(item, member, now) ==
    IF member \notin item.visible_to THEN "not_in_visible_to"
    ELSE IF item.consent_state # "granted" THEN "consent"
    ELSE IF ~item.prompt_eligible THEN "not_prompt_eligible"
    ELSE IF Expired(item, now) THEN "retention_expired"
    ELSE Allowed

SummaryTasks == {"family_digest"}

\* Mutant: no second gate.
VerdictFirstGateOnly(item, member, task, now) == MemberSees(item, member, now)

\* The second gate: an item that must stay out of shared summaries.
Verdict(item, member, task, now) ==
    LET reason == MemberSees(item, member, now)
    IN  IF reason = Allowed /\ task \in SummaryTasks /\ ~item.summarizable
        THEN "not_summarizable" ELSE reason

Reasons == {Allowed, "not_in_visible_to", "consent", "not_prompt_eligible",
            "retention_expired", "not_summarizable"}

ContextRef == [included : BOOLEAN, reason : Reasons, sensitivity : Sensitivity]

\* assemble_context: one reference per candidate, included or not.
Assemble(candidates, member, task, now) ==
    [i \in DOMAIN candidates |->
        LET verdict == Verdict(candidates[i], member, task, now)
        IN  [included |-> verdict = Allowed, reason |-> verdict,
             sensitivity |-> candidates[i].sensitivity]]

\* The survivors: what the prompt is made of.
Included(refs) == {i \in DOMAIN refs : refs[i].included}

IncludedCount(refs) == Cardinality(Included(refs))
----
(***************************************************************************)
(* eval/privacy_asserts.py: the release gate's own account of who may see  *)
(* what, and the violations it finds in an answer.                         *)
(***************************************************************************)
Authorized(item, member, task, now) ==
    /\ MemberSees(item, member, now) = Allowed
    /\ task \in SummaryTasks => item.summarizable

Admitted(candidates, refs, member, task, now) ==
    {i \in DOMAIN refs : refs[i].included /\ ~Authorized(candidates[i], member, task, now)}

Surfaced(candidates, text, member, task, now) ==
    {i \in text : ~Authorized(candidates[i], member, task, now)}
=============================================================================
