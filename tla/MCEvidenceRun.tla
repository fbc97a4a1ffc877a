----------------------------- MODULE MCEvidenceRun -----------------------------
(***************************************************************************)
(* The release gate over the shipped family, one with nothing to hide and  *)
(* those one field away from either; the whole evidence run over the two,  *)
(* one without anything for m_mom and one with evidence in her digest.     *)
(***************************************************************************)
EXTENDS EvidenceRun

Anchor == 1200

Session == [kind |-> "session", days |-> 0]
Unknown == [kind |-> "unknown", days |-> 0]

Edits(item) ==
    {[item EXCEPT !.visible_to = who] : who \in SUBSET FamilyMembers}
    \cup {[item EXCEPT !.consent_state = state] : state \in ConsentState}
    \cup {[item EXCEPT !.summarizable = yes] : yes \in BOOLEAN}
    \cup {[item EXCEPT !.prompt_eligible = yes] : yes \in BOOLEAN}
    \cup {[item EXCEPT !.sensitivity = s] : s \in Sensitivity}
    \cup {[item EXCEPT !.retention_policy = p] :
             p \in {Session, Unknown, Never, Days(1), Days(3), Days(60)}}

WithOneEdit(base) ==
    {base} \cup UNION {{[base EXCEPT ![i] = item] : item \in Edits(base[i])} : i \in FamilyItems}

\* A family with nothing to hide: one edit of it is the only thing that can leak.
OpenFamily == [i \in FamilyItems |->
                  FamilyItem(FamilyMembers, "normal", Never, "granted", TRUE, Anchor - 10)]

\* One whose digest is empty, and one with safety evidence in it.
SilentFamily == [BuildFamily(Anchor) EXCEPT !.i_groceries.consent_state = "pending"]
AlarmedFamily == [BuildFamily(Anchor) EXCEPT !.i_safety_evidence.summarizable = TRUE]

WholeFamilies == {BuildFamily(Anchor), OpenFamily, SilentFamily, AlarmedFamily}

OneEdit == WithOneEdit(BuildFamily(Anchor)) \cup WithOneEdit(OpenFamily)

\* No endpoint; a local one on a cheap host without hosted models behind it; a
\* remote one with them on the GPU the pool is priced at.
FewEnvironments ==
    {[base_url |-> "none", key |-> TRUE, cents_per_hour |-> 200],
     [base_url |-> "ollama", key |-> FALSE, cents_per_hour |-> 8],
     [base_url |-> "modal", key |-> TRUE, cents_per_hour |-> 80]}

\* The anchor, and a day after the groceries have expired.
TwoDays == {Anchor, Anchor + 900}
=============================================================================
