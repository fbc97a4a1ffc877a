--------------------------- MODULE SyntheticFamily ---------------------------
(***************************************************************************)
(* data/synthetic_family.py: the family the gateway serves, as of the      *)
(* instant its process was started.  The clock ticks 20 times a day, which *)
(* keeps every age of the source (0.05 to 60 days) whole.                  *)
(***************************************************************************)
EXTENDS Integers

FamilyMembers == {"m_mom", "m_dad", "m_teen", "m_child"}
Parents == {"m_mom", "m_dad"}

TicksPerDay == 20

Days(n) == [kind |-> "days", days |-> n]
Never == [kind |-> "never", days |-> 0]

\* Every item of the family may enter a prompt; they differ in the rest.
FamilyItem(who, sensitivity, policy, consent, summarizable, stamp) ==
    [visible_to |-> who, sensitivity |-> sensitivity, retention_policy |-> policy,
     consent_state |-> consent, summarizable |-> summarizable,
     prompt_eligible |-> TRUE, timestamp |-> stamp]

\* build_family: ages are subtracted from the anchor.
BuildFamily(anchor) ==
    [i_groceries |->
        FamilyItem(FamilyMembers, "normal", Days(30), "granted", TRUE, anchor - 4),
     i_teen_location |->
        FamilyItem(Parents \cup {"m_teen"}, "sensitive", Days(7), "granted", FALSE, anchor - 2),
     i_child_counselor |->
        FamilyItem(Parents, "sensitive", Days(30), "granted", FALSE, anchor - 20),
     i_private_doc |->
        FamilyItem({"m_mom"}, "sensitive", Never, "granted", FALSE, anchor - 60),
     i_stale_ping |->
        FamilyItem(Parents \cup {"m_teen"}, "normal", Days(30), "granted", TRUE, anchor - 1200),
     i_safety_evidence |->
        FamilyItem(Parents, "safety_critical", Never, "granted", FALSE, anchor - 1),
     i_revoked |->
        FamilyItem(FamilyMembers, "normal", Never, "revoked", TRUE, anchor - 10)]

FamilyItems == {"i_groceries", "i_teen_location", "i_child_counselor", "i_private_doc",
                "i_stale_ping", "i_safety_evidence", "i_revoked"}
=============================================================================
