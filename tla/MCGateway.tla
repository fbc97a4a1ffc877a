------------------------------- MODULE MCGateway -------------------------------
(* Instances of Gateway for TLC over the synthetic family. *)
EXTENDS Gateway, SyntheticFamily

\* The process starts on day 60; the teen's location expires just after 1338
\* and the groceries just after 1796.
DayEdges == {1200, 1338, 1339, 1797}

\* The budget of every request is shorter than a tick of the clock.
Shape(member, task, class) ==
    [member |-> member, task |-> task, request_class |-> class, latency_budget |-> 0]

AllShapes == {Shape(m, t, c) : m \in FamilyMembers, t \in TaskKind, c \in RequestClass}

\* A family of two items, where many requests are to interleave: a note that
\* expires after a day, and safety evidence one member sees.
Couple == {"m_dad", "m_child"}
CoupleItems == {"i_note", "i_evidence"}
CoupleAt(start) ==
    [i_note |-> FamilyItem(Couple, "normal", Days(1), "granted", TRUE, start),
     i_evidence |-> FamilyItem({"m_dad"}, "safety_critical", Never, "granted", FALSE, start)]

\* Around the instant the note expires.
NoteEdge == {20, 41}

\* A question that starts at the top of the ladder, and one that sees the evidence.
TwoShapes == {Shape("m_child", "freeform", "interactive"),
              Shape("m_dad", "freeform", "interactive")}

\* What the clients of serving/clients.py report, a saturated one, and all a
\* client may report.
TwoHealths == {[healthy |-> TRUE, saturated |-> FALSE], [healthy |-> TRUE, saturated |-> TRUE]}
AnyHealth == HealthSnapshot

\* The template makes no call that can fail.
Models == Routes \ {"deterministic_fallback"}
=============================================================================
