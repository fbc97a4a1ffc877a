---------------------------- MODULE MCDiurnalReplay ----------------------------
(* A small day, for TLC. *)
EXTENDS DiurnalReplay

\* In halves of an arrival: one at the first step, and two, with what is left over,
\* at the next.
SmallDay == <<3, 3>>

\* A remote endpoint, and below it the stand-ins of the hosted models.
RemoteEndpoint == {[base_url |-> "modal", key |-> FALSE]}
=============================================================================
