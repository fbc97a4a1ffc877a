---------------------------- MODULE MCContextReport ----------------------------
(* Sizes on both sides of the bounds of the regimes, for TLC. *)
EXTENDS ContextReport

BoundarySizes == <<249, 250, 1000, 3000>>
=============================================================================
