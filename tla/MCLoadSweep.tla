------------------------------ MODULE MCLoadSweep ------------------------------
(* The levels of a small sweep, for TLC. *)
EXTENDS LoadSweep

OneTwo == <<1, 2>>
=============================================================================
