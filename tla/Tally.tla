--------------------------------- MODULE Tally ---------------------------------
(***************************************************************************)
(* How many of a collection are of each class, for the functions that sort *)
(* it and take what stands at a rank: the classes are numbered in the      *)
(* order of what is sorted, so the rank falls on the first class at which  *)
(* the running total of the tally reaches it.                              *)
(***************************************************************************)
EXTENDS Integers

\* sorted: how many are at or before the class.
AtMost(tally, class) ==
    LET upTo[k \in 0..class] == IF k = 0 THEN 0 ELSE upTo[k - 1] + tally[k]
    IN  upTo[class]
=============================================================================
