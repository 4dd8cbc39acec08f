---------------------------- MODULE MCPublication ----------------------------
(***************************************************************************)
(* Publication for TLC: x1 and x1b are two Deliveries of one COB date, x2  *)
(* is the next date's.                                                     *)
(***************************************************************************)
EXTENDS Publication, TLC

CONSTANTS x1, x1b, x2, r1, r2, regulatory, dashboard, op

MCDateOf  == [x \in Deliveries |-> IF x = x2 THEN 2 ELSE 1]
MCRestate == Reports \intersect {regulatory}

\* The builds, and the two Deliveries of one date, are alike.
MCSymmetry == Permutations({x1, x1b}) \union Permutations({r1, r2})
=============================================================================
