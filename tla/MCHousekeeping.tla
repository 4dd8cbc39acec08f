--------------------------- MODULE MCHousekeeping ---------------------------
(***************************************************************************)
(* Housekeeping for TLC: two dates of one month.                           *)
(***************************************************************************)
EXTENDS Housekeeping

CONSTANTS i1, i2, b1, b2

MCMonthOf == <<1, 1>>
MCDateOf == [w \in Writers |-> IF w \in {i1, b1} THEN 1 ELSE 2]
=============================================================================
