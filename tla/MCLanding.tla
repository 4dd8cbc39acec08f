----------------------------- MODULE MCLanding -----------------------------
(***************************************************************************)
(* Landing for TLC: the dates 1 to 5 in the months 1, 1, 2, 2, 3.          *)
(***************************************************************************)
EXTENDS Landing

CONSTANTS a1, a2, a3, a4, none

MCMonthOf == <<1, 1, 2, 2, 3>>
MCOrder == SelectSeq(<<a1, a2, a3, a4>>, LAMBDA d : d \in Deliveries)
MCDateOf == [d \in Deliveries |-> IF d = a1 THEN 1 ELSE IF d = a2 THEN 2
                                  ELSE IF d = a3 THEN 3 ELSE 5]
=============================================================================
