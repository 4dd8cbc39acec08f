----------------------------- MODULE MCRawIngest -----------------------------
(***************************************************************************)
(* RawIngest for TLC: d1 and d2 are two Deliveries of one feed for one COB *)
(* date, d3 is the same feed's next date, d4 is another feed's and fails a *)
(* check.  r1 and r1b are two triggers of the same Delivery.               *)
(***************************************************************************)
EXTENDS RawIngest

CONSTANTS ta, tb, d1, d2, d3, d4, jan, feb, r1, r1b, r2, r3, r4

MCTableOf    == [d \in Deliveries |-> IF d = d4 THEN tb ELSE ta]
MCCobDateOf  == [d \in Deliveries |-> IF d = d3 THEN feb ELSE jan]
MCBad        == Deliveries \intersect {d4}
MCDeliveryOf == [r \in Runs |-> CASE r \in {r1, r1b} -> d1
                                  [] r = r2 -> d2
                                  [] r = r3 -> d3
                                  [] r = r4 -> d4]
=============================================================================
