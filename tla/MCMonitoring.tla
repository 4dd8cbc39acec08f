---------------------------- MODULE MCMonitoring ----------------------------
(***************************************************************************)
(* Four dates, the first alone in its month, of one daily and one weekly   *)
(* feed.  A behaviour is about the feeds on nights that go well, or about  *)
(* the nights.                                                             *)
(***************************************************************************)
EXTENDS Monitoring

Daily1 == {"trades"}
Weekly1 == {"limits"}

Months == [d \in 0 .. 3 |-> IF d = 0 THEN 0 ELSE 1]
IsoWeeks == [d \in 0 .. 3 |-> IF d < 2 THEN 0 ELSE 1]

\* Everything, or all but one date.
Pasts == {({"trades", "limits"} \X {0, 1}) \ S : S \in {{}, {<<"trades", 1>>}, {<<"limits", 0>>}}}

FeedsOnly ==
  {[hands |-> 0, faults |-> MaxFaults, coming |-> {1, 2, 3}, past |-> P,
    review |-> 1, fresh |-> FALSE] : P \in Pasts}

\* The windows of dev and of uat, on a platform that is new or has run before.
NightsOnly ==
  {[hands |-> MaxHands, faults |-> 0, coming |-> {}, past |-> {},
    review |-> w, fresh |-> new] : w \in ReviewWindows, new \in BOOLEAN}

FeedsOrNights == FeedsOnly \union NightsOnly
=============================================================================
