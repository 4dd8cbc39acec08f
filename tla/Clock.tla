------------------------------- MODULE Clock -------------------------------
(***************************************************************************)
(* The time the monitors judge by, in ticks of six hours.  A day has four: *)
(* until a feed's deadline of 07:00, until 13:00, until 19:00, and the     *)
(* one in which platform_housekeeping is scheduled, at 22:00.              *)
(***************************************************************************)
EXTENDS Integers

CONSTANT MaxTick     \* bound: time stops here

ASSUME ClockAssumption == MaxTick \in Nat

VARIABLE now

Day == 4
DayOf(t) == t \div Day
Today == DayOf(now)

Passes == now < MaxTick /\ now' = now + 1
=============================================================================
