----------------------------- MODULE KeepRules -----------------------------
(***************************************************************************)
(* Which COB dates a layer keeps: reporting_platform/common/               *)
(* calendar_rules.py.  Dates are numbers in calendar order; a rule looks   *)
(* only at the dates it is given, never at a calendar.                     *)
(***************************************************************************)
EXTENDS Naturals, FiniteSets

CONSTANTS
  MonthOf,        \* per date, its month; later dates in no earlier month
  KeepDays,       \* keep_business_days
  KeepMonthEnds   \* keep_month_ends

ASSUME KeepRulesAssumptions ==
  /\ DOMAIN MonthOf \subseteq Nat /\ \A d \in DOMAIN MonthOf : MonthOf[d] \in Nat
  /\ \A d, e \in DOMAIN MonthOf : d <= e => MonthOf[d] <= MonthOf[e]
  /\ KeepDays \in Nat \ {0}
  /\ KeepMonthEnds \in Nat

\* sorted(S)[-n:], where n = 0 is the caller's to exclude.
Newest(S, n) == {d \in S : Cardinality({e \in S : e > d}) < n}

\* The last date of each month that a later month's date shows to be over.
MonthEnds(S) ==
  {d \in S : /\ \A e \in S : MonthOf[e] = MonthOf[d] => e <= d
             /\ \E e \in S : MonthOf[e] > MonthOf[d]}

\* Mutant of KeepSet: one date short.
KeepSet_OneShort(S) == Newest(S, KeepDays - 1) \union Newest(MonthEnds(S), KeepMonthEnds)

KeepSet(S) == Newest(S, KeepDays) \union Newest(MonthEnds(S), KeepMonthEnds)

ExpireSet(S) == S \ KeepSet(S)
=============================================================================
