----------------------------- MODULE MCConsole -----------------------------
(***************************************************************************)
(* Console for TLC: f1's names have a literal extension, f2's do not.      *)
(***************************************************************************)
EXTENDS Console

CONSTANTS f1, f2, legacy, house, comma, pipe, ctl, terse, a, b, t1, t2

MCBuiltIn == [k \in Scalars |-> comma]
MCDefaults == [k \in Keys |-> Absent]
MCParent == [c \in Conventions |-> IF c = legacy /\ house \in Conventions THEN house ELSE Empty]
MCStem == [x \in Feeds |-> IF x = f1 THEN <<{a}, {a, b}>> ELSE <<{a, b}, {b}>>]

\* A plain form, one that leaves the gate at the door out, one with both
\* gates, and one whose gates are incoherent.
MCPosted ==
  {[k \in Keys |-> IF k = "delimiter" THEN comma ELSE Empty],
   [k \in Keys |-> CASE k = "delimiter" -> pipe [] k = "arrival" -> Empty [] OTHER -> ctl],
   [k \in Keys |-> IF k = "delimiter" THEN comma ELSE ctl],
   [k \in Keys |-> CASE k = "delimiter" -> comma [] k = "arrival" -> ctl [] OTHER -> Empty]}
MCSpelled == [x \in {terse} |-> ctl]

\* Processes that stop when told, ones of which all, the leader or its
\* children alone ignore it, and a leader that ends before its children.
MCTrees ==
  {[deaf |-> d, lingers |-> FALSE] : d \in SUBSET {"leader", "rest"}}
    \union {[deaf |-> {}, lingers |-> TRUE]}

\* Two requests at once: two forms, or one with an edit by hand and something
\* that fails. One request at a time: two forms and an edit, or one form and a
\* build.
MCSpent ==
  {[threads |-> {}, forms |-> 0, hands |-> 1, asked |-> 1, faults |-> 1],
   [threads |-> {}, forms |-> 1, hands |-> 0, asked |-> 1, faults |-> 0],
   [threads |-> {t2}, forms |-> 0, hands |-> 0, asked |-> 1, faults |-> 1],
   [threads |-> {t2}, forms |-> 1, hands |-> 1, asked |-> 0, faults |-> 1]}

\* Two builds, one form.
MCSpentTwice == {[threads |-> {}, forms |-> 1, hands |-> 1, asked |-> 0, faults |-> 1]}
=============================================================================
