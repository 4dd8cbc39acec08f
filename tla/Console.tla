------------------------------- MODULE Console -------------------------------
(***************************************************************************)
(* The console: its requests over the feed registry and the dbt project    *)
(* (FeedRegistry), and the builds they start (Jobs).                       *)
(***************************************************************************)
EXTENDS FeedRegistry, Jobs

CONSTANT Spent  \* bound: what a behaviour may not use, [threads, forms, hands, asked, faults]

vars == <<registryVars, jobVars>>

\* A model whose source is not declared fails the parse of the whole project.
Parses == dbt.models \subseteq dbt.sources

\* api_test_feed, for a feed that is registered.
TestFeed(j) ==
  /\ Loads /\ Registered # {}
  /\ Ask(j)
  /\ UNCHANGED registryVars

\* dbt parses the project before it builds any of it.
BuildExits(j) ==
  /\ \E code \in 0..1 : (code = 0 => Parses) /\ Exit(j, code)
  /\ UNCHANGED registryVars

Init ==
  /\ RegistryInit /\ JobsInit
  /\ \E s \in Spent :
       /\ pc = [t \in Threads |-> IF t \in s.threads THEN "away" ELSE "none"]
       /\ forms = s.forms /\ hands = s.hands /\ asked = s.asked /\ faults = s.faults

Requests == \E t \in Threads : Request(t)
Work(j) == (Thread(j) \/ Stopper(j)) /\ UNCHANGED registryVars
Ask_(j) == (TestFeed(j) \/ (Cancel(j) /\ UNCHANGED registryVars))
ConsoleRestarts ==
  /\ (\E t \in Threads : ~Idle(t)) \/ \E j \in Builds : job[j] # NoJob
  /\ pc' = [t \in Threads |-> IF pc[t] = "away" THEN "away" ELSE "none"]
  /\ form' = [t \in Threads |-> NoForm]
  /\ faults < MaxFaults /\ faults' = faults + 1
  /\ UNCHANGED <<tree, project, forms, hands>>
  /\ Killed

Next ==
  \/ (Requests \/ People) /\ UNCHANGED jobVars
  \/ \E j \in Builds : Work(j) \/ Ask_(j) \/ BuildExits(j)
  \/ ConsoleRestarts

\* The console's threads and its timers run; nothing makes dbt end.
Spec == Init /\ [][Next]_vars
FairSpec == Spec /\ \A j \in Builds : WF_vars(Work(j))

(***************************************************************************)
(* Properties.                                                             *)
(***************************************************************************)
\* Types of the state, and that every file resolves to a value for each key.
TypeOK ==
  /\ \A f \in Registered :
       /\ files[f].conv \in Conventions \union {Empty}
       /\ files[f].set \in Settings /\ files[f].hand \in BOOLEAN
       /\ \A k \in Keys : Served(f)[k] \in Choices(k)
  /\ given \in [Conventions -> Settings]
  /\ dbt \in [{"sources", "tests", "models"} -> SUBSET Feeds]
  /\ owed \subseteq Feeds
  /\ \A j \in Builds : alive[j] \subseteq {"leader", "rest"}
  /\ attached \subseteq Builds /\ timer \subseteq Builds /\ branch \subseteq Builds

\* dbt parses the project unless something went wrong that was seen: a model
\* is without its source only where the step that declares it was reported
\* failed, or where another request wrote _sources.yml back without it. No
\* order of saves, deletes, restarts and half-done scaffolds does that.
BrokenParseIsAccounted == dbt.models \ dbt.sources \subseteq owed

\* A save never stops feeds(), whoever else works beside it, where the other
\* feeds are still served as the form was checked against them and the
\* convention supplies no block that the form leaves out.
SavesKeepLoading ==
  [][\A t \in Threads : pc[t] = "merged" /\ pc'[t] = "saved" =>
       LET f == FeedOf(t)
       IN /\ \A g \in Registered \ {f} :
               g \in DOMAIN form[t].others /\ form[t].others[g] = Served(g)
          /\ \A k \in Blocks : form[t].vals[k] = Empty =>
               Effective(form[t].conv)[k] \in {Absent, Empty}
          => Loads']_vars

\* What a form said is what the feed serves once it is saved, except for a
\* block it leaves out, which a convention may supply; and what was tuned by
\* hand outside the form is still there.
SavedIsServed ==
  [][\A t \in Threads : pc[t] = "merged" /\ pc'[t] = "saved" =>
       LET f == FeedOf(t)
       IN /\ files'[f].conv = form[t].conv
          /\ \A k \in Keys : \/ Served(f)'[k] = form[t].vals[k]
                             \/ k \in Blocks /\ form[t].vals[k] = Empty
          /\ files[f] # Absent => files'[f].hand = files[f].hand]_vars

\* One build at a time: a second request is refused.
OneBuildAtATime == \A i, j \in Builds : Running(i) /\ Running(j) => i = j

\* The leader has ended and a child still holds the output: nothing is left
\* for the deadline, or anybody, to signal.
Orphaned(j) == "leader" \notin alive[j] /\ alive[j] # {}

\* The slot comes back, whatever dbt ignores and whoever stops it, unless the
\* job's leader ends while its children hold the output.
JobsEnd == \A j \in Builds : Running(j) ~> ~Running(j) \/ Orphaned(j)

\* The three above without their exceptions, as the console's comments have
\* them: no save stops feeds(), no model is without its source, and no build
\* outlives its deadline.  The code keeps none of them.
EverySaveLoads ==
  [][\A t \in Threads : pc[t] = "merged" /\ pc'[t] = "saved" => Loads']_vars
ModelsHaveSources == dbt.models \subseteq dbt.sources
DeadlineEnds == \A j \in Builds : Running(j) ~> ~Running(j)

\* A job somebody stopped is reported as failed.
StoppedIsFailed ==
  \A j \in Builds : job[j].status = "success" => job[j].stopped = "no"
=============================================================================
