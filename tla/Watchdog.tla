------------------------------ MODULE Watchdog ------------------------------
(***************************************************************************)
(* monitoring/watchdog.py, and what it watches: the DagRuns of             *)
(* platform_housekeeping, and the sets of files that Nessie GC's sweep has *)
(* recorded for deletion and the deferred-delete pass of a later night     *)
(* deletes.  The watchdog is a process of its own that only reads, at any  *)
(* time: what it says is an operator of the state.  Working branches,      *)
(* undeclared tables and a warehouse that never changes size only warn; a  *)
(* Nessie or a warehouse out of reach alerts, and is left out.             *)
(***************************************************************************)
EXTENDS Clock, FiniteSets

CONSTANTS
  ReviewWindows,    \* nessie_gc.deferred_delete_after_hours, by environment
  MaxAgeTicks,      \* MAX_AGE_HOURS
  StaleTicks,       \* STALE_RUN_HOURS
  RunTicks,         \* bound: ticks a run takes that is not stuck
  MaxFaults         \* bound: what goes wrong

ASSUME WatchdogAssumptions ==
  /\ ReviewWindows \subseteq Nat
  /\ {MaxAgeTicks, StaleTicks, RunTicks, MaxFaults} \subseteq Nat

VARIABLES
  run,            \* the DagRun: the night it is for, its next step and start
  lastSuccess,    \* when a DagRun last ended in success
  recorded,       \* when each set of files awaiting deletion was identified
  tables,         \* Nessie GC has made its tables
  listing,        \* the DAG in the metadata database: no schema, no row, a row
  paused,         \* the DAG is paused
  down,           \* the databases that cannot be reached
  faults,
  review          \* the review window of this environment

watchVars == <<run, lastSuccess, recorded, tables, listing, paused, down, faults, review>>

Fault == faults < MaxFaults /\ faults' = faults + 1

NotYet == -1
Succeeded == lastSuccess # NotYet

Nights == (now + 1) \div Day

\* A platform that has just been set up, or one whose last night ended well.
WatchInit(fresh) ==
  /\ run = [pc |-> "none", night |-> Nights - 1, start |-> 0, stuck |-> FALSE, error |-> FALSE]
  /\ lastSuccess = IF fresh THEN NotYet ELSE now - Day + 1
  /\ listing = IF fresh THEN "no_schema" ELSE "active"
  /\ tables = ~fresh /\ recorded = {} /\ paused = FALSE /\ down = {}

(***************************************************************************)
(* The nightly run.  One at a time, and no catching up: once it can, a run *)
(* starts for the latest of the nights that found one running, or the DAG  *)
(* paused.                                                                 *)
(***************************************************************************)
Scheduling == listing = "active" /\ ~paused
Due == Scheduling /\ run.pc = "none" /\ run.night < Nights

StartRun ==
  /\ Due
  /\ run' = [run EXCEPT !.pc = "sweep", !.night = Nights, !.start = now]
  /\ UNCHANGED <<lastSuccess, recorded, tables, listing, paused, down, faults, review>>

Ended == [run EXCEPT !.pc = "none", !.start = 0, !.stuck = FALSE, !.error = FALSE]
Working(step) == run.pc = step /\ ~run.stuck

\* A failure that its task's retries did not cure.
RunFails ==
  /\ run.pc # "none" /\ ~run.stuck /\ Fault
  /\ run' = Ended
  /\ UNCHANGED <<lastSuccess, recorded, tables, listing, paused, down, review>>

\* A run that never ends on its own, until somebody marks it failed.
Wedge ==
  /\ run.pc # "none" /\ ~run.stuck /\ Fault
  /\ run' = [run EXCEPT !.stuck = TRUE]
  /\ UNCHANGED <<lastSuccess, recorded, tables, listing, paused, down, review>>

Unwedge ==
  /\ run.stuck
  /\ run' = Ended
  /\ UNCHANGED <<lastSuccess, recorded, tables, listing, paused, down, faults, review>>

\* mark-live and sweep --defer-deletes, which make the tables the first time:
\* nothing is deleted yet.
Sweep ==
  /\ Working("sweep")
  /\ recorded' = recorded \union {now}
  /\ tables' = TRUE
  /\ run' = [run EXCEPT !.pc = "deletes"]
  /\ UNCHANGED <<lastSuccess, listing, paused, down, faults, review>>

\* A pass that raises is only recorded in the report, and leaves the rest.
DeferredDeletes ==
  /\ Working("deletes")
  /\ LET due == {t \in recorded : now - t > review}
     IN \/ /\ recorded' = recorded \ due
           /\ run' = [run EXCEPT !.pc = "rows"]
           /\ UNCHANGED faults
        \/ /\ \E S \in SUBSET due : recorded' = recorded \ S
           /\ run' = [run EXCEPT !.pc = "rows", !.error = TRUE]
           /\ Fault
  /\ UNCHANGED <<lastSuccess, tables, listing, paused, down, review>>

\* The tables' rows; one table that fails fails the run, behind the others.
TablesTrimmed(all) ==
  /\ Working("rows")
  /\ IF all THEN run' = [run EXCEPT !.pc = "report"] /\ UNCHANGED faults
            ELSE run' = Ended /\ Fault
  /\ UNCHANGED <<lastSuccess, recorded, tables, listing, paused, down, review>>

\* storage_report: the run fails if the pass did.
Report ==
  /\ Working("report")
  /\ run' = Ended
  /\ lastSuccess' = IF run.error THEN lastSuccess ELSE now
  /\ UNCHANGED <<recorded, tables, listing, paused, down, faults, review>>

\* airflow-init ends its `db migrate`.
Migrated ==
  /\ listing = "no_schema" /\ listing' = "absent"
  /\ UNCHANGED <<run, lastSuccess, recorded, tables, paused, down, faults, review>>

\* The scheduler parses the DAG's file: a new DAG lands paused.
Parsed ==
  /\ listing \in {"absent", "inactive"} /\ listing' = "active"
  /\ paused' = (paused \/ listing = "absent")
  /\ UNCHANGED <<run, lastSuccess, recorded, tables, down, faults, review>>

\* It no longer does: the file is gone, or fails to import.
Unparsed ==
  /\ listing = "active" /\ Fault /\ listing' = "inactive"
  /\ UNCHANGED <<run, lastSuccess, recorded, tables, paused, down, review>>

\* The GC's database is made anew, empty.
TablesLost ==
  /\ tables /\ Fault /\ tables' = FALSE /\ recorded' = {}
  /\ UNCHANGED <<run, lastSuccess, listing, paused, down, review>>

Pause ==
  /\ listing = "active" /\ ~paused /\ Fault /\ paused' = TRUE
  /\ UNCHANGED <<run, lastSuccess, recorded, tables, listing, down, review>>

Unpause ==
  /\ paused /\ paused' = FALSE
  /\ UNCHANGED <<run, lastSuccess, recorded, tables, listing, down, faults, review>>

Outage(db) ==
  /\ db \notin down /\ Fault /\ down' = down \union {db}
  /\ UNCHANGED <<run, lastSuccess, recorded, tables, listing, paused, review>>

Restored(db) ==
  /\ db \in down /\ down' = down \ {db}
  /\ UNCHANGED <<run, lastSuccess, recorded, tables, listing, paused, faults, review>>

\* Time does not pass over a run that is due, nor leave behind one that is not
\* stuck and that the scheduler goes on with.
MayPass ==
  ~Due /\ (run.pc = "none" \/ run.stuck \/ ~Scheduling \/ now < run.start + RunTicks)

(***************************************************************************)
(* The checks that alert.                                                  *)
(***************************************************************************)
\* Mutant of Stale: a night without a success is not an old one.
Stale_Never == FALSE

Stale == ~Succeeded \/ now - lastSuccess > MaxAgeTicks

Stuck == run.pc # "none" /\ now - run.start > StaleTicks

\* What the metadata database can be asked about the DAG.
Reached == "metadata" \notin down
Listed == Reached /\ listing \in {"inactive", "active"}

\* A schema that is not there yet only warns.
OrchestratorAlerts ==
  {a \in {"metadata_db", "dag_present", "dag_paused", "dag_active",
          "housekeeping_freshness", "stale_run"} :
     \/ a = "metadata_db" /\ ~Reached
     \/ a = "dag_present" /\ Reached /\ listing = "absent"
     \/ a = "dag_paused" /\ Listed /\ paused
     \/ a = "dag_active" /\ Listed /\ listing = "inactive"
     \/ a = "housekeeping_freshness" /\ Listed /\ Stale
     \/ a = "stale_run" /\ Listed /\ Stuck}

\* What the orchestrator's check could not find out counts as no success.
KnownSuccess == Listed /\ Succeeded

\* Mutant of Overdue: whatever may be deleted should have been.
Overdue_Eligible == {t \in recorded : now - t > review}

\* Old enough to be deleted, and a run has succeeded since it was.
Overdue ==
  {t \in recorded : now - t > review /\ KnownSuccess /\ lastSuccess > t + review}

BacklogAlerts ==
  IF "gc" \in down \/ (~tables /\ KnownSuccess) \/ Overdue # {}
  THEN {"deferred_backlog"} ELSE {}

Alerts == OrchestratorAlerts \union BacklogAlerts
=============================================================================
