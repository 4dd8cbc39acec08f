----------------------------- MODULE Publication -----------------------------
(***************************************************************************)
(* Publication: transform/wap.py, registry/runs.py, registry/lifecycle.py  *)
(* and the dbt_builds DAGs that drive them.                                *)
(*                                                                         *)
(* A build is one run of reporting_build.  It cuts a branch off `main`,    *)
(* opens its run record, lets dbt rewrite the reporting layer on the       *)
(* branch, and publishes: read the inputs, ask the as-at lifecycle, merge, *)
(* delete the branch, pin and number every report, close the run.          *)
(* Publishing is one task in the write pool and is retried; a cleared      *)
(* DagRun does everything again under the same run id.  Meanwhile people   *)
(* lock, reopen and submit dates, and keep_failed_branch, which waits for  *)
(* the models only, decides once whether the build failed.                 *)
(*                                                                         *)
(* Raw ingestion and prepared_build are this module's surroundings: each   *)
(* shows up as the commit it merges.  A layer is the set of Deliveries     *)
(* whose rows it shows; for a date, those of them with that COB date.      *)
(***************************************************************************)
EXTENDS Integers, Sequences, FiniteSets

CONSTANTS
  Builds,          \* run ids
  Reports,         \* the project's dbt exposures
  Restate,         \* those whose policy is `restate`; others carry forward
  Deliveries,
  DateOf,          \* Delivery -> its COB date, a day number
  Lookback,        \* lookback_days
  Operators,       \* sessions in which somebody types a registry command
  MaxTries,        \* tries of the publish task (Airflow: retries + 1)
  MaxOpens,        \* bound: times one DagRun is run (1: it is never cleared)
  MaxFaults,       \* bound: crashes, lost writes and failed calls
  MaxTransitions   \* bound: lifecycle transitions

Dates == {DateOf[x] : x \in Deliveries}

ASSUME PublicationAssumptions ==
  /\ {"raw", "prepared"} \intersect Builds = {}
  /\ Restate \subseteq Reports
  /\ DateOf \in [Deliveries -> Nat \ {0}]
  /\ Lookback \in Nat
  /\ MaxTries \in Nat \ {0}
  /\ MaxOpens \in Nat \ {0}
  /\ MaxFaults \in Nat
  /\ MaxTransitions \in Nat

VARIABLES
  main,         \* commits: raw in arrival order, the two layers, whose merge
  touched,      \* per layer, the last commit that changed its tables
  branch,       \* per build: is there one, its base, its reporting layer
  registered,   \* registry.delivery
  known,        \* history: per build, what that held when its gate compared
  status,       \* registry.run.status ("none": no row)
  runInput,     \* registry.run_input
  versions,     \* registry.report_version: per report and date, in order
  tags,         \* published tags
  log,          \* registry.as_at_transition, per report and date
  pc,           \* where the DagRun is
  tries,        \* tries of its publish task
  opens,        \* times it was run
  kept,         \* has keep_failed_branch decided?
  inputs,       \* what publish read off the branch
  cob,          \* and its latest COB date (0: unknown)
  todo,         \* reports still to pin
  pending,      \* per operator, a command between its check and its insert
  faults

catalog   == <<main, touched>>
index     == <<registered, known>>
runs      == <<status, runInput, versions>>
registry  == <<index, runs>>
local     == <<inputs, cob, todo>>
lifecycle == <<log, pending>>
dagrun    == <<tries, opens, kept>>
vars == <<main, touched, branch, registered, known, status, runInput, versions,
          tags, log, pc, tries, opens, kept, inputs, cob, todo, pending, faults>>
-----------------------------------------------------------------------------
NoCommand == [state |-> "none"]
NoBranch  == [open |-> FALSE, base |-> 0, reporting |-> {}]

Tip == Len(main)

\* What `main` shows.
Current == IF main = <<>> THEN [raw |-> <<>>, prepared |-> {}, reporting |-> {}]
                          ELSE main[Tip]

OnDate(S, d) == {x \in S : DateOf[x] = d}

\* dedupe_rank, full_snapshot: the newest Delivery of each date.
Newest(raw) ==
  {raw[i] : i \in {i \in 1 .. Len(raw) :
     \A j \in i + 1 .. Len(raw) : DateOf[raw[j]] # DateOf[raw[i]]}}

\* incremental_window and insert_overwrite: the dates within the lookback of
\* the target's latest are rewritten whole, every other date is left alone.
Rewritten(source, target) ==
  LET window == {x \in source : \A y \in target : DateOf[x] + Lookback >= DateOf[y]}
  IN  window \union {y \in target : \A x \in window : DateOf[x] # DateOf[y]}

LatestDate(S) ==
  IF S = {} THEN 0
            ELSE CHOOSE d \in Dates : /\ \E x \in S : DateOf[x] = d
                                      /\ \A x \in S : DateOf[x] <= d

\* lifecycle.state after the first k transitions; `open` is the absence of a row.
StateAfter(rep, d, k) == IF k = 0 THEN "open" ELSE log[rep][d][k].state
State(rep, d)         == StateAfter(rep, d, Len(log[rep][d]))

\* lifecycle.CLOSED.
Closes(state) == state \in {"locked", "submitted"}

\* What registry.delivery can say is of date d: an unregistered Delivery is on
\* no date, and so on neither side of the comparison.
KnownOn(S, d) == OnDate(S, d) \intersect registered

\* inputs_changed: against the recorded inputs of the version in force, on
\* this date only, as far as the registry knows the Deliveries.
InputsChanged(rep, d, candidate) ==
  LET published == versions[rep][d] IN
  /\ published # <<>>
  /\ KnownOn(runInput[published[Len(published)].run], d) # KnownOn(candidate, d)

\* Mutant of Publishable: every policy is carry_forward.
Publishable_Always(rep, d, candidate) == TRUE

\* check_publishable: the policy bites on a closed date whose inputs moved.
Publishable(rep, d, candidate) ==
  rep \in Restate /\ Closes(State(rep, d)) => ~InputsChanged(rep, d, candidate)

\* The states in which the publish task holds the lakehouse_write slot.
Publishing == {"inputs", "gate", "merge", "drop", "pin"}

\* A build's DagRun is over when both its last tasks are.
Over(b) == pc[b] = "idle" \/ (pc[b] \in {"done", "failed"} /\ kept[b])

Goto(b, label) == pc' = [pc EXCEPT ![b] = label]

\* The publish task raised: Airflow tries it again while it may.
TryFails(b) == Goto(b, IF tries[b] < MaxTries THEN "ready" ELSE "failed")

Fault == /\ faults < MaxFaults
         /\ faults' = faults + 1

\* UPDATE registry.run: no row, nothing to update.
SetStatus(b, s) ==
  status' = IF status[b] = "none" THEN status ELSE [status EXCEPT ![b] = s]
-----------------------------------------------------------------------------
Init ==
  /\ main = <<>>
  /\ touched = [l \in {"prepared", "reporting"} |-> 0]
  /\ branch = [b \in Builds |-> NoBranch]
  /\ registered = {}
  /\ known = [b \in Builds |-> {}]
  /\ status = [b \in Builds |-> "none"]
  /\ runInput = [b \in Builds |-> {}]
  /\ versions = [rep \in Reports |-> [d \in Dates |-> <<>>]]
  /\ tags = {}
  /\ log = [rep \in Reports |-> [d \in Dates |-> <<>>]]
  /\ pc = [b \in Builds |-> "idle"]
  /\ tries = [b \in Builds |-> 0]
  /\ opens = [b \in Builds |-> 0]
  /\ kept = [b \in Builds |-> FALSE]
  /\ inputs = [b \in Builds |-> {}]
  /\ cob = [b \in Builds |-> 0]
  /\ todo = [b \in Builds |-> {}]
  /\ pending = [o \in Operators |-> NoCommand]
  /\ faults = 0

\* The Deliveries of raw that registry.delivery does not hold.
Unregistered == {Current.raw[i] : i \in 1 .. Len(Current.raw)} \ registered

\* Raw ingestion merges a Delivery (RawIngest), inside the pool or not, which
\* was registered when it was normalized, or whose registration only logged
\* that it failed (register_quietly).  An outage that goes on is one fault.
Arrive(x) ==
  /\ \A i \in 1 .. Len(Current.raw) : Current.raw[i] # x
  /\ main' = Append(main, [raw |-> Append(Current.raw, x), prepared |-> Current.prepared,
                           reporting |-> Current.reporting, by |-> "raw"])
  /\ \/ registered' = registered \union {x} /\ UNCHANGED faults
     \/ UNCHANGED registered /\ IF Unregistered = {} THEN Fault ELSE UNCHANGED faults
  /\ UNCHANGED <<touched, branch, known, runs, tags, lifecycle, pc, dagrun, local>>

\* The nightly registry reconcile finds what is in storage and has no row.
Reconcile ==
  /\ registered' = registered \union Unregistered
  /\ UNCHANGED <<catalog, branch, known, runs, tags, lifecycle, pc, dagrun, local,
                 faults>>

\* prepared_build publishes: the newest Deliveries of raw as it was when the
\* build was cut, no earlier than the last prepared commit or it would conflict.
PublishPrepared ==
  /\ \E k \in touched["prepared"] .. Tip \ {0} :
       main' = Append(main, [raw |-> Current.raw,
                 prepared |-> Rewritten(Newest(main[k].raw), Current.prepared),
                 reporting |-> Current.reporting, by |-> "prepared"])
  /\ main'[Tip + 1].prepared # Current.prepared
  /\ touched' = [touched EXCEPT !["prepared"] = Tip + 1]
  /\ UNCHANGED <<branch, registry, tags, lifecycle, pc, dagrun, local, faults>>

\* open_build, once at a time: exist_ok, so that a run cleared on the
\* day its kept branch was cut goes on with that branch.  open_run is best
\* effort; a row that is there returns to running.
OpenBuild(b) ==
  /\ Over(b)
  /\ opens[b] < MaxOpens
  /\ \A c \in Builds : Over(c)
  /\ main # <<>>
  /\ \E sameDay \in BOOLEAN :
       branch' = IF branch[b].open /\ sameDay THEN branch
                 ELSE [branch EXCEPT ![b] =
                         [open |-> TRUE, base |-> Tip, reporting |-> Current.reporting]]
  /\ \/ status' = [status EXCEPT ![b] = "running"] /\ UNCHANGED faults
     \/ Fault /\ UNCHANGED status
  /\ opens' = [opens EXCEPT ![b] = @ + 1]
  /\ tries' = [tries EXCEPT ![b] = 0]
  /\ kept' = [kept EXCEPT ![b] = FALSE]
  /\ inputs' = [inputs EXCEPT ![b] = {}]
  /\ cob' = [cob EXCEPT ![b] = 0]
  /\ todo' = [todo EXCEPT ![b] = {}]
  /\ Goto(b, "models")
  /\ UNCHANGED <<main, touched, index, runInput, versions, tags, lifecycle>>

\* The prepared layer as a build's branch holds it: nobody writes it there.
PreparedOn(b) == main[branch[b].base].prepared

\* Every model and test of the layer passed, on the branch.
Build(b) ==
  /\ pc[b] = "models"
  /\ branch' = [branch EXCEPT ![b].reporting = Rewritten(PreparedOn(b), @)]
  /\ Goto(b, "ready")
  /\ UNCHANGED <<catalog, registry, tags, lifecycle, dagrun, local, faults>>

\* A model or a test failed: publish is never reached.
BuildFails(b) ==
  /\ pc[b] = "models"
  /\ Fault
  /\ Goto(b, "failed")
  /\ UNCHANGED <<catalog, branch, registry, tags, lifecycle, dagrun, local>>

\* The publish task gets its slot; another try of it, after a failed one.
BeginPublish(b) ==
  /\ pc[b] = "ready"
  /\ \A c \in Builds : pc[c] \notin Publishing
  /\ tries' = [tries EXCEPT ![b] = @ + 1]
  /\ inputs' = [inputs EXCEPT ![b] = {}]
  /\ cob' = [cob EXCEPT ![b] = 0]
  /\ Goto(b, "inputs")
  /\ UNCHANGED <<catalog, branch, registry, tags, lifecycle, opens, kept, todo, faults>>

\* 1. run-inputs, off the branch; then record_inputs, which replaces the set.
\* run_input references run: without a row it raises, and that is logged.
ReadInputs(b) ==
  /\ pc[b] = "inputs"
  /\ branch[b].open
  /\ inputs' = [inputs EXCEPT ![b] = PreparedOn(b)]
  /\ cob' = [cob EXCEPT ![b] = LatestDate(PreparedOn(b))]
  /\ \/ /\ runInput' = IF status[b] = "none" THEN runInput
                       ELSE [runInput EXCEPT ![b] = PreparedOn(b)]
        /\ UNCHANGED faults
     \/ Fault /\ UNCHANGED runInput
  /\ Goto(b, "gate")
  /\ UNCHANGED <<catalog, branch, index, status, versions, tags, lifecycle, dagrun, todo>>

\* Mutant of InputsUnread: a branch that is gone is waited for.
InputsUnread_Waits(b) ==
  /\ pc[b] = "inputs"
  /\ branch[b].open
  /\ Fault
  /\ Goto(b, "gate")
  /\ UNCHANGED <<catalog, branch, registry, tags, lifecycle, dagrun, local>>

\* The read failed, as it must once an earlier try deleted the branch: no
\* inputs, no COB date, and the build goes on.  It either raised, or called every
\* model unreadable, and then the empty set replaces what was recorded.
InputsUnread(b) ==
  /\ pc[b] = "inputs"
  /\ branch[b].open => faults < MaxFaults
  /\ faults' = IF branch[b].open THEN faults + 1 ELSE faults
  /\ runInput' \in {runInput, [runInput EXCEPT ![b] = {}]}
  /\ Goto(b, "gate")
  /\ UNCHANGED <<catalog, branch, index, status, versions, tags, lifecycle, dagrun, local>>

\* check_publishable looks at the inputs of closed dates only.
AsksRegistry(b) ==
  cob[b] # 0 /\ \E rep \in Reports : Closes(State(rep, cob[b]))

\* Mutant of Gate: the refusal is caught, the merge skipped, and the run goes on.
Gate_Skips(b) ==
  /\ pc[b] = "gate"
  /\ Goto(b, IF \/ cob[b] = 0
                \/ \A rep \in Reports : Publishable(rep, cob[b], inputs[b])
               THEN "merge" ELSE "pin")
  /\ known' = IF AsksRegistry(b) THEN [known EXCEPT ![b] = registered] ELSE known
  /\ UNCHANGED <<catalog, branch, registered, runs, tags, lifecycle, dagrun, local,
                 faults>>

\* 1b. The as-at lifecycle gate, for the latest date and for every report.
Gate(b) ==
  /\ pc[b] = "gate"
  /\ IF \/ cob[b] = 0
        \/ \A rep \in Reports : Publishable(rep, cob[b], inputs[b])
       THEN Goto(b, "merge")
       ELSE TryFails(b)
  /\ known' = IF AsksRegistry(b) THEN [known EXCEPT ![b] = registered] ELSE known
  /\ UNCHANGED <<catalog, branch, registered, runs, tags, lifecycle, dagrun, local,
                 faults>>

\* Nessie's NORMAL merge: the branch exists, and nobody has changed the keys of
\* its layer on `main` since it was cut.
Mergeable(b) == branch[b].open /\ touched["reporting"] <= branch[b].base

CommitMerge(b) ==
  /\ main' = Append(main, [raw |-> Current.raw, prepared |-> Current.prepared,
                           reporting |-> branch[b].reporting, by |-> b])
  /\ touched' = [touched EXCEPT !["reporting"] = Tip + 1]

\* 2. The merge.
Merge(b) ==
  /\ pc[b] = "merge"
  /\ Mergeable(b)
  /\ CommitMerge(b)
  /\ Goto(b, "drop")
  /\ UNCHANGED <<branch, registry, tags, lifecycle, dagrun, local, faults>>

\* A 404 or a 409.
MergeRefused(b) ==
  /\ pc[b] = "merge"
  /\ ~Mergeable(b)
  /\ TryFails(b)
  /\ UNCHANGED <<catalog, branch, registry, tags, lifecycle, dagrun, local, faults>>

\* The server merged; the client never heard.
MergeReplyLost(b) ==
  /\ pc[b] = "merge"
  /\ Mergeable(b)
  /\ Fault
  /\ CommitMerge(b)
  /\ TryFails(b)
  /\ UNCHANGED <<branch, registry, tags, lifecycle, dagrun, local>>

DropBranch(b) ==
  /\ pc[b] = "drop"
  /\ branch' = [branch EXCEPT ![b].open = FALSE]
  /\ todo' = [todo EXCEPT ![b] = IF cob[b] # 0 THEN Reports ELSE {}]
  /\ Goto(b, "pin")
  /\ UNCHANGED <<catalog, registry, tags, lifecycle, dagrun, inputs, cob, faults>>

\* Mutant of CutTag: the tag names what the branch was cut from.
CutTag_AtBase(b, rep) ==
  tags' = tags \union
    {[report |-> rep, date |-> cob[b], run |-> b, commit |-> branch[b].base]}

\* create_tag at the head of `main`; a name in use keeps what it names.
CutTag(b, rep) ==
  tags' = IF \E g \in tags : g.report = rep /\ g.date = cob[b] /\ g.run = b
            THEN tags
            ELSE tags \union {[report |-> rep, date |-> cob[b], run |-> b, commit |-> Tip]}

\* Mutant of Number: not idempotent on the tag.
Number_Always(b, rep) ==
  versions' = [versions EXCEPT ![rep][cob[b]] =
                 Append(@, [run |-> b, at |-> Len(log[rep][cob[b]])])]

\* allocate_version: idempotent on the tag, which is the run; the row
\* references run.  `at` only says how long the lifecycle's history was.
Number(b, rep) ==
  LET rows == versions[rep][cob[b]]
      old  == \E n \in 1 .. Len(rows) : rows[n].run = b
  IN  versions' = IF old \/ status[b] = "none" THEN versions
                  ELSE [versions EXCEPT ![rep][cob[b]] =
                          Append(@, [run |-> b, at |-> Len(log[rep][cob[b]])])]

\* 3. The pin of one report and its version; a failure of either is logged.
PinReport(b, rep) ==
  /\ pc[b] = "pin"
  /\ rep \in todo[b]
  /\ todo' = [todo EXCEPT ![b] = @ \ {rep}]
  /\ \/ CutTag(b, rep) /\ Number(b, rep) /\ UNCHANGED faults
     \/ Fault /\ CutTag(b, rep) /\ UNCHANGED versions
     \/ Fault /\ Number(b, rep) /\ UNCHANGED tags
  /\ UNCHANGED <<catalog, branch, index, status, runInput, lifecycle, pc, dagrun,
                 inputs, cob>>

\* 4. finish_run(PUBLISHED), best effort.
Finish(b) ==
  /\ pc[b] = "pin"
  /\ todo[b] = {}
  /\ \/ SetStatus(b, "published") /\ UNCHANGED faults
     \/ Fault /\ UNCHANGED status
  /\ Goto(b, "done")
  /\ UNCHANGED <<catalog, branch, index, runInput, versions, tags, lifecycle, dagrun,
                 local>>

\* The worker of the publish task dies, or a call of it raises.
Crash(b) ==
  /\ pc[b] \in Publishing
  /\ Fault
  /\ TryFails(b)
  /\ UNCHANGED <<catalog, branch, registry, tags, lifecycle, dagrun, local>>

\* keep_failed_branch runs once the models have ended, beside publish, and
\* fails the run if some task has failed by then.
KeepFailedBranch(b) ==
  /\ pc[b] \notin {"idle", "models"}
  /\ ~kept[b]
  /\ kept' = [kept EXCEPT ![b] = TRUE]
  /\ IF pc[b] = "failed" THEN SetStatus(b, "failed") ELSE UNCHANGED status
  /\ UNCHANGED <<catalog, branch, index, runInput, versions, tags, lifecycle, pc, tries,
                 opens, local, faults>>
-----------------------------------------------------------------------------
Record(rep, d, entry) ==
  /\ Len(log[rep][d]) < MaxTransitions
  /\ log' = [log EXCEPT ![rep][d] = Append(@, entry)]

\* lock: allowed from every state.
Lock(rep, d) ==
  /\ Record(rep, d, [state |-> "locked", approved |-> FALSE])
  /\ UNCHANGED <<catalog, branch, registry, tags, pc, dagrun, local, pending, faults>>

\* reopen, its checks: a closed date, and the owner's approval if submitted.
CheckReopen(o, rep, d, approved) ==
  /\ pending[o] = NoCommand
  /\ Closes(State(rep, d))
  /\ State(rep, d) = "submitted" => approved
  /\ pending' = [pending EXCEPT ![o] =
       [state |-> "reopened", report |-> rep, date |-> d, approved |-> approved]]
  /\ UNCHANGED <<catalog, branch, registry, tags, log, pc, dagrun, local, faults>>

\* record_submission's own transaction: a version that exists was sent.
Submit(o, rep, d) ==
  /\ pending[o] = NoCommand
  /\ versions[rep][d] # <<>>
  /\ pending' = [pending EXCEPT ![o] =
       [state |-> "submitted", report |-> rep, date |-> d, approved |-> FALSE]]
  /\ UNCHANGED <<catalog, branch, registry, tags, log, pc, dagrun, local, faults>>

\* transition's INSERT, on a connection of its own; it may fail, and for a
\* submission that is only logged.
WriteTransition(o) ==
  LET command == pending[o] IN
  /\ command # NoCommand
  /\ pending' = [pending EXCEPT ![o] = NoCommand]
  /\ \/ /\ Record(command.report, command.date,
                  [state |-> command.state, approved |-> command.approved])
        /\ UNCHANGED faults
     \/ Fault /\ UNCHANGED log
  /\ UNCHANGED <<catalog, branch, registry, tags, pc, dagrun, local>>
-----------------------------------------------------------------------------
Step(b) ==
  \/ Build(b) \/ BeginPublish(b) \/ ReadInputs(b) \/ InputsUnread(b) \/ Gate(b)
  \/ Merge(b) \/ MergeRefused(b) \/ DropBranch(b) \/ Finish(b)
  \/ KeepFailedBranch(b) \/ \E rep \in Reports : PinReport(b, rep)

Failure(b) == BuildFails(b) \/ MergeReplyLost(b) \/ Crash(b)

Command ==
  \E rep \in Reports, d \in Dates :
    \/ Lock(rep, d)
    \/ \E o \in Operators :
         \/ Submit(o, rep, d)
         \/ \E approved \in BOOLEAN : CheckReopen(o, rep, d, approved)

Next ==
  \/ \E x \in Deliveries : Arrive(x)
  \/ Reconcile
  \/ PublishPrepared
  \/ \E b \in Builds : OpenBuild(b) \/ Step(b) \/ Failure(b)
  \/ Command
  \/ \E o \in Operators : WriteTransition(o)

Spec == Init /\ [][Next]_vars

\* Airflow runs every task of a DagRun that was started.
FairSpec == Spec /\ \A b \in Builds : WF_vars(Step(b))
-----------------------------------------------------------------------------
Layers == {"prepared", "reporting"}
States == {"locked", "submitted", "reopened"}

CatalogType ==
  /\ main \in Seq([raw: Seq(Deliveries), prepared: SUBSET Deliveries,
                   reporting: SUBSET Deliveries,
                   by: Builds \union {"raw", "prepared"}])
  /\ touched \in [Layers -> Nat]
  /\ branch \in [Builds -> [open: BOOLEAN, base: Nat, reporting: SUBSET Deliveries]]
  /\ tags \subseteq [report: Reports, date: Dates, run: Builds, commit: Nat]

RegistryType ==
  /\ registered \subseteq Deliveries
  /\ known \in [Builds -> SUBSET Deliveries]
  /\ status \in [Builds -> {"none", "running", "published", "failed"}]
  /\ runInput \in [Builds -> SUBSET Deliveries]
  /\ versions \in [Reports -> [Dates -> Seq([run: Builds, at: Nat])]]

LifecycleType ==
  /\ log \in [Reports -> [Dates -> Seq([state: States, approved: BOOLEAN])]]
  /\ pending \in [Operators -> {NoCommand} \union
       [state: States, report: Reports, date: Dates, approved: BOOLEAN]]

DagrunType ==
  /\ pc \in [Builds -> Publishing \union {"idle", "models", "ready", "done", "failed"}]
  /\ tries \in [Builds -> 0 .. MaxTries]
  /\ opens \in [Builds -> 0 .. MaxOpens]
  /\ kept \in [Builds -> BOOLEAN]
  /\ inputs \in [Builds -> SUBSET Deliveries]
  /\ cob \in [Builds -> Dates \union {0}]
  /\ todo \in [Builds -> SUBSET Reports]
  /\ faults \in 0 .. MaxFaults

\* Types of the variables.
TypeOK == CatalogType /\ RegistryType /\ LifecycleType /\ DagrunType

MergesOf(b) == {i \in 1 .. Tip : main[i].by = b}

\* What the first merge of build b put on `main` for date d.
Shown(b, d) ==
  LET first == CHOOSE i \in MergesOf(b) : \A j \in MergesOf(b) : i <= j
  IN  OnDate(main[first].reporting, d)

\* A DagRun merges at most once each time it is run: a retried publish task
\* never puts its branch on `main` again, whatever reply it lost.
OneMergePerOpening == \A b \in Builds : Cardinality(MergesOf(b)) <= opens[b]

\* "a retried publish task is the same publication" (allocate_version): a run
\* holds one version number per report and date, cleared and repeated or not.
OnePublicationOneVersion ==
  \A rep \in Reports, d \in Dates : \A m, n \in 1 .. Len(versions[rep][d]) :
    versions[rep][d][m].run = versions[rep][d][n].run => m = n

\* Whatever says that a run published (its status, a version, a tag) is said
\* only of a run whose layer reached `main`, whichever try said it.
PublishedIsOnMain ==
  \A b \in Builds :
    \/ status[b] = "published"
    \/ \E g \in tags : g.run = b
    \/ \E rep \in Reports, d \in Dates : \E n \in 1 .. Len(versions[rep][d]) :
         versions[rep][d][n].run = b
    => MergesOf(b) # {}

\* A published tag of a DagRun that ran once shows, for its date, exactly the
\* Deliveries the registry says that run published (or the registry has
\* nothing to say): the catalog and the registry describe one publication.
TagShowsRecordedInputs ==
  \A g \in tags : opens[g.run] = 1 =>
    \/ runInput[g.run] = {}
    \/ OnDate(main[g.commit].reporting, g.date) = OnDate(runInput[g.run], g.date)

\* Version w of a date says something else than version v before it, and the
\* registry could tell when w's gate asked: w shows a Delivery registered by
\* then that v did not, or drops a registered one recorded for v.
Restates(v, w, d) ==
  \E x \in known[w.run] :
    \/ x \in Shown(w.run, d) \ Shown(v.run, d)
    \/ x \in (Shown(v.run, d) \ Shown(w.run, d)) \intersect runInput[v.run]

\* A version of a `restate` report restates the one before it only if the date
\* was not closed at some moment between them, however locks, submissions and
\* reopenings interleave with the two publications, and whatever else the
\* registry had missed.  A change in Deliveries it has never seen passes the
\* gate (inputs_changed: it "does not flip `changed`").
RestatedOnlyWhenOpen ==
  \A rep \in Restate, d \in Dates : \A n \in 2 .. Len(versions[rep][d]) :
    LET v == versions[rep][d][n - 1]
        w == versions[rep][d][n]
    IN  /\ opens[v.run] = 1 /\ opens[w.run] = 1
        /\ Restates(v, w, d)
        => \E k \in v.at .. w.at : ~Closes(StateAfter(rep, d, k))

\* A build that was started comes to an end.
BuildsEnd == \A b \in Builds : []<>Over(b)

\* "locked: refused if the input set for that date has moved" (ARCHITECTURE):
\* a reporting build that passes the gate shows, for every closed date of a
\* `restate` report, what the version in force showed.
MovedClosedDateIsRefused ==
  [][\A b \in Builds : pc[b] = "gate" /\ pc'[b] = "merge" =>
       \A rep \in Restate, d \in Dates :
         Closes(State(rep, d)) /\ versions[rep][d] # <<>> =>
           LET inForce == versions[rep][d][Len(versions[rep][d])].run
           IN  OnDate(branch[b].reporting, d) = Shown(inForce, d)]_vars

\* REQ-501: no date with a submitted version is reopened without the owner's
\* approval.
SubmittedReopensNeedOwner ==
  \A rep \in Reports, d \in Dates : \A i, j \in 1 .. Len(log[rep][d]) :
    /\ i < j
    /\ log[rep][d][i].state = "submitted"
    /\ log[rep][d][j].state = "reopened"
    /\ \A k \in i + 1 .. j - 1 : log[rep][d][k].state # "reopened"
    => log[rep][d][j].approved
-----------------------------------------------------------------------------
(***************************************************************************)
(* The inductive invariant behind the safety properties.                   *)
(***************************************************************************)
DatesOf(S) == {DateOf[x] : x \in S}

\* Every date a commit's reporting layer shows is in its prepared layer, and a
\* date the prepared layer has shown it goes on showing.
CommitsSane ==
  \A i \in 1 .. Tip :
    /\ IsFiniteSet(main[i].prepared)
    /\ DatesOf(main[i].reporting) \subseteq DatesOf(main[i].prepared)
    /\ \A j \in i .. Tip : DatesOf(main[i].prepared) \subseteq DatesOf(main[j].prepared)

TouchedSane == \A l \in Layers : touched[l] <= Tip

\* max_active_runs = 1: one DagRun at work at a time.
OneAtATime == \A b, c \in Builds : ~Over(b) /\ ~Over(c) => b = c

\* A run that was never started has left nothing; one that was has its branch
\* cut from a commit, and shows no date the prepared layer did not have there.
OpenedSane(b) ==
  /\ pc[b] = "idle" <=> opens[b] = 0
  /\ opens[b] = 0 => /\ runInput[b] = {} /\ MergesOf(b) = {}
                     /\ ~branch[b].open /\ cob[b] = 0
  /\ opens[b] # 0 => /\ branch[b].base \in 1 .. Tip
                     /\ DatesOf(branch[b].reporting) \subseteq DatesOf(PreparedOn(b))

\* A merge that is still possible has not been made since the run was started.
MergesCounted(b) ==
  /\ Cardinality(MergesOf(b)) <= opens[b]
  /\ pc[b] = "models" \/ (pc[b] \in {"ready"} \union Publishing /\ Mergeable(b)) =>
       Cardinality(MergesOf(b)) < opens[b]

\* A layer shows, for the latest date a build read, the Deliveries it read.
ShowsLatest(read, layer) ==
  OnDate(layer, LatestDate(read)) = OnDate(read, LatestDate(read))

\* Where the publish task has got to: a try is left to begin, what it read is its
\* branch's, only a date it knows is pinned, and that once the branch is gone,
\* and between merge and pins `main` shows its layer.
PublishSane(b) ==
  /\ pc[b] \in {"models", "ready"} => tries[b] < MaxTries
  /\ cob[b] # 0 => inputs[b] = PreparedOn(b) /\ cob[b] = LatestDate(PreparedOn(b))
  /\ pc[b] = "pin" /\ todo[b] # {} => cob[b] # 0
  /\ pc[b] = "inputs" => cob[b] = 0
  /\ pc[b] = "gate" /\ cob[b] # 0 => branch[b].open
  /\ pc[b] = "pin" => ~branch[b].open
  /\ pc[b] \in {"ready"} \union Publishing => ShowsLatest(PreparedOn(b), branch[b].reporting)
  /\ pc[b] \in {"drop", "pin"} =>
       MergesOf(b) # {} /\ Current.reporting = branch[b].reporting

\* All that a run started once says is about the latest date it read.
FirstRunSane(b) ==
  opens[b] = 1 =>
    /\ runInput[b] \in {{}, PreparedOn(b)}
    /\ \A i \in MergesOf(b) : ShowsLatest(PreparedOn(b), main[i].reporting)
    /\ \A g \in tags : g.run = b =>
         /\ g.date = LatestDate(PreparedOn(b))
         /\ g.commit \in 1 .. Tip
         /\ ShowsLatest(PreparedOn(b), main[g.commit].reporting)
    /\ \A rep \in Reports, d \in Dates : \A n \in 1 .. Len(versions[rep][d]) :
         versions[rep][d][n].run = b => d = LatestDate(PreparedOn(b)) /\ ~branch[b].open

\* What the gate found of a date stays true until the run has pinned it: it
\* has been open since the version in force, or its inputs, as far as the
\* registry knew them, are that version's.
OpenSince(rep, d, v) == \E k \in v.at .. Len(log[rep][d]) : ~Closes(StateAfter(rep, d, k))

GateHolds(b) ==
  pc[b] \in {"merge", "drop", "pin"} /\ cob[b] # 0 =>
    \A rep \in Restate :
      LET d == cob[b]
          rows == versions[rep][d]
          inForce == rows[Len(rows)]
      IN  rows # <<>> /\ inForce.run # b =>
            \/ OpenSince(rep, d, inForce)
            \/ OnDate(runInput[inForce.run], d) \intersect known[b]
                 = OnDate(inputs[b], d) \intersect known[b]

\* A version was allocated at some moment of the lifecycle's history.
VersionsDated ==
  \A rep \in Reports, d \in Dates : \A n \in 1 .. Len(versions[rep][d]) :
    versions[rep][d][n].at <= Len(log[rep][d])

BuildInv(b) ==
  OpenedSane(b) /\ MergesCounted(b) /\ PublishSane(b) /\ FirstRunSane(b) /\ GateHolds(b)

IInv ==
  /\ TypeOK
  /\ CommitsSane /\ TouchedSane
  /\ OneAtATime
  /\ \A b \in Builds : BuildInv(b)
  /\ VersionsDated
  /\ PublishedIsOnMain
  /\ OnePublicationOneVersion
  /\ RestatedOnlyWhenOpen
=============================================================================
