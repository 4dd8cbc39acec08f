# Formal models of the reporting platform

TLA+ modules for the parts of this repository where the order of steps matters:
who may write `main`, what a retry repeats, what a tag or a registry row may
claim. TLC checks small instances; TLAPS proves theorems for every value of the
constants. Paths below are relative to the repository root
(`rp/` abbreviates `reporting_platform/`).

## 1. The system

Files reach object storage, become rows in Iceberg tables under a Nessie
catalog, are built by dbt into a prepared and a reporting layer, and are
published as pinned, numbered report versions. Postgres holds registries about
all of it. Airflow runs the steps; nearly every step has a command line as well.

| Component | State it keeps | Operations | Talks to |
|---|---|---|---|
| Transport publication (`reporting_transport/`) | objects and a completion marker, create-only | `publish_transport` | the pipeline finds the marker |
| Transport pipeline (`rp/ingest/transport*.py`, `delivery.py`, `normalization.py`; DAGs `transport_watch`, `transport_reconcile`, `transport_ingest`) | DeliveryManifest, archive, NormalizationManifest; `registry.transport_receipt` | validate, deliver, normalize, reconcile | raw ingestion |
| Inbox and landing (`rp/ingest/inbox.py`, `arrival.py`, `normalize.py`) | files in the inbox, `landing/`, `ready/`, quarantine | sweep, promote, normalize | raw ingestion |
| Raw ingestion (`rp/ingest/ingest_feed.py`, `rp/common/nessie.py`, `rp/ingest/steps.py`) | raw tables on `main`, `ingest/*` branches, snapshot tags, `registry.delivery_committed` | one try: ledger, branch, version, checks, append, merge, record, pin | prepared builds |
| WAP publication (`rp/transform/wap.py`, `airflow/dags/dbt_builds.py`, `dbt/`) | `build/*` branches, the prepared and reporting layers, published tags | open_build, build, publish, fail_build | run registry, lifecycle |
| Run registry (`rp/registry/runs.py`, `inputs.py`, `db.py`) | `run`, `run_input`, `report_version`, `submission` | open_run, record_inputs, allocate_version, record_submission, finish_run | lifecycle |
| As-at lifecycle (`rp/registry/lifecycle.py`) | `as_at_transition` | lock, reopen, submit; check_publishable | publish asks it |
| Delivery registry (`rp/registry/deliveries.py`) | `delivery`, `delivery_part`, `delivery_committed` | register, reconcile, record_committed | lifecycle joins it |
| Retention (`rp/retention/`) | expires references, rows, snapshots, files | the nightly chain, deferred deletes | everything that pins |
| Maintenance (`rp/maintenance/`) | table files | compact, rewrite | raw tables, under the pool |
| Calendar (`rp/common/calendar_rules.py`) | none | keep_set, expire_set | retention, the poll |
| Monitoring (`rp/monitoring/`) | none: reads the registries, Raw, Airflow and the GC's database | completeness, lateness, feed status, watchdog, reproducibility, evidence | a person |
| Feed registry and console (`rp/ui/`, `rp/config/`, `rp/common/context.py`) | `feeds/<name>.yml`, conventions, the dbt files scaffolded from them | forms, scaffold, delete; edits by hand | every other component resolves its feeds from it |
| Console jobs (`rp/ui/jobs.py`, `feedtest.py`) | jobs, their processes and branches | start, cancel, deadline | dbt |
| Migration, lineage, adapters | none, or derived | comparisons, extraction, process launching | |

What is hard in each, and what makes it correct:

* **Raw ingestion.** A try is a sequence of remote calls, any of which may be
  the last; tries of one run, of several runs and of the command line interleave
  unless they hold the `lakehouse_write` pool. `_file_version` is an unlocked
  MAX+1, and dbt keeps the newest one. Correct means: versions unique and
  increasing, nothing refused on `main`, a Delivery once, tags and registry rows
  true.
* **Publication.** Read inputs, ask the lifecycle, merge, delete, tag, number,
  close, retried as a whole, while people lock and submit dates. Correct means:
  one merge and one version per publication, what is recorded is what was
  merged, a closed date is not restated behind its lock.
* **Transport publication and pipeline.** Two producers, retries, lost and
  repeated events, receipts written by two paths. Correct means: a marker never
  describes bytes that are not there, a receipt never hides a failure.
* **Retention.** Deletion in a fixed order by rules about live references.
  Correct means: nothing pinned is collected, and a kept date stays kept.
* **Inbox and landing.** Files that are still being written, files sent again,
  containers, control files that come late; several puts, moves and a trigger
  after each other, any of which may be the last. Correct means: nothing leaves
  the inbox before it landed, one name per delivery, nothing forgotten.
* **Console.** A form is filled from one state and saved over another, and the
  loader takes all feeds or none. Correct means: a save harms no other feed, and
  says what the form said.
* **Monitoring.** What is read changes while it is read, and two checks divide
  one silence between them. Correct means: no false gap, no verdict taken back,
  no silence while nothing is reclaimed.

## 2. The modules

| Module | Models |
|---|---|
| `RawLedger` | the abstract promise of the raw layer: batches arrive newer than their date's, leave by whole dates |
| `RawIngest` | a try of raw ingestion, step by step, with crashes, lost replies, housekeeping |
| `RawIngest_proofs` | the inductive invariant of `RawIngest` and the theorems from it |
| `Publication` | reporting builds, `publish`, the run registry and the as-at lifecycle together |
| `Handover` | the abstract promise of a Transport: evidence appears once, whole, and never changes |
| `TransportPublish` | producers that publish one Transport: create-only objects, confirmation, marker last |
| `Carriage` | the abstract promise of the pipeline: one contract per Transport, chosen once; planned and landed under it, once |
| `TransportPipeline` | the steps of `transport_ingest` and of the CLI, their evidence and receipts, the watch and the reconciling walk |
| `Transport_proofs` | the inductive invariants of both, the theorems from them, and that they implement `Handover` and `Carriage` |
| `Publication_proofs`, `Landing_proofs`, `Housekeeping_proofs`, `Inbox_proofs`, `Monitoring_proofs`, `Console_proofs` | the inductive invariants of those modules and the theorems from them |
| `Inbox` | the watcher over the inbox, the conformance gate and promotion |
| `KeepRules` | the keep-sets of `calendar_rules.py` |
| `Landing` | `landing/`, `ready/`, the ingest DAG without a Transport, the registry's reconcile, and their nightly expiry |
| `Housekeeping` | the nightly chain over references, rows, snapshots and storage beside ingests and builds, with the reproducibility and evidence checks |
| `FeedRegistry` | resolution of the feed files, the load checks, the console's edits and the scaffold |
| `Jobs` | one background build: thread, process tree, deadline, cancel |
| `Console` | `FeedRegistry` and `Jobs` together: dbt parses what the scaffold wrote |
| `Clock`, `FeedMonitors`, `Watchdog` | time in ticks; completeness, lateness and feed status; the watchdog and the nights it watches |
| `Monitoring` | the two together: the night's trim of Raw is what completeness must not take for a gap |
| `MC...` | finite values for TLC |

### RawIngest

`main` is the sequence of its commits (`history`), each the whole content of
raw, so that a tag resolves to a state. A *batch* is the rows of one Delivery
under one `_file_version`, with the attempt that wrote them (`_batch_id`).
A run is a `transport_ingest` DagRun or a command-line ingest; `pc[r]` is the
step its current try is about to take:

| Action | Code |
|---|---|
| `Begin` | Airflow gives the task its slot (`airflow/dags/transport_ingest.py`) |
| `ReadHistory`, `Bootstrap` | `_bootstrap_main_if_empty`, `ensure_raw_table` |
| `CheckLedger`, `RecordNoop` | `already_ingested_delivery`, and its result |
| `CutBranch` | `Nessie.create_branch`, no `exist_ok` |
| `Refuse`, `AppendRows` | the checks of `_ingest_manifest`; `next_file_version` and the append |
| `Merge`, `MergeRefused`, `MergeReplyLost` | `_merge_ingest_branch`, `Nessie.merge` |
| `DropBranch`, `DropFails` | `delete_reference` after the merge |
| `RecordCommitted`, `RecordLost` | `record_committed_quietly` |
| `Pin`, `PinLost` | `steps.record_snapshot`, at the merge's `resultantTargetHash` |
| `Crash` | the worker dies or a call raises, anywhere in the task |
| `Expire`, `Touch` | `apply_table_retention`; `compact` and `migrate-raw` |
| `ReconcileCommitted` | `reconcile-committed` |

Nessie is outside this repository and modelled from how the code uses it: a
merge is atomic, and in its NORMAL mode is refused if the table's key changed on
the target since the branch was cut (`touched[t] > base[r]`).

### Publication

A layer is the set of Deliveries whose rows it shows. `Newest` is
`dedupe_rank` for full snapshots, `Rewritten` is `incremental_window` with
`insert_overwrite`: dates inside the lookback are rewritten whole. The registry
tables are `status`, `runInput`, `versions` and `log`; `registered` is
`registry.delivery`, and `known` remembers what it held when a build's gate
compared two sets of inputs.

| Action | Code |
|---|---|
| `OpenBuild` | `wap.open_build`, `runs.open_run`; a cleared DagRun repeats it under the same run id |
| `Build`, `BuildFails` | dbt on the branch |
| `BeginPublish` | the publish task gets the pool slot, first or second try |
| `ReadInputs`, `InputsUnread` | step 1 of `wap.publish`, `record_inputs` |
| `Gate` | step 1b, `check_publishable` for every report |
| `Merge`, `MergeRefused`, `MergeReplyLost`, `DropBranch` | step 2 |
| `PinReport` | step 3 for one report: `create_tag`, `allocate_version`, each may fail |
| `Finish` | step 4, `finish_run` |
| `KeepFailedBranch` | the task of that name, which waits for the models only |
| `Lock`, `CheckReopen`, `Submit`, `WriteTransition` | `lifecycle.transition`: its reads and its insert are separate, and a submission's transition is a second transaction |
| `Arrive`, `PublishPrepared` | the surroundings: a raw merge, whose row in `registry.delivery` may be lost (`register_quietly`); a prepared build's merge |
| `Reconcile` | `deliveries.reconcile`: the rows that were lost are written |

Abstracted: the artifact check (step 0), deployment provenance, the note a
carried-forward report leaves on the run, and the partly unreadable input set
(all or nothing here). The gate is one step over the reports: it reads only.

### TransportPublish

The store is `objects`, one key per file, and `marker`, `_COMPLETE.json`. The
local side of a producer is `content` and `stamp` per file: a content stands for
its bytes and their SHA-256 alike (equal digests, equal bytes), a stamp for
size and mtime, and a rewrite always changes it. `stage[p]` is the step a call of
`publish_transport` is about to take; what a call that raised knew is gone.

| Action | Code |
|---|---|
| `Begin` | the call, with its files in `_ordered_local_files` order; again after a failure |
| `LookUp` | `publish_object`: stat, `object_exists` |
| `ReadFile` | `_HashingReader` around the upload, or `_hash_path` |
| `Put`, `PutReplyLost` | `put_object` or `complete_multipart_upload` with `IfNoneMatch: *` |
| `Confirm` | `_confirm_durable`, `_try_cheap_verify`, `verify_object_evidence` after an upload |
| `Guard`, `GuardReuse` | `_guard_mutation` |
| `ConfirmReuse` | `_confirm_durable` of an object that was there |
| `FindMarker`, `PutMarker`, `MarkerReplyLost`, `Compare` | the marker: HEAD, create-only put, `_require_same` |
| `Crash` | the process dies, or a call raises; an unfinished multipart upload is no object |
| `Rewrite` | outside: a local file changes |

A put whose answer carries the store's own checksum is not read back
(`Put` to `guard`), any other is (`Put` to `confirm`): which of them a store does
is left open. The parts of a multipart upload are invisible before completion,
so the upload is one step. `Conditional` says whether the store honours
`IfNoneMatch`.

### TransportPipeline

Evidence is modelled by the feed contract it was written under: `delivery[t]` is
the snapshot a DeliveryManifest carries, `plan[t]` the one its
NormalizationManifest was made by, `raw[t]` the one its rows were checked
against. `NoIdentity` and `FailsChecks` say which contracts cannot place a
Transport and which ones a blocking Raw check refuses it under. Every Transport
has two runs, the DagRun `transport__<id>` and the command line.

| Action | Code |
|---|---|
| `Publish`, `AgesOut`, `EditFeed` | outside: the producer, the window of the walk, who edits the feed |
| `WatchDiscovers`, `WatchTriggers` | `transport_watch`: `record_discovered_quietly`, `trigger_transport`; a DagRun of that id is not started twice |
| `Call` | `python -m reporting_platform.ingest transport` |
| `Validate` | `validate_transport` and its receipt |
| `ReadDelivery`, `PutDelivery` | `create_delivery`: the manifest that is there, or the feed as it is now and a create-only put |
| `PutParts`, `PutPlan` | `normalize_delivery`: members into `ready/`, then the manifest, `_put_identical` |
| `Record` | `record_stage_quietly` after the step; then the next task |
| `IngestRaw`, `Finish` | `ingest_raw`: there already, or checked and merged (inside: `RawIngest`) |
| `RefuseDelivery`, `RefuseRaw` | `is_refusal`: the task fails and is not retried |
| `Fail` | any other exception or death, before or after the effect; the DAG tries the task again |
| `List`, `Read`, `CannotRead`, `Report` | `report_pending`: the listing, each marker's evidence read at its own moment |
| `SyncDiscovers`, `SyncAdvances` | `sync_receipts`, from that report |
| `CheckRaw`, `TriggerPending` | `raw_pending` and the DAG's trigger task, beside the sync |
| `TaskFails`, `EndWalk` | a task of the walk fails for good; the walk is over |

`Quietly` is a registry write that may be lost. The receipt is written by
`Discovered`, `Staged` and `StagedByDelivery`, the three statements of
`registry/transports.py`, with the `stage_rank` condition of their `WHERE`.

### Inbox

A file of the inbox is its bytes and whether its sender has finished; `seen` is
the watcher's count of unchanged observations, `job` the file `_promote` is at,
with the outcomes it planned. A control file under its landing name is claimed by
its feed but parses as no delivery, so that for a feed with an arrival block it
goes through the gate (`Conformant`): it waits for a control file of its own where
the feed has `arrival.control`, and is refused where it has not. A landing key is a feed, a date and a version, and
holds data, metadata and a control file, each put on its own.

| Action | Code |
|---|---|
| `Drop`, `Finish` | outside: a sender writes under a name that is free, and finishes |
| `StartPass`, `Observe` | `main`'s loop and `sweep`'s stability rule |
| `RejectName`, `HoldControl`, `LandConformant`, `Promote` | `sweep` once a file is stable, by `route`; `Promote` plans every outcome |
| `Waiting`, `Duplicate`, `Refused`, `Write` | the four branches of `_promote`'s loop; `Puts` lists the puts that took effect when one failed |
| `Stay`, `MoveFile`, `MoveSibling`, `Trigger` | where the inbox copies go, and the DagRuns asked for after it |
| `Crash` | the watcher dies; `seen` is in memory only |

What `conform`, `control` and `sniff` read out of bytes is the constants `Says`,
`Members`, `NameDate`. A pass looks at the files in the order of their
names (`Next1`), and a container's members are planned one after the other, each
with the names given before it taken (`MemberPlans`). `by` says who gave a name:
the sender, or the gate, and of the gate's whether it was `unsure` (what landed
could not be read) or left a `gap` (an earlier put of the container failed).

Assumed: a write that has paused is not quiet for `STABLE_POLLS` observations;
nobody rewrites a name that is still in the inbox; the members of a container in
the run differ; `MaxVersion` stands for the 99 versions the gate will name.
Expiry of `landing/` is not in this module but in the next: after it, bytes sent
again are new to the gate, as they are to the code.

### Landing

| Action | Code |
|---|---|
| `Land`, `LandControl`, `RunByHand` | a put into `landing/`, by an agent that triggers or does not; a control file of its own; a run without a key |
| `StartRun`, `Resolve`, `Normalize`, `Ingest` | the tasks of `feed_ingest`, `find_pending` in `Pending`, one active run |
| `ExpireRaw`, `SweepLanding`, `SweepReady`, `ReconcileRegistry`, `NightFalls` | the steps of `platform_housekeeping` that touch these |

A sweep deletes object by object, as they are listed, and may be cut short after
any of them; `ready/` loses the parts of an orphan, a manifest whose landing object
is gone, before the manifest itself. Between the two a manifest is without its
parts, so `PartsUntilIngested` excepts orphans: what it says is that nothing else
ever makes a manifest a promise that cannot be kept. `KeptDates` is by Raw's own
rules: `find_pending` reads `keep_days` and `keep_month_ends` but not
`keep_month_ends_years`, which `expire_set` would take and no environment of
`retention.yml` sets. When `landing/` is
empty `find_pending` knows no dates and returns every fresh manifest, as the code
does; `PollNeverRevives` excepts it. Parts extracted without a manifest whose
delivery has left `landing/` are swept by nothing; no property is about them.

### Housekeeping

A data file is a writer and a generation, a reference the set of files of its
head. `night` is the step of the chain that is next; every step may fail, wholly
or for some of its items (`FaultIf`).

| Action | Code |
|---|---|
| `Ingest`, `RecordSnapshot`, `OpenBuild`, `Build`, `Publish` | what the chain must not harm |
| `NightFalls`, `Maintain` | the schedule; compaction of recent partitions |
| `SweepBranches`, `ExpireTags`, `CollectGarbage`, `DeleteDeferred`, `ExpireRows`, `SweepLanding`, `SweepOrphans` | the chain of `retention.run`, in its order |
| `Evidence`, `Reproducibility` | what the two checks answer, from the state |

Ages count nights. Assumed: an ingest lands on its date; the tries of
`record_snapshot` end before a second night; files of a task that has not
committed are not seen by the sweeps because both hold the write pool; a merge
conflict disables the action; a branch nobody wrote to is not swept; the registry
is reconciled; of a set recorded twice the earliest record counts. Nessie's GC is
outside the repository: files no live reference names are listed, and deleted by
a later pass that looks again.

### FeedRegistry, Jobs, Console

One write of one file is one step. `Block` is what a save leaves out because it
equals what would be inherited, `Rewritten` the update of a file that keeps what
the form does not manage, `Valid` the form's checks, `Loads` the loader's. A
`Chain` is a convention with its parents, the nearest first, which never comes
back to itself (`ChainsEnd`: the loader raises for a cycle). A block may be
written tersely (`Spelled`): the resolver fills in its defaults (`Resolve`), the
form shows and posts it filled in, and a save compares that with what the
convention has written. `others` is what a form was checked against, and `owed`
the sources a request reported it could not declare, or lost to another one. A
control name is a stem and a suffix; `Claims` is the door's question,
`Distinguishable` the loader's check of one sample per feed.

| Action | Code |
|---|---|
| `OpenForm`, `Submit`, `Merge`, `Write`, `Answer` | a create or update request, in the order it reads and writes |
| `ReadDocument`, `WriteDocument`, `WriteModel`, `StepFails`, `Proceed` | the scaffold's steps, each of which may raise |
| `Rescaffold`, `Delete`, `Remove` | the other requests |
| `EditConvention`, `EditFile` | people |
| `Ask`, `Register`, `OpenBranch`, `Spawn`, `Attach`, `OutputEnds`, `DeleteBranch`, `BuildFailed` | the life of a job on its thread |
| `Deadline`, `Cancel`, `Terminate`, `Kill` | the two stoppers, SIGTERM, grace, SIGKILL |
| `ConsoleRestarts` | a restart of the container |

A process tree ignores SIGTERM whole, by its leader or by its children alone, or
not at all; its children may outlive the leader (`lingers`). Assumed: nobody edits
a file by hand between an update's read and its write.

### Clock, FeedMonitors, Watchdog, Monitoring

A tick is six hours, a day has four, a feed's deadline is 07:00 and the night
starts at 22:00. The monitors read only, so each is an operator of the state
(`Missing`, `Late`, `Status`, `Alerts`); the actions are what changes it:
`Receive`, `Fail`, `Arrive`, `Ingested`, `Trim` for the feeds, `StartRun`,
`RunFails`, `Wedge`, `Sweep`, `DeferredDeletes`, `Report` and their surroundings
for the nights, with `Migrated`, `Parsed`, `Unparsed` and `TablesLost` for a
platform that is coming up (`fresh`), a DAG whose file is gone and a GC database
made anew. `Missing` reads at one instant; `completeness.run` reads feed by feed
and `build_report` three registries on connections of their own, so a feed read
before an ingest that a feed read later corroborates is outside the model. A Nessie
or a warehouse out of reach alerts whatever else is so, and is left out.
Assumed: 48 h without a success, 6 h for a run to be stuck; the deferral window
(`review`) is dev's 6 h or uat's 48 h in the run and any in the theorems; a run that
is not stuck ends within `RunTicks`; a date in time comes free, everything else is counted by a budget; a
failure its task's retries cured is none; no catching up of missed nights.

## 3. Runs

| Run | Question | Bounds | States |
|---|---|---|---|
| `RawPooled` | the platform as deployed: two triggers of one Delivery, another date, a refused Delivery on another feed, all pooled, with the housekeeper | 2 tries, 1 fault, 1 housekeeping commit | 364,890 |
| `RawUnpooled` | two Deliveries of one date with no pool between them: conflict rule, tags, the abstract ledger, and liveness | 3 tries, 1 fault | 4,045 |
| `PubGate` | two builds of one date, a restated Delivery, one operator's locks, submissions and reopenings | 2 tries, 1 fault, 2 transitions | 1,309,598 |
| `PubCleared` | one DagRun cleared and run again, two reports, liveness | 2 tries, 1 fault | 148,077 |
| `PubRerun` (violated) | is a moved closed date refused when the build is a cleared DagRun? | no fault | to the violation |
| `TransportRace` | two producers of one Transport of two files, alike or not: what the marker says, who gets through | 2 tries each, 1 fault, 1 rewrite | 234,298 |
| `Pipeline` | one Transport, an archive, its DagRun, the CLI, the watch and the walk: evidence, receipts, and that the walk alone is enough | 2 tries, 2 events | 286,736 |
| `Inbox` | a file with a control file, a container, a conformant name and one nobody claims, resent or corrected | 3 files written, 3 versions, 1 failed call or death | 350,671 |
| `Landing` | three deliveries of two months: one nobody triggers, one the registry cannot describe, one that waits for its control file | 4 days of arrivals, 1 fault; nights go on | 246,986 |
| `Housekeeping` | two dates in two months, a build about each, every window a day or two | 5 days of dates, 1 fault; nights go on | 571,107 |
| `Console` | two feeds whose control files may collide, a convention people edit, and a build | 2 forms, 2 edits, 1 raising step, 1 build; `Spent` says which together | 598,145 |
| `Monitoring` | a daily and a weekly feed on faultless nights, or nights with two faults | 21 ticks, 2 deliveries a date, 1 budgeted event, 2 faults | 464,268 |

Why the bounds suffice for the question asked: every interaction the properties
speak of is between two runs (or a run and the housekeeper, or a run and an
operator) about one table key or one date, so two of each with one fault in any
place give every pairwise interleaving; a third try is there where a fault and a
conflict can use up two. What two actors cannot show is what the proofs are for.

`TransportRace` starts the first producer with `c1` and `early`: contents are
compared per file only, observations with each other only, so any other start is
one of these renamed.

In `Pipeline` an *event* is a CLI call, an edit of the feed, a lost registry
write, a marker that cannot be read or a failed task of the walk: any two of
them, in any order, in any place. Transports share nothing but the walk and the
feed's contract, so one Transport shows what can happen to it. Step failures are
bounded by the tries alone. The feed does not start as the contract that fails
the checks: an edit makes it so.

In `Inbox` names do not share landing keys (where they do, see `InboxResend`
below), so three writes are a first delivery, the same or another again, and its
control file; six names are one for each way a file is routed. In `Landing` and `Housekeeping` dates and faults are bounded and
nights are not: ages saturate one night past the longest window. In `Housekeeping`
the windows are kept so short that each of them ends while the others are still
open. In `Console` what one behaviour may
spend is chosen at its start (`Spent`): two requests at once, or one with an edit by
hand and something that fails, or one thread's two forms and an edit, or one form
and a build. In `Monitoring` a behaviour is about the feeds or about the nights.

Of a hazard a run shows one side where the other is left to a configuration
below or to a theorem: `Pipeline` has one Transport, `PubCleared` one build, and in
`Housekeeping` every commit time can be read (`Undated = {}`), so the fallback to
the COB date is not exercised there.

**Fairness.** The fair specifications assume weak fairness of each run's own
next step: Airflow schedules the tasks of a DagRun that was started, and gives
the next try to a failed one while it has any; a command-line or bulk ingest has
one (`TriesOf`), and `GoodDeliveriesArrive` speaks of the pooled DagRuns, which have
three. A producer that failed is called
again while it may be ("safely retryable"). In `TransportPipeline` the scheduler
runs the tasks of a triggered DagRun and the walk every 20 minutes (`Reconcile`,
without the sweep over all of `received/`); `Settles` holds although the watch
may never look and the CLI may never be called. In `Inbox` the watcher loops for
ever and a sender finishes what it writes. In `Landing` and `Housekeeping`
Airflow runs what was asked for and the nightly schedule, and nothing says that a
build is ever finished; `PollsDeliver` assumes in its own statement that somebody
keeps asking. In `Console` the threads and timers of a job run; nothing makes dbt
end, the deadline does. Nothing is assumed of faults, operators, arrivals or
housekeeping elsewhere. A run waiting for the pool does not need strong fairness
because its holders end. `CHECK_DEADLOCK FALSE` is set where runs end and nobody
has to type anything, and in `Console` and `Monitoring`, whose bounds end the
behaviour; the watcher, the nights and the walk of the reconcile never end.

Each property is also run against a mutated definition (`PROJECT.json`,
"mutants": a dropped ledger check, a forced merge, a tag at the head, a keep rule
one date short), which TLC must find to violate it. The type invariants
(`TypeOK`, and `IInv` where there is one) hold of these instances too; the runs
spend their time on the other properties.

### What the code does not keep

`PubRerun` is a run because it is a bug of the code under its own documented
rule: `record_inputs` overwrites the gate's own baseline when a published run is
run again (`wap.py:184`, `ARCHITECTURE.md:875`).

The other disagreements met while modelling are in `PROJECT.json`, "findings",
each with the sentence it contradicts. Those a model reaches can be reproduced,
with a configuration beside the modules or one changed in a line or two:

| Configuration | Violates | What happens |
|---|---|---|
| `RawTwice.cfg` | `DeliveredOnce` | outside the pool, the ledger check alone does not prevent a double append |
| `PubOlderDate.cfg` | `MovedClosedDateIsRefused` | the gate asks about the latest COB date, the build rewrites the lookback window |
| `PubReopen.cfg` | `SubmittedReopensNeedOwner` | submit, lock, reopen needs no approver |
| `TransportUnconditional.cfg` | `MarkerIsTrue` | on a store without `IfNoneMatch` a confirmed file may be replaced before the marker |
| `PipelineRefusal.cfg` | `DeliveryRefusalIsFinal` | a lost race for the DeliveryManifest is taken for a refusal |
| `InboxResend.cfg` | `MovesWhatLanded` | a landing name overwritten by a sender keeps the md5 of what the gate put there |
| `InboxGap.cfg` | `ResendsAreNotVersions` | a member whose put failed leaves its version free; the one that landed behind it, sent again, takes it and is never compared |
| `Inbox.cfg` with `Files = {zip}`, `DoorControls = {}`, `Sent <- MCSentUnnamed`, no faults | `Settles` | a container none of whose members can be named stays, and is quarantined on every pass |
| `LandingBlocked.cfg` | `UnblockedIsIngested` | a refused delivery at the head is what every keyless DagRun takes |
| `Housekeeping.cfg` with `Undated = {b1}`, no faults | `PublicationsKept` | the COB date as a fallback for the commit time makes a tag older |
| `Housekeeping.cfg`, no faults | `EvidenceOutlivesPins` | two windows of one length that start at different moments |
| `JobsTwice.cfg` | `OneBuildAtATime` | the check and the registration of a job are two steps |
| `Console.cfg` | `DeadlineEnds` | a leader that has gone cannot be signalled, its children keep the job running |
| `Console.cfg` | `StoppedIsFailed` | a cancel that meets a build ending well is answered, and the job succeeds |
| `Console.cfg` with `SPECIFICATION Spec` | `EverySaveLoads` | two forms checked against registries without each other |
| the same with one thread, `ByHand = {"delivery"}` or `{"arrival"}` | `EverySaveLoads` | gates that are incoherent, or claimed twice, only with what the convention supplies |
| `Console.cfg` | `ModelsHaveSources` | a model whose source could not be written |
| `WatchdogJitter.cfg` | `QuietWhenWell` | a window of whole nights, and a pass a moment before it ends |
| `StatusWeekly.cfg` | `DeliveredIsShown` | a weekly feed's delivered date is shown as not expected |

`EverySaveLoads`, `ModelsHaveSources` and `DeadlineEnds` are `SavesKeepLoading`,
`BrokenParseIsAccounted` and `JobsEnd` without their exceptions: the run shows that
the exceptions are all there is. Three things in the console have no property
because the code keeps none: a form pins in a feed's file what a convention
changed while the form was open, or what the resolver filled into a block; a block
cleared in the form is inherited again where the convention supplies one
(`SavedIsServed` excepts it); and two feeds without a literal extension may claim
the same control file by its suffix, which the loader's samples do not find.

`Settles` of `TransportPipeline` says what happens to a Transport whose DagRun
failed: nothing, the walk finds its run id taken. It therefore has that as one of
its outcomes.

`RestatedOnlyWhenOpen` holds in `PubGate` where `MovedClosedDateIsRefused` fails
in `PubRerun` and `PubOlderDate`: its builds are of one date and are not cleared.
Those two are not the only ways round the gate. A build whose inputs could not be
read has no COB date and is merged unasked (it gets no version either, so no
property about versions sees it), and a Delivery `registry.delivery` does not hold
when the gate asks is on neither side of the comparison (`KnownOn`), as
`inputs_changed` says of itself. `RestatedOnlyWhenOpen` is therefore about the
Deliveries the registry knew at that moment (`known`). It excuses a restatement
whose date was open at some moment between the two versions, because a lock taken
after the gate cannot stop the merge.

`TagShowsRecordedInputs` excepts runs whose recorded inputs are empty, which is
what a try that could not read the branch leaves: the code calls that loss
acceptable. `MarkerIsTrue` does not depend on the guard against rewritten files:
the digest is of the bytes that were streamed. `RegistryConverges` excepts the rows
that one transaction's rollback takes with it.

## 4. Proofs

`RawIngest_proofs` proves, for all feeds, Deliveries, dates, runs, pools, fault
and housekeeping bounds satisfying `RawAssumptions`:

* `RawInvariant`: `Spec => []IInv`;
* from it `TypeCorrect`, `UniqueVersions`, `NewestWins`, `RefusedStaysOut`,
  `OnceUnderThePool`, `TagsNameTheirMerge`, `RegistryIsTrue`;
* `RawImplementsLedger`: `Spec => Raw!Spec`, with `rows <- Main` and at-most-once
  when every run holds the pool slot.

None of these properties is inductive alone. `VersionsUnique` needs to know that
the batch being merged is newer than all `main` holds, which needs that a branch
whose key is untouched since the cut still equals `main` (`BranchIsFresh`,
`AppendIsNewest`): Nessie's conflict rule turned into an invariant. The pool
theorem needs that what the ledger check found stays true while the slot is held
(`SlotIsExclusive`, `LedgerStaysTrue`). `TagNamesOwnMerge` needs that the hash
kept from the merge is of the commit that brought the try's own batch
(`MergeIsOwn`). TLC checks `IInv` on the instance of `RawUnpooled` as well.

The argument per action: actions that leave the catalog alone disturb only the
run's own conjuncts; the three that commit (`Bootstrap`, the merges, the chores)
go through one lemma about appending a commit to `history`. Assumptions on the
constants are `RawAssumptions` and nothing else; in particular `Runs` may be
infinite and `Versions` any set of positive numbers.

`Transport_proofs` proves two components. Of `TransportPublish`, for any
producers, files, contents and bounds satisfying `PublishAssumptions`, and under
the hypothesis `Conditional` (without it `MarkerIsTrue` is false):

* `PublishInvariant`: `PublishSpec => []PublishInv`;
* from it `MarkerIsAlwaysTrue`, `SuccessesAlwaysAgree`, `OneIsEverNew`,
  `MarkerDeclaresOwn`;
* `PublishImplementsHandover`: `PublishSpec => ImplementsHandover`.

`MarkerIsTrue` alone is not inductive: a marker is put long after the first file
was confirmed. What carries it is that nothing stored is ever replaced
(`StepGrows`) and, per producer, that what it has declared is stored
(`DeclaredIsStored`), that it has declared everything before it comes to the
marker (`ProducerProgress`), and that what it read was its own (`ReadsOwnFiles`). The
argument: what a step does to the store (`StoreStep`: nothing, one object under a
free key, or the marker); what the step does to its producer (`ProducerOwnStep`,
by action, through `ContinueEffect`, `FailEffect` and `DeclareEffect`); and that the
other producers are not disturbed (`StepIsLocal`, `OwnFrame`).

Of `TransportPipeline`, for any Transports, contracts, tries and
events satisfying `PipelineAssumptions`:

* `PipelineInvariant`: `Spec => []IInv`;
* from it `ReceiptsAreBacked`, `PlansAreWhole`, `SuccessesLanded`,
  `RawRefusalsAreFinal`, and the action property `ReceiptsNeverSlip`;
* `PipelineImplementsCarriage`: `Spec => Implements`.

None of them is inductive alone. A receipt is written after the step it records,
so `ReceiptHasEvidence` needs to know what a run has come past
(`RunsHaveEvidence`) and what the walk has seen (`WalkHasEvidence`);
`RawRefusalIsFinal` needs that all evidence of a Transport is of one contract
(`EvidenceAgrees`); both need that no evidence is replaced (`Grows`). The
argument: the four actions that make evidence (`EvidenceMakers`, `EvidenceStep`);
what a step does to its own run (`OwnStep`, `RetryEffect`) and that it disturbs no
other (`RunFrame`); who writes receipts, and that each leaves a sound one
(`SoundStays`, `StagedIsSound`, `RunReceipt`, `WalkReceipt`); the walk
(`WalkStep`). `ReceiptsNeverSlip` is about the three statements of the receipt
table alone (`WritesNeverSlip`) and that nothing else is written
(`ReceiptWrites`).

`Publication_proofs` proves, for any reports, dates, Deliveries, builds,
operators, tries and faults satisfying `PublicationAssumptions`:

* `PublicationInvariant`: `Spec => []IInv`;
* from it `TypeCorrect`, `MergesOncePerOpening`, `PublishedReallyIs`,
  `OneVersionEach`, `TagsShowTheirInputs` and `ClosedDatesStand`.

The last two are about what happened at different moments of a publication: what
was read, what the gate found, what was merged, what was numbered. The invariant
carries each to the next (`PublishSane`, `GateHolds`): a branch shows, for the
latest date its build read, the Deliveries it read (`ShowsLatest`); between merge
and pins `main` shows the branch; what the gate found of a date stays true until
the run has pinned it, because lifecycle rows are only appended and because one
DagRun is at work at a time (`OneAtATime`, from `max_active_runs`). Retries are
counted by `MergesCounted`: a merge that is still possible has not been made
since the run was last opened. `ClosedDatesStand` excuses, as the property does,
runs that were opened twice: that is the finding of `PubRerun`. What it says of a
Delivery it says as far as the delivery registry knew it when the gate asked: rows
may be lost and come late, and `known` keeps what was compared.

`Landing_proofs` proves, for any deliveries, keep rules, windows and faults
satisfying `LandingAssumptions`:

* `LandingInvariant`: `Spec => []IInv`;
* from it `TypeCorrect`, `NoDateIsLost`, `ManifestsAreWhole`;
* `NothingRevived`, where the keys of a feed sort by date (`KeysFollowDates`).

`ManifestsAreWhole` holds with every sweep deleting object by object and cut short
anywhere: parts are written before their manifest, and deleted before it only of a
manifest whose landing object is gone, which the property excepts.

`NoDateIsLost` rests on two facts about the keep rules. `StillKept`: a date that
one set keeps is kept by every set that has it and, after it, only dates the
first one has; so by every subset. `NightByNight`: expiring by
what is left is expiring by what there was, however often and in whatever steps.
Counting dates above a date is by cardinality, so the lemmas find greatest
elements by well-foundedness (`GreatestOfFinite`) and need no induction.
`KeysFollowDates` is needed: a sweep deletes in the order of the keys, and if it
is cut short among keys that do not follow the dates, a younger date can leave
`landing/` before an older one, which the poll then takes for one of the newest.

`Housekeeping_proofs` proves, for any ingests, builds, dates, windows, keep rules
and faults satisfying `HousekeepingAssumptions` and, for the invariant,
`TriesWithinCutoff` (the GC's cutoff is a night at least, so that the tries of an
ingest end within it):

* `HousekeepingInvariant`: `Spec => []IInv`;
* from it `TypeCorrect` and `NothingHeldIsLost`, which is `PinsReadable`;
* `DatedPublicationsKept`: a publication whose commit time can be read keeps its
  tag for its window; hence `PublicationsKeepTheirTags`, where all can
  (`Undated = {}`; otherwise it is the finding about the fallback);
* `NightsListTheirGarbage`, where `WindowsHold`, without which the chain stops.

A file is deleted nights after it was listed, so `PinsReadable` needs that what
is protected is never listed (`ProtectedIsSafe`), and that nothing listed becomes
protected again: files are written once and by writers the sweeps have not seen
(`FilesAreNew`), a branch is merged once and only onto a head its base agrees
with (`BasesAreOlder`, `MergedOnce`, `OneHome`), tables keep their newest date
(`TablesReach`), and an ingest's commit stays within the cutoff until it is
tagged (`UntaggedIsRecent`).

`Inbox_proofs` proves, for any feeds, routing, names, containers, number of files
and faults satisfying the assumptions of `Inbox`:

* `InboxInvariant`: `Spec => []IInv`;
* from it `TypeCorrect`, `LandedIsWhole` and the action property
  `EvidenceIsKept`;
* `OneNameForEach`, where the members of a container that are of one date differ
  (`DistinctMembers`);
* `GateMovesWhatLanded`: a file goes to `.processed/` only with every delivery it
  holds in `landing/`, but for members given up beside one that landed; of a
  promoted file as long as no sender has named a delivery of its feed;
* `MovedHasLanded`: `MovesWhatLanded` of every file, where senders name nothing
  (`SendersNameNothing`: no control file declares a version, and no feed has both
  landing names of its senders' and promoted files).

A plan is made once and carried out over many steps, in which other files may
not come between (one job) but puts may fail: `PlannedIsFree` says that what is
planned and not yet put is under names that are free in `landing/` and of no
outcome before it. Names do not repeat because the versions below a name have all
landed or are put before it (`NamesInOrder`, `NoGapPlanned`) and what is planned
is under none of them (`PlannedIsNew`); a put that fails breaks exactly this,
which is why later names of that container are a `gap` and why `InboxGap.cfg`
finds what it finds. Without `DistinctMembers` the second of two equal members
finds no md5 of the first, which is planned and not yet landed, and becomes its
next version. That the plan of a container exists, a recursive function over
its members, is shown by the least length for which it does not (`PlansExist`).

What moves is another invariant (`MoveInv`), about a job half done: each delivery
its file holds is landed, given up beside one that landed, or still to be dealt
with (`Accounted`). It starts true because a plan covers what the file owes, and
a duplicate, which is never written, counts as landed because the md5 that named
it one is of the data beside it (`MetadataMatches`). It stays true because a name
no sender gave keeps its bytes (`BodiesStay`). Both fail where a sender writes
over the gate's name, so the hypothesis is needed: that is `InboxResend.cfg`.
The run goes a little further than the theorem, one of its control files does
declare a version.

`Monitoring_proofs` proves, for any feeds, calendars, keep rules, windows,
scenarios and faults satisfying the assumptions of its modules:

* `TypeCorrect`, `GapsAreRealAlways`, `SilenceIsReclaimed`, and the action
  property `VerdictsStandAlways`;
* `AlarmsEarned`, where `RunsAreShort`: a day and a run fit the age allowed to the
  last success, and a run the time after which it is stuck. It holds for every
  review window, whole numbers of nights included.

A gap is real because of `Trimmed`: what was committed and is not in a table any
more has as many newer dates there as the lookback has, so it is outside the
window of every calendar of which that table is a part. It is inductive by the
trim keeping the newest (`NewestStay`) and ingests only adding. `AlarmsEarned` is
the schedule of nights that go well (`OnTime`) and what their passes leave
(`DeletedInTime`): whatever was of age when a run began is gone when it ends. What
came of age while it was at work is not, and the watchdog, which compares with the
run's end, takes it for left behind; with a window of whole nights that happens
every night (`WatchdogJitter.cfg`). `SilenceIsReclaimed` needs that a platform
which has never succeeded is never silent (`NothingYet`).

`Console_proofs` proves, for any feeds, conventions, keys, stems, threads, people
and builds satisfying the assumptions of `FeedRegistry` and `Jobs`:

* `TypeCorrect`, and `FormIsServed` (`Spec => FormServed`): after a save the feed
  serves each value of the form, or the convention's gate where the form has none;
* `SavedFormIsServed`: `SavedIsServed`, hand-tuned blocks included, as long as
  nobody deletes the feed of a form that is open (`NoneDeletedUnderForm`);
* `SaveKeepsLoading`: `SavesKeepLoading`, for any threads and conventions: the
  conditions are in the property, about the one save it speaks of;
* `BrokenParsesAreAccounted`: `BrokenParseIsAccounted`.

A form is filled in one state, checked in a second, merged in a third and
written in a fourth, while other threads save and people edit conventions. What
carries a property over them is, for a save, that the merged text would serve the
form under any conventions (`TextServes`), with the file's own hand-tuned blocks
(`TextKeepsHand`); for the loader, that what a form was checked against and the
form itself pass the loader's checks together (`CheckedForm`), and that dropping
feeds from a registry that passes leaves one that does (`FitsFewer`); for dbt, that
a request comes to its model only behind its source, declared or owed
(`DeclareInv`).

Only model-checked: liveness (`GoodDeliveriesArrive`, `BuildsEnd`,
`StableIsPublished`, `Settles`, `Drains`, `RegistryConverges`, `PollsDeliver`,
`GarbageGoes`, `JobsEnd`), which is beyond the prover: it rests on fairness and
so on ENABLED. Every invariant and action property the passing runs check is
stated by a theorem, some of them under the hypotheses named above. What the code
does not keep (section 3) is shown by counterexample.

## 5. Not modelled, and why

Raw: dry runs, the legacy part-key ledger, the rows themselves. A failed try's
Spark driver is taken to be dead before the next try starts. Publication: two
reporting builds at once (`max_active_runs=1`; a command-line build beside the
DAG), the prepared build's own publish, several operators' approvals.
Transport pipeline: what the byte-level validations look at, the delivery rows
written beside the manifest, manifests older than the normalization snapshot,
several feeds, a manual DagRun under a run id of its own (a CLI call does the
same steps). Transport publication: the parts of a multipart upload, a rewrite that leaves
size and mtime alone (the digest is of what was streamed all the same), the
parsing of the contract.
That a published tag is cut at the head of `main` and so, outside the pool, may
include a later commit is known to the project (`docs/todo`); inside the pool
`TagShowsRecordedInputs` holds.

Inbox: the parsing of control files, archives and names, and the diagnosis of
samples. Retention: dry runs, SCD2 tables, cutoffs that are not days, a disabled
GC, the sweep of the quarantine prefix. Console: the views and the sample data.
Monitoring: what only warns (old working branches, undeclared tables, a warehouse
that never changes size), a Nessie or a warehouse out of reach, and the wording of
bulk loads.

Not modelled at all: migration acceptance (one sequential comparison, started by
hand, with no state of its own), lineage (a static extraction from the dbt
project), and the Spark and Airflow adapters (process launching; what their
failure means is an action of the models).

## 6. Plan

Modelled and checked: all of the components above, as far as `PROJECT.json` says
of each. Proved: the safety properties of `RawIngest`, `Publication`,
`TransportPublish`, `TransportPipeline`, `Inbox`, `Landing`, `Housekeeping`,
`Monitoring` and `Console`, with the implementation of the three abstract
specifications. What is left, in order of what a mistake would cost:

1. Of `Publication`, what a prepared build's own publish may do to
   `TagShowsRecordedInputs`, once that publish is in the model.
2. Of `Inbox`, `GateMovesWhatLanded` name by name, not feed by feed: that a
   sender's name harms no delivery but the one it is of.
