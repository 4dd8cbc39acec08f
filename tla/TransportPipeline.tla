------------------------- MODULE TransportPipeline -------------------------
(***************************************************************************)
(* From a completed Transport to raw: transport_watch and                  *)
(* transport_reconcile find completion markers and start one               *)
(* transport_ingest run per Transport; that run, and an operator's CLI     *)
(* call next to it, take the steps of ingest/transport_steps.py (validate, *)
(* deliver, normalize, ingest_raw), each of which writes evidence that is  *)
(* created once and then, best effort, the Transport's receipt in the      *)
(* registry.  Meanwhile the feed's contract may be edited, a step may fail *)
(* before or after its effect, and the walk of the reconcile goes stale.   *)
(*                                                                         *)
(* A feed contract is an opaque value: what a DeliveryManifest snapshots.  *)
(* Evidence is modelled by the contract it was written under.  All         *)
(* Transports are of one feed.  What ingest_raw does inside is RawIngest.  *)
(***************************************************************************)
EXTENDS Integers, FiniteSets

CONSTANTS
  Transports,    \* TransportIDs that may be published
  Archives,      \* those of them whose data object is an archive
  Contracts,     \* what the feed's configuration may say
  NoIdentity,    \* <<t, c>>: under contract c, Transport t has no identity
  FailsChecks,   \* <<t, c>>: under contract c, a blocking Raw check refuses t
  None,
  MaxTries,      \* tries of a task: 1 + retries of DEFAULT_ARGS
  MaxEvents      \* bound: CLI calls, edits of the feed, lost registry writes,
                 \* reads and tasks of the reconcile that fail, in all

ASSUME PipelineAssumptions ==
  /\ Archives \subseteq Transports
  /\ None \notin Contracts
  /\ NoIdentity \subseteq Transports \X Contracts
  /\ FailsChecks \subseteq Transports \X Contracts
  /\ MaxTries \in Nat \ {0}
  /\ MaxEvents \in Nat

Workers == {"dag", "cli"}     \* the DagRun transport__<id>, and the CLI
Runs == Transports \X Workers

VARIABLES
  feed,        \* the feed's contract, as feeds() reads it now
  completed,   \* Transports whose _COMPLETE.json is there
  aged,        \* Transports outside the reconcile's window of COB dates
  delivery,    \* DeliveryManifest, per Transport
  parts,       \* Transports whose archive members are in ready/
  plan,        \* NormalizationManifest, per Transport
  raw,         \* rows on main, per Transport
  receipt,     \* registry.transport_receipt, per Transport
  pc,          \* per run, the step it is about to take
  try,         \* the try of the task it is at
  held,        \* the contract it works with inside a step
  walk,        \* transport_reconcile: the tasks it is at
  found,       \* its report, per Transport
  unread,      \* markers of the listing it has not read
  sync,        \* what sync_receipts has left to write, per Transport
  pending,     \* Transports trigger_pending is to start
  events       \* of those MaxEvents bounds, how many there were

evidence == <<delivery, parts, plan, raw>>
reconcile == <<walk, unread, found, sync, pending>>
world == <<feed, completed, aged, evidence>>
vars == <<feed, completed, aged, delivery, parts, plan, raw, receipt, pc, try,
          held, walk, unread, found, sync, pending, events>>

-----------------------------------------------------------------------------
(* The receipt: registry/transports.py.                                    *)

Stages == {"discovered", "validated", "delivered", "normalized"}

\* The stage's position in STAGES; -1 is that of no stage.
Position == [discovered |-> 0, validated |-> 1, delivered |-> 2, normalized |-> 3]

Rank(status) == IF status \in Stages THEN Position[status] ELSE -1

\* delivered: its delivery_id column is set.
NoReceipt == [status |-> "none", rank |-> -1, delivered |-> FALSE]

Discovered(r) ==
  IF r.status = "none"
    THEN [status |-> "discovered", rank |-> Rank("discovered"), delivered |-> FALSE]
    ELSE r

\* The WHERE of record_stage's UPDATE.
Accepts(r, status) ==
  /\ r.status # "none"
  /\ \/ status = "failed"
     \/ r.status = "failed"
     \/ Rank(status) >= r.rank

\* names: the call passes the delivery_id.
Staged(r, status, names) ==
  IF Accepts(r, status)
    THEN [status    |-> status,
          rank      |-> IF status = "failed" THEN r.rank ELSE Rank(status),
          delivered |-> names \/ r.delivered]
    ELSE r

\* record_stage_by_delivery_id finds the row by its delivery_id.
StagedByDelivery(r, status) ==
  IF r.delivered THEN Staged(r, status, FALSE) ELSE r

Event == events < MaxEvents /\ events' = events + 1

\* A quiet write: a registry that is away loses it.
Quietly(t, r) ==
  \/ receipt' = [receipt EXCEPT ![t] = r] /\ UNCHANGED events
  \/ UNCHANGED receipt /\ Event

-----------------------------------------------------------------------------
(* Runs.                                                                   *)

\* The task a step belongs to; a retry takes it again from the start.
Task(step) ==
  CASE step \in {"validate", "validated"}                  -> "validate"
    [] step \in {"deliver", "create", "delivered"}         -> "deliver"
    [] step \in {"normalize", "write", "normalized"}       -> "normalize"
    [] step \in {"ingest", "landed"}                       -> "ingest"

Active == {"validate", "validated", "deliver", "create", "delivered",
           "normalize", "write", "normalized", "ingest", "landed"}
Over == {"none", "failed", "undeliverable", "unlandable", "success"}

\* An effect is on record and only the step's receipt is left to write.
Recording == {"validated", "delivered", "normalized"}

Goto(r, step) ==
  /\ pc' = [pc EXCEPT ![r] = step]
  /\ try' = [try EXCEPT ![r] = IF step \in Active /\ Task(step) = Task(pc[r])
                                 THEN @ ELSE 1]

NoReport == [t \in Transports |-> "unseen"]

Init ==
  /\ feed \in Contracts
  /\ completed = {} /\ aged = {} /\ parts = {}
  /\ delivery = [t \in Transports |-> None]
  /\ plan = [t \in Transports |-> None]
  /\ raw = [t \in Transports |-> None]
  /\ receipt = [t \in Transports |-> NoReceipt]
  /\ pc = [r \in Runs |-> "none"]
  /\ try = [r \in Runs |-> 1]
  /\ held = [r \in Runs |-> None]
  /\ walk = "idle"
  /\ found = NoReport
  /\ unread = {} /\ pending = {}
  /\ sync = [t \in Transports |-> "done"]
  /\ events = 0

-----------------------------------------------------------------------------
(* The world around: the producer, the calendar, and who edits the feed.   *)

Publish(t) ==
  /\ t \notin completed
  /\ completed' = completed \union {t}
  /\ UNCHANGED <<feed, aged, evidence, receipt, pc, try, held, reconcile, events>>

AgesOut(t) ==
  /\ t \in completed \ aged
  /\ aged' = aged \union {t}
  /\ UNCHANGED <<feed, completed, evidence, receipt, pc, try, held, reconcile, events>>

EditFeed(c) ==
  /\ Event
  /\ c # feed
  /\ feed' = c
  /\ UNCHANGED <<completed, aged, evidence, receipt, pc, try, held, reconcile>>

-----------------------------------------------------------------------------
(* Starting a run.                                                         *)

\* trigger_dag with the run id transport__<id>: nothing, if there is a DagRun
\* of that id, however it ended.
Trigger(t) ==
  IF pc[<<t, "dag">>] = "none"
    THEN pc' = [pc EXCEPT ![<<t, "dag">>] = "validate"]
    ELSE UNCHANGED pc

\* transport_watch lists every marker; for each, it records the discovery if
\* it can and triggers whether it could or not, so the two are separate steps.
WatchDiscovers(t) ==
  /\ t \in completed
  /\ receipt' = [receipt EXCEPT ![t] = Discovered(@)]
  /\ UNCHANGED <<feed, completed, aged, evidence, pc, try, held, reconcile, events>>

WatchTriggers(t) ==
  /\ t \in completed
  /\ Trigger(t)
  /\ UNCHANGED <<feed, completed, aged, evidence, receipt, try, held, reconcile, events>>

\* python -m reporting_platform.ingest transport: markers named by hand, or
\* found pending by a listing that may be stale by now.
Call(t) ==
  /\ t \in completed
  /\ Event
  /\ pc[<<t, "cli">>] \in Over
  /\ pc' = [pc EXCEPT ![<<t, "cli">>] = "validate"]
  /\ UNCHANGED <<feed, completed, aged, evidence, receipt, try, held, reconcile>>

-----------------------------------------------------------------------------
(* The steps of a run r.  A step's first part has its effect, its second   *)
(* records the stage.                                                      *)

Of(r) == r[1]

Validate(r) ==
  /\ pc[r] = "validate"
  /\ Quietly(Of(r), Discovered(receipt[Of(r)]))
  /\ Goto(r, "validated")
  /\ UNCHANGED <<world, held, reconcile>>

\* A manifest that is there passes _parse_and_verify: it is compared with the
\* Transport, which does not change, and with its own snapshot of the contract.
HasDelivery(t) == delivery[t] # None

\* create_delivery: a manifest that is there is verified and returned as it
\* is; otherwise the feed is resolved, and the manifest is put create-only.
ReadDelivery(r) ==
  LET t == Of(r) IN
  /\ pc[r] = "deliver"
  /\ \/ /\ HasDelivery(t)
        /\ Goto(r, "delivered")
        /\ UNCHANGED held
     \/ /\ ~ HasDelivery(t)
        /\ <<t, feed>> \notin NoIdentity
        /\ held' = [held EXCEPT ![r] = feed]
        /\ Goto(r, "create")
  /\ UNCHANGED <<feed, completed, aged, evidence, receipt, reconcile, events>>

\* Mutant of PutDelivery: the put is not create-only.
PutDelivery_Overwrites(r) ==
  /\ pc[r] = "create"
  /\ delivery' = [delivery EXCEPT ![Of(r)] = held[r]]
  /\ held' = [held EXCEPT ![r] = None]
  /\ Goto(r, "delivered")
  /\ UNCHANGED <<feed, completed, aged, parts, plan, raw, receipt, reconcile,
                 events>>

PutDelivery(r) ==
  LET t == Of(r) IN
  /\ pc[r] = "create"
  /\ delivery[t] \in {None, held[r]}
  /\ delivery' = [delivery EXCEPT ![t] = held[r]]
  /\ held' = [held EXCEPT ![r] = None]
  /\ Goto(r, "delivered")
  /\ UNCHANGED <<feed, completed, aged, parts, plan, raw, receipt, reconcile,
                 events>>

\* _contract: that of an existing manifest, else the DeliveryManifest's
\* snapshot, never the feed's contract of today.
NormalizationContract(t) == IF plan[t] # None THEN plan[t] ELSE delivery[t]

\* The members of an archive are put before the manifest that lists them.
PutParts(r) ==
  LET t == Of(r) IN
  /\ pc[r] = "normalize"
  /\ held' = [held EXCEPT ![r] = NormalizationContract(t)]
  /\ parts' = IF t \in Archives THEN parts \union {t} ELSE parts
  /\ Goto(r, "write")
  /\ UNCHANGED <<feed, completed, aged, delivery, plan, raw, receipt, reconcile,
                 events>>

\* _put_identical: create-only, or the same bytes again.
Puts(there, body) == there \in {None, body}

PutPlan(r) ==
  LET t == Of(r) IN
  /\ pc[r] = "write"
  /\ Puts(plan[t], held[r])
  /\ plan' = [plan EXCEPT ![t] = held[r]]
  /\ held' = [held EXCEPT ![r] = None]
  /\ Goto(r, "normalized")
  /\ UNCHANGED <<feed, completed, aged, delivery, parts, raw, receipt, reconcile,
                 events>>

\* record_stage_quietly of the step's stage; the next step begins.
NextTask(step) == CASE step = "validated"  -> "deliver"
                    [] step = "delivered"  -> "normalize"
                    [] step = "normalized" -> "ingest"

Record(r) ==
  LET t == Of(r) IN
  /\ pc[r] \in Recording
  /\ Quietly(t, Staged(receipt[t], pc[r], pc[r] = "delivered"))
  /\ Goto(r, NextTask(pc[r]))
  /\ UNCHANGED <<world, held, reconcile>>

\* ingest-v2: nothing to do if raw has the Delivery, else its rows are checked
\* under the contract of the NormalizationManifest, and merged.
IngestRaw(r) ==
  LET t == Of(r) IN
  /\ pc[r] = "ingest"
  /\ \/ raw[t] # None /\ UNCHANGED raw
     \/ /\ raw[t] = None
        /\ <<t, plan[t]>> \notin FailsChecks
        /\ raw' = [raw EXCEPT ![t] = plan[t]]
  /\ Goto(r, "landed")
  /\ UNCHANGED <<feed, completed, aged, delivery, parts, plan, receipt, held,
                 reconcile, events>>

\* The result comes back; ingest_raw records no stage of its own.
Finish(r) ==
  /\ pc[r] = "landed"
  /\ Goto(r, "success")
  /\ UNCHANGED <<feed, completed, aged, evidence, receipt, held, reconcile, events>>

-----------------------------------------------------------------------------
(* Steps that do not succeed.                                              *)

\* The receipt after an exception: the CLI's validate does not know the id,
\* and ingest_raw finds the row by its delivery_id.
Failed(r) ==
  LET t == Of(r) IN
  IF Task(pc[r]) = "validate" /\ r[2] = "cli" THEN receipt[t] ELSE
  IF Task(pc[r]) = "ingest" THEN StagedByDelivery(receipt[t], "failed") ELSE
  Staged(receipt[t], "failed", FALSE)

\* is_refusal: the task fails once and is not retried.
Refuse(r, as) ==
  /\ pc' = [pc EXCEPT ![r] = as]
  /\ try' = [try EXCEPT ![r] = 1]
  /\ held' = [held EXCEPT ![r] = None]
  /\ Quietly(Of(r), Failed(r))
  /\ UNCHANGED <<world, reconcile>>

\* No feed or no identity, or another manifest was put first: DeliveryError.
RefuseDelivery(r) ==
  LET t == Of(r) IN
  /\ \/ pc[r] = "deliver" /\ ~ HasDelivery(t) /\ <<t, feed>> \in NoIdentity
     \/ pc[r] = "create" /\ delivery[t] \notin {None, held[r]}
  /\ Refuse(r, "undeliverable")

\* A blocking Raw check: SparkTaskRefused.
RefuseRaw(r) ==
  LET t == Of(r) IN
  /\ pc[r] = "ingest" /\ raw[t] = None /\ <<t, plan[t]>> \in FailsChecks
  /\ Refuse(r, "unlandable")

\* Any other exception, or the end of the process, before or after the effect;
\* once the effect is on record only the process can fail.
Fail(r) ==
  /\ pc[r] \in Active
  /\ IF pc[r] \in Recording
       THEN UNCHANGED <<receipt, events>>
       ELSE Quietly(Of(r), Failed(r))
  /\ IF r[2] = "dag" /\ try[r] < MaxTries
       THEN /\ pc' = [pc EXCEPT ![r] = Task(@)]
            /\ try' = [try EXCEPT ![r] = @ + 1]
       ELSE /\ pc' = [pc EXCEPT ![r] = "failed"]
            /\ try' = [try EXCEPT ![r] = 1]
  /\ held' = [held EXCEPT ![r] = None]
  /\ UNCHANGED <<world, reconcile>>

-----------------------------------------------------------------------------
(* transport_reconcile: one run at a time.                                 *)

\* The listing: the window's partitions, or all of received/.
List(sweep) ==
  /\ walk = "idle"
  /\ walk' = "reading"
  /\ unread' = IF sweep THEN completed ELSE completed \ aged
  /\ UNCHANGED <<world, receipt, pc, try, held, found, sync, pending, events>>

\* Mutant of Progress: a DeliveryManifest is progress enough.
Progress_Delivered(t) == IF delivery[t] = None THEN "chain" ELSE "candidate"

Progress(t) == IF ~ HasDelivery(t) \/ plan[t] = None THEN "chain" ELSE "candidate"

Read(t) ==
  /\ walk = "reading" /\ t \in unread
  /\ unread' = unread \ {t}
  /\ found' = [found EXCEPT ![t] = Progress(t)]
  /\ UNCHANGED <<world, receipt, pc, try, held, walk, sync, pending, events>>

\* Evidence that cannot be read is left out of the report.
CannotRead(t) ==
  /\ walk = "reading" /\ t \in unread
  /\ Event
  /\ unread' = unread \ {t}
  /\ UNCHANGED <<world, receipt, pc, try, held, walk, found, sync, pending>>

Report ==
  /\ walk = "reading" /\ unread = {}
  /\ walk' = "check"
  /\ sync' = [t \in Transports |-> IF found[t] = "unseen" THEN "done" ELSE "discover"]
  /\ UNCHANGED <<world, receipt, pc, try, held, unread, found, pending, events>>

\* sync_receipts runs beside check_raw and trigger_pending, on the same report.
\* A write that fails is skipped, and for that row the rest with it.
SyncDiscovers(t) ==
  /\ sync[t] = "discover"
  /\ \/ /\ receipt' = [receipt EXCEPT ![t] = Discovered(@)]
        /\ sync' = [sync EXCEPT ![t] = IF found[t] = "candidate" THEN "advance" ELSE "done"]
        /\ UNCHANGED events
     \/ Event /\ UNCHANGED receipt /\ sync' = [sync EXCEPT ![t] = "done"]
  /\ UNCHANGED <<world, pc, try, held, walk, unread, found, pending>>

SyncAdvances(t) ==
  /\ sync[t] = "advance"
  /\ Quietly(t, Staged(receipt[t], "normalized", TRUE))
  /\ sync' = [sync EXCEPT ![t] = "done"]
  /\ UNCHANGED <<world, pc, try, held, walk, unread, found, pending>>

\* Mutant of CheckRaw: needs_full_chain is forgotten.
CheckRaw_GapOnly ==
  /\ walk = "check"
  /\ walk' = "trigger"
  /\ pending' = {t \in Transports : found[t] = "candidate" /\ raw[t] = None}
  /\ UNCHANGED <<world, receipt, pc, try, held, unread, found, sync, events>>

\* One read of raw for all candidates: raw_pending.
CheckRaw ==
  /\ walk = "check"
  /\ walk' = "trigger"
  /\ pending' = {t \in Transports : \/ found[t] = "chain"
                                    \/ found[t] = "candidate" /\ raw[t] = None}
  /\ UNCHANGED <<world, receipt, pc, try, held, unread, found, sync, events>>

TriggerPending(t) ==
  /\ walk = "trigger" /\ t \in pending
  /\ Trigger(t)
  /\ pending' = pending \ {t}
  /\ UNCHANGED <<world, receipt, try, held, walk, unread, found, sync, events>>

\* A task of the walk fails for the last time; what depends on it is not run.
TaskFails ==
  /\ Event
  /\ \/ walk = "reading" /\ walk' = "idle" /\ found' = NoReport
     \/ walk \in {"check", "trigger"} /\ walk' = "trigger" /\ UNCHANGED found
  /\ unread' = {} /\ pending' = {}
  /\ UNCHANGED <<world, receipt, pc, try, held, sync>>

EndWalk ==
  /\ walk = "trigger" /\ pending = {}
  /\ \A t \in Transports : sync[t] = "done"
  /\ walk' = "idle"
  /\ found' = NoReport
  /\ UNCHANGED <<world, receipt, pc, try, held, unread, sync, pending, events>>

Reconcile ==
  \/ List(FALSE) \/ Report \/ CheckRaw \/ EndWalk
  \/ \E t \in Transports : \/ Read(t) \/ SyncDiscovers(t) \/ SyncAdvances(t)
                           \/ TriggerPending(t)

Step(r) ==
  \/ Validate(r) \/ ReadDelivery(r) \/ PutDelivery(r) \/ PutParts(r) \/ PutPlan(r)
  \/ Record(r) \/ IngestRaw(r) \/ Finish(r) \/ RefuseDelivery(r) \/ RefuseRaw(r)
  \/ Fail(r)

Next ==
  \/ \E t \in Transports : \/ Publish(t) \/ AgesOut(t) \/ WatchDiscovers(t)
                           \/ WatchTriggers(t) \/ Call(t) \/ CannotRead(t)
  \/ \E c \in Contracts : EditFeed(c)
  \/ \E r \in Runs : Step(r)
  \/ Reconcile \/ List(TRUE) \/ TaskFails

\* The scheduler runs the tasks of a DagRun and the walk of the reconcile.
\* Nothing is assumed of the watch, of the CLI, or of who edits the feed.
Fairness ==
  /\ WF_vars(Reconcile)
  /\ \A t \in Transports : WF_vars(Step(<<t, "dag">>))

Spec == Init /\ [][Next]_vars /\ Fairness

-----------------------------------------------------------------------------
(* Properties.                                                             *)

Status == Stages \union {"none", "failed"}
Contract == Contracts \union {None}

TypeOK ==
  /\ feed \in Contracts
  /\ completed \subseteq Transports /\ aged \subseteq completed
  /\ delivery \in [Transports -> Contract]
  /\ parts \subseteq Archives
  /\ plan \in [Transports -> Contract]
  /\ raw \in [Transports -> Contract]
  /\ receipt \in [Transports -> [status: Status, rank: -1 .. 3, delivered: BOOLEAN]]
  /\ pc \in [Runs -> Active \union Over]
  /\ try \in [Runs -> 1 .. MaxTries]
  /\ held \in [Runs -> Contract]
  /\ walk \in {"idle", "reading", "check", "trigger"}
  /\ unread \subseteq Transports
  /\ found \in [Transports -> {"unseen", "chain", "candidate"}]
  /\ sync \in [Transports -> {"done", "discover", "advance"}]
  /\ pending \subseteq Transports
  /\ events \in 0 .. MaxEvents

\* What is true of the evidence alone: one contract, and what it lets through.
EvidenceAgrees ==
  \A t \in Transports :
    /\ delivery[t] # None => <<t, delivery[t]>> \notin NoIdentity
    /\ plan[t] \in {None, delivery[t]}
    /\ raw[t] \in {None, plan[t]}
    /\ raw[t] # None => <<t, raw[t]>> \notin FailsChecks

\* The evidence a run has come past.
Past(steps) == {r \in Runs : pc[r] \in steps}
AfterDelivery == {"delivered", "normalize", "write"}
AfterPlan == {"normalized", "ingest", "landed", "success", "unlandable"}

RunsHaveEvidence ==
  /\ \A r \in Past(AfterDelivery \union AfterPlan) : delivery[Of(r)] # None
  /\ \A r \in Past(AfterPlan) : plan[Of(r)] # None
  /\ \A r \in Past({"landed", "success"}) : raw[Of(r)] # None
  /\ \A r \in Past({"unlandable"}) : <<Of(r), plan[Of(r)]>> \in FailsChecks
  /\ \A r \in Past({"create"}) : held[r] # None /\ <<Of(r), held[r]>> \notin NoIdentity
  /\ \A r \in Past({"write"}) :
       held[r] = delivery[Of(r)] /\ (Of(r) \in Archives => Of(r) \in parts)

WalkHasEvidence ==
  \A t \in Transports :
    /\ found[t] = "candidate" => delivery[t] # None /\ plan[t] # None
    /\ sync[t] = "advance" => found[t] = "candidate"
    /\ sync[t] # "done" => walk \in {"check", "trigger"}

\* Whatever a receipt says of a Transport's progress, the evidence it speaks
\* of is in object storage: record_stage is called after the step's effect, and
\* sync_receipts writes what a walk saw earlier, when it may be stale.
ReceiptHasEvidence ==
  \A t \in Transports :
    /\ receipt[t].rank >= Rank("delivered") => delivery[t] # None
    /\ receipt[t].rank >= Rank("normalized") => plan[t] # None
    /\ receipt[t].delivered => delivery[t] # None
    /\ receipt[t].status \in Stages => receipt[t].rank = Rank(receipt[t].status)

\* A NormalizationManifest never names parts that are not there, whichever run
\* put the parts and whichever put the manifest, and wherever one failed.
PlanIsWhole ==
  \A t \in Archives : plan[t] # None => t \in parts

\* A run that succeeded, and so emitted the raw asset's event, has left the
\* Delivery in raw, also when it found it there.
SuccessMeansLanded ==
  \A r \in Runs : pc[r] = "success" => raw[Of(r)] # None

IInv == /\ TypeOK /\ EvidenceAgrees /\ RunsHaveEvidence /\ WalkHasEvidence
        /\ ReceiptHasEvidence /\ PlanIsWhole

\* is_refusal, the Raw half: a Transport that a run was refused for is in raw
\* by no other run either, before or after, since all read one manifest.
RawRefusalIsFinal ==
  \A r \in Runs : pc[r] = "unlandable" => raw[Of(r)] = None

\* is_refusal, the Delivery half: a refusal is of the evidence against the
\* feed, so create_delivery, called again, would refuse again.
DeliveryRefusalIsFinal ==
  \A r \in Runs :
    pc[r] = "undeliverable" =>
      delivery[Of(r)] = None /\ <<Of(r), feed>> \in NoIdentity

\* A receipt that does not say failed never moves back, whichever of two runs,
\* the watch and the reconcile writes it last; only one that says failed may.
\* And once there is a receipt there is never none.
ReceiptNeverSlips ==
  [][\A t \in Transports :
       /\ receipt[t].status \in Stages /\ receipt'[t].status # "failed"
            => receipt'[t].rank >= receipt[t].rank
       /\ receipt[t].status # "none" => receipt'[t].status # "none"]_vars

\* Every Transport is carried under one contract, the one it was first read
\* under, however the feed is edited and whoever carries it.
Carried == INSTANCE Carriage WITH Nothing <- None
Implements == Carried!Spec

\* The reconcile alone is enough: with no watch and no CLI, and whatever
\* registry writes are lost, a completed Transport within the window comes to
\* be in raw with its receipt at its last stage, or its DagRun fails.
Settles ==
  \A t \in Transports :
    t \in completed ~> \/ raw[t] # None /\ receipt[t].status = "normalized"
                       \/ pc[<<t, "dag">>] \in {"failed", "undeliverable", "unlandable"}
                       \/ t \in aged

=============================================================================
