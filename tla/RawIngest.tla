------------------------------ MODULE RawIngest ------------------------------
(***************************************************************************)
(* Raw ingestion: ingest/ingest_feed.py over common/nessie.py.             *)
(*                                                                         *)
(* A run is one transport_ingest DagRun (its tries are Airflow's retries)  *)
(* or one CLI / bulk ingest of the same Delivery, outside the pool and     *)
(* with the one try the command has.  A try checks the ledger              *)
(* on `main`, cuts a Nessie branch, reads MAX(_file_version)+1 there,      *)
(* validates, appends, merges back under Nessie's per-key conflict rule,   *)
(* deletes the branch, records the commit in the registry and cuts a       *)
(* snapshot tag at the merge commit.  Any of these steps may be the last   *)
(* one before a crash, and a REST reply may be lost after it took effect.  *)
(*                                                                         *)
(* `main` is the sequence of its commits, each holding the whole content   *)
(* of raw, so that a tag can be resolved to the state it pins.  A branch's *)
(* only content that matters is its own table, held in `view`.             *)
(***************************************************************************)
EXTENDS Integers, Sequences, FiniteSets

CONSTANTS
  Tables,        \* raw tables, one per feed
  Deliveries,    \* Deliveries with a NormalizationManifest
  Dates,         \* COB dates
  TableOf,       \* Delivery -> the raw table of its feed
  CobDateOf,     \* Delivery -> its frozen business date
  Bad,           \* Deliveries that fail a raw check (drift, rows, md5)
  Versions,      \* the values _file_version may take
  Runs,          \* DagRuns and CLI runs
  DeliveryOf,    \* Run -> the Delivery it was triggered for
  Housekeeper,   \* the platform_housekeeping DAG, as a user of the pool
  Pooled,        \* which of them hold the lakehouse_write slot
  MaxTries,      \* tries of one DagRun (Airflow: retries + 1)
  MaxFaults,     \* bound: crashes and lost or failed REST calls
  MaxChores      \* bound: housekeeping commits on `main`

Attempts == Runs \X (1 .. MaxTries)

Batch == [delivery: Deliveries, version: Versions, attempt: Attempts]

ASSUME RawAssumptions ==
  /\ TableOf \in [Deliveries -> Tables]
  /\ CobDateOf \in [Deliveries -> Dates]
  /\ DeliveryOf \in [Runs -> Deliveries]
  /\ Bad \subseteq Deliveries
  /\ Versions \subseteq Nat \ {0}
  /\ Housekeeper \notin Runs
  /\ Pooled \subseteq Runs \union {Housekeeper}
  /\ MaxTries \in Nat \ {0}
  /\ MaxFaults \in Nat
  /\ MaxChores \in Nat

VARIABLES
  history,    \* the commits of `main`; each is raw's content after it
  touched,    \* per table key, the last commit that changed it (0: no table)
  branches,   \* ingest branches in the catalog, named by attempt
  tags,       \* snapshot tags: whose, and the commit they name
  committed,  \* registry.delivery_committed; version 0 is NULL
  pc,         \* per run, the step of its current try
  tries,      \* per run, tries begun
  base,       \* per run, the commit its branch was cut from
  view,       \* per run, its table as its branch holds it
  made,       \* per run, resultantTargetHash of its merge (0: none)
  faults,     \* faults so far
  chores      \* housekeeping commits so far

catalog == <<history, touched>>
local   == <<base, view>>
bounds  == <<faults, chores>>
vars == <<history, touched, branches, tags, committed, pc, tries, base, view,
          made, faults, chores>>

-----------------------------------------------------------------------------
Delivery(r) == DeliveryOf[r]
Table(r)    == TableOf[DeliveryOf[r]]
CobDate(b)  == CobDateOf[b.delivery]

Empty == [t \in Tables |-> {}]

\* What a reader of `main` sees.
Main == IF history = <<>> THEN Empty ELSE history[Len(history)]

\* The number of the commit `main` points at.
Tip == Len(history)

\* The states in which an Airflow task holds the lakehouse_write slot:
\* ingest_raw from its first statement to its return.
Writing == {"start", "boot", "ledger", "noop", "cut", "write", "merge", "drop",
            "record"}

SlotFree(w) ==
  w \in Pooled => \A r \in Runs \intersect Pooled : pc[r] \notin Writing

\* Mutant of BranchName: one branch for every try of a run.
BranchName_PerRun(r) == <<r, 1>>

\* The branch a try writes to: context.ingest_attempt_id.
BranchName(r) == <<r, tries[r]>>

\* Mutant of AlreadyIngested: only discovery filters what Raw already holds.
AlreadyIngested_Never(d) == FALSE

\* already_ingested_delivery: Raw on `main` is the ledger.
AlreadyIngested(d) == \E b \in Main[TableOf[d]] : b.delivery = d

\* next_file_version: v is MAX(_file_version) + 1 over the rows of the date.
IsNextVersion(v, S, date) ==
  LET seen == {b \in S : CobDate(b) = date} IN
  /\ \A b \in seen : b.version < v
  /\ v = 1 \/ \E b \in seen : b.version = v - 1

\* One more commit on `main`, changing the content of one key.
CommitToMain(t, content) ==
  /\ history' = Append(history, [Main EXCEPT ![t] = content])
  /\ touched' = [touched EXCEPT ![t] = Tip + 1]

\* Airflow tries a DagRun again; a command line or a bulk run has one attempt.
TriesOf(r) == IF r \in Pooled THEN MaxTries ELSE 1

Goto(r, label) == pc' = [pc EXCEPT ![r] = label]

Fault == /\ faults < MaxFaults
         /\ faults' = faults + 1
         /\ UNCHANGED chores
-----------------------------------------------------------------------------
Init ==
  /\ history = <<>>
  /\ touched = [t \in Tables |-> 0]
  /\ branches = {}
  /\ tags = {}
  /\ committed = {}
  /\ pc = [r \in Runs |-> "idle"]
  /\ tries = [r \in Runs |-> 0]
  /\ base = [r \in Runs |-> 0]
  /\ view = [r \in Runs |-> {}]
  /\ made = [r \in Runs |-> 0]
  /\ faults = 0
  /\ chores = 0

\* A try starts: the task gets its slot, or somebody types the command.  A
\* failed try is followed by another one while the run has any left.
Begin(r) ==
  /\ pc[r] \in {"idle", "failed"}
  /\ tries[r] < TriesOf(r)
  /\ SlotFree(r)
  /\ tries' = [tries EXCEPT ![r] = @ + 1]
  /\ made' = [made EXCEPT ![r] = 0]
  /\ Goto(r, "start")
  /\ UNCHANGED <<catalog, branches, tags, committed, local, bounds>>

\* _bootstrap_main_if_empty, first half: does `main` have a commit?
ReadHistory(r) ==
  /\ pc[r] = "start"
  /\ Goto(r, IF history = <<>> THEN "boot" ELSE "ledger")
  /\ UNCHANGED <<catalog, branches, tags, committed, tries, local, made, bounds>>

\* Second half: CREATE TABLE IF NOT EXISTS straight on `main`.
Bootstrap(r) ==
  /\ pc[r] = "boot"
  /\ IF touched[Table(r)] = 0
       THEN CommitToMain(Table(r), {})
       ELSE UNCHANGED catalog
  /\ Goto(r, "ledger")
  /\ UNCHANGED <<branches, tags, committed, tries, local, made, bounds>>

\* The no-op guard, read on `main` before the branch is cut.
CheckLedger(r) ==
  /\ pc[r] = "ledger"
  /\ Goto(r, IF AlreadyIngested(Delivery(r)) THEN "noop" ELSE "cut")
  /\ UNCHANGED <<catalog, branches, tags, committed, tries, local, made, bounds>>

\* Nessie.create_branch without exist_ok: a name in use is a 409.
CutBranch(r) ==
  /\ pc[r] = "cut"
  /\ branches' = branches \union {BranchName(r)}
  /\ base' = [base EXCEPT ![r] = Tip]
  /\ view' = [view EXCEPT ![r] = Main[Table(r)]]
  /\ Goto(r, IF BranchName(r) \in branches THEN "failed" ELSE "write")
  /\ UNCHANGED <<catalog, tags, committed, tries, made, bounds>>

\* Mutant of Passes: the checks only log.
Passes_Always(r) == TRUE

\* minimum rows, schema drift, the declared MD5: each can refuse the frame.
Passes(r) == Delivery(r) \notin Bad

\* A raw check refuses: IngestValidationError, the branch is left.
Refuse(r) ==
  /\ pc[r] = "write"
  /\ ~Passes(r)
  /\ Goto(r, "refused")
  /\ UNCHANGED <<catalog, branches, tags, committed, tries, local, made, bounds>>

\* Every check passed: append under the next version, on the branch.
AppendRows(r) ==
  /\ pc[r] = "write"
  /\ Passes(r)
  /\ \E v \in Versions :
       /\ IsNextVersion(v, view[r], CobDateOf[Delivery(r)])
       /\ view' = [view EXCEPT ![r] = @ \union
                     {[delivery |-> Delivery(r), version |-> v,
                       attempt |-> <<r, tries[r]>>]}]
  /\ Goto(r, "merge")
  /\ UNCHANGED <<catalog, branches, tags, committed, tries, base, made, bounds>>

\* Mutant of Conflicts: the merge asks for FORCE instead of NORMAL.
Conflicts_Never(r) == FALSE

\* Nessie's NORMAL merge: the table's key changed on `main` since the cut.
Conflicts(r) == touched[Table(r)] > base[r]

MergeRefused(r) ==
  /\ pc[r] = "merge"
  /\ Conflicts(r)
  /\ Goto(r, "failed")
  /\ UNCHANGED <<catalog, branches, tags, committed, tries, local, made, bounds>>

Merge(r) ==
  /\ pc[r] = "merge"
  /\ ~Conflicts(r)
  /\ CommitToMain(Table(r), view[r])
  /\ made' = [made EXCEPT ![r] = Tip + 1]
  /\ Goto(r, "drop")
  /\ UNCHANGED <<branches, tags, committed, tries, local, bounds>>

\* The server merged and the client timed out: the try has failed, and its
\* rows are on `main`.
MergeReplyLost(r) ==
  /\ pc[r] = "merge"
  /\ ~Conflicts(r)
  /\ Fault
  /\ CommitToMain(Table(r), view[r])
  /\ Goto(r, "failed")
  /\ UNCHANGED <<branches, tags, committed, tries, local, made>>

DropBranch(r) ==
  /\ pc[r] = "drop"
  /\ branches' = branches \ {BranchName(r)}
  /\ Goto(r, "record")
  /\ UNCHANGED <<catalog, tags, committed, tries, local, made, bounds>>

\* delete_reference raises after the merge: the try fails, having committed.
DropFails(r) ==
  /\ pc[r] = "drop"
  /\ Fault
  /\ Goto(r, "failed")
  /\ UNCHANGED <<catalog, branches, tags, committed, tries, local, made>>

\* Mutant of Insert: no ON CONFLICT (feed, delivery_id).
Insert_Always(d, v) ==
  committed' = committed \union {[delivery |-> d, version |-> v]}

\* INSERT ... ON CONFLICT DO NOTHING.
Insert(d, v) ==
  committed' = IF \E c \in committed : c.delivery = d
                 THEN committed
                 ELSE committed \union {[delivery |-> d, version |-> v]}

\* The version this try wrote.
Written(r) ==
  CHOOSE v \in Versions :
    [delivery |-> Delivery(r), version |-> v, attempt |-> <<r, tries[r]>>]
      \in view[r]

RecordCommitted(r) ==
  /\ pc[r] = "record"
  /\ Insert(Delivery(r), Written(r))
  /\ Goto(r, "pin")
  /\ UNCHANGED <<catalog, branches, tags, tries, local, made, bounds>>

\* record_committed_quietly: a registry outage is logged, never raised.
RecordLost(r) ==
  /\ pc[r] = "record"
  /\ Fault
  /\ Goto(r, "pin")
  /\ UNCHANGED <<catalog, branches, tags, committed, tries, local, made>>

\* The already_ingested result: the fact is recorded with no version, and
\* record_snapshot cuts no tag for it.
RecordNoop(r) ==
  /\ pc[r] = "noop"
  /\ Insert(Delivery(r), 0)
  /\ Goto(r, "done")
  /\ UNCHANGED <<catalog, branches, tags, tries, local, made, bounds>>

NoopLost(r) ==
  /\ pc[r] = "noop"
  /\ Fault
  /\ Goto(r, "done")
  /\ UNCHANGED <<catalog, branches, tags, committed, tries, local, made>>

\* Mutant of PinnedCommit: the tag is cut at the head of `main`.
PinnedCommit_Head(r) == Tip

\* The commit a snapshot tag names: the merge's resultantTargetHash.
PinnedCommit(r) == made[r]

\* record_snapshot: a task of its own, outside the write pool.
Pin(r) ==
  /\ pc[r] = "pin"
  /\ tags' = tags \union {[attempt |-> <<r, tries[r]>>, commit |-> PinnedCommit(r)]}
  /\ Goto(r, "done")
  /\ UNCHANGED <<catalog, branches, committed, tries, local, made, bounds>>

\* create_tag raised: reported as tag_error, and the run still succeeds.
PinLost(r) ==
  /\ pc[r] = "pin"
  /\ Fault
  /\ Goto(r, "done")
  /\ UNCHANGED <<catalog, branches, tags, committed, tries, local, made>>

\* The worker dies, or a call raises (Nessie's 409 for a `main` that moved
\* under the merge is one).  Nothing is undone; the branch stays.
Crash(r) ==
  /\ pc[r] \in Writing
  /\ Fault
  /\ Goto(r, "failed")
  /\ UNCHANGED <<catalog, branches, tags, committed, tries, local, made>>
-----------------------------------------------------------------------------
Chore == /\ SlotFree(Housekeeper)
         /\ chores < MaxChores
         /\ chores' = chores + 1
         /\ UNCHANGED <<branches, tags, committed, pc, tries, local, made, faults>>

\* apply_table_retention: one DELETE of the COB dates the policy lets go.
Expire(t, gone) ==
  /\ Chore
  /\ \E b \in Main[t] : CobDate(b) \in gone
  /\ CommitToMain(t, {b \in Main[t] : CobDate(b) \notin gone})

\* maintain.compact and migrate-raw: a commit on the key that changes no row.
Touch(t) ==
  /\ Chore
  /\ CommitToMain(t, Main[t])

\* `reconcile-committed <feed>`: backfill from what Raw holds.
ReconcileCommitted(t) ==
  /\ committed' = committed \union
       {[delivery |-> b.delivery, version |-> b.version] : b \in
          {b \in Main[t] :
             /\ \A c \in committed : c.delivery # b.delivery
             /\ \A c \in Main[t] : c.delivery = b.delivery => c.version <= b.version}}
  /\ UNCHANGED <<catalog, branches, tags, pc, tries, local, made, bounds>>
-----------------------------------------------------------------------------
\* What the code itself does next; faults are not in it.
Step(r) ==
  \/ Begin(r) \/ ReadHistory(r) \/ Bootstrap(r) \/ CheckLedger(r) \/ CutBranch(r)
  \/ Refuse(r) \/ AppendRows(r) \/ MergeRefused(r) \/ Merge(r) \/ DropBranch(r)
  \/ RecordCommitted(r) \/ RecordNoop(r) \/ Pin(r)

Failure(r) ==
  \/ MergeReplyLost(r) \/ DropFails(r) \/ RecordLost(r) \/ NoopLost(r)
  \/ PinLost(r) \/ Crash(r)

Housekeeping ==
  \/ \E t \in Tables, gone \in SUBSET Dates : Expire(t, gone)
  \/ \E t \in Tables : Touch(t)
  \/ \E t \in Tables : ReconcileCommitted(t)

Next == (\E r \in Runs : Step(r) \/ Failure(r)) \/ Housekeeping

Spec == Init /\ [][Next]_vars

\* Airflow keeps scheduling a run that has tries left, and a process that is
\* alive goes on.
FairSpec == Spec /\ \A r \in Runs : WF_vars(Step(r))
-----------------------------------------------------------------------------
Labels == Writing \union {"idle", "pin", "done", "failed", "refused"}

\* Types of the variables.
TypeOK ==
  /\ history \in Seq([Tables -> SUBSET Batch])
  /\ touched \in [Tables -> Nat]
  /\ branches \subseteq Attempts
  /\ tags \subseteq [attempt: Attempts, commit: Nat]
  /\ committed \subseteq [delivery: Deliveries, version: Versions \union {0}]
  /\ pc \in [Runs -> Labels]
  /\ tries \in [Runs -> 0 .. MaxTries]
  /\ base \in [Runs -> Nat]
  /\ view \in [Runs -> SUBSET Batch]
  /\ made \in [Runs -> Nat]
  /\ faults \in 0 .. MaxFaults
  /\ chores \in 0 .. MaxChores

\* No commit of `main`, and so no reader and no tag, ever shows two batches of
\* one COB date under one _file_version: next_file_version is an unlocked
\* read-then-write, and Nessie's conflict rule is all that protects it.
VersionsUnique ==
  \A i \in 1 .. Tip : \A t \in Tables :
    \A b, c \in history[i][t] :
      CobDate(b) = CobDate(c) /\ b.version = c.version => b = c

\* A batch that reaches `main` is newer than everything its date had there, so
\* dedupe_rank (newest _file_version wins) can never prefer the older write.
LaterIsNewer ==
  \A i \in 2 .. Tip : \A t \in Tables :
    \A b \in history[i][t] \ history[i - 1][t], c \in history[i - 1][t] :
      CobDate(b) = CobDate(c) => b.version > c.version

\* A Delivery a check refuses is on no commit of `main`, whatever was retried.
NothingRefusedOnMain ==
  \A i \in 1 .. Tip : \A t \in Tables :
    \A b \in history[i][t] : b.delivery \notin Bad

\* "an explicit retry cannot append the same Delivery twice" (ingest_feed.py).
DeliveredOnce ==
  \A i \in 1 .. Tip : \A t \in Tables :
    \A b, c \in history[i][t] : b.delivery = c.delivery => b = c

\* A snapshot tag names the commit its own ingest's merge made: the first one
\* that holds its batch, never a later merge of somebody else's.
TagNamesOwnMerge ==
  \A g \in tags :
    /\ g.commit \in 2 .. Tip
    /\ \E b \in UNION {history[g.commit][t] \ history[g.commit - 1][t] : t \in Tables} :
         b.attempt = g.attempt

\* Every row of registry.delivery_committed is true of some commit of `main`,
\* with the version Raw gave that Delivery, and a Delivery has one row.
CommittedIsTrue ==
  /\ \A c \in committed :
       \E i \in 1 .. Tip : \E b \in history[i][TableOf[c.delivery]] :
         /\ b.delivery = c.delivery
         /\ c.version # 0 => b.version = c.version
  /\ \A c, e \in committed : c.delivery = e.delivery => c = e

\* A Delivery that passes the checks and has a DagRun reaches `main`, whatever
\* the commands and the housekeeping beside it do, as long as the run has a try
\* more than there are faults and conflicting commands to fail one.  A
\* command has one attempt, and is promised nothing (_merge_ingest_branch: it
\* "is re-run by hand").
GoodDeliveriesArrive ==
  \A r \in Runs \intersect Pooled : Delivery(r) \notin Bad =>
    <>(\E i \in 1 .. Tip : \E b \in history[i][Table(r)] : b.delivery = Delivery(r))

\* And its run does not stay failed, or waiting for the slot: every run ends.
RunsEnd == \A r \in Runs : <>[](pc[r] \in {"done", "refused"})
-----------------------------------------------------------------------------
\* The pool serialises every writer of a Delivery.
Serialised == Runs \subseteq Pooled

Raw == INSTANCE RawLedger WITH rows <- Main, AtMostOnce <- Serialised

\* Raw ingestion implements the ledger.
Implements == Raw!Spec
-----------------------------------------------------------------------------
(* The inductive invariant, which RawIngest_proofs proves and TLC checks.   *)

\* b is newer than every batch of its own COB date in S.
NewerThanAll(b, S) == \A c \in S : CobDate(c) = CobDate(b) => b.version > c.version

\* A try past the bootstrap finds `main` with a commit.
Booted == {"ledger", "noop", "cut", "write", "merge", "drop", "record", "pin"}

\* A run that is not idle is in one of its tries, and `main` has history once
\* the try is past the bootstrap.
RunIsSane(r) ==
  /\ pc[r] # "idle" => tries[r] \in 1 .. MaxTries
  /\ pc[r] \in Booted => history # <<>>

\* `touched` is about commits that exist, and a key never touched has no rows.
KeysSane ==
  \A t \in Tables :
    /\ touched[t] <= Len(history)
    /\ touched[t] = 0 => Main[t] = {}

\* A branch whose table nobody has changed on `main` since the cut still holds
\* what `main` holds: Nessie's conflict rule is about exactly this.
BranchIsFresh(r) ==
  pc[r] = "write" =>
    /\ base[r] <= Len(history)
    /\ touched[Table(r)] <= base[r] => view[r] = Main[Table(r)]

\* The batch of the current try of r is in S.
IsOwn(b, r) ==
  /\ b.delivery = Delivery(r)
  /\ b.attempt = <<r, tries[r]>>

\* After the append the branch holds that, and one batch newer than all of it.
AppendIsNewest(r) ==
  pc[r] = "merge" =>
    /\ base[r] <= Len(history)
    /\ Delivery(r) \notin Bad
    /\ \E b \in view[r] :
         /\ IsOwn(b, r)
         /\ NewerThanAll(b, view[r] \ {b})
         /\ touched[Table(r)] <= base[r] => view[r] \ {b} = Main[Table(r)]

\* What the merge reported is the commit that brought the try's batch.
MergeIsOwn(r) ==
  pc[r] \in {"drop", "record", "pin"} =>
    /\ made[r] \in 2 .. Len(history)
    /\ \E b \in view[r] :
         /\ IsOwn(b, r)
         /\ b \in history[made[r]][Table(r)] \ history[made[r] - 1][Table(r)]
    /\ view[r] = history[made[r]][Table(r)]

\* A Delivery found in the ledger is on some commit of `main`.
NoopIsTrue(r) ==
  pc[r] = "noop" =>
    \E i \in 1 .. Len(history) : \E b \in history[i][Table(r)] :
      b.delivery = Delivery(r)

\* One holder of the write slot, and what it found in the ledger stays true.
SlotIsExclusive ==
  \A r, q \in Runs \intersect Pooled :
    pc[r] \in Writing /\ pc[q] \in Writing => r = q

LedgerStaysTrue(r) ==
  Runs \subseteq Pooled /\ pc[r] \in {"cut", "write", "merge"} =>
    ~AlreadyIngested(Delivery(r))

RunInv(r) ==
  /\ RunIsSane(r)
  /\ BranchIsFresh(r)
  /\ AppendIsNewest(r)
  /\ MergeIsOwn(r)
  /\ NoopIsTrue(r)

\* Every batch is in the table of its Delivery's feed.
BatchesAtHome ==
  \A i \in 1 .. Tip : \A t \in Tables :
    \A b \in history[i][t] : TableOf[b.delivery] = t

HistoryInv ==
  /\ VersionsUnique
  /\ LaterIsNewer
  /\ NothingRefusedOnMain
  /\ BatchesAtHome

PoolInv ==
  /\ SlotIsExclusive
  /\ \A r \in Runs : LedgerStaysTrue(r)
  /\ Runs \subseteq Pooled => DeliveredOnce

IInv ==
  /\ TypeOK
  /\ KeysSane
  /\ \A r \in Runs : RunInv(r)
  /\ HistoryInv
  /\ PoolInv
  /\ TagNamesOwnMerge
  /\ CommittedIsTrue
=============================================================================
