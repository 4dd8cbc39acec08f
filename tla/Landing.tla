------------------------------ MODULE Landing ------------------------------
(***************************************************************************)
(* One feed's deliveries from landing/ to Raw without a Transport, and     *)
(* back out: normalize.py and its manifests in ready/, the ingest DAG of   *)
(* airflow/dags/feed_ingest.py with arrival.find_pending behind it, the    *)
(* delivery registry's reconcile, and the nightly retention of Raw,        *)
(* landing/ and ready/.  The feed sends containers, so that a delivery's   *)
(* parts are objects in ready/ of their own.  A date is also the day it is *)
(* first sent; a Delivery is in Raw or not (RawIngest says how it gets     *)
(* there).                                                                 *)
(***************************************************************************)
EXTENDS KeepRules, Sequences

CONSTANTS
  Deliveries,
  Order,           \* the same, in the order of their keys
  DateOf,
  Late,            \* those whose control file comes on its own
  Unreadable,      \* those no manifest can be made of
  Bad,             \* those ingest refuses
  Quiet,           \* those put there by an agent that triggers no DagRun
  Undescribable,   \* those register raises on
  LandingDays,     \* landing's keep_years, in days
  ReadyDays,       \* ready's keep_days
  None,
  MaxDay,          \* bound: the clock stops here, the nights do not
  MaxFaults        \* bound: calls lost, or cut short

ASSUME LandingAssumptions ==
  /\ Order \in Seq(Deliveries)
  /\ \A d \in Deliveries : \E i \in DOMAIN Order : Order[i] = d
  /\ Late \union Unreadable \union Bad \union Quiet \union Undescribable
       \subseteq Deliveries
  /\ \A d \in Deliveries : DateOf[d] \in DOMAIN MonthOf
  /\ LandingDays \in Nat /\ ReadyDays \in Nat
  /\ None \notin Deliveries
  /\ MaxDay \in Nat \ {0} /\ MaxFaults \in Nat

VARIABLES
  today,
  night,       \* the nightly DagRun's next step, or "day"
  landing,     \* deliveries in landing/
  received,    \* the day each was put there, or 0
  control,     \* those whose control file is there
  manifests,   \* those with a manifest in ready/
  parts,       \* those whose members are extracted in ready/
  raw,         \* those whose rows are in Raw
  ever,        \* those whose rows ever were
  registered,  \* rows of registry.delivery
  queue,       \* DagRuns asked for: a landing key, or None
  run,         \* the one active DagRun (max_active_runs=1)
  faults

vars == <<today, night, landing, received, control, manifests, parts, raw,
          ever, registered, queue, run, faults>>

clock == <<today, night>>
store == <<landing, received, control>>
ready == <<manifests, parts>>
rows == <<raw, ever>>

Fault == faults < MaxFaults /\ faults' = faults + 1
NoFault == UNCHANGED faults
FaultIf(b) == IF b THEN Fault ELSE NoFault

Dates(S) == {DateOf[d] : d \in S}
NoRun == [pc |-> "none", key |-> None]

(***************************************************************************)
(* Arrival: a put into landing/, on its day or the next, with a DagRun     *)
(* asked for it or not (the bucket is written by agents that run none of   *)
(* this code).                                                             *)
(***************************************************************************)
Land(d) ==
  /\ received[d] = 0 /\ today \in DateOf[d] .. DateOf[d] + 1
  /\ landing' = landing \union {d}
  /\ received' = [received EXCEPT ![d] = today]
  /\ control' = IF d \in Late THEN control ELSE control \union {d}
  /\ queue' = IF d \in Quiet THEN queue ELSE queue \union {d}
  /\ UNCHANGED <<clock, ready, rows, registered, run, faults>>

\* A control file's DagRun names no delivery.
LandControl(d) ==
  /\ d \in (Late \intersect landing) \ control
  /\ control' = control \union {d}
  /\ queue' = queue \union {None}
  /\ UNCHANGED <<clock, landing, received, ready, rows, registered, run, faults>>

\* A DagRun somebody starts without a key.
RunByHand ==
  /\ queue = {} /\ run = NoRun
  /\ queue' = queue \union {None}
  /\ UNCHANGED <<clock, store, ready, rows, registered, run, faults>>

(***************************************************************************)
(* normalize.                                                              *)
(***************************************************************************)
Gated(d) == d \in landing \intersect control
Declares(d) == d \notin Unreadable
Normalizable(d) == Gated(d) /\ Declares(d)

\* Mutant of Unnormalized: only what a DagRun names is normalized.
Unnormalized_None == {}

\* What reconcile gives a manifest.
Unnormalized == {d \in Deliveries : Normalizable(d) /\ d \notin manifests}

Register(S, lost) ==
  registered' = registered \union (IF lost THEN {} ELSE S \ Undescribable)

\* Mutant of Extract: the manifest first.
Extract_ManifestFirst(S) ==
  IF S = {} THEN UNCHANGED ready
  ELSE manifests' = manifests \union S /\ UNCHANGED parts

\* The members alone, when the pass dies before it writes their manifest.
Extract(S) == parts' = parts \union S /\ UNCHANGED manifests

\* Members, manifest, then the registry row, which may be lost.
WriteManifests(S, lost) ==
  /\ parts' = parts \union S
  /\ manifests' = manifests \union S
  /\ Register(S, lost)

(***************************************************************************)
(* find_pending.                                                           *)
(***************************************************************************)
\* Mutant of Pending: the keep-set of the candidates.
Pending_OfFresh(S, done) == {d \in S \ done : DateOf[d] \in KeepSet(Dates(S \ done))}

\* already_ingested: a ledger that cannot be read counts as empty.
Ingested(blind) == IF blind THEN {} ELSE raw

\* The dates Raw keeps of those in landing/, by the rules Raw is kept by: no
\* environment counts its month ends in years, which this would not read.
KeptDates == KeepSet(Dates(landing))

\* Of the deliveries S with a manifest, those that are not ingested and not
\* expired, in landing's view of the dates.
Pending(S, done) ==
  LET kept == KeptDates
  IN {d \in S \ done : landing = {} \/ DateOf[d] \in kept}

First(S) ==
  Order[CHOOSE i \in DOMAIN Order : /\ Order[i] \in S
                                   /\ \A j \in 1 .. i - 1 : Order[j] \notin S]

(***************************************************************************)
(* The DagRun.                                                             *)
(***************************************************************************)
StartRun(k) ==
  /\ run = NoRun /\ k \in queue
  /\ queue' = queue \ {k}
  /\ run' = IF k = None THEN [pc |-> "resolve", key |-> None]
            ELSE [pc |-> "normalize", key |-> k]
  /\ UNCHANGED <<clock, store, ready, rows, registered, faults>>

\* Without a key: reconcile, then the first of what is pending.
Resolve ==
  /\ run.pc = "resolve"
  /\ \E lost, blind \in BOOLEAN :
       /\ FaultIf(lost \/ blind)
       /\ WriteManifests(Unnormalized, lost)
       /\ LET S == Pending(manifests', Ingested(blind))
          IN run' = IF S = {} THEN NoRun
                    ELSE [run EXCEPT !.pc = "ingest", !.key = First(S)]
  /\ UNCHANGED <<clock, store, rows, queue>>

\* With one: skipped while its control file is not there.
Normalize ==
  /\ run.pc = "normalize"
  /\ IF Normalizable(run.key)
     THEN \/ \E lost \in BOOLEAN :
               /\ FaultIf(lost)
               /\ WriteManifests({run.key}, lost)
               /\ run' = [run EXCEPT !.pc = "ingest"]
          \/ Fault /\ Extract({run.key}) /\ run' = NoRun /\ UNCHANGED registered
     ELSE run' = NoRun /\ UNCHANGED <<ready, registered, faults>>
  /\ UNCHANGED <<clock, store, rows, queue>>

\* Every try of the task: refused, already there, put in Raw, or given up.
Ingest ==
  /\ run.pc = "ingest"
  /\ \/ /\ run.key \in (manifests \intersect parts) \ Bad
        /\ raw' = raw \union {run.key}
        /\ ever' = ever \union {run.key}
        /\ NoFault
     \/ run.key \notin (manifests \intersect parts) \ Bad /\ UNCHANGED rows /\ NoFault
     \/ UNCHANGED rows /\ Fault
  /\ run' = NoRun
  /\ UNCHANGED <<clock, store, ready, registered, queue>>

(***************************************************************************)
(* The nightly DagRun: Raw, landing/, ready/, then the registry.  A step   *)
(* that is cut short is not tried again before the next night.             *)
(***************************************************************************)
NightFalls ==
  /\ night = "day"
  /\ today' = IF today < MaxDay THEN today + 1 ELSE today
  /\ night' = "raw"
  /\ UNCHANGED <<store, ready, rows, registered, queue, run, faults>>

ExpireRaw ==
  /\ night = "raw" /\ night' = "landing"
  /\ \/ raw' = {d \in raw : DateOf[d] \notin ExpireSet(Dates(raw))} /\ NoFault
     \/ UNCHANGED raw /\ Fault
  /\ UNCHANGED <<today, store, ready, ever, registered, queue, run>>

Older(days) == {d \in Deliveries : DateOf[d] + days < today}

\* A control file is dated by the delivery it gates, and goes with it.
ControlLeft(S) == control \ S

\* One object at a time, as they are listed: a sweep cut short deleted the first.
SweepLanding ==
  /\ night = "landing" /\ night' = "ready"
  /\ LET expired == landing \intersect Older(LandingDays)
     IN \E S \in SUBSET expired :
          /\ \A d \in S, e \in expired \ S : First({d, e}) = d
          /\ landing' = landing \ S
          /\ control' = ControlLeft(S)
          /\ FaultIf(S # expired)
  /\ UNCHANGED <<today, received, ready, rows, registered, queue, run>>

\* Manifests whose landing object is gone.
Orphans == manifests \ landing

\* Old parts that are surely ingested.
Sweepable(done) == manifests \intersect done \intersect parts \intersect Older(ReadyDays)

\* Object by object, an orphan's parts before its manifest, in their order.  A
\* sweep cut short, as one that a DagRun overtakes, leaves the orphans after the
\* last it began alone; a ledger that looked empty, the old parts.
SweepReady ==
  /\ night = "ready" /\ night' = "registry"
  /\ \E S \in SUBSET (Orphans \union Sweepable(raw)), M \in SUBSET Orphans :
       /\ M \subseteq S
       /\ \A d \in S \intersect Orphans, e \in Orphans \ M : d # e => First({d, e}) = d
       /\ parts' = parts \ S
       /\ manifests' = manifests \ M
       /\ FaultIf(M # Orphans \/ S # Orphans \union Sweepable(raw))
  /\ UNCHANGED <<today, store, rows, registered, queue, run>>

\* Mutant of Inserted: only what this pass normalized.
Inserted_OfThisPass(S) == S \intersect Unnormalized

Before(d, e) ==
  received[d] < received[e] \/ (received[d] = received[e] /\ d # e /\
    First({d, e}) = d)

\* One transaction per feed, oldest first: what cannot be described rolls back
\* the rows written before it.
Inserted(S) == {d \in S : \A u \in S \intersect Undescribable : Before(u, d)}

\* Behind `normalize.reconcile`, which registers what it writes.
ReconcileRegistry ==
  /\ night = "registry" /\ night' = "day"
  /\ \/ /\ parts' = parts \union Unnormalized
        /\ manifests' = manifests \union Unnormalized
        /\ registered' = LET known == registered \union (Unnormalized \ Undescribable)
                         IN known \union Inserted(manifests' \ known)
        /\ NoFault
     \/ UNCHANGED <<ready, registered>> /\ Fault
  /\ UNCHANGED <<today, store, rows, queue, run>>

Init ==
  /\ today = 1 /\ night = "day"
  /\ landing = {} /\ received = [d \in Deliveries |-> 0] /\ control = {}
  /\ manifests = {} /\ parts = {} /\ raw = {} /\ ever = {}
  /\ registered = {} /\ queue = {} /\ run = NoRun /\ faults = 0

Dag == Resolve \/ Normalize \/ Ingest \/ \E k \in Deliveries \union {None} : StartRun(k)
Night == NightFalls \/ ExpireRaw \/ SweepLanding \/ SweepReady \/ ReconcileRegistry

Next == \/ \E d \in Deliveries : Land(d) \/ LandControl(d)
        \/ RunByHand
        \/ Dag
        \/ Night

\* Airflow runs what is asked for, whatever the order, and the nightly schedule.
Fairness == WF_vars(Dag) /\ WF_vars(Night)

Spec == Init /\ [][Next]_vars /\ Fairness

(***************************************************************************)
(* Properties.                                                             *)
(***************************************************************************)
\* Types of the state.
TypeOK ==
  /\ today \in 1 .. MaxDay
  /\ night \in {"day", "raw", "landing", "ready", "registry"}
  /\ received \in [Deliveries -> 0 .. MaxDay]
  /\ control \subseteq landing /\ raw \subseteq ever
  /\ landing \union manifests \union parts \union ever \union registered \subseteq Deliveries
  /\ queue \subseteq Deliveries \union {None}
  /\ run \in [pc : {"none", "resolve", "normalize", "ingest"},
              key : Deliveries \union {None}]

(* What retention took out of Raw does not come back by itself: a DagRun that
   looks for work never picks an expired delivery ("ingest -> expire ->
   re-ingest -> expire, silently undoing the policy", find_pending), unless
   landing/ is empty, when nothing is known of the dates. *)
PollNeverRevives ==
  [][ (Resolve /\ run'.pc = "ingest" /\ landing # {})
        => run'.key \notin ever \ raw ]_vars

(* Expiry night by night, over what the nights before left, keeps all that one
   look at every date ever ingested would keep: "there is no window where this
   loses a date" (month_end_dates). *)
HistoryKept == KeepSet(Dates(ever)) \subseteq Dates(raw)

(* A manifest is a promise that its parts can be read: none is without them
   before its delivery was ingested ("a SILENT drop", retention/ready.py), but
   that of a delivery landing/ has let go, which a sweep may leave half deleted. *)
PartsUntilIngested == manifests \ (ever \union Orphans) \subseteq parts

(* The registry catches up with ready/ although register_quietly loses rows,
   but for a row older than one that cannot be written. *)
RegistryConverges ==
  \A d \in Deliveries \ Undescribable :
    d \in manifests ~>
      \/ d \in registered \/ d \notin manifests
      \/ \E u \in manifests \intersect Undescribable : Before(d, u)

\* A good delivery with its control file, of a date Raw would keep, and no
\* refused one before it among such dates.
Due(d) ==
  /\ Normalizable(d) /\ d \notin ever \union Bad
  /\ LET kept == KeptDates
     IN DateOf[d] \in kept /\ \A e \in Bad : DateOf[e] \in kept => First({d, e}) = d

(* As long as somebody keeps asking, every such delivery reaches Raw, whatever
   DagRun or ledger read was lost: the poll is what picks up "a landing object
   nobody triggered a run for at all" (feed_ingest). *)
PollsDeliver ==
  ([]<>(run.pc = "resolve")) =>
     \A d \in Deliveries : Due(d) ~> (d \in ever \/ ~Due(d))

(* A control file's DagRun "picks up whichever waiting delivery this control
   file has just unblocked" (inbox._trigger). *)
UnblockedIsIngested ==
  \A d \in Late \ (Bad \union Unreadable) :
    (Normalizable(d) /\ None \in queue) ~> (d \in ever \/ ~Normalizable(d))

(***************************************************************************)
(* The inductive invariant of Landing_proofs.                              *)
(***************************************************************************)
\* The feed's file names sort by their dates.
KeysFollowDates ==
  \A i, j \in DOMAIN Order : i < j => DateOf[Order[i]] <= DateOf[Order[j]]

Arrived(d) == received[d] # 0

\* Whatever is in ready/ or was in Raw came by landing/.
AllArrived == \A d \in landing \union manifests \union ever : Arrived(d)

\* What Raw lost, no look at every date ever ingested would keep.
LostIsExpired == \A d \in ever \ raw : DateOf[d] \notin KeepSet(Dates(ever))

GoneIsOld == \A d \in Deliveries \ landing : Arrived(d) => DateOf[d] + LandingDays < today

\* landing/ loses its oldest dates first.
OldestGoFirst ==
  \A d \in landing, e \in Deliveries \ landing : Arrived(e) => DateOf[e] <= DateOf[d]

IInv ==
  /\ TypeOK
  /\ AllArrived /\ PartsUntilIngested
  /\ HistoryKept /\ LostIsExpired
  /\ GoneIsOld /\ (KeysFollowDates => OldestGoFirst)
=============================================================================
