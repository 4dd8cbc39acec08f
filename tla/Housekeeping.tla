---------------------------- MODULE Housekeeping ----------------------------
(***************************************************************************)
(* The nightly DagRun of airflow/dags/platform_housekeeping.py over the    *)
(* catalog and the warehouse: maintenance/maintain.py, the chain of        *)
(* retention/retention.py with orphan_storage.py, and the two checks that  *)
(* follow it (monitoring/reproducibility.py, monitoring/evidence.py).      *)
(* Beside it run what it must not harm: ingests that merge a date's rows   *)
(* into Raw and pin the commit, and builds that write the reporting table  *)
(* on a branch, merge it and pin main.                                     *)
(*                                                                         *)
(* A data file is the writer whose rows it holds and a generation, 2 once  *)
(* compaction rewrote it; a reference is the set of files of its head.     *)
(* Ages count nights, from 1, and stop growing when nothing depends on     *)
(* them any more.  One write pool serialises the tasks that commit or      *)
(* delete; opening a branch and pinning an ingest hold no slot of it.      *)
(***************************************************************************)
EXTENDS KeepRules

CONSTANTS
  Ingests,         \* what writes Raw: one file of one date each
  Builds,          \* what writes the reporting table
  DateOf,          \* per writer, its COB date
  Undated,         \* builds whose tag's commit time cannot be read
  TagDays,         \* published_tags' keep_years, in days, like all below
  SnapshotDays,    \* snapshot_tags
  LandingDays,     \* landing
  AbandonDays,     \* working_branches.abandoned_after_hours
  CutoffDays,      \* nessie_gc.default_cutoff
  DeferDays,       \* nessie_gc.deferred_delete_after_hours
  OrphanDays,      \* orphan_files.min_age_days
  RecentDays,      \* recent_partition_days
  None,
  MaxDay,          \* bound: dates stop here, nights do not
  MaxFaults        \* bound: steps that fail, wholly or in part

Writers == Ingests \union Builds
Files == Writers \X {1, 2}

ASSUME HousekeepingAssumptions ==
  /\ IsFiniteSet(Writers)
  /\ Ingests \intersect Builds = {} /\ None \notin Builds
  /\ \A w \in Writers : DateOf[w] \in DOMAIN MonthOf
  /\ Undated \subseteq Builds
  /\ {TagDays, SnapshotDays, LandingDays, AbandonDays, CutoffDays, DeferDays,
      OrphanDays, RecentDays, MaxDay, MaxFaults} \subseteq Nat
  /\ MaxDay # 0

VARIABLES
  today,
  night,       \* the nightly run's next step, or "day"
  main,        \* the files of main's head
  dropped,     \* per file, nights since main's head lost it, or 0
  branch,      \* per build, its branch: the head it forked from, and its age
  home,        \* per build, the build that created the table it wrote into
  pin,         \* per writer, its tag
  store,       \* the files in object storage
  deferred,    \* per file, nights since a sweep recorded it, or 0
  landing,     \* the ingests whose delivery is in landing/
  faults

vars == <<today, night, main, dropped, branch, home, pin, store, deferred,
          landing, faults>>

Fault == faults < MaxFaults /\ faults' = faults + 1
NoFault == UNCHANGED faults

(***************************************************************************)
(* Ages.                                                                   *)
(***************************************************************************)
Larger(m, n) == IF m > n THEN m ELSE n
Old(age, days) == age > days + 1
Grown(age, days) == IF age = 0 \/ Old(age, days) THEN age ELSE age + 1

BranchDays == Larger(AbandonDays, OrphanDays)
PinDays(w) == IF w \in Builds THEN TagDays ELSE SnapshotDays

(***************************************************************************)
(* References and what they hold.                                          *)
(***************************************************************************)
TableFiles(W) == W \X {1, 2}
Raw == TableFiles(Ingests)
Report == TableFiles(Builds)

OfDates(S) == {DateOf[f[1]] : f \in S}

\* A build rewrites its own date.
Built(b, S) == {f \in S : f \in Raw \/ DateOf[f[1]] # DateOf[b]} \union {<<b, 1>>}

BranchHead(b) ==
  CASE branch[b].pc = "open" -> branch[b].base
    [] branch[b].pc = "built" -> Built(b, branch[b].base)
    [] OTHER -> {}

Kept == {w \in Writers : pin[w].kept}

\* Every file of some reference's head.
Held == main \union (UNION {BranchHead(b) : b \in Builds})
             \union (UNION {pin[w].files : w \in Kept})

\* Where a file is in the warehouse: under the table it was written into.
Prefix(f) == IF f \in Raw THEN None ELSE home[f[1]]

\* The branches of B are deleted.
Without(B) ==
  [b \in Builds |-> IF b \in B THEN [branch[b] EXCEPT !.pc = "gone", !.base = {}]
                    ELSE branch[b]]

\* main's head becomes S.
SetMain(S) ==
  /\ main' = S
  /\ dropped' = [f \in Files |-> IF f \in S THEN 0
                                 ELSE IF f \in main THEN 1 ELSE dropped[f]]

(***************************************************************************)
(* Ingests and builds.  The write pool is free between the DAG's tasks.    *)
(***************************************************************************)
PoolFree == night \in {"day", "branches"}

\* Landing and ingest, in one commit of main; its snapshot tag comes later.
Ingest(i) ==
  /\ PoolFree /\ pin[i].age = 0 /\ today = DateOf[i]
  /\ SetMain(main \union {<<i, 1>>})
  /\ store' = store \union {<<i, 1>>}
  /\ landing' = landing \union {i}
  /\ pin' = [pin EXCEPT ![i].age = 1, ![i].files = main']
  /\ UNCHANGED <<today, night, branch, home, deferred, faults>>

\* record_snapshot: a tag at the ingest's own commit, or none if it fails.  Its
\* tries are over before a second night.
Untagged == {i \in Ingests : pin[i].files # {} /\ ~pin[i].kept}

RecordSnapshot(i) ==
  /\ i \in Untagged
  /\ \/ pin' = [pin EXCEPT ![i].kept = TRUE] /\ NoFault
     \/ pin' = [pin EXCEPT ![i].files = {}] /\ Fault
  /\ UNCHANGED <<today, night, main, dropped, branch, home, store, deferred, landing>>

\* A build is about the newest date Raw has.
OpenBuild(b) ==
  /\ branch[b].pc = "none"
  /\ \E f \in main \intersect Raw : DateOf[f[1]] = DateOf[b]
  /\ \A d \in OfDates(main \intersect Raw) : d <= DateOf[b]
  /\ branch' = [branch EXCEPT ![b].pc = "open", ![b].base = main]
  /\ UNCHANGED <<today, night, main, dropped, home, pin, store, deferred,
                 landing, faults>>

\* The models: the first build creates the table, and with it its prefix.
Build(b) ==
  /\ PoolFree /\ branch[b].pc = "open"
  /\ branch' = [branch EXCEPT ![b].pc = "built", ![b].age = 1]
  /\ home' = [home EXCEPT ![b] =
       IF branch[b].base \intersect Report = {} THEN b
       ELSE CHOOSE p \in Builds : \E f \in branch[b].base \intersect Report : home[f[1]] = p]
  /\ store' = store \union {<<b, 1>>}
  /\ UNCHANGED <<today, night, main, dropped, pin, deferred, landing, faults>>

\* What the run read, off its branch.
Inputs(b) == {f[1] : f \in branch[b].base \intersect Raw}

\* The merge, refused if main's table changed since the branch forked; the
\* branch goes and main's head is tagged, unless the task dies in between.
Publish(b) ==
  /\ PoolFree /\ branch[b].pc = "built"
  /\ main \intersect Report = branch[b].base \intersect Report
  /\ SetMain((main \intersect Raw) \union (BranchHead(b) \intersect Report))
  /\ \/ /\ branch' = Without({b})
        /\ pin' = [pin EXCEPT ![b] =
             [kept |-> TRUE, age |-> 1, files |-> main', inputs |-> Inputs(b)]]
        /\ NoFault
     \/ branch' = Without({b}) /\ UNCHANGED pin /\ Fault
     \/ UNCHANGED <<branch, pin>> /\ Fault
  /\ UNCHANGED <<today, night, home, store, deferred, landing>>

(***************************************************************************)
(* The night.  A step that fails ends the task, which is tried again or    *)
(* left for the next night; what it had done stays done.                   *)
(***************************************************************************)
\* Mutant of Following: tags are expired behind the sweep they make room for.
Following_TagsLast(step) ==
  CASE step = "maintain" -> "branches" [] step = "branches" -> "gc"
    [] step = "gc" -> "deferred"       [] step = "deferred" -> "rows"
    [] step = "rows" -> "landing"      [] step = "landing" -> "orphans"
    [] step = "orphans" -> "tags"      [] step = "tags" -> "day"

Following(step) ==
  CASE step = "maintain" -> "branches" [] step = "branches" -> "tags"
    [] step = "tags" -> "gc"           [] step = "gc" -> "deferred"
    [] step = "deferred" -> "rows"     [] step = "rows" -> "landing"
    [] step = "landing" -> "orphans"   [] step = "orphans" -> "day"

\* A step that raises; one whose failure the chain only records goes on.
Stops(step) == Fault /\ night' \in {"branches", "day"}
Goes(step) == night' = Following(step)
Done(step, all) == Goes(step) /\ IF all THEN NoFault ELSE Fault

NightFalls ==
  /\ night = "day" /\ night' = "maintain"
  /\ \A i \in Untagged : pin[i].age = 1
  /\ today' = IF today < MaxDay THEN today + 1 ELSE today
  /\ dropped' = [f \in Files |-> Grown(dropped[f], CutoffDays)]
  /\ deferred' = [f \in Files |-> Grown(deferred[f], DeferDays)]
  /\ branch' = [b \in Builds |-> [branch[b] EXCEPT !.age = Grown(@, BranchDays)]]
  /\ pin' = [w \in Writers |-> [pin[w] EXCEPT !.age = Grown(@, PinDays(w))]]
  /\ UNCHANGED <<main, home, store, landing, faults>>

\* Compaction, of whichever tables the thresholds pick, in the recent dates.
Recent(f) == today <= DateOf[f[1]] + RecentDays
Rewritten(T) ==
  {IF f \in T /\ Recent(f) THEN <<f[1], 2>> ELSE f : f \in main}

Maintain ==
  /\ night = "maintain"
  /\ \E T \in {{}, Raw, Report, Raw \union Report} :
       /\ SetMain(Rewritten(T))
       /\ store' = store \union Rewritten(T)
  /\ \/ Goes("maintain") /\ NoFault
     \/ night' = "day" /\ Fault
  /\ UNCHANGED <<today, branch, home, pin, deferred, landing>>

\* Configured windows that let landing/ expire before a pin stop the chain.
WindowsHold == LandingDays >= TagDays

\* A branch without a commit of its own has no age, and stays.
Abandoned == {b \in Builds : branch[b].pc = "built" /\ Old(branch[b].age, AbandonDays)}

SweepBranches ==
  /\ night = "branches"
  /\ IF WindowsHold
     THEN \E B \in SUBSET Abandoned :
            /\ branch' = Without(B)
            /\ \/ B = Abandoned /\ Goes("branches") /\ NoFault
               \/ B # Abandoned /\ Stops("branches")
     ELSE night' = "day" /\ UNCHANGED <<branch, faults>>
  /\ UNCHANGED <<today, main, dropped, home, pin, store, deferred, landing>>

\* Mutant of Expired: by the date the tag is about.
Expired_ByDate(w) == today > DateOf[w] + PinDays(w)

\* By when the commit was made, or the date it is about if that is unreadable.
Expired(w) ==
  IF w \in Undated THEN today > DateOf[w] + PinDays(w) ELSE Old(pin[w].age, PinDays(w))

\* Published tags, then snapshot tags.
ExpireTags ==
  /\ night = "tags"
  /\ LET expired == {w \in Kept : Expired(w)}
     IN \E W \in SUBSET expired :
          /\ pin' = [w \in Writers |->
                      IF w \in W THEN [pin[w] EXCEPT !.kept = FALSE, !.files = {}]
                      ELSE pin[w]]
          /\ \/ W = expired /\ Goes("tags") /\ NoFault
             \/ W # expired /\ Stops("tags")
  /\ UNCHANGED <<today, main, dropped, branch, home, store, deferred, landing>>

\* Mutant of Live: main's history alone.
Live_MainOnly == main \union {f \in Files : dropped[f] \in 1 .. CutoffDays + 1}

\* mark-live: every head, and the commits of main younger than the cutoff.
Live == Held \union {f \in Files : dropped[f] \in 1 .. CutoffDays + 1}

\* sweep --defer-deletes: what lies beside live content and is not.
Garbage == {f \in store \ Live : Prefix(f) \in {Prefix(g) : g \in Live}}

CollectGarbage ==
  /\ night = "gc"
  /\ \/ /\ deferred' = [f \in Files |->
             IF f \in Garbage /\ deferred[f] = 0 THEN 1 ELSE deferred[f]]
        /\ Goes("gc") /\ NoFault
     \/ UNCHANGED deferred /\ Stops("gc")
  /\ UNCHANGED <<today, main, dropped, branch, home, pin, store, landing>>

\* What was recorded long enough ago; a pass cut short leaves the records, and
\* hands them over again.  Its failure is only reported.
DeleteDeferred ==
  /\ night = "deferred"
  /\ LET due == {f \in Files : Old(deferred[f], DeferDays)}
     IN \E S \in SUBSET due :
          /\ store' = store \ S
          /\ deferred' = IF S = due THEN [f \in Files |-> IF f \in S THEN 0 ELSE deferred[f]]
                         ELSE deferred
          /\ Done("deferred", S = due)
  /\ UNCHANGED <<today, main, dropped, branch, home, pin, landing>>

\* Per table, the dates its policy keeps; one table's failure is not another's.
ExpiredRows(T) == {f \in main \intersect T : DateOf[f[1]] \in ExpireSet(OfDates(main \intersect T))}

ExpireRows ==
  /\ night = "rows"
  /\ \E Tables \in SUBSET {Raw, Report} :
       /\ SetMain(main \ UNION {ExpiredRows(T) : T \in Tables})
       /\ Done("rows", Tables = {Raw, Report})
  /\ UNCHANGED <<today, branch, home, pin, store, deferred, landing>>

SweepLanding ==
  /\ night = "landing"
  /\ LET expired == {i \in landing : today > DateOf[i] + LandingDays}
     IN \E I \in SUBSET expired :
          landing' = landing \ I /\ Done("landing", I = expired)
  /\ UNCHANGED <<today, main, dropped, branch, home, pin, store, deferred>>

LivePrefixes == {Prefix(f) : f \in Held}

\* Mutant of Orphans: only what a sweep has recorded.
Orphans_Recorded ==
  {f \in store : LivePrefixes # {} /\ Prefix(f) \notin LivePrefixes /\ deferred[f] > 0}

\* Tables no reference knows, written to long enough ago; none if no reference
\* has a table.
Orphans ==
  {f \in store : /\ LivePrefixes # {} /\ Prefix(f) \notin LivePrefixes
                 /\ Old(branch[f[1]].age, OrphanDays)}

\* Refused if a reference cannot be read.
SweepOrphans ==
  /\ night = "orphans"
  /\ \/ store' = store \ Orphans /\ Done("orphans", TRUE)
     \/ UNCHANGED store /\ Done("orphans", FALSE)
  /\ UNCHANGED <<today, main, dropped, branch, home, pin, deferred, landing>>

(***************************************************************************)
(* What the checks behind the chain say of a state; they only read.        *)
(***************************************************************************)
Published == Kept \intersect Builds

\* Pins that hold a file main does not: only these say anything.
Diverging == {b \in Published : pin[b].files \ main # {}}

\* The oldest of them; one whose commit time cannot be read comes last.
Oldest(S) ==
  {b \in S : \A c \in S \ {b} : \/ b \notin Undated /\ c \in Undated
                                \/ ((b \in Undated) = (c \in Undated)) /\ pin[b].age >= pin[c].age}

Reproducibility ==
  IF Diverging = {} THEN "not_yet_meaningful"
  ELSE IF \E b \in Oldest(Diverging) : pin[b].files \subseteq store THEN "reproduced" ELSE "BROKEN"

Evidence ==
  IF \A b \in Published : pin[b].inputs \subseteq landing THEN "backed" ELSE "BROKEN"

NoPin == [kept |-> FALSE, age |-> 0, files |-> {}, inputs |-> {}]

Init ==
  /\ today = 1 /\ night = "day"
  /\ main = {} /\ dropped = [f \in Files |-> 0]
  /\ branch = [b \in Builds |-> [pc |-> "none", base |-> {}, age |-> 0]]
  /\ home = [b \in Builds |-> None]
  /\ pin = [w \in Writers |-> NoPin]
  /\ store = {} /\ deferred = [f \in Files |-> 0]
  /\ landing = {} /\ faults = 0

Night ==
  \/ NightFalls \/ Maintain \/ SweepBranches \/ ExpireTags \/ CollectGarbage
  \/ DeleteDeferred \/ ExpireRows \/ SweepLanding \/ SweepOrphans

Next ==
  \/ \E i \in Ingests : Ingest(i) \/ RecordSnapshot(i)
  \/ \E b \in Builds : OpenBuild(b) \/ Build(b) \/ Publish(b)
  \/ Night

\* Airflow runs the night on schedule and ends the tasks it started; nothing
\* says a build is ever finished.
Fairness == WF_vars(Night) /\ WF_vars(\E i \in Ingests : RecordSnapshot(i))

Spec == Init /\ [][Next]_vars /\ Fairness

(***************************************************************************)
(* Properties.                                                             *)
(***************************************************************************)
\* Types of the state.
NightType ==
  /\ today \in 1 .. MaxDay /\ faults \in 0 .. MaxFaults
  /\ night \in {"day", "maintain", "branches", "tags", "gc", "deferred", "rows",
                "landing", "orphans"}
  /\ landing \subseteq Ingests

FilesType ==
  /\ main \subseteq Files /\ store \subseteq Files
  /\ dropped \in [Files -> 0 .. CutoffDays + 2]
  /\ deferred \in [Files -> 0 .. DeferDays + 2]

BranchType ==
  /\ branch \in [Builds -> [pc : {"none", "open", "built", "gone"},
                            base : SUBSET Files, age : 0 .. BranchDays + 2]]
  /\ home \in [Builds -> Builds \union {None}]

PinType ==
  pin \in [Writers -> [kept : BOOLEAN, age : Nat, files : SUBSET Files,
                       inputs : SUBSET Ingests]]

TypeOK == NightType /\ FilesType /\ BranchType /\ PinType

(* Whatever some reference holds can be read: no step of any night, failed,
   repeated or overlapping a build, deletes a file that main, an open or failed
   build, a publication or an ingest's tag still names ("a file can be
   unreferenced from main yet still live", nessie_gc). *)
PinsReadable == Held \subseteq store

(* A publication keeps its pin for its whole window, from the day it was made:
   "a restatement published today for an old COB date must survive its own
   full window" (expire_tags). *)
PublicationsKept ==
  \A b \in Builds :
    (pin[b].age # 0 /\ ~Old(pin[b].age, TagDays)) => pin[b].kept

(* What a night's sweeps of branches and tags released is on the same night's
   list of deletes, where a live table can see it: the GC "must run after
   everything that can release one" (retention.run). *)
NightListsGarbage ==
  [][ (night # "day" /\ night' = "day" /\ NoFault)
        => \A f \in Garbage' : deferred'[f] > 0 ]_vars

(* Storage comes back: once nothing is written any more, what is left in it is
   what references hold, whatever step failed before, and with it go the tables
   only a failed build made. *)
GarbageGoes == <>[](store \subseteq Held)

(* The window check lets no pin outlive the deliveries behind it: landing's
   window "is bound by check_reproducibility_window() to outlive the published
   tags of every report this feed reaches" (retention.yml). *)
EvidenceOutlivesPins == Evidence = "backed"

(***************************************************************************)
(* The inductive invariant of Housekeeping_proofs.                         *)
(***************************************************************************)
\* An ingest's tries, which a night may interrupt, end within the GC's cutoff
\* (expire refuses one shorter than the longest snapshot retention).
TriesWithinCutoff == CutoffDays >= 1

\* What references hold, and what a tag may still be put on.
Protected == Held \union UNION {pin[i].files : i \in Untagged}

Touched(f) == f \in store \/ deferred[f] # 0
WasMerged(b) == <<b, 1>> \in main \/ dropped[<<b, 1>>] # 0
Running(b) == branch[b].pc \in {"open", "built"}

\* A date of main's table T is d or later.
Reaches(T, d) == \E f \in main \intersect T : d <= DateOf[f[1]]

ProtectedIsSafe == \A f \in Protected : f \in store /\ deferred[f] = 0

\* The GC still takes an untagged commit's files for live.
UntaggedIsRecent ==
  \A i \in Untagged :
    /\ pin[i].age \in {1, 2}
    /\ \A f \in pin[i].files : f \in main \/ dropped[f] \in 1 .. pin[i].age

\* Nobody writes a file that a sweep has seen.
FilesAreNew ==
  /\ \A i \in Ingests : pin[i].age = 0 => \A g \in {1, 2} : ~Touched(<<i, g>>)
  /\ \A b \in Builds : branch[b].pc \in {"none", "open"} =>
       ~WasMerged(b) /\ \A g \in {1, 2} : ~Touched(<<b, g>>)
  /\ \A w \in Writers : <<w, 1>> \in main => ~Touched(<<w, 2>>)
  /\ \A b \in Builds : Touched(<<b, 2>>) => WasMerged(b)

\* Tables of main are never emptied, nor lose their newest date.
TablesReach ==
  /\ \A f \in Raw : Touched(f) => Reaches(Raw, DateOf[f[1]])
  /\ \A b \in Builds : Running(b) \/ WasMerged(b) => Reaches(Raw, DateOf[b])
  /\ \A b \in Builds : WasMerged(b) => Reaches(Report, DateOf[b])

\* A build starts from what was merged before it, and is about no earlier date.
BasesAreOlder ==
  \A b \in Builds : Running(b) =>
    \A f \in branch[b].base \intersect Report :
      WasMerged(f[1]) /\ f[1] # b /\ DateOf[f[1]] <= DateOf[b]

\* main has moved on from the base of a branch merged once, and never is that
\* base again.
MergedOnce ==
  \A b \in Builds : WasMerged(b) /\ branch[b].pc = "built" =>
    \E f \in main \intersect Report :
      DateOf[b] <= DateOf[f[1]] /\ \A g \in branch[b].base : g[1] # f[1]

\* What was ever merged is in one table.
OneHome ==
  /\ \A b \in Builds : branch[b].pc = "built" =>
       /\ home[b] \in Builds
       /\ \A f \in branch[b].base \intersect Report : home[f[1]] = home[b]
  /\ \A b, c \in Builds : WasMerged(b) /\ WasMerged(c) =>
       home[b] = home[c] /\ home[b] \in Builds

\* Behind the GC, what is garbage is listed.
ListedTonight ==
  night \in {"deferred", "rows", "landing", "orphans"} =>
    \A f \in Garbage : deferred[f] > 0

IInv ==
  /\ TypeOK
  /\ FilesAreNew /\ TablesReach /\ BasesAreOlder /\ MergedOnce /\ OneHome
  /\ UntaggedIsRecent /\ ProtectedIsSafe /\ ListedTonight
=============================================================================
