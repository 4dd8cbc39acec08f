-------------------------- MODULE Publication_proofs --------------------------
(***************************************************************************)
(* Proofs about Publication, for any builds, reports, Deliveries, dates,   *)
(* operators and bounds: the inductive invariant IInv and the safety       *)
(* properties that follow from it.                                         *)
(***************************************************************************)
EXTENDS Publication, FiniteSetTheorems, SequenceTheorems, WellFoundedInduction, TLAPS

Commits == [raw: Seq(Deliveries), prepared: SUBSET Deliveries,
            reporting: SUBSET Deliveries, by: Builds \union {"raw", "prepared"}]

(***************************************************************************)
(* Dates and sets.                                                         *)
(***************************************************************************)
\* A set of natural numbers has a least element.
LEMMA LeastNatural ==
  ASSUME NEW T \in SUBSET Nat, T # {}
  PROVE  \E m \in T : \A k \in T : m <= k
<1>1. IsWellFoundedOn(OpToRel(<, Nat), Nat)
  BY NatLessThanWellFounded
<1>2. PICK x \in T : \A y \in T : ~ (<<y, x>> \in OpToRel(<, Nat))
  BY <1>1, WFMin
<1>3. \A y \in T : ~(y < x)
  BY <1>2 DEF OpToRel
<1>. QED
  BY <1>3

\* A finite set has an element whose number is largest: the one with the fewest
\* above it.
LEMMA GreatestOfFinite ==
  ASSUME NEW S, IsFiniteSet(S), S # {}, NEW f, \A x \in S : f[x] \in Nat
  PROVE  \E x \in S : \A y \in S : f[y] <= f[x]
<1>. DEFINE Above(x) == {y \in S : f[y] > f[x]}
            Counts == {Cardinality(Above(x)) : x \in S}
<1>1. \A x \in S : IsFiniteSet(Above(x)) /\ Cardinality(Above(x)) \in Nat
  BY FS_Subset, FS_CardinalityType
<1>2. Counts \in SUBSET Nat /\ Counts # {}
  BY <1>1
<1>3. PICK m \in Counts : \A k \in Counts : m <= k
  <2>. HIDE DEF Counts
  <2>. QED
    BY <1>2, LeastNatural
<1>4. PICK x \in S : m = Cardinality(Above(x))
  BY <1>3
<1>5. \A y \in S : Cardinality(Above(x)) <= Cardinality(Above(y))
  BY <1>3, <1>4
<1>6. ASSUME NEW y \in S, ~(f[y] <= f[x])
      PROVE  FALSE
  <2>1. Above(y) \in SUBSET Above(x) /\ y \in Above(x) /\ y \notin Above(y)
    BY <1>6
  <2>2. Cardinality(Above(y)) <= Cardinality(Above(x))
    BY <1>1, <2>1, FS_Subset
  <2>3. /\ Cardinality(Above(x)) <= Cardinality(Above(y))
        /\ Cardinality(Above(x)) \in Nat /\ Cardinality(Above(y)) \in Nat
        /\ IsFiniteSet(Above(x))
    BY <1>1, <1>5
  <2>. HIDE DEF Above
  <2>4. Above(y) = Above(x)
    BY <2>1, <2>2, <2>3, FS_Subset
  <2>. QED
    BY <2>1, <2>4
<1>. QED
  BY <1>6

\* LatestDate is what its name says.
LEMMA LatestDateIsLatest ==
  ASSUME NEW S \in SUBSET Deliveries, IsFiniteSet(S)
  PROVE  /\ LatestDate(S) \in Dates \union {0}
         /\ S = {} <=> LatestDate(S) = 0
         /\ S # {} => \E x \in S : DateOf[x] = LatestDate(S)
         /\ \A x \in S : DateOf[x] <= LatestDate(S)
<1>0. \A x \in S : DateOf[x] \in Nat \ {0} /\ DateOf[x] \in Dates
  BY PublicationAssumptions DEF Dates
<1>1. CASE S = {}
  BY <1>1 DEF LatestDate
<1>2. CASE S # {}
  <2>1. PICK x \in S : \A y \in S : DateOf[y] <= DateOf[x]
    BY <1>0, <1>2, GreatestOfFinite
  <2>2. \E d \in Dates : (\E y \in S : DateOf[y] = d) /\ (\A y \in S : DateOf[y] <= d)
    BY <1>0, <2>1
  <2>3. LatestDate(S) = CHOOSE d \in Dates : /\ \E y \in S : DateOf[y] = d
                                             /\ \A y \in S : DateOf[y] <= d
    BY <1>2 DEF LatestDate
  <2>. QED
    BY <1>0, <1>2, <2>2, <2>3
<1>. QED
  BY <1>1, <1>2

\* The newest Deliveries of a raw table are finitely many of its own.
LEMMA NewestType ==
  ASSUME NEW raw \in Seq(Deliveries)
  PROVE  Newest(raw) \in SUBSET Deliveries /\ IsFiniteSet(Newest(raw))
<1>. DEFINE All == {raw[i] : i \in 1 .. Len(raw)}
<1>1. Newest(raw) \in SUBSET All /\ All \in SUBSET Deliveries
  BY DEF Newest
<1>2. raw \in Surjection(1 .. Len(raw), All)
  BY DEF Surjection
<1>3. IsFiniteSet(1 .. Len(raw))
  BY FS_Interval
<1>4. IsFiniteSet(All)
  <2>. HIDE DEF All
  <2>. QED
    BY <1>2, <1>3, FS_Surjection
<1>. QED
  BY <1>1, <1>4, FS_Subset

\* insert_overwrite writes Deliveries of source and target, loses no date of the
\* target, and shows what the source has of its latest date as long as the target
\* has no date the source has not.
LEMMA RewrittenFacts ==
  ASSUME NEW source \in SUBSET Deliveries, NEW target \in SUBSET Deliveries
  PROVE  /\ Rewritten(source, target) \in SUBSET Deliveries
         /\ IsFiniteSet(source) /\ IsFiniteSet(target)
              => IsFiniteSet(Rewritten(source, target))
         /\ DatesOf(target) \subseteq DatesOf(Rewritten(source, target))
         /\ DatesOf(Rewritten(source, target)) \subseteq DatesOf(source) \union DatesOf(target)
         /\ IsFiniteSet(source) /\ DatesOf(target) \subseteq DatesOf(source) =>
              OnDate(Rewritten(source, target), LatestDate(source))
                = OnDate(source, LatestDate(source))
<1>1. Rewritten(source, target) \in SUBSET (source \union target)
  BY DEF Rewritten
<1>2. IsFiniteSet(source) /\ IsFiniteSet(target) => IsFiniteSet(Rewritten(source, target))
  BY <1>1, FS_Union, FS_Subset
<1>3. DatesOf(target) \subseteq DatesOf(Rewritten(source, target))
  BY DEF DatesOf, Rewritten
<1>4. DatesOf(Rewritten(source, target)) \subseteq DatesOf(source) \union DatesOf(target)
  BY <1>1 DEF DatesOf
<1>5. ASSUME IsFiniteSet(source), DatesOf(target) \subseteq DatesOf(source)
      PROVE  OnDate(Rewritten(source, target), LatestDate(source))
               = OnDate(source, LatestDate(source))
  <2>. DEFINE d == LatestDate(source)
              window == {x \in source : \A y \in target : DateOf[x] + Lookback >= DateOf[y]}
  <2>0. /\ \A x \in Deliveries : DateOf[x] \in Nat \ {0}
        /\ Lookback \in Nat
    BY PublicationAssumptions
  <2>1. /\ source = {} <=> d = 0
        /\ source # {} => \E x \in source : DateOf[x] = d
        /\ \A x \in source : DateOf[x] <= d
    BY <1>5, LatestDateIsLatest
  <2>2. \A y \in target : DateOf[y] <= d
    <3>. SUFFICES ASSUME NEW y \in target PROVE DateOf[y] <= d
      OBVIOUS
    <3>1. PICK x \in source : DateOf[x] = DateOf[y]
      BY <1>5 DEF DatesOf
    <3>. QED
      BY <2>1, <3>1
  <2>3. \A x \in source : DateOf[x] = d => x \in window
    BY <2>0, <2>2
  <2>. HIDE DEF d
  <2>4. Rewritten(source, target)
          = window \union {y \in target : \A x \in window : DateOf[x] # DateOf[y]}
    BY DEF Rewritten
  <2>5. OnDate(Rewritten(source, target), d) \subseteq OnDate(source, d)
    <3>. SUFFICES ASSUME NEW z \in Rewritten(source, target), DateOf[z] = d
                  PROVE  z \in source
      BY DEF OnDate
    <3>1. CASE source = {}
      BY <1>5, <2>4, <3>1 DEF DatesOf
    <3>2. CASE source # {}
      <4>1. PICK x \in source : DateOf[x] = d
        BY <2>1, <3>2
      <4>. QED
        BY <2>3, <2>4, <4>1
    <3>. QED
      BY <3>1, <3>2
  <2>6. OnDate(source, d) \subseteq OnDate(Rewritten(source, target), d)
    BY <2>3, <2>4 DEF OnDate
  <2>. QED
    BY <2>5, <2>6 DEF d
<1>. QED
  BY <1>1, <1>2, <1>3, <1>4, <1>5
-----------------------------------------------------------------------------
(***************************************************************************)
(* What a step does to `main`.                                             *)
(***************************************************************************)
LEMMA MainType ==
  ASSUME TypeOK
  PROVE  /\ main \in Seq(Commits)
         /\ Tip \in Nat
         /\ \A i \in 1 .. Tip : main[i] \in Commits
         /\ main # <<>> => Tip \in 1 .. Tip /\ Current = main[Tip]
         /\ main = <<>> => Tip = 0
         /\ Current.raw \in Seq(Deliveries)
         /\ Current.prepared \in SUBSET Deliveries
         /\ Current.reporting \in SUBSET Deliveries
<1>1. main \in Seq(Commits)
  BY DEF TypeOK, CatalogType, Commits
<1>2. Tip \in Nat /\ \A i \in 1 .. Tip : main[i] \in Commits
  BY <1>1 DEF Tip
<1>3. CASE main = <<>>
  BY <1>1, <1>2, <1>3 DEF Current, Tip
<1>4. CASE main # <<>>
  <2>1. Tip \in 1 .. Tip
    BY <1>1, <1>2, <1>4 DEF Tip
  <2>2. Current = main[Tip] /\ main[Tip] \in Commits
    BY <1>2, <1>4, <2>1 DEF Current
  <2>. QED
    BY <1>1, <1>2, <1>4, <2>1, <2>2 DEF Commits
<1>. QED
  BY <1>3, <1>4

LEMMA AppendEffect ==
  ASSUME TypeOK, NEW c \in Commits, main' = Append(main, c)
  PROVE  /\ main' \in Seq(Commits)
         /\ Tip' = Tip + 1
         /\ \A i \in 1 .. Tip : main'[i] = main[i]
         /\ main'[Tip + 1] = c
         /\ Current' = c
<1>1. main \in Seq(Commits) /\ Tip \in Nat
  BY MainType
<1>2. /\ main' \in Seq(Commits)
      /\ main' # <<>>
      /\ Len(main') = Len(main) + 1
      /\ \A i \in 1 .. Len(main) : main'[i] = main[i]
      /\ main'[Len(main) + 1] = c
  BY <1>1, AppendProperties
<1>3. Current' = main'[Tip']
  BY <1>2 DEF Current
<1>. QED
  BY <1>1, <1>2, <1>3 DEF Tip

\* The commit a step makes, if it makes one.
LEMMA ArriveCommit ==
  ASSUME TypeOK, NEW x \in Deliveries, Arrive(x)
  PROVE  \E c \in Commits :
           /\ main' = Append(main, c)
           /\ c.prepared = Current.prepared /\ c.reporting = Current.reporting
           /\ c.by = "raw"
<1>1. Append(Current.raw, x) \in Seq(Deliveries)
  BY MainType, AppendProperties
<1>2. [raw |-> Append(Current.raw, x), prepared |-> Current.prepared,
       reporting |-> Current.reporting, by |-> "raw"] \in Commits
  BY <1>1, MainType DEF Commits
<1>. QED
  BY <1>2 DEF Arrive

LEMMA PreparedCommit ==
  ASSUME TypeOK, PublishPrepared
  PROVE  \E c \in Commits, source \in SUBSET Deliveries :
           /\ IsFiniteSet(source)
           /\ main' = Append(main, c)
           /\ c.prepared = Rewritten(source, Current.prepared)
           /\ c.reporting = Current.reporting
           /\ c.by = "prepared"
<1>1. PICK k \in touched["prepared"] .. Tip \ {0} :
        main' = Append(main, [raw |-> Current.raw,
                 prepared |-> Rewritten(Newest(main[k].raw), Current.prepared),
                 reporting |-> Current.reporting, by |-> "prepared"])
  BY DEF PublishPrepared
<1>2. k \in 1 .. Tip
  BY <1>1, MainType DEF TypeOK, CatalogType, Layers
<1>3. main[k].raw \in Seq(Deliveries)
  BY <1>2, MainType DEF Commits
<1>4. Newest(main[k].raw) \in SUBSET Deliveries /\ IsFiniteSet(Newest(main[k].raw))
  BY <1>3, NewestType
<1>5. Rewritten(Newest(main[k].raw), Current.prepared) \in SUBSET Deliveries
  BY <1>4, MainType, RewrittenFacts
<1>6. [raw |-> Current.raw,
       prepared |-> Rewritten(Newest(main[k].raw), Current.prepared),
       reporting |-> Current.reporting, by |-> "prepared"] \in Commits
  BY <1>5, MainType DEF Commits
<1>. QED
  BY <1>1, <1>4, <1>6

LEMMA BuildCommit ==
  ASSUME TypeOK, NEW b \in Builds, CommitMerge(b)
  PROVE  \E c \in Commits :
           /\ main' = Append(main, c)
           /\ c.prepared = Current.prepared /\ c.reporting = branch[b].reporting
           /\ c.by = b
<1>1. branch[b].reporting \in SUBSET Deliveries
  BY DEF TypeOK, CatalogType
<1>2. [raw |-> Current.raw, prepared |-> Current.prepared,
       reporting |-> branch[b].reporting, by |-> b] \in Commits
  BY <1>1, MainType DEF Commits
<1>. QED
  BY <1>2 DEF CommitMerge

\* Who commits.
Merges(b) == Merge(b) \/ MergeReplyLost(b)

LEMMA MergesWhen ==
  ASSUME NEW b \in Builds, Merges(b)
  PROVE  pc[b] = "merge" /\ Mergeable(b) /\ CommitMerge(b) /\ branch' = branch
BY DEF Merges, Merge, MergeReplyLost

LEMMA WhoCommits ==
  ASSUME Next
  PROVE  \/ main' = main
         \/ \E x \in Deliveries : Arrive(x)
         \/ PublishPrepared
         \/ \E b \in Builds : Merges(b)
<1>. USE DEF catalog
<1>0. Reconcile => main' = main
  BY DEF Reconcile
<1>1. ASSUME NEW b \in Builds, OpenBuild(b) \/ Step(b) \/ Failure(b)
      PROVE  main' = main \/ Merges(b)
  BY <1>1 DEF OpenBuild, Step, Failure, Build, BeginPublish, ReadInputs, InputsUnread,
              Gate, Merge, MergeRefused, DropBranch, Finish, KeepFailedBranch, PinReport,
              BuildFails, MergeReplyLost, Crash, Merges
<1>2. ASSUME Command \/ \E o \in Operators : WriteTransition(o)
      PROVE  main' = main
  BY <1>2 DEF Command, Lock, Submit, CheckReopen, WriteTransition
<1>. QED
  BY <1>0, <1>1, <1>2 DEF Next

\* `main` only grows, by one commit at a time.
LEMMA MainGrows ==
  ASSUME TypeOK, [Next]_vars
  PROVE  /\ main' \in Seq(Commits)
         /\ Tip' \in Nat /\ Tip <= Tip' /\ Tip' <= Tip + 1
         /\ \A i \in 1 .. Tip : main'[i] = main[i]
         /\ main' = main => Tip' = Tip /\ Current' = Current
<1>0. main \in Seq(Commits) /\ Tip \in Nat
  BY MainType
<1>1. CASE main' = main
  BY <1>0, <1>1 DEF Tip, Current
<1>2. CASE main' # main
  <2>1. PICK c \in Commits : main' = Append(main, c)
    BY <1>2, WhoCommits, ArriveCommit, PreparedCommit, MergesWhen, BuildCommit DEF vars
  <2>2. /\ main' \in Seq(Commits)
        /\ Tip' = Tip + 1
        /\ \A i \in 1 .. Tip : main'[i] = main[i]
    BY <2>1, AppendEffect
  <2>. QED
    BY <1>0, <1>2, <2>2
<1>. QED
  BY <1>1, <1>2
-----------------------------------------------------------------------------
(***************************************************************************)
(* Who changes what else.                                                  *)
(***************************************************************************)
\* The branches, the run records, the tags and the DagRuns are the builds'.
LEMMA OnlyBuilds ==
  ASSUME Next
  PROVE  \/ \E b \in Builds : OpenBuild(b) \/ Step(b) \/ Failure(b)
         \/ UNCHANGED <<branch, runs, tags, pc, dagrun, local>>
<1>1. ASSUME NEW x \in Deliveries, Arrive(x)
      PROVE  UNCHANGED <<branch, runs, tags, pc, dagrun, local>>
  BY <1>1 DEF Arrive
<1>2. CASE PublishPrepared \/ Reconcile
  BY <1>2 DEF PublishPrepared, Reconcile, registry
<1>3. CASE Command
  BY <1>3 DEF Command, Lock, Submit, CheckReopen, registry
<1>4. ASSUME NEW o \in Operators, WriteTransition(o)
      PROVE  UNCHANGED <<branch, runs, tags, pc, dagrun, local>>
  BY <1>4 DEF WriteTransition, registry
<1>. QED
  BY <1>1, <1>2, <1>3, <1>4 DEF Next

LEMMA BranchChanges ==
  ASSUME [Next]_vars
  PROVE  branch' = branch \/ \E b \in Builds : OpenBuild(b) \/ Build(b) \/ DropBranch(b)
<1>1. ASSUME NEW b \in Builds, Step(b) \/ Failure(b)
      PROVE  branch' = branch \/ Build(b) \/ DropBranch(b)
  BY <1>1 DEF Step, Failure, BeginPublish, ReadInputs, InputsUnread, Gate, Merge,
              MergeRefused, Finish, KeepFailedBranch, PinReport, BuildFails,
              MergeReplyLost, Crash
<1>. QED
  BY <1>1, OnlyBuilds DEF vars

LEMMA StatusChanges ==
  ASSUME [Next]_vars
  PROVE  status' = status
           \/ \E b \in Builds : OpenBuild(b) \/ Finish(b) \/ KeepFailedBranch(b)
<1>. USE DEF registry, runs
<1>1. ASSUME NEW b \in Builds, Step(b) \/ Failure(b)
      PROVE  status' = status \/ Finish(b) \/ KeepFailedBranch(b)
  BY <1>1 DEF Step, Failure, Build, BeginPublish, ReadInputs, InputsUnread, Gate, Merge,
              MergeRefused, DropBranch, PinReport, BuildFails, MergeReplyLost, Crash
<1>. QED
  BY <1>1, OnlyBuilds DEF vars

LEMMA InputsChange ==
  ASSUME [Next]_vars
  PROVE  runInput' = runInput \/ \E b \in Builds : ReadInputs(b) \/ InputsUnread(b)
<1>. USE DEF registry, runs
<1>1. ASSUME NEW b \in Builds, OpenBuild(b) \/ Step(b) \/ Failure(b)
      PROVE  runInput' = runInput \/ ReadInputs(b) \/ InputsUnread(b)
  BY <1>1 DEF OpenBuild, Step, Failure, Build, BeginPublish, Gate, Merge, MergeRefused,
              DropBranch, Finish, KeepFailedBranch, PinReport, BuildFails,
              MergeReplyLost, Crash
<1>. QED
  BY <1>1, OnlyBuilds DEF vars

\* What is known of the Deliveries: registered when they arrive or are found
\* later, and looked up by a gate.
LEMMA IndexChanges ==
  ASSUME [Next]_vars
  PROVE  /\ \/ registered' = registered
            \/ Reconcile
            \/ \E x \in Deliveries : Arrive(x)
         /\ known' = known \/ \E b \in Builds : Gate(b)
<1>. USE DEF registry, index
<1>1. ASSUME NEW b \in Builds, OpenBuild(b) \/ Step(b) \/ Failure(b)
      PROVE  registered' = registered /\ (known' = known \/ Gate(b))
  BY <1>1 DEF OpenBuild, Step, Failure, Build, BeginPublish, ReadInputs, InputsUnread, Gate,
              Merge, MergeRefused, DropBranch, Finish, KeepFailedBranch, PinReport,
              BuildFails, MergeReplyLost, Crash
<1>2. ASSUME NEW x \in Deliveries, Arrive(x)
      PROVE  known' = known
  BY <1>2 DEF Arrive
<1>3. CASE PublishPrepared
  BY <1>3 DEF PublishPrepared
<1>4. CASE Reconcile
  BY <1>4 DEF Reconcile
<1>5. CASE Command
  BY <1>5 DEF Command, Lock, Submit, CheckReopen
<1>6. ASSUME NEW o \in Operators, WriteTransition(o)
      PROVE  UNCHANGED index
  BY <1>6 DEF WriteTransition
<1>. QED
  BY <1>1, <1>2, <1>3, <1>4, <1>5, <1>6 DEF Next, vars

\* Tags and versions are made where a report is pinned.
LEMMA PinsChange ==
  ASSUME [Next]_vars
  PROVE  UNCHANGED <<versions, tags>>
           \/ \E b \in Builds, rep \in Reports :
                /\ PinReport(b, rep)
                /\ tags' = tags \/ CutTag(b, rep)
                /\ versions' = versions \/ Number(b, rep)
<1>. USE DEF registry, runs
<1>1. ASSUME NEW b \in Builds, OpenBuild(b) \/ Step(b) \/ Failure(b)
      PROVE  UNCHANGED <<versions, tags>> \/ \E rep \in Reports : PinReport(b, rep)
  BY <1>1 DEF OpenBuild, Step, Failure, Build, BeginPublish, ReadInputs, InputsUnread, Gate,
              Merge, MergeRefused, DropBranch, Finish, KeepFailedBranch, BuildFails,
              MergeReplyLost, Crash
<1>2. ASSUME NEW b \in Builds, NEW rep \in Reports, PinReport(b, rep)
      PROVE  (tags' = tags \/ CutTag(b, rep)) /\ (versions' = versions \/ Number(b, rep))
  BY <1>2 DEF PinReport
<1>. QED
  BY <1>1, <1>2, OnlyBuilds DEF vars

LEMMA OpensChange ==
  ASSUME [Next]_vars
  PROVE  opens' = opens \/ \E b \in Builds : OpenBuild(b)
<1>. USE DEF dagrun
<1>1. ASSUME NEW b \in Builds, Step(b) \/ Failure(b)
      PROVE  opens' = opens
  BY <1>1 DEF Step, Failure, Build, BeginPublish, ReadInputs, InputsUnread, Gate,
              Merge, MergeRefused, DropBranch, Finish, KeepFailedBranch, PinReport,
              BuildFails, MergeReplyLost, Crash
<1>. QED
  BY <1>1, OnlyBuilds DEF vars

LEMMA KeptChanges ==
  ASSUME [Next]_vars
  PROVE  kept' = kept \/ \E b \in Builds : OpenBuild(b) \/ KeepFailedBranch(b)
<1>. USE DEF dagrun
<1>1. ASSUME NEW b \in Builds, Step(b) \/ Failure(b)
      PROVE  kept' = kept \/ KeepFailedBranch(b)
  BY <1>1 DEF Step, Failure, Build, BeginPublish, ReadInputs, InputsUnread, Gate,
              Merge, MergeRefused, DropBranch, Finish, PinReport, BuildFails,
              MergeReplyLost, Crash
<1>. QED
  BY <1>1, OnlyBuilds DEF vars

\* The lifecycle's history is the operators', and only grows.
LEMMA LogChanges ==
  ASSUME [Next]_vars
  PROVE  \/ log' = log
         \/ \E rep \in Reports, d \in Dates : Lock(rep, d)
         \/ \E o \in Operators : WriteTransition(o)
<1>. USE DEF lifecycle
<1>1. ASSUME NEW b \in Builds, OpenBuild(b) \/ Step(b) \/ Failure(b)
      PROVE  log' = log
  BY <1>1 DEF OpenBuild, Step, Failure, Build, BeginPublish, ReadInputs, InputsUnread, Gate,
              Merge, MergeRefused, DropBranch, Finish, KeepFailedBranch, PinReport,
              BuildFails, MergeReplyLost, Crash
<1>. QED
  BY <1>1 DEF Next, Command, Arrive, Reconcile, PublishPrepared, Submit, CheckReopen, vars
-----------------------------------------------------------------------------
(***************************************************************************)
(* Types.                                                                  *)
(***************************************************************************)
\* A build that has begun has a branch cut from a commit, whose prepared layer is
\* a finite set of Deliveries.
LEMMA PreparedOnType ==
  ASSUME TypeOK, CommitsSane, NEW b \in Builds, OpenedSane(b), pc[b] # "idle"
  PROVE  /\ branch[b].base \in 1 .. Tip
         /\ PreparedOn(b) \in SUBSET Deliveries
         /\ IsFiniteSet(PreparedOn(b))
<1>1. branch[b].base \in 1 .. Tip
  BY DEF OpenedSane
<1>. QED
  BY <1>1, MainType DEF PreparedOn, CommitsSane, Commits

LEMMA RecordType ==
  ASSUME LifecycleType, NEW rep \in Reports, NEW d \in Dates,
         NEW entry \in [state: States, approved: BOOLEAN], Record(rep, d, entry)
  PROVE  /\ log' \in [Reports -> [Dates -> Seq([state: States, approved: BOOLEAN])]]
         /\ log' = [log EXCEPT ![rep][d] = Append(log[rep][d], entry)]
<1>1. log[rep][d] \in Seq([state: States, approved: BOOLEAN])
  BY DEF LifecycleType
<1>2. Append(log[rep][d], entry) \in Seq([state: States, approved: BOOLEAN])
  BY <1>1, AppendProperties
<1>. QED
  BY <1>2 DEF Record, LifecycleType

LEMMA CatalogTypeKept ==
  ASSUME IInv, [Next]_vars PROVE CatalogType'
<1>. USE DEF catalog
<1>0. TypeOK /\ CatalogType /\ DagrunType /\ CommitsSane /\ Tip \in Nat
  BY MainType DEF IInv, TypeOK
<1>1. main' \in Seq(Commits)
  BY <1>0, MainGrows
<1>2. touched' \in [Layers -> Nat]
  <2>1. ASSUME NEW b \in Builds, OpenBuild(b) \/ Step(b) \/ Failure(b)
        PROVE  touched' \in [Layers -> Nat]
    BY <1>0, <2>1 DEF OpenBuild, Step, Failure, Build, BeginPublish, ReadInputs,
        InputsUnread, Gate, Merge, MergeRefused, DropBranch, Finish, KeepFailedBranch,
        PinReport, BuildFails, MergeReplyLost, Crash, CommitMerge, CatalogType
  <2>2. CASE PublishPrepared
    <3>1. touched' = [touched EXCEPT !["prepared"] = Tip + 1]
      BY <2>2 DEF PublishPrepared
    <3>2. touched \in [Layers -> Nat]
      BY <1>0 DEF CatalogType
    <3>3. Tip + 1 \in Nat
      BY <1>0
    <3>. QED
      BY <3>1, <3>2, <3>3
  <2>. QED
    BY <1>0, <2>1, <2>2 DEF Next, Arrive, Reconcile, Command, Lock, Submit, CheckReopen,
        WriteTransition, vars, CatalogType
<1>3. branch' \in [Builds -> [open: BOOLEAN, base: Nat, reporting: SUBSET Deliveries]]
  <2>1. ASSUME NEW b \in Builds, OpenBuild(b)
        PROVE  branch' \in [Builds -> [open: BOOLEAN, base: Nat, reporting: SUBSET Deliveries]]
    <3>1. Current.reporting \in SUBSET Deliveries
      BY <1>0, MainType
    <3>. QED
      BY <1>0, <2>1, <3>1 DEF OpenBuild, CatalogType
  <2>2. ASSUME NEW b \in Builds, Build(b)
        PROVE  branch' \in [Builds -> [open: BOOLEAN, base: Nat, reporting: SUBSET Deliveries]]
    <3>1. PreparedOn(b) \in SUBSET Deliveries
      BY <1>0, <2>2, PreparedOnType DEF Build, IInv, BuildInv
    <3>2. Rewritten(PreparedOn(b), branch[b].reporting) \in SUBSET Deliveries
      BY <1>0, <3>1, RewrittenFacts DEF CatalogType
    <3>. QED
      BY <1>0, <2>2, <3>2 DEF Build, CatalogType
  <2>3. ASSUME NEW b \in Builds, DropBranch(b)
        PROVE  branch' \in [Builds -> [open: BOOLEAN, base: Nat, reporting: SUBSET Deliveries]]
    BY <1>0, <2>3 DEF DropBranch, CatalogType
  <2>. QED
    BY <1>0, <2>1, <2>2, <2>3, BranchChanges DEF CatalogType
<1>4. tags' \subseteq [report: Reports, date: Dates, run: Builds, commit: Nat]
  <2>1. ASSUME NEW b \in Builds, NEW rep \in Reports, PinReport(b, rep), CutTag(b, rep)
        PROVE  tags' \subseteq [report: Reports, date: Dates, run: Builds, commit: Nat]
    <3>1. cob[b] \in Dates
      BY <1>0, <2>1 DEF PinReport, IInv, BuildInv, PublishSane, DagrunType
    <3>. QED
      BY <1>0, <2>1, <3>1 DEF CutTag, CatalogType
  <2>. QED
    BY <1>0, <2>1, PinsChange DEF CatalogType
<1>. QED
  BY <1>1, <1>2, <1>3, <1>4 DEF CatalogType, Commits

LEMMA RegistryTypeKept ==
  ASSUME IInv, [Next]_vars PROVE RegistryType'
<1>0. TypeOK /\ RegistryType /\ DagrunType /\ LifecycleType /\ CommitsSane
  BY DEF IInv, TypeOK
<1>1. status' \in [Builds -> {"none", "running", "published", "failed"}]
  BY <1>0, StatusChanges
     DEF OpenBuild, Finish, KeepFailedBranch, SetStatus, registry, runs, RegistryType
<1>2. runInput' \in [Builds -> SUBSET Deliveries]
  <2>1. ASSUME NEW b \in Builds, ReadInputs(b)
        PROVE  runInput' \in [Builds -> SUBSET Deliveries]
    <3>1. PreparedOn(b) \in SUBSET Deliveries
      BY <1>0, <2>1, PreparedOnType DEF ReadInputs, IInv, BuildInv
    <3>. QED
      BY <1>0, <2>1, <3>1 DEF ReadInputs, RegistryType
  <2>2. ASSUME NEW b \in Builds, InputsUnread(b)
        PROVE  runInput' \in [Builds -> SUBSET Deliveries]
    BY <1>0, <2>2 DEF InputsUnread, RegistryType
  <2>. QED
    BY <1>0, <2>1, <2>2, InputsChange DEF RegistryType
<1>3. versions' \in [Reports -> [Dates -> Seq([run: Builds, at: Nat])]]
  <2>1. ASSUME NEW b \in Builds, NEW rep \in Reports, PinReport(b, rep), Number(b, rep)
        PROVE  versions' \in [Reports -> [Dates -> Seq([run: Builds, at: Nat])]]
    <3>1. cob[b] \in Dates
      BY <1>0, <2>1 DEF PinReport, IInv, BuildInv, PublishSane, DagrunType
    <3>2. versions[rep][cob[b]] \in Seq([run: Builds, at: Nat])
      BY <1>0, <3>1 DEF RegistryType
    <3>3. log[rep][cob[b]] \in Seq([state: States, approved: BOOLEAN])
      BY <1>0, <3>1 DEF LifecycleType
    <3>4. [run |-> b, at |-> Len(log[rep][cob[b]])] \in [run: Builds, at: Nat]
      BY <3>3
    <3>5. Append(versions[rep][cob[b]], [run |-> b, at |-> Len(log[rep][cob[b]])])
            \in Seq([run: Builds, at: Nat])
      BY <3>2, <3>4, AppendProperties
    <3>. QED
      BY <1>0, <2>1, <3>1, <3>5 DEF Number, RegistryType
  <2>. QED
    BY <1>0, <2>1, PinsChange DEF RegistryType
<1>4. registered' \subseteq Deliveries
  <2>1. Current.raw \in Seq(Deliveries)
    BY <1>0, MainType
  <2>2. Unregistered \subseteq Deliveries
    BY <2>1 DEF Unregistered
  <2>. QED
    BY <1>0, <2>2, IndexChanges DEF Arrive, Reconcile, RegistryType
<1>5. known' \in [Builds -> SUBSET Deliveries]
  BY <1>0, IndexChanges DEF Gate, RegistryType
<1>. QED
  BY <1>1, <1>2, <1>3, <1>4, <1>5 DEF RegistryType

LEMMA LifecycleTypeKept ==
  ASSUME IInv, [Next]_vars PROVE LifecycleType'
<1>0. LifecycleType
  BY DEF IInv, TypeOK
<1>1. ASSUME NEW b \in Builds, OpenBuild(b) \/ Step(b) \/ Failure(b)
      PROVE  UNCHANGED lifecycle
  BY <1>1 DEF OpenBuild, Step, Failure, Build, BeginPublish, ReadInputs, InputsUnread, Gate,
              Merge, MergeRefused, DropBranch, Finish, KeepFailedBranch, PinReport,
              BuildFails, MergeReplyLost, Crash
<1>2. ASSUME NEW rep \in Reports, NEW d \in Dates, Lock(rep, d)
      PROVE  LifecycleType'
  <2>1. [state |-> "locked", approved |-> FALSE] \in [state: States, approved: BOOLEAN]
    BY DEF States
  <2>. QED
    BY <1>0, <1>2, <2>1, RecordType DEF Lock, LifecycleType
<1>3. ASSUME NEW o \in Operators, NEW rep \in Reports, NEW d \in Dates,
             Submit(o, rep, d) \/ \E approved \in BOOLEAN : CheckReopen(o, rep, d, approved)
      PROVE  LifecycleType'
  <2>1. PICK entry \in [state: States, report: Reports, date: Dates, approved: BOOLEAN] :
          pending' = [pending EXCEPT ![o] = entry]
    BY <1>3 DEF Submit, CheckReopen, States
  <2>2. UNCHANGED log
    BY <1>3 DEF Submit, CheckReopen
  <2>. QED
    BY <1>0, <2>1, <2>2 DEF LifecycleType
<1>4. ASSUME NEW o \in Operators, WriteTransition(o)
      PROVE  LifecycleType'
  <2>. DEFINE command == pending[o]
  <2>1. command \in [state: States, report: Reports, date: Dates, approved: BOOLEAN]
    BY <1>0, <1>4 DEF WriteTransition, LifecycleType
  <2>2. [state |-> command.state, approved |-> command.approved]
          \in [state: States, approved: BOOLEAN]
    BY <2>1
  <2>3. log' \in [Reports -> [Dates -> Seq([state: States, approved: BOOLEAN])]]
    BY <1>0, <1>4, <2>1, <2>2, RecordType DEF WriteTransition, LifecycleType
  <2>. QED
    BY <1>0, <1>4, <2>3 DEF WriteTransition, LifecycleType
<1>. QED
  BY <1>0, <1>1, <1>2, <1>3, <1>4
     DEF Next, Command, Arrive, Reconcile, PublishPrepared, lifecycle, vars, LifecycleType

LEMMA DagrunTypeKept ==
  ASSUME IInv, [Next]_vars PROVE DagrunType'
<1>. USE DEF Goto, TryFails, Fault, local, dagrun, Publishing, DagrunType
<1>0. TypeOK /\ DagrunType /\ CommitsSane
  BY DEF IInv, TypeOK
<1>t. MaxTries \in Nat /\ MaxOpens \in Nat /\ MaxFaults \in Nat
  BY PublicationAssumptions
<1>1. ASSUME NEW b \in Builds, OpenBuild(b) PROVE DagrunType'
  BY <1>0, <1>t, <1>1 DEF OpenBuild
<1>2. ASSUME NEW b \in Builds, Build(b) \/ Gate(b) \/ Merge(b) \/ MergeRefused(b) PROVE DagrunType'
  BY <1>0, <1>2 DEF Build, Gate, Merge, MergeRefused
<1>3. ASSUME NEW b \in Builds, BeginPublish(b) PROVE DagrunType'
  <2>1. tries[b] < MaxTries
    BY <1>3 DEF BeginPublish, IInv, BuildInv, PublishSane
  <2>. QED
    BY <1>0, <1>t, <1>3, <2>1 DEF BeginPublish
<1>4. ASSUME NEW b \in Builds, ReadInputs(b) PROVE DagrunType'
  <2>1. PreparedOn(b) \in SUBSET Deliveries /\ IsFiniteSet(PreparedOn(b))
    BY <1>0, <1>4, PreparedOnType DEF ReadInputs, IInv, BuildInv
  <2>2. LatestDate(PreparedOn(b)) \in Dates \union {0}
    BY <2>1, LatestDateIsLatest
  <2>. QED
    BY <1>0, <1>t, <1>4, <2>1, <2>2 DEF ReadInputs
<1>5. ASSUME NEW b \in Builds, InputsUnread(b) PROVE DagrunType'
  BY <1>0, <1>t, <1>5 DEF InputsUnread
<1>6. ASSUME NEW b \in Builds, DropBranch(b) PROVE DagrunType'
  BY <1>0, <1>6 DEF DropBranch
<1>7. ASSUME NEW b \in Builds, Finish(b) PROVE DagrunType'
  BY <1>0, <1>t, <1>7 DEF Finish
<1>8. ASSUME NEW b \in Builds, KeepFailedBranch(b) PROVE DagrunType'
  BY <1>0, <1>8 DEF KeepFailedBranch
<1>9. ASSUME NEW b \in Builds, NEW rep \in Reports, PinReport(b, rep) PROVE DagrunType'
  BY <1>0, <1>t, <1>9 DEF PinReport
<1>10. ASSUME NEW b \in Builds, Failure(b) PROVE DagrunType'
  BY <1>0, <1>t, <1>10 DEF Failure, BuildFails, MergeReplyLost, Crash
<1>11. ASSUME NEW o \in Operators, WriteTransition(o) PROVE DagrunType'
  BY <1>0, <1>t, <1>11 DEF WriteTransition
<1>12. ASSUME NEW x \in Deliveries, Arrive(x) PROVE DagrunType'
  <2>1. faults' = faults \/ Fault
    BY <1>12 DEF Arrive
  <2>2. faults' \in 0 .. MaxFaults
    BY <1>0, <2>1, PublicationAssumptions
  <2>3. UNCHANGED <<pc, tries, opens, kept, inputs, cob, todo>>
    BY <1>12 DEF Arrive
  <2>. QED
    BY <1>0, <2>2, <2>3
<1>13. CASE Reconcile \/ PublishPrepared \/ Command \/ UNCHANGED vars
  BY <1>0, <1>13 DEF Reconcile, PublishPrepared, Command, Lock, Submit, CheckReopen, vars
<1>. QED
  BY <1>1, <1>2, <1>3, <1>4, <1>5, <1>6, <1>7, <1>8, <1>9, <1>10, <1>11, <1>12, <1>13
     DEF Next, Step

LEMMA NextType == ASSUME IInv, [Next]_vars PROVE TypeOK'
  BY CatalogTypeKept, RegistryTypeKept, LifecycleTypeKept, DagrunTypeKept DEF TypeOK
-----------------------------------------------------------------------------
(***************************************************************************)
(* What a step leaves alone.                                               *)
(***************************************************************************)
\* A build that neither is opened nor takes a step stands where it stood.
Stands(b) ==
  UNCHANGED <<branch[b], status[b], runInput[b], pc[b], tries[b], opens[b], kept[b],
              inputs[b], cob[b], todo[b]>>

LEMMA OthersStand ==
  ASSUME TypeOK, [Next]_vars, NEW b \in Builds
  PROVE  OpenBuild(b) \/ Step(b) \/ Failure(b) \/ Stands(b)
<1>. USE DEF registry, runs, local, dagrun, Stands
<1>0. CatalogType /\ RegistryType /\ DagrunType
  BY DEF TypeOK
<1>1. ASSUME NEW c \in Builds, c # b, OpenBuild(c)
      PROVE  Stands(b)
  <2>. USE <1>0, <1>1 DEF OpenBuild, Goto
  <2>1. branch'[b] = branch[b]
    BY DEF CatalogType
  <2>2. status'[b] = status[b] /\ runInput'[b] = runInput[b]
    BY DEF RegistryType
  <2>. QED
    BY <2>1, <2>2 DEF DagrunType
<1>2. ASSUME NEW c \in Builds, c # b, Step(c) \/ Failure(c)
      PROVE  Stands(b)
  <2>1. branch'[b] = branch[b]
    BY <1>0, <1>2, OnlyBuilds DEF Step, Failure, Build, BeginPublish, ReadInputs,
       InputsUnread, Gate, Merge, MergeRefused, DropBranch, Finish, KeepFailedBranch,
       PinReport, BuildFails, MergeReplyLost, Crash, CatalogType
  <2>2. status'[b] = status[b] /\ runInput'[b] = runInput[b]
    BY <1>0, <1>2 DEF Step, Failure, Build, BeginPublish, ReadInputs,
       InputsUnread, Gate, Merge, MergeRefused, DropBranch, Finish, KeepFailedBranch,
       PinReport, BuildFails, MergeReplyLost, Crash, SetStatus, RegistryType
  <2>3. UNCHANGED <<pc[b], tries[b], opens[b], kept[b]>>
    BY <1>0, <1>2 DEF Step, Failure, Build, BeginPublish, ReadInputs,
       InputsUnread, Gate, Merge, MergeRefused, DropBranch, Finish, KeepFailedBranch,
       PinReport, BuildFails, MergeReplyLost, Crash, Goto, TryFails, DagrunType
  <2>4. UNCHANGED <<inputs[b], cob[b], todo[b]>>
    BY <1>0, <1>2 DEF Step, Failure, Build, BeginPublish, ReadInputs,
       InputsUnread, Gate, Merge, MergeRefused, DropBranch, Finish, KeepFailedBranch,
       PinReport, BuildFails, MergeReplyLost, Crash, DagrunType
  <2>. QED
    BY <2>1, <2>2, <2>3, <2>4
<1>3. CASE UNCHANGED <<branch, runs, pc, dagrun, local>>
  BY <1>3
<1>. QED
  BY <1>1, <1>2, <1>3, OnlyBuilds DEF vars

\* Only a build whose DagRun is not over takes a step.
LEMMA StepsAreOfTheLive ==
  ASSUME NEW b \in Builds, Step(b) \/ Failure(b)
  PROVE  ~Over(b)
BY DEF Step, Failure, Build, BeginPublish, ReadInputs, InputsUnread, Gate, Merge,
       MergeRefused, DropBranch, Finish, KeepFailedBranch, PinReport, BuildFails,
       MergeReplyLost, Crash, Publishing, Over

\* A DagRun that is over stays over until it is run again.
LEMMA OverStays ==
  ASSUME TypeOK, [Next]_vars, NEW b \in Builds, Over(b), ~OpenBuild(b)
  PROVE  Over(b)'
BY OthersStand, StepsAreOfTheLive DEF Over, Stands

LEMMA OpenBuildEffect ==
  ASSUME TypeOK, NEW b \in Builds, OpenBuild(b)
  PROVE  /\ Over(b) /\ opens'[b] = opens[b] + 1 /\ pc'[b] = "models"
         /\ tries'[b] = 0 /\ cob'[b] = 0 /\ inputs'[b] = {} /\ todo'[b] = {}
         /\ main' = main /\ touched' = touched /\ runInput' = runInput
         /\ versions' = versions /\ tags' = tags /\ log' = log
         /\ \A c \in Builds : Over(c)
BY DEF OpenBuild, TypeOK, DagrunType, Goto, lifecycle

\* With one DagRun at work, what the live build does not do is not done: `main`
\* gets only what raw ingestion and prepared_build merge.
LEMMA OnlyTheLiveMoves ==
  ASSUME OneAtATime, [Next]_vars, NEW b \in Builds, ~Over(b), ~Step(b), ~Failure(b)
  PROVE  /\ UNCHANGED <<branch, runs, tags, pc, dagrun, local>>
         /\ \/ main' = main
            \/ \E x \in Deliveries : Arrive(x)
            \/ PublishPrepared
<1>1. ASSUME NEW c \in Builds, OpenBuild(c)
      PROVE  FALSE
  BY <1>1 DEF OpenBuild
<1>2. ASSUME NEW c \in Builds, Step(c) \/ Failure(c)
      PROVE  FALSE
  BY <1>2, StepsAreOfTheLive DEF OneAtATime
<1>3. \A c \in Builds : ~Merges(c)
  BY <1>2 DEF Step, Failure, Merges
<1>4. CASE Next
  BY <1>1, <1>2, <1>3, <1>4, OnlyBuilds, WhoCommits
<1>5. CASE UNCHANGED vars
  BY <1>5 DEF vars, registry, runs, dagrun, local
<1>. QED
  BY <1>4, <1>5

\* What a build read, and the branch it read it on, stay while it is live.
LEMMA BranchStays ==
  ASSUME TypeOK, [Next]_vars, NEW b \in Builds, ~OpenBuild(b), ~Build(b)
  PROVE  /\ branch'[b].base = branch[b].base
         /\ branch'[b].reporting = branch[b].reporting
         /\ branch'[b].open => branch[b].open
<1>1. CASE DropBranch(b)
  BY <1>1 DEF DropBranch, TypeOK, CatalogType
<1>2. CASE ~DropBranch(b)
  <2>1. ASSUME NEW c \in Builds, c # b, OpenBuild(c)
        PROVE  branch'[b] = branch[b]
    BY <2>1 DEF OpenBuild, TypeOK, CatalogType
  <2>2. ASSUME NEW c \in Builds, c # b, Build(c) \/ DropBranch(c)
        PROVE  branch'[b] = branch[b]
    BY <2>2 DEF Build, DropBranch, TypeOK, CatalogType
  <2>. QED
    BY <1>2, <2>1, <2>2, BranchChanges
<1>. QED
  BY <1>1, <1>2

LEMMA PreparedOnStays ==
  ASSUME TypeOK, [Next]_vars, NEW b \in Builds, ~OpenBuild(b), branch[b].base \in 1 .. Tip
  PROVE  branch'[b].base = branch[b].base /\ PreparedOn(b)' = PreparedOn(b)
<1>1. branch'[b].base = branch[b].base
  <2>1. CASE Build(b)
    BY <2>1 DEF Build, TypeOK, CatalogType
  <2>. QED
    BY <2>1, BranchStays
<1>. QED
  BY <1>1, MainGrows DEF PreparedOn

\* The lifecycle's history only grows.
LEMMA LogGrows ==
  ASSUME IInv, [Next]_vars, NEW rep \in Reports, NEW d \in Dates
  PROVE  /\ Len(log[rep][d]) \in Nat /\ Len(log'[rep][d]) \in Nat
         /\ Len(log[rep][d]) <= Len(log'[rep][d])
         /\ \A k \in 0 .. Len(log[rep][d]) : StateAfter(rep, d, k)' = StateAfter(rep, d, k)
<1>0. LifecycleType /\ LifecycleType'
  BY LifecycleTypeKept DEF IInv, TypeOK
<1>1. /\ log[rep][d] \in Seq([state: States, approved: BOOLEAN])
      /\ log'[rep][d] \in Seq([state: States, approved: BOOLEAN])
  BY <1>0 DEF LifecycleType
<1>2. ASSUME NEW r \in Reports, NEW e \in Dates, NEW entry \in [state: States, approved: BOOLEAN],
             Record(r, e, entry)
      PROVE  log'[rep][d] \in {log[rep][d], Append(log[rep][d], entry)}
  <2>1. log' = [log EXCEPT ![r][e] = Append(log[r][e], entry)]
    BY <1>0, <1>2, RecordType
  <2>2. log \in [Reports -> [Dates -> Seq([state: States, approved: BOOLEAN])]]
    BY <1>0 DEF LifecycleType
  <2>3. CASE r = rep /\ e = d
    BY <2>1, <2>2, <2>3
  <2>4. CASE ~(r = rep /\ e = d)
    BY <2>1, <2>2, <2>4
  <2>. QED
    BY <2>3, <2>4
<1>3. \/ log'[rep][d] = log[rep][d]
      \/ \E entry \in [state: States, approved: BOOLEAN] :
           log'[rep][d] = Append(log[rep][d], entry)
  <2>1. ASSUME NEW r \in Reports, NEW e \in Dates, Lock(r, e)
        PROVE  \E entry \in [state: States, approved: BOOLEAN] : Record(r, e, entry)
    BY <2>1 DEF Lock, States
  <2>2. ASSUME NEW o \in Operators, WriteTransition(o)
        PROVE  \/ log' = log
               \/ \E r \in Reports, e \in Dates, entry \in [state: States, approved: BOOLEAN] :
                    Record(r, e, entry)
    <3>. DEFINE command == pending[o]
    <3>1. command \in [state: States, report: Reports, date: Dates, approved: BOOLEAN]
      BY <1>0, <2>2 DEF WriteTransition, LifecycleType
    <3>2. [state |-> command.state, approved |-> command.approved]
            \in [state: States, approved: BOOLEAN]
      BY <3>1
    <3>. QED
      BY <2>2, <3>1, <3>2 DEF WriteTransition
  <2>. QED
    BY <1>2, <2>1, <2>2, LogChanges
<1>4. CASE log'[rep][d] = log[rep][d]
  BY <1>1, <1>4 DEF StateAfter
<1>5. ASSUME NEW entry \in [state: States, approved: BOOLEAN],
             log'[rep][d] = Append(log[rep][d], entry)
      PROVE  /\ Len(log'[rep][d]) = Len(log[rep][d]) + 1
             /\ \A k \in 1 .. Len(log[rep][d]) : log'[rep][d][k] = log[rep][d][k]
  BY <1>1, <1>5, AppendProperties
<1>. QED
  BY <1>1, <1>3, <1>4, <1>5, SMTT(30) DEF StateAfter
-----------------------------------------------------------------------------
(***************************************************************************)
(* The merges of a build.                                                  *)
(***************************************************************************)
LEMMA MergesFinite ==
  ASSUME TypeOK, NEW b \in Builds
  PROVE  /\ MergesOf(b) \in SUBSET (1 .. Tip)
         /\ IsFiniteSet(MergesOf(b)) /\ Cardinality(MergesOf(b)) \in Nat
<1>1. MergesOf(b) \in SUBSET (1 .. Tip) /\ Tip \in Nat
  BY MainType DEF MergesOf
<1>2. IsFiniteSet(1 .. Tip)
  BY <1>1, FS_Interval
<1>. QED
  BY <1>1, <1>2, FS_Subset, FS_CardinalityType

LEMMA MergesStay ==
  ASSUME TypeOK, [Next]_vars, NEW b \in Builds, ~Merges(b)
  PROVE  MergesOf(b)' = MergesOf(b)
<1>0. "raw" # b /\ "prepared" # b
  BY PublicationAssumptions
<1>1. CASE main' = main
  BY <1>1 DEF MergesOf, Tip
<1>2. ASSUME NEW c \in Commits, main' = Append(main, c), c.by # b
      PROVE  MergesOf(b)' = MergesOf(b)
  <2>1. /\ Tip' = Tip + 1 /\ Tip \in Nat
        /\ \A i \in 1 .. Tip : main'[i] = main[i]
        /\ main'[Tip + 1].by # b
    BY <1>2, AppendEffect, MainType
  <2>2. 1 .. Tip' = (1 .. Tip) \union {Tip + 1}
    BY <2>1
  <2>. QED
    BY <2>1, <2>2 DEF MergesOf
<1>. QED
  BY <1>0, <1>1, <1>2, WhoCommits, ArriveCommit, PreparedCommit, MergesWhen, BuildCommit
     DEF vars

LEMMA MergesAdd ==
  ASSUME TypeOK, NEW b \in Builds, CommitMerge(b)
  PROVE  /\ Tip' = Tip + 1 /\ MergesOf(b)' = MergesOf(b) \union {Tip + 1}
         /\ Tip + 1 \notin MergesOf(b)
         /\ Cardinality(MergesOf(b)') = Cardinality(MergesOf(b)) + 1
         /\ Current'.reporting = branch[b].reporting
         /\ main'[Tip + 1].reporting = branch[b].reporting
<1>1. PICK c \in Commits : /\ main' = Append(main, c)
                           /\ c.reporting = branch[b].reporting /\ c.by = b
  BY BuildCommit
<1>2. /\ Tip' = Tip + 1 /\ Tip \in Nat
      /\ \A i \in 1 .. Tip : main'[i] = main[i]
      /\ main'[Tip + 1] = c /\ Current' = c
  BY <1>1, AppendEffect, MainType
<1>3. MergesOf(b)' = MergesOf(b) \union {Tip + 1} /\ Tip + 1 \notin MergesOf(b)
  <2>1. 1 .. Tip' = (1 .. Tip) \union {Tip + 1} /\ Tip + 1 \notin 1 .. Tip
    BY <1>2
  <2>2. main'[Tip + 1].by = b
    BY <1>1, <1>2
  <2>. QED
    BY <1>2, <2>1, <2>2 DEF MergesOf
<1>. QED
  BY <1>1, <1>2, <1>3, MergesFinite, FS_AddElement

\* A build that has merged has a first merge.
LEMMA FirstMerge ==
  ASSUME TypeOK, NEW b \in Builds, MergesOf(b) # {}
  PROVE  \E i \in MergesOf(b) :
           /\ i \in 1 .. Tip
           /\ \A j \in MergesOf(b) : i <= j
           /\ \A d \in Dates : Shown(b, d) = OnDate(main[i].reporting, d)
<1>1. MergesOf(b) \in SUBSET Nat /\ MergesOf(b) \in SUBSET (1 .. Tip)
  BY MergesFinite, MainType
<1>2. PICK i \in MergesOf(b) : \A j \in MergesOf(b) : i <= j
  BY <1>1, LeastNatural
<1>3. i = CHOOSE k \in MergesOf(b) : \A j \in MergesOf(b) : k <= j
  BY <1>1, <1>2
<1>. QED
  BY <1>1, <1>2, <1>3 DEF Shown

\* What the first merge showed, it goes on showing.
LEMMA ShownStays ==
  ASSUME TypeOK, TypeOK', [Next]_vars, NEW b \in Builds, MergesOf(b) # {}, NEW d \in Dates
  PROVE  MergesOf(b) \subseteq MergesOf(b)' /\ Shown(b, d)' = Shown(b, d)
<1>1. PICK i \in MergesOf(b) : /\ i \in 1 .. Tip
                               /\ \A j \in MergesOf(b) : i <= j
                               /\ Shown(b, d) = OnDate(main[i].reporting, d)
  BY FirstMerge
<1>2. \/ MergesOf(b)' = MergesOf(b)
      \/ MergesOf(b)' = MergesOf(b) \union {Tip + 1}
  BY MergesStay, MergesAdd, MergesWhen
<1>3. i \in MergesOf(b)' /\ \A j \in MergesOf(b)' : i <= j
  <2>1. i <= Tip + 1
    BY <1>1, MainType
  <2>. QED
    BY <1>1, <1>2, <2>1
<1>4. MergesOf(b)' \in SUBSET Nat
  BY <1>2, MergesFinite, MainType
<1>5. i = CHOOSE k \in MergesOf(b)' : \A j \in MergesOf(b)' : k <= j
  BY <1>3, <1>4
<1>6. Shown(b, d)' = OnDate(main'[i].reporting, d)
  BY <1>5 DEF Shown, OnDate
<1>. QED
  BY <1>1, <1>2, <1>6, MainGrows
-----------------------------------------------------------------------------
(***************************************************************************)
(* The parts of the invariant about the catalog.                           *)
(***************************************************************************)
LEMMA CurrentSane ==
  ASSUME TypeOK, CommitsSane
  PROVE  /\ IsFiniteSet(Current.prepared)
         /\ DatesOf(Current.reporting) \subseteq DatesOf(Current.prepared)
         /\ \A i \in 1 .. Tip : DatesOf(main[i].prepared) \subseteq DatesOf(Current.prepared)
<1>1. CASE main = <<>>
  BY <1>1, FS_EmptySet, MainType DEF Current, DatesOf
<1>2. CASE main # <<>>
  <2>1. Tip \in 1 .. Tip /\ Current = main[Tip] /\ Tip \in Nat
    BY <1>2, MainType
  <2>2. \A i \in 1 .. Tip : Tip \in i .. Tip
    BY <2>1
  <2>. QED
    BY <2>1, <2>2 DEF CommitsSane
<1>. QED
  BY <1>1, <1>2

LEMMA CommitsSaneKept ==
  ASSUME IInv, [Next]_vars
  PROVE  CommitsSane'
<1>0. TypeOK /\ CommitsSane /\ Tip \in Nat /\ Current.prepared \in SUBSET Deliveries
  BY MainType DEF IInv
<1>1. CASE main' = main
  BY <1>0, <1>1 DEF CommitsSane, Tip
<1>2. ASSUME NEW c \in Commits, main' = Append(main, c), IsFiniteSet(c.prepared),
             DatesOf(c.reporting) \subseteq DatesOf(c.prepared),
             DatesOf(Current.prepared) \subseteq DatesOf(c.prepared)
      PROVE  CommitsSane'
  <2>1. /\ Tip' = Tip + 1
        /\ \A i \in 1 .. Tip : main'[i] = main[i]
        /\ main'[Tip + 1] = c
    BY <1>0, <1>2, AppendEffect
  <2>2. \A i \in 1 .. Tip : DatesOf(main[i].prepared) \subseteq DatesOf(c.prepared)
    BY <1>0, <1>2, CurrentSane
  <2>3. ASSUME NEW i \in 1 .. Tip'
        PROVE  /\ IsFiniteSet(main'[i].prepared)
               /\ DatesOf(main'[i].reporting) \subseteq DatesOf(main'[i].prepared)
               /\ \A j \in i .. Tip' : DatesOf(main'[i].prepared) \subseteq DatesOf(main'[j].prepared)
    <3>1. CASE i = Tip + 1
      <4>1. i .. Tip' = {Tip + 1} /\ main'[i] = c
        BY <1>0, <2>1, <3>1
      <4>. QED
        BY <1>2, <2>1, <3>1, <4>1
    <3>2. CASE i \in 1 .. Tip
      BY <1>0, <2>1, <2>2, <3>2 DEF CommitsSane
    <3>. QED
      BY <1>0, <2>1, <3>1, <3>2
  <2>. QED
    BY <2>3 DEF CommitsSane
<1>3. ASSUME NEW x \in Deliveries, Arrive(x)
      PROVE  CommitsSane'
  BY <1>0, <1>2, <1>3, ArriveCommit, CurrentSane
<1>4. CASE PublishPrepared
  <2>1. PICK c \in Commits, source \in SUBSET Deliveries :
           /\ IsFiniteSet(source)
           /\ main' = Append(main, c)
           /\ c.prepared = Rewritten(source, Current.prepared)
           /\ c.reporting = Current.reporting
    BY <1>0, <1>4, PreparedCommit
  <2>2. /\ IsFiniteSet(c.prepared)
        /\ DatesOf(Current.prepared) \subseteq DatesOf(c.prepared)
    BY <1>0, <2>1, CurrentSane, RewrittenFacts
  <2>. QED
    BY <1>0, <1>2, <2>1, <2>2, CurrentSane
<1>5. ASSUME NEW b \in Builds, Merges(b)
      PROVE  CommitsSane'
  <2>1. OpenedSane(b) /\ pc[b] = "merge"
    BY <1>5, MergesWhen DEF IInv, BuildInv
  <2>2. branch[b].base \in 1 .. Tip /\ DatesOf(branch[b].reporting) \subseteq DatesOf(PreparedOn(b))
    BY <2>1 DEF OpenedSane
  <2>3. DatesOf(branch[b].reporting) \subseteq DatesOf(Current.prepared)
    BY <1>0, <2>2, CurrentSane DEF PreparedOn
  <2>. QED
    BY <1>0, <1>2, <1>5, <2>3, BuildCommit, MergesWhen, CurrentSane
<1>. QED
  BY <1>1, <1>3, <1>4, <1>5, WhoCommits DEF vars

LEMMA TouchedSaneKept ==
  ASSUME IInv, [Next]_vars
  PROVE  TouchedSane' /\ \A l \in Layers : touched[l] <= touched'[l]
<1>. USE DEF catalog
<1>0. TypeOK /\ TouchedSane /\ Tip \in Nat /\ touched \in [Layers -> Nat]
  BY MainType DEF IInv, TypeOK, CatalogType
<1>1. CASE touched' = touched
  BY <1>0, <1>1, MainGrows DEF TouchedSane
<1>2. ASSUME NEW c \in Commits, main' = Append(main, c), NEW l \in Layers,
             touched' = [touched EXCEPT ![l] = Tip + 1]
      PROVE  TouchedSane' /\ \A k \in Layers : touched[k] <= touched'[k]
  <2>1. Tip' = Tip + 1
    BY <1>0, <1>2, AppendEffect
  <2>. QED
    BY <1>0, <1>2, <2>1 DEF TouchedSane
<1>3. CASE PublishPrepared
  BY <1>0, <1>2, <1>3, PreparedCommit DEF PublishPrepared, Layers
<1>4. ASSUME NEW b \in Builds, CommitMerge(b)
      PROVE  TouchedSane' /\ \A k \in Layers : touched[k] <= touched'[k]
  BY <1>0, <1>2, <1>4, BuildCommit DEF CommitMerge, Layers
<1>5. ASSUME NEW b \in Builds, OpenBuild(b) \/ Step(b) \/ Failure(b)
      PROVE  touched' = touched \/ CommitMerge(b)
  BY <1>5 DEF OpenBuild, Step, Failure, Build, BeginPublish, ReadInputs, InputsUnread, Gate,
     Merge, MergeRefused, DropBranch, Finish, KeepFailedBranch, PinReport, BuildFails,
     MergeReplyLost, Crash
<1>. QED
  BY <1>1, <1>3, <1>4, <1>5
     DEF Next, Arrive, Reconcile, Command, Lock, Submit, CheckReopen, WriteTransition, vars

LEMMA OneAtATimeKept ==
  ASSUME IInv, [Next]_vars
  PROVE  OneAtATime'
<1>0. TypeOK /\ OneAtATime /\ DagrunType
  BY DEF IInv, TypeOK
<1>1. CASE \E e \in Builds : OpenBuild(e)
  <2>1. \A b \in Builds : Over(b)
    BY <1>1 DEF OpenBuild
  <2>2. \A b \in Builds : ~Over(b)' => OpenBuild(b)
    BY <1>0, <2>1, OverStays
  <2>3. ASSUME NEW b \in Builds, NEW c \in Builds, OpenBuild(b), OpenBuild(c)
        PROVE  b = c
    BY <1>0, <2>3, OpenBuildEffect DEF OpenBuild, Over, Goto, DagrunType
  <2>. QED
    BY <2>2, <2>3 DEF OneAtATime
<1>2. CASE ~\E e \in Builds : OpenBuild(e)
  <2>1. \A b \in Builds : ~Over(b)' => ~Over(b)
    BY <1>0, <1>2, OverStays
  <2>. QED
    BY <1>0, <2>1 DEF OneAtATime
<1>. QED
  BY <1>1, <1>2
-----------------------------------------------------------------------------
(***************************************************************************)
(* The parts of the invariant about one build.                             *)
(***************************************************************************)
\* What the steps of a build do to its own DagRun.
LEMMA StepEffect ==
  ASSUME TypeOK, NEW b \in Builds, Step(b) \/ Failure(b)
  PROVE  /\ opens' = opens
         /\ (pc[b] # "idle" /\ pc'[b] \notin {"idle", "models"}) \/ pc' = pc
         /\ Build(b) <=> (pc[b] = "models" /\ pc'[b] = "ready")
         /\ pc[b] \in {"models", "ready"} \union Publishing \/ KeepFailedBranch(b)
BY DEF TypeOK, DagrunType, dagrun, Step, Failure, Build, BeginPublish, ReadInputs,
       InputsUnread, Gate, Merge, MergeRefused, DropBranch, Finish, KeepFailedBranch,
       PinReport, BuildFails, MergeReplyLost, Crash, Goto, TryFails, Publishing

LEMMA OpenedSaneKept ==
  ASSUME IInv, [Next]_vars, NEW b \in Builds
  PROVE  OpenedSane(b)'
<1>0. /\ TypeOK /\ CatalogType /\ DagrunType /\ CommitsSane /\ CommitsSane' /\ OpenedSane(b)
      /\ Tip \in Nat /\ Tip' \in Nat /\ Tip <= Tip'
      /\ \A i \in 1 .. Tip : main'[i] = main[i]
  BY CommitsSaneKept, MainType, MainGrows DEF IInv, TypeOK, BuildInv
<1>1. CASE OpenBuild(b)
  <2>1. opens'[b] = opens[b] + 1 /\ opens[b] \in Nat /\ pc'[b] = "models"
    BY <1>0, <1>1, OpenBuildEffect DEF DagrunType
  <2>2. main' = main /\ Tip' = Tip /\ Tip \in 1 .. Tip /\ Current = main[Tip]
    BY <1>0, <1>1, MainType, MainGrows DEF OpenBuild
  <2>3. \/ branch'[b] = branch[b] /\ branch[b].open
        \/ branch'[b] = [open |-> TRUE, base |-> Tip, reporting |-> Current.reporting]
    BY <1>0, <1>1 DEF OpenBuild, CatalogType
  <2>4. /\ branch'[b].base \in 1 .. Tip
        /\ DatesOf(branch'[b].reporting) \subseteq DatesOf(main[branch'[b].base].prepared)
    <3>1. CASE branch'[b] = branch[b] /\ branch[b].open
      BY <1>0, <3>1 DEF OpenedSane, PreparedOn
    <3>2. CASE branch'[b] = [open |-> TRUE, base |-> Tip, reporting |-> Current.reporting]
      BY <1>0, <2>2, <3>2 DEF CommitsSane
    <3>. QED
      BY <2>3, <3>1, <3>2
  <2>. QED
    BY <2>1, <2>2, <2>4 DEF OpenedSane, PreparedOn, DatesOf
<1>2. CASE Step(b) \/ Failure(b)
  <2>1. ~OpenBuild(b) /\ opens' = opens /\ pc[b] # "idle" /\ pc'[b] # "idle"
    BY <1>0, <1>2, StepEffect, StepsAreOfTheLive DEF OpenBuild, Over
  <2>2. opens[b] # 0 /\ branch[b].base \in 1 .. Tip
    BY <1>0, <2>1 DEF OpenedSane
  <2>3. branch'[b].base = branch[b].base /\ PreparedOn(b)' = PreparedOn(b)
    BY <1>0, <2>1, <2>2, PreparedOnStays
  <2>4. DatesOf(branch'[b].reporting) \subseteq DatesOf(PreparedOn(b))
    <3>1. CASE Build(b)
      <4>1. PreparedOn(b) \in SUBSET Deliveries /\ branch[b].reporting \in SUBSET Deliveries
        BY <1>0, <2>1, PreparedOnType DEF CatalogType
      <4>2. branch'[b].reporting = Rewritten(PreparedOn(b), branch[b].reporting)
        BY <1>0, <3>1 DEF Build, CatalogType
      <4>. QED
        BY <1>0, <2>2, <4>1, <4>2, RewrittenFacts DEF OpenedSane
    <3>2. CASE ~Build(b)
      BY <1>0, <2>1, <2>2, <3>2, BranchStays DEF OpenedSane
    <3>. QED
      BY <3>1, <3>2
  <2>. QED
    BY <1>0, <2>1, <2>2, <2>3, <2>4 DEF OpenedSane, DatesOf
<1>3. CASE ~OpenBuild(b) /\ ~Step(b) /\ ~Failure(b)
  <2>1. Stands(b)
    BY <1>0, <1>3, OthersStand
  <2>2. opens[b] = 0 => MergesOf(b)' = MergesOf(b)
    BY <1>0, MergesStay, MergesWhen DEF OpenedSane
  <2>3. opens[b] # 0 => PreparedOn(b)' = PreparedOn(b)
    BY <1>0, <1>3, PreparedOnStays DEF OpenedSane
  <2>. QED
    BY <1>0, <2>1, <2>2, <2>3 DEF OpenedSane, Stands, DatesOf
<1>. QED
  BY <1>1, <1>2, <1>3

LEMMA MergesCountedKept ==
  ASSUME IInv, [Next]_vars, NEW b \in Builds
  PROVE  MergesCounted(b)'
<1>0. /\ TypeOK /\ CatalogType /\ DagrunType /\ MergesCounted(b) /\ OpenedSane(b)
      /\ opens[b] \in Nat /\ Cardinality(MergesOf(b)) \in Nat
  BY MergesFinite DEF IInv, TypeOK, DagrunType, BuildInv
<1>t. TouchedSane /\ touched["reporting"] <= touched'["reporting"]
      /\ touched["reporting"] \in Nat /\ touched'["reporting"] \in Nat
  BY TouchedSaneKept, CatalogTypeKept DEF IInv, CatalogType, TypeOK, Layers
<1>1. CASE OpenBuild(b)
  <2>1. opens'[b] = opens[b] + 1 /\ pc'[b] = "models" /\ ~Merges(b)
    BY <1>0, <1>1, OpenBuildEffect, MergesWhen DEF Over
  <2>2. MergesOf(b)' = MergesOf(b)
    BY <1>0, <2>1, MergesStay
  <2>. QED
    BY <1>0, <2>1, <2>2 DEF MergesCounted
<1>2. CASE Merges(b)
  <2>1. /\ Cardinality(MergesOf(b)') = Cardinality(MergesOf(b)) + 1
        /\ branch' = branch /\ opens' = opens
        /\ touched'["reporting"] = Tip + 1
    BY <1>0, <1>2, MergesAdd, MergesWhen DEF Merges, Merge, MergeReplyLost, CommitMerge, CatalogType, dagrun, Layers
  <2>2. branch[b].base \in 1 .. Tip /\ Tip \in Nat
    BY <1>0, <1>2, MainType, MergesWhen DEF OpenedSane
  <2>3. ~Mergeable(b)' /\ pc'[b] # "models"
    BY <1>0, <1>2, <2>1, <2>2
       DEF Mergeable, Merges, Merge, MergeReplyLost, Goto, TryFails, DagrunType
  <2>4. Cardinality(MergesOf(b)) < opens[b]
    BY <1>0, <1>2, MergesWhen DEF MergesCounted, Publishing
  <2>. QED
    BY <1>0, <2>1, <2>3, <2>4 DEF MergesCounted
<1>3. CASE ~OpenBuild(b) /\ ~Merges(b)
  <2>1. MergesOf(b)' = MergesOf(b) /\ opens'[b] = opens[b]
    BY <1>0, <1>3, MergesStay, OthersStand, StepEffect DEF Stands
  <2>2. ASSUME Mergeable(b)', ~Build(b)
        PROVE  Mergeable(b)
    BY <1>0, <1>3, <1>t, <2>2, BranchStays, CatalogTypeKept DEF Mergeable, CatalogType
  <2>3. /\ pc'[b] = "models" => pc[b] = "models"
        /\ pc'[b] \in {"ready"} \union Publishing /\ ~Build(b)
             => pc[b] \in {"ready"} \union Publishing
    BY <1>0, <1>3, OthersStand
       DEF Stands, Step, Failure, BeginPublish, ReadInputs, InputsUnread, Gate, Merge,
           MergeRefused, DropBranch, Finish, KeepFailedBranch, PinReport, BuildFails,
           MergeReplyLost, Crash, Goto, TryFails, Publishing, Build, DagrunType
  <2>4. Build(b) => pc[b] = "models"
    BY DEF Build
  <2>. QED
    BY <1>0, <2>1, <2>2, <2>3, <2>4 DEF MergesCounted
<1>. QED
  BY <1>1, <1>2, <1>3

\* The parts PublishSane is made of, one at a time.
LEMMA TriesLeft ==
  ASSUME IInv, [Next]_vars, NEW b \in Builds, pc'[b] \in {"models", "ready"}
  PROVE  tries'[b] < MaxTries
<1>0. /\ TypeOK /\ DagrunType /\ MaxTries \in Nat \ {0}
      /\ pc[b] \in {"models", "ready"} => tries[b] < MaxTries
  BY PublicationAssumptions DEF IInv, TypeOK, BuildInv, PublishSane
<1>1. CASE OpenBuild(b)
  BY <1>0, <1>1, OpenBuildEffect
<1>2. CASE Step(b) \/ Failure(b)
  BY <1>0, <1>2 DEF DagrunType, dagrun, Step, Failure, Build, BeginPublish, ReadInputs,
     InputsUnread, Gate, Merge, MergeRefused, DropBranch, Finish, KeepFailedBranch, PinReport,
     BuildFails, MergeReplyLost, Crash, Goto, TryFails, Publishing
<1>3. CASE Stands(b)
  BY <1>0, <1>3 DEF Stands
<1>. QED
  BY <1>0, <1>1, <1>2, <1>3, OthersStand

LEMMA ReadSane ==
  ASSUME IInv, [Next]_vars, NEW b \in Builds, cob'[b] # 0
  PROVE  inputs'[b] = PreparedOn(b)' /\ cob'[b] = LatestDate(PreparedOn(b)')
<1>0. /\ TypeOK /\ DagrunType /\ OpenedSane(b)
      /\ cob[b] # 0 => inputs[b] = PreparedOn(b) /\ cob[b] = LatestDate(PreparedOn(b))
  BY DEF IInv, TypeOK, BuildInv, PublishSane
<1>1. ~OpenBuild(b)
  BY <1>0, OpenBuildEffect
<1>2. opens[b] # 0 => PreparedOn(b)' = PreparedOn(b)
  BY <1>0, <1>1, PreparedOnStays DEF OpenedSane
<1>3. CASE Step(b) \/ Failure(b)
  <2>1. opens[b] # 0
    BY <1>0, <1>3, StepsAreOfTheLive DEF OpenedSane, Over
  <2>2. \/ inputs'[b] = inputs[b] /\ cob'[b] = cob[b]
        \/ BeginPublish(b) \/ ReadInputs(b)
    BY <1>3 DEF local, Step, Failure, Build, InputsUnread, Gate, Merge, MergeRefused,
       DropBranch, Finish, KeepFailedBranch, PinReport, BuildFails, MergeReplyLost, Crash
  <2>3. ~BeginPublish(b)
    BY <1>0 DEF BeginPublish, DagrunType
  <2>4. ReadInputs(b) => inputs'[b] = PreparedOn(b) /\ cob'[b] = LatestDate(PreparedOn(b))
    BY <1>0 DEF ReadInputs, DagrunType
  <2>. QED
    BY <1>0, <1>2, <2>1, <2>2, <2>3, <2>4
<1>4. CASE Stands(b)
  BY <1>0, <1>2, <1>4 DEF Stands, OpenedSane
<1>. QED
  BY <1>0, <1>1, <1>3, <1>4, OthersStand

LEMMA PinsKnowTheDate ==
  ASSUME IInv, [Next]_vars, NEW b \in Builds, pc'[b] = "pin", todo'[b] # {}
  PROVE  cob'[b] # 0
<1>0. TypeOK /\ DagrunType /\ (pc[b] = "pin" /\ todo[b] # {} => cob[b] # 0)
  BY DEF IInv, TypeOK, BuildInv, PublishSane
<1>1. ~OpenBuild(b)
  BY <1>0, OpenBuildEffect
<1>2. CASE Step(b) \/ Failure(b)
  BY <1>0, <1>2 DEF DagrunType, dagrun, local, Step, Failure, Build, BeginPublish, ReadInputs,
     InputsUnread, Gate, Merge, MergeRefused, DropBranch, Finish, KeepFailedBranch, PinReport,
     BuildFails, MergeReplyLost, Crash, Goto, TryFails, Publishing
<1>3. CASE Stands(b)
  BY <1>0, <1>3 DEF Stands
<1>. QED
  BY <1>0, <1>1, <1>2, <1>3, OthersStand

LEMMA BranchShowsLatest ==
  ASSUME IInv, [Next]_vars, NEW b \in Builds, pc'[b] \in {"ready"} \union Publishing
  PROVE  ShowsLatest(PreparedOn(b), branch[b].reporting)' 
<1>0. /\ TypeOK /\ CatalogType /\ DagrunType /\ CommitsSane /\ OpenedSane(b)
      /\ pc[b] \in {"ready"} \union Publishing => ShowsLatest(PreparedOn(b), branch[b].reporting)
  BY DEF IInv, TypeOK, BuildInv, PublishSane
<1>1. ~OpenBuild(b)
  BY <1>0, OpenBuildEffect DEF Publishing
<1>2. pc[b] # "idle" /\ (~Build(b) => pc[b] \in {"ready"} \union Publishing)
  BY <1>0, <1>1, OthersStand
     DEF Stands, Step, Failure, BeginPublish, ReadInputs, InputsUnread, Gate, Merge,
         MergeRefused, DropBranch, Finish, KeepFailedBranch, PinReport, BuildFails,
         MergeReplyLost, Crash, Goto, TryFails, Publishing, Build, DagrunType
<1>3. /\ branch[b].base \in 1 .. Tip
      /\ PreparedOn(b) \in SUBSET Deliveries /\ IsFiniteSet(PreparedOn(b))
      /\ DatesOf(branch[b].reporting) \subseteq DatesOf(PreparedOn(b))
  BY <1>0, <1>2, PreparedOnType DEF OpenedSane
<1>4. PreparedOn(b)' = PreparedOn(b)
  BY <1>0, <1>1, <1>3, PreparedOnStays
<1>5. CASE Build(b)
  <2>1. branch'[b].reporting = Rewritten(PreparedOn(b), branch[b].reporting)
    BY <1>0, <1>5 DEF Build, CatalogType
  <2>2. branch[b].reporting \in SUBSET Deliveries
    BY <1>0 DEF CatalogType
  <2>. QED
    BY <1>3, <1>4, <2>1, <2>2, RewrittenFacts DEF ShowsLatest
<1>6. CASE ~Build(b)
  BY <1>0, <1>1, <1>2, <1>4, <1>6, BranchStays
<1>. QED
  BY <1>5, <1>6

LEMMA MainShowsTheBranch ==
  ASSUME IInv, [Next]_vars, NEW b \in Builds, pc'[b] \in {"drop", "pin"}
  PROVE  MergesOf(b)' # {} /\ Current'.reporting = branch'[b].reporting
<1>0. /\ TypeOK /\ CatalogType /\ DagrunType /\ OneAtATime
      /\ pc[b] \in {"drop", "pin"} =>
           MergesOf(b) # {} /\ Current.reporting = branch[b].reporting
  BY DEF IInv, TypeOK, BuildInv, PublishSane
<1>1. ~OpenBuild(b)
  BY <1>0, OpenBuildEffect
<1>2. CASE Merges(b)
  BY <1>0, <1>2, MergesAdd, MergesWhen
<1>3. CASE ~Merges(b) /\ (Step(b) \/ Failure(b))
  <2>1. pc[b] \in {"drop", "pin"} /\ ~Build(b)
    BY <1>0, <1>3
       DEF Step, Failure, BeginPublish, ReadInputs, InputsUnread, Gate, Merges,
           MergeRefused, DropBranch, Finish, KeepFailedBranch, PinReport, BuildFails,
           Crash, Goto, TryFails, Publishing, Build, DagrunType
  <2>2. main' = main
    BY <1>3 DEF Step, Failure, Build, BeginPublish, ReadInputs, InputsUnread, Gate, Merges,
           MergeRefused, DropBranch, Finish, KeepFailedBranch, PinReport, BuildFails,
           Crash, catalog
  <2>. QED
    BY <1>0, <1>1, <1>3, <2>1, <2>2, MergesStay, MainGrows, BranchStays
<1>4. CASE ~Step(b) /\ ~Failure(b)
  <2>1. pc[b] \in {"drop", "pin"} /\ ~Over(b) /\ ~Merges(b)
    BY <1>0, <1>1, <1>4, OthersStand DEF Stands, Over, Step, Failure, Merges
  <2>2. branch' = branch /\ \/ main' = main
                            \/ \E x \in Deliveries : Arrive(x)
                            \/ PublishPrepared
    BY <1>0, <1>4, <2>1, OnlyTheLiveMoves
  <2>3. Current'.reporting = Current.reporting
    BY <1>0, <2>2, ArriveCommit, PreparedCommit, AppendEffect, MainGrows
  <2>. QED
    BY <1>0, <2>1, <2>2, <2>3, MergesStay
<1>. QED
  BY <1>2, <1>3, <1>4

\* A build that asks about a date has its branch, and one that pins has not.
LEMMA BranchGoesBeforePins ==
  ASSUME IInv, [Next]_vars, NEW b \in Builds
  PROVE  /\ pc'[b] = "inputs" => cob'[b] = 0
         /\ pc'[b] = "gate" /\ cob'[b] # 0 => branch'[b].open
         /\ pc'[b] = "pin" => ~branch'[b].open
<1>0. /\ TypeOK /\ CatalogType /\ DagrunType
      /\ pc[b] = "inputs" => cob[b] = 0
      /\ pc[b] = "gate" /\ cob[b] # 0 => branch[b].open
      /\ pc[b] = "pin" => ~branch[b].open
  BY DEF IInv, TypeOK, BuildInv, PublishSane
<1>1. CASE OpenBuild(b)
  BY <1>0, <1>1, OpenBuildEffect
<1>2. CASE DropBranch(b)
  BY <1>0, <1>2 DEF CatalogType, DagrunType, DropBranch, Goto
<1>3. CASE BeginPublish(b) \/ ReadInputs(b) \/ InputsUnread(b) \/ Gate(b)
  BY <1>0, <1>3 DEF CatalogType, DagrunType, dagrun, local, BeginPublish, ReadInputs,
     InputsUnread, Gate, Goto, TryFails
<1>4. CASE Build(b) \/ BuildFails(b)
  BY <1>0, <1>4 DEF CatalogType, DagrunType, dagrun, local, Build, BuildFails, Goto
<1>5. CASE Merge(b) \/ MergeRefused(b) \/ MergeReplyLost(b) \/ Crash(b)
  BY <1>0, <1>5 DEF CatalogType, DagrunType, dagrun, local, Merge, MergeRefused,
     MergeReplyLost, Crash, Goto, TryFails
<1>6. CASE Finish(b) \/ KeepFailedBranch(b) \/ \E rep \in Reports : PinReport(b, rep)
  BY <1>0, <1>6 DEF CatalogType, DagrunType, dagrun, local, Finish, KeepFailedBranch,
     PinReport, Goto
<1>7. CASE Stands(b)
  BY <1>0, <1>7 DEF Stands
<1>. QED
  BY <1>0, <1>1, <1>2, <1>3, <1>4, <1>5, <1>6, <1>7, OthersStand DEF Step, Failure

LEMMA PublishSaneKept ==
  ASSUME IInv, [Next]_vars, NEW b \in Builds
  PROVE  PublishSane(b)'
BY TriesLeft, ReadSane, PinsKnowTheDate, BranchGoesBeforePins, BranchShowsLatest,
   MainShowsTheBranch
   DEF PublishSane, LatestDate
-----------------------------------------------------------------------------
(***************************************************************************)
(* The parts about what is pinned and numbered.                            *)
(***************************************************************************)
\* A build that pins has read its date and its inputs, and `main` shows them.
LEMMA PinFacts ==
  ASSUME IInv, NEW b \in Builds, NEW rep \in Reports, PinReport(b, rep)
  PROVE  /\ cob[b] \in Dates /\ cob[b] # 0
         /\ inputs[b] = PreparedOn(b) /\ cob[b] = LatestDate(PreparedOn(b))
         /\ MergesOf(b) # {} /\ Tip \in 1 .. Tip
         /\ ShowsLatest(PreparedOn(b), main[Tip].reporting)
         /\ opens[b] # 0
         /\ main' = main /\ opens' = opens /\ log' = log /\ runInput' = runInput
         /\ inputs' = inputs /\ cob' = cob /\ pc' = pc
<1>0. TypeOK /\ DagrunType /\ PublishSane(b) /\ OpenedSane(b) /\ pc[b] = "pin" /\ todo[b] # {}
  BY DEF IInv, TypeOK, BuildInv, PinReport
<1>1. cob[b] # 0 /\ cob[b] \in Dates
  BY <1>0 DEF PublishSane, DagrunType
<1>2. MergesOf(b) # {} /\ Current.reporting = branch[b].reporting
      /\ ShowsLatest(PreparedOn(b), branch[b].reporting)
  BY <1>0 DEF PublishSane, Publishing
<1>3. Tip \in 1 .. Tip /\ Current = main[Tip]
  BY <1>0, <1>2, MainType DEF MergesOf
<1>. QED
  BY <1>0, <1>1, <1>2, <1>3
     DEF PublishSane, OpenedSane, PinReport, catalog, dagrun, lifecycle

\* A tag or a version that a step adds is the pinning build's.
LEMMA NewTag ==
  ASSUME IInv, [Next]_vars, NEW g \in tags', g \notin tags
  PROVE  \E b \in Builds, rep \in Reports :
           /\ PinReport(b, rep)
           /\ g = [report |-> rep, date |-> cob[b], run |-> b, commit |-> Tip]
BY PinsChange DEF CutTag

LEMMA VersionsType ==
  ASSUME RegistryType, NEW rep \in Reports, NEW d \in Dates
  PROVE  /\ versions[rep][d] \in Seq([run: Builds, at: Nat])
         /\ Len(versions[rep][d]) \in Nat
<1>1. versions[rep][d] \in Seq([run: Builds, at: Nat])
  BY DEF RegistryType
<1>. QED
  BY <1>1

\* A row of a list of versions.
LEMMA RowType ==
  ASSUME NEW rows \in Seq([run: Builds, at: Nat]), NEW n \in 1 .. Len(rows)
  PROVE  rows[n].run \in Builds /\ rows[n].at \in Nat
<1>. DEFINE R == [run: Builds, at: Nat]
<1>1. rows[n] \in R
  <2>. HIDE DEF R
  <2>1. \A s \in Seq(R) : \A i \in 1 .. Len(s) : s[i] \in R
    BY ElementOfSeq
  <2>2. rows \in Seq(R)
    BY DEF R
  <2>. QED
    BY <2>1, <2>2
<1>. QED
  BY <1>1

LEMMA LastRow ==
  ASSUME RegistryType, NEW rep \in Reports, NEW d \in Dates, versions[rep][d] # <<>>
  PROVE  Len(versions[rep][d]) \in 1 .. Len(versions[rep][d])
<1>1. versions[rep][d] \in Seq([run: Builds, at: Nat])
  BY VersionsType
<1>. QED
  BY <1>1

\* Build b numbers report rep for date d: it had no row there, and gets the last.
Numbers(b, rep, d) ==
  /\ PinReport(b, rep) /\ cob[b] = d
  /\ \A n \in 1 .. Len(versions[rep][d]) : /\ versions[rep][d][n].run # b
                                           /\ versions'[rep][d][n] = versions[rep][d][n]
  /\ Len(versions'[rep][d]) = Len(versions[rep][d]) + 1
  /\ versions'[rep][d][Len(versions[rep][d]) + 1] = [run |-> b, at |-> Len(log[rep][d])]

LEMMA VersionsGrow ==
  ASSUME IInv, [Next]_vars, NEW rep \in Reports, NEW d \in Dates
  PROVE  versions'[rep][d] = versions[rep][d] \/ \E b \in Builds : Numbers(b, rep, d)
<1>0. RegistryType /\ log[rep][d] \in Seq([state: States, approved: BOOLEAN])
  BY DEF IInv, TypeOK, LifecycleType
<1>1. ASSUME NEW b \in Builds, NEW r \in Reports, PinReport(b, r), Number(b, r),
             versions'[rep][d] # versions[rep][d]
      PROVE  Numbers(b, rep, d)
  <2>1. versions \in [Reports -> [Dates -> Seq([run: Builds, at: Nat])]] /\ cob[b] \in Dates
    BY <1>0, <1>1, PinFacts DEF RegistryType
  <2>2. /\ ~\E n \in 1 .. Len(versions[r][cob[b]]) : versions[r][cob[b]][n].run = b
        /\ versions' = [versions EXCEPT ![r][cob[b]] =
                          Append(versions[r][cob[b]], [run |-> b, at |-> Len(log[r][cob[b]])])]
    BY <1>1 DEF Number
  <2>3. r = rep /\ cob[b] = d
    BY <1>1, <2>1, <2>2
  <2>. DEFINE row == [run |-> b, at |-> Len(log[rep][d])]
  <2>4. versions'[rep][d] = Append(versions[rep][d], row)
    BY <2>1, <2>2, <2>3
  <2>5. versions[rep][d] \in Seq([run: Builds, at: Nat]) /\ row \in [run: Builds, at: Nat]
    <3>1. Len(log[rep][d]) \in Nat
      BY <1>0
    <3>. QED
      BY <1>0, <3>1, VersionsType
  <2>6. /\ Len(versions'[rep][d]) = Len(versions[rep][d]) + 1
        /\ \A m \in 1 .. Len(versions[rep][d]) : versions'[rep][d][m] = versions[rep][d][m]
        /\ versions'[rep][d][Len(versions[rep][d]) + 1] = row
    <3>. HIDE DEF row
    <3>. QED
      BY <2>4, <2>5, AppendProperties
  <2>. QED
    BY <1>1, <2>2, <2>3, <2>6 DEF Numbers
<1>. QED
  BY <1>1, PinsChange

\* A row is an old one or that one.
LEMMA NewVersion ==
  ASSUME IInv, [Next]_vars, NEW rep \in Reports, NEW d \in Dates,
         NEW n \in 1 .. Len(versions'[rep][d])
  PROVE  \/ n \in 1 .. Len(versions[rep][d]) /\ versions'[rep][d][n] = versions[rep][d][n]
         \/ n = Len(versions[rep][d]) + 1 /\ \E b \in Builds : Numbers(b, rep, d)
<1>0. Len(versions[rep][d]) \in Nat
  BY VersionsType DEF IInv, TypeOK
<1>1. ASSUME NEW b \in Builds, Numbers(b, rep, d), n # Len(versions[rep][d]) + 1
      PROVE  n \in 1 .. Len(versions[rep][d]) /\ versions'[rep][d][n] = versions[rep][d][n]
  BY <1>0, <1>1 DEF Numbers
<1>. QED
  BY <1>1, VersionsGrow

LEMMA PublishedIsOnMainKept ==
  ASSUME IInv, [Next]_vars
  PROVE  PublishedIsOnMain'
<1>0. TypeOK /\ TypeOK' /\ PublishedIsOnMain
  BY NextType DEF IInv
<1>1. \A b \in Builds : MergesOf(b) # {} => MergesOf(b)' # {}
  <2>1. \A b \in Builds : \/ MergesOf(b)' = MergesOf(b)
                          \/ MergesOf(b)' = MergesOf(b) \union {Tip + 1}
    BY <1>0, MergesStay, MergesAdd, MergesWhen
  <2>. QED
    BY <2>1
<1>2. ASSUME NEW b \in Builds, status'[b] = "published"
      PROVE  MergesOf(b)' # {}
  <2>1. CASE status[b] = "published"
    BY <1>0, <1>1, <2>1 DEF PublishedIsOnMain
  <2>2. CASE status[b] # "published"
    <3>1. Finish(b)
      BY <1>0, <1>2, <2>2, StatusChanges
         DEF OpenBuild, Finish, KeepFailedBranch, SetStatus, TypeOK, RegistryType, registry, runs
    <3>2. pc[b] = "pin"
      BY <3>1 DEF Finish
    <3>. QED
      BY <1>1, <3>2 DEF IInv, BuildInv, PublishSane
  <2>. QED
    BY <2>1, <2>2
<1>3. ASSUME NEW b \in Builds, NEW g \in tags', g.run = b
      PROVE  MergesOf(b)' # {}
  BY <1>0, <1>1, <1>3, NewTag, PinFacts DEF PublishedIsOnMain
<1>4. ASSUME NEW b \in Builds, NEW rep \in Reports, NEW d \in Dates,
             NEW n \in 1 .. Len(versions'[rep][d]), versions'[rep][d][n].run = b
      PROVE  MergesOf(b)' # {}
  <2>1. CASE n \in 1 .. Len(versions[rep][d]) /\ versions'[rep][d][n] = versions[rep][d][n]
    BY <1>0, <1>1, <1>4, <2>1 DEF PublishedIsOnMain
  <2>2. ASSUME NEW c \in Builds, Numbers(c, rep, d), n = Len(versions[rep][d]) + 1
        PROVE  MergesOf(b)' # {}
    <3>1. c = b
      BY <1>4, <2>2 DEF Numbers
    <3>. QED
      BY <1>1, <2>2, <3>1, PinFacts DEF Numbers
  <2>. QED
    BY <2>1, <2>2, NewVersion
<1>. QED
  BY <1>2, <1>3, <1>4 DEF PublishedIsOnMain

LEMMA OnePublicationOneVersionKept ==
  ASSUME IInv, [Next]_vars
  PROVE  OnePublicationOneVersion'
<1>0. OnePublicationOneVersion
  BY DEF IInv
<1>1. SUFFICES ASSUME NEW rep \in Reports, NEW d \in Dates,
                      NEW m \in 1 .. Len(versions'[rep][d]),
                      NEW n \in 1 .. Len(versions'[rep][d]),
                      versions'[rep][d][m].run = versions'[rep][d][n].run
               PROVE  m = n
  BY DEF OnePublicationOneVersion
<1>2. CASE m \in 1 .. Len(versions[rep][d]) /\ n \in 1 .. Len(versions[rep][d])
  <2>1. \A k \in 1 .. Len(versions[rep][d]) : versions'[rep][d][k] = versions[rep][d][k]
    BY VersionsGrow DEF Numbers
  <2>2. versions[rep][d][m].run = versions[rep][d][n].run
    BY <1>1, <1>2, <2>1
  <2>. QED
    BY <1>0, <1>2, <2>2 DEF OnePublicationOneVersion
<1>3. ASSUME NEW b \in Builds, Numbers(b, rep, d), NEW k \in 1 .. Len(versions[rep][d])
      PROVE  versions'[rep][d][k].run # versions'[rep][d][Len(versions[rep][d]) + 1].run
  BY <1>3 DEF Numbers
<1>. QED
  BY <1>1, <1>2, <1>3, NewVersion, SMTT(30)

LEMMA VersionsDatedKept ==
  ASSUME IInv, [Next]_vars
  PROVE  VersionsDated'
<1>1. SUFFICES ASSUME NEW rep \in Reports, NEW d \in Dates,
                      NEW n \in 1 .. Len(versions'[rep][d])
               PROVE  versions'[rep][d][n].at <= Len(log'[rep][d])
  BY DEF VersionsDated
<1>2. /\ Len(log[rep][d]) \in Nat /\ Len(log'[rep][d]) \in Nat
      /\ Len(log[rep][d]) <= Len(log'[rep][d])
  BY LogGrows
<1>3. CASE n \in 1 .. Len(versions[rep][d]) /\ versions'[rep][d][n] = versions[rep][d][n]
  <2>1. versions[rep][d][n].at \in Nat
    <3>1. versions[rep][d] \in Seq([run: Builds, at: Nat])
      BY VersionsType DEF IInv, TypeOK
    <3>. QED
      BY <1>3, <3>1, RowType
  <2>2. versions[rep][d][n].at <= Len(log[rep][d])
    BY <1>3 DEF IInv, VersionsDated
  <2>3. \A a, x, y \in Nat : a <= x /\ x <= y => a <= y
    OBVIOUS
  <2>4. versions'[rep][d][n].at = versions[rep][d][n].at
    BY <1>3
  <2>. QED
    BY <1>2, <2>1, <2>2, <2>3, <2>4, Zenon
<1>4. ASSUME NEW b \in Builds, Numbers(b, rep, d), n = Len(versions[rep][d]) + 1
      PROVE  versions'[rep][d][n].at <= Len(log'[rep][d])
  BY <1>2, <1>4 DEF Numbers
<1>. QED
  BY <1>3, <1>4, NewVersion

LEMMA FirstRunSaneKept ==
  ASSUME IInv, [Next]_vars, NEW b \in Builds
  PROVE  FirstRunSane(b)'
<1>0. /\ TypeOK /\ CatalogType /\ RegistryType /\ DagrunType /\ OpenedSane(b) /\ FirstRunSane(b)
      /\ PublishSane(b) /\ PublishedIsOnMain /\ Tip \in Nat
  BY MainType DEF IInv, TypeOK, BuildInv
<1>1. SUFFICES ASSUME opens'[b] = 1
               PROVE  /\ runInput'[b] \in {{}, PreparedOn(b)'}
                      /\ \A i \in MergesOf(b)' : ShowsLatest(PreparedOn(b), main[i].reporting)'
                      /\ \A g \in tags' : g.run = b =>
                           /\ g.date = LatestDate(PreparedOn(b)')
                           /\ g.commit \in 1 .. Tip'
                           /\ ShowsLatest(PreparedOn(b), main[g.commit].reporting)'
                      /\ \A rep \in Reports, d \in Dates : \A n \in 1 .. Len(versions'[rep][d]) :
                           versions'[rep][d][n].run = b =>
                             d = LatestDate(PreparedOn(b)') /\ ~branch'[b].open
  BY DEF FirstRunSane, LatestDate
<1>2. CASE OpenBuild(b)
  <2>1. /\ opens[b] = 0 /\ runInput' = runInput /\ tags' = tags /\ versions' = versions
        /\ main' = main
    BY <1>0, <1>1, <1>2, OpenBuildEffect DEF DagrunType
  <2>2. runInput[b] = {} /\ MergesOf(b) = {} /\ MergesOf(b)' = {}
    BY <1>0, <2>1 DEF OpenedSane, MergesOf, Tip
  <2>. QED
    BY <1>0, <2>1, <2>2 DEF PublishedIsOnMain
<1>3. CASE ~OpenBuild(b)
  <2>1. opens[b] = 1
    BY <1>0, <1>1, <1>3, OthersStand, StepEffect DEF Stands
  <2>2. branch[b].base \in 1 .. Tip /\ PreparedOn(b)' = PreparedOn(b)
    BY <1>0, <1>3, <2>1, PreparedOnStays DEF OpenedSane
  <2>3. /\ runInput[b] \in {{}, PreparedOn(b)}
        /\ \A i \in MergesOf(b) : ShowsLatest(PreparedOn(b), main[i].reporting)
        /\ \A g \in tags : g.run = b =>
             /\ g.date = LatestDate(PreparedOn(b))
             /\ g.commit \in 1 .. Tip
             /\ ShowsLatest(PreparedOn(b), main[g.commit].reporting)
        /\ \A rep \in Reports, d \in Dates : \A n \in 1 .. Len(versions[rep][d]) :
             versions[rep][d][n].run = b => d = LatestDate(PreparedOn(b)) /\ ~branch[b].open
    BY <1>0, <2>1 DEF FirstRunSane
  <2>4. \A i \in 1 .. Tip : ShowsLatest(PreparedOn(b), main[i].reporting)' <=> ShowsLatest(PreparedOn(b), main[i].reporting)
    BY <1>0, <2>2, MainGrows
  <2>5. runInput'[b] \in {{}, PreparedOn(b)}
    BY <1>0, <2>3, InputsChange DEF ReadInputs, InputsUnread, RegistryType
  <2>6. \A i \in MergesOf(b)' : ShowsLatest(PreparedOn(b), main[i].reporting)'
    <3>1. CASE Merges(b)
      <4>1. /\ MergesOf(b)' = MergesOf(b) \union {Tip + 1}
            /\ main'[Tip + 1].reporting = branch[b].reporting
        BY <1>0, <3>1, MergesAdd, MergesWhen
      <4>2. ShowsLatest(PreparedOn(b), branch[b].reporting)
        BY <1>0, <3>1, MergesWhen DEF PublishSane, Publishing
      <4>3. ShowsLatest(PreparedOn(b)', main'[Tip + 1].reporting)
        BY <2>2, <4>1, <4>2
      <4>. QED
        BY <1>0, <2>3, <2>4, <4>1, <4>3, MergesFinite
    <3>2. CASE ~Merges(b)
      BY <1>0, <2>3, <2>4, <3>2, MergesStay, MergesFinite
    <3>. QED
      BY <3>1, <3>2
  <2>7. ASSUME NEW g \in tags', g.run = b
        PROVE  /\ g.date = LatestDate(PreparedOn(b)')
               /\ g.commit \in 1 .. Tip'
               /\ ShowsLatest(PreparedOn(b), main[g.commit].reporting)'
    <3>1. /\ g.date = LatestDate(PreparedOn(b))
          /\ g.commit \in 1 .. Tip
          /\ ShowsLatest(PreparedOn(b), main[g.commit].reporting)
      <4>1. CASE g \in tags
        BY <2>3, <2>7, <4>1
      <4>2. CASE g \notin tags
        <5>1. PICK rep \in Reports :
                /\ PinReport(b, rep)
                /\ g.date = cob[b] /\ g.commit = Tip
          BY <2>7, <4>2, NewTag
        <5>. QED
          BY <5>1, PinFacts
      <4>. QED
        BY <4>1, <4>2
    <3>. QED
      BY <1>0, <2>2, <2>4, <3>1, MainGrows
  <2>8. ASSUME NEW rep \in Reports, NEW d \in Dates, NEW n \in 1 .. Len(versions'[rep][d]),
               versions'[rep][d][n].run = b
        PROVE  d = LatestDate(PreparedOn(b)') /\ ~branch'[b].open
    <3>0. ~branch[b].open => ~branch'[b].open
      <4>1. CASE Build(b)
        BY <1>0, <4>1 DEF Build, CatalogType
      <4>. QED
        BY <1>0, <1>3, <4>1, BranchStays
    <3>1. CASE n \in 1 .. Len(versions[rep][d]) /\ versions'[rep][d][n] = versions[rep][d][n]
      BY <2>2, <2>3, <2>8, <3>0, <3>1
    <3>2. ASSUME NEW c \in Builds, Numbers(c, rep, d), n = Len(versions[rep][d]) + 1
          PROVE  d = LatestDate(PreparedOn(b)) /\ ~branch[b].open
      <4>1. c = b
        BY <2>8, <3>2 DEF Numbers
      <4>2. pc[b] = "pin"
        BY <3>2, <4>1 DEF Numbers, PinReport
      <4>. QED
        BY <1>0, <3>2, <4>1, <4>2, PinFacts DEF Numbers, PublishSane
    <3>. QED
      BY <2>2, <3>0, <3>1, <3>2, NewVersion
  <2>. QED
    BY <2>2, <2>5, <2>6, <2>7, <2>8
<1>. QED
  BY <1>2, <1>3

\* Who writes down the inputs of a run: nobody else, while it is live.
LEMMA OthersInputsStay ==
  ASSUME IInv, [Next]_vars, NEW b \in Builds, ~Over(b), NEW c \in Builds, c # b
  PROVE  runInput'[c] = runInput[c]
<1>0. RegistryType /\ OneAtATime
  BY DEF IInv, TypeOK
<1>1. ASSUME NEW e \in Builds, ReadInputs(e) \/ InputsUnread(e)
      PROVE  e = b
  BY <1>0, <1>1, StepsAreOfTheLive DEF Step, OneAtATime
<1>. QED
  BY <1>0, <1>1, InputsChange DEF ReadInputs, InputsUnread, RegistryType

LEMMA OpenSinceStays ==
  ASSUME IInv, [Next]_vars, NEW rep \in Reports, NEW d \in Dates, NEW v, v.at \in Nat,
         OpenSince(rep, d, v)
  PROVE  OpenSince(rep, d, v)'
<1>1. PICK k \in v.at .. Len(log[rep][d]) : ~Closes(StateAfter(rep, d, k))
  BY DEF OpenSince
<1>2. /\ Len(log[rep][d]) \in Nat /\ Len(log'[rep][d]) \in Nat
      /\ Len(log[rep][d]) <= Len(log'[rep][d])
      /\ \A i \in 0 .. Len(log[rep][d]) : StateAfter(rep, d, i)' = StateAfter(rep, d, i)
  BY LogGrows
<1>3. k \in v.at .. Len(log'[rep][d]) /\ k \in 0 .. Len(log[rep][d])
  BY <1>1, <1>2
<1>4. ~Closes(StateAfter(rep, d, k)')
  BY <1>1, <1>2, <1>3
<1>. QED
  BY <1>3, <1>4 DEF OpenSince

\* The gate lets a build by if the date has been open since the version in force,
\* or that version's inputs are the build's.
LEMMA GatePasses ==
  ASSUME IInv, NEW b \in Builds, Gate(b), pc'[b] = "merge", cob[b] # 0, NEW rep \in Restate,
         versions[rep][cob[b]] # <<>>
  PROVE  LET d == cob[b]
             v == versions[rep][d][Len(versions[rep][d])]
         IN  \/ OpenSince(rep, d, v)
             \/ OnDate(runInput[v.run], d) \intersect known'[b]
                  = OnDate(inputs[b], d) \intersect known'[b]
<1>. DEFINE d == cob[b]
            rows == versions[rep][d]
            v == rows[Len(rows)]
<1>0. TypeOK /\ DagrunType /\ RegistryType /\ LifecycleType /\ VersionsDated
  BY DEF IInv, TypeOK
<1>1. rep \in Reports /\ d \in Dates
  BY <1>0, PublicationAssumptions DEF DagrunType
<1>2. Publishable(rep, d, inputs[b])
  <2>1. ~(IF tries[b] < MaxTries THEN pc' = [pc EXCEPT ![b] = "ready"]
                                 ELSE pc' = [pc EXCEPT ![b] = "failed"])
    BY <1>0 DEF DagrunType
  <2>2. ~TryFails(b)
    BY <2>1 DEF TryFails, Goto
  <2>. QED
    BY <1>1, <2>2 DEF Gate
<1>3. CASE Closes(State(rep, d))
  <2>1. known'[b] = registered
    BY <1>0, <1>1, <1>3 DEF Gate, AsksRegistry, RegistryType
  <2>. QED
    BY <1>2, <1>3, <2>1 DEF Publishable, InputsChanged, KnownOn
<1>4. CASE ~Closes(State(rep, d))
  <2>1. rows \in Seq([run: Builds, at: Nat]) /\ Len(rows) \in 1 .. Len(rows)
    BY <1>0, <1>1, VersionsType, LastRow
  <2>2. v.at \in Nat
    BY <2>1, RowType
  <2>3. v.at <= Len(log[rep][d])
    BY <1>0, <1>1, <2>1 DEF VersionsDated
  <2>4. Len(log[rep][d]) \in Nat
    <3>1. log[rep][d] \in Seq([state: States, approved: BOOLEAN])
      BY <1>0, <1>1 DEF LifecycleType
    <3>. QED
      BY <3>1
  <2>5. Len(log[rep][d]) \in v.at .. Len(log[rep][d])
    BY <2>2, <2>3, <2>4
  <2>. QED
    BY <1>4, <2>5 DEF OpenSince, State
<1>. QED
  BY <1>3, <1>4

LEMMA GateHoldsKept ==
  ASSUME IInv, [Next]_vars, NEW b \in Builds
  PROVE  GateHolds(b)'
<1>0. TypeOK /\ DagrunType /\ RegistryType /\ OneAtATime /\ GateHolds(b)
  BY DEF IInv, TypeOK, BuildInv
<1>1. SUFFICES ASSUME pc'[b] \in {"merge", "drop", "pin"}, NEW d, d = cob'[b], d # 0,
                      NEW rep \in Restate, NEW rows, rows = versions'[rep][d],
                      NEW v, v = rows[Len(rows)], rows # <<>>, v.run # b
               PROVE  \/ OpenSince(rep, d, v)'
                      \/ OnDate(runInput'[v.run], d) \intersect known'[b]
                           = OnDate(inputs'[b], d) \intersect known'[b]
  BY DEF GateHolds
<1>2. ~OpenBuild(b) /\ ~BeginPublish(b) /\ ~ReadInputs(b) /\ ~Build(b)
  BY <1>0, <1>1, OpenBuildEffect DEF BeginPublish, ReadInputs, Build, Goto, DagrunType
<1>3. pc[b] \in {"gate", "merge", "drop", "pin"} /\ ~Over(b)
  BY <1>0, <1>1, <1>2, OthersStand
     DEF Stands, Over, Step, Failure, BeginPublish, ReadInputs, InputsUnread, Gate, Merge,
         MergeRefused, DropBranch, Finish, KeepFailedBranch, PinReport, BuildFails,
         MergeReplyLost, Crash, Goto, TryFails, Publishing, Build, DagrunType
<1>4. d = cob[b] /\ inputs'[b] = inputs[b]
  BY <1>0, <1>1, <1>2, OthersStand
     DEF Stands, Step, Failure, InputsUnread, Gate, Merge, MergeRefused, DropBranch, Finish,
         KeepFailedBranch, PinReport, BuildFails, MergeReplyLost, Crash, local
<1>5. d \in Dates /\ rep \in Reports
  BY <1>0, <1>1, <1>4, PublicationAssumptions DEF DagrunType
<1>6. rows = versions[rep][d]
  <2>1. ASSUME NEW c \in Builds, Numbers(c, rep, d)
        PROVE  FALSE
    <3>1. Step(c)
      BY <1>5, <2>1 DEF Numbers, Step
    <3>2. c = b
      BY <1>0, <1>3, <3>1, StepsAreOfTheLive DEF OneAtATime
    <3>3. rows[Len(rows)].run = b
      BY <1>1, <2>1, <3>2 DEF Numbers
    <3>. QED
      BY <1>1, <3>3
  <2>. QED
    BY <1>1, <1>5, <2>1, VersionsGrow
<1>7. \/ OpenSince(rep, d, v)
      \/ OnDate(runInput[v.run], d) \intersect known'[b]
           = OnDate(inputs[b], d) \intersect known'[b]
  <2>1. CASE pc[b] = "gate"
    <3>1. Gate(b) /\ pc'[b] = "merge"
      BY <1>0, <1>1, <1>2, <2>1, OthersStand
         DEF Stands, Step, Failure, InputsUnread, Gate, Merge, MergeRefused, DropBranch,
             Finish, KeepFailedBranch, PinReport, BuildFails, MergeReplyLost, Crash, Goto,
             TryFails, Publishing, DagrunType
    <3>. QED
      BY <1>1, <1>4, <1>6, <3>1, GatePasses
  <2>2. CASE pc[b] # "gate"
    <3>1. known'[b] = known[b]
      BY <1>0, <2>2, IndexChanges DEF Gate, RegistryType
    <3>. QED
      BY <1>0, <1>1, <1>3, <1>4, <1>6, <2>2, <3>1 DEF GateHolds
  <2>. QED
    BY <2>1, <2>2
<1>8. v.at \in Nat /\ v.run \in Builds
  <2>1. rows \in Seq([run: Builds, at: Nat]) /\ Len(rows) \in 1 .. Len(rows)
    BY <1>0, <1>1, <1>5, <1>6, VersionsType, LastRow
  <2>. QED
    BY <1>1, <2>1, RowType
<1>9. CASE OpenSince(rep, d, v)
  BY <1>5, <1>8, <1>9, OpenSinceStays
<1>10. CASE OnDate(runInput[v.run], d) \intersect known'[b]
              = OnDate(inputs[b], d) \intersect known'[b]
  BY <1>1, <1>3, <1>4, <1>8, <1>10, OthersInputsStay
<1>. QED
  BY <1>7, <1>9, <1>10

\* What the first run of a build merged, it shows for the latest date it read.
LEMMA FirstRunShows ==
  ASSUME IInv, NEW b \in Builds, opens[b] = 1, MergesOf(b) # {}, NEW d \in Dates,
         d = LatestDate(PreparedOn(b))
  PROVE  Shown(b, d) = OnDate(PreparedOn(b), d)
<1>1. PICK i \in MergesOf(b) : Shown(b, d) = OnDate(main[i].reporting, d)
  BY FirstMerge DEF IInv
<1>. QED
  BY <1>1 DEF IInv, BuildInv, FirstRunSane, ShowsLatest

LEMMA RestatedOnlyWhenOpenKept ==
  ASSUME IInv, [Next]_vars
  PROVE  RestatedOnlyWhenOpen'
<1>0. /\ TypeOK /\ TypeOK' /\ RegistryType /\ DagrunType /\ RestatedOnlyWhenOpen
      /\ PublishedIsOnMain /\ VersionsDated
  BY NextType DEF IInv, TypeOK
<1>1. SUFFICES ASSUME NEW rep \in Restate, NEW d \in Dates, NEW n \in 2 .. Len(versions'[rep][d]),
                      NEW v, v = versions'[rep][d][n - 1], opens'[v.run] = 1,
                      NEW w, w = versions'[rep][d][n], opens'[w.run] = 1,
                      NEW x \in known'[w.run],
                      \/ x \in Shown(w.run, d)' \ Shown(v.run, d)'
                      \/ x \in (Shown(v.run, d)' \ Shown(w.run, d)')
                                 \intersect runInput'[v.run]
               PROVE  \E k \in v.at .. w.at : ~Closes(StateAfter(rep, d, k)')
  <2>1. SUFFICES ASSUME NEW rep \in Restate, NEW d \in Dates,
                        NEW n \in 2 .. Len(versions'[rep][d]),
                        opens'[versions'[rep][d][n - 1].run] = 1,
                        opens'[versions'[rep][d][n].run] = 1,
                        Restates(versions[rep][d][n - 1], versions[rep][d][n], d)'
                 PROVE  \E k \in versions'[rep][d][n - 1].at .. versions'[rep][d][n].at :
                          ~Closes(StateAfter(rep, d, k)')
    BY DEF RestatedOnlyWhenOpen
  <2>. QED
    BY <2>1 DEF Restates
<1>2. rep \in Reports /\ Len(versions[rep][d]) \in Nat
  BY <1>0, PublicationAssumptions, VersionsType
\* The rows that were there, and what their runs showed.
<1>3. ASSUME NEW k \in 1 .. Len(versions[rep][d]), NEW row, row = versions[rep][d][k]
      PROVE  /\ row.run \in Builds /\ row.at \in Nat /\ row.at <= Len(log[rep][d])
             /\ MergesOf(row.run) # {}
             /\ Shown(row.run, d)' = Shown(row.run, d)
             /\ opens'[row.run] = 1 => opens[row.run] = 1
             /\ opens'[row.run] = 1 => /\ runInput'[row.run] \subseteq runInput[row.run]
                                       /\ known'[row.run] = known[row.run]
  <2>1. row.run \in Builds /\ row.at \in Nat
    BY <1>0, <1>2, <1>3, VersionsType, RowType
  <2>2. MergesOf(row.run) # {} /\ row.at <= Len(log[rep][d])
    BY <1>0, <1>2, <1>3, <2>1 DEF PublishedIsOnMain, VersionsDated
  <2>3. OpenBuild(row.run) => opens'[row.run] # 1
    <3>1. opens[row.run] # 0 /\ opens[row.run] \in Nat
      BY <1>0, <2>1, <2>2 DEF IInv, BuildInv, OpenedSane, DagrunType
    <3>. QED
      BY <1>0, <2>1, <3>1, OpenBuildEffect
  <2>4. ~OpenBuild(row.run) => opens'[row.run] = opens[row.run]
    BY <1>0, <2>1, OthersStand, StepEffect DEF Stands
  <2>5. Shown(row.run, d)' = Shown(row.run, d)
    BY <1>0, <2>1, <2>2, ShownStays
  <2>6. ASSUME opens'[row.run] = 1
        PROVE  /\ runInput'[row.run] \subseteq runInput[row.run]
               /\ known'[row.run] = known[row.run]
    <3>1. opens[row.run] = 1
      BY <2>3, <2>4, <2>6
    <3>2. /\ ~branch[row.run].open
          /\ pc[row.run] = "gate" /\ cob[row.run] # 0 => branch[row.run].open
      BY <1>2, <1>3, <2>1, <3>1 DEF IInv, BuildInv, FirstRunSane, PublishSane
    <3>3. ~ReadInputs(row.run)
      BY <3>2 DEF ReadInputs
    <3>4. runInput'[row.run] \subseteq runInput[row.run]
      BY <1>0, <2>1, <3>3, InputsChange DEF ReadInputs, InputsUnread, RegistryType
    <3>5. known'[row.run] = known[row.run]
      BY <1>0, <2>1, <3>2, IndexChanges DEF Gate, AsksRegistry, RegistryType
    <3>. QED
      BY <3>4, <3>5
  <2>. QED
    BY <2>1, <2>2, <2>3, <2>4, <2>5, <2>6
<1>4. /\ Len(log[rep][d]) \in Nat
      /\ \A k \in 0 .. Len(log[rep][d]) : StateAfter(rep, d, k)' = StateAfter(rep, d, k)
  BY <1>2, LogGrows
<1>5. CASE n \in 2 .. Len(versions[rep][d]) /\ \A m \in 1 .. Len(versions[rep][d]) :
                                         versions'[rep][d][m] = versions[rep][d][m]
  <2>1. /\ n \in 1 .. Len(versions[rep][d]) /\ n - 1 \in 1 .. Len(versions[rep][d])
        /\ v = versions[rep][d][n - 1] /\ w = versions[rep][d][n]
    BY <1>1, <1>2, <1>5
  <2>2. /\ opens[v.run] = 1 /\ opens[w.run] = 1
        /\ v.at \in Nat /\ w.at \in Nat /\ w.at <= Len(log[rep][d])
        /\ Shown(v.run, d)' = Shown(v.run, d) /\ Shown(w.run, d)' = Shown(w.run, d)
        /\ runInput'[v.run] \subseteq runInput[v.run] /\ known'[w.run] = known[w.run]
    BY <1>1, <1>3, <2>1
  <2>r. Restates(v, w, d)
    BY <1>1, <2>2 DEF Restates
  <2>3. PICK k \in v.at .. w.at : ~Closes(StateAfter(rep, d, k))
    BY <1>0, <1>5, <2>1, <2>2, <2>r DEF RestatedOnlyWhenOpen
  <2>4. k \in 0 .. Len(log[rep][d])
    BY <1>4, <2>2
  <2>. QED
    BY <1>4, <2>3, <2>4
<1>6. ASSUME NEW b \in Builds, Numbers(b, rep, d), n = Len(versions[rep][d]) + 1
      PROVE  \E k \in v.at .. w.at : ~Closes(StateAfter(rep, d, k)')
  <2>1. Len(versions[rep][d]) \in 1 .. Len(versions[rep][d]) /\ n - 1 = Len(versions[rep][d])
    BY <1>1, <1>2, <1>6
  <2>2. /\ v = versions[rep][d][Len(versions[rep][d])] /\ v.run # b
        /\ w.run = b /\ w.at = Len(log[rep][d])
    <3>1. /\ v = versions'[rep][d][Len(versions[rep][d])]
          /\ w = versions'[rep][d][Len(versions[rep][d]) + 1]
      BY <1>1, <1>6, <2>1
    <3>2. versions'[rep][d][Len(versions[rep][d])] = versions[rep][d][Len(versions[rep][d])]
          /\ versions[rep][d][Len(versions[rep][d])].run # b
      BY <1>6, <2>1 DEF Numbers
    <3>3. w = [run |-> b, at |-> Len(log[rep][d])]
      BY <1>6, <3>1 DEF Numbers
    <3>. QED
      BY <3>1, <3>2, <3>3
  <2>3. PinReport(b, rep) /\ cob[b] = d /\ pc[b] = "pin"
    BY <1>6 DEF Numbers, PinReport
  <2>4. /\ inputs[b] = PreparedOn(b) /\ d = LatestDate(PreparedOn(b)) /\ d # 0
        /\ MergesOf(b) # {} /\ opens' = opens /\ main' = main
    BY <1>2, <2>3, PinFacts
  <2>5. /\ v.run \in Builds /\ v.at \in Nat /\ v.at <= Len(log[rep][d])
        /\ MergesOf(v.run) # {} /\ opens[v.run] = 1
        /\ Shown(v.run, d)' = Shown(v.run, d)
        /\ runInput'[v.run] \subseteq runInput[v.run]
    BY <1>1, <1>3, <2>1, <2>2
  <2>k. known'[b] = known[b]
    BY <1>0, <2>3, IndexChanges DEF Gate, RegistryType
  <2>6. \/ OpenSince(rep, d, v)
        \/ OnDate(runInput[v.run], d) \intersect known[b]
             = OnDate(inputs[b], d) \intersect known[b]
    <3>1. GateHolds(b) /\ versions[rep][d] # <<>>
      BY <2>1 DEF IInv, BuildInv
    <3>. QED
      BY <2>2, <2>3, <2>4, <3>1 DEF GateHolds
  <2>7. CASE OpenSince(rep, d, v)
    BY <1>4, <2>2, <2>5, <2>7 DEF OpenSince
  <2>8. CASE OnDate(runInput[v.run], d) \intersect known[b]
               = OnDate(inputs[b], d) \intersect known[b]
    <3>1. /\ runInput[v.run] \in {{}, PreparedOn(v.run)}
          /\ d = LatestDate(PreparedOn(v.run))
      <4>1. FirstRunSane(v.run)
        BY <2>5 DEF IInv, BuildInv
      <4>. QED
        BY <1>2, <2>1, <2>2, <2>5, <4>1 DEF FirstRunSane
    <3>2. Shown(v.run, d) = OnDate(PreparedOn(v.run), d)
      BY <2>5, <3>1, FirstRunShows
    <3>3. Shown(b, d) = OnDate(PreparedOn(b), d)
      BY <1>1, <2>2, <2>4, FirstRunShows
    <3>4. Shown(b, d)' = Shown(b, d)
      BY <1>0, <2>4, ShownStays
    <3>5. x \in known[b]
      BY <1>1, <2>2, <2>k
    <3>6. CASE x \in OnDate(PreparedOn(b), d) /\ x \notin OnDate(PreparedOn(v.run), d)
      <4>1. x \in OnDate(runInput[v.run], d)
        BY <2>4, <2>8, <3>5, <3>6
      <4>2. runInput[v.run] = PreparedOn(v.run)
        BY <3>1, <4>1 DEF OnDate
      <4>. QED
        BY <3>6, <4>1, <4>2
    <3>7. CASE /\ x \in OnDate(PreparedOn(v.run), d) /\ x \notin OnDate(PreparedOn(b), d)
               /\ x \in runInput[v.run]
      <4>1. x \in OnDate(runInput[v.run], d)
        BY <3>7 DEF OnDate
      <4>. QED
        BY <2>4, <2>8, <3>5, <3>7, <4>1
    <3>. QED
      BY <1>1, <2>2, <2>5, <3>2, <3>3, <3>4, <3>6, <3>7
  <2>. QED
    BY <2>6, <2>7, <2>8
<1>. QED
  <2>1. n \in 1 .. Len(versions'[rep][d])
    BY <1>1, <1>2
  <2>2. CASE n \in 1 .. Len(versions[rep][d])
    <3>1. CASE versions'[rep][d] = versions[rep][d]
      BY <1>1, <1>2, <1>5, <2>2, <3>1
    <3>2. ASSUME NEW b \in Builds, Numbers(b, rep, d)
          PROVE  \A m \in 1 .. Len(versions[rep][d]) : versions'[rep][d][m] = versions[rep][d][m]
      BY <3>2 DEF Numbers
    <3>3. n \in 2 .. Len(versions[rep][d])
      BY <1>1, <1>2, <2>2
    <3>. QED
      BY <1>2, <1>5, <3>1, <3>2, <3>3, VersionsGrow
  <2>. QED
    BY <1>2, <1>6, <2>1, <2>2, NewVersion
-----------------------------------------------------------------------------
(***************************************************************************)
(* The theorems.                                                           *)
(***************************************************************************)
LEMMA InitIInv == ASSUME Init PROVE IInv
<1>. USE DEF Init
<1>1. TypeOK
  <2>0. 0 \in 0 .. MaxFaults /\ 0 \in 0 .. MaxTries /\ 0 \in 0 .. MaxOpens
    BY PublicationAssumptions
  <2>1. CatalogType
    BY EmptySeq DEF CatalogType, Layers, NoBranch
  <2>2. RegistryType
    BY EmptySeq DEF RegistryType
  <2>3. LifecycleType
    BY EmptySeq DEF LifecycleType
  <2>4. DagrunType
    BY <2>0 DEF DagrunType
  <2>. QED
    BY <2>1, <2>2, <2>3, <2>4 DEF TypeOK
<1>2. Tip = 0 /\ \A b \in Builds : MergesOf(b) = {}
  BY DEF Tip, MergesOf
<1>3. CommitsSane /\ TouchedSane /\ OneAtATime
  <2>1. CommitsSane
    BY <1>2 DEF CommitsSane
  <2>2. TouchedSane
    BY <1>2 DEF TouchedSane, Layers
  <2>3. OneAtATime
    BY DEF OneAtATime, Over
  <2>. QED
    BY <2>1, <2>2, <2>3
<1>4. ASSUME NEW b \in Builds PROVE BuildInv(b)
  <2>0. pc[b] = "idle" /\ opens[b] = 0 /\ runInput[b] = {} /\ cob[b] = 0 /\ ~branch[b].open
    BY <1>4 DEF NoBranch
  <2>1. OpenedSane(b)
    BY <1>2, <2>0 DEF OpenedSane
  <2>2. MergesCounted(b)
    <3>1. Cardinality(MergesOf(b)) = 0
      BY <1>2, FS_EmptySet
    <3>. HIDE DEF Init
    <3>. QED
      BY <2>0, <3>1 DEF MergesCounted, Publishing
  <2>. QED
    BY <2>0, <2>1, <2>2 DEF BuildInv, PublishSane, FirstRunSane, GateHolds, Publishing
<1>5. VersionsDated /\ PublishedIsOnMain /\ OnePublicationOneVersion /\ RestatedOnlyWhenOpen
  <2>1. \A rep \in Reports, d \in Dates : versions[rep][d] = <<>>
    OBVIOUS
  <2>2. Restate \subseteq Reports
    BY PublicationAssumptions
  <2>. QED
    BY <2>1, <2>2
       DEF VersionsDated, PublishedIsOnMain, OnePublicationOneVersion, RestatedOnlyWhenOpen
<1>. QED
  BY <1>1, <1>3, <1>4, <1>5 DEF IInv

LEMMA NextIInv == ASSUME IInv, [Next]_vars PROVE IInv'
<1>1. \A b \in Builds : BuildInv(b)'
  BY OpenedSaneKept, MergesCountedKept, PublishSaneKept, FirstRunSaneKept, GateHoldsKept
     DEF BuildInv
<1>. QED
  BY <1>1, NextType, CommitsSaneKept, TouchedSaneKept, OneAtATimeKept, VersionsDatedKept,
     PublishedIsOnMainKept, OnePublicationOneVersionKept, RestatedOnlyWhenOpenKept
     DEF IInv

\* The inductive invariant, of which every theorem below is a consequence.
THEOREM PublicationInvariant == Spec => []IInv
<1>1. Init => IInv
  BY InitIInv
<1>2. IInv /\ [Next]_vars => IInv'
  BY NextIInv
<1>. QED
  BY <1>1, <1>2, PTL DEF Spec

\* Every variable keeps its type; in particular no try is begun that Airflow
\* would not grant, and no report is pinned to a date the build does not know.
THEOREM TypeCorrect == Spec => []TypeOK
<1>1. IInv => TypeOK
  BY DEF IInv
<1>. QED
  BY <1>1, PublicationInvariant, PTL

\* Airflow's retries of the publish task, and replies that are lost on their
\* way, never put one DagRun's branch on `main` twice: at most one merge for each
\* time it is run.
THEOREM MergesOncePerOpening == Spec => []OneMergePerOpening
<1>1. IInv => OneMergePerOpening
  BY DEF IInv, BuildInv, MergesCounted, OneMergePerOpening
<1>. QED
  BY <1>1, PublicationInvariant, PTL

\* A status of published, a version number or a tag is of a run whose layer is on
\* `main`, for whatever tries, lost replies and lost writes (publish_and_record).
THEOREM PublishedReallyIs == Spec => []PublishedIsOnMain
<1>1. IInv => PublishedIsOnMain
  BY DEF IInv
<1>. QED
  BY <1>1, PublicationInvariant, PTL

\* allocate_version: a run has one version number per report and date, however
\* often its publication is repeated.
THEOREM OneVersionEach == Spec => []OnePublicationOneVersion
<1>1. IInv => OnePublicationOneVersion
  BY DEF IInv
<1>. QED
  BY <1>1, PublicationInvariant, PTL

\* The published tag of a run that was run once shows the Deliveries that
\* record_inputs wrote down for it, whatever arrived on `main` in the meantime.
THEOREM TagsShowTheirInputs == Spec => []TagShowsRecordedInputs
<1>1. ASSUME IInv PROVE TagShowsRecordedInputs
  <2>1. SUFFICES ASSUME NEW g \in tags, opens[g.run] = 1, runInput[g.run] # {}
                 PROVE  OnDate(main[g.commit].reporting, g.date)
                          = OnDate(runInput[g.run], g.date)
    BY DEF TagShowsRecordedInputs
  <2>2. g.run \in Builds
    BY <1>1 DEF IInv, TypeOK, CatalogType
  <2>3. FirstRunSane(g.run)
    BY <1>1, <2>2 DEF IInv, BuildInv
  <2>. QED
    BY <2>1, <2>3 DEF FirstRunSane, ShowsLatest
<1>. QED
  BY <1>1, PublicationInvariant, PTL

\* The as-at lifecycle's promise for the dates the gate asks about: a `restate`
\* report is not republished with other numbers unless its date was open at some
\* moment between the two versions.
THEOREM ClosedDatesStand == Spec => []RestatedOnlyWhenOpen
<1>1. IInv => RestatedOnlyWhenOpen
  BY DEF IInv
<1>. QED
  BY <1>1, PublicationInvariant, PTL
=============================================================================
