------------------------- MODULE Housekeeping_proofs -------------------------
(***************************************************************************)
(* Proofs about Housekeeping, for any ingests, builds, dates, windows and  *)
(* bounds: no reference's file is deleted, publications keep their pins,   *)
(* and a night lists the garbage it made.                                  *)
(***************************************************************************)
EXTENDS Housekeeping, FiniteSetTheorems, WellFoundedInduction, TLAPS

(***************************************************************************)
(* Dates.                                                                  *)
(***************************************************************************)
\* A set of natural numbers has a least element.
LEMMA LeastNatural ==
  ASSUME NEW T \in SUBSET Nat, T # {}
  PROVE  \E m \in T : \A k \in T : m <= k
<1>1. IsWellFoundedOn(OpToRel(<, Nat), Nat)
  BY NatLessThanWellFounded
<1>2. PICK x \in T : \A y \in T : ~ (<<y, x>> \in OpToRel(<, Nat))
  BY <1>1, WFMin
<1>3. \A y \in T : ~(y < x)
  BY <1>2 DEF OpToRel
<1>. QED
  BY <1>3

\* What a keep rule is given and does not expire has a date as late as any: the
\* one with the fewest above it.
LEMMA NewestIsKept ==
  ASSUME NEW S \in SUBSET Nat, IsFiniteSet(S), NEW d \in S
  PROVE  \E m \in S \ ExpireSet(S) : d <= m
<1>. DEFINE Above(x) == {y \in S : y > x}
            Counts == {Cardinality(Above(x)) : x \in S}
<1>0. \A x \in S : x \in Nat
  OBVIOUS
<1>1. \A x \in S : IsFiniteSet(Above(x)) /\ Cardinality(Above(x)) \in Nat
  BY FS_Subset, FS_CardinalityType
<1>2. Counts \in SUBSET Nat /\ Counts # {}
  BY <1>1
<1>3. PICK m \in Counts : \A k \in Counts : m <= k
  <2>. HIDE DEF Counts
  <2>. QED
    BY <1>2, LeastNatural
<1>4. PICK x \in S : m = Cardinality(Above(x))
  BY <1>3
<1>5. ASSUME NEW y \in S, y > x
      PROVE  FALSE
  <2>0. x \in Nat /\ y \in Nat
    BY <1>0
  <2>1. \A z \in S : z > y => z > x
    BY <1>0, <1>5, <2>0
  <2>a. ~(y > y)
    BY <2>0
  <2>2. Above(y) \in SUBSET Above(x) /\ y \in Above(x) /\ y \notin Above(y)
    BY <1>5, <2>1, <2>a
  <2>3. /\ Cardinality(Above(x)) <= Cardinality(Above(y))
        /\ Cardinality(Above(x)) \in Nat /\ Cardinality(Above(y)) \in Nat
        /\ IsFiniteSet(Above(x))
    BY <1>1, <1>3, <1>4
  <2>4. Cardinality(Above(y)) <= Cardinality(Above(x))
    BY <1>1, <2>2, FS_Subset
  <2>. HIDE DEF Above
  <2>. QED
    BY <2>2, <2>3, <2>4, FS_Subset
<1>6. Above(x) = {}
  BY <1>5
<1>7. Cardinality(Above(x)) = 0
  BY <1>6, FS_EmptySet
<1>8. x \in Newest(S, KeepDays)
  BY <1>7, KeepRulesAssumptions DEF Newest
<1>9. d <= x
  BY <1>0, <1>5
<1>. QED
  BY <1>8, <1>9 DEF ExpireSet, KeepSet

\* The dates of files are dates.
LEMMA DatesAreNumbers == \A w \in Writers : DateOf[w] \in Nat
BY HousekeepingAssumptions, KeepRulesAssumptions

\* Per table, expiry leaves a file as late as any it was given.
LEMMA TableKeepsNewest ==
  ASSUME NEW S \in SUBSET Files, NEW f \in S
  PROVE  \E g \in S : DateOf[g[1]] \notin ExpireSet(OfDates(S)) /\ DateOf[f[1]] <= DateOf[g[1]]
<1>1. IsFiniteSet(Files)
  <2>0. IsFiniteSet({1} \union {2})
    BY FS_Singleton, FS_AddElement
  <2>1. IsFiniteSet({1, 2})
    BY <2>0, SMTT(30)
  <2>. QED
    BY <2>1, HousekeepingAssumptions, FS_Product DEF Files
<1>2. IsFiniteSet(S)
  BY <1>1, FS_Subset
<1>3. IsFiniteSet(OfDates(S))
  <2>. DEFINE h == [g \in S |-> DateOf[g[1]]]
  <2>1. h \in Surjection(S, OfDates(S))
    BY DEF Surjection, OfDates
  <2>. HIDE DEF h
  <2>. QED
    BY <1>2, <2>1, FS_Surjection
<1>4. OfDates(S) \in SUBSET Nat
  BY DatesAreNumbers DEF OfDates, Files
<1>5. DateOf[f[1]] \in OfDates(S)
  BY DEF OfDates
<1>6. PICK m \in OfDates(S) \ ExpireSet(OfDates(S)) : DateOf[f[1]] <= m
  BY <1>3, <1>4, <1>5, NewestIsKept
<1>7. PICK g \in S : m = DateOf[g[1]]
  BY DEF OfDates
<1>. QED
  BY <1>6, <1>7

(***************************************************************************)
(* Types.                                                                  *)
(***************************************************************************)
\* What the constants are.
LEMMA Windows ==
  /\ TagDays \in Nat /\ SnapshotDays \in Nat /\ LandingDays \in Nat /\ AbandonDays \in Nat
  /\ CutoffDays \in Nat /\ DeferDays \in Nat /\ OrphanDays \in Nat /\ RecentDays \in Nat
  /\ MaxDay \in Nat \ {0} /\ MaxFaults \in Nat /\ BranchDays \in Nat
  /\ \A w \in Writers : PinDays(w) \in Nat
<1>1. /\ TagDays \in Nat /\ SnapshotDays \in Nat /\ LandingDays \in Nat /\ AbandonDays \in Nat
      /\ CutoffDays \in Nat /\ DeferDays \in Nat /\ OrphanDays \in Nat /\ RecentDays \in Nat
      /\ MaxDay \in Nat \ {0} /\ MaxFaults \in Nat
  BY HousekeepingAssumptions
<1>. QED
  BY <1>1 DEF BranchDays, Larger, PinDays

LEMMA WritersAndFiles ==
  /\ Ingests \intersect Builds = {} /\ None \notin Builds
  /\ Writers = Ingests \union Builds
  /\ \A i \in Ingests, g \in {1, 2} : <<i, g>> \in Raw
  /\ \A b \in Builds, g \in {1, 2} : <<b, g>> \in Report
  /\ \A f \in Raw : f[1] \in Ingests /\ f[2] \in {1, 2} /\ f = <<f[1], f[2]>>
  /\ \A f \in Report : f[1] \in Builds /\ f[2] \in {1, 2} /\ f = <<f[1], f[2]>>
  /\ Raw \intersect Report = {} /\ Files = Raw \union Report
BY HousekeepingAssumptions DEF Files, Writers, Raw, Report, TableFiles

\* Ages grow by a night and stop past their window.
LEMMA GrownFacts ==
  ASSUME NEW n \in Nat, NEW days \in Nat
  PROVE  /\ Grown(n, days) \in Nat
         /\ n <= days + 2 => Grown(n, days) \in 0 .. days + 2
         /\ Grown(n, days) = 0 <=> n = 0
         /\ Grown(n, days) \in {n, n + 1}
         /\ n = 1 => Grown(n, days) = 2
         /\ Old(n, days) => Old(Grown(n, days), days)
BY DEF Grown, Old

LEMMA SetMainType ==
  ASSUME FilesType, NEW S \in SUBSET Files, SetMain(S)
  PROVE  main' \in SUBSET Files /\ dropped' \in [Files -> 0 .. CutoffDays + 2]
BY Windows DEF SetMain, FilesType

LEMMA RewrittenType ==
  ASSUME main \subseteq Files, NEW T
  PROVE  Rewritten(T) \in SUBSET Files
BY DEF Rewritten, Files

LEMMA BranchHeadType ==
  ASSUME BranchType, NEW b \in Builds
  PROVE  BranchHead(b) \in SUBSET Files
BY WritersAndFiles, ZenonT(30) DEF BranchType, BranchHead, Built

Nights == {"day", "maintain", "branches", "tags", "gc", "deferred", "rows", "landing", "orphans"}

\* The steps of the night follow one another.
LEMMA StepsFollow ==
  ASSUME NEW step \in Nights \ {"day"}
  PROVE  /\ Following(step) \in Nights
         /\ Goes(step) \/ Stops(step) => night' \in Nights
BY DEF Nights, Following, Goes, Stops

LEMMA NightKept ==
  ASSUME TypeOK, [Next]_vars
  PROVE  NightType'
<1>0. MaxDay \in Nat /\ MaxFaults \in Nat
  BY Windows
<1>. USE <1>0 DEF TypeOK, NightType
<1>1. CASE UNCHANGED vars
  BY <1>1 DEF vars
<1>2. ASSUME NEW i \in Ingests, Ingest(i)
      PROVE  NightType'
  BY <1>2 DEF Ingest
<1>3. ASSUME NEW i \in Ingests, RecordSnapshot(i)
      PROVE  NightType'
  BY <1>3 DEF RecordSnapshot, Fault, NoFault
<1>4. ASSUME NEW b \in Builds, OpenBuild(b) \/ Build(b)
      PROVE  NightType'
  BY <1>4 DEF OpenBuild, Build
<1>5. ASSUME NEW b \in Builds, Publish(b)
      PROVE  NightType'
  BY <1>5 DEF Publish, Fault, NoFault
<1>6. CASE NightFalls \/ Maintain
  BY <1>6 DEF NightFalls, Maintain, Goes, Following, Fault, NoFault
<1>7. CASE SweepBranches \/ ExpireTags \/ CollectGarbage
  <2>1. night' \in Nights
    BY <1>7, StepsFollow DEF SweepBranches, ExpireTags, CollectGarbage, Nights
  <2>2. CASE SweepBranches
    BY <2>1, <2>2 DEF SweepBranches, Stops, Fault, NoFault, Nights
  <2>3. CASE ExpireTags
    <3>1. (NoFault \/ Fault) /\ UNCHANGED <<today, landing>>
      BY <2>3 DEF ExpireTags, Stops
    <3>. QED
      BY <2>1, <3>1 DEF Fault, NoFault, Nights
  <2>4. CASE CollectGarbage
    BY <2>1, <2>4 DEF CollectGarbage, Stops, Fault, NoFault, Nights
  <2>. QED
    BY <1>7, <2>2, <2>3, <2>4
<1>8. CASE DeleteDeferred \/ ExpireRows \/ SweepLanding \/ SweepOrphans
  <2>1. night' \in Nights
    BY <1>8, StepsFollow DEF DeleteDeferred, ExpireRows, SweepLanding, SweepOrphans, Done, Nights
  <2>2. CASE DeleteDeferred
    BY <2>1, <2>2 DEF DeleteDeferred, Done, Fault, NoFault, Nights
  <2>3. CASE ExpireRows
    BY <2>1, <2>3 DEF ExpireRows, Done, Fault, NoFault, Nights
  <2>4. CASE SweepLanding
    BY <2>1, <2>4 DEF SweepLanding, Done, Fault, NoFault, Nights
  <2>5. CASE SweepOrphans
    BY <2>1, <2>5 DEF SweepOrphans, Done, Fault, NoFault, Nights
  <2>. QED
    BY <1>8, <2>2, <2>3, <2>4, <2>5
<1>. QED
  BY <1>1, <1>2, <1>3, <1>4, <1>5, <1>6, <1>7, <1>8 DEF Next, Night

LEMMA FilesKept ==
  ASSUME TypeOK, [Next]_vars
  PROVE  FilesType'
<1>0. FilesType /\ BranchType /\ main \in SUBSET Files
  BY DEF TypeOK, FilesType
<1>. USE DEF FilesType
<1>1. CASE UNCHANGED vars
  BY <1>0, <1>1 DEF vars
<1>2. ASSUME NEW i \in Ingests, Ingest(i)
      PROVE  FilesType'
  <2>1. <<i, 1>> \in Files
    BY WritersAndFiles
  <2>2. (main \union {<<i, 1>>}) \in SUBSET Files
    BY <1>0, <2>1
  <2>. QED
    BY <1>0, <1>2, <2>1, <2>2, SetMainType DEF Ingest
<1>3. ASSUME NEW b \in Builds, Build(b)
      PROVE  FilesType'
  BY <1>0, <1>3, WritersAndFiles DEF Build
<1>4. ASSUME NEW b \in Builds, Publish(b)
      PROVE  FilesType'
  BY <1>0, <1>4, SetMainType, BranchHeadType DEF Publish
<1>5. CASE NightFalls
  <2>0. CutoffDays \in Nat /\ DeferDays \in Nat
    BY Windows
  <2>1. ASSUME NEW f \in Files
        PROVE  /\ Grown(dropped[f], CutoffDays) \in 0 .. CutoffDays + 2
               /\ Grown(deferred[f], DeferDays) \in 0 .. DeferDays + 2
    <3>1. /\ dropped[f] \in Nat /\ dropped[f] <= CutoffDays + 2
          /\ deferred[f] \in Nat /\ deferred[f] <= DeferDays + 2
      BY <1>0, <2>0
    <3>. QED
      BY <2>0, <3>1, GrownFacts
  <2>. QED
    BY <1>0, <1>5, <2>1 DEF NightFalls
<1>6. CASE Maintain
  <2>1. PICK T : SetMain(Rewritten(T)) /\ store' = store \union Rewritten(T)
    BY <1>6 DEF Maintain
  <2>. QED
    BY <1>0, <1>6, <2>1, SetMainType, RewrittenType DEF Maintain
<1>7. CASE CollectGarbage
  BY <1>0, <1>7, Windows DEF CollectGarbage
<1>8. CASE DeleteDeferred
  BY <1>0, <1>8, Windows DEF DeleteDeferred
<1>9. CASE ExpireRows
  <2>1. PICK Tables : SetMain(main \ UNION {ExpiredRows(T) : T \in Tables})
    BY <1>9 DEF ExpireRows
  <2>2. (main \ UNION {ExpiredRows(T) : T \in Tables}) \in SUBSET Files
    BY <1>0
  <2>3. main' \in SUBSET Files /\ dropped' \in [Files -> 0 .. CutoffDays + 2]
    BY <1>0, <2>1, <2>2, SetMainType
  <2>. QED
    BY <1>0, <1>9, <2>3 DEF ExpireRows
<1>10. CASE SweepOrphans
  BY <1>0, <1>10 DEF SweepOrphans
<1>. QED
  BY <1>0, <1>1, <1>2, <1>3, <1>4, <1>5, <1>6, <1>7, <1>8, <1>9, <1>10
  DEF Next, Night, RecordSnapshot, OpenBuild, SweepBranches, ExpireTags, SweepLanding

LEMMA BranchKept ==
  ASSUME TypeOK, BasesAreOlder, OneHome, [Next]_vars
  PROVE  BranchType'
<1>0. BranchType /\ main \in SUBSET Files
  BY DEF TypeOK, FilesType
<1>. USE DEF BranchType
<1>1. CASE UNCHANGED vars
  BY <1>0, <1>1 DEF vars
<1>2. ASSUME NEW b \in Builds, OpenBuild(b)
      PROVE  BranchType'
  BY <1>0, <1>2 DEF OpenBuild
<1>3. ASSUME NEW b \in Builds, Build(b)
      PROVE  BranchType'
  <2>1. home' \in [Builds -> Builds \union {None}]
    <3>1. \A f \in branch[b].base \intersect Report : home[f[1]] \in Builds
      BY <1>3 DEF BasesAreOlder, OneHome, Running, Build, Report, TableFiles
    <3>2. branch[b].base \intersect Report # {} =>
            (CHOOSE p \in Builds : \E f \in branch[b].base \intersect Report : home[f[1]] = p)
              \in Builds
      BY <3>1
    <3>. QED
      BY <1>0, <1>3, <3>2 DEF Build
  <2>. QED
    <3>1. 1 \in 0 .. BranchDays + 2
      BY Windows
    <3>2. branch' = [branch EXCEPT ![b] = [branch[b] EXCEPT !.pc = "built", !.age = 1]]
      BY <1>0, <1>3 DEF Build
    <3>. QED
      BY <1>0, <2>1, <3>1, <3>2
<1>4. ASSUME NEW B, branch' = Without(B), home' = home
      PROVE  BranchType'
  BY <1>0, <1>4 DEF Without
<1>5. ASSUME NEW b \in Builds, Publish(b)
      PROVE  BranchType'
  BY <1>0, <1>4, <1>5 DEF Publish
<1>6. CASE NightFalls
  <2>1. ASSUME NEW b \in Builds
        PROVE  Grown(branch[b].age, BranchDays) \in 0 .. BranchDays + 2
    <3>1. branch[b].age \in Nat /\ branch[b].age <= BranchDays + 2 /\ BranchDays \in Nat
      BY <1>0, Windows
    <3>. QED
      BY <3>1, GrownFacts
  <2>. QED
    BY <1>0, <1>6, <2>1 DEF NightFalls
<1>7. CASE SweepBranches
  BY <1>0, <1>4, <1>7 DEF SweepBranches
<1>. QED
  BY <1>0, <1>1, <1>2, <1>3, <1>5, <1>6, <1>7
  DEF Next, Night, Ingest, RecordSnapshot, Maintain, ExpireTags, CollectGarbage,
      DeleteDeferred, ExpireRows, SweepLanding, SweepOrphans

LEMMA PinKept ==
  ASSUME TypeOK, [Next]_vars
  PROVE  PinType'
<1>0. PinType /\ FilesType' /\ BranchType
  BY FilesKept DEF TypeOK
<1>. USE DEF PinType
<1>1. CASE UNCHANGED vars
  BY <1>0, <1>1 DEF vars
<1>2. ASSUME NEW i \in Ingests, Ingest(i)
      PROVE  PinType'
  BY <1>0, <1>2, ZenonT(30) DEF Ingest, FilesType
<1>3. ASSUME NEW i \in Ingests, RecordSnapshot(i)
      PROVE  PinType'
  BY <1>0, <1>3 DEF RecordSnapshot
<1>4. ASSUME NEW b \in Builds, Publish(b)
      PROVE  PinType'
  <2>1. Inputs(b) \in SUBSET Ingests
    BY <1>0 DEF Inputs, Raw, TableFiles
  <2>. QED
    <3>1. [kept |-> TRUE, age |-> 1, files |-> main', inputs |-> Inputs(b)]
            \in [kept : BOOLEAN, age : Nat, files : SUBSET Files, inputs : SUBSET Ingests]
      BY <1>0, <2>1 DEF FilesType
    <3>2. \/ UNCHANGED pin
          \/ pin' = [pin EXCEPT ![b] = [kept |-> TRUE, age |-> 1, files |-> main',
                                       inputs |-> Inputs(b)]]
      BY <1>4 DEF Publish
    <3>. QED
      BY <1>0, <3>1, <3>2
<1>5. CASE NightFalls
  <2>1. \A w \in Writers : Grown(pin[w].age, PinDays(w)) \in Nat
    BY <1>0, Windows, GrownFacts
  <2>. QED
    BY <1>0, <1>5, <2>1 DEF NightFalls
<1>6. CASE ExpireTags
  BY <1>0, <1>6 DEF ExpireTags
<1>. QED
  BY <1>0, <1>1, <1>2, <1>3, <1>4, <1>5, <1>6
  DEF Next, Night, OpenBuild, Build, Maintain, SweepBranches, CollectGarbage,
      DeleteDeferred, ExpireRows, SweepLanding, SweepOrphans

(***************************************************************************)
(* What a step does, variable by variable.                                 *)
(***************************************************************************)
\* To a branch.
LEMMA BranchStep ==
  ASSUME TypeOK, [Next]_vars, NEW b \in Builds
  PROVE  \/ branch'[b].pc = branch[b].pc /\ branch'[b].base = branch[b].base
         \/ OpenBuild(b) /\ branch'[b].pc = "open" /\ branch'[b].base = main
         \/ Build(b) /\ branch'[b].pc = "built" /\ branch'[b].base = branch[b].base
         \/ branch'[b].pc = "gone" /\ branch'[b].base = {}
<1>0. /\ branch \in [Builds -> [pc : {"none", "open", "built", "gone"},
                                base : SUBSET Files, age : 0 .. BranchDays + 2]]
  BY DEF TypeOK, BranchType
<1>1. CASE UNCHANGED branch
  BY <1>1
<1>2. ASSUME NEW c \in Builds, OpenBuild(c)
      PROVE  IF c = b THEN branch'[b].pc = "open" /\ branch'[b].base = main
             ELSE branch'[b] = branch[b]
  <2>1. branch' = [branch EXCEPT ![c] = [[branch[c] EXCEPT !.pc = "open"] EXCEPT !.base = main]]
    BY <1>0, <1>2, Zenon DEF OpenBuild
  <2>2. PICK r : r = [branch[c] EXCEPT !.pc = "open"]
    OBVIOUS
  <2>3. r.pc = "open" /\ r \in [pc : {"none", "open", "built", "gone"},
                                base : SUBSET Files, age : 0 .. BranchDays + 2]
    BY <1>0, <2>2
  <2>. QED
    BY <1>0, <2>1, <2>2, <2>3
<1>3. ASSUME NEW c \in Builds, Build(c)
      PROVE  IF c = b THEN branch'[b].pc = "built" /\ branch'[b].base = branch[b].base
             ELSE branch'[b] = branch[b]
  BY <1>0, <1>3 DEF Build
<1>4. ASSUME NEW B, branch' = Without(B)
      PROVE  IF b \in B THEN branch'[b].pc = "gone" /\ branch'[b].base = {}
             ELSE branch'[b] = branch[b]
  BY <1>0, <1>4 DEF Without
<1>5. ASSUME NEW c \in Builds, Publish(c), branch' # branch
      PROVE  branch' = Without({c})
  BY <1>5 DEF Publish
<1>6. CASE NightFalls
  BY <1>0, <1>6 DEF NightFalls
<1>7. CASE SweepBranches
  BY <1>4, <1>7 DEF SweepBranches
<1>. QED
  BY <1>1, <1>2, <1>3, <1>4, <1>5, <1>6, <1>7
  DEF Next, Night, vars, Ingest, RecordSnapshot, Maintain, ExpireTags, CollectGarbage,
      DeleteDeferred, ExpireRows, SweepLanding, SweepOrphans


LEMMA BuildBranch ==
  ASSUME TypeOK, NEW b \in Builds, Build(b)
  PROVE  branch'[b].pc = "built" /\ branch'[b].base = branch[b].base
BY DEF TypeOK, BranchType, Build

\* To a tag.
LEMMA IngestPin ==
  ASSUME TypeOK, NEW i \in Ingests, Ingest(i)
  PROVE  /\ pin'[i].kept = pin[i].kept /\ pin'[i].age = 1 /\ pin'[i].files = main'
         /\ \A w \in Writers \ {i} : pin'[w] = pin[w]
<1>. DEFINE R == [kept : BOOLEAN, age : Nat, files : SUBSET Files, inputs : SUBSET Ingests]
<1>0. pin \in [Writers -> R] /\ i \in Writers
  BY WritersAndFiles DEF TypeOK, PinType
<1>1. pin' = [pin EXCEPT ![i] = [[pin[i] EXCEPT !.age = 1] EXCEPT !.files = main']]
  BY <1>0, Zenon DEF Ingest
<1>2. PICK r : r = [pin[i] EXCEPT !.age = 1]
  OBVIOUS
<1>3. r.age = 1 /\ r.kept = pin[i].kept /\ r \in R
  BY <1>0, <1>2
<1>4. pin' = [pin EXCEPT ![i] = [r EXCEPT !.files = main']]
  BY <1>1, <1>2
<1>. QED
  BY <1>0, <1>3, <1>4

LEMMA PinStep ==
  ASSUME TypeOK, [Next]_vars, NEW w \in Writers
  PROVE  \/ /\ pin'[w].kept = pin[w].kept /\ pin'[w].files = pin[w].files
            /\ \/ pin'[w].age = pin[w].age
               \/ NightFalls /\ pin'[w].age = Grown(pin[w].age, PinDays(w))
         \/ /\ w \in Ingests /\ Ingest(w)
            /\ pin'[w].kept = pin[w].kept /\ pin'[w].age = 1 /\ pin'[w].files = main'
         \/ /\ w \in Untagged
            /\ pin'[w].kept = TRUE /\ pin'[w].age = pin[w].age /\ pin'[w].files = pin[w].files
         \/ /\ w \in Untagged
            /\ pin'[w].kept = FALSE /\ pin'[w].age = pin[w].age /\ pin'[w].files = {}
         \/ /\ w \in Kept /\ Expired(w)
            /\ pin'[w].kept = FALSE /\ pin'[w].age = pin[w].age /\ pin'[w].files = {}
         \/ /\ w \in Builds /\ Publish(w)
            /\ pin'[w].kept = TRUE /\ pin'[w].age = 1 /\ pin'[w].files = main'
<1>. DEFINE R == [kept : BOOLEAN, age : Nat, files : SUBSET Files, inputs : SUBSET Ingests]
<1>0. pin \in [Writers -> R]
  BY DEF TypeOK, PinType
<1>1. CASE UNCHANGED pin
  BY <1>1
<1>2. ASSUME NEW i \in Ingests, Ingest(i), pin'[w] # pin[w]
      PROVE  i = w /\ pin'[w].kept = pin[w].kept /\ pin'[w].age = 1 /\ pin'[w].files = main'
  BY <1>2, IngestPin
<1>3. ASSUME NEW i \in Ingests, RecordSnapshot(i), pin'[w] # pin[w]
      PROVE  /\ w \in Untagged
             /\ \/ /\ pin'[w].kept = TRUE /\ pin'[w].age = pin[w].age
                   /\ pin'[w].files = pin[w].files
                \/ /\ pin'[w].kept = FALSE /\ pin'[w].age = pin[w].age /\ pin'[w].files = {}
  <2>1. i = w
    BY <1>0, <1>3 DEF RecordSnapshot
  <2>2. w \in Untagged /\ pin[w] \in R /\ pin[w].kept = FALSE
    BY <1>0, <1>3, <2>1 DEF RecordSnapshot, Untagged
  <2>. QED
    BY <1>0, <1>3, <2>1, <2>2 DEF RecordSnapshot
<1>4. ASSUME NEW b \in Builds, Publish(b), pin'[w] # pin[w]
      PROVE  b = w /\ pin'[w].kept = TRUE /\ pin'[w].age = 1 /\ pin'[w].files = main'
  <2>1. pin' = [pin EXCEPT ![b] = [kept |-> TRUE, age |-> 1, files |-> main',
                                   inputs |-> Inputs(b)]]
    BY <1>4 DEF Publish
  <2>. QED
    BY <1>0, <1>4, <2>1
<1>5. CASE NightFalls
  <2>1. pin'[w] = [pin[w] EXCEPT !.age = Grown(pin[w].age, PinDays(w))] /\ pin[w] \in R
    BY <1>0, <1>5 DEF NightFalls
  <2>. QED
    BY <1>5, <2>1
<1>6. ASSUME ExpireTags, pin'[w] # pin[w]
      PROVE  /\ w \in Kept /\ Expired(w)
             /\ pin'[w].kept = FALSE /\ pin'[w].age = pin[w].age /\ pin'[w].files = {}
  <2>1. PICK W \in SUBSET {v \in Kept : Expired(v)} :
          pin' = [v \in Writers |->
                   IF v \in W THEN [[pin[v] EXCEPT !.kept = FALSE] EXCEPT !.files = {}]
                   ELSE pin[v]]
    BY <1>6, Zenon DEF ExpireTags
  <2>2. pin'[w] = IF w \in W THEN [[pin[w] EXCEPT !.kept = FALSE] EXCEPT !.files = {}] ELSE pin[w]
    BY <2>1, Zenon
  <2>3. w \in W /\ pin'[w] = [[pin[w] EXCEPT !.kept = FALSE] EXCEPT !.files = {}]
    BY <1>6, <2>2, Zenon
  <2>4. PICK r : r = [pin[w] EXCEPT !.kept = FALSE]
    OBVIOUS
  <2>5. r.kept = FALSE /\ r.age = pin[w].age /\ r \in R
    BY <1>0, <2>4
  <2>6. pin'[w] = [r EXCEPT !.files = {}]
    BY <2>3, <2>4
  <2>. QED
    BY <2>1, <2>3, <2>5, <2>6
<1>. HIDE DEF R
<1>. QED
  BY <1>1, <1>2, <1>3, <1>4, <1>5, <1>6
  DEF Next, Night, vars, OpenBuild, Build, Maintain, SweepBranches, CollectGarbage,
      DeleteDeferred, ExpireRows, SweepLanding, SweepOrphans

\* To main's head.
LEMMA MainStep ==
  ASSUME [Next]_vars
  PROVE  \/ main' = main /\ dropped' = dropped
         \/ /\ main' = main /\ NightFalls
            /\ dropped' = [f \in Files |-> Grown(dropped[f], CutoffDays)]
         \/ \E i \in Ingests : Ingest(i) /\ SetMain(main \union {<<i, 1>>})
         \/ \E b \in Builds :
              /\ Publish(b) /\ main \intersect Report = branch[b].base \intersect Report
              /\ SetMain((main \intersect Raw) \union (BranchHead(b) \intersect Report))
         \/ \E T : SetMain(Rewritten(T)) /\ store' = store \union Rewritten(T) /\ Maintain
         \/ ExpireRows /\ \E Tables \in SUBSET {Raw, Report} :
                            SetMain(main \ UNION {ExpiredRows(T) : T \in Tables})
<1>1. CASE UNCHANGED <<main, dropped>>
  BY <1>1
<1>2. CASE NightFalls
  BY <1>2 DEF NightFalls
<1>3. ASSUME NEW i \in Ingests, Ingest(i)
      PROVE  SetMain(main \union {<<i, 1>>})
  BY <1>3 DEF Ingest
<1>4. ASSUME NEW b \in Builds, Publish(b)
      PROVE  /\ main \intersect Report = branch[b].base \intersect Report
             /\ SetMain((main \intersect Raw) \union (BranchHead(b) \intersect Report))
  BY <1>4 DEF Publish
<1>5. CASE Maintain
  <2>1. \E T : SetMain(Rewritten(T)) /\ store' = store \union Rewritten(T)
    BY <1>5, Zenon DEF Maintain
  <2>. QED
    BY <1>5, <2>1
<1>6. CASE ExpireRows
  <2>1. \E Tables \in SUBSET {Raw, Report} :
          SetMain(main \ UNION {ExpiredRows(T) : T \in Tables})
    BY <1>6, Zenon DEF ExpireRows
  <2>. QED
    BY <1>6, <2>1
<1>. QED
  BY <1>1, <1>2, <1>3, <1>4, <1>5, <1>6
  DEF Next, Night, vars, RecordSnapshot, OpenBuild, Build, SweepBranches, ExpireTags,
      CollectGarbage, DeleteDeferred, SweepLanding, SweepOrphans

\* To storage: files appear by Ingest, Build and Maintain ...
LEMMA StoreGrows ==
  ASSUME [Next]_vars
  PROVE  \/ store' \subseteq store
         \/ \E i \in Ingests : Ingest(i) /\ store' = store \union {<<i, 1>>} /\ deferred' = deferred
         \/ \E b \in Builds : Build(b) /\ store' = store \union {<<b, 1>>} /\ deferred' = deferred
         \/ Maintain /\ deferred' = deferred
<1>1. ASSUME NEW i \in Ingests, Ingest(i)
      PROVE  store' = store \union {<<i, 1>>} /\ deferred' = deferred
  BY <1>1 DEF Ingest
<1>2. ASSUME NEW b \in Builds, Build(b)
      PROVE  store' = store \union {<<b, 1>>} /\ deferred' = deferred
  BY <1>2 DEF Build
<1>3. CASE Maintain
  BY <1>3 DEF Maintain
<1>. QED
  BY <1>1, <1>2, <1>3
  DEF Next, Night, vars, RecordSnapshot, OpenBuild, Publish, NightFalls, SweepBranches,
      ExpireTags, CollectGarbage, DeleteDeferred, ExpireRows, SweepLanding, SweepOrphans

\* ... and go by the two sweeps.
LEMMA StoreShrinks ==
  ASSUME TypeOK, [Next]_vars, NEW f \in store, f \notin store'
  PROVE  deferred[f] > 0 \/ f \in Orphans
<1>1. CASE DeleteDeferred
  <2>1. f \in Files /\ Old(deferred[f], DeferDays)
    BY <1>1 DEF DeleteDeferred
  <2>2. deferred[f] \in Nat /\ DeferDays \in Nat
    BY <2>1, Windows DEF TypeOK, FilesType
  <2>. QED
    BY <2>1, <2>2 DEF Old
<1>2. CASE SweepOrphans
  BY <1>2 DEF SweepOrphans
<1>. QED
  BY <1>1, <1>2
  DEF Next, Night, vars, Ingest, RecordSnapshot, OpenBuild, Build, Publish, NightFalls,
      Maintain, SweepBranches, ExpireTags, CollectGarbage, ExpireRows, SweepLanding

\* A delete is recorded by the GC, of what it found in storage.
LEMMA DeferredStep ==
  ASSUME TypeOK, [Next]_vars, NEW f \in Files, deferred[f] = 0
  PROVE  deferred'[f] = 0 \/ (CollectGarbage /\ f \in Garbage)
<1>0. deferred \in [Files -> Nat]
  BY Windows DEF TypeOK, FilesType
<1>1. CASE UNCHANGED deferred
  BY <1>1
<1>2. CASE NightFalls
  <2>1. deferred'[f] = Grown(0, DeferDays) /\ DeferDays \in Nat
    BY <1>2, Windows DEF NightFalls
  <2>. QED
    BY <2>1 DEF Grown, Old
<1>3. CASE CollectGarbage
  BY <1>3 DEF CollectGarbage
<1>4. CASE DeleteDeferred
  BY <1>4 DEF DeleteDeferred
<1>. QED
  BY <1>1, <1>2, <1>3, <1>4
  DEF Next, Night, vars, Ingest, RecordSnapshot, OpenBuild, Build, Publish,
      Maintain, SweepBranches, ExpireTags, ExpireRows, SweepLanding, SweepOrphans


(***************************************************************************)
(* Tables.                                                                 *)
(***************************************************************************)
\* Compaction replaces files by the next generation of theirs.
LEMMA RewrittenFacts ==
  ASSUME main \subseteq Files, NEW T
  PROVE  /\ \A f \in Rewritten(T) :
              \/ f \in main
              \/ \E w \in Writers : /\ f = <<w, 2>> /\ <<w, 1>> \in main
                                    /\ <<w, 1>> \notin Rewritten(T)
         /\ \A f \in main : f \in Rewritten(T) \/ <<f[1], 2>> \in Rewritten(T)
<1>0. \A f \in main : f[1] \in Writers /\ f[2] \in {1, 2} /\ f = <<f[1], f[2]>>
  BY DEF Files
<1>1. ASSUME NEW f \in Rewritten(T), f \notin main
      PROVE  \E w \in Writers : /\ f = <<w, 2>> /\ <<w, 1>> \in main
                                /\ <<w, 1>> \notin Rewritten(T)
  <2>1. PICK g \in main : g \in T /\ Recent(g) /\ f = <<g[1], 2>>
    BY <1>1 DEF Rewritten
  <2>2. g = <<g[1], 1>>
    BY <1>0, <1>1, <2>1
  <2>3. \A h \in main : (IF h \in T /\ Recent(h) THEN <<h[1], 2>> ELSE h) # g
    BY <2>1, <2>2
  <2>4. g \notin Rewritten(T)
    BY <2>3 DEF Rewritten
  <2>. QED
    BY <1>0, <2>1, <2>2, <2>4
<1>2. \A f \in main : f \in Rewritten(T) \/ <<f[1], 2>> \in Rewritten(T)
  BY DEF Rewritten
<1>. QED
  BY <1>1, <1>2

\* What a build merges: the base, its own date replaced.
LEMMA PublishFacts ==
  ASSUME TypeOK, NEW b \in Builds, Publish(b)
  PROVE  /\ branch[b].pc = "built" /\ <<b, 1>> \in BranchHead(b) /\ <<b, 1>> \in main'
         /\ main' \intersect Raw = main \intersect Raw
         /\ \A f \in main' \intersect Report : f = <<b, 1>> \/ f \in main
         /\ \A f \in main \intersect Report :
              f \in main' \/ DateOf[f[1]] = DateOf[b]
         /\ main' \subseteq main \union BranchHead(b)
<1>1. /\ branch[b].pc = "built" /\ main \intersect Report = branch[b].base \intersect Report
      /\ main' = (main \intersect Raw) \union (BranchHead(b) \intersect Report)
  BY DEF Publish, SetMain
<1>2. BranchHead(b) = {f \in branch[b].base : f \in Raw \/ DateOf[f[1]] # DateOf[b]}
                        \union {<<b, 1>>}
  BY <1>1 DEF BranchHead, Built
<1>3. <<b, 1>> \in Report /\ Raw \intersect Report = {}
  BY WritersAndFiles
<1>. QED
  BY <1>1, <1>2, <1>3

\* Expiry takes nothing of a table it leaves nothing later in.
LEMMA ExpireFacts ==
  ASSUME main \subseteq Files, NEW Tables \in SUBSET {Raw, Report}, NEW T \in {Raw, Report},
         main' = main \ UNION {ExpiredRows(U) : U \in Tables}, NEW f \in main \intersect T
  PROVE  \E g \in main' \intersect T : DateOf[f[1]] <= DateOf[g[1]]
<1>. DEFINE S == main \intersect T
<1>1. S \in SUBSET Files
  OBVIOUS
<1>2. PICK g \in S : DateOf[g[1]] \notin ExpireSet(OfDates(S)) /\ DateOf[f[1]] <= DateOf[g[1]]
  BY <1>1, TableKeepsNewest
<1>3. ASSUME NEW U \in Tables, g \in ExpiredRows(U)
      PROVE  FALSE
  <2>1. U = T
    BY <1>2, <1>3, WritersAndFiles DEF ExpiredRows
  <2>. QED
    BY <1>2, <1>3, <2>1 DEF ExpiredRows
<1>4. g \in main'
  BY <1>2, <1>3
<1>. QED
  BY <1>2, <1>4

\* ... and what it takes has a later date left beside it.
LEMMA ExpiredHasLater ==
  ASSUME main \subseteq Files, NEW Tables \in SUBSET {Raw, Report},
         main' = main \ UNION {ExpiredRows(U) : U \in Tables},
         NEW f \in main \intersect Report, f \notin main'
  PROVE  \E h \in main' \intersect Report : DateOf[f[1]] < DateOf[h[1]]
<1>. DEFINE S == main \intersect Report
<1>1. S \in SUBSET Files /\ Raw \intersect Report = {}
  BY WritersAndFiles
<1>2. PICK h \in S : DateOf[h[1]] \notin ExpireSet(OfDates(S)) /\ DateOf[f[1]] <= DateOf[h[1]]
  BY <1>1, TableKeepsNewest
<1>3. DateOf[f[1]] \in ExpireSet(OfDates(S))
  <2>1. PICK U \in Tables : f \in ExpiredRows(U)
    OBVIOUS
  <2>2. U = Report
    BY <1>1, <2>1 DEF ExpiredRows
  <2>. QED
    BY <2>1, <2>2 DEF ExpiredRows
<1>4. h \in main'
  <2>1. ASSUME NEW U \in Tables, h \in ExpiredRows(U)
        PROVE  FALSE
    <3>1. U = Report
      BY <1>1, <1>2, <2>1 DEF ExpiredRows
    <3>. QED
      BY <1>2, <2>1, <3>1 DEF ExpiredRows
  <2>. QED
    BY <1>2, <2>1
<1>5. DateOf[f[1]] \in Nat /\ DateOf[h[1]] \in Nat
  BY <1>2, WritersAndFiles, DatesAreNumbers
<1>6. DateOf[f[1]] # DateOf[h[1]]
  BY <1>2, <1>3
<1>. QED
  BY <1>2, <1>4, <1>5, <1>6

LEMMA ReachesStays ==
  ASSUME TypeOK, [Next]_vars, NEW T \in {Raw, Report}, NEW d \in Nat, Reaches(T, d)
  PROVE  Reaches(T, d)'
<1>0. main \subseteq Files /\ Files = Raw \union Report /\ Raw \intersect Report = {}
  BY WritersAndFiles DEF TypeOK, FilesType
<1>1. PICK f \in main \intersect T : d <= DateOf[f[1]]
  BY DEF Reaches
<1>2. DateOf[f[1]] \in Nat /\ f[1] \in Writers
  BY <1>0, DatesAreNumbers DEF Files
<1>. SUFFICES \E g \in main' \intersect T : DateOf[f[1]] <= DateOf[g[1]]
  <2>1. ASSUME NEW g \in main' \intersect T, DateOf[f[1]] <= DateOf[g[1]]
        PROVE  d <= DateOf[g[1]]
    <3>1. g[1] \in Writers
      BY FilesKept, WritersAndFiles DEF FilesType
    <3>2. DateOf[g[1]] \in Nat
      BY <3>1, DatesAreNumbers
    <3>. QED
      BY <1>1, <1>2, <2>1, <3>2
  <2>. QED
    BY <2>1 DEF Reaches
<1>3. CASE f \in main'
  BY <1>2, <1>3
<1>4. ASSUME NEW b \in Builds, Publish(b), f \notin main'
      PROVE  \E g \in main' \intersect T : DateOf[f[1]] <= DateOf[g[1]]
  <2>1. f \in Report /\ DateOf[f[1]] = DateOf[b] /\ <<b, 1>> \in main'
    BY <1>0, <1>4, PublishFacts
  <2>2. T = Report /\ <<b, 1>> \in Report
    BY <1>0, <2>1, WritersAndFiles
  <2>. QED
    BY <1>2, <2>1, <2>2
<1>5. ASSUME NEW U, SetMain(Rewritten(U))
      PROVE  \E g \in main' \intersect T : DateOf[f[1]] <= DateOf[g[1]]
  <2>1. f \in main' \/ <<f[1], 2>> \in main'
    BY <1>0, <1>5, RewrittenFacts DEF SetMain
  <2>2. <<f[1], 2>> \in T
    BY WritersAndFiles
  <2>. QED
    BY <1>2, <2>1, <2>2
<1>6. ASSUME NEW Tables \in SUBSET {Raw, Report}, SetMain(main \ UNION {ExpiredRows(U) : U \in Tables})
      PROVE  \E g \in main' \intersect T : DateOf[f[1]] <= DateOf[g[1]]
  <2>1. main' = main \ UNION {ExpiredRows(U) : U \in Tables}
    BY <1>6 DEF SetMain
  <2>. QED
    BY <1>0, <2>1, ExpireFacts
<1>7. main \subseteq main' \/ (\E b \in Builds : Publish(b)) \/ (\E U : SetMain(Rewritten(U)))
      \/ (\E Tables \in SUBSET {Raw, Report} : SetMain(main \ UNION {ExpiredRows(U) : U \in Tables}))
  BY MainStep DEF SetMain
<1>. QED
  BY <1>3, <1>4, <1>5, <1>6, <1>7

\* What was merged once stays so.
LEMMA MergedStays ==
  ASSUME TypeOK, [Next]_vars, NEW w \in Writers, WasMerged(w)
  PROVE  WasMerged(w)'
<1>. DEFINE f == <<w, 1>>
<1>1. f \in Files /\ dropped \in [Files -> Nat] /\ CutoffDays \in Nat
  BY Windows DEF TypeOK, FilesType, Files
<1>2. ASSUME NEW S, SetMain(S)
      PROVE  f \in main' \/ dropped'[f] # 0
  BY <1>1, <1>2 DEF SetMain, WasMerged
<1>3. ASSUME dropped' = [g \in Files |-> Grown(dropped[g], CutoffDays)], main' = main
      PROVE  f \in main' \/ dropped'[f] # 0
  BY <1>1, <1>3, GrownFacts DEF WasMerged
<1>. QED
  BY <1>2, <1>3, MainStep DEF WasMerged


(***************************************************************************)
(* The invariant, part by part.                                            *)
(***************************************************************************)
\* A branch merged once is never merged again.
LEMMA PublishOnce ==
  ASSUME TypeOK, MergedOnce, NEW b \in Builds, Publish(b)
  PROVE  ~WasMerged(b)
<1>1. branch[b].pc = "built" /\ main \intersect Report = branch[b].base \intersect Report
  BY DEF Publish
<1>. QED
  BY <1>1 DEF MergedOnce

LEMMA MainIsStored ==
  ASSUME ProtectedIsSafe
  PROVE  main \subseteq store
BY DEF ProtectedIsSafe, Protected, Held

LEMMA MainWasMerged ==
  ASSUME FilesAreNew, ProtectedIsSafe, NEW f \in main \intersect Report
  PROVE  WasMerged(f[1])
<1>1. f[1] \in Builds /\ (f = <<f[1], 1>> \/ f = <<f[1], 2>>)
  BY WritersAndFiles
<1>2. f \in store
  BY MainIsStored
<1>. QED
  BY <1>1, <1>2 DEF FilesAreNew, Touched, WasMerged

LEMMA NewlyMerged ==
  ASSUME TypeOK, [Next]_vars, NEW b \in Builds, ~WasMerged(b), WasMerged(b)'
  PROVE  Publish(b)
<1>. DEFINE f == <<b, 1>>
<1>1. /\ f \in Report /\ f \in Files /\ b \notin Ingests
      /\ f \notin main /\ dropped[f] = 0 /\ CutoffDays \in Nat
      /\ main \subseteq Files
  BY Windows, WritersAndFiles DEF WasMerged, TypeOK, FilesType
<1>2. ASSUME dropped' = [g \in Files |-> Grown(dropped[g], CutoffDays)], main' = main
      PROVE  FALSE
  BY <1>1, <1>2, GrownFacts DEF WasMerged
<1>3. ASSUME NEW S, SetMain(S)
      PROVE  f \in S
  BY <1>1, <1>3 DEF SetMain, WasMerged
<1>4. ASSUME NEW c \in Builds, Publish(c), SetMain((main \intersect Raw) \union (BranchHead(c) \intersect Report))
      PROVE  c = b
  <2>1. f \in main'
    BY <1>3, <1>4 DEF SetMain
  <2>. QED
    BY <1>1, <1>4, <2>1, PublishFacts
<1>5. ASSUME NEW T, SetMain(Rewritten(T))
      PROVE  FALSE
  BY <1>1, <1>3, <1>5, RewrittenFacts
<1>. QED
  BY <1>1, <1>2, <1>3, <1>4, <1>5, MainStep DEF WasMerged

LEMMA NewlyTouched ==
  ASSUME TypeOK, ProtectedIsSafe, [Next]_vars, NEW f \in Files, ~Touched(f), Touched(f)'
  PROVE  \/ \E i \in Ingests : Ingest(i) /\ f = <<i, 1>>
         \/ \E b \in Builds : Build(b) /\ f = <<b, 1>>
         \/ /\ Maintain
            /\ \E w \in Writers : f = <<w, 2>> /\ <<w, 1>> \in main /\ <<w, 1>> \notin main'
<1>0. main \subseteq store /\ main \subseteq Files
  BY MainIsStored DEF TypeOK, FilesType
<1>1. f \notin store /\ deferred[f] = 0
  BY DEF Touched
<1>2. f \in store'
  BY <1>1, DeferredStep DEF Touched, Garbage
<1>3. CASE Maintain
  <2>1. PICK T : SetMain(Rewritten(T)) /\ store' = store \union Rewritten(T)
    BY <1>3, Zenon DEF Maintain
  <2>2. f \in Rewritten(T) /\ f \notin main /\ main' = Rewritten(T)
    BY <1>0, <1>1, <1>2, <2>1 DEF SetMain
  <2>. QED
    BY <1>0, <1>3, <2>2, RewrittenFacts
<1>. QED
  BY <1>1, <1>2, <1>3, StoreGrows

\* The same, of a writer's two files.
LEMMA NewlyTouchedOf ==
  ASSUME TypeOK, ProtectedIsSafe, [Next]_vars, NEW w \in Writers, NEW g \in {1, 2},
         ~Touched(<<w, g>>), Touched(<<w, g>>)'
  PROVE  \/ g = 1 /\ w \in Ingests /\ Ingest(w)
         \/ g = 1 /\ w \in Builds /\ Build(w)
         \/ g = 2 /\ Maintain /\ <<w, 1>> \in main /\ <<w, 1>> \notin main'
<1>. PICK f \in Files : f = <<w, g>>
  BY DEF Files
<1>1. f[1] = w /\ f[2] = g
  OBVIOUS
<1>2. ~Touched(f) /\ Touched(f)'
  OBVIOUS
<1>. QED
  BY <1>1, <1>2, NewlyTouched

\* What is new on main.
LEMMA NewOnMain ==
  ASSUME TypeOK, [Next]_vars, NEW f \in main', f \notin main
  PROVE  \/ \E i \in Ingests : Ingest(i) /\ f = <<i, 1>>
         \/ \E b \in Builds : Publish(b) /\ f = <<b, 1>>
         \/ Maintain /\ \E w \in Writers : f = <<w, 2>> /\ <<w, 1>> \in main
<1>0. main \subseteq Files /\ main' \subseteq Raw \union Report
  BY FilesKept, WritersAndFiles DEF TypeOK, FilesType
<1>1. ASSUME NEW i \in Ingests, Ingest(i), SetMain(main \union {<<i, 1>>})
      PROVE  f = <<i, 1>>
  BY <1>1 DEF SetMain
<1>2. ASSUME NEW b \in Builds, Publish(b)
      PROVE  f = <<b, 1>>
  BY <1>0, <1>2, PublishFacts
<1>3. ASSUME NEW T, SetMain(Rewritten(T))
      PROVE  \E w \in Writers : f = <<w, 2>> /\ <<w, 1>> \in main
  BY <1>0, <1>3, RewrittenFacts DEF SetMain
<1>4. ASSUME NEW S, SetMain(main \ S)
      PROVE  FALSE
  BY <1>4 DEF SetMain
<1>. QED
  BY <1>1, <1>2, <1>3, <1>4, MainStep

LEMMA FilesStayNew ==
  ASSUME TypeOK, FilesAreNew, MergedOnce, ProtectedIsSafe, [Next]_vars
  PROVE  FilesAreNew'
<1>0. /\ main \subseteq store /\ main \subseteq Files
      /\ Writers = Ingests \union Builds /\ Ingests \intersect Builds = {}
      /\ \A w \in Writers, g \in {1, 2} : <<w, g>> \in Files
  BY MainIsStored, WritersAndFiles DEF TypeOK, FilesType
<1>1. ASSUME NEW i \in Ingests, pin'[i].age = 0, NEW g \in {1, 2}, Touched(<<i, g>>)'
      PROVE  FALSE
  <2>1. pin[i].age = 0 /\ ~Ingest(i)
    <3>1. pin[i].age \in Nat /\ PinDays(i) \in Nat
      BY <1>0, Windows DEF TypeOK, PinType
    <3>2. Ingest(i) => pin'[i].age = 1
      BY IngestPin
    <3>3. pin'[i].age \in {pin[i].age, Grown(pin[i].age, PinDays(i)), 1}
      BY <1>0, PinStep
    <3>. QED
      BY <1>1, <3>1, <3>2, <3>3, GrownFacts
  <2>2. ~Touched(<<i, g>>) /\ ~Touched(<<i, 1>>)
    BY <2>1 DEF FilesAreNew
  <2>. QED
    BY <1>0, <1>1, <2>1, <2>2, NewlyTouchedOf DEF Touched
<1>2. ASSUME NEW b \in Builds, branch'[b].pc \in {"none", "open"}
      PROVE  ~WasMerged(b)' /\ \A g \in {1, 2} : ~Touched(<<b, g>>)'
  <2>1. branch[b].pc \in {"none", "open"} /\ ~Build(b) /\ ~Publish(b)
    <3>1. branch[b].pc \in {"none", "open"}
      BY <1>2, BranchStep DEF OpenBuild
    <3>. QED
      BY <1>2, <3>1, BuildBranch DEF Publish
  <2>2. ~WasMerged(b) /\ \A g \in {1, 2} : ~Touched(<<b, g>>)
    BY <2>1 DEF FilesAreNew
  <2>3. ~WasMerged(b)'
    BY <2>1, <2>2, NewlyMerged
  <2>4. <<b, 1>> \notin main
    BY <2>2 DEF WasMerged
  <2>. QED
    BY <1>0, <2>1, <2>2, <2>3, <2>4, NewlyTouchedOf
<1>3. ASSUME NEW w \in Writers, <<w, 1>> \in main', Touched(<<w, 2>>)'
      PROVE  FALSE
  <2>1. Touched(<<w, 2>>)
    BY <1>3, NewlyTouchedOf
  <2>2. <<w, 1>> \notin main
    BY <2>1 DEF FilesAreNew
  <2>3. PICK f : f = <<w, 1>>
    OBVIOUS
  <2>4. f[1] = w /\ f[2] = 1 /\ f \in main' /\ f \notin main
    BY <1>3, <2>2, <2>3
  <2>5. (w \in Ingests /\ Ingest(w)) \/ (w \in Builds /\ Publish(w))
    <3>1. \A v : f = <<v, 1>> => v = w
      BY <2>4
    <3>2. \A v : f # <<v, 2>>
      BY <2>4
    <3>3. \/ \E i \in Ingests : Ingest(i) /\ f = <<i, 1>>
          \/ \E b \in Builds : Publish(b) /\ f = <<b, 1>>
          \/ Maintain /\ \E v \in Writers : f = <<v, 2>> /\ <<v, 1>> \in main
      BY <2>4, NewOnMain
    <3>. QED
      BY <3>1, <3>2, <3>3
  <2>6. CASE w \in Builds /\ Publish(w)
    <3>1. ~WasMerged(w)
      BY <2>6, PublishOnce
    <3>. QED
      BY <2>1, <2>6, <3>1 DEF FilesAreNew
  <2>7. CASE w \in Ingests /\ Ingest(w)
    <3>1. pin[w].age = 0
      BY <2>7 DEF Ingest
    <3>. QED
      BY <2>1, <2>7, <3>1 DEF FilesAreNew
  <2>. QED
    BY <2>5, <2>6, <2>7
<1>4. ASSUME NEW b \in Builds, Touched(<<b, 2>>)'
      PROVE  WasMerged(b)'
  <2>1. CASE Touched(<<b, 2>>)
    BY <1>0, <2>1, MergedStays DEF FilesAreNew
  <2>2. CASE ~Touched(<<b, 2>>)
    <3>1. <<b, 1>> \in main
      BY <1>0, <1>4, <2>2, NewlyTouchedOf
    <3>. QED
      BY <1>0, <3>1, MergedStays DEF WasMerged
  <2>. QED
    BY <2>1, <2>2
<1>. QED
  BY <1>1, <1>2, <1>3, <1>4 DEF FilesAreNew


LEMMA TablesStillReach ==
  ASSUME TypeOK, FilesAreNew, TablesReach, BasesAreOlder, ProtectedIsSafe, [Next]_vars
  PROVE  TablesReach'
<1>0. /\ Writers = Ingests \union Builds /\ Ingests \intersect Builds = {}
      /\ \A w \in Writers : DateOf[w] \in Nat
      /\ \A f \in Raw : f[1] \in Ingests /\ f[2] \in {1, 2} /\ f = <<f[1], f[2]>> /\ f \in Files
      /\ \A i \in Ingests, g \in {1, 2} : <<i, g>> \in Raw
      /\ \A b \in Builds : <<b, 1>> \in Report
      /\ main \subseteq store
  BY WritersAndFiles, DatesAreNumbers, MainIsStored
<1>1. ASSUME NEW f \in Raw, Touched(f)'
      PROVE  Reaches(Raw, DateOf[f[1]])'
  <2>1. CASE Touched(f)
    BY <1>0, <2>1, ReachesStays DEF TablesReach
  <2>2. CASE ~Touched(f)
    <3>0. f[1] \notin Builds /\ f = <<f[1], f[2]>> /\ f[2] \in {1, 2} /\ f[1] \in Ingests
      BY <1>0
    <3>1. Touched(<<f[1], f[2]>>)' /\ ~Touched(<<f[1], f[2]>>)
      BY <1>1, <2>2, <3>0
    <3>2. \/ f[2] = 1 /\ Ingest(f[1])
          \/ f[2] = 2 /\ <<f[1], 1>> \in main
      BY <1>0, <3>0, <3>1, NewlyTouchedOf
    <3>3. CASE f[2] = 1 /\ Ingest(f[1])
      <4>1. f \in main' \intersect Raw
        BY <3>0, <3>3 DEF Ingest, SetMain
      <4>. QED
        BY <1>0, <3>0, <4>1 DEF Reaches
    <3>4. CASE <<f[1], 1>> \in main
      <4>1. \A w : w = f[1] => Reaches(Raw, DateOf[w])
        <5>1. PICK h \in Raw : h = <<f[1], 1>>
          BY <1>0, <3>0
        <5>2. h[1] = f[1] /\ Touched(h)
          BY <1>0, <3>4, <5>1 DEF Touched
        <5>. QED
          BY <5>2 DEF TablesReach
      <4>. QED
        BY <1>0, <3>0, <4>1, ReachesStays
    <3>. QED
      BY <3>2, <3>3, <3>4
  <2>. QED
    BY <2>1, <2>2
<1>2. ASSUME NEW b \in Builds, Running(b)' \/ WasMerged(b)'
      PROVE  Reaches(Raw, DateOf[b])'
  <2>1. CASE Running(b) \/ WasMerged(b)
    BY <1>0, <2>1, ReachesStays DEF TablesReach
  <2>2. CASE ~Running(b) /\ ~WasMerged(b)
    <3>1. ~Publish(b) /\ ~Build(b)
      BY <2>2 DEF Running, Publish, Build
    <3>2. OpenBuild(b)
      BY <1>0, <1>2, <2>2, <3>1, NewlyMerged, BranchStep DEF Running
    <3>3. main' = main /\ \E f \in main \intersect Raw : DateOf[f[1]] = DateOf[b]
      BY <3>2 DEF OpenBuild
    <3>. QED
      BY <1>0, <3>3 DEF Reaches
  <2>. QED
    BY <2>1, <2>2
<1>3. ASSUME NEW b \in Builds, WasMerged(b)'
      PROVE  Reaches(Report, DateOf[b])'
  <2>1. CASE WasMerged(b)
    BY <1>0, <2>1, ReachesStays DEF TablesReach
  <2>2. CASE ~WasMerged(b)
    <3>1. <<b, 1>> \in main' \intersect Report
      BY <1>0, <1>3, <2>2, NewlyMerged, PublishFacts
    <3>. QED
      BY <1>0, <3>1 DEF Reaches
  <2>. QED
    BY <2>1, <2>2
<1>. QED
  BY <1>1, <1>2, <1>3 DEF TablesReach

LEMMA BasesStayOlder ==
  ASSUME TypeOK, FilesAreNew, TablesReach, BasesAreOlder, ProtectedIsSafe, [Next]_vars
  PROVE  BasesAreOlder'
<1>. SUFFICES ASSUME NEW b \in Builds, Running(b)', NEW f \in branch'[b].base \intersect Report
              PROVE  WasMerged(f[1])' /\ f[1] # b /\ DateOf[f[1]] <= DateOf[b]
  BY DEF BasesAreOlder
<1>0. f[1] \in Builds /\ f[1] \in Writers
  BY WritersAndFiles
<1>1. CASE Running(b) /\ branch'[b].base = branch[b].base
  <2>1. WasMerged(f[1]) /\ f[1] # b /\ DateOf[f[1]] <= DateOf[b]
    BY <1>1 DEF BasesAreOlder
  <2>. QED
    BY <1>0, <2>1, MergedStays
<1>2. CASE OpenBuild(b) /\ branch'[b].base = main
  <2>1. f \in main \intersect Report
    BY <1>2
  <2>2. WasMerged(f[1])
    BY <2>1, MainWasMerged
  <2>3. f[1] # b
    BY <1>2, <2>2 DEF FilesAreNew, OpenBuild
  <2>4. PICK r \in main \intersect Raw : DateOf[f[1]] <= DateOf[r[1]]
    BY <1>0, <2>2 DEF TablesReach, Reaches
  <2>5. DateOf[r[1]] \in OfDates(main \intersect Raw) /\ r[1] \in Writers /\ b \in Writers
    BY WritersAndFiles DEF OfDates
  <2>6. DateOf[r[1]] <= DateOf[b]
    BY <1>2, <2>5 DEF OpenBuild
  <2>7. DateOf[f[1]] <= DateOf[b]
    BY <1>0, <2>4, <2>5, <2>6, DatesAreNumbers
  <2>. QED
    BY <1>0, <2>2, <2>3, <2>7, MergedStays
<1>. QED
  BY <1>1, <1>2, BranchStep DEF Running, Build

LEMMA MergedStaysOnce ==
  ASSUME TypeOK, FilesAreNew, BasesAreOlder, MergedOnce, ProtectedIsSafe, [Next]_vars
  PROVE  MergedOnce'
<1>. SUFFICES ASSUME NEW b \in Builds, WasMerged(b)', branch'[b].pc = "built"
              PROVE  \E f \in main' \intersect Report :
                       DateOf[b] <= DateOf[f[1]] /\ \A g \in branch'[b].base : g[1] # f[1]
  BY DEF MergedOnce
<1>0. /\ b \in Writers /\ DateOf[b] \in Nat /\ main \subseteq Files
      /\ \A c \in Builds : <<c, 1>> \in Report /\ <<c, 2>> \in Report /\ DateOf[c] \in Nat
      /\ \A f \in Report : f[1] \in Builds
      /\ Raw \intersect Report = {} /\ Files = Raw \union Report
      /\ \A f \in Raw : f[1] \notin Builds
      /\ main' \subseteq Files /\ branch[b].base \subseteq Files
  BY WritersAndFiles, DatesAreNumbers, FilesKept DEF TypeOK, FilesType, BranchType
<1>1. branch[b].pc \in {"open", "built"} /\ branch'[b].base = branch[b].base
  BY BranchStep DEF Build
<1>2. \A g \in branch[b].base : g \in Report =>
        WasMerged(g[1]) /\ g[1] # b /\ DateOf[g[1]] <= DateOf[b]
  BY <1>1 DEF BasesAreOlder, Running
<1>3. CASE ~WasMerged(b)
  <2>1. Publish(b)
    BY <1>3, NewlyMerged
  <2>2. <<b, 1>> \in main' \intersect Report
    BY <1>0, <2>1, PublishFacts
  <2>3. \A g \in branch[b].base : g[1] # b
    BY <1>0, <1>2
  <2>. QED
    BY <1>0, <1>1, <2>2, <2>3
<1>4. CASE WasMerged(b)
  <2>1. branch[b].pc = "built"
    BY <1>1, <1>4 DEF FilesAreNew
  <2>2. PICK f \in main \intersect Report :
          DateOf[b] <= DateOf[f[1]] /\ \A g \in branch[b].base : g[1] # f[1]
    BY <1>4, <2>1 DEF MergedOnce
  <2>3. CASE f \in main'
    BY <1>1, <2>2, <2>3
  <2>4. ASSUME NEW c \in Builds, Publish(c), f \notin main'
        PROVE  \E h \in main' \intersect Report :
                 DateOf[b] <= DateOf[h[1]] /\ \A g \in branch'[b].base : g[1] # h[1]
    <3>1. <<c, 1>> \in main' \intersect Report /\ DateOf[f[1]] = DateOf[c]
      BY <1>0, <2>4, PublishFacts
    <3>2. ~WasMerged(c)
      BY <2>4, PublishOnce
    <3>3. \A g \in branch[b].base : g[1] # c
      BY <1>0, <1>2, <3>2
    <3>. QED
      BY <1>1, <2>2, <3>1, <3>3
  <2>5. ASSUME NEW T, SetMain(Rewritten(T)), f \notin main'
        PROVE  \E h \in main' \intersect Report :
                 DateOf[b] <= DateOf[h[1]] /\ \A g \in branch'[b].base : g[1] # h[1]
    <3>1. <<f[1], 2>> \in main'
      BY <1>0, <2>5, RewrittenFacts DEF SetMain
    <3>2. <<f[1], 2>> \in Report
      BY <1>0
    <3>. QED
      BY <1>1, <2>2, <3>1, <3>2
  <2>6. ASSUME NEW Tables \in SUBSET {Raw, Report},
               SetMain(main \ UNION {ExpiredRows(U) : U \in Tables}), f \notin main'
        PROVE  \E h \in main' \intersect Report :
                 DateOf[b] <= DateOf[h[1]] /\ \A g \in branch'[b].base : g[1] # h[1]
    <3>1. main' = main \ UNION {ExpiredRows(U) : U \in Tables}
      BY <2>6 DEF SetMain
    <3>2. PICK h \in main' \intersect Report : DateOf[f[1]] < DateOf[h[1]]
      BY <1>0, <2>6, <3>1, ExpiredHasLater
    <3>3. f[1] \in Builds /\ h[1] \in Builds /\ DateOf[f[1]] \in Nat /\ DateOf[h[1]] \in Nat
      BY <1>0
    <3>4. DateOf[b] < DateOf[h[1]] /\ DateOf[b] <= DateOf[h[1]]
      BY <1>0, <2>2, <3>2, <3>3
    <3>5. ASSUME NEW g \in branch[b].base, g[1] = h[1]
          PROVE  FALSE
      <4>1. g \in Report
        BY <1>0, <3>3, <3>5
      <4>2. DateOf[h[1]] <= DateOf[b]
        BY <1>2, <3>5, <4>1
      <4>. QED
        BY <1>0, <3>3, <3>4, <4>2
    <3>. QED
      BY <1>1, <3>2, <3>4, <3>5
  <2>7. main \subseteq main' \/ (\E c \in Builds : Publish(c)) \/ (\E U : SetMain(Rewritten(U)))
        \/ (\E Tables \in SUBSET {Raw, Report} :
              SetMain(main \ UNION {ExpiredRows(U) : U \in Tables}))
    BY MainStep DEF SetMain
  <2>. QED
    BY <2>2, <2>3, <2>4, <2>5, <2>6, <2>7
<1>. QED
  BY <1>3, <1>4

\* What is merged has its table, for good.
LEMMA HomeStep ==
  ASSUME TypeOK, [Next]_vars, NEW b \in Builds
  PROVE  \/ home'[b] = home[b]
         \/ /\ Build(b)
            /\ home'[b] = IF branch[b].base \intersect Report = {} THEN b
                          ELSE CHOOSE p \in Builds :
                                 \E f \in branch[b].base \intersect Report : home[f[1]] = p
<1>0. home \in [Builds -> Builds \union {None}]
  BY DEF TypeOK, BranchType
<1>1. CASE UNCHANGED home
  BY <1>1
<1>2. ASSUME NEW c \in Builds, Build(c)
      PROVE  \/ home'[b] = home[b]
             \/ c = b /\ home'[b] = IF branch[b].base \intersect Report = {} THEN b
                          ELSE CHOOSE p \in Builds :
                                 \E f \in branch[b].base \intersect Report : home[f[1]] = p
  <2>1. CASE c = b
    BY <1>0, <1>2, <2>1 DEF Build
  <2>2. CASE c # b
    BY <1>0, <1>2, <2>2 DEF Build
  <2>. QED
    BY <2>1, <2>2
<1>. QED
  BY <1>1, <1>2
  DEF Next, Night, vars, Ingest, RecordSnapshot, OpenBuild, Publish, NightFalls, Maintain,
      SweepBranches, ExpireTags, CollectGarbage, DeleteDeferred, ExpireRows, SweepLanding,
      SweepOrphans

LEMMA HomeFixed ==
  ASSUME TypeOK, FilesAreNew, [Next]_vars, NEW b \in Builds, WasMerged(b)
  PROVE  home'[b] = home[b]
<1>1. ~Build(b)
  BY DEF FilesAreNew, Build
<1>. QED
  BY <1>1, HomeStep

LEMMA OneHomeStays ==
  ASSUME TypeOK, FilesAreNew, TablesReach, BasesAreOlder, OneHome, ProtectedIsSafe, [Next]_vars
  PROVE  OneHome'
<1>0. /\ \A f \in Report : f[1] \in Builds
      /\ \A b \in Builds : <<b, 1>> \in Report
  BY WritersAndFiles
<1>1. ASSUME NEW b \in Builds, branch'[b].pc = "built"
      PROVE  /\ home'[b] \in Builds
             /\ \A f \in branch'[b].base \intersect Report : home'[f[1]] = home'[b]
  <2>1. branch[b].pc \in {"open", "built"} /\ branch'[b].base = branch[b].base
    BY <1>1, BranchStep DEF Build
  <2>2. \A f \in branch[b].base \intersect Report :
          f[1] \in Builds /\ WasMerged(f[1]) /\ home'[f[1]] = home[f[1]] /\ home[f[1]] \in Builds
    BY <1>0, <2>1, HomeFixed DEF BasesAreOlder, Running, OneHome
  <2>3. CASE branch[b].pc = "built"
    <3>1. home'[b] = home[b]
      BY <2>3, HomeStep DEF Build
    <3>. QED
      BY <2>1, <2>2, <2>3, <3>1 DEF OneHome
  <2>4. CASE branch[b].pc = "open"
    <3>1. Build(b)
      BY <1>1, <2>4, BranchStep
    <3>2. home'[b] = IF branch[b].base \intersect Report = {} THEN b
                     ELSE CHOOSE p \in Builds :
                            \E f \in branch[b].base \intersect Report : home[f[1]] = p
      <4>1. home \in [Builds -> Builds \union {None}]
        BY DEF TypeOK, BranchType
      <4>. QED
        BY <3>1, <4>1 DEF Build
    <3>3. CASE branch[b].base \intersect Report = {}
      BY <2>1, <3>2, <3>3
    <3>4. ASSUME NEW h \in branch[b].base \intersect Report
          PROVE  home'[b] \in Builds /\ home'[h[1]] = home'[b]
      <4>1. \E p \in Builds : \E f \in branch[b].base \intersect Report : home[f[1]] = p
        BY <2>2
      <4>2. PICK f \in branch[b].base \intersect Report : home[f[1]] = home'[b]
        BY <3>2, <3>4, <4>1
      <4>3. home[f[1]] = home[h[1]]
        BY <2>2 DEF OneHome
      <4>. QED
        BY <2>2, <4>2, <4>3
    <3>. QED
      BY <2>1, <3>3, <3>4
  <2>. QED
    BY <2>1, <2>3, <2>4
<1>2. ASSUME NEW b \in Builds, NEW c \in Builds, Publish(b), WasMerged(c)
      PROVE  home[c] = home[b]
  <2>1. branch[b].pc = "built" /\ main \intersect Report = branch[b].base \intersect Report
    BY <1>2 DEF Publish
  <2>2. PICK g \in main \intersect Report : TRUE
    BY <1>2 DEF TablesReach, Reaches
  <2>3. home[g[1]] = home[b]
    BY <2>1, <2>2 DEF OneHome
  <2>4. WasMerged(g[1]) /\ g[1] \in Builds
    BY <1>0, <2>2, MainWasMerged
  <2>. QED
    BY <1>2, <2>3, <2>4 DEF OneHome
<1>3. ASSUME NEW b \in Builds, Publish(b)
      PROVE  home[b] \in Builds /\ home' = home
  BY <1>3 DEF OneHome, Publish
<1>4. ASSUME NEW b \in Builds, NEW c \in Builds, Publish(b), Publish(c), ~WasMerged(c)
      PROVE  b = c
  <2>1. <<c, 1>> \in main' \intersect Report /\ <<c, 1>> \notin main
    BY <1>0, <1>4, PublishFacts DEF WasMerged
  <2>. QED
    BY <1>4, <2>1, PublishFacts
<1>5. ASSUME NEW b \in Builds, NEW c \in Builds, WasMerged(b)', WasMerged(c)'
      PROVE  home'[b] = home'[c] /\ home'[b] \in Builds
  <2>1. CASE WasMerged(b) /\ WasMerged(c)
    BY <2>1, HomeFixed DEF OneHome
  <2>2. CASE ~WasMerged(b) /\ WasMerged(c)
    BY <1>2, <1>3, <1>5, <2>2, NewlyMerged
  <2>3. CASE WasMerged(b) /\ ~WasMerged(c)
    BY <1>2, <1>3, <1>5, <2>3, NewlyMerged
  <2>4. CASE ~WasMerged(b) /\ ~WasMerged(c)
    BY <1>3, <1>4, <1>5, <2>4, NewlyMerged
  <2>. QED
    BY <2>1, <2>2, <2>3, <2>4
<1>. QED
  BY <1>1, <1>5 DEF OneHome

\* What an untagged commit holds leaves main no longer ago than the commit.
LEMMA UntaggedStaysRecent ==
  ASSUME TypeOK, UntaggedIsRecent, [Next]_vars
  PROVE  UntaggedIsRecent'
<1>. SUFFICES ASSUME NEW i \in Untagged'
              PROVE  /\ pin'[i].age \in {1, 2}
                     /\ \A f \in pin'[i].files : f \in main' \/ dropped'[f] \in 1 .. pin'[i].age
  BY DEF UntaggedIsRecent
<1>0. /\ i \in Ingests /\ i \in Writers /\ i \notin Builds
      /\ pin'[i].files # {} /\ pin'[i].kept = FALSE
      /\ dropped \in [Files -> Nat] /\ CutoffDays \in Nat /\ main' \subseteq Files
  BY WritersAndFiles, PinKept, FilesKept, Windows
  DEF Untagged, TypeOK, PinType, FilesType
<1>1. CASE Ingest(i) /\ pin'[i].age = 1 /\ pin'[i].files = main'
  BY <1>1
<1>2. CASE /\ pin'[i].kept = pin[i].kept /\ pin'[i].files = pin[i].files
           /\ \/ pin'[i].age = pin[i].age
              \/ NightFalls /\ pin'[i].age = Grown(pin[i].age, PinDays(i))
  <2>1. i \in Untagged
    BY <1>0, <1>2 DEF Untagged
  <2>2. /\ pin[i].age \in {1, 2} /\ pin[i].files \subseteq Files
        /\ \A f \in pin[i].files : f \in main \/ dropped[f] \in 1 .. pin[i].age
    BY <1>0, <2>1 DEF UntaggedIsRecent, TypeOK, PinType
  <2>3. CASE NightFalls
    <3>1. pin[i].age = 1
      BY <2>1, <2>3 DEF NightFalls
    <3>3. pin'[i].age = 2
      <4>1. pin'[i] = [pin[i] EXCEPT !.age = Grown(@, PinDays(i))]
        BY <1>0, <2>3 DEF NightFalls
      <4>2. pin'[i].age = Grown(pin[i].age, PinDays(i))
        BY <1>0, <4>1 DEF TypeOK, PinType
      <4>3. PinDays(i) \in Nat
        BY <1>0, Windows
      <4>4. Grown(1, PinDays(i)) = 2
        BY <4>3, GrownFacts
      <4>. QED
        BY <3>1, <4>2, <4>4
    <3>4. ASSUME NEW f \in pin[i].files, f \notin main
          PROVE  dropped'[f] \in 1 .. 2
      <4>1. dropped[f] = 1 /\ f \in Files
        BY <2>2, <3>1, <3>4
      <4>2. dropped'[f] = Grown(1, CutoffDays)
        BY <2>3, <4>1 DEF NightFalls
      <4>. QED
        BY <1>0, <4>2, GrownFacts
    <3>5. main' = main
      BY <2>3 DEF NightFalls
    <3>. QED
      BY <1>2, <2>2, <3>3, <3>4, <3>5
  <2>4. CASE ~NightFalls
    <3>1. pin'[i].age = pin[i].age
      BY <1>2, <2>4
    <3>2. ASSUME NEW f \in pin[i].files, NEW S, SetMain(S)
          PROVE  f \in main' \/ dropped'[f] \in 1 .. pin[i].age
      BY <2>2, <3>2 DEF SetMain
    <3>. QED
      BY <1>2, <2>2, <2>4, <3>1, <3>2, MainStep
  <2>. QED
    BY <2>3, <2>4
<1>. QED
  BY <1>0, <1>1, <1>2, PinStep

\* The GC takes for live all that must not go.
LEMMA ProtectedIsLive ==
  ASSUME TriesWithinCutoff, TypeOK, UntaggedIsRecent
  PROVE  Protected \subseteq Live
<1>. SUFFICES ASSUME NEW i \in Untagged, NEW f \in pin[i].files
              PROVE  f \in Live
  BY DEF Protected, Live
<1>1. f \in main \/ dropped[f] \in 1 .. pin[i].age
  BY DEF UntaggedIsRecent
<1>2. pin[i].age \in {1, 2} /\ CutoffDays \in Nat /\ CutoffDays >= 1
  BY Windows DEF UntaggedIsRecent, TriesWithinCutoff
<1>3. f \in Files
  BY WritersAndFiles DEF TypeOK, PinType, Untagged
<1>4. CASE f \in main
  BY <1>4 DEF Live, Held
<1>5. CASE dropped[f] \in 1 .. pin[i].age
  <2>1. dropped[f] \in 1 .. CutoffDays + 1
    BY <1>2, <1>5
  <2>. QED
    BY <1>3, <2>1 DEF Live
<1>. QED
  BY <1>1, <1>4, <1>5

\* An orphaned table has nothing of it: what was merged shares main's tables.
LEMMA OrphansUnprotected ==
  ASSUME TypeOK, FilesAreNew, TablesReach, OneHome, UntaggedIsRecent, ProtectedIsSafe,
         NEW f \in Protected, f \in Orphans
  PROVE  FALSE
<1>0. f \in store /\ Touched(f) /\ f \in Files /\ Prefix(f) \notin {Prefix(g) : g \in Held}
  BY DEF Orphans, LivePrefixes, Touched, TypeOK, FilesType
<1>1. f \notin Held /\ main \subseteq Held
  BY <1>0 DEF Held
<1>2. PICK i \in Untagged : f \in pin[i].files
  BY <1>1 DEF Protected
<1>3. dropped[f] # 0
  BY <1>1, <1>2 DEF UntaggedIsRecent
<1>4. CASE f \in Raw
  <2>1. PICK g \in main \intersect Raw : TRUE
    BY <1>0, <1>4 DEF TablesReach, Reaches
  <2>2. Prefix(g) = None /\ Prefix(f) = None
    BY <1>4, <2>1 DEF Prefix
  <2>. QED
    BY <1>0, <1>1, <2>1, <2>2
<1>5. CASE f \in Report
  <2>1. f[1] \in Builds /\ (f = <<f[1], 1>> \/ f = <<f[1], 2>>) /\ f \notin Raw
    BY <1>5, WritersAndFiles
  <2>2. WasMerged(f[1])
    BY <1>0, <1>3, <2>1 DEF FilesAreNew, WasMerged
  <2>3. PICK g \in main \intersect Report : TRUE
    BY <2>1, <2>2 DEF TablesReach, Reaches
  <2>4. WasMerged(g[1]) /\ g[1] \in Builds /\ g \notin Raw
    BY <2>3, MainWasMerged, WritersAndFiles
  <2>5. Prefix(g) = Prefix(f)
    BY <2>1, <2>2, <2>4 DEF OneHome, Prefix
  <2>. QED
    BY <1>0, <1>1, <2>3, <2>5
<1>. QED
  BY <1>0, <1>4, <1>5, WritersAndFiles

\* A branch's head holds what it held, main's, or the file its build writes.
LEMMA HeadStep ==
  ASSUME TypeOK, [Next]_vars, NEW b \in Builds, NEW f \in BranchHead(b)'
  PROVE  f \in BranchHead(b) \/ (OpenBuild(b) /\ f \in main) \/ (Build(b) /\ f = <<b, 1>>)
<1>1. CASE branch'[b].pc = branch[b].pc /\ branch'[b].base = branch[b].base
  BY <1>1 DEF BranchHead
<1>2. CASE OpenBuild(b) /\ branch'[b].pc = "open" /\ branch'[b].base = main
  BY <1>2 DEF BranchHead
<1>3. CASE Build(b) /\ branch'[b].pc = "built" /\ branch'[b].base = branch[b].base
  BY <1>3 DEF BranchHead, Build, Built
<1>4. CASE branch'[b].pc = "gone" /\ branch'[b].base = {}
  BY <1>4 DEF BranchHead
<1>. QED
  BY <1>1, <1>2, <1>3, <1>4, BranchStep

\* So what must not go comes from main, from such heads, or is written now.
LEMMA ProtectedStep ==
  ASSUME TypeOK, [Next]_vars, NEW f \in Protected'
  PROVE  \/ f \in Protected
         \/ \E i \in Ingests : Ingest(i) /\ f = <<i, 1>>
         \/ \E b \in Builds : Build(b) /\ f = <<b, 1>>
         \/ f \in main' /\ Maintain /\ \E w \in Writers : f = <<w, 2>> /\ <<w, 1>> \in main
<1>0. /\ main \subseteq Protected
      /\ \A b \in Builds : BranchHead(b) \subseteq Protected
      /\ \A w \in Writers : w \in Kept \/ w \in Untagged => pin[w].files \subseteq Protected
  BY DEF Protected, Held
<1>1. CASE f \in main'
  <2>1. ASSUME NEW b \in Builds, Publish(b), f = <<b, 1>>
        PROVE  f \in Protected
    BY <1>0, <2>1, PublishFacts
  <2>. QED
    BY <1>0, <1>1, <2>1, NewOnMain
<1>2. ASSUME NEW b \in Builds, f \in BranchHead(b)'
      PROVE  f \in Protected \/ (Build(b) /\ f = <<b, 1>>)
  BY <1>0, <1>2, HeadStep
<1>3. ASSUME NEW w \in Writers, f \in pin'[w].files, w \in Kept' \/ w \in Untagged'
      PROVE  f \in Protected \/ f \in main'
  <2>1. CASE pin'[w].kept = pin[w].kept /\ pin'[w].files = pin[w].files
    <3>1. w \in Kept \/ w \in Untagged
      BY <1>3, <2>1 DEF Kept, Untagged
    <3>. QED
      BY <1>0, <1>3, <2>1, <3>1
  <2>. QED
    BY <1>0, <1>3, <2>1, PinStep
<1>4. \/ f \in main'
      \/ \E b \in Builds : f \in BranchHead(b)'
      \/ \E w \in Writers : f \in pin'[w].files /\ (w \in Kept' \/ w \in Untagged')
  BY WritersAndFiles DEF Protected, Held, Kept, Untagged
<1>. QED
  BY <1>1, <1>2, <1>3, <1>4

LEMMA ProtectedStaysSafe ==
  ASSUME TriesWithinCutoff, TypeOK, FilesAreNew, TablesReach, OneHome, UntaggedIsRecent,
         ProtectedIsSafe, [Next]_vars
  PROVE  ProtectedIsSafe'
<1>. SUFFICES ASSUME NEW f \in Protected'
              PROVE  f \in store' /\ deferred'[f] = 0
  BY DEF ProtectedIsSafe
<1>1. CASE f \in Protected
  <2>1. f \in store /\ deferred[f] = 0 /\ f \in Files
    BY <1>1 DEF ProtectedIsSafe, TypeOK, FilesType
  <2>2. f \notin Garbage
    BY <1>1, ProtectedIsLive DEF Garbage
  <2>3. f \notin Orphans
    BY <1>1, OrphansUnprotected
  <2>. QED
    BY <2>1, <2>2, <2>3, StoreShrinks, DeferredStep
<1>2. ASSUME NEW i \in Ingests, Ingest(i), f = <<i, 1>>
      PROVE  f \in store' /\ deferred'[f] = 0
  BY <1>2 DEF Ingest, FilesAreNew, Touched
<1>3. ASSUME NEW b \in Builds, Build(b), f = <<b, 1>>
      PROVE  f \in store' /\ deferred'[f] = 0
  BY <1>3 DEF Build, FilesAreNew, Touched
<1>4. ASSUME f \in main', Maintain, NEW w \in Writers, f = <<w, 2>>, <<w, 1>> \in main
      PROVE  f \in store' /\ deferred'[f] = 0
  <2>1. deferred[f] = 0
    BY <1>4 DEF FilesAreNew, Touched
  <2>2. main' \subseteq store' /\ deferred' = deferred
    <3>1. PICK T : SetMain(Rewritten(T)) /\ store' = store \union Rewritten(T)
      BY <1>4, Zenon DEF Maintain
    <3>. QED
      BY <1>4, <3>1 DEF Maintain, SetMain
  <2>. QED
    BY <1>4, <2>1, <2>2
<1>. QED
  BY <1>1, <1>2, <1>3, <1>4, ProtectedStep

Behind == {"deferred", "rows", "landing", "orphans"}

\* Behind the GC nothing stops being live, nor starts to be.
LEMMA LiveStands ==
  ASSUME TriesWithinCutoff, TypeOK, UntaggedIsRecent, [Next]_vars,
         night \in Behind, night' \in Behind
  PROVE  Live' = Live /\ home' = home /\ store' \subseteq store
<1>0. /\ UNCHANGED vars \/ (\E i \in Ingests : RecordSnapshot(i))
                        \/ (\E b \in Builds : OpenBuild(b))
                        \/ DeleteDeferred \/ ExpireRows \/ SweepLanding
  BY DEF Next, Night, Behind, PoolFree, Ingest, Build, Publish, NightFalls, Maintain,
         SweepBranches, ExpireTags, CollectGarbage, SweepOrphans, Done, Goes, Following
<1>1. home' = home /\ store' \subseteq store
  BY <1>0 DEF vars, RecordSnapshot, OpenBuild, DeleteDeferred, ExpireRows, SweepLanding
<1>2. CASE UNCHANGED <<main, dropped, branch, pin>>
  BY <1>1, <1>2 DEF Live, Held, BranchHead, Kept
<1>3. ASSUME NEW i \in Ingests, RecordSnapshot(i)
      PROVE  Live' = Live
  <2>1. UNCHANGED <<main, dropped, branch>> /\ i \in Untagged /\ i \in Writers
    BY <1>3, WritersAndFiles DEF RecordSnapshot
  <2>2. i \notin Kept /\ pin[i].files \subseteq Live
    BY <2>1, ProtectedIsLive DEF Protected, Untagged, Kept
  <2>3. /\ \A w \in Writers \ {i} : pin'[w] = pin[w]
        /\ \/ pin'[i].files = pin[i].files
           \/ pin'[i].files = {}
    BY <1>3 DEF RecordSnapshot, TypeOK, PinType
  <2>4. \A w \in Writers : w \in Kept <=> (w \in Kept' /\ w # i)
    BY <2>2, <2>3 DEF Kept
  <2>5. \A b \in Builds : BranchHead(b)' = BranchHead(b)
    BY <2>1 DEF BranchHead
  <2>6. UNION {pin[w].files : w \in Kept} \subseteq UNION {pin'[w].files : w \in Kept'}
    BY <2>3, <2>4 DEF Kept
  <2>7. UNION {pin'[w].files : w \in Kept'} \subseteq (UNION {pin[w].files : w \in Kept}) \union Live
    BY <2>2, <2>3, <2>4 DEF Kept
  <2>. QED
    BY <2>1, <2>5, <2>6, <2>7 DEF Live, Held
<1>4. ASSUME NEW b \in Builds, OpenBuild(b)
      PROVE  Live' = Live
  <2>1. UNCHANGED <<main, dropped, pin>> /\ branch[b].pc = "none"
    BY <1>4 DEF OpenBuild
  <2>2. BranchHead(b) = {}
    BY <2>1 DEF BranchHead
  <2>3. BranchHead(b)' = main
    <3>1. branch' = [branch EXCEPT ![b] = [[branch[b] EXCEPT !.pc = "open"] EXCEPT !.base = main]]
      BY <1>4, Zenon DEF OpenBuild, TypeOK, BranchType
    <3>2. PICK r : r = [branch[b] EXCEPT !.pc = "open"]
      OBVIOUS
    <3>3. r.pc = "open" /\ r \in [pc : {"none", "open", "built", "gone"},
                                  base : SUBSET Files, age : 0 .. BranchDays + 2]
      BY <3>2 DEF TypeOK, BranchType
    <3>4. branch'[b].pc = "open" /\ branch'[b].base = main
      BY <3>1, <3>2, <3>3 DEF TypeOK, BranchType
    <3>. QED
      BY <3>4 DEF BranchHead
  <2>4. \A c \in Builds \ {b} : BranchHead(c)' = BranchHead(c)
    BY <1>4 DEF OpenBuild, BranchHead, TypeOK, BranchType
  <2>5. (UNION {BranchHead(c) : c \in Builds})' = (UNION {BranchHead(c) : c \in Builds}) \union main
    BY <2>2, <2>3, <2>4
  <2>6. Held' = Held
    BY <2>1, <2>5 DEF Held, Kept
  <2>. QED
    BY <2>1, <2>6 DEF Live
<1>5. CASE ExpireRows
  <2>1. UNCHANGED <<branch, pin>> /\ main \subseteq Files
    BY <1>5 DEF ExpireRows, TypeOK, FilesType
  <2>2. PICK Tables \in SUBSET {Raw, Report} :
          SetMain(main \ UNION {ExpiredRows(T) : T \in Tables})
    BY <1>5, Zenon DEF ExpireRows
  <2>3. /\ main' \subseteq main
        /\ \A f \in Files : dropped'[f] = IF f \in main' THEN 0 ELSE IF f \in main THEN 1 ELSE dropped[f]
    BY <2>2 DEF SetMain
  <2>4. CutoffDays \in Nat /\ dropped \in [Files -> Nat]
    BY Windows DEF TypeOK, FilesType
  <2>5. PICK H : H = (UNION {BranchHead(b) : b \in Builds}) \union (UNION {pin[w].files : w \in Kept})
    OBVIOUS
  <2>6. Held = main \union H /\ Held' = main' \union H
    BY <2>1, <2>5 DEF Held, BranchHead, Kept
  <2>7. 1 \in 1 .. CutoffDays + 1 /\ 0 \notin 1 .. CutoffDays + 1
    BY <2>4
  <2>. QED
    BY <1>1, <2>1, <2>3, <2>6, <2>7 DEF Live
<1>6. CASE UNCHANGED vars \/ DeleteDeferred \/ SweepLanding
  BY <1>2, <1>6 DEF vars, DeleteDeferred, SweepLanding
<1>. QED
  BY <1>0, <1>1, <1>3, <1>4, <1>5, <1>6

LEMMA ListedStays ==
  ASSUME TriesWithinCutoff, TypeOK, UntaggedIsRecent, ListedTonight, [Next]_vars
  PROVE  ListedTonight'
<1>. SUFFICES ASSUME night' \in Behind, NEW f \in Garbage'
              PROVE  deferred'[f] > 0
  BY DEF ListedTonight, Behind
<1>0. f \in Files /\ f \in store' /\ deferred \in [Files -> Nat] /\ deferred' \in [Files -> Nat]
  BY FilesKept, Windows DEF Garbage, TypeOK, FilesType
<1>1. CASE night \in Behind
  <2>1. Live' = Live /\ home' = home /\ store' \subseteq store
    BY <1>1, LiveStands
  <2>2. f \in Garbage
    BY <2>1 DEF Garbage, Prefix
  <2>3. deferred[f] > 0
    BY <1>1, <2>2 DEF ListedTonight, Behind
  <2>4. deferred'[f] # 0
    <3>1. CASE UNCHANGED deferred
      BY <2>3, <3>1
    <3>2. CASE DeleteDeferred
      BY <1>0, <2>3, <3>2 DEF DeleteDeferred
    <3>. QED
      BY <1>1, <3>1, <3>2
      DEF Next, Night, vars, Behind, Ingest, RecordSnapshot, OpenBuild, Build, Publish,
          NightFalls, Maintain, SweepBranches, ExpireTags, CollectGarbage, ExpireRows,
          SweepLanding, SweepOrphans
  <2>. QED
    BY <1>0, <2>4
<1>2. CASE night \notin Behind
  <2>1. CollectGarbage /\ night' = "deferred"
    BY <1>2 DEF Next, Night, vars, Behind, Ingest, RecordSnapshot, OpenBuild, Build, Publish,
          NightFalls, Maintain, SweepBranches, ExpireTags, CollectGarbage, DeleteDeferred,
          ExpireRows, SweepLanding, SweepOrphans, Goes, Stops, Following
  <2>2. deferred' = [g \in Files |-> IF g \in Garbage /\ deferred[g] = 0 THEN 1 ELSE deferred[g]]
    BY <2>1 DEF CollectGarbage, Stops
  <2>3. f \in Garbage
    BY <2>1, SMTT(30) DEF CollectGarbage, Garbage, Prefix, Live, Held, BranchHead, Kept
  <2>. QED
    BY <1>0, <2>2, <2>3
<1>. QED
  BY <1>1, <1>2

(***************************************************************************)
(* The theorems.                                                           *)
(***************************************************************************)
LEMMA InitInv ==
  ASSUME Init
  PROVE  IInv
<1>1. /\ night = "day" /\ main = {} /\ store = {}
      /\ dropped = [f \in Files |-> 0] /\ deferred = [f \in Files |-> 0]
      /\ pin = [w \in Writers |-> NoPin]
      /\ branch = [b \in Builds |-> [pc |-> "none", base |-> {}, age |-> 0]]
      /\ home = [b \in Builds |-> None] /\ landing = {} /\ faults = 0 /\ today = 1
  BY DEF Init
<1>2. TypeOK
  BY <1>1, Windows DEF TypeOK, NightType, FilesType, BranchType, PinType, NoPin
<1>3. /\ \A f \in Files : ~Touched(f)
      /\ \A b \in Builds : ~WasMerged(b) /\ branch[b].pc = "none" /\ ~Running(b)
  BY <1>1, WritersAndFiles DEF Touched, WasMerged, Running
<1>4. FilesAreNew
  <2>1. \A w \in Writers, g \in {1, 2} : <<w, g>> \in Files
    BY DEF Files
  <2>2. \A b \in Builds, g \in {1, 2} : ~Touched(<<b, g>>)
    BY <1>3, <2>1, WritersAndFiles
  <2>. QED
    BY <1>1, <1>3, <2>1, <2>2, WritersAndFiles DEF FilesAreNew
<1>5. TablesReach /\ BasesAreOlder /\ MergedOnce /\ OneHome
  BY <1>3, WritersAndFiles DEF TablesReach, BasesAreOlder, MergedOnce, OneHome
<1>6. Untagged = {} /\ Kept = {} /\ \A b \in Builds : BranchHead(b) = {}
  <2>1. \A w \in Writers : pin[w].files = {} /\ ~pin[w].kept
    BY <1>1 DEF NoPin
  <2>2. \A b \in Builds : BranchHead(b) = {}
    BY <1>3 DEF BranchHead
  <2>. QED
    BY <2>1, <2>2 DEF Untagged, Kept, Writers
<1>7. UntaggedIsRecent /\ ProtectedIsSafe
  BY <1>1, <1>6 DEF UntaggedIsRecent, ProtectedIsSafe, Protected, Held
<1>8. ListedTonight
  BY <1>1 DEF ListedTonight
<1>. QED
  BY <1>2, <1>4, <1>5, <1>7, <1>8 DEF IInv

LEMMA NextInv ==
  ASSUME TriesWithinCutoff, IInv, [Next]_vars
  PROVE  IInv'
<1>1. /\ TypeOK /\ FilesAreNew /\ TablesReach /\ BasesAreOlder /\ MergedOnce /\ OneHome
      /\ UntaggedIsRecent /\ ProtectedIsSafe /\ ListedTonight
  BY DEF IInv
<1>2. TypeOK'
  BY <1>1, NightKept, FilesKept, BranchKept, PinKept DEF TypeOK
<1>3. FilesAreNew' /\ TablesReach' /\ BasesAreOlder' /\ MergedOnce' /\ OneHome'
  BY <1>1, FilesStayNew, TablesStillReach, BasesStayOlder, MergedStaysOnce, OneHomeStays
<1>4. UntaggedIsRecent' /\ ProtectedIsSafe' /\ ListedTonight'
  BY <1>1, UntaggedStaysRecent, ProtectedStaysSafe, ListedStays
<1>. QED
  BY <1>2, <1>3, <1>4 DEF IInv

(* The inductive invariant holds of every behaviour: of the night in
   platform_housekeeping.py with every ingest and build beside it. *)
THEOREM HousekeepingInvariant ==
  ASSUME TriesWithinCutoff
  PROVE  Spec => []IInv
<1>1. Init => IInv
  BY InitInv
<1>2. IInv /\ [Next]_vars => IInv'
  BY NextInv
<1>. QED
  BY <1>1, <1>2, PTL DEF Spec

(* Type correctness. *)
THEOREM TypeCorrect ==
  ASSUME TriesWithinCutoff
  PROVE  Spec => []TypeOK
<1>1. IInv => TypeOK
  BY DEF IInv
<1>. QED
  BY <1>1, HousekeepingInvariant, PTL

(* Whatever main, a branch or a tag names is in storage: neither the sweeps of
   nessie_gc nor those of orphan_storage delete it, whatever step failed. *)
THEOREM NothingHeldIsLost ==
  ASSUME TriesWithinCutoff
  PROVE  Spec => []PinsReadable
<1>1. IInv => PinsReadable
  BY DEF IInv, ProtectedIsSafe, Protected, PinsReadable
<1>. QED
  BY <1>1, HousekeepingInvariant, PTL

\* A build's tag that its commit time can be read of is there or past its window.
KeepsItsPin(b) == (pin[b].age # 0 /\ ~Old(pin[b].age, TagDays)) => pin[b].kept
DatedKeepTheirPins == \A b \in Builds \ Undated : KeepsItsPin(b)

LEMMA PinStaysKept ==
  ASSUME TypeOK, DatedKeepTheirPins, [Next]_vars
  PROVE  DatedKeepTheirPins'
<1>. SUFFICES ASSUME NEW b \in Builds \ Undated, pin'[b].age # 0, ~Old(pin'[b].age, TagDays)
              PROVE  pin'[b].kept
  BY DEF DatedKeepTheirPins, KeepsItsPin
<1>0. /\ b \in Writers /\ b \notin Ingests /\ PinDays(b) = TagDays /\ TagDays \in Nat
      /\ pin[b].age \in Nat /\ pin[b].kept \in BOOLEAN
  BY WritersAndFiles, Windows DEF PinDays, TypeOK, PinType
<1>1. CASE pin'[b].kept = pin[b].kept /\ pin'[b].age \in {pin[b].age, Grown(pin[b].age, TagDays)}
  <2>1. pin[b].age # 0 /\ ~Old(pin[b].age, TagDays)
    BY <1>0, <1>1, GrownFacts
  <2>. QED
    BY <1>1, <2>1 DEF DatedKeepTheirPins, KeepsItsPin
<1>2. b \notin Untagged
  BY <1>0 DEF Untagged
<1>3. CASE Expired(b) /\ pin'[b].age = pin[b].age
  BY <1>0, <1>3 DEF Expired
<1>. QED
  BY <1>0, <1>1, <1>2, <1>3, PinStep

(* A publication whose commit time can be read keeps its tag for its whole
   window, whatever COB date it is about. *)
THEOREM DatedPublicationsKept ==
  ASSUME TriesWithinCutoff
  PROVE  Spec => []DatedKeepTheirPins
<1>1. Init => DatedKeepTheirPins
  BY WritersAndFiles DEF Init, NoPin, DatedKeepTheirPins, KeepsItsPin
<1>2. TypeOK /\ DatedKeepTheirPins /\ [Next]_vars => DatedKeepTheirPins'
  BY PinStaysKept
<1>. QED
  BY <1>1, <1>2, TypeCorrect, PTL DEF Spec

(* So all do, where every commit time can be read. *)
THEOREM PublicationsKeepTheirTags ==
  ASSUME TriesWithinCutoff, Undated = {}
  PROVE  Spec => []PublicationsKept
<1>1. DatedKeepTheirPins => PublicationsKept
  BY DEF DatedKeepTheirPins, KeepsItsPin, PublicationsKept
<1>. QED
  BY <1>1, DatedPublicationsKept, PTL

LEMMA NightEnds ==
  ASSUME WindowsHold, TriesWithinCutoff, IInv, [Next]_vars,
         night # "day", night' = "day", NoFault
  PROVE  \A f \in Garbage' : deferred'[f] > 0
<1>0. TypeOK /\ NightType /\ FilesType /\ ~Fault
  <2>1. TypeOK /\ faults \in Nat
    BY Windows DEF IInv, TypeOK, NightType
  <2>. QED
    BY <2>1 DEF TypeOK, Fault, NoFault
<1>1. SweepOrphans /\ night = "orphans" /\ store' \subseteq store
  BY <1>0 DEF Next, Night, vars, Ingest, RecordSnapshot, OpenBuild, Build, Publish, NightFalls,
     Maintain, SweepBranches, ExpireTags, CollectGarbage, DeleteDeferred, ExpireRows,
     SweepLanding, SweepOrphans, Done, Goes, Stops, Following
<1>2. UNCHANGED <<main, dropped, branch, home, pin, deferred>>
  BY <1>1 DEF SweepOrphans
<1>3. Garbage' \subseteq Garbage
  BY <1>1, <1>2 DEF Garbage, Prefix, Live, Held, BranchHead, Kept
<1>4. \A f \in Garbage : deferred[f] > 0
  BY <1>1 DEF IInv, ListedTonight
<1>. QED
  BY <1>2, <1>3, <1>4

(* A night that comes through has listed the garbage it leaves: what its sweeps
   of branches and tags released was released before the GC looked, and what ran
   behind the GC (retention.run) releases nothing. *)
THEOREM NightsListTheirGarbage ==
  ASSUME WindowsHold, TriesWithinCutoff
  PROVE  Spec => NightListsGarbage
<1>1. IInv /\ [Next]_vars
        => [(night # "day" /\ night' = "day" /\ NoFault)
              => \A f \in Garbage' : deferred'[f] > 0]_vars
  BY NightEnds
<1>. QED
  BY <1>1, HousekeepingInvariant, PTL DEF Spec, NightListsGarbage

=============================================================================
