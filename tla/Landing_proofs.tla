--------------------------- MODULE Landing_proofs ---------------------------
(***************************************************************************)
(* Proofs about KeepRules and Landing, for any deliveries, dates, months,  *)
(* windows and bounds: what the keep rules do to a set of dates that grows *)
(* or was cut before, the inductive invariant IInv of Landing, and its     *)
(* safety properties.                                                      *)
(***************************************************************************)
EXTENDS Landing, FiniteSetTheorems, WellFoundedInduction, TLAPS

AllDates == DOMAIN MonthOf

(***************************************************************************)
(* Sets of numbers.                                                        *)
(***************************************************************************)
\* A set of natural numbers has a least element.
LEMMA LeastNatural ==
  ASSUME NEW T \in SUBSET Nat, T # {}
  PROVE  \E m \in T : \A k \in T : m <= k
<1>1. IsWellFoundedOn(OpToRel(<, Nat), Nat)
  BY NatLessThanWellFounded
<1>2. PICK x \in T : \A y \in T : ~ (<<y, x>> \in OpToRel(<, Nat))
  BY <1>1, WFMin
<1>3. \A y \in T : ~(y < x)
  BY <1>2 DEF OpToRel
<1>. QED
  BY <1>3

\* A finite set of them has a greatest: the one with the fewest above it.
LEMMA GreatestOfFinite ==
  ASSUME NEW S \in SUBSET Nat, IsFiniteSet(S), S # {}
  PROVE  \E x \in S : \A y \in S : y <= x
<1>. DEFINE Above(x) == {y \in S : y > x}
            Counts == {Cardinality(Above(x)) : x \in S}
<1>1. \A x \in S : IsFiniteSet(Above(x)) /\ Cardinality(Above(x)) \in Nat
  BY FS_Subset, FS_CardinalityType
<1>2. Counts \in SUBSET Nat /\ Counts # {}
  BY <1>1
<1>3. PICK m \in Counts : \A k \in Counts : m <= k
  <2>. HIDE DEF Counts
  <2>. QED
    BY <1>2, LeastNatural
<1>4. PICK x \in S : m = Cardinality(Above(x))
  BY <1>3
<1>5. ASSUME NEW y \in S, ~(y <= x)
      PROVE  FALSE
  <2>0. \A z \in S : z \in Nat
    OBVIOUS
  <2>a. y > x /\ ~(y > y)
    BY <1>5, <2>0
  <2>b. \A z \in S : z > y => z > x
    BY <2>a, <2>0
  <2>1. Above(y) \in SUBSET Above(x) /\ y \in Above(x) /\ y \notin Above(y)
    BY <2>a, <2>b
  <2>2. /\ Cardinality(Above(x)) <= Cardinality(Above(y))
        /\ Cardinality(Above(x)) \in Nat /\ Cardinality(Above(y)) \in Nat
        /\ IsFiniteSet(Above(x))
    BY <1>1, <1>3, <1>4
  <2>3. Cardinality(Above(y)) <= Cardinality(Above(x))
    BY <1>1, <2>1, FS_Subset
  <2>. HIDE DEF Above
  <2>. QED
    BY <2>1, <2>2, <2>3, FS_Subset
<1>. QED
  BY <1>5

(***************************************************************************)
(* The keep rules.                                                         *)
(***************************************************************************)
\* A rule that counts the dates after d counts no fewer in a larger set.
LEMMA CountGrows ==
  ASSUME NEW A, NEW B, IsFiniteSet(B), A \subseteq B, NEW n \in Nat, Cardinality(B) < n
  PROVE  Cardinality(A) < n
<1>1. Cardinality(A) <= Cardinality(B) /\ IsFiniteSet(A)
  BY FS_Subset
<1>2. Cardinality(A) \in Nat /\ Cardinality(B) \in Nat
  BY <1>1, FS_CardinalityType
<1>. QED
  BY <1>1, <1>2

\* The same, where every date of A has one of B for itself.
LEMMA CountGrowsBy ==
  ASSUME NEW A, NEW B, IsFiniteSet(B), NEW f \in Injection(A, B),
         NEW n \in Nat, Cardinality(B) < n
  PROVE  Cardinality(A) < n
<1>1. Cardinality(A) <= Cardinality(B) /\ IsFiniteSet(A)
  BY FS_Injection
<1>2. Cardinality(A) \in Nat /\ Cardinality(B) \in Nat
  BY <1>1, FS_CardinalityType
<1>. QED
  BY <1>1, <1>2

\* The latest of the dates of S in the month of e.
LastOfMonth(S, e) ==
  CHOOSE x \in S : MonthOf[x] = MonthOf[e] /\ \A y \in S : MonthOf[y] = MonthOf[e] => y <= x

LEMMA LastOfMonthIsLast ==
  ASSUME NEW S \in SUBSET AllDates, IsFiniteSet(S), NEW e \in S
  PROVE  /\ LastOfMonth(S, e) \in S
         /\ MonthOf[LastOfMonth(S, e)] = MonthOf[e]
         /\ \A y \in S : MonthOf[y] = MonthOf[e] => y <= LastOfMonth(S, e)
<1>. DEFINE M == {y \in S : MonthOf[y] = MonthOf[e]}
<1>1. M \in SUBSET Nat /\ IsFiniteSet(M) /\ M # {}
  BY FS_Subset, KeepRulesAssumptions DEF AllDates
<1>2. PICK x \in M : \A y \in M : y <= x
  <2>. HIDE DEF M
  <2>. QED
    BY <1>1, GreatestOfFinite
<1>3. \E z \in S : MonthOf[z] = MonthOf[e] /\ \A y \in S : MonthOf[y] = MonthOf[e] => y <= z
  BY <1>2
<1>. QED
  BY <1>3 DEF LastOfMonth

\* The month ends after d are no fewer in a set that has all of R's dates after d.
LEMMA MonthEndsGrow ==
  ASSUME NEW R \in SUBSET AllDates, NEW E \in SUBSET AllDates, IsFiniteSet(E), NEW d \in Nat,
         {x \in R : x > d} \subseteq E, NEW n \in Nat,
         Cardinality({e \in MonthEnds(E) : e > d}) < n
  PROVE  Cardinality({e \in MonthEnds(R) : e > d}) < n
<1>. DEFINE A == {e \in MonthEnds(R) : e > d}
            B == {e \in MonthEnds(E) : e > d}
            f == [e \in A |-> LastOfMonth(E, e)]
<1>0. R \subseteq Nat /\ E \subseteq Nat /\ \A x \in AllDates : MonthOf[x] \in Nat
  BY KeepRulesAssumptions DEF AllDates
<1>1. IsFiniteSet(B)
  <2>1. B \subseteq E
    BY DEF MonthEnds
  <2>. QED
    BY <2>1, FS_Subset
<1>2. ASSUME NEW e \in A
      PROVE  /\ e \in R /\ e \in E /\ f[e] \in B /\ MonthOf[f[e]] = MonthOf[e]
             /\ \A y \in R : MonthOf[y] = MonthOf[e] => y <= e
  <2>1. e \in R /\ e > d /\ e \in E
    BY DEF MonthEnds
  <2>2. /\ f[e] \in E /\ MonthOf[f[e]] = MonthOf[e]
        /\ \A y \in E : MonthOf[y] = MonthOf[e] => y <= f[e]
    BY <2>1, LastOfMonthIsLast
  <2>. HIDE DEF f
  <2>3. PICK z \in R : MonthOf[z] > MonthOf[e]
    BY DEF MonthEnds
  <2>4. ~(z <= e)
    BY <1>0, <2>1, <2>3, KeepRulesAssumptions DEF AllDates
  <2>5. z \in E
    BY <1>0, <2>1, <2>4
  <2>6. f[e] >= e
    BY <2>1, <2>2
  <2>7. f[e] > d
    <3>1. e \in Nat /\ f[e] \in Nat
      BY <1>0, <2>1, <2>2
    <3>. QED
      BY <2>1, <2>6, <3>1
  <2>8. \A y \in R : MonthOf[y] = MonthOf[e] => y <= e
    BY DEF MonthEnds
  <2>9. f[e] \in MonthEnds(E)
    BY <2>2, <2>3, <2>5 DEF MonthEnds
  <2>. QED
    BY <2>1, <2>2, <2>7, <2>8, <2>9
<1>3. f \in Injection(A, B)
  <2>1. f \in [A -> B]
    BY <1>2
  <2>2. ASSUME NEW x \in A, NEW y \in A, f[x] = f[y]
        PROVE  x = y
    <3>1. MonthOf[x] = MonthOf[y] /\ x \in R /\ y \in R
      BY <1>2, <2>2
    <3>2. x <= y /\ y <= x
      BY <1>2, <3>1
    <3>. QED
      BY <1>0, <3>1, <3>2
  <2>. HIDE DEF f
  <2>. QED
    BY <2>1, <2>2 DEF Injection, IsInjective
<1>. HIDE DEF f, A
<1>. QED
  BY <1>1, <1>3, CountGrowsBy DEF A

\* A date a larger set keeps, a set that has it and none after it but the larger
\* set's keeps too: what is no longer kept never is again.
LEMMA StillKept ==
  ASSUME NEW R \in SUBSET AllDates, NEW E \in SUBSET AllDates,
         IsFiniteSet(R), IsFiniteSet(E),
         NEW d \in R, {x \in R : x > d} \subseteq E, d \in KeepSet(E)
  PROVE  d \in KeepSet(R)
<1>0. /\ R \subseteq Nat /\ E \subseteq Nat /\ \A x \in AllDates : MonthOf[x] \in Nat
      /\ KeepDays \in Nat \ {0} /\ KeepMonthEnds \in Nat
  BY KeepRulesAssumptions DEF AllDates
<1>1. CASE d \in Newest(E, KeepDays)
  <2>1. Cardinality({e \in E : e > d}) < KeepDays
    BY <1>1 DEF Newest
  <2>2. {e \in R : e > d} \subseteq {e \in E : e > d} /\ IsFiniteSet({e \in E : e > d})
    BY FS_Subset
  <2>3. Cardinality({e \in R : e > d}) < KeepDays
    BY <1>0, <2>1, <2>2, CountGrows
  <2>. QED
    BY <2>3 DEF KeepSet, Newest
<1>2. CASE d \in Newest(MonthEnds(E), KeepMonthEnds)
  <2>1. d \in MonthEnds(E) /\ Cardinality({e \in MonthEnds(E) : e > d}) < KeepMonthEnds
    BY <1>2 DEF Newest
  <2>2. CASE d \in MonthEnds(R)
    <3>1. Cardinality({e \in MonthEnds(R) : e > d}) < KeepMonthEnds
      BY <1>0, <2>1, MonthEndsGrow
    <3>. QED
      BY <2>2, <3>1 DEF KeepSet, Newest
  <2>3. CASE d \notin MonthEnds(R)
    <3>1. \A y \in R : ~(y > d)
      <4>. SUFFICES ASSUME NEW y \in R, y > d PROVE FALSE
        OBVIOUS
      <4>1. y \in E /\ MonthOf[d] <= MonthOf[y]
        BY <1>0, KeepRulesAssumptions DEF AllDates
      <4>2. MonthOf[y] # MonthOf[d]
        BY <1>0, <2>1, <4>1 DEF MonthEnds
      <4>3. MonthOf[y] > MonthOf[d]
        BY <1>0, <4>1, <4>2
      <4>4. \A z \in R : MonthOf[z] = MonthOf[d] => z <= d
        <5>. SUFFICES ASSUME NEW z \in R, MonthOf[z] = MonthOf[d], ~(z <= d) PROVE FALSE
          OBVIOUS
        <5>1. z \in E
          BY <1>0
        <5>. QED
          BY <2>1, <5>1 DEF MonthEnds
      <4>. QED
        BY <2>3, <4>3, <4>4 DEF MonthEnds
    <3>2. {e \in R : e > d} = {}
      BY <3>1
    <3>3. Cardinality({e \in R : e > d}) = 0
      BY <3>2, FS_EmptySet
    <3>. QED
      BY <1>0, <3>3 DEF KeepSet, Newest
  <2>. QED
    BY <2>2, <2>3
<1>. QED
  BY <1>1, <1>2 DEF KeepSet

\* What a rule keeps, it was given.
LEMMA KeepSetIsPart ==
  ASSUME NEW S
  PROVE  KeepSet(S) \subseteq S
BY DEF KeepSet, Newest, MonthEnds

\* A date more makes no other date one to keep.
LEMMA KeepSetGrows ==
  ASSUME NEW S \in SUBSET AllDates, IsFiniteSet(S), NEW x \in AllDates
  PROVE  KeepSet(S \union {x}) \subseteq KeepSet(S) \union {x}
<1>. DEFINE E == S \union {x}
<1>1. E \in SUBSET AllDates /\ IsFiniteSet(E) /\ S \subseteq E
  BY FS_AddElement
<1>. SUFFICES ASSUME NEW d \in KeepSet(E), d # x
              PROVE  d \in KeepSet(S)
  OBVIOUS
<1>2. d \in S
  BY KeepSetIsPart
<1>. HIDE DEF E
<1>3. {y \in S : y > d} \subseteq E
  BY <1>1
<1>. QED
  BY <1>1, <1>2, <1>3, StillKept

\* What is left by earlier cuts keeps all that is to be kept of the whole.
LEMMA NightByNight ==
  ASSUME NEW E \in SUBSET AllDates, IsFiniteSet(E), NEW R \in SUBSET E, KeepSet(E) \subseteq R
  PROVE  KeepSet(E) \subseteq KeepSet(R)
<1>1. R \in SUBSET AllDates /\ IsFiniteSet(R)
  BY FS_Subset
<1>2. \A d \in KeepSet(E) : d \in R /\ {x \in R : x > d} \subseteq E
  OBVIOUS
<1>. QED
  BY <1>1, <1>2, StillKept

(***************************************************************************)
(* Deliveries, their dates and their order.                                *)
(***************************************************************************)
\* There are finitely many deliveries, and their dates are dates.
LEMMA DatesType ==
  ASSUME NEW S \in SUBSET Deliveries
  PROVE  Dates(S) \in SUBSET AllDates /\ IsFiniteSet(Dates(S))
<1>1. Dates(S) \in SUBSET AllDates
  BY LandingAssumptions DEF Dates, AllDates
<1>2. IsFiniteSet(Deliveries)
  <2>1. Order \in Surjection(1 .. Len(Order), Deliveries) /\ Len(Order) \in Nat
    BY LandingAssumptions DEF Surjection
  <2>2. IsFiniteSet(1 .. Len(Order))
    BY <2>1, FS_Interval
  <2>. QED
    BY <2>1, <2>2, FS_Surjection
<1>3. IsFiniteSet(Dates(S))
  <2>. DEFINE f == [d \in S |-> DateOf[d]]
  <2>1. f \in Surjection(S, Dates(S)) /\ IsFiniteSet(S)
    BY <1>2, FS_Subset DEF Surjection, Dates
  <2>. HIDE DEF f
  <2>. QED
    BY <2>1, FS_Surjection
<1>. QED
  BY <1>1, <1>3

\* The first of some deliveries is one of them, and in a feed whose names sort by
\* date none of them is older.
LEMMA FirstIsFirst ==
  ASSUME NEW S \in SUBSET Deliveries, S # {}
  PROVE  /\ First(S) \in S
         /\ KeysFollowDates => \A e \in S : DateOf[First(S)] <= DateOf[e]
<1>. DEFINE I == {i \in DOMAIN Order : Order[i] \in S}
            Is(i) == Order[i] \in S /\ \A j \in 1 .. i - 1 : Order[j] \notin S
<1>0. DOMAIN Order = 1 .. Len(Order) /\ Len(Order) \in Nat
  BY LandingAssumptions
<1>1. I \in SUBSET Nat /\ I # {}
  BY <1>0, LandingAssumptions
<1>2. PICK i \in I : \A k \in I : i <= k
  <2>. HIDE DEF I
  <2>. QED
    BY <1>1, LeastNatural
<1>3. \E k \in DOMAIN Order : Is(k)
  BY <1>0, <1>2
<1>4. PICK k \in DOMAIN Order : First(S) = Order[k] /\ Is(k)
  <2>. HIDE DEF I
  <2>. QED
    BY <1>3 DEF First
<1>5. ASSUME KeysFollowDates, NEW e \in S
      PROVE  DateOf[First(S)] <= DateOf[e]
  <2>1. PICK n \in DOMAIN Order : Order[n] = e
    BY LandingAssumptions
  <2>2. ~(n < k)
    BY <1>0, <1>4, <2>1
  <2>3. DateOf[e] \in Nat
    BY LandingAssumptions, KeepRulesAssumptions
  <2>4. CASE n = k
    BY <1>4, <2>1, <2>3, <2>4
  <2>5. CASE k < n
    BY <1>4, <1>5, <2>1, <2>5 DEF KeysFollowDates
  <2>. QED
    BY <1>0, <2>2, <2>4, <2>5
<1>. QED
  BY <1>4, <1>5

(***************************************************************************)
(* Types.                                                                  *)
(***************************************************************************)
\* The numbers among them.
LEMMA Numbers ==
  /\ LandingDays \in Nat
  /\ \A d \in Deliveries : DateOf[d] \in Nat
  /\ TypeOK => today \in Nat /\ landing \in SUBSET Deliveries
  /\ TypeOK' => today' \in Nat /\ landing' \in SUBSET Deliveries
<1>1. LandingDays \in Nat /\ MaxDay \in Nat
  BY LandingAssumptions
<1>2. \A d \in Deliveries : DateOf[d] \in Nat
  BY LandingAssumptions, KeepRulesAssumptions
<1>. QED
  BY <1>1, <1>2 DEF TypeOK

LEMMA InitType == Init => TypeOK
BY LandingAssumptions DEF Init, TypeOK, NoRun

LEMMA TypeKept ==
  ASSUME TypeOK, [Next]_vars
  PROVE  TypeOK'
<1>. USE LandingAssumptions DEF TypeOK
<1>1. CASE UNCHANGED vars
  BY <1>1 DEF vars
<1>2. ASSUME NEW d \in Deliveries, Land(d)
      PROVE  TypeOK'
  BY <1>2 DEF Land, clock, ready, rows
<1>3. ASSUME NEW d \in Deliveries, LandControl(d)
      PROVE  TypeOK'
  BY <1>3 DEF LandControl, clock, ready, rows
<1>4. CASE RunByHand
  BY <1>4 DEF RunByHand, clock, store, ready, rows
<1>5. CASE Resolve
  <2>1. PICK lost \in BOOLEAN, blind \in BOOLEAN :
          /\ WriteManifests(Unnormalized, lost)
          /\ LET S == Pending(manifests', Ingested(blind))
             IN run' = IF S = {} THEN NoRun
                       ELSE [run EXCEPT !.pc = "ingest", !.key = First(S)]
    BY <1>5 DEF Resolve
  <2>2. manifests' \subseteq Deliveries /\ parts' \subseteq Deliveries
        /\ registered' \subseteq Deliveries
    BY <2>1 DEF WriteManifests, Register, Unnormalized
  <2>3. PICK S : S = Pending(manifests', Ingested(blind))
                 /\ run' = IF S = {} THEN NoRun
                           ELSE [run EXCEPT !.pc = "ingest", !.key = First(S)]
    BY <2>1
  <2>4. S \in SUBSET Deliveries
    BY <2>2, <2>3 DEF Pending
  <2>5. S # {} => First(S) \in Deliveries
    BY <2>4, FirstIsFirst
  <2>6. run' \in [pc : {"none", "resolve", "normalize", "ingest"},
                  key : Deliveries \union {None}]
    BY <2>3, <2>5 DEF NoRun
  <2>. QED
    BY <1>5, <2>2, <2>6 DEF Resolve, clock, store, rows
<1>6. CASE Normalize
  <2>1. Normalizable(run.key) => run.key \in Deliveries
    BY DEF Normalizable, Gated
  <2>2. manifests' \subseteq Deliveries /\ parts' \subseteq Deliveries
        /\ registered' \subseteq Deliveries
    BY <1>6, <2>1 DEF Normalize, WriteManifests, Register, Extract, ready
  <2>3. run' \in [pc : {"none", "resolve", "normalize", "ingest"},
                  key : Deliveries \union {None}]
    BY <1>6, SMTT(30) DEF Normalize, NoRun
  <2>. QED
    BY <1>6, <2>2, <2>3 DEF Normalize, clock, store, rows
<1>7. CASE Ingest
  BY <1>7 DEF Ingest, NoRun, clock, store, ready, rows
<1>8. ASSUME NEW k \in Deliveries \union {None}, StartRun(k)
      PROVE  TypeOK'
  BY <1>8 DEF StartRun, clock, store, ready, rows
<1>9. CASE NightFalls
  BY <1>9 DEF NightFalls, store, ready, rows
<1>10. CASE ExpireRaw
  BY <1>10 DEF ExpireRaw, store, ready
<1>11. CASE SweepLanding
  BY <1>11 DEF SweepLanding, ControlLeft, ready, rows
<1>12. CASE SweepReady
  BY <1>12 DEF SweepReady, store, rows
<1>13. CASE ReconcileRegistry
  BY <1>13 DEF ReconcileRegistry, Unnormalized, Inserted, store, ready, rows
<1>. QED
  BY <1>1, <1>2, <1>3, <1>4, <1>5, <1>6, <1>7, <1>8, <1>9, <1>10, <1>11, <1>12, <1>13
  DEF Next, Dag, Night

(***************************************************************************)
(* ready/ and Raw.                                                         *)
(***************************************************************************)
\* What a step does to ready/: it writes members before manifests, and the members
\* of a delivery that is still in landing/ go only once they are in Raw.
LEMMA ReadyStep ==
  ASSUME TypeOK, [Next]_vars
  PROVE  /\ manifests' \subseteq manifests \union parts'
         /\ manifests' \subseteq manifests \union landing
         /\ manifests \intersect landing \intersect (parts \ raw) \subseteq parts'
<1>. USE DEF TypeOK
<1>1. CASE UNCHANGED vars
  BY <1>1 DEF vars
<1>2. CASE Resolve
  BY <1>2 DEF Resolve, WriteManifests, Unnormalized, Normalizable, Gated
<1>3. CASE Normalize
  BY <1>3 DEF Normalize, WriteManifests, Extract, Normalizable, Gated, ready
<1>4. CASE SweepReady
  BY <1>4 DEF SweepReady, Sweepable, Orphans
<1>5. CASE ReconcileRegistry
  BY <1>5 DEF ReconcileRegistry, Unnormalized, Normalizable, Gated, ready
<1>. QED
  BY <1>1, <1>2, <1>3, <1>4, <1>5
  DEF Next, Dag, Night, Land, LandControl, RunByHand, Ingest, StartRun, NightFalls,
      ExpireRaw, SweepLanding, ready

\* What it does to Raw.
LEMMA RowsStep ==
  ASSUME TypeOK, [Next]_vars
  PROVE  \/ UNCHANGED rows
         \/ \E d \in manifests : raw' = raw \union {d} /\ ever' = ever \union {d}
         \/ raw' = {d \in raw : DateOf[d] \notin ExpireSet(Dates(raw))} /\ ever' = ever
<1>1. CASE UNCHANGED vars
  BY <1>1 DEF vars, rows
<1>2. CASE Ingest
  BY <1>2 DEF Ingest, rows
<1>3. CASE ExpireRaw
  BY <1>3 DEF ExpireRaw, rows
<1>. QED
  BY <1>1, <1>2, <1>3
  DEF Next, Dag, Night, Land, LandControl, RunByHand, Resolve, Normalize, StartRun,
      NightFalls, SweepLanding, SweepReady, ReconcileRegistry

\* The two about the keep rules.
LEMMA HistoryIsKept ==
  ASSUME TypeOK, HistoryKept, LostIsExpired, [Next]_vars
  PROVE  HistoryKept' /\ LostIsExpired'
<1>0. ever \in SUBSET Deliveries /\ raw \in SUBSET ever /\ raw \in SUBSET Deliveries
      /\ manifests \in SUBSET Deliveries
  BY DEF TypeOK
<1>. DEFINE E == Dates(ever)
            R == Dates(raw)
<1>1. E \in SUBSET AllDates /\ IsFiniteSet(E) /\ R \in SUBSET E /\ KeepSet(E) \subseteq R
  BY <1>0, DatesType DEF HistoryKept, Dates
<1>2. CASE UNCHANGED rows
  BY <1>2 DEF rows, HistoryKept, LostIsExpired
<1>3. ASSUME NEW d \in manifests, raw' = raw \union {d}, ever' = ever \union {d}
      PROVE  HistoryKept' /\ LostIsExpired'
  <2>2. Dates(ever') = E \union {DateOf[d]} /\ Dates(raw') = R \union {DateOf[d]}
    BY <1>3 DEF Dates
  <2>3. DateOf[d] \in AllDates
    BY <1>0, LandingAssumptions DEF AllDates
  <2>. HIDE DEF E, R
  <2>4. KeepSet(E \union {DateOf[d]}) \subseteq KeepSet(E) \union {DateOf[d]}
    BY <1>1, <2>3, KeepSetGrows
  <2>5. HistoryKept'
    BY <1>1, <2>2, <2>4 DEF HistoryKept
  <2>6. LostIsExpired'
    <3>. SUFFICES ASSUME NEW x \in ever' \ raw', DateOf[x] \in KeepSet(Dates(ever'))
                  PROVE  FALSE
      BY DEF LostIsExpired
    <3>1. x \in ever \ raw /\ DateOf[x] \in E
      BY <1>3 DEF E, Dates
    <3>2. /\ (E \union {DateOf[d]}) \in SUBSET AllDates
          /\ IsFiniteSet(E \union {DateOf[d]})
          /\ {y \in E : y > DateOf[x]} \subseteq E \union {DateOf[d]}
      BY <1>1, <2>3, FS_AddElement
    <3>3. DateOf[x] \in KeepSet(E)
      BY <1>1, <2>2, <3>1, <3>2, StillKept
    <3>. QED
      BY <3>1, <3>3 DEF LostIsExpired, E
  <2>. QED
    BY <2>5, <2>6
<1>4. CASE raw' = {d \in raw : DateOf[d] \notin ExpireSet(Dates(raw))} /\ ever' = ever
  <2>1. KeepSet(E) \subseteq KeepSet(R)
    <3>. HIDE DEF E, R
    <3>. QED
      BY <1>1, NightByNight
  <2>2. KeepSet(R) \subseteq Dates(raw')
    <3>1. KeepSet(R) \subseteq R
      BY KeepSetIsPart
    <3>. QED
      BY <1>4, <3>1 DEF Dates, ExpireSet
  <2>3. \A d \in raw \ raw' : DateOf[d] \notin KeepSet(R)
    BY <1>4 DEF ExpireSet
  <2>4. HistoryKept'
    BY <1>4, <2>1, <2>2 DEF HistoryKept
  <2>5. LostIsExpired'
    BY <1>4, <2>1, <2>3 DEF LostIsExpired
  <2>. QED
    BY <2>4, <2>5
<1>. QED
  BY <1>2, <1>3, <1>4, RowsStep


(***************************************************************************)
(* landing/.                                                               *)
(***************************************************************************)
\* What a step does to landing/ and the clock.
LEMMA LandingStep ==
  ASSUME TypeOK, [Next]_vars
  PROVE  /\ today <= today'
         /\ \/ UNCHANGED <<landing, received>>
            \/ \E d \in Deliveries :
                 /\ received[d] = 0 /\ today <= DateOf[d] + 1
                 /\ landing' = landing \union {d}
                 /\ received' = [received EXCEPT ![d] = today]
            \/ \E S \in SUBSET (landing \intersect Older(LandingDays)) :
                 /\ \A d \in S, e \in (landing \intersect Older(LandingDays)) \ S :
                      First({d, e}) = d
                 /\ landing' = landing \ S
                 /\ UNCHANGED <<today, received>>
<1>0. today \in Nat /\ today <= today
  BY LandingAssumptions DEF TypeOK
<1>1. CASE UNCHANGED vars
  BY <1>0, <1>1 DEF vars
<1>2. ASSUME NEW d \in Deliveries, Land(d)
      PROVE  /\ today' = today /\ received[d] = 0 /\ today <= DateOf[d] + 1
             /\ landing' = landing \union {d}
             /\ received' = [received EXCEPT ![d] = today]
  <2>1. DateOf[d] \in Nat
    BY LandingAssumptions, KeepRulesAssumptions
  <2>. QED
    BY <1>0, <1>2, <2>1 DEF Land, clock
<1>3. CASE SweepLanding
  BY <1>0, <1>3 DEF SweepLanding
<1>4. CASE NightFalls
  BY <1>0, <1>4 DEF NightFalls, store
<1>. QED
  BY <1>0, <1>1, <1>2, <1>3, <1>4
  DEF Next, Dag, Night, LandControl, RunByHand, Resolve, Normalize, Ingest, StartRun,
      ExpireRaw, SweepReady, ReconcileRegistry, clock, store

\* A manifest's parts stay until its delivery was in Raw, or has left landing/.
LEMMA PartsKept ==
  ASSUME TypeOK, AllArrived, PartsUntilIngested, [Next]_vars
  PROVE  PartsUntilIngested'
<1>1. raw \subseteq ever /\ ever \subseteq ever'
  BY RowsStep DEF TypeOK, rows
<1>. SUFFICES ASSUME NEW d \in manifests', d \notin ever', d \in landing'
              PROVE  d \in parts'
  BY DEF PartsUntilIngested, Orphans
<1>2. CASE d \in manifests
  <2>1. d \in Deliveries /\ Arrived(d)
    BY <1>2 DEF TypeOK, AllArrived
  <2>2. d \in landing
    BY <2>1, LandingStep DEF Arrived
  <2>3. d \in parts \ raw
    BY <1>1, <1>2, <2>2 DEF PartsUntilIngested, Orphans
  <2>. QED
    BY <1>2, <2>2, <2>3, ReadyStep
<1>3. CASE d \notin manifests
  BY <1>3, ReadyStep
<1>. QED
  BY <1>2, <1>3

\* No arrival is forgotten.
LEMMA ArrivedStays ==
  ASSUME TypeOK, [Next]_vars, NEW d \in Deliveries, Arrived(d)
  PROVE  Arrived(d)'
BY LandingStep DEF Arrived, TypeOK

LEMMA ArrivedKept ==
  ASSUME TypeOK, AllArrived, [Next]_vars
  PROVE  AllArrived'
<1>. SUFFICES ASSUME NEW d \in landing' \union manifests' \union ever'
              PROVE  Arrived(d)'
  BY DEF AllArrived
<1>1. landing \union manifests \union ever \in SUBSET Deliveries
  BY DEF TypeOK
<1>2. CASE d \in landing \union manifests \union ever
  BY <1>1, <1>2, ArrivedStays DEF AllArrived
<1>3. CASE d \notin landing \union manifests \union ever
  <2>1. d \in landing'
    BY <1>3, ReadyStep, RowsStep DEF rows
  <2>. QED
    BY <1>3, <2>1, LandingStep DEF Arrived, TypeOK
<1>. QED
  BY <1>2, <1>3

LEMMA GoneStaysOld ==
  ASSUME TypeOK, GoneIsOld, [Next]_vars
  PROVE  GoneIsOld'
<1>0. /\ today \in Nat /\ today' \in Nat /\ today <= today' /\ LandingDays \in Nat
      /\ \A d \in Deliveries : DateOf[d] \in Nat
  BY TypeKept, LandingStep, Numbers
<1>. SUFFICES ASSUME NEW d \in Deliveries, d \notin landing', Arrived(d)'
              PROVE  DateOf[d] + LandingDays < today'
  BY DEF GoneIsOld
<1>1. DateOf[d] + LandingDays < today
  <2>1. CASE d \notin landing
    <3>1. Arrived(d)
      BY LandingStep, <2>1 DEF Arrived, TypeOK
    <3>. QED
      BY <2>1, <3>1 DEF GoneIsOld
  <2>2. CASE d \in landing
    BY <2>2, LandingStep DEF Older
  <2>. QED
    BY <2>1, <2>2
<1>. QED
  BY <1>0, <1>1

LEMMA OldestStillGoFirst ==
  ASSUME TypeOK, GoneIsOld, KeysFollowDates, OldestGoFirst, [Next]_vars
  PROVE  OldestGoFirst'
<1>0. /\ today \in Nat /\ LandingDays \in Nat
      /\ \A d \in Deliveries : DateOf[d] \in Nat
      /\ landing \in SUBSET Deliveries /\ landing' \in SUBSET Deliveries
  BY TypeKept, Numbers
<1>. SUFFICES ASSUME NEW d \in landing', NEW e \in Deliveries, e \notin landing', Arrived(e)'
              PROVE  DateOf[e] <= DateOf[d]
  BY DEF OldestGoFirst
<1>1. CASE UNCHANGED <<landing, received>>
  BY <1>1 DEF OldestGoFirst, Arrived
<1>2. ASSUME NEW x \in Deliveries, received[x] = 0, today <= DateOf[x] + 1,
             landing' = landing \union {x}, received' = [received EXCEPT ![x] = today]
      PROVE  DateOf[e] <= DateOf[d]
  <2>1. e \notin landing /\ Arrived(e)
    BY <1>2 DEF Arrived, TypeOK
  <2>2. CASE d \in landing
    BY <2>1, <2>2 DEF OldestGoFirst
  <2>3. CASE d = x
    <3>1. DateOf[e] + LandingDays < today /\ today <= DateOf[d] + 1
      BY <1>2, <2>1, <2>3 DEF GoneIsOld
    <3>. QED
      BY <1>0, <3>1
  <2>. QED
    BY <1>2, <2>2, <2>3
<1>3. ASSUME NEW S \in SUBSET (landing \intersect Older(LandingDays)),
             \A x \in S, y \in (landing \intersect Older(LandingDays)) \ S :
               First({x, y}) = x,
             landing' = landing \ S, UNCHANGED <<today, received>>
      PROVE  DateOf[e] <= DateOf[d]
  <2>1. d \in landing \ S /\ Arrived(e) /\ d \in Deliveries
    BY <1>0, <1>3 DEF Arrived
  <2>2. CASE e \notin landing
    BY <2>1, <2>2 DEF OldestGoFirst
  <2>3. CASE e \in landing
    <3>1. e \in S /\ DateOf[e] + LandingDays < today
      BY <1>3, <2>3 DEF Older
    <3>2. CASE d \in Older(LandingDays)
      <4>1. First({e, d}) = e /\ {e, d} \in SUBSET Deliveries /\ {e, d} # {}
        BY <1>3, <2>1, <3>1, <3>2
      <4>. QED
        BY <4>1, FirstIsFirst
    <3>3. CASE d \notin Older(LandingDays)
      BY <1>0, <2>1, <3>1, <3>3 DEF Older
    <3>. QED
      BY <3>2, <3>3
  <2>. QED
    BY <2>2, <2>3
<1>. QED
  BY <1>1, <1>2, <1>3, LandingStep

(***************************************************************************)
(* The theorems.                                                           *)
(***************************************************************************)
LEMMA InitInv == Init => IInv
<1>. SUFFICES ASSUME Init PROVE IInv
  OBVIOUS
<1>1. Dates(ever) = {} /\ Dates(raw) = {}
  BY DEF Init, Dates
<1>2. KeepSet({}) = {}
  BY KeepSetIsPart
<1>. QED
  BY <1>1, <1>2, InitType
  DEF Init, IInv, AllArrived, PartsUntilIngested, HistoryKept, LostIsExpired, GoneIsOld,
      OldestGoFirst, Arrived

LEMMA NextInv == IInv /\ [Next]_vars => IInv'
<1>1. KeysFollowDates' = KeysFollowDates
  BY DEF KeysFollowDates
<1>. QED
  BY <1>1, TypeKept, ArrivedKept, PartsKept, HistoryIsKept, GoneStaysOld, OldestStillGoFirst
  DEF IInv

\* The inductive invariant holds of every behaviour.
THEOREM LandingInvariant == Spec => []IInv
BY InitInv, NextInv, PTL DEF Spec

\* The variables have their types.
THEOREM TypeCorrect == Spec => []TypeOK
<1>1. IInv => TypeOK
  BY DEF IInv
<1>. QED
  BY <1>1, LandingInvariant, PTL

\* Expiry night by night loses no date that one look at every date ever ingested
\* would keep (month_end_dates: "there is no window where this loses a date").
THEOREM NoDateIsLost == Spec => []HistoryKept
<1>1. IInv => HistoryKept
  BY DEF IInv
<1>. QED
  BY <1>1, LandingInvariant, PTL

\* A manifest's parts can be read until its delivery was ingested, or has left
\* landing/ (retention/ready.py, normalize.py).
THEOREM ManifestsAreWhole == Spec => []PartsUntilIngested
<1>1. IInv => PartsUntilIngested
  BY DEF IInv
<1>. QED
  BY <1>1, LandingInvariant, PTL

\* In a feed whose file names sort by date, a DagRun that looks for work never
\* picks what retention took out of Raw (find_pending).
THEOREM NothingRevived ==
  ASSUME KeysFollowDates
  PROVE  Spec => PollNeverRevives
<1>1. ASSUME IInv, Resolve, run'.pc = "ingest", landing # {}
      PROVE  run'.key \notin ever \ raw
  <2>0. /\ landing \in SUBSET Deliveries /\ ever \in SUBSET Deliveries
        /\ OldestGoFirst /\ AllArrived /\ LostIsExpired
    BY <1>1 DEF IInv, TypeOK
  <2>1. PICK S : /\ S \in SUBSET Deliveries
                 /\ \A x \in S : DateOf[x] \in KeptDates
                 /\ run' = IF S = {} THEN NoRun
                           ELSE [run EXCEPT !.pc = "ingest", !.key = First(S)]
    <3>1. PICK blind \in BOOLEAN :
            run' = IF Pending(manifests', Ingested(blind)) = {} THEN NoRun
                   ELSE [run EXCEPT !.pc = "ingest",
                                    !.key = First(Pending(manifests', Ingested(blind)))]
      BY <1>1 DEF Resolve
    <3>2. manifests' \subseteq Deliveries
      BY <1>1, TypeKept DEF IInv, TypeOK, Next, Dag
    <3>. QED
      BY <1>1, <3>1, <3>2 DEF Pending
  <2>2. S # {} /\ run'.key = First(S)
    BY <1>1, <2>1 DEF NoRun, IInv, TypeOK
  <2>3. run'.key \in S
    BY <2>1, <2>2, FirstIsFirst
  <2>. SUFFICES ASSUME NEW x \in ever \ raw, DateOf[x] \in KeptDates
                PROVE  FALSE
    BY <2>1, <2>3
  <2>. DEFINE E == Dates(landing)
              R == Dates(ever)
  <2>4. PICK l \in landing : DateOf[l] = DateOf[x]
    BY KeepSetIsPart DEF KeptDates, Dates
  <2>5. ASSUME NEW y \in R, y > DateOf[x]
        PROVE  y \in E
    <3>1. PICK e \in ever : DateOf[e] = y
      BY DEF Dates
    <3>2. e \in landing
      <4>1. ~(DateOf[e] <= DateOf[l])
        BY <2>0, <2>4, <2>5, <3>1, LandingAssumptions, KeepRulesAssumptions
      <4>. QED
        BY <2>0, <4>1 DEF OldestGoFirst, AllArrived
    <3>. QED
      BY <3>1, <3>2 DEF Dates
  <2>6. /\ E \in SUBSET AllDates /\ IsFiniteSet(E) /\ R \in SUBSET AllDates /\ IsFiniteSet(R)
        /\ DateOf[x] \in R /\ DateOf[x] \in KeepSet(E)
    BY <2>0, DatesType DEF KeptDates, Dates
  <2>7. DateOf[x] \in KeepSet(R)
    <3>1. {y \in R : y > DateOf[x]} \subseteq E
      BY <2>5
    <3>. HIDE DEF E, R
    <3>. QED
      BY <2>6, <3>1, StillKept
  <2>. QED
    BY <2>0, <2>7 DEF LostIsExpired
<1>2. IInv /\ [Next]_vars =>
        [(Resolve /\ run'.pc = "ingest" /\ landing # {}) => run'.key \notin ever \ raw]_vars
  BY <1>1
<1>. QED
  BY <1>2, LandingInvariant, PTL DEF Spec, PollNeverRevives

=============================================================================
