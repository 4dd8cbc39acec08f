-------------------------- MODULE Monitoring_proofs --------------------------
(***************************************************************************)
(* Proofs about Monitoring, for any feeds, dates, weeks and keep rules,    *)
(* any windows of the watchdog and any budget of what goes wrong: that a   *)
(* gap is real, that what the monitors said in favour of a date stands,    *)
(* that silence means the files were reclaimed, and under which windows an *)
(* alarm is earned.                                                        *)
(***************************************************************************)
EXTENDS Monitoring, FiniteSetTheorems, WellFoundedInduction, SequenceTheorems, TLAPS

-----------------------------------------------------------------------------
(* Sets of numbers and the keep rules. *)

\* A set of natural numbers has a least element.
LEMMA LeastNatural ==
  ASSUME NEW T \in SUBSET Nat, T # {}
  PROVE  \E m \in T : \A k \in T : m <= k
<1>1. IsWellFoundedOn(OpToRel(<, Nat), Nat)
  BY NatLessThanWellFounded
<1>2. PICK x \in T : \A y \in T : ~ (<<y, x>> \in OpToRel(<, Nat))
  BY <1>1, WFMin
<1>3. \A y \in T : ~(y < x)
  BY <1>2 DEF OpToRel
<1>. QED
  BY <1>3

\* A finite set of them has a greatest: the one with the fewest above it.
LEMMA GreatestOfFinite ==
  ASSUME NEW S \in SUBSET Nat, IsFiniteSet(S), S # {}
  PROVE  \E x \in S : \A y \in S : y <= x
<1>. DEFINE Above(x) == {y \in S : y > x}
            Counts == {Cardinality(Above(x)) : x \in S}
<1>1. \A x \in S : IsFiniteSet(Above(x)) /\ Cardinality(Above(x)) \in Nat
  BY FS_Subset, FS_CardinalityType
<1>2. Counts \in SUBSET Nat /\ Counts # {}
  BY <1>1
<1>3. PICK m \in Counts : \A k \in Counts : m <= k
  <2>. HIDE DEF Counts
  <2>. QED
    BY <1>2, LeastNatural
<1>4. PICK x \in S : m = Cardinality(Above(x))
  BY <1>3
<1>5. ASSUME NEW y \in S, ~(y <= x)
      PROVE  FALSE
  <2>0. \A z \in S : z \in Nat
    OBVIOUS
  <2>a. y > x /\ ~(y > y)
    BY <1>5, <2>0
  <2>b. \A z \in S : z > y => z > x
    BY <2>a, <2>0
  <2>1. Above(y) \in SUBSET Above(x) /\ y \in Above(x) /\ y \notin Above(y)
    BY <2>a, <2>b
  <2>2. /\ Cardinality(Above(x)) <= Cardinality(Above(y))
        /\ Cardinality(Above(x)) \in Nat /\ Cardinality(Above(y)) \in Nat
        /\ IsFiniteSet(Above(x))
    BY <1>1, <1>3, <1>4
  <2>3. Cardinality(Above(y)) <= Cardinality(Above(x))
    BY <1>1, <2>1, FS_Subset
  <2>. HIDE DEF Above
  <2>. QED
    BY <2>1, <2>2, <2>3, FS_Subset
<1>. QED
  BY <1>5

\* The newest dates above one are as many after the others expired.
LEMMA NewestStay ==
  ASSUME NEW S \in SUBSET Nat, IsFiniteSet(S), NEW d \in Nat, NEW n \in Nat,
         n <= Cardinality({e \in S : e > d})
  PROVE  n <= Cardinality({e \in Newest(S, n) : e > d})
<1>. DEFINE A == {e \in S : e > d}
            N == Newest(S, n)
            B == {e \in N : e > d}
            C == A \ B
<1>1. N \subseteq S /\ B \subseteq A /\ A \subseteq S /\ C \subseteq S
  BY DEF Newest
<1>2. IsFiniteSet(A) /\ IsFiniteSet(B) /\ IsFiniteSet(C) /\ C \in SUBSET Nat
  BY <1>1, FS_Subset
<1>3. CASE C = {}
  <2>1. A = B
    BY <1>1, <1>3
  <2>. QED
    BY <2>1
<1>4. CASE C # {}
  <2>1. PICK e \in C : \A y \in C : y <= e
    <3>. HIDE DEF C
    <3>. QED
      BY <1>2, <1>4, GreatestOfFinite
  <2>. DEFINE Up == {y \in S : y > e}
  <2>2. e \in S /\ e > d /\ e \notin N /\ e \in Nat
    BY <1>1, <2>1
  <2>3. IsFiniteSet(Up) /\ Cardinality(Up) \in Nat /\ ~(Cardinality(Up) < n)
    <3>1. IsFiniteSet(Up)
      BY FS_Subset
    <3>2. ~(Cardinality(Up) < n)
      BY <2>2 DEF Newest
    <3>. QED
      BY <3>1, <3>2, FS_CardinalityType
  <2>4. Up \subseteq B
    <3>1. ASSUME NEW y \in S, y > e
          PROVE  y \in B
      <4>1. y \in Nat /\ y > d /\ ~(y <= e)
        BY <2>2, <3>1
      <4>. QED
        BY <2>1, <4>1
    <3>. QED
      BY <3>1
  <2>5. Cardinality(Up) <= Cardinality(B) /\ Cardinality(B) \in Nat
    <3>. HIDE DEF Up, B
    <3>. QED
      BY <1>2, <2>4, FS_Subset, FS_CardinalityType
  <2>. HIDE DEF Up, B
  <2>6. n <= Cardinality(B)
    BY <2>3, <2>5
  <2>. QED
    BY <2>6 DEF B
<1>. QED
  BY <1>3, <1>4

\* So are they among all that a keep rule keeps.
LEMMA KeptAbove ==
  ASSUME NEW S \in SUBSET Nat, IsFiniteSet(S), NEW d \in Nat,
         KeepDays <= Cardinality({e \in S : e > d})
  PROVE  KeepDays <= Cardinality({e \in KeepSet(S) : e > d})
<1>. DEFINE B == {e \in Newest(S, KeepDays) : e > d}
            K == {e \in KeepSet(S) : e > d}
<1>1. KeepDays \in Nat
  BY KeepRulesAssumptions
<1>2. KeepDays <= Cardinality(B)
  BY <1>1, NewestStay
<1>3. B \subseteq K /\ K \subseteq S
  BY DEF KeepSet, Newest, MonthEnds
<1>4. IsFiniteSet(K)
  BY <1>3, FS_Subset
<1>. HIDE DEF B, K
<1>5. Cardinality(B) <= Cardinality(K) /\ Cardinality(B) \in Nat /\ Cardinality(K) \in Nat
  BY <1>3, <1>4, FS_Subset, FS_CardinalityType
<1>6. KeepDays <= Cardinality(K)
  BY <1>1, <1>2, <1>5
<1>. QED
  BY <1>6 DEF K

\* A larger set has as many above.
LEMMA AboveGrows ==
  ASSUME NEW S \in SUBSET Nat, IsFiniteSet(S), NEW T \in SUBSET S, NEW d
  PROVE  /\ Cardinality({e \in T : e > d}) <= Cardinality({e \in S : e > d})
         /\ Cardinality({e \in T : e > d}) \in Nat /\ Cardinality({e \in S : e > d}) \in Nat
<1>1. IsFiniteSet({e \in S : e > d}) /\ {e \in T : e > d} \subseteq {e \in S : e > d}
  BY FS_Subset
<1>. QED
  BY <1>1, FS_Subset, FS_CardinalityType

-----------------------------------------------------------------------------
(* The types. *)

\* Dates are natural numbers, and finitely many.
LEMMA DatesAreNumbers ==
  /\ Dates \subseteq Nat /\ IsFiniteSet(Dates)
  /\ \A S \in SUBSET Dates : S \in SUBSET Nat /\ IsFiniteSet(S)
<1>1. Dates \subseteq Nat /\ IsFiniteSet(Dates)
  BY KeepRulesAssumptions, FeedMonitorsAssumptions DEF Dates
<1>. QED
  BY <1>1, FS_Subset

\* The bounds and windows are numbers.
LEMMA WindowsAreNumbers ==
  /\ MaxTick \in Nat /\ ReviewWindows \subseteq Nat /\ MaxAgeTicks \in Nat /\ StaleTicks \in Nat
  /\ RunTicks \in Nat /\ MaxFaults \in Nat /\ MaxHands \in Nat /\ KeepDays \in Nat
BY ClockAssumption, WatchdogAssumptions, FeedMonitorsAssumptions, KeepRulesAssumptions

\* What the feeds' variables hold, and what the watchdog's.
FeedTypes ==
  /\ arrivals \in [Feeds \X Dates -> Seq(BOOLEAN)]
  /\ receipt \in [Feeds \X Dates -> {"none", "received", "failed"}]
  /\ committed \subseteq Feeds \X Dates
  /\ raw \in [Feeds -> SUBSET Dates] /\ \A f \in Feeds : {f} \X raw[f] \subseteq committed
  /\ unreadable \subseteq Feeds /\ hands \in 0 .. MaxHands

WatchTypes ==
  /\ run \in [pc : {"none", "sweep", "deletes", "rows", "report"}, night : Nat, start : 0 .. now,
              stuck : BOOLEAN, error : BOOLEAN]
  /\ lastSuccess \in 0 .. now \union {NotYet} /\ recorded \subseteq 0 .. now
  /\ listing \in {"no_schema", "absent", "inactive", "active"}
  /\ tables \in BOOLEAN /\ review \in ReviewWindows
  /\ paused \in BOOLEAN /\ down \subseteq {"metadata", "gc"} /\ faults \in 0 .. MaxFaults

LEMMA TypeParts == TypeOK <=> now \in 0 .. MaxTick /\ coming \subseteq Dates /\ FeedTypes /\ WatchTypes
BY DEF TypeOK, FeedTypes, WatchTypes

LEMMA InitTypes == Init => TypeOK
<1>. SUFFICES ASSUME Init PROVE TypeOK
  OBVIOUS
<1>. USE WindowsAreNumbers
<1>1. now \in 0 .. MaxTick /\ now = Start /\ Start \in Nat /\ Start % Day = Day - 1
  BY MonitoringAssumptions DEF Init
<1>3. PICK s \in Scenarios : /\ hands = s.hands /\ faults = s.faults /\ review = s.review
                             /\ coming = s.coming /\ FeedsInit(s.past) /\ WatchInit(s.fresh)
  BY DEF Init
<1>4. /\ s.hands \in 0 .. MaxHands /\ s.faults \in 0 .. MaxFaults /\ s.coming \subseteq Dates
      /\ s.past \subseteq Feeds \X {d \in Dates : d < DayOf(Start)}
      /\ s.review \in ReviewWindows /\ s.fresh \in BOOLEAN
  BY MonitoringAssumptions
<1>5. s.past \subseteq Feeds \X Dates
  BY <1>4
<1>6. FeedTypes
  <2>1. /\ arrivals = [fd \in Feeds \X Dates |-> IF fd \in s.past THEN <<FALSE>> ELSE <<>>]
        /\ receipt = [fd \in Feeds \X Dates |-> "none"]
        /\ committed = s.past /\ unreadable = {}
        /\ raw = [f \in Feeds |-> {d \in Dates : <<f, d>> \in s.past}]
    BY <1>3 DEF FeedsInit
  <2>2. <<FALSE>> \in Seq(BOOLEAN) /\ <<>> \in Seq(BOOLEAN)
    OBVIOUS
  <2>3. arrivals \in [Feeds \X Dates -> Seq(BOOLEAN)]
    BY <2>1, <2>2
  <2>4. \A f \in Feeds : raw[f] = {d \in Dates : <<f, d>> \in s.past}
    BY <2>1
  <2>5. \A f \in Feeds : {f} \X raw[f] \subseteq committed
    BY <2>1, <2>4
  <2>. QED
    BY <1>3, <1>4, <1>5, <2>1, <2>3, <2>5 DEF FeedTypes
<1>7. WatchTypes
  <2>1. now >= 3 /\ Nights - 1 \in Nat
    BY <1>1 DEF Day, Nights
  <2>2. /\ run = [pc |-> "none", night |-> Nights - 1, start |-> 0, stuck |-> FALSE, error |-> FALSE]
        /\ lastSuccess = (IF s.fresh THEN NotYet ELSE now - 3)
        /\ listing = (IF s.fresh THEN "no_schema" ELSE "active")
        /\ tables = ~s.fresh /\ recorded = {} /\ paused = FALSE /\ down = {}
    BY <1>1, <1>3 DEF WatchInit, Day
  <2>3. run \in [pc : {"none", "sweep", "deletes", "rows", "report"}, night : Nat, start : 0 .. now,
                stuck : BOOLEAN, error : BOOLEAN]
    BY <1>1, <2>1, <2>2
  <2>4. lastSuccess \in 0 .. now \union {NotYet} /\ recorded \subseteq 0 .. now
    BY <1>1, <2>1, <2>2
  <2>6. /\ listing \in {"no_schema", "absent", "inactive", "active"}
        /\ tables \in BOOLEAN /\ review \in ReviewWindows
    BY <1>3, <1>4, <2>2
  <2>5. paused \in BOOLEAN /\ down \subseteq {"metadata", "gc"} /\ faults \in 0 .. MaxFaults
    BY <1>3, <1>4, <2>2
  <2>. QED
    BY <2>3, <2>4, <2>5, <2>6 DEF WatchTypes
<1>. QED
  BY <1>1, <1>3, <1>4, <1>6, <1>7, TypeParts

\* A step of the feeds.
LEMMA FeedTypesKept ==
  ASSUME FeedTypes, FeedStep, coming \subseteq Dates
  PROVE  FeedTypes'
<1>. USE DEF FeedTypes
<1>h. ASSUME Hand PROVE hands' \in 0 .. MaxHands
  BY <1>h, WindowsAreNumbers DEF Hand
<1>1. ASSUME NEW f \in Feeds, NEW d \in coming, Receive(f, d) PROVE FeedTypes'
  BY <1>1, <1>h DEF Receive
<1>2. ASSUME NEW f \in Feeds, NEW d \in coming, Fail(f, d) PROVE FeedTypes'
  BY <1>2 DEF Fail
<1>3. ASSUME NEW f \in Feeds, NEW d \in coming, Arrive(f, d) PROVE FeedTypes'
  <2>1. hands' \in 0 .. MaxHands
    BY <1>3, <1>h DEF Arrive
  <2>2. arrivals' = [arrivals EXCEPT ![<<f, d>>] = Append(@, PastDeadline(d))]
    BY <1>3 DEF Arrive
  <2>3. <<f, d>> \in Feeds \X Dates /\ PastDeadline(d) \in BOOLEAN
    BY DEF PastDeadline
  <2>4. Append(arrivals[<<f, d>>], PastDeadline(d)) \in Seq(BOOLEAN)
    BY <2>3, AppendProperties
  <2>5. arrivals' \in [Feeds \X Dates -> Seq(BOOLEAN)]
    BY <2>2, <2>3, <2>4
  <2>. QED
    BY <1>3, <2>1, <2>5 DEF Arrive
<1>4. ASSUME NEW f \in Feeds, NEW d \in coming, Ingested(f, d) PROVE FeedTypes'
  <2>1. /\ committed' = committed \union {<<f, d>>}
        /\ raw' = [raw EXCEPT ![f] = @ \union {d}]
    BY <1>4 DEF Ingested
  <2>2. d \in Dates
    OBVIOUS
  <2>3. raw' \in [Feeds -> SUBSET Dates] /\ committed' \subseteq Feeds \X Dates
    BY <2>1, <2>2
  <2>4. ASSUME NEW g \in Feeds, NEW e \in raw'[g] PROVE <<g, e>> \in committed'
    <3>1. e \in raw[g] \/ (g = f /\ e = d)
      BY <2>1
    <3>. QED
      BY <2>1, <3>1
  <2>5. \A g \in Feeds : {g} \X raw'[g] \subseteq committed'
    BY <2>4
  <2>. QED
    BY <1>4, <2>3, <2>5 DEF Ingested
<1>5. ASSUME NEW f \in Feeds, Break(f) PROVE FeedTypes'
  BY <1>5, <1>h DEF Break
<1>6. ASSUME NEW f \in Feeds, Mend(f) PROVE FeedTypes'
  BY <1>6 DEF Mend
<1>. QED
  BY <1>1, <1>2, <1>3, <1>4, <1>5, <1>6 DEF FeedStep

\* A keep rule keeps some of what it is given.
LEMMA KeptAreSome == \A S : KeepSet(S) \subseteq S
BY DEF KeepSet, Newest, MonthEnds

LEMMA TrimTypesKept ==
  ASSUME FeedTypes, NEW F, Trim(F)
  PROVE  FeedTypes'
<1>1. raw' = [f \in Feeds |-> IF f \in F THEN KeepSet(raw[f]) ELSE raw[f]]
  BY DEF Trim
<1>2. \A f \in Feeds : raw'[f] \subseteq raw[f]
  BY <1>1, KeptAreSome
<1>3. raw' \in [Feeds -> SUBSET Dates]
  BY <1>1, KeptAreSome DEF FeedTypes
<1>. QED
  BY <1>2, <1>3 DEF FeedTypes, Trim

\* A run that ended, field by field.
LEMMA EndedIs ==
  ASSUME NEW P, "none" \in P, NEW T, 0 \in T,
         run \in [pc : P, night : Nat, start : T, stuck : BOOLEAN, error : BOOLEAN]
  PROVE  /\ Ended \in [pc : P, night : Nat, start : T, stuck : BOOLEAN, error : BOOLEAN]
         /\ Ended.pc = "none" /\ Ended.night = run.night
         /\ Ended.stuck = FALSE /\ Ended.error = FALSE
<1>. DEFINE R == [run EXCEPT !.pc = "none", !.start = 0]
<1>1. R \in [pc : P, night : Nat, start : T, stuck : BOOLEAN, error : BOOLEAN]
  OBVIOUS
<1>2. R.pc = "none" /\ R.night = run.night
  OBVIOUS
<1>3. Ended = [R EXCEPT !.stuck = FALSE, !.error = FALSE]
  BY Zenon DEF Ended
<1>. HIDE DEF R
<1>. QED
  BY <1>1, <1>2, <1>3

\* A step of the night.
LEMMA NightTypesKept ==
  ASSUME WatchTypes, NightStep, now \in Nat, now' = now
  PROVE  WatchTypes'
<1>. USE DEF WatchTypes
<1>f. ASSUME Fault PROVE faults' \in 0 .. MaxFaults
  BY <1>f, WindowsAreNumbers DEF Fault
<1>e. Ended \in [pc : {"none", "sweep", "deletes", "rows", "report"}, night : Nat, start : 0 .. now,
                 stuck : BOOLEAN, error : BOOLEAN]
  <2>1. 0 \in 0 .. now
    OBVIOUS
  <2>. QED
    BY <2>1, EndedIs
<1>1. CASE StartRun
  <2>1. Nights \in Nat /\ now \in 0 .. now
    BY DEF Nights, Day
  <2>. QED
    BY <1>1, <2>1 DEF StartRun
<1>2. CASE RunFails
  BY <1>2, <1>e, <1>f DEF RunFails
<1>3. CASE Wedge
  BY <1>3, <1>f DEF Wedge
<1>4. CASE Unwedge
  BY <1>4, <1>e DEF Unwedge
<1>5. CASE Sweep
  BY <1>5 DEF Sweep
<1>6. CASE DeferredDeletes
  <2>. DEFINE due == {t \in recorded : now - t > review}
  <2>1. CASE recorded' = recorded \ due /\ run' = [run EXCEPT !.pc = "rows"] /\ UNCHANGED faults
    BY <1>6, <2>1 DEF DeferredDeletes
  <2>2. CASE /\ \E S \in SUBSET due : recorded' = recorded \ S
             /\ run' = [run EXCEPT !.pc = "rows", !.error = TRUE]
             /\ Fault
    BY <1>6, <1>f, <2>2 DEF DeferredDeletes
  <2>. QED
    BY <1>6, <2>1, <2>2 DEF DeferredDeletes
<1>7. CASE Report
  BY <1>7, <1>e DEF Report
<1>8. CASE Pause
  BY <1>8, <1>f DEF Pause
<1>9. CASE Unpause
  BY <1>9 DEF Unpause
<1>10. CASE \E db \in {"metadata", "gc"} : Outage(db) \/ Restored(db)
  BY <1>10, <1>f DEF Outage, Restored
<1>11. CASE Migrated \/ Parsed
  BY <1>11 DEF Migrated, Parsed
<1>12. CASE Unparsed
  BY <1>12, <1>f DEF Unparsed
<1>13. CASE TablesLost
  BY <1>13, <1>f DEF TablesLost
<1>. QED
  BY <1>1, <1>2, <1>3, <1>4, <1>5, <1>6, <1>7, <1>8, <1>9, <1>10, <1>11, <1>12, <1>13 DEF NightStep

LEMMA TablesTypesKept ==
  ASSUME WatchTypes, NEW all \in BOOLEAN, TablesTrimmed(all), now \in Nat, now' = now
  PROVE  WatchTypes'
<1>1. CASE all
  BY <1>1 DEF TablesTrimmed, WatchTypes
<1>2. CASE ~all
  <2>1. /\ run' = Ended /\ Fault
        /\ UNCHANGED <<lastSuccess, recorded, tables, listing, paused, down, review>>
    BY <1>2 DEF TablesTrimmed
  <2>2. run' \in [pc : {"none", "sweep", "deletes", "rows", "report"}, night : Nat, start : 0 .. now,
                 stuck : BOOLEAN, error : BOOLEAN]
    <3>1. 0 \in 0 .. now
      OBVIOUS
    <3>. QED
      BY <2>1, <3>1, EndedIs DEF WatchTypes
  <2>3. faults' \in 0 .. MaxFaults
    BY <2>1, WindowsAreNumbers DEF Fault, WatchTypes
  <2>. QED
    BY <2>1, <2>2, <2>3 DEF WatchTypes
<1>. QED
  BY <1>1, <1>2

LEMMA TickTypesKept ==
  ASSUME WatchTypes, UNCHANGED watchVars, now \in Nat, now' = now + 1
  PROVE  WatchTypes'
<1>1. 0 .. now \subseteq 0 .. now'
  OBVIOUS
<1>. QED
  BY <1>1 DEF WatchTypes, watchVars

LEMMA StepTypes == TypeOK /\ [Next]_vars => TypeOK'
<1>. SUFFICES ASSUME TypeOK, [Next]_vars PROVE TypeOK'
  OBVIOUS
<1>t. now \in 0 .. MaxTick /\ now \in Nat /\ coming \subseteq Dates /\ FeedTypes /\ WatchTypes
  BY TypeParts, WindowsAreNumbers
<1>w. ASSUME UNCHANGED <<now, watchVars>> PROVE WatchTypes'
  BY <1>w, <1>t DEF WatchTypes, watchVars
<1>v. ASSUME UNCHANGED feedVars PROVE FeedTypes'
  BY <1>v, <1>t DEF FeedTypes, feedVars
<1>1. CASE FeedStep /\ UNCHANGED <<now, watchVars, coming>>
  <2>1. FeedTypes' /\ WatchTypes'
    BY <1>1, <1>t, <1>w, FeedTypesKept
  <2>. QED
    BY <1>1, <1>t, <2>1 DEF TypeOK, FeedTypes, WatchTypes
<1>2. CASE NightStep /\ UNCHANGED <<now, feedVars, coming>>
  <2>1. FeedTypes' /\ WatchTypes'
    BY <1>2, <1>t, <1>v, NightTypesKept
  <2>. QED
    BY <1>2, <1>t, <2>1 DEF TypeOK, FeedTypes, WatchTypes
<1>3. CASE TrimStep /\ UNCHANGED <<now, coming>>
  <2>0. PICK F \in SUBSET Feeds : Trim(F) /\ TablesTrimmed(F = Feeds)
    BY <1>3 DEF TrimStep
  <2>1. FeedTypes' /\ WatchTypes'
    <3>1. (F = Feeds) \in BOOLEAN
      OBVIOUS
    <3>. QED
      BY <1>3, <1>t, <2>0, <3>1, TrimTypesKept, TablesTypesKept
  <2>. QED
    BY <1>3, <1>t, <2>1 DEF TypeOK, FeedTypes, WatchTypes
<1>4. CASE Tick /\ UNCHANGED <<feedVars, watchVars, coming>>
  <2>1. now < MaxTick /\ now' = now + 1
    BY <1>4 DEF Tick, Passes
  <2>2. FeedTypes' /\ WatchTypes'
    BY <1>4, <1>t, <1>v, <2>1, TickTypesKept
  <2>3. now' \in 0 .. MaxTick
    BY <1>t, <2>1, WindowsAreNumbers
  <2>. QED
    BY <1>4, <1>t, <2>2, <2>3 DEF TypeOK, FeedTypes, WatchTypes
<1>5. CASE UNCHANGED vars
  <2>1. FeedTypes' /\ WatchTypes'
    BY <1>5, <1>w, <1>v DEF vars
  <2>. QED
    BY <1>5, <1>t, <2>1 DEF TypeOK, FeedTypes, WatchTypes, vars
<1>. QED
  BY <1>1, <1>2, <1>3, <1>4, <1>5 DEF Next

\* The variables keep their types, a run never starts in the future, and only
\* what was committed is ever in Raw (completeness.find_gaps reads the tables).
THEOREM TypeCorrect == Spec => []TypeOK
BY InitTypes, StepTypes, PTL DEF Spec

-----------------------------------------------------------------------------
(* A gap is real. *)

\* What was committed for a feed and is not in its table any more is older
\* than as many dates as the lookback has: the trim took it, and keeps the
\* newest.
Trimmed ==
  \A f \in Feeds, d \in Dates :
    <<f, d>> \in committed /\ d \notin raw[f] => KeepDays <= Cardinality({e \in raw[f] : e > d})

LEMMA InitTrimmed == Init => Trimmed
<1>. SUFFICES ASSUME Init PROVE Trimmed
  OBVIOUS
<1>1. PICK s \in Scenarios : FeedsInit(s.past)
  BY DEF Init
<1>2. \A f \in Feeds, d \in Dates : <<f, d>> \in committed => d \in raw[f]
  BY <1>1 DEF FeedsInit
<1>. QED
  BY <1>2 DEF Trimmed

\* An ingest adds dates, which leaves as many above.
LEMMA IngestedTrimmed ==
  ASSUME TypeOK, Trimmed, NEW f \in Feeds, NEW d \in Dates, Ingested(f, d)
  PROVE  Trimmed'
<1>1. /\ committed' = committed \union {<<f, d>>}
      /\ raw' = [raw EXCEPT ![f] = @ \union {d}]
      /\ raw \in [Feeds -> SUBSET Dates]
  BY DEF Ingested, TypeOK
<1>2. SUFFICES ASSUME NEW g \in Feeds, NEW x \in Dates, <<g, x>> \in committed', x \notin raw'[g]
               PROVE  KeepDays <= Cardinality({e \in raw'[g] : e > x})
  BY DEF Trimmed
<1>3. raw[g] \subseteq raw'[g] /\ raw'[g] \subseteq Dates /\ (g = f => d \in raw'[g])
  BY <1>1
<1>4. <<g, x>> \in committed /\ x \notin raw[g]
  BY <1>1, <1>2, <1>3
<1>5. KeepDays <= Cardinality({e \in raw[g] : e > x})
  BY <1>4 DEF Trimmed
<1>6. raw'[g] \in SUBSET Nat /\ IsFiniteSet(raw'[g])
  BY <1>3, DatesAreNumbers
<1>. DEFINE Before == Cardinality({e \in raw[g] : e > x})
            After == Cardinality({e \in raw'[g] : e > x})
<1>7. Before <= After /\ Before \in Nat /\ After \in Nat
  BY <1>3, <1>6, AboveGrows
<1>8. KeepDays <= Before
  BY <1>5
<1>. HIDE DEF Before, After
<1>9. KeepDays <= After
  BY <1>7, <1>8, WindowsAreNumbers
<1>. QED
  BY <1>9 DEF After

\* The trim keeps the newest dates above one it took, and above one it had
\* taken before.
LEMMA TrimTrimmed ==
  ASSUME TypeOK, Trimmed, NEW F, Trim(F)
  PROVE  Trimmed'
<1>1. /\ raw' = [f \in Feeds |-> IF f \in F THEN KeepSet(raw[f]) ELSE raw[f]]
      /\ committed' = committed /\ raw \in [Feeds -> SUBSET Dates]
  BY DEF Trim, TypeOK
<1>2. SUFFICES ASSUME NEW g \in Feeds, NEW x \in Dates, <<g, x>> \in committed, x \notin raw'[g]
               PROVE  KeepDays <= Cardinality({e \in raw'[g] : e > x})
  BY <1>1 DEF Trimmed
<1>3. CASE g \notin F
  BY <1>1, <1>2, <1>3 DEF Trimmed
<1>4. CASE g \in F
  <2>1. raw'[g] = KeepSet(raw[g])
    BY <1>1, <1>4
  <2>2. raw[g] \in SUBSET Nat /\ IsFiniteSet(raw[g]) /\ x \in Nat
    BY <1>1, DatesAreNumbers
  <2>. DEFINE Above == Cardinality({e \in raw[g] : e > x})
  <2>3. KeepDays <= Above
    <3>1. CASE x \notin raw[g]
      BY <1>2, <3>1 DEF Trimmed
    <3>2. CASE x \in raw[g]
      <4>1. ~(Above < KeepDays)
        BY <1>2, <2>1, <3>2 DEF KeepSet, Newest
      <4>2. Above \in Nat
        BY <2>2, AboveGrows
      <4>. HIDE DEF Above
      <4>. QED
        BY <4>1, <4>2, WindowsAreNumbers
    <3>. QED
      BY <3>1, <3>2
  <2>. QED
    BY <2>1, <2>2, <2>3, KeptAbove
<1>. QED
  BY <1>3, <1>4

LEMMA StepTrimmed == TypeOK /\ Trimmed /\ [Next]_vars => Trimmed'
<1>. SUFFICES ASSUME TypeOK, Trimmed, [Next]_vars PROVE Trimmed'
  OBVIOUS
<1>s. ASSUME UNCHANGED <<committed, raw>> PROVE Trimmed'
  BY <1>s DEF Trimmed
<1>1. CASE FeedStep
  <2>1. ASSUME NEW f \in Feeds, NEW d \in coming, Ingested(f, d) PROVE Trimmed'
    <3>1. d \in Dates
      BY DEF TypeOK
    <3>. QED
      BY <2>1, <3>1, IngestedTrimmed
  <2>2. ASSUME NEW f \in Feeds, NEW d \in coming, Receive(f, d) \/ Fail(f, d) \/ Arrive(f, d)
        PROVE  Trimmed'
    BY <1>s, <2>2 DEF Receive, Fail, Arrive
  <2>3. ASSUME NEW f \in Feeds, Break(f) \/ Mend(f) PROVE Trimmed'
    BY <1>s, <2>3 DEF Break, Mend
  <2>. QED
    BY <1>1, <2>1, <2>2, <2>3 DEF FeedStep
<1>2. CASE TrimStep
  BY <1>2, TrimTrimmed DEF TrimStep
<1>3. CASE UNCHANGED feedVars
  BY <1>3, <1>s DEF feedVars
<1>. QED
  BY <1>1, <1>2, <1>3 DEF Next, vars

\* It is what makes a gap in the newest dates a date that never came.
LEMMA TrimmedGaps == TypeOK /\ Trimmed => GapsAreReal
<1>. SUFFICES ASSUME TypeOK, Trimmed, NEW f \in Feeds, NEW x \in Missing(f), NEW d \in Dates,
                     IF f \in Daily THEN d = x ELSE WeekOf[d] = x, <<f, d>> \in committed
              PROVE  FALSE
  BY DEF GapsAreReal, Never
<1>. DEFINE Newer(S, e) == Cardinality({y \in S : y > e})
<1>0. raw \in [Feeds -> SUBSET Dates]
  BY DEF TypeOK
<1>1. f \in Checked /\ raw[f] \subseteq Calendar /\ Calendar \subseteq Dates
  <2>1. f \in Checked
    BY DEF Missing
  <2>. QED
    BY <1>0, <2>1 DEF Calendar, Checked
<1>2. /\ Calendar \in SUBSET Nat /\ IsFiniteSet(Calendar)
      /\ raw[f] \in SUBSET Nat /\ IsFiniteSet(raw[f])
  BY <1>1, DatesAreNumbers
<1>3. \A e : /\ Newer(raw[f], e) <= Newer(Calendar, e)
             /\ Newer(raw[f], e) \in Nat /\ Newer(Calendar, e) \in Nat
  BY <1>1, <1>2, AboveGrows
<1>4. \A e \in Expected(f) : e \in Dates /\ Newer(Calendar, e) < KeepDays
  BY <1>1 DEF Expected, Window, Newest
<1>5. d \notin raw[f] => KeepDays <= Newer(raw[f], d)
  BY DEF Trimmed
<1>6. CASE f \in Daily
  <2>1. d \in Expected(f) /\ d \notin raw[f]
    BY <1>1, <1>6, FeedMonitorsAssumptions DEF Missing
  <2>. HIDE DEF Newer
  <2>. QED
    BY <1>3, <1>4, <1>5, <2>1, WindowsAreNumbers
<1>7. CASE f \notin Daily
  <2>1. WeekOf[d] = x /\ x \in Weeks(Expected(f)) /\ x \notin Weeks(raw[f])
    BY <1>1, <1>7 DEF Missing
  <2>2. PICK e \in Expected(f) : x = WeekOf[e]
    BY <2>1 DEF Weeks
  <2>3. d \notin raw[f] /\ e \in Dates /\ e \in Nat /\ d \in Nat
    BY <1>4, <2>1, DatesAreNumbers DEF Weeks
  <2>4. PICK y \in raw[f] : y > d /\ ~(y > e)
    <3>1. CASE \A y \in raw[f] : y > d => y > e
      <4>1. {y \in raw[f] : y > d} \in SUBSET raw[f]
        OBVIOUS
      <4>2. {y \in raw[f] : y > d} \subseteq {y \in raw[f] : y > e}
        BY <3>1
      <4>3. IsFiniteSet({y \in raw[f] : y > e})
        BY <1>2, FS_Subset
      <4>4. Newer(raw[f], d) <= Newer(raw[f], e)
        BY <4>2, <4>3, FS_Subset
      <4>. HIDE DEF Newer
      <4>. QED
        BY <1>3, <1>4, <1>5, <2>3, <4>4, WindowsAreNumbers
    <3>. QED
      BY <3>1
  <2>5. y \in Dates /\ y \in Nat /\ d <= y /\ y <= e
    BY <1>1, <1>2, <2>3, <2>4
  <2>6. /\ WeekOf[d] <= WeekOf[y] /\ WeekOf[y] <= WeekOf[e]
        /\ WeekOf[d] \in Nat /\ WeekOf[y] \in Nat /\ WeekOf[e] \in Nat
    BY <2>3, <2>5, FeedMonitorsAssumptions
  <2>7. WeekOf[y] = x
    BY <2>1, <2>2, <2>6
  <2>. QED
    BY <2>1, <2>7 DEF Weeks
<1>. QED
  BY <1>6, <1>7

\* A date or week the completeness check calls missing was never ingested: not
\* one that retention expired, whichever tables can be read and wherever the
\* trim of the tables has got to (completeness.find_gaps).
THEOREM GapsAreRealAlways == Spec => []GapsAreReal
<1>1. Init => TypeOK /\ Trimmed
  BY InitTypes, InitTrimmed
<1>2. TypeOK /\ Trimmed /\ [Next]_vars => (TypeOK /\ Trimmed)'
  BY StepTypes, StepTrimmed
<1>. QED
  BY <1>1, <1>2, TrimmedGaps, PTL DEF Spec

\* No run, and so nothing recorded, before the metadata database has a schema.
NothingYet == listing = "no_schema" => run.pc = "none" /\ recorded = {}

LEMMA InitNothing == Init => NothingYet
BY DEF Init, WatchInit, NothingYet

LEMMA StepNothing == TypeOK /\ NothingYet /\ [Next]_vars => NothingYet'
<1>. SUFFICES ASSUME TypeOK, NothingYet, [Next]_vars, listing' = "no_schema"
              PROVE  run'.pc = "none" /\ recorded' = {}
  BY DEF NothingYet
<1>1. CASE UNCHANGED watchVars
  BY <1>1 DEF NothingYet, watchVars
<1>2. CASE TrimStep
  BY <1>2 DEF TrimStep, TablesTrimmed, Working, NothingYet
<1>3. CASE NightStep
  <2>1. CASE StartRun
    BY <2>1 DEF StartRun, Due, Scheduling
  <2>2. CASE RunFails \/ Wedge \/ Sweep \/ DeferredDeletes \/ Report
    BY <2>2 DEF RunFails, Wedge, Sweep, DeferredDeletes, Report, Working, NothingYet
  <2>3. CASE Unwedge
    <3>1. run' = Ended /\ UNCHANGED <<recorded, listing>>
      BY <2>3 DEF Unwedge
    <3>2. Ended.pc = "none"
      <4>1. run \in [pc : {"none", "sweep", "deletes", "rows", "report"}, night : Nat,
                     start : 0 .. now, stuck : BOOLEAN, error : BOOLEAN] /\ 0 \in 0 .. now
        BY WindowsAreNumbers DEF TypeOK
      <4>. QED
        BY <4>1, EndedIs
    <3>. QED
      BY <3>1, <3>2 DEF NothingYet
  <2>4. CASE Migrated \/ Parsed \/ Unparsed
    BY <2>4 DEF Migrated, Parsed, Unparsed
  <2>5. CASE TablesLost \/ Pause \/ Unpause
    BY <2>5 DEF TablesLost, Pause, Unpause, NothingYet
  <2>6. CASE \E db \in {"metadata", "gc"} : Outage(db) \/ Restored(db)
    BY <2>6 DEF Outage, Restored, NothingYet
  <2>. QED
    BY <1>3, <2>1, <2>2, <2>3, <2>4, <2>5, <2>6 DEF NightStep
<1>. QED
  BY <1>1, <1>2, <1>3 DEF Next, vars, watchVars

\* No alert, and so nothing has waited to be deleted for longer than the
\* review window and the age allowed to the last success: the freshness check
\* stops where the backlog's, which waits for a success, begins, and the one
\* state in which neither is asked, a metadata database without a schema, is
\* one in which no night has recorded anything
\* (watchdog.check_orchestrator, check_deferred_backlog).
THEOREM SilenceIsReclaimed == Spec => []SilenceMeansReclaimed
<1>1. TypeOK /\ NothingYet => SilenceMeansReclaimed
  <2>. SUFFICES ASSUME TypeOK, NothingYet, ~Alerting, NEW t \in recorded
                PROVE  now - t <= review + MaxAgeTicks
    BY DEF SilenceMeansReclaimed
  <2>1. Reached /\ listing # "absent" /\ Overdue = {} /\ ~(Listed /\ Stale)
    BY DEF Alerting, Alerts, OrchestratorAlerts, BacklogAlerts
  <2>2. Listed
    BY <2>1 DEF Listed, NothingYet, TypeOK
  <2>3. /\ Succeeded /\ now - lastSuccess <= MaxAgeTicks /\ now \in Nat /\ review \in Nat
        /\ t \in 0 .. now /\ lastSuccess \in 0 .. now
    BY <2>1, <2>2, WindowsAreNumbers DEF Stale, Succeeded, TypeOK
  <2>4. ~(now - t > review) \/ ~(lastSuccess > t + review)
    BY <2>1, <2>2, <2>3 DEF Overdue, KnownSuccess
  <2>. QED
    BY <2>3, <2>4, WindowsAreNumbers
<1>. QED
  BY <1>1, InitTypes, StepTypes, InitNothing, StepNothing, PTL DEF Spec

-----------------------------------------------------------------------------
(* What was said stands. *)

\* What a step leaves of a feed's date: it stays committed, a Transport that
\* came has come, and the first delivery is the first.
Kept(f, d) ==
  /\ <<f, d>> \in committed => <<f, d>> \in committed'
  /\ arrivals[f, d] # <<>> => arrivals'[f, d] # <<>> /\ arrivals'[f, d][1] = arrivals[f, d][1]
  /\ receipt[f, d] # "none" => receipt'[f, d] # "none"

LEMMA StepKeeps ==
  ASSUME TypeOK, [Next]_vars, NEW f \in Feeds, NEW d \in Dates
  PROVE  Kept(f, d)
<1>0. /\ arrivals \in [Feeds \X Dates -> Seq(BOOLEAN)]
      /\ receipt \in [Feeds \X Dates -> {"none", "received", "failed"}]
      /\ <<f, d>> \in Feeds \X Dates /\ coming \subseteq Dates
  BY DEF TypeOK
<1>s. ASSUME UNCHANGED <<arrivals, receipt, committed>> PROVE Kept(f, d)
  BY <1>s DEF Kept
<1>1. ASSUME NEW g \in Feeds, NEW e \in coming, Receive(g, e) \/ Fail(g, e) PROVE Kept(f, d)
  <2>1. /\ UNCHANGED <<arrivals, committed>>
        /\ \E r \in {"received", "failed"} : receipt' = [receipt EXCEPT ![<<g, e>>] = r]
    BY <1>1 DEF Receive, Fail
  <2>2. receipt[<<f, d>>] # "none" => receipt'[<<f, d>>] # "none"
    BY <1>0, <2>1
  <2>. QED
    BY <2>1, <2>2 DEF Kept
<1>2. ASSUME NEW g \in Feeds, NEW e \in coming, Arrive(g, e) PROVE Kept(f, d)
  <2>1. /\ arrivals' = [arrivals EXCEPT ![<<g, e>>] = Append(@, PastDeadline(e))]
        /\ UNCHANGED <<receipt, committed>>
    BY <1>2 DEF Arrive
  <2>2. PastDeadline(e) \in BOOLEAN /\ arrivals[<<f, d>>] \in Seq(BOOLEAN)
    BY <1>0 DEF PastDeadline
  <2>3. CASE <<g, e>> = <<f, d>>
    <3>1. arrivals'[<<f, d>>] = Append(arrivals[<<f, d>>], PastDeadline(e))
      BY <1>0, <2>1, <2>3
    <3>2. ASSUME arrivals[<<f, d>>] # <<>>
          PROVE  arrivals'[<<f, d>>] # <<>> /\ arrivals'[<<f, d>>][1] = arrivals[<<f, d>>][1]
      <4>1. Len(arrivals[<<f, d>>]) \in Nat /\ Len(arrivals[<<f, d>>]) # 0
        BY <2>2, <3>2, EmptySeq, LenProperties
      <4>2. 1 \in 1 .. Len(arrivals[<<f, d>>])
        BY <4>1
      <4>3. /\ Append(arrivals[<<f, d>>], PastDeadline(e)) # <<>>
            /\ Append(arrivals[<<f, d>>], PastDeadline(e))[1] = arrivals[<<f, d>>][1]
        BY <2>2, <4>2, AppendProperties
      <4>. QED
        BY <3>1, <4>3
    <3>. QED
      BY <2>1, <3>2 DEF Kept
  <2>4. CASE <<g, e>> # <<f, d>>
    <3>1. arrivals'[<<f, d>>] = arrivals[<<f, d>>]
      BY <1>0, <2>1, <2>4
    <3>. QED
      BY <2>1, <3>1 DEF Kept
  <2>. QED
    BY <2>3, <2>4
<1>3. ASSUME NEW g \in Feeds, NEW e \in coming, Ingested(g, e) PROVE Kept(f, d)
  BY <1>3 DEF Ingested, Kept
<1>4. ASSUME NEW g \in Feeds, Break(g) \/ Mend(g) PROVE Kept(f, d)
  BY <1>4, <1>s DEF Break, Mend
<1>5. CASE FeedStep
  BY <1>1, <1>2, <1>3, <1>4, <1>5 DEF FeedStep
<1>6. CASE TrimStep
  BY <1>6, <1>s DEF TrimStep, Trim
<1>7. CASE UNCHANGED feedVars
  BY <1>7, <1>s DEF feedVars
<1>. QED
  BY <1>5, <1>6, <1>7 DEF Next, vars

LEMMA KeptStands ==
  ASSUME TypeOK, TypeOK', NEW f \in Daily, NEW d \in Dates, Kept(f, d)
  PROVE  Stands(f, d)
<1>0. /\ f \in Feeds /\ <<f, d>> \in Feeds \X Dates
      /\ receipt[<<f, d>>] \in {"none", "received", "failed"}
      /\ receipt'[<<f, d>>] \in {"none", "received", "failed"}
  BY DEF TypeOK, Feeds
<1>1. Status(f, d) = UnderWay(f, d) /\ Status(f, d)' = UnderWay(f, d)'
  BY DEF Status, IsExpected
<1>2. /\ Awaited(f, d) \in {"FAILED", "RECEIVED", "MISSING", "WAITING"}
      /\ (Awaited(f, d) \in {"FAILED", "RECEIVED"}) <=> receipt[<<f, d>>] # "none"
  BY <1>0 DEF Awaited
<1>3. /\ Awaited(f, d)' \in {"FAILED", "RECEIVED", "MISSING", "WAITING"}
      /\ (Awaited(f, d)' \in {"FAILED", "RECEIVED"}) <=> receipt'[<<f, d>>] # "none"
  BY <1>0 DEF Awaited
<1>4. UnderWay(f, d) = "COMPLETE" => UnderWay(f, d)' = "COMPLETE"
  BY <1>2 DEF UnderWay, Kept
<1>5. UnderWay(f, d) \in Settled => UnderWay(f, d)' \in Settled
  BY <1>2 DEF UnderWay, Kept, Settled
<1>6. UnderWay(f, d) \in {"RECEIVED", "FAILED"} => UnderWay(f, d)' \notin {"WAITING", "MISSING"}
  BY <1>2, <1>3 DEF UnderWay, Kept
<1>7. d \in Delivered(f) /\ ~ArrivedLate(f, d) => (d \notin Late(f))'
  BY DEF Delivered, ArrivedLate, Late, Kept
<1>. QED
  BY <1>1, <1>4, <1>5, <1>6, <1>7 DEF Stands

\* What the monitors said in favour of a daily feed's date stands: complete
\* stays complete, what arrived is not WAITING, MISSING or FAILED again, and
\* what came in time is never late (feed_status.status_of, lateness.run).
THEOREM VerdictsStandAlways == Spec => VerdictsStand
<1>1. TypeOK /\ TypeOK' /\ [Next]_vars => [\A f \in Daily, d \in Dates : Stands(f, d)]_vars
  <2>. SUFFICES ASSUME TypeOK, TypeOK', [Next]_vars, NEW f \in Daily, NEW d \in Dates
                PROVE  Stands(f, d)
    OBVIOUS
  <2>1. f \in Feeds
    BY DEF Feeds
  <2>. QED
    BY <2>1, StepKeeps, KeptStands
<1>. QED
  BY <1>1, TypeCorrect, PTL DEF Spec, VerdictsStand

-----------------------------------------------------------------------------
(* Alarms. *)

\* A success is no older than a day and a run, and a run that goes well is not
\* taken for one that hangs, as with the code's 48 and 6 hours.
RunsAreShort == Day + RunTicks <= MaxAgeTicks /\ RunTicks <= StaleTicks

\* When the run for a night is scheduled.
Scheduled(n) == Day * n - 1

\* Nights that go well: nothing runs before the DAG is listed; a run ends in
\* its time; and once one has succeeded the next starts within a day of it.
OnTime ==
  /\ down = {} /\ ~run.stuck /\ ~run.error /\ listing # "inactive"
  /\ listing # "active" => run.pc = "none" /\ ~Succeeded
  /\ Succeeded => ~paused /\ tables
  /\ run.pc = "none" /\ Succeeded =>
       /\ Scheduled(run.night) <= lastSuccess
       /\ now <= lastSuccess \/ now <= Scheduled(run.night + 1)
  /\ run.pc # "none" =>
       /\ ~paused /\ (run.pc # "sweep" => tables)
       /\ Scheduled(run.night) <= run.start /\ run.start <= now /\ now <= run.start + RunTicks
       /\ Succeeded => run.start <= lastSuccess + Day

\* What a run's pass leaves was not of age when the run began, and so what is
\* there had not come of age when the last success began.
DeletedInTime ==
  /\ run.pc \in {"rows", "report"} => \A t \in recorded : run.start <= t + review
  /\ Succeeded => \A t \in recorded : lastSuccess - RunTicks <= t + review

Nominal == OnTime /\ DeletedInTime

Steps == {"none", "sweep", "deletes", "rows", "report"}

\* The types that the schedule is about.
LEMMA RunTypes ==
  TypeOK => /\ run \in [pc : Steps, night : Nat, start : 0 .. now, stuck : BOOLEAN, error : BOOLEAN]
            /\ run.night \in Nat /\ run.start \in Nat /\ run.start <= now /\ now \in Nat
            /\ lastSuccess \in Int /\ lastSuccess <= now /\ faults \in Nat
            /\ review \in Nat /\ recorded \subseteq Nat
<1>. SUFFICES ASSUME TypeOK
              PROVE  /\ run \in [pc : Steps, night : Nat, start : 0 .. now, stuck : BOOLEAN,
                                 error : BOOLEAN]
                     /\ run.night \in Nat /\ run.start \in Nat /\ run.start <= now
                     /\ now \in Nat /\ lastSuccess \in Int /\ lastSuccess <= now
                     /\ faults \in Nat /\ review \in Nat /\ recorded \subseteq Nat
  OBVIOUS
<1>1. /\ now \in Nat /\ faults \in Nat /\ review \in Nat /\ recorded \subseteq 0 .. now
      /\ lastSuccess \in 0 .. now \union {-1}
  BY WindowsAreNumbers DEF TypeOK, NotYet
<1>2. run \in [pc : Steps, night : Nat, start : 0 .. now, stuck : BOOLEAN, error : BOOLEAN]
  BY DEF TypeOK, Steps
<1>3. run.night \in Nat /\ run.start \in 0 .. now
  BY <1>2
<1>. QED
  BY <1>1, <1>2, <1>3

LEMMA InitNominal == Init => Nominal
<1>. SUFFICES ASSUME Init PROVE Nominal
  OBVIOUS
<1>1. PICK s \in Scenarios : WatchInit(s.fresh)
  BY DEF Init
<1>2. now \in Nat /\ now % 4 = 3 /\ s.fresh \in BOOLEAN
  BY MonitoringAssumptions, WindowsAreNumbers DEF Init, Day
<1>3. /\ run.pc = "none" /\ run.night = ((now + 1) \div 4) - 1
      /\ ~run.stuck /\ ~run.error
      /\ recorded = {} /\ paused = FALSE /\ down = {}
  BY <1>1 DEF WatchInit, Nights, Day
<1>4. now = 4 * run.night + 3 /\ run.night \in Int
  BY <1>2, <1>3
<1>5. CASE s.fresh
  <2>1. lastSuccess = NotYet
    BY <1>1, <1>5 DEF WatchInit
  <2>. QED
    BY <1>3, <2>1, <1>1, <1>5 DEF OnTime, Succeeded, WatchInit, DeletedInTime, Nominal
<1>6. CASE ~s.fresh
  <2>1. lastSuccess = now - 4 + 1
    BY <1>1, <1>6 DEF WatchInit, Day
  <2>2. listing = "active" /\ tables
    BY <1>1, <1>6, Zenon DEF WatchInit
  <2>3. Scheduled(run.night) = 4 * run.night - 1 /\ Scheduled(run.night + 1) = 4 * (run.night + 1) - 1
    BY DEF Scheduled, Day
  <2>4. Scheduled(run.night) <= lastSuccess /\ now <= Scheduled(run.night + 1)
    BY <1>2, <1>4, <2>1, <2>3
  <2>5. OnTime
    BY <1>3, <2>2, <2>4 DEF OnTime
  <2>. QED
    BY <1>3, <2>5 DEF Nominal, DeletedInTime
<1>. QED
  BY <1>5, <1>6

\* A run starts within a day of the last.
LEMMA StartNominal == ASSUME TypeOK, Nominal, StartRun, now' = now PROVE Nominal'
<1>0. /\ run \in [pc : Steps, night : Nat, start : 0 .. now, stuck : BOOLEAN, error : BOOLEAN]
      /\ run.night \in Nat /\ now \in Nat /\ lastSuccess \in Int
  BY RunTypes
<1>1. /\ run.pc = "none" /\ listing = "active" /\ ~paused
      /\ run' = [run EXCEPT !.pc = "sweep", !.night = Nights, !.start = now]
      /\ UNCHANGED <<lastSuccess, recorded, tables, listing, paused, down, faults, review>>
  BY DEF StartRun, Due, Scheduling
<1>2. 4 * Nights - 1 <= now /\ Nights \in Nat /\ 0 \in 0 .. now /\ now \in 0 .. now
  BY <1>0 DEF Nights, Day
<1>3. Succeeded => now <= lastSuccess + 4
  BY <1>0, <1>1 DEF Nominal, OnTime, Scheduled, Day
<1>4. /\ run'.pc = "sweep" /\ run'.night = Nights /\ run'.start = now
      /\ run'.stuck = run.stuck /\ run'.error = run.error
  BY <1>0, <1>1, <1>2
<1>5. OnTime'
  BY <1>0, <1>1, <1>2, <1>3, <1>4, WindowsAreNumbers
  DEF Nominal, OnTime, Scheduled, Day, Succeeded
<1>6. DeletedInTime'
  BY <1>1, <1>4 DEF Nominal, DeletedInTime, Succeeded
<1>. QED
  BY <1>5, <1>6 DEF Nominal

\* What the sweep records is younger than the last success.
LEMMA SweepNominal == ASSUME TypeOK, Nominal, Sweep, now' = now PROVE Nominal'
<1>0. /\ run \in [pc : Steps, night : Nat, start : 0 .. now, stuck : BOOLEAN, error : BOOLEAN]
      /\ now \in Nat /\ lastSuccess \in Int /\ lastSuccess <= now /\ review \in Nat
  BY RunTypes
<1>1. /\ run.pc = "sweep" /\ run' = [run EXCEPT !.pc = "deletes"] /\ tables' = TRUE
      /\ recorded' = recorded \union {now}
      /\ UNCHANGED <<lastSuccess, listing, paused, down, faults, review>>
  BY DEF Sweep, Working
<1>2. /\ run'.pc = "deletes" /\ run'.night = run.night /\ run'.start = run.start
      /\ run'.stuck = run.stuck /\ run'.error = run.error
  BY <1>0, <1>1
<1>3. OnTime'
  BY <1>1, <1>2 DEF Nominal, OnTime, Succeeded
<1>4. lastSuccess - RunTicks <= now + review
  BY <1>0, WindowsAreNumbers
<1>. QED
  BY <1>1, <1>2, <1>3, <1>4 DEF Nominal, DeletedInTime, Succeeded

\* What the deletes leave was not of age when the run began.
LEMMA DeletesNominal ==
  ASSUME TypeOK, Nominal, DeferredDeletes, faults' = 0, faults = 0, now' = now
  PROVE  Nominal'
<1>0. /\ run \in [pc : Steps, night : Nat, start : 0 .. now, stuck : BOOLEAN, error : BOOLEAN]
      /\ run.start \in Nat /\ run.start <= now /\ now \in Nat /\ recorded \subseteq Nat
      /\ review \in Nat
  BY RunTypes
<1>1. /\ run.pc = "deletes" /\ run' = [run EXCEPT !.pc = "rows"]
      /\ recorded' = recorded \ {t \in recorded : now - t > review}
      /\ UNCHANGED <<lastSuccess, tables, listing, paused, down, review>>
  BY DEF DeferredDeletes, Working, Fault
<1>2. /\ run'.pc = "rows" /\ run'.night = run.night /\ run'.start = run.start
      /\ run'.stuck = run.stuck /\ run'.error = run.error
  BY <1>0, <1>1
<1>3. OnTime'
  BY <1>1, <1>2 DEF Nominal, OnTime, Succeeded
<1>4. ASSUME NEW t \in recorded, ~(now - t > review) PROVE run.start <= t + review
  <2>1. t \in Nat
    BY <1>0
  <2>. QED
    BY <1>0, <1>4, <2>1
<1>5. DeletedInTime'
  BY <1>1, <1>2, <1>4 DEF Nominal, DeletedInTime, Succeeded
<1>. QED
  BY <1>3, <1>5 DEF Nominal

\* The report ends the run in its time.
LEMMA ReportNominal == ASSUME TypeOK, Nominal, Report, now' = now PROVE Nominal'
<1>0. /\ run \in [pc : Steps, night : Nat, start : 0 .. now, stuck : BOOLEAN, error : BOOLEAN]
      /\ run.night \in Nat /\ run.start \in Nat /\ now \in Nat /\ recorded \subseteq Nat
      /\ review \in Nat
  BY RunTypes
<1>1. /\ run.pc = "report" /\ run' = Ended /\ ~run.error /\ lastSuccess' = now
      /\ UNCHANGED <<recorded, tables, listing, paused, down, faults, review>>
  BY DEF Report, Working, Nominal, OnTime
<1>2. run'.pc = "none" /\ run'.night = run.night /\ ~run'.stuck /\ ~run'.error
  <2>1. "none" \in Steps /\ 0 \in 0 .. now
    BY <1>0 DEF Steps
  <2>. QED
    BY <1>0, <1>1, <2>1, EndedIs
<1>3. /\ listing = "active" /\ ~paused /\ tables /\ down = {}
      /\ Scheduled(run.night) <= run.start /\ run.start <= now /\ now <= run.start + RunTicks
  BY <1>1 DEF Nominal, OnTime
<1>4. OnTime'
  <2>1. Scheduled(run.night) <= now
    BY <1>0, <1>3 DEF Scheduled, Day
  <2>. QED
    BY <1>0, <1>1, <1>2, <1>3, <2>1 DEF OnTime, Scheduled, Day, Succeeded
<1>5. ASSUME NEW t \in recorded PROVE now - RunTicks <= t + review
  <2>1. run.start <= t + review /\ t \in Nat
    BY <1>0, <1>1 DEF Nominal, DeletedInTime
  <2>. QED
    BY <1>0, <1>3, <2>1, WindowsAreNumbers
<1>6. DeletedInTime'
  BY <1>1, <1>2, <1>5 DEF DeletedInTime
<1>. QED
  BY <1>4, <1>6 DEF Nominal

\* A new platform's DAG, before its first run.
LEMMA SetUpNominal ==
  ASSUME TypeOK, Nominal, Migrated \/ Parsed \/ Unpause, now' = now
  PROVE  Nominal'
<1>1. UNCHANGED <<run, lastSuccess, recorded, tables, down, review>>
  BY DEF Migrated, Parsed, Unpause
<1>2. CASE Migrated
  BY <1>1, <1>2 DEF Migrated, Nominal, OnTime, DeletedInTime, Succeeded
<1>3. CASE Parsed
  <2>1. listing = "absent" /\ run.pc = "none" /\ ~Succeeded
    BY <1>3 DEF Parsed, Nominal, OnTime
  <2>. QED
    BY <1>1, <1>3, <2>1 DEF Parsed, Nominal, OnTime, DeletedInTime, Succeeded
<1>4. CASE Unpause
  BY <1>1, <1>4 DEF Unpause, Nominal, OnTime, DeletedInTime, Succeeded
<1>. QED
  BY <1>2, <1>3, <1>4

\* Time passes over no run that is due and leaves none behind.
LEMMA TickNominal ==
  ASSUME TypeOK, Nominal, MayPass, now' = now + 1, UNCHANGED watchVars
  PROVE  Nominal'
<1>0. run.night \in Nat /\ run.start \in Nat /\ now \in Nat /\ lastSuccess \in Int
  BY RunTypes
<1>1. UNCHANGED <<run, lastSuccess, recorded, tables, listing, paused, down, review>>
  BY DEF watchVars
<1>2. Succeeded => listing = "active" /\ ~paused
  BY DEF Nominal, OnTime, TypeOK
<1>3. CASE run.pc = "none"
  <2>1. ASSUME Succeeded PROVE now + 1 <= Scheduled(run.night + 1)
    <3>1. ~(run.night < (now + 1) \div 4)
      BY <1>2, <1>3, <2>1 DEF MayPass, Due, Scheduling, Nights, Day
    <3>. QED
      BY <1>0, <3>1 DEF Scheduled, Day
  <2>2. OnTime'
    BY <1>1, <1>3, <2>1 DEF Nominal, OnTime, Succeeded
  <2>. QED
    BY <1>1, <2>2 DEF Nominal, DeletedInTime, Succeeded
<1>4. CASE run.pc # "none"
  <2>1. listing = "active" /\ ~paused /\ ~run.stuck
    BY <1>4 DEF Nominal, OnTime
  <2>2. now < run.start + RunTicks
    BY <1>4, <2>1 DEF MayPass, Scheduling
  <2>3. run.start <= now + 1 /\ now + 1 <= run.start + RunTicks
    BY <1>0, <1>4, <2>2, WindowsAreNumbers DEF Nominal, OnTime
  <2>4. OnTime'
    BY <1>1, <1>4, <2>3 DEF Nominal, OnTime, Succeeded
  <2>. QED
    BY <1>1, <2>4 DEF Nominal, DeletedInTime, Succeeded
<1>. QED
  BY <1>3, <1>4

\* Where nothing has gone wrong, a step leaves the nights on time.
LEMMA StepNominal ==
  ASSUME TypeOK, faults = 0 => Nominal, [Next]_vars, faults' = 0
  PROVE  Nominal'
<1>0. /\ run \in [pc : Steps, night : Nat, start : 0 .. now, stuck : BOOLEAN, error : BOOLEAN]
      /\ now \in Nat /\ faults \in Nat
  BY RunTypes
<1>f. ~Fault
  BY <1>0 DEF Fault
<1>1. CASE UNCHANGED <<now, watchVars>>
  BY <1>1 DEF watchVars, Nominal, OnTime, DeletedInTime, Succeeded
<1>2. CASE NightStep /\ UNCHANGED <<now, feedVars, coming>>
  <2>1. CASE StartRun
    BY <1>2, <2>1, StartNominal DEF StartRun
  <2>2. CASE RunFails \/ Wedge \/ Unparsed \/ TablesLost \/ Pause
    BY <1>f, <2>2 DEF RunFails, Wedge, Unparsed, TablesLost, Pause
  <2>3. CASE Unwedge
    <3>1. faults = 0 /\ run.stuck
      BY <2>3 DEF Unwedge
    <3>. QED
      BY <3>1 DEF Nominal, OnTime
  <2>4. CASE Sweep
    BY <1>2, <2>4, SweepNominal DEF Sweep
  <2>5. CASE DeferredDeletes
    <3>1. faults = 0
      BY <1>f, <2>5 DEF DeferredDeletes
    <3>. QED
      BY <1>2, <2>5, <3>1, DeletesNominal
  <2>6. CASE Report
    BY <1>2, <2>6, ReportNominal DEF Report
  <2>7. CASE Migrated \/ Parsed \/ Unpause
    <3>1. faults = 0
      BY <2>7 DEF Migrated, Parsed, Unpause
    <3>. QED
      BY <1>2, <2>7, <3>1, SetUpNominal
  <2>8. CASE \E db \in {"metadata", "gc"} : Outage(db) \/ Restored(db)
    <3>1. PICK db \in {"metadata", "gc"} : Outage(db) \/ Restored(db)
      BY <2>8
    <3>2. db \in down /\ faults = 0
      BY <1>f, <3>1 DEF Outage, Restored
    <3>. QED
      BY <3>2 DEF Nominal, OnTime
  <2>. QED
    BY <1>2, <2>1, <2>2, <2>3, <2>4, <2>5, <2>6, <2>7, <2>8 DEF NightStep
<1>3. CASE TrimStep /\ UNCHANGED <<now, coming>>
  <2>1. /\ run.pc = "rows" /\ run' = [run EXCEPT !.pc = "report"]
        /\ UNCHANGED <<faults, lastSuccess, recorded, tables, listing, paused, down, review>>
    BY <1>3, <1>f DEF TrimStep, TablesTrimmed, Working
  <2>2. /\ run'.pc = "report" /\ run'.night = run.night /\ run'.start = run.start
        /\ run'.stuck = run.stuck /\ run'.error = run.error
    BY <1>0, <2>1
  <2>3. Nominal
    BY <2>1
  <2>. QED
    BY <1>3, <2>1, <2>2, <2>3 DEF Nominal, OnTime, DeletedInTime, Succeeded
<1>4. CASE Tick /\ UNCHANGED <<feedVars, watchVars, coming>>
  BY <1>4, TickNominal DEF Tick, Passes, watchVars
<1>. QED
  BY <1>1, <1>2, <1>3, <1>4 DEF Next, vars

\* On time, there is no more to alert of than the property allows.
LEMMA NominalIsQuiet ==
  ASSUME RunsAreShort, TypeOK, Nominal
  PROVE  AlarmsAreEarned
<1>0. /\ run.night \in Nat /\ run.start \in Nat /\ now \in Nat /\ lastSuccess \in Int
      /\ recorded \subseteq Nat /\ review \in Nat
  BY RunTypes
<1>1. Reached /\ "gc" \notin down /\ listing # "inactive"
  BY DEF Nominal, OnTime, Reached
<1>2. ~Stuck
  BY <1>0, WindowsAreNumbers DEF Stuck, RunsAreShort, Nominal, OnTime
<1>3. \A t \in Overdue : Succeeded /\ t + review \in (lastSuccess - RunTicks) .. lastSuccess
  <2>. SUFFICES ASSUME NEW t \in Overdue
                PROVE  Succeeded /\ t + review \in (lastSuccess - RunTicks) .. lastSuccess
    OBVIOUS
  <2>1. t \in recorded /\ Succeeded /\ lastSuccess > t + review /\ t \in Nat
    BY <1>0 DEF Overdue, KnownSuccess
  <2>2. lastSuccess - RunTicks <= t + review
    BY <2>1 DEF Nominal, DeletedInTime
  <2>. QED
    BY <1>0, <2>1, <2>2, WindowsAreNumbers
<1>4. CASE Succeeded
  <2>1. listing = "active" /\ ~paused
    BY <1>1, <1>4 DEF Nominal, OnTime
  <2>2. now - lastSuccess <= 4 + RunTicks
    BY <1>0, <1>4, WindowsAreNumbers DEF Nominal, OnTime, Scheduled, Day
  <2>3. ~Stale
    BY <1>0, <1>4, <2>2, WindowsAreNumbers DEF Stale, RunsAreShort, Day
  <2>4. OrchestratorAlerts = {}
    BY <1>1, <1>2, <2>1, <2>3 DEF OrchestratorAlerts
  <2>. QED
    BY <1>3, <1>4, <2>4 DEF AlarmsAreEarned, Alerts, BacklogAlerts
<1>5. CASE ~Succeeded
  <2>1. BacklogAlerts = {}
    BY <1>1, <1>3, <1>5 DEF BacklogAlerts, KnownSuccess
  <2>2. OrchestratorAlerts \subseteq {"dag_present", "dag_paused", "housekeeping_freshness"}
    BY <1>1, <1>2 DEF OrchestratorAlerts
  <2>. QED
    BY <1>3, <1>5, <2>1, <2>2 DEF AlarmsAreEarned, Alerts
<1>. QED
  BY <1>4, <1>5

\* Where nothing went wrong, the watchdog says of a platform that has not
\* succeeded yet only that, and of one that has only that files are left which
\* came of age while the last run to succeed was at work: for every review
\* window, those of whole nights included (watchdog.check_orchestrator,
\* check_deferred_backlog).
THEOREM AlarmsEarned == ASSUME RunsAreShort PROVE Spec => []AlarmsAreEarned
<1>. DEFINE OnSchedule == faults = 0 => Nominal
<1>1. Init => TypeOK /\ OnSchedule
  BY InitTypes, InitNominal
<1>2. TypeOK /\ OnSchedule /\ [Next]_vars => (TypeOK /\ OnSchedule)'
  BY StepTypes, StepNominal
<1>3. TypeOK /\ OnSchedule => AlarmsAreEarned
  <2>1. CASE faults = 0
    BY <2>1, NominalIsQuiet
  <2>2. CASE faults # 0
    BY <2>2 DEF AlarmsAreEarned
  <2>. QED
    BY <2>1, <2>2
<1>. HIDE DEF OnSchedule
<1>. QED
  BY <1>1, <1>2, <1>3, PTL DEF Spec

=============================================================================
