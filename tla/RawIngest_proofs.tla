--------------------------- MODULE RawIngest_proofs ---------------------------
(***************************************************************************)
(* Proofs about RawIngest, for any tables, Deliveries, runs, pool and      *)
(* bounds: the inductive invariant IInv, the safety properties that follow *)
(* from it, and that raw ingestion implements RawLedger.                   *)
(***************************************************************************)
EXTENDS RawIngest, TLAPS

\* Raw's content is a set of batches per table, on `main` and in each commit.
LEMMA MainType ==
  ASSUME TypeOK
  PROVE  /\ Main \in [Tables -> SUBSET Batch]
         /\ Tip \in Nat
         /\ \A i \in 1 .. Tip : history[i] \in [Tables -> SUBSET Batch]
BY DEF TypeOK, Main, Tip, Empty

\* What a commit to `main` does to the catalog.
LEMMA CommitEffect ==
  ASSUME TypeOK, NEW t \in Tables, NEW content \in SUBSET Batch,
         CommitToMain(t, content)
  PROVE  /\ history' \in Seq([Tables -> SUBSET Batch])
         /\ history' # <<>>
         /\ touched' \in [Tables -> Nat]
         /\ Tip' = Tip + 1
         /\ \A i \in 1 .. Tip : history'[i] = history[i]
         /\ history'[Tip + 1] = [Main EXCEPT ![t] = content]
         /\ Main' = [Main EXCEPT ![t] = content]
         /\ touched' = [touched EXCEPT ![t] = Tip + 1]
<1>1. Main \in [Tables -> SUBSET Batch] /\ Tip \in Nat
  BY MainType
<1>2. [Main EXCEPT ![t] = content] \in [Tables -> SUBSET Batch]
  BY <1>1
<1>3. history \in Seq([Tables -> SUBSET Batch]) /\ touched \in [Tables -> Nat]
  BY DEF TypeOK
<1>4. history' = Append(history, [Main EXCEPT ![t] = content])
  BY DEF CommitToMain
<1>5. /\ history' \in Seq([Tables -> SUBSET Batch])
      /\ Len(history') = Len(history) + 1
      /\ \A i \in 1 .. Len(history) : history'[i] = history[i]
      /\ history'[Len(history) + 1] = [Main EXCEPT ![t] = content]
  BY <1>2, <1>3, <1>4
<1>6. history' # <<>>
  BY <1>3, <1>5
<1>7. Main' = history'[Len(history')]
  BY <1>6 DEF Main
<1>8. touched' = [touched EXCEPT ![t] = Tip + 1]
  BY DEF CommitToMain
<1>. QED
  BY <1>1, <1>3, <1>5, <1>6, <1>7, <1>8 DEF Tip

\* Init establishes the invariant.
LEMMA InitIInv == ASSUME Init PROVE IInv
<1>. USE RawAssumptions DEF Init
<1>1. TypeOK
  BY DEF TypeOK, Labels, Writing
<1>2. KeysSane
  BY DEF KeysSane, Main, Empty
<1>3. \A r \in Runs : RunInv(r)
  BY DEF RunInv, RunIsSane, BranchIsFresh, AppendIsNewest, MergeIsOwn, NoopIsTrue,
         Booted
<1>4. HistoryInv
  BY DEF HistoryInv, VersionsUnique, LaterIsNewer, NothingRefusedOnMain,
         BatchesAtHome, Tip
<1>5. PoolInv
  BY DEF PoolInv, SlotIsExclusive, LedgerStaysTrue, DeliveredOnce, Tip, Writing
<1>6. TagNamesOwnMerge /\ CommittedIsTrue
  BY DEF TagNamesOwnMerge, CommittedIsTrue
<1>. QED
  BY <1>1, <1>2, <1>3, <1>4, <1>5, <1>6 DEF IInv

-----------------------------------------------------------------------------
\* A commit made by a step leaves the catalog well typed; what it writes is
\* rows of some table.
LEMMA CatalogType ==
  ASSUME TypeOK, NEW t \in Tables, NEW content \in SUBSET Batch,
         CommitToMain(t, content) \/ UNCHANGED catalog
  PROVE  /\ history' \in Seq([Tables -> SUBSET Batch])
         /\ touched' \in [Tables -> Nat]
<1>1. CASE CommitToMain(t, content)
  BY <1>1, CommitEffect
<1>2. CASE UNCHANGED catalog
  BY <1>2 DEF catalog, TypeOK
<1>. QED
  BY <1>1, <1>2

\* The identity of a try that has begun, and the types of what a run is about.
LEMMA RunTypes ==
  ASSUME TypeOK, NEW r \in Runs, RunIsSane(r)
  PROVE  /\ Table(r) \in Tables
         /\ Delivery(r) \in Deliveries
         /\ CobDateOf[Delivery(r)] \in Dates
         /\ pc[r] # "idle" => <<r, tries[r]>> \in Attempts
BY RawAssumptions DEF TypeOK, RunIsSane, Table, Delivery, Attempts

\* The version a try records is the one its batch has, in the commit its merge
\* made.
LEMMA WrittenIsOwn ==
  ASSUME TypeOK, NEW r \in Runs, MergeIsOwn(r), pc[r] \in {"drop", "record"}
  PROVE  /\ Written(r) \in Versions
         /\ made[r] \in 1 .. Tip
         /\ \E b \in history[made[r]][Table(r)] :
              /\ b.delivery = Delivery(r)
              /\ b.version = Written(r)
<1>1. PICK b \in view[r] : IsOwn(b, r)
  BY DEF MergeIsOwn
<1>2. b \in Batch
  BY DEF TypeOK
<1>3. b = [delivery |-> Delivery(r), version |-> b.version,
           attempt |-> <<r, tries[r]>>]
  BY <1>1, <1>2 DEF Batch, IsOwn
<1>4. b.version \in Versions
  BY <1>2 DEF Batch
<1>5. /\ Written(r) \in Versions
      /\ [delivery |-> Delivery(r), version |-> Written(r),
          attempt |-> <<r, tries[r]>>] \in view[r]
  BY <1>1, <1>3, <1>4 DEF Written
<1>6. /\ made[r] \in 1 .. Tip
      /\ view[r] = history[made[r]][Table(r)]
  BY DEF MergeIsOwn, Tip, TypeOK
<1>. QED
  BY <1>5, <1>6

\* Every step of a run keeps the types.
LEMMA RunType ==
  ASSUME IInv, NEW r \in Runs, Step(r) \/ Failure(r)
  PROVE  TypeOK'
<1>. USE DEF Goto, catalog, local, bounds, Fault
<1>0. TypeOK /\ RunIsSane(r) /\ MergeIsOwn(r)
  BY DEF IInv, RunInv
<1>t. /\ Table(r) \in Tables
      /\ Delivery(r) \in Deliveries
      /\ pc[r] # "idle" => <<r, tries[r]>> \in Attempts
  BY <1>0, RunTypes
<1>m. Main[Table(r)] \in SUBSET Batch /\ Tip \in Nat /\ {} \in SUBSET Batch
  BY <1>0, <1>t, MainType
<1>1. CASE Begin(r)
  BY <1>0, <1>1, RawAssumptions DEF TypeOK, Begin, TriesOf, Labels, Writing
<1>2. CASE ReadHistory(r)
  BY <1>0, <1>2 DEF TypeOK, ReadHistory, Labels, Writing
<1>3. CASE Bootstrap(r)
  <2>1. CommitToMain(Table(r), {}) \/ UNCHANGED catalog
    BY <1>3 DEF Bootstrap
  <2>2. /\ history' \in Seq([Tables -> SUBSET Batch])
        /\ touched' \in [Tables -> Nat]
    BY <1>0, <1>t, <1>m, <2>1, CatalogType
  <2>. QED
    BY <1>0, <1>3, <2>2 DEF TypeOK, Bootstrap, Labels, Writing
<1>4. CASE CheckLedger(r)
  BY <1>0, <1>4 DEF TypeOK, CheckLedger, Labels, Writing
<1>5. CASE CutBranch(r)
  BY <1>0, <1>t, <1>m, <1>5 DEF TypeOK, CutBranch, BranchName, Labels, Writing
<1>6. CASE Refuse(r)
  BY <1>0, <1>6 DEF TypeOK, Refuse, Labels, Writing
<1>7. CASE AppendRows(r)
  <2>1. PICK v \in Versions :
          view' = [view EXCEPT ![r] = @ \union
                     {[delivery |-> Delivery(r), version |-> v,
                       attempt |-> <<r, tries[r]>>]}]
    BY <1>7 DEF AppendRows
  <2>2. [delivery |-> Delivery(r), version |-> v, attempt |-> <<r, tries[r]>>]
          \in Batch
    BY <1>t, <1>7 DEF Batch, AppendRows
  <2>3. view' \in [Runs -> SUBSET Batch]
    BY <1>0, <2>1, <2>2 DEF TypeOK
  <2>. QED
    BY <1>0, <1>7, <2>3 DEF TypeOK, AppendRows, Labels, Writing
<1>8. CASE MergeRefused(r)
  BY <1>0, <1>8 DEF TypeOK, MergeRefused, Labels, Writing
<1>9. CASE Merge(r) \/ MergeReplyLost(r)
  <2>1. CommitToMain(Table(r), view[r])
    BY <1>9 DEF Merge, MergeReplyLost
  <2>2. /\ history' \in Seq([Tables -> SUBSET Batch])
        /\ touched' \in [Tables -> Nat]
    BY <1>0, <1>t, <2>1, CatalogType DEF TypeOK
  <2>3. made \in [Runs -> Nat] /\ Tip + 1 \in Nat
    BY <1>0, <1>m DEF TypeOK
  <2>4. CASE Merge(r)
    <3>1. made' \in [Runs -> Nat]
      BY <2>3, <2>4 DEF Merge
    <3>. QED
      BY <1>0, <2>2, <2>4, <3>1 DEF TypeOK, Merge, Labels, Writing
  <2>5. CASE MergeReplyLost(r)
    BY <1>0, <2>2, <2>5, RawAssumptions
       DEF TypeOK, MergeReplyLost, Labels, Writing
  <2>. QED
    BY <1>9, <2>4, <2>5
<1>10. CASE DropBranch(r)
  BY <1>0, <1>10 DEF TypeOK, DropBranch, Labels, Writing
<1>11. CASE RecordCommitted(r)
  <2>1. Written(r) \in Versions
    BY <1>0, <1>11, WrittenIsOwn DEF RecordCommitted
  <2>2. committed' \subseteq [delivery: Deliveries, version: Versions \union {0}]
    BY <1>0, <1>t, <1>11, <2>1 DEF TypeOK, RecordCommitted, Insert
  <2>. QED
    BY <1>0, <1>11, <2>2 DEF TypeOK, RecordCommitted, Labels, Writing
<1>12. CASE RecordNoop(r)
  <2>1. committed' \subseteq [delivery: Deliveries, version: Versions \union {0}]
    BY <1>0, <1>t, <1>12 DEF TypeOK, RecordNoop, Insert
  <2>. QED
    BY <1>0, <1>12, <2>1 DEF TypeOK, RecordNoop, Labels, Writing
<1>13. CASE Pin(r)
  <2>1. [attempt |-> <<r, tries[r]>>, commit |-> made[r]]
          \in [attempt: Attempts, commit: Nat]
    BY <1>0, <1>t, <1>13 DEF TypeOK, Pin
  <2>2. tags' \subseteq [attempt: Attempts, commit: Nat]
    BY <1>0, <1>13, <2>1 DEF TypeOK, Pin, PinnedCommit
  <2>. QED
    BY <1>0, <1>13, <2>2 DEF TypeOK, Pin, Labels, Writing
<1>14. CASE DropFails(r) \/ RecordLost(r) \/ NoopLost(r) \/ PinLost(r) \/ Crash(r)
  <2>1. /\ pc' = [pc EXCEPT ![r] = "failed"] \/ pc' = [pc EXCEPT ![r] = "pin"]
             \/ pc' = [pc EXCEPT ![r] = "done"]
        /\ Fault
        /\ UNCHANGED <<catalog, branches, tags, committed, tries, local, made>>
    BY <1>14 DEF DropFails, RecordLost, NoopLost, PinLost, Crash
  <2>2. pc' \in [Runs -> Labels]
    BY <1>0, <2>1 DEF TypeOK, Labels, Writing
  <2>3. faults' \in 0 .. MaxFaults /\ chores' \in 0 .. MaxChores
    BY <1>0, <2>1, RawAssumptions DEF TypeOK
  <2>. QED
    BY <1>0, <2>1, <2>2, <2>3 DEF TypeOK
<1>. QED
  BY <1>1, <1>2, <1>3, <1>4, <1>5, <1>6, <1>7, <1>8, <1>9, <1>10, <1>11, <1>12,
     <1>13, <1>14 DEF Step, Failure

\* Housekeeping keeps the types.
LEMMA ChoreType ==
  ASSUME IInv, Housekeeping
  PROVE  TypeOK'
<1>. USE DEF Chore, catalog, local, bounds
<1>0. TypeOK
  BY DEF IInv
<1>1. ASSUME NEW t \in Tables, NEW content \in SUBSET Batch,
             CommitToMain(t, content), Chore
      PROVE  TypeOK'
  <2>1. /\ history' \in Seq([Tables -> SUBSET Batch])
        /\ touched' \in [Tables -> Nat]
    BY <1>0, <1>1, CatalogType
  <2>. QED
    BY <1>0, <1>1, <2>1, RawAssumptions DEF TypeOK
<1>2. CASE \E t \in Tables, gone \in SUBSET Dates : Expire(t, gone)
  <2>1. PICK t \in Tables, gone \in SUBSET Dates : Expire(t, gone)
    BY <1>2
  <2>2. {b \in Main[t] : CobDate(b) \notin gone} \in SUBSET Batch
    BY <1>0, MainType
  <2>. QED
    BY <1>1, <2>1, <2>2 DEF Expire
<1>3. CASE \E t \in Tables : Touch(t)
  BY <1>0, <1>1, <1>3, MainType DEF Touch
<1>4. CASE \E t \in Tables : ReconcileCommitted(t)
  <2>1. PICK t \in Tables : ReconcileCommitted(t)
    BY <1>4
  <2>2. \A b \in Main[t] : [delivery |-> b.delivery, version |-> b.version]
          \in [delivery: Deliveries, version: Versions \union {0}]
    BY <1>0, MainType DEF Batch
  <2>3. committed' \subseteq [delivery: Deliveries, version: Versions \union {0}]
    BY <1>0, <2>1, <2>2 DEF TypeOK, ReconcileCommitted
  <2>. QED
    BY <1>0, <2>1, <2>3 DEF TypeOK, ReconcileCommitted
<1>. QED
  BY <1>2, <1>3, <1>4 DEF Housekeeping

-----------------------------------------------------------------------------
\* What a step that commits to `main`, or leaves it alone, does to a run it is
\* not a step of: nothing that run relies on.
LEMMA RunFrame ==
  ASSUME TypeOK, NEW q \in Runs, RunInv(q),
         NEW t \in Tables, NEW content \in SUBSET Batch,
         CommitToMain(t, content) \/ UNCHANGED catalog,
         pc'[q] = pc[q], tries'[q] = tries[q], base'[q] = base[q],
         view'[q] = view[q], made'[q] = made[q]
  PROVE  RunInv(q)'
<1>1. CASE UNCHANGED catalog
  BY <1>1 DEF RunInv, RunIsSane, BranchIsFresh, AppendIsNewest, MergeIsOwn,
              NoopIsTrue, IsOwn, NewerThanAll, Main, catalog
<1>2. CASE CommitToMain(t, content)
  <2>0. /\ Tip \in Nat /\ Tip = Len(history) /\ Tip' = Len(history')
        /\ touched \in [Tables -> Nat]
        /\ Main \in [Tables -> SUBSET Batch]
        /\ base[q] \in Nat
        /\ Table(q) \in Tables
    BY MainType, RawAssumptions DEF TypeOK, Tip, Table
  <2>1. /\ Tip' = Tip + 1
        /\ \A i \in 1 .. Tip : history'[i] = history[i]
        /\ Main' = [Main EXCEPT ![t] = content]
        /\ touched' = [touched EXCEPT ![t] = Tip + 1]
        /\ history' # <<>>
    BY <1>2, CommitEffect
  <2>2. RunIsSane(q)'
    BY <2>1 DEF RunInv, RunIsSane
  <2>3. base[q] <= Tip /\ touched'[Table(q)] <= base[q] =>
          /\ touched[Table(q)] <= base[q]
          /\ Main'[Table(q)] = Main[Table(q)]
    BY <2>0, <2>1
  <2>4. BranchIsFresh(q)'
    BY <2>0, <2>1, <2>3 DEF RunInv, BranchIsFresh
  <2>5. AppendIsNewest(q)'
    <3>. SUFFICES ASSUME pc[q] = "merge"
                  PROVE  /\ base[q] <= Tip'
                         /\ Delivery(q) \notin Bad
                         /\ \E b \in view[q] :
                              /\ IsOwn(b, q)
                              /\ NewerThanAll(b, view[q] \ {b})
                              /\ touched'[Table(q)] <= base[q] =>
                                   view[q] \ {b} = Main'[Table(q)]
      BY <2>0 DEF AppendIsNewest, IsOwn, NewerThanAll
    <3>1. /\ base[q] <= Tip
          /\ Delivery(q) \notin Bad
      BY <2>0 DEF RunInv, AppendIsNewest
    <3>2. PICK b \in view[q] : /\ IsOwn(b, q)
                               /\ NewerThanAll(b, view[q] \ {b})
                               /\ touched[Table(q)] <= base[q] =>
                                    view[q] \ {b} = Main[Table(q)]
      BY DEF RunInv, AppendIsNewest
    <3>3. base[q] <= Tip'
      BY <2>0, <2>1, <3>1
    <3>4. touched'[Table(q)] <= base[q] => view[q] \ {b} = Main'[Table(q)]
      BY <2>3, <3>1, <3>2
    <3>. QED
      BY <3>1, <3>2, <3>3, <3>4
  <2>6. MergeIsOwn(q)'
    <3>. SUFFICES ASSUME pc[q] \in {"drop", "record", "pin"}
                  PROVE  /\ made[q] \in 2 .. Tip'
                         /\ \E b \in view[q] :
                              /\ IsOwn(b, q)
                              /\ b \in history'[made[q]][Table(q)]
                                       \ history'[made[q] - 1][Table(q)]
                         /\ view[q] = history'[made[q]][Table(q)]
      BY <2>0 DEF MergeIsOwn, IsOwn
    <3>1. made[q] \in 2 .. Tip
      BY <2>0 DEF RunInv, MergeIsOwn
    <3>2. /\ history'[made[q]] = history[made[q]]
          /\ history'[made[q] - 1] = history[made[q] - 1]
      BY <2>0, <2>1, <3>1
    <3>. QED
      BY <2>0, <2>1, <3>1, <3>2 DEF RunInv, MergeIsOwn
  <2>7. NoopIsTrue(q)'
    <3>. SUFFICES ASSUME pc[q] = "noop"
                  PROVE  \E i \in 1 .. Tip' : \E b \in history'[i][Table(q)] :
                           b.delivery = Delivery(q)
      BY <2>0 DEF NoopIsTrue
    <3>1. PICK i \in 1 .. Tip : \E b \in history[i][Table(q)] :
                                  b.delivery = Delivery(q)
      BY <2>0 DEF RunInv, NoopIsTrue
    <3>2. i \in 1 .. Tip' /\ history'[i] = history[i]
      BY <2>0, <2>1
    <3>. QED
      BY <3>1, <3>2
  <2>. QED
    BY <2>2, <2>4, <2>5, <2>6, <2>7 DEF RunInv
<1>. QED
  BY <1>1, <1>2

\* What holds of every commit holds of what `main` shows.
LEMMA MainInherits ==
  ASSUME TypeOK, HistoryInv, NEW t \in Tables
  PROVE  /\ \A b, c \in Main[t] :
              CobDate(b) = CobDate(c) /\ b.version = c.version => b = c
         /\ \A b \in Main[t] : b.delivery \notin Bad /\ TableOf[b.delivery] = t
         /\ \A b \in Main[t] : \E i \in 1 .. Tip : b \in history[i][t]
<1>1. CASE history = <<>>
  BY <1>1 DEF Main, Empty
<1>2. CASE history # <<>>
  <2>1. Tip \in 1 .. Tip /\ Main = history[Tip]
    BY <1>2 DEF TypeOK, Main, Tip
  <2>. QED
    BY <2>1 DEF HistoryInv, VersionsUnique, NothingRefusedOnMain, BatchesAtHome
<1>. QED
  BY <1>1, <1>2

\* A commit whose rows are as they should be keeps the history as it should be.
LEMMA HistoryFrame ==
  ASSUME TypeOK, KeysSane, HistoryInv,
         NEW t \in Tables, NEW content \in SUBSET Batch, CommitToMain(t, content),
         \A b, c \in content :
           CobDate(b) = CobDate(c) /\ b.version = c.version => b = c,
         \A b \in content \ Main[t], c \in Main[t] :
           CobDate(b) = CobDate(c) => b.version > c.version,
         \A b \in content : b.delivery \notin Bad /\ TableOf[b.delivery] = t
  PROVE  HistoryInv' /\ KeysSane'
<1>0. /\ Tip \in Nat /\ Tip = Len(history) /\ Tip' = Len(history')
      /\ touched \in [Tables -> Nat]
      /\ Main \in [Tables -> SUBSET Batch]
      /\ Tip > 0 => Main = history[Tip]
  BY MainType DEF TypeOK, Tip, Main
<1>1. /\ Tip' = Tip + 1
      /\ \A i \in 1 .. Tip : history'[i] = history[i]
      /\ history'[Tip + 1] = [Main EXCEPT ![t] = content]
      /\ Main' = [Main EXCEPT ![t] = content]
      /\ touched' = [touched EXCEPT ![t] = Tip + 1]
  BY CommitEffect
<1>2. \A u \in Tables : history'[Tip + 1][u] = IF u = t THEN content ELSE Main[u]
  BY <1>0, <1>1
<1>3. VersionsUnique'
  <2>. SUFFICES ASSUME NEW i \in 1 .. Tip', NEW u \in Tables,
                       NEW b \in history'[i][u], NEW c \in history'[i][u],
                       CobDate(b) = CobDate(c), b.version = c.version
                PROVE  b = c
    BY DEF VersionsUnique, CobDate
  <2>1. CASE i \in 1 .. Tip
    BY <1>1, <2>1 DEF HistoryInv, VersionsUnique
  <2>2. CASE i = Tip + 1
    BY <1>2, <2>2, MainInherits
  <2>. QED
    BY <1>0, <1>1, <2>1, <2>2
<1>4. LaterIsNewer'
  <2>. SUFFICES ASSUME NEW i \in 2 .. Tip', NEW u \in Tables,
                       NEW b \in history'[i][u] \ history'[i - 1][u],
                       NEW c \in history'[i - 1][u],
                       CobDate(b) = CobDate(c)
                PROVE  b.version > c.version
    BY DEF LaterIsNewer, CobDate
  <2>1. CASE i \in 2 .. Tip
    <3>1. history'[i] = history[i] /\ history'[i - 1] = history[i - 1]
      BY <1>0, <1>1, <2>1
    <3>. QED
      BY <2>1, <3>1 DEF HistoryInv, LaterIsNewer
  <2>2. CASE i = Tip + 1
    <3>1. i - 1 = Tip /\ Tip \in 1 .. Tip /\ history'[i - 1] = Main
      BY <1>0, <1>1, <2>2
    <3>2. b \in history'[Tip + 1][u] /\ b \notin Main[u] /\ c \in Main[u]
      BY <2>2, <3>1
    <3>3. u = t
      BY <1>2, <3>2
    <3>. QED
      BY <1>2, <3>2, <3>3
  <2>. QED
    BY <1>0, <1>1, <2>1, <2>2
<1>5. NothingRefusedOnMain' /\ BatchesAtHome'
  <2>. SUFFICES ASSUME NEW i \in 1 .. Tip', NEW u \in Tables,
                       NEW b \in history'[i][u]
                PROVE  b.delivery \notin Bad /\ TableOf[b.delivery] = u
    BY DEF NothingRefusedOnMain, BatchesAtHome
  <2>1. CASE i \in 1 .. Tip
    BY <1>1, <2>1 DEF HistoryInv, NothingRefusedOnMain, BatchesAtHome
  <2>2. CASE i = Tip + 1
    BY <1>2, <2>2, MainInherits
  <2>. QED
    BY <1>0, <1>1, <2>1, <2>2
<1>6. KeysSane'
  BY <1>0, <1>1 DEF KeysSane
<1>. QED
  BY <1>3, <1>4, <1>5, <1>6 DEF HistoryInv

\* Tags and the registry speak about commits, which stay what they were.
LEMMA RecordFrame ==
  ASSUME TypeOK, TagNamesOwnMerge, CommittedIsTrue,
         NEW t \in Tables, NEW content \in SUBSET Batch,
         CommitToMain(t, content) \/ UNCHANGED catalog
  PROVE  /\ UNCHANGED tags => TagNamesOwnMerge'
         /\ UNCHANGED committed => CommittedIsTrue'
<1>1. /\ Tip \in Nat /\ Tip' \in Nat /\ Tip' >= Tip
      /\ \A i \in 1 .. Tip : history'[i] = history[i]
  <2>1. Tip \in Nat
    BY MainType
  <2>2. CASE CommitToMain(t, content)
    <3>1. Tip' = Tip + 1 /\ \A i \in 1 .. Tip : history'[i] = history[i]
      BY <2>2, CommitEffect
    <3>. QED
      BY <2>1, <3>1
  <2>3. CASE UNCHANGED catalog
    BY <2>1, <2>3 DEF catalog, Tip
  <2>. QED
    BY <2>2, <2>3
<1>2. ASSUME UNCHANGED tags PROVE TagNamesOwnMerge'
  <2>. SUFFICES ASSUME NEW g \in tags
                PROVE  /\ g.commit \in 2 .. Tip'
                       /\ \E b \in UNION {history'[g.commit][u]
                                            \ history'[g.commit - 1][u] : u \in Tables} :
                            b.attempt = g.attempt
    BY <1>2 DEF TagNamesOwnMerge
  <2>1. g.commit \in 2 .. Tip
    BY DEF TagNamesOwnMerge
  <2>2. /\ g.commit \in 2 .. Tip'
        /\ history'[g.commit] = history[g.commit]
        /\ history'[g.commit - 1] = history[g.commit - 1]
    BY <1>1, <2>1
  <2>. QED
    BY <2>2 DEF TagNamesOwnMerge
<1>3. ASSUME UNCHANGED committed PROVE CommittedIsTrue'
  <2>. SUFFICES ASSUME NEW c \in committed
                PROVE  \E i \in 1 .. Tip' : \E b \in history'[i][TableOf[c.delivery]] :
                         /\ b.delivery = c.delivery
                         /\ c.version # 0 => b.version = c.version
    BY <1>3 DEF CommittedIsTrue
  <2>1. PICK i \in 1 .. Tip : \E b \in history[i][TableOf[c.delivery]] :
                                /\ b.delivery = c.delivery
                                /\ c.version # 0 => b.version = c.version
    BY DEF CommittedIsTrue
  <2>2. i \in 1 .. Tip' /\ history'[i] = history[i]
    BY <1>1, <2>1
  <2>. QED
    BY <2>1, <2>2
<1>. QED
  BY <1>2, <1>3

-----------------------------------------------------------------------------
\* What a commit may write to table t for the history to stay as it should be.
Sound(t, content) ==
  /\ \A b, c \in content : CobDate(b) = CobDate(c) /\ b.version = c.version => b = c
  /\ \A b \in content \ Main[t], c \in Main[t] :
       CobDate(b) = CobDate(c) => b.version > c.version
  /\ \A b \in content : b.delivery \notin Bad /\ TableOf[b.delivery] = t

\* Rows that are already on `main`, or some of them, are sound.
LEMMA SubsetSound ==
  ASSUME TypeOK, HistoryInv, NEW t \in Tables, NEW content \in SUBSET Main[t]
  PROVE  Sound(t, content) /\ content \in SUBSET Batch
BY MainInherits, MainType DEF Sound

\* The branch a run is about to merge holds what `main` holds and one batch
\* newer than all of it: that is what Nessie's conflict rule is for.
LEMMA MergeContent ==
  ASSUME IInv, NEW r \in Runs, pc[r] = "merge", ~Conflicts(r)
  PROVE  /\ view[r] \in SUBSET Batch
         /\ \E b \in view[r] :
              /\ IsOwn(b, r)
              /\ b \notin Main[Table(r)]
              /\ NewerThanAll(b, Main[Table(r)])
              /\ Delivery(r) \notin Bad
              /\ view[r] = Main[Table(r)] \union {b}
<1>0. /\ TypeOK /\ AppendIsNewest(r) /\ Table(r) \in Tables
      /\ touched[Table(r)] \in Nat /\ base[r] \in Nat
  BY RawAssumptions DEF IInv, RunInv, TypeOK, Table
<1>1. view[r] \in SUBSET Batch
  BY <1>0 DEF TypeOK
<1>2. touched[Table(r)] <= base[r]
  BY <1>0 DEF Conflicts
<1>3. PICK b \in view[r] : /\ IsOwn(b, r)
                           /\ NewerThanAll(b, view[r] \ {b})
                           /\ view[r] \ {b} = Main[Table(r)]
  BY <1>0, <1>2 DEF AppendIsNewest
<1>4. view[r] = Main[Table(r)] \union {b} /\ b \notin Main[Table(r)]
  BY <1>3
<1>5. Delivery(r) \notin Bad
  BY <1>0 DEF AppendIsNewest
<1>6. NewerThanAll(b, Main[Table(r)])
  BY <1>3
<1>. QED
  BY <1>1, <1>3, <1>4, <1>5, <1>6

LEMMA MergeSound ==
  ASSUME IInv, NEW r \in Runs, pc[r] = "merge", ~Conflicts(r)
  PROVE  view[r] \in SUBSET Batch /\ Sound(Table(r), view[r])
<1>0. TypeOK /\ HistoryInv /\ Table(r) \in Tables
  BY RawAssumptions DEF IInv, TypeOK, Table
<1>1. PICK b \in view[r] :
        /\ IsOwn(b, r)
        /\ b \notin Main[Table(r)]
        /\ NewerThanAll(b, Main[Table(r)])
        /\ Delivery(r) \notin Bad
        /\ view[r] = Main[Table(r)] \union {b}
  BY MergeContent
<1>2. /\ view[r] \in SUBSET Batch /\ b \in Batch
      /\ \A c \in Main[Table(r)] : c \in Batch
  BY <1>0, MainType, MergeContent
<1>3. \A c \in Batch : c.version \in Nat
  BY RawAssumptions DEF Batch
<1>4. \A c \in Main[Table(r)] : CobDate(b) = CobDate(c) => b.version # c.version
  BY <1>1, <1>2, <1>3 DEF NewerThanAll
<1>5. /\ \A c, e \in Main[Table(r)] :
           CobDate(c) = CobDate(e) /\ c.version = e.version => c = e
      /\ \A c \in Main[Table(r)] :
           c.delivery \notin Bad /\ TableOf[c.delivery] = Table(r)
  BY <1>0, MainInherits
<1>6. b.delivery \notin Bad /\ TableOf[b.delivery] = Table(r)
  BY <1>1 DEF IsOwn, Table, Delivery
<1>. QED
  BY <1>1, <1>2, <1>4, <1>5, <1>6 DEF Sound, NewerThanAll, IsOwn

\* Every step commits sound rows to one table or leaves `main` alone.
LEMMA RunCommits ==
  ASSUME IInv, NEW r \in Runs, Step(r) \/ Failure(r)
  PROVE  \E content \in SUBSET Batch :
           /\ CommitToMain(Table(r), content) \/ UNCHANGED catalog
           /\ CommitToMain(Table(r), content) => Sound(Table(r), content)
<1>. USE DEF catalog
<1>0. TypeOK /\ HistoryInv /\ Table(r) \in Tables
  BY RawAssumptions DEF IInv, TypeOK, Table
<1>e. {} \in SUBSET Batch /\ Sound(Table(r), {})
  BY DEF Sound
<1>1. CASE Bootstrap(r)
  BY <1>e, <1>1 DEF Bootstrap
<1>2. CASE Merge(r) \/ MergeReplyLost(r)
  BY <1>2, MergeSound DEF Merge, MergeReplyLost
<1>3. CASE UNCHANGED catalog
  BY <1>e, <1>3
<1>. QED
  BY <1>1, <1>2, <1>3
     DEF Step, Failure, Begin, ReadHistory, CheckLedger, CutBranch, Refuse,
         AppendRows, MergeRefused, DropBranch, RecordCommitted, RecordNoop, Pin,
         DropFails, RecordLost, NoopLost, PinLost, Crash

LEMMA ChoreCommits ==
  ASSUME IInv, Housekeeping
  PROVE  \E t \in Tables, content \in SUBSET Batch :
           /\ CommitToMain(t, content) \/ UNCHANGED catalog
           /\ CommitToMain(t, content) => Sound(t, content)
<1>0. TypeOK /\ HistoryInv
  BY DEF IInv
<1>1. ASSUME NEW t \in Tables, NEW gone \in SUBSET Dates, Expire(t, gone)
      PROVE  \E content \in SUBSET Batch : CommitToMain(t, content) /\ Sound(t, content)
  BY <1>0, <1>1, SubsetSound DEF Expire
<1>2. ASSUME NEW t \in Tables, Touch(t)
      PROVE  \E content \in SUBSET Batch : CommitToMain(t, content) /\ Sound(t, content)
  BY <1>0, <1>2, SubsetSound DEF Touch
<1>3. ASSUME NEW t \in Tables, ReconcileCommitted(t)
      PROVE  \E content \in SUBSET Batch : UNCHANGED catalog /\ Sound(t, content)
  BY <1>0, <1>3, SubsetSound DEF ReconcileCommitted
<1>. QED
  BY <1>1, <1>2, <1>3 DEF Housekeeping

-----------------------------------------------------------------------------
\* Whatever a step does to `main`, the history and the keys stay sane.
LEMMA SharedFrame ==
  ASSUME TypeOK, KeysSane, HistoryInv, NEW t \in Tables, NEW content \in SUBSET Batch,
         CommitToMain(t, content) \/ UNCHANGED catalog,
         CommitToMain(t, content) => Sound(t, content)
  PROVE  KeysSane' /\ HistoryInv'
<1>1. CASE CommitToMain(t, content)
  BY <1>1, HistoryFrame DEF Sound
<1>2. CASE UNCHANGED catalog
  BY <1>2 DEF catalog, KeysSane, HistoryInv, VersionsUnique, LaterIsNewer,
              NothingRefusedOnMain, BatchesAtHome, Main, Tip
<1>. QED
  BY <1>1, <1>2

\* A run's own step: a fresh cut, an append that is the newest, a merge whose
\* commit is the run's own.
LEMMA RunStep ==
  ASSUME IInv, NEW r \in Runs, Step(r) \/ Failure(r)
  PROVE  RunInv(r)'
<1>. USE DEF Goto, catalog, local, bounds, Fault
<1>0. /\ TypeOK /\ RunInv(r) /\ Table(r) \in Tables /\ Delivery(r) \in Deliveries
      /\ Tip \in Nat /\ Main[Table(r)] \in SUBSET Batch /\ r \in Runs
  BY MainType, RawAssumptions DEF IInv, TypeOK, Table, Delivery
<1>1. CASE Begin(r)
  <2>1. pc'[r] = "start" /\ tries'[r] \in 1 .. MaxTries
    BY <1>0, <1>1, RawAssumptions DEF Begin, TriesOf, TypeOK
  <2>. QED
    BY <2>1 DEF RunInv, RunIsSane, BranchIsFresh, AppendIsNewest, MergeIsOwn,
                NoopIsTrue, Booted
<1>2. CASE ReadHistory(r)
  <2>1. /\ pc'[r] = "boot" \/ (pc'[r] = "ledger" /\ history' # <<>>)
        /\ pc[r] = "start" /\ tries' = tries
    BY <1>0, <1>2 DEF ReadHistory, TypeOK
  <2>. QED
    BY <1>0, <2>1 DEF RunInv, RunIsSane, BranchIsFresh, AppendIsNewest, MergeIsOwn,
                NoopIsTrue, Booted
<1>3. CASE Bootstrap(r)
  <2>1. /\ pc'[r] = "ledger" /\ pc[r] = "boot" /\ tries' = tries
    BY <1>0, <1>3 DEF Bootstrap, TypeOK
  <2>2. history' # <<>>
    <3>1. CASE touched[Table(r)] = 0
      BY <1>0, <1>3, <3>1, CommitEffect DEF Bootstrap
    <3>2. CASE touched[Table(r)] # 0
      <4>1. Tip > 0 /\ history' = history
        BY <1>0, <1>3, <3>2 DEF Bootstrap, IInv, KeysSane, TypeOK, Tip
      <4>. QED
        BY <4>1 DEF Tip
    <3>. QED
      BY <3>1, <3>2
  <2>. QED
    BY <1>0, <2>1, <2>2 DEF RunInv, RunIsSane, BranchIsFresh, AppendIsNewest,
                            MergeIsOwn, NoopIsTrue, Booted
<1>4. CASE CheckLedger(r)
  <2>1. /\ pc[r] = "ledger" /\ tries' = tries /\ history' = history
        /\ pc'[r] = "cut" \/ (pc'[r] = "noop" /\ AlreadyIngested(Delivery(r)))
    BY <1>0, <1>4 DEF CheckLedger, TypeOK
  <2>2. AlreadyIngested(Delivery(r)) =>
          \E i \in 1 .. Tip : \E b \in history[i][Table(r)] : b.delivery = Delivery(r)
    BY <1>0, MainInherits DEF IInv, AlreadyIngested, Table, Delivery
  <2>3. NoopIsTrue(r)'
    BY <2>1, <2>2 DEF NoopIsTrue, Tip
  <2>. QED
    BY <1>0, <2>1, <2>3 DEF RunInv, RunIsSane, BranchIsFresh, AppendIsNewest,
                            MergeIsOwn, Booted
<1>5. CASE CutBranch(r)
  <2>1. /\ pc[r] = "cut" /\ tries' = tries /\ history' = history
        /\ touched' = touched
        /\ pc'[r] \in {"failed", "write"}
        /\ base'[r] = Tip
        /\ view'[r] = Main[Table(r)]
    BY <1>0, <1>5 DEF CutBranch, TypeOK
  <2>2. BranchIsFresh(r)'
    BY <1>0, <2>1 DEF BranchIsFresh, Main, Tip
  <2>. QED
    BY <1>0, <2>1, <2>2 DEF RunInv, RunIsSane, AppendIsNewest, MergeIsOwn,
                            NoopIsTrue, Booted
<1>6. CASE AppendRows(r)
  <2>1. PICK v \in Versions :
          /\ IsNextVersion(v, view[r], CobDateOf[Delivery(r)])
          /\ view' = [view EXCEPT ![r] = @ \union
                        {[delivery |-> Delivery(r), version |-> v,
                          attempt |-> <<r, tries[r]>>]}]
    BY <1>6 DEF AppendRows
  <2>. DEFINE new == [delivery |-> Delivery(r), version |-> v,
                      attempt |-> <<r, tries[r]>>]
  <2>2. /\ pc[r] = "write" /\ pc'[r] = "merge" /\ Delivery(r) \notin Bad
        /\ tries' = tries /\ history' = history /\ touched' = touched /\ base' = base
        /\ view'[r] = view[r] \union {new}
    BY <1>0, <1>6, <2>1 DEF AppendRows, Passes, TypeOK
  <2>3. \A c \in view[r] : c.version \in Nat
    <3>1. view[r] \in SUBSET Batch
      BY <1>0 DEF TypeOK
    <3>2. \A c \in Batch : c.version \in Nat
      BY RawAssumptions DEF Batch
    <3>. QED
      BY <3>1, <3>2
  <2>4. \A c \in view[r] : CobDate(c) = CobDate(new) => v > c.version
    BY <2>1, <2>3, RawAssumptions DEF IsNextVersion, CobDate
  <2>5. new \notin view[r]
    BY <2>3, <2>4
  <2>6. /\ view'[r] \ {new} = view[r]
        /\ NewerThanAll(new, view[r])
        /\ new \in view'[r]
        /\ new.delivery = Delivery(r) /\ new.attempt = <<r, tries[r]>>
    BY <2>2, <2>4, <2>5 DEF NewerThanAll
  <2>. HIDE DEF new
  <2>7. base[r] <= Len(history) /\ (touched[Table(r)] <= base[r] => view[r] = Main[Table(r)])
    BY <1>0, <2>2 DEF RunInv, BranchIsFresh
  <2>8. AppendIsNewest(r)'
    BY <2>2, <2>6, <2>7 DEF AppendIsNewest, IsOwn, NewerThanAll, Main
  <2>. QED
    BY <1>0, <2>2, <2>8 DEF RunInv, RunIsSane, BranchIsFresh, MergeIsOwn,
                            NoopIsTrue, Booted
<1>7. CASE Merge(r)
  <2>1. /\ pc[r] = "merge" /\ pc'[r] = "drop" /\ tries' = tries /\ view' = view
        /\ made'[r] = Tip + 1
        /\ ~Conflicts(r)
        /\ CommitToMain(Table(r), view[r])
    BY <1>0, <1>7 DEF Merge, TypeOK
  <2>2. PICK b \in view[r] : /\ IsOwn(b, r)
                             /\ b \notin Main[Table(r)]
    BY <2>1, MergeContent
  <2>3. view[r] \in SUBSET Batch
    BY <1>0 DEF TypeOK
  <2>4. /\ history' # <<>>
        /\ Tip' = Tip + 1
        /\ \A i \in 1 .. Tip : history'[i] = history[i]
        /\ history'[Tip + 1] = [Main EXCEPT ![Table(r)] = view[r]]
    BY <1>0, <2>1, <2>3, CommitEffect
  <2>5. Tip > 0 /\ history[Tip] = Main
    BY <1>0, <2>1 DEF RunInv, RunIsSane, Booted, Main, Tip, TypeOK
  <2>6. history'[Tip + 1][Table(r)] = view[r] /\ history'[Tip][Table(r)] = Main[Table(r)]
    BY <1>0, <2>4, <2>5, MainType
  <2>7. made'[r] \in 2 .. Tip' /\ made'[r] - 1 = Tip
    BY <1>0, <2>1, <2>4, <2>5
  <2>8. MergeIsOwn(r)'
    BY <2>1, <2>2, <2>6, <2>7 DEF MergeIsOwn, IsOwn, Tip
  <2>. QED
    BY <1>0, <2>1, <2>4, <2>8 DEF RunInv, RunIsSane, BranchIsFresh, AppendIsNewest,
                            NoopIsTrue, Booted
<1>8. CASE DropBranch(r) \/ RecordCommitted(r) \/ RecordLost(r)
  <2>1. /\ pc[r] \in {"drop", "record"} /\ pc'[r] \in {"record", "pin"}
        /\ UNCHANGED <<history, tries, view, made>>
    BY <1>0, <1>8 DEF DropBranch, RecordCommitted, RecordLost, TypeOK
  <2>2. MergeIsOwn(r)'
    BY <1>0, <2>1 DEF RunInv, MergeIsOwn, IsOwn
  <2>. QED
    BY <1>0, <2>1, <2>2 DEF RunInv, RunIsSane, BranchIsFresh, AppendIsNewest,
                            NoopIsTrue, Booted
<1>9. CASE \/ Refuse(r) \/ MergeRefused(r) \/ MergeReplyLost(r) \/ RecordNoop(r)
           \/ Pin(r) \/ DropFails(r) \/ NoopLost(r) \/ PinLost(r) \/ Crash(r)
  <2>1. /\ pc[r] # "idle" /\ pc'[r] \in {"refused", "failed", "done"}
        /\ tries' = tries
    BY <1>0, <1>9 DEF Refuse, MergeRefused, MergeReplyLost, RecordNoop, Pin,
                      DropFails, NoopLost, PinLost, Crash, TypeOK, Writing
  <2>. QED
    BY <1>0, <2>1 DEF RunInv, RunIsSane, BranchIsFresh, AppendIsNewest,
                      MergeIsOwn, NoopIsTrue, Booted
<1>. QED
  BY <1>1, <1>2, <1>3, <1>4, <1>5, <1>6, <1>7, <1>8, <1>9 DEF Step, Failure

\* A Delivery that is once in every commit is once on `main`.
LEMMA MainOnce ==
  ASSUME TypeOK, DeliveredOnce, NEW t \in Tables
  PROVE  \A b, c \in Main[t] : b.delivery = c.delivery => b = c
<1>1. CASE history = <<>>
  BY <1>1 DEF Main, Empty
<1>2. CASE history # <<>>
  <2>1. Tip \in 1 .. Tip /\ Main = history[Tip]
    BY <1>2 DEF TypeOK, Main, Tip
  <2>. QED
    BY <2>1 DEF DeliveredOnce
<1>. QED
  BY <1>1, <1>2

LEMMA OnceFrame ==
  ASSUME TypeOK, DeliveredOnce,
         NEW t \in Tables, NEW content \in SUBSET Batch, CommitToMain(t, content),
         \A b, c \in content : b.delivery = c.delivery => b = c
  PROVE  DeliveredOnce'
<1>. SUFFICES ASSUME NEW i \in 1 .. Tip', NEW u \in Tables,
                     NEW b \in history'[i][u], NEW c \in history'[i][u],
                     b.delivery = c.delivery
              PROVE  b = c
  BY DEF DeliveredOnce
<1>0. Tip \in Nat /\ Main \in [Tables -> SUBSET Batch]
  BY MainType
<1>1. /\ Tip' = Tip + 1
      /\ \A j \in 1 .. Tip : history'[j] = history[j]
      /\ history'[Tip + 1] = [Main EXCEPT ![t] = content]
  BY CommitEffect
<1>2. CASE i \in 1 .. Tip
  BY <1>1, <1>2 DEF DeliveredOnce
<1>3. CASE i = Tip + 1
  <2>1. history'[i][u] = IF u = t THEN content ELSE Main[u]
    BY <1>0, <1>1, <1>3
  <2>. QED
    BY <2>1, MainOnce
<1>. QED
  BY <1>0, <1>1, <1>2, <1>3

\* Two pooled runs never write at once, and while a pooled run writes, nothing
\* else can bring its Delivery to `main`.
LEMMA SlotStep ==
  ASSUME IInv, NEW r \in Runs, Step(r) \/ Failure(r)
  PROVE  /\ SlotIsExclusive'
         /\ \A q \in Runs \ {r} : /\ pc'[q] = pc[q] /\ tries'[q] = tries[q]
                                  /\ base'[q] = base[q] /\ view'[q] = view[q]
                                  /\ made'[q] = made[q]
         /\ pc'[r] \in Writing => pc[r] \in Writing \/ SlotFree(r)
<1>. USE DEF Goto, local, bounds
<1>0. TypeOK /\ SlotIsExclusive
  BY DEF IInv, PoolInv
<1>1. /\ \A q \in Runs \ {r} : pc'[q] = pc[q]
      /\ pc'[r] \in Writing => pc[r] \in Writing \/ SlotFree(r)
  BY <1>0 DEF TypeOK, Writing, Step, Failure, Begin, ReadHistory, Bootstrap,
              CheckLedger, CutBranch, Refuse, AppendRows, MergeRefused, Merge,
              DropBranch, RecordCommitted, RecordNoop, Pin, MergeReplyLost,
              DropFails, RecordLost, NoopLost, PinLost, Crash
<1>2. \A q \in Runs \ {r} : /\ tries'[q] = tries[q] /\ base'[q] = base[q]
                            /\ view'[q] = view[q] /\ made'[q] = made[q]
  BY <1>0 DEF TypeOK, Step, Failure, Begin, ReadHistory, Bootstrap,
              CheckLedger, CutBranch, Refuse, AppendRows, MergeRefused, Merge,
              DropBranch, RecordCommitted, RecordNoop, Pin, MergeReplyLost,
              DropFails, RecordLost, NoopLost, PinLost, Crash
<1>3. SlotIsExclusive'
  BY <1>0, <1>1 DEF SlotIsExclusive, SlotFree
<1>. QED
  BY <1>1, <1>2, <1>3

\* Under the pool, a Delivery that is not on `main` when a try has found that
\* out is brought there by nobody else, and by this try once.
LEMMA PoolRun ==
  ASSUME IInv, NEW r \in Runs, Step(r) \/ Failure(r)
  PROVE  PoolInv'
<1>. USE DEF Goto, catalog, local, bounds
<1>0. /\ TypeOK /\ HistoryInv /\ PoolInv /\ Table(r) \in Tables
      /\ Main \in [Tables -> SUBSET Batch] /\ Tip \in Nat
  BY MainType, RawAssumptions DEF IInv, TypeOK, Table
<1>1. SlotIsExclusive' /\ \A q \in Runs \ {r} : pc'[q] = pc[q]
  BY SlotStep
<1>2. ASSUME Runs \subseteq Pooled, NEW q \in Runs, pc'[q] \in {"cut", "write", "merge"}
      PROVE  ~AlreadyIngested(Delivery(q))'
  <2>1. CASE UNCHANGED history
    <3>1. Main' = Main
      BY <2>1 DEF Main
    <3>2. CASE q # r
      BY <1>0, <1>1, <1>2, <3>1, <3>2 DEF PoolInv, LedgerStaysTrue, AlreadyIngested
    <3>3. CASE q = r
      <4>1. pc[r] \in {"cut", "write"} \/ ~AlreadyIngested(Delivery(r))
        BY <1>0, <1>2, <3>3
           DEF TypeOK, Step, Failure, Begin, ReadHistory, Bootstrap,
               CheckLedger, CutBranch, Refuse, AppendRows, MergeRefused, Merge,
               DropBranch, RecordCommitted, RecordNoop, Pin, MergeReplyLost,
               DropFails, RecordLost, NoopLost, PinLost, Crash
      <4>. QED
        BY <1>0, <1>2, <3>1, <3>3, <4>1 DEF PoolInv, LedgerStaysTrue, AlreadyIngested
    <3>. QED
      BY <3>2, <3>3
  <2>2. CASE Bootstrap(r) \/ Merge(r) \/ MergeReplyLost(r)
    <3>1. /\ pc[r] \in Writing
          /\ pc'[r] \notin {"cut", "write", "merge"}
      BY <1>0, <2>2 DEF TypeOK, Bootstrap, Merge, MergeReplyLost, Writing
    <3>2. q # r /\ pc[q] \in Writing
      BY <1>1, <1>2, <3>1 DEF Writing
    <3>. QED
      BY <1>0, <1>2, <3>1, <3>2 DEF PoolInv, SlotIsExclusive
  <2>. QED
    BY <2>1, <2>2
       DEF Step, Failure, Begin, ReadHistory, CheckLedger, CutBranch, Refuse,
           AppendRows, MergeRefused, DropBranch, RecordCommitted, RecordNoop, Pin,
           DropFails, RecordLost, NoopLost, PinLost, Crash
<1>3. ASSUME Runs \subseteq Pooled
      PROVE  DeliveredOnce'
  <2>0. DeliveredOnce
    BY <1>0, <1>3 DEF PoolInv
  <2>1. CASE UNCHANGED history
    BY <2>0, <2>1 DEF DeliveredOnce, Tip
  <2>2. ASSUME NEW content \in SUBSET Batch, CommitToMain(Table(r), content),
               \A b, c \in content : b.delivery = c.delivery => b = c
        PROVE  DeliveredOnce'
    BY <1>0, <2>0, <2>2, OnceFrame
  <2>3. CASE Bootstrap(r)
    <3>1. CASE CommitToMain(Table(r), {})
      BY <2>2, <3>1
    <3>. QED
      BY <2>1, <2>3, <3>1 DEF Bootstrap
  <2>4. CASE Merge(r) \/ MergeReplyLost(r)
    <3>1. pc[r] = "merge" /\ ~Conflicts(r) /\ CommitToMain(Table(r), view[r])
      BY <2>4 DEF Merge, MergeReplyLost
    <3>2. PICK b \in view[r] : IsOwn(b, r) /\ view[r] = Main[Table(r)] \union {b}
      BY <3>1, MergeContent
    <3>3. \A c \in Main[Table(r)] : c.delivery # Delivery(r)
      BY <1>0, <1>3, <3>1 DEF PoolInv, LedgerStaysTrue, AlreadyIngested, Table, Delivery
    <3>4. \A c, e \in Main[Table(r)] : c.delivery = e.delivery => c = e
      BY <1>0, <2>0, MainOnce
    <3>5. \A c, e \in view[r] : c.delivery = e.delivery => c = e
      BY <3>2, <3>3, <3>4 DEF IsOwn
    <3>. QED
      BY <2>2, <3>1, <3>5, MergeContent
  <2>. QED
    BY <2>1, <2>3, <2>4
       DEF Step, Failure, Begin, ReadHistory, CheckLedger, CutBranch, Refuse,
           AppendRows, MergeRefused, DropBranch, RecordCommitted, RecordNoop, Pin,
           DropFails, RecordLost, NoopLost, PinLost, Crash
<1>. QED
  BY <1>1, <1>2, <1>3 DEF PoolInv, LedgerStaysTrue

\* Housekeeping only ever takes rows away.
LEMMA ChoreShrinks ==
  ASSUME IInv, Housekeeping
  PROVE  /\ UNCHANGED <<pc, tries, local, made, tags>>
         /\ UNCHANGED catalog \/
              \E t \in Tables : \E content \in SUBSET Main[t] : CommitToMain(t, content)
BY DEF Housekeeping, Expire, Touch, ReconcileCommitted, Chore, catalog

LEMMA PoolChore ==
  ASSUME IInv, Housekeeping
  PROVE  PoolInv'
<1>0. /\ TypeOK /\ PoolInv /\ Main \in [Tables -> SUBSET Batch]
      /\ UNCHANGED <<pc, tries, local, made, tags>>
  BY MainType, ChoreShrinks DEF IInv
<1>1. SlotIsExclusive'
  BY <1>0 DEF PoolInv, SlotIsExclusive
<1>2. CASE UNCHANGED catalog
  BY <1>0, <1>1, <1>2 DEF PoolInv, LedgerStaysTrue, AlreadyIngested, DeliveredOnce,
                          Main, Tip, catalog
<1>3. ASSUME NEW t \in Tables, NEW content \in SUBSET Main[t], CommitToMain(t, content)
      PROVE  PoolInv'
  <2>1. content \in SUBSET Batch
    BY <1>0
  <2>2. Main' = [Main EXCEPT ![t] = content]
    BY <1>0, <1>3, <2>1, CommitEffect
  <2>3. \A u \in Tables : Main'[u] \subseteq Main[u]
    BY <1>0, <2>2
  <2>4. \A q \in Runs : LedgerStaysTrue(q)'
    BY <1>0, <2>3, RawAssumptions DEF PoolInv, LedgerStaysTrue, AlreadyIngested, Delivery
  <2>5. ASSUME Runs \subseteq Pooled PROVE DeliveredOnce'
    <3>1. DeliveredOnce
      BY <1>0, <2>5 DEF PoolInv
    <3>2. \A b, c \in content : b.delivery = c.delivery => b = c
      BY <1>0, <3>1, MainOnce
    <3>. QED
      BY <1>0, <1>3, <2>1, <3>1, <3>2, OnceFrame
  <2>. QED
    BY <1>1, <2>4, <2>5 DEF PoolInv
<1>. QED
  BY <1>2, <1>3, ChoreShrinks

-----------------------------------------------------------------------------
\* A tag that a run cuts names the commit of that run's own merge.
LEMMA TagStep ==
  ASSUME IInv, NEW r \in Runs, Step(r) \/ Failure(r)
  PROVE  TagNamesOwnMerge'
<1>0. TypeOK /\ TagNamesOwnMerge /\ CommittedIsTrue /\ MergeIsOwn(r) /\ Table(r) \in Tables
  BY RawAssumptions DEF IInv, RunInv, TypeOK, Table
<1>1. CASE UNCHANGED tags
  BY <1>0, <1>1, RunCommits, RecordFrame
<1>2. CASE Pin(r)
  <2>1. /\ pc[r] = "pin" /\ history' = history
        /\ tags' = tags \union {[attempt |-> <<r, tries[r]>>, commit |-> made[r]]}
    BY <1>2 DEF Pin, PinnedCommit, catalog
  <2>2. /\ made[r] \in 2 .. Tip
        /\ \E b \in history[made[r]][Table(r)] \ history[made[r] - 1][Table(r)] :
             b.attempt = <<r, tries[r]>>
    BY <1>0, <2>1 DEF MergeIsOwn, IsOwn, Tip
  <2>3. \E b \in UNION {history[made[r]][t] \ history[made[r] - 1][t] : t \in Tables} :
          b.attempt = <<r, tries[r]>>
    BY <1>0, <2>2
  <2>. QED
    BY <1>0, <2>1, <2>2, <2>3 DEF TagNamesOwnMerge, Tip
<1>. QED
  BY <1>1, <1>2
     DEF Step, Failure, Begin, ReadHistory, Bootstrap, CheckLedger, CutBranch,
         Refuse, AppendRows, MergeRefused, Merge, DropBranch, RecordCommitted,
         RecordNoop, MergeReplyLost, DropFails, RecordLost, NoopLost, PinLost, Crash

\* One more true row, for a Delivery that had none, keeps the table true.
LEMMA InsertTrue ==
  ASSUME CommittedIsTrue, history' = history, NEW d, NEW v,
         \E i \in 1 .. Tip : \E b \in history[i][TableOf[d]] :
           b.delivery = d /\ (v # 0 => b.version = v),
         Insert(d, v)
  PROVE  CommittedIsTrue'
<1>1. CASE \E c \in committed : c.delivery = d
  BY <1>1 DEF CommittedIsTrue, Insert, Tip
<1>2. CASE ~\E c \in committed : c.delivery = d
  <2>1. committed' = committed \union {[delivery |-> d, version |-> v]}
    BY <1>2 DEF Insert
  <2>. QED
    BY <1>2, <2>1 DEF CommittedIsTrue, Tip
<1>. QED
  BY <1>1, <1>2

\* What a run or the backfill writes to the registry is true of `main`.
LEMMA CommittedStep ==
  ASSUME IInv, NEW r \in Runs, Step(r) \/ Failure(r)
  PROVE  CommittedIsTrue'
<1>0. /\ TypeOK /\ TagNamesOwnMerge /\ CommittedIsTrue /\ MergeIsOwn(r)
      /\ NoopIsTrue(r) /\ Table(r) \in Tables /\ Table(r) = TableOf[Delivery(r)]
  BY RawAssumptions DEF IInv, RunInv, TypeOK, Table, Delivery
<1>1. CASE UNCHANGED committed
  BY <1>0, <1>1, RunCommits, RecordFrame
<1>2. CASE RecordCommitted(r)
  <2>1. /\ pc[r] = "record" /\ history' = history /\ Insert(Delivery(r), Written(r))
    BY <1>2 DEF RecordCommitted, catalog
  <2>2. \E i \in 1 .. Tip : \E b \in history[i][TableOf[Delivery(r)]] :
          b.delivery = Delivery(r) /\ b.version = Written(r)
    BY <1>0, <2>1, WrittenIsOwn
  <2>. QED
    BY <1>0, <2>1, <2>2, InsertTrue
<1>3. CASE RecordNoop(r)
  <2>1. /\ pc[r] = "noop" /\ history' = history /\ Insert(Delivery(r), 0)
    BY <1>3 DEF RecordNoop, catalog
  <2>2. \E i \in 1 .. Tip : \E b \in history[i][TableOf[Delivery(r)]] :
          b.delivery = Delivery(r)
    BY <1>0, <2>1 DEF NoopIsTrue, Tip
  <2>. QED
    BY <1>0, <2>1, <2>2, InsertTrue
<1>. QED
  BY <1>1, <1>2, <1>3
     DEF Step, Failure, Begin, ReadHistory, Bootstrap, CheckLedger, CutBranch,
         Refuse, AppendRows, MergeRefused, Merge, DropBranch, Pin,
         MergeReplyLost, DropFails, RecordLost, NoopLost, PinLost, Crash

LEMMA CommittedChore ==
  ASSUME IInv, Housekeeping
  PROVE  CommittedIsTrue'
<1>0. TypeOK /\ HistoryInv /\ TagNamesOwnMerge /\ CommittedIsTrue
  BY DEF IInv
<1>1. CASE UNCHANGED committed
  BY <1>0, <1>1, ChoreCommits, RecordFrame
<1>2. CASE \E t \in Tables : ReconcileCommitted(t)
  <2>1. PICK t \in Tables : ReconcileCommitted(t)
    BY <1>2
  <2>. DEFINE Found == {b \in Main[t] :
                 /\ \A c \in committed : c.delivery # b.delivery
                 /\ \A c \in Main[t] : c.delivery = b.delivery => c.version <= b.version}
  <2>2. /\ history' = history
        /\ committed' = committed \union
             {[delivery |-> b.delivery, version |-> b.version] : b \in Found}
    BY <2>1 DEF ReconcileCommitted, catalog
  <2>3. Main[t] \in SUBSET Batch /\ \A b \in Batch : b.version \in Nat
    BY <1>0, MainType, RawAssumptions DEF Batch
  <2>4. \A b, c \in Found : b.delivery = c.delivery => b = c
    <3>. SUFFICES ASSUME NEW b \in Found, NEW c \in Found, b.delivery = c.delivery
                  PROVE  b = c
      OBVIOUS
    <3>1. b.version = c.version
      BY <2>3
    <3>. QED
      BY <1>0, <3>1, MainInherits DEF CobDate
  <2>5. \A b \in Found : \E i \in 1 .. Tip : b \in history[i][TableOf[b.delivery]]
    BY <1>0, MainInherits
  <2>6. ASSUME NEW e \in committed'
        PROVE  \/ e \in committed
               \/ \E b \in Found : e.delivery = b.delivery /\ e.version = b.version
    BY <2>2
  <2>7. ASSUME NEW e \in committed'
        PROVE  \E i \in 1 .. Tip' : \E b \in history'[i][TableOf[e.delivery]] :
                 b.delivery = e.delivery /\ (e.version # 0 => b.version = e.version)
    <3>1. CASE e \in committed
      BY <1>0, <2>2, <3>1 DEF CommittedIsTrue, Tip
    <3>2. CASE \E b \in Found : e.delivery = b.delivery /\ e.version = b.version
      BY <2>2, <2>5, <3>2 DEF Tip
    <3>. QED
      BY <2>6, <3>1, <3>2
  <2>8. ASSUME NEW c \in committed', NEW e \in committed', c.delivery = e.delivery
        PROVE  c = e
    <3>1. CASE c \in committed /\ e \in committed
      BY <1>0, <2>8, <3>1 DEF CommittedIsTrue
    <3>2. CASE c \notin committed \/ e \notin committed
      <4>1. c \notin committed /\ e \notin committed
        BY <2>6, <2>8, <3>2
      <4>. QED
        BY <2>2, <2>4, <2>8, <4>1
    <3>. QED
      BY <3>1, <3>2
  <2>. QED
    BY <2>7, <2>8 DEF CommittedIsTrue
<1>. QED
  BY <1>1, <1>2 DEF Housekeeping, Expire, Touch, Chore

-----------------------------------------------------------------------------
\* Every step keeps the invariant.
LEMMA NextIInv ==
  ASSUME IInv, [Next]_vars
  PROVE  IInv'
<1>0. TypeOK /\ KeysSane /\ HistoryInv /\ TagNamesOwnMerge /\ CommittedIsTrue
      /\ \A q \in Runs : RunInv(q)
  BY DEF IInv
<1>1. ASSUME NEW r \in Runs, Step(r) \/ Failure(r)
      PROVE  IInv'
  <2>1. TypeOK'
    BY <1>1, RunType
  <2>2. PICK content \in SUBSET Batch :
          /\ CommitToMain(Table(r), content) \/ UNCHANGED catalog
          /\ CommitToMain(Table(r), content) => Sound(Table(r), content)
    BY <1>1, RunCommits
  <2>3. Table(r) \in Tables
    BY <1>0, RawAssumptions DEF Table
  <2>4. KeysSane' /\ HistoryInv'
    BY <1>0, <2>2, <2>3, SharedFrame
  <2>5. ASSUME NEW q \in Runs \ {r} PROVE RunInv(q)'
    <3>1. /\ pc'[q] = pc[q] /\ tries'[q] = tries[q] /\ base'[q] = base[q]
          /\ view'[q] = view[q] /\ made'[q] = made[q]
      BY <1>1, SlotStep
    <3>. QED
      BY <1>0, <2>2, <2>3, <3>1, RunFrame
  <2>6. \A q \in Runs : RunInv(q)'
    BY <1>1, <2>5, RunStep
  <2>7. PoolInv' /\ TagNamesOwnMerge' /\ CommittedIsTrue'
    BY <1>1, PoolRun, TagStep, CommittedStep
  <2>. QED
    BY <2>1, <2>4, <2>6, <2>7 DEF IInv
<1>2. CASE Housekeeping
  <2>1. TypeOK'
    BY <1>2, ChoreType
  <2>2. PICK t \in Tables, content \in SUBSET Batch :
          /\ CommitToMain(t, content) \/ UNCHANGED catalog
          /\ CommitToMain(t, content) => Sound(t, content)
    BY <1>2, ChoreCommits
  <2>3. KeysSane' /\ HistoryInv'
    BY <1>0, <2>2, SharedFrame
  <2>4. UNCHANGED <<pc, tries, base, view, made, tags>>
    BY <1>2, ChoreShrinks DEF local
  <2>5. \A q \in Runs : RunInv(q)'
    BY <1>0, <2>2, <2>4, RunFrame
  <2>6. TagNamesOwnMerge'
    BY <1>0, <2>2, <2>4, RecordFrame
  <2>7. PoolInv' /\ CommittedIsTrue'
    BY <1>2, PoolChore, CommittedChore
  <2>. QED
    BY <2>1, <2>3, <2>5, <2>6, <2>7 DEF IInv
<1>3. CASE UNCHANGED vars
  <2>1. TypeOK' /\ KeysSane'
    BY <1>0, <1>3 DEF vars, TypeOK, KeysSane, Main
  <2>2. \A q \in Runs : RunInv(q)'
    BY <1>0, <1>3, ZenonT(30) DEF vars, RunInv, RunIsSane, BranchIsFresh, AppendIsNewest,
                      MergeIsOwn, NoopIsTrue, IsOwn, NewerThanAll, Main
  <2>3. HistoryInv'
    BY <1>0, <1>3 DEF vars, HistoryInv, VersionsUnique, LaterIsNewer,
                      NothingRefusedOnMain, BatchesAtHome, Tip
  <2>4. PoolInv'
    BY <1>3 DEF vars, IInv, PoolInv, SlotIsExclusive, LedgerStaysTrue,
                AlreadyIngested, DeliveredOnce, Main, Tip
  <2>5. TagNamesOwnMerge' /\ CommittedIsTrue'
    BY <1>0, <1>3 DEF vars, TagNamesOwnMerge, CommittedIsTrue, Tip
  <2>. QED
    BY <2>1, <2>2, <2>3, <2>4, <2>5 DEF IInv
<1>. QED
  BY <1>1, <1>2, <1>3 DEF Next

\* IInv is an invariant of raw ingestion, with or without the write pool,
\* whatever crashes, loses a reply or runs at the same time.
THEOREM RawInvariant == Spec => []IInv
<1>1. Init => IInv
  BY InitIInv
<1>2. IInv /\ [Next]_vars => IInv'
  BY NextIInv
<1>. QED
  BY <1>1, <1>2, PTL DEF Spec

\* Types of the variables, for every value of the constants.
THEOREM TypeCorrect == Spec => []TypeOK
<1>1. IInv => TypeOK
  BY DEF IInv
<1>. QED
  BY <1>1, RawInvariant, PTL

\* next_file_version's unlocked read-then-write is safe under Nessie's conflict
\* rule: no commit shows one date two batches with one _file_version.
THEOREM UniqueVersions == Spec => []VersionsUnique
<1>1. IInv => VersionsUnique
  BY DEF IInv, HistoryInv
<1>. QED
  BY <1>1, RawInvariant, PTL

\* A batch that arrives is newer than all its date had, so dedupe_rank never
\* prefers an older write.
THEOREM NewestWins == Spec => []LaterIsNewer
<1>1. IInv => LaterIsNewer
  BY DEF IInv, HistoryInv
<1>. QED
  BY <1>1, RawInvariant, PTL

\* Rows a raw check refused are on no commit of `main`, whatever was retried.
THEOREM RefusedStaysOut == Spec => []NothingRefusedOnMain
<1>1. IInv => NothingRefusedOnMain
  BY DEF IInv, HistoryInv
<1>. QED
  BY <1>1, RawInvariant, PTL

\* With every writer in the lakehouse_write pool, the ledger check is enough:
\* no Delivery is on `main` twice.
THEOREM OnceUnderThePool == Runs \subseteq Pooled => (Spec => []DeliveredOnce)
<1>. SUFFICES ASSUME Runs \subseteq Pooled
              PROVE  Spec => []DeliveredOnce
  OBVIOUS
<1>1. IInv => DeliveredOnce
  BY DEF IInv, PoolInv
<1>. QED
  BY <1>1, RawInvariant, PTL

\* Every snapshot tag names the commit its own ingest's merge made.
THEOREM TagsNameTheirMerge == Spec => []TagNamesOwnMerge
<1>1. IInv => TagNamesOwnMerge
  BY DEF IInv
<1>. QED
  BY <1>1, RawInvariant, PTL

\* registry.delivery_committed never says what Raw did not hold.
THEOREM RegistryIsTrue == Spec => []CommittedIsTrue
<1>1. IInv => CommittedIsTrue
  BY DEF IInv
<1>. QED
  BY <1>1, RawInvariant, PTL

-----------------------------------------------------------------------------
\* A branch merge shows a reader of `main` one whole Delivery, newest of its
\* date and, under the pool, for the first time.
LEMMA MergeIsIngest ==
  ASSUME IInv, NEW r \in Runs, pc[r] = "merge", ~Conflicts(r),
         CommitToMain(Table(r), view[r])
  PROVE  Raw!Next
<1>0. /\ TypeOK /\ Table(r) \in Tables /\ Delivery(r) \in Deliveries
      /\ Main \in [Tables -> SUBSET Batch]
  BY MainType, RawAssumptions DEF IInv, TypeOK, Table, Delivery
<1>1. PICK b \in view[r] :
        /\ IsOwn(b, r)
        /\ NewerThanAll(b, Main[Table(r)])
        /\ Delivery(r) \notin Bad
        /\ view[r] = Main[Table(r)] \union {b}
  BY MergeContent
<1>2. view[r] \in SUBSET Batch /\ b \in Raw!Batch
  BY <1>0 DEF TypeOK, Batch, Raw!Batch
<1>3. Main' = [Main EXCEPT ![Table(r)] = Main[Table(r)] \union {b}]
  <2>1. Main' = [Main EXCEPT ![Table(r)] = view[r]]
    BY <1>0, <1>2, CommitEffect
  <2>. QED
    BY <1>1, <2>1
<1>4. b.delivery = Delivery(r) /\ TableOf[b.delivery] = Table(r)
  BY <1>1 DEF IsOwn, Table, Delivery
<1>5. Raw!NewerThanAll(b, Main[Table(r)])
  BY <1>1 DEF NewerThanAll, Raw!NewerThanAll, CobDate, Raw!CobDate
<1>6. Serialised => \A c \in Main[Table(r)] : c.delivery # b.delivery
  BY <1>4 DEF IInv, PoolInv, LedgerStaysTrue, AlreadyIngested, Serialised
<1>7. Raw!Ingest(b)
  BY <1>1, <1>3, <1>4, <1>5, <1>6 DEF Raw!Ingest
<1>. QED
  BY <1>2, <1>7 DEF Raw!Next

\* Raw ingestion implements the ledger: branches, retries, crashes and
\* housekeeping are invisible to a reader of `main`, who only ever sees a whole
\* Delivery arrive or a whole COB date expire.
THEOREM RawImplementsLedger == Spec => Implements
<1>1. Init => Raw!Init
  BY DEF Init, Raw!Init, Main, Empty, Raw!Empty
<1>2. IInv /\ [Next]_vars => [Raw!Next]_Main
  <2>. SUFFICES ASSUME IInv, [Next]_vars, Main' # Main
                PROVE  Raw!Next
    OBVIOUS
  <2>0. TypeOK /\ KeysSane /\ Main \in [Tables -> SUBSET Batch]
    BY MainType DEF IInv
  <2>1. history' # history
    BY DEF Main
  <2>2. ASSUME NEW r \in Runs, Step(r) \/ Failure(r)
        PROVE  Raw!Next
    <3>1. CASE Bootstrap(r)
      <4>1. /\ touched[Table(r)] = 0 /\ CommitToMain(Table(r), {})
            /\ Table(r) \in Tables
        BY <2>0, <2>1, <3>1, RawAssumptions DEF Bootstrap, catalog, Table
      <4>2. Main' = [Main EXCEPT ![Table(r)] = {}] /\ Main[Table(r)] = {}
        BY <2>0, <4>1, CommitEffect DEF KeysSane
      <4>. QED
        BY <2>0, <4>1, <4>2
    <3>2. CASE Merge(r) \/ MergeReplyLost(r)
      BY <3>2, MergeIsIngest DEF Merge, MergeReplyLost
    <3>. QED
      BY <2>1, <2>2, <3>1, <3>2
         DEF Step, Failure, Begin, ReadHistory, CheckLedger, CutBranch, Refuse,
             AppendRows, MergeRefused, DropBranch, RecordCommitted, RecordNoop,
             Pin, DropFails, RecordLost, NoopLost, PinLost, Crash, catalog
  <2>3. ASSUME NEW t \in Tables, NEW gone \in SUBSET Dates, Expire(t, gone)
        PROVE  Raw!Next
    <3>1. CommitToMain(t, {b \in Main[t] : CobDate(b) \notin gone})
      BY <2>3 DEF Expire
    <3>2. Main' = [Main EXCEPT ![t] = {b \in Main[t] : CobDate(b) \notin gone}]
      BY <2>0, <3>1, CommitEffect
    <3>3. Raw!Expire(t, gone)
      BY <3>2 DEF Raw!Expire, CobDate, Raw!CobDate
    <3>. QED
      BY <3>3 DEF Raw!Next
  <2>4. ASSUME NEW t \in Tables, Touch(t)
        PROVE  Raw!Next
    <3>1. Main' = [Main EXCEPT ![t] = Main[t]]
      BY <2>0, <2>4, CommitEffect DEF Touch
    <3>. QED
      BY <2>0, <3>1
  <2>5. ASSUME NEW t \in Tables, ReconcileCommitted(t)
        PROVE  Raw!Next
    BY <2>1, <2>5 DEF ReconcileCommitted, catalog
  <2>6. CASE UNCHANGED vars
    BY <2>1, <2>6 DEF vars
  <2>. QED
    BY <2>2, <2>3, <2>4, <2>5, <2>6 DEF Next, Housekeeping
<1>3. Spec => []IInv
  BY RawInvariant
<1>. QED
  BY <1>1, <1>2, <1>3, PTL DEF Spec, Implements, Raw!Spec
=============================================================================
