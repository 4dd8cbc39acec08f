--------------------------- MODULE Transport_proofs ---------------------------
(***************************************************************************)
(* Proofs about a Transport on both sides of its share.  The producer      *)
(* (TransportPublish), on a store that honours IfNoneMatch: its inductive  *)
(* invariant, and that it implements Handover, for any number of           *)
(* producers, files, contents, runs, faults and rewrites.  The consumer    *)
(* (TransportPipeline): its inductive invariant, and that it implements    *)
(* Carriage, for any Transports, contracts, tries and events.              *)
(***************************************************************************)
EXTENDS TransportPublish, TransportPipeline, TLAPS

(***************************************************************************)
(* The producer.                                                           *)
(***************************************************************************)
-----------------------------------------------------------------------------
(* What the three ways to leave a step do to the producer's own state.      *)

\* A producer that goes on keeps all it knows.
LEMMA ContinueEffect ==
  ASSUME LocalType, NEW p \in Producers, NEW label \in Labels, Continue(p, label)
  PROVE  /\ LocalType'
         /\ stage' = [stage EXCEPT ![p] = label]
         /\ file' = file /\ stat' = stat /\ sent' = sent /\ declared' = declared
<1>1. /\ stage' = [stage EXCEPT ![p] = label]
      /\ file' = file /\ stat' = stat /\ sent' = sent /\ declared' = declared
  BY DEF Continue, GoOn, locals
<1> QED
  BY <1>1 DEF LocalType

\* One that fails knows nothing.
LEMMA FailEffect ==
  ASSUME LocalType, NEW p \in Producers, GiveUp(p)
  PROVE  /\ LocalType'
         /\ stage' = [stage EXCEPT ![p] = "failed"]
         /\ file' = [file EXCEPT ![p] = 1]
         /\ sent' = [sent EXCEPT ![p] = Absent]
         /\ declared' = [declared EXCEPT ![p] = Nothing]
<1>1. stage' = [stage EXCEPT ![p] = "failed"] /\ "failed" \in Labels
  BY DEF GiveUp, GoOn, Labels
<1>2. file' = [file EXCEPT ![p] = 1] /\ 1 \in Files
  BY PublishAssumptions DEF GiveUp, Files
<1>3. stat' = [stat EXCEPT ![p] = 0] /\ 0 \in 0 .. MaxRewrites
  BY PublishAssumptions DEF GiveUp
<1>4. sent' = [sent EXCEPT ![p] = Absent]
  BY DEF GiveUp
<1>5. /\ declared' = [declared EXCEPT ![p] = Nothing]
      /\ Nothing \in [Files -> Contents \union {Absent}]
  BY DEF GiveUp, Nothing
<1> QED
  BY <1>1, <1>2, <1>3, <1>4, <1>5 DEF LocalType

\* One that declares a file has it declared, and stands at the next one or, if
\* there is none, before the marker.
LEMMA DeclareEffect ==
  ASSUME LocalType, NEW p \in Producers, NEW c \in Contents, Declare(p, c)
  PROVE  /\ LocalType'
         /\ stage' = [stage EXCEPT ![p] = IF file[p] < FileCount THEN "look" ELSE "marker?"]
         /\ file' = [file EXCEPT ![p] = IF @ < FileCount THEN @ + 1 ELSE @]
         /\ declared' = [declared EXCEPT ![p][file[p]] = c]
<1> USE PublishAssumptions
<1>1. /\ stage' = [stage EXCEPT ![p] = IF file[p] < FileCount THEN "look" ELSE "marker?"]
      /\ (IF file[p] < FileCount THEN "look" ELSE "marker?") \in Labels
  BY DEF Declare, GoOn, Labels
<1>2. /\ file' = [file EXCEPT ![p] = IF file[p] < FileCount THEN file[p] + 1 ELSE file[p]]
      /\ (IF file[p] < FileCount THEN file[p] + 1 ELSE file[p]) \in Files
  BY DEF Declare, Files, LocalType
<1>3. stat' = [stat EXCEPT ![p] = 0] /\ 0 \in 0 .. MaxRewrites
  BY DEF Declare
<1>4. sent' = [sent EXCEPT ![p] = Absent]
  BY DEF Declare
<1>5. declared' = [declared EXCEPT ![p] = [declared[p] EXCEPT ![file[p]] = c]]
  BY DEF Declare
<1>6. [declared[p] EXCEPT ![file[p]] = c] \in [Files -> Contents \union {Absent}]
  BY DEF LocalType
<1> QED
  BY <1>1, <1>2, <1>3, <1>4, <1>5, <1>6 DEF LocalType

-----------------------------------------------------------------------------
(* The invariant, producer by producer.                                     *)

OwnInv(p) == DeclaredIsStored(p) /\ ProducerProgress(p) /\ ReadsOwnFiles(p) /\ Agrees(p)

\* Nothing that is stored is replaced, and a marker, once there, stays.
StoreGrows ==
  /\ \A n \in Files : objects[n] # Absent => objects'[n] = objects[n]
  /\ marker # NoMarker => marker' = marker

\* Initially nothing is stored, declared or promised.
LEMMA PublishInitEstablishes == PublishInit => PublishInv
<1> SUFFICES ASSUME PublishInit PROVE PublishInv
  OBVIOUS
<1> USE PublishAssumptions
<1>1. StoreType /\ SourceType
  BY DEF PublishInit, StoreType, SourceType, Nothing
<1>2. LocalType /\ CountType
  BY DEF PublishInit, LocalType, CountType, Files, Labels, Nothing
<1>3. \A p \in Producers : OwnInv(p)
  BY DEF PublishInit, OwnInv, DeclaredIsStored, ProducerProgress, ReadsOwnFiles, Agrees, Nothing,
            Files
<1>4. MarkerIsTrue /\ OneIsNew /\ DeclaresOwnFiles
  BY DEF PublishInit, MarkerIsTrue, OneIsNew, DeclaresOwnFiles
<1> QED
  BY <1>1, <1>2, <1>3, <1>4 DEF PublishInv, PublishTypeOK, OwnInv, SuccessesAgree

\* A producer that does not move is not disturbed by what others store.
LEMMA OwnFrame ==
  ASSUME PublishInv, StoreGrows, NEW q \in Producers,
         UNCHANGED <<content, stamp, observed>>,
         stage'[q] = stage[q], file'[q] = file[q], sent'[q] = sent[q],
         declared'[q] = declared[q]
  PROVE  OwnInv(q)'
<1>1. LocalType /\ StoreType /\ DeclaredIsStored(q) /\ ProducerProgress(q)
      /\ ReadsOwnFiles(q) /\ Agrees(q)
  BY DEF PublishInv, PublishTypeOK, SuccessesAgree
<1>2. DeclaredIsStored(q)'
  <2>1. \A n \in Files : declared[q][n] # Absent => objects'[n] = declared[q][n]
    BY <1>1 DEF StoreGrows, DeclaredIsStored
  <2>2. stage[q] = "guard" => objects[file[q]] = sent[q] /\ sent[q] # Absent
    BY <1>1, PublishAssumptions DEF DeclaredIsStored, ProducerProgress, Here
  <2>3. stage[q] = "guard" => objects'[file[q]] = sent[q]
    BY <1>1, <2>2 DEF StoreGrows, LocalType
  <2> QED
    BY <2>1, <2>3 DEF DeclaredIsStored, Here
<1>3. ProducerProgress(q)'
  BY <1>1 DEF ProducerProgress, StoreGrows
<1>4. Agrees(q)'
  BY <1>1 DEF Agrees, SameEvidence, StoreGrows
<1>5. ReadsOwnFiles(q)'
  BY <1>1 DEF ReadsOwnFiles
<1> QED
  BY <1>2, <1>3, <1>4, <1>5 DEF OwnInv

\* What a step does to the store: nothing, or one object under a free key, or
\* the marker, of a producer that has declared every file.
LEMMA StoreStep ==
  ASSUME Conditional, PublishInv, NEW p \in Producers, ProducerStep(p) \/ Failure(p)
  PROVE  \/ UNCHANGED <<objects, marker, newly>>
         \/ /\ stage[p] = "put" /\ objects[file[p]] = Absent
            /\ objects' = [objects EXCEPT ![file[p]] = sent[p]]
            /\ UNCHANGED <<marker, newly>>
         \/ /\ stage[p] = "marker" /\ marker = NoMarker
            /\ marker' = Candidate(p)
            /\ newly' \in {newly, newly \union {p}}
            /\ UNCHANGED objects
<1> USE DEF store
<1>1. CASE Put(p) \/ PutReplyLost(p)
  BY <1>1 DEF Put, PutReplyLost, Creates, Here
<1>2. CASE PutMarker(p) \/ MarkerReplyLost(p)
  BY <1>2 DEF PutMarker, MarkerReplyLost, Creates
<1>3. CASE Begin(p) \/ LookUp(p) \/ ReadFile(p) \/ Confirm(p) \/ Guard(p)
  BY <1>3 DEF Begin, LookUp, ReadFile, Confirm, Guard
<1>4. CASE GuardReuse(p) \/ ConfirmReuse(p) \/ FindMarker(p) \/ Compare(p) \/ Crash(p)
  BY <1>4 DEF GuardReuse, ConfirmReuse, FindMarker, Compare, Crash
<1> QED
  BY <1>1, <1>2, <1>3, <1>4 DEF ProducerStep, Failure

\* So what is stored stays, and so does the marker.
LEMMA StepGrows ==
  ASSUME Conditional, PublishInv, NEW p \in Producers, ProducerStep(p) \/ Failure(p)
  PROVE  StoreGrows
<1>1. objects \in [Files -> Contents \union {Absent}] /\ file[p] \in Files
  BY DEF PublishInv, PublishTypeOK, StoreType, LocalType
<1> QED
  BY <1>1, StoreStep DEF StoreGrows

\* No producer changes a local file.
LEMMA SourceStays ==
  ASSUME NEW p \in Producers, ProducerStep(p) \/ Failure(p)
  PROVE  UNCHANGED source
<1>1. CASE ProducerStep(p)
  BY <1>1 DEF ProducerStep, Begin, LookUp, ReadFile, Put, Confirm, Guard, GuardReuse,
              ConfirmReuse, FindMarker, PutMarker, Compare
<1>2. CASE Failure(p)
  BY <1>2 DEF Failure, PutReplyLost, MarkerReplyLost, Crash
<1> QED
  BY <1>1, <1>2

\* A step of a producer is a step of its own: nobody else's state changes.
LEMMA StepIsLocal ==
  ASSUME PublishInv, NEW p \in Producers, ProducerStep(p) \/ Failure(p),
         NEW q \in Producers \ {p}
  PROVE  /\ stage'[q] = stage[q] /\ file'[q] = file[q] /\ sent'[q] = sent[q]
         /\ declared'[q] = declared[q]
<1> USE DEF Continue, GoOn, GiveUp, Declare, store, source, locals
<1>1. LocalType
  BY DEF PublishInv, PublishTypeOK
<1> USE <1>1 DEF LocalType
<1>2. CASE Begin(p) \/ LookUp(p) \/ ReadFile(p) \/ Put(p) \/ FindMarker(p) \/ PutMarker(p)
  BY <1>2 DEF Begin, LookUp, ReadFile, Put, FindMarker, PutMarker
<1>3. CASE Confirm(p) \/ Guard(p) \/ GuardReuse(p)
  BY <1>3 DEF Confirm, Guard, GuardReuse
<1>4. CASE ConfirmReuse(p) \/ Compare(p) \/ Crash(p)
  BY <1>4 DEF ConfirmReuse, Compare, Crash
<1>5. CASE PutReplyLost(p) \/ MarkerReplyLost(p)
  BY <1>5 DEF PutReplyLost, MarkerReplyLost
<1> QED
  BY <1>2, <1>3, <1>4, <1>5 DEF ProducerStep, Failure

\* A producer that fails is where it was before it began.
LEMMA OwnFail ==
  ASSUME LocalType, NEW p \in Producers, GiveUp(p)
  PROVE  OwnInv(p)'
<1>1. /\ stage'[p] = "failed" /\ file'[p] = 1 /\ sent'[p] = Absent
      /\ declared'[p] = Nothing
  BY FailEffect DEF LocalType
<1> QED
  BY <1>1 DEF OwnInv, DeclaredIsStored, ProducerProgress, ReadsOwnFiles, Agrees, Nothing

\* Files come one after the other.
LEMMA FileOrder ==
  ASSUME NEW k \in Files
  PROVE  /\ \A n \in 1 .. k : n \in Files /\ (n = k \/ n \in 1 .. k - 1)
         /\ k < FileCount => (k + 1) - 1 = k
         /\ ~(k < FileCount) => Files = 1 .. k
<1>1. FileCount \in Nat /\ k \in 1 .. FileCount
  BY PublishAssumptions DEF Files
<1>2. ~(k < FileCount) => FileCount = k
  BY <1>1
<1>3. \A n \in 1 .. k : n \in 1 .. FileCount /\ (n = k \/ n \in 1 .. k - 1)
  BY <1>1
<1> QED
  BY <1>1, <1>2, <1>3 DEF Files

\* A producer that declares what it read, which is what is stored, is the
\* further for it.
LEMMA OwnDeclare ==
  ASSUME PublishInv, NEW p \in Producers, UNCHANGED <<store, source>>,
         stage[p] \in {"guard", "confirm reuse"}, Here(p) = sent[p],
         Declare(p, sent[p])
  PROVE  OwnInv(p)'
<1> USE PublishAssumptions
<1>1. /\ LocalType /\ DeclaredIsStored(p) /\ ProducerProgress(p) /\ ReadsOwnFiles(p)
      /\ file[p] \in Files /\ sent[p] \in Contents
  BY DEF PublishInv, PublishTypeOK, LocalType, ProducerProgress
<1>2. /\ stage'[p] = IF file[p] < FileCount THEN "look" ELSE "marker?"
      /\ file'[p] = IF file[p] < FileCount THEN file[p] + 1 ELSE file[p]
      /\ declared'[p] = [declared[p] EXCEPT ![file[p]] = sent[p]]
      /\ sent'[p] = Absent
  <2> DEFINE next == IF file[p] < FileCount THEN "look" ELSE "marker?"
  <2>1. stage' = [stage EXCEPT ![p] = next]
    BY DEF Declare, GoOn
  <2>2. file' = [file EXCEPT ![p] = IF file[p] < FileCount THEN file[p] + 1 ELSE file[p]]
    BY DEF Declare
  <2>3. declared' = [declared EXCEPT ![p] = [declared[p] EXCEPT ![file[p]] = sent[p]]]
    BY DEF Declare
  <2>4. sent' = [sent EXCEPT ![p] = Absent]
    BY DEF Declare
  <2> HIDE DEF next
  <2>5. stage'[p] = next
    BY <1>1, <2>1 DEF LocalType
  <2> QED
    BY <1>1, <2>2, <2>3, <2>4, <2>5 DEF LocalType, next
<1>3. declared[p] \in [Files -> Contents \union {Absent}]
  BY <1>1 DEF LocalType
<1>4. \A n \in Files : declared'[p][n] = IF n = file[p] THEN sent[p] ELSE declared[p][n]
  BY <1>1, <1>2, <1>3
<1>5. DeclaredIsStored(p)'
  BY <1>1, <1>2, <1>4 DEF DeclaredIsStored, Here, store
<1>6. ProducerProgress(p)'
  <2>1. \A n \in 1 .. file[p] : declared'[p][n] # Absent
    <3>1. \A n \in 1 .. file[p] - 1 : declared[p][n] # Absent
      BY DEF PublishInv, ProducerProgress
    <3> QED
      BY <1>1, <1>4, <3>1, FileOrder
  <2>2. CASE file[p] < FileCount
    <3>1. stage'[p] = "look" /\ file'[p] - 1 = file[p]
      BY <1>1, <1>2, <2>2, FileOrder
    <3> QED
      BY <2>1, <3>1 DEF ProducerProgress
  <2>3. CASE ~(file[p] < FileCount)
    <3>1. stage'[p] = "marker?" /\ Files = 1 .. file[p]
      BY <1>1, <1>2, <2>3, FileOrder
    <3> QED
      BY <2>1, <3>1 DEF ProducerProgress
  <2> QED
    BY <2>2, <2>3
<1>7. ReadsOwnFiles(p)'
  BY <1>1, <1>2, <1>4 DEF ReadsOwnFiles, source
<1>8. Agrees(p)'
  BY <1>2 DEF Agrees
<1> QED
  BY <1>5, <1>6, <1>7, <1>8 DEF OwnInv

\* A producer that goes on without the store or its files having changed, to a
\* step that asks for no more than it has.
LEMMA OwnContinue ==
  ASSUME Conditional, PublishInv, NEW p \in Producers, NEW label \in Labels,
         ProducerStep(p) \/ Failure(p), Continue(p, label),
         label = "guard" => objects'[file[p]] = sent[p],
         label = "done" => marker' # NoMarker /\ SameEvidence(p)',
         label = "compare" => marker' # NoMarker,
         label \in {"put", "confirm", "guard", "guard reuse", "confirm reuse"} =>
           sent[p] \in Contents,
         label \in {"look", "read", "hash", "put", "confirm", "guard",
                   "guard reuse", "confirm reuse"} =>
           \A n \in 1 .. file[p] - 1 : declared[p][n] # Absent,
         label \in {"marker?", "marker", "compare", "done"} =>
           \A n \in Files : declared[p][n] # Absent,
         label \notin {"idle", "failed"}
  PROVE  OwnInv(p)'
<1>1. LocalType /\ DeclaredIsStored(p) /\ ReadsOwnFiles(p)
  BY DEF PublishInv, PublishTypeOK
<1>2. /\ stage'[p] = label
      /\ file' = file /\ sent' = sent /\ declared' = declared
  <2>1. /\ stage' = [stage EXCEPT ![p] = label]
        /\ file' = file /\ sent' = sent /\ declared' = declared
    BY DEF Continue, GoOn, locals
  <2>2. stage \in [Producers -> Labels]
    BY <1>1 DEF LocalType
  <2> QED
    BY <2>1, <2>2
<1>3. DeclaredIsStored(p)'
  <2>1. \A n \in Files : declared[p][n] # Absent => objects'[n] = declared[p][n]
    BY <1>1, StepGrows DEF DeclaredIsStored, StoreGrows
  <2> QED
    BY <1>2, <2>1 DEF DeclaredIsStored, Here
<1>4. ProducerProgress(p)'
  BY <1>2 DEF ProducerProgress
<1>5. ReadsOwnFiles(p)'
  <2>1. UNCHANGED <<content, stamp>>
    BY SourceStays DEF source
  <2> QED
    BY <1>1, <1>2, <2>1 DEF ReadsOwnFiles
<1>6. Agrees(p)'
  BY <1>2 DEF Agrees
<1> QED
  BY <1>3, <1>4, <1>5, <1>6 DEF OwnInv

\* Every step of a producer keeps what is known of the producer itself.
LEMMA ProducerOwnStep ==
  ASSUME Conditional, PublishInv, NEW p \in Producers, ProducerStep(p) \/ Failure(p)
  PROVE  LocalType' /\ OwnInv(p)'
<1>1. /\ LocalType /\ SourceType /\ DeclaredIsStored(p) /\ ProducerProgress(p)
      /\ ReadsOwnFiles(p) /\ Agrees(p)
      /\ StoreType /\ MarkerIsTrue
  BY DEF PublishInv, PublishTypeOK, SuccessesAgree
<1>2. file[p] \in Files /\ stage[p] \in Labels
  BY <1>1 DEF LocalType
<1>3. StoreGrows
  BY StepGrows
<1>a. CASE Begin(p)
  <2>1. Continue(p, "look") /\ "look" \in Labels /\ file[p] = 1
    BY <1>1, <1>a DEF Begin, Labels, ProducerProgress
  <2>2. \A n \in 1 .. 1 - 1 : FALSE
    OBVIOUS
  <2> QED
    BY <1>1, <2>1, <2>2, OwnContinue, ContinueEffect
<1>b. CASE LookUp(p)
  <2>1. /\ stage[p] = "look"
        /\ stat' = [stat EXCEPT ![p] = stamp[p][file[p]]]
        /\ stage' = [stage EXCEPT ![p] = IF Here(p) = Absent THEN "read" ELSE "hash"]
        /\ UNCHANGED <<store, source, file, sent, declared>>
    BY <1>b DEF LookUp, GoOn
  <2>2. stamp[p][file[p]] \in 0 .. MaxRewrites
    BY <1>1, <1>2 DEF SourceType
  <2>3. stage'[p] \in {"read", "hash"}
    BY <1>1, <2>1 DEF LocalType
  <2>4. LocalType'
    BY <1>1, <2>1, <2>2 DEF LocalType, Labels
  <2>5. DeclaredIsStored(p)' /\ ReadsOwnFiles(p)' /\ Agrees(p)'
    BY <1>1, <2>1, <2>3 DEF DeclaredIsStored, Here, ReadsOwnFiles, Agrees, store, source
  <2>6. ProducerProgress(p)'
    BY <1>1, <2>1, <2>3 DEF ProducerProgress
  <2> QED
    BY <2>4, <2>5, <2>6 DEF OwnInv
<1>c. CASE ReadFile(p)
  <2>1. /\ stage[p] \in {"read", "hash"}
        /\ sent' = [sent EXCEPT ![p] = content[p][file[p]]]
        /\ stage' = [stage EXCEPT ![p] = IF stage[p] = "read" THEN "put" ELSE "guard reuse"]
        /\ UNCHANGED <<store, source, file, stat, declared>>
    BY <1>c DEF ReadFile, GoOn
  <2>2. content[p][file[p]] \in Contents
    BY <1>1, <1>2 DEF SourceType
  <2>3. stage'[p] \in {"put", "guard reuse"} /\ sent'[p] = content[p][file[p]]
    BY <1>1, <2>1 DEF LocalType
  <2>4. LocalType'
    BY <1>1, <2>1, <2>2 DEF LocalType, Labels
  <2>5. DeclaredIsStored(p)' /\ ReadsOwnFiles(p)' /\ Agrees(p)'
    BY <1>1, <2>1, <2>3 DEF DeclaredIsStored, Here, ReadsOwnFiles, Agrees, store, source
  <2>6. ProducerProgress(p)'
    BY <1>1, <2>1, <2>2, <2>3 DEF ProducerProgress
  <2> QED
    BY <2>4, <2>5, <2>6 DEF OwnInv
<1>d. CASE Put(p)
  <2>1. PICK label \in {"guard", "confirm"} :
          /\ Continue(p, label)
          /\ label = "guard" => objects' = [objects EXCEPT ![file[p]] = sent[p]]
    BY <1>d DEF Put
  <2>2. stage[p] = "put" /\ label \in Labels
    BY <1>d DEF Put, Labels
  <2>3. label = "guard" => objects'[file[p]] = sent[p]
    BY <1>1, <1>2, <2>1 DEF StoreType
  <2> QED
    BY <1>1, <2>1, <2>2, <2>3, OwnContinue, ContinueEffect DEF ProducerProgress
<1>e. CASE PutReplyLost(p)
  <2>1. stage[p] = "put" /\ (GiveUp(p) \/ \E label \in {"put", "read"} : Continue(p, label))
    BY <1>e DEF PutReplyLost
  <2>2. ASSUME NEW label \in {"put", "read"}, Continue(p, label)
        PROVE  LocalType' /\ OwnInv(p)'
    BY <1>1, <2>1, <2>2, OwnContinue, ContinueEffect DEF ProducerProgress, Labels
  <2> QED
    BY <1>1, <2>1, <2>2, OwnFail, FailEffect
<1>f. CASE Confirm(p)
  <2>1. /\ stage[p] = "confirm" /\ UNCHANGED objects
        /\ GiveUp(p) \/ (Here(p) = sent[p] /\ Continue(p, "guard"))
    BY <1>f DEF Confirm, store
  <2>2. ASSUME Here(p) = sent[p], Continue(p, "guard") PROVE LocalType' /\ OwnInv(p)'
    BY <1>1, <2>1, <2>2, OwnContinue, ContinueEffect DEF ProducerProgress, Labels, Here
  <2> QED
    BY <1>1, <2>1, <2>2, OwnFail, FailEffect
<1>g. CASE Guard(p)
  <2>1. /\ stage[p] = "guard" /\ UNCHANGED <<store, source>>
        /\ GiveUp(p) \/ Declare(p, sent[p])
    BY <1>g DEF Guard
  <2>2. Here(p) = sent[p] /\ sent[p] \in Contents
    BY <1>1, <2>1 DEF DeclaredIsStored, ProducerProgress
  <2> QED
    BY <1>1, <2>1, <2>2, OwnFail, FailEffect, OwnDeclare, DeclareEffect
<1>h. CASE GuardReuse(p)
  <2>1. stage[p] = "guard reuse" /\ (GiveUp(p) \/ Continue(p, "confirm reuse"))
    BY <1>h DEF GuardReuse
  <2>2. ASSUME Continue(p, "confirm reuse") PROVE LocalType' /\ OwnInv(p)'
    BY <1>1, <2>1, <2>2, OwnContinue, ContinueEffect DEF ProducerProgress, Labels
  <2> QED
    BY <1>1, <2>1, <2>2, OwnFail, FailEffect
<1>i. CASE ConfirmReuse(p)
  <2>1. /\ stage[p] = "confirm reuse" /\ UNCHANGED <<store, source>>
        /\ GiveUp(p) \/ (Here(p) = sent[p] /\ Declare(p, sent[p]))
    BY <1>i DEF ConfirmReuse
  <2>2. sent[p] \in Contents
    BY <1>1, <2>1 DEF ProducerProgress
  <2> QED
    BY <1>1, <2>1, <2>2, OwnFail, FailEffect, OwnDeclare, DeclareEffect
<1>j. CASE FindMarker(p)
  <2>1. PICK label \in {"marker", "compare"} :
          /\ stage[p] = "marker?" /\ Continue(p, label) /\ UNCHANGED marker
          /\ label = "compare" => marker # NoMarker
    BY <1>j DEF FindMarker, store
  <2>2. label \in Labels
    BY DEF Labels
  <2> QED
    BY <1>1, <2>1, <2>2, OwnContinue, ContinueEffect DEF ProducerProgress
<1>k. CASE PutMarker(p)
  <2>1. stage[p] = "marker"
    BY <1>k DEF PutMarker
  <2>2. CASE marker = NoMarker
    <3>1. marker' = Candidate(p) /\ Continue(p, "done") /\ UNCHANGED source
      BY <1>k, <2>2 DEF PutMarker, Creates
    <3>2. marker' # NoMarker
      BY <3>1, PublishAssumptions DEF Candidate, NoMarker
    <3>3. SameEvidence(p)'
      BY <3>1 DEF SameEvidence, Candidate, Continue, locals, source
    <3> QED
      BY <1>1, <2>1, <3>1, <3>2, <3>3, OwnContinue, ContinueEffect DEF ProducerProgress, Labels
  <2>3. CASE marker # NoMarker
    <3>1. Continue(p, "compare") /\ UNCHANGED marker
      BY <1>k, <2>3 DEF PutMarker, Creates
    <3> QED
      BY <1>1, <2>1, <2>3, <3>1, OwnContinue, ContinueEffect DEF ProducerProgress, Labels
  <2> QED
    BY <2>2, <2>3
<1>l. CASE MarkerReplyLost(p)
  <2>1. stage[p] = "marker" /\ (GiveUp(p) \/ Continue(p, "marker"))
    BY <1>l DEF MarkerReplyLost
  <2>2. ASSUME Continue(p, "marker") PROVE LocalType' /\ OwnInv(p)'
    BY <1>1, <2>1, <2>2, OwnContinue, ContinueEffect DEF ProducerProgress, Labels
  <2> QED
    BY <1>1, <2>1, <2>2, OwnFail, FailEffect
<1>m. CASE Compare(p)
  <2>1. /\ stage[p] = "compare" /\ UNCHANGED <<marker, source>>
        /\ GiveUp(p) \/ (SameEvidence(p) /\ Continue(p, "done"))
    BY <1>m DEF Compare, store
  <2>2. ASSUME SameEvidence(p), Continue(p, "done") PROVE LocalType' /\ OwnInv(p)'
    <3>1. SameEvidence(p)' /\ marker' # NoMarker
      BY <1>1, <2>1, <2>2 DEF SameEvidence, Continue, locals, source, ProducerProgress
    <3> QED
      BY <1>1, <2>1, <2>2, <3>1, OwnContinue, ContinueEffect DEF ProducerProgress, Labels
  <2> QED
    BY <1>1, <2>1, <2>2, OwnFail, FailEffect
<1>n. CASE Crash(p)
  BY <1>1, <1>n, OwnFail, FailEffect DEF Crash
<1> QED
  BY <1>a, <1>b, <1>c, <1>d, <1>e, <1>f, <1>g, <1>h, <1>i, <1>j, <1>k, <1>l, <1>m, <1>n
  DEF ProducerStep, Failure

\* A step keeps what is said of the store.
LEMMA StoreStepTypes ==
  ASSUME Conditional, PublishInv, NEW p \in Producers, ProducerStep(p) \/ Failure(p)
  PROVE  StoreType'
<1>1. StoreType /\ SourceType /\ LocalType /\ ProducerProgress(p)
  BY DEF PublishInv, PublishTypeOK
<1>2. CASE UNCHANGED <<objects, marker>>
  BY <1>1, <1>2 DEF StoreType
<1>3. CASE objects' = [objects EXCEPT ![file[p]] = sent[p]] /\ UNCHANGED marker
  <2>1. sent[p] \in Contents \union {Absent} /\ file[p] \in Files
    BY <1>1 DEF LocalType
  <2> QED
    BY <1>1, <1>3, <2>1 DEF StoreType
<1>4. CASE stage[p] = "marker" /\ marker' = Candidate(p) /\ UNCHANGED objects
  <2>1. declared[p] \in [Files -> Contents]
    BY <1>1, <1>4 DEF LocalType, ProducerProgress
  <2>2. observed[p] \in Observed
    BY <1>1 DEF SourceType
  <2> QED
    BY <1>1, <1>4, <2>1, <2>2 DEF StoreType, Candidate
<1> QED
  BY <1>2, <1>3, <1>4, StoreStep

\* The bounds' own counters.
LEMMA StepCounts ==
  ASSUME PublishInv, NEW p \in Producers, ProducerStep(p) \/ Failure(p)
  PROVE  CountType'
<1>1. CountType
  BY DEF PublishInv, PublishTypeOK
<1>2. CASE Begin(p)
  <2>1. tries' = [tries EXCEPT ![p] = tries[p] + 1] /\ tries[p] + 1 \in 0 .. MaxRuns
    BY <1>1, <1>2, PublishAssumptions DEF Begin, CountType
  <2> QED
    BY <1>1, <1>2, <2>1 DEF Begin, CountType, source
<1>3. ASSUME UNCHANGED <<tries, rewrites>>, newly' \in {newly, newly \union {p}},
             faults' = faults \/ Fault
      PROVE  CountType'
  <2>1. faults' \in 0 .. MaxFaults
    BY <1>1, <1>3, PublishAssumptions DEF CountType, Fault
  <2> QED
    BY <1>1, <1>3, <2>1 DEF CountType
<1>4. CASE ProducerStep(p) /\ ~Begin(p)
  BY <1>3, <1>4 DEF ProducerStep, LookUp, ReadFile, Put, Confirm, Guard, GuardReuse, ConfirmReuse,
                    FindMarker, PutMarker, Compare, source
<1>5. CASE Failure(p)
  BY <1>3, <1>5 DEF Failure, PutReplyLost, MarkerReplyLost, Crash, source
<1> QED
  BY <1>2, <1>4, <1>5

\* The marker is written once, by a producer all of whose files are stored as it
\* declares them.
LEMMA StepMarker ==
  ASSUME Conditional, PublishInv, NEW p \in Producers, ProducerStep(p) \/ Failure(p)
  PROVE  MarkerIsTrue' /\ OneIsNew' /\ DeclaresOwnFiles'
<1>1. /\ StoreType /\ LocalType /\ CountType
      /\ DeclaredIsStored(p) /\ ProducerProgress(p) /\ ReadsOwnFiles(p)
      /\ MarkerIsTrue /\ OneIsNew /\ DeclaresOwnFiles
  BY DEF PublishInv, PublishTypeOK
<1>2. UNCHANGED <<content, stamp>>
  BY SourceStays DEF source
<1>3. CASE UNCHANGED <<objects, marker, newly>>
  BY <1>1, <1>2, <1>3 DEF MarkerIsTrue, OneIsNew, DeclaresOwnFiles
<1>4. CASE /\ objects[file[p]] = Absent
           /\ UNCHANGED <<marker, newly>>
  <2>1. marker = NoMarker
    <3>1. marker # NoMarker => objects \in [Files -> Contents]
      BY <1>1 DEF MarkerIsTrue, StoreType
    <3>2. file[p] \in Files
      BY <1>1 DEF LocalType
    <3> QED
      BY <1>4, <3>1, <3>2, PublishAssumptions
  <2> QED
    BY <1>1, <1>4, <2>1 DEF MarkerIsTrue, OneIsNew, DeclaresOwnFiles
<1>5. CASE /\ stage[p] = "marker" /\ marker = NoMarker
           /\ marker' = Candidate(p)
           /\ newly' \in {newly, newly \union {p}}
           /\ UNCHANGED objects
  <2>1. \A n \in Files : declared[p][n] # Absent /\ objects[n] = declared[p][n]
    BY <1>1, <1>5 DEF ProducerProgress, DeclaredIsStored
  <2>2. objects = declared[p]
    BY <1>1, <2>1 DEF StoreType, LocalType
  <2>3. MarkerIsTrue'
    BY <1>5, <2>2 DEF MarkerIsTrue, Candidate
  <2>4. newly = {}
    BY <1>1, <1>5, PublishAssumptions DEF OneIsNew, NoMarker, CountType
  <2>5. OneIsNew'
    BY <1>5, <2>4 DEF OneIsNew, Candidate
  <2>6. DeclaresOwnFiles'
    BY <1>1, <1>2, <1>5, <2>1 DEF DeclaresOwnFiles, ReadsOwnFiles, Candidate
  <2> QED
    BY <2>3, <2>5, <2>6
<1> QED
  BY <1>3, <1>4, <1>5, StoreStep

\* A rewritten file has a stamp that says so, and nothing else changes.
LEMMA RewriteStep ==
  ASSUME PublishInv, NEW p \in Producers, NEW k \in Files, NEW c \in Contents,
         Rewrite(p, k, c)
  PROVE  PublishInv'
<1> USE PublishAssumptions
<1>1. /\ PublishTypeOK /\ SourceType /\ CountType
      /\ \A q \in Producers : DeclaredIsStored(q) /\ ProducerProgress(q) /\ ReadsOwnFiles(q)
      /\ MarkerIsTrue /\ SuccessesAgree /\ OneIsNew /\ DeclaresOwnFiles
  BY DEF PublishInv, PublishTypeOK
<1>2. /\ stamp' = [stamp EXCEPT ![p] = [stamp[p] EXCEPT ![k] = rewrites']]
      /\ content' = [content EXCEPT ![p] = [content[p] EXCEPT ![k] = c]]
      /\ rewrites' = rewrites + 1 /\ rewrites < MaxRewrites
      /\ UNCHANGED <<objects, marker, observed, stage, tries, file, stat, sent, declared,
                      newly, faults>>
  BY DEF Rewrite, store, locals
<1>3. rewrites' \in 0 .. MaxRewrites /\ rewrites' > 0
  BY <1>1, <1>2 DEF CountType
<1>4. SourceType'
  <2>1. [stamp[p] EXCEPT ![k] = rewrites'] \in [Files -> 0 .. MaxRewrites]
    BY <1>1, <1>3 DEF SourceType
  <2>2. [content[p] EXCEPT ![k] = c] \in [Files -> Contents]
    BY <1>1 DEF SourceType
  <2> QED
    BY <1>1, <1>2, <2>1, <2>2 DEF SourceType
<1>5. PublishTypeOK'
  BY <1>1, <1>2, <1>3, <1>4 DEF PublishTypeOK, StoreType, LocalType, CountType
<1>6. \A q \in Producers, n \in Files :
        \/ stamp'[q][n] > 0
        \/ stamp'[q][n] = stamp[q][n] /\ content'[q][n] = content[q][n]
  BY <1>1, <1>2, <1>3 DEF SourceType
<1>7. ASSUME NEW q \in Producers
      PROVE  DeclaredIsStored(q)' /\ ProducerProgress(q)' /\ ReadsOwnFiles(q)' /\ Agrees(q)'
  <2>1. DeclaredIsStored(q)' /\ ProducerProgress(q)'
    BY <1>1, <1>2 DEF DeclaredIsStored, Here, ProducerProgress
  <2>2. ReadsOwnFiles(q)'
    BY <1>1, <1>2, <1>6 DEF ReadsOwnFiles
  <2>3. Agrees(q)'
    BY <1>1, <1>2 DEF SuccessesAgree, Agrees, SameEvidence
  <2> QED
    BY <2>1, <2>2, <2>3
<1>8. MarkerIsTrue' /\ OneIsNew'
  BY <1>1, <1>2 DEF MarkerIsTrue, OneIsNew
<1>9. DeclaresOwnFiles'
  <2>1. marker # NoMarker => marker.by \in Producers
    BY <1>1 DEF PublishTypeOK, StoreType
  <2> QED
    BY <1>1, <1>2, <1>6, <2>1 DEF DeclaresOwnFiles
<1> QED
  BY <1>5, <1>7, <1>8, <1>9 DEF PublishInv, SuccessesAgree

\* Every step keeps the invariant.
LEMMA PublishNextKeeps ==
  ASSUME Conditional, PublishInv, [PublishNext]_publishVars
  PROVE  PublishInv'
<1>1. ASSUME NEW p \in Producers, ProducerStep(p) \/ Failure(p) PROVE PublishInv'
  <2>1. LocalType' /\ OwnInv(p)'
    BY <1>1, ProducerOwnStep
  <2>2. UNCHANGED <<content, stamp, observed, rewrites>>
    BY <1>1, SourceStays DEF source
  <2>3. SourceType'
    BY <2>2 DEF PublishInv, PublishTypeOK, SourceType
  <2>4. ASSUME NEW q \in Producers \ {p} PROVE OwnInv(q)'
    BY <1>1, <2>2, <2>4, StepIsLocal, StepGrows, OwnFrame
  <2>5. PublishTypeOK'
    BY <1>1, <2>1, <2>3, StoreStepTypes, StepCounts DEF PublishTypeOK
  <2> QED
    BY <1>1, <2>1, <2>4, <2>5, StepMarker DEF PublishInv, OwnInv, SuccessesAgree
<1>2. CASE UNCHANGED publishVars
  <2>1. PublishTypeOK'
    BY <1>2 DEF PublishInv, PublishTypeOK, StoreType, SourceType, LocalType, CountType, publishVars
  <2>2. ASSUME NEW q \in Producers
        PROVE  DeclaredIsStored(q)' /\ ProducerProgress(q)' /\ ReadsOwnFiles(q)' /\ Agrees(q)'
    <3>1. DeclaredIsStored(q)'
      BY <1>2 DEF PublishInv, DeclaredIsStored, Here, publishVars
    <3>2. ProducerProgress(q)'
      BY <1>2 DEF PublishInv, ProducerProgress, Here, publishVars
    <3>3. ReadsOwnFiles(q)'
      BY <1>2 DEF PublishInv, ReadsOwnFiles, publishVars
    <3>4. Agrees(q)'
      BY <1>2 DEF PublishInv, SuccessesAgree, Agrees, SameEvidence, publishVars
    <3> QED
      BY <3>1, <3>2, <3>3, <3>4
  <2>3. MarkerIsTrue' /\ OneIsNew' /\ DeclaresOwnFiles'
    BY <1>2 DEF PublishInv, MarkerIsTrue, OneIsNew, DeclaresOwnFiles, publishVars
  <2> QED
    BY <2>1, <2>2, <2>3 DEF PublishInv, SuccessesAgree
<1> QED
  BY <1>1, <1>2, RewriteStep DEF PublishNext

-----------------------------------------------------------------------------
(* Theorems.  All of them are about a store that honours IfNoneMatch; on one *)
(* that does not, MarkerIsTrue fails (TransportUnconditional.cfg).           *)

\* The invariant of TransportRace, for any instance: publish_transport.
THEOREM PublishInvariant == Conditional => (PublishSpec => []PublishInv)
<1>1. ASSUME Conditional, PublishInv, [PublishNext]_publishVars PROVE PublishInv'
  BY <1>1, PublishNextKeeps
<1>2. ASSUME Conditional PROVE PublishSpec => []PublishInv
  <2>1. PublishInv /\ [PublishNext]_publishVars => PublishInv'
    BY <1>1, <1>2
  <2> QED
    BY PublishInitEstablishes, <2>1, PTL DEF PublishSpec
<1> QED
  BY <1>2

\* "_COMPLETE.json is never published describing evidence that does not match
\* what is durably stored" (publisher.py, publish_transport_result).
THEOREM MarkerIsAlwaysTrue == Conditional => (PublishSpec => []MarkerIsTrue)
<1>1. PublishInv => MarkerIsTrue
  BY DEF PublishInv
<1> QED
  BY <1>1, PublishInvariant, PTL

\* Whoever returned successfully agrees with the marker (_require_same).
THEOREM SuccessesAlwaysAgree == Conditional => (PublishSpec => []SuccessesAgree)
<1>1. PublishInv => SuccessesAgree
  BY DEF PublishInv
<1> QED
  BY <1>1, PublishInvariant, PTL

\* newly_published is reported by one producer at most, the marker's.
THEOREM OneIsEverNew == Conditional => (PublishSpec => []OneIsNew)
<1>1. PublishInv => OneIsNew
  BY DEF PublishInv
<1> QED
  BY <1>1, PublishInvariant, PTL

\* The marker declares its producer's own files (publish_object's reuse).
THEOREM MarkerDeclaresOwn == Conditional => (PublishSpec => []DeclaresOwnFiles)
<1>1. PublishInv => DeclaresOwnFiles
  BY DEF PublishInv
<1> QED
  BY <1>1, PublishInvariant, PTL

\* TransportPublish implements Handover: the marker is the step that completes
\* the Transport, and nothing changes what it declares afterwards.
THEOREM PublishImplementsHandover == Conditional => (PublishSpec => ImplementsHandover)
<1> DEFINE ev == IF marker = NoMarker THEN Absent
                   ELSE [files |-> objects, observed |-> marker.observed]
<1>1. PublishInit => Handed!Init
  BY DEF PublishInit, Handed!Init
<1>2. ASSUME Conditional, PublishInv, [PublishNext]_publishVars PROVE [Handed!Complete]_ev
  <2>1. MarkerIsTrue /\ MarkerIsTrue' /\ StoreType /\ StoreType'
    BY <1>2, PublishNextKeeps DEF PublishInv, PublishTypeOK
  <2>2. StoreGrows
    <3>1. ASSUME NEW p \in Producers, NEW n \in Files, NEW c \in Contents, Rewrite(p, n, c)
          PROVE  StoreGrows
      BY <3>1 DEF Rewrite, StoreGrows, store
    <3>2. CASE UNCHANGED publishVars
      BY <3>2 DEF publishVars, StoreGrows
    <3> QED
      BY <1>2, <3>1, <3>2, StepGrows DEF PublishNext
  <2>3. CASE marker # NoMarker
    <3>1. marker' = marker
      BY <2>2, <2>3 DEF StoreGrows
    <3>2. objects' = objects
      BY <2>1, <2>3, <3>1 DEF MarkerIsTrue
    <3> QED
      BY <3>1, <3>2
  <2>4. CASE marker = NoMarker /\ marker' = NoMarker
    BY <2>4
  <2>5. CASE marker = NoMarker /\ marker' # NoMarker
    <3>1. marker' \in [files: [Files -> Contents], observed: Observed, by: Producers]
      BY <2>1, <2>5 DEF StoreType
    <3>2. objects' = marker'.files
      BY <2>1, <2>5 DEF MarkerIsTrue
    <3>3. ev' \in Evidence
      BY <2>5, <3>1, <3>2 DEF Evidence
    <3> QED
      BY <2>5, <3>3 DEF Handed!Complete
  <2> QED
    BY <2>3, <2>4, <2>5
<1> HIDE DEF ev
<1>3. ASSUME Conditional PROVE PublishSpec => ImplementsHandover
  <2>1. PublishInv /\ [PublishNext]_publishVars => [Handed!Complete]_ev
    BY <1>2, <1>3
  <2>2. PublishSpec => []PublishInv
    BY <1>3, PublishInvariant
  <2> QED
    BY <1>1, <2>1, <2>2, PTL DEF PublishSpec, ImplementsHandover, Handed!Spec, ev
<1> QED
  BY <1>3

(***************************************************************************)
(* The consumer.                                                           *)
(***************************************************************************)
-----------------------------------------------------------------------------
(* Receipts.                                                               *)

ReceiptType == [status: Status, rank: -1 .. 3, delivered: BOOLEAN]

\* What a receipt x claims is there, if d and p are the Transport's manifests.
Sound(x, d, p) ==
  /\ x.rank >= 2 => d # None
  /\ x.rank >= 3 => p # None
  /\ x.delivered => d # None
  /\ x.status \in Stages => x.rank = Rank(x.status)

LEMMA Ranks ==
  /\ Rank("discovered") = 0 /\ Rank("validated") = 1
  /\ Rank("delivered") = 2 /\ Rank("normalized") = 3
  /\ \A s \in Stages : Rank(s) \in 0 .. 3
BY DEF Rank, Position, Stages

LEMMA SoundReceipts ==
  ReceiptHasEvidence <=> \A t \in Transports : Sound(receipt[t], delivery[t], plan[t])
BY Ranks DEF ReceiptHasEvidence, Sound

\* Discovery claims nothing.
LEMMA DiscoveredIsSound ==
  ASSUME NEW x \in ReceiptType, NEW d, NEW p, Sound(x, d, p)
  PROVE  Discovered(x) \in ReceiptType /\ Sound(Discovered(x), d, p)
BY Ranks DEF Discovered, Sound, ReceiptType, Status, Stages

\* A stage is recorded soundly by a caller that has seen what it stands for.
LEMMA StagedIsSound ==
  ASSUME NEW x \in ReceiptType, NEW d, NEW p, Sound(x, d, p),
         NEW status \in (Stages \ {"discovered"}) \union {"failed"},
         NEW names \in BOOLEAN,
         names \/ status \in {"delivered", "normalized"} => d # None,
         status = "normalized" => p # None
  PROVE  Staged(x, status, names) \in ReceiptType /\ Sound(Staged(x, status, names), d, p)
<1> DEFINE y == [status    |-> status,
                 rank      |-> IF status = "failed" THEN x.rank ELSE Rank(status),
                 delivered |-> names \/ x.delivered]
<1>1. CASE status = "failed"
  <2>1. y \in ReceiptType /\ Sound(y, d, p)
    BY <1>1 DEF Sound, ReceiptType, Status, Stages
  <2> QED
    BY <2>1 DEF Staged
<1>2. CASE status # "failed"
  <2>1. y.rank = Rank(status) /\ Rank(status) \in 1 .. 3
    BY <1>2, Ranks DEF Stages
  <2>2. y \in ReceiptType
    BY <2>1 DEF ReceiptType, Status, Stages
  <2>3. Sound(y, d, p)
    BY <1>2, <2>1, Ranks DEF Sound, Stages, ReceiptType
  <2> QED
    BY <2>2, <2>3 DEF Staged
<1> QED
  BY <1>1, <1>2

LEMMA StagedByDeliveryIsSound ==
  ASSUME NEW x \in ReceiptType, NEW d, NEW p, Sound(x, d, p)
  PROVE  /\ StagedByDelivery(x, "failed") \in ReceiptType
         /\ Sound(StagedByDelivery(x, "failed"), d, p)
BY StagedIsSound DEF StagedByDelivery

-----------------------------------------------------------------------------
(* Frames.                                                                 *)

\* Evidence that is there stays as it is.
Grows ==
  /\ \A t \in Transports : /\ delivery[t] # None => delivery'[t] = delivery[t]
                           /\ plan[t] # None => plan'[t] = plan[t]
                           /\ raw[t] # None => raw'[t] = raw[t]
  /\ parts \subseteq parts'

\* RunsHaveEvidence, of one run.
RunInv(r) ==
  /\ pc[r] \in AfterDelivery \union AfterPlan => delivery[Of(r)] # None
  /\ pc[r] \in AfterPlan => plan[Of(r)] # None
  /\ pc[r] \in {"landed", "success"} => raw[Of(r)] # None
  /\ pc[r] = "unlandable" => <<Of(r), plan[Of(r)]>> \in FailsChecks
  /\ pc[r] = "create" => held[r] # None /\ <<Of(r), held[r]>> \notin NoIdentity
  /\ pc[r] = "write" =>
       held[r] = delivery[Of(r)] /\ (Of(r) \in Archives => Of(r) \in parts)

LEMMA RunByRun == RunsHaveEvidence <=> \A r \in Runs : RunInv(r)
BY DEF RunsHaveEvidence, RunInv, Past

LEMMA RunParts ==
  ASSUME NEW r \in Runs
  PROVE  Of(r) \in Transports /\ r[2] \in Workers
BY DEF Runs, Of

\* A run that stands still keeps the evidence it has come past.
LEMMA RunFrame ==
  ASSUME Grows, NEW q \in Runs, RunInv(q), pc'[q] = pc[q], held'[q] = held[q]
  PROVE  RunInv(q)'
<1>1. Of(q) \in Transports
  BY RunParts
<1>2. pc[q] \in AfterDelivery \union AfterPlan => delivery'[Of(q)] = delivery[Of(q)]
  BY <1>1 DEF RunInv, Grows
<1>3. pc[q] \in AfterPlan => plan'[Of(q)] = plan[Of(q)]
  BY <1>1 DEF RunInv, Grows
<1>4. pc[q] \in {"landed", "success"} => raw'[Of(q)] = raw[Of(q)]
  BY <1>1 DEF RunInv, Grows
<1> QED
  BY <1>1, <1>2, <1>3, <1>4 DEF RunInv, Grows, AfterDelivery, AfterPlan, Of

\* And a receipt nobody writes stays sound.
LEMMA ReceiptFrame ==
  ASSUME TypeOK, ReceiptHasEvidence, Grows,
         NEW t \in Transports, NEW x \in ReceiptType, Sound(x, delivery'[t], plan'[t]),
         receipt' \in {receipt, [receipt EXCEPT ![t] = x]}
  PROVE  receipt' \in [Transports -> ReceiptType] /\ ReceiptHasEvidence'
<1>1. receipt \in [Transports -> ReceiptType]
  BY DEF TypeOK, ReceiptType
<1>2. \A u \in Transports : Sound(receipt[u], delivery'[u], plan'[u])
  BY SoundReceipts DEF Sound, Grows
<1>3. \A u \in Transports : Sound(receipt'[u], delivery'[u], plan'[u])
  BY <1>1, <1>2
<1> QED
  BY <1>1, <1>3, Ranks DEF ReceiptHasEvidence, Sound

-----------------------------------------------------------------------------
(* Tasks and steps.                                                        *)

LEMMA Tasks ==
  /\ Task("validate") = "validate" /\ Task("validated") = "validate"
  /\ Task("deliver") = "deliver" /\ Task("create") = "deliver"
  /\ Task("delivered") = "deliver"
  /\ Task("normalize") = "normalize" /\ Task("write") = "normalize"
  /\ Task("normalized") = "normalize"
  /\ Task("ingest") = "ingest" /\ Task("landed") = "ingest"
BY DEF Task

LEMMA NextTasks ==
  /\ NextTask("validated") = "deliver" /\ NextTask("delivered") = "normalize"
  /\ NextTask("normalized") = "ingest"
BY DEF NextTask

\* A step moves its own run only.
LEMMA GotoEffect ==
  ASSUME TypeOK, NEW r \in Runs, NEW step \in Active \union Over, Goto(r, step)
  PROVE  /\ pc' = [pc EXCEPT ![r] = step]
         /\ pc' \in [Runs -> Active \union Over]
         /\ try' \in [Runs -> 1 .. MaxTries]
BY PipelineAssumptions DEF TypeOK, Goto

-----------------------------------------------------------------------------
(* The evidence.                                                           *)

\* Initially there is none.
LEMMA InitEstablishes == Init => IInv
<1> SUFFICES ASSUME Init PROVE IInv
  OBVIOUS
<1> USE PipelineAssumptions DEF Init
<1>1. TypeOK
  <2>1. receipt \in [Transports -> [status: Status, rank: -1 .. 3, delivered: BOOLEAN]]
    BY DEF NoReceipt, Status, Stages
  <2> QED
    BY <2>1 DEF TypeOK, Contract, NoReport, Over, Active
<1>2. EvidenceAgrees /\ PlanIsWhole
  BY DEF EvidenceAgrees, PlanIsWhole
<1>3. RunsHaveEvidence
  BY DEF RunsHaveEvidence, Past, AfterDelivery, AfterPlan
<1>4. WalkHasEvidence
  BY DEF WalkHasEvidence, NoReport
<1>5. ReceiptHasEvidence
  BY DEF ReceiptHasEvidence, NoReceipt, Stages, Rank, Position
<1> QED
  BY <1>1, <1>2, <1>3, <1>4, <1>5 DEF IInv

\* Only four actions make evidence.
LEMMA EvidenceMakers ==
  ASSUME [Next]_vars
  PROVE  \/ UNCHANGED evidence
         \/ \E r \in Runs : PutDelivery(r) \/ PutParts(r) \/ PutPlan(r) \/ IngestRaw(r)
<1> USE DEF world
<1>1. ASSUME NEW r \in Runs, Step(r)
      PROVE  \/ UNCHANGED evidence
             \/ PutDelivery(r) \/ PutParts(r) \/ PutPlan(r) \/ IngestRaw(r)
  BY <1>1 DEF Step, Validate, ReadDelivery, Record, Finish, RefuseDelivery, RefuseRaw,
              Refuse, Fail, evidence
<1>2. Reconcile \/ List(TRUE) \/ TaskFails => UNCHANGED evidence
  BY DEF Reconcile, List, Report, CheckRaw, EndWalk, Read, SyncDiscovers, SyncAdvances,
         TriggerPending, TaskFails
<1>3. ASSUME NEW t \in Transports, \/ Publish(t) \/ AgesOut(t) \/ WatchDiscovers(t)
                                   \/ WatchTriggers(t) \/ Call(t) \/ CannotRead(t)
      PROVE  UNCHANGED evidence
  BY <1>3 DEF Publish, AgesOut, WatchDiscovers, WatchTriggers, Call, CannotRead
<1>4. ASSUME NEW c \in Contracts, EditFeed(c) PROVE UNCHANGED evidence
  BY <1>4 DEF EditFeed
<1>5. UNCHANGED vars => UNCHANGED evidence
  BY DEF vars, evidence
<1> QED
  BY <1>1, <1>2, <1>3, <1>4, <1>5 DEF Next

EvidenceType ==
  /\ delivery \in [Transports -> Contract] /\ plan \in [Transports -> Contract]
  /\ raw \in [Transports -> Contract] /\ parts \subseteq Archives

\* None of them replaces any, and all of one Transport is of one contract.
LEMMA EvidenceStep ==
  ASSUME IInv, [Next]_vars
  PROVE  EvidenceType' /\ Grows /\ EvidenceAgrees' /\ PlanIsWhole'
<1> USE PipelineAssumptions
<1>1. EvidenceType /\ EvidenceAgrees /\ PlanIsWhole /\ held \in [Runs -> Contract]
  BY DEF IInv, TypeOK, EvidenceType
<1>2. \A r \in Runs : RunInv(r) /\ Of(r) \in Transports
  BY RunByRun, RunParts DEF IInv
<1>3. ASSUME NEW r \in Runs, PutDelivery(r)
      PROVE  EvidenceType' /\ Grows /\ EvidenceAgrees' /\ PlanIsWhole'
  <2>1. /\ delivery[Of(r)] \in {None, held[r]}
        /\ delivery' = [delivery EXCEPT ![Of(r)] = held[r]]
        /\ UNCHANGED <<parts, plan, raw>>
    BY <1>3 DEF PutDelivery
  <2>2. held[r] # None /\ held[r] \in Contract /\ <<Of(r), held[r]>> \notin NoIdentity
    BY <1>1, <1>2, <1>3 DEF RunInv, PutDelivery
  <2> QED
    BY <1>1, <1>2, <2>1, <2>2 DEF EvidenceType, Grows, EvidenceAgrees, PlanIsWhole
<1>4. ASSUME NEW r \in Runs, PutParts(r)
      PROVE  EvidenceType' /\ Grows /\ EvidenceAgrees' /\ PlanIsWhole'
  <2>1. /\ parts' \in {parts, parts \union {Of(r)}} /\ parts' \subseteq Archives
        /\ UNCHANGED <<delivery, plan, raw>>
    BY <1>1, <1>4 DEF PutParts, EvidenceType
  <2> QED
    BY <1>1, <2>1 DEF EvidenceType, Grows, EvidenceAgrees, PlanIsWhole
<1>5. ASSUME NEW r \in Runs, PutPlan(r)
      PROVE  EvidenceType' /\ Grows /\ EvidenceAgrees' /\ PlanIsWhole'
  <2>1. /\ plan[Of(r)] \in {None, held[r]}
        /\ plan' = [plan EXCEPT ![Of(r)] = held[r]]
        /\ UNCHANGED <<delivery, parts, raw>>
    BY <1>5 DEF PutPlan, Puts
  <2>2. /\ held[r] = delivery[Of(r)] /\ held[r] \in Contract
        /\ Of(r) \in Archives => Of(r) \in parts
    BY <1>1, <1>2, <1>5 DEF RunInv, PutPlan
  <2> QED
    BY <1>1, <1>2, <2>1, <2>2 DEF EvidenceType, Grows, EvidenceAgrees, PlanIsWhole
<1>6. ASSUME NEW r \in Runs, IngestRaw(r)
      PROVE  EvidenceType' /\ Grows /\ EvidenceAgrees' /\ PlanIsWhole'
  <2>1. /\ \/ UNCHANGED raw
           \/ /\ raw[Of(r)] = None
              /\ <<Of(r), plan[Of(r)]>> \notin FailsChecks
              /\ raw' = [raw EXCEPT ![Of(r)] = plan[Of(r)]]
        /\ UNCHANGED <<delivery, parts, plan>>
    BY <1>6 DEF IngestRaw
  <2> QED
    BY <1>1, <1>2, <2>1 DEF EvidenceType, Grows, EvidenceAgrees, PlanIsWhole
<1>7. CASE UNCHANGED evidence
  BY <1>1, <1>7 DEF evidence, EvidenceType, Grows, EvidenceAgrees, PlanIsWhole
<1> QED
  BY <1>3, <1>4, <1>5, <1>6, <1>7, EvidenceMakers

-----------------------------------------------------------------------------
(* The runs.                                                               *)

RunType ==
  /\ pc \in [Runs -> Active \union Over] /\ try \in [Runs -> 1 .. MaxTries]
  /\ held \in [Runs -> Contract]

\* Only r moves.
Moves(r) ==
  \A q \in Runs \ {r} : pc'[q] = pc[q] /\ held'[q] = held[q]

\* Where a failed try takes its task again, the task's evidence is still there.
LEMMA RetryEffect ==
  ASSUME IInv, [Next]_vars, NEW r \in Runs, Fail(r)
  PROVE  RunType' /\ Moves(r) /\ RunInv(r)'
<1> USE PipelineAssumptions
<1>1. RunType /\ RunInv(r) /\ Of(r) \in Transports
  BY RunByRun, RunParts DEF IInv, TypeOK, RunType
<1>2. /\ pc[r] \in Active
      /\ held' = [held EXCEPT ![r] = None]
      /\ UNCHANGED evidence
      /\ \/ /\ try[r] < MaxTries
            /\ pc' = [pc EXCEPT ![r] = Task(pc[r])] /\ try' = [try EXCEPT ![r] = try[r] + 1]
         \/ pc' = [pc EXCEPT ![r] = "failed"] /\ try' = [try EXCEPT ![r] = 1]
  BY <1>1 DEF Fail, world, RunType
<1>3. Task(pc[r]) \in Active
  BY <1>2, Tasks DEF Active
<1>4. RunType' /\ Moves(r)
  <2>1. pc' \in [Runs -> Active \union Over] /\ held' \in [Runs -> Contract]
    BY <1>1, <1>2, <1>3 DEF RunType, Over, Contract
  <2>2. try' \in [Runs -> 1 .. MaxTries]
    BY <1>1, <1>2 DEF RunType
  <2>3. Moves(r)
    BY <1>1, <1>2 DEF Moves, RunType
  <2> QED
    BY <2>1, <2>2, <2>3 DEF RunType
<1>5. pc'[r] \in {"validate", "deliver", "normalize", "ingest", "failed"}
  BY <1>1, <1>2, Tasks DEF RunType, Active
<1>6. pc'[r] = "normalize" => delivery[Of(r)] # None
  <2>1. pc'[r] = "normalize" => pc[r] \in {"normalize", "write", "normalized"}
    BY <1>1, <1>2, Tasks DEF RunType, Active
  <2> QED
    BY <1>1, <2>1 DEF RunInv, AfterDelivery, AfterPlan
<1>7. pc'[r] = "ingest" => delivery[Of(r)] # None /\ plan[Of(r)] # None
  <2>1. pc'[r] = "ingest" => pc[r] \in {"ingest", "landed"}
    BY <1>1, <1>2, Tasks DEF RunType, Active
  <2> QED
    BY <1>1, <2>1 DEF RunInv, AfterDelivery, AfterPlan
<1>8. RunInv(r)'
  BY <1>2, <1>5, <1>6, <1>7 DEF RunInv, AfterDelivery, AfterPlan, evidence, Of
<1> QED
  BY <1>4, <1>8

\* Every step of a run brings what its next step relies on.
LEMMA OwnStep ==
  ASSUME IInv, [Next]_vars, NEW r \in Runs, Step(r)
  PROVE  RunType' /\ Moves(r) /\ RunInv(r)'
<1> USE PipelineAssumptions
<1> DEFINE t == Of(r)
<1>1. /\ RunType /\ EvidenceType /\ RunInv(r) /\ t \in Transports /\ None \in Contract
      /\ feed \in Contracts /\ feed \in Contract /\ feed # None
  BY RunByRun, RunParts DEF IInv, TypeOK, RunType, EvidenceType, Contract
<1>2. ASSUME NEW step \in Active \union Over, NEW c \in Contract, Goto(r, step),
             held' \in {held, [held EXCEPT ![r] = c]}
      PROVE  /\ RunType' /\ Moves(r) /\ pc'[r] = step
  <2>1. pc' = [pc EXCEPT ![r] = step] /\ pc' \in [Runs -> Active \union Over]
        /\ try' \in [Runs -> 1 .. MaxTries]
    BY <1>2, GotoEffect DEF IInv
  <2>2. held' \in [Runs -> Contract]
    BY <1>1, <1>2 DEF RunType
  <2> QED
    BY <1>1, <1>2, <2>1, <2>2 DEF RunType, Moves
<1>3. CASE Validate(r)
  <2>1. Goto(r, "validated") /\ held' = held
    BY <1>3 DEF Validate
  <2>2. RunType' /\ Moves(r) /\ pc'[r] = "validated"
    BY <1>1, <1>2, <2>1 DEF Active
  <2> QED
    BY <2>2 DEF RunInv, AfterDelivery, AfterPlan
<1>4. CASE ReadDelivery(r)
  <2>1. CASE HasDelivery(t) /\ Goto(r, "delivered") /\ held' = held
    <3>1. RunType' /\ Moves(r) /\ pc'[r] = "delivered"
      BY <1>1, <1>2, <2>1 DEF Active
    <3>2. delivery'[t] # None
      BY <1>4, <2>1 DEF ReadDelivery, HasDelivery, evidence
    <3> QED
      BY <3>1, <3>2 DEF RunInv, AfterDelivery, AfterPlan, Of
  <2>2. CASE <<t, feed>> \notin NoIdentity /\ held' = [held EXCEPT ![r] = feed]
             /\ Goto(r, "create")
    <3>1. RunType' /\ Moves(r) /\ pc'[r] = "create"
      BY <1>1, <1>2, <2>2 DEF Active
    <3>2. held'[r] = feed
      BY <1>1, <2>2 DEF RunType
    <3> QED
      BY <1>1, <2>2, <3>1, <3>2 DEF RunInv, AfterDelivery, AfterPlan, Of
  <2> QED
    BY <1>4, <2>1, <2>2 DEF ReadDelivery
<1>5. CASE PutDelivery(r)
  <2>1. Goto(r, "delivered") /\ held' = [held EXCEPT ![r] = None]
        /\ delivery' = [delivery EXCEPT ![t] = held[r]] /\ held[r] # None
    BY <1>1, <1>5 DEF PutDelivery, RunInv
  <2>2. RunType' /\ Moves(r) /\ pc'[r] = "delivered"
    BY <1>1, <1>2, <2>1 DEF Active
  <2>3. delivery'[t] # None
    BY <1>1, <2>1 DEF EvidenceType
  <2> QED
    BY <2>2, <2>3 DEF RunInv, AfterDelivery, AfterPlan, Of
<1>6. CASE PutParts(r)
  <2>1. /\ Goto(r, "write") /\ held' = [held EXCEPT ![r] = NormalizationContract(t)]
        /\ t \in Archives => t \in parts'
        /\ UNCHANGED <<delivery, plan, raw>>
        /\ delivery[t] # None
    BY <1>1, <1>6 DEF PutParts, RunInv, AfterDelivery
  <2>2. NormalizationContract(t) = delivery[t] /\ delivery[t] \in Contract
    BY <1>1 DEF NormalizationContract, EvidenceType, IInv, EvidenceAgrees
  <2>3. RunType' /\ Moves(r) /\ pc'[r] = "write"
    BY <1>2, <2>1, <2>2 DEF Active
  <2>4. held'[r] = delivery'[t]
    BY <1>1, <2>1, <2>2 DEF RunType
  <2> QED
    BY <2>1, <2>3, <2>4 DEF RunInv, AfterDelivery, AfterPlan, Of
<1>7. CASE PutPlan(r)
  <2>1. Goto(r, "normalized") /\ held' = [held EXCEPT ![r] = None]
        /\ plan' = [plan EXCEPT ![t] = held[r]] /\ UNCHANGED delivery
        /\ held[r] = delivery[t] /\ delivery[t] # None
    BY <1>1, <1>7 DEF PutPlan, RunInv, AfterDelivery
  <2>2. RunType' /\ Moves(r) /\ pc'[r] = "normalized"
    BY <1>1, <1>2, <2>1 DEF Active
  <2>3. plan'[t] # None /\ delivery'[t] # None
    BY <1>1, <2>1 DEF EvidenceType
  <2> QED
    BY <2>2, <2>3 DEF RunInv, AfterDelivery, AfterPlan, Of
<1>8. CASE Record(r)
  <2>1. Goto(r, NextTask(pc[r])) /\ held' = held /\ pc[r] \in Recording
        /\ UNCHANGED evidence
    BY <1>8 DEF Record, world
  <2>2. /\ NextTask(pc[r]) \in {"deliver", "normalize", "ingest"}
        /\ NextTask(pc[r]) = "normalize" => pc[r] = "delivered"
        /\ NextTask(pc[r]) = "ingest" => pc[r] = "normalized"
    BY <2>1, NextTasks DEF Recording
  <2>3. RunType' /\ Moves(r) /\ pc'[r] = NextTask(pc[r])
    BY <1>1, <1>2, <2>1, <2>2 DEF Active
  <2> QED
    BY <1>1, <2>1, <2>2, <2>3 DEF RunInv, AfterDelivery, AfterPlan, evidence, Of
<1>9. CASE IngestRaw(r)
  <2>1. /\ Goto(r, "landed") /\ held' = held /\ UNCHANGED <<delivery, plan>>
        /\ plan[t] # None /\ delivery[t] # None
        /\ \/ raw[t] # None /\ UNCHANGED raw
           \/ raw' = [raw EXCEPT ![t] = plan[t]]
    BY <1>1, <1>9 DEF IngestRaw, RunInv, AfterPlan, EvidenceType
  <2>2. RunType' /\ Moves(r) /\ pc'[r] = "landed"
    BY <1>1, <1>2, <2>1 DEF Active
  <2>3. raw'[t] # None
    BY <1>1, <2>1 DEF EvidenceType
  <2> QED
    BY <2>1, <2>2, <2>3 DEF RunInv, AfterDelivery, AfterPlan, Of
<1>10. CASE Finish(r)
  <2>1. Goto(r, "success") /\ held' = held /\ pc[r] = "landed" /\ UNCHANGED evidence
    BY <1>10 DEF Finish
  <2>2. RunType' /\ Moves(r) /\ pc'[r] = "success"
    BY <1>1, <1>2, <2>1 DEF Over
  <2> QED
    BY <1>1, <2>1, <2>2 DEF RunInv, AfterDelivery, AfterPlan, evidence, Of
<1>11. ASSUME NEW end \in {"undeliverable", "unlandable"}, Refuse(r, end)
       PROVE  RunType' /\ Moves(r) /\ pc'[r] = end /\ UNCHANGED evidence
  BY <1>1, <1>11 DEF Refuse, RunType, Moves, Over, world
<1>12. CASE RefuseDelivery(r)
  <2>1. RunType' /\ Moves(r) /\ pc'[r] = "undeliverable"
    BY <1>11, <1>12 DEF RefuseDelivery
  <2> QED
    BY <2>1 DEF RunInv, AfterDelivery, AfterPlan
<1>13. CASE RefuseRaw(r)
  <2>1. RunType' /\ Moves(r) /\ pc'[r] = "unlandable" /\ UNCHANGED evidence
    BY <1>11, <1>13 DEF RefuseRaw
  <2>2. delivery[t] # None /\ plan[t] # None /\ <<t, plan[t]>> \in FailsChecks
    BY <1>1, <1>13 DEF RefuseRaw, RunInv, AfterPlan
  <2> QED
    BY <2>1, <2>2 DEF RunInv, AfterDelivery, AfterPlan, evidence, Of
<1>14. CASE Fail(r)
  BY <1>14, RetryEffect
<1> QED
  BY <1>3, <1>4, <1>5, <1>6, <1>7, <1>8, <1>9, <1>10, <1>12, <1>13, <1>14 DEF Step

-----------------------------------------------------------------------------
(* The receipts.                                                           *)

\* A receipt that its writer leaves sound is written, or the write is lost.
LEMMA QuietlyKeeps ==
  ASSUME TypeOK, ReceiptHasEvidence, Grows,
         NEW t \in Transports, NEW x \in ReceiptType, Sound(x, delivery'[t], plan'[t]),
         Quietly(t, x)
  PROVE  receipt' \in [Transports -> ReceiptType] /\ ReceiptHasEvidence'
BY ReceiptFrame DEF Quietly

\* What is sound stays so while evidence grows.
LEMMA SoundStays ==
  ASSUME TypeOK, ReceiptHasEvidence, Grows, NEW t \in Transports
  PROVE  receipt[t] \in ReceiptType /\ Sound(receipt[t], delivery'[t], plan'[t])
BY SoundReceipts DEF TypeOK, ReceiptType, Sound, Grows

\* The receipt a failing step leaves.
LEMMA FailedIsSound ==
  ASSUME TypeOK, ReceiptHasEvidence, Grows, NEW r \in Runs
  PROVE  /\ Failed(r) \in ReceiptType
         /\ Sound(Failed(r), delivery'[Of(r)], plan'[Of(r)])
<1>1. /\ Of(r) \in Transports /\ receipt[Of(r)] \in ReceiptType
      /\ Sound(receipt[Of(r)], delivery'[Of(r)], plan'[Of(r)])
  BY RunParts, SoundStays
<1>2. /\ Staged(receipt[Of(r)], "failed", FALSE) \in ReceiptType
      /\ Sound(Staged(receipt[Of(r)], "failed", FALSE), delivery'[Of(r)], plan'[Of(r)])
  BY <1>1, StagedIsSound
<1>3. /\ StagedByDelivery(receipt[Of(r)], "failed") \in ReceiptType
      /\ Sound(StagedByDelivery(receipt[Of(r)], "failed"), delivery'[Of(r)], plan'[Of(r)])
  BY <1>1, StagedByDeliveryIsSound
<1> QED
  BY <1>1, <1>2, <1>3 DEF Failed

\* A run records a stage whose evidence it has come past.
LEMMA RunReceipt ==
  ASSUME IInv, [Next]_vars, NEW r \in Runs, Step(r)
  PROVE  receipt' \in [Transports -> ReceiptType] /\ ReceiptHasEvidence'
<1> DEFINE t == Of(r)
<1>1. /\ TypeOK /\ ReceiptHasEvidence /\ Grows /\ RunInv(r) /\ t \in Transports
  BY EvidenceStep, RunByRun, RunParts DEF IInv
<1>2. receipt[t] \in ReceiptType /\ Sound(receipt[t], delivery'[t], plan'[t])
  BY <1>1, SoundStays
<1>3. CASE UNCHANGED receipt
  BY <1>1, <1>2, <1>3, ReceiptFrame
<1>4. CASE Validate(r)
  BY <1>1, <1>2, <1>4, DiscoveredIsSound, QuietlyKeeps DEF Validate
<1>5. CASE Record(r)
  <2>1. pc[r] \in Recording /\ Quietly(t, Staged(receipt[t], pc[r], pc[r] = "delivered"))
    BY <1>5 DEF Record
  <2>2. /\ pc[r] \in {"delivered", "normalized"} => delivery'[t] # None
        /\ pc[r] = "normalized" => plan'[t] # None
    BY <1>1 DEF RunInv, Grows, AfterDelivery, AfterPlan
  <2>3. /\ Staged(receipt[t], pc[r], pc[r] = "delivered") \in ReceiptType
        /\ Sound(Staged(receipt[t], pc[r], pc[r] = "delivered"), delivery'[t], plan'[t])
    BY <1>2, <2>1, <2>2, StagedIsSound DEF Recording, Stages
  <2> QED
    BY <1>1, <2>1, <2>3, QuietlyKeeps
<1>6. CASE RefuseDelivery(r) \/ RefuseRaw(r) \/ Fail(r)
  <2>1. UNCHANGED receipt \/ Quietly(t, Failed(r))
    BY <1>6 DEF RefuseDelivery, RefuseRaw, Refuse, Fail
  <2> QED
    BY <1>1, <1>3, <2>1, FailedIsSound, QuietlyKeeps
<1> QED
  BY <1>3, <1>4, <1>5, <1>6
  DEF Step, ReadDelivery, PutDelivery, PutParts, PutPlan, IngestRaw, Finish

\* The walk records what it saw earlier, and what it saw is still there.
LEMMA WalkReceipt ==
  ASSUME IInv, [Next]_vars, NEW t \in Transports,
         WatchDiscovers(t) \/ SyncDiscovers(t) \/ SyncAdvances(t)
  PROVE  receipt' \in [Transports -> ReceiptType] /\ ReceiptHasEvidence'
<1>1. TypeOK /\ ReceiptHasEvidence /\ Grows /\ WalkHasEvidence
  BY EvidenceStep DEF IInv
<1>2. receipt[t] \in ReceiptType /\ Sound(receipt[t], delivery'[t], plan'[t])
  BY <1>1, SoundStays
<1>3. CASE WatchDiscovers(t) \/ SyncDiscovers(t)
  <2>1. receipt' \in {receipt, [receipt EXCEPT ![t] = Discovered(receipt[t])]}
    BY <1>3 DEF WatchDiscovers, SyncDiscovers
  <2> QED
    BY <1>1, <1>2, <2>1, DiscoveredIsSound, ReceiptFrame
<1>4. CASE SyncAdvances(t)
  <2>1. delivery'[t] # None /\ plan'[t] # None
    BY <1>1, <1>4 DEF SyncAdvances, WalkHasEvidence, Grows
  <2>2. /\ Staged(receipt[t], "normalized", TRUE) \in ReceiptType
        /\ Sound(Staged(receipt[t], "normalized", TRUE), delivery'[t], plan'[t])
    BY <1>2, <2>1, StagedIsSound DEF Stages
  <2> QED
    BY <1>1, <1>4, <2>2, QuietlyKeeps DEF SyncAdvances
<1> QED
  BY <1>3, <1>4

-----------------------------------------------------------------------------
(* The walk of the reconcile.                                              *)

WalkType ==
  /\ walk \in {"idle", "reading", "check", "trigger"}
  /\ unread \subseteq Transports /\ pending \subseteq Transports
  /\ found \in [Transports -> {"unseen", "chain", "candidate"}]
  /\ sync \in [Transports -> {"done", "discover", "advance"}]

\* A candidate's manifests were there when it was read, so they are now.
LEMMA WalkFrame ==
  ASSUME IInv, Grows, UNCHANGED reconcile
  PROVE  WalkType' /\ WalkHasEvidence'
BY DEF IInv, TypeOK, WalkType, WalkHasEvidence, Grows, reconcile

\* Every step of the walk keeps its report true of the evidence.
LEMMA WalkStep ==
  ASSUME IInv, [Next]_vars,
         \/ Reconcile \/ List(TRUE) \/ TaskFails
         \/ \E t \in Transports : CannotRead(t)
  PROVE  WalkType' /\ WalkHasEvidence'
<1>1. WalkType /\ WalkHasEvidence /\ Grows /\ completed \subseteq Transports
  BY EvidenceStep DEF IInv, TypeOK, WalkType
<1>2. ASSUME NEW sweep \in BOOLEAN, List(sweep) PROVE WalkType' /\ WalkHasEvidence'
  BY <1>1, <1>2 DEF List, WalkType, WalkHasEvidence, Grows, world
<1>3. CASE Report
  BY <1>1, <1>3 DEF Report, WalkType, WalkHasEvidence, Grows
<1>4. CASE CheckRaw
  BY <1>1, <1>4 DEF CheckRaw, WalkType, WalkHasEvidence, Grows
<1>5. CASE EndWalk
  BY <1>1, <1>5 DEF EndWalk, WalkType, WalkHasEvidence, NoReport
<1>6. CASE TaskFails
  <2>1. CASE walk = "reading" /\ walk' = "idle" /\ found' = NoReport
    BY <1>1, <1>6, <2>1 DEF TaskFails, WalkType, WalkHasEvidence, NoReport
  <2>2. CASE walk \in {"check", "trigger"} /\ walk' = "trigger" /\ UNCHANGED found
    BY <1>1, <1>6, <2>2 DEF TaskFails, WalkType, WalkHasEvidence, Grows
  <2> QED
    BY <1>6, <2>1, <2>2 DEF TaskFails
<1>7. ASSUME NEW t \in Transports, Read(t) PROVE WalkType' /\ WalkHasEvidence'
  <2>1. /\ walk = "reading" /\ unread' = unread \ {t}
        /\ found' = [found EXCEPT ![t] = Progress(t)]
        /\ Progress(t) \in {"chain", "candidate"}
        /\ Progress(t) = "candidate" => delivery[t] # None /\ plan[t] # None
        /\ UNCHANGED <<walk, sync, pending>>
    BY <1>7 DEF Read, Progress, HasDelivery
  <2>2. \A u \in Transports : sync[u] = "done"
    BY <1>1, <2>1 DEF WalkHasEvidence
  <2> QED
    BY <1>1, <2>1, <2>2 DEF WalkType, WalkHasEvidence, Grows
<1>8. ASSUME NEW t \in Transports, CannotRead(t) PROVE WalkType' /\ WalkHasEvidence'
  BY <1>1, <1>8 DEF CannotRead, WalkType, WalkHasEvidence, Grows
<1>9. ASSUME NEW t \in Transports, SyncDiscovers(t) PROVE WalkType' /\ WalkHasEvidence'
  <2>1. /\ sync[t] = "discover"
        /\ \/ sync' = [sync EXCEPT ![t] = "done"]
           \/ found[t] = "candidate" /\ sync' = [sync EXCEPT ![t] = "advance"]
        /\ UNCHANGED <<walk, unread, found, pending>>
    BY <1>9 DEF SyncDiscovers
  <2> QED
    BY <1>1, <2>1 DEF WalkType, WalkHasEvidence, Grows
<1>10. ASSUME NEW t \in Transports, SyncAdvances(t) PROVE WalkType' /\ WalkHasEvidence'
  BY <1>1, <1>10 DEF SyncAdvances, WalkType, WalkHasEvidence, Grows
<1>11. ASSUME NEW t \in Transports, TriggerPending(t) PROVE WalkType' /\ WalkHasEvidence'
  BY <1>1, <1>11 DEF TriggerPending, WalkType, WalkHasEvidence, Grows
<1> QED
  BY <1>2, <1>3, <1>4, <1>5, <1>6, <1>7, <1>8, <1>9, <1>10, <1>11 DEF Reconcile

-----------------------------------------------------------------------------
(* Every step.                                                             *)

WorldType ==
  /\ feed \in Contracts /\ completed \subseteq Transports /\ aged \subseteq completed
  /\ events \in 0 .. MaxEvents

LEMMA EventCounts ==
  ASSUME events \in 0 .. MaxEvents, Event
  PROVE  events' \in 0 .. MaxEvents
BY PipelineAssumptions DEF Event

LEMMA QuietlyCounts ==
  ASSUME events \in 0 .. MaxEvents, NEW t \in Transports, NEW x, Quietly(t, x)
  PROVE  events' \in 0 .. MaxEvents
BY EventCounts DEF Quietly

\* The feed is one of its contracts, and there are no more events than allowed.
LEMMA WorldStep ==
  ASSUME IInv, [Next]_vars
  PROVE  WorldType'
<1> USE DEF world
<1>1. WorldType /\ events \in 0 .. MaxEvents
  BY DEF IInv, TypeOK, WorldType
<1>2. ASSUME NEW r \in Runs, Step(r) PROVE WorldType'
  <2>1. UNCHANGED <<feed, completed, aged>>
    BY <1>2 DEF Step, Validate, ReadDelivery, PutDelivery, PutParts, PutPlan, Record,
                IngestRaw, Finish, RefuseDelivery, RefuseRaw, Refuse, Fail
  <2>2. UNCHANGED events \/ \E x : Quietly(Of(r), x)
    BY <1>2 DEF Step, Validate, ReadDelivery, PutDelivery, PutParts, PutPlan, Record,
                IngestRaw, Finish, RefuseDelivery, RefuseRaw, Refuse, Fail
  <2> QED
    BY <1>1, <2>1, <2>2, RunParts, QuietlyCounts DEF WorldType
<1>3. CASE Reconcile \/ List(TRUE) \/ TaskFails
  <2>1. UNCHANGED <<feed, completed, aged>>
    BY <1>3 DEF Reconcile, List, Report, CheckRaw, EndWalk, Read, SyncDiscovers,
                SyncAdvances, TriggerPending, TaskFails
  <2>2. UNCHANGED events \/ Event \/ \E t \in Transports : \E x : Quietly(t, x)
    BY <1>3 DEF Reconcile, List, Report, CheckRaw, EndWalk, Read, SyncDiscovers,
                SyncAdvances, TriggerPending, TaskFails
  <2> QED
    BY <1>1, <2>1, <2>2, EventCounts, QuietlyCounts DEF WorldType
<1>4. ASSUME NEW t \in Transports, \/ Publish(t) \/ AgesOut(t) \/ WatchDiscovers(t)
                                   \/ WatchTriggers(t) \/ Call(t) \/ CannotRead(t)
      PROVE  WorldType'
  BY <1>1, <1>4, EventCounts
  DEF Publish, AgesOut, WatchDiscovers, WatchTriggers, Call, CannotRead, WorldType
<1>5. ASSUME NEW c \in Contracts, EditFeed(c) PROVE WorldType'
  BY <1>1, <1>5, EventCounts DEF EditFeed, WorldType
<1>6. CASE UNCHANGED vars
  BY <1>1, <1>6 DEF vars, WorldType
<1> QED
  BY <1>2, <1>3, <1>4, <1>5, <1>6 DEF Next

\* Somebody else than a run starts it, or leaves it alone.
LEMMA TriggerStep ==
  ASSUME IInv, [Next]_vars, UNCHANGED <<try, held>>,
         NEW r \in Runs,
         \/ UNCHANGED pc
         \/ pc[r] \in Over /\ pc' = [pc EXCEPT ![r] = "validate"]
  PROVE  RunType' /\ RunsHaveEvidence'
<1>1. RunType /\ Grows /\ \A q \in Runs : RunInv(q)
  BY EvidenceStep, RunByRun DEF IInv, TypeOK, RunType
<1>2. RunType'
  BY <1>1 DEF RunType, Active
<1>3. ASSUME NEW q \in Runs PROVE RunInv(q)'
  <2>1. CASE pc'[q] = pc[q]
    BY <1>1, <2>1, RunFrame
  <2>2. CASE pc'[q] = "validate"
    BY <2>2 DEF RunInv, AfterDelivery, AfterPlan
  <2> QED
    BY <1>1, <2>1, <2>2 DEF RunType
<1>4. RunsHaveEvidence'
  BY <1>3 DEF RunsHaveEvidence, RunInv, Past
<1> QED
  BY <1>2, <1>4

\* The runs, by who takes the step.
LEMMA RunsStep ==
  ASSUME IInv, [Next]_vars
  PROVE  RunType' /\ RunsHaveEvidence'
<1>1. RunType /\ Grows /\ \A q \in Runs : RunInv(q)
  BY EvidenceStep, RunByRun DEF IInv, TypeOK, RunType
<1>2. ASSUME NEW r \in Runs, Step(r) PROVE RunType' /\ RunsHaveEvidence'
  <2>1. RunType' /\ Moves(r) /\ RunInv(r)'
    BY <1>2, OwnStep
  <2>2. \A q \in Runs : RunInv(q)'
    BY <1>1, <2>1, RunFrame DEF Moves
  <2> QED
    BY <2>1, <2>2 DEF RunsHaveEvidence, RunInv, Past
<1>3. ASSUME NEW t \in Transports, WatchTriggers(t) \/ TriggerPending(t) \/ Call(t)
      PROVE  RunType' /\ RunsHaveEvidence'
  <2>1. <<t, "dag">> \in Runs /\ <<t, "cli">> \in Runs
    BY DEF Runs, Workers
  <2>2. /\ UNCHANGED <<try, held>>
        /\ \E r \in Runs : \/ UNCHANGED pc
                           \/ pc[r] \in Over /\ pc' = [pc EXCEPT ![r] = "validate"]
    BY <1>3, <2>1 DEF WatchTriggers, TriggerPending, Call, Trigger, Over
  <2> QED
    BY <2>2, TriggerStep
<1>4. ASSUME UNCHANGED <<pc, try, held>> PROVE RunType' /\ RunsHaveEvidence'
  <2>1. \A q \in Runs : RunInv(q)'
    BY <1>1, <1>4, RunFrame
  <2> QED
    BY <1>1, <1>4, <2>1 DEF RunsHaveEvidence, RunInv, Past, RunType
<1>5. ASSUME NEW t \in Transports, \/ Publish(t) \/ AgesOut(t) \/ WatchDiscovers(t)
                                   \/ CannotRead(t) \/ Read(t) \/ SyncDiscovers(t)
                                   \/ SyncAdvances(t)
      PROVE  UNCHANGED <<pc, try, held>>
  BY <1>5 DEF Publish, AgesOut, WatchDiscovers, CannotRead, Read, SyncDiscovers,
              SyncAdvances
<1>6. ASSUME NEW c \in Contracts, EditFeed(c) PROVE UNCHANGED <<pc, try, held>>
  BY <1>6 DEF EditFeed
<1>7. ASSUME \/ List(FALSE) \/ List(TRUE) \/ Report \/ CheckRaw \/ EndWalk \/ TaskFails
             \/ UNCHANGED vars
      PROVE  UNCHANGED <<pc, try, held>>
  BY <1>7 DEF List, Report, CheckRaw, EndWalk, TaskFails, vars
<1> QED
  BY <1>2, <1>3, <1>4, <1>5, <1>6, <1>7 DEF Next, Reconcile

\* The receipts, by who takes the step.
LEMMA ReceiptsStep ==
  ASSUME IInv, [Next]_vars
  PROVE  receipt' \in [Transports -> ReceiptType] /\ ReceiptHasEvidence'
<1>1. ASSUME UNCHANGED receipt
      PROVE  receipt' \in [Transports -> ReceiptType] /\ ReceiptHasEvidence'
  <2>1. TypeOK /\ ReceiptHasEvidence /\ Grows
    BY EvidenceStep DEF IInv
  <2>2. \A t \in Transports : Sound(receipt'[t], delivery'[t], plan'[t])
    BY <1>1, <2>1, SoundStays
  <2> QED
    BY <1>1, <2>1, <2>2, Ranks DEF ReceiptHasEvidence, Sound, TypeOK, ReceiptType
<1>2. ASSUME NEW t \in Transports, \/ Publish(t) \/ AgesOut(t) \/ WatchTriggers(t)
                                   \/ Call(t) \/ CannotRead(t) \/ Read(t)
                                   \/ TriggerPending(t)
      PROVE  UNCHANGED receipt
  BY <1>2 DEF Publish, AgesOut, WatchTriggers, Call, CannotRead, Read, TriggerPending
<1>3. ASSUME NEW c \in Contracts, EditFeed(c) PROVE UNCHANGED receipt
  BY <1>3 DEF EditFeed
<1>4. ASSUME \/ List(FALSE) \/ List(TRUE) \/ Report \/ CheckRaw \/ EndWalk \/ TaskFails
             \/ UNCHANGED vars
      PROVE  UNCHANGED receipt
  BY <1>4 DEF List, Report, CheckRaw, EndWalk, TaskFails, vars
<1> QED
  BY <1>1, <1>2, <1>3, <1>4, RunReceipt, WalkReceipt DEF Next, Reconcile

\* The walk, by who takes the step.
LEMMA WalksStep ==
  ASSUME IInv, [Next]_vars
  PROVE  WalkType' /\ WalkHasEvidence'
<1>1. Grows
  BY EvidenceStep
<1>2. ASSUME NEW r \in Runs, Step(r) PROVE UNCHANGED reconcile
  BY <1>2 DEF Step, Validate, ReadDelivery, PutDelivery, PutParts, PutPlan, Record,
              IngestRaw, Finish, RefuseDelivery, RefuseRaw, Refuse, Fail
<1>3. ASSUME NEW t \in Transports, \/ Publish(t) \/ AgesOut(t) \/ WatchDiscovers(t)
                                   \/ WatchTriggers(t) \/ Call(t)
      PROVE  UNCHANGED reconcile
  BY <1>3 DEF Publish, AgesOut, WatchDiscovers, WatchTriggers, Call
<1>4. ASSUME NEW c \in Contracts, EditFeed(c) PROVE UNCHANGED reconcile
  BY <1>4 DEF EditFeed
<1>5. CASE UNCHANGED vars
  <2>1. UNCHANGED reconcile
    BY <1>5 DEF vars, reconcile
  <2> QED
    BY <1>1, <2>1, WalkFrame
<1> QED
  BY <1>1, <1>2, <1>3, <1>4, <1>5, WalkFrame, WalkStep DEF Next

LEMMA NextKeeps ==
  ASSUME IInv, [Next]_vars
  PROVE  IInv'
<1>1. EvidenceType' /\ EvidenceAgrees' /\ PlanIsWhole'
  BY EvidenceStep
<1>2. WorldType' /\ RunType' /\ RunsHaveEvidence' /\ WalkType' /\ WalkHasEvidence'
      /\ receipt' \in [Transports -> ReceiptType] /\ ReceiptHasEvidence'
  BY WorldStep, RunsStep, WalksStep, ReceiptsStep
<1>3. TypeOK'
  BY <1>1, <1>2 DEF TypeOK, EvidenceType, WorldType, RunType, WalkType, ReceiptType
<1> QED
  BY <1>1, <1>2, <1>3 DEF IInv

-----------------------------------------------------------------------------
(* Theorems.                                                               *)

\* The invariant of the run Pipeline, for any instance.
THEOREM PipelineInvariant == Spec => []IInv
<1>1. IInv /\ [Next]_vars => IInv'
  BY NextKeeps
<1> QED
  BY InitEstablishes, <1>1, PTL DEF Spec

\* A receipt never claims progress of which there is no evidence
\* (registry/transports.py, record_stage; transport_reconcile.py, sync_receipts).
THEOREM ReceiptsAreBacked == Spec => []ReceiptHasEvidence
<1>1. IInv => ReceiptHasEvidence
  BY DEF IInv
<1> QED
  BY <1>1, PipelineInvariant, PTL

\* A NormalizationManifest never names parts that are missing
\* (normalization.py, normalize_delivery).
THEOREM PlansAreWhole == Spec => []PlanIsWhole
<1>1. IInv => PlanIsWhole
  BY DEF IInv
<1> QED
  BY <1>1, PipelineInvariant, PTL

\* A run that succeeded left the Delivery in raw (transport_steps.py, ingest_raw).
THEOREM SuccessesLanded == Spec => []SuccessMeansLanded
<1>1. IInv => SuccessMeansLanded
  BY DEF IInv, RunsHaveEvidence, SuccessMeansLanded, Past
<1> QED
  BY <1>1, PipelineInvariant, PTL

\* What a blocking Raw check refused is in raw by no other run
\* (transport_steps.py, is_refusal).
THEOREM RawRefusalsAreFinal == Spec => []RawRefusalIsFinal
<1>1. IInv => RawRefusalIsFinal
  <2> SUFFICES ASSUME IInv, NEW r \in Runs, pc[r] = "unlandable", raw[Of(r)] # None
               PROVE  FALSE
    BY DEF RawRefusalIsFinal
  <2>1. <<Of(r), plan[Of(r)]>> \in FailsChecks
    BY DEF IInv, RunsHaveEvidence, Past
  <2>2. raw[Of(r)] = plan[Of(r)] /\ <<Of(r), raw[Of(r)]>> \notin FailsChecks
    BY RunParts DEF IInv, EvidenceAgrees
  <2> QED
    BY <2>1, <2>2
<1> QED
  BY <1>1, PipelineInvariant, PTL

\* y is one of the receipts that may be written over x.
Writes(x, y) ==
  \/ y = Discovered(x)
  \/ \E status \in {"validated", "delivered", "normalized", "failed"} :
       \E names \in BOOLEAN : y = Staged(x, status, names)

LEMMA ReceiptWrites ==
  ASSUME TypeOK, [Next]_vars
  PROVE  \/ UNCHANGED receipt
         \/ \E t \in Transports : \E x : Writes(receipt[t], x) /\
              receipt' = [receipt EXCEPT ![t] = x]
<1> DEFINE Written == \/ UNCHANGED receipt
                      \/ \E t \in Transports : \E x : Writes(receipt[t], x) /\
                           receipt' = [receipt EXCEPT ![t] = x]
<1>1. ASSUME NEW t \in Transports, NEW x, Writes(receipt[t], x), Quietly(t, x)
      PROVE  Written
  BY <1>1 DEF Quietly
<1>2. ASSUME NEW r \in Runs, RefuseDelivery(r) \/ RefuseRaw(r) \/ Fail(r) PROVE Written
  <2>1. Of(r) \in Transports
    BY RunParts
  <2>2. \/ UNCHANGED receipt
        \/ receipt' = [receipt EXCEPT ![Of(r)] = Failed(r)]
    BY <1>2 DEF RefuseDelivery, RefuseRaw, Refuse, Fail, Quietly
  <2>3. Failed(r) \in {receipt[Of(r)], Staged(receipt[Of(r)], "failed", FALSE)}
    BY DEF Failed, StagedByDelivery
  <2>4. Writes(receipt[Of(r)], Staged(receipt[Of(r)], "failed", FALSE))
    BY DEF Writes
  <2>5. CASE receipt' = [receipt EXCEPT ![Of(r)] = receipt[Of(r)]]
    BY <2>5 DEF TypeOK
  <2> QED
    BY <2>1, <2>2, <2>3, <2>4, <2>5
<1>3. ASSUME NEW r \in Runs, Validate(r) \/ Record(r) PROVE Written
  <2>1. Of(r) \in Transports
    BY RunParts
  <2>2. CASE Validate(r)
    BY <1>1, <2>1, <2>2 DEF Validate, Writes
  <2>3. CASE Record(r)
    <3>1. /\ pc[r] \in {"validated", "delivered", "normalized"}
          /\ (pc[r] = "delivered") \in BOOLEAN
          /\ Quietly(Of(r), Staged(receipt[Of(r)], pc[r], pc[r] = "delivered"))
      BY <2>3 DEF Record, Recording
    <3>2. Writes(receipt[Of(r)], Staged(receipt[Of(r)], pc[r], pc[r] = "delivered"))
      BY <3>1 DEF Writes
    <3> QED
      BY <1>1, <2>1, <3>1, <3>2
  <2> QED
    BY <1>3, <2>2, <2>3
<1>4. ASSUME NEW r \in Runs, Step(r) PROVE Written
  BY <1>2, <1>3, <1>4
  DEF Step, ReadDelivery, PutDelivery, PutParts, PutPlan, IngestRaw, Finish
<1>5. ASSUME NEW t \in Transports, WatchDiscovers(t) \/ SyncDiscovers(t) \/ SyncAdvances(t)
      PROVE  Written
  <2>1. Writes(receipt[t], Discovered(receipt[t]))
        /\ Writes(receipt[t], Staged(receipt[t], "normalized", TRUE))
    BY DEF Writes
  <2> QED
    BY <1>1, <1>5, <2>1 DEF WatchDiscovers, SyncDiscovers, SyncAdvances
<1>6. ASSUME NEW t \in Transports, \/ Publish(t) \/ AgesOut(t) \/ WatchTriggers(t)
                                   \/ Call(t) \/ CannotRead(t) \/ Read(t)
                                   \/ TriggerPending(t)
      PROVE  Written
  BY <1>6 DEF Publish, AgesOut, WatchTriggers, Call, CannotRead, Read, TriggerPending
<1>7. ASSUME NEW c \in Contracts, EditFeed(c) PROVE Written
  BY <1>7 DEF EditFeed
<1>8. ASSUME \/ List(FALSE) \/ List(TRUE) \/ Report \/ CheckRaw \/ EndWalk \/ TaskFails
             \/ UNCHANGED vars
      PROVE  Written
  BY <1>8 DEF List, Report, CheckRaw, EndWalk, TaskFails, vars
<1> QED
  BY <1>4, <1>5, <1>6, <1>7, <1>8 DEF Next, Reconcile

\* What record_stage's WHERE clause lets through never moves a receipt back.
LEMMA WritesNeverSlip ==
  ASSUME NEW x \in ReceiptType, NEW y, Writes(x, y)
  PROVE  /\ x.status \in Stages /\ y.status # "failed" => y.rank >= x.rank
         /\ x.status # "none" => y.status # "none"
<1>1. CASE y = Discovered(x)
  BY <1>1 DEF Discovered, ReceiptType, Stages
<1>2. ASSUME NEW status \in {"validated", "delivered", "normalized", "failed"},
             NEW names \in BOOLEAN, y = Staged(x, status, names)
      PROVE  /\ x.status \in Stages /\ y.status # "failed" => y.rank >= x.rank
             /\ x.status # "none" => y.status # "none"
  <2>1. CASE Accepts(x, status)
    <3>1. y.status = status /\ (status # "failed" => y.rank = Rank(status))
      BY <1>2, <2>1 DEF Staged
    <3>2. x.status \in Stages /\ status # "failed" => Rank(status) >= x.rank
      BY <2>1 DEF Accepts, Stages
    <3> QED
      BY <3>1, <3>2
  <2>2. CASE ~ Accepts(x, status)
    BY <1>2, <2>2 DEF Staged, ReceiptType
  <2> QED
    BY <2>1, <2>2
<1> QED
  BY <1>1, <1>2 DEF Writes

\* A receipt never moves back but from failed, whoever of two runs, the watch
\* and the reconcile writes it (registry/transports.py, record_stage).
THEOREM ReceiptsNeverSlip == Spec => ReceiptNeverSlips
<1> DEFINE Kept == \A t \in Transports :
              /\ receipt[t].status \in Stages /\ receipt'[t].status # "failed"
                   => receipt'[t].rank >= receipt[t].rank
              /\ receipt[t].status # "none" => receipt'[t].status # "none"
<1>1. ASSUME IInv, [Next]_vars PROVE Kept
  <2>1. TypeOK /\ receipt \in [Transports -> ReceiptType]
    BY <1>1 DEF IInv, TypeOK, ReceiptType
  <2>2. CASE UNCHANGED receipt
    BY <2>1, <2>2 DEF ReceiptType
  <2>3. ASSUME NEW t \in Transports, NEW x, Writes(receipt[t], x),
               receipt' = [receipt EXCEPT ![t] = x]
        PROVE  Kept
    <3>1. receipt'[t] = x /\ \A u \in Transports \ {t} : receipt'[u] = receipt[u]
      BY <2>1, <2>3
    <3>2. /\ receipt[t].status \in Stages /\ x.status # "failed" => x.rank >= receipt[t].rank
          /\ receipt[t].status # "none" => x.status # "none"
      BY <2>1, <2>3, WritesNeverSlip
    <3>3. \A u \in Transports : receipt[u].rank >= receipt[u].rank
      BY <2>1 DEF ReceiptType
    <3> QED
      BY <3>1, <3>2, <3>3
  <2> QED
    BY <1>1, <2>1, <2>2, <2>3, ReceiptWrites
<1>2. IInv /\ [Next]_vars => [Kept]_vars
  BY <1>1
<1> QED
  BY <1>2, PipelineInvariant, PTL DEF Spec, ReceiptNeverSlips

\* TransportPipeline implements Carriage: PutDelivery chooses the contract,
\* PutPlan plans, IngestRaw lands, or finds that somebody else did.
THEOREM PipelineImplementsCarriage == Spec => Implements
<1>1. Init => Carried!Init
  BY DEF Init, Carried!Init
<1>2. ASSUME IInv, [Next]_vars PROVE [Carried!Next]_(Carried!vars)
  <2> USE DEF Carried!vars
  <2>1. EvidenceType /\ EvidenceAgrees /\ held \in [Runs -> Contract]
        /\ \A r \in Runs : RunInv(r) /\ Of(r) \in Transports
    BY <1>2, RunByRun, RunParts DEF IInv, TypeOK, EvidenceType
  <2>2. ASSUME NEW r \in Runs, PutDelivery(r) PROVE [Carried!Next]_(Carried!vars)
    <3>1. /\ held[r] \in Contracts /\ <<Of(r), held[r]>> \notin NoIdentity
          /\ delivery[Of(r)] \in {None, held[r]}
          /\ delivery' = [delivery EXCEPT ![Of(r)] = held[r]]
          /\ UNCHANGED <<plan, raw>>
      BY <2>1, <2>2 DEF PutDelivery, RunInv, Contract
    <3>2. CASE delivery[Of(r)] = None
      <4>1. Carried!Interpret(Of(r), held[r])
        BY <3>1, <3>2 DEF Carried!Interpret
      <4> QED
        BY <2>1, <3>1, <4>1 DEF Carried!Next
    <3>3. CASE delivery[Of(r)] = held[r]
      BY <2>1, <3>1, <3>3 DEF EvidenceType
    <3> QED
      BY <3>1, <3>2, <3>3
  <2>3. ASSUME NEW r \in Runs, PutPlan(r) PROVE [Carried!Next]_(Carried!vars)
    <3>1. /\ held[r] = delivery[Of(r)] /\ delivery[Of(r)] # None
          /\ plan[Of(r)] \in {None, held[r]}
          /\ plan' = [plan EXCEPT ![Of(r)] = held[r]]
          /\ UNCHANGED <<delivery, raw>>
      BY <2>1, <2>3 DEF PutPlan, Puts, RunInv, AfterDelivery
    <3>2. CASE plan[Of(r)] = None
      <4>1. Carried!Plan(Of(r))
        BY <3>1, <3>2 DEF Carried!Plan
      <4> QED
        BY <2>1, <4>1 DEF Carried!Next
    <3>3. CASE plan[Of(r)] = held[r]
      BY <2>1, <3>1, <3>3 DEF EvidenceType
    <3> QED
      BY <3>1, <3>2, <3>3
  <2>4. ASSUME NEW r \in Runs, IngestRaw(r) PROVE [Carried!Next]_(Carried!vars)
    <3>1. plan[Of(r)] # None /\ UNCHANGED <<delivery, plan>>
      BY <2>1, <2>4 DEF IngestRaw, RunInv, AfterPlan
    <3>2. CASE UNCHANGED raw
      BY <3>1, <3>2
    <3>3. CASE /\ raw[Of(r)] = None /\ <<Of(r), plan[Of(r)]>> \notin FailsChecks
               /\ raw' = [raw EXCEPT ![Of(r)] = plan[Of(r)]]
      <4>1. Carried!Land(Of(r))
        BY <3>1, <3>3 DEF Carried!Land
      <4> QED
        BY <2>1, <4>1 DEF Carried!Next
    <3> QED
      BY <2>4, <3>2, <3>3 DEF IngestRaw
  <2>5. ASSUME NEW r \in Runs, PutParts(r) PROVE [Carried!Next]_(Carried!vars)
    BY <2>5 DEF PutParts
  <2>6. CASE UNCHANGED evidence
    BY <2>6 DEF evidence
  <2> QED
    BY <1>2, <2>2, <2>3, <2>4, <2>5, <2>6, EvidenceMakers
<1>3. IInv /\ [Next]_vars => [Carried!Next]_(Carried!vars)
  BY <1>2
<1> QED
  BY <1>1, <1>3, PipelineInvariant, PTL DEF Spec, Implements, Carried!Spec
=============================================================================
