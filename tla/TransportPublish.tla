-------------------------- MODULE TransportPublish --------------------------
(***************************************************************************)
(* Publication of one Transport: reporting_transport/publisher.py over     *)
(* reporting_transport/storage.py.                                         *)
(*                                                                         *)
(* A producer publishes its files in order, data before control, each with *)
(* publish_object: stat, HEAD; an object that is there is compared with    *)
(* the local file, one that is not is uploaded create-only and confirmed;  *)
(* then the file is stat'ed again.  When all are declared, the marker is   *)
(* put, create-only, last.  A producer may crash, lose the answer of a     *)
(* write, and be run again; another one may publish the same TransportID   *)
(* at the same time, from the same files or from others; and the files may *)
(* change under it.  A file's content is an opaque value, and stands for   *)
(* its bytes and their SHA-256 alike.                                      *)
(***************************************************************************)
EXTENDS Integers, FiniteSets

CONSTANTS
  Producers,     \* invocations of the publisher for one TransportID
  FileCount,     \* files 1 .. FileCount, in the order they are published
  Contents,      \* what a file may contain
  Observed,      \* source_observed_at, the metadata a producer declares
  Absent,        \* no object, or nothing declared yet
  Conditional,   \* whether the store honours IfNoneMatch: *
  MaxRuns,       \* bound: times a producer is run
  MaxFaults,     \* bound: crashes and lost answers
  MaxRewrites    \* bound: changes of local files

Files == 1 .. FileCount

ASSUME PublishAssumptions ==
  /\ FileCount \in Nat \ {0}
  /\ Absent \notin Contents \union Producers
  /\ Conditional \in BOOLEAN
  /\ MaxRuns \in Nat
  /\ MaxFaults \in Nat
  /\ MaxRewrites \in Nat

VARIABLES
  objects,    \* per file, the object under its key
  marker,     \* _COMPLETE.json
  content,    \* per producer and file, the local file
  stamp,      \* and its modification time
  observed,   \* what each producer declares
  stage,      \* per producer, the step it is about to take
  tries,      \* times it was run
  file,       \* the file it is at
  stat,       \* the stamp it saw first
  sent,       \* what it read of the file
  declared,   \* what it will declare
  newly,      \* producers that reported newly_published
  faults,
  rewrites    \* changes of local files so far

store  == <<objects, marker>>
source == <<content, stamp, observed, rewrites>>
locals == <<file, stat, sent, declared>>
publishVars == <<objects, marker, content, stamp, observed, stage, tries, file, stat,
               sent, declared, newly, faults, rewrites>>

-----------------------------------------------------------------------------
NoMarker == [files |-> Absent, observed |-> Absent, by |-> Absent]

Here(p) == objects[file[p]]

\* The Transport a producer would declare, and whether the marker already says
\* the same; uploaded_at (here: by) is not compared.
Candidate(p) == [files |-> declared[p], observed |-> observed[p], by |-> p]
SameEvidence(p) ==
  marker.files = declared[p] /\ marker.observed = observed[p]

GoOn(p, label) == stage' = [stage EXCEPT ![p] = label]

Fault == faults < MaxFaults /\ faults' = faults + 1

\* Mutant of Creates: IfNoneMatch is not sent.
Creates_Always(free) == TRUE

\* A create-only write takes effect if its key is free, or if the store does
\* not know the condition.
Creates(free) == free \/ ~Conditional

\* Keys that hold nothing, or a producer that has declared nothing.
Nothing == [n \in Files |-> Absent]

\* What a call that raised knew is gone.
GiveUp(p) ==
  /\ GoOn(p, "failed")
  /\ file' = [file EXCEPT ![p] = 1]
  /\ stat' = [stat EXCEPT ![p] = 0]
  /\ sent' = [sent EXCEPT ![p] = Absent]
  /\ declared' = [declared EXCEPT ![p] = Nothing]

\* The producer is done with its file, whose content it will declare as c.
Declare(p, c) ==
  /\ declared' = [declared EXCEPT ![p][file[p]] = c]
  /\ file' = [file EXCEPT ![p] = IF @ < FileCount THEN @ + 1 ELSE @]
  /\ stat' = [stat EXCEPT ![p] = 0]
  /\ sent' = [sent EXCEPT ![p] = Absent]
  /\ GoOn(p, IF file[p] < FileCount THEN "look" ELSE "marker?")

Continue(p, label) == GoOn(p, label) /\ UNCHANGED locals

-----------------------------------------------------------------------------
PublishInit ==
  /\ objects = Nothing
  /\ marker = NoMarker
  /\ content \in [Producers -> [Files -> Contents]]
  /\ stamp = [p \in Producers |-> [n \in Files |-> 0]]
  /\ observed \in [Producers -> Observed]
  /\ stage = [p \in Producers |-> "idle"]
  /\ tries = [p \in Producers |-> 0]
  /\ file = [p \in Producers |-> 1]
  /\ stat = [p \in Producers |-> 0]
  /\ sent = [p \in Producers |-> Absent]
  /\ declared = [p \in Producers |-> Nothing]
  /\ newly = {}
  /\ faults = 0
  /\ rewrites = 0

\* publish_transport is called, or called again after it failed.
Begin(p) ==
  /\ stage[p] \in {"idle", "failed"}
  /\ tries[p] < MaxRuns
  /\ tries' = [tries EXCEPT ![p] = @ + 1]
  /\ Continue(p, "look")
  /\ UNCHANGED <<store, source, newly, faults>>

\* Mutant of LookUp: an object without a marker is somebody else's, a conflict.
LookUp_Strict(p) ==
  /\ stage[p] = "look"
  /\ stat' = [stat EXCEPT ![p] = stamp[p][file[p]]]
  /\ GoOn(p, IF Here(p) = Absent THEN "read" ELSE "failed")
  /\ UNCHANGED <<store, source, tries, file, sent, declared, newly, faults>>

\* The first stat, and the HEAD that decides between upload and reuse.
LookUp(p) ==
  /\ stage[p] = "look"
  /\ stat' = [stat EXCEPT ![p] = stamp[p][file[p]]]
  /\ GoOn(p, IF Here(p) = Absent THEN "read" ELSE "hash")
  /\ UNCHANGED <<store, source, tries, file, sent, declared, newly, faults>>

\* The one local read, streamed to the store or only hashed.
ReadFile(p) ==
  /\ stage[p] \in {"read", "hash"}
  /\ sent' = [sent EXCEPT ![p] = content[p][file[p]]]
  /\ GoOn(p, IF stage[p] = "read" THEN "put" ELSE "guard reuse")
  /\ UNCHANGED <<store, source, tries, file, stat, declared, newly, faults>>

\* put_object or complete_multipart_upload.  A store that answers with the
\* checksum of what it wrote has confirmed it; one that does not is read back,
\* and so is whatever is there when the precondition failed.
Put(p) ==
  /\ stage[p] = "put"
  /\ IF Creates(Here(p) = Absent)
       THEN /\ objects' = [objects EXCEPT ![file[p]] = sent[p]]
            /\ \E checksum \in BOOLEAN :
                 Continue(p, IF checksum THEN "guard" ELSE "confirm")
       ELSE Continue(p, "confirm") /\ UNCHANGED objects
  /\ UNCHANGED <<marker, source, tries, newly, faults>>

\* The write took effect, the answer was lost.  The call raises, or the client
\* library sends it again, reading a single PUT's body anew, and meets its own
\* object.
PutReplyLost(p) ==
  /\ stage[p] = "put"
  /\ Creates(Here(p) = Absent)
  /\ Fault
  /\ objects' = [objects EXCEPT ![file[p]] = sent[p]]
  /\ GiveUp(p) \/ \E label \in {"put", "read"} : Continue(p, label)
  /\ UNCHANGED <<marker, source, tries, newly>>

\* Mutant of Confirm: an object that is there is taken as it is.
Confirm_Trusting(p) ==
  /\ stage[p] = "confirm"
  /\ Continue(p, "guard")
  /\ UNCHANGED <<store, source, tries, newly, faults>>

\* _confirm_durable after an upload: what is stored is what was streamed.
Confirm(p) ==
  /\ stage[p] = "confirm"
  /\ IF Here(p) = sent[p] THEN Continue(p, "guard") ELSE GiveUp(p)
  /\ UNCHANGED <<store, source, tries, newly, faults>>

\* _guard_mutation after an upload.
Guard(p) ==
  /\ stage[p] = "guard"
  /\ IF stamp[p][file[p]] = stat[p] THEN Declare(p, sent[p]) ELSE GiveUp(p)
  /\ UNCHANGED <<store, source, tries, newly, faults>>

\* _guard_mutation of a file that was only hashed.
GuardReuse(p) ==
  /\ stage[p] = "guard reuse"
  /\ IF stamp[p][file[p]] = stat[p] THEN Continue(p, "confirm reuse") ELSE GiveUp(p)
  /\ UNCHANGED <<store, source, tries, newly, faults>>

\* _confirm_durable of an object that was there: an identical retry goes on.
ConfirmReuse(p) ==
  /\ stage[p] = "confirm reuse"
  /\ IF Here(p) = sent[p] THEN Declare(p, sent[p]) ELSE GiveUp(p)
  /\ UNCHANGED <<store, source, tries, newly, faults>>

\* Every file is declared: is there a marker?
FindMarker(p) ==
  /\ stage[p] = "marker?"
  /\ Continue(p, IF marker = NoMarker THEN "marker" ELSE "compare")
  /\ UNCHANGED <<store, source, tries, newly, faults>>

\* The marker, create-only, last.
PutMarker(p) ==
  /\ stage[p] = "marker"
  /\ IF Creates(marker = NoMarker)
       THEN /\ marker' = Candidate(p)
            /\ newly' = newly \union {p}
            /\ Continue(p, "done")
       ELSE Continue(p, "compare") /\ UNCHANGED <<marker, newly>>
  /\ UNCHANGED <<objects, source, tries, faults>>

MarkerReplyLost(p) ==
  /\ stage[p] = "marker"
  /\ Creates(marker = NoMarker)
  /\ Fault
  /\ marker' = Candidate(p)
  /\ GiveUp(p) \/ Continue(p, "marker")
  /\ UNCHANGED <<objects, source, tries, newly>>

\* _require_same: an identical retry returns the existing Transport.
Compare(p) ==
  /\ stage[p] = "compare"
  /\ IF SameEvidence(p) THEN Continue(p, "done") ELSE GiveUp(p)
  /\ UNCHANGED <<store, source, tries, newly, faults>>

\* The process dies, or a call raises.  Parts of a multipart upload that was not
\* completed are no object.
Crash(p) ==
  /\ stage[p] \notin {"idle", "failed", "done"}
  /\ Fault
  /\ GiveUp(p)
  /\ UNCHANGED <<store, source, tries, newly>>

\* Somebody rewrites a file the producer was told is complete.
Rewrite(p, n, c) ==
  /\ rewrites < MaxRewrites
  /\ rewrites' = rewrites + 1
  /\ stamp' = [stamp EXCEPT ![p][n] = rewrites']
  /\ content' = [content EXCEPT ![p][n] = c]
  /\ UNCHANGED <<store, observed, stage, tries, locals, newly, faults>>
-----------------------------------------------------------------------------
ProducerStep(p) ==
  \/ Begin(p) \/ LookUp(p) \/ ReadFile(p) \/ Put(p) \/ Confirm(p) \/ Guard(p)
  \/ GuardReuse(p) \/ ConfirmReuse(p) \/ FindMarker(p) \/ PutMarker(p) \/ Compare(p)

Failure(p) == PutReplyLost(p) \/ MarkerReplyLost(p) \/ Crash(p)

PublishNext ==
  \E p \in Producers :
    \/ ProducerStep(p)
    \/ Failure(p)
    \/ \E n \in Files, c \in Contents : Rewrite(p, n, c)

PublishSpec == PublishInit /\ [][PublishNext]_publishVars

\* A producer that failed is run again while it may be, and one that runs goes on.
PublishFairness == \A p \in Producers : WF_publishVars(ProducerStep(p))
-----------------------------------------------------------------------------
Labels == {"idle", "look", "read", "hash", "put", "confirm", "guard", "guard reuse",
           "confirm reuse", "marker?", "marker", "compare", "done", "failed"}

Evidence == [files: [Files -> Contents], observed: Observed]

StoreType ==
  /\ objects \in [Files -> Contents \union {Absent}]
  /\ marker \in {NoMarker} \union
       [files: [Files -> Contents], observed: Observed, by: Producers]

SourceType ==
  /\ content \in [Producers -> [Files -> Contents]]
  /\ stamp \in [Producers -> [Files -> 0 .. MaxRewrites]]
  /\ observed \in [Producers -> Observed]

LocalType ==
  /\ stage \in [Producers -> Labels]
  /\ file \in [Producers -> Files]
  /\ stat \in [Producers -> 0 .. MaxRewrites]
  /\ sent \in [Producers -> Contents \union {Absent}]
  /\ declared \in [Producers -> [Files -> Contents \union {Absent}]]

CountType ==
  /\ tries \in [Producers -> 0 .. MaxRuns]
  /\ newly \subseteq Producers
  /\ faults \in 0 .. MaxFaults
  /\ rewrites \in 0 .. MaxRewrites

\* Types of the variables.
PublishTypeOK == StoreType /\ SourceType /\ LocalType /\ CountType

\* "_COMPLETE.json is never published describing evidence that does not match
\* what is durably stored" (TRANSPORT-CONTRACT), whoever published last.
MarkerIsTrue == marker # NoMarker => objects = marker.files

\* "Different bytes or metadata under that same identity raises" (publisher):
\* every producer that returned successfully agrees with the marker in all it
\* declares, and so with every other.
Agrees(p) == stage[p] = "done" => marker # NoMarker /\ SameEvidence(p)
SuccessesAgree == \A p \in Producers : Agrees(p)

\* newly_published is "the ground truth for newly published vs. retry": at most
\* one producer ever reports it, and it is the one whose marker stands.
OneIsNew == \A p \in newly : marker.by = p

\* A marker declares its own producer's files, all of them: what an earlier or a
\* concurrent attempt left under the keys is in it only if it is the same.  A
\* difference means that the file was rewritten since.
DeclaresOwnFiles ==
  marker # NoMarker =>
    \A n \in Files :
      marker.files[n] # content[marker.by][n] => stamp[marker.by][n] > 0

\* "safely retryable": producers that hold the same files and declare the same,
\* and whose files nobody touches, do publish, whatever an attempt left behind.
AlikeAndStable ==
  \A p, q \in Producers :
    /\ content[p] = content[q]
    /\ observed[p] = observed[q]
    /\ \A n \in Files : stamp[p][n] = 0

StableIsPublished == []AlikeAndStable => \A p \in Producers : <>(stage[p] = "done")
-----------------------------------------------------------------------------
Handed == INSTANCE Handover WITH
  Nothing  <- Absent,
  evidence <- IF marker = NoMarker THEN Absent
                ELSE [files |-> objects, observed |-> marker.observed]

\* A Transport that is complete is whole and never changes.
ImplementsHandover == Handed!Spec
-----------------------------------------------------------------------------
(* The inductive invariant, for a store that honours the condition.         *)

\* What a producer has declared, or is past uploading, is what is stored.
DeclaredIsStored(p) ==
  /\ \A n \in Files : declared[p][n] # Absent => objects[n] = declared[p][n]
  /\ stage[p] = "guard" => Here(p) = sent[p]

\* How far a producer is: it holds what it read, has declared the files before
\* the one it is at, and, once it compares, there is a marker.
ProducerProgress(p) ==
  /\ stage[p] \in {"put", "confirm", "guard", "guard reuse", "confirm reuse"} =>
       sent[p] \in Contents
  /\ stage[p] \in {"look", "read", "hash", "put", "confirm", "guard", "guard reuse",
                "confirm reuse"} =>
       \A n \in 1 .. file[p] - 1 : declared[p][n] # Absent
  /\ stage[p] \in {"marker?", "marker", "compare", "done"} =>
       \A n \in Files : declared[p][n] # Absent
  /\ stage[p] = "compare" => marker # NoMarker
  /\ stage[p] \in {"idle", "failed"} => file[p] = 1

\* What a producer read, it read in its own files, unless they were rewritten.
ReadsOwnFiles(p) ==
  \A n \in Files :
    \/ stamp[p][n] > 0
    \/ /\ declared[p][n] \in {Absent, content[p][n]}
       /\ file[p] = n => sent[p] \in {Absent, content[p][n]}

PublishInv ==
  /\ PublishTypeOK
  /\ \A p \in Producers : DeclaredIsStored(p) /\ ProducerProgress(p) /\ ReadsOwnFiles(p)
  /\ MarkerIsTrue
  /\ SuccessesAgree
  /\ OneIsNew
  /\ DeclaresOwnFiles
=============================================================================
