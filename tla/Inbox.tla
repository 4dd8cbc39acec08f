------------------------------- MODULE Inbox -------------------------------
(***************************************************************************)
(* The inbox gate: reporting_platform/ingest/inbox.py over conform.py.     *)
(*                                                                         *)
(* A watcher polls a directory.  A file that has stopped changing is       *)
(* routed by its name; one that already has a landing name is uploaded     *)
(* under it, one that has its sender's name goes through the conformance   *)
(* gate, which waits for its control file, unpacks it if it is a container *)
(* and names every delivery in it.  Objects are put in a fixed order, the  *)
(* inbox copy moves after them, and the DagRuns are triggered last.  Any   *)
(* put, read or trigger may fail and the watcher may die between any two   *)
(* steps.  What a sender's bytes hold is a constant; a body stands for its *)
(* bytes and their md5 alike.                                              *)
(***************************************************************************)
EXTENDS Naturals, Sequences, FiniteSets

CONSTANTS
  Files,          \* names that may appear in the inbox
  Order,          \* the same, as a sequence in the order of a pass
  Feeds,
  NameClaims,     \* per name, the feeds whose filename_pattern claims it
  SourceClaims,   \*   those whose arrival.source_pattern does
  ControlClaims,  \*   those whose control pattern does
  DoorControls,   \* control files consumed at the door (arrival.control)
  Arrival,        \* feeds with an arrival block (needs_conforming)
  Gated,          \* feeds that need a control file, at the door and in landing
  Archive,        \* feeds whose arrival shape is "archive"
  ControlOf,      \* per name, the name of its control file, or None
  NameDate,       \* per name, the COB date it carries, or None
  KeyOf,          \* per name a sender already made conformant, its landing key
  Dates,
  Bytes,          \* what a file may hold
  Sent,           \* per name, what its sender may write
  Says,           \* per control file's bytes, [date, version] or None
  Members,        \* per container's bytes, its claimed members, in order:
                  \* [body, date, version]
  Torn,           \* the bytes of a file still being written
  None,
  Stable,         \* STABLE_POLLS
  MaxVersion,     \* 99: versions of a date the gate will name
  MaxDrops,       \* bound: files written
  MaxFaults       \* bound: failed calls and deaths of the watcher

Versions == 1 .. MaxVersion
Keys == [feed : Feeds, date : Dates, version : Versions]

\* What is said of a delivery: in its control file, and by its container.
Declared == [date : Dates \union {None}, version : Versions \union {None}]
Packed == [body : Bytes, date : Dates \union {None}, version : Versions \union {None}]

\* What the gate may make of a delivery.
Outcomes ==
  [kind : {"waiting", "refused"}, body : Bytes]
  \union [kind : {"duplicate"}, body : Bytes, key : Keys]
  \union [kind : {"planned"}, body : Bytes, key : Keys, declared : BOOLEAN]

ASSUME InboxAssumptions ==
  /\ Stable \in Nat \ {0}
  /\ MaxVersion \in Nat \ {0}
  /\ None \notin Bytes \union Dates \union Files \union Feeds
  /\ Torn \notin Bytes \union {None}
  /\ MaxDrops \in Nat /\ MaxFaults \in Nat
  /\ Arrival \subseteq Feeds
  /\ \A f \in Files : SourceClaims[f] \subseteq Arrival
  /\ \A f \in Files : Sent[f] \subseteq Bytes /\ NameDate[f] \in Dates \union {None}
  /\ \A b \in Bytes \union {Torn} : Says[b] \in Declared \union {None}
  /\ \A b \in Bytes : Members[b] \in Seq(Packed)

VARIABLES
  inbox,      \* per name, [bytes, whole]; bytes = None: no such file
  seen,       \* per name, unchanged observations so far; 0: none that matches
  todo,       \* names the pass has still to look at
  job,        \* the file being promoted, or None
  landing,    \* per key, the delivery's object, its metadata and control file,
              \* and by whom the name was given
  processed,  \* bytes moved to .processed/
  rejected,   \* bytes moved to .rejected/
  quarantine, \* bodies copied to quarantine/, with their registry.rejection
  triggered,  \* what DagRuns were asked for: a key, or None (find_pending)
  drops,
  faults

outside == <<drops>>
moved == <<processed, rejected>>
vars == <<inbox, seen, todo, job, landing, processed, rejected, quarantine,
          triggered, drops, faults>>

NoFile == [bytes |-> None, whole |-> FALSE]
NothingLanded == [data |-> None, meta |-> None, control |-> FALSE, by |-> "nobody"]

(***************************************************************************)
(* Routing: each pattern in its turn, and one feed or none.                *)
(***************************************************************************)
Claims(f) ==
  IF NameClaims[f] # {} THEN NameClaims[f]
  ELSE IF SourceClaims[f] # {} THEN SourceClaims[f] ELSE ControlClaims[f]

\* The feed that claims the name, or None: nobody does, or more than one.
Route(f) ==
  IF \E fd \in Feeds : Claims(f) = {fd}
  THEN CHOOSE fd \in Feeds : Claims(f) = {fd} ELSE None

IsControl(f) == NameClaims[f] = {} /\ SourceClaims[f] = {}

\* is_source_control_file: held for the delivery it belongs to.
DoorControl(f) == IsControl(f) /\ f \in DoorControls

\* It takes the plain path: its name parses, or its feed conforms nothing.  A
\* control file under its landing name does not parse, so that of a feed with
\* an arrival block goes through the gate as if it were a delivery.
Conformant(f) == NameClaims[f] # {} \/ Route(f) \notin Arrival

\* A landing name is of one feed, a control file is consumed at the door.
ASSUME RoutingAssumptions ==
  \A f \in Files : Route(f) # None =>
    /\ Conformant(f) /\ ~DoorControl(f) => KeyOf[f] \in Keys /\ KeyOf[f].feed = Route(f)
    /\ ControlOf[f] \in (DoorControls \intersect Files) \union {None}

\* What a read of the file gives now.
Content(f) == IF inbox[f].whole THEN inbox[f].bytes ELSE Torn

(***************************************************************************)
(* The conformance gate.  taken: the landing names in use, and md5 what is *)
(* known of the bytes under each (None: unknown, which is not "the same"). *)
(***************************************************************************)
Taken == {k \in Keys : landing[k].data # None}

\* The metadata's md5 before the object's; nothing for a read that failed.
Md5(k, unread) ==
  IF k \in unread THEN None
  ELSE IF landing[k].meta # None THEN landing[k].meta ELSE landing[k].data

\* Mutants of FreeName: a file sent twice is a restatement; a landed name is
\* not looked at.
FreeName_NoMd5(fd, m, taken, unread) ==
  LET Key(v) == [feed |-> fd, date |-> m.date, version |-> v]
      free == {v \in 1 .. MaxVersion : Key(v) \notin taken}
  IN IF free = {} THEN [kind |-> "refused", body |-> m.body]
     ELSE [kind |-> "planned", body |-> m.body, declared |-> m.version # None,
           key |-> Key(CHOOSE v \in free : \A w \in free : v <= w)]
FreeName_First(fd, m, taken, unread) ==
  [kind |-> "planned", body |-> m.body, declared |-> m.version # None,
   key |-> [feed |-> fd, date |-> m.date, version |-> 1]]

\* The versions of the date tried, in order, up to one that is free or
\* holds the same bytes; a declared version is tried alone, and used.
FreeName(fd, m, taken, unread) ==
  LET Key(v) == [feed |-> fd, date |-> m.date, version |-> v]
      stop == IF m.version # None THEN {m.version}
              ELSE {v \in 1 .. MaxVersion :
                      Key(v) \notin taken \/ Md5(Key(v), unread) = m.body}
  IN IF stop = {} THEN [kind |-> "refused", body |-> m.body]
     ELSE LET v == CHOOSE v \in stop : \A w \in stop : v <= w
          IN IF Key(v) \in taken /\ Md5(Key(v), unread) = m.body
             THEN [kind |-> "duplicate", body |-> m.body, key |-> Key(v)]
             ELSE [kind |-> "planned", body |-> m.body, key |-> Key(v),
                   declared |-> m.version # None]

\* One delivery: its control file's date before its name's, and refused if it
\* has neither.
Conform(fd, m, taken, unread) ==
  IF m.date = None THEN [kind |-> "refused", body |-> m.body]
  ELSE FreeName(fd, m, taken, unread)

\* find_control: the file's control file is in the inbox.
HasControl(f) == ControlOf[f] # None /\ inbox[ControlOf[f]].bytes # None

\* What the control file declares of a plain file; None: it cannot be read.
ReadControl(f) == IF Route(f) \in Gated THEN Says[Content(ControlOf[f])]
                  ELSE [date |-> None, version |-> None]

\* A plain file waits for the control file it needs.
PlanFile(fd, f, body, unread) ==
  IF fd \in Gated /\ ~HasControl(f)
  THEN <<[kind |-> "waiting", body |-> body]>>
  ELSE IF ReadControl(f) = None
  THEN <<[kind |-> "refused", body |-> body]>>
  ELSE LET said == ReadControl(f)
       IN <<Conform(fd, [body |-> body, version |-> said.version,
                         date |-> IF said.date # None THEN said.date ELSE NameDate[f]],
                    Taken, unread)>>

\* A member of a container, whose control file is packed with it or is not
\* coming: without a date it is refused, never waited for.
ConformMember(fd, m, taken, unread) ==
  IF m.date = None THEN [kind |-> "refused", body |-> m.body]
  ELSE FreeName(fd, m, taken, unread)

\* The members of a container its feed claims; none for one that is broken,
\* empty or holds a name that is not safe.
Unpacked(bytes) == Members[bytes]

\* The names that a plan gives.
NamedIn(plan) == {plan[i].key : i \in {i \in DOMAIN plan : plan[i].kind = "planned"}}

\* The first n members' plan: every member on its own, the names already given
\* taken.
MemberPlans(fd, ms, unread) ==
  LET plan[n \in 0 .. Len(ms)] ==
        IF n = 0 THEN <<>>
        ELSE LET outcome == [taken \in SUBSET Keys |-> ConformMember(fd, ms[n], taken, unread)]
             IN Append(plan[n - 1], outcome[Taken \union NamedIn(plan[n - 1])])
  IN plan

PlanArchive(fd, bytes, unread) ==
  LET ms == Unpacked(bytes)
  IN IF ms = <<>> THEN <<[kind |-> "refused", body |-> bytes]>>
     ELSE MemberPlans(fd, ms, unread)[Len(ms)]

Plan(fd, f, unread) ==
  IF fd \in Archive THEN PlanArchive(fd, Content(f), unread)
  ELSE PlanFile(fd, f, Content(f), unread)

\* What travels with the file: its control file, if the gate found one.
Consumed(fd, f) ==
  IF fd \in Gated \ Archive /\ HasControl(f)
  THEN {ControlOf[f]} ELSE {}

(***************************************************************************)
(* Senders.  Two assumptions: a partial write is never quiet for as long   *)
(* as the watcher waits, and nobody writes again under a name that is      *)
(* still in the inbox.                                                     *)
(***************************************************************************)
Drop(f) ==
  /\ drops < MaxDrops
  /\ inbox[f].bytes = None
  /\ \E b \in Sent[f] : inbox' = [inbox EXCEPT ![f] = [bytes |-> b, whole |-> FALSE]]
  /\ seen' = [seen EXCEPT ![f] = 0]
  /\ drops' = drops + 1
  /\ UNCHANGED <<todo, job, landing, moved, quarantine, triggered, faults>>

Finish(f) ==
  /\ inbox[f].bytes # None /\ ~inbox[f].whole
  /\ inbox' = [inbox EXCEPT ![f] = [bytes |-> inbox[f].bytes, whole |-> TRUE]]
  /\ seen' = [seen EXCEPT ![f] = 0]
  /\ UNCHANGED <<todo, job, landing, moved, quarantine, triggered, drops, faults>>

(***************************************************************************)
(* The watcher.                                                            *)
(***************************************************************************)
Fault == faults < MaxFaults /\ faults' = faults + 1
NoFault == UNCHANGED faults

Idle == job = None
At(f) == CHOOSE n \in DOMAIN Order : Order[n] = f
\* The file looked at now.
Next1(f) == Idle /\ f \in todo /\ \A g \in todo : At(f) <= At(g)
Ready(f) == Next1(f) /\ inbox[f].bytes # None /\ seen[f] = Stable

StartPass ==
  /\ Idle /\ todo = {}
  /\ todo' = {f \in Files : inbox[f].bytes # None}
  /\ UNCHANGED <<inbox, seen, job, landing, moved, quarantine, triggered, drops, faults>>

\* Gone in the meantime, or not yet seen unchanged often enough.
Observe(f) ==
  /\ Next1(f)
  /\ inbox[f].bytes = None \/ seen[f] < Stable
  /\ inbox[f].bytes # None /\ ~inbox[f].whole => seen[f] < Stable - 1
  /\ seen' = [seen EXCEPT ![f] = IF inbox[f].bytes = None THEN 0 ELSE @ + 1]
  /\ todo' = todo \ {f}
  /\ UNCHANGED <<inbox, job, landing, moved, quarantine, triggered, drops, faults>>

NewJob(f, to, keys) ==
  [file |-> f, read |-> Content(f), pc |-> "move", to |-> to, out |-> <<>>,
   keys |-> keys, written |-> TRUE, by |-> "gate", lost |-> {}, with |-> {}]

\* quarantine_quietly: a copy is made, or the failure is logged.
Quarantine(bodies) ==
  \/ quarantine' = quarantine \union bodies /\ NoFault
  \/ UNCHANGED quarantine /\ Fault

RejectName(f) ==
  /\ Ready(f) /\ Route(f) = None
  /\ Quarantine({Content(f)})
  /\ job' = NewJob(f, "rejected", <<>>)
  /\ UNCHANGED <<inbox, seen, todo, landing, moved, triggered, drops>>

HoldControl(f) ==
  /\ Ready(f) /\ Route(f) # None /\ DoorControl(f)
  /\ todo' = todo \ {f}
  /\ UNCHANGED <<inbox, seen, job, landing, moved, quarantine, triggered, drops, faults>>

\* What the key holds once a conformant file is uploaded under its own name.
Upload(f) ==
  IF IsControl(f) THEN [landing[KeyOf[f]] EXCEPT !.control = TRUE]
  ELSE [landing[KeyOf[f]] EXCEPT !.data = Content(f), !.by = "sender"]

\* A name landing already understands: a delivery, or the control file that
\* gates one there.  A failed upload leaves it for the next pass.
LandConformant(f) ==
  /\ Ready(f) /\ Route(f) # None
  /\ Conformant(f) /\ ~DoorControl(f)
  /\ \/ /\ landing' = [landing EXCEPT ![KeyOf[f]] = Upload(f)]
        /\ job' = NewJob(f, "processed",
                         <<IF IsControl(f) THEN None ELSE KeyOf[f]>>)
        /\ NoFault
        /\ UNCHANGED todo
     \/ /\ Fault
        /\ todo' = todo \ {f}
        /\ UNCHANGED <<landing, job>>
  /\ UNCHANGED <<inbox, seen, moved, quarantine, triggered, drops>>

\* _promote, up to its first write.  unread: landed objects whose bytes could
\* not be read; a sibling that cannot be read ends the attempt.
Promote(f) ==
  /\ Ready(f) /\ Route(f) # None /\ ~Conformant(f) /\ ~DoorControl(f)
  /\ \/ \E unread \in {{}} \union {{k} : k \in Taken} :
          /\ job' = [NewJob(f, "processed", <<>>) EXCEPT
                       !.pc = "write", !.written = FALSE,
                       !.by = IF unread = {} THEN "gate" ELSE "unsure",
                       !.out = Plan(Route(f), f, unread),
                       !.with = Consumed(Route(f), f)]
          /\ IF unread = {} THEN NoFault ELSE Fault
          /\ UNCHANGED todo
     \/ /\ Fault
        /\ todo' = todo \ {f}
        /\ UNCHANGED job
  /\ UNCHANGED <<inbox, seen, landing, moved, quarantine, triggered, drops>>

\* The outcomes, one after the other.
Outcome(kind) == job # None /\ job.pc = "write" /\ job.out # <<>> /\ Head(job.out).kind = kind
Done(j) == [j EXCEPT !.out = Tail(@)]
Promoting == Route(job.file)

Waiting ==
  /\ Outcome("waiting")
  /\ job' = Done(job)
  /\ UNCHANGED <<inbox, seen, todo, landing, moved, quarantine, triggered, drops, faults>>

\* Mutant of Duplicate: nothing came of it.
Duplicate_NotCounted ==
  /\ Outcome("duplicate")
  /\ job' = Done(job)
  /\ UNCHANGED <<inbox, seen, todo, landing, moved, quarantine, triggered, drops, faults>>

Duplicate ==
  /\ Outcome("duplicate")
  /\ job' = [Done(job) EXCEPT !.written = TRUE]
  /\ UNCHANGED <<inbox, seen, todo, landing, moved, quarantine, triggered, drops, faults>>

\* The file itself, or a member of it.
Refused ==
  /\ Outcome("refused")
  /\ LET b == Head(job.out).body IN
     /\ Quarantine({b})
     /\ job' = IF b # job.read THEN [Done(job) EXCEPT !.lost = @ \union {b}]
               ELSE [Done(job) EXCEPT !.to = "rejected"]
  /\ UNCHANGED <<inbox, seen, todo, landing, moved, triggered, drops>>

\* Mutant of Puts: the data file before its control file.
Puts_DataFirst(o, n) ==
  [landing[o.key] EXCEPT
     !.data    = IF n >= 1 THEN o.body ELSE @,
     !.by      = IF n >= 1 THEN job.by ELSE @,
     !.control = IF n >= 2 /\ Promoting \in Gated THEN TRUE ELSE @,
     !.meta    = IF n >= 3 THEN o.body ELSE @]

\* Control file, data, metadata: the puts made before one fails.
Puts(o, n) ==
  [landing[o.key] EXCEPT
     !.control = IF n >= 1 /\ Promoting \in Gated THEN TRUE ELSE @,
     !.data    = IF n >= 2 THEN o.body ELSE @,
     !.by      = IF n < 2 THEN @ ELSE IF o.declared THEN "sender" ELSE job.by,
     !.meta    = IF n >= 3 THEN o.body ELSE @]

\* A put that fails leaves its name free, below those planned after it.
Write ==
  /\ Outcome("planned")
  /\ LET o == Head(job.out) IN
     \E n \in 0 .. 3 :
       /\ landing' = [landing EXCEPT ![o.key] = Puts(o, n)]
       /\ IF n = 3
          THEN /\ job' = [Done(job) EXCEPT !.written = TRUE, !.keys = Append(@, o.key)]
               /\ NoFault
          ELSE /\ job' = [Done(job) EXCEPT !.lost = @ \union {o.body},
                                            !.by = IF @ = "gate" THEN "gap" ELSE @]
               /\ Fault
  /\ UNCHANGED <<inbox, seen, todo, moved, quarantine, triggered, drops>>

\* Mutant of Settled: the inbox copy moves whatever came of it.
Settled_Always == job # None /\ job.pc = "write" /\ job.out = <<>>

\* Every outcome is dealt with, and something came of the file.
Settled ==
  /\ job # None /\ job.pc = "write" /\ job.out = <<>>
  /\ job.written \/ job.to = "rejected"

\* Nothing came of it: it waits, every put failed, or no member had a name.
Stay ==
  /\ job # None /\ job.pc = "write" /\ job.out = <<>> /\ ~Settled
  /\ job' = None /\ todo' = todo \ {job.file}
  /\ UNCHANGED <<inbox, seen, landing, moved, quarantine, triggered, drops, faults>>

Away(f) == inbox' = [inbox EXCEPT ![f] = NoFile] /\ seen' = [seen EXCEPT ![f] = 0]

MoveFile ==
  /\ (job # None /\ job.pc = "move") \/ Settled
  /\ LET copy == [file |-> job.file, bytes |-> Content(job.file)]
     IN IF job.to = "rejected"
        THEN rejected' = rejected \union {copy} /\ UNCHANGED processed
        ELSE processed' = processed \union {copy} /\ UNCHANGED rejected
  /\ Away(job.file)
  /\ job' = [job EXCEPT !.pc = "siblings"]
  /\ UNCHANGED <<todo, landing, quarantine, triggered, drops, faults>>

\* The control file goes where its delivery went, quarantined if refused.
MoveSibling(c) ==
  /\ job # None /\ job.pc = "siblings" /\ c \in job.with
  /\ IF inbox[c].bytes # None THEN Away(c) ELSE UNCHANGED <<inbox, seen>>
  /\ IF inbox[c].bytes # None /\ job.to = "rejected"
     THEN Quarantine({Content(c)}) ELSE UNCHANGED <<quarantine, faults>>
  /\ job' = [job EXCEPT !.with = @ \ {c}]
  /\ UNCHANGED <<todo, landing, moved, triggered, drops>>

\* One run per delivery; a DAG not parsed yet is reported, an Airflow that
\* cannot be reached raises and ends the pass.
Trigger ==
  /\ job # None /\ job.pc = "siblings" /\ job.with = {}
  /\ \/ /\ job.keys # <<>>
        /\ job' = [job EXCEPT !.keys = Tail(@)]
        /\ \/ triggered' = triggered \union {Head(job.keys)} /\ NoFault
           \/ UNCHANGED triggered /\ Fault
        /\ UNCHANGED todo
     \/ job.keys # <<>> /\ Fault /\ job' = None /\ todo' = {} /\ UNCHANGED triggered
     \/ job.keys = <<>> /\ job' = None /\ todo' = todo \ {job.file} /\ NoFault /\ UNCHANGED triggered
  /\ UNCHANGED <<inbox, seen, landing, moved, quarantine, drops>>

\* The watcher dies, and is started again with nothing seen.
Crash ==
  /\ Fault
  /\ job' = None /\ todo' = {} /\ seen' = [f \in Files |-> 0]
  /\ UNCHANGED <<inbox, landing, moved, quarantine, triggered, drops>>

Init ==
  /\ inbox = [f \in Files |-> NoFile]
  /\ seen = [f \in Files |-> 0]
  /\ todo = {} /\ job = None
  /\ landing = [k \in Keys |-> NothingLanded]
  /\ processed = {} /\ rejected = {} /\ quarantine = {} /\ triggered = {}
  /\ drops = 0 /\ faults = 0

Watcher ==
  \/ StartPass
  \/ \E f \in Files : Observe(f) \/ RejectName(f) \/ HoldControl(f)
                      \/ LandConformant(f) \/ Promote(f) \/ MoveSibling(f)
  \/ Waiting \/ Duplicate \/ Refused \/ Write \/ Stay \/ MoveFile \/ Trigger

Next == \/ \E f \in Files : Drop(f) \/ Finish(f)
        \/ Watcher
        \/ Crash

\* main loops for ever, and a sender finishes what it writes.
Fairness == WF_vars(Watcher) /\ WF_vars(\E f \in Files : Finish(f))
Spec == Init /\ [][Next]_vars /\ Fairness

(***************************************************************************)
(* Properties.                                                             *)
(***************************************************************************)
Jobs ==
  [file : Files, read : Bytes, pc : {"write", "move", "siblings"},
   to : {"processed", "rejected"}, out : Seq(Outcomes), keys : Seq(Keys \union {None}),
   written : BOOLEAN, by : {"gate", "gap", "unsure"}, lost : SUBSET Bytes,
   with : SUBSET (Files \intersect DoorControls)]

Landed ==
  [data : Bytes \union {None}, meta : Bytes \union {None}, control : BOOLEAN,
   by : {"nobody", "gate", "gap", "unsure", "sender"}]

\* Types of the state.
TypeOK ==
  /\ inbox \in [Files -> [bytes : Bytes \union {None}, whole : BOOLEAN]]
  /\ seen \in [Files -> 0 .. Stable]
  /\ todo \subseteq Files
  /\ job = None \/ job \in Jobs
  /\ landing \in [Keys -> Landed]
  /\ processed \subseteq [file : Files, bytes : Bytes \union {Torn}]
  /\ rejected \subseteq [file : Files, bytes : Bytes \union {Torn}]
  /\ triggered \subseteq Keys \union {None}

\* The deliveries a promoted file holds: itself, or its members.
Owed(f, b) ==
  IF Route(f) \notin Archive \/ Conformant(f) THEN {b} ELSE {Unpacked(b)[i].body : i \in DOMAIN Unpacked(b)}

LandedBodies(fd) == {landing[k].data : k \in {k \in Keys : k.feed = fd}}

(* A file goes to .processed/ only with every delivery it holds in landing,
   whatever was resent, retried or half done before.  Members that could not be
   named, or whose put failed, are left behind only beside one that landed
   (_promote moves the copy "because others were" written): the inbox copy is
   the only other one there is. *)
MovesWhatLanded ==
  [][ (MoveFile /\ job.to = "processed" /\ ~IsControl(job.file))
        => LET owed == Owed(job.file, Content(job.file))
               here == LandedBodies(Route(job.file))
           IN owed \ job.lost \subseteq here /\ owed \intersect here # {} ]_vars

\* No two names of a date that G gave hold the same bytes.
OneNameOf(G) ==
  \A k, l \in Keys :
    (/\ landing[k].data # None /\ landing[k].data = landing[l].data
     /\ landing[k].by \in G /\ landing[l].by \in G
     /\ k.feed = l.feed /\ k.date = l.date)
    => k = l

(* One delivery, one name: bytes resent, or promoted again after a failure or
   a crash between any two puts, do not become the next version of their date
   ("a restatement that never happened") unless what landed could not be read,
   or a put of their container failed before theirs. *)
OneNameEach == OneNameOf({"gate"})

(* "An unchanged resend is not a restatement -- nothing is landed" (_free_name),
   of the containers whose members landed in part as well. *)
ResendsAreNotVersions == OneNameOf({"gate", "gap"})

(* What a run may find in landing under a name the gate gave is whole: the
   control file that gates it is already there, and the bytes are not those of
   a file still being written. *)
LandsWhole ==
  \A k \in Keys :
    /\ landing[k].data # Torn
    /\ (landing[k].by \in {"gate", "gap", "unsure"} /\ k.feed \in Gated) => landing[k].control

(* Landing is the evidence copy: what it holds under a name changes only when
   the sender chose that name, in its own or in its control file. *)
EvidenceStays ==
  [][ \A k \in Keys :
        landing[k].data # None /\ landing'[k].data # landing[k].data
        => landing'[k].by = "sender" ]_vars

\* All the gate needs of the file is here, and done being written.
Actionable(f) ==
  /\ inbox[f].whole
  /\ ~DoorControl(f)
  /\ (Route(f) \in Gated \ Archive /\ ~Conformant(f)) => HasControl(f)

Nameable(b) == Unpacked(b) = <<>> \/ \E i \in DOMAIN Unpacked(b) : Unpacked(b)[i].date # None

(* The gate drains the inbox: once senders stop, no file that is complete, and
   has the control file the gate asks it for, is looked at for ever, but a
   container none of whose members can be named.  That file may be one that no
   sender writes: a control file under its landing name is asked for a control
   file of its own if its feed has arrival.control, and stays. *)
Drains == []<>(\A f \in Files : Actionable(f) => Route(f) \in Archive /\ ~Nameable(inbox[f].bytes))

(* "nowhere if it is merely waiting or if every write failed" (_promote): any
   other file moves. *)
Settles == []<>(\A f \in Files : ~Actionable(f))
=============================================================================
