---------------------------- MODULE Inbox_proofs ----------------------------
(***************************************************************************)
(* Proofs about Inbox, for every set of names, senders and containers, and *)
(* any number of files, failed calls and deaths of the watcher.            *)
(***************************************************************************)
EXTENDS Inbox, FiniteSetTheorems, WellFoundedInduction, SequenceTheorems, TLAPS

-----------------------------------------------------------------------------
(* The inductive invariant. *)

\* A file the watcher acts on has been seen unchanged, so nobody writes it.
QuietIsWhole ==
  \A f \in Files : /\ seen[f] = Stable => inbox[f].whole
                   /\ inbox[f].whole => inbox[f].bytes # None

\* Metadata is put after its data.
MetadataHasData == \A k \in Keys : landing[k].data = None => landing[k].meta = None

\* A name the gate gave was guarded by its control file first.
ControlFirst ==
  \A k \in Keys : (landing[k].by \in {"gate", "gap", "unsure"} /\ k.feed \in Gated)
                     => landing[k].control

\* An outcome that puts a delivery under a name the gate chose.
Chosen(o) == o.kind = "planned" /\ ~o.declared

\* Version w of the key's date.
Sibling(k, w) == [feed |-> k.feed, date |-> k.date, version |-> w]

\* What is planned but not yet put: names of the feed's own, and where the gate
\* chose them, free in landing and not those of an outcome before.
PlannedIsFree(j) ==
  \A i \in DOMAIN j.out :
    /\ j.out[i].kind = "planned" => j.out[i].key.feed = Route(j.file)
    /\ Chosen(j.out[i]) =>
         /\ landing[j.out[i].key].data = None
         /\ \A h \in 1 .. i - 1 : j.out[h].kind = "planned" => j.out[h].key # j.out[i].key

IInv ==
  /\ TypeOK
  /\ QuietIsWhole
  /\ MetadataHasData
  /\ ControlFirst
  /\ job # None => PlannedIsFree(job)

-----------------------------------------------------------------------------
(* The inductive invariant of the names. *)

\* The members of a container that share a date differ.  (Two that do not are
\* planned one after the other, and the second finds no md5 to compare.)
DistinctMembers ==
  \A b \in Bytes : \A i, j \in DOMAIN Members[b] :
    Members[b][i].date = Members[b][j].date /\ Members[b][i].body = Members[b][j].body
      => i = j

\* Below a name the gate gave every version has landed, and its metadata, if it
\* was put, is its own.
NamesInOrder ==
  \A k \in Keys : landing[k].by = "gate" =>
    /\ landing[k].data # None
    /\ landing[k].meta \in {None, landing[k].data}
    /\ \A w \in Versions : w < k.version => landing[Sibling(k, w)].data # None

\* The versions below a planned name have landed or are put before it.
NoGapPlanned(j) ==
  \A i \in DOMAIN j.out : Chosen(j.out[i]) =>
    \A w \in Versions : w < j.out[i].key.version =>
      \/ landing[Sibling(j.out[i].key, w)].data # None
      \/ \E h \in 1 .. i - 1 : j.out[h].kind = "planned" /\ j.out[h].key = Sibling(j.out[i].key, w)

\* What is planned is not under a name the gate gave, nor planned twice.
PlannedIsNew(j) ==
  \A i \in DOMAIN j.out : Chosen(j.out[i]) =>
    /\ \A k \in Keys :
         (landing[k].by = "gate" /\ k.feed = j.out[i].key.feed /\ k.date = j.out[i].key.date)
           => landing[k].data # j.out[i].body
    /\ \A h \in 1 .. i - 1 :
         (Chosen(j.out[h]) /\ j.out[h].key.date = j.out[i].key.date)
           => j.out[h].body # j.out[i].body

NameInv ==
  /\ NamesInOrder
  /\ OneNameEach
  /\ (job # None /\ job.by = "gate") => NoGapPlanned(job) /\ PlannedIsNew(job)

-----------------------------------------------------------------------------
(* The inductive invariant of what moves. *)

\* A sender has named a delivery of the feed, in its own name or control file.
SenderNamed(fd) == \E k \in Keys : k.feed = fd /\ landing[k].by = "sender"

\* No control file declares a version, packed or not, and a feed whose senders
\* write landing names of its own sends nothing that is promoted.
SendersNameNothing ==
  /\ \A b \in Bytes \union {Torn} : Says[b] # None => Says[b].version = None
  /\ \A b \in Bytes : \A i \in DOMAIN Members[b] : Members[b][i].version = None
  /\ \A f, g \in Files :
       (Conformant(f) /\ ~IsControl(f) /\ Route(f) # None /\ ~Conformant(g)) => Route(f) # Route(g)

\* Metadata is of the data beside it, but where a sender's upload replaced that.
MetadataMatches ==
  \A k \in Keys : /\ landing[k].by = "sender" => landing[k].data # None
                  /\ landing[k].by # "sender" => landing[k].meta \in {None, landing[k].data}

\* A file whose copy has not moved is the one that was read.
Held(j) == j.pc \in {"write", "move"} => inbox[j.file] = [bytes |-> j.read, whole |-> TRUE]

\* A conformant delivery is landed before its copy moves.
InPlace(j) ==
  (j.pc = "move" /\ j.to = "processed" /\ ~IsControl(j.file)) =>
    /\ Conformant(j.file)
    /\ KeyOf[j.file] \in Keys /\ KeyOf[j.file].feed = Route(j.file)
    /\ landing[KeyOf[j.file]].data = j.read

\* The bodies of the outcomes that are still to be dealt with.
Left(j) == {j.out[i].body : i \in DOMAIN j.out}

\* What is left of a promotion is of the file, and a duplicate's bytes landed.
LeftIsOwed(j) ==
  \A i \in DOMAIN j.out :
    /\ j.out[i].kind \in {"planned", "duplicate"} => j.out[i].body \in Owed(j.file, j.read)
    /\ j.out[i].kind = "duplicate" =>
         SenderNamed(Route(j.file)) \/ j.out[i].body \in LandedBodies(Route(j.file))
    /\ j.out[i].kind = "waiting" => Len(j.out) = 1 /\ ~j.written

\* Each delivery of the file is landed, given up beside one that landed, or
\* still to be dealt with; or nothing came of the file.
Accounted(j) ==
  /\ ~Conformant(j.file)
  /\ LeftIsOwed(j)
  /\ (j.to = "processed" /\ ~SenderNamed(Route(j.file))) =>
       /\ j.written => Owed(j.file, j.read) \intersect LandedBodies(Route(j.file)) # {}
       /\ \/ Owed(j.file, j.read) \subseteq LandedBodies(Route(j.file)) \union j.lost \union Left(j)
          \/ ~j.written /\ j.out = <<>>

MoveInv ==
  /\ MetadataMatches
  /\ job # None => /\ Held(job) /\ InPlace(job)
                   /\ job.pc = "write" => Accounted(job)

-----------------------------------------------------------------------------
(* Operators. *)

\* Every set of natural numbers with a member has a least one.
LEMMA LeastNatural ==
  ASSUME NEW T \in SUBSET Nat, T # {}
  PROVE  \E m \in T : \A k \in T : m <= k
<1>1. IsWellFoundedOn(OpToRel(<, Nat), Nat)
  BY NatLessThanWellFounded
<1>2. PICK x \in T : \A y \in T : ~ (<<y, x>> \in OpToRel(<, Nat))
  BY <1>1, WFMin
<1>3. \A y \in T : ~(y < x)
  BY <1>2 DEF OpToRel
<1>. QED
  BY <1>3

\* Where one feed claims a name, it is the one the name is routed to.
LEMMA RouteType ==
  ASSUME NEW f \in Files
  PROVE  Route(f) \in Feeds \union {None}
BY DEF Route

\* The first version that stops the search is planned or a duplicate; what is
\* planned without being declared is free, and every version below it is taken
\* by other bytes.
LEMMA FreeNameFacts ==
  ASSUME NEW fd \in Feeds, NEW m \in Packed, m.date # None, NEW taken, NEW unread
  PROVE  LET o == FreeName(fd, m, taken, unread)
         IN /\ o \in Outcomes /\ o.body = m.body /\ o.kind # "waiting"
            /\ o.kind = "planned" => /\ o.key.feed = fd /\ o.key.date = m.date
                                     /\ o.declared = (m.version # None)
            /\ o.kind = "duplicate" => o.key.feed = fd /\ Md5(o.key, unread) = m.body
            /\ Chosen(o) => /\ o.key \notin taken
                            /\ \A w \in Versions : w < o.key.version =>
                                 /\ Sibling(o.key, w) \in taken
                                 /\ Md5(Sibling(o.key, w), unread) # m.body
<1>. DEFINE Key(v) == [feed |-> fd, date |-> m.date, version |-> v]
            stop == IF m.version # None THEN {m.version}
                    ELSE {v \in 1 .. MaxVersion :
                            Key(v) \notin taken \/ Md5(Key(v), unread) = m.body}
            v0 == CHOOSE v \in stop : \A w \in stop : v <= w
            o == FreeName(fd, m, taken, unread)
<1>1. /\ m.body \in Bytes /\ m.date \in Dates /\ m.version \in Versions \union {None}
      /\ Versions \subseteq Nat /\ MaxVersion \in Nat
  BY InboxAssumptions DEF Packed, Versions
<1>2. stop \subseteq Versions
  BY <1>1 DEF Versions
<1>3. stop # {} => v0 \in stop /\ \A w \in stop : v0 <= w
  <2>. HIDE DEF stop
  <2>1. stop \in SUBSET Nat
    BY <1>1, <1>2
  <2>. QED
    BY <2>1, LeastNatural
<1>4. o = IF stop = {} THEN [kind |-> "refused", body |-> m.body]
          ELSE IF Key(v0) \in taken /\ Md5(Key(v0), unread) = m.body
               THEN [kind |-> "duplicate", body |-> m.body, key |-> Key(v0)]
               ELSE [kind |-> "planned", body |-> m.body, key |-> Key(v0),
                     declared |-> m.version # None]
  BY Zenon DEF FreeName
<1>5. stop # {} => Key(v0) \in Keys
  <2>. HIDE DEF stop, v0
  <2>. QED
    BY <1>1, <1>2, <1>3 DEF Keys
<1>6. CASE stop = {}
  BY <1>1, <1>4, <1>6 DEF Outcomes, Chosen
<1>7. CASE stop # {} /\ Key(v0) \in taken /\ Md5(Key(v0), unread) = m.body
  <2>. HIDE DEF stop, v0, Key
  <2>1. o = [kind |-> "duplicate", body |-> m.body, key |-> Key(v0)]
    BY <1>4, <1>7
  <2>2. Key(v0).feed = fd
    BY DEF Key
  <2>3. /\ o.kind = "duplicate" /\ o.key = Key(v0) /\ o.body = m.body /\ o \in Outcomes
        /\ ~Chosen(o) /\ Md5(o.key, unread) = m.body
    <3>. HIDE DEF o
    <3>1. o.kind = "duplicate" /\ o.key = Key(v0) /\ o.body = m.body
      BY <2>1
    <3>2. o \in Outcomes
      BY <1>1, <1>5, <1>7, <2>1 DEF Outcomes
    <3>. QED
      BY <1>7, <3>1, <3>2 DEF Chosen
  <2>. QED
    BY <2>2, <2>3
<1>8. CASE stop # {} /\ ~(Key(v0) \in taken /\ Md5(Key(v0), unread) = m.body)
  <2>1. o = [kind |-> "planned", body |-> m.body, key |-> Key(v0), declared |-> m.version # None]
    BY <1>4, <1>8
  <2>2. o \in Outcomes /\ o.body = m.body /\ o.kind = "planned" /\ o.key = Key(v0)
        /\ o.declared = (m.version # None)
    <3>. HIDE DEF stop, v0, Key, o
    <3>. QED
      BY <1>1, <1>5, <1>8, <2>1 DEF Outcomes
  <2>3. o.key.feed = fd /\ o.key.date = m.date /\ o.key.version = v0
    <3>. HIDE DEF stop, v0, o
    <3>. QED
      BY <2>2
  <2>4. ASSUME Chosen(o)
        PROVE  /\ o.key \notin taken
               /\ \A w \in Versions : w < v0 => Key(w) \in taken /\ Md5(Key(w), unread) # m.body
    <3>1. m.version = None
      BY <2>2, <2>4 DEF Chosen
    <3>2. stop = {v \in Versions : Key(v) \notin taken \/ Md5(Key(v), unread) = m.body}
      BY <3>1 DEF Versions
    <3>3. v0 \in Nat
      <4>. HIDE DEF stop, v0
      <4>. QED
        BY <1>1, <1>2, <1>3, <1>8
    <3>. HIDE DEF stop, v0, Key, o
    <3>4. o.key \notin taken
      BY <1>3, <1>8, <2>2, <3>2
    <3>5. ASSUME NEW w \in Versions, w < v0
          PROVE  Key(w) \in taken /\ Md5(Key(w), unread) # m.body
      <4>1. ~(v0 <= w)
        BY <1>1, <3>3, <3>5
      <4>. QED
        BY <1>3, <1>8, <3>2, <4>1
    <3>. QED
      BY <3>4, <3>5
  <2>5. \A w : Sibling(o.key, w) = Key(w)
    <3>. HIDE DEF stop, v0, o
    <3>. QED
      BY <2>3 DEF Sibling
  <2>. HIDE DEF stop, v0, Key
  <2>. QED
    BY <2>2, <2>3, <2>4, <2>5
<1>. HIDE DEF stop, v0, Key
<1>. QED
  BY <1>6, <1>7, <1>8

\* A plan of the members exists, so the recursive definition is one.
NextPlan(fd, ms, unread, i, plan) ==
  LET outcome == [taken \in SUBSET Keys |-> ConformMember(fd, ms[i], taken, unread)]
  IN Append(plan, outcome[Taken \union NamedIn(plan)])

LEMMA PlansExist ==
  ASSUME NEW fd, NEW ms, Len(ms) \in Nat, NEW unread
  PROVE  LET p == MemberPlans(fd, ms, unread)
         IN p = [n \in 0 .. Len(ms) |-> IF n = 0 THEN <<>>
                                        ELSE NextPlan(fd, ms, unread, n, p[n - 1])]
<1>. DEFINE G(n, x) == NextPlan(fd, ms, unread, n, x)
            IsPlans(p, n) == p = [i \in 0 .. n |-> IF i = 0 THEN <<>> ELSE G(i, p[i - 1])]
            T == {n \in Nat : ~ \E p : IsPlans(p, n)}
<1>1. T = {}
  <2>1. SUFFICES ASSUME T # {} PROVE FALSE
    OBVIOUS
  <2>2. PICK n \in T : \A k \in T : n <= k
    <3>1. T \in SUBSET Nat
      OBVIOUS
    <3>. HIDE DEF T
    <3>. QED
      BY <2>1, <3>1, LeastNatural
  <2>3. CASE n = 0
    <3>1. IsPlans([i \in 0 .. 0 |-> <<>>], 0)
      <4>. HIDE DEF G
      <4>. QED
        BY SMT
    <3>. HIDE DEF IsPlans
    <3>. QED
      BY <2>2, <2>3, <3>1
  <2>4. CASE n # 0
    <3>1. n \in Nat /\ n - 1 \in Nat /\ ~(n <= n - 1)
      BY <2>2, <2>4
    <3>2. n - 1 \notin T
      <4>. HIDE DEF T
      <4>. QED
        BY <2>2, <3>1
    <3>3. PICK q : IsPlans(q, n - 1)
      <4>. HIDE DEF IsPlans
      <4>. QED
        BY <3>1, <3>2
    <3>. DEFINE p == [i \in 0 .. n |-> IF i = n THEN G(n, q[n - 1]) ELSE q[i]]
    <3>4. ASSUME NEW i \in 0 .. n
          PROVE  p[i] = IF i = 0 THEN <<>> ELSE G(i, p[i - 1])
      <4>. HIDE DEF G
      <4>1. CASE i = n
        BY <2>4, <3>1, <4>1
      <4>2. CASE i # n
        <5>1. i \in 0 .. n - 1 /\ (i # 0 => i - 1 \in 0 .. n - 1 /\ i - 1 \in 0 .. n /\ i - 1 # n)
          BY <3>1, <4>2
        <5>2. p[i] = q[i] /\ (i # 0 => p[i - 1] = q[i - 1])
          BY <4>2, <5>1
        <5>3. q[i] = IF i = 0 THEN <<>> ELSE G(i, q[i - 1])
          BY <3>3, <5>1
        <5>. HIDE DEF p
        <5>. QED
          BY <5>2, <5>3
      <4>. QED
        BY <4>1, <4>2
    <3>5. IsPlans(p, n)
      <4>1. p = [i \in 0 .. n |-> p[i]]
        OBVIOUS
      <4>. HIDE DEF G, p
      <4>. QED
        BY <3>4, <4>1
    <3>. HIDE DEF IsPlans, p
    <3>. QED
      BY <2>2, <3>5
  <2>. QED
    BY <2>2, <2>3, <2>4
<1>2. \E p : IsPlans(p, Len(ms))
  <2>. HIDE DEF IsPlans
  <2>. QED
    BY <1>1
<1>3. MemberPlans(fd, ms, unread) = CHOOSE p : IsPlans(p, Len(ms))
  BY DEF MemberPlans, NextPlan
<1>4. IsPlans(MemberPlans(fd, ms, unread), Len(ms))
  <2>. HIDE DEF IsPlans
  <2>. QED
    BY <1>2, <1>3
<1>. QED
  BY <1>4

\* What the i-th outcome of a plan says of the ones before it.
FollowsAt(p, i, fd, unread) ==
  /\ p[i].kind = "planned" =>
       p[i].key.feed = fd /\ (SendersNameNothing => ~p[i].declared)
  /\ p[i].kind = "duplicate" => p[i].key.feed = fd /\ Md5(p[i].key, unread) = p[i].body
  /\ Chosen(p[i]) =>
       /\ p[i].key \notin Taken
       /\ \A h \in 1 .. i - 1 : p[h].kind = "planned" => p[h].key # p[i].key
       /\ \A w \in Versions : w < p[i].key.version =>
            /\ \/ Sibling(p[i].key, w) \in Taken
               \/ \E h \in 1 .. i - 1 : p[h].kind = "planned" /\ p[h].key = Sibling(p[i].key, w)
            /\ Md5(Sibling(p[i].key, w), unread) # p[i].body

\* No member declares a version, where no sender does.
Unversioned(ms) == SendersNameNothing => \A i \in DOMAIN ms : ms[i].version = None

\* A plan of the first n members.
Follows(p, n, fd, ms, unread) ==
  /\ p \in Seq(Outcomes) /\ Len(p) = n
  /\ \A i \in 1 .. n :
       /\ p[i].body = ms[i].body /\ p[i].kind # "waiting"
       /\ p[i].kind = "planned" => p[i].key.date = ms[i].date
       /\ FollowsAt(p, i, fd, unread)

LEMMA NextFollows ==
  ASSUME NEW fd \in Feeds, NEW ms \in Seq(Packed), NEW unread, Unversioned(ms),
         NEW n \in 1 .. Len(ms), NEW q, Follows(q, n - 1, fd, ms, unread)
  PROVE  Follows(NextPlan(fd, ms, unread, n, q), n, fd, ms, unread)
<1>. DEFINE tk == Taken \union NamedIn(q)
            o == ConformMember(fd, ms[n], tk, unread)
            p == NextPlan(fd, ms, unread, n, q)
<1>0. n \in Nat /\ n - 1 \in Nat /\ q \in Seq(Outcomes) /\ Len(q) = n - 1 /\ ms[n] \in Packed
  BY DEF Follows
<1>1. /\ o \in Outcomes /\ o.body = ms[n].body /\ o.kind # "waiting"
      /\ o.kind = "planned" => /\ o.key.feed = fd /\ o.key.date = ms[n].date
                               /\ SendersNameNothing => ~o.declared
      /\ o.kind = "duplicate" => o.key.feed = fd /\ Md5(o.key, unread) = o.body
      /\ Chosen(o) => /\ o.key \notin tk
                      /\ \A w \in Versions : w < o.key.version =>
                           /\ Sibling(o.key, w) \in tk
                           /\ Md5(Sibling(o.key, w), unread) # ms[n].body
  <2>1. CASE ms[n].date = None
    <3>1. o = [kind |-> "refused", body |-> ms[n].body] /\ ms[n].body \in Bytes
      BY <1>0, <2>1 DEF ConformMember, Packed
    <3>. QED
      BY <3>1 DEF Outcomes, Chosen
  <2>2. CASE ms[n].date # None
    <3>1. o = FreeName(fd, ms[n], tk, unread)
      BY <2>2 DEF ConformMember
    <3>2. SendersNameNothing => ms[n].version = None
      BY DEF Unversioned
    <3>. HIDE DEF o, tk
    <3>3. LET x == FreeName(fd, ms[n], tk, unread)
          IN /\ x \in Outcomes /\ x.body = ms[n].body /\ x.kind # "waiting"
             /\ x.kind = "planned" => /\ x.key.feed = fd /\ x.key.date = ms[n].date
                                      /\ x.declared = (ms[n].version # None)
             /\ x.kind = "duplicate" => x.key.feed = fd /\ Md5(x.key, unread) = ms[n].body
             /\ Chosen(x) => /\ x.key \notin tk
                             /\ \A w \in Versions : w < x.key.version =>
                                  /\ Sibling(x.key, w) \in tk
                                  /\ Md5(Sibling(x.key, w), unread) # ms[n].body
      BY <1>0, <2>2, FreeNameFacts
    <3>. QED
      BY <3>1, <3>2, <3>3
  <2>. QED
    BY <2>1, <2>2
<1>2. /\ p \in Seq(Outcomes) /\ Len(p) = n /\ p[n] = o
      /\ \A i \in 1 .. n - 1 : p[i] = q[i]
  <2>1. tk \in SUBSET Keys
    <3>1. \A i \in DOMAIN q : q[i] \in Outcomes
      BY <1>0
    <3>2. \A x \in Outcomes : x.kind = "planned" => x.key \in Keys
      BY DEF Outcomes
    <3>. QED
      BY <3>1, <3>2 DEF NamedIn, Taken
  <2>2. p = Append(q, o)
    BY <2>1 DEF NextPlan
  <2>. HIDE DEF o, p
  <2>. QED
    BY <1>0, <1>1, <2>2, AppendProperties
<1>3. \A k : k \in NamedIn(q) <=> \E h \in 1 .. n - 1 : p[h].kind = "planned" /\ p[h].key = k
  <2>1. DOMAIN q = 1 .. n - 1
    BY <1>0
  <2>. HIDE DEF p
  <2>. QED
    BY <1>2, <2>1 DEF NamedIn
<1>4. FollowsAt(p, n, fd, unread)
  <2>1. \A k : k \notin tk => k \notin Taken /\ k \notin NamedIn(q)
    OBVIOUS
  <2>2. \A k : k \in tk => k \in Taken \/ k \in NamedIn(q)
    OBVIOUS
  <2>3. Chosen(o) => \A h \in 1 .. n - 1 : p[h].kind = "planned" => p[h].key # o.key
    <3>. HIDE DEF p, o, tk
    <3>. QED
      BY <1>1, <1>3, <2>1
  <2>4. ASSUME Chosen(o), NEW w \in Versions, w < o.key.version
        PROVE  /\ \/ Sibling(o.key, w) \in Taken
                  \/ \E h \in 1 .. n - 1 : p[h].kind = "planned" /\ p[h].key = Sibling(o.key, w)
               /\ Md5(Sibling(o.key, w), unread) # o.body
    <3>. HIDE DEF p, o, tk
    <3>. QED
      BY <1>1, <1>3, <2>2, <2>4
  <2>. HIDE DEF p, o, tk
  <2>. QED
    BY <1>1, <1>2, <2>1, <2>3, <2>4 DEF FollowsAt
<1>5. ASSUME NEW i \in 1 .. n - 1
      PROVE  /\ p[i].body = ms[i].body /\ p[i].kind # "waiting"
             /\ p[i].kind = "planned" => p[i].key.date = ms[i].date
             /\ FollowsAt(p, i, fd, unread)
  <2>1. p[i] = q[i] /\ \A h \in 1 .. i - 1 : p[h] = q[h]
    <3>1. \A h \in 1 .. i - 1 : h \in 1 .. n - 1
      BY <1>0, <1>5
    <3>. HIDE DEF p
    <3>. QED
      BY <1>2, <3>1
  <2>2. /\ q[i].body = ms[i].body /\ q[i].kind # "waiting"
        /\ q[i].kind = "planned" => q[i].key.date = ms[i].date
        /\ FollowsAt(q, i, fd, unread)
    BY DEF Follows
  <2>3. FollowsAt(p, i, fd, unread)
    <3>. HIDE DEF p
    <3>. QED
      BY <2>1, <2>2 DEF FollowsAt
  <2>. HIDE DEF p
  <2>. QED
    BY <2>1, <2>2, <2>3
<1>6. \A i \in 1 .. n : i = n \/ i \in 1 .. n - 1
  BY <1>0
<1>. HIDE DEF p, o, tk
<1>7. Follows(p, n, fd, ms, unread)
  BY <1>1, <1>2, <1>4, <1>5, <1>6 DEF Follows
<1>. QED
  BY <1>7 DEF p

LEMMA MembersFollow ==
  ASSUME NEW fd \in Feeds, NEW ms \in Seq(Packed), NEW unread, Unversioned(ms)
  PROVE  Follows(MemberPlans(fd, ms, unread)[Len(ms)], Len(ms), fd, ms, unread)
<1>. DEFINE p == MemberPlans(fd, ms, unread)
            T == {n \in Nat : n <= Len(ms) /\ ~Follows(p[n], n, fd, ms, unread)}
<1>0. Len(ms) \in Nat
  OBVIOUS
<1>1. p = [n \in 0 .. Len(ms) |-> IF n = 0 THEN <<>> ELSE NextPlan(fd, ms, unread, n, p[n - 1])]
  BY <1>0, PlansExist
<1>a. \A n \in 0 .. Len(ms) : p[n] = IF n = 0 THEN <<>> ELSE NextPlan(fd, ms, unread, n, p[n - 1])
  <2>. HIDE DEF p
  <2>. QED
    BY <1>1
<1>2. T = {}
  <2>1. SUFFICES ASSUME T # {} PROVE FALSE
    OBVIOUS
  <2>2. PICK n \in T : \A k \in T : n <= k
    <3>1. T \in SUBSET Nat
      OBVIOUS
    <3>. HIDE DEF T
    <3>. QED
      BY <2>1, <3>1, LeastNatural
  <2>3. n \in Nat /\ n \in 0 .. Len(ms) /\ ~Follows(p[n], n, fd, ms, unread)
    BY <1>0, <2>2
  <2>. HIDE DEF p
  <2>4. CASE n = 0
    <3>1. p[n] = <<>>
      BY <1>a, <2>3, <2>4
    <3>2. <<>> \in Seq(Outcomes) /\ Len(<<>>) = 0 /\ 1 .. 0 = {}
      OBVIOUS
    <3>. QED
      BY <2>3, <2>4, <3>1, <3>2 DEF Follows
  <2>5. CASE n # 0
    <3>1. n - 1 \in Nat /\ n - 1 <= Len(ms) /\ ~(n <= n - 1) /\ n \in 1 .. Len(ms)
      BY <1>0, <2>3, <2>5
    <3>2. n - 1 \notin T
      <4>. HIDE DEF T
      <4>. QED
        BY <2>2, <3>1
    <3>3. Follows(p[n - 1], n - 1, fd, ms, unread)
      BY <3>1, <3>2
    <3>4. p[n] = NextPlan(fd, ms, unread, n, p[n - 1])
      BY <1>a, <2>3, <2>5
    <3>. QED
      BY <2>3, <3>1, <3>3, <3>4, NextFollows
  <2>. QED
    BY <2>4, <2>5
<1>. HIDE DEF p
<1>3. Follows(p[Len(ms)], Len(ms), fd, ms, unread)
  BY <1>0, <1>2
<1>. QED
  BY <1>3 DEF p

\* A plan of one outcome follows if its delivery was named.
LEMMA OneFollows ==
  ASSUME NEW fd \in Feeds, NEW unread, NEW o \in Outcomes,
         o.kind = "planned" => o.key.feed = fd /\ (SendersNameNothing => ~o.declared),
         o.kind = "duplicate" => o.key.feed = fd /\ Md5(o.key, unread) = o.body,
         Chosen(o) => /\ o.key \notin Taken
                      /\ \A w \in Versions : w < o.key.version =>
                           /\ Sibling(o.key, w) \in Taken
                           /\ Md5(Sibling(o.key, w), unread) # o.body
  PROVE  <<o>> \in Seq(Outcomes) /\ Len(<<o>>) = 1 /\ FollowsAt(<<o>>, 1, fd, unread)
BY DEF FollowsAt

LEMMA PlanFileFacts ==
  ASSUME TypeOK, QuietIsWhole, NEW f \in Files, Route(f) # None, ~Conformant(f),
         NEW body \in Bytes, NEW unread
  PROVE  LET p == PlanFile(Route(f), f, body, unread)
         IN p \in Seq(Outcomes) /\ Len(p) = 1 /\ p[1].body = body /\ FollowsAt(p, 1, Route(f), unread)
<1>. DEFINE fd == Route(f)
            said == ReadControl(f)
            m == [body |-> body, version |-> said.version,
                  date |-> IF said.date # None THEN said.date ELSE NameDate[f]]
            p == PlanFile(fd, f, body, unread)
<1>. SUFFICES p \in Seq(Outcomes) /\ Len(p) = 1 /\ p[1].body = body /\ FollowsAt(p, 1, fd, unread)
  OBVIOUS
<1>1. fd \in Feeds
  BY RouteType
<1>2. CASE fd \in Gated /\ ~HasControl(f)
  <2>1. p = <<[kind |-> "waiting", body |-> body]>>
    BY <1>2 DEF PlanFile
  <2>2. [kind |-> "waiting", body |-> body] \in Outcomes
        /\ [kind |-> "waiting", body |-> body].kind = "waiting"
        /\ [kind |-> "waiting", body |-> body].body = body
    BY DEF Outcomes
  <2>. HIDE DEF p
  <2>. QED
    BY <1>1, <2>1, <2>2, OneFollows DEF Chosen
<1>3. CASE ~(fd \in Gated /\ ~HasControl(f)) /\ said = None
  <2>1. p = <<[kind |-> "refused", body |-> body]>>
    BY <1>3 DEF PlanFile
  <2>2. [kind |-> "refused", body |-> body] \in Outcomes
        /\ [kind |-> "refused", body |-> body].kind = "refused"
        /\ [kind |-> "refused", body |-> body].body = body
    BY DEF Outcomes
  <2>. HIDE DEF p
  <2>. QED
    BY <1>1, <2>1, <2>2, OneFollows DEF Chosen
<1>4. CASE ~(fd \in Gated /\ ~HasControl(f)) /\ said # None
  <2>1. p = <<Conform(fd, m, Taken, unread)>>
    BY <1>4 DEF PlanFile
  <2>2. said \in Declared
    <3>1. CASE fd \in Gated
      <4>1. ControlOf[f] \in Files
        BY <1>4, <3>1, RoutingAssumptions DEF HasControl
      <4>2. Content(ControlOf[f]) \in Bytes \union {Torn}
        BY <4>1 DEF TypeOK, QuietIsWhole, Content
      <4>3. said = Says[Content(ControlOf[f])]
        BY <3>1 DEF ReadControl
      <4>. QED
        BY <1>4, <4>2, <4>3, InboxAssumptions
    <3>2. CASE fd \notin Gated
      BY <3>2 DEF ReadControl, Declared
    <3>. QED
      BY <3>1, <3>2
  <2>6. SendersNameNothing => said.version = None
    <3>1. CASE fd \in Gated
      <4>1. ControlOf[f] \in Files
        BY <1>4, <3>1, RoutingAssumptions DEF HasControl
      <4>2. Content(ControlOf[f]) \in Bytes \union {Torn}
        BY <4>1 DEF TypeOK, QuietIsWhole, Content
      <4>3. said = Says[Content(ControlOf[f])]
        BY <3>1 DEF ReadControl
      <4>. QED
        BY <1>4, <4>2, <4>3 DEF SendersNameNothing
    <3>2. CASE fd \notin Gated
      BY <3>2 DEF ReadControl
    <3>. QED
      BY <3>1, <3>2
  <2>3. m \in Packed /\ m.body = body /\ m.version = said.version
    <3>1. NameDate[f] \in Dates \union {None}
      BY InboxAssumptions
    <3>. HIDE DEF said
    <3>. QED
      BY <2>2, <3>1 DEF Declared, Packed
  <2>. DEFINE o == Conform(fd, m, Taken, unread)
  <2>4. CASE m.date = None
    <3>1. o = [kind |-> "refused", body |-> body]
      BY <2>4 DEF Conform
    <3>2. [kind |-> "refused", body |-> body] \in Outcomes
          /\ [kind |-> "refused", body |-> body].kind = "refused"
          /\ [kind |-> "refused", body |-> body].body = body
      BY DEF Outcomes
    <3>. HIDE DEF p, m, o
    <3>. QED
      BY <1>1, <2>1, <3>1, <3>2, OneFollows DEF Chosen, o
  <2>5. CASE m.date # None
    <3>1. o = FreeName(fd, m, Taken, unread)
      BY <2>5 DEF Conform
    <3>2. p = <<o>>
      BY <2>1
    <3>3. /\ o \in Outcomes /\ o.body = m.body
          /\ o.kind = "planned" => o.key.feed = fd /\ (SendersNameNothing => ~o.declared)
          /\ o.kind = "duplicate" => o.key.feed = fd /\ Md5(o.key, unread) = o.body
          /\ Chosen(o) => /\ o.key \notin Taken
                          /\ \A w \in Versions : w < o.key.version =>
                               /\ Sibling(o.key, w) \in Taken
                               /\ Md5(Sibling(o.key, w), unread) # o.body
      <4>. HIDE DEF m, o, fd
      <4>1. LET x == FreeName(fd, m, Taken, unread)
            IN /\ x \in Outcomes /\ x.body = m.body /\ x.kind # "waiting"
               /\ x.kind = "planned" => /\ x.key.feed = fd /\ x.key.date = m.date
                                        /\ x.declared = (m.version # None)
               /\ x.kind = "duplicate" => x.key.feed = fd /\ Md5(x.key, unread) = m.body
               /\ Chosen(x) => /\ x.key \notin Taken
                               /\ \A w \in Versions : w < x.key.version =>
                                    /\ Sibling(x.key, w) \in Taken
                                    /\ Md5(Sibling(x.key, w), unread) # m.body
        BY <1>1, <2>3, <2>5, FreeNameFacts
      <4>. QED
        BY <2>6, <2>3, <3>1, <4>1
    <3>. HIDE DEF p, m, o, fd
    <3>. QED
      BY <1>1, <2>3, <3>2, <3>3, OneFollows
  <2>. QED
    BY <2>4, <2>5
<1>. QED
  BY <1>2, <1>3, <1>4

\* Every outcome of a plan follows, and those of distinct deliveries differ.
LEMMA PlanFacts ==
  ASSUME TypeOK, QuietIsWhole, NEW f \in Files, Route(f) # None, ~Conformant(f),
         inbox[f].whole, NEW unread
  PROVE  LET p == Plan(Route(f), f, unread)
         IN /\ p \in Seq(Outcomes)
            /\ \A i \in 1 .. Len(p) : FollowsAt(p, i, Route(f), unread)
            /\ DistinctMembers =>
                 \A i \in 1 .. Len(p) : \A h \in 1 .. i - 1 :
                   (Chosen(p[h]) /\ Chosen(p[i]) /\ p[h].key.date = p[i].key.date)
                     => p[h].body # p[i].body
            /\ Owed(f, Content(f)) \subseteq {p[i].body : i \in 1 .. Len(p)}
            /\ \A i \in 1 .. Len(p) :
                 /\ p[i].kind \in {"planned", "duplicate"} => p[i].body \in Owed(f, Content(f))
                 /\ p[i].kind = "waiting" => Len(p) = 1
<1>. DEFINE fd == Route(f)
            p == Plan(fd, f, unread)
            b == Content(f)
            ms == Unpacked(b)
<1>1. fd \in Feeds
  BY RouteType
<1>2. b \in Bytes
  BY DEF TypeOK, QuietIsWhole, Content
<1>3. ms = Members[b] /\ ms \in Seq(Packed)
  BY <1>2, InboxAssumptions DEF Unpacked
<1>7. Owed(f, b) = IF fd \notin Archive THEN {b} ELSE {ms[i].body : i \in DOMAIN ms}
  BY DEF Owed
<1>. DEFINE owed == Owed(f, b)
<1>4. CASE fd \in Archive /\ ms = <<>>
  <2>1. p = <<[kind |-> "refused", body |-> b]>>
    BY <1>4 DEF Plan, PlanArchive
  <2>2. [kind |-> "refused", body |-> b] \in Outcomes
        /\ [kind |-> "refused", body |-> b].kind = "refused"
    BY <1>2 DEF Outcomes
  <2>6. owed = {} /\ p[1].kind = "refused"
    BY <1>4, <1>7, <2>1
  <2>3. p \in Seq(Outcomes) /\ Len(p) = 1 /\ FollowsAt(p, 1, fd, unread)
    <3>. HIDE DEF p, fd, b
    <3>. QED
      BY <1>1, <2>1, <2>2, OneFollows DEF Chosen
  <2>. HIDE DEF p
  <2>4. \A i \in 1 .. Len(p) : i = 1 /\ 1 .. i - 1 = {}
    BY <2>3
  <2>5. \A i \in 1 .. Len(p) : FollowsAt(p, i, fd, unread) /\ p[i].kind = "refused"
    BY <2>3, <2>4, <2>6
  <2>. HIDE DEF owed
  <2>. QED
    BY <2>3, <2>4, <2>5, <2>6 DEF p, owed
<1>5. CASE fd \in Archive /\ ms # <<>>
  <2>1. p = MemberPlans(fd, ms, unread)[Len(ms)]
    BY <1>5 DEF Plan, PlanArchive
  <2>2. Follows(p, Len(ms), fd, ms, unread)
    <3>1. Unversioned(ms)
      BY <1>2, <1>3 DEF Unversioned, SendersNameNothing
    <3>. HIDE DEF p, fd, ms, b
    <3>. QED
      BY <1>1, <1>3, <2>1, <3>1, MembersFollow
  <2>. HIDE DEF p, ms
  <2>3. p \in Seq(Outcomes) /\ \A i \in 1 .. Len(p) : FollowsAt(p, i, fd, unread)
    BY <2>2 DEF Follows
  <2>4. ASSUME DistinctMembers, NEW i \in 1 .. Len(p), NEW h \in 1 .. i - 1,
               Chosen(p[h]), Chosen(p[i]), p[h].key.date = p[i].key.date
        PROVE  p[h].body # p[i].body
    <3>1. i \in DOMAIN ms /\ h \in DOMAIN ms /\ i # h /\ i \in 1 .. Len(ms) /\ h \in 1 .. Len(ms)
      BY <1>3, <2>2 DEF Follows
    <3>2. /\ p[i].body = ms[i].body /\ p[h].body = ms[h].body
          /\ p[i].key.date = ms[i].date /\ p[h].key.date = ms[h].date
      BY <2>2, <2>4, <3>1 DEF Follows, Chosen
    <3>. QED
      BY <1>2, <1>3, <2>4, <3>1, <3>2 DEF DistinctMembers
  <2>5. owed = {ms[i].body : i \in DOMAIN ms} /\ DOMAIN ms = 1 .. Len(p)
    BY <1>3, <1>5, <1>7, <2>2 DEF Follows
  <2>6. \A i \in 1 .. Len(p) : p[i].body = ms[i].body /\ p[i].kind # "waiting"
    BY <2>2 DEF Follows
  <2>. HIDE DEF owed
  <2>7. owed = {p[i].body : i \in 1 .. Len(p)}
    BY <2>5, <2>6
  <2>. QED
    BY <2>3, <2>4, <2>6, <2>7 DEF p, owed
<1>6. CASE fd \notin Archive
  <2>1. p = PlanFile(fd, f, b, unread)
    BY <1>6 DEF Plan
  <2>2. p \in Seq(Outcomes) /\ Len(p) = 1 /\ p[1].body = b /\ FollowsAt(p, 1, fd, unread)
    <3>. HIDE DEF p, b
    <3>. QED
      BY <1>2, <2>1, PlanFileFacts
  <2>3. owed = {b}
    BY <1>6, <1>7
  <2>. HIDE DEF p, owed
  <2>4. \A i \in 1 .. Len(p) : i = 1 /\ 1 .. i - 1 = {}
    BY <2>2
  <2>5. \A i \in 1 .. Len(p) : FollowsAt(p, i, fd, unread) /\ p[i].body = b
    BY <2>2, <2>4
  <2>6. {p[i].body : i \in 1 .. Len(p)} = {b}
    BY <2>2, <2>5
  <2>. QED
    BY <2>2, <2>3, <2>4, <2>5, <2>6 DEF p, owed
<1>. QED
  BY <1>4, <1>5, <1>6

LEMMA TailFacts ==
  ASSUME NEW S, NEW s \in Seq(S), s # <<>>
  PROVE  /\ Len(s) \in Nat /\ Len(s) >= 1 /\ DOMAIN s = 1 .. Len(s)
         /\ Head(s) = s[1] /\ Head(s) \in S
         /\ Tail(s) \in Seq(S) /\ DOMAIN Tail(s) = 1 .. Len(s) - 1
         /\ \A i \in 1 .. Len(s) - 1 : Tail(s)[i] = s[i + 1]
BY HeadTailProperties

-----------------------------------------------------------------------------
(* Types. *)

LEMMA NewJobType ==
  ASSUME NEW f \in Files, Content(f) \in Bytes, NEW to \in {"processed", "rejected"},
         NEW keys \in Seq(Keys \union {None})
  PROVE  NewJob(f, to, keys) \in Jobs /\ NewJob(f, to, keys).out = <<>>
BY DEF NewJob, Jobs

LEMMA UploadType ==
  ASSUME TypeOK, NEW f \in Files, Content(f) \in Bytes, KeyOf[f] \in Keys
  PROVE  Upload(f) \in Landed
<1>1. landing[KeyOf[f]] \in Landed
  BY DEF TypeOK
<1>. QED
  BY <1>1 DEF Upload, Landed

LEMMA PutsType ==
  ASSUME TypeOK, job \in Jobs, NEW o \in Outcomes, o.kind = "planned", NEW n \in 0 .. 3
  PROVE  /\ o.key \in Keys /\ o.body \in Bytes /\ o.declared \in BOOLEAN
         /\ Puts(o, n) \in Landed
<1>1. o.key \in Keys /\ o.body \in Bytes /\ o.declared \in BOOLEAN
  BY DEF Outcomes
<1>2. landing[o.key] \in Landed /\ job.by \in {"gate", "gap", "unsure"}
  BY <1>1 DEF TypeOK, Jobs
<1>. QED
  BY <1>1, <1>2 DEF Puts, Landed

\* What an outcome's turn finds.
LEMMA OutcomeFacts ==
  ASSUME TypeOK, NEW kind, Outcome(kind)
  PROVE  /\ job \in Jobs /\ job.out \in Seq(Outcomes) /\ job.out # <<>>
         /\ Head(job.out) \in Outcomes /\ Head(job.out).kind = kind
         /\ Head(job.out).body \in Bytes
         /\ Done(job) \in Jobs /\ Done(job) = [job EXCEPT !.out = Tail(job.out)]
         /\ Tail(job.out) \in Seq(Outcomes)
<1>1. job \in Jobs /\ job.out # <<>> /\ Head(job.out).kind = kind
  BY DEF TypeOK, Outcome
<1>2. job.out \in Seq(Outcomes)
  BY <1>1 DEF Jobs
<1>3. Head(job.out) \in Outcomes /\ Tail(job.out) \in Seq(Outcomes)
  BY <1>1, <1>2, TailFacts
<1>4. Head(job.out).body \in Bytes
  BY <1>3 DEF Outcomes
<1>5. Done(job) = [job EXCEPT !.out = Tail(job.out)]
  BY DEF Done
<1>6. [job EXCEPT !.out = Tail(job.out)] \in Jobs
  BY <1>1, <1>3 DEF Jobs
<1>. QED
  BY <1>1, <1>2, <1>3, <1>4, <1>5, <1>6

\* A file the watcher acts on holds what was sent.
LEMMA ReadyFacts ==
  ASSUME TypeOK, QuietIsWhole, NEW f \in Files, Ready(f)
  PROVE  inbox[f].whole /\ Content(f) = inbox[f].bytes /\ Content(f) \in Bytes /\ job = None
BY DEF TypeOK, QuietIsWhole, Ready, Next1, Idle, Content

LEMMA AwayType ==
  ASSUME TypeOK, NEW f \in Files, Away(f)
  PROVE  /\ inbox' \in [Files -> [bytes : Bytes \union {None}, whole : BOOLEAN]]
         /\ seen' \in [Files -> 0 .. Stable]
BY InboxAssumptions DEF TypeOK, Away, NoFile

\* The parts of the type invariant.
InboxType ==
  /\ inbox \in [Files -> [bytes : Bytes \union {None}, whole : BOOLEAN]]
  /\ seen \in [Files -> 0 .. Stable]
  /\ todo \subseteq Files

MovedType ==
  /\ processed \subseteq [file : Files, bytes : Bytes \union {Torn}]
  /\ rejected \subseteq [file : Files, bytes : Bytes \union {Torn}]
  /\ triggered \subseteq Keys \union {None}

JobIsTyped == job = None \/ job \in Jobs
LandingType == landing \in [Keys -> Landed]

LEMMA TypeParts == TypeOK <=> InboxType /\ MovedType /\ JobIsTyped /\ LandingType
BY DEF TypeOK, InboxType, MovedType, JobIsTyped, LandingType

LEMMA InboxTypeStep ==
  ASSUME TypeOK, QuietIsWhole, Next
  PROVE  InboxType'
<1>0. InboxType /\ Stable \in Nat /\ Stable >= 1
  BY TypeParts, InboxAssumptions
<1>1. ASSUME NEW f \in Files, Drop(f) PROVE InboxType'
  <2>1. PICK b \in Sent[f] : inbox' = [inbox EXCEPT ![f] = [bytes |-> b, whole |-> FALSE]]
    BY <1>1 DEF Drop
  <2>2. b \in Bytes
    BY InboxAssumptions
  <2>. QED
    BY <1>0, <1>1, <2>1, <2>2 DEF InboxType, Drop
<1>2. ASSUME NEW f \in Files, Finish(f) PROVE InboxType'
  <2>1. inbox[f].bytes \in Bytes \union {None}
    BY <1>0 DEF InboxType
  <2>. QED
    BY <1>0, <1>2, <2>1 DEF InboxType, Finish
<1>3. CASE StartPass
  BY <1>0, <1>3 DEF InboxType, StartPass
<1>4. ASSUME NEW f \in Files, Observe(f) PROVE InboxType'
  BY <1>0, <1>4 DEF InboxType, Observe
<1>5. ASSUME NEW f \in Files, RejectName(f) \/ HoldControl(f) \/ LandConformant(f) \/ Promote(f)
      PROVE  InboxType'
  BY <1>0, <1>5 DEF InboxType, RejectName, HoldControl, LandConformant, Promote
<1>6. ASSUME NEW f \in Files, MoveSibling(f) PROVE InboxType'
  <2>1. f \in Files /\ UNCHANGED todo /\ (Away(f) \/ UNCHANGED <<inbox, seen>>)
    BY <1>6 DEF MoveSibling
  <2>. QED
    BY <1>0, <2>1, AwayType DEF InboxType
<1>7. CASE Waiting \/ Duplicate \/ Refused \/ Write
  BY <1>0, <1>7 DEF InboxType, Waiting, Duplicate, Refused, Write
<1>8. CASE Stay \/ Trigger \/ Crash
  BY <1>0, <1>8 DEF InboxType, Stay, Trigger, Crash
<1>9. CASE MoveFile
  <2>1. job \in Jobs /\ UNCHANGED todo /\ Away(job.file)
    BY <1>9 DEF MoveFile, Settled, TypeOK
  <2>2. job.file \in Files
    BY <2>1 DEF Jobs
  <2>. QED
    BY <1>0, <2>1, <2>2, AwayType DEF InboxType
<1>. QED
  BY <1>1, <1>2, <1>3, <1>4, <1>5, <1>6, <1>7, <1>8, <1>9 DEF Next, Watcher

LEMMA LandingTypeStep ==
  ASSUME TypeOK, QuietIsWhole, Next
  PROVE  LandingType'
<1>0. LandingType
  BY TypeParts
<1>1. ASSUME NEW f \in Files, LandConformant(f) PROVE LandingType'
  <2>1. Content(f) \in Bytes /\ Ready(f)
    BY <1>1, ReadyFacts DEF LandConformant
  <2>2. KeyOf[f] \in Keys
    BY <1>1, RoutingAssumptions DEF LandConformant
  <2>3. Upload(f) \in Landed
    BY <2>1, <2>2, UploadType
  <2>4. landing' = [landing EXCEPT ![KeyOf[f]] = Upload(f)] \/ landing' = landing
    BY <1>1 DEF LandConformant
  <2>. QED
    BY <1>0, <2>2, <2>3, <2>4 DEF LandingType
<1>2. CASE Write
  <2>1. Outcome("planned")
    BY <1>2 DEF Write
  <2>2. PICK n \in 0 .. 3 :
          landing' = [landing EXCEPT ![Head(job.out).key] = Puts(Head(job.out), n)]
    BY <1>2 DEF Write
  <2>3. Head(job.out).key \in Keys /\ Puts(Head(job.out), n) \in Landed
    BY <2>1, OutcomeFacts, PutsType
  <2>. QED
    BY <1>0, <2>2, <2>3 DEF LandingType
<1>3. CASE UNCHANGED landing
  BY <1>0, <1>3 DEF LandingType
<1>. QED
  BY <1>1, <1>2, <1>3
  DEF Next, Watcher, Drop, Finish, StartPass, Observe, RejectName, HoldControl, Promote,
      MoveSibling, Waiting, Duplicate, Refused, Stay, MoveFile, Trigger, Crash

\* A job put forward field by field is a job.
LEMMA JobUpdates ==
  ASSUME NEW j \in Jobs
  PROVE  /\ [j EXCEPT !.written = TRUE] \in Jobs
         /\ [j EXCEPT !.to = "rejected"] \in Jobs
         /\ [j EXCEPT !.pc = "siblings"] \in Jobs
         /\ \A b \in Bytes : [j EXCEPT !.lost = j.lost \union {b}] \in Jobs
         /\ \A c : [j EXCEPT !.with = j.with \ {c}] \in Jobs
         /\ \A x \in {"gate", "gap", "unsure"} : [j EXCEPT !.by = x] \in Jobs
         /\ \A ks \in Seq(Keys \union {None}) : [j EXCEPT !.keys = ks] \in Jobs
BY DEF Jobs

\* The job a promotion starts, and those a put leaves behind.
LEMMA PromoteJob ==
  ASSUME NEW f \in Files, Ready(f), Promote(f), job' # job
  PROVE  \E unread \in {{}} \union {{k} : k \in Taken} :
           /\ job' = [NewJob(f, "processed", <<>>) EXCEPT
                        !.pc = "write", !.written = FALSE,
                        !.by = IF unread = {} THEN "gate" ELSE "unsure",
                        !.out = Plan(Route(f), f, unread),
                        !.with = Consumed(Route(f), f)]
BY DEF Promote

LEMMA PromoteType ==
  ASSUME TypeOK, QuietIsWhole, NEW f \in Files, Promote(f)
  PROVE  \/ job' = job
         \/ \E unread :
              /\ job' \in Jobs /\ job'.file = f /\ job'.pc = "write"
              /\ job'.out = Plan(Route(f), f, unread)
              /\ job'.by = "gate" => unread = {}
<1>1. SUFFICES ASSUME job' # job
               PROVE  \E unread :
                        /\ job' \in Jobs /\ job'.file = f /\ job'.pc = "write"
                        /\ job'.out = Plan(Route(f), f, unread)
                        /\ job'.by = "gate" => unread = {}
  OBVIOUS
<1>2. Ready(f) /\ Route(f) # None /\ ~Conformant(f)
  BY DEF Promote
<1>3. PICK unread \in {{}} \union {{k} : k \in Taken} :
        job' = [NewJob(f, "processed", <<>>) EXCEPT
                  !.pc = "write", !.written = FALSE,
                  !.by = IF unread = {} THEN "gate" ELSE "unsure",
                  !.out = Plan(Route(f), f, unread),
                  !.with = Consumed(Route(f), f)]
  BY <1>1, <1>2, PromoteJob
<1>4. Content(f) \in Bytes /\ inbox[f].whole
  BY <1>2, ReadyFacts
<1>5. Plan(Route(f), f, unread) \in Seq(Outcomes)
  BY <1>2, <1>4, PlanFacts
<1>6. Consumed(Route(f), f) \subseteq Files \intersect DoorControls
  <2>1. HasControl(f) => ControlOf[f] \in Files \intersect DoorControls
    BY <1>2, RoutingAssumptions DEF HasControl
  <2>. QED
    BY <2>1 DEF Consumed
<1>. DEFINE by == IF unread = {} THEN "gate" ELSE "unsure"
            out == Plan(Route(f), f, unread)
            with == Consumed(Route(f), f)
<1>7. job' = [file |-> f, read |-> Content(f), pc |-> "write", to |-> "processed",
              out |-> out, keys |-> <<>>, written |-> FALSE, by |-> by,
              lost |-> {}, with |-> with]
  <2>. HIDE DEF by, out, with
  <2>1. job' = [NewJob(f, "processed", <<>>) EXCEPT
                  !.pc = "write", !.written = FALSE, !.by = by, !.out = out, !.with = with]
    BY <1>3 DEF by, out, with
  <2>. QED
    BY <2>1 DEF NewJob
<1>8. by \in {"gate", "unsure"} /\ (by = "gate" => unread = {})
  OBVIOUS
<1>. HIDE DEF by, out, with
<1>9. job' \in Jobs
  BY <1>4, <1>5, <1>6, <1>7, <1>8 DEF Jobs, out, with
<1>10. job'.file = f /\ job'.pc = "write" /\ job'.out = out /\ job'.by = by
  BY <1>7
<1>. QED
  BY <1>8, <1>9, <1>10 DEF out

\* What a put leaves of the job.
LEMMA WriteJob ==
  ASSUME TypeOK, Write
  PROVE  LET o == Head(job.out)
         IN /\ job' \in Jobs /\ job'.file = job.file /\ job'.out = Tail(job.out)
            /\ \E n \in 0 .. 3 :
                 /\ landing' = [landing EXCEPT ![o.key] = Puts(o, n)]
                 /\ n # 3 => job'.by # "gate"
                 /\ job'.by = "gate" => job.by = "gate"
<1>. DEFINE o == Head(job.out)
<1>1. Outcome("planned")
  BY DEF Write
<1>2. /\ job \in Jobs /\ o \in Outcomes /\ o.kind = "planned" /\ o.body \in Bytes /\ o.key \in Keys
      /\ Done(job) \in Jobs /\ Done(job) = [job EXCEPT !.out = Tail(job.out)]
  BY <1>1, OutcomeFacts DEF Outcomes
<1>. DEFINE d == Done(job)
            ok == [[d EXCEPT !.written = TRUE] EXCEPT !.keys = Append(d.keys, o.key)]
            bad == [[d EXCEPT !.lost = d.lost \union {o.body}]
                       EXCEPT !.by = IF d.by = "gate" THEN "gap" ELSE d.by]
<1>3. PICK n \in 0 .. 3 :
        /\ landing' = [landing EXCEPT ![o.key] = Puts(o, n)]
        /\ IF n = 3 THEN job' = [Done(job) EXCEPT !.written = TRUE, !.keys = Append(@, o.key)]
           ELSE job' = [Done(job) EXCEPT !.lost = @ \union {o.body},
                                          !.by = IF @ = "gate" THEN "gap" ELSE @]
  BY Zenon DEF Write
<1>4. /\ [d EXCEPT !.written = TRUE, !.keys = Append(@, o.key)] = ok
      /\ [d EXCEPT !.lost = @ \union {o.body}, !.by = IF @ = "gate" THEN "gap" ELSE @] = bad
  <2>1. d \in Jobs
    BY <1>2
  <2>2. [d EXCEPT !.written = TRUE].keys = d.keys
        /\ [d EXCEPT !.lost = d.lost \union {o.body}].by = d.by
    <3>. HIDE DEF d
    <3>. QED
      BY <2>1 DEF Jobs
  <2>. HIDE DEF d, o
  <2>. QED
    BY <2>2, Zenon
<1>5. IF n = 3 THEN job' = ok ELSE job' = bad
  BY <1>3, <1>4, Zenon
<1>6. d \in Jobs /\ d.file = job.file /\ d.out = Tail(job.out) /\ d.by = job.by
  BY <1>2 DEF Jobs
<1>7. ok \in Jobs /\ ok.file = d.file /\ ok.out = d.out /\ ok.by = d.by
  <2>. DEFINE e == [d EXCEPT !.written = TRUE]
              ks == Append(d.keys, o.key)
  <2>1. e \in Jobs /\ e.file = d.file /\ e.out = d.out /\ e.by = d.by
    <3>. HIDE DEF d
    <3>. QED
      BY <1>6 DEF Jobs
  <2>2. ks \in Seq(Keys \union {None})
    <3>. HIDE DEF d, o
    <3>. QED
      BY <1>2, <1>6, AppendProperties DEF Jobs
  <2>. HIDE DEF e, ks
  <2>3. [e EXCEPT !.keys = ks] \in Jobs /\ [e EXCEPT !.keys = ks].file = e.file
        /\ [e EXCEPT !.keys = ks].out = e.out /\ [e EXCEPT !.keys = ks].by = e.by
    BY <2>1, <2>2 DEF Jobs
  <2>. QED
    BY <2>1, <2>3 DEF e, ks
<1>8. bad \in Jobs /\ bad.file = d.file /\ bad.out = d.out /\ bad.by # "gate"
  <2>. DEFINE e == [d EXCEPT !.lost = d.lost \union {o.body}]
              by == IF d.by = "gate" THEN "gap" ELSE d.by
  <2>1. e \in Jobs /\ e.file = d.file /\ e.out = d.out
    <3>. HIDE DEF d, o
    <3>. QED
      BY <1>2, <1>6 DEF Jobs
  <2>2. by \in {"gap", "unsure"}
    <3>. HIDE DEF d
    <3>. QED
      BY <1>6 DEF Jobs
  <2>. HIDE DEF e, by
  <2>3. [e EXCEPT !.by = by] \in Jobs /\ [e EXCEPT !.by = by].file = e.file
        /\ [e EXCEPT !.by = by].out = e.out /\ [e EXCEPT !.by = by].by = by
    BY <2>1, <2>2 DEF Jobs
  <2>. QED
    BY <2>1, <2>2, <2>3 DEF e, by
<1>. HIDE DEF ok, bad, d
<1>9. /\ job' \in Jobs /\ job'.file = job.file /\ job'.out = Tail(job.out)
      /\ n # 3 => job'.by # "gate"
      /\ job'.by = "gate" => job.by = "gate"
  BY <1>5, <1>6, <1>7, <1>8
<1>. QED
  BY <1>3, <1>9

-----------------------------------------------------------------------------
(* What a step does to the job and to landing. *)

Same == job' = job /\ landing' = landing

\* The job ends, or one with nothing to put begins.
NothingPlanned == (job' = None \/ (job' \in Jobs /\ job'.out = <<>>)) /\ landing' = landing

\* The job goes on, its first outcome dealt with or not.
GoesOn ==
  /\ job # None /\ job \in Jobs /\ job' \in Jobs /\ landing' = landing
  /\ job'.file = job.file /\ job'.by = job.by
  /\ \/ job'.out = job.out
     \/ job.out # <<>> /\ job'.out = Tail(job.out) /\ Head(job.out).kind # "planned"

LEMMA RejectNameJob ==
  ASSUME TypeOK, QuietIsWhole, NEW f \in Files, RejectName(f)
  PROVE  NothingPlanned
<1>1. Ready(f) /\ job' = NewJob(f, "rejected", <<>>) /\ landing' = landing
  BY DEF RejectName
<1>2. Content(f) \in Bytes /\ <<>> \in Seq(Keys \union {None})
  BY <1>1, ReadyFacts
<1>3. NewJob(f, "rejected", <<>>) \in Jobs /\ NewJob(f, "rejected", <<>>).out = <<>>
  BY <1>2, NewJobType
<1>. QED
  BY <1>1, <1>3 DEF NothingPlanned

LEMMA SiblingJob ==
  ASSUME TypeOK, NEW c \in Files, MoveSibling(c)
  PROVE  GoesOn
<1>1. job # None /\ job \in Jobs /\ job' = [job EXCEPT !.with = job.with \ {c}] /\ landing' = landing
  BY DEF MoveSibling, TypeOK
<1>2. job' \in Jobs
  BY <1>1, JobUpdates
<1>3. job'.file = job.file /\ job'.by = job.by /\ job'.out = job.out
  BY <1>1 DEF Jobs
<1>. QED
  BY <1>1, <1>2, <1>3 DEF GoesOn

LEMMA MoveFileJob ==
  ASSUME TypeOK, MoveFile
  PROVE  GoesOn
<1>1. job # None /\ job \in Jobs /\ job' = [job EXCEPT !.pc = "siblings"] /\ landing' = landing
  BY DEF MoveFile, Settled, TypeOK
<1>2. job' \in Jobs
  BY <1>1, JobUpdates
<1>3. job'.file = job.file /\ job'.by = job.by /\ job'.out = job.out
  BY <1>1 DEF Jobs
<1>. QED
  BY <1>1, <1>2, <1>3 DEF GoesOn

LEMMA TriggerJob ==
  ASSUME TypeOK, Trigger
  PROVE  GoesOn \/ NothingPlanned
<1>1. job # None /\ job \in Jobs /\ landing' = landing
  BY DEF Trigger, TypeOK
<1>2. CASE job.keys # <<>> /\ job' = [job EXCEPT !.keys = Tail(@)]
  <2>1. job' = [job EXCEPT !.keys = Tail(job.keys)]
    BY <1>2
  <2>2. Tail(job.keys) \in Seq(Keys \union {None})
    BY <1>1, <1>2, TailFacts DEF Jobs
  <2>3. job' \in Jobs
    BY <1>1, <2>1, <2>2, JobUpdates
  <2>4. job'.file = job.file /\ job'.by = job.by /\ job'.out = job.out
    BY <1>1, <2>1 DEF Jobs
  <2>. QED
    BY <1>1, <2>3, <2>4 DEF GoesOn
<1>3. CASE job' = None
  BY <1>1, <1>3 DEF NothingPlanned
<1>. QED
  BY <1>2, <1>3 DEF Trigger

LEMMA PoppedJob ==
  ASSUME TypeOK, Waiting \/ Duplicate \/ Refused
  PROVE  GoesOn
<1>1. PICK kind \in {"waiting", "duplicate", "refused"} : Outcome(kind)
  BY DEF Waiting, Duplicate, Refused
<1>. DEFINE d == Done(job)
            b == Head(job.out).body
<1>2. /\ job # None /\ job \in Jobs /\ job.out # <<>> /\ b \in Bytes
      /\ Head(job.out).kind # "planned"
      /\ d \in Jobs /\ d = [job EXCEPT !.out = Tail(job.out)]
  BY <1>1, OutcomeFacts DEF Outcome
<1>3. d.file = job.file /\ d.by = job.by /\ d.out = Tail(job.out)
  BY <1>2 DEF Jobs
<1>4. job' \in {d, [d EXCEPT !.written = TRUE], [d EXCEPT !.to = "rejected"],
                [d EXCEPT !.lost = d.lost \union {b}]} /\ landing' = landing
  BY DEF Waiting, Duplicate, Refused
<1>. HIDE DEF d, b
<1>5. job' \in Jobs
  <2>1. /\ [d EXCEPT !.written = TRUE] \in Jobs /\ [d EXCEPT !.to = "rejected"] \in Jobs
        /\ [d EXCEPT !.lost = d.lost \union {b}] \in Jobs
    BY <1>2, JobUpdates
  <2>. QED
    BY <1>2, <1>4, <2>1, Zenon
<1>6. job'.file = d.file /\ job'.by = d.by /\ job'.out = d.out
  BY <1>2, <1>4 DEF Jobs
<1>. QED
  BY <1>2, <1>3, <1>4, <1>5, <1>6 DEF GoesOn

\* A conformant file is put under its sender's name, or is not.
Landing(f) ==
  /\ job = None
  /\ job' = None \/ (job' \in Jobs /\ job'.out = <<>>)
  /\ KeyOf[f] \in Keys /\ Content(f) \in Bytes
  /\ landing' = landing \/ landing' = [landing EXCEPT ![KeyOf[f]] = Upload(f)]

LEMMA LandConformantJob ==
  ASSUME TypeOK, QuietIsWhole, NEW f \in Files, LandConformant(f)
  PROVE  Landing(f)
<1>1. Ready(f) /\ Content(f) \in Bytes /\ job = None
  BY ReadyFacts DEF LandConformant
<1>2. KeyOf[f] \in Keys
  BY RoutingAssumptions DEF LandConformant
<1>. DEFINE keys == <<IF IsControl(f) THEN None ELSE KeyOf[f]>>
<1>3. keys \in Seq(Keys \union {None})
  BY <1>2
<1>. HIDE DEF keys
<1>4. /\ job' = None \/ job' = NewJob(f, "processed", keys)
      /\ landing' = landing \/ landing' = [landing EXCEPT ![KeyOf[f]] = Upload(f)]
  BY <1>1 DEF LandConformant, keys
<1>. QED
  BY <1>1, <1>2, <1>3, <1>4, NewJobType DEF Landing

\* A promotion is planned in full before its first put.
Promotes(f) ==
  /\ landing' = landing /\ Route(f) # None /\ ~Conformant(f) /\ inbox[f].whole
  /\ \E unread :
       /\ job' \in Jobs /\ job'.file = f
       /\ job'.out = Plan(Route(f), f, unread)
       /\ job'.by = "gate" => unread = {}

LEMMA PromotesJob ==
  ASSUME TypeOK, QuietIsWhole, NEW f \in Files, Promote(f)
  PROVE  Same \/ Promotes(f)
<1>1. Ready(f) /\ Route(f) # None /\ ~Conformant(f) /\ landing' = landing
  BY DEF Promote
<1>2. inbox[f].whole
  BY <1>1, ReadyFacts
<1>. QED
  BY <1>1, <1>2, PromoteType DEF Same, Promotes

LEMMA StepKinds ==
  ASSUME TypeOK, QuietIsWhole, Next
  PROVE  \/ Same \/ NothingPlanned \/ GoesOn \/ Write
         \/ \E f \in Files : Landing(f) \/ Promotes(f)
<1>1. ASSUME NEW f \in Files, Drop(f) \/ Finish(f) \/ Observe(f) \/ HoldControl(f)
      PROVE  Same
  BY <1>1 DEF Drop, Finish, Observe, HoldControl, Same
<1>2. CASE StartPass
  BY <1>2 DEF StartPass, Same
<1>3. CASE Stay \/ Crash
  BY <1>3 DEF Stay, Crash, NothingPlanned
<1>. QED
  BY <1>1, <1>2, <1>3, RejectNameJob, SiblingJob, MoveFileJob, TriggerJob, PoppedJob,
     LandConformantJob, PromotesJob DEF Next, Watcher

LEMMA JobTypeStep ==
  ASSUME TypeOK, QuietIsWhole, Next
  PROVE  JobIsTyped'
<1>0. JobIsTyped
  BY TypeParts
<1>1. CASE Write
  BY <1>1, WriteJob DEF JobIsTyped
<1>. QED
  BY <1>0, <1>1, StepKinds DEF JobIsTyped, Same, NothingPlanned, GoesOn, Landing, Promotes

LEMMA MovedTypeStep ==
  ASSUME TypeOK, QuietIsWhole, Next
  PROVE  MovedType'
<1>0. MovedType
  BY TypeParts
<1>1. CASE MoveFile
  <2>1. job \in Jobs /\ UNCHANGED triggered
    BY <1>1 DEF MoveFile, Settled, TypeOK
  <2>2. job.file \in Files
    BY <2>1 DEF Jobs
  <2>. DEFINE copy == [file |-> job.file, bytes |-> Content(job.file)]
  <2>3. copy \in [file : Files, bytes : Bytes \union {Torn}]
    BY <2>2 DEF TypeOK, QuietIsWhole, Content
  <2>4. \/ rejected' = rejected \union {copy} /\ UNCHANGED processed
        \/ processed' = processed \union {copy} /\ UNCHANGED rejected
    BY <1>1 DEF MoveFile
  <2>. HIDE DEF copy
  <2>. QED
    BY <1>0, <2>1, <2>3, <2>4 DEF MovedType
<1>2. CASE Trigger
  <2>1. job \in Jobs /\ UNCHANGED moved
    BY <1>2 DEF Trigger, TypeOK
  <2>2. job.keys # <<>> => Head(job.keys) \in Keys \union {None}
    BY <2>1, TailFacts DEF Jobs
  <2>3. triggered' = triggered
        \/ (job.keys # <<>> /\ triggered' = triggered \union {Head(job.keys)})
    BY <1>2 DEF Trigger
  <2>. QED
    BY <1>0, <2>1, <2>2, <2>3 DEF MovedType, moved
<1>3. CASE UNCHANGED <<moved, triggered>>
  BY <1>0, <1>3 DEF MovedType, moved
<1>. QED
  BY <1>1, <1>2, <1>3
  DEF Next, Watcher, Drop, Finish, StartPass, Observe, RejectName, HoldControl,
      LandConformant, Promote, MoveSibling, Waiting, Duplicate, Refused, Write, Stay, Crash

-----------------------------------------------------------------------------
(* The invariant's steps. *)

LEMMA PutsFacts ==
  ASSUME TypeOK, job \in Jobs, NEW o \in Outcomes, o.kind = "planned", NEW n \in 0 .. 3
  PROVE  LET r == Puts(o, n)
             old == landing[o.key]
         IN /\ n < 2 => r.data = old.data /\ r.meta = old.meta /\ r.by = old.by
            /\ n >= 2 => r.data = o.body /\ r.by = IF o.declared THEN "sender" ELSE job.by
            /\ n = 2 => r.meta = old.meta
            /\ n = 3 => r.meta = o.body
            /\ old.control => r.control
            /\ n >= 1 /\ Route(job.file) \in Gated => r.control
<1>1. o.key \in Keys
  BY DEF Outcomes
<1>2. landing[o.key] \in Landed
  BY <1>1 DEF TypeOK
<1>. DEFINE old == landing[o.key]
            data == IF n >= 2 THEN o.body ELSE old.data
            meta == IF n >= 3 THEN o.body ELSE old.meta
            control == IF n >= 1 /\ Promoting \in Gated THEN TRUE ELSE old.control
            by == IF n < 2 THEN old.by ELSE IF o.declared THEN "sender" ELSE job.by
<1>3. Puts(o, n) = [old EXCEPT !.control = control, !.data = data, !.by = by, !.meta = meta]
  BY Zenon DEF Puts
<1>4. Puts(o, n) = [data |-> data, meta |-> meta, control |-> control, by |-> by]
  <2>. HIDE DEF old, data, meta, control, by
  <2>1. old \in Landed
    BY <1>2 DEF old
  <2>. QED
    BY <1>3, <2>1 DEF Landed
<1>5. LET r == Puts(o, n)
      IN r.data = data /\ r.meta = meta /\ r.by = by /\ r.control = control
  <2>. HIDE DEF old, data, meta, control, by
  <2>. QED
    BY <1>4
<1>. QED
  BY <1>5 DEF Promoting

\* A put, key by key.
LEMMA WriteFacts ==
  ASSUME TypeOK, Write
  PROVE  LET o == Head(job.out)
         IN /\ job \in Jobs /\ job.out \in Seq(Outcomes) /\ job.out # <<>>
            /\ o \in Outcomes /\ o.kind = "planned" /\ o.key \in Keys /\ o.body \in Bytes
            /\ job' \in Jobs /\ job'.file = job.file /\ job'.out = Tail(job.out)
            /\ \A k \in Keys : k # o.key => landing'[k] = landing[k]
            /\ \E n \in 0 .. 3 :
                 /\ landing'[o.key] = Puts(o, n)
                 /\ n # 3 => job'.by # "gate"
                 /\ job'.by = "gate" => job.by = "gate"
<1>. DEFINE o == Head(job.out)
<1>1. Outcome("planned")
  BY DEF Write
<1>2. /\ job \in Jobs /\ job.out \in Seq(Outcomes) /\ job.out # <<>>
      /\ o \in Outcomes /\ o.kind = "planned" /\ o.key \in Keys /\ o.body \in Bytes
  BY <1>1, OutcomeFacts DEF Outcomes
<1>3. /\ job' \in Jobs /\ job'.file = job.file /\ job'.out = Tail(job.out)
      /\ \E n \in 0 .. 3 :
           /\ landing' = [landing EXCEPT ![o.key] = Puts(o, n)]
           /\ n # 3 => job'.by # "gate"
           /\ job'.by = "gate" => job.by = "gate"
  BY WriteJob
<1>4. PICK n \in 0 .. 3 :
        /\ landing' = [landing EXCEPT ![o.key] = Puts(o, n)]
        /\ n # 3 => job'.by # "gate"
        /\ job'.by = "gate" => job.by = "gate"
  BY <1>3
<1>. HIDE DEF o
<1>5. landing'[o.key] = Puts(o, n) /\ \A k \in Keys : k # o.key => landing'[k] = landing[k]
  BY <1>2, <1>4 DEF TypeOK
<1>6. \E m \in 0 .. 3 : /\ landing'[o.key] = Puts(o, m)
                        /\ m # 3 => job'.by # "gate"
                        /\ job'.by = "gate" => job.by = "gate"
  BY <1>4, <1>5
<1>. QED
  BY <1>2, <1>3, <1>5, <1>6 DEF o

\* An upload, key by key.
LEMMA LandingFacts ==
  ASSUME TypeOK, NEW f \in Files, Landing(f)
  PROVE  \A k \in Keys :
           \/ landing'[k] = landing[k]
           \/ /\ landing'[k].data = Content(f) /\ landing'[k].by = "sender"
              /\ landing'[k].meta = landing[k].meta
           \/ /\ landing'[k].data = landing[k].data /\ landing'[k].meta = landing[k].meta
              /\ landing'[k].by = landing[k].by /\ landing'[k].control
<1>1. landing[KeyOf[f]] \in Landed
  BY DEF TypeOK, Landing
<1>2. CASE landing' = landing
  BY <1>2
<1>3. CASE landing' = [landing EXCEPT ![KeyOf[f]] = Upload(f)]
  <2>1. \/ /\ Upload(f).data = Content(f) /\ Upload(f).by = "sender"
           /\ Upload(f).meta = landing[KeyOf[f]].meta
        \/ /\ Upload(f).data = landing[KeyOf[f]].data /\ Upload(f).meta = landing[KeyOf[f]].meta
           /\ Upload(f).by = landing[KeyOf[f]].by /\ Upload(f).control
    BY <1>1 DEF Upload, Landed
  <2>2. \A k \in Keys : landing'[k] = IF k = KeyOf[f] THEN Upload(f) ELSE landing[k]
    BY <1>3 DEF TypeOK
  <2>. QED
    BY <2>1, <2>2
<1>. QED
  BY <1>2, <1>3 DEF Landing

LEMMA QuietStep ==
  ASSUME TypeOK, QuietIsWhole, Next
  PROVE  QuietIsWhole'
<1>0. Stable \in Nat /\ Stable >= 1 /\ None \notin Bytes
  BY InboxAssumptions
<1>1. ASSUME NEW f \in Files, Drop(f) PROVE QuietIsWhole'
  <2>1. PICK b \in Sent[f] : inbox' = [inbox EXCEPT ![f] = [bytes |-> b, whole |-> FALSE]]
    BY <1>1 DEF Drop
  <2>2. seen' = [seen EXCEPT ![f] = 0]
    BY <1>1 DEF Drop
  <2>3. \A g \in Files : g # f => inbox'[g] = inbox[g] /\ seen'[g] = seen[g]
    BY <2>1, <2>2 DEF TypeOK
  <2>4. inbox'[f].whole = FALSE /\ seen'[f] = 0
    BY <2>1, <2>2 DEF TypeOK
  <2>. QED
    BY <1>0, <2>3, <2>4 DEF QuietIsWhole
<1>2. ASSUME NEW f \in Files, Finish(f) PROVE QuietIsWhole'
  <2>1. \A g \in Files : g # f => inbox'[g] = inbox[g] /\ seen'[g] = seen[g]
    BY <1>2 DEF Finish, TypeOK
  <2>2. inbox'[f].bytes # None /\ seen'[f] = 0
    BY <1>2 DEF Finish, TypeOK
  <2>. QED
    BY <1>0, <2>1, <2>2 DEF QuietIsWhole
<1>3. ASSUME NEW f \in Files, Observe(f) PROVE QuietIsWhole'
  <2>1. inbox' = inbox /\ \A g \in Files : g # f => seen'[g] = seen[g]
    BY <1>3 DEF Observe, TypeOK
  <2>2. seen[f] \in 0 .. Stable
    BY DEF TypeOK
  <2>3. seen'[f] = IF inbox[f].bytes = None THEN 0 ELSE seen[f] + 1
    BY <1>3 DEF Observe, TypeOK
  <2>4. seen'[f] = Stable => inbox[f].whole
    BY <1>0, <1>3, <2>2, <2>3 DEF Observe
  <2>. QED
    BY <2>1, <2>4 DEF QuietIsWhole
<1>4. ASSUME NEW f \in Files, Away(f) PROVE QuietIsWhole'
  <2>1. \A g \in Files : g # f => inbox'[g] = inbox[g] /\ seen'[g] = seen[g]
    BY <1>4 DEF Away, TypeOK
  <2>2. inbox'[f].whole = FALSE /\ seen'[f] = 0
    BY <1>4 DEF Away, NoFile, TypeOK
  <2>. QED
    BY <1>0, <2>1, <2>2 DEF QuietIsWhole
<1>5. CASE UNCHANGED <<inbox, seen>>
  BY <1>5 DEF QuietIsWhole
<1>6. CASE Crash
  BY <1>0, <1>6 DEF Crash, QuietIsWhole
<1>7. CASE MoveFile
  <2>1. job \in Jobs /\ Away(job.file)
    BY <1>7 DEF MoveFile, Settled, TypeOK
  <2>2. job.file \in Files
    BY <2>1 DEF Jobs
  <2>. QED
    BY <1>4, <2>1, <2>2
<1>8. ASSUME NEW f \in Files, MoveSibling(f) PROVE QuietIsWhole'
  BY <1>4, <1>5, <1>8 DEF MoveSibling
<1>. QED
  BY <1>1, <1>2, <1>3, <1>5, <1>6, <1>7, <1>8
  DEF Next, Watcher, StartPass, RejectName, HoldControl, LandConformant, Promote,
      Waiting, Duplicate, Refused, Write, Stay, Trigger

LEMMA LandedStep ==
  ASSUME IInv, Next
  PROVE  MetadataHasData' /\ ControlFirst'
<1>0. TypeOK /\ QuietIsWhole /\ MetadataHasData /\ ControlFirst
  BY DEF IInv
<1>1. CASE landing' = landing
  BY <1>0, <1>1 DEF MetadataHasData, ControlFirst
<1>2. ASSUME NEW f \in Files, Landing(f)
      PROVE  MetadataHasData' /\ ControlFirst'
  <2>1. Content(f) # None
    BY <1>2, InboxAssumptions DEF Landing
  <2>2. \A k \in Keys :
          \/ landing'[k] = landing[k]
          \/ landing'[k].data = Content(f) /\ landing'[k].by = "sender"
          \/ /\ landing'[k].data = landing[k].data /\ landing'[k].meta = landing[k].meta
             /\ landing'[k].by = landing[k].by /\ landing'[k].control
    BY <1>0, <1>2, LandingFacts
  <2>. QED
    BY <1>0, <2>1, <2>2 DEF MetadataHasData, ControlFirst
<1>3. CASE Write
  <2>. DEFINE o == Head(job.out)
  <2>1. /\ job \in Jobs /\ job.out \in Seq(Outcomes) /\ job.out # <<>>
        /\ o \in Outcomes /\ o.kind = "planned" /\ o.key \in Keys /\ o.body \in Bytes
        /\ \A k \in Keys : k # o.key => landing'[k] = landing[k]
    BY <1>0, <1>3, WriteFacts
  <2>2. PICK n \in 0 .. 3 : landing'[o.key] = Puts(o, n)
    BY <1>0, <1>3, WriteFacts
  <2>3. o.key.feed = Route(job.file)
    <3>1. PlannedIsFree(job)
      BY <1>3 DEF IInv, Write, Outcome
    <3>2. 1 \in DOMAIN job.out /\ o = job.out[1]
      BY <2>1, TailFacts
    <3>. QED
      BY <2>1, <3>1, <3>2 DEF PlannedIsFree
  <2>. HIDE DEF o
  <2>4. LET r == landing'[o.key]
            old == landing[o.key]
        IN /\ n < 2 => r.data = old.data /\ r.meta = old.meta /\ r.by = old.by
           /\ n >= 2 => r.data = o.body
           /\ old.control => r.control
           /\ n >= 1 /\ Route(job.file) \in Gated => r.control
    BY <1>0, <2>1, <2>2, PutsFacts
  <2>5. o.body # None /\ n \in 0 .. 3
    BY <2>1, InboxAssumptions
  <2>6. /\ landing'[o.key].data = None => landing'[o.key].meta = None
        /\ (landing'[o.key].by \in {"gate", "gap", "unsure"} /\ o.key.feed \in Gated)
             => landing'[o.key].control
    <3>1. CASE n < 2
      BY <1>0, <2>1, <2>4, <3>1 DEF MetadataHasData, ControlFirst
    <3>2. CASE n >= 2
      BY <2>3, <2>4, <2>5, <3>2
    <3>. QED
      BY <2>5, <3>1, <3>2
  <2>. QED
    BY <1>0, <2>1, <2>6 DEF MetadataHasData, ControlFirst
<1>. QED
  BY <1>0, <1>1, <1>2, <1>3, StepKinds DEF Same, NothingPlanned, GoesOn, Promotes

\* Where the outcomes before one are, once the first is dealt with.
LEMMA ShiftFacts ==
  ASSUME NEW s \in Seq(Outcomes), s # <<>>
  PROVE  /\ 1 \in DOMAIN s /\ Head(s) = s[1]
         /\ \A i \in DOMAIN Tail(s) :
              /\ i + 1 \in DOMAIN s /\ Tail(s)[i] = s[i + 1] /\ 1 \in 1 .. (i + 1) - 1
              /\ \A h \in 1 .. i - 1 : h + 1 \in 1 .. (i + 1) - 1 /\ Tail(s)[h] = s[h + 1]
              /\ \A h \in 1 .. (i + 1) - 1 : h = 1 \/ (h - 1 \in 1 .. i - 1 /\ Tail(s)[h - 1] = s[h])
<1>1. /\ Len(s) \in Nat /\ Len(s) >= 1 /\ DOMAIN s = 1 .. Len(s) /\ Head(s) = s[1]
      /\ DOMAIN Tail(s) = 1 .. Len(s) - 1
      /\ \A i \in 1 .. Len(s) - 1 : Tail(s)[i] = s[i + 1]
  BY TailFacts
<1>. DEFINE t == Tail(s)
            n == Len(s)
<1>2. n \in Nat /\ n >= 1 /\ DOMAIN t = 1 .. n - 1 /\ \A i \in 1 .. n - 1 : t[i] = s[i + 1]
  BY <1>1
<1>3. ASSUME NEW i \in DOMAIN t
      PROVE  /\ i + 1 \in 1 .. n /\ t[i] = s[i + 1] /\ 1 \in 1 .. (i + 1) - 1
             /\ \A h \in 1 .. i - 1 : h + 1 \in 1 .. (i + 1) - 1 /\ t[h] = s[h + 1]
             /\ \A h \in 1 .. (i + 1) - 1 : h = 1 \/ (h - 1 \in 1 .. i - 1 /\ t[h - 1] = s[h])
  <2>. HIDE DEF t, n
  <2>1. i \in Nat /\ i >= 1 /\ i <= n - 1
    BY <1>2, <1>3
  <2>2. ASSUME NEW h \in 1 .. i - 1
        PROVE  h + 1 \in 1 .. (i + 1) - 1 /\ t[h] = s[h + 1]
    <3>1. h \in 1 .. n - 1
      BY <1>2, <2>1
    <3>. QED
      BY <1>2, <2>1, <3>1
  <2>3. ASSUME NEW h \in 1 .. (i + 1) - 1, h # 1
        PROVE  h - 1 \in 1 .. i - 1 /\ t[h - 1] = s[h]
    <3>1. h - 1 \in 1 .. n - 1 /\ h - 1 \in 1 .. i - 1 /\ (h - 1) + 1 = h
      BY <1>2, <2>1, <2>3
    <3>. QED
      BY <1>2, <3>1
  <2>4. i + 1 \in 1 .. n /\ t[i] = s[i + 1] /\ 1 \in 1 .. (i + 1) - 1
    BY <1>2, <1>3, <2>1
  <2>. QED
    BY <2>2, <2>3, <2>4
<1>. QED
  BY <1>1, <1>3

LEMMA TailIsFree ==
  ASSUME NEW j \in Jobs, PlannedIsFree(j), j.out # <<>>,
         NEW i \in DOMAIN Tail(j.out)
  PROVE  LET t == Tail(j.out)
         IN /\ t[i].kind = "planned" => t[i].key.feed = Route(j.file)
            /\ Chosen(t[i]) =>
                 /\ landing[t[i].key].data = None
                 /\ Head(j.out).kind = "planned" => t[i].key # Head(j.out).key
                 /\ \A h \in 1 .. i - 1 : t[h].kind = "planned" => t[h].key # t[i].key
<1>. DEFINE s == j.out
            t == Tail(s)
<1>1. s \in Seq(Outcomes) /\ s # <<>>
  BY DEF Jobs
<1>2. /\ 1 \in DOMAIN s /\ Head(s) = s[1]
      /\ i + 1 \in DOMAIN s /\ t[i] = s[i + 1] /\ 1 \in 1 .. (i + 1) - 1
      /\ \A h \in 1 .. i - 1 : h + 1 \in 1 .. (i + 1) - 1 /\ t[h] = s[h + 1]
  <2>. HIDE DEF s
  <2>. QED
    BY <1>1, ShiftFacts DEF s
<1>3. /\ s[i + 1].kind = "planned" => s[i + 1].key.feed = Route(j.file)
      /\ Chosen(s[i + 1]) =>
           /\ landing[s[i + 1].key].data = None
           /\ \A h \in 1 .. (i + 1) - 1 : s[h].kind = "planned" => s[h].key # s[i + 1].key
  BY <1>2 DEF PlannedIsFree
<1>. HIDE DEF t
<1>4. /\ t[i].kind = "planned" => t[i].key.feed = Route(j.file)
      /\ Chosen(t[i]) =>
           /\ landing[t[i].key].data = None
           /\ Head(s).kind = "planned" => t[i].key # Head(s).key
           /\ \A h \in 1 .. i - 1 : t[h].kind = "planned" => t[h].key # t[i].key
  <2>. HIDE DEF s
  <2>. QED
    BY <1>2, <1>3
<1>. QED
  BY <1>4 DEF t

LEMMA ChosenKey ==
  ASSUME NEW j \in Jobs, NEW i \in DOMAIN j.out
  PROVE  /\ j.out[i] \in Outcomes
         /\ j.out[i].kind = "planned" => j.out[i].key \in Keys /\ j.out[i].body \in Bytes
<1>1. j.out[i] \in Outcomes
  BY DEF Jobs
<1>. QED
  BY <1>1 DEF Outcomes


LEMMA FreeStep ==
  ASSUME IInv, Next, job' # None
  PROVE  PlannedIsFree(job)'
<1>0. TypeOK /\ QuietIsWhole /\ (job # None => PlannedIsFree(job))
  BY DEF IInv
<1>1. CASE Same
  BY <1>0, <1>1 DEF Same, PlannedIsFree
<1>2. CASE job'.out = <<>>
  BY <1>2 DEF PlannedIsFree
<1>3. CASE GoesOn
  <2>1. PlannedIsFree(job) /\ job \in Jobs /\ landing' = landing /\ job'.file = job.file
    BY <1>0, <1>3 DEF GoesOn
  <2>2. CASE job'.out = job.out
    BY <2>1, <2>2 DEF PlannedIsFree
  <2>3. CASE job.out # <<>> /\ job'.out = Tail(job.out)
    <3>1. \A i \in DOMAIN Tail(job.out) :
            LET t == Tail(job.out)
            IN /\ t[i].kind = "planned" => t[i].key.feed = Route(job.file)
               /\ Chosen(t[i]) =>
                    /\ landing[t[i].key].data = None
                    /\ \A h \in 1 .. i - 1 : t[h].kind = "planned" => t[h].key # t[i].key
      BY <2>1, <2>3, TailIsFree
    <3>. QED
      BY <2>1, <2>3, <3>1 DEF PlannedIsFree, Chosen
  <2>. QED
    BY <1>3, <2>2, <2>3 DEF GoesOn
<1>4. CASE Write
  <2>. DEFINE o == Head(job.out)
              t == Tail(job.out)
  <2>1. /\ job \in Jobs /\ job.out # <<>> /\ o.kind = "planned"
        /\ job' \in Jobs /\ job'.file = job.file /\ job'.out = t
        /\ \A k \in Keys : k # o.key => landing'[k] = landing[k]
    BY <1>0, <1>4, WriteFacts
  <2>2. PlannedIsFree(job)
    BY <1>0, <1>4 DEF Write, Outcome
  <2>3. \A i \in DOMAIN t :
          /\ t[i].kind = "planned" => t[i].key.feed = Route(job.file)
          /\ Chosen(t[i]) =>
               /\ landing[t[i].key].data = None
               /\ t[i].key # o.key
               /\ \A h \in 1 .. i - 1 : t[h].kind = "planned" => t[h].key # t[i].key
    BY <2>1, <2>2, TailIsFree
  <2>4. \A i \in DOMAIN t : t[i].kind = "planned" => t[i].key \in Keys
    <3>1. \A i \in DOMAIN job'.out : job'.out[i].kind = "planned" => job'.out[i].key \in Keys
      BY <2>1, ChosenKey
    <3>. QED
      BY <2>1, <3>1
  <2>. HIDE DEF t, o
  <2>5. \A i \in DOMAIN t : Chosen(t[i]) => landing'[t[i].key].data = None
    BY <2>1, <2>3, <2>4 DEF Chosen
  <2>. QED
    BY <2>1, <2>3, <2>5 DEF PlannedIsFree, Chosen
<1>5. ASSUME NEW f \in Files, Promotes(f)
      PROVE  PlannedIsFree(job)'
  <2>1. PICK unread : job' \in Jobs /\ job'.file = f /\ job'.out = Plan(Route(f), f, unread)
    BY <1>5 DEF Promotes
  <2>. DEFINE p == Plan(Route(f), f, unread)
  <2>2. p \in Seq(Outcomes) /\ \A i \in 1 .. Len(p) : FollowsAt(p, i, Route(f), unread)
    BY <1>0, <1>5, PlanFacts DEF Promotes
  <2>3. landing' = landing
    BY <1>5 DEF Promotes
  <2>. HIDE DEF p
  <2>4. DOMAIN p = 1 .. Len(p) /\ job'.out = p
    BY <2>1, <2>2 DEF p
  <2>5. \A i \in DOMAIN p : Chosen(p[i]) => p[i].key \in Keys
    <3>1. \A i \in DOMAIN p : p[i] \in Outcomes
      BY <2>2, <2>4
    <3>. QED
      BY <3>1 DEF Outcomes, Chosen
  <2>6. \A i \in DOMAIN p : Chosen(p[i]) => landing[p[i].key].data = None
    BY <2>2, <2>4, <2>5 DEF FollowsAt, Taken
  <2>. QED
    BY <2>1, <2>2, <2>3, <2>4, <2>6 DEF PlannedIsFree, FollowsAt, Chosen
<1>. QED
  BY <1>0, <1>1, <1>2, <1>3, <1>4, <1>5, StepKinds DEF NothingPlanned, Landing

LEMMA InitInv == Init => IInv
<1>. SUFFICES ASSUME Init PROVE IInv
  OBVIOUS
<1>0. Stable \in Nat /\ Stable >= 1
  BY InboxAssumptions
<1>1. NoFile \in [bytes : Bytes \union {None}, whole : BOOLEAN] /\ NothingLanded \in Landed
  BY DEF NoFile, NothingLanded, Landed
<1>2. TypeOK
  BY <1>0, <1>1 DEF Init, TypeOK
<1>3. QuietIsWhole
  BY <1>0 DEF Init, QuietIsWhole, NoFile
<1>4. MetadataHasData /\ ControlFirst
  <2>1. \A k \in Keys : landing[k] = NothingLanded
    BY DEF Init
  <2>. QED
    BY <2>1 DEF MetadataHasData, ControlFirst, NothingLanded
<1>. QED
  BY <1>2, <1>3, <1>4 DEF IInv, Init

LEMMA StepInv == IInv /\ [Next]_vars => IInv'
<1>. SUFFICES ASSUME IInv, [Next]_vars PROVE IInv'
  OBVIOUS
<1>0. TypeOK /\ QuietIsWhole
  BY DEF IInv
<1>1. CASE Next
  <2>1. TypeOK'
    <3>1. InboxType' /\ MovedType' /\ JobIsTyped' /\ LandingType'
      BY <1>0, <1>1, InboxTypeStep, MovedTypeStep, JobTypeStep, LandingTypeStep
    <3>. QED
      BY <3>1 DEF TypeOK, InboxType, MovedType, JobIsTyped, LandingType
  <2>. QED
    BY <1>0, <1>1, <2>1, QuietStep, LandedStep, FreeStep DEF IInv
<1>2. CASE UNCHANGED vars
  BY <1>2 DEF vars, IInv, TypeOK, QuietIsWhole, MetadataHasData, ControlFirst, PlannedIsFree
<1>. QED
  BY <1>1, <1>2

-----------------------------------------------------------------------------
(* Theorems about every inbox. *)

(* The inductive invariant: planned names are free until they are put. *)
THEOREM InboxInvariant == Spec => []IInv
<1>1. Init => IInv
  BY InitInv
<1>2. IInv /\ [Next]_vars => IInv'
  BY StepInv
<1>. QED
  BY <1>1, <1>2, PTL DEF Spec

(* Types of the state: what the watcher uploads and plans is never the bytes of
   a file that is still being written. *)
THEOREM TypeCorrect == Spec => []TypeOK
<1>1. IInv => TypeOK
  BY DEF IInv
<1>. QED
  BY <1>1, InboxInvariant, PTL

(* What a run may find in landing under a name the gate gave is whole, and its
   control file is there before it. *)
THEOREM LandedIsWhole == Spec => []LandsWhole
<1>1. IInv => LandsWhole
  <2>1. SUFFICES ASSUME IInv PROVE LandsWhole
    OBVIOUS
  <2>2. TypeOK /\ ControlFirst
    BY <2>1 DEF IInv
  <2>3. \A k \in Keys : landing[k].data \in Bytes \union {None}
    BY <2>2 DEF TypeOK, Landed
  <2>. QED
    BY <2>2, <2>3, InboxAssumptions DEF LandsWhole, ControlFirst
<1>. QED
  BY <1>1, InboxInvariant, PTL

LEMMA EvidenceStep ==
  ASSUME IInv, [Next]_vars, NEW k \in Keys,
         landing[k].data # None, landing'[k].data # landing[k].data
  PROVE  landing'[k].by = "sender"
<1>0. TypeOK /\ QuietIsWhole
  BY DEF IInv
<1>1. landing' # landing
  OBVIOUS
<1>2. CASE Write
  <2>. DEFINE o == Head(job.out)
  <2>1. /\ job \in Jobs /\ job.out \in Seq(Outcomes) /\ job.out # <<>>
        /\ o \in Outcomes /\ o.kind = "planned" /\ o.key \in Keys
        /\ \A l \in Keys : l # o.key => landing'[l] = landing[l]
    BY <1>0, <1>2, WriteFacts
  <2>2. PICK n \in 0 .. 3 : landing'[o.key] = Puts(o, n)
    BY <1>0, <1>2, WriteFacts
  <2>3. ~Chosen(o)
    <3>1. PlannedIsFree(job) /\ 1 \in DOMAIN job.out /\ o = job.out[1]
      BY <1>2, <2>1, ShiftFacts DEF IInv, Write, Outcome
    <3>2. k = o.key
      BY <2>1
    <3>. QED
      BY <3>1, <3>2 DEF PlannedIsFree
  <2>. HIDE DEF o
  <2>4. k = o.key /\ o.declared
    BY <2>1, <2>3 DEF Chosen
  <2>5. /\ n < 2 => landing'[o.key].data = landing[o.key].data
        /\ n >= 2 => landing'[o.key].by = IF o.declared THEN "sender" ELSE job.by
    BY <1>0, <2>1, <2>2, PutsFacts
  <2>. QED
    BY <2>2, <2>4, <2>5
<1>3. ASSUME NEW f \in Files, Landing(f)
      PROVE  landing'[k].by = "sender"
  BY <1>0, <1>3, LandingFacts
<1>4. CASE Next
  BY <1>0, <1>1, <1>2, <1>3, <1>4, StepKinds DEF Same, NothingPlanned, GoesOn, Promotes
<1>. QED
  BY <1>1, <1>4 DEF vars

(* Landing is the evidence copy: no put, retry or resend replaces what landed
   under a name, unless the sender chose that name itself. *)
THEOREM EvidenceIsKept == Spec => EvidenceStays
<1>1. IInv /\ [Next]_vars =>
        [\A k \in Keys :
           landing[k].data # None /\ landing'[k].data # landing[k].data
           => landing'[k].by = "sender"]_vars
  BY EvidenceStep
<1>. QED
  BY <1>1, InboxInvariant, PTL DEF Spec, EvidenceStays

-----------------------------------------------------------------------------
(* One name for a delivery. *)

LEMMA KeyFacts ==
  ASSUME NEW k \in Keys
  PROVE  /\ k.version \in Versions /\ k.version \in Nat
         /\ \A w \in Versions : /\ Sibling(k, w) \in Keys /\ w \in Nat
                                /\ Sibling(k, w).version = w
                                /\ Sibling(k, w).feed = k.feed /\ Sibling(k, w).date = k.date
         /\ \A l \in Keys : l.feed = k.feed /\ l.date = k.date => l = Sibling(k, l.version)
<1>1. k.version \in Versions /\ k.feed \in Feeds /\ k.date \in Dates /\ Versions \subseteq Nat
  BY DEF Keys, Versions
<1>2. \A l \in Keys : l = [feed |-> l.feed, date |-> l.date, version |-> l.version]
  BY DEF Keys
<1>3. \A w \in Versions : [feed |-> k.feed, date |-> k.date, version |-> w] \in Keys
  BY <1>1 DEF Keys
<1>. QED
  BY <1>1, <1>2, <1>3 DEF Sibling

\* What has landed stays landed; a name the gate gave is as it was, or was free
\* and is put in order.
LEMMA GateStep ==
  ASSUME IInv, NameInv, Next
  PROVE  /\ \A k \in Keys : landing[k].data # None => landing'[k].data # None
         /\ \A k \in Keys : landing'[k].by = "gate" =>
              \/ /\ landing[k].by = "gate" /\ landing'[k].data = landing[k].data
                 /\ landing'[k].meta = landing[k].meta
              \/ /\ Write /\ k = Head(job.out).key /\ Chosen(Head(job.out)) /\ job.by = "gate"
                 /\ landing'[k].data = Head(job.out).body
                 /\ landing'[k].meta \in {None, Head(job.out).body}
<1>0. TypeOK /\ QuietIsWhole /\ MetadataHasData /\ None \notin Bytes
  BY InboxAssumptions DEF IInv
<1>1. CASE landing' = landing
  BY <1>1
<1>2. ASSUME NEW f \in Files, Landing(f), NEW k \in Keys
      PROVE  /\ landing[k].data # None => landing'[k].data # None
             /\ landing'[k].by = "gate" =>
                  /\ landing[k].by = "gate" /\ landing'[k].data = landing[k].data
                  /\ landing'[k].meta = landing[k].meta
  <2>1. \/ landing'[k] = landing[k]
        \/ landing'[k].data = Content(f) /\ landing'[k].by = "sender"
        \/ /\ landing'[k].data = landing[k].data /\ landing'[k].meta = landing[k].meta
           /\ landing'[k].by = landing[k].by
    BY <1>0, <1>2, LandingFacts
  <2>2. Content(f) # None
    BY <1>0, <1>2 DEF Landing
  <2>. QED
    BY <2>1, <2>2
<1>3. CASE Write
  <2>. DEFINE o == Head(job.out)
  <2>1. /\ job \in Jobs /\ job.out \in Seq(Outcomes) /\ job.out # <<>>
        /\ o \in Outcomes /\ o.kind = "planned" /\ o.key \in Keys /\ o.body \in Bytes
        /\ \A l \in Keys : l # o.key => landing'[l] = landing[l]
    BY <1>0, <1>3, WriteFacts
  <2>2. PICK n \in 0 .. 3 : landing'[o.key] = Puts(o, n)
    BY <1>0, <1>3, WriteFacts
  <2>3. Chosen(o) => landing[o.key].data = None
    <3>1. PlannedIsFree(job) /\ 1 \in DOMAIN job.out /\ o = job.out[1]
      BY <1>3, <2>1, ShiftFacts DEF IInv, Write, Outcome
    <3>. QED
      BY <3>1 DEF PlannedIsFree
  <2>4. LET r == landing'[o.key]
            old == landing[o.key]
        IN /\ n < 2 => r.data = old.data /\ r.meta = old.meta /\ r.by = old.by
           /\ n >= 2 => r.data = o.body /\ r.by = IF o.declared THEN "sender" ELSE job.by
           /\ n = 2 => r.meta = old.meta
           /\ n = 3 => r.meta = o.body
    BY <1>0, <2>1, <2>2, PutsFacts
  <2>. HIDE DEF o
  <2>5. landing[o.key].data # None => landing'[o.key].data # None
    BY <1>0, <2>1, <2>2, <2>4
  <2>6. ASSUME landing'[o.key].by = "gate", n >= 2
        PROVE  /\ Chosen(o) /\ job.by = "gate" /\ landing'[o.key].data = o.body
               /\ landing'[o.key].meta \in {None, o.body}
    <3>1. o.declared # TRUE /\ job.by = "gate"
      BY <2>4, <2>6
    <3>2. Chosen(o)
      BY <2>1, <3>1 DEF Chosen
    <3>3. landing[o.key].meta = None
      BY <1>0, <2>1, <2>3, <3>2 DEF MetadataHasData
    <3>. QED
      BY <2>2, <2>4, <2>6, <3>1, <3>2, <3>3
  <2>. QED
    BY <1>3, <2>1, <2>2, <2>4, <2>5, <2>6 DEF o
<1>. QED
  BY <1>0, <1>1, <1>2, <1>3, StepKinds DEF Same, NothingPlanned, GoesOn, Promotes

LEMMA NamesStep ==
  ASSUME IInv, NameInv, Next
  PROVE  NamesInOrder' /\ OneNameEach'
<1>0. TypeOK /\ QuietIsWhole /\ NamesInOrder /\ OneNameEach
  BY DEF IInv, NameInv
<1>1. \A k \in Keys : landing[k].data # None => landing'[k].data # None
  BY GateStep
<1>2. \A k \in Keys : landing'[k].by = "gate" =>
        \/ /\ landing[k].by = "gate" /\ landing'[k].data = landing[k].data
           /\ landing'[k].meta = landing[k].meta
        \/ /\ Write /\ k = Head(job.out).key /\ Chosen(Head(job.out)) /\ job.by = "gate"
           /\ landing'[k].data = Head(job.out).body
           /\ landing'[k].meta \in {None, Head(job.out).body}
  BY GateStep
<1>. DEFINE o == Head(job.out)
<1>3. ASSUME Write, Chosen(o), job.by = "gate"
      PROVE  /\ o.key \in Keys /\ o.body \in Bytes
             /\ \A w \in Versions : w < o.key.version => landing[Sibling(o.key, w)].data # None
             /\ \A k \in Keys :
                  (landing[k].by = "gate" /\ k.feed = o.key.feed /\ k.date = o.key.date)
                    => landing[k].data # o.body
  <2>1. job \in Jobs /\ job.out \in Seq(Outcomes) /\ job.out # <<>> /\ o.key \in Keys /\ o.body \in Bytes
    BY <1>0, <1>3, WriteFacts
  <2>2. NoGapPlanned(job) /\ PlannedIsNew(job)
    BY <1>3 DEF NameInv, Write, Outcome
  <2>3. 1 \in DOMAIN job.out /\ o = job.out[1]
    BY <2>1, ShiftFacts
  <2>4. 1 .. 1 - 1 = {}
    OBVIOUS
  <2>. HIDE DEF o
  <2>5. Chosen(job.out[1])
    BY <1>3, <2>3
  <2>6. \A w \in Versions : w < o.key.version => landing[Sibling(o.key, w)].data # None
    BY <2>2, <2>3, <2>4, <2>5 DEF NoGapPlanned
  <2>7. \A k \in Keys :
          (landing[k].by = "gate" /\ k.feed = o.key.feed /\ k.date = o.key.date)
            => landing[k].data # o.body
    BY <2>2, <2>3, <2>5 DEF PlannedIsNew
  <2>. QED
    BY <2>1, <2>6, <2>7
<1>. HIDE DEF o
<1>4. None \notin Bytes
  BY InboxAssumptions
<1>5. ASSUME NEW k \in Keys, landing'[k].by = "gate"
      PROVE  /\ landing'[k].data # None
             /\ landing'[k].meta \in {None, landing'[k].data}
             /\ \A w \in Versions : w < k.version => landing'[Sibling(k, w)].data # None
  <2>1. \A w \in Versions : Sibling(k, w) \in Keys
    BY KeyFacts
  <2>2. CASE /\ landing[k].by = "gate" /\ landing'[k].data = landing[k].data
             /\ landing'[k].meta = landing[k].meta
    BY <1>0, <1>1, <2>1, <2>2 DEF NamesInOrder
  <2>3. CASE /\ Write /\ k = o.key /\ Chosen(o) /\ job.by = "gate"
             /\ landing'[k].data = o.body /\ landing'[k].meta \in {None, o.body}
    BY <1>1, <1>3, <1>4, <2>1, <2>3
  <2>. QED
    BY <1>2, <1>5, <2>2, <2>3 DEF o
<1>6. NamesInOrder'
  BY <1>5 DEF NamesInOrder
<1>7. ASSUME NEW k \in Keys, NEW l \in Keys,
             landing'[k].data = landing'[l].data,
             landing'[k].by = "gate", landing'[l].by = "gate",
             k.feed = l.feed, k.date = l.date
      PROVE  k = l
  <2>1. /\ \/ landing[k].by = "gate" /\ landing'[k].data = landing[k].data
           \/ Write /\ k = o.key /\ Chosen(o) /\ job.by = "gate" /\ landing'[k].data = o.body
        /\ \/ landing[l].by = "gate" /\ landing'[l].data = landing[l].data
           \/ Write /\ l = o.key /\ Chosen(o) /\ job.by = "gate" /\ landing'[l].data = o.body
    BY <1>2, <1>7 DEF o
  <2>2. CASE landing[k].by = "gate" /\ landing[l].by = "gate"
             /\ landing[k].data = landing[l].data
    BY <1>0, <1>7, <2>2 DEF OneNameEach, OneNameOf, NamesInOrder
  <2>3. CASE ~(landing[k].by = "gate" /\ landing[l].by = "gate"
               /\ landing[k].data = landing[l].data)
    BY <1>3, <1>7, <2>1, <2>3
  <2>. QED
    BY <2>2, <2>3
<1>8. OneNameEach'
  BY <1>7 DEF OneNameEach, OneNameOf
<1>. QED
  BY <1>6, <1>8

\* What is left of a plan that has no gap and nothing landed.
LEMMA TailIsNew ==
  ASSUME NEW j \in Jobs, NoGapPlanned(j), PlannedIsNew(j), j.out # <<>>,
         NEW i \in DOMAIN Tail(j.out), Chosen(Tail(j.out)[i])
  PROVE  LET t == Tail(j.out)
             o == Head(j.out)
         IN /\ \A w \in Versions : w < t[i].key.version =>
                 \/ landing[Sibling(t[i].key, w)].data # None
                 \/ o.kind = "planned" /\ o.key = Sibling(t[i].key, w)
                 \/ \E h \in 1 .. i - 1 : t[h].kind = "planned" /\ t[h].key = Sibling(t[i].key, w)
            /\ \A k \in Keys :
                 (landing[k].by = "gate" /\ k.feed = t[i].key.feed /\ k.date = t[i].key.date)
                   => landing[k].data # t[i].body
            /\ (Chosen(o) /\ o.key.date = t[i].key.date) => o.body # t[i].body
            /\ \A h \in 1 .. i - 1 :
                 (Chosen(t[h]) /\ t[h].key.date = t[i].key.date) => t[h].body # t[i].body
<1>. DEFINE s == j.out
            t == Tail(s)
            o == Head(s)
<1>1. s \in Seq(Outcomes) /\ s # <<>>
  BY DEF Jobs
<1>2. /\ o = s[1] /\ i + 1 \in DOMAIN s /\ t[i] = s[i + 1] /\ 1 \in 1 .. (i + 1) - 1
      /\ \A h \in 1 .. i - 1 : h + 1 \in 1 .. (i + 1) - 1 /\ t[h] = s[h + 1]
      /\ \A h \in 1 .. (i + 1) - 1 : h = 1 \/ (h - 1 \in 1 .. i - 1 /\ t[h - 1] = s[h])
  <2>. HIDE DEF s
  <2>. QED
    BY <1>1, ShiftFacts DEF s
<1>3. Chosen(s[i + 1])
  <2>1. Chosen(t[i])
    OBVIOUS
  <2>. HIDE DEF s, t
  <2>. QED
    BY <1>2, <2>1
<1>4. \A w \in Versions : w < s[i + 1].key.version =>
        \/ landing[Sibling(s[i + 1].key, w)].data # None
        \/ \E h \in 1 .. (i + 1) - 1 : s[h].kind = "planned" /\ s[h].key = Sibling(s[i + 1].key, w)
  BY <1>2, <1>3 DEF NoGapPlanned
<1>5. /\ \A k \in Keys :
           (landing[k].by = "gate" /\ k.feed = s[i + 1].key.feed /\ k.date = s[i + 1].key.date)
             => landing[k].data # s[i + 1].body
      /\ \A h \in 1 .. (i + 1) - 1 :
           (Chosen(s[h]) /\ s[h].key.date = s[i + 1].key.date) => s[h].body # s[i + 1].body
  BY <1>2, <1>3 DEF PlannedIsNew
<1>. HIDE DEF s, t, o
<1>6. ASSUME NEW w \in Versions, w < t[i].key.version
      PROVE  \/ landing[Sibling(t[i].key, w)].data # None
             \/ o.kind = "planned" /\ o.key = Sibling(t[i].key, w)
             \/ \E h \in 1 .. i - 1 : t[h].kind = "planned" /\ t[h].key = Sibling(t[i].key, w)
  BY <1>2, <1>4, <1>6
<1>7. /\ \A k \in Keys :
           (landing[k].by = "gate" /\ k.feed = t[i].key.feed /\ k.date = t[i].key.date)
             => landing[k].data # t[i].body
      /\ (Chosen(o) /\ o.key.date = t[i].key.date) => o.body # t[i].body
      /\ \A h \in 1 .. i - 1 :
           (Chosen(t[h]) /\ t[h].key.date = t[i].key.date) => t[h].body # t[i].body
  BY <1>2, <1>5
<1>. QED
  BY <1>6, <1>7 DEF s, t, o

\* A promotion that could read all that landed plans nothing that is there.
LEMMA PlanIsNew ==
  ASSUME DistinctMembers, IInv, NameInv, NEW f \in Files, Route(f) # None, ~Conformant(f),
         inbox[f].whole, NEW p, p = Plan(Route(f), f, {}), NEW i \in DOMAIN p, Chosen(p[i])
  PROVE  /\ \A w \in Versions : w < p[i].key.version =>
              \/ landing[Sibling(p[i].key, w)].data # None
              \/ \E h \in 1 .. i - 1 : p[h].kind = "planned" /\ p[h].key = Sibling(p[i].key, w)
         /\ \A k \in Keys :
              (landing[k].by = "gate" /\ k.feed = p[i].key.feed /\ k.date = p[i].key.date)
                => landing[k].data # p[i].body
         /\ \A h \in 1 .. i - 1 :
              (Chosen(p[h]) /\ p[h].key.date = p[i].key.date) => p[h].body # p[i].body
<1>0. TypeOK /\ QuietIsWhole /\ NamesInOrder
  BY DEF IInv, NameInv
<1>1. /\ p \in Seq(Outcomes)
      /\ \A n \in 1 .. Len(p) : FollowsAt(p, n, Route(f), {})
      /\ \A n \in 1 .. Len(p) : \A h \in 1 .. n - 1 :
           (Chosen(p[h]) /\ Chosen(p[n]) /\ p[h].key.date = p[n].key.date) => p[h].body # p[n].body
  BY <1>0, PlanFacts
<1>2. i \in 1 .. Len(p) /\ p[i] \in Outcomes
  BY <1>1
<1>. DEFINE key == p[i].key
            body == p[i].body
<1>3. key \in Keys
  BY <1>2 DEF Outcomes, Chosen
<1>4. /\ key \notin Taken
      /\ \A w \in Versions : w < key.version =>
           /\ \/ Sibling(key, w) \in Taken
              \/ \E h \in 1 .. i - 1 : p[h].kind = "planned" /\ p[h].key = Sibling(key, w)
           /\ Md5(Sibling(key, w), {}) # body
  BY <1>1, <1>2 DEF FollowsAt
<1>. HIDE DEF key, body
<1>5. ASSUME NEW k \in Keys, landing[k].by = "gate", k.feed = key.feed, k.date = key.date
      PROVE  landing[k].data # body
  <2>1. /\ landing[k].data # None /\ landing[k].meta \in {None, landing[k].data}
        /\ \A w \in Versions : w < k.version => landing[Sibling(k, w)].data # None
    BY <1>0, <1>5 DEF NamesInOrder
  <2>2. /\ k.version \in Versions /\ k.version \in Nat /\ key.version \in Versions
        /\ key.version \in Nat /\ k = Sibling(key, k.version) /\ key = Sibling(k, key.version)
    BY <1>3, <1>5, KeyFacts
  <2>3. landing[key].data = None
    BY <1>3, <1>4 DEF Taken
  <2>4. k.version < key.version
    <3>1. k = Sibling(k, k.version)
      BY KeyFacts
    <3>2. k.version # key.version
      BY <2>1, <2>2, <2>3, <3>1
    <3>3. ~(key.version < k.version)
      BY <2>1, <2>2, <2>3
    <3>. QED
      BY <2>2, <3>2, <3>3
  <2>5. Md5(k, {}) = landing[k].data
    BY <2>1 DEF Md5
  <2>. QED
    BY <1>4, <2>2, <2>4, <2>5
<1>6. \A w \in Versions : w < key.version =>
        \/ landing[Sibling(key, w)].data # None
        \/ \E h \in 1 .. i - 1 : p[h].kind = "planned" /\ p[h].key = Sibling(key, w)
  BY <1>4 DEF Taken
<1>. QED
  BY <1>1, <1>2, <1>5, <1>6 DEF key, body

LEMMA PendingStep ==
  ASSUME DistinctMembers, IInv, NameInv, Next, job' # None, job'.by = "gate"
  PROVE  NoGapPlanned(job)' /\ PlannedIsNew(job)'
<1>0. /\ TypeOK /\ QuietIsWhole
      /\ (job # None /\ job.by = "gate") => NoGapPlanned(job) /\ PlannedIsNew(job)
  BY DEF IInv, NameInv
<1>1. CASE Same
  <2>1. NoGapPlanned(job) /\ PlannedIsNew(job)
    BY <1>0, <1>1 DEF Same
  <2>. QED
    BY <1>1, <2>1 DEF Same, NoGapPlanned, PlannedIsNew
<1>2. CASE job'.out = <<>>
  BY <1>2 DEF NoGapPlanned, PlannedIsNew
<1>3. CASE GoesOn
  <2>1. NoGapPlanned(job) /\ PlannedIsNew(job) /\ job \in Jobs /\ landing' = landing
    BY <1>0, <1>3 DEF GoesOn
  <2>2. CASE job'.out = job.out
    BY <2>1, <2>2 DEF NoGapPlanned, PlannedIsNew
  <2>3. CASE job.out # <<>> /\ job'.out = Tail(job.out) /\ Head(job.out).kind # "planned"
    <3>. DEFINE t == Tail(job.out)
    <3>1. \A i \in DOMAIN t : Chosen(t[i]) =>
            /\ \A w \in Versions : w < t[i].key.version =>
                 \/ landing[Sibling(t[i].key, w)].data # None
                 \/ \E h \in 1 .. i - 1 : t[h].kind = "planned" /\ t[h].key = Sibling(t[i].key, w)
            /\ \A k \in Keys :
                 (landing[k].by = "gate" /\ k.feed = t[i].key.feed /\ k.date = t[i].key.date)
                   => landing[k].data # t[i].body
            /\ \A h \in 1 .. i - 1 :
                 (Chosen(t[h]) /\ t[h].key.date = t[i].key.date) => t[h].body # t[i].body
      BY <2>1, <2>3, TailIsNew
    <3>2. job'.out = t
      BY <2>3
    <3>. HIDE DEF t
    <3>. QED
      BY <2>1, <3>1, <3>2 DEF NoGapPlanned, PlannedIsNew
  <2>. QED
    BY <1>3, <2>2, <2>3 DEF GoesOn
<1>4. CASE Write
  <2>. DEFINE o == Head(job.out)
              t == Tail(job.out)
  <2>1. /\ job \in Jobs /\ job.out \in Seq(Outcomes) /\ job.out # <<>>
        /\ o \in Outcomes /\ o.kind = "planned" /\ o.key \in Keys /\ o.body \in Bytes
        /\ job' \in Jobs /\ job'.out = t
        /\ \A l \in Keys : l # o.key => landing'[l] = landing[l]
    BY <1>0, <1>4, WriteFacts
  <2>2. job.by = "gate" /\ landing'[o.key] = Puts(o, 3)
    BY <1>0, <1>4, WriteFacts
  <2>3. NoGapPlanned(job) /\ PlannedIsNew(job)
    BY <1>0, <1>4, <2>2 DEF Write, Outcome
  <2>4. \A i \in DOMAIN t : Chosen(t[i]) =>
          /\ \A w \in Versions : w < t[i].key.version =>
               \/ landing[Sibling(t[i].key, w)].data # None
               \/ o.kind = "planned" /\ o.key = Sibling(t[i].key, w)
               \/ \E h \in 1 .. i - 1 : t[h].kind = "planned" /\ t[h].key = Sibling(t[i].key, w)
          /\ \A k \in Keys :
               (landing[k].by = "gate" /\ k.feed = t[i].key.feed /\ k.date = t[i].key.date)
                 => landing[k].data # t[i].body
          /\ (Chosen(o) /\ o.key.date = t[i].key.date) => o.body # t[i].body
          /\ \A h \in 1 .. i - 1 :
               (Chosen(t[h]) /\ t[h].key.date = t[i].key.date) => t[h].body # t[i].body
    BY <2>1, <2>3, TailIsNew
  <2>5. \A i \in DOMAIN t : Chosen(t[i]) => t[i].key \in Keys
    <3>1. \A i \in DOMAIN job'.out : job'.out[i].kind = "planned" => job'.out[i].key \in Keys
      BY <2>1, ChosenKey
    <3>. QED
      BY <2>1, <3>1 DEF Chosen
  <2>6. /\ \A k \in Keys : landing[k].data # None => landing'[k].data # None
        /\ \A k \in Keys : landing'[k].by = "gate" =>
             \/ landing[k].by = "gate" /\ landing'[k].data = landing[k].data
             \/ k = o.key /\ Chosen(o) /\ landing'[k].data = o.body
    BY GateStep
  <2>7. landing'[o.key].data # None
    <3>1. 3 \in 0 .. 3 /\ 3 >= 2
      OBVIOUS
    <3>2. Puts(o, 3).data = o.body
      BY <1>0, <2>1, <3>1, PutsFacts
    <3>. QED
      BY <2>1, <2>2, <3>2, InboxAssumptions
  <2>. HIDE DEF o, t
  <2>8. ASSUME NEW i \in DOMAIN t, Chosen(t[i])
        PROVE  /\ \A w \in Versions : w < t[i].key.version =>
                    \/ landing'[Sibling(t[i].key, w)].data # None
                    \/ \E h \in 1 .. i - 1 : t[h].kind = "planned" /\ t[h].key = Sibling(t[i].key, w)
               /\ \A k \in Keys :
                    (landing'[k].by = "gate" /\ k.feed = t[i].key.feed /\ k.date = t[i].key.date)
                      => landing'[k].data # t[i].body
               /\ \A h \in 1 .. i - 1 :
                    (Chosen(t[h]) /\ t[h].key.date = t[i].key.date) => t[h].body # t[i].body
    <3>1. \A w \in Versions : Sibling(t[i].key, w) \in Keys
      BY <2>5, <2>8, KeyFacts
    <3>2. \A w \in Versions : w < t[i].key.version =>
            \/ landing'[Sibling(t[i].key, w)].data # None
            \/ \E h \in 1 .. i - 1 : t[h].kind = "planned" /\ t[h].key = Sibling(t[i].key, w)
      BY <2>4, <2>6, <2>7, <2>8, <3>1
    <3>3. ASSUME NEW k \in Keys, landing'[k].by = "gate", k.feed = t[i].key.feed,
                 k.date = t[i].key.date
          PROVE  landing'[k].data # t[i].body
      BY <2>4, <2>6, <2>8, <3>3
    <3>. QED
      BY <2>4, <2>8, <3>2, <3>3
  <2>. QED
    BY <2>1, <2>8 DEF NoGapPlanned, PlannedIsNew
<1>5. ASSUME NEW f \in Files, Promotes(f)
      PROVE  NoGapPlanned(job)' /\ PlannedIsNew(job)'
  <2>1. /\ job'.out = Plan(Route(f), f, {}) /\ landing' = landing
        /\ Route(f) # None /\ ~Conformant(f) /\ inbox[f].whole
    BY <1>5 DEF Promotes
  <2>. DEFINE p == Plan(Route(f), f, {})
  <2>2. \A i \in DOMAIN p : Chosen(p[i]) =>
          /\ \A w \in Versions : w < p[i].key.version =>
               \/ landing[Sibling(p[i].key, w)].data # None
               \/ \E h \in 1 .. i - 1 : p[h].kind = "planned" /\ p[h].key = Sibling(p[i].key, w)
          /\ \A k \in Keys :
               (landing[k].by = "gate" /\ k.feed = p[i].key.feed /\ k.date = p[i].key.date)
                 => landing[k].data # p[i].body
          /\ \A h \in 1 .. i - 1 :
               (Chosen(p[h]) /\ p[h].key.date = p[i].key.date) => p[h].body # p[i].body
    BY <2>1, PlanIsNew
  <2>3. job'.out = p
    BY <2>1
  <2>. HIDE DEF p
  <2>. QED
    BY <2>1, <2>2, <2>3 DEF NoGapPlanned, PlannedIsNew
<1>. QED
  BY <1>0, <1>1, <1>2, <1>3, <1>4, <1>5, StepKinds DEF NothingPlanned, Landing

(* One delivery, one name: bytes resent, or promoted again after a failure or a
   crash between any two puts, do not become the next version of their date,
   where what landed could be read and no earlier put of their container
   failed.  Assumed: no container holds the same bytes twice for one date. *)
THEOREM OneNameForEach == ASSUME DistinctMembers PROVE Spec => []OneNameEach
<1>1. Init => NameInv
  <2>1. SUFFICES ASSUME Init PROVE NameInv
    OBVIOUS
  <2>2. \A k \in Keys : landing[k].by = "nobody"
    BY <2>1 DEF Init, NothingLanded
  <2>. QED
    BY <2>1, <2>2 DEF NameInv, NamesInOrder, OneNameEach, OneNameOf, Init
<1>2. IInv /\ NameInv /\ [Next]_vars => NameInv'
  <2>1. SUFFICES ASSUME IInv, NameInv, [Next]_vars PROVE NameInv'
    OBVIOUS
  <2>2. CASE Next
    BY <2>1, <2>2, NamesStep, PendingStep DEF NameInv
  <2>3. CASE UNCHANGED vars
    BY <2>1, <2>3 DEF vars, NameInv, NamesInOrder, OneNameEach, OneNameOf, NoGapPlanned, PlannedIsNew
  <2>. QED
    BY <2>1, <2>2, <2>3
<1>3. NameInv => OneNameEach
  BY DEF NameInv
<1>. QED
  BY <1>1, <1>2, <1>3, InboxInvariant, PTL DEF Spec

-----------------------------------------------------------------------------
(* What moves has landed. *)

\* What an outcome dealt with leaves alone of its job.
Kept(a, b) == a.file = b.file /\ a.read = b.read /\ a.pc = b.pc

\* A promotion's first job, field by field.
LEMMA PromoteFields ==
  ASSUME TypeOK, QuietIsWhole, NEW f \in Files, Promote(f), job' # None
  PROVE  /\ Route(f) # None /\ ~Conformant(f) /\ inbox[f].whole
         /\ landing' = landing /\ inbox' = inbox
         /\ job'.file = f /\ job'.read = Content(f) /\ job'.pc = "write"
         /\ ~job'.written /\ job'.lost = {}
         /\ \E unread : job'.out = Plan(Route(f), f, unread)
<1>1. Ready(f) /\ Route(f) # None /\ ~Conformant(f) /\ landing' = landing /\ inbox' = inbox
  BY DEF Promote
<1>2. job = None /\ inbox[f].whole
  BY <1>1, ReadyFacts
<1>3. PICK unread \in {{}} \union {{k} : k \in Taken} :
        job' = [NewJob(f, "processed", <<>>) EXCEPT
                  !.pc = "write", !.written = FALSE,
                  !.by = IF unread = {} THEN "gate" ELSE "unsure",
                  !.out = Plan(Route(f), f, unread),
                  !.with = Consumed(Route(f), f)]
  BY <1>1, <1>2, PromoteJob
<1>. DEFINE by == IF unread = {} THEN "gate" ELSE "unsure"
            out == Plan(Route(f), f, unread)
            with == Consumed(Route(f), f)
<1>4. job' = [NewJob(f, "processed", <<>>) EXCEPT
                !.pc = "write", !.written = FALSE, !.by = by, !.out = out, !.with = with]
  BY <1>3
<1>5. /\ job'.file = f /\ job'.read = Content(f) /\ job'.pc = "write"
      /\ ~job'.written /\ job'.lost = {} /\ job'.out = out
  <2>. HIDE DEF by, out, with
  <2>. QED
    BY <1>4 DEF NewJob
<1>. QED
  BY <1>1, <1>2, <1>5

\* An outcome that puts nothing, field by field.
LEMMA PoppedFields ==
  ASSUME TypeOK, Waiting \/ Duplicate \/ Refused
  PROVE  /\ job \in Jobs /\ job.pc = "write" /\ job.out # <<>>
         /\ landing' = landing /\ inbox' = inbox
         /\ Kept(job', job) /\ job'.out = Tail(job.out)
         /\ \/ Head(job.out).kind = "waiting" /\ job'.written = job.written
               /\ job'.to = job.to /\ job'.lost = job.lost
            \/ Head(job.out).kind = "duplicate" /\ job'.written
               /\ job'.to = job.to /\ job'.lost = job.lost
            \/ Head(job.out).kind = "refused" /\ job'.written = job.written
               /\ job'.to = job.to /\ job'.lost = job.lost \union {Head(job.out).body}
            \/ Head(job.out).kind = "refused" /\ job'.written = job.written
               /\ job'.to = "rejected"
<1>1. PICK kind \in {"waiting", "duplicate", "refused"} :
        /\ Outcome(kind)
        /\ kind = "waiting" => job' = Done(job)
        /\ kind = "duplicate" => job' = [Done(job) EXCEPT !.written = TRUE]
        /\ kind = "refused" =>
             job' \in {[Done(job) EXCEPT !.lost = Done(job).lost \union {Head(job.out).body}],
                       [Done(job) EXCEPT !.to = "rejected"]}
  BY DEF Waiting, Duplicate, Refused
<1>. DEFINE d == Done(job)
            b == Head(job.out).body
<1>2. /\ job \in Jobs /\ job.out # <<>> /\ Head(job.out).kind = kind /\ job.pc = "write"
      /\ d \in Jobs /\ d = [job EXCEPT !.out = Tail(job.out)]
  BY <1>1, OutcomeFacts DEF Outcome
<1>3. landing' = landing /\ inbox' = inbox
  BY DEF Waiting, Duplicate, Refused
<1>4. /\ Kept(d, job) /\ d.out = Tail(job.out)
      /\ d.written = job.written /\ d.to = job.to /\ d.lost = job.lost
  BY <1>2 DEF Jobs, Kept
<1>. HIDE DEF d, b
<1>5. /\ LET e == [d EXCEPT !.written = TRUE]
         IN Kept(e, d) /\ e.out = d.out /\ e.written /\ e.to = d.to /\ e.lost = d.lost
      /\ LET e == [d EXCEPT !.to = "rejected"]
         IN Kept(e, d) /\ e.out = d.out /\ e.written = d.written /\ e.to = "rejected"
      /\ LET e == [d EXCEPT !.lost = d.lost \union {b}]
         IN /\ Kept(e, d) /\ e.out = d.out /\ e.written = d.written /\ e.to = d.to
            /\ e.lost = d.lost \union {b}
  BY <1>2 DEF Jobs, Kept
<1>6. Kept(job', d) /\ job'.out = d.out
  <2>1. Kept(d, d)
    BY DEF Kept
  <2>. QED
    BY <1>1, <1>5, <2>1 DEF d, b
<1>7. Kept(job', job) /\ job'.out = Tail(job.out)
  BY <1>4, <1>6 DEF Kept
<1>8. CASE kind = "waiting"
  BY <1>1, <1>2, <1>3, <1>4, <1>7, <1>8 DEF d
<1>9. CASE kind = "duplicate"
  BY <1>1, <1>2, <1>3, <1>4, <1>5, <1>7, <1>9 DEF d
<1>10. CASE kind = "refused"
  <2>1. CASE job' = [d EXCEPT !.lost = d.lost \union {b}]
    BY <1>2, <1>3, <1>4, <1>5, <1>7, <1>10, <2>1 DEF b
  <2>2. CASE job' = [d EXCEPT !.to = "rejected"]
    BY <1>2, <1>3, <1>4, <1>5, <1>7, <1>10, <2>2
  <2>. QED
    BY <1>1, <1>10, <2>1, <2>2 DEF d, b
<1>. QED
  BY <1>8, <1>9, <1>10

\* A put, field by field.
LEMMA WriteFields ==
  ASSUME TypeOK, Write
  PROVE  LET o == Head(job.out)
         IN /\ job.pc = "write" /\ Kept(job', job) /\ inbox' = inbox
            /\ job'.out = Tail(job.out) /\ job'.to = job.to
            /\ \E n \in 0 .. 3 :
                 /\ landing'[o.key] = Puts(o, n)
                 /\ n = 3 => job'.written /\ job'.lost = job.lost
                 /\ n # 3 => job'.written = job.written /\ job'.lost = job.lost \union {o.body}
<1>. DEFINE o == Head(job.out)
            d == Done(job)
<1>1. Outcome("planned") /\ inbox' = inbox
  BY DEF Write
<1>2. /\ job \in Jobs /\ job.pc = "write" /\ o \in Outcomes /\ o.kind = "planned" /\ o.key \in Keys
      /\ d \in Jobs /\ d = [job EXCEPT !.out = Tail(job.out)]
  BY <1>1, OutcomeFacts DEF Outcome, Outcomes
<1>3. PICK n \in 0 .. 3 :
        /\ landing' = [landing EXCEPT ![o.key] = Puts(o, n)]
        /\ IF n = 3 THEN job' = [d EXCEPT !.written = TRUE, !.keys = Append(@, o.key)]
           ELSE job' = [d EXCEPT !.lost = @ \union {o.body},
                                 !.by = IF @ = "gate" THEN "gap" ELSE @]
  BY Zenon DEF Write
<1>4. landing'[o.key] = Puts(o, n)
  <2>. HIDE DEF o
  <2>. QED
    BY <1>2, <1>3 DEF TypeOK
<1>5. /\ Kept(d, job) /\ d.out = Tail(job.out)
      /\ d.written = job.written /\ d.to = job.to /\ d.lost = job.lost
  BY <1>2 DEF Jobs, Kept
<1>. DEFINE ks == Append(d.keys, o.key)
            by == IF d.by = "gate" THEN "gap" ELSE d.by
<1>6. CASE n = 3
  <2>1. job' = [d EXCEPT !.written = TRUE, !.keys = ks]
    BY <1>3, <1>6
  <2>. HIDE DEF d, o, ks
  <2>2. /\ Kept(job', d) /\ job'.out = d.out /\ job'.to = d.to
        /\ job'.written /\ job'.lost = d.lost
    BY <1>2, <2>1 DEF Jobs, Kept
  <2>3. Kept(job', job) /\ job'.out = Tail(job.out) /\ job'.to = job.to /\ job'.lost = job.lost
    BY <1>5, <2>2 DEF Kept
  <2>. QED
    BY <1>1, <1>2, <1>4, <1>6, <2>2, <2>3 DEF o
<1>7. CASE n # 3
  <2>1. job' = [d EXCEPT !.lost = d.lost \union {o.body}, !.by = by]
    BY <1>3, <1>7
  <2>. HIDE DEF d, o, by
  <2>2. /\ Kept(job', d) /\ job'.out = d.out /\ job'.to = d.to
        /\ job'.written = d.written /\ job'.lost = d.lost \union {o.body}
    BY <1>2, <2>1 DEF Jobs, Kept
  <2>3. /\ Kept(job', job) /\ job'.out = Tail(job.out) /\ job'.to = job.to
        /\ job'.written = job.written /\ job'.lost = job.lost \union {o.body}
    BY <1>5, <2>2 DEF Kept
  <2>. QED
    BY <1>1, <1>2, <1>4, <1>7, <2>3 DEF o
<1>. QED
  BY <1>6, <1>7

\* A key a sender named stays so, and only a sender's name loses its bytes.
LEMMA SenderStep ==
  ASSUME IInv, MetadataMatches, Next
  PROVE  MetadataMatches' /\ \A k \in Keys : landing[k].by = "sender" => landing'[k].by = "sender"
<1>0. TypeOK /\ QuietIsWhole /\ MetadataHasData /\ None \notin Bytes
  BY InboxAssumptions DEF IInv
<1>1. CASE landing' = landing
  BY <1>1 DEF MetadataMatches
<1>2. ASSUME NEW f \in Files, Landing(f)
      PROVE  MetadataMatches' /\ \A k \in Keys : landing[k].by = "sender" => landing'[k].by = "sender"
  <2>1. Content(f) # None
    BY <1>0, <1>2 DEF Landing
  <2>2. \A k \in Keys :
           \/ landing'[k] = landing[k]
           \/ landing'[k].data = Content(f) /\ landing'[k].by = "sender"
           \/ /\ landing'[k].data = landing[k].data /\ landing'[k].meta = landing[k].meta
              /\ landing'[k].by = landing[k].by
    BY <1>0, <1>2, LandingFacts
  <2>. QED
    BY <2>1, <2>2 DEF MetadataMatches
<1>3. CASE Write
  <2>. DEFINE o == Head(job.out)
  <2>1. /\ job \in Jobs /\ job.out \in Seq(Outcomes) /\ job.out # <<>>
        /\ o \in Outcomes /\ o.kind = "planned" /\ o.key \in Keys /\ o.body \in Bytes
        /\ \A k \in Keys : k # o.key => landing'[k] = landing[k]
    BY <1>0, <1>3, WriteFacts
  <2>2. PICK n \in 0 .. 3 : landing'[o.key] = Puts(o, n)
    BY <1>0, <1>3, WriteFacts
  <2>3. ~o.declared => landing[o.key].data = None
    <3>1. PlannedIsFree(job) /\ 1 \in DOMAIN job.out /\ o = job.out[1]
      BY <1>3, <2>1, ShiftFacts DEF IInv, Write, Outcome
    <3>. QED
      BY <2>1, <3>1 DEF PlannedIsFree, Chosen
  <2>. HIDE DEF o
  <2>4. LET r == landing'[o.key]
            old == landing[o.key]
        IN /\ n < 2 => r.data = old.data /\ r.meta = old.meta /\ r.by = old.by
           /\ n >= 2 => r.data = o.body /\ r.by = IF o.declared THEN "sender" ELSE job.by
           /\ n = 2 => r.meta = old.meta
           /\ n = 3 => r.meta = o.body
    BY <1>0, <2>1, <2>2, PutsFacts
  <2>5. job.by # "sender"
    BY <2>1 DEF Jobs
  <2>6. LET r == landing'[o.key]
        IN /\ r.by = "sender" => r.data # None
           /\ r.by # "sender" => r.meta \in {None, r.data}
           /\ landing[o.key].by = "sender" => r.by = "sender"
    <3>1. CASE n < 2
      BY <2>1, <2>4, <3>1 DEF MetadataMatches
    <3>2. CASE n >= 2 /\ o.declared
      BY <1>0, <2>1, <2>4, <3>2
    <3>3. CASE n >= 2 /\ ~o.declared
      <4>1. landing[o.key].meta = None /\ landing[o.key].by # "sender"
        BY <1>0, <2>1, <2>3, <3>3 DEF MetadataHasData, MetadataMatches
      <4>2. n = 2 \/ n = 3
        BY <2>2, <3>3
      <4>. QED
        BY <2>1, <2>4, <2>5, <3>3, <4>1, <4>2
    <3>. QED
      BY <2>2, <3>1, <3>2, <3>3
  <2>. QED
    BY <2>1, <2>6 DEF MetadataMatches
<1>. QED
  BY <1>0, <1>1, <1>2, <1>3, StepKinds DEF Same, NothingPlanned, GoesOn, Promotes

\* Under names no sender gave, what landed stays.
LEMMA BodiesStay ==
  ASSUME IInv, MetadataMatches, Next, NEW fd, ~SenderNamed(fd)'
  PROVE  ~SenderNamed(fd) /\ \A b \in Bytes : b \in LandedBodies(fd) => b \in LandedBodies(fd)'
<1>1. \A k \in Keys : landing[k].by = "sender" => landing'[k].by = "sender"
  BY SenderStep
<1>2. \A k \in Keys : k.feed = fd => landing'[k].by # "sender"
  BY DEF SenderNamed
<1>3. \A k \in Keys : landing[k].data # None /\ landing'[k].data # landing[k].data
                         => landing'[k].by = "sender"
  BY EvidenceStep
<1>4. ~SenderNamed(fd)
  BY <1>1, <1>2 DEF SenderNamed
<1>5. ASSUME NEW b \in Bytes, b \in LandedBodies(fd)
      PROVE  b \in LandedBodies(fd)'
  <2>1. PICK k \in Keys : k.feed = fd /\ landing[k].data = b
    BY <1>5 DEF LandedBodies
  <2>2. landing'[k].data = b
    BY <1>2, <1>3, <2>1, InboxAssumptions
  <2>. QED
    BY <2>1, <2>2 DEF LandedBodies
<1>. QED
  BY <1>4, <1>5

\* The file of a job whose copy has not moved stays as it was read.
LEMMA HeldStep ==
  ASSUME TypeOK, QuietIsWhole, job # None => Held(job), Next, job' # None
  PROVE  Held(job)'
<1>0. None \notin Bytes
  BY InboxAssumptions
<1>1. job # None => job \in Jobs /\ job.file \in Files /\ job.read \in Bytes
  BY DEF TypeOK, Jobs
<1>2. ASSUME NEW f \in Files, Drop(f) \/ Finish(f)
      PROVE  Held(job)'
  <2>1. job' = job
    BY <1>2 DEF Drop, Finish
  <2>2. inbox[f].bytes = None \/ ~inbox[f].whole
    BY <1>2 DEF Drop, Finish
  <2>3. \A g \in Files : g # f => inbox'[g] = inbox[g]
    BY <1>2 DEF Drop, Finish, TypeOK
  <2>4. ASSUME job.pc \in {"write", "move"}
        PROVE  inbox'[job.file] = [bytes |-> job.read, whole |-> TRUE]
    <3>1. inbox[job.file] = [bytes |-> job.read, whole |-> TRUE]
      BY <2>1, <2>4 DEF Held
    <3>2. inbox[job.file].bytes = job.read /\ inbox[job.file].whole
      BY <3>1
    <3>. QED
      BY <1>0, <1>1, <2>1, <2>2, <2>3, <3>1, <3>2
  <2>. QED
    BY <2>1, <2>4 DEF Held
<1>3. ASSUME NEW f \in Files, inbox[f].whole
      PROVE  inbox[f] = [bytes |-> Content(f), whole |-> TRUE]
  <2>1. inbox[f] \in [bytes : Bytes \union {None}, whole : BOOLEAN]
    BY DEF TypeOK
  <2>. QED
    BY <1>3, <2>1 DEF Content
<1>4. ASSUME NEW f \in Files, RejectName(f) \/ LandConformant(f)
      PROVE  Held(job)'
  <2>1. Ready(f) /\ inbox' = inbox
    BY <1>4 DEF RejectName, LandConformant
  <2>2. inbox[f].whole /\ job = None
    BY <2>1, ReadyFacts
  <2>3. \E to, keys : job' = NewJob(f, to, keys)
    BY <1>4, <2>2 DEF RejectName, LandConformant
  <2>4. job'.file = f /\ job'.read = Content(f)
    BY <2>3 DEF NewJob
  <2>. QED
    BY <1>3, <2>1, <2>2, <2>4 DEF Held
<1>5. ASSUME NEW f \in Files, Promote(f)
      PROVE  Held(job)'
  <2>1. inbox[f].whole /\ inbox' = inbox /\ job'.file = f /\ job'.read = Content(f)
    BY <1>5, PromoteFields
  <2>. QED
    BY <1>3, <2>1 DEF Held
<1>6. CASE Waiting \/ Duplicate \/ Refused \/ Write
  <2>1. inbox' = inbox /\ Kept(job', job) /\ job # None
    BY <1>6, PoppedFields, WriteFields DEF Waiting, Duplicate, Refused, Write, Outcome
  <2>. QED
    BY <2>1 DEF Held, Kept
<1>7. CASE MoveFile \/ Trigger \/ \E c \in Files : MoveSibling(c)
  <2>1. job \in Jobs /\ job'.pc = "siblings"
    BY <1>7 DEF MoveFile, Settled, Trigger, MoveSibling, TypeOK, Jobs
  <2>. QED
    BY <2>1 DEF Held
<1>. QED
  BY <1>2, <1>4, <1>5, <1>6, <1>7
  DEF Next, Watcher, StartPass, Observe, HoldControl, Next1, Idle, Ready, Stay, Crash

\* A conformant delivery is in landing until its copy moves.
LEMMA InPlaceStep ==
  ASSUME TypeOK, QuietIsWhole, job # None => InPlace(job), Next, job' # None
  PROVE  InPlace(job)'
<1>1. ASSUME NEW f \in Files, Drop(f) \/ Finish(f)
      PROVE  InPlace(job)'
  BY <1>1 DEF Drop, Finish, InPlace
<1>2. ASSUME NEW f \in Files, RejectName(f)
      PROVE  InPlace(job)'
  <2>1. job'.to = "rejected"
    BY <1>2 DEF RejectName, NewJob
  <2>. QED
    BY <2>1 DEF InPlace
<1>3. ASSUME NEW f \in Files, LandConformant(f)
      PROVE  InPlace(job)'
  <2>1. Ready(f) /\ Route(f) # None /\ Conformant(f) /\ ~DoorControl(f)
    BY <1>3 DEF LandConformant
  <2>2. job = None
    BY <2>1, ReadyFacts
  <2>3. KeyOf[f] \in Keys /\ KeyOf[f].feed = Route(f)
    BY <2>1, RoutingAssumptions
  <2>4. landing' = [landing EXCEPT ![KeyOf[f]] = Upload(f)]
        /\ \E keys : job' = NewJob(f, "processed", keys)
    BY <1>3, <2>2 DEF LandConformant
  <2>5. job'.file = f /\ job'.read = Content(f)
    BY <2>4 DEF NewJob
  <2>6. landing[KeyOf[f]] \in Landed /\ landing'[KeyOf[f]] = Upload(f)
    BY <2>3, <2>4 DEF TypeOK
  <2>7. ~IsControl(f) => landing'[KeyOf[f]].data = Content(f)
    BY <2>6 DEF Upload, Landed
  <2>. QED
    BY <2>1, <2>3, <2>5, <2>7 DEF InPlace
<1>4. ASSUME NEW f \in Files, Promote(f)
      PROVE  InPlace(job)'
  BY <1>4, PromoteFields DEF InPlace
<1>5. CASE Waiting \/ Duplicate \/ Refused \/ Write
  <2>1. Kept(job', job) /\ job.pc = "write"
    BY <1>5, PoppedFields, WriteFields
  <2>. QED
    BY <2>1 DEF InPlace, Kept
<1>6. CASE MoveFile \/ Trigger \/ \E c \in Files : MoveSibling(c)
  <2>1. job \in Jobs /\ job'.pc = "siblings"
    BY <1>6 DEF MoveFile, Settled, Trigger, MoveSibling, TypeOK, Jobs
  <2>. QED
    BY <2>1 DEF InPlace
<1>. QED
  BY <1>1, <1>2, <1>3, <1>4, <1>5, <1>6
  DEF Next, Watcher, StartPass, Observe, HoldControl, Next1, Idle, Ready, Stay, Crash

\* A plan accounts for every delivery of its file.
LEMMA PlanAccounts ==
  ASSUME IInv, MetadataMatches, NEW f \in Files, Promote(f), job' # None
  PROVE  Accounted(job)'
<1>0. TypeOK /\ QuietIsWhole
  BY DEF IInv
<1>1. /\ Route(f) # None /\ ~Conformant(f) /\ inbox[f].whole /\ landing' = landing
      /\ job'.file = f /\ job'.read = Content(f) /\ ~job'.written
  BY <1>0, PromoteFields
<1>2. PICK unread : job'.out = Plan(Route(f), f, unread)
  BY <1>0, PromoteFields
<1>. DEFINE p == Plan(Route(f), f, unread)
            owed == Owed(f, Content(f))
            fd == Route(f)
<1>3. /\ p \in Seq(Outcomes)
      /\ \A i \in 1 .. Len(p) : FollowsAt(p, i, fd, unread)
      /\ owed \subseteq {p[i].body : i \in 1 .. Len(p)}
      /\ \A i \in 1 .. Len(p) :
           /\ p[i].kind \in {"planned", "duplicate"} => p[i].body \in owed
           /\ p[i].kind = "waiting" => Len(p) = 1
  BY <1>0, <1>1, PlanFacts
<1>. HIDE DEF p, owed
<1>4. DOMAIN p = 1 .. Len(p) /\ job'.out = p
  BY <1>2, <1>3 DEF p
<1>5. ASSUME NEW i \in DOMAIN p, p[i].kind = "duplicate", ~SenderNamed(fd)
      PROVE  p[i].body \in LandedBodies(fd)
  <2>. DEFINE k == p[i].key
  <2>1. p[i] \in Outcomes
    BY <1>3, <1>4
  <2>2. k \in Keys /\ p[i].body \in Bytes
    BY <1>5, <2>1 DEF Outcomes
  <2>3. k.feed = fd /\ Md5(k, unread) = p[i].body
    BY <1>3, <1>4, <1>5 DEF FollowsAt
  <2>. HIDE DEF k
  <2>4. landing[k].by # "sender"
    BY <1>5, <2>2, <2>3 DEF SenderNamed
  <2>5. landing[k].data = p[i].body
    BY <2>2, <2>3, <2>4, InboxAssumptions DEF MetadataMatches, Md5
  <2>. QED
    BY <2>2, <2>3, <2>5 DEF LandedBodies
<1>6. LeftIsOwed(job)'
  BY <1>1, <1>3, <1>4, <1>5 DEF LeftIsOwed, SenderNamed, LandedBodies, owed
<1>7. owed \subseteq Left(job)'
  BY <1>3, <1>4 DEF Left
<1>. QED
  BY <1>1, <1>6, <1>7 DEF Accounted, owed

\* What an outcome dealt with must leave for the file to stay accounted for.
LEMMA DealtWith ==
  ASSUME IInv, MetadataMatches, Next, job # None, job' # None, Accounted(job),
         job.out # <<>>, Kept(job', job), job'.out = Tail(job.out),
         Head(job.out).kind # "waiting", NEW CONSTANT fd, fd = Route(job.file),
         (job'.to = "processed" /\ ~SenderNamed(fd)') =>
           /\ job.to = "processed"
           /\ job.lost \subseteq job'.lost
           /\ \/ Head(job.out).body \in job'.lost
              \/ Head(job.out).body \in LandedBodies(fd)'
           /\ \/ job'.written = job.written
              \/ Head(job.out).body \in LandedBodies(fd)'
                 /\ Head(job.out).kind \in {"planned", "duplicate"}
  PROVE  Accounted(job)'
<1>. DEFINE owed == Owed(job.file, job.read)
            s == job.out
            t == Tail(s)
            o == Head(s)
<1>1. job \in Jobs /\ s \in Seq(Outcomes) /\ s # <<>>
  BY DEF IInv, TypeOK, Jobs
<1>2. job'.file = job.file /\ job'.read = job.read
  BY DEF Kept
<1>3. ~SenderNamed(fd)' =>
        /\ ~SenderNamed(fd)
        /\ \A b \in Bytes : b \in LandedBodies(fd) => b \in LandedBodies(fd)'
  BY BodiesStay
<1>4. /\ Len(s) \in Nat /\ DOMAIN s = 1 .. Len(s) /\ o = s[1] /\ 1 \in DOMAIN s
      /\ Len(t) = Len(s) - 1 /\ DOMAIN t = 1 .. Len(s) - 1
      /\ \A i \in DOMAIN t : i + 1 \in DOMAIN s /\ t[i] = s[i + 1]
      /\ \A i \in DOMAIN s : i = 1 \/ i - 1 \in DOMAIN t
  <2>. HIDE DEF s
  <2>1. Len(t) = Len(s) - 1
    BY <1>1, HeadTailProperties
  <2>2. /\ Len(s) \in Nat /\ Len(s) >= 1 /\ DOMAIN s = 1 .. Len(s) /\ o = s[1]
        /\ DOMAIN t = 1 .. Len(s) - 1 /\ \A i \in 1 .. Len(s) - 1 : t[i] = s[i + 1]
    BY <1>1, TailFacts
  <2>. HIDE DEF t, o
  <2>. QED
    BY <2>1, <2>2
<1>5. \A i \in DOMAIN s : s[i] \in Outcomes /\ s[i].body \in Bytes
  <2>1. \A x \in Outcomes : x.body \in Bytes
    BY DEF Outcomes
  <2>. QED
    BY <1>1, <2>1
<1>10. job'.file = job.file /\ Route(job'.file) = fd /\ Route(job.file)' = fd
  BY <1>2
<1>6. owed \subseteq Bytes
  <2>1. job.read \in Bytes
    BY <1>1 DEF Jobs
  <2>2. \A i \in DOMAIN Members[job.read] : Members[job.read][i].body \in Bytes
    <3>1. Members[job.read] \in Seq(Packed)
      BY <2>1, InboxAssumptions
    <3>2. \A x \in Packed : x.body \in Bytes
      BY DEF Packed
    <3>. QED
      BY <3>1, <3>2
  <2>. QED
    BY <2>1, <2>2 DEF Owed, Unpacked
<1>7. /\ LeftIsOwed(job) /\ ~Conformant(job.file)
      /\ (job.to = "processed" /\ ~SenderNamed(fd)) =>
           /\ job.written => owed \intersect LandedBodies(fd) # {}
           /\ owed \subseteq LandedBodies(fd) \union job.lost \union Left(job)
  BY DEF Accounted
<1>. HIDE DEF owed, s, t, o
<1>8. LeftIsOwed(job)'
  <2>1. ASSUME NEW i \in DOMAIN t
        PROVE  /\ t[i].kind \in {"planned", "duplicate"} => t[i].body \in owed
               /\ t[i].kind = "duplicate" =>
                    SenderNamed(fd)' \/ t[i].body \in LandedBodies(fd)'
               /\ t[i].kind # "waiting"
    <3>1. i + 1 \in DOMAIN s /\ t[i] = s[i + 1] /\ Len(s) # 1
      BY <1>4
    <3>2. /\ s[i + 1].kind \in {"planned", "duplicate"} => s[i + 1].body \in owed
          /\ s[i + 1].kind = "duplicate" => SenderNamed(fd) \/ s[i + 1].body \in LandedBodies(fd)
          /\ s[i + 1].kind = "waiting" => Len(s) = 1
      BY <1>7, <3>1 DEF LeftIsOwed, s, owed
    <3>. QED
      BY <1>3, <1>5, <3>1, <3>2
  <2>. QED
    BY <1>2, <2>1 DEF LeftIsOwed, s, t, owed
<1>9. ASSUME job'.to = "processed", ~SenderNamed(fd)'
      PROVE  /\ job'.written => owed \intersect LandedBodies(fd)' # {}
             /\ owed \subseteq LandedBodies(fd)' \union job'.lost \union Left(job)'
  <2>1. /\ job.to = "processed" /\ ~SenderNamed(fd)
        /\ job.lost \subseteq job'.lost
        /\ o.body \in job'.lost \/ o.body \in LandedBodies(fd)'
        /\ \/ job'.written = job.written
           \/ o.body \in LandedBodies(fd)' /\ o.kind \in {"planned", "duplicate"}
    BY <1>3, <1>9 DEF o, s
  <2>2. job'.written => owed \intersect LandedBodies(fd)' # {}
    <3>1. CASE job'.written = job.written
      BY <1>3, <1>6, <1>7, <1>9, <2>1, <3>1
    <3>2. CASE o.body \in LandedBodies(fd)' /\ o.kind \in {"planned", "duplicate"}
      <4>1. o.body \in owed
        BY <1>4, <1>7, <3>2 DEF LeftIsOwed, s, owed
      <4>. QED
        BY <3>2, <4>1
    <3>. QED
      BY <2>1, <3>1, <3>2
  <2>3. ASSUME NEW b \in owed
        PROVE  b \in LandedBodies(fd)' \union job'.lost \union Left(job)'
    <3>1. b \in LandedBodies(fd) \union job.lost \/ \E i \in DOMAIN s : b = s[i].body
      BY <1>7, <2>1 DEF Left, s
    <3>2. ASSUME NEW i \in DOMAIN s, b = s[i].body, i # 1
          PROVE  b \in Left(job)'
      <4>1. i - 1 \in DOMAIN t /\ t[i - 1] = s[i]
        BY <1>4, <3>2
      <4>. QED
        BY <3>2, <4>1 DEF Left, s, t
    <3>. QED
      BY <1>3, <1>4, <1>6, <1>9, <2>1, <3>1, <3>2
  <2>. QED
    BY <2>2, <2>3
<1>. QED
  BY <1>2, <1>7, <1>8, <1>9 DEF Accounted, owed

LEMMA AccountedStep ==
  ASSUME IInv, MetadataMatches, Next, job # None /\ job.pc = "write" => Accounted(job),
         job' # None, job'.pc = "write"
  PROVE  Accounted(job)'
<1>0. TypeOK /\ QuietIsWhole
  BY DEF IInv
<1>1. ASSUME NEW f \in Files, Drop(f) \/ Finish(f)
      PROVE  Accounted(job)'
  BY <1>1 DEF Drop, Finish, Accounted, LeftIsOwed, Left, SenderNamed, LandedBodies
<1>2. ASSUME NEW f \in Files, RejectName(f) \/ LandConformant(f)
      PROVE  FALSE
  <2>1. job' = None \/ \E to, keys : job' = NewJob(f, to, keys)
    BY <1>0, <1>2, ReadyFacts DEF RejectName, LandConformant
  <2>. QED
    BY <2>1 DEF NewJob
<1>3. ASSUME NEW f \in Files, Promote(f)
      PROVE  Accounted(job)'
  BY <1>3, PlanAccounts
<1>4. CASE Waiting \/ Duplicate \/ Refused
  <2>1. /\ job \in Jobs /\ job.pc = "write" /\ job.out # <<>>
        /\ landing' = landing /\ Kept(job', job) /\ job'.out = Tail(job.out)
        /\ \/ Head(job.out).kind = "waiting" /\ job'.written = job.written
              /\ job'.to = job.to /\ job'.lost = job.lost
           \/ Head(job.out).kind = "duplicate" /\ job'.written
              /\ job'.to = job.to /\ job'.lost = job.lost
           \/ Head(job.out).kind = "refused" /\ job'.written = job.written
              /\ job'.to = job.to /\ job'.lost = job.lost \union {Head(job.out).body}
           \/ Head(job.out).kind = "refused" /\ job'.written = job.written
              /\ job'.to = "rejected"
    BY <1>0, <1>4, PoppedFields
  <2>2. job # None /\ Accounted(job)
    BY <1>4, <2>1 DEF Waiting, Duplicate, Refused, Outcome
  <2>3. job.out \in Seq(Outcomes) /\ 1 \in DOMAIN job.out /\ Head(job.out) = job.out[1]
    BY <2>1, ShiftFacts DEF Jobs
  <2>4. CASE Head(job.out).kind = "waiting"
    <3>1. Len(job.out) = 1 /\ ~job.written
      BY <2>2, <2>3, <2>4 DEF Accounted, LeftIsOwed
    <3>2. job'.out = <<>> /\ ~job'.written
      <4>1. Tail(job.out) \in Seq(Outcomes) /\ Len(Tail(job.out)) = 0
        BY <2>1, <2>3, <3>1, HeadTailProperties
      <4>2. Tail(job.out) = <<>>
        BY <4>1, EmptySeq
      <4>. QED
        BY <2>1, <2>4, <3>1, <4>2
    <3>3. ~Conformant(job.file) /\ job'.file = job.file
      BY <2>1, <2>2 DEF Accounted, Kept
    <3>4. DOMAIN job'.out = {}
      BY <3>2
    <3>5. LeftIsOwed(job)'
      BY <3>4 DEF LeftIsOwed
    <3>. QED
      BY <3>2, <3>3, <3>5 DEF Accounted
  <2>5. CASE Head(job.out).kind # "waiting"
    <3>0. PICK fd : fd = Route(job.file)
      OBVIOUS
    <3>1. Head(job.out).kind = "duplicate" /\ ~SenderNamed(fd) =>
            Head(job.out).body \in LandedBodies(fd)
      BY <2>2, <2>3, <3>0 DEF Accounted, LeftIsOwed
    <3>2. SenderNamed(fd)' = SenderNamed(fd) /\ LandedBodies(fd)' = LandedBodies(fd)
      BY <2>1 DEF SenderNamed, LandedBodies
    <3>3. (job'.to = "processed" /\ ~SenderNamed(fd)') =>
           /\ job.to = "processed"
           /\ job.lost \subseteq job'.lost
           /\ \/ Head(job.out).body \in job'.lost
              \/ Head(job.out).body \in LandedBodies(fd)'
           /\ \/ job'.written = job.written
              \/ Head(job.out).body \in LandedBodies(fd)'
                 /\ Head(job.out).kind \in {"planned", "duplicate"}
      BY <2>1, <2>5, <3>1, <3>2
    <3>. QED
      BY <2>1, <2>2, <2>5, <3>0, <3>3, DealtWith
  <2>. QED
    BY <2>4, <2>5
<1>5. CASE Write
  <2>. DEFINE o == Head(job.out)
  <2>0. PICK fd : fd = Route(job.file)
    OBVIOUS
  <2>1. /\ job \in Jobs /\ job.out \in Seq(Outcomes) /\ job.out # <<>>
        /\ o \in Outcomes /\ o.kind = "planned" /\ o.key \in Keys /\ o.body \in Bytes
    BY <1>0, <1>5, WriteFacts
  <2>2. /\ job.pc = "write" /\ Kept(job', job) /\ job'.out = Tail(job.out) /\ job'.to = job.to
        /\ job # None /\ Accounted(job)
    BY <1>0, <1>5, WriteFields DEF Write, Outcome
  <2>3. PICK n \in 0 .. 3 :
          /\ landing'[o.key] = Puts(o, n)
          /\ n = 3 => job'.written /\ job'.lost = job.lost
          /\ n # 3 => job'.written = job.written /\ job'.lost = job.lost \union {o.body}
    BY <1>0, <1>5, WriteFields
  <2>4. o.key.feed = fd
    <3>1. PlannedIsFree(job) /\ 1 \in DOMAIN job.out /\ o = job.out[1]
      BY <2>1, <2>2, ShiftFacts DEF IInv
    <3>. QED
      BY <2>0, <2>1, <3>1 DEF PlannedIsFree
  <2>5. PICK b, k : b = o.body /\ k = o.key
    OBVIOUS
  <2>6. n = 3 => b \in LandedBodies(fd)'
    <3>. HIDE DEF o
    <3>1. n = 3 => landing'[k].data = b
      BY <1>0, <2>1, <2>3, <2>5, PutsFacts
    <3>. QED
      BY <2>1, <2>4, <2>5, <3>1 DEF LandedBodies
  <2>7. (job'.to = "processed" /\ ~SenderNamed(fd)') =>
           /\ job.to = "processed"
           /\ job.lost \subseteq job'.lost
           /\ \/ Head(job.out).body \in job'.lost
              \/ Head(job.out).body \in LandedBodies(fd)'
           /\ \/ job'.written = job.written
              \/ Head(job.out).body \in LandedBodies(fd)'
                 /\ Head(job.out).kind \in {"planned", "duplicate"}
    BY <2>1, <2>2, <2>3, <2>5, <2>6
  <2>. QED
    BY <2>0, <2>1, <2>2, <2>7, DealtWith
<1>6. CASE MoveFile \/ Trigger \/ \E c \in Files : MoveSibling(c)
  <2>1. job \in Jobs /\ job'.pc = "siblings"
    BY <1>6 DEF MoveFile, Settled, Trigger, MoveSibling, TypeOK, Jobs, IInv
  <2>. QED
    BY <2>1
<1>. QED
  BY <1>1, <1>2, <1>3, <1>4, <1>5, <1>6
  DEF Next, Watcher, StartPass, Observe, HoldControl, Next1, Idle, Ready, Stay, Crash

\* The step that moves a copy, where no sender's name is in its feed.
MovesWhatGateNamed ==
  [][ (MoveFile /\ job.to = "processed" /\ ~IsControl(job.file)
         /\ (Conformant(job.file) \/ ~SenderNamed(Route(job.file))))
        => LET owed == Owed(job.file, Content(job.file))
               here == LandedBodies(Route(job.file))
           IN owed \ job.lost \subseteq here /\ owed \intersect here # {} ]_vars

LEMMA InitMove == Init => MoveInv
<1>. SUFFICES ASSUME Init PROVE MoveInv
  OBVIOUS
<1>1. \A k \in Keys : landing[k].by = "nobody" /\ landing[k].meta = None
  BY DEF Init, NothingLanded
<1>. QED
  BY <1>1 DEF Init, MoveInv, MetadataMatches

LEMMA StepMove == IInv /\ MoveInv /\ [Next]_vars => MoveInv'
<1>. SUFFICES ASSUME IInv, MoveInv, [Next]_vars PROVE MoveInv'
  OBVIOUS
<1>0. TypeOK /\ QuietIsWhole /\ MetadataMatches
  BY DEF IInv, MoveInv
<1>1. CASE Next
  <2>1. MetadataMatches'
    BY <1>0, <1>1, SenderStep
  <2>2. job' # None => Held(job)'
    BY <1>0, <1>1, HeldStep DEF MoveInv
  <2>3. job' # None => InPlace(job)'
    BY <1>0, <1>1, InPlaceStep DEF MoveInv
  <2>4. job' # None /\ job'.pc = "write" => Accounted(job)'
    BY <1>0, <1>1, AccountedStep DEF MoveInv
  <2>. QED
    BY <2>1, <2>2, <2>3, <2>4 DEF MoveInv
<1>2. CASE UNCHANGED vars
  BY <1>2 DEF vars, MoveInv, MetadataMatches, Held, InPlace, Accounted, LeftIsOwed, Left,
              SenderNamed, LandedBodies
<1>. QED
  BY <1>1, <1>2

\* What the invariant says of a file about to move.
LEMMA MovedAccounts ==
  ASSUME IInv, MoveInv, MoveFile, job.to = "processed", ~IsControl(job.file),
         Conformant(job.file) \/ ~SenderNamed(Route(job.file))
  PROVE  LET owed == Owed(job.file, Content(job.file))
             here == LandedBodies(Route(job.file))
         IN owed \ job.lost \subseteq here /\ owed \intersect here # {}
<1>1. job # None /\ job \in Jobs /\ job.pc \in {"write", "move"} /\ Held(job) /\ InPlace(job)
  BY DEF MoveFile, Settled, IInv, TypeOK, MoveInv
<1>2. inbox[job.file] = [bytes |-> job.read, whole |-> TRUE]
  BY <1>1 DEF Held
<1>3. Content(job.file) = job.read
  BY <1>2 DEF Content
<1>4. CASE job.pc = "move"
  <2>1. /\ Conformant(job.file) /\ KeyOf[job.file] \in Keys
        /\ KeyOf[job.file].feed = Route(job.file) /\ landing[KeyOf[job.file]].data = job.read
    BY <1>1, <1>4 DEF InPlace
  <2>2. Owed(job.file, job.read) = {job.read}
    BY <2>1 DEF Owed
  <2>3. job.read \in LandedBodies(Route(job.file))
    BY <2>1 DEF LandedBodies
  <2>. QED
    BY <1>3, <2>2, <2>3
<1>5. CASE job.pc = "write"
  <2>1. Settled /\ Accounted(job)
    BY <1>1, <1>5 DEF MoveFile, MoveInv
  <2>2. job.out = <<>> /\ job.written /\ ~SenderNamed(Route(job.file))
    BY <2>1 DEF Settled, Accounted
  <2>3. Left(job) = {}
    BY <2>2 DEF Left
  <2>4. /\ Owed(job.file, job.read) \intersect LandedBodies(Route(job.file)) # {}
        /\ Owed(job.file, job.read) \subseteq LandedBodies(Route(job.file)) \union job.lost
    BY <2>1, <2>2, <2>3 DEF Accounted
  <2>. QED
    BY <1>3, <2>4
<1>. QED
  BY <1>1, <1>4, <1>5

THEOREM MoveInvariant == Spec => []MoveInv
<1>1. Init => MoveInv
  BY InitMove
<1>2. IInv /\ MoveInv /\ [Next]_vars => MoveInv'
  BY StepMove
<1>. QED
  BY <1>1, <1>2, InboxInvariant, PTL DEF Spec

(* A file goes to .processed/ only with every delivery it holds in landing,
   whatever was resent, retried or half done before, but for members given up
   beside one that landed.  Of a promoted file it holds as long as no sender has
   named a delivery of its feed, in a landing name of its own or by a version in
   its control file; a conformant file is there whatever senders named. *)
THEOREM GateMovesWhatLanded == Spec => MovesWhatGateNamed
<1>1. IInv /\ MoveInv /\ [Next]_vars =>
        ((MoveFile /\ job.to = "processed" /\ ~IsControl(job.file)
            /\ (Conformant(job.file) \/ ~SenderNamed(Route(job.file))))
          => LET owed == Owed(job.file, Content(job.file))
                 here == LandedBodies(Route(job.file))
             IN owed \ job.lost \subseteq here /\ owed \intersect here # {})
  BY MovedAccounts
<1>. QED
  BY <1>1, InboxInvariant, MoveInvariant, PTL DEF Spec, MovesWhatGateNamed

\* Where senders name nothing, no name of a promoted feed is a sender's, and no
\* outcome is.
GateNames ==
  /\ \A g \in Files : Route(g) # None /\ ~Conformant(g) => ~SenderNamed(Route(g))
  /\ job # None => \A i \in DOMAIN job.out :
       job.out[i].kind = "planned" => ~job.out[i].declared

LEMMA GateNamesStep ==
  ASSUME SendersNameNothing, IInv, MoveInv, GateNames, Next
  PROVE  GateNames'
<1>0. TypeOK /\ QuietIsWhole
  BY DEF IInv
<1>1. ASSUME NEW g \in Files, Route(g) # None, ~Conformant(g)
      PROVE  ~SenderNamed(Route(g))'
  <2>1. \A k \in Keys : k.feed = Route(g) => landing[k].by # "sender"
    BY <1>1 DEF GateNames, SenderNamed
  <2>2. ASSUME NEW k \in Keys, k.feed = Route(g)
        PROVE  landing'[k].by # "sender"
    <3>1. CASE Write
      <4>. DEFINE o == Head(job.out)
      <4>1. /\ job \in Jobs /\ job.out \in Seq(Outcomes) /\ job.out # <<>>
            /\ o \in Outcomes /\ o.kind = "planned" /\ o.key \in Keys
            /\ \A l \in Keys : l # o.key => landing'[l] = landing[l]
        BY <1>0, <3>1, WriteFacts
      <4>2. PICK n \in 0 .. 3 : landing'[o.key] = Puts(o, n)
        BY <1>0, <3>1, WriteFacts
      <4>3. ~o.declared
        BY <3>1, <4>1, ShiftFacts DEF GateNames, Write, Outcome
      <4>4. /\ n < 2 => landing'[o.key].by = landing[o.key].by
            /\ n >= 2 => landing'[o.key].by = IF o.declared THEN "sender" ELSE job.by
        BY <1>0, <4>1, <4>2, PutsFacts
      <4>5. job.by # "sender"
        BY <4>1 DEF Jobs
      <4>. HIDE DEF o
      <4>. QED
        BY <2>1, <2>2, <4>1, <4>2, <4>3, <4>4, <4>5
    <3>2. ASSUME NEW f \in Files, LandConformant(f)
          PROVE  landing'[k].by # "sender"
      <4>1. /\ Route(f) # None /\ Conformant(f) /\ ~DoorControl(f)
            /\ landing' = landing \/ landing' = [landing EXCEPT ![KeyOf[f]] = Upload(f)]
        BY <3>2 DEF LandConformant
      <4>2. KeyOf[f] \in Keys /\ KeyOf[f].feed = Route(f)
        BY <4>1, RoutingAssumptions
      <4>3. CASE IsControl(f)
        <5>1. landing[KeyOf[f]] \in Landed
          BY <1>0, <4>2 DEF TypeOK
        <5>2. Upload(f).by = landing[KeyOf[f]].by
          BY <4>3, <5>1 DEF Upload, Landed
        <5>. QED
          BY <1>0, <2>1, <2>2, <4>1, <4>2, <5>2 DEF TypeOK
      <4>4. CASE ~IsControl(f)
        <5>1. KeyOf[f] # k
          BY <1>1, <2>2, <4>1, <4>2, <4>4 DEF SendersNameNothing
        <5>. QED
          BY <1>0, <2>1, <2>2, <4>1, <5>1 DEF TypeOK
      <4>. QED
        BY <4>3, <4>4
    <3>3. CASE landing' = landing
      BY <2>1, <2>2, <3>3
    <3>. QED
      BY <3>1, <3>2, <3>3
      DEF Next, Watcher, Drop, Finish, StartPass, Observe, RejectName, HoldControl, Promote,
          MoveSibling, Waiting, Duplicate, Refused, Stay, MoveFile, Trigger, Crash
  <2>. QED
    BY <2>2 DEF SenderNamed
<1>2. ASSUME job' # None
      PROVE  \A i \in DOMAIN job'.out : job'.out[i].kind = "planned" => ~job'.out[i].declared
  <2>1. CASE Same
    BY <1>2, <2>1 DEF Same, GateNames
  <2>2. CASE job'.out = <<>>
    BY <2>2
  <2>3. CASE GoesOn \/ Write
    <3>1. /\ job # None /\ job \in Jobs
          /\ job'.out = job.out \/ (job.out # <<>> /\ job'.out = Tail(job.out))
      BY <1>0, <2>3, WriteFacts DEF GoesOn, Write, Outcome
    <3>2. CASE job.out # <<>> /\ job'.out = Tail(job.out)
      <4>1. \A i \in DOMAIN Tail(job.out) : i + 1 \in DOMAIN job.out /\ Tail(job.out)[i] = job.out[i + 1]
        BY <3>1, <3>2, ShiftFacts DEF Jobs
      <4>. QED
        BY <3>1, <3>2, <4>1 DEF GateNames
    <3>. QED
      BY <3>1, <3>2 DEF GateNames
  <2>4. ASSUME NEW f \in Files, Promotes(f)
        PROVE  \A i \in DOMAIN job'.out : job'.out[i].kind = "planned" => ~job'.out[i].declared
    <3>1. PICK unread : job'.out = Plan(Route(f), f, unread)
      BY <2>4 DEF Promotes
    <3>. DEFINE p == Plan(Route(f), f, unread)
    <3>2. p \in Seq(Outcomes) /\ \A i \in 1 .. Len(p) : FollowsAt(p, i, Route(f), unread)
      BY <1>0, <2>4, PlanFacts DEF Promotes
    <3>3. job'.out = p
      BY <3>1
    <3>. HIDE DEF p
    <3>. QED
      BY <3>2, <3>3 DEF FollowsAt
  <2>. QED
    BY <1>0, <1>2, <2>1, <2>2, <2>3, <2>4, StepKinds DEF NothingPlanned, Landing
<1>. QED
  BY <1>1, <1>2 DEF GateNames

(* The property the run checks, where senders name nothing: no control file
   declares a version, and no feed has both landing names of its senders' and
   files that are promoted. *)
THEOREM MovedHasLanded == ASSUME SendersNameNothing PROVE Spec => MovesWhatLanded
<1>1. Init => GateNames
  <2>1. SUFFICES ASSUME Init PROVE GateNames
    OBVIOUS
  <2>2. \A k \in Keys : landing[k].by = "nobody"
    BY <2>1 DEF Init, NothingLanded
  <2>. QED
    BY <2>1, <2>2 DEF Init, GateNames, SenderNamed
<1>2. IInv /\ MoveInv /\ GateNames /\ [Next]_vars => GateNames'
  <2>1. SUFFICES ASSUME IInv, MoveInv, GateNames, [Next]_vars PROVE GateNames'
    OBVIOUS
  <2>2. CASE UNCHANGED vars
    BY <2>1, <2>2 DEF vars, GateNames, SenderNamed
  <2>. QED
    BY <2>1, <2>2, GateNamesStep
<1>3. IInv /\ MoveInv /\ GateNames /\ [Next]_vars =>
        ((MoveFile /\ job.to = "processed" /\ ~IsControl(job.file))
          => LET owed == Owed(job.file, Content(job.file))
                 here == LandedBodies(Route(job.file))
             IN owed \ job.lost \subseteq here /\ owed \intersect here # {})
  <2>1. SUFFICES ASSUME IInv, MoveInv, GateNames, MoveFile, job.to = "processed",
                        ~IsControl(job.file)
                 PROVE  LET owed == Owed(job.file, Content(job.file))
                            here == LandedBodies(Route(job.file))
                        IN owed \ job.lost \subseteq here /\ owed \intersect here # {}
    OBVIOUS
  <2>2. job \in Jobs /\ job.file \in Files
    BY <2>1 DEF MoveFile, Settled, IInv, TypeOK, Jobs
  <2>3. Conformant(job.file) \/ ~SenderNamed(Route(job.file))
    <3>1. CASE Route(job.file) # None
      BY <2>1, <2>2, <3>1 DEF GateNames
    <3>2. CASE Route(job.file) = None
      <4>1. \A k \in Keys : k.feed # None
        BY InboxAssumptions DEF Keys
      <4>. QED
        BY <3>2, <4>1 DEF SenderNamed
    <3>. QED
      BY <3>1, <3>2
  <2>. QED
    BY <2>1, <2>3, MovedAccounts
<1>. QED
  BY <1>1, <1>2, <1>3, InboxInvariant, MoveInvariant, PTL DEF Spec, MovesWhatLanded

=============================================================================
