---------------------------- MODULE Console_proofs ----------------------------
(***************************************************************************)
(* Proofs about Console, for any feeds, conventions and chains of them,    *)
(* any keys and defaults, any names of control files, any number of        *)
(* threads and any budget of forms, edits by hand and faults: what a saved *)
(* form serves, when a save leaves feeds() answering, and which models may *)
(* be without their source.                                                *)
(***************************************************************************)
EXTENDS Console, WellFoundedInduction, TLAPS

-----------------------------------------------------------------------------
(* Resolution, of conventions g and of a file. *)

EffectiveIn(g, c) ==
  [k \in Keys |->
     LET links == {i \in DOMAIN Chain(c) : g[Chain(c)[i]][k] # Absent}
     IN IF links = {} THEN Defaults[k]
        ELSE g[Chain(c)[CHOOSE i \in links : \A n \in links : i <= n]][k]]

MergedIn(g, file) ==
  [k \in Keys |->
     Resolve(IF file.set[k] # Absent THEN file.set[k]
             ELSE IF EffectiveIn(g, file.conv)[k] # Absent THEN EffectiveIn(g, file.conv)[k]
             ELSE IF k \in Scalars THEN BuiltIn[k] ELSE Empty)]

Named == Conventions \union {Empty}

\* What a file may set: a value for each key, or nothing.
Written == {s \in Settings : \A k \in Keys : s[k] \in Writable(k) \union {Absent}}
FeedFiles == [conv : Named, set : Written, hand : BOOLEAN]
Unset == [k \in Keys |-> Absent]

\* A set of natural numbers has a least element.
LEMMA LeastNatural ==
  ASSUME NEW T \in SUBSET Nat, T # {}
  PROVE  \E m \in T : \A k \in T : m <= k
<1>1. IsWellFoundedOn(OpToRel(<, Nat), Nat)
  BY NatLessThanWellFounded
<1>2. PICK x \in T : \A y \in T : ~ (<<y, x>> \in OpToRel(<, Nat))
  BY <1>1, WFMin
<1>3. \A y \in T : ~(y < x)
  BY <1>2 DEF OpToRel
<1>. QED
  BY <1>3

LEMMA LinksAreConventions ==
  ASSUME NEW c \in Named
  PROVE  /\ DOMAIN Chain(c) \in SUBSET Nat
         /\ \A i \in DOMAIN Chain(c) : Chain(c)[i] \in Conventions
<1>1. Chain(c) \in Seq(Conventions)
  BY ChainsEnd DEF Named
<1>. QED
  BY <1>1

\* What the model resolves is what these operators do.
LEMMA ResolvedNow ==
  /\ \A c : Effective(c) = EffectiveIn(given, c)
  /\ \A file : Merged(file) = MergedIn(given, file)
<1>1. \A c : Effective(c) = EffectiveIn(given, c)
  BY DEF Effective, EffectiveIn
<1>. QED
  BY <1>1 DEF Merged, MergedIn

LEMMA ResolvedNext ==
  /\ \A c : Effective(c)' = EffectiveIn(given', c)
  /\ \A file : Merged(file)' = MergedIn(given', file)
<1>1. \A c : Effective(c)' = EffectiveIn(given', c)
  BY DEF Effective, EffectiveIn
<1>. QED
  BY <1>1 DEF Merged, MergedIn

\* A convention gives a key one of its values, or nothing.
LEMMA EffectiveType ==
  ASSUME NEW g \in [Conventions -> Written], NEW c \in Named, NEW k \in Keys
  PROVE  EffectiveIn(g, c)[k] \in Writable(k) \union {Absent}
<1>. DEFINE links == {i \in DOMAIN Chain(c) : g[Chain(c)[i]][k] # Absent}
            first == CHOOSE i \in links : \A n \in links : i <= n
<1>1. \A i \in DOMAIN Chain(c) : g[Chain(c)[i]][k] \in Writable(k) \union {Absent}
  BY LinksAreConventions DEF Written
<1>2. links \in SUBSET Nat
  BY LinksAreConventions
<1>3. links # {} => first \in links
  BY <1>2, LeastNatural
<1>4. EffectiveIn(g, c)[k] = IF links = {} THEN Defaults[k] ELSE g[Chain(c)[first]][k]
  BY DEF EffectiveIn
<1>. QED
  BY <1>1, <1>3, <1>4, RegistryAssumptions

\* The resolver leaves one of the choices of the key, and leaves a choice alone.
LEMMA ResolveType ==
  ASSUME NEW k \in Keys, NEW v \in Writable(k)
  PROVE  /\ Resolve(v) \in Choices(k)
         /\ v \in Choices(k) => Resolve(v) = v
<1>1. /\ Terse \intersect (Values \union Suffixes \union {Empty}) = {}
      /\ \A x \in Terse : Spelled[x] \in Suffixes
  BY RegistryAssumptions
<1>. QED
  BY <1>1 DEF Resolve, Writable, Choices

LEMMA ChoicesAreWritable ==
  ASSUME NEW k \in Keys
  PROVE  Choices(k) \subseteq Writable(k) /\ Absent \notin Choices(k)
BY RegistryAssumptions DEF Choices, Writable

LEMMA MergedType ==
  ASSUME NEW g \in [Conventions -> Written], NEW file \in FeedFiles, NEW k \in Keys
  PROVE  MergedIn(g, file)[k] \in Choices(k)
<1>1. EffectiveIn(g, file.conv)[k] \in Writable(k) \union {Absent}
  BY EffectiveType DEF FeedFiles
<1>2. file.set[k] \in Writable(k) \union {Absent}
  BY DEF FeedFiles, Written
<1>3. k \in Scalars => BuiltIn[k] \in Writable(k)
  BY RegistryAssumptions DEF Writable
<1>4. k \notin Scalars => Empty \in Writable(k)
  BY DEF Writable
<1>. QED
  BY <1>1, <1>2, <1>3, <1>4, ResolveType DEF MergedIn

-----------------------------------------------------------------------------
(* Types. *)

Documents == {"sources", "tests", "models"}
Labels == {"none", "away", "open", "valid", "merged", "saved", "remove"} \union Documents

\* Registries as they are served, whole or in part.
Resolved == [Keys -> Values \union Suffixes \union {Empty}]
Registries == UNION {[S -> Resolved] : S \in SUBSET Feeds}

\* A form as it was filled, and what a request without one works on.
Filled == [feed : Feeds, create : BOOLEAN, conv : Named, vals : Fillings,
           others : Registries, text : {Absent} \union FeedFiles \union SUBSET Feeds]
Plain == [feed : Feeds, text : {Absent} \union SUBSET Feeds]

FormType(t) ==
  /\ pc[t] \in {"open", "valid", "merged", "saved"} => form[t] \in Filled
  /\ pc[t] \in {"merged", "saved"} => form[t].text \in FeedFiles
  /\ pc[t] \in Documents => /\ form[t] \in Filled \union Plain
                            /\ form[t].text \in {Absent} \union SUBSET Feeds
  /\ pc[t] = "remove" => form[t] \in Plain

RegistryType ==
  /\ files \in [Feeds -> FeedFiles \union {Absent}]
  /\ given \in [Conventions -> Written]
  /\ dbt \in [Documents -> SUBSET Feeds]
  /\ form \in [Threads -> Filled \union Plain \union {NoForm}]
  /\ pc \in [Threads -> Labels]
  /\ \A t \in Threads : FormType(t)
  /\ owed \subseteq Feeds

JobType ==
  /\ alive \in [Builds -> SUBSET {"leader", "rest"}]
  /\ attached \subseteq Builds /\ timer \subseteq Builds /\ branch \subseteq Builds

LEMMA FilledFields ==
  ASSUME NEW r \in Filled
  PROVE  /\ r.feed \in Feeds /\ r.create \in BOOLEAN /\ r.conv \in Named
         /\ r.vals \in Fillings /\ r.others \in Registries
BY DEF Filled

LEMMA SetText ==
  ASSUME NEW r \in Filled \union Plain, NEW x \in {Absent} \union SUBSET Feeds,
         NEW s, s = [r EXCEPT !.text = x]
  PROVE  s \in Filled \union Plain /\ s.feed = r.feed /\ s.text = x /\ s.feed \in Feeds
<1>1. CASE r \in Filled
  BY <1>1 DEF Filled
<1>2. CASE r \in Plain
  BY <1>2 DEF Plain
<1>. QED
  BY <1>1, <1>2

LEMMA NextStage ==
  /\ Stages[1] = "sources"
  /\ Next_("sources") = "models" /\ Next_("models") = "tests" /\ Next_("tests") = "none"
<1>1. DOMAIN Stages = 1..3 /\ Len(Stages) = 3
  BY DEF Stages
<1>2. Stages[1] = "sources" /\ Stages[2] = "models" /\ Stages[3] = "tests"
  BY DEF Stages
<1>3. \A n \in 1..3 : n = 1 \/ n = 2 \/ n = 3
  OBVIOUS
<1>4. /\ (CHOOSE n \in DOMAIN Stages : Stages[n] = "sources") = 1
      /\ (CHOOSE n \in DOMAIN Stages : Stages[n] = "models") = 2
      /\ (CHOOSE n \in DOMAIN Stages : Stages[n] = "tests") = 3
  <2>. DEFINE P(s, n) == Stages[n] = s
  <2>1. \A n \in DOMAIN Stages : Stages[n] = "sources" => n = 1
    BY <1>1, <1>2, <1>3
  <2>2. \A n \in DOMAIN Stages : Stages[n] = "models" => n = 2
    BY <1>1, <1>2, <1>3
  <2>3. \A n \in DOMAIN Stages : Stages[n] = "tests" => n = 3
    BY <1>1, <1>2, <1>3
  <2>. QED
    BY <1>1, <1>2, <2>1, <2>2, <2>3
<1>. QED
  BY <1>1, <1>2, <1>4 DEF Next_

\* A thread that is done has nothing more to be typed.
LEMMA DoneType ==
  ASSUME RegistryType, NEW t \in Threads, Done(t)
  PROVE  /\ form' \in [Threads -> Filled \union Plain \union {NoForm}]
         /\ pc' \in [Threads -> Labels]
         /\ \A u \in Threads : FormType(u)'
<1>1. pc'[t] = "none"
  BY DEF Done, Goto, RegistryType
<1>2. FormType(t)'
  BY <1>1 DEF FormType, Documents
<1>3. \A u \in Threads : u # t => pc'[u] = pc[u] /\ form'[u] = form[u]
  BY DEF Done, Goto, RegistryType
<1>4. \A u \in Threads : u # t => FormType(u)'
  BY <1>3 DEF FormType, RegistryType
<1>. QED
  BY <1>2, <1>4 DEF Done, Goto, RegistryType, Labels

\* One that goes on leaves the others where they were.
LEMMA GoType ==
  ASSUME RegistryType, NEW t \in Threads, NEW label \in Labels, NEW r,
         r \in Filled \union Plain,
         form' = [form EXCEPT ![t] = r],
         pc' = [pc EXCEPT ![t] = label],
         label \in {"open", "valid", "merged", "saved"} => r \in Filled,
         label \in {"merged", "saved"} => r.text \in FeedFiles,
         label \in Documents => r.text \in {Absent} \union SUBSET Feeds,
         label = "remove" => r \in Plain
  PROVE  /\ form' \in [Threads -> Filled \union Plain \union {NoForm}]
         /\ pc' \in [Threads -> Labels]
         /\ \A u \in Threads : FormType(u)'
<1>1. pc'[t] = label /\ form'[t] = r
  BY DEF RegistryType
<1>2. FormType(t)'
  BY <1>1 DEF FormType
<1>3. \A u \in Threads : u # t => pc'[u] = pc[u] /\ form'[u] = form[u]
  BY DEF RegistryType
<1>4. \A u \in Threads : u # t => FormType(u)'
  BY <1>3 DEF FormType, RegistryType
<1>. QED
  BY <1>2, <1>4 DEF RegistryType

LEMMA ProceedType ==
  ASSUME RegistryType, NEW t \in Threads, pc[t] \in Documents, Proceed(t, pc[t])
  PROVE  /\ form' \in [Threads -> Filled \union Plain \union {NoForm}]
         /\ pc' \in [Threads -> Labels]
         /\ \A u \in Threads : FormType(u)'
<1>1. CASE Next_(pc[t]) = "none"
  BY <1>1, DoneType DEF Proceed
<1>2. CASE Next_(pc[t]) # "none"
  <2>. DEFINE r == [form[t] EXCEPT !.text = Absent]
  <2>1. form[t] \in Filled \union Plain
    BY DEF RegistryType, FormType
  <2>2. r \in Filled \union Plain /\ r.text = Absent
    BY <2>1, SetText
  <2>3. form' = [form EXCEPT ![t] = r] /\ pc' = [pc EXCEPT ![t] = Next_(pc[t])]
    BY <1>2 DEF Proceed, Goto
  <2>4. Next_(pc[t]) \in {"models", "tests"}
    BY <1>2, NextStage DEF Documents
  <2>. HIDE DEF r
  <2>. QED
    BY <2>2, <2>3, <2>4, GoType DEF Labels, Documents
<1>. QED
  BY <1>1, <1>2

LEMMA OpenFormType ==
  ASSUME RegistryType, NEW t \in Threads, NEW f \in Feeds, NEW c \in Named,
         NEW vals \in Fillings, OpenForm(t, f, c, vals)
  PROVE  RegistryType'
<1>. DEFINE r == [feed |-> f, create |-> f \notin Registered, conv |-> c, vals |-> vals,
                  others |-> [g \in {} |-> Empty], text |-> Absent]
<1>1. r \in Filled
  <2>1. [g \in {} |-> Empty] \in Registries
    <3>1. [g \in {} |-> Empty] \in [{} -> Resolved] /\ {} \in SUBSET Feeds
      OBVIOUS
    <3>. QED
      BY <3>1 DEF Registries
  <2>. QED
    BY <2>1 DEF Filled
<1>2. form' = [form EXCEPT ![t] = r] /\ pc' = [pc EXCEPT ![t] = "open"]
  BY DEF OpenForm, Goto
<1>3. UNCHANGED <<files, given, owed, dbt>>
  BY DEF OpenForm, tree, project
<1>. HIDE DEF r
<1>4. r \in Filled \union Plain /\ "open" \in Labels /\ "open" \notin Documents
  BY <1>1 DEF Labels, Documents
<1>. QED
  BY <1>1, <1>2, <1>3, <1>4, GoType DEF RegistryType

\* The other feeds as they are served.
LEMMA OthersType ==
  ASSUME RegistryType, NEW f
  PROVE  Others(f) \in Registries
<1>. DEFINE S == Registered \ {f}
<1>1. S \in SUBSET Feeds
  BY DEF Registered
<1>2. \A g \in S : Served(g) \in Resolved
  <2>. SUFFICES ASSUME NEW g \in S PROVE Served(g) \in Resolved
    OBVIOUS
  <2>1. files[g] \in FeedFiles
    BY DEF Registered, RegistryType
  <2>2. Served(g) = MergedIn(given, files[g])
    BY ResolvedNow DEF Served
  <2>3. \A k \in Keys : MergedIn(given, files[g])[k] \in Choices(k)
    BY <2>1, MergedType DEF RegistryType
  <2>4. \A k \in Keys : Choices(k) \subseteq Values \union Suffixes \union {Empty}
    BY DEF Choices
  <2>5. MergedIn(given, files[g]) = [k \in Keys |-> MergedIn(given, files[g])[k]]
    BY DEF MergedIn
  <2>. QED
    BY <2>2, <2>3, <2>4, <2>5 DEF Resolved
<1>3. Others(f) \in [S -> Resolved]
  BY <1>2 DEF Others
<1>. HIDE DEF S
<1>. QED
  BY <1>1, <1>3 DEF Registries

LEMMA SetOthers ==
  ASSUME NEW r \in Filled, NEW x \in Registries, NEW s, s = [r EXCEPT !.others = x]
  PROVE  /\ s \in Filled /\ s.others = x
         /\ s.feed = r.feed /\ s.create = r.create /\ s.conv = r.conv
         /\ s.vals = r.vals /\ s.text = r.text
BY DEF Filled

LEMMA SubmitType ==
  ASSUME RegistryType, NEW t \in Threads, Submit(t)
  PROVE  RegistryType'
<1>1. UNCHANGED <<files, given, owed, dbt>>
  BY DEF Submit, tree, project
<1>2. CASE Loads /\ Valid(t)
  <2>. DEFINE r == [form[t] EXCEPT !.others = Others(FeedOf(t))]
  <2>1. pc' = [pc EXCEPT ![t] = "valid"] /\ form' = [form EXCEPT ![t] = r]
    BY <1>2 DEF Submit, Goto, RegistryType
  <2>2. form[t] \in Filled
    BY DEF Submit, RegistryType, FormType
  <2>3. "valid" \in Labels /\ "valid" \notin Documents
    BY DEF Labels, Documents
  <2>4. r \in Filled
    BY <2>2, OthersType, SetOthers
  <2>. HIDE DEF r
  <2>. QED
    BY <1>1, <2>1, <2>3, <2>4, GoType DEF RegistryType
<1>3. CASE ~(Loads /\ Valid(t))
  BY <1>1, <1>3, DoneType DEF Submit, RegistryType
<1>. QED
  BY <1>2, <1>3

\* What a merge writes is a file of the registry.
LEMMA BlockWritten ==
  ASSUME NEW c, NEW vals \in Fillings
  PROVE  Block(c, vals) \in Written
<1>1. \A k \in Keys : vals[k] \in Choices(k)
  BY DEF Fillings
<1>2. \A k \in Keys : Choices(k) \subseteq Values \union Suffixes \union {Empty}
  BY DEF Choices
<1>3. \A k \in Keys : Choices(k) \subseteq Writable(k)
  BY ChoicesAreWritable
<1>. QED
  BY <1>1, <1>2, <1>3 DEF Block, Written, Settings

LEMMA RewrittenFields ==
  ASSUME NEW old \in FeedFiles, NEW c \in Named, NEW new \in Written
  PROVE  /\ Rewritten(old, c, new) = [conv |-> c, set |-> new, hand |-> old.hand]
         /\ Rewritten(old, c, new) \in FeedFiles
<1>. DEFINE w == [old EXCEPT !.conv = c, !.set = new]
<1>1. w \in FeedFiles
  BY DEF FeedFiles
<1>2. w.conv = c /\ w.set = new /\ w.hand = old.hand
  BY DEF FeedFiles
<1>3. w = [conv |-> w.conv, set |-> w.set, hand |-> w.hand]
  <2>. HIDE DEF w
  <2>. QED
    BY <1>1 DEF FeedFiles
<1>. QED
  BY <1>1, <1>2, <1>3 DEF Rewritten

\* The text a merge leaves: the form's own values over the file it replaces.
MergedText(t) ==
  [conv |-> form[t].conv, set |-> Block(form[t].conv, form[t].vals),
   hand |-> IF form[t].create THEN FALSE ELSE files[form[t].feed].hand]

LEMMA MergeStep ==
  ASSUME RegistryType, NEW t \in Threads, Merge(t), ~ Done(t)
  PROVE  /\ form[t] \in Filled
         /\ form[t].create <=> files[form[t].feed] = Absent
         /\ MergedText(t) \in FeedFiles
         /\ form' = [form EXCEPT ![t].text = MergedText(t)]
         /\ pc' = [pc EXCEPT ![t] = "merged"]
<1>1. form[t] \in Filled
  BY DEF Merge, RegistryType, FormType
<1>2. form[t].create <=> files[form[t].feed] = Absent
  BY <1>1, FilledFields DEF Merge, FeedOf
<1>3. Block(form[t].conv, form[t].vals) \in Written
  BY <1>1, FilledFields, BlockWritten
<1>4. ~form[t].create => files[form[t].feed] \in FeedFiles
  BY <1>1, <1>2, FilledFields DEF RegistryType
<1>5. MergedText(t) \in FeedFiles
  BY <1>1, <1>3, <1>4, FilledFields DEF MergedText, FeedFiles
<1>6. IF form[t].create
      THEN form' = [form EXCEPT ![t].text = [conv |-> form[t].conv,
                     set |-> Block(form[t].conv, form[t].vals), hand |-> FALSE]]
      ELSE form' = [form EXCEPT ![t].text = Rewritten(files[form[t].feed],
                     form[t].conv, Block(form[t].conv, form[t].vals))]
  BY <1>2 DEF Merge, FeedOf
<1>7. form' = [form EXCEPT ![t].text = MergedText(t)]
  <2>1. CASE form[t].create
    BY <1>6, <2>1 DEF MergedText
  <2>2. CASE ~form[t].create
    <3>1. Rewritten(files[form[t].feed], form[t].conv, Block(form[t].conv, form[t].vals))
            = MergedText(t)
      BY <1>1, <1>3, <1>4, <2>2, FilledFields, RewrittenFields DEF MergedText
    <3>. QED
      BY <1>6, <2>2, <3>1
  <2>. QED
    BY <2>1, <2>2
<1>. QED
  BY <1>1, <1>2, <1>5, <1>7 DEF Merge, Goto, FeedOf

LEMMA SetFile ==
  ASSUME NEW r \in Filled, NEW x \in FeedFiles, NEW s, s = [r EXCEPT !.text = x]
  PROVE  /\ s \in Filled /\ s.text = x
         /\ s.feed = r.feed /\ s.create = r.create /\ s.conv = r.conv
         /\ s.vals = r.vals /\ s.others = r.others
BY DEF Filled

LEMMA MergeType ==
  ASSUME RegistryType, NEW t \in Threads, Merge(t)
  PROVE  RegistryType'
<1>1. UNCHANGED <<files, given, owed, dbt>>
  BY DEF Merge, tree, project
<1>2. CASE Done(t)
  BY <1>1, <1>2, DoneType DEF RegistryType
<1>3. CASE ~Done(t)
  <2>. DEFINE r == [form[t] EXCEPT !.text = MergedText(t)]
  <2>1. form[t] \in Filled /\ MergedText(t) \in FeedFiles
    BY <1>3, MergeStep
  <2>2. r \in Filled /\ r.text \in FeedFiles
    BY <2>1, SetFile
  <2>3. form' = [form EXCEPT ![t] = r] /\ pc' = [pc EXCEPT ![t] = "merged"]
    BY <1>3, MergeStep
  <2>4. "merged" \in Labels /\ "merged" \notin Documents
    BY DEF Labels, Documents
  <2>. HIDE DEF r
  <2>. QED
    BY <1>1, <2>2, <2>3, <2>4, GoType DEF RegistryType
<1>. QED
  BY <1>2, <1>3

LEMMA WriteType ==
  ASSUME RegistryType, NEW t \in Threads, Write(t)
  PROVE  RegistryType'
<1>1. form[t] \in Filled /\ form[t].text \in FeedFiles
  BY DEF Write, RegistryType, FormType
<1>2. files' = [files EXCEPT ![form[t].feed] = form[t].text] /\ UNCHANGED <<given, dbt>>
  BY DEF Write, FeedOf, project
<1>3. files' \in [Feeds -> FeedFiles \union {Absent}]
  BY <1>1, <1>2 DEF RegistryType
<1>4. owed' \subseteq Feeds
  BY DEF Write, project, RegistryType
<1>5. pc' = [pc EXCEPT ![t] = "saved"] /\ form' = [form EXCEPT ![t] = form[t]]
  BY DEF Write, Goto, RegistryType
<1>6. "saved" \in Labels /\ "saved" \notin Documents
  BY DEF Labels, Documents
<1>. QED
  BY <1>1, <1>2, <1>3, <1>4, <1>5, <1>6, GoType DEF RegistryType

LEMMA AnswerType ==
  ASSUME RegistryType, NEW t \in Threads, Answer(t)
  PROVE  RegistryType'
<1>1. UNCHANGED <<files, given, owed, dbt>>
  BY DEF Answer, tree, project
<1>2. CASE form[t].create /\ Loads
  <2>. DEFINE r == [form[t] EXCEPT !.text = Absent]
  <2>1. form[t] \in Filled \union Plain
    BY DEF Answer, RegistryType, FormType
  <2>2. r \in Filled \union Plain /\ r.text = Absent
    BY <2>1, SetText
  <2>3. form' = [form EXCEPT ![t] = r] /\ pc' = [pc EXCEPT ![t] = "sources"]
    BY <1>2, NextStage DEF Answer, Goto
  <2>. HIDE DEF r
  <2>. QED
    BY <1>1, <2>2, <2>3, GoType DEF RegistryType, Labels, Documents
<1>3. CASE ~(form[t].create /\ Loads)
  BY <1>1, <1>3, DoneType DEF Answer, RegistryType
<1>. QED
  BY <1>2, <1>3

LEMMA ReadDocumentType ==
  ASSUME RegistryType, NEW t \in Threads, ReadDocument(t)
  PROVE  RegistryType'
<1>1. UNCHANGED <<files, given, owed, dbt>> /\ pc[t] \in Documents
  BY DEF ReadDocument, tree, project, Documents
<1>2. CASE FeedOf(t) \in dbt[pc[t]]
  BY <1>1, <1>2, ProceedType DEF ReadDocument, RegistryType
<1>3. CASE FeedOf(t) \notin dbt[pc[t]]
  <2>. DEFINE r == [form[t] EXCEPT !.text = dbt[pc[t]]]
  <2>1. form[t] \in Filled \union Plain /\ dbt[pc[t]] \in SUBSET Feeds
    BY <1>1 DEF RegistryType, FormType
  <2>2. r \in Filled \union Plain /\ r.text \in SUBSET Feeds
    <3>1. \A x \in SUBSET Feeds : LET s == [form[t] EXCEPT !.text = x]
                                  IN s \in Filled \union Plain /\ s.text = x
      BY <2>1, SetText
    <3>. QED
      BY <2>1, <3>1
  <2>3. form' = [form EXCEPT ![t] = r] /\ pc' = [pc EXCEPT ![t] = pc[t]]
    BY <1>3 DEF ReadDocument, RegistryType
  <2>4. pc[t] \in Labels /\ pc[t] \notin {"open", "valid", "merged", "saved", "remove"}
    BY <1>1 DEF Labels, Documents
  <2>. HIDE DEF r
  <2>. QED
    BY <1>1, <2>2, <2>3, <2>4, GoType DEF RegistryType
<1>. QED
  BY <1>2, <1>3

\* A document is written with what its reader saw, and the feed.
LEMMA WriteDocumentType ==
  ASSUME RegistryType, NEW t \in Threads, WriteDocument(t)
  PROVE  RegistryType'
<1>1. UNCHANGED <<files, given>> /\ pc[t] \in Documents /\ "sources" \in Documents
  BY DEF WriteDocument, tree, project, Documents
<1>2. form[t].feed \in Feeds /\ form[t].text \in SUBSET Feeds
  <2>1. form[t] \in Filled \union Plain /\ form[t].text \in {Absent} \union SUBSET Feeds
    BY <1>1 DEF RegistryType, FormType
  <2>. QED
    BY <2>1 DEF WriteDocument, Filled, Plain
<1>3. dbt' \in [Documents -> SUBSET Feeds] /\ owed' \subseteq Feeds
  BY <1>1, <1>2 DEF WriteDocument, FeedOf, RegistryType
<1>. QED
  BY <1>1, <1>3, ProceedType DEF WriteDocument, RegistryType

LEMMA WriteModelType ==
  ASSUME RegistryType, NEW t \in Threads, WriteModel(t)
  PROVE  RegistryType'
<1>1. UNCHANGED <<files, given, owed>> /\ pc[t] \in Documents /\ "models" \in Documents
  BY DEF WriteModel, tree, project, Documents
<1>2. form[t].feed \in Feeds
  BY <1>1 DEF RegistryType, FormType, Filled, Plain
<1>3. dbt' \in [Documents -> SUBSET Feeds]
  BY <1>1, <1>2 DEF WriteModel, FeedOf, RegistryType
<1>4. Proceed(t, pc[t])
  BY DEF WriteModel
<1>. QED
  BY <1>1, <1>3, <1>4, ProceedType DEF RegistryType

LEMMA StepFailsType ==
  ASSUME RegistryType, NEW t \in Threads, StepFails(t)
  PROVE  RegistryType'
<1>1. UNCHANGED <<files, given, dbt>> /\ pc[t] \in Documents
  BY RegistryAssumptions DEF StepFails, tree, project, Documents
<1>2. form[t].feed \in Feeds
  BY <1>1 DEF RegistryType, FormType, Filled, Plain
<1>3. owed' \subseteq Feeds
  BY <1>2 DEF StepFails, FeedOf, RegistryType
<1>. QED
  BY <1>1, <1>3, ProceedType DEF StepFails, RegistryType

LEMMA PlainType ==
  ASSUME RegistryType, NEW t \in Threads, NEW f \in Feeds, NEW label \in {"sources", "remove"},
         form' = [form EXCEPT ![t] = [feed |-> f, text |-> Absent]],
         pc' = [pc EXCEPT ![t] = label]
  PROVE  /\ form' \in [Threads -> Filled \union Plain \union {NoForm}]
         /\ pc' \in [Threads -> Labels]
         /\ \A u \in Threads : FormType(u)'
<1>. DEFINE r == [feed |-> f, text |-> Absent]
<1>1. r \in Plain /\ r.text = Absent
  BY DEF Plain
<1>2. form' = [form EXCEPT ![t] = r]
  OBVIOUS
<1>3. label \in Labels /\ label \notin {"open", "valid", "merged", "saved"}
  BY DEF Labels, Documents
<1>. HIDE DEF r
<1>. QED
  BY <1>1, <1>2, <1>3, GoType

LEMMA RescaffoldType ==
  ASSUME RegistryType, NEW t \in Threads, NEW f \in Feeds, Rescaffold(t, f)
  PROVE  RegistryType'
BY PlainType, NextStage DEF Rescaffold, Goto, tree, project, RegistryType

LEMMA DeleteType ==
  ASSUME RegistryType, NEW t \in Threads, NEW f \in Feeds, NEW scaffoldToo \in BOOLEAN,
         Delete(t, f, scaffoldToo)
  PROVE  RegistryType'
<1>1. dbt' \in [Documents -> SUBSET Feeds]
  BY DEF Delete, RegistryType, Documents
<1>. QED
  BY <1>1, PlainType DEF Delete, Goto, tree, project, RegistryType

LEMMA RemoveType ==
  ASSUME RegistryType, NEW t \in Threads, Remove(t)
  PROVE  RegistryType'
<1>1. form[t].feed \in Feeds
  BY DEF Remove, RegistryType, FormType, Plain
<1>2. files' \in [Feeds -> FeedFiles \union {Absent}]
  BY <1>1 DEF Remove, FeedOf, RegistryType
<1>. QED
  BY <1>2, DoneType DEF Remove, project, RegistryType

LEMMA EditConventionType ==
  ASSUME RegistryType, NEW c \in Conventions, NEW k \in ByHand,
         NEW v \in Writable(k) \union {Absent}, EditConvention(c, k, v)
  PROVE  RegistryType'
<1>1. k \in Keys
  BY RegistryAssumptions
<1>2. given[c] \in Written
  BY DEF RegistryType
<1>3. [given[c] EXCEPT ![k] = v] \in Written
  BY <1>1, <1>2 DEF Written, Settings, Writable, Keys
<1>4. given' \in [Conventions -> Written]
  BY <1>3 DEF EditConvention, RegistryType
<1>. QED
  BY <1>1, <1>4 DEF EditConvention, Hand, project, RegistryType, FormType

LEMMA EditFileType ==
  ASSUME RegistryType, NEW f \in Feeds, NEW k \in Scalars, NEW v \in Values,
         EditFile(f, k, v)
  PROVE  /\ RegistryType'
         /\ files[f] \in FeedFiles
         /\ files' = [files EXCEPT ![f] =
                        [conv |-> files[f].conv, set |-> [files[f].set EXCEPT ![k] = v],
                         hand |-> TRUE]]
<1>1. k \in Keys /\ v \in Writable(k)
  BY DEF Keys, Writable
<1>2. files[f] \in FeedFiles
  BY DEF EditFile, Registered, RegistryType
<1>. DEFINE w == [files[f] EXCEPT !.set[k] = v, !.hand = TRUE]
            x == [conv |-> files[f].conv, set |-> [files[f].set EXCEPT ![k] = v], hand |-> TRUE]
<1>3. [files[f].set EXCEPT ![k] = v] \in Written
  BY <1>1, <1>2 DEF FeedFiles, Written, Settings, Writable
<1>4. w = x
  <2>1. w \in FeedFiles
    BY <1>2, <1>3 DEF FeedFiles
  <2>2. w.conv = x.conv /\ w.set = x.set /\ w.hand = x.hand
    BY <1>2 DEF FeedFiles
  <2>3. x \in FeedFiles
    BY <1>2, <1>3 DEF FeedFiles
  <2>4. \A r \in FeedFiles : r = [conv |-> r.conv, set |-> r.set, hand |-> r.hand]
    BY DEF FeedFiles
  <2>. HIDE DEF w, x
  <2>. QED
    BY <2>1, <2>2, <2>3, <2>4
<1>5. files' = [files EXCEPT ![f].set[k] = v, ![f].hand = TRUE]
  BY DEF EditFile
<1>6. files' = [files EXCEPT ![f] = x]
  <2>1. \A g \in Feeds : files'[g] = IF g = f THEN w ELSE files[g]
    BY <1>5 DEF RegistryType
  <2>2. files' = [g \in Feeds |-> files'[g]]
    BY <1>5 DEF RegistryType
  <2>. HIDE DEF w, x
  <2>. QED
    BY <1>4, <2>1, <2>2 DEF RegistryType
<1>7. x \in FeedFiles
  BY <1>2, <1>3 DEF FeedFiles
<1>8. files' \in [Feeds -> FeedFiles \union {Absent}]
  BY <1>6, <1>7 DEF RegistryType
<1>9. RegistryType'
  BY <1>8 DEF EditFile, Hand, project, RegistryType, FormType
<1>. QED
  BY <1>2, <1>6, <1>9

LEMMA RestartType ==
  ASSUME RegistryType, ConsoleRestarts
  PROVE  RegistryType' /\ \A t \in Threads : pc'[t] \in {"none", "away"}
<1>1. /\ pc' = [t \in Threads |-> IF pc[t] = "away" THEN "away" ELSE "none"]
      /\ form' = [t \in Threads |-> NoForm]
  BY DEF ConsoleRestarts
<1>2. \A t \in Threads : FormType(t)'
  BY <1>1 DEF FormType, Documents
<1>. QED
  BY <1>1, <1>2 DEF ConsoleRestarts, tree, project, RegistryType, Labels

LEMMA JobTypeKept ==
  ASSUME JobType, [Next]_vars
  PROVE  JobType'
<1>1. CASE UNCHANGED jobVars
  BY <1>1 DEF jobVars, JobType
<1>2. CASE ConsoleRestarts
  BY <1>2 DEF ConsoleRestarts, Killed, JobType
<1>3. ASSUME NEW j \in Builds, Work(j) \/ Ask_(j) \/ BuildExits(j)
      PROVE  JobType'
  <2>1. CASE Thread(j)
    BY <2>1 DEF Thread, Register, OpenBranch, OpenBranchFails, Spawn, Attach, OutputEnds,
                DeleteBranch, DeleteBranchFails, BuildFailed, JobType
  <2>2. CASE Deadline(j)
    BY <2>2 DEF Deadline, JobType
  <2>3. ASSUME NEW why \in Stoppers, Terminate(j, why) \/ Kill(j, why)
        PROVE  JobType'
    BY <2>3 DEF Terminate, Kill, JobType
  <2>4. CASE TestFeed(j) \/ Cancel(j)
    BY <2>4 DEF TestFeed, Ask, Cancel, JobType
  <2>5. CASE BuildExits(j)
    BY <2>5 DEF BuildExits, Exit, JobType
  <2>. QED
    BY <1>3, <2>1, <2>2, <2>3, <2>4, <2>5 DEF Work, Ask_, Stopper
<1>. QED
  BY <1>1, <1>2, <1>3 DEF Next, vars

\* Every step is a request's, a person's, a restart, or leaves the registry.
LEMMA Steps ==
  ASSUME [Next]_vars
  PROVE  \/ \E t \in Threads : Request(t)
         \/ People
         \/ ConsoleRestarts
         \/ UNCHANGED registryVars
BY DEF Next, Requests, Work, Ask_, TestFeed, BuildExits, vars

LEMMA RequestType ==
  ASSUME RegistryType, NEW t \in Threads, Request(t)
  PROVE  RegistryType'
BY OpenFormType, SubmitType, MergeType, WriteType, AnswerType, ReadDocumentType,
   WriteDocumentType, WriteModelType, StepFailsType, RescaffoldType, DeleteType,
   RemoveType DEF Request, Named

LEMMA RegistryTypeKept ==
  ASSUME RegistryType, [Next]_vars
  PROVE  RegistryType'
<1>1. CASE \E t \in Threads : Request(t)
  BY <1>1, RequestType
<1>2. CASE People
  BY <1>2, EditConventionType, EditFileType DEF People
<1>3. CASE ConsoleRestarts
  BY <1>3, RestartType
<1>4. CASE UNCHANGED registryVars
  BY <1>4 DEF registryVars, RegistryType, FormType
<1>. QED
  BY <1>1, <1>2, <1>3, <1>4, Steps

LEMMA InitTypes == Init => RegistryType /\ JobType
<1>. SUFFICES ASSUME Init PROVE RegistryType /\ JobType
  OBVIOUS
<1>1. [k \in Keys |-> Absent] \in Written
  BY DEF Written, Settings
<1>2. \A t \in Threads : FormType(t)
  BY DEF Init, RegistryInit, FormType, Documents
<1>. QED
  BY <1>1, <1>2 DEF Init, RegistryInit, JobsInit, RegistryType, JobType, Labels, Documents

\* The registry and the jobs keep their types, in every behaviour.
THEOREM ConsoleTypes == Spec => [](RegistryType /\ JobType)
<1>1. (RegistryType /\ JobType) /\ [Next]_vars => (RegistryType /\ JobType)'
  BY RegistryTypeKept, JobTypeKept
<1>. QED
  BY <1>1, InitTypes, PTL DEF Spec

-----------------------------------------------------------------------------
LEMMA ServedNow ==
  \A f : Served(f) = MergedIn(given, files[f])
BY ResolvedNow DEF Served

LEMMA ServedNext ==
  \A f : Served(f)' = MergedIn(given', files'[f])
BY DEF Served, Merged, MergedIn, Effective, EffectiveIn

\* A feed's file and a convention are of their types, and every registered
\* feed has one of its choices for every key: the loader's merge leaves
\* nothing unresolved.
THEOREM TypeCorrect == Spec => []TypeOK
<1>1. RegistryType /\ JobType => TypeOK
  <2>. SUFFICES ASSUME RegistryType, JobType PROVE TypeOK
    OBVIOUS
  <2>1. \A f \in Registered : files[f] \in FeedFiles
    BY DEF Registered, RegistryType
  <2>2. \A f \in Registered, k \in Keys : Served(f)[k] \in Choices(k)
    BY <2>1, ServedNow, MergedType DEF RegistryType
  <2>3. given \in [Conventions -> Settings]
    BY DEF RegistryType, Written
  <2>. QED
    BY <2>1, <2>2, <2>3 DEF TypeOK, RegistryType, JobType, FeedFiles, Written, Named, Documents
<1>. QED
  BY <1>1, ConsoleTypes, PTL

-----------------------------------------------------------------------------
(* Steps of the requests.                                                  *)

\* What a request's step leaves to the other threads.
LEMMA OthersStay ==
  ASSUME RegistryType, NEW t \in Threads, Request(t), NEW u \in Threads, u # t
  PROVE  pc'[u] = pc[u] /\ form'[u] = form[u]
BY DEF Request, OpenForm, Submit, Merge, Write, Answer, ReadDocument, WriteDocument, WriteModel,
       StepFails, Rescaffold, Delete, Remove, Proceed, Done, Goto, RegistryType

\* Where a request's step leaves a thread that is not filling a form.
LEMMA StepsAfterSave ==
  ASSUME RegistryType, NEW t \in Threads,
         \/ Answer(t) \/ ReadDocument(t) \/ WriteDocument(t) \/ WriteModel(t) \/ StepFails(t)
         \/ (\E f \in Feeds : Rescaffold(t, f))
         \/ (\E f \in Feeds, scaffoldToo \in BOOLEAN : Delete(t, f, scaffoldToo))
  PROVE  /\ pc'[t] \in Documents \union {"none", "remove"}
         /\ UNCHANGED <<files, given>>
<1>1. UNCHANGED <<files, given>>
  BY DEF Answer, ReadDocument, WriteDocument, WriteModel, StepFails, Rescaffold, Delete, tree
<1>2. ASSUME Done(t)
      PROVE  pc'[t] = "none"
  BY <1>2 DEF Done, Goto, RegistryType
<1>3. ASSUME pc[t] \in Documents, Proceed(t, pc[t])
      PROVE  pc'[t] \in Documents \union {"none"}
  <2>1. Next_(pc[t]) \in Documents \union {"none"}
    BY <1>3, NextStage DEF Documents
  <2>. QED
    BY <1>2, <1>3, <2>1 DEF Proceed, Goto, RegistryType
<1>4. CASE Answer(t)
  BY <1>1, <1>2, <1>4, NextStage DEF Answer, Goto, RegistryType, Documents
<1>5. CASE ReadDocument(t)
  BY <1>1, <1>3, <1>5 DEF ReadDocument, Documents
<1>6. CASE WriteDocument(t)
  BY <1>1, <1>3, <1>6 DEF WriteDocument, Documents
<1>7. CASE WriteModel(t)
  <2>1. pc[t] = "models" /\ pc[t] \in Documents /\ Proceed(t, pc[t])
    BY <1>7 DEF WriteModel, Documents
  <2>. QED
    BY <1>1, <1>3, <2>1
<1>8. CASE StepFails(t)
  BY <1>1, <1>3, <1>8, RegistryAssumptions DEF StepFails, Documents
<1>9. ASSUME NEW f \in Feeds, Rescaffold(t, f)
      PROVE  pc'[t] \in Documents
  BY <1>9, NextStage DEF Rescaffold, Goto, RegistryType, Documents
<1>10. ASSUME NEW f \in Feeds, NEW scaffoldToo \in BOOLEAN, Delete(t, f, scaffoldToo)
       PROVE  pc'[t] = "remove"
  BY <1>10 DEF Delete, Goto, RegistryType
<1>. QED
  BY <1>1, <1>4, <1>5, <1>6, <1>7, <1>8, <1>9, <1>10

LEMMA SubmitStep ==
  ASSUME RegistryType, NEW t \in Threads, Submit(t)
  PROVE  /\ UNCHANGED <<files, given>>
         /\ \/ /\ pc'[t] = "valid" /\ Loads /\ Valid(t)
               /\ form'[t] = [form[t] EXCEPT !.others = Others(FeedOf(t))]
            \/ pc'[t] = "none"
BY DEF Submit, Done, Goto, tree, RegistryType

-----------------------------------------------------------------------------
(* What a saved form serves.                                               *)

\* What a convention gives a feed whose file sets nothing.
Base(g, c) ==
  [k \in Keys |-> Resolve(IF EffectiveIn(g, c)[k] # Absent THEN EffectiveIn(g, c)[k]
                          ELSE IF k \in Scalars THEN BuiltIn[k] ELSE Empty)]

LEMMA MergedOverBase ==
  ASSUME NEW g, NEW file, NEW k \in Keys
  PROVE  MergedIn(g, file)[k] = IF file.set[k] # Absent THEN Resolve(file.set[k])
                                ELSE Base(g, file.conv)[k]
BY DEF MergedIn, Base

\* A block leaves a key out only where the convention gives the form's value.
LEMMA BlockServes ==
  ASSUME NEW c \in Named, NEW vals \in Fillings, NEW k \in Keys
  PROVE  /\ Block(c, vals)[k] \in {Absent, vals[k]}
         /\ Block(c, vals)[k] = Absent =>
              Base(given, c)[k] = vals[k] \/ (k \in Blocks /\ vals[k] = Empty)
         /\ Resolve(vals[k]) = vals[k]
<1>1. Inherited(c)[k] = IF EffectiveIn(given, c)[k] # Absent THEN EffectiveIn(given, c)[k]
                        ELSE IF k \in Scalars THEN BuiltIn[k] ELSE Absent
  BY ResolvedNow DEF Inherited
<1>2. vals[k] \in Choices(k) /\ vals[k] \in Writable(k) /\ vals[k] # Absent
  BY ChoicesAreWritable DEF Fillings
<1>3. Resolve(vals[k]) = vals[k]
  BY <1>2, ResolveType
<1>4. /\ Block(c, vals)[k] \in {Absent, vals[k]}
      /\ Block(c, vals)[k] = Absent =>
           vals[k] = Inherited(c)[k] \/ (k \in Blocks /\ vals[k] = Empty)
  BY <1>2 DEF Block
<1>5. ASSUME vals[k] = Inherited(c)[k]
      PROVE  Base(given, c)[k] = Resolve(vals[k])
  BY <1>1, <1>2, <1>5 DEF Base
<1>. QED
  BY <1>3, <1>4, <1>5

\* The text a form writes resolves to the form's values, except for a gate
\* that the form leaves out.
TextServes(t) ==
  pc[t] = "merged" =>
    /\ form[t].text.conv = form[t].conv
    /\ \A k \in Keys :
         /\ form[t].text.set[k] \in {Absent, form[t].vals[k]}
         /\ \/ MergedIn(given, form[t].text)[k] = form[t].vals[k]
            \/ k \in Blocks /\ form[t].vals[k] = Empty
\* Nobody deletes the feed of a form that is open.
NoneDeletedUnderForm ==
  \A t, u \in Threads :
    pc[t] = "remove" /\ pc[u] \in {"open", "valid", "merged"} =>
      form[t].feed # form[u].feed

KeptByHand(x) == IF x = Absent THEN FALSE ELSE x.hand

\* It keeps what is written of its feed by hand.
TextKeepsHand(t) ==
  pc[t] = "merged" => form[t].text.hand = KeptByHand(files[form[t].feed])

\* How a thread comes to be about to write, or stays there.
LEMMA ToMerged ==
  ASSUME RegistryType, [Next]_vars, NEW t \in Threads, pc'[t] = "merged"
  PROVE  \/ Merge(t) /\ ~Done(t)
         \/ /\ pc[t] = "merged" /\ form'[t] = form[t] /\ given' = given
            /\ \/ files' = files
               \/ \E u \in Threads : u # t /\ (Write(u) \/ Remove(u))
<1>1. ASSUME NEW u \in Threads, Request(u), u # t
      PROVE  /\ pc[t] = "merged" /\ form'[t] = form[t] /\ given' = given
             /\ files' = files \/ Write(u) \/ Remove(u)
  <2>1. pc[t] = "merged" /\ form'[t] = form[t]
    BY <1>1, OthersStay
  <2>2. given' = given /\ (files' = files \/ Write(u) \/ Remove(u))
    BY <1>1 DEF Request, OpenForm, Submit, Merge, Write, Answer, ReadDocument, WriteDocument,
                WriteModel, StepFails, Rescaffold, Delete, Remove, tree
  <2>. QED
    BY <2>1, <2>2
<1>2. ASSUME Request(t)
      PROVE  Merge(t) /\ ~Done(t)
  <2>1. ASSUME Done(t)
        PROVE  FALSE
    BY <2>1 DEF Done, Goto, RegistryType
  <2>2. ~Submit(t)
    BY SubmitStep, <2>1
  <2>3. ~Write(t)
    BY DEF Write, Goto, RegistryType
  <2>4. ~Remove(t)
    BY <2>1 DEF Remove
  <2>5. ~(\E f \in Feeds, c \in Conventions \union {Empty}, vals \in Posted \intersect Fillings :
            OpenForm(t, f, c, vals))
    BY DEF OpenForm, Goto, RegistryType
  <2>6. ~(\/ Answer(t) \/ ReadDocument(t) \/ WriteDocument(t) \/ WriteModel(t) \/ StepFails(t)
          \/ (\E f \in Feeds : Rescaffold(t, f))
          \/ (\E f \in Feeds, scaffoldToo \in BOOLEAN : Delete(t, f, scaffoldToo)))
    BY StepsAfterSave DEF Documents
  <2>. QED
    BY <1>2, <2>1, <2>2, <2>3, <2>4, <2>5, <2>6 DEF Request
<1>3. CASE People
  BY <1>3 DEF People, EditConvention, EditFile, Hand
<1>4. CASE ConsoleRestarts
  BY <1>4, RestartType
<1>5. CASE UNCHANGED registryVars
  BY <1>5 DEF registryVars
<1>. QED
  BY <1>1, <1>2, <1>3, <1>4, <1>5, Steps

LEMMA TextServesKept ==
  ASSUME RegistryType, [Next]_vars, NEW t \in Threads, TextServes(t)
  PROVE  TextServes(t)'
<1>. SUFFICES ASSUME pc'[t] = "merged"
              PROVE  /\ form'[t].text.conv = form'[t].conv
                     /\ \A k \in Keys :
                          /\ form'[t].text.set[k] \in {Absent, form'[t].vals[k]}
                          /\ \/ MergedIn(given', form'[t].text)[k] = form'[t].vals[k]
                             \/ k \in Blocks /\ form'[t].vals[k] = Empty
  BY DEF TextServes, MergedIn, EffectiveIn
<1>1. CASE Merge(t) /\ ~Done(t)
  <2>. DEFINE new == Block(form[t].conv, form[t].vals)
  <2>1. /\ form[t] \in Filled /\ MergedText(t) \in FeedFiles
        /\ form'[t] = [form[t] EXCEPT !.text = MergedText(t)]
    BY <1>1, MergeStep DEF RegistryType
  <2>2. /\ form'[t].text = MergedText(t) /\ form'[t].conv = form[t].conv
        /\ form'[t].vals = form[t].vals /\ form[t].conv \in Named /\ form[t].vals \in Fillings
    BY <2>1, SetFile, FilledFields
  <2>3. MergedText(t).set = new /\ MergedText(t).conv = form[t].conv
    BY DEF MergedText
  <2>4. given' = given
    BY <1>1 DEF Merge, tree
  <2>5. ASSUME NEW k \in Keys
        PROVE  /\ new[k] \in {Absent, form[t].vals[k]}
               /\ \/ MergedIn(given, MergedText(t))[k] = form[t].vals[k]
                  \/ k \in Blocks /\ form[t].vals[k] = Empty
    <3>1. MergedIn(given, MergedText(t))[k] = IF new[k] # Absent THEN Resolve(new[k])
                                              ELSE Base(given, form[t].conv)[k]
      BY <2>3, MergedOverBase
    <3>2. /\ new[k] \in {Absent, form[t].vals[k]}
          /\ new[k] = Absent => \/ Base(given, form[t].conv)[k] = form[t].vals[k]
                                \/ k \in Blocks /\ form[t].vals[k] = Empty
          /\ Resolve(form[t].vals[k]) = form[t].vals[k]
      BY <2>2, BlockServes
    <3>. HIDE DEF new
    <3>. QED
      BY <3>1, <3>2
  <2>. HIDE DEF new
  <2>. QED
    BY <2>2, <2>3, <2>4, <2>5
<1>2. CASE pc[t] = "merged" /\ form'[t] = form[t] /\ given' = given
  BY <1>2 DEF TextServes
<1>. QED
  BY <1>1, <1>2, ToMerged

LEMMA TextKeepsHandKept ==
  ASSUME RegistryType, [Next]_vars, NoneDeletedUnderForm,
         \A u \in Threads : TextKeepsHand(u), NEW t \in Threads
  PROVE  TextKeepsHand(t)'
<1>. SUFFICES ASSUME pc'[t] = "merged"
              PROVE  form'[t].text.hand = KeptByHand(files'[form'[t].feed])
  BY DEF TextKeepsHand, KeptByHand
<1>1. CASE Merge(t) /\ ~Done(t)
  <2>1. /\ form[t] \in Filled /\ MergedText(t) \in FeedFiles
        /\ form[t].create <=> files[form[t].feed] = Absent
        /\ form'[t] = [form[t] EXCEPT !.text = MergedText(t)]
    BY <1>1, MergeStep DEF RegistryType
  <2>2. form'[t].text = MergedText(t) /\ form'[t].feed = form[t].feed
    BY <2>1, SetFile
  <2>3. files' = files
    BY <1>1 DEF Merge, tree
  <2>4. MergedText(t).hand = KeptByHand(files[form[t].feed])
    <3>1. CASE form[t].create
      BY <2>1, <3>1 DEF MergedText, KeptByHand
    <3>2. CASE ~form[t].create
      BY <2>1, <3>2 DEF MergedText, KeptByHand
    <3>. QED
      BY <3>1, <3>2
  <2>. QED
    BY <2>2, <2>3, <2>4
<1>2. CASE pc[t] = "merged" /\ form'[t] = form[t] /\ files' = files
  BY <1>2 DEF TextKeepsHand
<1>3. ASSUME NEW u \in Threads, u # t, pc[t] = "merged", form'[t] = form[t],
             Write(u) \/ Remove(u)
      PROVE  form'[t].text.hand = KeptByHand(files'[form'[t].feed])
  <2>. DEFINE f == form[t].feed
              g == form[u].feed
  <2>1. f \in Feeds
    BY <1>3, FilledFields DEF RegistryType, FormType
  <2>2. CASE Write(u)
    <3>1. g \in Feeds /\ form[u].text \in FeedFiles /\ pc[u] = "merged"
      BY <2>2, FilledFields DEF Write, RegistryType, FormType
    <3>2. files' = [files EXCEPT ![g] = form[u].text]
      BY <2>2 DEF Write, FeedOf
    <3>3. form[u].text # Absent
      BY <3>1, RegistryAssumptions DEF FeedFiles, Files, Written, Named
    <3>4. CASE f = g
      <4>1. files'[f] = form[u].text
        BY <2>1, <3>2, <3>4 DEF RegistryType
      <4>. QED
        BY <1>3, <3>1, <3>3, <3>4, <4>1 DEF TextKeepsHand, KeptByHand
    <3>5. CASE f # g
      <4>1. files'[f] = files[f]
        BY <2>1, <3>1, <3>2, <3>5 DEF RegistryType
      <4>. QED
        BY <1>3, <4>1 DEF TextKeepsHand
    <3>. QED
      BY <3>4, <3>5
  <2>3. CASE Remove(u)
    <3>1. pc[u] = "remove" /\ g \in Feeds /\ g # f
      BY <1>3, <2>3 DEF Remove, NoneDeletedUnderForm, RegistryType, FormType, Plain
    <3>2. files' = [files EXCEPT ![g] = Absent]
      BY <2>3 DEF Remove, FeedOf
    <3>3. files'[f] = files[f]
      BY <2>1, <3>1, <3>2 DEF RegistryType
    <3>. QED
      BY <1>3, <3>3 DEF TextKeepsHand
  <2>. QED
    BY <1>3, <2>2, <2>3
<1>. QED
  BY <1>1, <1>2, <1>3, ToMerged

\* Only the form's own write saves it.
LEMMA SavedByWrite ==
  ASSUME RegistryType, [Next]_vars, NEW t \in Threads, pc[t] = "merged", pc'[t] = "saved"
  PROVE  Write(t)
<1>1. ASSUME NEW u \in Threads, Request(u)
      PROVE  Write(t)
  <2>1. u = t
    BY <1>1, OthersStay
  <2>2. ~Done(t)
    BY DEF Done, Goto, RegistryType
  <2>. QED
    BY <1>1, <2>1, <2>2, RegistryAssumptions
       DEF Request, OpenForm, Idle, Submit, Merge, Answer, ReadDocument, WriteDocument,
           WriteModel, StepFails, Rescaffold, Delete, Remove
<1>2. CASE People
  BY <1>2 DEF People, EditConvention, EditFile, Hand
<1>3. CASE ConsoleRestarts
  BY <1>3, RestartType
<1>4. CASE UNCHANGED registryVars
  BY <1>4 DEF registryVars
<1>. QED
  BY <1>1, <1>2, <1>3, <1>4, Steps

\* What a write leaves in the file.
LEMMA WriteServes ==
  ASSUME RegistryType, NEW t \in Threads, Write(t)
  PROVE  /\ files'[form[t].feed] = form[t].text
         /\ Served(FeedOf(t))' = MergedIn(given, form[t].text)
<1>. DEFINE f == form[t].feed
<1>1. form[t].feed \in Feeds
  BY FilledFields DEF Write, RegistryType, FormType
<1>2. files'[form[t].feed] = form[t].text /\ given' = given /\ form' = form
  BY <1>1 DEF Write, FeedOf, RegistryType
<1>3. Served(FeedOf(t))' = MergedIn(given', files'[form'[t].feed])
  BY DEF FeedOf, Served, Merged, MergedIn, Effective, EffectiveIn
<1>. QED
  BY <1>2, <1>3

\* What a form sets is what the feed serves once it is saved, whatever the
\* conventions say and whoever works beside it: only a gate the form leaves
\* out may still come from a convention.
FormServed ==
  [][\A t \in Threads : pc[t] = "merged" /\ pc'[t] = "saved" =>
       /\ files'[FeedOf(t)].conv = form[t].conv
       /\ \A k \in Keys : \/ Served(FeedOf(t))'[k] = form[t].vals[k]
                          \/ k \in Blocks /\ form[t].vals[k] = Empty]_vars

\* A saved form is served (registry.add and registry.update, then the
\* resolution of the file), whatever other threads and people do.
THEOREM FormIsServed == Spec => FormServed
<1>. DEFINE TextInv == \A t \in Threads : TextServes(t)
            Kept == \A t \in Threads : pc[t] = "merged" /\ pc'[t] = "saved" =>
                      /\ files'[FeedOf(t)].conv = form[t].conv
                      /\ \A k \in Keys : \/ Served(FeedOf(t))'[k] = form[t].vals[k]
                                         \/ k \in Blocks /\ form[t].vals[k] = Empty
<1>1. Init => TextInv
  BY DEF Init, RegistryInit, TextServes
<1>2. RegistryType /\ TextInv /\ [Next]_vars => TextInv'
  BY TextServesKept
<1>3. RegistryType /\ TextInv /\ [Next]_vars => Kept
  <2>. SUFFICES ASSUME RegistryType, TextInv, [Next]_vars, NEW t \in Threads,
                       pc[t] = "merged", pc'[t] = "saved"
                PROVE  /\ files'[FeedOf(t)].conv = form[t].conv
                       /\ \A k \in Keys : \/ Served(FeedOf(t))'[k] = form[t].vals[k]
                                          \/ k \in Blocks /\ form[t].vals[k] = Empty
    OBVIOUS
  <2>1. Write(t)
    BY SavedByWrite
  <2>2. /\ files'[form[t].feed] = form[t].text
        /\ Served(FeedOf(t))' = MergedIn(given, form[t].text)
    BY <2>1, WriteServes
  <2>. QED
    BY <2>2 DEF TextServes, FeedOf
<1>4. Spec => []RegistryType
  BY ConsoleTypes, PTL
<1>5. RegistryType /\ TextInv /\ [Next]_vars => [Kept]_vars
  BY <1>3
<1>. HIDE DEF TextInv, Kept
<1>6. Spec => [][Kept]_vars
  BY <1>1, <1>2, <1>4, <1>5, PTL DEF Spec
<1>. QED
  BY <1>6 DEF FormServed, Kept


\* What a form said is what the feed serves once it is saved, and what was
\* tuned by hand outside the form is still there (registry.add and
\* registry.update): for any number of threads, as long as nobody deletes the
\* feed of a form that is open.
THEOREM SavedFormIsServed == Spec /\ []NoneDeletedUnderForm => SavedIsServed
<1>. DEFINE HandInv == \A t \in Threads : TextKeepsHand(t)
            TextInv == \A t \in Threads : TextServes(t)
            Kept == \A t \in Threads : pc[t] = "merged" /\ pc'[t] = "saved" =>
                      LET f == FeedOf(t)
                      IN /\ files'[f].conv = form[t].conv
                         /\ \A k \in Keys : \/ Served(f)'[k] = form[t].vals[k]
                                            \/ k \in Blocks /\ form[t].vals[k] = Empty
                         /\ files[f] # Absent => files'[f].hand = files[f].hand
<1>1. Init => TextInv /\ HandInv
  BY DEF Init, RegistryInit, TextServes, TextKeepsHand
<1>2. RegistryType /\ TextInv /\ [Next]_vars => TextInv'
  BY TextServesKept
<1>3. RegistryType /\ HandInv /\ NoneDeletedUnderForm /\ [Next]_vars => HandInv'
  BY TextKeepsHandKept
<1>4. RegistryType /\ TextInv /\ HandInv /\ [Next]_vars => Kept
  <2>. SUFFICES ASSUME RegistryType, TextInv, HandInv, [Next]_vars,
                       NEW t \in Threads, pc[t] = "merged", pc'[t] = "saved"
                PROVE  /\ files'[FeedOf(t)].conv = form[t].conv
                       /\ \A k \in Keys : \/ Served(FeedOf(t))'[k] = form[t].vals[k]
                                          \/ k \in Blocks /\ form[t].vals[k] = Empty
                       /\ files[FeedOf(t)] # Absent =>
                            files'[FeedOf(t)].hand = files[FeedOf(t)].hand
    OBVIOUS
  <2>1. Write(t)
    BY SavedByWrite
  <2>2. /\ files'[form[t].feed] = form[t].text
        /\ Served(FeedOf(t))' = MergedIn(given, form[t].text)
    BY <2>1, WriteServes
  <2>. QED
    BY <2>2 DEF TextServes, TextKeepsHand, KeptByHand, FeedOf
<1>5. Spec => []RegistryType
  BY ConsoleTypes, PTL
<1>6. RegistryType /\ TextInv /\ HandInv /\ [Next]_vars => [Kept]_vars
  BY <1>4
<1>. HIDE DEF TextInv, HandInv, Kept
<1>7. Spec /\ []NoneDeletedUnderForm => [][Kept]_vars
  BY <1>1, <1>2, <1>3, <1>5, <1>6, PTL DEF Spec
<1>. QED
  BY <1>7 DEF SavedIsServed, Kept

-----------------------------------------------------------------------------
(* When a save leaves feeds() answering.                                   *)

\* The loader takes a registry: gates are whole, and every probe has one
\* claimant.
Fits(reg) ==
  /\ \A f \in DOMAIN reg : Coherent(reg[f])
  /\ Distinguishable(reg)

Present(fs) == {f \in Feeds : fs[f] # Absent}
Reg(g, fs) == [f \in Present(fs) |-> MergedIn(g, fs[f])]

LEMMA LoadsNow == Loads <=> Fits(Reg(given, files))
<1>1. Registered = Present(files)
  BY DEF Registered, Present
<1>2. [f \in Registered |-> Served(f)] = Reg(given, files)
  BY <1>1, ServedNow DEF Reg
<1>3. \A f \in Registered : Served(f) = Reg(given, files)[f]
  BY <1>1, ServedNow DEF Reg
<1>4. DOMAIN Reg(given, files) = Registered
  BY <1>1 DEF Reg
<1>. QED
  BY <1>2, <1>3, <1>4 DEF Loads, Fits

LEMMA LoadsNext == Loads' <=> Fits(Reg(given', files'))
<1>1. [f \in Registered |-> Served(f)]' = Reg(given', files')
  BY ServedNext DEF Registered, Reg, Present
<1>2. \A f \in Registered' : Served(f)' = Reg(given', files')[f]
  BY ServedNext DEF Registered, Reg, Present
<1>3. DOMAIN Reg(given', files') = Registered'
  BY DEF Registered, Reg, Present
<1>4. Loads' <=> /\ \A f \in Registered' : Coherent(Served(f)')
                 /\ Distinguishable([f \in Registered |-> Served(f)]')
  BY DEF Loads, Coherent, Distinguishable
<1>. QED
  BY <1>1, <1>2, <1>3, <1>4 DEF Fits

\* Only the gates count, and fewer feeds fit where more did.
LEMMA FitsFewer ==
  ASSUME NEW reg, NEW less, Fits(reg), DOMAIN less \subseteq DOMAIN reg,
         \A f \in DOMAIN less, k \in Blocks : less[f][k] = reg[f][k]
  PROVE  Fits(less)
<1>1. \A f \in DOMAIN less : Suffixed(less[f]) = Suffixed(reg[f])
  BY DEF Suffixed
<1>2. \A f \in DOMAIN less : Coherent(less[f])
  BY RegistryAssumptions DEF Fits, Coherent
<1>3. \A f \in DOMAIN less : \A s, x : Claims(f, less[f], s, x) <=> Claims(f, reg[f], s, x)
  BY <1>1 DEF Claims
<1>4. Distinguishable(less)
  BY <1>1, <1>3 DEF Fits, Distinguishable
<1>. QED
  BY <1>2, <1>4 DEF Fits


\* The registry that a form was checked in, with the form's feed in it.
CheckedReg(r) ==
  [g \in DOMAIN r.others \union {r.feed} |-> IF g = r.feed THEN r.vals ELSE r.others[g]]

\* A form past its check fits the registry it was checked in.
CheckedForm(t) == pc[t] \in {"valid", "merged"} => Fits(CheckedReg(form[t]))

\* The check of a form is the loader's, of the registry with the form in it.
LEMMA SubmitChecks ==
  ASSUME RegistryType, NEW t \in Threads, Submit(t), pc'[t] = "valid"
  PROVE  Fits(CheckedReg(form'[t]))
<1>. DEFINE f == form[t].feed
            reg == CheckedReg(form'[t])
<1>1. /\ Loads /\ Valid(t)
      /\ form'[t] = [form[t] EXCEPT !.others = Others(f)]
  BY SubmitStep DEF FeedOf
<1>2. form[t] \in Filled
  BY DEF Submit, RegistryType, FormType
<1>3. /\ form'[t].others = Others(f) /\ form'[t].feed = f
      /\ form'[t].vals = form[t].vals
  BY <1>1, <1>2, OthersType, SetOthers
<1>4. DOMAIN Others(f) = Registered \ {f} /\ \A g \in Registered \ {f} : Others(f)[g] = Served(g)
  BY DEF Others
<1>5. reg = AsFeed(t)
  BY <1>3, <1>4 DEF CheckedReg, AsFeed, FeedOf
<1>6. Distinguishable(reg)
  BY <1>1, <1>5 DEF Valid
<1>7. ASSUME NEW g \in DOMAIN reg
      PROVE  Coherent(reg[g])
  <2>1. g \in Registered \union {f} /\ reg[g] = IF g = f THEN form[t].vals ELSE Served(g)
    BY <1>5, <1>7 DEF AsFeed, FeedOf
  <2>. HIDE DEF reg, f
  <2>2. Coherent(form[t].vals) /\ \A x \in Registered : Coherent(Served(x))
    BY <1>1 DEF Valid, Loads
  <2>. QED
    BY <2>1, <2>2
<1>. HIDE DEF reg
<1>8. Fits(reg)
  BY <1>6, <1>7 DEF Fits
<1>. QED
  BY <1>8 DEF reg

\* How a thread comes to be checked, or stays so.
LEMMA ToChecked ==
  ASSUME RegistryType, [Next]_vars, NEW t \in Threads, pc'[t] \in {"valid", "merged"}
  PROVE  \/ Submit(t) /\ pc'[t] = "valid"
         \/ Merge(t) /\ ~Done(t)
         \/ pc[t] \in {"valid", "merged"} /\ form'[t] = form[t]
<1>1. CASE pc'[t] = "merged"
  BY <1>1, ToMerged
<1>2. ASSUME pc'[t] = "valid", NEW u \in Threads, Request(u)
      PROVE  \/ Submit(t)
             \/ pc[t] = "valid" /\ form'[t] = form[t]
  <2>1. CASE u # t
    BY <1>2, <2>1, OthersStay
  <2>2. CASE u = t
    <3>1. ~Done(t)
      BY <1>2 DEF Done, Goto, RegistryType
    <3>2. ~Merge(t)
      BY <1>2, <3>1, MergeStep DEF RegistryType
    <3>3. ~Write(t)
      BY <1>2 DEF Write, Goto, RegistryType
    <3>4. ~Remove(t)
      BY <3>1 DEF Remove
    <3>5. ~(\E f \in Feeds, c \in Conventions \union {Empty}, vals \in Posted \intersect Fillings :
              OpenForm(t, f, c, vals))
      BY <1>2 DEF OpenForm, Goto, RegistryType
    <3>6. ~(\/ Answer(t) \/ ReadDocument(t) \/ WriteDocument(t) \/ WriteModel(t) \/ StepFails(t)
            \/ (\E f \in Feeds : Rescaffold(t, f))
            \/ (\E f \in Feeds, scaffoldToo \in BOOLEAN : Delete(t, f, scaffoldToo)))
      BY <1>2, StepsAfterSave DEF Documents
    <3>. QED
      BY <1>2, <2>2, <3>2, <3>3, <3>4, <3>5, <3>6 DEF Request
  <2>. QED
    BY <2>1, <2>2
<1>3. CASE People
  BY <1>3 DEF People, EditConvention, EditFile, Hand
<1>4. CASE ConsoleRestarts
  BY <1>4, RestartType
<1>5. CASE UNCHANGED registryVars
  BY <1>5 DEF registryVars
<1>. QED
  BY <1>1, <1>2, <1>3, <1>4, <1>5, Steps

LEMMA CheckedKept ==
  ASSUME RegistryType, [Next]_vars, NEW t \in Threads, CheckedForm(t)
  PROVE  CheckedForm(t)'
<1>. SUFFICES ASSUME pc'[t] \in {"valid", "merged"}
              PROVE  Fits(CheckedReg(form'[t]))
  BY DEF CheckedForm, Fits, CheckedReg
<1>1. CASE Submit(t) /\ pc'[t] = "valid"
  BY <1>1, SubmitChecks
<1>2. CASE Merge(t) /\ ~Done(t)
  <2>1. /\ form[t] \in Filled /\ MergedText(t) \in FeedFiles
        /\ form'[t] = [form[t] EXCEPT !.text = MergedText(t)]
    BY <1>2, MergeStep DEF RegistryType
  <2>2. /\ form'[t].feed = form[t].feed /\ form'[t].vals = form[t].vals
        /\ form'[t].others = form[t].others
    BY <2>1, SetFile
  <2>3. CheckedReg(form'[t]) = CheckedReg(form[t])
    BY <2>2 DEF CheckedReg
  <2>. QED
    BY <1>2, <2>3 DEF CheckedForm, Merge
<1>3. CASE pc[t] \in {"valid", "merged"} /\ form'[t] = form[t]
  BY <1>3 DEF CheckedForm
<1>. QED
  BY <1>1, <1>2, <1>3, ToChecked

\* Where the convention supplies no block that the form leaves out, what is
\* written resolves to the whole of the form.
LEMMA TextServesAll ==
  ASSUME RegistryType, NEW t \in Threads, TextServes(t), pc[t] = "merged",
         \A k \in Blocks : form[t].vals[k] = Empty =>
           Effective(form[t].conv)[k] \in {Absent, Empty}
  PROVE  \A k \in Keys : MergedIn(given, form[t].text)[k] = form[t].vals[k]
<1>. SUFFICES ASSUME NEW k \in Keys
              PROVE  MergedIn(given, form[t].text)[k] = form[t].vals[k]
  OBVIOUS
<1>1. CASE k \in Blocks /\ form[t].vals[k] = Empty
  <2>1. k \notin Scalars /\ Resolve(Empty) = Empty
    BY <1>1, RegistryAssumptions DEF Resolve
  <2>2. form[t].text.set[k] \in {Absent, Empty} /\ form[t].text.conv = form[t].conv
    BY <1>1 DEF TextServes
  <2>3. EffectiveIn(given, form[t].conv)[k] \in {Absent, Empty}
    BY <1>1, ResolvedNow
  <2>. QED
    BY <1>1, <2>1, <2>2, <2>3 DEF MergedIn
<1>2. CASE ~(k \in Blocks /\ form[t].vals[k] = Empty)
  BY <1>2 DEF TextServes
<1>. QED
  BY <1>1, <1>2

LEMMA WriteLoads ==
  ASSUME RegistryType, NEW t \in Threads, TextServes(t), CheckedForm(t), Write(t),
         \A g \in Registered \ {FeedOf(t)} :
           g \in DOMAIN form[t].others /\ form[t].others[g] = Served(g),
         \A k \in Blocks : form[t].vals[k] = Empty =>
           Effective(form[t].conv)[k] \in {Absent, Empty}
  PROVE  Loads'
<1>. DEFINE f == form[t].feed
            reg == CheckedReg(form[t])
            less == Reg(given', files')
<1>1. pc[t] = "merged" /\ files' = [files EXCEPT ![f] = form[t].text] /\ given' = given
  BY DEF Write, FeedOf
<1>2. f \in Feeds /\ form[t].text \in FeedFiles
  BY <1>1, FilledFields DEF RegistryType, FormType
<1>3. \A g \in Feeds : files'[g] = IF g = f THEN form[t].text ELSE files[g]
  BY <1>1, <1>2 DEF RegistryType
<1>4. Fits(reg)
  BY <1>1 DEF CheckedForm
<1>5. DOMAIN reg = DOMAIN form[t].others \union {f}
  BY DEF CheckedReg
<1>6. ASSUME NEW g \in Present(files')
      PROVE  /\ g \in DOMAIN reg
             /\ \A k \in Blocks : MergedIn(given', files'[g])[k] = reg[g][k]
  <2>1. g \in Feeds
    BY DEF Present
  <2>2. CASE g = f
    <3>1. \A k \in Keys : MergedIn(given, form[t].text)[k] = form[t].vals[k]
      BY <1>1, TextServesAll
    <3>2. reg[g] = form[t].vals
      BY <1>5, <2>2 DEF CheckedReg
    <3>3. files'[g] = form[t].text
      BY <1>3, <2>1, <2>2
    <3>. QED
      BY <1>1, <1>5, <2>2, <3>1, <3>2, <3>3 DEF Keys
  <2>3. CASE g # f
    <3>1. files'[g] = files[g] /\ g \in Registered \ {FeedOf(t)}
      BY <1>3, <2>1, <2>3, <1>6 DEF Present, Registered, FeedOf
    <3>2. g \in DOMAIN form[t].others /\ form[t].others[g] = MergedIn(given, files[g])
      BY <3>1, ServedNow
    <3>3. reg[g] = form[t].others[g]
      BY <2>3, <3>2 DEF CheckedReg
    <3>. QED
      BY <1>1, <1>5, <3>1, <3>2, <3>3
  <2>. QED
    BY <2>2, <2>3
<1>7. DOMAIN less \subseteq DOMAIN reg
  BY <1>6 DEF Reg
<1>8. \A g \in DOMAIN less, k \in Blocks : less[g][k] = reg[g][k]
  BY <1>6 DEF Reg
<1>. HIDE DEF reg, less
<1>9. Fits(less)
  BY <1>4, <1>7, <1>8, FitsFewer
<1>10. Fits(Reg(given', files'))
  BY <1>9 DEF less
<1>. QED
  BY <1>10, LoadsNext

\* A save never stops feeds() (registry.validate, and what add and update then
\* write), whoever works beside it, where the other feeds are still served as
\* the form was checked against them and the convention supplies no block that
\* the form leaves out: for any threads and any steps of theirs.
THEOREM SaveKeepsLoading == Spec => SavesKeepLoading
<1>. DEFINE TextInv == \A t \in Threads : TextServes(t)
            CheckInv == \A t \in Threads : CheckedForm(t)
            Kept == \A t \in Threads : pc[t] = "merged" /\ pc'[t] = "saved" =>
                      LET f == FeedOf(t)
                      IN /\ \A g \in Registered \ {f} :
                              g \in DOMAIN form[t].others /\ form[t].others[g] = Served(g)
                         /\ \A k \in Blocks : form[t].vals[k] = Empty =>
                              Effective(form[t].conv)[k] \in {Absent, Empty}
                         => Loads'
<1>1. Init => TextInv /\ CheckInv
  BY DEF Init, RegistryInit, TextServes, CheckedForm
<1>2. RegistryType /\ TextInv /\ [Next]_vars => TextInv'
  BY TextServesKept
<1>3. RegistryType /\ CheckInv /\ [Next]_vars => CheckInv'
  BY CheckedKept
<1>4. RegistryType /\ TextInv /\ CheckInv /\ [Next]_vars => [Kept]_vars
  BY SavedByWrite, WriteLoads
<1>5. Spec => []RegistryType
  BY ConsoleTypes, PTL
<1>. HIDE DEF TextInv, CheckInv, Kept
<1>6. Spec => [][Kept]_vars
  BY <1>1, <1>2, <1>3, <1>4, <1>5, PTL DEF Spec
<1>. QED
  BY <1>6 DEF SavesKeepLoading, Kept

-----------------------------------------------------------------------------
(* Which models may be without their source.                               *)

Accounted == dbt["sources"] \union owed

\* Whoever writes a model has its source declared, or owed.
Declared(t) == pc[t] = "models" => form[t].feed \in Accounted

DeclareInv == dbt["models"] \subseteq Accounted /\ \A t \in Threads : Declared(t)

LEMMA ProceedStep ==
  ASSUME RegistryType, NEW t \in Threads, pc[t] \in Documents, Proceed(t, pc[t])
  PROVE  /\ pc[t] = "sources" => pc'[t] = "models" /\ form'[t].feed = form[t].feed
         /\ pc[t] # "sources" => pc'[t] \in {"tests", "none"}
<1>1. CASE Next_(pc[t]) = "none"
  BY <1>1, NextStage DEF Proceed, Done, Goto, RegistryType
<1>2. CASE Next_(pc[t]) # "none"
  <2>1. form'[t] = [form[t] EXCEPT !.text = Absent] /\ pc'[t] = Next_(pc[t])
    BY <1>2 DEF Proceed, Goto, RegistryType
  <2>2. form[t] \in Filled \union Plain
    BY DEF RegistryType, FormType
  <2>3. form'[t].feed = form[t].feed
    BY <2>1, <2>2, SetText
  <2>. QED
    BY <1>2, <2>1, <2>3, NextStage DEF Documents
<1>. QED
  BY <1>1, <1>2


\* A step that loses no source that is not then owed.
LEMMA DeclareMoves ==
  ASSUME DeclareInv, NEW t \in Threads,
         \A u \in Threads : u # t => pc'[u] = pc[u] /\ form'[u] = form[u],
         Accounted \subseteq Accounted', dbt'["models"] \subseteq Accounted',
         pc'[t] = "models" => form'[t].feed \in Accounted'
  PROVE  DeclareInv'
<1>1. ASSUME NEW u \in Threads
      PROVE  Declared(u)'
  <2>1. CASE u = t
    BY <2>1 DEF Declared
  <2>2. CASE u # t
    BY <2>2 DEF DeclareInv, Declared
  <2>. QED
    BY <2>1, <2>2
<1>. QED
  BY <1>1 DEF DeclareInv

LEMMA WriteSourcesDeclares ==
  ASSUME RegistryType, DeclareInv, NEW t \in Threads, WriteDocument(t), pc[t] = "sources",
         \A u \in Threads : u # t => pc'[u] = pc[u] /\ form'[u] = form[u]
  PROVE  DeclareInv'
<1>. DEFINE written == form[t].text \union {form[t].feed}
<1>1. "sources" \in Documents /\ "models" \in Documents /\ pc[t] \in Documents
  BY DEF Documents
<1>2. /\ dbt'["sources"] = written /\ dbt'["models"] = dbt["models"]
      /\ owed' = (owed \union dbt["sources"]) \ written
  BY <1>1 DEF WriteDocument, FeedOf, RegistryType
<1>3. pc'[t] = "models" /\ form'[t].feed = form[t].feed
  BY <1>1, ProceedStep DEF WriteDocument
<1>4. Accounted' = Accounted \union written
  BY <1>2 DEF Accounted
<1>. QED
  BY <1>2, <1>3, <1>4, DeclareMoves DEF DeclareInv

LEMMA RequestDeclares ==
  ASSUME RegistryType, DeclareInv, NEW t \in Threads, Request(t)
  PROVE  DeclareInv'
<1>1. \A u \in Threads : u # t => pc'[u] = pc[u] /\ form'[u] = form[u]
  BY OthersStay
<1>2. ASSUME dbt' = dbt, owed' = owed, pc'[t] # "models"
      PROVE  DeclareInv'
  BY <1>1, <1>2, DeclareMoves DEF DeclareInv, Accounted
<1>3. ASSUME Done(t)
      PROVE  pc'[t] = "none"
  BY <1>3 DEF Done, Goto, RegistryType
<1>4. ASSUME NEW f \in Feeds, NEW c \in Named, NEW vals \in Fillings, OpenForm(t, f, c, vals)
      PROVE  DeclareInv'
  BY <1>2, <1>4 DEF OpenForm, Goto, project, RegistryType
<1>5. CASE Submit(t)
  BY <1>2, <1>5, SubmitStep DEF Submit, project
<1>6. CASE Merge(t)
  <2>1. pc'[t] \in {"merged", "none"}
    BY <1>3, <1>6, MergeStep DEF RegistryType
  <2>. QED
    BY <1>2, <1>6, <2>1 DEF Merge, project
<1>7. CASE Write(t)
  BY <1>2, <1>7 DEF Write, Goto, project, RegistryType
<1>8. CASE Remove(t)
  BY <1>2, <1>3, <1>8 DEF Remove, project
<1>9. CASE Answer(t)
  BY <1>2, <1>3, <1>9, NextStage DEF Answer, Goto, project, RegistryType
<1>10. CASE ReadDocument(t)
  <2>1. dbt' = dbt /\ owed' = owed /\ pc[t] \in {"sources", "tests"} /\ pc[t] \in Documents
    BY <1>10 DEF ReadDocument, project, Documents
  <2>2. CASE FeedOf(t) \in dbt[pc[t]]
    <3>1. Proceed(t, pc[t])
      BY <1>10, <2>2 DEF ReadDocument
    <3>2. /\ pc[t] = "sources" => pc'[t] = "models" /\ form'[t].feed = form[t].feed
          /\ pc[t] # "sources" => pc'[t] \in {"tests", "none"}
      BY <2>1, <3>1, ProceedStep
    <3>3. pc'[t] = "models" => form'[t].feed \in dbt["sources"]
      BY <2>1, <2>2, <3>2 DEF FeedOf
    <3>. QED
      BY <1>1, <2>1, <3>3, DeclareMoves DEF DeclareInv, Accounted
  <2>3. CASE FeedOf(t) \notin dbt[pc[t]]
    BY <1>2, <1>10, <2>1, <2>3 DEF ReadDocument
  <2>. QED
    BY <2>2, <2>3
<1>11. CASE WriteDocument(t)
  <2>1. CASE pc[t] = "sources"
    BY <1>1, <1>11, <2>1, WriteSourcesDeclares
  <2>2. CASE pc[t] = "tests"
    <3>1. pc[t] \in Documents /\ Proceed(t, pc[t])
      BY <1>11, <2>2 DEF WriteDocument, Documents
    <3>2. pc'[t] \in {"tests", "none"}
      BY <2>2, <3>1, ProceedStep
    <3>3. /\ dbt'["sources"] = dbt["sources"] /\ dbt'["models"] = dbt["models"]
          /\ owed' = owed
      BY <1>11, <2>2 DEF WriteDocument, RegistryType, Documents
    <3>4. pc'[t] # "models"
      BY <3>2
    <3>. QED
      BY <1>1, <3>3, <3>4, DeclareMoves DEF DeclareInv, Accounted
  <2>. QED
    BY <1>11, <2>1, <2>2 DEF WriteDocument
<1>12. CASE WriteModel(t)
  <2>1. pc[t] = "models" /\ pc[t] \in Documents /\ Proceed(t, pc[t])
    BY <1>12 DEF WriteModel, Documents
  <2>2. pc'[t] \in {"tests", "none"}
    BY <2>1, ProceedStep
  <2>3. /\ dbt'["sources"] = dbt["sources"] /\ owed' = owed
        /\ dbt'["models"] = dbt["models"] \union {form[t].feed}
    BY <1>12 DEF WriteModel, FeedOf, RegistryType, Documents
  <2>4. form[t].feed \in Accounted
    BY <2>1 DEF DeclareInv, Declared
  <2>5. pc'[t] # "models"
    BY <2>2
  <2>. QED
    BY <1>1, <2>3, <2>4, <2>5, DeclareMoves DEF DeclareInv, Accounted
<1>13. CASE StepFails(t)
  <2>1. pc[t] \in Documents /\ Proceed(t, pc[t]) /\ dbt' = dbt
    BY <1>13, RegistryAssumptions DEF StepFails, Documents
  <2>2. owed' = IF pc[t] = "sources" THEN owed \union {form[t].feed} ELSE owed
    BY <1>13 DEF StepFails, FeedOf
  <2>3. /\ pc[t] = "sources" => pc'[t] = "models" /\ form'[t].feed = form[t].feed
        /\ pc[t] # "sources" => pc'[t] \in {"tests", "none"}
    BY <2>1, ProceedStep
  <2>4. pc'[t] = "models" => form'[t].feed \in owed'
    BY <2>2, <2>3
  <2>. QED
    BY <1>1, <2>1, <2>2, <2>4, DeclareMoves DEF DeclareInv, Accounted
<1>14. ASSUME NEW f \in Feeds, Rescaffold(t, f)
       PROVE  DeclareInv'
  BY <1>2, <1>14, NextStage DEF Rescaffold, Goto, project, RegistryType
<1>15. ASSUME NEW f \in Feeds, NEW scaffoldToo \in BOOLEAN, Delete(t, f, scaffoldToo)
       PROVE  DeclareInv'
  <2>1. /\ dbt'["sources"] = dbt["sources"] /\ dbt'["models"] \subseteq dbt["models"]
        /\ owed' = owed
    BY <1>15 DEF Delete, RegistryType, Documents
  <2>2. pc'[t] # "models"
    BY <1>15 DEF Delete, Goto, RegistryType
  <2>. QED
    BY <1>1, <2>1, <2>2, DeclareMoves DEF DeclareInv, Accounted
<1>. QED
  BY <1>4, <1>5, <1>6, <1>7, <1>8, <1>9, <1>10, <1>11, <1>12, <1>13, <1>14, <1>15
     DEF Request, Named

LEMMA DeclareKept ==
  ASSUME RegistryType, DeclareInv, [Next]_vars
  PROVE  DeclareInv'
<1>1. CASE \E t \in Threads : Request(t)
  BY <1>1, RequestDeclares
<1>2. CASE People
  BY <1>2 DEF People, EditConvention, EditFile, Hand, project, DeclareInv, Declared, Accounted
<1>3. CASE ConsoleRestarts
  <2>1. \A t \in Threads : pc'[t] # "models"
    BY <1>3, RestartType
  <2>2. dbt' = dbt /\ owed' = owed
    BY <1>3 DEF ConsoleRestarts, project
  <2>. QED
    BY <2>1, <2>2 DEF DeclareInv, Declared, Accounted
<1>4. CASE UNCHANGED registryVars
  BY <1>4 DEF registryVars, DeclareInv, Declared, Accounted
<1>. QED
  BY <1>1, <1>2, <1>3, <1>4, Steps

\* A model is without its source only where the step that declares it was
\* reported failed, or another request wrote _sources.yml back without it
\* (scaffold.scaffold, write_source): for any threads, any steps that raise
\* and any deletes and restarts between them.
THEOREM BrokenParsesAreAccounted == Spec => []BrokenParseIsAccounted
<1>1. Init => DeclareInv
  BY DEF Init, RegistryInit, DeclareInv, Declared, Accounted
<1>2. RegistryType /\ DeclareInv /\ [Next]_vars => DeclareInv'
  BY DeclareKept
<1>3. DeclareInv => BrokenParseIsAccounted
  BY DEF DeclareInv, Accounted, BrokenParseIsAccounted
<1>. QED
  BY <1>1, <1>2, <1>3, ConsoleTypes, PTL DEF Spec
=============================================================================
