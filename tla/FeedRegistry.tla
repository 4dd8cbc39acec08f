---------------------------- MODULE FeedRegistry ----------------------------
(***************************************************************************)
(* The feed registry, its editors and the dbt files beside it:             *)
(* common/context.py resolves feeds/<name>.yml over its convention and     *)
(* _defaults.yml; the console (ui/app.py, ui/registry.py, ui/scaffold.py)  *)
(* writes those files from forms, while people write the same tree by      *)
(* hand.  One write of one file is one step.                               *)
(***************************************************************************)
EXTENDS Integers, FiniteSets, Sequences

CONSTANTS
  Feeds,
  Conventions,
  Scalars, Blocks,  \* the keys a form manages: plain values, and mappings
  Values,           \* of a scalar
  Suffixes,         \* of the control file a block names, spelled out
  Spelled,          \* of a block that leaves something to the resolver's
                    \* defaults: the same block as resolved and shown
  Absent,           \* a key that is not written, a feed with no file
  Empty,            \* a mapping that says nothing; the name of no convention
  BuiltIn,          \* OPTIONAL_WITH_DEFAULT
  Defaults,         \* what _defaults.yml gives each key
  Parent,           \* a convention's parent
  Stem,             \* a feed's file names: the characters at each place
  Literal,          \* feeds whose filename_pattern ends in a literal extension
  ByHand,           \* the keys people write in conventions
  Threads,          \* of uvicorn's pool
  Raising,          \* the steps of a scaffold that may raise
  Posted,           \* bound: what people fill a form with
  MaxForms, MaxHand, MaxFaults  \* bounds

Keys == Scalars \union Blocks
Terse == DOMAIN Spelled
Choices(k) == IF k \in Scalars THEN Values ELSE Suffixes \union {Empty}
Writable(k) == IF k \in Scalars THEN Values ELSE Suffixes \union Terse \union {Empty}
Settings == [Keys -> Values \union Suffixes \union Terse \union {Empty, Absent}]
Files == [conv : Conventions \union {Empty}, set : Settings, hand : BOOLEAN]

ASSUME RegistryAssumptions ==
  /\ Scalars \intersect Blocks = {} /\ {"arrival", "delivery"} \subseteq Blocks
  /\ ByHand \subseteq Keys
  /\ Spelled \in [Terse -> Suffixes]
  /\ Terse \intersect (Values \union Suffixes \union {Empty, Absent}) = {}
  /\ Absent \notin Values \union Suffixes \union {Empty} \union Files
  /\ BuiltIn \in [Scalars -> Values]
  /\ Defaults \in Settings /\ \A k \in Keys : Defaults[k] \in Writable(k) \union {Absent}
  /\ Parent \in [Conventions -> Conventions \union {Empty}]
  /\ Literal \subseteq Feeds /\ Raising \subseteq {"sources", "models", "tests"}
  /\ MaxForms \in Nat /\ MaxHand \in Nat /\ MaxFaults \in Nat

VARIABLES
  files,      \* feeds/<name>.yml: [conv, set, hand], or Absent
  given,      \* feeds/conventions/<name>.yml
  dbt,        \* the feeds in _sources.yml, in _prepared.yml, and the models
  form,       \* what each thread works on
  pc,
  owed,       \* ghost: feeds whose source step was reported failed, or whose
              \* source another request's write took out again
  forms, hands, faults

registryVars == <<files, given, dbt, form, pc, owed, forms, hands, faults>>
tree == <<files, given>>
project == <<dbt, owed>>
counts == <<forms, hands, faults>>

Registered == {f \in Feeds : files[f] # Absent}

(***************************************************************************)
(* Resolution.                                                             *)
(***************************************************************************)
\* A convention and its parents, the nearest first.
Chain(c) ==
  LET Links[x \in Conventions \union {Empty}] ==
        IF x = Empty THEN <<>> ELSE <<x>> \o Links[Parent[x]]
  IN Links[c]

\* A cycle is an error at load.
ASSUME ChainsEnd == \A c \in Conventions \union {Empty} : Chain(c) \in Seq(Conventions)

\* _defaults.yml, the convention's chain over it: each link replaces a key.
Effective(c) ==
  [k \in Keys |->
     LET links == {i \in DOMAIN Chain(c) : given[Chain(c)[i]][k] # Absent}
     IN IF links = {} THEN Defaults[k]
        ELSE given[Chain(c)[CHOOSE i \in links : \A n \in links : i <= n]][k]]

\* What a feed of the convention c has for a key its file does not set.
Inherited(c) ==
  [k \in Keys |-> IF Effective(c)[k] # Absent THEN Effective(c)[k]
                  ELSE IF k \in Scalars THEN BuiltIn[k] ELSE Absent]

\* resolve_arrival_config, resolve_delivery_config: what is left out is filled.
Resolve(v) == IF v \in Terse THEN Spelled[v] ELSE v

\* The loader's merge.
Merged(file) ==
  [k \in Keys |->
     Resolve(IF file.set[k] # Absent THEN file.set[k]
             ELSE IF Effective(file.conv)[k] # Absent THEN Effective(file.conv)[k]
             ELSE IF k \in Scalars THEN BuiltIn[k] ELSE Empty)]

Served(f) == Merged(files[f])

(***************************************************************************)
(* Control files: whose is the name <stem><suffix>?                        *)
(***************************************************************************)
Suffixed(vals) == {vals[k] : k \in Blocks} \ {Empty}

\* A representative stem: the first branch of every choice.
Sample(f) == [i \in DOMAIN Stem[f] |-> CHOOSE c \in Stem[f][i] : TRUE]

StemOf(f, s) ==
  Len(s) = Len(Stem[f]) /\ \A i \in DOMAIN s : s[i] \in Stem[f][i]

\* Without a literal extension there is no stem to compare: the suffix alone.
Claims(f, vals, s, x) == x \in Suffixed(vals) /\ (f \in Literal => StemOf(f, s))

Coherent(vals) == vals["arrival"] # Empty => vals["delivery"] # Empty

\* Every probe, one for each suffix of a feed with a literal extension, has
\* one claimant.
Distinguishable(reg) ==
  \A f \in DOMAIN reg \intersect Literal : \A x \in Suffixed(reg[f]) :
    \A g \in DOMAIN reg \ {f} : ~Claims(g, reg[g], Sample(f), x)

\* feeds() answers; when it does not, no DAG of any feed is defined.
Loads ==
  /\ \A f \in Registered : Coherent(Served(f))
  /\ Distinguishable([f \in Registered |-> Served(f)])

(***************************************************************************)
(* A form: opened on what the feed serves, its blocks spelled out, and     *)
(* posted whole.                                                           *)
(***************************************************************************)
NoForm == [feed |-> Absent, text |-> Absent]
Idle(t) == pc[t] = "none"
Goto(t, label) == pc' = [pc EXCEPT ![t] = label]
Done(t) == Goto(t, "none") /\ form' = [form EXCEPT ![t] = NoForm]
FeedOf(t) == form[t].feed

Fillings == {vals \in [Keys -> Values \union Suffixes \union {Empty}] :
               \A k \in Keys : vals[k] \in Choices(k)}

OpenForm(t, f, c, vals) ==
  /\ Idle(t) /\ Loads /\ forms < MaxForms
  /\ forms' = forms + 1
  /\ form' = [form EXCEPT ![t] =
       [feed |-> f, create |-> f \notin Registered, conv |-> c, vals |-> vals,
        others |-> [g \in {} |-> Empty], text |-> Absent]]
  /\ Goto(t, "open")
  /\ UNCHANGED <<tree, project, hands, faults>>

Others(f) == [g \in Registered \ {f} |-> Served(g)]

\* The spec alone, with no convention merged, against the others as served.
AsFeed(t) ==
  [g \in Registered \union {FeedOf(t)} |->
     IF g = FeedOf(t) THEN form[t].vals ELSE Served(g)]

\* Mutant of Valid: the form is checked alone.
Valid_Alone(t) ==
  /\ form[t].create <=> FeedOf(t) \notin Registered
  /\ Coherent(form[t].vals)

Valid(t) ==
  /\ form[t].create <=> FeedOf(t) \notin Registered
  /\ Coherent(form[t].vals)
  /\ Distinguishable(AsFeed(t))

Submit(t) ==
  /\ pc[t] = "open"
  /\ IF Loads /\ Valid(t)
     THEN /\ Goto(t, "valid")
          /\ form' = [form EXCEPT ![t].others = Others(FeedOf(t))]
     ELSE Done(t)
  /\ UNCHANGED <<tree, project, counts>>

\* Mutant of Stages: the model before its source.
Stages_ModelFirst == <<"models", "sources", "tests">>

\* The steps of a scaffold: the source before the model that reads it.
Stages == <<"sources", "models", "tests">>

(***************************************************************************)
(* registry.add, registry.update: the file is read and merged, then        *)
(* written.                                                                *)
(***************************************************************************)
\* What the form posts, spelled out, against what the convention says, as it
\* is written there.
Block(c, vals) ==
  [k \in Keys |-> IF vals[k] = Inherited(c)[k] \/ (k \in Blocks /\ vals[k] = Empty)
                  THEN Absent ELSE vals[k]]

\* Mutant of Rewritten: a key back at its inherited value keeps its override.
Rewritten_KeepsOverride(old, c, new) ==
  [old EXCEPT !.conv = c,
              !.set = [k \in Keys |-> IF new[k] # Absent THEN new[k] ELSE @[k]]]

\* The managed keys are replaced or dropped; the others stay.
Rewritten(old, c, new) == [old EXCEPT !.conv = c, !.set = new]

Merge(t) ==
  LET f == FeedOf(t)
      new == Block(form[t].conv, form[t].vals)
  IN /\ pc[t] = "valid"
     /\ IF form[t].create # (files[f] = Absent) THEN Done(t)
        ELSE /\ form' = [form EXCEPT ![t].text =
                   IF form[t].create
                   THEN [conv |-> form[t].conv, set |-> new, hand |-> FALSE]
                   ELSE Rewritten(files[f], form[t].conv, new)]
             /\ Goto(t, "merged")
     /\ UNCHANGED <<tree, project, counts>>

Write(t) ==
  /\ pc[t] = "merged"
  /\ files' = [files EXCEPT ![FeedOf(t)] = form[t].text]
  /\ Goto(t, "saved")
  /\ UNCHANGED <<given, project, form, counts>>

\* A new feed is scaffolded if the registry can be read back.
Answer(t) ==
  /\ pc[t] = "saved"
  /\ IF form[t].create /\ Loads
     THEN Goto(t, Stages[1]) /\ form' = [form EXCEPT ![t].text = Absent]
     ELSE Done(t)
  /\ UNCHANGED <<tree, project, counts>>

(***************************************************************************)
(* scaffold: the source entry, the model, its tests, each left alone where *)
(* it exists.  A document is read whole and written back whole.            *)
(***************************************************************************)
Next_(stage) ==
  LET i == CHOOSE n \in DOMAIN Stages : Stages[n] = stage
  IN IF i = Len(Stages) THEN "none" ELSE Stages[i + 1]

Proceed(t, stage) ==
  IF Next_(stage) = "none" THEN Done(t)
  ELSE Goto(t, Next_(stage)) /\ form' = [form EXCEPT ![t].text = Absent]

ReadDocument(t) ==
  /\ pc[t] \in {"sources", "tests"} /\ form[t].text = Absent
  /\ IF FeedOf(t) \in dbt[pc[t]] THEN Proceed(t, pc[t])
     ELSE form' = [form EXCEPT ![t].text = dbt[pc[t]]] /\ UNCHANGED pc
  /\ UNCHANGED <<tree, project, counts>>

WriteDocument(t) ==
  LET written == form[t].text \union {FeedOf(t)}
  IN /\ pc[t] \in {"sources", "tests"} /\ form[t].text # Absent
     /\ dbt' = [dbt EXCEPT ![pc[t]] = written]
     /\ owed' = IF pc[t] = "sources" THEN (owed \union dbt.sources) \ written ELSE owed
     /\ Proceed(t, pc[t])
     /\ UNCHANGED <<tree, counts>>

WriteModel(t) ==
  /\ pc[t] = "models"
  /\ dbt' = [dbt EXCEPT !.models = @ \union {FeedOf(t)}]
  /\ Proceed(t, "models")
  /\ UNCHANGED <<tree, owed, counts>>

\* A step that raises is reported, and the next one runs.
StepFails(t) ==
  /\ pc[t] \in Raising /\ faults < MaxFaults
  /\ faults' = faults + 1
  /\ owed' = IF pc[t] = "sources" THEN owed \union {FeedOf(t)} ELSE owed
  /\ Proceed(t, pc[t])
  /\ UNCHANGED <<tree, dbt, forms, hands>>

Rescaffold(t, f) ==
  /\ Idle(t) /\ Loads /\ f \in Registered
  /\ \E k \in DOMAIN dbt : f \notin dbt[k]
  /\ form' = [form EXCEPT ![t] = [feed |-> f, text |-> Absent]]
  /\ Goto(t, Stages[1])
  /\ UNCHANGED <<tree, project, counts>>

(***************************************************************************)
(* api_delete_feed: the model, when asked for, then the feed's file.       *)
(***************************************************************************)
Delete(t, f, scaffoldToo) ==
  /\ Idle(t) /\ Loads /\ f \in Registered
  /\ dbt' = IF scaffoldToo THEN [dbt EXCEPT !.models = @ \ {f}] ELSE dbt
  /\ form' = [form EXCEPT ![t] = [feed |-> f, text |-> Absent]]
  /\ Goto(t, "remove")
  /\ UNCHANGED <<tree, owed, counts>>

Remove(t) ==
  LET f == FeedOf(t)
  IN /\ pc[t] = "remove"
     /\ files' = [files EXCEPT ![f] = Absent]
     /\ Done(t)
     /\ UNCHANGED <<given, project, counts>>

(***************************************************************************)
(* People.  Nobody saves a file of the tree in the moment between an       *)
(* update's read and its write.                                            *)
(***************************************************************************)
Hand ==
  /\ hands < MaxHand /\ hands' = hands + 1
  /\ \A t \in Threads : pc[t] # "merged"
  /\ UNCHANGED <<project, form, pc, forms, faults>>

EditConvention(c, k, v) ==
  /\ Hand /\ given[c][k] # v
  /\ given' = [given EXCEPT ![c][k] = v]
  /\ UNCHANGED files

\* A key of the feed's own, and one no form manages (raw_namespace).
EditFile(f, k, v) ==
  /\ Hand /\ f \in Registered
  /\ files' = [files EXCEPT ![f].set[k] = v, ![f].hand = TRUE]
  /\ UNCHANGED given

RegistryInit ==
  /\ files = [f \in Feeds |-> Absent]
  /\ given = [c \in Conventions |-> [k \in Keys |-> Absent]]
  /\ dbt = [sources |-> {}, tests |-> {}, models |-> {}]
  /\ form = [t \in Threads |-> NoForm]
  /\ owed = {}

Request(t) ==
  \/ \E f \in Feeds, c \in Conventions \union {Empty}, vals \in Posted \intersect Fillings :
       OpenForm(t, f, c, vals)
  \/ Submit(t)
  \/ Merge(t)
  \/ Write(t)
  \/ Answer(t)
  \/ ReadDocument(t)
  \/ WriteDocument(t)
  \/ WriteModel(t)
  \/ StepFails(t)
  \/ \E f \in Feeds : Rescaffold(t, f)
  \/ \E f \in Feeds, scaffoldToo \in BOOLEAN : Delete(t, f, scaffoldToo)
  \/ Remove(t)

People ==
  \/ \E c \in Conventions, k \in ByHand : \E v \in Writable(k) \union {Absent} :
       EditConvention(c, k, v)
  \/ \E f \in Feeds, k \in Scalars, v \in Values : EditFile(f, k, v)
=============================================================================
