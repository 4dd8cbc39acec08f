------------------------------ MODULE RawLedger ------------------------------
(***************************************************************************)
(* What the raw layer promises everything that reads `main`: a table is a  *)
(* set of batches, each batch is one accepted Delivery under one           *)
(* `_file_version`, a batch that arrives is newer than every batch of its  *)
(* COB date that is already there (dbt's dedupe_rank keeps the newest), and*)
(* rows only ever leave by whole COB dates, when retention expires them.   *)
(* RawIngest, the Nessie branches and retries that produce it, is shown to *)
(* implement this.                                                         *)
(***************************************************************************)
EXTENDS Integers

CONSTANTS
  Tables,       \* raw tables, one per feed
  Deliveries,   \* accepted Deliveries (opaque dlv_ ids)
  Dates,        \* COB dates
  TableOf,      \* Delivery -> the raw table of its feed
  CobDateOf,    \* Delivery -> its frozen business date
  Bad,          \* Deliveries a raw check refuses
  Versions,     \* the values _file_version may take
  Attempts,     \* identities an ingest attempt writes as _batch_id
  AtMostOnce    \* whether a Delivery is promised to be there at most once

VARIABLE rows   \* [Tables -> set of batches]: raw as `main` shows it

Batch == [delivery: Deliveries, version: Versions, attempt: Attempts]

Empty == [t \in Tables |-> {}]

CobDate(b) == CobDateOf[b.delivery]

\* b is newer than every batch of its own COB date in S.
NewerThanAll(b, S) ==
  \A c \in S : CobDate(c) = CobDate(b) => b.version > c.version

Init == rows = Empty

Ingest(b) ==
  LET t == TableOf[b.delivery] IN
  /\ b.delivery \notin Bad
  /\ NewerThanAll(b, rows[t])
  /\ AtMostOnce => \A c \in rows[t] : c.delivery # b.delivery
  /\ rows' = [rows EXCEPT ![t] = @ \union {b}]

Expire(t, gone) ==
  rows' = [rows EXCEPT ![t] = {b \in @ : CobDate(b) \notin gone}]

Next ==
  \/ \E b \in Batch : Ingest(b)
  \/ \E t \in Tables, gone \in SUBSET Dates : Expire(t, gone)

Spec == Init /\ [][Next]_rows
=============================================================================
