------------------------ MODULE MCTransportPipeline ------------------------
(***************************************************************************)
(* TransportPipeline for TLC: one Transport, an archive, which one edit of *)
(* the feed may leave without an identity, or with too few rows.           *)
(***************************************************************************)
EXTENDS TransportPipeline

CONSTANTS t1, good, short, lost

MCNoIdentity == {<<t1, lost>>}
MCFailsChecks == {<<t1, short>>}
MCNone == {}

MCInit == Init /\ feed # short

MCSpec == MCInit /\ [][Next]_vars /\ Fairness
=============================================================================
