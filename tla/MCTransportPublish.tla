------------------------- MODULE MCTransportPublish -------------------------
(***************************************************************************)
(* TransportPublish for TLC: two producers of one Transport of a data file *)
(* and a control file, each of which holds one of two contents.            *)
(***************************************************************************)
EXTENDS TransportPublish

CONSTANTS p1, p2, c1, c2, early, late, none

\* Contents are compared per file, and observations with each other only, so
\* what the first producer starts with may be named c1 and early.
MCInit ==
  /\ PublishInit
  /\ observed[p1] = early
  /\ \A n \in Files : content[p1][n] = c1

MCSpec == MCInit /\ [][PublishNext]_publishVars /\ PublishFairness
=============================================================================
