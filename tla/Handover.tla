------------------------------ MODULE Handover ------------------------------
(***************************************************************************)
(* What a Transport promises whoever finds its completion marker: evidence *)
(* appears once, whole, and never changes afterwards.  TransportPublish,   *)
(* the producers that race to publish one Transport, implements this.      *)
(***************************************************************************)
CONSTANTS
  Evidence,   \* what a Transport may consist of: files and declared metadata
  Nothing     \* no marker yet

VARIABLE evidence

Init == evidence = Nothing

Complete == /\ evidence = Nothing
            /\ evidence' \in Evidence

Spec == Init /\ [][Complete]_evidence
=============================================================================
