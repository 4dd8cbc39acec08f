------------------------------ MODULE Carriage ------------------------------
(***************************************************************************)
(* What the platform promises about a Transport it takes in: it is read    *)
(* under one feed contract, chosen once, and whatever is made of it later, *)
(* its NormalizationManifest and its rows in raw, is made under that       *)
(* contract, in that order, and is not made again.  Contracts that cannot  *)
(* place the Transport are never chosen, and rows that fail the checks of  *)
(* the one chosen never reach raw.  TransportPipeline implements this.     *)
(***************************************************************************)
CONSTANTS
  Transports, Contracts,
  NoIdentity,    \* <<transport, contract>>: the contract cannot place it
  FailsChecks,   \* <<transport, contract>>: its rows fail the checks
  Nothing

VARIABLES delivery, plan, raw

vars == <<delivery, plan, raw>>

Init ==
  /\ delivery = [t \in Transports |-> Nothing]
  /\ plan = [t \in Transports |-> Nothing]
  /\ raw = [t \in Transports |-> Nothing]

Interpret(t, c) ==
  /\ delivery[t] = Nothing
  /\ <<t, c>> \notin NoIdentity
  /\ delivery' = [delivery EXCEPT ![t] = c]
  /\ UNCHANGED <<plan, raw>>

Plan(t) ==
  /\ delivery[t] # Nothing
  /\ plan[t] = Nothing
  /\ plan' = [plan EXCEPT ![t] = delivery[t]]
  /\ UNCHANGED <<delivery, raw>>

Land(t) ==
  /\ plan[t] # Nothing
  /\ raw[t] = Nothing
  /\ <<t, plan[t]>> \notin FailsChecks
  /\ raw' = [raw EXCEPT ![t] = plan[t]]
  /\ UNCHANGED <<delivery, plan>>

Next == \E t \in Transports : Plan(t) \/ Land(t) \/ \E c \in Contracts : Interpret(t, c)

Spec == Init /\ [][Next]_vars
=============================================================================
