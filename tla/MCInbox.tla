------------------------------ MODULE MCInbox ------------------------------
(***************************************************************************)
(* Inbox for TLC: a plain feed with a control file, a feed that sends      *)
(* containers, a conformant feed, a name two feeds claim, and the first    *)
(* feed's control file under its landing name.                             *)
(***************************************************************************)
EXTENDS Inbox

CONSTANTS plain, zips, own,
          pos, ctl, zip, ready, odd, posok,
          b1, b2, k1, k2, k3, z1, z2, z4, z5, m1, m2, m3, d1, torn, none

MCOrder == SelectSeq(<<ctl, odd, pos, posok, ready, zip>>, LAMBDA f : f \in Files)
MCNameClaims == [f \in Files |-> IF f = ready THEN {own} ELSE
                                 IF f = odd THEN {own, plain} ELSE {}]
MCSourceClaims == [f \in Files |-> IF f = pos THEN {plain} ELSE
                                   IF f = zip THEN {zips} ELSE {}]
MCControlClaims == [f \in Files |-> IF f \in {ctl, posok} THEN {plain} ELSE {}]
MCControlOf == [f \in Files |-> IF f = pos THEN ctl ELSE None]
MCNameDate == [f \in Files |-> IF f = ready THEN d1 ELSE None]
MCKeyOf == [f \in Files |-> [feed |-> own, date |-> d1, version |-> 1]]
MCSent == [f \in Files |-> CASE f = pos -> {b1} [] f = ctl -> {k1, k2, k3}
                             [] f = zip -> {z1, z2, z5} [] OTHER -> {b1}]
MCSays == [b \in Bytes \union {Torn} |->
             CASE b = k1 -> [date |-> d1, version |-> None]
               [] b = k2 -> [date |-> d1, version |-> 1]
               [] OTHER -> None]
Member(b, d) == [body |-> b, date |-> d, version |-> None]
MCMembers == [b \in Bytes \union {Torn} |->
                CASE b = z1 -> <<Member(m1, d1), Member(m2, d1)>>
                  [] b = z2 -> <<Member(m1, d1), Member(m3, None)>>
                  [] b = z4 -> <<Member(m3, None)>>
                  [] b = z5 -> <<Member(m2, d1)>>
                  [] OTHER -> <<>>]
\* Containers none of whose members can be named.
MCSentUnnamed == [f \in Files |-> {z1, z4}]
\* A sender may also write the landing name of the feed that has a gate.
MCNameClaimsBoth == [f \in Files |-> IF f = ready THEN {plain} ELSE {}]
MCKeyOfBoth == [f \in Files |-> [feed |-> plain, date |-> d1, version |-> 1]]
MCSentBoth == [f \in Files |-> IF f = pos THEN {b1} ELSE IF f = ctl THEN {k1} ELSE {b2}]
=============================================================================
