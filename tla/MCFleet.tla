------------------------------- MODULE MCFleet -------------------------------
(***************************************************************************)
(* Instances of Fleet for TLC.                                             *)
(***************************************************************************)
EXTENDS Fleet

CONSTANTS c1, k1, k2

OneCaller == {c1}
TwoKeys == {k1, k2}
=============================================================================
