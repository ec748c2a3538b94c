---------------------------- MODULE MCBaselines ----------------------------
(***************************************************************************)
(* Instances of Baselines for TLC.                                         *)
(***************************************************************************)
EXTENDS Baselines

CONSTANTS c1, c2, k1, k2

TwoCallers == {c1, c2}
TwoKeys == {k1, k2}
OneKey == {k1}
=============================================================================
