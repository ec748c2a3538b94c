------------------------------ MODULE MCTokens ------------------------------
(***************************************************************************)
(* Instances of Tokens for TLC.                                            *)
(***************************************************************************)
EXTENDS Tokens, TLC

CONSTANTS c1, c2, k1, k2

TwoCallers == {c1, c2}
TwoKeys == {k1, k2}
OneSecret == {k1}
Lives == {Nil, 3}

AnyCaller == Permutations(Callers)
=============================================================================
