---------------------------- MODULE MCIOHistory ----------------------------
(***************************************************************************)
(* The instance of IOHistory for TLC.                                      *)
(***************************************************************************)
EXTENDS IOHistory

OneToThree == 1..3
=============================================================================
