-------------------------- MODULE MCLeaderElection --------------------------
(***************************************************************************)
(* Instances of LeaderElection for TLC.                                    *)
(***************************************************************************)
EXTENDS LeaderElection

CONSTANTS d1, d2, d3

ThreeDaemons == {d1, d2, d3}
=============================================================================
