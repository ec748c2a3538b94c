--------------------------- MODULE MCAutosnapshot ---------------------------
(***************************************************************************)
(* Instances of Autosnapshot for TLC.                                      *)
(***************************************************************************)
EXTENDS Autosnapshot

CONSTANTS h1

OneHost == {h1}
BothRoles == {"master", "replica"}
OneRole == {"master"}

\* 1 is quiet load, 6 stays at or above 150% of any baseline that holds a
\* quiet probe for every loud one.
QuietOrLoud == {1, 6}
=============================================================================
