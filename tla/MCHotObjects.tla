---------------------------- MODULE MCHotObjects ----------------------------
(***************************************************************************)
(* Instances of HotObjects for TLC.                                        *)
(***************************************************************************)
EXTENDS HotObjects, TLC

CONSTANTS h1, h2, t1, i1

OneHost == {h1}
TwoHosts == {h1, h2}
OneTable == {t1}
OneIndex == {i1}
NoIndexes == {}

\* The index, if there is one, is on the table.
OnlyTable == [i \in Indexes |-> t1]
\* No property of the runs that use it tells one host from the other.
AnyHost == Permutations(TwoHosts)
=============================================================================
