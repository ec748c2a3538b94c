------------------------------- MODULE MCPools -------------------------------
(***************************************************************************)
(* An instance of Pools for TLC: two sources that may publish the same     *)
(* name, one place per cluster, two connections, two concurrent requests.  *)
(***************************************************************************)
EXTENDS Pools, TLC

CONSTANTS c1, c2, s1, s2, a, b, p, x, y, q1, q2, q3, q4, q5

TwoCallers == {c1, c2}
TwoSources == {s1, s2}
TwoNames == {a, b}
OnePlace == {p}
TwoConns == {x, y}
FivePools == {q1, q2, q3, q4, q5}

Of(n, c) == [name |-> n, conns |-> (p :> c)]

OneStatic == {Of(b, x)}

\* Nothing, either connection of a, and a feed that names a twice.
SomeFeeds == {<<>>, <<Of(a, x)>>, <<Of(a, y)>>, <<Of(b, y), Of(a, x), Of(a, y)>>}

Interchangeable == Permutations(Callers) \cup Permutations(PoolIds)
=============================================================================
