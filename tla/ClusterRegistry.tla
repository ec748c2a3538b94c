--------------------------- MODULE ClusterRegistry ---------------------------
(***************************************************************************)
(* The list of monitored clusters (internal/config/config.go,              *)
(* ClustersFromConfig) and the discovery engine that writes it             *)
(* (internal/discovery/engine.go).  The list is the static clusters of the *)
(* configuration followed by what every discovery source published last.   *)
(* One goroutine per source runs the cycles; a cycle whose provider fails  *)
(* publishes nothing, so the source keeps what it published before.        *)
(*                                                                         *)
(* A cluster is a name and the connection parameters of its places, a      *)
(* place being one host and one database of it.                            *)
(***************************************************************************)
EXTENDS Naturals, Sequences

CONSTANTS
  Sources,    \* the discovery entries
  Names,      \* cluster names
  Places,     \* pairs of host and database inside a cluster
  Conns,      \* user, password, address and port of a host
  Static,     \* the clusters of the configuration file
  Feeds       \* the lists a provider may return

Cluster == [name : Names, conns : UNION {[D -> Conns] : D \in SUBSET Places}]

NamesOf(cls) == {c.name : c \in cls}

Distinct(cls) == \A c, d \in cls : c.name = d.name => c = d

\* The code never compares the static names with one another; the
\* configuration is taken to name every static cluster once.
ASSUME StaticAssumption ==
  /\ Static \subseteq Cluster
  /\ Distinct(Static)
ASSUME FeedsAssumption == Feeds \subseteq Seq(Cluster)

VARIABLE published    \* ClustersFromConfig.discovered

RegistryTypeOK == published \in [Sources -> SUBSET Cluster]

RegistryInit == published = [s \in Sources |-> {}]

Listed(pub) == Static \cup UNION {pub[s] : s \in Sources}

\* ClustersFromConfig.Get.  Names are distinct (NamesUnique), so the order of
\* the list, static first and the sources sorted, carries nothing.
Get == Listed(published)

Taken(source) == NamesOf(Static \cup UNION {published[s] : s \in Sources \ {source}})

\* The clusters of a feed whose name is free, the first of every name.
Accepted(source, feed) ==
  {feed[i] : i \in {j \in DOMAIN feed :
                      /\ feed[j].name \notin Taken(source)
                      /\ \A k \in 1..(j - 1) : feed[k].name # feed[j].name}}

UpdateSource(source, feed) ==
  published' = [published EXCEPT ![source] = Accepted(source, feed)]

\* One discovery cycle whose provider answered.
Discover(source) == \E feed \in Feeds : UpdateSource(source, feed)

(***************************************************************************)
(* No two clusters of the list share a name, whatever the sources publish  *)
(* and in whatever order: two clusters sharing a name would merge into one *)
(* set of pools (UpdateSource).                                            *)
(***************************************************************************)
NamesUnique == Distinct(Get)
=============================================================================
