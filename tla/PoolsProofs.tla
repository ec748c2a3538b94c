---------------------------- MODULE PoolsProofs ----------------------------
(***************************************************************************)
(* Proofs about ClusterRegistry and Pools, for every set of sources, feeds *)
(* and static clusters, every number of concurrent requests and pools.     *)
(***************************************************************************)
EXTENDS Pools, TLAPS

-----------------------------------------------------------------------------
(* The list of clusters. *)

\* What a source publishes are clusters of its feed, of distinct free names.
LEMMA AcceptedFacts ==
  ASSUME RegistryTypeOK, NEW source \in Sources, NEW feed \in Feeds
  PROVE  /\ Accepted(source, feed) \subseteq Cluster
         /\ Distinct(Accepted(source, feed))
         /\ \A c \in Accepted(source, feed) : c.name \notin Taken(source)
<1>1. feed \in Seq(Cluster)
  BY FeedsAssumption
<1>2. /\ DOMAIN feed = 1 .. Len(feed) /\ Len(feed) \in Nat
      /\ \A i \in DOMAIN feed : feed[i] \in Cluster
  BY <1>1
<1>3. ASSUME NEW c \in Accepted(source, feed)
      PROVE  \E j \in DOMAIN feed : /\ c = feed[j] /\ c.name \notin Taken(source)
                                    /\ \A k \in 1..(j - 1) : feed[k].name # c.name
  BY DEF Accepted
<1>4. ASSUME NEW c \in Accepted(source, feed), NEW d \in Accepted(source, feed), c.name = d.name
      PROVE  c = d
  <2>1. PICK i \in DOMAIN feed : c = feed[i] /\ \A k \in 1..(i - 1) : feed[k].name # c.name
    BY <1>3
  <2>2. PICK j \in DOMAIN feed : d = feed[j] /\ \A k \in 1..(j - 1) : feed[k].name # d.name
    BY <1>3
  <2>3. i \in Nat /\ j \in Nat /\ i >= 1 /\ j >= 1
    BY <1>2
  <2>4. ~(i < j)
    BY <1>4, <2>1, <2>2, <2>3
  <2>5. ~(j < i)
    BY <1>4, <2>1, <2>2, <2>3
  <2> QED
    BY <2>1, <2>2, <2>3, <2>4, <2>5
<1> QED
  BY <1>2, <1>3, <1>4 DEF Distinct

\* A publication keeps the names of the list distinct.
LEMMA UpdateKeepsNames ==
  ASSUME RegistryTypeOK, NamesUnique, NEW source \in Sources, NEW feed \in Feeds,
         UpdateSource(source, feed)
  PROVE  RegistryTypeOK' /\ NamesUnique'
<1> DEFINE new == Accepted(source, feed)
           others == Static \cup UNION {published[s] : s \in Sources \ {source}}
<1>1. /\ new \subseteq Cluster /\ Distinct(new)
      /\ \A c \in new : \A d \in others : c.name # d.name
  BY AcceptedFacts DEF Taken, NamesOf
<1> HIDE DEF new
<1>2. published' = [published EXCEPT ![source] = new]
  BY DEF UpdateSource, new
<1>3. RegistryTypeOK'
  BY <1>1, <1>2 DEF RegistryTypeOK
<1>4. ASSUME NEW c \in Get' PROVE c \in new \/ c \in others
  BY <1>2, <1>4 DEF Get, Listed, RegistryTypeOK
<1>5. others \subseteq Get
  BY DEF Get, Listed
<1> HIDE DEF others
<1>6. ASSUME NEW c \in Get', NEW d \in Get', c.name = d.name PROVE c = d
  BY <1>1, <1>4, <1>5, <1>6 DEF NamesUnique, Distinct
<1> QED
  BY <1>3, <1>6 DEF NamesUnique, Distinct

-----------------------------------------------------------------------------
(* The wanted connections. *)

\* A list of clusters of distinct names wants at most one connection for a slot.
LEMMA WantedOf ==
  ASSUME NEW cls, cls \subseteq Cluster, Distinct(cls)
  PROVE  /\ Wanted(cls) \subseteq Connection
         /\ \A v, w \in Wanted(cls) : v.slot = w.slot => v = w
<1>1. cls \subseteq Cluster
  OBVIOUS
<1>2. ASSUME NEW w \in Wanted(cls)
      PROVE  \E c \in cls : \E p \in DOMAIN c.conns :
               w = [slot |-> <<c.name, p>>, conn |-> c.conns[p]]
  BY DEF Wanted
<1>3. ASSUME NEW c \in cls, NEW p \in DOMAIN c.conns
      PROVE  c.name \in Names /\ p \in Places /\ c.conns[p] \in Conns
  <2>1. c.name \in Names /\ c.conns \in UNION {[D -> Conns] : D \in SUBSET Places}
    BY <1>1 DEF Cluster
  <2>2. PICK D \in SUBSET Places : c.conns \in [D -> Conns]
    BY <2>1
  <2> QED
    BY <2>1, <2>2
<1>4. Wanted(cls) \subseteq Connection
  <2> SUFFICES ASSUME NEW w \in Wanted(cls) PROVE w \in Connection
    OBVIOUS
  <2>1. PICK c \in cls : \E p \in DOMAIN c.conns :
               w = [slot |-> <<c.name, p>>, conn |-> c.conns[p]]
    BY <1>2
  <2>2. PICK p \in DOMAIN c.conns : w = [slot |-> <<c.name, p>>, conn |-> c.conns[p]]
    BY <2>1
  <2> QED
    BY <1>3, <2>2 DEF Connection, Slots
<1>5. ASSUME NEW v \in Wanted(cls), NEW w \in Wanted(cls), v.slot = w.slot
      PROVE  v = w
  <2>1. PICK c \in cls : \E p \in DOMAIN c.conns :
               v = [slot |-> <<c.name, p>>, conn |-> c.conns[p]]
    BY <1>2
  <2>2. PICK p \in DOMAIN c.conns : v = [slot |-> <<c.name, p>>, conn |-> c.conns[p]]
    BY <2>1
  <2>3. PICK d \in cls : \E q \in DOMAIN d.conns :
               w = [slot |-> <<d.name, q>>, conn |-> d.conns[q]]
    BY <1>2
  <2>4. PICK q \in DOMAIN d.conns : w = [slot |-> <<d.name, q>>, conn |-> d.conns[q]]
    BY <2>3
  <2>5. c.name = d.name /\ p = q
    BY <1>5, <2>2, <2>4
  <2>6. c = d
    BY <2>5 DEF Distinct
  <2> QED
    BY <2>2, <2>4, <2>5, <2>6
<1> QED
  BY <1>4, <1>5

\* The registry is such a list.
LEMMA WantedFacts ==
  ASSUME RegistryTypeOK, NamesUnique
  PROVE  /\ Wanted(Get) \subseteq Connection
         /\ \A v, w \in Wanted(Get) : v.slot = w.slot => v = w
<1>1. Get \subseteq Cluster
  BY StaticAssumption DEF Get, Listed, RegistryTypeOK
<1> QED
  BY <1>1, WantedOf DEF NamesUnique

\* With one pool per slot, the first critical section keeps what is wanted.
LEMMA KeptIsWanted ==
  ASSUME OnePoolPerSlot
  PROVE  Kept = {i \in pools : Bare(i) \in Wanted(Get)}
<1> SUFFICES ASSUME NEW i \in pools PROVE i = CHOOSE j \in pools : Bare(j) = Bare(i)
  BY DEF Kept
<1>1. \A j \in pools : Bare(j) = Bare(i) => j = i
  BY DEF OnePoolPerSlot, Bare
<1> QED
  BY <1>1

-----------------------------------------------------------------------------
(* Ownership of the pools: what a step of one call has to show. *)

\* The pools a call in state r answers for.
Holding(r) == Ids(r.results) \cup r.closing

\* A call keeps the invariant when what it and the registry hold afterwards is
\* divided between the two, was theirs or nobody's before, and is what is open.
LEMMA OneCallMoves ==
  ASSUME PoolsInv, NEW c \in Callers, NEW r \in Call,
         calls' = [calls EXCEPT ![c] = r], CallSound(r),
         published' = published, publishes' = publishes,
         pools' \in SUBSET Item, cached' \in SUBSET PoolIds, late' \in SUBSET PoolIds,
         open' \in SUBSET PoolIds,
         OnePoolPerSlot',
         \A i, j \in pools' : i.id = j.id => i = j,
         Holding(r) \cap Ids(pools)' = {},
         Ids(r.results) \cap r.closing = {},
         \A p \in Ids(pools)' \cup Holding(r) :
            p \in Ids(pools) \/ p \in Held(c) \/ p \notin open,
         \A p : p \in open' <=> \/ p \in Ids(pools)' \/ p \in Holding(r)
                                \/ p \in open /\ p \notin Ids(pools) /\ p \notin Held(c)
  PROVE  PoolsInv'
<1>1. /\ calls \in [Callers -> Call] /\ calls' \in [Callers -> Call]
      /\ calls'[c] = r /\ \A d \in Callers \ {c} : calls'[d] = calls[d]
  BY DEF PoolsInv, TypeOK
<1>2. Held(c)' = Holding(r) /\ \A d \in Callers \ {c} : Held(d)' = Held(d)
  BY <1>1 DEF Held, Holding, Ids
<1>3. TypeOK' /\ NamesUnique'
  BY <1>1 DEF PoolsInv, TypeOK, RegistryTypeOK, NamesUnique, Get, Listed
<1>4. \A d \in Callers : CallSound(calls[d])'
  BY <1>1 DEF PoolsInv, CallSound
<1>5. \A d \in Callers : Ids(calls[d].results)' \cap calls'[d].closing = {}
  BY <1>1 DEF PoolsInv, PoolsAccounted, Ids
<1>6. /\ \A p : p \in open <=> p \in Ids(pools) \/ \E d \in Callers : p \in Held(d)
      /\ \A d \in Callers : Held(d) \cap Ids(pools) = {}
      /\ \A d, e \in Callers : d # e => Held(d) \cap Held(e) = {}
  BY DEF PoolsInv, PoolsAccounted
<1>7. ASSUME NEW d \in Callers \ {c}
      PROVE  Held(d)' \cap Ids(pools)' = {} /\ Held(d)' \cap Held(c)' = {}
  BY <1>2, <1>6
<1>8. open' = Ids(pools)' \cup UNION {Held(d)' : d \in Callers}
  <2>1. ASSUME NEW p PROVE p \in open' <=> p \in Ids(pools)' \/ \E d \in Callers : p \in Held(d)'
    <3>1. p \in open /\ p \notin Ids(pools) /\ p \notin Held(c)
            <=> \E d \in Callers \ {c} : p \in Held(d)
      BY <1>6
    <3> QED
      BY <3>1, <1>2
  <2> QED
    BY <2>1
<1>9. \A d, e \in Callers : d # e => Held(d)' \cap Held(e)' = {}
  BY <1>2, <1>6, <1>7
<1>10. \A d \in Callers : Held(d)' \cap Ids(pools)' = {}
  BY <1>2, <1>7
<1>11. PoolsAccounted'
  BY <1>5, <1>8, <1>9, <1>10 DEF PoolsAccounted
<1> QED
  BY <1>3, <1>4, <1>11 DEF PoolsInv

\* A step that moves no pool.
LEMMA NothingMoves ==
  ASSUME PoolsInv, NEW c \in Callers, NEW r \in Call,
         calls' = [calls EXCEPT ![c] = r], CallSound(r), Holding(r) = Held(c),
         Ids(r.results) \cap r.closing = {},
         UNCHANGED <<published, pools, open, publishes>>,
         cached' \in SUBSET PoolIds, late' \in SUBSET PoolIds
  PROVE  PoolsInv'
<1>1. Ids(pools)' = Ids(pools) /\ OnePoolPerSlot' /\ pools' \in SUBSET Item /\ open' \in SUBSET PoolIds
  BY DEF Ids, PoolsInv, OnePoolPerSlot, TypeOK
<1>2. \A i, j \in pools' : i.id = j.id => i = j
  BY DEF PoolsInv, PoolsAccounted
<1>3. /\ Held(c) \cap Ids(pools) = {}
      /\ \A p : p \in Ids(pools) \/ p \in Held(c) => p \in open
  BY DEF PoolsInv, PoolsAccounted
<1> HIDE DEF PoolsInv
<1>4. \A p : p \in open' <=> \/ p \in Ids(pools)' \/ p \in Holding(r)
                             \/ p \in open /\ p \notin Ids(pools) /\ p \notin Held(c)
  BY <1>1, <1>3
<1>5. Holding(r) \cap Ids(pools)' = {}
  BY <1>1, <1>3
<1>6. \A p \in Ids(pools)' \cup Holding(r) : p \in Ids(pools) \/ p \in Held(c) \/ p \notin open
  BY <1>1
<1>7. published' = published /\ publishes' = publishes
  OBVIOUS
<1> QED
  BY ONLY <1>1, <1>2, <1>4, <1>5, <1>6, <1>7, OneCallMoves, PoolsInv, c \in Callers, r \in Call,
     calls' = [calls EXCEPT ![c] = r], CallSound(r), Ids(r.results) \cap r.closing = {},
     cached' \in SUBSET PoolIds, late' \in SUBSET PoolIds

-----------------------------------------------------------------------------
(* PoolsInv is inductive. *)

LEMMA IdleFacts ==
  Idle \in Call /\ CallSound(Idle) /\ Holding(Idle) = {}
    /\ Idle.results = {} /\ Idle.closing = {} /\ Idle.pool = {} /\ Idle.pc = "idle"
    /\ Idle.clean = FALSE
BY DEF Idle, Call, CallSound, Holding, Ids

\* What the type of the state says of one call.
LEMMA CallFacts ==
  ASSUME PoolsInv, NEW c \in Callers
  PROVE  /\ calls \in [Callers -> Call] /\ calls[c] \in Call
         /\ calls[c].pc \in {"idle", "planned", "registered", "using"}
         /\ calls[c].tasks \in SUBSET Connection /\ calls[c].results \in SUBSET Item
         /\ calls[c].closing \in SUBSET PoolIds /\ calls[c].pool \in SUBSET PoolIds
         /\ calls[c].clean \in BOOLEAN
         /\ CallSound(calls[c])
         /\ Held(c) = Ids(calls[c].results) \cup calls[c].closing
         /\ Held(c) \cap Ids(pools) = {}
         /\ Held(c) \subseteq open
         /\ Ids(pools) \subseteq open /\ open \subseteq PoolIds
BY DEF PoolsInv, TypeOK, Call, PoolsAccounted, Held

LEMMA InitPools == Init => PoolsInv
<1> SUFFICES ASSUME Init PROVE PoolsInv
  OBVIOUS
<1>1. calls \in [Callers -> Call] /\ \A c \in Callers : calls[c] = Idle
  BY IdleFacts DEF Init
<1>2. Get = Static
  BY DEF Init, RegistryInit, Get, Listed
<1>3. RegistryTypeOK /\ NamesUnique
  BY <1>2, StaticAssumption DEF Init, RegistryInit, RegistryTypeOK, NamesUnique
<1>4. TypeOK
  BY <1>1, <1>3, MaxPublishesAssumption DEF Init, TypeOK
<1>5. \A c \in Callers : Held(c) = {} /\ CallSound(calls[c])
  BY <1>1, IdleFacts DEF Held, Holding
<1>6. \A c \in Callers : Ids(calls[c].results) \cap calls[c].closing = {}
  BY <1>1, IdleFacts
<1>7. PoolsAccounted
  BY <1>5, <1>6 DEF Init, PoolsAccounted, Ids
<1> QED
  BY <1>3, <1>4, <1>5, <1>7 DEF PoolsInv, OnePoolPerSlot, Init

LEMMA PublishKeepsPools == PoolsInv /\ Publish => PoolsInv'
<1> SUFFICES ASSUME PoolsInv, Publish PROVE PoolsInv'
  OBVIOUS
<1>1. RegistryTypeOK' /\ NamesUnique'
  <2>1. PICK s \in Sources : Discover(s)
    BY DEF Publish
  <2>2. PICK feed \in Feeds : UpdateSource(s, feed)
    BY <2>1 DEF Discover
  <2> QED
    BY <2>2, UpdateKeepsNames DEF PoolsInv, TypeOK
<1>2. publishes' \in 0..MaxPublishes
  BY MaxPublishesAssumption DEF Publish, PoolsInv, TypeOK
<1>3. ASSUME NEW c \in Callers
      PROVE  /\ calls'[c] \in Call /\ CallSound(calls'[c])
             /\ calls'[c].results = calls[c].results /\ calls'[c].closing = calls[c].closing
  <2>1. calls'[c] = [calls[c] EXCEPT !.clean = FALSE]
    BY DEF Publish
  <2>2. calls[c] \in Call /\ CallSound(calls[c])
    BY CallFacts
  <2>3. /\ calls'[c] \in Call
        /\ calls'[c].pc = calls[c].pc /\ calls'[c].tasks = calls[c].tasks
        /\ calls'[c].results = calls[c].results /\ calls'[c].closing = calls[c].closing
    BY <2>1, <2>2 DEF Call
  <2> QED
    BY <2>2, <2>3 DEF CallSound
<1>4. calls' = [c \in Callers |-> [calls[c] EXCEPT !.clean = FALSE]]
  BY DEF Publish
<1>5. calls' \in [Callers -> Call]
  BY <1>3, <1>4
<1>6. TypeOK'
  BY <1>1, <1>2, <1>5 DEF Publish, PoolsInv, TypeOK
<1>7. \A c \in Callers : Held(c)' = Held(c)
  BY <1>3 DEF Held, Ids
<1>8. PoolsAccounted'
  BY <1>3, <1>7 DEF Publish, PoolsInv, PoolsAccounted, Ids
<1>9. OnePoolPerSlot'
  BY DEF Publish, PoolsInv, OnePoolPerSlot
<1> QED
  BY <1>1, <1>3, <1>6, <1>8, <1>9 DEF PoolsInv, CallSound

LEMMA PlanKeepsPools ==
  ASSUME NEW c \in Callers, PoolsInv, Plan(c) PROVE PoolsInv'
<1> DEFINE tasks == {w \in Wanted(Get) : \A i \in Kept : i.slot # w.slot}
           gone == Ids(pools \ Kept)
           r == [pc |-> "planned", tasks |-> tasks, results |-> {}, closing |-> gone,
                 pool |-> {}, clean |-> TRUE]
<1>1. /\ calls[c].pc = "idle" /\ pools' = Kept /\ calls' = [calls EXCEPT ![c] = r]
      /\ UNCHANGED <<published, open, cached, late, publishes>>
  BY DEF Plan
<1>2. /\ tasks \subseteq Connection /\ \A t, u \in tasks : t.slot = u.slot => t = u
  BY WantedFacts DEF PoolsInv, TypeOK
<1>3. Kept \subseteq pools
  BY DEF Kept
<1>4. \A i, j \in pools : i.id = j.id => i = j
  BY DEF PoolsInv, PoolsAccounted
<1>5. /\ gone \subseteq Ids(pools) /\ Ids(Kept) \subseteq Ids(pools) /\ gone \cap Ids(Kept) = {}
      /\ Ids(pools) \subseteq gone \cup Ids(Kept)
  BY <1>3, <1>4 DEF Ids
<1>6. gone \subseteq PoolIds /\ Held(c) = {} /\ Ids(pools) \subseteq open
  BY <1>1, <1>5, CallFacts DEF CallSound, Ids
<1> HIDE DEF tasks, gone
<1>7. r \in Call /\ CallSound(r) /\ Holding(r) = gone /\ Ids(r.results) \cap r.closing = {}
  BY <1>2, <1>6 DEF Call, CallSound, Holding, Ids
<1> HIDE DEF r
<1>8. /\ pools' \in SUBSET Item /\ cached' \in SUBSET PoolIds /\ late' \in SUBSET PoolIds
      /\ open' \in SUBSET PoolIds /\ OnePoolPerSlot' /\ \A i, j \in pools' : i.id = j.id => i = j
  BY <1>1, <1>3, <1>4 DEF PoolsInv, TypeOK, OnePoolPerSlot
<1>9. Ids(pools)' = Ids(Kept)
  BY <1>1 DEF Ids
<1>10. Holding(r) \cap Ids(pools)' = {}
  BY <1>5, <1>7, <1>9
<1>11. \A p \in Ids(pools)' \cup Holding(r) : p \in Ids(pools) \/ p \in Held(c) \/ p \notin open
  BY <1>5, <1>7, <1>9
<1>12. \A p : p \in open' <=> \/ p \in Ids(pools)' \/ p \in Holding(r)
                              \/ p \in open /\ p \notin Ids(pools) /\ p \notin Held(c)
  BY <1>1, <1>5, <1>6, <1>7, <1>9
<1> QED
  BY <1>1, <1>7, <1>8, <1>10, <1>11, <1>12, OneCallMoves

LEMMA CloseKeepsPools ==
  ASSUME NEW c \in Callers, PoolsInv, CloseDropped(c) PROVE PoolsInv'
<1> DEFINE r == [calls[c] EXCEPT !.closing = {}]
<1>1. /\ calls' = [calls EXCEPT ![c] = r] /\ open' = open \ calls[c].closing
      /\ calls[c].closing # {}
      /\ UNCHANGED <<published, pools, publishes>>
  BY DEF CloseDropped
<1>2. /\ calls[c] \in Call /\ CallSound(calls[c]) /\ calls[c].closing \subseteq PoolIds
      /\ Held(c) = Ids(calls[c].results) \cup calls[c].closing
      /\ Held(c) \cap Ids(pools) = {} /\ Held(c) \subseteq open /\ Ids(pools) \subseteq open
      /\ open \subseteq PoolIds
  BY CallFacts
<1>3. calls[c].results = {}
  BY <1>1, <1>2 DEF CallSound
<1>4. Ids(calls[c].results) = {}
  BY <1>3 DEF Ids
<1>5. r \in Call /\ CallSound(r) /\ r.results = {} /\ r.closing = {}
  BY <1>2, <1>3 DEF Call, CallSound
<1> HIDE DEF r
<1>6. Holding(r) = {} /\ Ids(r.results) \cap r.closing = {}
  BY <1>5 DEF Holding, Ids
<1>7. /\ pools' \in SUBSET Item /\ cached' \in SUBSET PoolIds /\ late' \in SUBSET PoolIds
      /\ open' \in SUBSET PoolIds
  BY <1>2 DEF CloseDropped, PoolsInv, TypeOK
<1>8. Ids(pools)' = Ids(pools) /\ OnePoolPerSlot' /\ \A i, j \in pools' : i.id = j.id => i = j
  BY <1>1 DEF PoolsInv, OnePoolPerSlot, PoolsAccounted, Ids
<1>9. \A p : p \in open' <=> \/ p \in Ids(pools)' \/ p \in Holding(r)
                             \/ p \in open /\ p \notin Ids(pools) /\ p \notin Held(c)
  BY <1>1, <1>2, <1>4, <1>6, <1>8
<1>10. /\ Holding(r) \cap Ids(pools)' = {}
       /\ \A p \in Ids(pools)' \cup Holding(r) : p \in Ids(pools) \/ p \in Held(c) \/ p \notin open
  BY <1>6, <1>8
<1> QED
  BY <1>1, <1>5, <1>6, <1>7, <1>8, <1>9, <1>10, OneCallMoves

LEMMA ConnectKeepsPools ==
  ASSUME NEW c \in Callers, PoolsInv, ConnectSucceeds(c) PROVE PoolsInv'
<1>1. PICK t \in calls[c].tasks, p \in PoolIds :
        /\ Fresh(p) /\ open' = open \cup {p}
        /\ calls' = [calls EXCEPT ![c].tasks = @ \ {t},
                       ![c].results = @ \cup {[slot |-> t.slot, conn |-> t.conn, id |-> p]}]
  BY DEF ConnectSucceeds
<1> DEFINE item == [slot |-> t.slot, conn |-> t.conn, id |-> p]
           tasks == calls[c].tasks \ {t}
           results == calls[c].results \cup {item}
           r == [calls[c] EXCEPT !.tasks = tasks, !.results = results]
<1>2. calls[c] \in Call /\ calls \in [Callers -> Call]
  BY CallFacts
<1>3. calls' = [calls EXCEPT ![c] = r]
  BY <1>1, <1>2
<1>4. /\ calls[c].pc = "planned" /\ calls[c].closing = {}
      /\ UNCHANGED <<published, pools, cached, late, publishes>>
  BY DEF ConnectSucceeds, Connecting
<1>5. /\ CallSound(calls[c]) /\ calls[c].tasks \subseteq Connection /\ calls[c].results \subseteq Item
      /\ Held(c) = Ids(calls[c].results) \cup calls[c].closing
      /\ Held(c) \cap Ids(pools) = {} /\ Held(c) \subseteq open /\ Ids(pools) \subseteq open
      /\ open \subseteq PoolIds
  BY CallFacts
<1>6. item \in Item /\ item.slot = t.slot /\ item.id = p
  BY <1>5 DEF Item, Connection
<1>7. p \notin open
  BY <1>1 DEF Fresh
<1> HIDE DEF item
<1>8. \A i \in calls[c].results : i.id # p /\ i.slot # t.slot
  BY <1>5, <1>7 DEF Ids, CallSound
<1>9. /\ \A i, j \in results : i.id = j.id \/ i.slot = j.slot => i = j
      /\ \A u, v \in tasks : u.slot = v.slot => u = v
      /\ \A u \in tasks, i \in results : u.slot # i.slot
  BY <1>5, <1>6, <1>8 DEF CallSound
<1>10. tasks \subseteq Connection /\ results \subseteq Item /\ Ids(results) = Ids(calls[c].results) \cup {p}
  BY <1>5, <1>6 DEF Ids
<1> HIDE DEF tasks, results
<1>11. /\ r \in Call /\ r.tasks = tasks /\ r.results = results /\ r.closing = {} /\ r.pc = "planned"
  BY <1>2, <1>4, <1>10 DEF Call
<1> HIDE DEF r
<1>12. CallSound(r)
  BY <1>9, <1>11 DEF CallSound
<1>13. Holding(r) = Held(c) \cup {p} /\ Ids(r.results) \cap r.closing = {}
  BY <1>4, <1>5, <1>10, <1>11 DEF Holding
<1>14. /\ pools' \in SUBSET Item /\ cached' \in SUBSET PoolIds /\ late' \in SUBSET PoolIds
       /\ open' \in SUBSET PoolIds
  BY <1>1, <1>4 DEF PoolsInv, TypeOK
<1>15. Ids(pools)' = Ids(pools) /\ OnePoolPerSlot' /\ \A i, j \in pools' : i.id = j.id => i = j
  BY <1>4 DEF PoolsInv, OnePoolPerSlot, PoolsAccounted, Ids
<1>16. \A q : q \in open' <=> \/ q \in Ids(pools)' \/ q \in Holding(r)
                              \/ q \in open /\ q \notin Ids(pools) /\ q \notin Held(c)
  BY <1>1, <1>5, <1>13, <1>15
<1>17. /\ Holding(r) \cap Ids(pools)' = {}
       /\ \A q \in Ids(pools)' \cup Holding(r) : q \in Ids(pools) \/ q \in Held(c) \/ q \notin open
  BY <1>5, <1>7, <1>13, <1>15
<1> QED
  BY <1>3, <1>4, <1>11, <1>12, <1>13, <1>14, <1>15, <1>16, <1>17, OneCallMoves

LEMMA FailedConnectKeepsPools ==
  ASSUME NEW c \in Callers, PoolsInv, ConnectFails(c) PROVE PoolsInv'
<1>1. PICK t \in calls[c].tasks :
        calls' = [calls EXCEPT ![c].tasks = @ \ {t}, ![c].clean = FALSE]
  BY DEF ConnectFails
<1> DEFINE tasks == calls[c].tasks \ {t}
           r == [calls[c] EXCEPT !.tasks = tasks, !.clean = FALSE]
<1>2. /\ calls[c] \in Call /\ calls \in [Callers -> Call] /\ CallSound(calls[c])
      /\ Held(c) = Ids(calls[c].results) \cup calls[c].closing
  BY CallFacts
<1>3. calls' = [calls EXCEPT ![c] = r]
  BY <1>1, <1>2
<1>4. tasks \subseteq calls[c].tasks
  OBVIOUS
<1> HIDE DEF tasks
<1>5. r \in Call /\ CallSound(r) /\ r.results = calls[c].results /\ r.closing = calls[c].closing
  BY <1>2, <1>4 DEF Call, CallSound
<1> HIDE DEF r
<1>6. Holding(r) = Held(c) /\ Ids(r.results) \cap r.closing = {}
  BY <1>2, <1>5 DEF Holding, PoolsInv, PoolsAccounted
<1>7. UNCHANGED <<published, pools, open, cached, late, publishes>>
  BY DEF ConnectFails
<1>8. cached' \in SUBSET PoolIds /\ late' \in SUBSET PoolIds
  BY <1>7 DEF PoolsInv, TypeOK
<1> QED
  BY <1>3, <1>5, <1>6, <1>7, <1>8, NothingMoves

\* What the second critical section appends and drops.
LEMMA RegisterFacts ==
  ASSUME NEW c \in Callers, PoolsInv, calls[c].closing = {}
  PROVE  LET new == Registrable(c)
             lost == calls[c].results \ new
             mine == (pools \ Ousted(c)) \cup new
             gone == Ids(lost \cup Ousted(c))
         IN  /\ new \subseteq calls[c].results
             /\ Ousted(c) \subseteq pools
             /\ mine \subseteq Item
             /\ \A i, j \in mine : i.slot = j.slot => i = j
             /\ \A i, j \in mine : i.id = j.id => i = j
             /\ gone \subseteq PoolIds
             /\ gone \cap Ids(mine) = {}
             /\ \A p : p \in gone \/ p \in Ids(mine) <=> p \in Ids(pools) \/ p \in Held(c)
<1> DEFINE res == calls[c].results
           new == Registrable(c)
           out == Ousted(c)
<1>1. /\ res \subseteq Item /\ pools \subseteq Item /\ CallSound(calls[c]) /\ Held(c) = Ids(res)
      /\ Held(c) \cap Ids(pools) = {}
  BY CallFacts DEF PoolsInv, TypeOK
<1>2. new \subseteq res /\ out \subseteq pools
  BY DEF Registrable, Ousted
<1>3. \A i \in pools \ out, r \in new : i.slot # r.slot
  BY DEF Ousted
<1>4. \A i, j \in res : i.id = j.id \/ i.slot = j.slot => i = j
  BY <1>1 DEF CallSound
<1>5. \A i, j \in pools : i.id = j.id \/ i.slot = j.slot => i = j
  BY DEF PoolsInv, PoolsAccounted, OnePoolPerSlot
<1>6. \A i \in pools, r \in res : i.id # r.id
  BY <1>1 DEF Ids
<1>7. \A i \in Item : i.id \in PoolIds
  BY DEF Item
<1> HIDE DEF res, new, out
<1> DEFINE mine == (pools \ out) \cup new
           gone == Ids((res \ new) \cup out)
<1>8. mine \subseteq Item /\ gone \subseteq PoolIds
  BY <1>1, <1>2, <1>7 DEF Ids
<1>9. \A i, j \in mine : i.slot = j.slot => i = j
  BY <1>2, <1>3, <1>4, <1>5
<1>10. \A i, j \in mine : i.id = j.id => i = j
  BY <1>2, <1>4, <1>5, <1>6
<1>11. gone \cap Ids(mine) = {}
  BY <1>2, <1>4, <1>5, <1>6 DEF Ids
<1>12. \A p : p \in gone \/ p \in Ids(mine) <=> p \in Ids(pools) \/ p \in Ids(res)
  BY <1>2 DEF Ids
<1> QED
  BY <1>1, <1>2, <1>8, <1>9, <1>10, <1>11, <1>12 DEF res, new, out

LEMMA RegisterKeepsPools ==
  ASSUME NEW c \in Callers, PoolsInv, Register(c) PROVE PoolsInv'
<1> DEFINE gone == Ids((calls[c].results \ Registrable(c)) \cup Ousted(c))
           mine == (pools \ Ousted(c)) \cup Registrable(c)
           r == [calls[c] EXCEPT !.pc = "registered", !.results = {}, !.closing = gone]
<1>1. /\ calls[c] \in Call /\ calls \in [Callers -> Call] /\ CallSound(calls[c])
      /\ Held(c) \subseteq open /\ Ids(pools) \subseteq open
  BY CallFacts
<1>2. /\ calls' = [calls EXCEPT ![c] = r] /\ pools' = mine
      /\ calls[c].closing = {} /\ calls[c].tasks = {}
      /\ UNCHANGED <<published, open, cached, late, publishes>>
  BY <1>1 DEF Register, Connecting
<1>3. /\ mine \subseteq Item
      /\ \A i, j \in mine : i.slot = j.slot => i = j
      /\ \A i, j \in mine : i.id = j.id => i = j
      /\ gone \subseteq PoolIds
      /\ gone \cap Ids(mine) = {}
      /\ \A p : p \in gone \/ p \in Ids(mine) <=> p \in Ids(pools) \/ p \in Held(c)
  BY <1>2, RegisterFacts
<1> HIDE DEF gone, mine
<1>4. r \in Call /\ CallSound(r) /\ r.results = {} /\ r.closing = gone
  BY <1>1, <1>2, <1>3 DEF Call, CallSound
<1> HIDE DEF r
<1>5. Holding(r) = gone /\ Ids(r.results) \cap r.closing = {}
  BY <1>4 DEF Holding, Ids
<1>6. /\ pools' \in SUBSET Item /\ cached' \in SUBSET PoolIds /\ late' \in SUBSET PoolIds
      /\ open' \in SUBSET PoolIds
  BY <1>2, <1>3 DEF PoolsInv, TypeOK
<1>7. OnePoolPerSlot' /\ \A i, j \in pools' : i.id = j.id => i = j
  BY <1>2, <1>3 DEF OnePoolPerSlot
<1>8. Ids(pools)' = Ids(mine)
  BY <1>2 DEF Ids
<1>9. \A p : p \in open' <=> \/ p \in Ids(pools)' \/ p \in Holding(r)
                             \/ p \in open /\ p \notin Ids(pools) /\ p \notin Held(c)
  BY <1>1, <1>2, <1>3, <1>5, <1>8
<1>10. /\ Holding(r) \cap Ids(pools)' = {}
       /\ \A p \in Ids(pools)' \cup Holding(r) : p \in Ids(pools) \/ p \in Held(c) \/ p \notin open
  BY <1>3, <1>5, <1>8
<1> QED
  BY <1>2, <1>4, <1>5, <1>6, <1>7, <1>9, <1>10, OneCallMoves

LEMMA LookupKeepsPools ==
  ASSUME NEW c \in Callers, PoolsInv, Lookup(c) PROVE PoolsInv'
<1>1. PICK i \in pools : calls' = [calls EXCEPT ![c].pc = "using", ![c].pool = {i.id}]
  BY DEF Lookup
<1> DEFINE p == i.id
           r == [calls[c] EXCEPT !.pc = "using", !.pool = {p}]
<1>2. /\ calls[c] \in Call /\ calls \in [Callers -> Call] /\ CallSound(calls[c])
      /\ Held(c) = Ids(calls[c].results) \cup calls[c].closing
  BY CallFacts
<1>3. calls' = [calls EXCEPT ![c] = r]
  BY <1>1, <1>2
<1>4. p \in PoolIds
  BY DEF PoolsInv, TypeOK, Item
<1> HIDE DEF p
<1>5. calls[c].pc = "registered" /\ calls[c].closing = {}
  BY DEF Lookup
<1>6. r \in Call /\ CallSound(r) /\ r.results = calls[c].results /\ r.closing = calls[c].closing
  BY <1>2, <1>4, <1>5 DEF Call, CallSound
<1> HIDE DEF r
<1>7. Holding(r) = Held(c) /\ Ids(r.results) \cap r.closing = {}
  BY <1>2, <1>5, <1>6 DEF Holding
<1>8. UNCHANGED <<published, pools, open, cached, late, publishes>>
  BY DEF Lookup
<1>9. cached' \in SUBSET PoolIds /\ late' \in SUBSET PoolIds
  BY <1>8 DEF PoolsInv, TypeOK
<1> QED
  BY <1>3, <1>6, <1>7, <1>8, <1>9, NothingMoves

\* A call that holds nothing may end.
LEMMA EndKeepsPools ==
  ASSUME NEW c \in Callers, PoolsInv, calls[c].pc \in {"registered", "using"},
         calls[c].closing = {}, calls' = [calls EXCEPT ![c] = Idle],
         UNCHANGED <<published, pools, open, publishes>>,
         cached' \in SUBSET PoolIds, late' \in SUBSET PoolIds
  PROVE PoolsInv'
<1>1. CallSound(calls[c]) /\ Held(c) = Ids(calls[c].results) \cup calls[c].closing
  BY CallFacts
<1>2. Held(c) = {}
  BY <1>1 DEF CallSound, Ids
<1>3. Idle \in Call /\ CallSound(Idle) /\ Holding(Idle) = Held(c) /\ Ids(Idle.results) \cap Idle.closing = {}
  BY <1>2, IdleFacts
<1> QED
  BY <1>3, NothingMoves

LEMMA FinishKeepsPools ==
  ASSUME NEW c \in Callers, NEW stores \in BOOLEAN, PoolsInv, Finish(c, stores) PROVE PoolsInv'
<1>1. calls[c].pc = "using" /\ calls' = [calls EXCEPT ![c] = Idle]
  BY DEF Finish
<1>2. calls[c].closing = {} /\ calls[c].pool \subseteq PoolIds
  BY <1>1, CallFacts DEF CallSound
<1>3. cached' \in SUBSET PoolIds /\ late' \in SUBSET PoolIds
  BY <1>2 DEF Finish, PoolsInv, TypeOK
<1>4. UNCHANGED <<published, pools, open, publishes>>
  BY DEF Finish
<1> QED
  BY <1>1, <1>2, <1>3, <1>4, EndKeepsPools

LEMMA ReturnKeepsPools ==
  ASSUME NEW c \in Callers, PoolsInv, Return(c) PROVE PoolsInv'
<1>1. cached' \in SUBSET PoolIds /\ late' \in SUBSET PoolIds
  BY DEF Return, PoolsInv, TypeOK
<1> QED
  BY <1>1, EndKeepsPools DEF Return

LEMMA StutterKeepsPools == PoolsInv /\ UNCHANGED vars => PoolsInv'
<1> SUFFICES ASSUME PoolsInv, UNCHANGED vars PROVE PoolsInv'
  OBVIOUS
<1>1. TypeOK' /\ NamesUnique' /\ OnePoolPerSlot'
  BY DEF PoolsInv, vars, TypeOK, RegistryTypeOK, NamesUnique, Get, Listed, OnePoolPerSlot
<1>2. PoolsAccounted'
  <2>1. pools' = pools /\ open' = open /\ calls' = calls
    BY DEF vars
  <2>2. Ids(pools)' = Ids(pools) /\ \A c \in Callers : Held(c)' = Held(c)
    BY <2>1 DEF Held, Ids
  <2>3. PoolsAccounted
    BY DEF PoolsInv
  <2> QED
    BY <2>1, <2>2, <2>3 DEF PoolsAccounted, Ids
<1>3. \A c \in Callers : CallSound(calls[c])'
  BY DEF PoolsInv, vars, CallSound
<1> QED
  BY <1>1, <1>2, <1>3 DEF PoolsInv

LEMMA PoolsStep == PoolsInv /\ [Next]_vars => PoolsInv'
<1> SUFFICES ASSUME PoolsInv, [Next]_vars PROVE PoolsInv'
  OBVIOUS
<1>1. CASE Publish
  BY <1>1, PublishKeepsPools
<1>2. ASSUME NEW c \in Callers, CallerStep(c) PROVE PoolsInv'
  <2>1. CASE Plan(c) BY <2>1, PlanKeepsPools
  <2>2. CASE CloseDropped(c) BY <2>2, CloseKeepsPools
  <2>3. CASE ConnectSucceeds(c) BY <2>3, ConnectKeepsPools
  <2>4. CASE ConnectFails(c) BY <2>4, FailedConnectKeepsPools
  <2>5. CASE Register(c) BY <2>5, RegisterKeepsPools
  <2>6. CASE Lookup(c) BY <2>6, LookupKeepsPools
  <2>7. CASE Return(c) BY <2>7, ReturnKeepsPools
  <2>8. CASE \E stores \in BOOLEAN : Finish(c, stores) BY <2>8, FinishKeepsPools
  <2> QED
    BY <1>2, <2>1, <2>2, <2>3, <2>4, <2>5, <2>6, <2>7, <2>8 DEF CallerStep
<1>3. CASE UNCHANGED vars
  BY <1>3, StutterKeepsPools
<1> QED
  BY <1>1, <1>2, <1>3 DEF Next

(***************************************************************************)
(* Cluster names stay distinct, a slot has at most one registered pool and *)
(* every open pool exactly one owner, for any number of concurrent calls:  *)
(* ensurePool neither leaks a pool nor closes a registered one.            *)
(***************************************************************************)
THEOREM PoolsInvariant == Spec => []PoolsInv
<1>1. Init => PoolsInv
  BY InitPools
<1>2. PoolsInv /\ [Next]_vars => PoolsInv'
  BY PoolsStep
<1> QED
  BY <1>1, <1>2, PTL DEF Spec

-----------------------------------------------------------------------------
(* What a step does to the registered connections. *)

\* The connections queries can be given.
Served == {Bare(i) : i \in pools}

LEMMA WantedUnchanged ==
  published' = published => Wanted(Get)' = Wanted(Get)
BY DEF Wanted, Get, Listed

\* Only an unwanted pool gives way to a newly connected one.
LEMMA OustedUnwanted ==
  ASSUME NEW c \in Callers, PoolsInv, NEW i \in Ousted(c)
  PROVE  Bare(i) \notin Wanted(Get)
<1>1. PICK r \in Registrable(c) : r.slot = i.slot
  BY DEF Ousted
<1>2. i \in pools /\ Bare(r) \in Wanted(Get) /\ Bare(i) # Bare(r)
  BY DEF Ousted, Registrable
<1>3. Bare(i).slot = i.slot /\ Bare(r).slot = r.slot
  BY DEF Bare
<1> QED
  BY <1>1, <1>2, <1>3, WantedFacts DEF PoolsInv, TypeOK

\* A step leaves the registered pools alone, or brings them in line with the
\* list, or adds wanted ones in the place of what their slots held.
LEMMA PoolsChange ==
  ASSUME PoolsInv, NEW c \in Callers, CallerStep(c)
  PROVE  /\ published' = published
         /\ \/ pools' = pools
            \/ pools' = {i \in pools : Bare(i) \in Wanted(Get)}
            \/ pools' = (pools \ Ousted(c)) \cup Registrable(c)
<1>1. CASE Plan(c)
  BY <1>1, KeptIsWanted DEF Plan, PoolsInv
<1>2. CASE CloseDropped(c) BY <1>2 DEF CloseDropped
<1>3. CASE ConnectSucceeds(c) BY <1>3 DEF ConnectSucceeds
<1>4. CASE ConnectFails(c) BY <1>4 DEF ConnectFails
<1>5. CASE Register(c) BY <1>5 DEF Register
<1>6. CASE Lookup(c) BY <1>6 DEF Lookup
<1>7. CASE Return(c) BY <1>7 DEF Return
<1>8. CASE \E stores \in BOOLEAN : Finish(c, stores) BY <1>8 DEF Finish
<1> QED
  BY <1>1, <1>2, <1>3, <1>4, <1>5, <1>6, <1>7, <1>8 DEF CallerStep

\* DroppedOnlyUnwanted, as a fact about one step.
DropStep == \A i \in pools \ pools' : Bare(i) \notin Wanted(Get)

(***************************************************************************)
(* However the calls interleave, a pool leaves the registry only when the  *)
(* list of that moment no longer wants its connection.                     *)
(***************************************************************************)
THEOREM WantedPoolsStay == Spec => DroppedOnlyUnwanted
<1>1. PoolsInv /\ [Next]_vars => [DropStep]_vars
  <2> SUFFICES ASSUME PoolsInv, Next PROVE DropStep
    BY DEF vars
  <2>1. CASE Publish
    BY <2>1 DEF Publish, DropStep
  <2>2. ASSUME NEW c \in Callers, CallerStep(c) PROVE DropStep
    BY <2>2, PoolsChange, OustedUnwanted DEF DropStep
  <2> QED
    BY <2>1, <2>2 DEF Next
<1> QED
  BY <1>1, PoolsInvariant, PTL DEF Spec, DroppedOnlyUnwanted, DropStep

-----------------------------------------------------------------------------
(* The directory the queries see. *)

LEMMA DirectoryStep ==
  ASSUME PoolsInv, PoolsInv', [Next]_vars
  PROVE  [Directory!Next]_<<Wanted(Get), Served>>
<1>1. CASE Publish
  <2>1. /\ Wanted(Get)' \in SUBSET Connection
        /\ \A v, w \in Wanted(Get)' : v.slot = w.slot => v = w
    <3>1. Get' \subseteq Cluster /\ Distinct(Get')
      BY StaticAssumption DEF PoolsInv, TypeOK, RegistryTypeOK, NamesUnique, Get, Listed
    <3> QED
      BY <3>1, WantedOf
  <2>2. Served' = Served
    BY <1>1 DEF Publish, Served
  <2> QED
    BY <2>1, <2>2 DEF Directory!Next, Directory!Publish, Directory!OnePerSlot,
                      Directory!Connection, Connection, Served
<1>2. ASSUME NEW c \in Callers, CallerStep(c)
      PROVE  [Directory!Next]_<<Wanted(Get), Served>>
  <2>1. Wanted(Get)' = Wanted(Get)
    BY <1>2, PoolsChange, WantedUnchanged
  <2>2. CASE pools' = pools
    BY <2>1, <2>2 DEF Served
  <2>3. CASE pools' = {i \in pools : Bare(i) \in Wanted(Get)}
    <3>1. Served' = Served \cap Wanted(Get)
      BY <2>3 DEF Served
    <3> QED
      BY <2>1, <3>1 DEF Directory!Next, Directory!Reconcile, Served
  <2>4. CASE pools' = (pools \ Ousted(c)) \cup Registrable(c)
    <3> DEFINE new == {Bare(r) : r \in Registrable(c)}
    <3>1. new \in SUBSET Wanted(Get)
      BY DEF Registrable
    <3>2. \A i : Bare(i).slot = i.slot
      BY DEF Bare
    <3>3. Served' = {s \in Served : \A n \in new : n.slot # s.slot} \cup new
      BY <2>4, <3>2 DEF Served, Ousted
    <3> QED
      BY <2>1, <3>1, <3>3 DEF Directory!Next, Directory!Serve, Served
  <2> QED
    BY <1>2, <2>2, <2>3, <2>4, PoolsChange
<1>3. CASE UNCHANGED vars
  <2>1. Wanted(Get)' = Wanted(Get) /\ Served' = Served
    BY <1>3, WantedUnchanged DEF vars, Served
  <2> QED
    BY <2>1
<1> QED
  BY <1>1, <1>2, <1>3 DEF Next

(***************************************************************************)
(* The detailed ensurePool implements the directory: what it lets go is    *)
(* unwanted, what it adds is wanted at that moment and replaces what the   *)
(* slot held.                                                              *)
(***************************************************************************)
THEOREM PoolsImplementDirectory == Spec => ImplementsDirectory
<1>1. Init => Directory!Init
  <2> SUFFICES ASSUME Init PROVE Directory!Init
    OBVIOUS
  <2>1. RegistryTypeOK /\ NamesUnique
    BY InitPools DEF PoolsInv, TypeOK
  <2>2. /\ Wanted(Get) \in SUBSET Connection
        /\ \A v, w \in Wanted(Get) : v.slot = w.slot => v = w
    BY <2>1, WantedFacts
  <2>3. {Bare(i) : i \in pools} = {}
    BY DEF Init
  <2> QED
    BY <2>2, <2>3 DEF Directory!Init, Directory!OnePerSlot, Directory!Connection, Connection
<1>2. PoolsInv /\ PoolsInv' /\ [Next]_vars => [Directory!Next]_<<Wanted(Get), {Bare(i) : i \in pools}>>
  BY DirectoryStep DEF Served
<1> QED
  BY <1>1, <1>2, PoolsInvariant, PTL DEF Spec, ImplementsDirectory, Directory!Spec

-----------------------------------------------------------------------------
(* The caches keyed by a pool. *)

CacheInv == StaleCacheOnlyByLateQuery /\ QueriesRunOnOpen

LEMMA CacheStep == PoolsInv /\ CacheInv /\ [Next]_vars => CacheInv'
<1> SUFFICES ASSUME PoolsInv, CacheInv, [Next]_vars PROVE CacheInv'
  OBVIOUS
<1>0. /\ cached \subseteq open \cup late /\ \A d \in Callers : calls[d].pool \subseteq open \cup late
      /\ calls \in [Callers -> Call]
  BY DEF CacheInv, StaleCacheOnlyByLateQuery, QueriesRunOnOpen, PoolsInv, TypeOK
<1> SUFFICES /\ cached' \subseteq open' \cup late'
             /\ \A d \in Callers : calls'[d].pool \subseteq open' \cup late'
  BY DEF CacheInv, StaleCacheOnlyByLateQuery, QueriesRunOnOpen
<1> DEFINE Goal == /\ cached' \subseteq open' \cup late'
                   /\ \A d \in Callers : calls'[d].pool \subseteq open' \cup late'
\* A step that closes nothing and gives no call a pool.
<1>1. ASSUME cached' = cached, open \subseteq open', late' = late,
             \A d \in Callers : calls'[d].pool = calls[d].pool
      PROVE  Goal
  BY <1>0, <1>1
<1>2. ASSUME Publish PROVE Goal
  <2>1. \A d \in Callers : calls'[d] = [calls[d] EXCEPT !.clean = FALSE]
    BY <1>2 DEF Publish
  <2>2. \A d \in Callers : calls[d] \in Call
    BY <1>0
  <2>3. \A d \in Callers : calls'[d].pool = calls[d].pool
    BY <2>1, <2>2 DEF Call
  <2> QED
    BY <1>1, <1>2, <2>3 DEF Publish
<1>3. ASSUME NEW c \in Callers, CallerStep(c) PROVE Goal
  <2>0. /\ calls[c] \in Call /\ DOMAIN calls = Callers /\ Ids(pools) \subseteq open
    BY <1>0, CallFacts
  <2>1. ASSUME Plan(c) PROVE Goal
    <3>1. \A d \in Callers : calls'[d].pool \subseteq calls[d].pool
      BY <2>0, <2>1 DEF Plan
    <3> QED
      BY <1>0, <2>1, <3>1 DEF Plan
  <2>2. ASSUME CloseDropped(c) PROVE Goal
    <3> DEFINE gone == calls[c].closing
    <3>1. \A d \in Callers : calls'[d].pool = calls[d].pool
      BY <2>0, <2>2 DEF CloseDropped, Call
    <3>2. /\ open' = open \ gone /\ cached' = cached \ gone
          /\ late' = late \cup {p \in gone : \E d \in Callers : p \in calls[d].pool}
      BY <2>2 DEF CloseDropped
    <3> HIDE DEF gone
    <3> QED
      BY <1>0, <3>1, <3>2
  <2>3. ASSUME ConnectSucceeds(c) PROVE Goal
    <3>1. PICK t \in calls[c].tasks, p \in PoolIds :
            /\ open' = open \cup {p}
            /\ calls' = [calls EXCEPT ![c].tasks = @ \ {t},
                  ![c].results = @ \cup {[slot |-> t.slot, conn |-> t.conn, id |-> p]}]
      BY <2>3 DEF ConnectSucceeds
    <3>2. \A d \in Callers : calls'[d].pool = calls[d].pool
      BY <2>0, <3>1 DEF Call
    <3> QED
      BY <1>1, <2>3, <3>1, <3>2 DEF ConnectSucceeds
  <2>4. ASSUME ConnectFails(c) PROVE Goal
    <3>1. \A d \in Callers : calls'[d].pool = calls[d].pool
      BY <2>0, <2>4 DEF ConnectFails, Call
    <3> QED
      BY <1>1, <2>4, <3>1 DEF ConnectFails
  <2>5. ASSUME Register(c) PROVE Goal
    <3>1. \A d \in Callers : calls'[d].pool = calls[d].pool
      BY <2>0, <2>5 DEF Register, Call
    <3> QED
      BY <1>1, <2>5, <3>1 DEF Register
  <2>6. ASSUME Lookup(c) PROVE Goal
    <3>1. PICK i \in pools : calls' = [calls EXCEPT ![c].pc = "using", ![c].pool = {i.id}]
      BY <2>6 DEF Lookup
    <3>2. i.id \in open
      BY <2>0 DEF Ids
    <3>3. calls'[c].pool = {i.id} /\ \A d \in Callers \ {c} : calls'[d] = calls[d]
      BY <2>0, <3>1 DEF Call
    <3> QED
      BY <1>0, <2>6, <3>2, <3>3 DEF Lookup
  <2>7. ASSUME Return(c) PROVE Goal
    <3>1. \A d \in Callers : calls'[d].pool \subseteq calls[d].pool
      BY <2>0, <2>7, IdleFacts DEF Return
    <3> QED
      BY <1>0, <2>7, <3>1 DEF Return
  <2>8. ASSUME NEW stores \in BOOLEAN, Finish(c, stores) PROVE Goal
    <3>1. \A d \in Callers : calls'[d].pool \subseteq calls[d].pool
      BY <2>0, <2>8, IdleFacts DEF Finish
    <3>2. cached' \subseteq cached \cup calls[c].pool
      BY <2>8 DEF Finish
    <3> QED
      BY <1>0, <2>8, <3>1, <3>2 DEF Finish
  <2> HIDE DEF Goal
  <2> QED
    BY <1>3, <2>1, <2>2, <2>3, <2>4, <2>5, <2>6, <2>7, <2>8 DEF CallerStep
<1>4. ASSUME UNCHANGED vars PROVE Goal
  BY <1>0, <1>4 DEF vars
<1> QED
  BY <1>2, <1>3, <1>4 DEF Next

(***************************************************************************)
(* Only a query that outlived its pool leaves a cache entry of a closed    *)
(* pool behind: forgetPool clears all the others, in every interleaving.   *)
(***************************************************************************)
THEOREM ForgetPoolForgets == Spec => []StaleCacheOnlyByLateQuery
<1>1. Init => CacheInv
  BY IdleFacts DEF Init, CacheInv, StaleCacheOnlyByLateQuery, QueriesRunOnOpen
<1>2. CacheInv => StaleCacheOnlyByLateQuery
  BY DEF CacheInv
<1> QED
  BY <1>1, <1>2, CacheStep, PoolsInvariant, PTL DEF Spec

-----------------------------------------------------------------------------
(* A call that met no failure and no change of the list. *)

\* While only wanted connections are registered, no step takes one away.
LEMMA ServedGrows ==
  ASSUME PoolsInv, NEW c \in Callers, CallerStep(c), Served \subseteq Wanted(Get)
  PROVE  Served \subseteq Served' /\ Served' \subseteq Wanted(Get)
<1>1. CASE pools' = pools
  BY <1>1 DEF Served
<1>2. CASE pools' = {i \in pools : Bare(i) \in Wanted(Get)}
  BY <1>2 DEF Served
<1>3. CASE pools' = (pools \ Ousted(c)) \cup Registrable(c)
  <2>1. \A r \in Registrable(c) : Bare(r) \in Wanted(Get)
    BY DEF Registrable
  <2>2. Ousted(c) = {}
    BY OustedUnwanted DEF Ousted, Served
  <2> QED
    BY <1>3, <2>1, <2>2 DEF Served
<1> QED
  BY <1>1, <1>2, <1>3, PoolsChange

\* CleanProgress of one call, with what it connected or has still to connect.
Pending(r) == r.tasks \cup {Bare(i) : i \in r.results}

LEMMA CleanByCall ==
  CleanProgress <=>
    \A d \in Callers : calls[d].clean =>
      Served \subseteq Wanted(Get) /\ Wanted(Get) \subseteq Pending(calls[d]) \cup Served
<1>1. \A d \in Callers : calls[d].tasks \cup {Bare(i) : i \in calls[d].results \cup pools}
                           = Pending(calls[d]) \cup Served
  BY DEF Pending, Served
<1> QED
  BY <1>1 DEF CleanProgress, Served

\* What the call's own step does to what it has still to do: nothing but a
\* Plan, which starts anew, or a Register takes a wanted connection from it.
LEMMA CleanOwnStep ==
  ASSUME PoolsInv, NEW c \in Callers, CallerStep(c), calls'[c].clean
  PROVE  \/ Plan(c)
         \/ Register(c) /\ calls[c].clean
         \/ calls[c].clean /\ Pending(calls[c]) \subseteq Pending(calls'[c])
<1>0. calls[c] \in Call /\ DOMAIN calls = Callers
  BY CallFacts
<1>1. CASE CloseDropped(c)
  <2>1. calls'[c] = [calls[c] EXCEPT !.closing = {}]
    BY <1>0, <1>1 DEF CloseDropped
  <2>2. /\ calls'[c].tasks = calls[c].tasks /\ calls'[c].results = calls[c].results
        /\ calls'[c].clean = calls[c].clean
    BY <1>0, <2>1 DEF Call
  <2> QED
    BY <2>2 DEF Pending
<1>2. CASE ConnectSucceeds(c)
  <2>1. PICK t \in calls[c].tasks, p \in PoolIds :
          calls' = [calls EXCEPT ![c].tasks = @ \ {t},
                ![c].results = @ \cup {[slot |-> t.slot, conn |-> t.conn, id |-> p]}]
    BY <1>2 DEF ConnectSucceeds
  <2> DEFINE item == [slot |-> t.slot, conn |-> t.conn, id |-> p]
  <2>2. /\ calls'[c].tasks = calls[c].tasks \ {t}
        /\ calls'[c].results = calls[c].results \cup {item}
        /\ calls'[c].clean = calls[c].clean
    BY <1>0, <2>1 DEF Call
  <2>3. t \in Connection
    BY CallFacts
  <2>4. Bare(item) = t
    BY <2>3 DEF Bare, Connection
  <2> HIDE DEF item
  <2> QED
    BY <2>2, <2>4 DEF Pending
<1>3. CASE ConnectFails(c)
  <2>1. calls'[c].clean = FALSE
    BY <1>0, <1>3 DEF ConnectFails, Call
  <2> QED
    BY <2>1
<1>4. CASE Lookup(c)
  <2>1. PICK i \in pools : calls' = [calls EXCEPT ![c].pc = "using", ![c].pool = {i.id}]
    BY <1>4 DEF Lookup
  <2>2. /\ calls'[c].tasks = calls[c].tasks /\ calls'[c].results = calls[c].results
        /\ calls'[c].clean = calls[c].clean
    BY <1>0, <2>1 DEF Call
  <2> QED
    BY <2>2 DEF Pending
<1>5. CASE Return(c) \/ \E stores \in BOOLEAN : Finish(c, stores)
  <2>1. calls'[c] = Idle
    BY <1>0, <1>5 DEF Return, Finish
  <2> QED
    BY <2>1, IdleFacts
<1>6. CASE Register(c)
  <2>1. calls'[c].clean = calls[c].clean
    BY <1>0, <1>6 DEF Register, Call
  <2> QED
    BY <1>6, <2>1
<1> QED
  BY <1>1, <1>2, <1>3, <1>4, <1>5, <1>6 DEF CallerStep

LEMMA CleanStep == PoolsInv /\ CleanProgress /\ [Next]_vars => CleanProgress'
<1> SUFFICES ASSUME PoolsInv, CleanProgress, [Next]_vars PROVE CleanProgress'
  OBVIOUS
<1>0. \A d \in Callers : calls[d].clean =>
        Served \subseteq Wanted(Get) /\ Wanted(Get) \subseteq Pending(calls[d]) \cup Served
  BY CleanByCall
<1> DEFINE Goal == \A d \in Callers : calls'[d].clean =>
        Served' \subseteq Wanted(Get)' /\ Wanted(Get)' \subseteq Pending(calls'[d]) \cup Served'
<1>1. Goal => CleanProgress'
  <2>1. \A d \in Callers : calls'[d].tasks \cup {Bare(i) : i \in calls'[d].results \cup pools'}
                           = Pending(calls'[d]) \cup Served'
    BY DEF Pending, Served
  <2> QED
    BY <2>1 DEF CleanProgress, Served
<1>2. ASSUME Publish PROVE Goal
  <2>1. \A d \in Callers : calls[d] \in Call /\ calls'[d] = [calls[d] EXCEPT !.clean = FALSE]
    BY <1>2 DEF Publish, PoolsInv, TypeOK
  <2>2. \A d \in Callers : calls'[d].clean = FALSE
    BY <2>1 DEF Call
  <2> QED
    BY <2>2
<1>3. ASSUME NEW c \in Callers, CallerStep(c), NEW d \in Callers, calls'[d].clean
      PROVE  Served' \subseteq Wanted(Get)' /\ Wanted(Get)' \subseteq Pending(calls'[d]) \cup Served'
  <2>1. Wanted(Get)' = Wanted(Get)
    BY <1>3, PoolsChange, WantedUnchanged
  <2>2. ASSUME calls[d].clean, Pending(calls[d]) \subseteq Pending(calls'[d])
        PROVE  Served' \subseteq Wanted(Get) /\ Wanted(Get) \subseteq Pending(calls'[d]) \cup Served'
    BY <1>0, <1>3, <2>2, ServedGrows
  <2>3. CASE d # c
    <3>1. calls'[d] = calls[d]
      BY <1>3, <2>3 DEF CallerStep, Plan, CloseDropped, ConnectSucceeds, ConnectFails,
                        Register, Lookup, Return, Finish, PoolsInv, TypeOK
    <3> QED
      BY <1>3, <2>1, <2>2, <3>1
  <2>4. ASSUME d = c, Plan(c)
        PROVE  Served' \subseteq Wanted(Get) /\ Wanted(Get) \subseteq Pending(calls'[d]) \cup Served'
    <3>1. pools' = {i \in pools : Bare(i) \in Wanted(Get)} /\ pools' = Kept
      BY <2>4, KeptIsWanted DEF Plan, PoolsInv
    <3>2. calls'[c].tasks = {w \in Wanted(Get) : \A i \in pools' : i.slot # w.slot}
      BY <2>4, <3>1 DEF Plan, PoolsInv, TypeOK
    <3>3. ASSUME NEW w \in Wanted(Get), NEW i \in pools', i.slot = w.slot PROVE w \in Served'
      <4>1. Bare(i) \in Wanted(Get) /\ Bare(i).slot = w.slot
        BY <3>1, <3>3 DEF Bare
      <4>2. Bare(i) = w
        BY <4>1, WantedFacts DEF PoolsInv, TypeOK
      <4> QED
        BY <4>2 DEF Served
    <3> QED
      BY <2>4, <3>1, <3>2, <3>3 DEF Served, Pending
  <2>5. ASSUME d = c, Register(c), calls[c].clean
        PROVE  Served' \subseteq Wanted(Get) /\ Wanted(Get) \subseteq Pending(calls'[d]) \cup Served'
    <3>1. Served \subseteq Wanted(Get) /\ Wanted(Get) \subseteq Pending(calls[c]) \cup Served
      BY <1>0, <2>5
    <3>2. Served \subseteq Served' /\ Served' \subseteq Wanted(Get)
      BY <1>3, <3>1, ServedGrows
    <3>3. calls[c].tasks = {} /\ pools' = (pools \ Ousted(c)) \cup Registrable(c)
      BY <2>5 DEF Register
    <3>4. ASSUME NEW r \in calls[c].results, Bare(r) \in Wanted(Get), Bare(r) \notin Served
          PROVE  Bare(r) \in Served'
      <4>1. r \in Registrable(c)
        BY <3>4 DEF Registrable, Served
      <4> QED
        BY <3>3, <4>1 DEF Served
    <3> QED
      BY <3>1, <3>2, <3>3, <3>4 DEF Pending
  <2> QED
    BY <1>3, <2>1, <2>2, <2>3, <2>4, <2>5, CleanOwnStep
<1>4. ASSUME UNCHANGED vars PROVE Goal
  <2>1. Wanted(Get)' = Wanted(Get) /\ Served' = Served /\ calls' = calls
    BY <1>4, WantedUnchanged DEF vars, Served
  <2> QED
    BY <1>0, <2>1
<1>5. (\E c \in Callers : CallerStep(c)) => Goal
  BY <1>3
<1> HIDE DEF Goal
<1> QED
  BY <1>1, <1>2, <1>4, <1>5 DEF Next

(***************************************************************************)
(* A call whose connects all succeeded and during which the list did not   *)
(* change ends with exactly the wanted connections registered, whatever    *)
(* the other calls did meanwhile and from whatever older lists.            *)
(***************************************************************************)
THEOREM CleanCallIsServed == Spec => []ServedWhenClean
<1>1. Init => CleanProgress
  BY IdleFacts DEF Init, CleanProgress
<1>2. PoolsInv /\ CleanProgress => ServedWhenClean
  <2> SUFFICES ASSUME PoolsInv, CleanProgress, NEW c \in Callers,
                      calls[c].pc = "registered", calls[c].clean
               PROVE  Served = Wanted(Get)
    BY DEF ServedWhenClean, Served
  <2>1. calls[c].tasks = {} /\ calls[c].results = {}
    BY CallFacts DEF CallSound
  <2>2. Pending(calls[c]) = {}
    BY <2>1 DEF Pending
  <2> QED
    BY <2>2, CleanByCall
<1> QED
  BY <1>1, <1>2, CleanStep, PoolsInvariant, PTL DEF Spec
=============================================================================
