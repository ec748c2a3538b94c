-------------------------------- MODULE Pools --------------------------------
(***************************************************************************)
(* The connection pools of the monitored servers                           *)
(* (internal/repository/common.go, PgxPool.ensurePool).  Every query first *)
(* brings the pools in line with the cluster list: under the lock it drops *)
(* the pools the list no longer wants and plans the missing ones; it       *)
(* connects without the lock, while other calls do the same; under the     *)
(* lock again it registers the pools that the list, read once more, still  *)
(* wants.  Pools that lost are closed after each unlock.                   *)
(***************************************************************************)
EXTENDS ClusterRegistry

CONSTANTS
  Callers,       \* requests calling ensurePool
  PoolIds,       \* identities (pointers) of pools
  MaxPublishes   \* bound: discovery cycles that publish

ASSUME MaxPublishesAssumption == MaxPublishes \in Nat

VARIABLES
  pools,      \* PgxPool.pools: the registered items
  open,       \* pools created and not closed yet
  cached,     \* pools with an entry in the caches keyed by the pool's pointer
  calls,      \* the state of every request
  late,       \* history: pools closed while a request was using them
  publishes   \* bounded count of discovery cycles

vars == <<published, pools, open, cached, calls, late, publishes>>

Slots == Names \X Places
Connection == [slot : Slots, conn : Conns]
Item == [slot : Slots, conn : Conns, id : PoolIds]

Call == [pc : {"idle", "planned", "registered", "using"},
         tasks : SUBSET Connection,    \* connects not finished yet
         results : SUBSET Item,        \* connected, not registered yet
         closing : SUBSET PoolIds,     \* dropped under the lock, to be closed
         pool : SUBSET PoolIds,        \* the pool the query runs on
         clean : BOOLEAN]              \* history: see ServedWhenClean

Idle == [pc |-> "idle", tasks |-> {}, results |-> {}, closing |-> {},
         pool |-> {}, clean |-> FALSE]

\* The shape of the registry, the pools and the calls.
TypeOK ==
  /\ RegistryTypeOK
  /\ pools \in SUBSET Item
  /\ open \in SUBSET PoolIds
  /\ cached \in SUBSET PoolIds
  /\ calls \in [Callers -> Call]
  /\ late \in SUBSET PoolIds
  /\ publishes \in 0..MaxPublishes

Init ==
  /\ RegistryInit
  /\ pools = {}
  /\ open = {}
  /\ cached = {}
  /\ calls = [c \in Callers |-> Idle]
  /\ late = {}
  /\ publishes = 0

-----------------------------------------------------------------------------
Ids(items) == {i.id : i \in items}

Bare(i) == [slot |-> i.slot, conn |-> i.conn]

\* desiredConns, and lookup as membership.
Wanted(cls) ==
  UNION {{[slot |-> <<c.name, p>>, conn |-> c.conns[p]] : p \in DOMAIN c.conns}
           : c \in cls}

\* Mutated form: a pool whose connection changed is kept for its slot.
KeptBySlot ==
  {i \in pools : /\ \E w \in Wanted(Get) : w.slot = i.slot
                 /\ i = CHOOSE j \in pools : Bare(j) = Bare(i)}

\* The items the first critical section keeps: wanted with the connection
\* they have, and one of a slot.
Kept ==
  {i \in pools : /\ Bare(i) \in Wanted(Get)
                 /\ i = CHOOSE j \in pools : Bare(j) = Bare(i)}

-----------------------------------------------------------------------------
\* A discovery cycle publishes; a cycle that failed changes nothing.
Publish ==
  /\ publishes < MaxPublishes
  /\ \E s \in Sources : Discover(s)
  /\ calls' = [c \in Callers |-> [calls[c] EXCEPT !.clean = FALSE]]
  /\ publishes' = publishes + 1
  /\ UNCHANGED <<pools, open, cached, late>>

\* ensurePool's first critical section.
Plan(c) ==
  /\ calls[c].pc = "idle"
  /\ pools' = Kept
  /\ calls' = [calls EXCEPT ![c] =
       [pc |-> "planned",
        tasks |-> {w \in Wanted(Get) : \A i \in Kept : i.slot # w.slot},
        results |-> {},
        closing |-> Ids(pools \ Kept),
        pool |-> {},
        clean |-> TRUE]]
  /\ UNCHANGED <<published, open, cached, late, publishes>>

\* Mutated form: the caches of a closed pool are not dropped.
CloseKeepingCaches(c) ==
  /\ calls[c].closing # {}
  /\ open' = open \ calls[c].closing
  /\ late' = late \cup {p \in calls[c].closing : \E d \in Callers : p \in calls[d].pool}
  /\ calls' = [calls EXCEPT ![c].closing = {}]
  /\ UNCHANGED <<published, pools, cached, publishes>>

\* forgetPool and Close of the pools a critical section dropped.
CloseDropped(c) ==
  /\ calls[c].closing # {}
  /\ open' = open \ calls[c].closing
  /\ cached' = cached \ calls[c].closing
  /\ late' = late \cup {p \in calls[c].closing : \E d \in Callers : p \in calls[d].pool}
  /\ calls' = [calls EXCEPT ![c].closing = {}]
  /\ UNCHANGED <<published, pools, publishes>>

Connecting(c) == calls[c].pc = "planned" /\ calls[c].closing = {}

\* An identity no pool of the process has or is still remembered by.
Fresh(p) ==
  p \notin open \cup cached \cup late \cup UNION {calls[d].pool : d \in Callers}

ConnectSucceeds(c) ==
  /\ Connecting(c)
  /\ \E t \in calls[c].tasks, p \in PoolIds :
       /\ Fresh(p)
       /\ open' = open \cup {p}
       /\ calls' = [calls EXCEPT ![c].tasks = @ \ {t},
                      ![c].results = @ \cup {[slot |-> t.slot, conn |-> t.conn, id |-> p]}]
  /\ UNCHANGED <<published, pools, cached, late, publishes>>

\* Logged and skipped: the call goes on without this slot.
ConnectFails(c) ==
  /\ Connecting(c)
  /\ \E t \in calls[c].tasks :
       calls' = [calls EXCEPT ![c].tasks = @ \ {t}, ![c].clean = FALSE]
  /\ UNCHANGED <<published, pools, open, cached, late, publishes>>

\* Mutated form: the list the call planned from decides, not the latest one.
RegistrableAsPlanned(c) ==
  {r \in calls[c].results : \A i \in pools : Bare(i) # Bare(r)}

\* Mutated form: the registered items are not looked at again.
RegistrableTwice(c) ==
  {r \in calls[c].results : Bare(r) \in Wanted(Get)}

\* The connected pools that stay: still wanted, and the slot does not hold the
\* same connection already.
Registrable(c) ==
  {r \in calls[c].results : /\ Bare(r) \in Wanted(Get)
                            /\ \A i \in pools : Bare(i) # Bare(r)}

Ousted(c) == {i \in pools : \E r \in Registrable(c) : r.slot = i.slot}

\* Mutated form: only the replaced pool is closed.
RegisterLosing(c) ==
  /\ Connecting(c)
  /\ calls[c].tasks = {}
  /\ pools' = (pools \ Ousted(c)) \cup Registrable(c)
  /\ calls' = [calls EXCEPT ![c].pc = "registered",
                 ![c].results = {},
                 ![c].closing = Ids(Ousted(c))]
  /\ UNCHANGED <<published, open, cached, late, publishes>>

\* ensurePool's second critical section.
Register(c) ==
  /\ Connecting(c)
  /\ calls[c].tasks = {}
  /\ pools' = (pools \ Ousted(c)) \cup Registrable(c)
  /\ calls' = [calls EXCEPT ![c].pc = "registered",
                 ![c].results = {},
                 ![c].closing = Ids((calls[c].results \ Registrable(c)) \cup Ousted(c))]
  /\ UNCHANGED <<published, open, cached, late, publishes>>

\* ensurePool returned: the caller looks a pool up under the read lock.  (Some
\* callers take several pools; a call takes one here.)
Lookup(c) ==
  /\ calls[c].pc = "registered" /\ calls[c].closing = {}
  /\ \E i \in pools :
       calls' = [calls EXCEPT ![c].pc = "using", ![c].pool = {i.id}]
  /\ UNCHANGED <<published, pools, open, cached, late, publishes>>

\* The slot asked for has no pool, or the caller only lists the clusters.
Return(c) ==
  /\ calls[c].pc = "registered" /\ calls[c].closing = {}
  /\ calls' = [calls EXCEPT ![c] = Idle]
  /\ UNCHANGED <<published, pools, open, cached, late, publishes>>

\* The query ends; what it resolved about the server (extension schema,
\* version, statistics source), a failed lookup too, may be stored by pointer.
Finish(c, stores) ==
  /\ calls[c].pc = "using"
  /\ cached' = IF stores THEN cached \cup calls[c].pool ELSE cached
  /\ calls' = [calls EXCEPT ![c] = Idle]
  /\ UNCHANGED <<published, pools, open, late, publishes>>

CallerStep(c) ==
  \/ Plan(c) \/ CloseDropped(c)
  \/ ConnectSucceeds(c) \/ ConnectFails(c)
  \/ Register(c) \/ Lookup(c) \/ Return(c)
  \/ \E stores \in BOOLEAN : Finish(c, stores)

Next == Publish \/ \E c \in Callers : CallerStep(c)

Spec == Init /\ [][Next]_vars

-----------------------------------------------------------------------------
(***************************************************************************)
(* A slot has at most one registered pool, however many calls planned it   *)
(* at once and from whatever lists: the second critical section looks at   *)
(* the registered items again before it appends.                           *)
(***************************************************************************)
OnePoolPerSlot == \A i, j \in pools : i.slot = j.slot => i = j

Held(c) == Ids(calls[c].results) \cup calls[c].closing

(***************************************************************************)
(* Every open pool has exactly one owner: it is registered, or one call    *)
(* has just connected it or is about to close it.  No pool leaks when two  *)
(* calls connect the same slot, and none is closed while it is registered  *)
(* (ensurePool's dropped and toClose lists).                               *)
(***************************************************************************)
PoolsAccounted ==
  /\ open = Ids(pools) \cup UNION {Held(c) : c \in Callers}
  /\ \A i, j \in pools : i.id = j.id => i = j
  /\ \A c \in Callers : Held(c) \cap Ids(pools) = {}
  /\ \A c, d \in Callers : c # d => Held(c) \cap Held(d) = {}
  /\ \A c \in Callers : Ids(calls[c].results) \cap calls[c].closing = {}

\* What a call holds at each point of ensurePool: it plans and connects one
\* pool per slot, and what it dropped is closed before it connects.
CallSound(r) ==
  /\ r.pc # "planned" => r.tasks = {} /\ r.results = {}
  /\ r.pc \in {"idle", "using"} => r.closing = {}
  /\ r.results # {} => r.closing = {}
  /\ \A i, j \in r.results : i.id = j.id \/ i.slot = j.slot => i = j
  /\ \A t, u \in r.tasks : t.slot = u.slot => t = u
  /\ \A t \in r.tasks, i \in r.results : t.slot # i.slot

(***************************************************************************)
(* The invariant every step of the calls and of discovery preserves.       *)
(***************************************************************************)
PoolsInv ==
  /\ TypeOK
  /\ NamesUnique
  /\ OnePoolPerSlot
  /\ PoolsAccounted
  /\ \A c \in Callers : CallSound(calls[c])

(***************************************************************************)
(* A call all of whose connects succeeded, and during which the list did   *)
(* not change, ends with every wanted slot registered with the wanted      *)
(* connection: no concurrent call working from an older list takes one     *)
(* away or puts an outdated one back (the re-read at the second lock).     *)
(***************************************************************************)
ServedWhenClean ==
  \A c \in Callers :
    calls[c].pc = "registered" /\ calls[c].clean =>
      {Bare(i) : i \in pools} = Wanted(Get)

(***************************************************************************)
(* A cache entry of a closed pool can only be there because a query was    *)
(* still using the pool when it was closed and stored its answer           *)
(* afterwards; forgetPool leaves none of the entries made before.          *)
(***************************************************************************)
StaleCacheOnlyByLateQuery == cached \subseteq open \cup late

\* What makes ServedWhenClean inductive: while a call is clean, only wanted
\* connections are registered, and every wanted one is registered, connected by
\* the call or still to be connected by it.
CleanProgress ==
  \A c \in Callers : calls[c].clean =>
    /\ {Bare(i) : i \in pools} \subseteq Wanted(Get)
    /\ Wanted(Get) \subseteq calls[c].tasks \cup {Bare(i) : i \in calls[c].results \cup pools}

\* What makes StaleCacheOnlyByLateQuery inductive: the pool a query runs on is
\* open, or was closed under it.
QueriesRunOnOpen == \A c \in Callers : calls[c].pool \subseteq open \cup late

(***************************************************************************)
(* A registered pool is taken from the queries only when the list of that  *)
(* moment wants another connection, or none, for its slot: never because a *)
(* concurrent call connected the same thing.                               *)
(***************************************************************************)
DroppedOnlyUnwanted ==
  [][\A i \in pools \ pools' : Bare(i) \notin Wanted(Get)]_vars

-----------------------------------------------------------------------------
Directory == INSTANCE PoolDirectory WITH
  wanted <- Wanted(Get),
  served <- {Bare(i) : i \in pools}

(***************************************************************************)
(* ensurePool, whatever its interleavings, is the directory of             *)
(* PoolDirectory: what it adds is wanted at the moment it is added.        *)
(***************************************************************************)
ImplementsDirectory == Directory!Spec
=============================================================================
