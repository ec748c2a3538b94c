# Dasha: TLA+ models, checks and proofs

Dasha monitors fleets of PostgreSQL clusters. Its Go backend reads the servers,
takes snapshots of them when something happens, keeps them in a storage
database, and answers a web UI and an MCP server from live reads and stored
snapshots. This directory models the parts of the backend that keep state and
run concurrently, checks them with TLC and proves their main invariants with
TLAPS. Paths below are relative to `src/backend/internal/`.

## 1. Inventory

### The auto-snapshot daemon (`autosnapshot/`, `storage/`)

One goroutine per process, one working process at a time. Every poll interval it
reads the configuration and then, for every cluster and host, runs the triggers,
works off deferred snapshots, captures hot objects and IO statistics, and runs
retention.

| Part | State | Operations | Interacts with |
|---|---|---|---|
| Leader election (`leader.go`) | a PostgreSQL session-level advisory lock, a heartbeat row | acquire with retry, heartbeat, release | the server that owns the lock; the UI reads the row |
| Triggers (`daemon.go`, `triggers.go`) | per host: sample window, forming spike, open incident, recovery, last role (memory); debounce map (memory) | probe, fire, drop, role change, debounce | takes snapshots, enqueues and cancels follow-ups |
| Deferred queue (`storage/autosnapshot.go`) | one row per host | enqueue (upsert), cancel, claim (`DELETE ... RETURNING`) | filled by a spike, emptied by a drop or by the daemon |
| Hot objects (`hot.go`, `schedule.go`, `hotobjects/`, `storage/hotobjects.go`) | anchors per host (last counters), snapshots with windows, last attempt (memory) | sample hosts, build deltas, store, age-based retention | cumulative statistics of live servers; the health score reads cold tables |
| IO statistics (`io.go`, `statio/`, `storage/statio.go`, `http/v1_io.go`) | captures per host, last attempt (memory) | capture, drop partitions, serve a history of at most so many points | live servers; a history request reads the table twice |
| Size retention, lock capture | same kind of tables | drop partitions, sample | - |

Hard here: everything in memory is lost in a crash, and the process can die
between any two commits; acknowledgements are lost to deadlines; the servers
change (load, resets, DDL, switchovers) between two queries of one sweep; lock,
session and daemon have three different lifetimes.

Correct means: no two daemons work; a snapshot report describes one current
spike; the debounce holds over restarts; each incident has at most one
follow-up, none once it is resolved; stored intervals tile time; a quiet or
observed time is backed by captures.

### Fleet health (`healthscore/fleet.go`)

Callers ask for the worst instances of a set of clusters. A flight per set of
instances computes the answer in a goroutine of its own, shared by all callers
of the set, bounded by `max_computations`, a pool of slots and a time budget;
it then goes on to sweep the instances it passed over. Hard here: the flight
table, its expiry timers, the slots and the counters are touched by callers,
flight goroutines, jobs and timers. Correct means: one computation per set, no
slot lost, the limit kept, every caller answered.

### Clusters and connection pools (`config/config.go`, `discovery/`, `repository/common.go`)

The list of clusters is the static ones plus what every discovery source
published last; a source's loop publishes a whole list or, when its provider
fails, nothing. Every query first calls `ensurePool`, which brings the pools in
line with the list in two critical sections with the connects, of all callers at
once, between them. Pools are closed after the unlock; caches of what is known
of a server are keyed by the pool's pointer. Correct means: cluster names are
unique; one pool per host and database; none leaked, closed twice or closed
while registered; none registered for a connection the list no longer wants; no
cache entry of a closed pool but a late one.

### Personal access tokens (`deps/container.go`, `deps/pat_sweeper.go`, `storage/api_tokens.go`, `http/pat.go`)

A bounded cache of decisions with two lifetimes before a table; the lookup runs
without the lock, revocation and the idle sweep write the table and do not reach
the cache, and a use is recorded once per interval only. Correct means: stale
decisions live no longer than they must, in both directions; a used token is not
swept as idle.

### Seasonal baselines (`metrics/service.go`)

Callers share refreshes of a cache per key: a key in flight is awaited. Correct
means: a flight has one owner and is closed once, a key is fetched once per
lifetime, every call returns, also when contexts are cancelled.

### Other parts

The activity sampler, the instance scorer's coalesced reads and the log-insight
writer keep a little concurrent state of the same shapes and are not modelled.
Analysers (plans, SQL, schema lint, index advice, health rules), query texts,
HTTP handlers, the MCP server, generated code and the frontend are pure
functions or I/O and are left out; PROJECT.json lists each with its reason.

## 2. Modules

| Module | Contents |
|---|---|
| `HostState` | the per-host spike state machine as operators on the `hostState` record |
| `Autosnapshot` | the daemon of one cluster: poll loop, triggers, deferred queue, crash, restart; extends `HostState` |
| `LeaderElection` | daemons, the lock's session, heartbeats |
| `HotObjects` | servers, schedule, sweep, deltas, anchors, cold tables of one database |
| `Fleet` | callers, flights, slots, jobs, sweep, expiry |
| `DeferredQueue` | abstract: what the follow-ups promise; `Autosnapshot` implements it |
| `ClusterRegistry` | the cluster list and the discovery cycles |
| `Pools` | concurrent `ensurePool` calls over the registry; extends `ClusterRegistry` |
| `PoolDirectory` | abstract: a directory of wanted connections; `Pools` implements it |
| `Tokens` | token table, resolver with its cache, revocation, idle sweep |
| `Baselines` | the shared refresh of baselines |
| `IOHistory` | one host's IO counters, captures, retention and a history request |
| `MC*` | the constants of the TLC runs |
| `AutosnapshotProofs` | theorems about `Autosnapshot`: the follow-ups and the debounce; candidates, dips, reports and drops |
| `LeaderElectionProofs`, `HotObjectsProofs`, `FleetProofs`, `PoolsProofs`, `TokensProofs`, `BaselinesProofs`, `IOHistoryProofs` | theorems about the module of that name |

An operator commented "Mutated form" is the definition below it with a
plausible bug; it is used only to see that a property notices.

### Autosnapshot

`hosts`, `lastAuto` are `d.hosts`, `d.lastAuto`; `pending` is
`autosnapshot_pending` (the due time, one row per host); `stored` the newest
`created_at` of a host's automatic snapshots. `snap`, `hist`, `probes`
and `onset` are history: what was stored last, what daemons were told, what was
probed, when the open incident began. An
action is a stretch of the goroutine that ends at a commit, and `pc` says where
it is: `Poll` (loop and tick), `Probe`/`SkipProbe` (`tickActivitySpike` with
`handleRecovery` and the spike snapshot), `Enqueue`, `Cancel`,
`SeeRole`/`SkipRole` (`tickRoleChange`), `Claim`/`SkipClaim` and `TakeDeferred`
(`processPending`), `Abandon` (a panic `processClusterSafe` recovers), `Crash`,
`Outage`, `Restart` (`Run` up to the loop, `seedDebounce`).

Data is abstracted as follows. Time counts poll intervals. A threshold is kept
as the counts it is the average of, and comparisons are cross-multiplied, which
is the code's `float64` comparison without rounding. `takeSnapshot` has three
outcomes: stored and acknowledged, nothing stored, stored but not acknowledged.
Reports hold what the candidate's record says. One cluster is modelled: the
state of two clusters is disjoint, except for the loop's order.

### LeaderElection

`holder` is the daemon whose session owns the advisory lock. `LoseAnswer`: the
lock is granted, the answer is lost, the connection dropped. `Reap`: the server
finds a dead session. `LoseSession`: the session is lost under a working
daemon. A heartbeat is sent, and lands or is lost, possibly after its daemon
stopped, because nobody waits for the heartbeat goroutine. Time counts
heartbeat intervals and never waits for anybody: an `UPDATE` may take any number
of them, and meanwhile the ticker's channel keeps one tick and drops the others.
`setbacks` is history: the heartbeats of a working daemon that failed and the
intervals they were late since the last one landed. One setback does not make
`GetLeaderInfo` call a working leader dead (`LeaderShownAlive`); two may, the
`UPDATE` having no deadline. A restarted daemon is a new member of `Daemons`.
`storage.leader_election` is on in the model. It is off by default; then `Run`
takes no lock, every process started works, and `OneWorks` says nothing.

### HotObjects

A relation's counters are one number and relation ids are numbers that are never
reused. `SampleTables` and `SampleIndexes` are the two queries of a host with
the servers running in between; `MissHost` a failed query or anchor read;
`Store` the one transaction of snapshot and anchors; `GiveUp` all the ways a
capture ends with nothing stored. Where the code ranges over a map and breaks,
any entry may come (`FirstAnchors`). The activity behind every row (`mine` on
the host, `all` host by host, `term` the switchovers so far) is history the
properties compare with. The servers are modelled from how the code uses them: writes reach tables on the
primary, any host reads indexes, a reset moves `stats_reset` and zeroes the
counters, DDL changes the relation ids behind a name, a clean switchover keeps
statistics. `torn` is history: a reset, or the first table of an empty
database, fell between the two queries of a host. The properties of the capture
are stated for runs where that did not happen; run `hot_epoch` shows what
happens when it does.

The time at which the sweep judges the schedule and the `capturedAt` of the
capture are one instant in the model; for later databases of a long sweep the
code has them minutes apart.

### Fleet

`flights` is `f.flights` (0 is no entry), `fl` every flight ever started,
`free` the free slots, `sweeper` the winner of `f.sweeping`. A flight's `pc` is
where its goroutine is; its instances are three counts: candidates, instances
without metrics, and the rest for the sweep. An action is what a goroutine does
between two points where another can get in. `Deadline` is the budget's end.
One pass of the sweep stands for its chunks.

### DeferredQueue and its refinement

The abstract queue has, per host, a due time, and sets of hosts whose spike was
just stored (`armed`) and whose follow-up was handed to the daemon (`held`).
`Autosnapshot!Queue` maps them to `pending`, to the host at `pc = "enqueue"` and
to `claimed`; `ImplementsQueue` is the abstract specification under this
mapping. A panic between the spike and its enqueue, and a crash, are its
`Forget` (the follow-up is lost); nothing brings one back.

### ClusterRegistry, Pools and PoolDirectory

A cluster is a name and, per place (a host and a database), the connection
parameters; `published` is `ClustersFromConfig.discovered`, `Accepted` the
loop over a feed. `Pools` keeps `pools` as a set of items, the pools opened and
not closed (`open`), the pools a pointer-keyed cache has an entry of (`cached`)
and one record per call. `Plan` is the first critical section, `CloseDropped`
what follows an unlock, `ConnectSucceeds`/`ConnectFails` one of the parallel
connects, `Register` the second critical section, `Lookup`, `Return` and
`Finish` the rest of the request. `open` ends when the pool is handed to
`Close`, which waits for running queries in the background. The code reads the
list under the pools' lock, so reading it and acting on it are one step.
Pointers are identities that are reused only when nothing refers to them
(`Fresh`). `PoolDirectory` says what queries may rely on: connections only get
added while wanted, replace what their slot held, and every reconciliation lets
go of what is no longer wanted. The branch of `ensurePool` for duplicate items
is never needed: `OnePoolPerSlot`, a part of `PoolsInv`, holds without it.

### Tokens

`row` is the table, `cache` the resolver's map, `req` the requests. `Miss`,
`ResolveAPIToken` and `StorePositive`/`StoreNegative` are separate steps with
at most `MaxLookup` ticks between the read of the table and its storing: the
query has no deadline of its own, so the bound is a parameter and appears in the
properties, because that is how much longer a stale decision can live.
`CreatePersonalToken`'s checks of who may mint what are left out: any token may
be created. `activeAt`, `inactiveAt`,
`acceptedAt`, `issuedAt` and `lag` are history. The lookup limiter rejects
without effect, like any other early return.

### Baselines

Time is abstracted to entries that expire at any moment. A failed fetch caches
the previous baseline for a shorter time, which is a fresh entry here; a
cancelled one caches nothing. `renewed` is history.

### IOHistory

One host; the matrix is one counter and a major upgrade is an epoch like a
reset. `ReadMetas` reads the headers, `ServeHistory` plans the buckets, reads
the captures they name and assembles; captures, resets and retention, one
partition per step in any order, fall in between. A capture samples and inserts
in one step: a request that reads the table between the two finds what it would
have found before them, and later work or a reset does not change the sample.
`truth` is history: what the
server really did up to each capture. Times are whole ticks, so midpoints and
widths round as the code's integer durations do, coarser. Sorting (`Ascending`)
is by rank and a sum (`Total`) is the size of a disjoint union, which TLC
evaluates and the proofs can count; `Runs` are the maximal runs of measurable
intervals that the loop of `planOf` builds one by one. The clamp of a negative
group index and the branch for an empty span in `groupIntervals` are left out:
headers are in order (`IntervalsOK`), so neither is reached.

## 3. Runs

Passing:

| Run | Instance | Checks |
|---|---|---|
| `autosnapshot_spike` | one host, 11 polls, window 4, spike duration 2, counts 1 and 6, blocked sessions 0 and 1, floor 2 | `CandidateMatchesProbes` (counters and peak describe exactly the probes of the open candidate), `DipsWithinGrace`, `ThresholdIsOnset` (a recovery is judged by the baseline of the probes before the onset) |
| `autosnapshot_incident` | one host, both roles, 8 polls, one crash, recovery 2, deferral 2, debounce 2 | `ImplementsQueue`, `DeferredOncePerSpike`, `ResolvedHasNoFollowUp`, `SpikeReportIsCurrent` (stale candidates), `DebounceRespected`, `DropAfterRecovery` |
| `leader_election` | three daemons, 3 intervals, a session or an answer lost once | `OneWorks`, `LeaderShownAlive`, `SomebodyWorks` |
| `hot_host` | one host, a table and its index, one reset, one DDL, times 0..2, retention 1 | `IntervalsTile`, `ObservationUnbroken`, `QuietConfirmed`, `AnchorsUniform` (with the types) |
| `hot_cluster` | two hosts, a table, two switchovers, a firing every second time unit, times 0..4, retention 3, cold window 2 | `IntervalsTile`, `OncePerFiring`, `ColdConfirmed` |
| `fleet` | one caller, two sets, three flights, one slot, one instance, two computations | `SlotsAccounted`, `ComputationsBounded` (with the types), `OneComputationPerKey`, `CallerServed` |
| `pools` | two requests, two sources, two names (one static), one place, two connections, five pools, four publications | `PoolsInv` (types, unique names, one pool per slot, every open pool has one owner), `ServedWhenClean`, `StaleCacheOnlyByLateQuery`, `DroppedOnlyUnwanted`, `ImplementsDirectory` |
| `tokens` | two requests, one token and one unknown secret, cache of one entry, lifetimes 1 and 0, touch interval 3, idle 5, a token lifetime of 3 or none, 6 ticks | `RevokedStopsWorking`, `ValidNotPoisoned`, `UsedIsNotIdle`, `CacheBounded` (with the types), `TouchesThrottled` |
| `baselines` | two requests, two keys, any number of cancellations | `FlightsOwned`, `RefreshedOncePerTTL`, `CallReturns` |
| `io_history` | four ticks, a capture each, retention 2, two units of work, one reset, one to three points | `BucketsTile` (with the types), `MeasuredIsReal`, `CompleteWhenUnbroken` |

Why the bounds are enough. Eleven polls hold a candidate with tolerated dips
that fires, its incident, a re-crossing and the drop. With a spike duration of
one, eight polls hold a candidate that ages out (four spike durations) and
two incidents with a follow-up that is due, replaced or cancelled; a second
crash adds nothing that the first does not reach, as a crash forgets everything
but the tables. The loud count stays over the threshold of any window that
holds a quiet probe for each loud one. Three daemons are a leader, a successor
and a third that could slip in; three intervals are as long as the liveness
threshold. Three captures suffice to break an interval, an
observation or a quiet time, since each looks one capture back; two
switchovers bring a host back to its role. Three flights of one set are an
expired one, its successor and one more; one slot makes everyone wait. Two
requests are what it takes to connect the same slot twice or to register late;
four publications change a connection, withdraw it and bring it back while a
connect runs, and five pools are one more than two calls and two slots can hold
registered and in flight at once, so that no call ever waits for an identity
for ever. A cache of one entry evicts on every second key; six ticks hold a
creation, the touch interval and the idle time. Two calls over two keys own a
flight each that the other waits for. Five captures make up to four intervals,
more than the points of a request.

The debounce map seeded from one time per cluster matters for several hosts;
`DebounceHolds` proves it for any number of them, and the run has one.

Expected violations, each a disagreement between a comment or the manual and the
code (findings in PROJECT.json):

| Run | Property | Shows |
|---|---|---|
| `hot_epoch` | `MismatchBreaksDeltas` | a reset between the two queries of a host lets a delta span the reset |
| `baselines_cancelled` | `CancelledIsRefreshedAgain` | the refresh a call waited for was cancelled: the call answers from the expired entry instead of refreshing the key |

Further comments and docs are stronger than the code; the properties say what
does hold. A drop snapshot is to be taken once a host "stays below" its
threshold, but after a probe outage the early return for a window of one sample
skips the recovery check: `DropAfterRecovery` speaks of probes that had a
baseline. Claimed jobs are to be "taken exactly once": at most once, says
`ImplementsQueue`. Cold tables are documented as those "with no writes": after
two switchovers between captures one may have been written to on the other host,
which `ColdConfirmed` excepts.
The lock "must be held for the lifetime of the daemon", yet nothing notices a
lost session, so `OneWorks` is stated for runs without one. A personal
access token unused for 90 days is cut off "the moment it is crossed"
(`doc/en/auth.md`, and the comment of `ResolveAPIToken`), as its revocation is
"effective immediately": the query says so, but a cached identity answers until
its entry ends, at most `TTL + MaxLookup` later, which is `RevokedStopsWorking`
(the third finding of PROJECT.json; a token cached, revoked and then accepted by
`AcceptCached` is the counterexample to the manual).
The comment on `patCacheTTL` is right about this. And `acquireIdle`
"takes a slot only while no computation is waiting", yet it looks and takes in
two steps; the computation that loses the slot gets it back after one job.

Deadlock checking is on everywhere. Each model has one stuttering action for the
end of its bounds (`Horizon`, `Idle`, `Rest`), enabled only there; in
`LeaderElection` and `HotObjects` time may also stand at its bound while the
rest goes on.

## 4. Fairness

`LeaderElection`: weak fairness of `Acquire(d)`, because `Leader.Acquire`
retries every few seconds until its context ends, and of `Reap`, because
PostgreSQL closes a session whose peer is gone (TCP keepalives). Nothing is
assumed of heartbeats, clocks, shutdowns or crashes.

`Fleet`: weak fairness of each flight goroutine (`Step`, with the budget's
deadline as one of its steps), of a running job, which ends by
`instance_timeout`, and of handing a published result to a caller. No fairness
of the metrics read: it may never return and callers are still answered.

`Baselines`: weak fairness of each call's steps. The lock is held for a few map
operations, a fetch ends with the datasource client's timeout, and a wait ends
when the owner of the flight has closed it. Nothing is assumed of expiry,
cancellation or new calls. Cancellation is not bounded either, so `CallReturns`
has an exception, which it states: other requests open the flight of a key
without an entry again and again, and every one of them is cancelled. The loop
of `baselines` then goes round for ever.

The other modules have only safety properties.

## 5. What is proved

For every set of hosts, daemons, callers, tokens and keys, every configuration
that satisfies the modules' assumptions, every bound:

| Module | Invariant | Theorems about properties of the runs |
|---|---|---|
| `AutosnapshotProofs` | `TypeCorrect`, `DaemonInvariant` | `DeferredAtMostOnce`, `CancelledStaysCancelled`, `DebounceHolds`, `DaemonImplementsQueue` (the refinement) |
| `AutosnapshotProofs` | `SpikeInvariant` | `CandidateIsItsProbes`, `DipsStayWithinGrace`, `SpikeReportsAreCurrent`, `DropOnlyAfterRecovery` (an action property), `ThresholdOfOnset` |
| `LeaderElectionProofs` | `LeaderInvariant` | `OneDaemonWorks`, `LeaderNotDeclaredDead` |
| `HotObjectsProofs` | `HotInvariant` | `NoIntervalLost`, `AnchorsOfOneCapture`, `ObservationHolds`, `QuietTablesConfirmed`, `ColdTablesConfirmed`, `CapturedOncePerFiring` |
| `FleetProofs` | `FlightInvariant`, `CountsInvariant` | `SingleFlight`, `BoundedComputations`, `NoSlotLost` |
| `PoolsProofs` | `PoolsInvariant` | `CleanCallIsServed`, `ForgetPoolForgets`, `WantedPoolsStay` (an action property), `PoolsImplementDirectory` (the refinement) |
| `TokensProofs` | `TokensInvariant` | `RevocationReachesTheCache`, `ValidTokenRecovers`, `SweepSparesTheUsed`, `CacheStaysBounded`, `TouchesAnIntervalApart` (an action property) |
| `BaselinesProofs` | `BaselinesInvariant` | `OneOwnerPerFlight`, `FetchedOncePerTTL` |
| `IOHistoryProofs` | `IOInvariant` | `IOBucketsTile`, `IOMeasuredIsReal`, `IOCompleteWhenUnbroken` |

The arguments.

*Debounce*: a snapshot is stored only if `now - lastAuto` is large
enough, so `lastAuto` must never lag behind what any daemon was told
(`DebounceMapCurrent`); a restart seeds it from the tables, so what was
acknowledged must be in the tables and not in the future (`AckedIsStored`).
*One follow-up per spike*: stored follow-ups, claims and pending rows together
never exceed acknowledged spikes; the step from the spike snapshot to its
enqueue needs to know that one is still owed and the incident unresolved
(`EnqueueOwed`), and a crash may empty the claims only because claims exist only
while they are worked off (`ClaimedOnlyWhileTaking`). The refinement of
`DeferredQueue` needs no more than these.

*Spikes and drops* (`SpikeInv`): probes carry increasing times, none later than
the clock (`ProbesInOrder`). The counters of a candidate are then the
cardinalities of sets of probes, and a probe adds one element to the set that its
branch counts; `CandidateFinite` is there because a cardinality means something
only of a finite set. A drop is justified because the recovery timer runs only
over probes that stayed below the frozen threshold (`RecoveryWatched`).

*The threshold of an incident* (`OnsetInv`, relative to `SpikeInv`). That the
frozen threshold is the baseline of the onset is not inductive: it has to be
known of a candidate that has not fired, where the onset is the start of the
candidate, and of the window the baseline is computed from, which holds exactly
the probes of the last window length (`WindowOf`). Trimming drops a prefix, as
times increase, so appending a probe and trimming keeps that; a baseline is
about probes before the onset, which later probes do not change.

*One daemon*: a working daemon is the lock's holder (`WorkingHolds`), so two
would be one. *Shown alive*: every interval since the time the row shows is
a setback of its daemon or the one that runs (`BeatsCounted`), and the
liveness threshold is longer than one setback and that.

*Hot objects* (`HotInv`). What a capture computes is a statement about two
stored samples, and a sample is a statement about a server that goes on working.
So the invariant has three layers. `SamplesPast`: as long as relation and epoch
are still those of a row, the server's counter has moved by exactly the activity
since, and while the term lasts no other host has written; a step of a server
preserves this row by row. `SamplesFollow` is the same between a stored row and
a row in memory, obtained at the moment the latter is read. `AnchorsAreNewest`:
the anchors of a host are the rows of its newest capture and nothing else, which
is where the order of captures comes in: `UpsertHotAnchors` prunes what was
captured *before*, so it prunes everything only because capture times increase
(`CapturesInOrder`). `HalfCurrent` and `SamplesOfOneEpoch` say that a sample that
is not torn is of one epoch, so any anchor answers `epochIntact` alike. With
these, `IntervalsTile`, `ObservationUnbroken` and `QuietBacked` are preserved by
`Store`, and no other step touches them. Retention appears twice: the dropped
captures are the oldest, so the newest window of a host among the kept captures
is its newest window at all; and a database whose captures are all dropped is
past the next firing, which needs retention not shorter than the period.
`QuietBacked` is stronger than `ColdConfirmed` in that it speaks of tables whose
quiet time does not yet span the window.

*One computation per set*: a flight that has not published is the one its key lists
(`RunningIsListed`); a new one needs the key free or its flight published, and
the timer deletes only the flight it was set for, which has published. *Slots
and computations* (`CountsInv`): the slots handed out are a set of pairs
(`Grants`), which a step of one flight changes by one pair or not at all, and so
with the flights not released; that a sweeping flight has released already
(`SweepLast`) keeps the two counts apart.

*Pools* (`PoolsInv`): names in the list are unique, one pool per slot, every
open pool has one owner. A call is clean as long as no list was published and no
connect failed; `CleanProgress` says what such a call has done and has left to
do, and other calls of the same list do not disturb it. A query runs on a pool
that is open or was closed under it (`QueriesRunOnOpen`), so only such a query
brings back a forgotten cache entry.

*Tokens* (`TokensInv`): recorded times are not in the future (`RecordsPast`); an
answer on its way to the cache is no older than a lookup takes and said what the
table held (`AnswersRecent`); an entry ends a lifetime and a lookup after the
table last agreed with it, and not after the token (`EntriesBacked`); and an
accepted use is within a touch interval of the last use in the table, unless a
touch asked for has not arrived (`UsesRecorded`).

*Baselines*: a round opens flights only for keys that have none and are not
fresh, and a refresh closes exactly the flights its call opened; that no key of
a flight becomes fresh under it needs to know that another call never owns the
same flight, so freshness is proved together with ownership (`BaselinesInv`).

*IO history* (`IOInv`). Three layers again. `TableInv`: no tick has two captures,
because a capture is due only after the schedule fired once more (`DueIsNew`);
and within an epoch two counters differ by the server's real work. `RequestInv`:
the headers are captures in order, of ticks that are settled, that is over or
captured, so whatever the server and the daemon do later leaves their work alone
(`Kept`); unless retention ran they are still in the table. `ServedInv`: what was
served was true then, and speaks of settled ticks only, so it stays true.

What the second read computes is proved once for any series of headers. Groups
follow time: an interval's midpoint is not before an earlier one's
(`GroupsFollowTime`), and with more intervals than points the width is not zero,
as every interval takes a tick (`IntervalsTakeTime`); so the groups that hold
anything are consecutive ranges of intervals (`GroupsPartition`), and buckets
tile. Sums are compared by counting ticks: the durations of disjoint stretches
of time add up to the number of ticks they hold (`TotalIsTicks`), so the planned
duration, less that of the spans that could not be compared, is the time of the
spans that were, and it is all of the bucket only if no interval and no span is
missing (`BucketFacts`). A span both of whose ends were loaded, of one epoch,
grew by what the server did (`ComparableIsReal`). Where one would use induction,
the proofs take a least counterexample or compare cardinalities of finite sets:
what a sort returns follows from ranks (`AscendingSorts`), and the run around a
measurable interval from the nearest interval that is not (`RunAround`).

`HostState`'s operators get type lemmas of their own (`TrimType`, `ObserveType`,
`AdvanceSpikeType`, ...), and `HandleRecoveryEffect`, `FormingEffect` and
`ProbeHasEffect` condense what a probe can do to what the invariants look at, so
that each invariant is proved over a few cases. `HotObjectsProofs` does the same
with one shape lemma per step of the sweep (`TablesShape`, `IndexesShape`,
`StoreShape`, ...). Partial functions (rows, windows, anchors) are typed by
`PartialFcn`; `HotTypesTypeOK` derives the type invariant TLC checks from the
one proved.

Assumptions: `TriggerConfigOK` (the validated ranges, `2 * SpikeDuration <=
WindowSize`), `DaemonConfigOK`, `LeaderConfigOK`, `HotConfigOK`,
`FleetConfigOK`, `StaticAssumption` and `FeedsAssumption`,
`MaxPublishesAssumption`, `TokensAssumption`, `IOAssumption`; TLC evaluates them on every run.

## 6. Only model-checked

Liveness (`SomebodyWorks`, `CallerServed`, `CallReturns`) is beyond this prover.
Every other property of a passing run, all the invariants and the action
properties among them, is stated by a theorem.

## 7. Not modelled

Within the modelled parts: trigger events and logging; the collection of query
reports and locks inside `takeSnapshot` (one of its three outcomes); changes of
the configuration between polls other than switching a trigger off; ranking,
tops, histograms and percentiles of hot objects; which instances the fleet
prefilter picks, and the remembered scores; a clock that goes backwards; a panic
after a commit inside one trigger; an error of the cluster list, which the
implementation never returns; the pools' own connections; a reset that a server
does not report, hidden inside a span of IO captures (the check for a fallen
counter is in the model but never decides, and with one counter no row lacks its
baseline); the daily fallback for a schedule that does not parse; a panic of
`Fleet.run` after planning (the same `recover` and the deferred `release` handle
it); a panic inside a fetch of baselines; requests that take several pools; a
host or database listed twice in one cluster; size-based retention, so that the
newest automatic snapshot of a host, from which the debounce is seeded, is never
dropped. A crash of a monitored server is assumed to move `stats_reset`, like a
reset.

Whole parts left out are in PROJECT.json. Most of the repository cannot be
modelled to any purpose: of some hundred thousand lines of Go, two fifths are
the generated API client and server, and most of the rest are SQL texts with row
scanning, conversions between types, plan, SQL and log analysers that are pure
functions of unbounded strings, and tool descriptions. What keeps state across
requests, runs concurrently or has to survive a failure is a few thousand lines,
and most of those are modelled.

## 8. Plan

1. Composition of `LeaderElection` with `HotObjects`: what two working daemons
   do to anchors and intervals after a lost session.
2. `Fleet`: remembered scores and sticky candidates, named instances.
3. Activity sampler, cold-table cache, log-insight writer.
