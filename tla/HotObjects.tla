----------------------------- MODULE HotObjects -----------------------------
(***************************************************************************)
(* The hot-objects capture of one cluster and database: the sweep of       *)
(* backend/internal/autosnapshot/hot.go, the delta and quiet-table rules   *)
(* of backend/internal/hotobjects/report.go, the schedule of               *)
(* autosnapshot/schedule.go and the tables of                              *)
(* backend/internal/storage/hotobjects.go.                                 *)
(*                                                                         *)
(* PostgreSQL counts activity per host and relation since the host's       *)
(* statistics were last reset; a capture stores, per host, the difference  *)
(* to the anchors the last capture of that host left.  A sweep samples one *)
(* host after the other with two queries each (tables, indexes) while the  *)
(* servers go on working, so activity, resets, DDL and switchovers fall    *)
(* between any two of its steps.                                           *)
(*                                                                         *)
(* A relation's counters are one number: what was written to a table, what *)
(* was read from an index.                                                 *)
(***************************************************************************)
EXTENDS Integers, Sequences, FiniteSets

CONSTANTS
  Hosts,
  Tables,
  Indexes,
  TableOf,        \* the table of an index
  Interval,       \* the period of the schedule
  HotRetention,   \* HotRetentionDays
  ColdWindow,     \* hot_cold_window_days
  AttachedCounts, \* what a replaced relation may already have counted
  MaxNow,         \* bound on the clock
  MaxActivity,    \* bound on the activity of a relation on a host
  MaxResets,      \* bound on the statistics resets of a host
  MaxDdl,         \* bound on relations created
  MaxSwitches     \* bound on switchovers

Objects == Tables \cup Indexes

ASSUME HotConfigOK ==
  /\ Hosts # {} /\ IsFiniteSet(Hosts)
  /\ Tables \cap Indexes = {}
  /\ TableOf \in [Indexes -> Tables]
  /\ Interval \in Nat \ {0}
  /\ HotRetention \in Nat
  /\ ColdWindow \in Nat \ {0}
  /\ AttachedCounts \subseteq Nat
  /\ {MaxNow, MaxActivity, MaxResets, MaxDdl, MaxSwitches} \subseteq Nat

VARIABLES
  now,       \* the clock, in daemon polls
  primary,   \* the host that takes writes
  oid,       \* relation id behind each name, 0 when there is none
  count,     \* cumulative counter per host and object (pg_stat)
  epoch,     \* stats_reset per host, 0 when NULL
  sweep,     \* the capture under way (memory)
  attempt,   \* d.lastHotAttempt of the database (memory)
  anchors,   \* hot_anchor: rows per host (table)
  snaps,     \* hot_snapshot: every snapshot stored, the oldest ...
  dropped,   \* ... of which retention has dropped
  did,       \* history: activity per host and object
  ddl,       \* relations created so far
  switches,  \* switchovers so far
  torn       \* history: a reset, or a database's first table, fell between
             \* the two queries of a host

servers == <<primary, oid, count, epoch, did, ddl, switches, torn>>
store == <<anchors, snaps, dropped>>
vars == <<now, servers, sweep, attempt, store>>

Nil == -1
Empty == [o \in {} |-> 0]
\* A sweep: when it began, hosts not sampled yet, the host whose tables were
\* sampled and whose indexes were not, and the complete samples.
NoSweep == [at |-> Nil, todo |-> {}, half |-> Empty, got |-> Empty]

Sampled == DOMAIN sweep.got

Init ==
  /\ now = 0
  /\ primary \in Hosts
  /\ oid = [o \in Objects |-> 1]
  /\ count = [h \in Hosts |-> [o \in Objects |-> 0]]
  /\ epoch = [h \in Hosts |-> 0]
  /\ sweep = NoSweep
  /\ attempt = Nil
  /\ anchors = [h \in Hosts |-> Empty]
  /\ snaps = <<>>
  /\ dropped = 0
  /\ did = [h \in Hosts |-> [o \in Objects |-> 0]]
  /\ ddl = 1
  /\ switches = 0
  /\ torn = FALSE

-----------------------------------------------------------------------------
(* The servers. *)

Tick ==
  /\ now < MaxNow
  /\ now' = now + 1
  /\ UNCHANGED <<servers, sweep, attempt, store>>

\* Writes reach a table on the primary only; any host reads its indexes.
Activity(h, o) ==
  /\ oid[o] # 0
  /\ o \in Tables => h = primary
  /\ did[h][o] < MaxActivity
  /\ count' = [count EXCEPT ![h][o] = @ + 1]
  /\ did' = [did EXCEPT ![h][o] = @ + 1]
  /\ UNCHANGED <<now, primary, oid, epoch, ddl, switches, torn, sweep, attempt, store>>

\* pg_stat_reset, or a crash of the server: counters restart, stats_reset moves.
\* That it moves with a crash too is an assumption about the server.
ResetStats(h) ==
  /\ epoch[h] < MaxResets
  /\ epoch' = [epoch EXCEPT ![h] = @ + 1]
  /\ count' = [count EXCEPT ![h] = [o \in Objects |-> 0]]
  /\ torn' = (torn \/ h \in DOMAIN sweep.half)
  /\ UNCHANGED <<now, primary, oid, did, ddl, switches, sweep, attempt, store>>

\* The relations that share their fate with o: a table takes its indexes along.
Family(o) == {o} \cup {i \in Indexes : TableOf[i] = o}

DropRelation(o) ==
  /\ oid[o] # 0
  /\ oid' = [p \in Objects |-> IF p \in Family(o) THEN 0 ELSE oid[p]]
  /\ UNCHANGED <<now, primary, count, epoch, did, ddl, switches, torn, sweep, attempt, store>>

\* Created under the name, recreated, or partitions attached or detached: the
\* relation ids behind the name change, and so do the counters they carry.
ReplaceRelation(o, n) ==
  /\ ddl < MaxDdl
  /\ o \in Indexes => oid[TableOf[o]] # 0
  /\ ddl' = ddl + 1
  /\ oid' = [p \in Objects |-> IF p \in Family(o) THEN ddl + 1 ELSE oid[p]]
  /\ count' = [h \in Hosts |->
       [p \in Objects |-> IF p \in Family(o) THEN n ELSE count[h][p]]]
  /\ torn' = (torn \/ \E h \in DOMAIN sweep.half : sweep.half[h].rows = Empty)
  /\ UNCHANGED <<now, primary, epoch, did, switches, sweep, attempt, store>>

\* A clean switchover: every host keeps its statistics.
Switchover(h) ==
  /\ switches < MaxSwitches
  /\ h # primary
  /\ primary' = h
  /\ switches' = switches + 1
  /\ UNCHANGED <<now, oid, count, epoch, did, ddl, torn, sweep, attempt, store>>

-----------------------------------------------------------------------------
(* The schedule. *)

\* The snapshots retention has left in the table.
Kept == dropped + 1 .. Len(snaps)

\* sched.Next(t) of a schedule that fires every Interval.
NextFire(t) == (t \div Interval + 1) * Interval

\* cronDue of a schedule that parsed (without one it is due a day later).
CronDue(last) == now >= NextFire(last)

\* Mutated form: only the daemon's own attempts are looked at.
DueForCaptureByAttempt ==
  \/ attempt = Nil
  \/ CronDue(attempt)

\* dueForCapture: judged by the newest stored snapshot, or without one by the
\* last attempt.
DueForCapture ==
  IF Kept # {} THEN CronDue(snaps[Len(snaps)].at)
               ELSE attempt = Nil \/ CronDue(attempt)

-----------------------------------------------------------------------------
(* The sweep. *)

Begin ==
  /\ sweep.at = Nil
  /\ DueForCapture
  /\ attempt' = now
  /\ sweep' = [NoSweep EXCEPT !.at = now, !.todo = Hosts]
  /\ UNCHANGED <<now, servers, store>>

\* The rows of one sample query, each with the stats_reset it was read with.
\* mine, all and term are history: the activity behind the row, on h and on
\* every host, and the switchovers before it.
Rows(h, objects) ==
  [o \in {p \in objects : oid[p] # 0} |->
     [sig |-> oid[o], count |-> count[h][o], reset |-> epoch[h],
      mine |-> did[h][o], all |-> [g \in Hosts |-> did[g][o]],
      term |-> switches]]

\* GetHotSampleTables: epoch and role are read off the rows, so a database
\* without tables reports neither.
SampleTables(h) ==
  LET rows == Rows(h, Tables) IN
  /\ sweep.half = Empty
  /\ h \in sweep.todo
  /\ sweep' = [sweep EXCEPT
       !.todo = @ \ {h},
       !.half = [g \in {h} |->
         [rows    |-> rows,
          reset   |-> IF rows = Empty THEN 0 ELSE epoch[h],
          standby |-> rows # Empty /\ h # primary]]]
  /\ UNCHANGED <<now, servers, attempt, store>>

\* GetHotSampleIndexes: its rows join the sample, its epoch and role do not.
SampleIndexes(h) ==
  LET half == sweep.half[h]
      indexes == Rows(h, Indexes)
      rows == [o \in DOMAIN half.rows \cup DOMAIN indexes |->
                 IF o \in DOMAIN half.rows THEN half.rows[o] ELSE indexes[o]]
  IN /\ h \in DOMAIN sweep.half
     /\ sweep' = [sweep EXCEPT
          !.half = Empty,
          !.got = [g \in DOMAIN @ \cup {h} |->
                     IF g = h THEN [half EXCEPT !.rows = rows] ELSE @[g]]]
     /\ UNCHANGED <<now, servers, attempt, store>>

\* A query of the host, or the read of its anchors, failed: the host is
\* missing from the snapshot.
MissHost(h) ==
  /\ IF sweep.half = Empty THEN h \in sweep.todo ELSE h \in DOMAIN sweep.half
  /\ sweep' = [sweep EXCEPT !.todo = @ \ {h}, !.half = Empty]
  /\ UNCHANGED <<now, servers, attempt, store>>

-----------------------------------------------------------------------------
(* BuildSnapshot and AdvanceQuiet. *)

\* GetLatestHotWindows: the host's window in the newest snapshot that has one,
\* as a set of at most one.
PrevWindow(h) ==
  LET is == {i \in Kept : /\ h \in DOMAIN snaps[i].windows
                          /\ snaps[i].at >= sweep.at - HotRetention}
  IN {snaps[i].windows[h] : i \in {j \in is : \A k \in is : k <= j}}

\* The anchor a range over the map meets first: any of them.
FirstAnchors(h) == {anchors[h][o] : o \in DOMAIN anchors[h]}

\* What epochIntact may return.
EpochIntact(h) ==
  IF anchors[h] = Empty THEN {FALSE}
  ELSE {a.reset = sweep.got[h].reset : a \in FirstAnchors(h)}

From(h) ==
  IF anchors[h] = Empty THEN {sweep.at} ELSE {a.at : a \in FirstAnchors(h)}

\* Mutated form: the observation goes on over a broken epoch.
ObservedSinceAnyEpoch(h, complete) ==
  LET carried == {w.observed : w \in PrevWindow(h)} \ {Nil} IN
  IF sweep.got[h].standby THEN {Nil}
  ELSE IF carried # {} THEN carried ELSE {sweep.at}

\* observedSince, as a singleton.
ObservedSince(h, complete) ==
  LET carried == {w.observed : w \in PrevWindow(h)} \ {Nil} IN
  IF sweep.got[h].standby THEN {Nil}
  ELSE IF complete /\ carried # {} THEN carried ELSE {sweep.at}

Windows(h) ==
  UNION {[from : From(h), to : {sweep.at}, complete : {complete},
          reset : {sweep.got[h].reset}, standby : {sweep.got[h].standby},
          observed : ObservedSince(h, complete)] : complete \in EpochIntact(h)}

\* Mutated form: the partition signature is not compared.
ComparableAnySig(h, o) ==
  /\ o \in DOMAIN anchors[h]
  /\ sweep.got[h].rows[o].count >= anchors[h][o].count

\* The anchor of o measures the same relations, and Delta returns ok.
Comparable(h, o) ==
  /\ o \in DOMAIN anchors[h]
  /\ anchors[h][o].sig = sweep.got[h].rows[o].sig
  /\ sweep.got[h].rows[o].count >= anchors[h][o].count

Delta(h, o) == sweep.got[h].rows[o].count - anchors[h][o].count

\* The deltas of a host whose window is (in)complete.
Deltas(h, complete) ==
  [o \in {p \in DOMAIN sweep.got[h].rows : complete /\ Comparable(h, p)} |-> Delta(h, o)]

\* quietSince
QuietSince(h, o, intact) ==
  IF /\ o \in DOMAIN anchors[h]
     /\ anchors[h][o].quiet # Nil
     /\ intact
     /\ Comparable(h, o)
     /\ Delta(h, o) = 0
  THEN anchors[h][o].quiet
  ELSE sweep.at

\* AdvanceQuiet: the sample's rows as the host's next anchors.
AdvanceQuiet(h, intact) ==
  [o \in DOMAIN sweep.got[h].rows |->
     LET r == sweep.got[h].rows[o] IN
     [sig |-> r.sig, count |-> r.count, reset |-> r.reset, at |-> sweep.at,
      quiet |-> IF o \in Tables /\ ~sweep.got[h].standby
                THEN QuietSince(h, o, intact) ELSE Nil]]

\* Mutated form: the anchors of objects that are gone stay.
UpsertHotAnchorsUnpruned(old, rows) ==
  [o \in DOMAIN old \cup DOMAIN rows |-> IF o \in DOMAIN rows THEN rows[o] ELSE old[o]]

\* upsertHotAnchorsTx: rows not written now and captured before are deleted.
UpsertHotAnchors(old, rows) ==
  [o \in {p \in DOMAIN old : old[p].at >= sweep.at} \cup DOMAIN rows |->
     IF o \in DOMAIN rows THEN rows[o] ELSE old[o]]

\* Mutated form: the anchors are a transaction of their own, which failed.
InsertSnapshotOnly(snap, rows) ==
  /\ snaps' = Append(snaps, snap)
  /\ UNCHANGED anchors

\* InsertHotSnapshotWithAnchors: one transaction.
InsertHotSnapshotWithAnchors(snap, rows) ==
  /\ snaps' = Append(snaps, snap)
  /\ anchors' = [h \in Hosts |-> IF h \in DOMAIN rows
                                 THEN UpsertHotAnchors(anchors[h], rows[h])
                                 ELSE anchors[h]]

\* One choice for every sampled host.
AnyOf(S(_)) == {f \in [Sampled -> UNION {S(h) : h \in Sampled}] :
                    \A h \in Sampled : f[h] \in S(h)}

\* Every host is sampled or missing; attachPrevWindows succeeded and the
\* transaction committed, whether or not the daemon hears of it.
Store ==
  /\ sweep.at # Nil /\ sweep.todo = {} /\ sweep.half = Empty
  /\ Sampled # {}
  /\ \E windows \in AnyOf(Windows), intact \in AnyOf(EpochIntact) :
       InsertHotSnapshotWithAnchors(
         [at |-> sweep.at, windows |-> windows, rows |-> sweep.got,
          deltas |-> [h \in Sampled |-> Deltas(h, windows[h].complete)]],
         [h \in Sampled |-> AdvanceQuiet(h, intact[h])])
  /\ sweep' = NoSweep
  /\ UNCHANGED <<now, servers, attempt, dropped>>

\* No host was sampled, the previous windows could not be read, the
\* transaction failed, the capture panicked: nothing is stored.
GiveUp ==
  /\ sweep.at # Nil
  /\ sweep' = NoSweep
  /\ UNCHANGED <<now, servers, attempt, store>>

\* The daemon is restarted: the capture under way and the attempts are lost.
Crash ==
  /\ sweep.at # Nil \/ attempt # Nil
  /\ sweep' = NoSweep
  /\ attempt' = Nil
  /\ UNCHANGED <<now, servers, store>>

\* maybeRunHotRetention, between captures.
Retention ==
  LET old == {i \in Kept : snaps[i].at < now - HotRetention} IN
  /\ sweep.at = Nil
  /\ old # {}
  /\ dropped' = dropped + Cardinality(old)
  /\ UNCHANGED <<now, servers, sweep, attempt, anchors, snaps>>

\* The bounded clock has run out.
Horizon == now = MaxNow /\ UNCHANGED vars

Next ==
  \/ Tick
  \/ \E h \in Hosts, o \in Objects : Activity(h, o)
  \/ \E h \in Hosts : ResetStats(h) \/ Switchover(h)
  \/ \E o \in Objects : DropRelation(o)
  \/ \E o \in Objects, n \in AttachedCounts : ReplaceRelation(o, n)
  \/ Begin
  \/ \E h \in Hosts : SampleTables(h) \/ SampleIndexes(h) \/ MissHost(h)
  \/ Store
  \/ GiveUp
  \/ Crash
  \/ Retention
  \/ Horizon

Spec == Init /\ [][Next]_vars

-----------------------------------------------------------------------------
(* GetColdTables. *)

\* The host's newest window in the table, as a set of at most one snapshot.
LatestWith(h, is) == {i \in is : /\ h \in DOMAIN snaps[i].windows
                                 /\ \A j \in is : h \in DOMAIN snaps[j].windows => j <= i}

\* Mutated form: the window is measured in captures, one short of the days.
ColdTablesTooEarly(h) ==
  {o \in Tables \cap DOMAIN anchors[h] :
     \E i \in LatestWith(h, Kept) :
       LET long == snaps[i].at - ColdWindow + 1
           w == snaps[i].windows[h]
       IN /\ anchors[h][o].quiet # Nil /\ anchors[h][o].quiet <= long
          /\ w.observed # Nil /\ w.observed <= long}

\* The tables of h the health score treats as cold.
ColdTables(h) ==
  {o \in Tables \cap DOMAIN anchors[h] :
     \E i \in LatestWith(h, Kept) :
       LET long == snaps[i].at - ColdWindow
           w == snaps[i].windows[h]
       IN /\ anchors[h][o].quiet # Nil /\ anchors[h][o].quiet <= long
          /\ w.observed # Nil /\ w.observed <= long}

-----------------------------------------------------------------------------
(* Properties. *)

\* The shape of the servers, of the capture under way and of the tables.
TypeOK ==
  /\ now \in Nat /\ dropped \in 0 .. Len(snaps) /\ attempt \in Nat \cup {Nil}
  /\ primary \in Hosts
  /\ oid \in [Objects -> Nat]
  /\ epoch \in [Hosts -> Nat]
  /\ {count, did} \subseteq [Hosts -> [Objects -> Nat]]
  /\ sweep.at \in Nat \cup {Nil}
  /\ sweep.todo \cup DOMAIN sweep.half \cup Sampled \subseteq Hosts
  /\ Cardinality(DOMAIN sweep.half) <= 1
  /\ DOMAIN anchors = Hosts
  /\ \A h \in Hosts : \A o \in DOMAIN anchors[h] :
       /\ o \in Objects
       /\ anchors[h][o] \in [sig : Nat, count : Nat, reset : Nat, at : Nat,
                             quiet : Nat \cup {Nil}]

\* The snapshot of h before snapshot i, as a set of at most one.
Previous(i, h) == LatestWith(h, 1 .. i - 1)

\* "No interval is lost or counted twice": a delta a snapshot stores is exactly
\* the activity between the host's sample and its sample in the snapshot
\* before, which its window starts at; and whenever both samples saw the same
\* relation in the same epoch there is a delta.  Missing hosts, failed
\* transactions, restarts, retention and DDL in between make no difference.
IntervalsTile ==
  ~torn =>
  \A i \in 1 .. Len(snaps) : \A h \in DOMAIN snaps[i].windows :
    LET w == snaps[i].windows[h]
        new == snaps[i].rows[h].rows
        deltas == snaps[i].deltas[h]
    IN /\ Previous(i, h) = {} => deltas = Empty
       /\ \A j \in Previous(i, h) :
            LET old == snaps[j].rows[h].rows IN
            /\ old # Empty => w.from = snaps[j].at
            /\ \A o \in DOMAIN deltas :
                 o \in DOMAIN old /\ deltas[o] = new[o].mine - old[o].mine
            /\ \A o \in DOMAIN old \cap DOMAIN new :
                 (old[o].sig = new[o].sig /\ old[o].reset = new[o].reset)
                    => o \in DOMAIN deltas

\* ObservedSince names a stored capture of the host since which every capture
\* that has the host saw a primary in one and the same statistics epoch.
ObservationUnbroken ==
  ~torn =>
  \A i \in 1 .. Len(snaps) : \A h \in DOMAIN snaps[i].windows :
    LET w == snaps[i].windows[h]
        since == {j \in 1 .. i : h \in DOMAIN snaps[j].windows /\ snaps[j].at >= w.observed}
    IN w.observed # Nil =>
         /\ \E j \in since : snaps[j].at = w.observed
         /\ \A j \in since : LET v == snaps[j].windows[h]
                             IN v.observed = w.observed /\ v.reset = w.reset /\ ~v.standby

\* QuietSince names a stored capture of the host, and what the table had been
\* written to on that host then is what it had been written to at the newest
\* capture: recreated tables and reset counters never pass for quiet ones.
QuietConfirmed ==
  ~torn =>
  \A h \in Hosts : \A o \in DOMAIN anchors[h] :
    anchors[h][o].quiet # Nil =>
      \E i \in 1 .. Len(snaps), j \in LatestWith(h, 1 .. Len(snaps)) :
        /\ snaps[i].at = anchors[h][o].quiet
        /\ h \in DOMAIN snaps[i].rows
        /\ o \in DOMAIN snaps[i].rows[h].rows
        /\ snaps[i].rows[h].rows[o].mine = snaps[j].rows[h].rows[o].mine
        /\ snaps[i].rows[h].rows[o].sig = snaps[j].rows[h].rows[o].sig

\* A table the health score calls cold is backed by captures of the host that
\* span the cold window: at every one of them the host was a primary in the
\* same epoch with the same relation, the table had been written to no more
\* than at the first one, and unless a switchover lies between two of them no
\* other host wrote to it either.
ColdConfirmed ==
  ~torn =>
  \A h \in Hosts : \A o \in ColdTables(h) : \A j \in LatestWith(h, 1 .. Len(snaps)) :
    LET new == snaps[j].rows[h].rows[o]
        since == {i \in 1 .. j : /\ h \in DOMAIN snaps[i].windows
                                 /\ snaps[i].at >= anchors[h][o].quiet}
    IN /\ \E i \in since : snaps[j].at - snaps[i].at >= ColdWindow
       /\ \A i \in since :
            /\ ~snaps[i].windows[h].standby
            /\ o \in DOMAIN snaps[i].rows[h].rows
            /\ LET old == snaps[i].rows[h].rows[o] IN
                 /\ old.sig = new.sig /\ old.reset = new.reset /\ old.mine = new.mine
                 /\ old.term = new.term => old.all = new.all

\* The tables keep their shape, and the anchors of a host are one capture's:
\* BuildSnapshot and epochIntact may look at any one of them, and do.
AnchorsUniform ==
  TypeOK /\ \A h \in Hosts : \A o \in DOMAIN anchors[h] :
    \E i \in LatestWith(h, 1 .. Len(snaps)) :
      /\ anchors[h][o].at = snaps[i].at
      /\ ~torn => anchors[h][o].reset = snaps[i].rows[h].reset

\* A database is captured at most once per firing of the schedule, through
\* failed captures, restarts and retention, as long as retention is not shorter
\* than the schedule's period.
OncePerFiring ==
  HotRetention >= Interval =>
  \A i \in 1 .. Len(snaps) - 1 : NextFire(snaps[i].at) <= snaps[i + 1].at

-----------------------------------------------------------------------------
(* What comments and docs say and the code does not do. *)

\* epochIntact's comment taken literally: "any mismatch (reset happened ...)
\* breaks every delta of the host".
MismatchBreaksDeltas ==
  \A i \in 1 .. Len(snaps) : \A h \in DOMAIN snaps[i].windows :
    \A j \in Previous(i, h) : \A o \in DOMAIN snaps[i].deltas[h] :
      snaps[j].rows[h].rows[o].reset = snaps[i].rows[h].rows[o].reset

-----------------------------------------------------------------------------
(* The inductive invariant behind the properties of the capture. *)

\* Captures are stored in the order of their times, before the clock and before
\* the capture under way; what retention dropped is older than it keeps; and
\* the capture under way belongs to a later firing than the newest stored one.
CapturesInOrder ==
  /\ \A i \in 1 .. Len(snaps) : snaps[i].at <= now
  /\ \A i, j \in 1 .. Len(snaps) : i < j => snaps[i].at < snaps[j].at
  /\ \A i \in 1 .. dropped : snaps[i].at < now - HotRetention
  /\ sweep.at # Nil => sweep.at <= now /\ \A i \in 1 .. Len(snaps) : snaps[i].at < sweep.at
  /\ HotRetention >= Interval /\ sweep.at # Nil /\ snaps # <<>> =>
       NextFire(snaps[Len(snaps)].at) <= sweep.at
  /\ OncePerFiring

\* Relation ids are handed out in order, and an index has its table.
CatalogSound ==
  /\ \A o \in Objects : oid[o] <= ddl
  /\ \A i \in Indexes : oid[i] # 0 => oid[TableOf[i]] # 0

\* Between the two queries of a host: its table rows are of one epoch, which
\* goes on unless a reset tears the sample, and a database without tables has
\* no indexes either until one is created.
HalfCurrent ==
  \A h \in DOMAIN sweep.half :
    LET s == sweep.half[h] IN
    /\ DOMAIN s.rows \subseteq Tables
    /\ \A o \in DOMAIN s.rows : s.rows[o].reset = s.reset
    /\ ~torn => IF s.rows = Empty THEN \A i \in Indexes : oid[i] = 0
                                  ELSE s.reset = epoch[h]

\* The samples of h in memory, and those stored.
InHand(h) == {sweep.half[g] : g \in DOMAIN sweep.half \cap {h}}
               \cup {sweep.got[g] : g \in DOMAIN sweep.got \cap {h}}
Stored(h) == {snaps[i].rows[h] : i \in {j \in 1 .. Len(snaps) : h \in DOMAIN snaps[j].rows}}

\* What a row of o read on h says of the server now: while relation and epoch
\* are the same, its counter has moved by the activity since.
RowPast(r, h, o) ==
  /\ r.sig <= ddl /\ r.reset <= epoch[h] /\ r.mine <= did[h][o] /\ r.term <= switches
  /\ r.all[h] = r.mine
  /\ r.sig = oid[o] /\ r.reset = epoch[h] => count[h][o] - r.count = did[h][o] - r.mine

\* A table row read on the primary: until the next switchover nobody else
\* writes to the table.
PrimaryPast(r, h, o) ==
  r.term = switches => primary = h /\ \A g \in Hosts \ {h} : r.all[g] = did[g][o]

SamplesPast ==
  \A h \in Hosts : \A s \in InHand(h) \cup Stored(h) : \A o \in DOMAIN s.rows :
    RowPast(s.rows[o], h, o) /\ (o \in Tables /\ ~s.standby => PrimaryPast(s.rows[o], h, o))

\* The same of an older row and a newer one of the same host and object.
RowsFollow(r, q) ==
  /\ r.mine <= q.mine
  /\ r.sig = q.sig /\ r.reset = q.reset => q.count - r.count = q.mine - r.mine

PrimaryFollows(r, q, h) ==
  r.term = q.term => \A g \in Hosts \ {h} : r.all[g] = q.all[g]

SamplesFollow ==
  \A h \in Hosts : \A s \in Stored(h), t \in InHand(h) : \A o \in DOMAIN s.rows \cap DOMAIN t.rows :
    /\ RowsFollow(s.rows[o], t.rows[o])
    /\ o \in Tables /\ ~s.standby /\ ~t.standby => PrimaryFollows(s.rows[o], t.rows[o], h)

\* A complete sample that is not torn is of one epoch.
OneEpoch(s) == \A o \in DOMAIN s.rows : s.rows[o].reset = s.reset

SamplesOfOneEpoch ==
  ~torn => \A h \in Hosts : /\ h \in Sampled => OneEpoch(sweep.got[h])
                            /\ \A s \in Stored(h) : OneEpoch(s)

\* A window is of the sample stored with it.
WindowsMatch ==
  \A i \in 1 .. Len(snaps) :
    /\ DOMAIN snaps[i].windows = DOMAIN snaps[i].rows
    /\ \A h \in DOMAIN snaps[i].rows :
         /\ snaps[i].windows[h].reset = snaps[i].rows[h].reset
         /\ snaps[i].windows[h].standby = snaps[i].rows[h].standby

\* The anchors of h are the rows of its newest capture and nothing else,
\* retention or not.
AnchorsOf(h, i) ==
  LET rows == snaps[i].rows[h].rows IN
  /\ DOMAIN anchors[h] = DOMAIN rows
  /\ \A o \in DOMAIN rows :
       /\ anchors[h][o].at = snaps[i].at
       /\ anchors[h][o].sig = rows[o].sig
       /\ anchors[h][o].count = rows[o].count
       /\ anchors[h][o].reset = rows[o].reset

AnchorsAreNewest ==
  \A h \in Hosts :
    \/ anchors[h] = Empty /\ \A i \in 1 .. Len(snaps) : h \notin DOMAIN snaps[i].rows
    \/ \E i \in LatestWith(h, 1 .. Len(snaps)) : AnchorsOf(h, i)

\* What a quiet time is worth, cold or not: the captures since it saw one
\* primary, one epoch, one relation and no write.
QuietBacked ==
  ~torn =>
  \A h \in Hosts : \A o \in DOMAIN anchors[h] : anchors[h][o].quiet # Nil =>
    /\ o \in Tables
    /\ \A j \in LatestWith(h, 1 .. Len(snaps)) :
         LET new == snaps[j].rows[h].rows[o]
             since == {i \in 1 .. j : /\ h \in DOMAIN snaps[i].windows
                                      /\ snaps[i].at >= anchors[h][o].quiet}
         IN /\ \E i \in since : snaps[i].at = anchors[h][o].quiet
            /\ \A i \in since :
                 /\ ~snaps[i].windows[h].standby
                 /\ o \in DOMAIN snaps[i].rows[h].rows
                 /\ LET old == snaps[i].rows[h].rows[o] IN
                      /\ old.sig = new.sig /\ old.reset = new.reset /\ old.mine = new.mine
                      /\ old.term = new.term => old.all = new.all

\* All the parts together: what every step of servers and daemon preserves.
HotInv ==
  /\ TypeOK
  /\ CapturesInOrder
  /\ CatalogSound
  /\ HalfCurrent
  /\ SamplesPast
  /\ SamplesFollow
  /\ SamplesOfOneEpoch
  /\ WindowsMatch
  /\ AnchorsAreNewest
  /\ IntervalsTile
  /\ ObservationUnbroken
  /\ QuietBacked

=============================================================================
