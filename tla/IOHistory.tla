----------------------------- MODULE IOHistory -----------------------------
(***************************************************************************)
(* The I/O section of one host: its pg_stat_io counters, the captures the  *)
(* daemon stores on a schedule (internal/autosnapshot/io.go), their table  *)
(* and its retention (internal/storage/statio.go), and the history request *)
(* that turns captures into at most so many points                         *)
(* (internal/http/v1_io.go, internal/statio/statio.go).                    *)
(*                                                                         *)
(* The request reads the table twice: the headers, from which it lays out  *)
(* the buckets and names the captures they need, then those captures.      *)
(* Captures, retention and resets go on between the two reads.             *)
(*                                                                         *)
(* The matrix of pg_stat_io is one cumulative counter; a change of the     *)
(* major version is an epoch like a reset.                                 *)
(***************************************************************************)
EXTENDS Integers, Sequences, FiniteSets, FiniteSetsExt

CONSTANTS
  Interval,      \* the schedule fires every Interval ticks
  Retention,     \* IORetentionDays
  Points,        \* the numbers of points a request may ask for
  MaxNow,        \* bound: the clock
  MaxWork,       \* bound: I/O of the server
  MaxResets      \* bound: resets and major upgrades

ASSUME IOAssumption ==
  /\ Interval \in Nat \ {0}
  /\ Points \subseteq Nat \ {0}
  /\ {Retention, MaxNow, MaxWork, MaxResets} \subseteq Nat

Nil == -1

\* The members of a finite set of numbers, smallest first.
Ascending(S) ==
  [i \in 1..Cardinality(S) |-> CHOOSE x \in S : Cardinality({y \in S : y <= x}) = i]

\* The sum of the naturals a function holds, as the size of a disjoint union.
Total(f) == Cardinality(UNION {{x} \X (1..f[x]) : x \in DOMAIN f})

VARIABLES
  now,
  count,      \* the server's counter since its reset
  epoch,      \* stats_reset and major version
  captures,   \* io_snapshot
  attempt,    \* d.lastIOAttempt (memory of the daemon)
  truth,      \* history: the server's I/O ever done, at each capture
  request     \* a history request under way

vars == <<now, count, epoch, captures, attempt, truth, request>>

Capture == [at : 0..MaxNow, count : 0..MaxWork, epoch : 0..MaxResets]

NoRequest == [pc |-> "idle", from |-> 0, points |-> 1, metas |-> <<>>, buckets |-> <<>>,
              pruned |-> FALSE]

\* The shape of the server, the table and the request.
TypeOK ==
  /\ now \in 0..MaxNow
  /\ count \in 0..MaxWork
  /\ epoch \in 0..MaxResets
  /\ captures \in SUBSET Capture
  /\ attempt \in 0..MaxNow \cup {Nil}
  /\ truth \in [0..(MaxNow + 1) -> 0..MaxWork]
  /\ request.pc \in {"idle", "planned", "served"}

\* truth[MaxNow + 1] is the I/O done so far.
done == truth[MaxNow + 1]

Init ==
  /\ now = 0
  /\ count = 0
  /\ epoch = 0
  /\ captures = {}
  /\ attempt = Nil
  /\ truth = [t \in 0..(MaxNow + 1) |-> 0]
  /\ request = NoRequest

-----------------------------------------------------------------------------
\* The server.

Work ==
  /\ done < MaxWork
  /\ count' = count + 1
  /\ truth' = [truth EXCEPT ![MaxNow + 1] = @ + 1]
  /\ UNCHANGED <<now, epoch, captures, attempt, request>>

Reset ==
  /\ epoch < MaxResets
  /\ epoch' = epoch + 1
  /\ count' = 0
  /\ UNCHANGED <<now, captures, attempt, truth, request>>

Tick ==
  /\ now < MaxNow
  /\ now' = now + 1
  /\ UNCHANGED <<count, epoch, captures, attempt, truth, request>>

-----------------------------------------------------------------------------
\* The daemon.

\* LastIOSnapshotAt, Nil without a stored capture.
LastAt == IF captures = {} THEN Nil ELSE Max({c.at : c \in captures})

NextFire(t) == (t \div Interval + 1) * Interval

\* dueForCapture and cronDue, of a schedule that parsed.
Due == LET last == IF LastAt # Nil THEN LastAt ELSE attempt IN
         last = Nil \/ now >= NextFire(last)

\* processIOSnapshots takes and stores a sample, two statements and one step: a
\* request that reads the table between them finds in it what it held before.
TakeIOSnapshot ==
  /\ Due
  /\ attempt' = now
  /\ captures' = captures \cup {[at |-> now, count |-> count, epoch |-> epoch]}
  /\ truth' = [truth EXCEPT ![now] = done]
  /\ UNCHANGED <<now, count, epoch, request>>

\* The sample or the insert fails, and is logged.
SnapshotFails ==
  /\ Due
  /\ attempt # now
  /\ attempt' = now
  /\ UNCHANGED <<now, count, epoch, captures, truth, request>>

\* The daemon restarts, or another one takes over.
Restart ==
  /\ attempt # Nil
  /\ attempt' = Nil
  /\ UNCHANGED <<now, count, epoch, captures, truth, request>>

\* maybeRunIORetention: the partitions before the cutoff are dropped one by
\* one, in whatever order the catalog lists them, and an error stops the rest.
\* A partition holds the captures of one tick.
IORetention ==
  /\ \E t \in 0..(now - Retention - 1) :
       LET partition == {c \in captures : c.at = t} IN
       /\ partition # {}
       /\ captures' = captures \ partition
  /\ request' = [request EXCEPT !.pruned = TRUE]
  /\ UNCHANGED <<now, count, epoch, attempt, truth>>

-----------------------------------------------------------------------------
\* Intervals and buckets (internal/statio).

SameEpoch(a, b) == a.epoch = b.epoch

\* metaIntervals: between captures i and i + 1 of a chronological sequence.
MetaInterval(ms, i) ==
  [from |-> ms[i].at, to |-> ms[i + 1].at,
   complete |-> ms[i + 1].at > ms[i].at /\ SameEpoch(ms[i], ms[i + 1])]

MetaIntervals(ms) == [i \in 1..(Len(ms) - 1) |-> MetaInterval(ms, i)]

\* Mutated form: the upper bound decides, and the last group is not the limit.
GroupOfUpperBound(ivs, points, i) ==
  IF Len(ivs) <= points THEN i - 1
  ELSE LET start == ivs[1].from
           width == (ivs[Len(ivs)].to - start) \div points IN
       (ivs[i].to - start) \div width

\* The group of interval i: its own while there are enough points, otherwise
\* the one of equal duration that holds its midpoint.
GroupOf(ivs, points, i) ==
  IF Len(ivs) <= points THEN i - 1
  ELSE LET start == ivs[1].from
           width == (ivs[Len(ivs)].to - start) \div points
           middle == ivs[i].from + (ivs[i].to - ivs[i].from) \div 2 IN
       Min({(middle - start) \div width, points - 1})

\* groupIntervals: the index sets of the groups that hold an interval, in order.
GroupIntervals(ivs, points) ==
  LET used == {GroupOf(ivs, points, i) : i \in DOMAIN ivs}
      order == Ascending(used) IN
  [g \in DOMAIN order |-> {i \in DOMAIN ivs : GroupOf(ivs, points, i) = order[g]}]

\* Mutated form: an interval that cannot be measured does not end the span.
SpansAcross(ivs, group) ==
  LET whole == {i \in group : ivs[i].complete} IN
  IF whole = {} THEN {}
  ELSE {[from |-> ivs[Min(whole)].from, to |-> ivs[Max(whole)].to]}

\* The maximal runs of complete intervals of a group, first and last index.
Runs(ivs, group) ==
  LET Run(a, b) == \A i \in a..b : i \in group /\ ivs[i].complete IN
  {r \in group \X group :
     /\ r[1] <= r[2] /\ Run(r[1], r[2])
     /\ ~Run(r[1] - 1, r[2]) /\ ~Run(r[1], r[2] + 1)}

\* The spans of a group: from the first to the last capture of each run.
Spans(ivs, group) ==
  {[from |-> ivs[r[1]].from, to |-> ivs[r[2]].to] : r \in Runs(ivs, group)}

Length(span) == span.to - span.from

\* planOf
PlanOf(ivs, group) ==
  [from |-> ivs[Min(group)].from,
   to |-> ivs[Max(group)].to,
   duration |-> Total([i \in {j \in group : ivs[j].complete} |-> Length(ivs[i])]),
   partial |-> \E i \in group : ~ivs[i].complete,
   spans |-> Spans(ivs, group)]

\* PlanBuckets
PlanBuckets(ms, points) ==
  LET ivs == MetaIntervals(ms)
      groups == GroupIntervals(ivs, points) IN
  [g \in DOMAIN groups |-> PlanOf(ivs, groups[g])]

\* Mutated form: a counter that stood still counts as fallen.
ComparableIfGrown(bodies, span) ==
  \E a, b \in bodies :
    /\ a.at = span.from /\ b.at = span.to
    /\ SameEpoch(a, b)
    /\ a.count < b.count

\* spanDelta and Delta: both ends were loaded, are of one epoch and did not fall.
\* With one counter no row lacks its baseline, and as a reset always shows in the
\* epoch the last comparison never decides.
Comparable(bodies, span) ==
  \E a, b \in bodies :
    /\ a.at = span.from /\ b.at = span.to
    /\ SameEpoch(a, b)
    /\ a.count <= b.count

CountAt(bodies, t) == (CHOOSE c \in bodies : c.at = t).count

\* Assemble, for one bucket.  measured is history: the spans behind the rows.
AssembleBucket(plan, bodies) ==
  LET good == {s \in plan.spans : Comparable(bodies, s)} IN
  [from |-> plan.from, to |-> plan.to,
   duration |-> plan.duration - Total([s \in plan.spans \ good |-> Length(s)]),
   partial |-> plan.partial \/ good # plan.spans,
   rows |-> Total([s \in good |-> CountAt(bodies, s.to) - CountAt(bodies, s.from)]),
   measured |-> good]

-----------------------------------------------------------------------------
\* The request (GetIOHistory).

\* GetIOSnapshotMetas: the captures of the window [from, to], preceded by the
\* last one before it.
Metas(from, to) ==
  LET before == {c \in captures : c.at < from}
      window == {c \in captures : c.at \in from..to} IN
  window \cup {c \in before : \A d \in before : d.at <= c.at}

\* Chronologically, as the query orders them.
Chronological(ms) ==
  LET at == Ascending({c.at : c \in ms}) IN
  [i \in DOMAIN at |-> CHOOSE c \in ms : c.at = at[i]]

\* The window ends now or earlier; ioWindow never lets it end before it begins.
ReadMetas ==
  /\ request.pc = "idle"
  /\ \E to \in 0..now : \E from \in 0..to, points \in Points :
       request' = [NoRequest EXCEPT !.pc = "planned", !.from = from, !.points = points,
                     !.metas = Chronological(Metas(from, to))]
  /\ UNCHANGED <<now, count, epoch, captures, attempt, truth>>

\* Plan.At, then GetIOSnapshotsAt.
Bodies(plan) ==
  LET at == UNION {UNION {{s.from, s.to} : s \in plan[b].spans} : b \in DOMAIN plan} IN
  {c \in captures : c.at \in at}

ServeHistory ==
  /\ request.pc = "planned"
  /\ LET plan == PlanBuckets(request.metas, request.points) IN
       request' = [request EXCEPT !.pc = "served",
                     !.buckets = [b \in DOMAIN plan |-> AssembleBucket(plan[b], Bodies(plan))]]
  /\ UNCHANGED <<now, count, epoch, captures, attempt, truth>>

Finish ==
  /\ request.pc = "served"
  /\ request' = NoRequest
  /\ UNCHANGED <<now, count, epoch, captures, attempt, truth>>

Next ==
  \/ Work \/ Reset \/ Tick
  \/ TakeIOSnapshot \/ SnapshotFails \/ Restart \/ IORetention
  \/ ReadMetas \/ ServeHistory \/ Finish

Spec == Init /\ [][Next]_vars

-----------------------------------------------------------------------------
buckets == request.buckets
metas == request.metas

\* The window's own first interval is there: when a capture before the window
\* existed as the headers were read, the series starts before the window.
WindowCovered ==
  request.pc = "planned" /\ ~request.pruned
    /\ (\E c \in captures : c.at < request.from) /\ metas # <<>>
    => metas[1].at < request.from

(***************************************************************************)
(* A served history is at most the requested number of buckets that tile,  *)
(* without gap or overlap, the time from the last capture before the       *)
(* window (or the first inside it) to the last capture: a group without an *)
(* interval, a missed capture or a rounded width loses or doubles nothing. *)
(* Everything keeps its shape meanwhile.                                   *)
(***************************************************************************)
BucketsTile ==
  /\ TypeOK
  /\ WindowCovered
  /\ request.pc = "served" =>
    /\ Len(buckets) <= request.points
    /\ Len(metas) >= 2 =>
         /\ buckets # <<>>
         /\ buckets[1].from = metas[1].at
         /\ buckets[Len(buckets)].to = metas[Len(metas)].at
    /\ \A b \in DOMAIN buckets :
         /\ buckets[b].from < buckets[b].to
         /\ b > 1 => buckets[b - 1].to = buckets[b].from

(***************************************************************************)
(* What a bucket reports is the I/O the server really did in the part of   *)
(* the bucket it measured, over exactly that part's duration: no reset     *)
(* between captures, or between the two reads, and no capture dropped      *)
(* between the reads turns into a wrong number; it makes the bucket        *)
(* partial.                                                                *)
(***************************************************************************)
MeasuredIsReal ==
  \A b \in DOMAIN buckets :
    LET k == buckets[b] IN
    /\ k.rows = Total([s \in k.measured |-> truth[s.to] - truth[s.from]])
    /\ k.duration = Total([s \in k.measured |-> Length(s)])
    /\ k.partial <=> k.duration # k.to - k.from
    /\ ~k.partial => k.rows = truth[k.to] - truth[k.from]

(***************************************************************************)
(* Nothing is given up needlessly: a bucket all of whose captures are of   *)
(* one epoch is complete, unless retention ran between the two reads.      *)
(* A reset that the captures do not show as another epoch is outside the   *)
(* model: Delta then refuses the span because its counter fell.            *)
(***************************************************************************)
CompleteWhenUnbroken ==
  request.pc = "served" /\ ~request.pruned =>
    \A b \in DOMAIN buckets :
      (\A i, j \in {m \in DOMAIN metas : metas[m].at \in buckets[b].from..buckets[b].to} :
         metas[i].epoch = metas[j].epoch)
      => ~buckets[b].partial
=============================================================================
