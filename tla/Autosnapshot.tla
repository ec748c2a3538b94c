---------------------------- MODULE Autosnapshot ----------------------------
(***************************************************************************)
(* The auto-snapshot daemon of one cluster: the poll loop                  *)
(* (backend/internal/autosnapshot/daemon.go), the activity-spike,          *)
(* recovery and role-change triggers (triggers.go) and the tables of the   *)
(* storage database they write (backend/internal/storage/autosnapshot.go,  *)
(* snapshots.go).                                                          *)
(*                                                                         *)
(* The daemon is one goroutine; an action is a stretch of it that ends at  *)
(* a call which commits something in the database, so that a crash may     *)
(* fall between any two commits.  Everything kept in memory is lost in a   *)
(* crash.                                                                  *)
(***************************************************************************)
EXTENDS HostState

CONSTANTS
  Hosts,                 \* the hosts of the cluster
  Counts,                \* active-connection counts a probe may read
  Blocked,               \* blocked-session counts a lock probe may read
  RecoveryDuration,      \* 0 turns the activity_drop snapshot off
  DeferredInterval,      \* 0 turns the deferred follow-up off
  MaxSnapshotFrequency,  \* the debounce
  Direction,             \* role changes that trigger a snapshot
  Roles,                 \* roles a host may be seen in
  MaxNow,                \* bound on the clock
  MaxCrashes             \* bound on daemon crashes

ASSUME DaemonConfigOK ==
  /\ Hosts # {}
  /\ Counts \subseteq Nat
  /\ Blocked \subseteq Nat
  /\ RecoveryDuration \in Nat
  /\ DeferredInterval \in Nat
  /\ MaxSnapshotFrequency \in Nat
  /\ Roles \subseteq {"master", "replica"}
  /\ MaxNow \in Nat
  /\ MaxCrashes \in Nat

VARIABLES
  now,       \* the clock, in poll intervals
  pc,        \* where the daemon's goroutine is
  cur,       \* the host being processed
  todo,      \* hosts of the cluster left in this tick
  claimed,   \* deferred jobs claimed and not yet attempted
  hosts,     \* d.hosts: per-host trigger state (memory)
  lastAuto,  \* d.lastAuto: the debounce map (memory)
  pending,   \* autosnapshot_pending: due time per host (table)
  stored,    \* newest created_at of the host's auto snapshots (table)
  crashes,   \* daemon crashes so far
  seeded,    \* this incarnation's debounce map was loaded
  snap,      \* history: the newest snapshot stored
  hist,      \* history: what became of each host's snapshots
  probes,    \* history: every activity probe of this daemon that returned
  onset      \* history: when the candidate opened whose acknowledged snapshot
             \* opened the host's newest incident

memory == <<hosts, lastAuto>>
tables == <<pending, stored>>
history == <<snap, hist, probes, onset>>
vars == <<now, pc, cur, todo, claimed, memory, tables, crashes, seeded, history>>

PCs == {"down", "sleep", "spike", "enqueue", "cancel", "role", "claim", "deferred"}

Reasons == {"activity_spike", "activity_drop", "role_change", "deferred"}

\* What the caller of takeSnapshot sees: the row committed and acknowledged,
\* nothing committed (no report, no provenance, a failed transaction), or the
\* row committed but the acknowledgement lost to the deadline.
Outcomes == {"ok", "failed", "unacked"}

NoSnap == [host |-> Nil, reason |-> "none", at |-> Nil, since |-> Nil,
           above |-> 0, total |-> 0, peak |-> 0, below |-> Nil]

\* A host's history: lastAcked - newest snapshot a daemon was told is stored;
\* spikes, deferreds - acknowledged spike and stored deferred snapshots;
\* resolved - the newest acknowledged spike was closed and its deferred job
\* deleted; incident - an acknowledged spike snapshot of this daemon's run has had no
\* acknowledged drop yet.
Histories == [lastAcked : OptTime, spikes : Nat, deferreds : Nat,
              resolved : BOOLEAN, incident : BOOLEAN]

NoHistory == [lastAcked |-> Nil, spikes |-> 0, deferreds |-> 0,
              resolved |-> FALSE, incident |-> FALSE]

Init ==
  /\ now = 0
  /\ pc = "sleep"
  /\ cur \in Hosts
  /\ todo = {}
  /\ claimed = {}
  /\ hosts = [h \in Hosts |-> NewHostState]
  /\ lastAuto = [h \in Hosts |-> Nil]
  /\ pending = [h \in Hosts |-> Nil]
  /\ stored = [h \in Hosts |-> Nil]
  /\ crashes = 0
  /\ seeded = TRUE
  /\ snap = NoSnap
  /\ hist = [h \in Hosts |-> NoHistory]
  /\ probes = [h \in Hosts |-> <<>>]
  /\ onset = [h \in Hosts |-> Nil]

-----------------------------------------------------------------------------
(* takeSnapshot and the debounce. *)

Debounced(h) ==
  lastAuto[h] # Nil /\ now - lastAuto[h] < MaxSnapshotFrequency

\* Mutated form: only a spike snapshot stamps the debounce map.
TakeSnapshotSpikeDebounceOnly(h, reason, outcome, report) ==
  /\ stored' = IF outcome = "failed" THEN stored
                                     ELSE [stored EXCEPT ![h] = now]
  /\ lastAuto' = IF outcome = "ok" /\ reason = "activity_spike"
                 THEN [lastAuto EXCEPT ![h] = now]
                 ELSE lastAuto
  /\ snap' = IF outcome = "failed" THEN snap ELSE report

\* The tables and the debounce map after takeSnapshot ended with `outcome`.
TakeSnapshot(h, reason, outcome, report) ==
  /\ stored' = IF outcome = "failed" THEN stored
                                     ELSE [stored EXCEPT ![h] = now]
  /\ lastAuto' = IF outcome = "ok" THEN [lastAuto EXCEPT ![h] = now]
                                   ELSE lastAuto
  /\ snap' = IF outcome = "failed" THEN snap ELSE report

\* What trigger_context reports of the candidate, and when the recovery began.
Report(h, reason, s) ==
  [host |-> h, reason |-> reason, at |-> now,
   since |-> s.aboveThresholdSince, above |-> s.spikeAbove,
   total |-> s.spikeTotal, peak |-> s.spikePeak,
   below |-> s.recoveryBelowSince]

Acked(x) == [x EXCEPT !.lastAcked = now]

SpikeAcked(x) ==
  [Acked(x) EXCEPT !.spikes = @ + 1, !.resolved = FALSE, !.incident = TRUE]

AfterDeferred(x, outcome) ==
  [x EXCEPT !.lastAcked = IF outcome = "ok" THEN now ELSE @,
            !.deferreds = IF outcome = "failed" THEN @ ELSE @ + 1]

-----------------------------------------------------------------------------
(* The poll loop. *)

NextHost ==
  IF todo = {}
  THEN pc' = "claim" /\ UNCHANGED <<cur, todo>>
  ELSE /\ pc' = "spike"
       /\ \E h \in todo : cur' = h /\ todo' = todo \ {h}

\* The timer fires and the configuration is read.
Poll ==
  /\ pc = "sleep"
  /\ now < MaxNow
  /\ now' = now + 1
  /\ \/ \E h \in Hosts :                       \* Enabled: sweep the cluster
          pc' = "spike" /\ cur' = h /\ todo' = Hosts \ {h}
     \/ pc' = "claim" /\ UNCHANGED <<cur, todo>>  \* clusters.Get failed in tick
     \/ pc' = "sleep" /\ UNCHANGED <<cur, todo>>  \* disabled, or config unread
  /\ UNCHANGED <<claimed, memory, tables, crashes, seeded, history>>

\* processClusterSafe recovers a panic between two commits: the hosts left are
\* skipped.
Abandon ==
  /\ pc \in {"spike", "enqueue", "cancel", "role"}
  /\ pc' = "claim"
  /\ todo' = {}
  /\ UNCHANGED <<now, cur, claimed, memory, tables, crashes, seeded, history>>

-----------------------------------------------------------------------------
(* tickActivitySpike. *)

\* The trigger is disabled for the cluster or the probe failed.
SkipProbe ==
  /\ pc = "spike"
  /\ pc' = "role"
  /\ UNCHANGED <<now, cur, todo, claimed, memory, tables, crashes, seeded, history>>

SetHost(s) == hosts' = [hosts EXCEPT ![cur] = s]

SetHist(x) == hist' = [hist EXCEPT ![cur] = x]

\* The host goes on to tickRoleChange with nothing stored.
Settle(s) ==
  /\ SetHost(s)
  /\ pc' = "role"
  /\ UNCHANGED <<lastAuto, stored, snap>>

\* The recovery has lasted: one activity_drop snapshot, not debounced.
Drop(s) ==
  \E outcome \in Outcomes :
    /\ TakeSnapshot(cur, "activity_drop", outcome, Report(cur, "activity_drop", s))
    /\ SetHost([s EXCEPT !.recoveryBelowSince = Nil, !.inSpike = outcome # "ok"])
    /\ IF outcome = "ok"
       THEN SetHist([Acked(hist[cur]) EXCEPT !.incident = FALSE]) /\ pc' = "cancel"
       ELSE UNCHANGED hist /\ pc' = "role"

\* handleRecovery, called with the host state s and the probe's count.
HandleRecovery(s, count) ==
  LET off == RecoveryDuration = 0
      recovering == ~off /\ s.inSpike /\ ~AtOrAbove(count, s.spikeThreshold)
      Wait(since) == Settle([s EXCEPT !.recoveryBelowSince = since]) /\ UNCHANGED hist
  IN \/ /\ off
        /\ Settle([s EXCEPT !.inSpike = FALSE, !.recoveryBelowSince = Nil])
        /\ SetHist([hist[cur] EXCEPT !.incident = FALSE])
     \/ ~off /\ ~recovering /\ Wait(Nil)
     \/ recovering /\ s.recoveryBelowSince = Nil /\ Wait(now)
     \/ /\ recovering
        /\ s.recoveryBelowSince # Nil
        /\ IF now - s.recoveryBelowSince < RecoveryDuration
           THEN Wait(s.recoveryBelowSince)
           ELSE Drop(s)

\* Mutated form: the follow-up does not depend on the snapshot.
FireEnqueuesAlways(s) ==
  \E outcome \in Outcomes :
    /\ TakeSnapshot(cur, "activity_spike", outcome, Report(cur, "activity_spike", s))
    /\ SetHost(IF outcome = "ok"
               THEN [ResetSpike(s) EXCEPT !.inSpike = TRUE,
                                          !.recoveryBelowSince = Nil]
               ELSE ResetSpike(s))
    /\ SetHist(IF outcome = "ok" THEN SpikeAcked(hist[cur]) ELSE hist[cur])
    /\ pc' = IF DeferredInterval > 0 THEN "enqueue" ELSE "role"

\* The candidate fires: snapshot, reset, and on success the incident opens.
Fire(s) ==
  \E outcome \in Outcomes :
    /\ TakeSnapshot(cur, "activity_spike", outcome, Report(cur, "activity_spike", s))
    /\ SetHost(IF outcome = "ok"
               THEN [ResetSpike(s) EXCEPT !.inSpike = TRUE,
                                          !.recoveryBelowSince = Nil]
               ELSE ResetSpike(s))
    /\ SetHist(IF outcome = "ok" THEN SpikeAcked(hist[cur]) ELSE hist[cur])
    /\ pc' = IF outcome = "ok" /\ DeferredInterval > 0 THEN "enqueue" ELSE "role"

\* spikeForming: the lock probe, then the fire checks in the code's order.
Forming(s) ==
  \E blocked \in Blocked :
    LET f == KeepForming(s, blocked) IN
    IF Ripe(f, now) /\ ~Debounced(cur) THEN Fire(f) ELSE Settle(f) /\ UNCHANGED hist

\* The probe's count against the baseline, once it has one.
Judge(s, count, counts) ==
  LET above == AtOrAbove(count, counts)
      step == SpikeStep(s, now, above)
      t == AdvanceSpike(s, now, count, above)
  IN \/ BelowFloor(counts) /\ HandleRecovery(ResetSpike(s), count)
     \/ /\ ~BelowFloor(counts)
        /\ \/ step = "aborted" /\ HandleRecovery(t, count)
           \/ step = "started" /\ Settle(OpenCandidate(t, counts)) /\ UNCHANGED hist
           \/ step = "forming" /\ Forming(t)

\* The probe returned `count`.
Probe(count) ==
  LET s == Observe(hosts[cur], now, count)
      counts == BaselineCounts(s.windowSamples)
      judged == Len(s.windowSamples) >= 2
  IN /\ pc = "spike"
     /\ \/ ~judged /\ Settle(s) /\ UNCHANGED hist
        \/ judged /\ Judge(s, count, counts)
     /\ probes' = [probes EXCEPT ![cur] =
          Append(@, [at |-> now, count |-> count, judged |-> judged,
                     above |-> judged /\ AtOrAbove(count, counts)])]
     /\ onset' = IF hist'[cur].incident /\ ~hist[cur].incident
                 THEN [onset EXCEPT ![cur] = snap'.since]
                 ELSE onset
     /\ UNCHANGED <<now, cur, todo, claimed, pending, crashes, seeded>>

\* EnqueuePendingSnapshot upserts the host's row; an error is only logged.
Enqueue ==
  /\ pc = "enqueue"
  /\ \/ pending' = [pending EXCEPT ![cur] = now + DeferredInterval]
     \/ UNCHANGED pending
  /\ pc' = "role"
  /\ UNCHANGED <<now, cur, todo, claimed, memory, stored, crashes, seeded, history>>

\* DeletePendingSnapshot after a drop; an error is only logged.
Cancel ==
  /\ pc = "cancel"
  /\ \/ pending' = [pending EXCEPT ![cur] = Nil] /\ SetHist([hist[cur] EXCEPT !.resolved = TRUE])
     \/ UNCHANGED <<pending, hist>>
  /\ pc' = "role"
  /\ UNCHANGED <<now, cur, todo, claimed, memory, stored, crashes, seeded, snap, probes, onset>>

-----------------------------------------------------------------------------
(* tickRoleChange. *)

\* The trigger is disabled or GetInstanceInfo failed.
SkipRole ==
  /\ pc = "role"
  /\ NextHost
  /\ UNCHANGED <<now, claimed, memory, tables, crashes, seeded, history>>

\* The host answered with its role; lastInRecovery advances before the
\* direction and the debounce are looked at.
SeeRole(role) ==
  LET last == hosts[cur].lastInRecovery
      fires == /\ last \notin {"unknown", role}
               /\ DirectionAllowed(Direction, DirectionOf(last, role))
               /\ ~Debounced(cur)
  IN /\ pc = "role"
     /\ SetHost([hosts[cur] EXCEPT !.lastInRecovery = role])
     /\ IF fires
        THEN \E outcome \in Outcomes :
               /\ TakeSnapshot(cur, "role_change", outcome,
                               Report(cur, "role_change", NewHostState))
               /\ SetHist(IF outcome = "ok" THEN Acked(hist[cur]) ELSE hist[cur])
        ELSE UNCHANGED <<lastAuto, stored, snap, hist>>
     /\ NextHost
     /\ UNCHANGED <<now, claimed, pending, crashes, seeded, probes, onset>>

-----------------------------------------------------------------------------
(* processPending. *)

Due == {h \in Hosts : pending[h] # Nil /\ pending[h] <= now}

\* Mutated form: the due rows are read and left.
ClaimWithoutDelete ==
  /\ pc = "claim"
  /\ claimed' = Due
  /\ pc' = IF claimed' = {} THEN "sleep" ELSE "deferred"
  /\ UNCHANGED <<now, cur, todo, memory, tables, crashes, seeded, history>>

\* The clusters were resolved and DELETE ... RETURNING committed; the rows may
\* still be lost on their way to the daemon.
Claim ==
  /\ pc = "claim"
  /\ pending' = [h \in Hosts |-> IF h \in Due THEN Nil ELSE pending[h]]
  /\ claimed' \in {Due, {}}
  /\ pc' = IF claimed' = {} THEN "sleep" ELSE "deferred"
  /\ UNCHANGED <<now, cur, todo, memory, stored, crashes, seeded, history>>

\* clusters.Get or the claim itself failed: no row is touched.
SkipClaim ==
  /\ pc = "claim"
  /\ pc' = "sleep"
  /\ UNCHANGED <<now, cur, todo, claimed, memory, tables, crashes, seeded, history>>

\* takePendingSafe ignores the result: the job is gone whatever happens.
TakeDeferred(h) ==
  /\ pc = "deferred"
  /\ h \in claimed
  /\ claimed' = claimed \ {h}
  /\ pc' = IF claimed' = {} THEN "sleep" ELSE "deferred"
  /\ \E outcome \in Outcomes :
       /\ TakeSnapshot(h, "deferred", outcome, Report(h, "deferred", NewHostState))
       /\ hist' = [hist EXCEPT ![h] = AfterDeferred(hist[h], outcome)]
  /\ UNCHANGED <<now, cur, todo, hosts, pending, crashes, seeded, probes, onset>>

-----------------------------------------------------------------------------
(* Crash and restart. *)

\* The process dies between two commits; its memory is gone.
Crash ==
  /\ pc # "down"
  /\ crashes < MaxCrashes
  /\ crashes' = crashes + 1
  /\ pc' = "down"
  /\ todo' = {}
  /\ claimed' = {}
  /\ hosts' = [h \in Hosts |-> NewHostState]
  /\ lastAuto' = [h \in Hosts |-> Nil]
  /\ hist' = [h \in Hosts |-> [hist[h] EXCEPT !.incident = FALSE]]
  /\ probes' = [h \in Hosts |-> <<>>]
  /\ onset' = [h \in Hosts |-> Nil]
  /\ UNCHANGED <<now, cur, tables, seeded, snap>>

\* Time passes while no daemon runs.
Outage ==
  /\ pc = "down"
  /\ now < MaxNow
  /\ now' = now + 1
  /\ UNCHANGED <<pc, cur, todo, claimed, memory, tables, crashes, seeded, history>>

\* LastAutoSnapshotAt groups by cluster: the newest snapshot of any host.
IsLastAutoSnapshotAt(t) ==
  \A h \in Hosts : stored[h] <= t

\* Run up to the loop: seedDebounce gives every host the cluster's newest
\* time, or nothing when the query or clusters.Get failed.
Restart ==
  /\ pc = "down"
  /\ pc' = "sleep"
  /\ \/ /\ \E t \in {stored[h] : h \in Hosts} :
             IsLastAutoSnapshotAt(t) /\ lastAuto' = [h \in Hosts |-> t]
        /\ seeded' = TRUE
     \/ UNCHANGED lastAuto /\ seeded' = FALSE
  /\ UNCHANGED <<now, cur, todo, claimed, hosts, tables, crashes, history>>

-----------------------------------------------------------------------------
\* The bounded clock has run out: nothing left to explore.
Horizon == pc = "sleep" /\ now = MaxNow /\ UNCHANGED vars

Next ==
  \/ Poll
  \/ Abandon
  \/ Horizon
  \/ SkipProbe
  \/ \E count \in Counts : Probe(count)
  \/ Enqueue
  \/ Cancel
  \/ SkipRole
  \/ \E role \in Roles : SeeRole(role)
  \/ Claim
  \/ SkipClaim
  \/ \E h \in Hosts : TakeDeferred(h)
  \/ Crash
  \/ Outage
  \/ Restart

Spec == Init /\ [][Next]_vars

-----------------------------------------------------------------------------
(* Properties. *)

\* The shape of the daemon's memory, of its tables and of the history.
TypeOK ==
  /\ now \in Nat
  /\ pc \in PCs
  /\ cur \in Hosts
  /\ todo \subseteq Hosts
  /\ claimed \subseteq Hosts
  /\ hosts \in [Hosts -> HostStates]
  /\ lastAuto \in [Hosts -> OptTime]
  /\ pending \in [Hosts -> OptTime]
  /\ stored \in [Hosts -> OptTime]
  /\ crashes \in Nat
  /\ seeded \in BOOLEAN
  /\ hist \in [Hosts -> Histories]

\* The probes of host h that were compared with a threshold while its current
\* candidate has been open.
CandidateProbes(h) ==
  {p \in Range(probes[h]) :
     p.judged /\ p.at >= hosts[h].aboveThresholdSince}

\* resetSpike's promise: the counters and the peak describe the probes since
\* the current candidate opened and nothing older, and an abandoned or fired
\* candidate leaves nothing behind for the next one.
CandidateMatchesProbes ==
  \A h \in Hosts :
    LET s == hosts[h]
        all == CandidateProbes(h)
        high == {p \in all : p.above}
    IN IF s.aboveThresholdSince = Nil
       THEN /\ s.lastAboveAt = Nil
            /\ s.spikeAbove = 0 /\ s.spikeTotal = 0
            /\ s.spikePeak = 0 /\ s.lockPeak = 0
       ELSE /\ s.spikeTotal = Cardinality(all)
            /\ s.spikeAbove = Cardinality(high)
            /\ \E p \in high : p.at = s.aboveThresholdSince
            /\ \E p \in high : p.at = s.lastAboveAt
            /\ \E p \in high : p.count = s.spikePeak
            /\ \A p \in high : p.at <= s.lastAboveAt /\ p.count <= s.spikePeak

\* dipGraceDivisor's promise: inside a candidate every probe under the
\* threshold follows one above it by at most half a spike duration.
DipsWithinGrace ==
  \A h \in Hosts :
    hosts[h].aboveThresholdSince # Nil =>
      \A p \in CandidateProbes(h) :
        ~p.above => \E q \in CandidateProbes(h) :
                      /\ q.above
                      /\ q.at < p.at
                      /\ p.at - q.at <= SpikeDuration \div DipGraceDivisor

\* A spike snapshot reports a candidate that lasted spike_duration, is not
\* staler than staleCandidateFactor spike durations, has at least two probes
\* and is dominated by the spike.
SpikeReportIsCurrent ==
  snap.reason = "activity_spike" =>
    /\ snap.at - snap.since >= SpikeDuration
    /\ snap.at - snap.since <= StaleCandidateFactor * SpikeDuration
    /\ 2 <= snap.total
    /\ snap.above * 100 >= MinSpikeCoveragePct * snap.total

\* max_snapshot_frequency across ticks, triggers and restarts: a spike or
\* role-change snapshot is stored only when the newest snapshot that any
\* daemon was told about is old enough, as long as the restarted daemon could
\* read the newest snapshot time.
DebounceRespected ==
  [][(snap' # snap /\ snap'.reason \in {"activity_spike", "role_change"} /\ seeded) =>
       LET last == hist[snap'.host].lastAcked
       IN last = Nil \/ now - last >= MaxSnapshotFrequency]_vars

\* counts are those of the probes of q in the window_size before t, in order:
\* what averageExcludingLast averages for a probe at t.
IsBaseline(q, t, counts) ==
  \E n \in 0 .. Len(q) :
    /\ n + Len(counts) <= Len(q)
    /\ \A i \in 1 .. Len(counts) : counts[i] = q[n + i].count
    /\ \A i \in 1 .. Len(q) :
         i \in n + 1 .. n + Len(counts) <=> q[i].at \in t - WindowSize .. t - 1

\* The recovery of an open incident is judged against the clean threshold of
\* its onset: the average over the probes of the window_size before the
\* candidate opened whose snapshot opened the incident.  It is not that of a
\* candidate abandoned before it, not that of the time it fired, and load that
\* crosses the inflated live threshold again does not move it.
ThresholdIsOnset ==
  \A h \in Hosts :
    hosts[h].inSpike => IsBaseline(probes[h], onset[h], hosts[h].spikeThreshold)

DropTaken == snap' # snap /\ snap'.reason = "activity_drop"

\* The probes of the newest recovery_duration, this step's own included.
RecentProbes(h) ==
  {p \in Range(probes'[h]) : p.at >= now - RecoveryDuration}

\* An activity_drop snapshot is stored only for an incident this daemon opened
\* and has not closed, and only when every probe of the newest
\* recovery_duration that had a baseline was under the frozen threshold.
DropAfterRecovery ==
  [][DropTaken =>
       LET h == snap'.host IN
       /\ hist[h].incident
       /\ now - snap'.below >= RecoveryDuration
       /\ \A p \in RecentProbes(h) :
            p.judged => ~AtOrAbove(p.count, hosts[h].spikeThreshold)]_vars

\* The follow-ups of h that may still be stored.
FollowUps(h) == (IF pending[h] = Nil THEN 0 ELSE 1) + (IF h \in claimed THEN 1 ELSE 0)

\* Every deferred snapshot, claimed job and pending row goes back to a spike
\* snapshot of its own: no crash, replaced row or lost answer makes two out of
\* one.
DeferredOncePerSpike ==
  \A h \in Hosts : hist[h].deferreds + FollowUps(h) <= hist[h].spikes

\* Once a drop snapshot has cancelled the follow-up of its incident, nothing
\* brings it back: no row and no claimed job until the next spike snapshot.
ResolvedHasNoFollowUp ==
  \A h \in Hosts : hist[h].resolved => pending[h] = Nil /\ h \notin claimed

-----------------------------------------------------------------------------
(* The table, the daemon's memory of claimed jobs and the order of its two    *)
(* commits are the abstract queue of follow-ups.                              *)

Queue == INSTANCE DeferredQueue WITH
  Delay <- DeferredInterval,
  Nobody <- Nil,
  clock <- now,
  due <- pending,
  armed <- {h \in Hosts : pc = "enqueue" /\ cur = h},
  held <- claimed,
  spikes <- [h \in Hosts |-> hist[h].spikes],
  taken <- [h \in Hosts |-> hist[h].deferreds]

\* The daemon implements the queue: each of its steps, crashes, panics and
\* lost answers included, is one step of the queue or none; in particular only
\* an acknowledged spike snapshot schedules a follow-up, no follow-up is taken
\* early or twice, and a cancelled one never.
ImplementsQueue == Queue!Spec

-----------------------------------------------------------------------------
(* The inductive invariant behind DeferredOncePerSpike, ResolvedHasNoFollowUp *)
(* and DebounceRespected.                                                     *)

\* What a daemon was told is stored is stored, and lies in the past.
AckedIsStored ==
  \A h \in Hosts : hist[h].lastAcked <= stored[h] /\ stored[h] <= now

\* A running daemon that could load it has a debounce map at least as new as
\* every acknowledgement (Nil, being -1, is older than any time).
DebounceMapCurrent ==
  pc # "down" /\ seeded => \A h \in Hosts : hist[h].lastAcked <= lastAuto[h]

ClaimedOnlyWhileTaking == claimed # {} => pc = "deferred"

\* Between the spike snapshot and its enqueue the incident is unresolved and
\* one follow-up is still to be accounted for.
EnqueueOwed ==
  pc = "enqueue" => /\ ~hist[cur].resolved
                    /\ hist[cur].deferreds + FollowUps(cur) < hist[cur].spikes

\* All the parts together: what every step of the daemon preserves.
DaemonInv ==
  /\ TypeOK
  /\ AckedIsStored
  /\ DebounceMapCurrent
  /\ ClaimedOnlyWhileTaking
  /\ EnqueueOwed
  /\ DeferredOncePerSpike
  /\ ResolvedHasNoFollowUp

-----------------------------------------------------------------------------
(* The inductive invariant behind the properties of the forming spike and of  *)
(* the recovery.                                                              *)

ProbeRecords == [at : Nat, count : Nat, judged : BOOLEAN, above : BOOLEAN]

\* A host is probed at most once a tick: until this tick's probe of it, all
\* its probes are of earlier ticks.
ProbesInOrder ==
  /\ cur \notin todo
  /\ probes \in [Hosts -> Seq(ProbeRecords)]
  /\ \A h \in Hosts : \A p \in Range(probes[h]) :
       /\ p.above => p.judged
       /\ p.at <= now
       /\ h \in todo \/ (pc = "spike" /\ h = cur) => p.at < now

\* An incident in the daemon's memory is one of the history, and while its
\* recovery is timed no judged probe reached the frozen threshold.
RecoveryWatched ==
  \A h \in Hosts :
    LET s == hosts[h] IN
    /\ s.inSpike => hist[h].incident
    /\ s.recoveryBelowSince # Nil =>
         \A p \in Range(probes[h]) :
           p.judged /\ p.at >= s.recoveryBelowSince => ~AtOrAbove(p.count, s.spikeThreshold)

\* The window w holds the newest of the probes q: all but those too old for
\* the last one.
WindowOf(w, q) ==
  LET n == Len(q) - Len(w) IN
  /\ n >= 0
  /\ \A i \in 1 .. Len(w) : w[i].at = q[n + i].at /\ w[i].count = q[n + i].count
  /\ \A i \in 1 .. n : q[i].at < q[Len(q)].at - WindowSize
  /\ \A i, j \in 1 .. Len(q) : i < j => q[i].at < q[j].at

\* The inductive invariant behind ThresholdIsOnset: the threshold of a
\* candidate outside an incident is that of its own opening; an incident in
\* the daemon's memory is open in the history and the other way round.
OnsetInv ==
  /\ onset \in [Hosts -> OptTime]
  /\ \A h \in Hosts :
       LET s == hosts[h] IN
       /\ WindowOf(s.windowSamples, probes[h])
       /\ s.inSpike => IsBaseline(probes[h], onset[h], s.spikeThreshold)
       /\ ~s.inSpike /\ s.aboveThresholdSince # Nil =>
            IsBaseline(probes[h], s.aboveThresholdSince, s.spikeThreshold)
       /\ hist[h].incident => s.inSpike
       /\ onset[h] <= now /\ s.aboveThresholdSince <= now

CandidateFinite ==
  \A h \in Hosts : hosts[h].aboveThresholdSince # Nil => IsFiniteSet(CandidateProbes(h))

\* All the parts together: what every step of the triggers preserves.
SpikeInv ==
  /\ ProbesInOrder
  /\ CandidateFinite
  /\ CandidateMatchesProbes
  /\ DipsWithinGrace
  /\ RecoveryWatched
  /\ SpikeReportIsCurrent
=============================================================================
