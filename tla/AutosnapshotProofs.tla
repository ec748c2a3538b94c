------------------------- MODULE AutosnapshotProofs -------------------------
(***************************************************************************)
(* Proofs about Autosnapshot, for every set of hosts, every configuration  *)
(* the validation accepts and any number of polls and crashes.             *)
(***************************************************************************)
EXTENDS Autosnapshot, SequenceTheorems, FiniteSetTheorems, TLAPS

-----------------------------------------------------------------------------
(* What the operators on hostState return. *)

\* Trimming the window leaves a sequence of samples.
LEMMA TrimType ==
  ASSUME NEW samples \in Seq(Sample), NEW cutoff \in Int
  PROVE  TrimSamples(samples, cutoff) \in Seq(Sample)
<1> DEFINE n == Len(samples)
           stale == {i \in 1 .. n : samples[i].at < cutoff}
<1>1. n \in Nat
  BY LenProperties
<1>2. IsFiniteSet(1 .. n) /\ Cardinality(1 .. n) = n
  BY <1>1, FS_Interval
<1>3. IsFiniteSet(stale) /\ Cardinality(stale) <= n
  BY <1>2, FS_Subset
<1>4. Cardinality(stale) \in Nat
  BY <1>3, FS_CardinalityType
<1>5. ASSUME NEW k \in 1 .. n + 1
      PROVE  SubSeq(samples, k, n) \in Seq(Sample)
  <2>1. \A i \in k .. n : samples[i] \in Sample
    BY <1>1, ElementOfSeq
  <2> QED
    BY <1>1, <2>1, SubSeqProperties
<1>6. Cardinality(stale) + 1 \in 1 .. n + 1
  BY <1>1, <1>3, <1>4
<1> QED
  BY <1>5, <1>6 DEF TrimSamples

\* Observing a probe only changes the window.
LEMMA ObserveType ==
  ASSUME NEW s \in HostStates, NEW t \in Nat, NEW count \in Nat
  PROVE  /\ Observe(s, t, count) \in HostStates
         /\ Observe(s, t, count).inSpike = s.inSpike
         /\ Observe(s, t, count).spikeThreshold = s.spikeThreshold
<1> DEFINE w == TrimSamples(Append(s.windowSamples, [at |-> t, count |-> count]),
                            t - WindowSize)
<1>1. Append(s.windowSamples, [at |-> t, count |-> count]) \in Seq(Sample)
  BY AppendProperties DEF HostStates, Sample
<1>2. t - WindowSize \in Int
  BY TriggerConfigOK
<1>3. w \in Seq(Sample)
  BY <1>1, <1>2, TrimType
<1> HIDE DEF w
<1>4. Observe(s, t, count) = [s EXCEPT !.windowSamples = w]
  BY DEF Observe, w
<1> QED
  BY <1>3, <1>4 DEF HostStates

\* The baseline is a sequence of naturals.
LEMMA BaselineType ==
  ASSUME NEW samples \in Seq(Sample)
  PROVE  BaselineCounts(samples) \in Seq(Nat)
<1>1. Len(samples) \in Nat
  BY LenProperties
<1>2. CASE Len(samples) = 0
  <2>1. BaselineCounts(samples) \in [1 .. 0 -> Nat]
    BY <1>2 DEF BaselineCounts
  <2> QED
    BY <2>1, SeqDef
<1>3. CASE Len(samples) # 0
  <2>1. Len(samples) - 1 \in Nat
    BY <1>1, <1>3
  <2>2. \A i \in 1 .. Len(samples) - 1 : samples[i] \in Sample
    BY <1>1, ElementOfSeq
  <2>3. BaselineCounts(samples) \in [1 .. Len(samples) - 1 -> Nat]
    BY <2>2 DEF BaselineCounts, Sample
  <2> QED
    BY <2>1, <2>3, SeqDef
<1> QED
  BY <1>2, <1>3

\* advanceSpike and its parts keep the incident flag and the frozen threshold.
LEMMA ResetSpikeType ==
  ASSUME NEW s \in HostStates
  PROVE  /\ ResetSpike(s) \in HostStates
         /\ ResetSpike(s).inSpike = s.inSpike
         /\ ResetSpike(s).spikeThreshold = s.spikeThreshold
BY DEF ResetSpike, HostStates, OptTime, Nil

\* Dropping a stale candidate keeps the incident and its threshold.
LEMMA AgeOutType ==
  ASSUME NEW s \in HostStates, NEW t \in Nat
  PROVE  /\ AgeOut(s, t) \in HostStates
         /\ AgeOut(s, t).inSpike = s.inSpike
         /\ AgeOut(s, t).spikeThreshold = s.spikeThreshold
BY ResetSpikeType DEF AgeOut

\* A probe above the threshold only moves the candidate.
LEMMA FoldAboveType ==
  ASSUME NEW s \in HostStates, NEW t \in Nat, NEW count \in Nat
  PROVE  /\ FoldAbove(s, t, count) \in HostStates
         /\ FoldAbove(s, t, count).inSpike = s.inSpike
         /\ FoldAbove(s, t, count).spikeThreshold = s.spikeThreshold
<1> DEFINE peak == IF count > s.spikePeak THEN count ELSE s.spikePeak
           since == IF s.aboveThresholdSince = Nil THEN t ELSE s.aboveThresholdSince
           above == s.spikeAbove + 1
           total == s.spikeTotal + 1
<1>1. peak \in Nat /\ since \in OptTime /\ t \in OptTime /\ above \in Nat /\ total \in Nat
  BY DEF HostStates, OptTime
<1>2. FoldAbove(s, t, count) =
        [s EXCEPT !.lastAboveAt = t, !.spikeAbove = above, !.spikeTotal = total,
                  !.spikePeak = peak, !.aboveThresholdSince = since]
  BY DEF FoldAbove, HostStates
<1> HIDE DEF peak, since, above, total
<1> QED
  BY <1>1, <1>2 DEF HostStates

\* A probe under the threshold only moves or ends the candidate.
LEMMA FoldDipType ==
  ASSUME NEW s \in HostStates, NEW t \in Nat
  PROVE  /\ FoldDip(s, t) \in HostStates
         /\ FoldDip(s, t).inSpike = s.inSpike
         /\ FoldDip(s, t).spikeThreshold = s.spikeThreshold
<1>1. \A n \in Nat :
        LET d == [s EXCEPT !.spikeTotal = n] IN
        d \in HostStates /\ d.inSpike = s.inSpike /\ d.spikeThreshold = s.spikeThreshold
  BY DEF HostStates
<1>2. s.spikeTotal + 1 \in Nat
  BY DEF HostStates
<1> QED
  BY <1>1, <1>2, ResetSpikeType DEF FoldDip

\* advanceSpike as a whole leaves the incident alone.
LEMMA AdvanceSpikeType ==
  ASSUME NEW s \in HostStates, NEW t \in Nat, NEW count \in Nat, NEW above
  PROVE  /\ AdvanceSpike(s, t, count, above) \in HostStates
         /\ AdvanceSpike(s, t, count, above).inSpike = s.inSpike
         /\ AdvanceSpike(s, t, count, above).spikeThreshold = s.spikeThreshold
BY AgeOutType, FoldAboveType, FoldDipType DEF AdvanceSpike

\* Opening a candidate freezes the threshold unless an incident is open.
LEMMA OpenCandidateType ==
  ASSUME NEW s \in HostStates, NEW counts \in Seq(Nat)
  PROVE  /\ OpenCandidate(s, counts) \in HostStates
         /\ OpenCandidate(s, counts).inSpike = s.inSpike
         /\ s.inSpike => OpenCandidate(s, counts).spikeThreshold = s.spikeThreshold
BY DEF OpenCandidate, HostStates, OptTime, Nil

\* The lock probe of a forming candidate leaves the incident alone.
LEMMA KeepFormingType ==
  ASSUME NEW s \in HostStates, NEW blocked \in Nat
  PROVE  /\ KeepForming(s, blocked) \in HostStates
         /\ KeepForming(s, blocked).inSpike = s.inSpike
         /\ KeepForming(s, blocked).spikeThreshold = s.spikeThreshold
BY DEF KeepForming, HostStates, OptTime, Nil

-----------------------------------------------------------------------------
(* Everything a probe can do, told by its effect on the tables. *)

\* Nothing stored; at most an incident that needs no drop snapshot is closed.
ProbeQuiet ==
  /\ pc' = "role"
  /\ UNCHANGED <<lastAuto, stored, snap>>
  /\ \/ UNCHANGED hist
     \/ hist' = [hist EXCEPT ![cur] = [hist[cur] EXCEPT !.incident = FALSE]]

\* A snapshot was tried and the daemon was not told it is stored.
ProbeUnacked ==
  /\ pc' = "role"
  /\ UNCHANGED <<lastAuto, hist>>
  /\ \/ UNCHANGED <<stored, snap>>
     \/ /\ stored' = [stored EXCEPT ![cur] = now]
        /\ snap'.host = cur
        /\ snap'.reason = "activity_drop" \/ ~Debounced(cur)

ProbeDropped ==
  /\ pc' = "cancel"
  /\ lastAuto' = [lastAuto EXCEPT ![cur] = now]
  /\ stored' = [stored EXCEPT ![cur] = now]
  /\ hist' = [hist EXCEPT ![cur] = [Acked(hist[cur]) EXCEPT !.incident = FALSE]]
  /\ snap'.reason = "activity_drop"

ProbeFired ==
  /\ ~Debounced(cur)
  /\ pc' \in {"enqueue", "role"}
  /\ lastAuto' = [lastAuto EXCEPT ![cur] = now]
  /\ stored' = [stored EXCEPT ![cur] = now]
  /\ hist' = [hist EXCEPT ![cur] = SpikeAcked(hist[cur])]
  /\ snap'.host = cur

ProbeEffect == ProbeQuiet \/ ProbeUnacked \/ ProbeDropped \/ ProbeFired

\* The host state a probe leaves, and the frozen threshold it may not move.
ProbeKeeps(old) ==
  \E s \in HostStates :
    /\ hosts' = [hosts EXCEPT ![cur] = s]
    /\ old.inSpike /\ s.inSpike => s.spikeThreshold = old.spikeThreshold

\* handleRecovery stores at most one drop snapshot and keeps the threshold.
LEMMA HandleRecoveryEffect ==
  ASSUME TypeOK, NEW s \in HostStates, NEW count \in Nat, HandleRecovery(s, count)
  PROVE  ProbeEffect /\ ProbeKeeps(s)
<1>1. /\ \A since \in OptTime :
           LET d == [s EXCEPT !.recoveryBelowSince = since] IN
           d \in HostStates /\ d.spikeThreshold = s.spikeThreshold
      /\ \A since \in OptTime, open \in BOOLEAN :
           LET d == [s EXCEPT !.recoveryBelowSince = since, !.inSpike = open] IN
           d \in HostStates /\ d.spikeThreshold = s.spikeThreshold
      /\ \A since \in OptTime, open \in BOOLEAN :
           LET d == [s EXCEPT !.inSpike = open, !.recoveryBelowSince = since] IN
           d \in HostStates /\ d.spikeThreshold = s.spikeThreshold
  BY DEF HostStates
<1>2. now \in OptTime /\ Nil \in OptTime /\ s.recoveryBelowSince \in OptTime
  BY DEF TypeOK, OptTime, HostStates
<1>3. ASSUME NEW since \in OptTime,
             Settle([s EXCEPT !.recoveryBelowSince = since]) /\ UNCHANGED hist
      PROVE  ProbeEffect /\ ProbeKeeps(s)
  BY <1>1, <1>3 DEF Settle, SetHost, ProbeEffect, ProbeQuiet, ProbeKeeps
<1>4. CASE /\ Settle([s EXCEPT !.inSpike = FALSE, !.recoveryBelowSince = Nil])
           /\ SetHist([hist[cur] EXCEPT !.incident = FALSE])
  BY <1>1, <1>2, <1>4 DEF Settle, SetHost, SetHist, ProbeEffect, ProbeQuiet, ProbeKeeps
<1>5. CASE Drop(s)
  <2>1. PICK outcome \in Outcomes :
          /\ TakeSnapshot(cur, "activity_drop", outcome, Report(cur, "activity_drop", s))
          /\ SetHost([s EXCEPT !.recoveryBelowSince = Nil, !.inSpike = outcome # "ok"])
          /\ IF outcome = "ok"
             THEN SetHist([Acked(hist[cur]) EXCEPT !.incident = FALSE]) /\ pc' = "cancel"
             ELSE UNCHANGED hist /\ pc' = "role"
    BY <1>5 DEF Drop
  <2>2. (outcome # "ok") \in BOOLEAN
    OBVIOUS
  <2>3. ProbeKeeps(s)
    BY <1>1, <1>2, <2>1, <2>2 DEF SetHost, ProbeKeeps
  <2>4. CASE outcome = "ok"
    BY <2>1, <2>3, <2>4 DEF TakeSnapshot, Report, SetHist, ProbeEffect, ProbeDropped
  <2>5. CASE outcome # "ok"
    BY <2>1, <2>3, <2>5 DEF TakeSnapshot, Report, ProbeEffect, ProbeUnacked
  <2> QED
    BY <2>3, <2>4, <2>5 DEF ProbeEffect
<1> QED
  BY <1>2, <1>3, <1>4, <1>5 DEF HandleRecovery

\* A forming candidate fires only when the host is not debounced.
LEMMA FormingEffect ==
  ASSUME TypeOK, NEW s \in HostStates, Forming(s)
  PROVE  ProbeEffect /\ ProbeKeeps(s)
<1>1. PICK blocked \in Blocked :
        LET f == KeepForming(s, blocked) IN
        IF Ripe(f, now) /\ ~Debounced(cur) THEN Fire(f) ELSE Settle(f) /\ UNCHANGED hist
  BY DEF Forming
<1> DEFINE f == KeepForming(s, blocked)
<1>2. /\ f \in HostStates
      /\ f.inSpike = s.inSpike
      /\ f.spikeThreshold = s.spikeThreshold
  BY KeepFormingType, DaemonConfigOK
<1> HIDE DEF f
<1>3. CASE Settle(f) /\ UNCHANGED hist
  BY <1>2, <1>3 DEF Settle, SetHost, ProbeEffect, ProbeQuiet, ProbeKeeps
<1>4. CASE ~Debounced(cur) /\ Fire(f)
  <2> DEFINE r == ResetSpike(f)
             i == [r EXCEPT !.inSpike = TRUE, !.recoveryBelowSince = Nil]
  <2>1. r \in HostStates /\ r.spikeThreshold = f.spikeThreshold
    BY <1>2, ResetSpikeType
  <2>2. i \in HostStates /\ i.spikeThreshold = f.spikeThreshold
    <3> HIDE DEF r
    <3> QED
      BY <2>1 DEF HostStates, OptTime
  <2>3. PICK outcome \in Outcomes :
          /\ TakeSnapshot(cur, "activity_spike", outcome, Report(cur, "activity_spike", f))
          /\ SetHost(IF outcome = "ok" THEN i ELSE r)
          /\ SetHist(IF outcome = "ok" THEN SpikeAcked(hist[cur]) ELSE hist[cur])
          /\ pc' = IF outcome = "ok" /\ DeferredInterval > 0 THEN "enqueue" ELSE "role"
    BY <1>4 DEF Fire
  <2> HIDE DEF r, i
  <2>4. ProbeKeeps(s)
    BY <1>2, <2>1, <2>2, <2>3 DEF SetHost, ProbeKeeps
  <2>5. CASE outcome = "ok"
    BY <1>4, <2>3, <2>4, <2>5 DEF TakeSnapshot, Report, SetHist, ProbeEffect, ProbeFired
  <2>6. CASE outcome # "ok"
    <3>1. hist' = hist
      BY <2>3, <2>6 DEF SetHist, TypeOK
    <3> QED
      BY <1>4, <2>3, <2>4, <2>6, <3>1 DEF TakeSnapshot, Report, ProbeEffect, ProbeUnacked
  <2> QED
    BY <2>4, <2>5, <2>6
<1> QED
  BY <1>1, <1>3, <1>4 DEF f

\* The whole of tickActivitySpike after a probe that returned.
LEMMA ProbeHasEffect ==
  ASSUME TypeOK, NEW count \in Counts, Probe(count)
  PROVE  /\ ProbeEffect
         /\ ProbeKeeps(hosts[cur])
         /\ pc = "spike"
         /\ UNCHANGED <<now, cur, todo, claimed, pending, crashes, seeded>>
<1> DEFINE s == Observe(hosts[cur], now, count)
           counts == BaselineCounts(s.windowSamples)
<1>1. count \in Nat /\ now \in Nat /\ hosts[cur] \in HostStates
  BY DaemonConfigOK DEF TypeOK
<1>2. /\ s \in HostStates
      /\ s.inSpike = hosts[cur].inSpike
      /\ s.spikeThreshold = hosts[cur].spikeThreshold
  BY <1>1, ObserveType
<1>3. counts \in Seq(Nat)
  BY <1>2, BaselineType DEF HostStates
<1>4. /\ pc = "spike"
      /\ UNCHANGED <<now, cur, todo, claimed, pending, crashes, seeded>>
      /\ \/ Settle(s) /\ UNCHANGED hist
         \/ Judge(s, count, counts)
  BY DEF Probe
<1> HIDE DEF s, counts
<1>5. CASE Settle(s) /\ UNCHANGED hist
  BY <1>2, <1>4, <1>5 DEF Settle, SetHost, ProbeEffect, ProbeQuiet, ProbeKeeps
<1>6. CASE Judge(s, count, counts)
  <2> DEFINE above == AtOrAbove(count, counts)
             t == AdvanceSpike(s, now, count, above)
  <2>1. /\ t \in HostStates
        /\ t.inSpike = s.inSpike
        /\ t.spikeThreshold = s.spikeThreshold
    BY <1>1, <1>2, AdvanceSpikeType
  <2>2. \/ HandleRecovery(ResetSpike(s), count)
        \/ HandleRecovery(t, count)
        \/ Settle(OpenCandidate(t, counts)) /\ UNCHANGED hist
        \/ Forming(t)
    BY <1>6 DEF Judge
  <2> HIDE DEF t
  <2>3. CASE HandleRecovery(ResetSpike(s), count)
    BY <1>1, <1>2, <1>4, <2>3, ResetSpikeType, HandleRecoveryEffect DEF ProbeKeeps
  <2>4. CASE HandleRecovery(t, count)
    BY <1>1, <1>2, <1>4, <2>1, <2>4, HandleRecoveryEffect DEF ProbeKeeps
  <2>5. CASE Settle(OpenCandidate(t, counts)) /\ UNCHANGED hist
    <3> DEFINE u == OpenCandidate(t, counts)
    <3>1. /\ u \in HostStates
          /\ u.inSpike = t.inSpike
          /\ t.inSpike => u.spikeThreshold = t.spikeThreshold
      BY <1>3, <2>1, OpenCandidateType
    <3> HIDE DEF u
    <3>2. hosts' = [hosts EXCEPT ![cur] = u]
      BY <2>5 DEF Settle, SetHost, u
    <3>3. ProbeKeeps(hosts[cur])
      BY <1>2, <2>1, <3>1, <3>2 DEF ProbeKeeps
    <3> QED
      BY <1>4, <2>5, <3>3 DEF Settle, ProbeEffect, ProbeQuiet
  <2>6. CASE Forming(t)
    BY <1>2, <1>4, <2>1, <2>6, FormingEffect DEF ProbeKeeps
  <2> QED
    BY <2>2, <2>3, <2>4, <2>5, <2>6
<1> QED
  BY <1>4, <1>5, <1>6

-----------------------------------------------------------------------------
(* Type correctness. *)

\* The daemon starts, and each of its steps stays, within the types.
LEMMA InitType == Init => TypeOK
BY DaemonConfigOK, EmptySeq
   DEF Init, TypeOK, PCs, NewHostState, NoHistory, HostStates, Histories,
       Role, OptTime, Nil

\* Every update of a host's history is a history.
LEMMA HistTypes ==
  ASSUME NEW x \in Histories, now \in Nat
  PROVE  /\ Acked(x) \in Histories
         /\ SpikeAcked(x) \in Histories
         /\ \A b \in BOOLEAN : [x EXCEPT !.incident = b] \in Histories
         /\ \A b \in BOOLEAN : [x EXCEPT !.resolved = b] \in Histories
         /\ \A outcome : AfterDeferred(x, outcome) \in Histories
<1>1. \A n \in Nat, k \in OptTime, a, b \in BOOLEAN :
        [[x EXCEPT !.lastAcked = k] EXCEPT !.spikes = n, !.resolved = a, !.incident = b]
          \in Histories
  BY DEF Histories
<1>2. now \in OptTime /\ x.spikes + 1 \in Nat
  BY DEF Histories, OptTime
<1>3. Acked(x) \in Histories
  BY <1>2 DEF Acked, Histories
<1>4. SpikeAcked(x) =
        [[x EXCEPT !.lastAcked = now] EXCEPT
           !.spikes = x.spikes + 1, !.resolved = FALSE, !.incident = TRUE]
  BY DEF SpikeAcked, Acked, Histories
<1>5. SpikeAcked(x) \in Histories
  BY <1>1, <1>2, <1>4
<1>6. \A outcome : AfterDeferred(x, outcome) \in Histories
  <2>1. \A k \in OptTime, n \in Nat :
          [x EXCEPT !.lastAcked = k, !.deferreds = n] \in Histories
    BY DEF Histories
  <2>2. /\ \A outcome : (IF outcome = "ok" THEN now ELSE x.lastAcked) \in OptTime
        /\ \A outcome :
             (IF outcome = "failed" THEN x.deferreds ELSE x.deferreds + 1) \in Nat
    BY <1>2 DEF Histories
  <2> QED
    BY <2>1, <2>2 DEF AfterDeferred
<1> QED
  BY <1>3, <1>5, <1>6 DEF Histories

\* takeSnapshot keeps the types of the table and of the debounce map.
LEMMA TakeSnapshotType ==
  ASSUME TypeOK, NEW h \in Hosts, NEW reason, NEW outcome, NEW report,
         TakeSnapshot(h, reason, outcome, report)
  PROVE  /\ stored' \in [Hosts -> OptTime]
         /\ lastAuto' \in [Hosts -> OptTime]
BY DEF TakeSnapshot, TypeOK, OptTime

\* A probe of tickActivitySpike keeps the types.
LEMMA ProbeType ==
  ASSUME TypeOK, NEW count \in Counts, Probe(count)
  PROVE  TypeOK'
<1>1. ProbeEffect /\ ProbeKeeps(hosts[cur])
  BY ProbeHasEffect
<1>2. UNCHANGED <<now, cur, todo, claimed, pending, crashes, seeded>>
  BY ProbeHasEffect
<1>3. hosts' \in [Hosts -> HostStates]
  BY <1>1 DEF ProbeKeeps, TypeOK
<1>4. hist[cur] \in Histories /\ now \in Nat /\ cur \in Hosts
  BY DEF TypeOK
<1>5. hist' \in [Hosts -> Histories]
  <2>1. /\ Acked(hist[cur]) \in Histories
        /\ SpikeAcked(hist[cur]) \in Histories
        /\ [hist[cur] EXCEPT !.incident = FALSE] \in Histories
    BY <1>4, HistTypes
  <2>2. [Acked(hist[cur]) EXCEPT !.incident = FALSE] \in Histories
    BY <1>4, <2>1, HistTypes
  <2> QED
    BY <1>1, <2>1, <2>2
       DEF TypeOK, ProbeEffect, ProbeQuiet, ProbeUnacked, ProbeDropped, ProbeFired
<1>6. /\ pc' \in PCs
      /\ stored' \in [Hosts -> OptTime]
      /\ lastAuto' \in [Hosts -> OptTime]
  BY <1>1, <1>4 DEF TypeOK, ProbeEffect, ProbeQuiet, ProbeUnacked, ProbeDropped,
                    ProbeFired, PCs, OptTime
<1> QED
  BY <1>2, <1>3, <1>5, <1>6 DEF TypeOK

\* tickRoleChange keeps the types, with or without its snapshot.
LEMMA RoleType ==
  ASSUME TypeOK, NEW role \in Roles, SeeRole(role)
  PROVE  TypeOK'
<1>1. hosts' \in [Hosts -> HostStates]
  <2>1. [hosts[cur] EXCEPT !.lastInRecovery = role] \in HostStates
    BY DaemonConfigOK DEF TypeOK, HostStates, Role
  <2> QED
    BY <2>1 DEF SeeRole, SetHost, TypeOK
<1>2. /\ stored' \in [Hosts -> OptTime]
      /\ lastAuto' \in [Hosts -> OptTime]
      /\ hist' \in [Hosts -> Histories]
  <2>1. CASE UNCHANGED <<lastAuto, stored, snap, hist>>
    BY <2>1 DEF TypeOK
  <2>2. CASE \E outcome \in Outcomes :
               /\ TakeSnapshot(cur, "role_change", outcome,
                               Report(cur, "role_change", NewHostState))
               /\ SetHist(IF outcome = "ok" THEN Acked(hist[cur]) ELSE hist[cur])
    <3>1. hist[cur] \in Histories /\ Acked(hist[cur]) \in Histories /\ cur \in Hosts
      BY HistTypes DEF TypeOK
    <3> QED
      BY <2>2, <3>1, TakeSnapshotType DEF SetHist, TypeOK
  <2> QED
    BY <2>1, <2>2 DEF SeeRole
<1>3. pc' \in PCs /\ cur' \in Hosts /\ todo' \subseteq Hosts
  BY DEF SeeRole, NextHost, TypeOK, PCs
<1>4. UNCHANGED <<now, claimed, pending, crashes, seeded>>
  BY DEF SeeRole
<1> QED
  BY <1>1, <1>2, <1>3, <1>4 DEF TypeOK

\* A deferred snapshot keeps the types, whatever its outcome.
LEMMA DeferredType ==
  ASSUME TypeOK, NEW h \in Hosts, TakeDeferred(h)
  PROVE  TypeOK'
<1>1. PICK outcome \in Outcomes :
        /\ TakeSnapshot(h, "deferred", outcome, Report(h, "deferred", NewHostState))
        /\ hist' = [hist EXCEPT ![h] = AfterDeferred(hist[h], outcome)]
  BY DEF TakeDeferred
<1>2. hist' \in [Hosts -> Histories]
  BY <1>1, HistTypes DEF TypeOK
<1>3. stored' \in [Hosts -> OptTime] /\ lastAuto' \in [Hosts -> OptTime]
  BY <1>1, TakeSnapshotType
<1> QED
  BY <1>2, <1>3 DEF TakeDeferred, TypeOK, PCs

\* Every step of the daemon keeps the types.
LEMMA NextType == TypeOK /\ [Next]_vars => TypeOK'
<1> SUFFICES ASSUME TypeOK, [Next]_vars PROVE TypeOK'
  OBVIOUS
<1>1. CASE Poll
  BY <1>1 DEF Poll, TypeOK, PCs, memory, tables, history
<1>2. CASE SkipProbe \/ Abandon \/ SkipClaim \/ Horizon
  BY <1>2 DEF SkipProbe, Abandon, SkipClaim, Horizon, TypeOK, PCs, memory, tables, history, vars
<1>3. CASE \E count \in Counts : Probe(count)
  BY <1>3, ProbeType
<1>4. CASE Enqueue
  BY <1>4, DaemonConfigOK DEF Enqueue, TypeOK, PCs, OptTime, memory, history
<1>5. CASE Cancel
  <2>1. hist' \in [Hosts -> Histories]
    <3>1. [hist[cur] EXCEPT !.resolved = TRUE] \in Histories
      BY HistTypes DEF TypeOK
    <3> QED
      BY <1>5, <3>1 DEF Cancel, SetHist, TypeOK
  <2> QED
    BY <1>5, <2>1 DEF Cancel, TypeOK, PCs, OptTime, memory
<1>6. CASE SkipRole
  BY <1>6 DEF SkipRole, NextHost, TypeOK, PCs, memory, tables, history
<1>7. CASE \E role \in Roles : SeeRole(role)
  BY <1>7, RoleType
<1>8. CASE Claim
  BY <1>8 DEF Claim, Due, TypeOK, PCs, OptTime, memory, history
<1>9. CASE \E h \in Hosts : TakeDeferred(h)
  BY <1>9, DeferredType
<1>10. CASE Crash
  <2>1. NewHostState \in HostStates
    BY EmptySeq DEF NewHostState, HostStates, Role, OptTime
  <2>2. \A h \in Hosts : [hist[h] EXCEPT !.incident = FALSE] \in Histories
    BY HistTypes DEF TypeOK
  <2>3. hosts' \in [Hosts -> HostStates] /\ hist' \in [Hosts -> Histories]
    BY <1>10, <2>1, <2>2 DEF Crash
  <2> QED
    BY <1>10, <2>3 DEF Crash, TypeOK, PCs, OptTime, tables
<1>11. CASE Outage
  BY <1>11 DEF Outage, TypeOK, memory, tables, history
<1>12. CASE Restart
  BY <1>12 DEF Restart, TypeOK, PCs, tables, history
<1>13. CASE UNCHANGED vars
  BY <1>13 DEF TypeOK, vars, memory, tables, history
<1> QED
  BY <1>1, <1>2, <1>3, <1>4, <1>5, <1>6, <1>7, <1>8, <1>9, <1>10, <1>11, <1>12,
     <1>13 DEF Next

\* Type correctness of the daemon, for every instance.
THEOREM TypeCorrect == Spec => []TypeOK
BY InitType, NextType, PTL DEF Spec

-----------------------------------------------------------------------------
(* The debounce and the follow-ups. *)

\* How the updates of a host's history read field by field.
LEMMA HistFields ==
  ASSUME NEW x \in Histories
  PROVE  /\ Acked(x) = [x EXCEPT !.lastAcked = now]
         /\ SpikeAcked(x) = [x EXCEPT !.lastAcked = now, !.spikes = x.spikes + 1,
                                      !.resolved = FALSE, !.incident = TRUE]
         /\ [Acked(x) EXCEPT !.incident = FALSE] =
              [x EXCEPT !.lastAcked = now, !.incident = FALSE]
BY DEF Acked, SpikeAcked, Histories

\* A step that touches one host's history and tables, if any, and stores only
\* at the present time keeps AckedIsStored and DebounceMapCurrent.
LEMMA AckedByOne ==
  ASSUME TypeOK, TypeOK', AckedIsStored, DebounceMapCurrent, NEW h \in Hosts,
         now' = now, pc # "down", seeded' = seeded,
         \A g \in Hosts \ {h} : /\ hist'[g].lastAcked = hist[g].lastAcked
                                /\ stored'[g] = stored[g]
                                /\ lastAuto'[g] = lastAuto[g],
         stored'[h] \in {stored[h], now},
         \/ hist'[h].lastAcked = hist[h].lastAcked /\ lastAuto'[h] = lastAuto[h]
         \/ hist'[h].lastAcked = now /\ lastAuto'[h] = now /\ stored'[h] = now
  PROVE  AckedIsStored' /\ DebounceMapCurrent'
<1>1. \A g \in Hosts : /\ stored[g] \in Int
                       /\ lastAuto[g] \in Int
                       /\ hist[g].lastAcked \in Int
  BY DEF TypeOK, OptTime, Nil, Histories
<1>2. now \in Nat
  BY DEF TypeOK
<1>3. AckedIsStored'
  BY <1>1, <1>2 DEF AckedIsStored
<1>4. DebounceMapCurrent'
  BY <1>1, <1>2 DEF DebounceMapCurrent
<1> QED
  BY <1>3, <1>4

\* A step that stores and acknowledges nothing keeps AckedIsStored and
\* DebounceMapCurrent as the clock advances.
LEMMA AckedUnchanged ==
  ASSUME TypeOK, TypeOK', AckedIsStored, DebounceMapCurrent, pc # "down",
         now' >= now, seeded' = seeded, UNCHANGED <<stored, lastAuto>>,
         \A g \in Hosts : hist'[g].lastAcked = hist[g].lastAcked
  PROVE  AckedIsStored' /\ DebounceMapCurrent'
<1>1. \A g \in Hosts : stored[g] \in Int
  BY DEF TypeOK, OptTime, Nil
<1>2. now \in Nat /\ now' \in Nat
  BY DEF TypeOK
<1>3. AckedIsStored'
  BY <1>1, <1>2 DEF AckedIsStored
<1>4. DebounceMapCurrent'
  BY DEF DebounceMapCurrent
<1> QED
  BY <1>3, <1>4

\* Every step, a crash and a seeded restart included, keeps what was
\* acknowledged stored and the debounce map current.
LEMMA AckedStep ==
  ASSUME TypeOK, TypeOK', AckedIsStored, DebounceMapCurrent, [Next]_vars
  PROVE  AckedIsStored' /\ DebounceMapCurrent'
<1>0. now \in Nat
  BY DEF TypeOK
<1>1. CASE Poll
  <2>1. now' = now + 1 /\ UNCHANGED <<stored, lastAuto, seeded, hist>> /\ pc # "down"
    BY <1>1 DEF Poll, memory, tables, history
  <2> QED
    BY <1>0, <2>1, AckedUnchanged
<1>2. CASE SkipProbe \/ Abandon \/ SkipClaim \/ Horizon \/ Enqueue \/ SkipRole \/ Claim
  <2>1. UNCHANGED <<now, stored, lastAuto, seeded, hist>> /\ pc # "down"
    BY <1>2 DEF SkipProbe, Abandon, SkipClaim, Horizon, Enqueue, SkipRole, Claim,
                memory, tables, history, vars
  <2> QED
    BY <1>0, <2>1, AckedUnchanged
<1>3. ASSUME NEW count \in Counts, Probe(count)
      PROVE  AckedIsStored' /\ DebounceMapCurrent'
  <2>1. ProbeEffect /\ pc = "spike" /\ now' = now /\ seeded' = seeded
    BY <1>3, ProbeHasEffect
  <2>2. cur \in Hosts /\ hist[cur] \in Histories
    BY DEF TypeOK
  <2>3. CASE ProbeQuiet
    <3>1. \A g \in Hosts : hist'[g].lastAcked = hist[g].lastAcked
      BY <2>2, <2>3 DEF ProbeQuiet, TypeOK, Histories
    <3> QED
      BY <1>0, <2>1, <2>3, <3>1, AckedUnchanged DEF ProbeQuiet
  <2>4. CASE ProbeUnacked
    BY <2>1, <2>2, <2>4, AckedByOne DEF ProbeUnacked, TypeOK
  <2>5. CASE ProbeDropped
    <3>1. hist' = [hist EXCEPT ![cur] =
                     [hist[cur] EXCEPT !.lastAcked = now, !.incident = FALSE]]
      BY <2>2, <2>5, HistFields DEF ProbeDropped
    <3>2. hist'[cur].lastAcked = now
      BY <2>2, <3>1 DEF TypeOK, Histories
    <3> QED
      BY <2>1, <2>2, <2>5, <3>1, <3>2, AckedByOne DEF ProbeDropped, TypeOK
  <2>6. CASE ProbeFired
    <3>1. SpikeAcked(hist[cur]).lastAcked = now
      BY <2>2, HistFields DEF Histories
    <3>2. hist'[cur].lastAcked = now
      BY <2>2, <2>6, <3>1 DEF ProbeFired, TypeOK
    <3> QED
      BY <2>1, <2>2, <2>6, <3>2, AckedByOne DEF ProbeFired, TypeOK
  <2> QED
    BY <2>1, <2>3, <2>4, <2>5, <2>6 DEF ProbeEffect
<1>4. CASE Cancel
  <2>1. UNCHANGED <<now, stored, lastAuto, seeded>> /\ pc # "down"
    BY <1>4 DEF Cancel, memory
  <2>2. \A g \in Hosts : hist'[g].lastAcked = hist[g].lastAcked
    BY <1>4 DEF Cancel, SetHist, TypeOK, Histories
  <2> QED
    BY <1>0, <2>1, <2>2, AckedUnchanged
<1>5. ASSUME NEW role \in Roles, SeeRole(role)
      PROVE  AckedIsStored' /\ DebounceMapCurrent'
  <2>1. now' = now /\ seeded' = seeded /\ pc # "down" /\ cur \in Hosts
    BY <1>5 DEF SeeRole, TypeOK
  <2>2. CASE UNCHANGED <<lastAuto, stored, snap, hist>>
    BY <1>0, <2>1, <2>2, AckedUnchanged
  <2>3. ASSUME NEW outcome \in Outcomes,
               TakeSnapshot(cur, "role_change", outcome,
                            Report(cur, "role_change", NewHostState)),
               SetHist(IF outcome = "ok" THEN Acked(hist[cur]) ELSE hist[cur])
        PROVE  AckedIsStored' /\ DebounceMapCurrent'
    <3>1. Acked(hist[cur]).lastAcked = now
      BY <2>1 DEF Acked, TypeOK, Histories
    <3>2. hist'[cur] = IF outcome = "ok" THEN Acked(hist[cur]) ELSE hist[cur]
      BY <2>1, <2>3 DEF SetHist, TypeOK
    <3>3. \A g \in Hosts \ {cur} : hist'[g] = hist[g]
      BY <2>1, <2>3 DEF SetHist, TypeOK
    <3> QED
      BY <2>1, <2>3, <3>1, <3>2, <3>3, AckedByOne DEF TakeSnapshot, TypeOK
  <2> QED
    BY <1>5, <2>2, <2>3 DEF SeeRole
<1>6. ASSUME NEW h \in Hosts, TakeDeferred(h)
      PROVE  AckedIsStored' /\ DebounceMapCurrent'
  <2>1. now' = now /\ seeded' = seeded /\ pc # "down"
    BY <1>6 DEF TakeDeferred
  <2>2. PICK outcome \in Outcomes :
          /\ TakeSnapshot(h, "deferred", outcome, Report(h, "deferred", NewHostState))
          /\ hist' = [hist EXCEPT ![h] = AfterDeferred(hist[h], outcome)]
    BY <1>6 DEF TakeDeferred
  <2>3. hist'[h].lastAcked = IF outcome = "ok" THEN now ELSE hist[h].lastAcked
    BY <2>2 DEF AfterDeferred, TypeOK, Histories
  <2>4. \A g \in Hosts \ {h} : hist'[g] = hist[g]
    BY <2>2 DEF TypeOK
  <2> QED
    BY <2>1, <2>2, <2>3, <2>4, AckedByOne DEF TakeSnapshot, TypeOK
<1>7. CASE Crash
  <2>1. UNCHANGED <<now, stored>> /\ pc' = "down"
    BY <1>7 DEF Crash, tables
  <2>2. \A g \in Hosts : hist'[g].lastAcked = hist[g].lastAcked
    BY <1>7 DEF Crash, TypeOK, Histories
  <2> QED
    BY <2>1, <2>2 DEF AckedIsStored, DebounceMapCurrent
<1>8. CASE Outage
  <2>1. now' = now + 1 /\ UNCHANGED <<stored, hist, lastAuto, pc, seeded>>
    BY <1>8 DEF Outage, memory, tables, history
  <2>2. \A g \in Hosts : stored[g] \in Int
    BY DEF TypeOK, OptTime, Nil
  <2> QED
    BY <1>0, <2>1, <2>2 DEF AckedIsStored, DebounceMapCurrent
<1>9. CASE Restart
  <2>1. UNCHANGED <<now, stored, hist>>
    BY <1>9 DEF Restart, tables, history
  <2>2. AckedIsStored'
    BY <2>1 DEF AckedIsStored
  <2>3. ASSUME seeded' = TRUE, NEW g \in Hosts
        PROVE  hist[g].lastAcked <= lastAuto'[g]
    <3>1. PICK t \in {stored[h] : h \in Hosts} :
            IsLastAutoSnapshotAt(t) /\ lastAuto' = [h \in Hosts |-> t]
      BY <1>9, <2>3 DEF Restart
    <3>2. hist[g].lastAcked <= stored[g] /\ stored[g] <= t /\ lastAuto'[g] = t
      BY <3>1 DEF AckedIsStored, IsLastAutoSnapshotAt
    <3>3. hist[g].lastAcked \in Int /\ stored[g] \in Int /\ t \in Int
      BY <3>1 DEF TypeOK, OptTime, Nil, Histories
    <3> QED
      BY <3>2, <3>3
  <2> QED
    BY <2>1, <2>2, <2>3 DEF DebounceMapCurrent, TypeOK
<1>10. CASE UNCHANGED vars
  BY <1>10 DEF vars, memory, tables, history, AckedIsStored, DebounceMapCurrent
<1> QED
  BY <1>1, <1>2, <1>3, <1>4, <1>5, <1>6, <1>7, <1>8, <1>9, <1>10 DEF Next

\* The part of the invariant that is about deferred jobs.
FollowUpInv ==
  /\ ClaimedOnlyWhileTaking
  /\ EnqueueOwed
  /\ DeferredOncePerSpike
  /\ ResolvedHasNoFollowUp

\* A step outside the deferred machinery that touches neither the rows nor the
\* counts they are weighed against.
LEMMA FollowUpUnchanged ==
  ASSUME TypeOK, FollowUpInv, UNCHANGED <<pending, claimed>>,
         pc # "deferred", pc' # "enqueue",
         \A g \in Hosts : /\ hist'[g].spikes = hist[g].spikes
                          /\ hist'[g].deferreds = hist[g].deferreds
                          /\ hist'[g].resolved = hist[g].resolved
  PROVE  FollowUpInv'
BY DEF FollowUpInv, ClaimedOnlyWhileTaking, EnqueueOwed, DeferredOncePerSpike,
       ResolvedHasNoFollowUp, FollowUps

\* A spike snapshot that was acknowledged pays for the follow-up it owes.
LEMMA FollowUpFired ==
  ASSUME TypeOK, FollowUpInv, ProbeFired, pc = "spike",
         UNCHANGED <<pending, claimed, cur>>
  PROVE  FollowUpInv'
<1>1. cur \in Hosts /\ hist[cur] \in Histories
  BY DEF TypeOK
<1>2. /\ hist'[cur].spikes = hist[cur].spikes + 1
      /\ hist'[cur].deferreds = hist[cur].deferreds
      /\ hist'[cur].resolved = FALSE
  <2>1. hist'[cur] = [hist[cur] EXCEPT !.lastAcked = now, !.spikes = hist[cur].spikes + 1,
                                       !.resolved = FALSE, !.incident = TRUE]
    BY <1>1, HistFields DEF ProbeFired, TypeOK
  <2> QED
    BY <1>1, <2>1 DEF Histories
<1>3. \A g \in Hosts \ {cur} : hist'[g] = hist[g]
  BY <1>1 DEF ProbeFired, TypeOK
<1>4. \A g \in Hosts : FollowUps(g)' = FollowUps(g) /\ FollowUps(g) \in Nat
  BY DEF FollowUps
<1>5. \A g \in Hosts : hist[g].spikes \in Nat /\ hist[g].deferreds \in Nat
  BY DEF TypeOK, Histories
<1>6. DeferredOncePerSpike'
  <2> SUFFICES ASSUME NEW g \in Hosts
               PROVE  hist'[g].deferreds + FollowUps(g)' <= hist'[g].spikes
    BY DEF DeferredOncePerSpike
  <2>1. hist[g].deferreds + FollowUps(g) <= hist[g].spikes
    BY DEF FollowUpInv, DeferredOncePerSpike
  <2> QED
    BY <1>2, <1>3, <1>4, <1>5, <2>1
<1>7. EnqueueOwed'
  <2>1. hist[cur].deferreds + FollowUps(cur) <= hist[cur].spikes
    BY <1>1 DEF FollowUpInv, DeferredOncePerSpike
  <2>2. hist'[cur].deferreds + FollowUps(cur)' < hist'[cur].spikes
    BY <1>1, <1>2, <1>4, <1>5, <2>1
  <2> QED
    BY <1>2, <2>2 DEF EnqueueOwed
<1>8. ResolvedHasNoFollowUp'
  BY <1>2, <1>3 DEF FollowUpInv, ResolvedHasNoFollowUp
<1>9. ClaimedOnlyWhileTaking'
  BY DEF FollowUpInv, ClaimedOnlyWhileTaking
<1> QED
  BY <1>6, <1>7, <1>8, <1>9 DEF FollowUpInv

\* EnqueuePendingSnapshot spends what the spike snapshot owed; replacing an
\* older row spends nothing more.
LEMMA FollowUpEnqueue ==
  ASSUME TypeOK, FollowUpInv, Enqueue
  PROVE  FollowUpInv'
<1>1. /\ UNCHANGED <<claimed, hist, cur>> /\ claimed = {}
      /\ pc = "enqueue" /\ pc' = "role"
  BY DEF Enqueue, history, FollowUpInv, ClaimedOnlyWhileTaking
<1>2. CASE UNCHANGED pending
  BY <1>1, <1>2, FollowUpUnchanged
<1>3. CASE pending' = [pending EXCEPT ![cur] = now + DeferredInterval]
  <2>1. \A g \in Hosts \ {cur} : pending'[g] = pending[g]
    BY <1>3 DEF TypeOK
  <2>2. /\ ~hist[cur].resolved
        /\ hist[cur].deferreds + FollowUps(cur) < hist[cur].spikes
    BY <1>1 DEF FollowUpInv, EnqueueOwed
  <2>3. \A g \in Hosts : /\ hist[g].spikes \in Nat /\ hist[g].deferreds \in Nat
                         /\ FollowUps(g) \in Nat
    BY DEF TypeOK, Histories, FollowUps
  <2>4. FollowUps(cur)' \in {0, 1}
    BY <1>1 DEF FollowUps
  <2>5. DeferredOncePerSpike'
    <3> SUFFICES ASSUME NEW g \in Hosts
                 PROVE  hist'[g].deferreds + FollowUps(g)' <= hist'[g].spikes
      BY DEF DeferredOncePerSpike
    <3>1. CASE g = cur
      <4>1. hist[cur].deferreds + 1 <= hist[cur].spikes
        BY <2>2, <2>3, <3>1
      <4> QED
        BY <1>1, <2>3, <2>4, <3>1, <4>1
    <3>2. CASE g # cur
      <4>1. FollowUps(g)' = FollowUps(g)
        BY <1>1, <2>1, <3>2 DEF FollowUps
      <4> QED
        BY <1>1, <4>1 DEF FollowUpInv, DeferredOncePerSpike
    <3> QED
      BY <3>1, <3>2
  <2>6. ResolvedHasNoFollowUp'
    BY <1>1, <2>1, <2>2 DEF FollowUpInv, ResolvedHasNoFollowUp
  <2> QED
    BY <1>1, <2>5, <2>6 DEF FollowUpInv, EnqueueOwed, ClaimedOnlyWhileTaking
<1> QED
  BY <1>2, <1>3 DEF Enqueue

\* DeletePendingSnapshot after a drop leaves no follow-up behind.
LEMMA FollowUpCancel ==
  ASSUME TypeOK, FollowUpInv, Cancel
  PROVE  FollowUpInv'
<1>1. UNCHANGED <<claimed, cur>> /\ claimed = {} /\ pc = "cancel" /\ pc' = "role"
  BY DEF Cancel, FollowUpInv, ClaimedOnlyWhileTaking
<1>2. CASE UNCHANGED <<pending, hist>>
  BY <1>1, <1>2, FollowUpUnchanged
<1>3. CASE /\ pending' = [pending EXCEPT ![cur] = Nil]
           /\ hist' = [hist EXCEPT ![cur] = [hist[cur] EXCEPT !.resolved = TRUE]]
  <2>1. \A g \in Hosts \ {cur} : pending'[g] = pending[g] /\ hist'[g] = hist[g]
    BY <1>3 DEF TypeOK
  <2>2. /\ pending'[cur] = Nil
        /\ hist'[cur].spikes = hist[cur].spikes
        /\ hist'[cur].deferreds = hist[cur].deferreds
    BY <1>3 DEF TypeOK, Histories
  <2>3. \A g \in Hosts : hist[g].spikes \in Nat /\ hist[g].deferreds \in Nat
    BY DEF TypeOK, Histories
  <2>4. DeferredOncePerSpike'
    <3> SUFFICES ASSUME NEW g \in Hosts
                 PROVE  hist'[g].deferreds + FollowUps(g)' <= hist'[g].spikes
      BY DEF DeferredOncePerSpike
    <3>1. hist[g].deferreds + FollowUps(g) <= hist[g].spikes
      BY DEF FollowUpInv, DeferredOncePerSpike
    <3>2. FollowUps(g)' <= FollowUps(g) /\ FollowUps(g) \in Nat /\ FollowUps(g)' \in Nat
      BY <1>1, <2>1, <2>2 DEF FollowUps
    <3> QED
      BY <2>1, <2>2, <2>3, <3>1, <3>2
  <2>5. ResolvedHasNoFollowUp'
    BY <1>1, <2>1, <2>2 DEF FollowUpInv, ResolvedHasNoFollowUp
  <2> QED
    BY <1>1, <2>4, <2>5 DEF FollowUpInv, EnqueueOwed, ClaimedOnlyWhileTaking
<1> QED
  BY <1>2, <1>3 DEF Cancel, SetHist

\* Claiming moves rows to the claimed set, or loses them; it makes none.
LEMMA FollowUpClaim ==
  ASSUME TypeOK, FollowUpInv, Claim
  PROVE  FollowUpInv'
<1>1. /\ UNCHANGED hist
      /\ claimed' \in {Due, {}}
      /\ pc' = IF claimed' = {} THEN "sleep" ELSE "deferred"
      /\ pending' = [h \in Hosts |-> IF h \in Due THEN Nil ELSE pending[h]]
  BY DEF Claim, history
<1>2. \A g \in Hosts : hist[g].spikes \in Nat /\ hist[g].deferreds \in Nat
  BY DEF TypeOK, Histories
<1>3. \A g \in Hosts : /\ FollowUps(g)' <= FollowUps(g)
                       /\ FollowUps(g) \in Nat /\ FollowUps(g)' \in Nat
  BY <1>1 DEF FollowUps, Due
<1>4. DeferredOncePerSpike'
  <2> SUFFICES ASSUME NEW g \in Hosts
               PROVE  hist'[g].deferreds + FollowUps(g)' <= hist'[g].spikes
    BY DEF DeferredOncePerSpike
  <2>1. hist[g].deferreds + FollowUps(g) <= hist[g].spikes
    BY DEF FollowUpInv, DeferredOncePerSpike
  <2> QED
    BY <1>1, <1>2, <1>3, <2>1
<1>5. ResolvedHasNoFollowUp'
  BY <1>1 DEF FollowUpInv, ResolvedHasNoFollowUp, Due
<1> QED
  BY <1>1, <1>4, <1>5 DEF FollowUpInv, EnqueueOwed, ClaimedOnlyWhileTaking

\* A claimed job becomes at most one deferred snapshot.
LEMMA FollowUpTake ==
  ASSUME TypeOK, FollowUpInv, NEW h \in Hosts, TakeDeferred(h)
  PROVE  FollowUpInv'
<1>1. /\ h \in claimed /\ claimed' = claimed \ {h}
      /\ pc' = IF claimed' = {} THEN "sleep" ELSE "deferred"
      /\ UNCHANGED pending
  BY DEF TakeDeferred
<1>2. PICK outcome \in Outcomes : hist' = [hist EXCEPT ![h] = AfterDeferred(hist[h], outcome)]
  BY DEF TakeDeferred
<1>3. \A g \in Hosts : hist[g].spikes \in Nat /\ hist[g].deferreds \in Nat
  BY DEF TypeOK, Histories
<1>4. \A g \in Hosts \ {h} : hist'[g] = hist[g]
  BY <1>2 DEF TypeOK
<1>5. /\ hist'[h].spikes = hist[h].spikes
      /\ hist'[h].resolved = hist[h].resolved
      /\ hist'[h].deferreds = IF outcome = "failed" THEN hist[h].deferreds
                                                    ELSE hist[h].deferreds + 1
  BY <1>2 DEF AfterDeferred, TypeOK, Histories
<1>6. DeferredOncePerSpike'
  <2> SUFFICES ASSUME NEW g \in Hosts
               PROVE  hist'[g].deferreds + FollowUps(g)' <= hist'[g].spikes
    BY DEF DeferredOncePerSpike
  <2>1. hist[g].deferreds + FollowUps(g) <= hist[g].spikes
    BY DEF FollowUpInv, DeferredOncePerSpike
  <2>2. CASE g = h
    <3>1. FollowUps(g) \in Nat /\ FollowUps(g)' = FollowUps(g) - 1
      BY <1>1, <2>2 DEF FollowUps
    <3> QED
      BY <1>3, <1>5, <2>1, <2>2, <3>1
  <2>3. CASE g # h
    <3>1. FollowUps(g)' = FollowUps(g)
      BY <1>1, <2>3 DEF FollowUps
    <3> QED
      BY <1>4, <2>1, <2>3, <3>1
  <2> QED
    BY <2>2, <2>3
<1>7. ResolvedHasNoFollowUp'
  BY <1>1, <1>4, <1>5 DEF FollowUpInv, ResolvedHasNoFollowUp
<1> QED
  BY <1>1, <1>6, <1>7 DEF FollowUpInv, EnqueueOwed, ClaimedOnlyWhileTaking

\* Every step keeps the account of spikes and follow-ups.
LEMMA FollowUpStep ==
  ASSUME TypeOK, FollowUpInv, [Next]_vars
  PROVE  FollowUpInv'
<1>1. CASE Poll \/ SkipProbe \/ Abandon \/ SkipClaim \/ SkipRole \/ Outage \/ Restart
  <2>1. /\ UNCHANGED <<pending, claimed, hist>>
        /\ pc # "deferred" /\ pc' # "enqueue"
    BY <1>1 DEF Poll, SkipProbe, Abandon, SkipClaim, SkipRole, NextHost, Outage, Restart,
                tables, history
  <2> QED
    BY <2>1, FollowUpUnchanged
<1>2. ASSUME NEW count \in Counts, Probe(count)
      PROVE  FollowUpInv'
  <2>1. /\ ProbeEffect /\ pc = "spike"
        /\ UNCHANGED <<pending, claimed, cur>>
    BY <1>2, ProbeHasEffect
  <2>2. cur \in Hosts /\ hist[cur] \in Histories
    BY DEF TypeOK
  <2>3. CASE ProbeQuiet \/ ProbeUnacked \/ ProbeDropped
    <3>1. \/ hist' = hist
          \/ hist' = [hist EXCEPT ![cur] = [hist[cur] EXCEPT !.incident = FALSE]]
          \/ hist' = [hist EXCEPT ![cur] =
                         [hist[cur] EXCEPT !.lastAcked = now, !.incident = FALSE]]
      BY <2>2, <2>3, HistFields DEF ProbeQuiet, ProbeUnacked, ProbeDropped
    <3>2. \A g \in Hosts : /\ hist'[g].spikes = hist[g].spikes
                           /\ hist'[g].deferreds = hist[g].deferreds
                           /\ hist'[g].resolved = hist[g].resolved
      <4>1. hist'[cur] \in {hist[cur], [hist[cur] EXCEPT !.incident = FALSE],
                            [hist[cur] EXCEPT !.lastAcked = now, !.incident = FALSE]}
        BY <2>2, <3>1 DEF TypeOK
      <4>2. /\ hist'[cur].spikes = hist[cur].spikes
            /\ hist'[cur].deferreds = hist[cur].deferreds
            /\ hist'[cur].resolved = hist[cur].resolved
        BY <2>2, <4>1 DEF Histories
      <4>3. \A g \in Hosts \ {cur} : hist'[g] = hist[g]
        BY <2>2, <3>1 DEF TypeOK
      <4> QED
        BY <4>2, <4>3
    <3>3. pc' # "enqueue"
      BY <2>3 DEF ProbeQuiet, ProbeUnacked, ProbeDropped
    <3> QED
      BY <2>1, <3>2, <3>3, FollowUpUnchanged
  <2>4. CASE ProbeFired
    BY <2>1, <2>4, FollowUpFired
  <2> QED
    BY <2>1, <2>3, <2>4 DEF ProbeEffect
<1>3. CASE Enqueue
  BY <1>3, FollowUpEnqueue
<1>4. CASE Cancel
  BY <1>4, FollowUpCancel
<1>5. ASSUME NEW role \in Roles, SeeRole(role)
      PROVE  FollowUpInv'
  <2>1. /\ UNCHANGED <<pending, claimed>>
        /\ pc # "deferred" /\ pc' # "enqueue"
    BY <1>5 DEF SeeRole, NextHost
  <2>2. \/ hist' = hist
        \/ hist' = [hist EXCEPT ![cur] = [hist[cur] EXCEPT !.lastAcked = now]]
    BY <1>5 DEF SeeRole, SetHist, Acked, TypeOK
  <2>3. \A g \in Hosts : /\ hist'[g].spikes = hist[g].spikes
                         /\ hist'[g].deferreds = hist[g].deferreds
                         /\ hist'[g].resolved = hist[g].resolved
    BY <2>2 DEF TypeOK, Histories
  <2> QED
    BY <2>1, <2>3, FollowUpUnchanged
<1>6. CASE Claim
  BY <1>6, FollowUpClaim
<1>7. CASE \E h \in Hosts : TakeDeferred(h)
  BY <1>7, FollowUpTake
<1>8. CASE Crash
  <2>1. claimed' = {} /\ pc' = "down" /\ UNCHANGED pending
    BY <1>8 DEF Crash, tables
  <2>2. \A g \in Hosts : /\ hist'[g].spikes = hist[g].spikes
                         /\ hist'[g].deferreds = hist[g].deferreds
                         /\ hist'[g].resolved = hist[g].resolved
    BY <1>8 DEF Crash, TypeOK, Histories
  <2>3. DeferredOncePerSpike'
    <3> SUFFICES ASSUME NEW g \in Hosts
                 PROVE  hist'[g].deferreds + FollowUps(g)' <= hist'[g].spikes
      BY DEF DeferredOncePerSpike
    <3>1. hist[g].deferreds + FollowUps(g) <= hist[g].spikes
      BY DEF FollowUpInv, DeferredOncePerSpike
    <3>2. FollowUps(g)' <= FollowUps(g) /\ FollowUps(g) \in Nat /\ FollowUps(g)' \in Nat
      BY <2>1 DEF FollowUps
    <3>3. hist[g].spikes \in Nat /\ hist[g].deferreds \in Nat
      BY DEF TypeOK, Histories
    <3> QED
      BY <2>2, <3>1, <3>2, <3>3
  <2> QED
    BY <2>1, <2>2, <2>3
       DEF FollowUpInv, EnqueueOwed, ClaimedOnlyWhileTaking, ResolvedHasNoFollowUp
<1>9. CASE UNCHANGED vars
  BY <1>9 DEF vars, tables, history, FollowUpInv, ClaimedOnlyWhileTaking,
              EnqueueOwed, DeferredOncePerSpike, ResolvedHasNoFollowUp, FollowUps
<1> QED
  BY <1>1, <1>2, <1>3, <1>4, <1>5, <1>6, <1>7, <1>8, <1>9 DEF Next, Horizon

\* The inductive invariant holds initially and is kept by every step.
LEMMA DaemonInvInit == Init => DaemonInv
<1> SUFFICES ASSUME Init PROVE DaemonInv
  OBVIOUS
<1>1. TypeOK
  BY InitType
<1>2. AckedIsStored /\ DebounceMapCurrent
  BY DEF Init, AckedIsStored, DebounceMapCurrent, NoHistory, Nil
<1>3. /\ ClaimedOnlyWhileTaking /\ EnqueueOwed
      /\ DeferredOncePerSpike /\ ResolvedHasNoFollowUp
  BY DEF Init, ClaimedOnlyWhileTaking, EnqueueOwed, DeferredOncePerSpike,
         ResolvedHasNoFollowUp, NoHistory, FollowUps
<1> QED
  BY <1>1, <1>2, <1>3 DEF DaemonInv

\* Every step of the daemon preserves the inductive invariant.
LEMMA DaemonInvStep == DaemonInv /\ [Next]_vars => DaemonInv'
<1> SUFFICES ASSUME DaemonInv, [Next]_vars PROVE DaemonInv'
  OBVIOUS
<1>1. TypeOK'
  BY NextType DEF DaemonInv
<1>2. AckedIsStored' /\ DebounceMapCurrent'
  BY <1>1, AckedStep DEF DaemonInv
<1>3. FollowUpInv'
  BY FollowUpStep DEF DaemonInv, FollowUpInv
<1> QED
  BY <1>1, <1>2, <1>3 DEF DaemonInv, FollowUpInv

\* The daemon's inductive invariant, for every instance.
THEOREM DaemonInvariant == Spec => []DaemonInv
BY DaemonInvInit, DaemonInvStep, PTL DEF Spec

\* No spike snapshot has two deferred follow-ups, whatever crashes, replaced
\* rows, failed claims and lost answers come between.
THEOREM DeferredAtMostOnce == Spec => []DeferredOncePerSpike
<1>1. DaemonInv => DeferredOncePerSpike
  BY DEF DaemonInv
<1> QED
  BY <1>1, DaemonInvariant, PTL

\* A follow-up cancelled by its drop snapshot never comes back.
THEOREM CancelledStaysCancelled == Spec => []ResolvedHasNoFollowUp
<1>1. DaemonInv => ResolvedHasNoFollowUp
  BY DEF DaemonInv
<1> QED
  BY <1>1, DaemonInvariant, PTL

-----------------------------------------------------------------------------
(* What a step may never do. *)

\* The step formula of DebounceRespected.
DebounceStep ==
  (snap' # snap /\ snap'.reason \in {"activity_spike", "role_change"} /\ seeded) =>
    LET last == hist[snap'.host].lastAcked
    IN last = Nil \/ now - last >= MaxSnapshotFrequency

\* A host that is not debounced has no recent acknowledgement.
LEMMA NotDebounced ==
  ASSUME DaemonInv, NEW h \in Hosts, pc # "down", seeded, ~Debounced(h)
  PROVE  hist[h].lastAcked = Nil \/ now - hist[h].lastAcked >= MaxSnapshotFrequency
<1>1. /\ hist[h].lastAcked \in OptTime
      /\ lastAuto[h] \in OptTime
      /\ now \in Nat
  BY DEF DaemonInv, TypeOK, Histories
<1>2. hist[h].lastAcked <= lastAuto[h]
  BY DEF DaemonInv, DebounceMapCurrent
<1> QED
  BY <1>1, <1>2, DaemonConfigOK DEF Debounced, OptTime, Nil

\* A step that stores a debounced snapshot finds the newest acknowledged one
\* old enough.
LEMMA DebounceStepHolds == DaemonInv /\ [Next]_vars => DebounceStep
<1> SUFFICES ASSUME DaemonInv, [Next]_vars,
                    snap' # snap, snap'.reason \in {"activity_spike", "role_change"},
                    seeded
             PROVE  LET last == hist[snap'.host].lastAcked
                    IN last = Nil \/ now - last >= MaxSnapshotFrequency
  BY DEF DebounceStep
<1>1. TypeOK /\ cur \in Hosts
  BY DEF DaemonInv, TypeOK
<1>2. ASSUME NEW count \in Counts, Probe(count)
      PROVE  snap'.host = cur /\ ~Debounced(cur) /\ pc # "down"
  BY <1>1, <1>2, ProbeHasEffect
     DEF ProbeEffect, ProbeQuiet, ProbeUnacked, ProbeDropped, ProbeFired
<1>3. ASSUME NEW role \in Roles, SeeRole(role)
      PROVE  snap'.host = cur /\ ~Debounced(cur) /\ pc # "down"
  BY <1>3 DEF SeeRole, TakeSnapshot, Report
<1>4. ASSUME NEW h \in Hosts, TakeDeferred(h)
      PROVE  FALSE
  BY <1>4 DEF TakeDeferred, TakeSnapshot, Report
<1>5. ASSUME \/ Poll \/ Horizon \/ SkipProbe \/ Abandon \/ Enqueue \/ Cancel \/ SkipRole \/ Claim
             \/ SkipClaim \/ Crash \/ Outage \/ Restart \/ UNCHANGED vars
      PROVE  FALSE
  BY <1>5 DEF Poll, Horizon, SkipProbe, Abandon, Enqueue, Cancel, SkipRole, Claim, SkipClaim,
              Crash, Outage, Restart, history, vars
<1>6. snap'.host = cur /\ ~Debounced(cur) /\ pc # "down"
  BY <1>2, <1>3, <1>4, <1>5 DEF Next
<1> QED
  BY <1>1, <1>6, NotDebounced

\* Two debounced snapshots of a host are max_snapshot_frequency apart, through
\* crashes, restarts and seeding from another host's snapshot.
THEOREM DebounceHolds == Spec => DebounceRespected
<1>1. DaemonInv /\ [Next]_vars => [DebounceStep]_vars
  BY DebounceStepHolds
<1> QED
  BY <1>1, DaemonInvariant, PTL DEF Spec, DebounceRespected, DebounceStep

-----------------------------------------------------------------------------
(* The daemon implements the queue of follow-ups. *)

\* What the queue sees of the daemon.
Armed == {h \in Hosts : pc = "enqueue" /\ cur = h}
Spikes == [h \in Hosts |-> hist[h].spikes]
Taken == [h \in Hosts |-> hist[h].deferreds]
queue == <<now, pending, Armed, claimed, Spikes, Taken>>

\* Steps the queue does not see.
LEMMA QueueStutter ==
  ASSUME UNCHANGED <<now, pending, claimed>>, pc # "enqueue", pc' # "enqueue",
         \A h \in Hosts : hist'[h].spikes = hist[h].spikes /\ hist'[h].deferreds = hist[h].deferreds
  PROVE  UNCHANGED queue
<1>1. Armed' = Armed
  BY DEF Armed
<1>2. Spikes' = Spikes /\ Taken' = Taken
  BY DEF Spikes, Taken
<1> QED
  BY <1>1, <1>2 DEF queue

\* A spike snapshot that was acknowledged, and the other ends of a probe.
LEMMA QueueProbe ==
  ASSUME DaemonInv, NEW count \in Counts, Probe(count)
  PROVE  Queue!Spike(cur) \/ UNCHANGED queue
<1>1. /\ ProbeEffect /\ pc = "spike" /\ UNCHANGED <<now, cur, pending, claimed>>
      /\ cur \in Hosts /\ hist \in [Hosts -> Histories] /\ hist[cur] \in Histories
  BY ProbeHasEffect DEF DaemonInv, TypeOK
<1>2. CASE ProbeQuiet \/ ProbeUnacked \/ ProbeDropped
  <2>1. \/ hist' = hist
        \/ hist' = [hist EXCEPT ![cur] = [hist[cur] EXCEPT !.incident = FALSE]]
        \/ hist' = [hist EXCEPT ![cur] =
                       [hist[cur] EXCEPT !.lastAcked = now, !.incident = FALSE]]
    BY <1>1, <1>2, HistFields DEF ProbeQuiet, ProbeUnacked, ProbeDropped
  <2>2. hist'[cur] \in {hist[cur], [hist[cur] EXCEPT !.incident = FALSE],
                        [hist[cur] EXCEPT !.lastAcked = now, !.incident = FALSE]}
    BY <1>1, <2>1
  <2>3. /\ hist'[cur].spikes = hist[cur].spikes /\ hist'[cur].deferreds = hist[cur].deferreds
    BY <1>1, <2>2 DEF Histories
  <2>4. \A h \in Hosts \ {cur} : hist'[h] = hist[h]
    BY <1>1, <2>1
  <2>5. pc' # "enqueue"
    BY <1>2 DEF ProbeQuiet, ProbeUnacked, ProbeDropped
  <2> QED
    BY <1>1, <2>3, <2>4, <2>5, QueueStutter
<1>3. CASE ProbeFired
  <2>1. pc' \in {"enqueue", "role"} /\ hist' = [hist EXCEPT ![cur] = SpikeAcked(hist[cur])]
    BY <1>3 DEF ProbeFired
  <2>2. /\ SpikeAcked(hist[cur]).spikes = hist[cur].spikes + 1
        /\ SpikeAcked(hist[cur]).deferreds = hist[cur].deferreds
    BY <1>1 DEF SpikeAcked, Acked, Histories
  <2>3. Armed = {} /\ Armed' \in {{}, {cur}}
    BY <1>1, <2>1 DEF Armed
  <2>4. Spikes' = [Spikes EXCEPT ![cur] = @ + 1] /\ Taken' = Taken
    BY <1>1, <2>1, <2>2 DEF Spikes, Taken
  <2> QED
    BY <1>1, <2>3, <2>4 DEF Queue!Spike, Armed, Spikes, Taken
<1> QED
  BY <1>1, <1>2, <1>3 DEF ProbeEffect

\* The two commits on the table, and the hand-over and attempt of what is due.
LEMMA QueueTable ==
  ASSUME DaemonInv
  PROVE  /\ Enqueue => Queue!Schedule(cur)
         /\ Cancel => Queue!Withdraw(cur) \/ UNCHANGED queue
         /\ Claim => Queue!HandOver
         /\ \A h \in Hosts : TakeDeferred(h) => Queue!Attempt(h)
<1>1. /\ cur \in Hosts /\ hist \in [Hosts -> Histories] /\ pending \in [Hosts -> OptTime]
      /\ \A h \in Hosts : hist[h] \in Histories
      /\ claimed # {} => pc = "deferred"
  BY DEF DaemonInv, TypeOK, ClaimedOnlyWhileTaking
<1>2. ASSUME Enqueue PROVE Queue!Schedule(cur)
  <2>1. /\ pc = "enqueue" /\ pc' = "role" /\ UNCHANGED <<now, cur, claimed, hist>>
        /\ pending' \in {pending, [pending EXCEPT ![cur] = now + DeferredInterval]}
    BY <1>2 DEF Enqueue, history
  <2>2. Armed = {cur} /\ Armed' = {} /\ Spikes' = Spikes /\ Taken' = Taken
    BY <1>1, <2>1 DEF Armed, Spikes, Taken
  <2> QED
    BY <2>1, <2>2 DEF Queue!Schedule, Armed, Spikes, Taken
<1>3. ASSUME Cancel PROVE Queue!Withdraw(cur) \/ UNCHANGED queue
  <2>1. /\ pc = "cancel" /\ pc' = "role" /\ UNCHANGED <<now, cur, claimed>>
        /\ \/ /\ pending' = [pending EXCEPT ![cur] = Nil]
              /\ hist' = [hist EXCEPT ![cur] = [hist[cur] EXCEPT !.resolved = TRUE]]
           \/ UNCHANGED <<pending, hist>>
    BY <1>3 DEF Cancel, SetHist
  <2>2. /\ [hist[cur] EXCEPT !.resolved = TRUE].spikes = hist[cur].spikes
        /\ [hist[cur] EXCEPT !.resolved = TRUE].deferreds = hist[cur].deferreds
    BY <1>1 DEF Histories
  <2>3. Armed = {} /\ Armed' = {} /\ Spikes' = Spikes /\ Taken' = Taken
    BY <1>1, <2>1, <2>2 DEF Armed, Spikes, Taken
  <2> QED
    BY <2>1, <2>3 DEF Queue!Withdraw, queue, Armed, Spikes, Taken
<1>4. ASSUME Claim PROVE Queue!HandOver
  <2>1. /\ pc = "claim" /\ pc' # "enqueue" /\ UNCHANGED <<now, hist>>
        /\ pending' = [h \in Hosts |-> IF h \in Due THEN Nil ELSE pending[h]]
        /\ claimed' \in {Due, {}}
    BY <1>4 DEF Claim, history
  <2>2. Armed = {} /\ Armed' = {} /\ Spikes' = Spikes /\ Taken' = Taken /\ claimed = {}
    BY <1>1, <2>1 DEF Armed, Spikes, Taken
  <2>3. Queue!Ripe = Due
    BY DEF Queue!Ripe, Due
  <2> QED
    BY <2>1, <2>2, <2>3 DEF Queue!HandOver, Armed, Spikes, Taken
<1>5. ASSUME NEW h \in Hosts, TakeDeferred(h) PROVE Queue!Attempt(h)
  <2>1. PICK outcome \in Outcomes : hist' = [hist EXCEPT ![h] = AfterDeferred(hist[h], outcome)]
    BY <1>5 DEF TakeDeferred
  <2>2. /\ pc = "deferred" /\ pc' # "enqueue" /\ UNCHANGED <<now, pending>>
        /\ h \in claimed /\ claimed' = claimed \ {h}
    BY <1>5 DEF TakeDeferred
  <2>3. /\ AfterDeferred(hist[h], outcome).spikes = hist[h].spikes
        /\ AfterDeferred(hist[h], outcome).deferreds \in {hist[h].deferreds, hist[h].deferreds + 1}
    BY <1>1 DEF AfterDeferred, Histories
  <2>4. Armed = {} /\ Armed' = {} /\ Spikes' = Spikes
    BY <1>1, <2>1, <2>2, <2>3 DEF Armed, Spikes
  <2>5. Taken' \in {Taken, [Taken EXCEPT ![h] = @ + 1]}
    <3>1. /\ \A g \in Hosts \ {h} : hist'[g] = hist[g]
          /\ hist'[h].deferreds \in {hist[h].deferreds, hist[h].deferreds + 1}
      BY <1>1, <2>1, <2>3
    <3> QED
      BY <3>1 DEF Taken
  <2> QED
    BY <2>2, <2>4, <2>5 DEF Queue!Attempt, Armed, Spikes, Taken
<1> QED
  BY <1>2, <1>3, <1>4, <1>5

LEMMA QueueStep ==
  ASSUME DaemonInv, [Next]_vars
  PROVE  [Queue!Next]_queue
<1>0. /\ cur \in Hosts /\ hist \in [Hosts -> Histories]
      /\ \A h \in Hosts : hist[h] \in Histories
      /\ claimed # {} => pc = "deferred"
  BY DEF DaemonInv, TypeOK, ClaimedOnlyWhileTaking
<1>1. CASE Poll \/ Outage
  <2>1. /\ now' = now + 1 /\ UNCHANGED <<pending, claimed, hist>>
        /\ pc # "enqueue" /\ pc' # "enqueue"
    BY <1>1 DEF Poll, Outage, tables, history
  <2>2. Armed' = Armed /\ Spikes' = Spikes /\ Taken' = Taken
    BY <2>1 DEF Armed, Spikes, Taken
  <2> QED
    BY <2>1, <2>2 DEF Queue!Next, Queue!Tick, Armed, Spikes, Taken
<1>2. CASE SkipProbe \/ SkipClaim \/ SkipRole \/ Restart
  <2>1. UNCHANGED <<now, pending, claimed, hist>> /\ pc # "enqueue" /\ pc' # "enqueue"
    BY <1>2 DEF SkipProbe, SkipClaim, SkipRole, NextHost, Restart, tables, history
  <2> QED
    BY <2>1, QueueStutter
<1>3. ASSUME Abandon PROVE Queue!Forget
  <2>1. /\ pc # "deferred" /\ pc' # "enqueue" /\ UNCHANGED <<now, pending, claimed, hist>>
    BY <1>3 DEF Abandon, tables, history
  <2>2. claimed = {} /\ Armed' = {} /\ Spikes' = Spikes /\ Taken' = Taken
    BY <1>0, <2>1 DEF Armed, Spikes, Taken
  <2> QED
    BY <2>1, <2>2 DEF Queue!Forget, Armed, Spikes, Taken
<1>4. ASSUME Crash PROVE Queue!Forget
  <2>1. /\ pc' # "enqueue" /\ UNCHANGED <<now, pending>> /\ claimed' = {}
        /\ hist' = [h \in Hosts |-> [hist[h] EXCEPT !.incident = FALSE]]
    BY <1>4 DEF Crash, tables
  <2>2. \A h \in Hosts : hist'[h].spikes = hist[h].spikes /\ hist'[h].deferreds = hist[h].deferreds
    BY <1>0, <2>1 DEF Histories
  <2>3. Armed' = {} /\ Spikes' = Spikes /\ Taken' = Taken
    BY <2>1, <2>2 DEF Armed, Spikes, Taken
  <2> QED
    BY <2>1, <2>3 DEF Queue!Forget, Armed, Spikes, Taken
<1>5. ASSUME NEW role \in Roles, SeeRole(role) PROVE UNCHANGED queue
  <2>1. UNCHANGED <<now, pending, claimed>> /\ pc # "enqueue" /\ pc' # "enqueue"
    BY <1>5 DEF SeeRole, NextHost
  <2>2. \/ hist' = hist
        \/ hist' = [hist EXCEPT ![cur] = [hist[cur] EXCEPT !.lastAcked = now]]
    BY <1>0, <1>5 DEF SeeRole, SetHist, Acked
  <2>3. \A h \in Hosts : hist'[h].spikes = hist[h].spikes /\ hist'[h].deferreds = hist[h].deferreds
    BY <1>0, <2>2 DEF Histories
  <2> QED
    BY <2>1, <2>3, QueueStutter
<1>6. ASSUME Horizon \/ UNCHANGED vars PROVE UNCHANGED queue
  <2>1. UNCHANGED <<now, pending, claimed, hist, pc, cur>>
    BY <1>6 DEF Horizon, vars, tables, history
  <2> QED
    BY <2>1 DEF queue, Armed, Spikes, Taken
<1>7. ASSUME Queue!Forget PROVE Queue!Next
  BY <1>7 DEF Queue!Next
<1>8. ASSUME NEW h \in Hosts, Queue!Spike(h) \/ Queue!Schedule(h) \/ Queue!Withdraw(h) \/ Queue!Attempt(h)
      PROVE  Queue!Next
  BY <1>8 DEF Queue!Next
<1>9. ASSUME Queue!HandOver PROVE Queue!Next
  BY <1>9 DEF Queue!Next
<1>10. ASSUME NEW count \in Counts, Probe(count) PROVE Queue!Next \/ UNCHANGED queue
  <2>1. Queue!Spike(cur) \/ UNCHANGED queue
    BY <1>10, QueueProbe
  <2>2. ASSUME Queue!Spike(cur) PROVE \E h \in Hosts : Queue!Spike(h)
    BY <1>0, <2>2 DEF Queue!Spike
  <2> QED
    BY <1>8, <2>1, <2>2
<1>11. ASSUME Enqueue \/ Cancel \/ Claim PROVE Queue!Next \/ UNCHANGED queue
  <2>1. Queue!Schedule(cur) \/ Queue!Withdraw(cur) \/ UNCHANGED queue \/ Queue!HandOver
    BY <1>11, QueueTable
  <2>2. ASSUME Queue!Schedule(cur) PROVE \E h \in Hosts : Queue!Schedule(h)
    BY <1>0, <2>2 DEF Queue!Schedule
  <2>3. ASSUME Queue!Withdraw(cur) PROVE \E h \in Hosts : Queue!Withdraw(h)
    BY <1>0, <2>3 DEF Queue!Withdraw
  <2> QED
    BY <1>8, <1>9, <2>1, <2>2, <2>3
<1>12. ASSUME NEW h \in Hosts, TakeDeferred(h) PROVE Queue!Next
  BY <1>8, <1>12, QueueTable
<1>13. ASSUME Abandon \/ Crash PROVE Queue!Next
  BY <1>3, <1>4, <1>7, <1>13
<1> QED
  BY <1>1, <1>2, <1>5, <1>6, <1>10, <1>11, <1>12, <1>13 DEF Next

\* The daemon, its table and its crashes implement the queue: a follow-up is
\* scheduled only by a stored spike, handed over at most once, never early,
\* and lost rather than repeated.
THEOREM DaemonImplementsQueue == Spec => ImplementsQueue
<1>1. Init => Queue!Init
  <2> SUFFICES ASSUME Init PROVE Queue!Init
    OBVIOUS
  <2>1. /\ {h \in Hosts : pc = "enqueue" /\ cur = h} = {}
        /\ \A h \in Hosts : hist[h].spikes = 0 /\ hist[h].deferreds = 0
    BY DEF Init, NoHistory
  <2> QED
    BY <2>1 DEF Init, Queue!Init
<1>2. DaemonInv /\ [Next]_vars => [Queue!Next]_queue
  BY QueueStep
<1> QED
  BY <1>1, <1>2, DaemonInvariant, PTL
     DEF Spec, ImplementsQueue, Queue!Spec, Queue!vars, queue, Armed, Spikes, Taken

-----------------------------------------------------------------------------
(***************************************************************************)
(* The forming spike and the recovery: what the counters, the peak and the *)
(* recovery timer of a host say about the probes it really had.            *)
(***************************************************************************)

-----------------------------------------------------------------------------
(* The two halves of a host state. *)

\* The candidate of s is the one of o.
SameCandidate(o, s) ==
  /\ s.aboveThresholdSince = o.aboveThresholdSince /\ s.lastAboveAt = o.lastAboveAt
  /\ s.spikeAbove = o.spikeAbove /\ s.spikeTotal = o.spikeTotal
  /\ s.spikePeak = o.spikePeak /\ s.lockPeak = o.lockPeak

NoCandidate(s) ==
  /\ s.aboveThresholdSince = Nil /\ s.lastAboveAt = Nil
  /\ s.spikeAbove = 0 /\ s.spikeTotal = 0 /\ s.spikePeak = 0 /\ s.lockPeak = 0

\* So are the incident and its recovery.
SameRecovery(o, s) ==
  /\ s.inSpike = o.inSpike /\ s.spikeThreshold = o.spikeThreshold
  /\ s.recoveryBelowSince = o.recoveryBelowSince

\* What a host state consists of.
LEMMA HostFields ==
  ASSUME NEW s \in HostStates
  PROVE  /\ s.aboveThresholdSince \in OptTime /\ s.lastAboveAt \in OptTime
         /\ s.spikeAbove \in Nat /\ s.spikeTotal \in Nat /\ s.spikePeak \in Nat
         /\ s.lockPeak \in Nat /\ s.inSpike \in BOOLEAN /\ s.recoveryBelowSince \in OptTime
         /\ s.spikeThreshold \in Seq(Nat)
BY DEF HostStates

LEMMA ObserveFields ==
  ASSUME NEW s \in HostStates, NEW t \in Nat, NEW count \in Nat
  PROVE  /\ Observe(s, t, count) \in HostStates
         /\ SameCandidate(s, Observe(s, t, count)) /\ SameRecovery(s, Observe(s, t, count))
<1> DEFINE w == TrimSamples(Append(s.windowSamples, [at |-> t, count |-> count]), t - WindowSize)
<1>1. Observe(s, t, count) = [s EXCEPT !.windowSamples = w] /\ Observe(s, t, count) \in HostStates
  BY ObserveType DEF Observe
<1> HIDE DEF w
<1> QED
  BY <1>1 DEF HostStates, SameCandidate, SameRecovery

LEMMA ResetFields ==
  ASSUME NEW s \in HostStates
  PROVE  ResetSpike(s) \in HostStates /\ NoCandidate(ResetSpike(s)) /\ SameRecovery(s, ResetSpike(s))
<1>1. ResetSpike(s) \in HostStates
  BY ResetSpikeType
<1> QED
  BY <1>1 DEF ResetSpike, HostStates, NoCandidate, SameRecovery

LEMMA FoldAboveFields ==
  ASSUME NEW s \in HostStates, NEW t \in Nat, NEW count \in Nat
  PROVE  LET u == FoldAbove(s, t, count) IN
         /\ u \in HostStates /\ SameRecovery(s, u)
         /\ u.lastAboveAt = t /\ u.spikeAbove = s.spikeAbove + 1 /\ u.spikeTotal = s.spikeTotal + 1
         /\ u.spikePeak = (IF count > s.spikePeak THEN count ELSE s.spikePeak)
         /\ u.aboveThresholdSince =
              (IF s.aboveThresholdSince = Nil THEN t ELSE s.aboveThresholdSince)
<1> DEFINE peak == IF count > s.spikePeak THEN count ELSE s.spikePeak
           since == IF s.aboveThresholdSince = Nil THEN t ELSE s.aboveThresholdSince
           above == s.spikeAbove + 1
           total == s.spikeTotal + 1
<1>1. FoldAbove(s, t, count) =
        [s EXCEPT !.lastAboveAt = t, !.spikeAbove = above, !.spikeTotal = total,
                  !.spikePeak = peak, !.aboveThresholdSince = since]
  BY DEF FoldAbove, HostStates
<1>2. FoldAbove(s, t, count) \in HostStates
  BY FoldAboveType
<1> HIDE DEF peak, since, above, total
<1>3. LET u == FoldAbove(s, t, count) IN
         /\ SameRecovery(s, u)
         /\ u.lastAboveAt = t /\ u.spikeAbove = above /\ u.spikeTotal = total
         /\ u.spikePeak = peak /\ u.aboveThresholdSince = since
  BY <1>1 DEF HostStates, SameRecovery
<1> QED
  BY <1>2, <1>3 DEF peak, since, above, total

\* A dip inside the grace window is one more probe and nothing else.
LEMMA DipFields ==
  ASSUME NEW s \in HostStates
  PROVE  LET u == [s EXCEPT !.spikeTotal = @ + 1] IN
         /\ u \in HostStates /\ SameRecovery(s, u)
         /\ u.aboveThresholdSince = s.aboveThresholdSince /\ u.lastAboveAt = s.lastAboveAt
         /\ u.spikeAbove = s.spikeAbove /\ u.spikeTotal = s.spikeTotal + 1
         /\ u.spikePeak = s.spikePeak
<1> DEFINE n == s.spikeTotal + 1
<1>1. n \in Nat
  BY HostFields
<1>2. [s EXCEPT !.spikeTotal = @ + 1] = [s EXCEPT !.spikeTotal = n]
  BY DEF HostStates
<1> HIDE DEF n
<1>3. LET u == [s EXCEPT !.spikeTotal = n] IN
         /\ u \in HostStates /\ SameRecovery(s, u)
         /\ u.aboveThresholdSince = s.aboveThresholdSince /\ u.lastAboveAt = s.lastAboveAt
         /\ u.spikeAbove = s.spikeAbove /\ u.spikeTotal = n /\ u.spikePeak = s.spikePeak
  BY <1>1 DEF HostStates, SameRecovery
<1> QED
  BY <1>2, <1>3 DEF n

-----------------------------------------------------------------------------
(* What a judged probe makes of the candidate. *)

\* Grown(o, u, count, above): u is o after one more probe of its candidate,
\* which is not stale, and which a dip has not outlasted.
Grown(o, u, count, above) ==
  /\ o.aboveThresholdSince # Nil
  /\ now - o.aboveThresholdSince <= StaleCandidateFactor * SpikeDuration
  /\ u.aboveThresholdSince = o.aboveThresholdSince
  /\ u.spikeTotal = o.spikeTotal + 1
  /\ IF above
     THEN /\ u.lastAboveAt = now /\ u.spikeAbove = o.spikeAbove + 1
          /\ u.spikePeak = (IF count > o.spikePeak THEN count ELSE o.spikePeak)
     ELSE /\ u.lastAboveAt = o.lastAboveAt /\ u.spikeAbove = o.spikeAbove
          /\ u.spikePeak = o.spikePeak
          /\ o.lastAboveAt # Nil /\ now - o.lastAboveAt <= SpikeDuration \div DipGraceDivisor

\* A candidate of this very probe.
Opened(u, count) ==
  /\ u.aboveThresholdSince = now /\ u.lastAboveAt = now
  /\ u.spikeAbove = 1 /\ u.spikeTotal = 1 /\ u.spikePeak = count

\* advanceSpike by the step it reports.
LEMMA AdvanceFields ==
  ASSUME NEW s \in HostStates, now \in Nat, NEW count \in Nat, NEW above \in BOOLEAN,
         s.aboveThresholdSince = Nil => NoCandidate(s)
  PROVE  LET t == AdvanceSpike(s, now, count, above)
             step == SpikeStep(s, now, above)
         IN  /\ t \in HostStates /\ SameRecovery(s, t)
             /\ step = "aborted" => NoCandidate(t)
             /\ step = "started" => above /\ Opened(t, count)
             /\ step = "forming" => Grown(s, t, count, above)
<1> DEFINE a == AgeOut(s, now)
           t == AdvanceSpike(s, now, count, above)
           step == SpikeStep(s, now, above)
<1>1. /\ a \in HostStates /\ SameRecovery(s, a)
      /\ \/ a = s /\ (s.aboveThresholdSince # Nil =>
                        now - s.aboveThresholdSince <= StaleCandidateFactor * SpikeDuration)
         \/ NoCandidate(a)
  <2>1. s.aboveThresholdSince \in OptTime /\ StaleCandidateFactor * SpikeDuration \in Nat
    BY HostFields, TriggerConfigOK DEF StaleCandidateFactor
  <2>2. s.aboveThresholdSince # Nil => s.aboveThresholdSince \in Nat
    BY <2>1 DEF OptTime
  <2> QED
    BY <2>1, <2>2, ResetFields DEF AgeOut, SameRecovery
<1>2. t = IF above THEN FoldAbove(a, now, count) ELSE FoldDip(a, now)
  BY DEF AdvanceSpike
<1>3. /\ step = "aborted" => ~above /\ DipOutlasted(a, now)
      /\ step = "started" => above /\ a.aboveThresholdSince = Nil
      /\ step = "forming" => ~(~above /\ DipOutlasted(a, now)) /\ ~(above /\ a.aboveThresholdSince = Nil)
  BY DEF SpikeStep
<1>4. a.aboveThresholdSince = Nil => NoCandidate(a)
  BY <1>1 DEF NoCandidate
<1>5. a.aboveThresholdSince # Nil => a = s /\ now - s.aboveThresholdSince <= StaleCandidateFactor * SpikeDuration
  BY <1>1 DEF NoCandidate
<1> HIDE DEF a, step
<1>6. CASE above
  <2> DEFINE u == FoldAbove(a, now, count)
  <2>1. /\ u \in HostStates /\ SameRecovery(a, u)
        /\ u.lastAboveAt = now /\ u.spikeAbove = a.spikeAbove + 1 /\ u.spikeTotal = a.spikeTotal + 1
        /\ u.spikePeak = (IF count > a.spikePeak THEN count ELSE a.spikePeak)
        /\ u.aboveThresholdSince = (IF a.aboveThresholdSince = Nil THEN now ELSE a.aboveThresholdSince)
    BY <1>1, FoldAboveFields
  <2> HIDE DEF u
  <2>2. t = u /\ step # "aborted" /\ SameRecovery(s, u)
    BY <1>1, <1>2, <1>3, <1>6, <2>1 DEF u, SameRecovery
  <2> HIDE DEF t
  <2>3. step = "started" => Opened(t, count)
    BY <1>3, <1>4, <2>1, <2>2 DEF Opened, NoCandidate
  <2>4. step = "forming" => Grown(s, t, count, above)
    BY <1>3, <1>5, <1>6, <2>1, <2>2 DEF Grown
  <2> QED
    BY <1>6, <2>1, <2>2, <2>3, <2>4 DEF t, step
<1>7. CASE ~above
  <2> DEFINE u == [a EXCEPT !.spikeTotal = @ + 1]
  <2>1. /\ u \in HostStates /\ SameRecovery(a, u)
        /\ u.aboveThresholdSince = a.aboveThresholdSince /\ u.lastAboveAt = a.lastAboveAt
        /\ u.spikeAbove = a.spikeAbove /\ u.spikeTotal = a.spikeTotal + 1
        /\ u.spikePeak = a.spikePeak
    BY <1>1, DipFields
  <2>2. t = IF DipOutlasted(a, now) THEN ResetSpike(a) ELSE u
    BY <1>2, <1>7 DEF FoldDip
  <2> HIDE DEF u, t
  <2>3. CASE DipOutlasted(a, now)
    <3>1. t \in HostStates /\ NoCandidate(t) /\ SameRecovery(s, t)
      BY <1>1, <2>2, <2>3, ResetFields DEF SameRecovery
    <3> QED
      BY <1>3, <1>7, <2>3, <3>1 DEF t, step
  <2>4. CASE ~DipOutlasted(a, now)
    <3>1. /\ a.aboveThresholdSince # Nil /\ a.lastAboveAt # Nil
          /\ ~(now - a.lastAboveAt > SpikeDuration \div DipGraceDivisor)
      BY <2>4 DEF DipOutlasted
    <3>2. a.lastAboveAt \in Nat /\ SpikeDuration \div DipGraceDivisor \in Nat
      BY <1>1, <3>1, HostFields, TriggerConfigOK DEF OptTime, DipGraceDivisor
    <3>3. now - a.lastAboveAt <= SpikeDuration \div DipGraceDivisor
      BY <3>1, <3>2
    <3>4. t \in HostStates /\ SameRecovery(s, t) /\ Grown(s, t, count, above)
      BY <1>1, <1>5, <1>7, <2>1, <2>2, <2>4, <3>1, <3>3 DEF Grown, SameRecovery
    <3>5. step = "forming"
      BY <1>7, <2>4 DEF step, SpikeStep, a
    <3> QED
      BY <3>4, <3>5 DEF t, step
  <2> QED
    BY <2>3, <2>4
<1> QED
  BY <1>6, <1>7

-----------------------------------------------------------------------------
(* What a probe makes of the incident. *)

\* s goes on timing a recovery, or starts to, only after a probe under the
\* frozen threshold.
Watched(o, s, count) ==
  s.recoveryBelowSince # Nil =>
    /\ s.spikeThreshold = o.spikeThreshold
    /\ ~AtOrAbove(count, o.spikeThreshold)
    /\ s.recoveryBelowSince \in {o.recoveryBelowSince, now}

\* An incident that is open was open, or the history has opened it.
Incident(o, s) ==
  s.inSpike => (o.inSpike /\ hist' = hist) \/ hist'[cur].incident

\* The drop snapshot of a recovery that lasted.
DropOf(o, count) ==
  /\ snap'.host = cur /\ snap'.reason = "activity_drop" /\ snap'.below = o.recoveryBelowSince
  /\ o.inSpike /\ o.recoveryBelowSince # Nil
  /\ now - o.recoveryBelowSince >= RecoveryDuration
  /\ ~AtOrAbove(count, o.spikeThreshold)

LEMMA RecoveryFields ==
  ASSUME TypeOK, NEW s \in HostStates, NEW count \in Nat, HandleRecovery(s, count)
  PROVE  /\ \E r \in HostStates :
              /\ hosts' = [hosts EXCEPT ![cur] = r]
              /\ SameCandidate(s, r) /\ Watched(s, r, count) /\ Incident(s, r)
         /\ snap' = snap \/ DropOf(s, count)
<1>0. now \in OptTime /\ Nil \in OptTime /\ s.recoveryBelowSince \in OptTime
  BY HostFields DEF TypeOK, OptTime
<1>1. ASSUME NEW since \in OptTime, Settle([s EXCEPT !.recoveryBelowSince = since]), hist' = hist,
             since # Nil => /\ ~AtOrAbove(count, s.spikeThreshold)
                            /\ since \in {s.recoveryBelowSince, now}
      PROVE  /\ \E r \in HostStates :
                  /\ hosts' = [hosts EXCEPT ![cur] = r]
                  /\ SameCandidate(s, r) /\ Watched(s, r, count) /\ Incident(s, r)
             /\ snap' = snap
  <2> DEFINE r == [s EXCEPT !.recoveryBelowSince = since]
  <2>1. /\ r \in HostStates /\ SameCandidate(s, r) /\ r.inSpike = s.inSpike
        /\ r.spikeThreshold = s.spikeThreshold /\ r.recoveryBelowSince = since
    BY DEF HostStates, SameCandidate
  <2>2. hosts' = [hosts EXCEPT ![cur] = r] /\ snap' = snap
    BY <1>1 DEF Settle, SetHost
  <2> HIDE DEF r
  <2>3. Watched(s, r, count) /\ Incident(s, r)
    BY <1>1, <2>1 DEF Watched, Incident
  <2> QED
    BY <2>1, <2>2, <2>3
<1>2. ASSUME Settle([s EXCEPT !.inSpike = FALSE, !.recoveryBelowSince = Nil])
      PROVE  /\ \E r \in HostStates :
                  /\ hosts' = [hosts EXCEPT ![cur] = r]
                  /\ SameCandidate(s, r) /\ Watched(s, r, count) /\ Incident(s, r)
             /\ snap' = snap
  <2> DEFINE r == [s EXCEPT !.inSpike = FALSE, !.recoveryBelowSince = Nil]
  <2>1. r \in HostStates /\ SameCandidate(s, r) /\ r.inSpike = FALSE /\ r.recoveryBelowSince = Nil
    BY <1>0 DEF HostStates, SameCandidate
  <2>2. hosts' = [hosts EXCEPT ![cur] = r] /\ snap' = snap
    BY <1>2 DEF Settle, SetHost
  <2> HIDE DEF r
  <2>3. Watched(s, r, count) /\ Incident(s, r)
    BY <2>1 DEF Watched, Incident
  <2> QED
    BY <2>1, <2>2, <2>3
<1>3. ASSUME Drop(s), s.inSpike, s.recoveryBelowSince # Nil,
             now - s.recoveryBelowSince >= RecoveryDuration, ~AtOrAbove(count, s.spikeThreshold)
      PROVE  /\ \E r \in HostStates :
                  /\ hosts' = [hosts EXCEPT ![cur] = r]
                  /\ SameCandidate(s, r) /\ Watched(s, r, count) /\ Incident(s, r)
             /\ snap' = snap \/ DropOf(s, count)
  <2>1. PICK outcome \in Outcomes :
          /\ TakeSnapshot(cur, "activity_drop", outcome, Report(cur, "activity_drop", s))
          /\ SetHost([s EXCEPT !.recoveryBelowSince = Nil, !.inSpike = outcome # "ok"])
          /\ outcome # "ok" => hist' = hist
    BY <1>3 DEF Drop
  <2> DEFINE open == outcome # "ok"
             r == [s EXCEPT !.recoveryBelowSince = Nil, !.inSpike = open]
  <2>2. open \in BOOLEAN /\ (open => hist' = hist)
    BY <2>1
  <2>3. hosts' = [hosts EXCEPT ![cur] = r]
    BY <2>1 DEF SetHost
  <2> HIDE DEF open
  <2>4. r \in HostStates /\ SameCandidate(s, r) /\ r.inSpike = open /\ r.recoveryBelowSince = Nil
    BY <1>0, <2>2 DEF HostStates, SameCandidate
  <2> HIDE DEF r
  <2>5. Watched(s, r, count) /\ Incident(s, r)
    BY <1>3, <2>2, <2>4 DEF Watched, Incident
  <2>6. snap' = snap \/ snap' = Report(cur, "activity_drop", s)
    BY <2>1 DEF TakeSnapshot
  <2>7. snap' = snap \/ DropOf(s, count)
    BY <1>3, <2>6 DEF Report, DropOf
  <2> QED
    BY <2>3, <2>4, <2>5, <2>7
<1>4. CASE RecoveryDuration = 0
  BY <1>2, <1>4 DEF HandleRecovery
<1>5. CASE RecoveryDuration # 0
  <2> DEFINE recovering == s.inSpike /\ ~AtOrAbove(count, s.spikeThreshold)
  <2>1. \/ Settle([s EXCEPT !.recoveryBelowSince = Nil]) /\ UNCHANGED hist
        \/ recovering /\ Settle([s EXCEPT !.recoveryBelowSince = now]) /\ UNCHANGED hist
        \/ /\ recovering /\ s.recoveryBelowSince # Nil
           /\ \/ /\ Settle([s EXCEPT !.recoveryBelowSince = s.recoveryBelowSince])
                 /\ UNCHANGED hist
              \/ ~(now - s.recoveryBelowSince < RecoveryDuration) /\ Drop(s)
    BY <1>5 DEF HandleRecovery
  <2>2. s.recoveryBelowSince # Nil /\ ~(now - s.recoveryBelowSince < RecoveryDuration)
          => now - s.recoveryBelowSince >= RecoveryDuration
    BY <1>0, DaemonConfigOK DEF OptTime, TypeOK
  <2>3. CASE Settle([s EXCEPT !.recoveryBelowSince = Nil]) /\ UNCHANGED hist
    BY <1>0, <1>1, <2>3
  <2>4. CASE recovering /\ Settle([s EXCEPT !.recoveryBelowSince = now]) /\ UNCHANGED hist
    BY <1>0, <1>1, <2>4
  <2>5. CASE /\ recovering /\ Settle([s EXCEPT !.recoveryBelowSince = s.recoveryBelowSince])
             /\ UNCHANGED hist
    BY <1>0, <1>1, <2>5
  <2>6. CASE /\ recovering /\ s.recoveryBelowSince # Nil
             /\ ~(now - s.recoveryBelowSince < RecoveryDuration) /\ Drop(s)
    BY <1>3, <2>2, <2>6
  <2> QED
    BY <2>1, <2>3, <2>4, <2>5, <2>6
<1> QED
  BY <1>4, <1>5

\* The candidates agree, whatever was seen of the locks.
SameSpike(o, s) ==
  /\ s.aboveThresholdSince = o.aboveThresholdSince /\ s.lastAboveAt = o.lastAboveAt
  /\ s.spikeAbove = o.spikeAbove /\ s.spikeTotal = o.spikeTotal /\ s.spikePeak = o.spikePeak

\* A spike snapshot of candidate t of this host.
SpikeOf(t) ==
  /\ snap'.reason = "activity_spike" /\ snap'.at = now
  /\ snap'.since = t.aboveThresholdSince /\ snap'.above = t.spikeAbove /\ snap'.total = t.spikeTotal
  /\ now - t.aboveThresholdSince >= SpikeDuration
  /\ t.spikeAbove * 100 >= MinSpikeCoveragePct * t.spikeTotal

LEMMA FormingFields ==
  ASSUME TypeOK, NEW t \in HostStates, Forming(t)
  PROVE  /\ \E r \in HostStates :
              /\ hosts' = [hosts EXCEPT ![cur] = r]
              /\ SameSpike(t, r) \/ NoCandidate(r)
              /\ r.recoveryBelowSince = Nil /\ Incident(t, r)
         /\ snap' = snap \/ SpikeOf(t)
<1>1. PICK blocked \in Blocked :
        LET f == KeepForming(t, blocked) IN
        IF Ripe(f, now) /\ ~Debounced(cur) THEN Fire(f) ELSE Settle(f) /\ UNCHANGED hist
  BY DEF Forming
<1> DEFINE f == KeepForming(t, blocked)
<1>2. /\ f \in HostStates /\ SameSpike(t, f) /\ f.inSpike = t.inSpike /\ f.recoveryBelowSince = Nil
  <2>1. f \in HostStates
    BY KeepFormingType, DaemonConfigOK
  <2> QED
    BY <2>1 DEF KeepForming, HostStates, SameSpike
<1>3. (Ripe(f, now) /\ Fire(f)) \/ (Settle(f) /\ UNCHANGED hist)
  BY <1>1
<1> HIDE DEF f
<1>4. CASE Settle(f) /\ UNCHANGED hist
  <2>1. hosts' = [hosts EXCEPT ![cur] = f] /\ snap' = snap /\ hist' = hist
    BY <1>4 DEF Settle, SetHost
  <2>2. Incident(t, f)
    BY <1>2, <2>1 DEF Incident
  <2> QED
    BY <1>2, <2>1, <2>2
<1>5. CASE Ripe(f, now) /\ Fire(f)
  <2> DEFINE q == ResetSpike(f)
             i == [q EXCEPT !.inSpike = TRUE, !.recoveryBelowSince = Nil]
  <2>1. q \in HostStates /\ NoCandidate(q) /\ SameRecovery(f, q)
    BY <1>2, ResetFields
  <2>2. PICK outcome \in Outcomes :
          /\ TakeSnapshot(cur, "activity_spike", outcome, Report(cur, "activity_spike", f))
          /\ SetHost(IF outcome = "ok" THEN i ELSE q)
          /\ SetHist(IF outcome = "ok" THEN SpikeAcked(hist[cur]) ELSE hist[cur])
    BY <1>5 DEF Fire
  <2> HIDE DEF q
  <2>3. i \in HostStates /\ NoCandidate(i) /\ i.recoveryBelowSince = Nil
    BY <2>1 DEF HostStates, NoCandidate, OptTime
  <2> HIDE DEF i
  <2>4. snap' = snap \/ SpikeOf(t)
    <3>1. snap' = snap \/ snap' = Report(cur, "activity_spike", f)
      BY <2>2 DEF TakeSnapshot
    <3>2. /\ now - f.aboveThresholdSince >= SpikeDuration
          /\ f.spikeAbove * 100 >= MinSpikeCoveragePct * f.spikeTotal
      BY <1>5 DEF Ripe, Covered
    <3> QED
      BY <1>2, <3>1, <3>2 DEF Report, SpikeOf, SameSpike
  <2>5. CASE outcome = "ok"
    <3>1. hosts' = [hosts EXCEPT ![cur] = i]
      BY <2>2, <2>5 DEF SetHost
    <3>2. hist' = [hist EXCEPT ![cur] = SpikeAcked(hist[cur])] /\ cur \in Hosts
          /\ hist \in [Hosts -> Histories] /\ hist[cur] \in Histories
      BY <2>2, <2>5 DEF SetHist, TypeOK
    <3>3. SpikeAcked(hist[cur]).incident = TRUE
      BY <3>2 DEF SpikeAcked, Acked, Histories
    <3>4. Incident(t, i)
      BY <3>2, <3>3 DEF Incident
    <3> QED
      BY <2>3, <2>4, <3>1, <3>4
  <2>6. CASE outcome # "ok"
    <3>1. hosts' = [hosts EXCEPT ![cur] = q]
      BY <2>2, <2>6 DEF SetHost
    <3>2. hist' = hist
      BY <2>2, <2>6 DEF SetHist, TypeOK
    <3>3. Incident(t, q) /\ q.recoveryBelowSince = Nil
      BY <1>2, <2>1, <3>2 DEF Incident, SameRecovery
    <3> QED
      BY <2>1, <2>4, <3>1, <3>3
  <2> QED
    BY <2>5, <2>6
<1> QED
  BY <1>3, <1>4, <1>5

-----------------------------------------------------------------------------
(* tickActivitySpike as a whole, told by the host state it leaves. *)

\* The candidate after a probe: untouched by a probe without baseline, gone,
\* opened by this probe, or one probe longer.
CandidateAfter(o, r, count, judged, above) ==
  \/ ~judged /\ SameCandidate(o, r)
  \/ NoCandidate(r)
  \/ judged /\ above /\ Opened(r, count)
  \/ judged /\ Grown(o, r, count, above)

RecoveryAfter(o, r, count, judged) ==
  \/ ~judged /\ SameRecovery(o, r)
  \/ judged /\ Watched(o, r, count)

\* A spike snapshot of a candidate one probe longer than o's.
FiredFrom(o) ==
  /\ snap'.reason = "activity_spike" /\ snap'.at = now /\ snap'.since = o.aboveThresholdSince
  /\ o.aboveThresholdSince # Nil
  /\ now - o.aboveThresholdSince >= SpikeDuration
  /\ now - o.aboveThresholdSince <= StaleCandidateFactor * SpikeDuration
  /\ snap'.total = o.spikeTotal + 1
  /\ snap'.above * 100 >= MinSpikeCoveragePct * snap'.total

ProbeOf(count, judged, above) ==
  [at |-> now, count |-> count, judged |-> judged, above |-> above]

Probed(count, judged, above) ==
  /\ above => judged
  /\ probes' = [probes EXCEPT ![cur] = Append(@, ProbeOf(count, judged, above))]
  /\ \E r \in HostStates :
       /\ hosts' = [hosts EXCEPT ![cur] = r]
       /\ CandidateAfter(hosts[cur], r, count, judged, above)
       /\ RecoveryAfter(hosts[cur], r, count, judged)
       /\ Incident(hosts[cur], r)
  /\ snap' = snap \/ DropOf(hosts[cur], count) \/ FiredFrom(hosts[cur])

LEMMA ProbeOnHost ==
  ASSUME TypeOK, NEW count \in Counts, Probe(count),
         hosts[cur].aboveThresholdSince = Nil => NoCandidate(hosts[cur])
  PROVE  \E judged, above \in BOOLEAN : Probed(count, judged, above)
<1> DEFINE o == hosts[cur]
           s == Observe(o, now, count)
           counts == BaselineCounts(s.windowSamples)
           judged == Len(s.windowSamples) >= 2
           high == AtOrAbove(count, counts)
<1>1. count \in Nat /\ now \in Nat /\ o \in HostStates
  BY DaemonConfigOK DEF TypeOK
<1>2. s \in HostStates /\ SameCandidate(o, s) /\ SameRecovery(o, s)
  BY <1>1, ObserveFields
<1>3. counts \in Seq(Nat)
  BY <1>2, BaselineType DEF HostStates
<1>4. judged \in BOOLEAN /\ high \in BOOLEAN
  BY DEF AtOrAbove
<1>5. /\ \/ ~judged /\ Settle(s) /\ UNCHANGED hist
         \/ judged /\ Judge(s, count, counts)
      /\ probes' = [probes EXCEPT ![cur] = Append(@, ProbeOf(count, judged, judged /\ high))]
  BY DEF Probe, ProbeOf
<1>6. s.aboveThresholdSince = Nil => NoCandidate(s)
  BY <1>2 DEF NoCandidate, SameCandidate
<1> SUFFICES /\ \E r \in HostStates :
                  /\ hosts' = [hosts EXCEPT ![cur] = r]
                  /\ CandidateAfter(o, r, count, judged, judged /\ high)
                  /\ RecoveryAfter(o, r, count, judged)
                  /\ Incident(o, r)
             /\ snap' = snap \/ DropOf(o, count) \/ FiredFrom(o)
  BY <1>4, <1>5 DEF Probed
<1> HIDE DEF s, counts, judged, high, o
<1>7. CASE ~judged /\ Settle(s) /\ UNCHANGED hist
  <2>1. hosts' = [hosts EXCEPT ![cur] = s] /\ snap' = snap /\ hist' = hist
    BY <1>7 DEF Settle, SetHost
  <2>2. /\ CandidateAfter(o, s, count, judged, judged /\ high)
        /\ RecoveryAfter(o, s, count, judged) /\ Incident(o, s)
    BY <1>2, <1>7, <2>1 DEF CandidateAfter, RecoveryAfter, Incident, SameRecovery
  <2> QED
    BY <1>2, <2>1, <2>2
\* Every other way ends in handleRecovery, an opened or a forming candidate.
<1>8. ASSUME judged, NEW u \in HostStates, SameRecovery(o, u), NoCandidate(u), HandleRecovery(u, count)
      PROVE  /\ \E r \in HostStates :
                  /\ hosts' = [hosts EXCEPT ![cur] = r]
                  /\ CandidateAfter(o, r, count, judged, judged /\ high)
                  /\ RecoveryAfter(o, r, count, judged)
                  /\ Incident(o, r)
             /\ snap' = snap \/ DropOf(o, count) \/ FiredFrom(o)
  <2>1. PICK r \in HostStates : /\ hosts' = [hosts EXCEPT ![cur] = r]
                                /\ SameCandidate(u, r) /\ Watched(u, r, count) /\ Incident(u, r)
    BY <1>1, <1>8, RecoveryFields
  <2>2. NoCandidate(r) /\ Watched(o, r, count) /\ Incident(o, r)
    BY <1>8, <2>1 DEF NoCandidate, SameCandidate, Watched, SameRecovery, Incident
  <2>3. snap' = snap \/ DropOf(u, count)
    BY <1>1, <1>8, RecoveryFields
  <2>4. snap' = snap \/ DropOf(o, count)
    BY <1>8, <2>3 DEF DropOf, SameRecovery
  <2> QED
    BY <1>8, <2>1, <2>2, <2>4 DEF CandidateAfter, RecoveryAfter
<1>9. CASE judged /\ Judge(s, count, counts)
  <2> DEFINE t == AdvanceSpike(s, now, count, high)
             step == SpikeStep(s, now, high)
  <2>1. /\ t \in HostStates /\ SameRecovery(s, t)
        /\ step = "aborted" => NoCandidate(t)
        /\ step = "started" => high /\ Opened(t, count)
        /\ step = "forming" => Grown(s, t, count, high)
    BY <1>1, <1>2, <1>4, <1>6, AdvanceFields
  <2>2. \/ HandleRecovery(ResetSpike(s), count)
        \/ step = "aborted" /\ HandleRecovery(t, count)
        \/ step = "started" /\ Settle(OpenCandidate(t, counts)) /\ UNCHANGED hist
        \/ step = "forming" /\ Forming(t)
    BY <1>9 DEF Judge, high
  <2>3. SameRecovery(o, t)
    BY <1>2, <2>1 DEF SameRecovery
  <2> HIDE DEF t, step
  <2>4. CASE HandleRecovery(ResetSpike(s), count)
    <3>1. ResetSpike(s) \in HostStates /\ NoCandidate(ResetSpike(s)) /\ SameRecovery(o, ResetSpike(s))
      BY <1>2, ResetFields DEF SameRecovery
    <3> QED
      BY <1>8, <1>9, <2>4, <3>1
  <2>5. CASE step = "aborted" /\ HandleRecovery(t, count)
    BY <1>8, <1>9, <2>1, <2>3, <2>5
  <2>6. CASE step = "started" /\ Settle(OpenCandidate(t, counts)) /\ UNCHANGED hist
    <3> DEFINE r == OpenCandidate(t, counts)
    <3>1. r \in HostStates
      BY <1>3, <2>1, OpenCandidateType
    <3>2. SameSpike(t, r) /\ r.inSpike = t.inSpike /\ r.recoveryBelowSince = Nil
      BY <2>1 DEF OpenCandidate, HostStates, SameSpike
    <3>3. hosts' = [hosts EXCEPT ![cur] = r] /\ snap' = snap /\ hist' = hist
      BY <2>6 DEF Settle, SetHost
    <3> HIDE DEF r
    <3>4. Opened(r, count) /\ high
      BY <2>1, <2>6, <3>2 DEF Opened, SameSpike
    <3>5. Watched(o, r, count) /\ Incident(o, r)
      BY <2>3, <3>2, <3>3 DEF Watched, Incident, SameRecovery
    <3> QED
      BY <1>9, <3>1, <3>3, <3>4, <3>5 DEF CandidateAfter, RecoveryAfter
  <2>7. CASE step = "forming" /\ Forming(t)
    <3>1. PICK r \in HostStates : /\ hosts' = [hosts EXCEPT ![cur] = r]
                                  /\ SameSpike(t, r) \/ NoCandidate(r)
                                  /\ r.recoveryBelowSince = Nil /\ Incident(t, r)
      BY <2>1, <2>7, FormingFields
    <3>2. Grown(o, t, count, high)
      BY <1>2, <2>1, <2>7 DEF Grown, SameCandidate
    <3>3. Watched(o, r, count) /\ Incident(o, r)
      BY <2>3, <3>1 DEF Watched, Incident, SameRecovery
    <3>4. CandidateAfter(o, r, count, judged, judged /\ high)
      <4>1. CASE NoCandidate(r)
        BY <4>1 DEF CandidateAfter
      <4>2. CASE SameSpike(t, r)
        <5>1. Grown(o, r, count, high)
          BY <3>2, <4>2 DEF Grown, SameSpike
        <5> QED
          BY <1>4, <1>9, <5>1 DEF CandidateAfter
      <4> QED
        BY <3>1, <4>1, <4>2
    <3>5. snap' = snap \/ SpikeOf(t)
      BY <2>1, <2>7, FormingFields
    <3>6. snap' = snap \/ FiredFrom(o)
      BY <3>2, <3>5 DEF SpikeOf, FiredFrom, Grown
    <3> QED
      BY <1>9, <3>1, <3>3, <3>4, <3>6 DEF RecoveryAfter
  <2> QED
    BY <2>2, <2>4, <2>5, <2>6, <2>7
<1> QED
  BY <1>5, <1>7, <1>9

-----------------------------------------------------------------------------
(* The invariant of one host: its state s against the set P of its probes. *)

Since(s, P) == {p \in P : p.judged /\ p.at >= s.aboveThresholdSince}

HighSince(s, P) == {p \in Since(s, P) : p.above}

\* CandidateMatchesProbes of an open candidate.
OpenMatches(s, P) ==
  /\ IsFiniteSet(Since(s, P))
  /\ s.spikeTotal = Cardinality(Since(s, P))
  /\ s.spikeAbove = Cardinality(HighSince(s, P))
  /\ \E p \in HighSince(s, P) : p.at = s.aboveThresholdSince
  /\ \E p \in HighSince(s, P) : p.at = s.lastAboveAt
  /\ \E p \in HighSince(s, P) : p.count = s.spikePeak
  /\ \A p \in HighSince(s, P) : p.at <= s.lastAboveAt /\ p.count <= s.spikePeak

\* DipsWithinGrace of an open candidate.
OpenGrace(s, P) ==
  \A p \in Since(s, P) :
    ~p.above => \E q \in Since(s, P) :
                  /\ q.above
                  /\ q.at < p.at
                  /\ p.at - q.at <= SpikeDuration \div DipGraceDivisor

CandidateHolds(s, P) ==
  IF s.aboveThresholdSince = Nil THEN NoCandidate(s)
                                 ELSE OpenMatches(s, P) /\ OpenGrace(s, P)

RecoveryHolds(s, P) ==
  s.recoveryBelowSince # Nil =>
    \A p \in P : p.judged /\ p.at >= s.recoveryBelowSince => ~AtOrAbove(p.count, s.spikeThreshold)

\* A candidate opened by this probe consists of it.
LEMMA OpenedHolds ==
  ASSUME now \in Nat, NEW r \in HostStates, NEW count \in Nat,
         NEW P \in SUBSET ProbeRecords, \A p \in P : p.at < now,
         Opened(r, count)
  PROVE  CandidateHolds(r, P \cup {ProbeOf(count, TRUE, TRUE)})
<1> DEFINE n == ProbeOf(count, TRUE, TRUE)
           Q == P \cup {n}
<1>1. n.at = now /\ n.count = count /\ n.judged /\ n.above
  BY DEF ProbeOf
<1>2. \A p \in P : p.at \in Nat /\ ~(p.at >= now)
  BY DEF ProbeRecords
<1> HIDE DEF n
<1>3. r.aboveThresholdSince = now /\ r.aboveThresholdSince # Nil
  BY DEF Opened, Nil
<1>4. Since(r, Q) = {n} /\ HighSince(r, Q) = {n}
  BY <1>1, <1>2, <1>3 DEF Since, HighSince
<1>5. IsFiniteSet({n}) /\ Cardinality({n}) = 1
  BY FS_Singleton
<1>6. OpenMatches(r, Q)
  BY <1>1, <1>4, <1>5 DEF OpenMatches, Opened
<1>7. OpenGrace(r, Q)
  BY <1>1, <1>4 DEF OpenGrace
<1> QED
  BY <1>3, <1>6, <1>7 DEF CandidateHolds, n

\* A candidate that grows gains this probe.
LEMMA GrownHolds ==
  ASSUME now \in Nat, NEW o \in HostStates, NEW r \in HostStates, NEW count \in Nat,
         NEW above \in BOOLEAN,
         NEW P \in SUBSET ProbeRecords, \A p \in P : p.at < now,
         CandidateHolds(o, P), Grown(o, r, count, above)
  PROVE  CandidateHolds(r, P \cup {ProbeOf(count, TRUE, above)})
<1> DEFINE n == ProbeOf(count, TRUE, above)
           Q == P \cup {n}
<1>1. n.at = now /\ n.count = count /\ n.judged /\ n.above = above
  BY DEF ProbeOf
<1>2. \A p \in P : p.at \in Nat /\ p.count \in Nat
  BY DEF ProbeRecords
<1> HIDE DEF n
<1>3. n \notin P
  BY <1>1, <1>2
<1>4. /\ o.aboveThresholdSince \in OptTime /\ o.spikePeak \in Nat /\ o.lastAboveAt \in OptTime
      /\ o.aboveThresholdSince # Nil /\ r.aboveThresholdSince = o.aboveThresholdSince
      /\ OpenMatches(o, P) /\ OpenGrace(o, P)
  BY HostFields DEF CandidateHolds, Grown
<1>5. \A p \in Since(o, P) : p \in P /\ p.at < now
  BY DEF Since
<1>6. now >= o.aboveThresholdSince
  <2>1. PICK p \in HighSince(o, P) : p.at = o.aboveThresholdSince
    BY <1>4 DEF OpenMatches
  <2>2. p \in P /\ p.at < now
    BY <1>5 DEF HighSince
  <2> QED
    BY <1>2, <2>1, <2>2
<1>7. Since(r, Q) = Since(o, P) \cup {n} /\ n \notin Since(o, P)
  BY <1>1, <1>3, <1>4, <1>6 DEF Since
<1>8. HighSince(r, Q) = IF above THEN HighSince(o, P) \cup {n} ELSE HighSince(o, P)
  BY <1>1, <1>7 DEF HighSince
<1>9. HighSince(o, P) \subseteq Since(o, P)
  BY DEF HighSince
<1>10. IsFiniteSet(Since(o, P)) /\ IsFiniteSet(HighSince(o, P))
  BY <1>4, <1>9, FS_Subset DEF OpenMatches
<1>11. /\ IsFiniteSet(Since(r, Q)) /\ Cardinality(Since(r, Q)) = Cardinality(Since(o, P)) + 1
       /\ Cardinality(HighSince(o, P) \cup {n}) = Cardinality(HighSince(o, P)) + 1
  <2>1. n \notin HighSince(o, P)
    BY <1>7, <1>9
  <2>2. /\ IsFiniteSet(Since(o, P) \cup {n})
        /\ Cardinality(Since(o, P) \cup {n}) = Cardinality(Since(o, P)) + 1
    BY <1>7, <1>10, FS_AddElement
  <2>3. Cardinality(HighSince(o, P) \cup {n}) = Cardinality(HighSince(o, P)) + 1
    BY <1>10, <2>1, FS_AddElement
  <2> QED
    BY <1>7, <2>2, <2>3
<1>12. \E p \in HighSince(r, Q) : p.at = r.aboveThresholdSince
  BY <1>4, <1>8 DEF OpenMatches
<1>13. \A p \in HighSince(o, P) : p.at \in Nat /\ p.count \in Nat /\ p.at < now
  BY <1>2, <1>5, <1>9
<1>14. /\ \E p \in HighSince(r, Q) : p.at = r.lastAboveAt
       /\ \E p \in HighSince(r, Q) : p.count = r.spikePeak
       /\ \A p \in HighSince(r, Q) : p.at <= r.lastAboveAt /\ p.count <= r.spikePeak
       /\ r.spikeAbove = Cardinality(HighSince(r, Q))
  <2>1. CASE above
    <3>1. /\ r.lastAboveAt = now /\ r.spikeAbove = o.spikeAbove + 1
          /\ r.spikePeak = (IF count > o.spikePeak THEN count ELSE o.spikePeak)
          /\ HighSince(r, Q) = HighSince(o, P) \cup {n}
      BY <1>8, <2>1 DEF Grown
    <3>2. \E p \in HighSince(r, Q) : p.at = r.lastAboveAt
      BY <1>1, <3>1
    <3>3. \E p \in HighSince(r, Q) : p.count = r.spikePeak
      BY <1>1, <1>4, <3>1 DEF OpenMatches
    <3>4. \A p \in HighSince(o, P) : p.at <= now /\ p.count <= o.spikePeak
      BY <1>4, <1>13 DEF OpenMatches
    <3>5. \A p \in HighSince(r, Q) : p.at <= r.lastAboveAt /\ p.count <= r.spikePeak
      BY <1>1, <1>4, <1>13, <3>1, <3>4
    <3> QED
      BY <1>4, <1>11, <3>1, <3>2, <3>3, <3>5 DEF OpenMatches
  <2>2. CASE ~above
    BY <1>4, <1>8, <2>2 DEF Grown, OpenMatches
  <2> QED
    BY <2>1, <2>2
<1>15. OpenMatches(r, Q)
  BY <1>4, <1>11, <1>12, <1>14 DEF OpenMatches, Grown
<1>16. OpenGrace(r, Q)
  <2>1. ASSUME NEW p \in Since(o, P), ~p.above
        PROVE  \E q \in Since(r, Q) : /\ q.above
                                      /\ q.at < p.at
                                      /\ p.at - q.at <= SpikeDuration \div DipGraceDivisor
    BY <1>4, <1>7, <2>1 DEF OpenGrace
  <2>2. ASSUME ~above
        PROVE  \E q \in Since(r, Q) : /\ q.above
                                      /\ q.at < n.at
                                      /\ n.at - q.at <= SpikeDuration \div DipGraceDivisor
    <3>1. PICK q \in HighSince(o, P) : q.at = o.lastAboveAt
      BY <1>4 DEF OpenMatches
    <3>2. q \in Since(r, Q) /\ q.above /\ q.at < n.at
      BY <1>1, <1>7, <1>13, <3>1 DEF HighSince
    <3>3. n.at - q.at <= SpikeDuration \div DipGraceDivisor
      BY <1>1, <2>2, <3>1 DEF Grown
    <3> QED
      BY <3>2, <3>3
  <2> QED
    BY <1>1, <1>7, <2>1, <2>2 DEF OpenGrace
<1> QED
  BY <1>4, <1>15, <1>16 DEF CandidateHolds, n

\* A probe without a baseline is none of the candidate's.
LEMMA KeptHolds ==
  ASSUME NEW o \in HostStates, NEW r \in HostStates, NEW count \in Nat,
         NEW P \in SUBSET ProbeRecords,
         CandidateHolds(o, P), SameCandidate(o, r)
  PROVE  CandidateHolds(r, P \cup {ProbeOf(count, FALSE, FALSE)})
<1> DEFINE n == ProbeOf(count, FALSE, FALSE)
           Q == P \cup {n}
<1>1. ~n.judged
  BY DEF ProbeOf
<1> HIDE DEF n
<1>2. r.aboveThresholdSince = o.aboveThresholdSince
  BY DEF SameCandidate
<1>3. Since(r, Q) = Since(o, P)
  BY <1>1, <1>2 DEF Since
<1>4. HighSince(r, Q) = HighSince(o, P)
  BY <1>3 DEF HighSince
<1>5. CASE o.aboveThresholdSince = Nil
  BY <1>2, <1>5 DEF CandidateHolds, NoCandidate, SameCandidate
<1>6. CASE o.aboveThresholdSince # Nil
  <2>1. OpenMatches(o, P) /\ OpenGrace(o, P)
    BY <1>6 DEF CandidateHolds
  <2>2. OpenMatches(r, Q)
    BY <1>3, <1>4, <2>1 DEF OpenMatches, SameCandidate
  <2>3. OpenGrace(r, Q)
    BY <1>3, <2>1 DEF OpenGrace
  <2> QED
    BY <1>2, <1>6, <2>2, <2>3 DEF CandidateHolds, n
<1> QED
  BY <1>5, <1>6 DEF n

LEMMA CandidateAfterHolds ==
  ASSUME now \in Nat, NEW o \in HostStates, NEW r \in HostStates, NEW count \in Nat,
         NEW judged \in BOOLEAN, NEW above \in BOOLEAN, above => judged,
         NEW P \in SUBSET ProbeRecords, \A p \in P : p.at < now,
         CandidateHolds(o, P), CandidateAfter(o, r, count, judged, above)
  PROVE  CandidateHolds(r, P \cup {ProbeOf(count, judged, above)})
<1>1. CASE ~judged /\ SameCandidate(o, r)
  <2>1. judged = FALSE /\ above = FALSE
    BY <1>1
  <2> QED
    BY <1>1, <2>1, KeptHolds
<1>2. CASE NoCandidate(r)
  BY <1>2 DEF CandidateHolds, NoCandidate
<1>3. CASE judged /\ above /\ Opened(r, count)
  <2>1. judged = TRUE /\ above = TRUE
    BY <1>3
  <2> QED
    BY <1>3, <2>1, OpenedHolds
<1>4. CASE judged /\ Grown(o, r, count, above)
  <2>1. judged = TRUE
    BY <1>4
  <2> QED
    BY <1>4, <2>1, GrownHolds
<1> QED
  BY <1>1, <1>2, <1>3, <1>4 DEF CandidateAfter

LEMMA RecoveryAfterHolds ==
  ASSUME now \in Nat, NEW o \in HostStates, NEW r \in HostStates, NEW count \in Nat,
         NEW judged \in BOOLEAN, NEW above \in BOOLEAN,
         NEW P \in SUBSET ProbeRecords, \A p \in P : p.at < now,
         RecoveryHolds(o, P), RecoveryAfter(o, r, count, judged)
  PROVE  RecoveryHolds(r, P \cup {ProbeOf(count, judged, above)})
<1> DEFINE n == ProbeOf(count, judged, above)
<1>1. n.at = now /\ n.count = count /\ n.judged = judged
  BY DEF ProbeOf
<1>2. \A p \in P : p.at \in Nat /\ ~(p.at >= now)
  BY DEF ProbeRecords
<1> HIDE DEF n
<1>3. CASE ~judged /\ SameRecovery(o, r)
  BY <1>1, <1>3 DEF RecoveryHolds, SameRecovery, n
<1>4. CASE judged /\ Watched(o, r, count)
  <2> SUFFICES ASSUME r.recoveryBelowSince # Nil,
                      NEW p \in P \cup {n}, p.judged, p.at >= r.recoveryBelowSince
               PROVE  ~AtOrAbove(p.count, r.spikeThreshold)
    BY DEF RecoveryHolds, n
  <2>1. /\ r.spikeThreshold = o.spikeThreshold /\ ~AtOrAbove(count, o.spikeThreshold)
        /\ r.recoveryBelowSince \in {o.recoveryBelowSince, now}
    BY <1>4 DEF Watched
  <2>2. CASE p = n
    BY <1>1, <2>1, <2>2
  <2>3. CASE p \in P
    <3>1. r.recoveryBelowSince = o.recoveryBelowSince
      BY <1>2, <2>1, <2>3
    <3> QED
      BY <2>1, <2>3, <3>1 DEF RecoveryHolds
  <2> QED
    BY <2>2, <2>3
<1> QED
  BY <1>3, <1>4 DEF RecoveryAfter

-----------------------------------------------------------------------------
(* SpikeInv host by host. *)

\* Appending a probe adds it to the set of probes.
LEMMA RangeAppend ==
  ASSUME NEW S, NEW q \in Seq(S), NEW e \in S
  PROVE  Range(Append(q, e)) = Range(q) \cup {e}
<1> DEFINE a == Append(q, e)
<1>1. /\ a \in Seq(S) /\ Len(a) = Len(q) + 1 /\ Len(q) \in Nat
      /\ \A i \in 1..Len(q) : a[i] = q[i]
      /\ a[Len(q) + 1] = e
  BY AppendProperties
<1>2. DOMAIN q = 1..Len(q) /\ DOMAIN a = 1..(Len(q) + 1)
  BY <1>1
<1> HIDE DEF a
<1>3. Range(a) \subseteq Range(q) \cup {e}
  BY <1>1, <1>2 DEF Range
<1>4. Range(q) \cup {e} \subseteq Range(a)
  BY <1>1, <1>2 DEF Range
<1> QED
  BY <1>3, <1>4 DEF a

\* The probes of a sequence of probes.
LEMMA RangeOfProbes ==
  ASSUME NEW q \in Seq(ProbeRecords)
  PROVE  Range(q) \in SUBSET ProbeRecords
BY RangeOfSeq

HostHolds(h) ==
  /\ CandidateHolds(hosts[h], Range(probes[h]))
  /\ RecoveryHolds(hosts[h], Range(probes[h]))
  /\ hosts[h].inSpike => hist[h].incident

\* The conjuncts of SpikeInv that speak of the hosts are HostHolds of each.
LEMMA SpikeInvByHost ==
  SpikeInv <=> ProbesInOrder /\ SpikeReportIsCurrent /\ (\A h \in Hosts : HostHolds(h))
<1>1. \A h \in Hosts : /\ CandidateProbes(h) = Since(hosts[h], Range(probes[h]))
                       /\ {p \in CandidateProbes(h) : p.above} = HighSince(hosts[h], Range(probes[h]))
  BY DEF CandidateProbes, Since, HighSince
<1> DEFINE Part(h) ==
      LET s == hosts[h]
          all == CandidateProbes(h)
          high == {p \in all : p.above}
      IN IF s.aboveThresholdSince = Nil
         THEN /\ s.lastAboveAt = Nil
              /\ s.spikeAbove = 0 /\ s.spikeTotal = 0
              /\ s.spikePeak = 0 /\ s.lockPeak = 0
         ELSE /\ s.spikeTotal = Cardinality(all)
              /\ s.spikeAbove = Cardinality(high)
              /\ \E p \in high : p.at = s.aboveThresholdSince
              /\ \E p \in high : p.at = s.lastAboveAt
              /\ \E p \in high : p.count = s.spikePeak
              /\ \A p \in high : p.at <= s.lastAboveAt /\ p.count <= s.spikePeak
           Fin(h) == hosts[h].aboveThresholdSince # Nil => IsFiniteSet(CandidateProbes(h))
           Dips(h) == hosts[h].aboveThresholdSince # Nil =>
                        \A p \in CandidateProbes(h) :
                          ~p.above => \E q \in CandidateProbes(h) :
                                        /\ q.above
                                        /\ q.at < p.at
                                        /\ p.at - q.at <= SpikeDuration \div DipGraceDivisor
<1>2. \A h \in Hosts : Part(h) /\ Fin(h) /\ Dips(h) <=> CandidateHolds(hosts[h], Range(probes[h]))
  <2> SUFFICES ASSUME NEW h \in Hosts
               PROVE  Part(h) /\ Fin(h) /\ Dips(h) <=> CandidateHolds(hosts[h], Range(probes[h]))
    OBVIOUS
  <2>1. /\ CandidateProbes(h) = Since(hosts[h], Range(probes[h]))
        /\ {p \in CandidateProbes(h) : p.above} = HighSince(hosts[h], Range(probes[h]))
    BY <1>1
  <2>2. CASE hosts[h].aboveThresholdSince = Nil
    BY <2>2 DEF CandidateHolds, NoCandidate
  <2>3. CASE hosts[h].aboveThresholdSince # Nil
    <3>1. Part(h) /\ Fin(h) <=> OpenMatches(hosts[h], Range(probes[h]))
      BY <2>1, <2>3 DEF OpenMatches
    <3>2. Dips(h) <=> OpenGrace(hosts[h], Range(probes[h]))
      BY <2>1, <2>3 DEF OpenGrace
    <3> HIDE DEF Part, Fin, Dips
    <3> QED
      BY <2>3, <3>1, <3>2 DEF CandidateHolds
  <2> QED
    BY <2>2, <2>3
<1>3. /\ CandidateMatchesProbes <=> \A h \in Hosts : Part(h)
      /\ CandidateFinite <=> \A h \in Hosts : Fin(h)
      /\ DipsWithinGrace <=> \A h \in Hosts : Dips(h)
  BY DEF CandidateMatchesProbes, CandidateFinite, DipsWithinGrace
<1>4. RecoveryWatched <=> \A h \in Hosts : /\ RecoveryHolds(hosts[h], Range(probes[h]))
                                           /\ hosts[h].inSpike => hist[h].incident
  BY DEF RecoveryWatched, RecoveryHolds
<1> HIDE DEF Part, Fin, Dips
<1> QED
  BY <1>2, <1>3, <1>4 DEF SpikeInv, HostHolds

-----------------------------------------------------------------------------
(* Every step keeps SpikeInv. *)

SpikeByHost == ProbesInOrder /\ SpikeReportIsCurrent /\ (\A h \in Hosts : HostHolds(h))

LEMMA SpikeInit == Init => SpikeByHost
<1> SUFFICES ASSUME Init PROVE SpikeByHost
  OBVIOUS
<1>1. Range(<<>>) = {} /\ <<>> \in Seq(ProbeRecords)
  BY DEF Range
<1>2. ProbesInOrder
  BY <1>1 DEF Init, ProbesInOrder
<1>3. SpikeReportIsCurrent
  BY DEF Init, NoSnap, SpikeReportIsCurrent
<1>4. NoCandidate(NewHostState) /\ ~NewHostState.inSpike /\ NewHostState.recoveryBelowSince = Nil
  BY DEF NewHostState, NoCandidate
<1>5. \A h \in Hosts : hosts[h] = NewHostState
  BY DEF Init
<1>6. \A h \in Hosts : HostHolds(h)
  BY <1>4, <1>5 DEF HostHolds, CandidateHolds, RecoveryHolds, NoCandidate
<1> QED
  BY <1>2, <1>3, <1>6 DEF SpikeByHost

\* A step that probes no host keeps the order of the probes, if it looks ahead
\* only at hosts this tick has not probed.
LEMMA OrderKept ==
  ASSUME TypeOK, ProbesInOrder, probes' = probes, cur' \notin todo',
         \/ now' = now + 1
         \/ /\ now' = now /\ todo' \subseteq todo
            /\ pc' = "spike" => cur' \in todo \/ (pc = "spike" /\ cur' = cur)
  PROVE  ProbesInOrder'
<1> SUFFICES ASSUME NEW h \in Hosts, NEW p \in Range(probes[h])
             PROVE  /\ p.above => p.judged
                    /\ p.at <= now'
                    /\ h \in todo' \/ (pc' = "spike" /\ h = cur') => p.at < now'
  BY DEF ProbesInOrder
<1>1. /\ p.above => p.judged
      /\ p.at <= now
      /\ h \in todo \/ (pc = "spike" /\ h = cur) => p.at < now
  BY DEF ProbesInOrder
<1>2. p.at \in Nat /\ now \in Nat
  BY RangeOfProbes DEF ProbesInOrder, ProbeRecords, TypeOK
<1>3. CASE now' = now + 1
  BY <1>1, <1>2, <1>3
<1>4. CASE /\ now' = now /\ todo' \subseteq todo
           /\ pc' = "spike" => cur' \in todo \/ (pc = "spike" /\ cur' = cur)
  BY <1>1, <1>4
<1> QED
  BY <1>3, <1>4

\* Of the host states such a step may only learn the role.
SameTrigger(o, s) == SameCandidate(o, s) /\ SameRecovery(o, s)

LEMMA HostsKept ==
  ASSUME \A h \in Hosts : HostHolds(h), probes' = probes,
         \A h \in Hosts : SameTrigger(hosts[h], hosts'[h]),
         \A h \in Hosts : hist[h].incident => hist'[h].incident
  PROVE  \A h \in Hosts : HostHolds(h)'
<1> SUFFICES ASSUME NEW h \in Hosts PROVE HostHolds(h)'
  OBVIOUS
<1> DEFINE P == Range(probes[h])
           s == hosts[h]
           r == hosts'[h]
<1>1. CandidateHolds(s, P) /\ RecoveryHolds(s, P) /\ (s.inSpike => hist[h].incident)
  BY DEF HostHolds
<1>2. SameCandidate(s, r) /\ SameRecovery(s, r)
  BY DEF SameTrigger
<1> HIDE DEF P, s, r
<1>3. CandidateHolds(r, P)
  <2>1. r.aboveThresholdSince = s.aboveThresholdSince
    BY <1>2 DEF SameCandidate
  <2>2. Since(r, P) = Since(s, P) /\ HighSince(r, P) = HighSince(s, P)
    BY <2>1 DEF Since, HighSince
  <2>3. CASE s.aboveThresholdSince = Nil
    BY <1>1, <1>2, <2>3 DEF CandidateHolds, NoCandidate, SameCandidate
  <2>4. CASE s.aboveThresholdSince # Nil
    <3>1. OpenMatches(s, P) /\ OpenGrace(s, P)
      BY <1>1, <2>4 DEF CandidateHolds
    <3>2. OpenMatches(r, P)
      BY <1>2, <2>2, <3>1 DEF OpenMatches, SameCandidate
    <3>3. OpenGrace(r, P)
      BY <2>2, <3>1 DEF OpenGrace
    <3> QED
      BY <2>1, <2>4, <3>2, <3>3 DEF CandidateHolds
  <2> QED
    BY <2>3, <2>4
<1>4. RecoveryHolds(r, P)
  BY <1>1, <1>2 DEF RecoveryHolds, SameRecovery
<1>5. r.inSpike => hist'[h].incident
  BY <1>1, <1>2 DEF SameRecovery
<1> QED
  BY <1>3, <1>4, <1>5 DEF HostHolds, P, r

\* A spike snapshot of a candidate one probe longer than the last.
LEMMA FiredIsCurrent ==
  ASSUME NEW o \in HostStates, NEW P \in SUBSET ProbeRecords, CandidateHolds(o, P), FiredFrom(o)
  PROVE  SpikeReportIsCurrent'
<1>1. /\ o.aboveThresholdSince # Nil /\ OpenMatches(o, P)
      /\ o.spikeTotal \in Nat
  BY HostFields DEF FiredFrom, CandidateHolds
<1>2. Since(o, P) # {} /\ IsFiniteSet(Since(o, P))
  BY <1>1 DEF OpenMatches, HighSince
<1>3. o.spikeTotal # 0
  BY <1>1, <1>2, FS_EmptySet DEF OpenMatches
<1>4. 2 <= snap'.total
  BY <1>1, <1>3 DEF FiredFrom
<1> QED
  BY <1>4 DEF FiredFrom, SpikeReportIsCurrent

LEMMA SpikeProbe ==
  ASSUME TypeOK, SpikeByHost, NEW count \in Counts, Probe(count)
  PROVE  SpikeByHost'
<1> DEFINE o == hosts[cur]
           P == Range(probes[cur])
<1>1. /\ cur \in Hosts /\ o \in HostStates /\ now \in Nat /\ count \in Nat
      /\ probes \in [Hosts -> Seq(ProbeRecords)] /\ HostHolds(cur) /\ cur \notin todo
  BY DaemonConfigOK DEF TypeOK, SpikeByHost, ProbesInOrder
<1>2. pc = "spike" /\ pc' # "spike" /\ ProbeEffect /\ UNCHANGED <<now, cur, todo>>
  <2>1. ProbeEffect /\ pc = "spike" /\ UNCHANGED <<now, cur, todo>>
    BY ProbeHasEffect
  <2> QED
    BY <2>1 DEF ProbeEffect, ProbeQuiet, ProbeUnacked, ProbeDropped, ProbeFired
<1>3. P \in SUBSET ProbeRecords /\ \A p \in P : p.at < now
  BY <1>1, <1>2, RangeOfProbes DEF SpikeByHost, ProbesInOrder
<1>4. CandidateHolds(o, P) /\ RecoveryHolds(o, P) /\ (o.inSpike => hist[cur].incident)
  BY <1>1 DEF HostHolds
<1>5. o.aboveThresholdSince = Nil => NoCandidate(o)
  BY <1>4 DEF CandidateHolds
<1>6. PICK judged \in BOOLEAN, above \in BOOLEAN : Probed(count, judged, above)
  BY <1>5, ProbeOnHost
<1>7. PICK r \in HostStates :
        /\ hosts' = [hosts EXCEPT ![cur] = r]
        /\ CandidateAfter(o, r, count, judged, above)
        /\ RecoveryAfter(o, r, count, judged)
        /\ Incident(o, r)
  BY <1>6 DEF Probed
<1> DEFINE n == ProbeOf(count, judged, above)
<1>8. /\ n \in ProbeRecords /\ n.at = now /\ (n.above => n.judged)
      /\ probes' = [probes EXCEPT ![cur] = Append(@, n)]
  BY <1>1, <1>6 DEF Probed, ProbeOf, ProbeRecords
<1> HIDE DEF n
<1>9. Append(probes[cur], n) \in Seq(ProbeRecords) /\ Range(Append(probes[cur], n)) = P \cup {n}
  BY <1>1, <1>8, RangeAppend
<1>10. /\ probes' \in [Hosts -> Seq(ProbeRecords)] /\ Range(probes'[cur]) = P \cup {n}
       /\ \A h \in Hosts \ {cur} : probes'[h] = probes[h]
  BY <1>1, <1>8, <1>9
<1>11. ProbesInOrder'
  <2>1. cur' \notin todo' /\ probes' \in [Hosts -> Seq(ProbeRecords)]
    BY <1>1, <1>2, <1>10
  <2>2. ASSUME NEW h \in Hosts, NEW p \in Range(probes'[h])
        PROVE  /\ p.above => p.judged
               /\ p.at <= now
               /\ h \in todo => p.at < now
    <3>1. CASE h = cur
      <4>1. p \in P \/ p = n
        BY <1>10, <3>1
      <4>2. CASE p = n
        BY <1>1, <1>8, <3>1, <4>2
      <4>3. CASE p \in P
        BY <1>1, <1>3, <3>1, <4>3 DEF SpikeByHost, ProbesInOrder, ProbeRecords
      <4> QED
        BY <4>1, <4>2, <4>3
    <3>2. CASE h # cur
      BY <1>10, <3>2 DEF SpikeByHost, ProbesInOrder
    <3> QED
      BY <3>1, <3>2
  <2> QED
    BY <1>2, <2>1, <2>2 DEF ProbesInOrder
<1>12. SpikeReportIsCurrent'
  <2>1. CASE snap' = snap
    BY <2>1 DEF SpikeByHost, SpikeReportIsCurrent
  <2>2. CASE DropOf(o, count)
    BY <2>2 DEF DropOf, SpikeReportIsCurrent
  <2>3. CASE FiredFrom(o)
    BY <1>1, <1>3, <1>4, <2>3, FiredIsCurrent
  <2> QED
    BY <1>6, <2>1, <2>2, <2>3 DEF Probed
<1>13. hist' = [hist EXCEPT ![cur] = hist'[cur]] \/ hist' = hist
  BY <1>2 DEF ProbeEffect, ProbeQuiet, ProbeUnacked, ProbeDropped, ProbeFired, TypeOK
<1>14. ASSUME NEW h \in Hosts
       PROVE  HostHolds(h)'
  <2>1. CASE h = cur
    <3>1. hosts'[h] = r /\ Range(probes'[h]) = P \cup {n}
      BY <1>1, <1>7, <1>10, <2>1 DEF TypeOK
    <3>2. CandidateHolds(r, P \cup {n})
      BY <1>1, <1>3, <1>4, <1>6, <1>7, CandidateAfterHolds DEF n, Probed
    <3>3. RecoveryHolds(r, P \cup {n})
      BY <1>1, <1>3, <1>4, <1>7, RecoveryAfterHolds DEF n
    <3>4. r.inSpike => hist'[h].incident
      BY <1>4, <1>7, <2>1 DEF Incident
    <3> QED
      BY <3>1, <3>2, <3>3, <3>4 DEF HostHolds
  <2>2. CASE h # cur
    <3>1. hosts'[h] = hosts[h] /\ probes'[h] = probes[h] /\ hist'[h] = hist[h]
      BY <1>7, <1>10, <1>13, <2>2 DEF TypeOK
    <3> QED
      BY <3>1 DEF SpikeByHost, HostHolds
  <2> QED
    BY <2>1, <2>2
<1> QED
  BY <1>11, <1>12, <1>14 DEF SpikeByHost

\* The next host of a tick is one it has not come to.
LEMMA NextHostOrder ==
  ASSUME NextHost, cur \notin todo
  PROVE  /\ cur' \notin todo' /\ todo' \subseteq todo
         /\ pc' = "spike" => cur' \in todo
BY DEF NextHost

LEMMA SpikeRole ==
  ASSUME TypeOK, SpikeByHost, NEW role \in Roles, SeeRole(role)
  PROVE  SpikeByHost'
<1>1. NextHost /\ UNCHANGED <<now, probes>> /\ SetHost([hosts[cur] EXCEPT !.lastInRecovery = role])
  BY DEF SeeRole
<1>2. \/ UNCHANGED <<snap, hist>>
      \/ \E outcome \in Outcomes :
           /\ TakeSnapshot(cur, "role_change", outcome, Report(cur, "role_change", NewHostState))
           /\ SetHist(IF outcome = "ok" THEN Acked(hist[cur]) ELSE hist[cur])
  BY DEF SeeRole
<1>3. cur \in Hosts /\ hosts \in [Hosts -> HostStates] /\ cur \notin todo
  BY DEF TypeOK, SpikeByHost, ProbesInOrder
<1>4. ProbesInOrder'
  BY <1>1, <1>3, NextHostOrder, OrderKept DEF SpikeByHost
<1>5. SpikeReportIsCurrent'
  <2>1. snap' = snap \/ snap' = Report(cur, "role_change", NewHostState)
    BY <1>2 DEF TakeSnapshot
  <2> QED
    BY <2>1 DEF SpikeByHost, SpikeReportIsCurrent, Report
<1>6. \A h \in Hosts : SameTrigger(hosts[h], hosts'[h])
  <2> DEFINE r == [hosts[cur] EXCEPT !.lastInRecovery = role]
  <2>1. hosts' = [hosts EXCEPT ![cur] = r]
    BY <1>1 DEF SetHost
  <2>2. SameTrigger(hosts[cur], r)
    <3> DEFINE o == hosts[cur]
    <3>1. o \in HostStates
      BY <1>3
    <3> HIDE DEF o
    <3>2. SameTrigger(o, [o EXCEPT !.lastInRecovery = role])
      BY <3>1 DEF HostStates, SameTrigger, SameCandidate, SameRecovery
    <3> QED
      BY <3>2 DEF o
  <2> HIDE DEF r
  <2>3. \A h \in Hosts \ {cur} : hosts'[h] = hosts[h]
    BY <1>3, <2>1
  <2>4. \A h \in Hosts \ {cur} : SameTrigger(hosts[h], hosts'[h])
    BY <2>3 DEF SameTrigger, SameCandidate, SameRecovery
  <2>5. hosts'[cur] = r
    BY <1>3, <2>1
  <2> QED
    BY <2>2, <2>4, <2>5
<1>7. \A h \in Hosts : hist[h].incident => hist'[h].incident
  <2>1. hist \in [Hosts -> Histories] /\ Acked(hist[cur]).incident = hist[cur].incident
    BY <1>3 DEF TypeOK, Acked, Histories
  <2>2. hist' = hist \/ hist' = [hist EXCEPT ![cur] = Acked(hist[cur])]
    BY <1>2, <2>1 DEF SetHist
  <2> QED
    BY <2>1, <2>2
<1>8. \A h \in Hosts : HostHolds(h)'
  BY <1>1, <1>6, <1>7, HostsKept DEF SpikeByHost
<1> QED
  BY <1>4, <1>5, <1>8 DEF SpikeByHost

\* A step that leaves the host states, the probes and the incidents alone and
\* stores no spike snapshot.
LEMMA SpikeElsewhere ==
  ASSUME TypeOK, SpikeByHost, hosts' = hosts, probes' = probes, cur' \notin todo',
         \/ now' = now + 1
         \/ /\ now' = now /\ todo' \subseteq todo
            /\ pc' = "spike" => cur' \in todo \/ (pc = "spike" /\ cur' = cur),
         snap' = snap \/ snap'.reason # "activity_spike",
         \A h \in Hosts : hist[h].incident => hist'[h].incident
  PROVE  SpikeByHost'
<1>1. ProbesInOrder'
  BY OrderKept DEF SpikeByHost
<1>2. SpikeReportIsCurrent'
  BY DEF SpikeByHost, SpikeReportIsCurrent
<1>3. \A h \in Hosts : SameTrigger(hosts[h], hosts'[h])
  BY DEF SameTrigger, SameCandidate, SameRecovery
<1>4. \A h \in Hosts : HostHolds(h)'
  BY <1>3, HostsKept DEF SpikeByHost
<1> QED
  BY <1>1, <1>2, <1>4 DEF SpikeByHost

LEMMA SpikeCrash ==
  ASSUME TypeOK, SpikeByHost, Crash
  PROVE  SpikeByHost'
<1>1. Range(<<>>) = {} /\ <<>> \in Seq(ProbeRecords)
  BY DEF Range
<1>2. \A h \in Hosts : probes'[h] = <<>> /\ hosts'[h] = NewHostState
  BY DEF Crash
<1>3. ProbesInOrder'
  BY <1>1, <1>2 DEF Crash, ProbesInOrder
<1>4. SpikeReportIsCurrent'
  BY DEF Crash, SpikeByHost, SpikeReportIsCurrent
<1>5. NoCandidate(NewHostState) /\ ~NewHostState.inSpike /\ NewHostState.recoveryBelowSince = Nil
  BY DEF NewHostState, NoCandidate
<1>6. \A h \in Hosts : HostHolds(h)'
  BY <1>2, <1>5 DEF HostHolds, CandidateHolds, RecoveryHolds, NoCandidate
<1> QED
  BY <1>3, <1>4, <1>6 DEF SpikeByHost

LEMMA SpikeStepHolds == TypeOK /\ SpikeByHost /\ [Next]_vars => SpikeByHost'
<1> SUFFICES ASSUME TypeOK, SpikeByHost, [Next]_vars PROVE SpikeByHost'
  OBVIOUS
<1>0. cur \notin todo /\ cur \in Hosts /\ hist \in [Hosts -> Histories]
  BY DEF SpikeByHost, ProbesInOrder, TypeOK
<1>1. CASE Poll
  <2>1. hosts' = hosts /\ probes' = probes /\ snap' = snap /\ hist' = hist /\ now' = now + 1
    BY <1>1 DEF Poll, memory, history
  <2>2. cur' \notin todo'
    BY <1>0, <1>1 DEF Poll
  <2> QED
    BY <2>1, <2>2, SpikeElsewhere
<1>2. CASE Abandon
  <2>1. hosts' = hosts /\ probes' = probes /\ snap' = snap /\ hist' = hist /\ now' = now
    BY <1>2 DEF Abandon, memory, history
  <2>2. cur' \notin todo' /\ todo' \subseteq todo /\ pc' = "claim"
    BY <1>2 DEF Abandon
  <2> QED
    BY <2>1, <2>2, SpikeElsewhere
<1>3. CASE SkipProbe \/ Enqueue \/ Claim \/ SkipClaim
  <2>1. hosts' = hosts /\ probes' = probes /\ snap' = snap /\ hist' = hist /\ now' = now
    BY <1>3 DEF SkipProbe, Enqueue, Claim, SkipClaim, memory, tables, history
  <2>2. cur' = cur /\ todo' = todo /\ pc' # "spike"
    BY <1>3 DEF SkipProbe, Enqueue, Claim, SkipClaim
  <2> QED
    BY <1>0, <2>1, <2>2, SpikeElsewhere
<1>4. CASE \E count \in Counts : Probe(count)
  BY <1>4, SpikeProbe
<1>5. CASE Cancel
  <2>1. hosts' = hosts /\ probes' = probes /\ snap' = snap /\ now' = now
    BY <1>5 DEF Cancel, memory
  <2>2. cur' = cur /\ todo' = todo /\ pc' # "spike"
    BY <1>5 DEF Cancel
  <2>3. hist' = hist \/ hist' = [hist EXCEPT ![cur] = [hist[cur] EXCEPT !.resolved = TRUE]]
    BY <1>5 DEF Cancel, SetHist
  <2>4. [hist[cur] EXCEPT !.resolved = TRUE].incident = hist[cur].incident
    BY <1>0 DEF Histories
  <2>5. \A h \in Hosts : hist[h].incident => hist'[h].incident
    BY <1>0, <2>3, <2>4
  <2> QED
    BY <1>0, <2>1, <2>2, <2>5, SpikeElsewhere
<1>6. CASE SkipRole
  <2>1. hosts' = hosts /\ probes' = probes /\ snap' = snap /\ hist' = hist /\ now' = now
    BY <1>6 DEF SkipRole, memory, history
  <2>2. NextHost
    BY <1>6 DEF SkipRole
  <2> QED
    BY <1>0, <2>1, <2>2, NextHostOrder, SpikeElsewhere
<1>7. CASE \E role \in Roles : SeeRole(role)
  BY <1>7, SpikeRole
<1>8. CASE \E h \in Hosts : TakeDeferred(h)
  <2>1. PICK h \in Hosts : TakeDeferred(h)
    BY <1>8
  <2>2. hosts' = hosts /\ probes' = probes /\ now' = now /\ cur' = cur /\ todo' = todo /\ pc' # "spike"
    BY <2>1 DEF TakeDeferred
  <2>3. PICK outcome \in Outcomes :
          /\ TakeSnapshot(h, "deferred", outcome, Report(h, "deferred", NewHostState))
          /\ hist' = [hist EXCEPT ![h] = AfterDeferred(hist[h], outcome)]
    BY <2>1 DEF TakeDeferred
  <2>4. snap' = snap \/ snap'.reason # "activity_spike"
    BY <2>3 DEF TakeSnapshot, Report
  <2>5. AfterDeferred(hist[h], outcome).incident = hist[h].incident
    BY <1>0 DEF AfterDeferred, Histories
  <2>6. \A g \in Hosts : hist[g].incident => hist'[g].incident
    BY <1>0, <2>3, <2>5
  <2> QED
    BY <1>0, <2>2, <2>4, <2>6, SpikeElsewhere
<1>9. CASE Crash
  BY <1>9, SpikeCrash
<1>10. CASE Outage
  <2>1. hosts' = hosts /\ probes' = probes /\ snap' = snap /\ hist' = hist /\ now' = now + 1
    BY <1>10 DEF Outage, memory, history
  <2>2. cur' \notin todo'
    BY <1>0, <1>10 DEF Outage
  <2> QED
    BY <2>1, <2>2, SpikeElsewhere
<1>11. CASE Restart
  <2>1. hosts' = hosts /\ probes' = probes /\ snap' = snap /\ hist' = hist /\ now' = now
    BY <1>11 DEF Restart, history
  <2>2. cur' = cur /\ todo' = todo /\ pc' # "spike"
    BY <1>11 DEF Restart
  <2> QED
    BY <1>0, <2>1, <2>2, SpikeElsewhere
<1>12. CASE UNCHANGED vars
  <2>1. hosts' = hosts /\ probes' = probes /\ snap' = snap /\ hist' = hist /\ now' = now
    BY <1>12 DEF vars, memory, history
  <2>2. cur' = cur /\ todo' = todo /\ pc' = pc
    BY <1>12 DEF vars
  <2> QED
    BY <1>0, <2>1, <2>2, SpikeElsewhere
<1>13. Horizon => UNCHANGED vars
  BY DEF Horizon
<1> QED
  BY <1>1, <1>2, <1>3, <1>4, <1>5, <1>6, <1>7, <1>8, <1>9, <1>10, <1>11, <1>12, <1>13 DEF Next

-----------------------------------------------------------------------------
(* The theorems. *)

\* The counters, the peak and the recovery timer of the daemon's memory agree
\* with the probes behind them, and the newest spike snapshot with its candidate,
\* in every behaviour.
THEOREM SpikeInvariant == Spec => []SpikeInv
<1>1. Init => SpikeByHost
  BY SpikeInit
<1>2. TypeOK /\ SpikeByHost /\ [Next]_vars => SpikeByHost'
  BY SpikeStepHolds
<1>3. SpikeByHost => SpikeInv
  BY SpikeInvByHost DEF SpikeByHost
<1> QED
  BY <1>1, <1>2, <1>3, TypeCorrect, PTL DEF Spec

\* resetSpike leaves nothing of an abandoned or fired candidate behind, and the
\* counters of an open one count exactly its judged probes, whatever the load
\* does and however many probes fail.
THEOREM CandidateIsItsProbes == Spec => []CandidateMatchesProbes
<1>1. SpikeInv => CandidateMatchesProbes
  BY DEF SpikeInv
<1> QED
  BY <1>1, SpikeInvariant, PTL

\* No dip inside a candidate is further than half a spike duration from the
\* probe above the threshold before it.
THEOREM DipsStayWithinGrace == Spec => []DipsWithinGrace
<1>1. SpikeInv => DipsWithinGrace
  BY DEF SpikeInv
<1> QED
  BY <1>1, SpikeInvariant, PTL

\* What trigger_context reports of a fired spike: a candidate of at least two
\* probes that lasted long enough, is not stale and is dominated by the spike.
THEOREM SpikeReportsAreCurrent == Spec => []SpikeReportIsCurrent
<1>1. SpikeInv => SpikeReportIsCurrent
  BY DEF SpikeInv
<1> QED
  BY <1>1, SpikeInvariant, PTL

\* DropAfterRecovery of one step.
DropStep ==
  DropTaken =>
    LET h == snap'.host IN
    /\ hist[h].incident
    /\ now - snap'.below >= RecoveryDuration
    /\ \A p \in RecentProbes(h) :
         p.judged => ~AtOrAbove(p.count, hosts[h].spikeThreshold)

LEMMA DropByProbe ==
  ASSUME TypeOK, SpikeByHost, NEW count \in Counts, Probe(count), DropTaken
  PROVE  DropStep
<1> DEFINE o == hosts[cur]
           P == Range(probes[cur])
<1>1. /\ cur \in Hosts /\ o \in HostStates /\ now \in Nat /\ count \in Nat
      /\ probes \in [Hosts -> Seq(ProbeRecords)] /\ HostHolds(cur)
  BY DaemonConfigOK DEF TypeOK, SpikeByHost, ProbesInOrder
<1>2. CandidateHolds(o, P) /\ RecoveryHolds(o, P) /\ (o.inSpike => hist[cur].incident)
  BY <1>1 DEF HostHolds
<1>3. P \in SUBSET ProbeRecords
  BY <1>1, RangeOfProbes
<1>4. o.aboveThresholdSince = Nil => NoCandidate(o)
  BY <1>2 DEF CandidateHolds
<1>5. PICK judged \in BOOLEAN, above \in BOOLEAN : Probed(count, judged, above)
  BY <1>4, ProbeOnHost
<1>6. DropOf(o, count)
  BY <1>5 DEF Probed, DropTaken, FiredFrom
<1> DEFINE n == ProbeOf(count, judged, above)
<1>7. n \in ProbeRecords /\ n.count = count /\ probes' = [probes EXCEPT ![cur] = Append(@, n)]
  BY <1>1, <1>5 DEF Probed, ProbeOf, ProbeRecords
<1> HIDE DEF n
<1>8. Range(probes'[cur]) = P \cup {n}
  BY <1>1, <1>7, RangeAppend
<1>9. o.recoveryBelowSince \in Nat /\ RecoveryDuration \in Nat
  BY <1>1, <1>6, HostFields, DaemonConfigOK DEF DropOf, OptTime
<1>10. ASSUME NEW p \in RecentProbes(cur), p.judged
       PROVE  ~AtOrAbove(p.count, o.spikeThreshold)
  <2>1. p \in P \cup {n} /\ p.at >= now - RecoveryDuration
    BY <1>8 DEF RecentProbes
  <2>2. CASE p = n
    BY <1>6, <1>7, <2>2 DEF DropOf
  <2>3. CASE p \in P
    <3>1. p.at \in Nat
      BY <1>3, <2>3 DEF ProbeRecords
    <3>2. now - o.recoveryBelowSince >= RecoveryDuration /\ o.recoveryBelowSince # Nil
      BY <1>6 DEF DropOf
    <3>3. p.at >= o.recoveryBelowSince
      BY <1>1, <1>9, <2>1, <3>1, <3>2
    <3> QED
      BY <1>2, <1>10, <2>3, <3>2, <3>3 DEF RecoveryHolds
  <2> QED
    BY <2>1, <2>2, <2>3
<1>11. /\ snap'.host = cur /\ hist[cur].incident
       /\ now - snap'.below >= RecoveryDuration
  BY <1>2, <1>6 DEF DropOf
<1> QED
  BY <1>10, <1>11 DEF DropStep

LEMMA DropStepHolds == TypeOK /\ SpikeByHost /\ [Next]_vars => DropStep
<1> SUFFICES ASSUME TypeOK, SpikeByHost, [Next]_vars, DropTaken PROVE DropStep
  BY DEF DropStep
<1>1. CASE \E count \in Counts : Probe(count)
  BY <1>1, DropByProbe
<1>2. ASSUME NEW role \in Roles, SeeRole(role) PROVE FALSE
  <2>1. snap' = snap \/ snap' = Report(cur, "role_change", NewHostState)
    BY <1>2 DEF SeeRole, TakeSnapshot
  <2> QED
    BY <2>1 DEF DropTaken, Report
<1>3. ASSUME NEW h \in Hosts, TakeDeferred(h) PROVE FALSE
  <2>1. snap' = snap \/ snap' = Report(h, "deferred", NewHostState)
    BY <1>3 DEF TakeDeferred, TakeSnapshot
  <2> QED
    BY <2>1 DEF DropTaken, Report
<1>4. snap' # snap
  BY DEF DropTaken
<1>5. ~(UNCHANGED vars) /\ ~Horizon
  BY <1>4 DEF vars, history, Horizon
<1>6. ~Poll /\ ~Abandon /\ ~SkipProbe /\ ~Enqueue /\ ~Cancel /\ ~SkipRole
  BY <1>4 DEF Poll, Abandon, SkipProbe, Enqueue, Cancel, SkipRole, history
<1>7. ~Claim /\ ~SkipClaim /\ ~Crash /\ ~Outage /\ ~Restart
  BY <1>4 DEF Claim, SkipClaim, Crash, Outage, Restart, history
<1> QED
  BY <1>1, <1>2, <1>3, <1>5, <1>6, <1>7 DEF Next

\* An activity_drop snapshot closes an incident this daemon opened, after a
\* recovery_duration in which no probe with a baseline reached the frozen
\* threshold: no probe that failed, no reset of the candidate and no restart
\* makes handleRecovery's timer outlive a probe that should have cleared it.
THEOREM DropOnlyAfterRecovery == Spec => DropAfterRecovery
<1>1. Init => SpikeByHost
  BY SpikeInit
<1>2. TypeOK /\ SpikeByHost /\ [Next]_vars => SpikeByHost'
  BY SpikeStepHolds
<1>3. TypeOK /\ SpikeByHost /\ [Next]_vars => DropStep
  BY DropStepHolds
<1> QED
  BY <1>1, <1>2, <1>3, TypeCorrect, PTL DEF Spec, DropAfterRecovery, DropStep

-----------------------------------------------------------------------------
(* The threshold of an incident: the window against the probes. *)

LEMMA IntervalSize ==
  ASSUME NEW n \in Nat
  PROVE  IsFiniteSet(1 .. n) /\ Cardinality(1 .. n) = n
BY FS_Interval

\* A window of the last m of k elements, one more added and its first c dropped.
LEMMA DroppedInAll ==
  ASSUME NEW k \in Nat, NEW m \in 0 .. k, NEW c \in 0 .. m
  PROVE  (k - m) + c \in 0 .. k /\ (k + 1) - ((m + 1) - c) = (k - m) + c
OBVIOUS

\* What is left of a sequence when its first c elements are dropped.
LEMMA SuffixProperties ==
  ASSUME NEW S, NEW s, NEW c \in Nat, NEW n \in Nat, c < n,
         \A i \in c + 1 .. n : s[i] \in S
  PROVE  /\ Len(SubSeq(s, c + 1, n)) = n - c
         /\ \A i \in 1 .. n - c : SubSeq(s, c + 1, n)[i] = s[c + i]
<1>1. c + 1 \in Int /\ n \in Int /\ c + 1 <= n /\ n - (c + 1) + 1 = n - c
  OBVIOUS
<1>2. /\ Len(SubSeq(s, c + 1, n)) = n - (c + 1) + 1
      /\ \A i \in 1 .. n - (c + 1) + 1 : SubSeq(s, c + 1, n)[i] = s[(c + 1) + i - 1]
  BY <1>1, SubSeqProperties
<1>3. \A i \in 1 .. n - c : (c + 1) + i - 1 = c + i
  OBVIOUS
<1> QED
  BY <1>1, <1>2, <1>3

\* In a window in time order, what is older than the cutoff is a prefix, and
\* trimSamples drops exactly that.
LEMMA TrimDropsPrefix ==
  ASSUME NEW samples \in Seq(Sample), NEW cutoff \in Int,
         \A i, j \in 1 .. Len(samples) : i < j => samples[i].at < samples[j].at
  PROVE  \E c \in 0 .. Len(samples) :
           /\ \A i \in 1 .. Len(samples) : samples[i].at < cutoff <=> i <= c
           /\ TrimSamples(samples, cutoff) = SubSeq(samples, c + 1, Len(samples))
<1> DEFINE n == Len(samples)
           stale == {i \in 1 .. n : samples[i].at < cutoff}
           c == Cardinality(stale)
<1>0. n \in Nat
  BY LenProperties
<1>1. n \in Nat /\ \A i \in 1 .. n : samples[i].at \in Nat
  <2>1. \A i \in 1 .. n : samples[i] \in Sample
    BY <1>0, ElementOfSeq
  <2> QED
    BY <1>0, <2>1 DEF Sample
<1>2. IsFiniteSet(1 .. n) /\ Cardinality(1 .. n) = n
  BY <1>0, IntervalSize
<1>3. IsFiniteSet(stale) /\ c <= n
  BY <1>2, FS_Subset
<1>4. c \in Nat
  BY <1>3, FS_CardinalityType
<1>5. ASSUME NEW i \in stale PROVE i <= c
  <2>1. \A j \in 1 .. i : j \in stale
    BY <1>1
  <2>2. 1 .. i \subseteq stale
    BY <2>1
  <2>3. IsFiniteSet(1 .. i) /\ Cardinality(1 .. i) = i
    BY <1>1, FS_Interval
  <2> QED
    BY <1>3, <2>2, <2>3, FS_Subset
<1>6. stale \subseteq 1 .. c
  BY <1>1, <1>4, <1>5
<1>7. IsFiniteSet(1 .. c) /\ Cardinality(1 .. c) = c
  BY <1>4, FS_Interval
<1>8. stale = 1 .. c
  BY <1>3, <1>6, <1>7, FS_Subset
<1>9. \A i \in 1 .. n : samples[i].at < cutoff <=> i <= c
  BY <1>1, <1>4, <1>8
<1>10. TrimSamples(samples, cutoff) = SubSeq(samples, c + 1, n)
  BY DEF TrimSamples
<1>11. c \in 0 .. n
  BY <1>0, <1>3, <1>4
<1> HIDE DEF c, stale
<1> QED
  BY <1>9, <1>10, <1>11

\* A probe later than all others: the window goes on holding the newest, and
\* its counts without the last are the baseline of the probe.
LEMMA ObserveWindow ==
  ASSUME NEW w \in Seq(Sample), NEW q \in Seq(ProbeRecords), WindowOf(w, q),
         NEW t \in Nat, NEW count \in Nat, NEW e \in ProbeRecords,
         e.at = t, e.count = count, \A i \in 1 .. Len(q) : q[i].at < t,
         NEW v, v = TrimSamples(Append(w, [at |-> t, count |-> count]), t - WindowSize)
  PROVE  /\ WindowOf(v, Append(q, e))
         /\ IsBaseline(Append(q, e), t, BaselineCounts(v))
<1> DEFINE x == [at |-> t, count |-> count]
           a == Append(w, x)
           b == Append(q, e)
           m == Len(w)
           k == Len(q)
<1>1. /\ m \in Nat /\ a \in Seq(Sample) /\ Len(a) = m + 1
      /\ \A i \in 1 .. m : a[i] = w[i]
      /\ a[m + 1] = x
  BY AppendProperties, LenProperties DEF Sample
<1>2. /\ k \in Nat /\ b \in Seq(ProbeRecords) /\ Len(b) = k + 1
      /\ \A i \in 1 .. k : b[i] = q[i]
      /\ b[k + 1] = e
  BY AppendProperties, LenProperties
<1>3. WindowSize \in Nat /\ t - WindowSize \in Int /\ x.at = t /\ x.count = count
  BY TriggerConfigOK
<1>4. \A i \in 1 .. k : q[i].at \in Nat /\ q[i].count \in Nat
  <2>1. \A i \in 1 .. k : q[i] \in ProbeRecords
    BY <1>2, ElementOfSeq
  <2> QED
    BY <2>1 DEF ProbeRecords
<1>5. /\ k - m >= 0
      /\ \A i \in 1 .. m : w[i].at = q[(k - m) + i].at /\ w[i].count = q[(k - m) + i].count
      /\ \A i \in 1 .. k - m : q[i].at < q[k].at - WindowSize
      /\ \A i, j \in 1 .. k : i < j => q[i].at < q[j].at
  BY DEF WindowOf
<1> HIDE DEF x, a, b, m, k
<1>6. \A i \in 1 .. m + 1 : /\ a[i].at = b[(k - m) + i].at
                            /\ a[i].count = b[(k - m) + i].count
  <2> TAKE i \in 1 .. m + 1
  <2>1. CASE i = m + 1
    BY <1>1, <1>2, <1>3, <2>1
  <2>2. CASE i \in 1 .. m
    <3>1. (k - m) + i \in 1 .. k
      BY <1>1, <1>2, <1>5, <2>2
    <3> QED
      BY <1>1, <1>2, <1>5, <2>2, <3>1
  <2> QED
    BY <1>1, <2>1, <2>2
<1>7. \A i, j \in 1 .. k + 1 : i < j => b[i].at < b[j].at
  <2> SUFFICES ASSUME NEW i \in 1 .. k + 1, NEW j \in 1 .. k + 1, i < j
               PROVE  b[i].at < b[j].at
    OBVIOUS
  <2>1. i \in 1 .. k
    BY <1>2
  <2>2. CASE j \in 1 .. k
    BY <1>2, <1>5, <2>1, <2>2
  <2>3. CASE j = k + 1
    BY <1>2, <2>1, <2>3 DEF k
  <2> QED
    BY <1>2, <2>2, <2>3
<1>8. \A i, j \in 1 .. m + 1 : i < j => a[i].at < a[j].at
  <2> SUFFICES ASSUME NEW i \in 1 .. m + 1, NEW j \in 1 .. m + 1, i < j
               PROVE  a[i].at < a[j].at
    OBVIOUS
  <2>1. /\ (k - m) + i \in 1 .. k + 1 /\ (k - m) + j \in 1 .. k + 1
        /\ (k - m) + i < (k - m) + j
    BY <1>1, <1>2, <1>5
  <2> QED
    BY <1>6, <1>7, <2>1
<1>9. PICK c \in 0 .. m + 1 :
        /\ \A i \in 1 .. m + 1 : a[i].at < t - WindowSize <=> i <= c
        /\ v = SubSeq(a, c + 1, m + 1)
  <2>1. \E c \in 0 .. Len(a) :
          /\ \A i \in 1 .. Len(a) : a[i].at < t - WindowSize <=> i <= c
          /\ TrimSamples(a, t - WindowSize) = SubSeq(a, c + 1, Len(a))
    BY <1>1, <1>3, <1>8, TrimDropsPrefix
  <2>2. v = TrimSamples(a, t - WindowSize)
    BY DEF a, x
  <2> QED
    BY <1>1, <2>1, <2>2
<1>10. c \in 0 .. m
  <2>1. ~(a[m + 1].at < t - WindowSize)
    BY <1>1, <1>3
  <2> QED
    BY <1>1, <1>9, <2>1
<1>11. /\ Len(v) = (m + 1) - c
       /\ \A i \in 1 .. (m + 1) - c : v[i] = a[c + i]
  <2>1. \A i \in c + 1 .. m + 1 : a[i] \in Sample
    BY <1>1, <1>10, ElementOfSeq
  <2>2. c \in Nat /\ m + 1 \in Nat /\ c < m + 1
    BY <1>1, <1>10
  <2> QED
    BY <1>9, <2>1, <2>2, SuffixProperties
<1> DEFINE n == (k - m) + c
<1>12. n \in 0 .. k /\ (k + 1) - ((m + 1) - c) = n
  <2>1. k \in Nat /\ m \in 0 .. k /\ c \in 0 .. m
    BY <1>1, <1>2, <1>5, <1>10
  <2> HIDE DEF k, m
  <2> QED
    BY <2>1, DroppedInAll
<1>13. \A i \in 1 .. (m + 1) - c : v[i].at = b[n + i].at /\ v[i].count = b[n + i].count
  <2> TAKE i \in 1 .. (m + 1) - c
  <2>1. c + i \in 1 .. m + 1 /\ (k - m) + (c + i) = n + i
    BY <1>1, <1>2, <1>10
  <2> QED
    BY <1>6, <1>11, <2>1
\* Older than the window are the probes it had dropped and those it drops now.
<1>14. \A i \in 1 .. n : b[i].at < t - WindowSize
  <2> TAKE i \in 1 .. n
  <2>0. i \in 1 .. k /\ b[i] = q[i] /\ q[i].at \in Nat
    BY <1>2, <1>4, <1>12
  <2>1. CASE i \in 1 .. k - m
    <3>1. k \in 1 .. k /\ q[k].at \in Nat /\ q[k].at < t
      BY <1>2, <1>4, <2>0 DEF k
    <3>2. q[i].at < q[k].at - WindowSize
      BY <1>5, <2>1
    <3> QED
      BY <1>3, <2>0, <3>1, <3>2
  <2>2. CASE i > k - m
    <3>1. i - (k - m) \in 1 .. m + 1 /\ i - (k - m) <= c /\ (k - m) + (i - (k - m)) = i
      BY <1>1, <1>2, <1>5, <1>10, <2>0, <2>2
    <3> QED
      BY <1>6, <1>9, <3>1
  <2> QED
    BY <1>1, <1>2, <2>0, <2>1, <2>2
<1>15. \A i \in n + 1 .. k : b[i].at >= t - WindowSize /\ b[i].at < t /\ b[i].at \in Nat
  <2> TAKE i \in n + 1 .. k
  <2>1. i \in 1 .. k /\ b[i] = q[i] /\ q[i].at \in Nat /\ q[i].at < t
    BY <1>2, <1>4, <1>12 DEF k
  <2>2. /\ i - (k - m) \in 1 .. m + 1 /\ ~(i - (k - m) <= c)
        /\ (k - m) + (i - (k - m)) = i
    BY <1>1, <1>2, <1>5, <1>10, <2>1
  <2>3. ~(a[i - (k - m)].at < t - WindowSize) /\ a[i - (k - m)].at = b[i].at
    BY <1>6, <1>9, <2>2
  <2> QED
    BY <1>3, <2>1, <2>3
<1> HIDE DEF n
<1>16. WindowOf(v, b)
  <2>1. b[k + 1].at = t
    BY <1>2
  <2>2. Len(b) - Len(v) = n /\ n >= 0
    BY <1>1, <1>2, <1>11, <1>12
  <2>3. \A i \in 1 .. Len(v) : v[i].at = b[n + i].at /\ v[i].count = b[n + i].count
    BY <1>11, <1>13
  <2>4. \A i \in 1 .. n : b[i].at < b[Len(b)].at - WindowSize
    BY <1>2, <1>14, <2>1
  <2>5. \A i, j \in 1 .. Len(b) : i < j => b[i].at < b[j].at
    BY <1>2, <1>7
  <2> QED
    BY <2>2, <2>3, <2>4, <2>5 DEF WindowOf
<1>17. IsBaseline(b, t, BaselineCounts(v))
  <2> DEFINE counts == BaselineCounts(v)
  <2>1. /\ Len(v) - 1 \in Nat /\ Len(v) - 1 = m - c /\ n + (m - c) = k
    BY <1>1, <1>2, <1>10, <1>11 DEF n
  <2>2. counts = [i \in 1 .. m - c |-> v[i].count]
    BY <2>1 DEF BaselineCounts
  <2>3. Len(counts) = m - c /\ \A i \in 1 .. m - c : counts[i] = v[i].count
    BY <2>1, <2>2
  <2> HIDE DEF counts
  <2>4. \A i \in 1 .. m - c : counts[i] = b[n + i].count
    BY <1>1, <1>10, <1>13, <2>3
  <2>5. ASSUME NEW i \in 1 .. k + 1
        PROVE  i \in n + 1 .. n + (m - c) <=> b[i].at \in t - WindowSize .. t - 1
    <3>1. CASE i \in 1 .. n
      <4>1. b[i].at < t - WindowSize /\ ~(i \in n + 1 .. n + (m - c))
        BY <1>12, <1>14, <2>1, <3>1
      <4> QED
        BY <1>3, <4>1
    <3>2. CASE i \in n + 1 .. k
      BY <1>3, <1>15, <2>1, <3>2
    <3>3. CASE i = k + 1
      BY <1>2, <1>3, <1>12, <2>1, <3>3
    <3> QED
      BY <1>2, <1>12, <3>1, <3>2, <3>3
  <2>6. n \in 0 .. Len(b) /\ n + Len(counts) <= Len(b)
    BY <1>2, <1>12, <2>1, <2>3
  <2>7. /\ \A i \in 1 .. Len(counts) : counts[i] = b[n + i].count
        /\ \A i \in 1 .. Len(b) :
             i \in n + 1 .. n + Len(counts) <=> b[i].at \in t - WindowSize .. t - 1
    BY <1>2, <2>3, <2>4, <2>5
  <2>8. IsBaseline(b, t, counts)
    BY <2>6, <2>7 DEF IsBaseline
  <2> QED
    BY <2>8 DEF counts
<1> QED
  BY <1>16, <1>17 DEF b

\* A later probe leaves the baseline of an earlier time alone.
LEMMA BaselineKept ==
  ASSUME NEW q \in Seq(ProbeRecords), NEW e \in ProbeRecords, NEW t \in Int, NEW counts \in Seq(Nat),
         t <= e.at, IsBaseline(q, t, counts)
  PROVE  IsBaseline(Append(q, e), t, counts)
<1> DEFINE b == Append(q, e)
           k == Len(q)
<1>1. /\ k \in Nat /\ b \in Seq(ProbeRecords) /\ Len(b) = k + 1
      /\ \A i \in 1 .. k : b[i] = q[i]
      /\ b[k + 1] = e
  BY AppendProperties, LenProperties
<1>2. PICK n \in 0 .. k :
        /\ n + Len(counts) <= k
        /\ \A i \in 1 .. Len(counts) : counts[i] = q[n + i].count
        /\ \A i \in 1 .. k :
             i \in n + 1 .. n + Len(counts) <=> q[i].at \in t - WindowSize .. t - 1
  BY DEF IsBaseline
<1>3. Len(counts) \in Nat /\ e.at \in Nat /\ WindowSize \in Nat
  BY LenProperties, TriggerConfigOK DEF ProbeRecords
<1> HIDE DEF b, k
<1>4. \A i \in 1 .. Len(counts) : counts[i] = b[n + i].count
  <2> TAKE i \in 1 .. Len(counts)
  <2>1. n + i \in 1 .. k
    BY <1>1, <1>2, <1>3
  <2> QED
    BY <1>1, <1>2, <2>1
<1>5. ASSUME NEW i \in 1 .. k + 1
      PROVE  i \in n + 1 .. n + Len(counts) <=> b[i].at \in t - WindowSize .. t - 1
  <2>1. CASE i \in 1 .. k
    BY <1>1, <1>2, <2>1
  <2>2. CASE i = k + 1
    BY <1>1, <1>2, <1>3, <2>2
  <2> QED
    BY <1>1, <2>1, <2>2
<1>6. n \in 0 .. Len(b) /\ n + Len(counts) <= Len(b)
  BY <1>1, <1>2, <1>3
<1>7. IsBaseline(b, t, counts)
  BY <1>1, <1>4, <1>5, <1>6 DEF IsBaseline
<1> QED
  BY <1>7 DEF b

-----------------------------------------------------------------------------
(* What a probe makes of the incident and of its threshold. *)

\* s is the host state with the probe in its window, r the one it leaves: the
\* incident and its threshold are left alone; the incident is closed; a
\* candidate opens and freezes its baseline unless an incident is open; or a
\* candidate's acknowledged snapshot opens an incident or finds it open.
ThresholdAfter(s, r, counts) ==
  /\ r.windowSamples = s.windowSamples
  /\ \/ /\ r.inSpike = s.inSpike /\ r.spikeThreshold = s.spikeThreshold
        /\ r.aboveThresholdSince \in {Nil, s.aboveThresholdSince}
        /\ hist' = hist
     \/ ~r.inSpike /\ r.aboveThresholdSince = Nil /\ ~hist'[cur].incident
     \/ /\ r.inSpike = s.inSpike /\ r.aboveThresholdSince = now
        /\ r.spikeThreshold = IF s.inSpike THEN s.spikeThreshold ELSE counts
        /\ hist' = hist
     \/ /\ r.inSpike /\ r.aboveThresholdSince = Nil /\ r.spikeThreshold = s.spikeThreshold
        /\ hist'[cur].incident
        /\ s.aboveThresholdSince # Nil /\ snap'.since = s.aboveThresholdSince

LEMMA RecoveryThreshold ==
  ASSUME TypeOK, NEW s \in HostStates, NEW count \in Nat, NEW counts \in Seq(Nat),
         s.aboveThresholdSince = Nil, HandleRecovery(s, count)
  PROVE  \E r \in HostStates : hosts' = [hosts EXCEPT ![cur] = r] /\ ThresholdAfter(s, r, counts)
<1>0. now \in OptTime /\ Nil \in OptTime /\ s.recoveryBelowSince \in OptTime
  BY HostFields DEF TypeOK, OptTime
<1>1. hist \in [Hosts -> Histories] /\ cur \in Hosts /\ hist[cur] \in Histories
  BY DEF TypeOK
<1>2. ASSUME NEW since \in OptTime,
             Settle([s EXCEPT !.recoveryBelowSince = since]), UNCHANGED hist
      PROVE  \E r \in HostStates : hosts' = [hosts EXCEPT ![cur] = r] /\ ThresholdAfter(s, r, counts)
  <2> DEFINE r == [s EXCEPT !.recoveryBelowSince = since]
  <2>1. /\ r \in HostStates /\ r.inSpike = s.inSpike /\ r.spikeThreshold = s.spikeThreshold
        /\ r.aboveThresholdSince = s.aboveThresholdSince /\ r.windowSamples = s.windowSamples
    BY <1>2 DEF HostStates
  <2>2. hosts' = [hosts EXCEPT ![cur] = r] /\ hist' = hist
    BY <1>2 DEF Settle, SetHost
  <2> HIDE DEF r
  <2> QED
    BY <2>1, <2>2 DEF ThresholdAfter
<1>3. CASE /\ Settle([s EXCEPT !.inSpike = FALSE, !.recoveryBelowSince = Nil])
           /\ SetHist([hist[cur] EXCEPT !.incident = FALSE])
  <2> DEFINE r == [s EXCEPT !.inSpike = FALSE, !.recoveryBelowSince = Nil]
  <2>1. /\ r \in HostStates /\ ~r.inSpike
        /\ r.aboveThresholdSince = Nil /\ r.windowSamples = s.windowSamples
    BY <1>0 DEF HostStates
  <2>2. hosts' = [hosts EXCEPT ![cur] = r]
    BY <1>3 DEF Settle, SetHost
  <2>3. ~hist'[cur].incident
    BY <1>1, <1>3 DEF SetHist, Histories
  <2> HIDE DEF r
  <2> QED
    BY <2>1, <2>2, <2>3 DEF ThresholdAfter
<1>4. CASE Drop(s) /\ s.inSpike
  <2>1. PICK outcome \in Outcomes :
          /\ SetHost([s EXCEPT !.recoveryBelowSince = Nil, !.inSpike = outcome # "ok"])
          /\ IF outcome = "ok"
             THEN SetHist([Acked(hist[cur]) EXCEPT !.incident = FALSE]) /\ pc' = "cancel"
             ELSE UNCHANGED hist /\ pc' = "role"
    BY <1>4 DEF Drop
  <2> DEFINE r == [s EXCEPT !.recoveryBelowSince = Nil, !.inSpike = outcome # "ok"]
  <2>2. /\ r \in HostStates /\ r.spikeThreshold = s.spikeThreshold
        /\ r.aboveThresholdSince = Nil /\ r.windowSamples = s.windowSamples
        /\ r.inSpike = (outcome # "ok")
    BY <1>0 DEF HostStates
  <2>3. hosts' = [hosts EXCEPT ![cur] = r]
    BY <2>1 DEF SetHost
  <2> HIDE DEF r
  <2>4. CASE outcome = "ok"
    <3>1. [Acked(hist[cur]) EXCEPT !.incident = FALSE].incident = FALSE
      BY <1>1 DEF Acked, Histories
    <3>2. ~hist'[cur].incident
      BY <1>1, <2>1, <2>4, <3>1 DEF SetHist
    <3> QED
      BY <2>2, <2>3, <2>4, <3>2 DEF ThresholdAfter
  <2>5. CASE outcome # "ok" /\ s.inSpike
    <3>1. r.inSpike = s.inSpike /\ hist' = hist
      BY <2>1, <2>2, <2>5 DEF HostStates
    <3> QED
      BY <2>2, <2>3, <3>1 DEF ThresholdAfter
  <2> QED
    BY <1>4, <2>4, <2>5
<1> QED
  BY <1>0, <1>2, <1>3, <1>4 DEF HandleRecovery

LEMMA FormingThreshold ==
  ASSUME TypeOK, NEW t \in HostStates, NEW counts \in Seq(Nat),
         t.aboveThresholdSince # Nil, Forming(t)
  PROVE  \E r \in HostStates : hosts' = [hosts EXCEPT ![cur] = r] /\ ThresholdAfter(t, r, counts)
<1>0. hist \in [Hosts -> Histories] /\ cur \in Hosts /\ hist[cur] \in Histories
  BY DEF TypeOK
<1>1. PICK blocked \in Blocked :
        LET f == KeepForming(t, blocked) IN
        IF Ripe(f, now) /\ ~Debounced(cur) THEN Fire(f) ELSE Settle(f) /\ UNCHANGED hist
  BY DEF Forming
<1> DEFINE f == KeepForming(t, blocked)
<1>2. /\ f \in HostStates /\ f.inSpike = t.inSpike /\ f.spikeThreshold = t.spikeThreshold
      /\ f.aboveThresholdSince = t.aboveThresholdSince /\ f.windowSamples = t.windowSamples
  <2>1. f \in HostStates
    BY KeepFormingType, DaemonConfigOK
  <2> QED
    BY <2>1 DEF KeepForming, HostStates
<1>3. Fire(f) \/ (Settle(f) /\ UNCHANGED hist)
  BY <1>1
<1> HIDE DEF f
<1>4. CASE Settle(f) /\ UNCHANGED hist
  <2>1. hosts' = [hosts EXCEPT ![cur] = f] /\ hist' = hist
    BY <1>4 DEF Settle, SetHost
  <2> QED
    BY <1>2, <2>1 DEF ThresholdAfter
<1>5. CASE Fire(f)
  <2> DEFINE q == ResetSpike(f)
             i == [q EXCEPT !.inSpike = TRUE, !.recoveryBelowSince = Nil]
  <2>1. /\ q \in HostStates /\ q.inSpike = t.inSpike /\ q.spikeThreshold = t.spikeThreshold
        /\ q.aboveThresholdSince = Nil /\ q.windowSamples = t.windowSamples
    <3>1. q \in HostStates
      BY <1>2, ResetFields
    <3> QED
      BY <1>2, <3>1 DEF ResetSpike, HostStates
  <2>2. PICK outcome \in Outcomes :
          /\ TakeSnapshot(cur, "activity_spike", outcome, Report(cur, "activity_spike", f))
          /\ SetHost(IF outcome = "ok" THEN i ELSE q)
          /\ SetHist(IF outcome = "ok" THEN SpikeAcked(hist[cur]) ELSE hist[cur])
    BY <1>5 DEF Fire
  <2> HIDE DEF q
  <2>3. /\ i \in HostStates /\ i.inSpike /\ i.spikeThreshold = t.spikeThreshold
        /\ i.aboveThresholdSince = Nil /\ i.windowSamples = t.windowSamples
    BY <2>1 DEF HostStates, OptTime
  <2> HIDE DEF i
  <2>4. CASE outcome = "ok"
    <3>1. hosts' = [hosts EXCEPT ![cur] = i] /\ hist' = [hist EXCEPT ![cur] = SpikeAcked(hist[cur])]
      BY <2>2, <2>4 DEF SetHost, SetHist
    <3>2. SpikeAcked(hist[cur]).incident
      BY <1>0 DEF SpikeAcked, Acked, Histories
    <3>3. hist'[cur].incident
      BY <1>0, <3>1, <3>2
    <3>4. snap'.since = t.aboveThresholdSince
      BY <1>2, <2>2, <2>4 DEF TakeSnapshot, Report
    <3> QED
      BY <2>3, <3>1, <3>3, <3>4 DEF ThresholdAfter
  <2>5. CASE outcome # "ok"
    <3>1. hosts' = [hosts EXCEPT ![cur] = q] /\ hist' = hist
      BY <1>0, <2>2, <2>5 DEF SetHost, SetHist
    <3> QED
      BY <2>1, <3>1 DEF ThresholdAfter
  <2> QED
    BY <2>4, <2>5
<1> QED
  BY <1>3, <1>4, <1>5

\* advanceSpike does not look at the window.
LEMMA AdvanceWindow ==
  ASSUME NEW s \in HostStates, NEW t \in Nat, NEW count \in Nat, NEW above \in BOOLEAN
  PROVE  AdvanceSpike(s, t, count, above).windowSamples = s.windowSamples
<1> DEFINE a == AgeOut(s, t)
<1>1. a \in HostStates /\ a.windowSamples = s.windowSamples
  <2>1. ResetSpike(s).windowSamples = s.windowSamples
    BY DEF ResetSpike, HostStates
  <2> QED
    BY <2>1, AgeOutType DEF AgeOut
<1>2. AdvanceSpike(s, t, count, above) = IF above THEN FoldAbove(a, t, count) ELSE FoldDip(a, t)
  BY DEF AdvanceSpike
<1> HIDE DEF a
<1>3. FoldAbove(a, t, count).windowSamples = a.windowSamples
  BY <1>1 DEF FoldAbove, HostStates
<1>4. FoldDip(a, t).windowSamples = a.windowSamples
  <2>1. /\ ResetSpike(a).windowSamples = a.windowSamples
        /\ [a EXCEPT !.spikeTotal = @ + 1].windowSamples = a.windowSamples
    BY <1>1 DEF ResetSpike, HostStates
  <2> QED
    BY <2>1 DEF FoldDip
<1> QED
  BY <1>1, <1>2, <1>3, <1>4

LEMMA ProbeThreshold ==
  ASSUME TypeOK, NEW count \in Counts, Probe(count), NEW s, NEW counts,
         s = Observe(hosts[cur], now, count), counts = BaselineCounts(s.windowSamples),
         hosts[cur].aboveThresholdSince = Nil => NoCandidate(hosts[cur])
  PROVE  \E r \in HostStates : hosts' = [hosts EXCEPT ![cur] = r] /\ ThresholdAfter(s, r, counts)
<1> DEFINE high == AtOrAbove(count, counts)
           Goal == \E r \in HostStates :
                     hosts' = [hosts EXCEPT ![cur] = r] /\ ThresholdAfter(s, r, counts)
<1>1. count \in Nat /\ now \in Nat /\ hosts[cur] \in HostStates
  BY DaemonConfigOK DEF TypeOK
<1>2. s \in HostStates /\ SameCandidate(hosts[cur], s)
  BY <1>1, ObserveFields
<1>3. counts \in Seq(Nat)
  BY <1>2, BaselineType DEF HostStates
<1>4. high \in BOOLEAN
  BY DEF AtOrAbove
<1>5. (Settle(s) /\ UNCHANGED hist) \/ Judge(s, count, counts)
  BY DEF Probe
<1>6. s.aboveThresholdSince = Nil => NoCandidate(s)
  BY <1>2 DEF NoCandidate, SameCandidate
<1>7. CASE Settle(s) /\ UNCHANGED hist
  <2>1. hosts' = [hosts EXCEPT ![cur] = s] /\ hist' = hist
    BY <1>7 DEF Settle, SetHost
  <2> QED
    BY <1>2, <2>1 DEF ThresholdAfter
\* A state that differs from s only in its candidate, which is gone.
<1>8. ASSUME NEW u \in HostStates, SameRecovery(s, u), u.aboveThresholdSince = Nil,
             u.windowSamples = s.windowSamples, HandleRecovery(u, count)
      PROVE  Goal
  <2>1. PICK r \in HostStates : hosts' = [hosts EXCEPT ![cur] = r] /\ ThresholdAfter(u, r, counts)
    BY <1>1, <1>3, <1>8, RecoveryThreshold
  <2>2. ThresholdAfter(s, r, counts)
    BY <1>8, <2>1 DEF ThresholdAfter, SameRecovery
  <2> QED
    BY <2>1, <2>2
<1>9. CASE Judge(s, count, counts)
  <2> DEFINE t == AdvanceSpike(s, now, count, high)
             step == SpikeStep(s, now, high)
  <2>1. /\ t \in HostStates /\ SameRecovery(s, t)
        /\ step = "aborted" => NoCandidate(t)
        /\ step = "started" => high /\ Opened(t, count)
        /\ step = "forming" => Grown(s, t, count, high)
    BY <1>1, <1>2, <1>4, <1>6, AdvanceFields
  <2>2. t.windowSamples = s.windowSamples
    BY <1>1, <1>2, <1>4, AdvanceWindow
  <2>3. \/ HandleRecovery(ResetSpike(s), count)
        \/ step = "aborted" /\ HandleRecovery(t, count)
        \/ step = "started" /\ Settle(OpenCandidate(t, counts)) /\ UNCHANGED hist
        \/ step = "forming" /\ Forming(t)
    BY <1>9 DEF Judge, high
  <2> HIDE DEF t, step, Goal
  <2>4. CASE HandleRecovery(ResetSpike(s), count)
    <3>1. /\ ResetSpike(s) \in HostStates /\ NoCandidate(ResetSpike(s))
          /\ SameRecovery(s, ResetSpike(s))
      BY <1>2, ResetFields
    <3>2. ResetSpike(s).windowSamples = s.windowSamples
      BY <1>2 DEF ResetSpike, HostStates
    <3>3. ResetSpike(s).aboveThresholdSince = Nil
      BY <3>1 DEF NoCandidate
    <3> QED
      BY <1>8, <2>4, <3>1, <3>2, <3>3 DEF Goal
  <2>5. CASE step = "aborted" /\ HandleRecovery(t, count)
    BY <1>8, <2>1, <2>2, <2>5 DEF NoCandidate, Goal
  <2>6. CASE step = "started" /\ Settle(OpenCandidate(t, counts)) /\ UNCHANGED hist
    <3> DEFINE r == OpenCandidate(t, counts)
    <3>1. r \in HostStates
      BY <1>3, <2>1, OpenCandidateType
    <3>2. /\ r.aboveThresholdSince = t.aboveThresholdSince /\ r.inSpike = t.inSpike
          /\ r.windowSamples = t.windowSamples
          /\ r.spikeThreshold = IF t.inSpike THEN t.spikeThreshold ELSE counts
      BY <2>1 DEF OpenCandidate, HostStates
    <3>3. hosts' = [hosts EXCEPT ![cur] = r] /\ hist' = hist
      BY <2>6 DEF Settle, SetHost
    <3> HIDE DEF r
    <3>4. r.aboveThresholdSince = now
      BY <2>1, <2>6, <3>2 DEF Opened
    <3>5. r.inSpike = s.inSpike /\ r.spikeThreshold = IF s.inSpike THEN s.spikeThreshold ELSE counts
      BY <2>1, <3>2 DEF SameRecovery
    <3>6. ThresholdAfter(s, r, counts)
      BY <2>2, <3>2, <3>3, <3>4, <3>5 DEF ThresholdAfter
    <3> QED
      BY <3>1, <3>3, <3>6 DEF Goal
  <2>7. CASE step = "forming" /\ Forming(t)
    <3>1. t.aboveThresholdSince = s.aboveThresholdSince /\ t.aboveThresholdSince # Nil
      BY <2>1, <2>7 DEF Grown
    <3>2. PICK r \in HostStates : hosts' = [hosts EXCEPT ![cur] = r] /\ ThresholdAfter(t, r, counts)
      BY <1>3, <2>1, <2>7, <3>1, FormingThreshold
    <3>3. ThresholdAfter(s, r, counts)
      BY <2>1, <2>2, <3>1, <3>2 DEF ThresholdAfter, SameRecovery
    <3> QED
      BY <3>2, <3>3 DEF Goal
  <2> QED
    BY <2>3, <2>4, <2>5, <2>6, <2>7 DEF Goal
<1> QED
  BY <1>5, <1>7, <1>9

-----------------------------------------------------------------------------
(* Every step keeps OnsetInv. *)

\* OnsetInv of one host, told by its state s, its probes q, the onset on and
\* whether the history has an incident inc.
OnsetHolds(s, q, on, inc) ==
  /\ WindowOf(s.windowSamples, q)
  /\ s.inSpike => IsBaseline(q, on, s.spikeThreshold)
  /\ ~s.inSpike /\ s.aboveThresholdSince # Nil => IsBaseline(q, s.aboveThresholdSince, s.spikeThreshold)
  /\ inc => s.inSpike

\* The times it speaks of are past.
OnsetPast(s, on) == on <= now /\ s.aboveThresholdSince <= now

LEMMA OnsetByHost ==
  OnsetInv <=> /\ onset \in [Hosts -> OptTime]
               /\ \A h \in Hosts : /\ OnsetHolds(hosts[h], probes[h], onset[h], hist[h].incident)
                                   /\ OnsetPast(hosts[h], onset[h])
BY DEF OnsetInv, OnsetHolds, OnsetPast

LEMMA NewHostOnset ==
  OnsetHolds(NewHostState, <<>>, Nil, FALSE)
<1>1. /\ NewHostState.windowSamples = <<>> /\ NewHostState.inSpike = FALSE
      /\ NewHostState.aboveThresholdSince = Nil
  BY DEF NewHostState
<1>2. WindowOf(<<>>, <<>>)
  BY DEF WindowOf
<1> QED
  BY <1>1, <1>2 DEF OnsetHolds

LEMMA OnsetInit == Init => OnsetInv
<1> SUFFICES ASSUME Init, NEW h \in Hosts
             PROVE  /\ OnsetHolds(hosts[h], probes[h], onset[h], hist[h].incident)
                    /\ OnsetPast(hosts[h], onset[h])
  <2>1. Init => onset \in [Hosts -> OptTime]
    BY DEF Init, OptTime, Nil
  <2> QED
    BY <2>1, OnsetByHost
<1>1. /\ hosts[h] = NewHostState /\ probes[h] = <<>> /\ onset[h] = Nil
      /\ hist[h].incident = FALSE /\ now = 0
  BY DEF Init, NoHistory
<1>2. NewHostState.aboveThresholdSince = Nil
  BY DEF NewHostState
<1>3. OnsetPast(hosts[h], onset[h])
  BY <1>1, <1>2 DEF OnsetPast, Nil
<1> QED
  BY <1>1, <1>3, NewHostOnset

LEMMA OnsetProbe ==
  ASSUME TypeOK, SpikeByHost, OnsetInv, NEW count \in Counts, Probe(count)
  PROVE  OnsetInv'
<1> DEFINE o == hosts[cur]
           q == probes[cur]
           s == Observe(o, now, count)
           v == s.windowSamples
           counts == BaselineCounts(v)
           on == onset[cur]
<1>1. /\ cur \in Hosts /\ o \in HostStates /\ now \in Nat /\ count \in Nat
      /\ q \in Seq(ProbeRecords) /\ HostHolds(cur) /\ hist \in [Hosts -> Histories]
      /\ probes \in [Hosts -> Seq(ProbeRecords)]
  BY DaemonConfigOK DEF TypeOK, SpikeByHost, ProbesInOrder
<1>2. /\ OnsetHolds(o, q, on, hist[cur].incident) /\ OnsetPast(o, on)
      /\ onset \in [Hosts -> OptTime] /\ on \in OptTime
  BY <1>1, OnsetByHost
<1>3. pc = "spike" /\ ProbeEffect /\ UNCHANGED <<now, cur>>
  BY ProbeHasEffect
<1>4. \A i \in 1 .. Len(q) : q[i].at < now
  <2>1. \A p \in Range(q) : p.at < now
    BY <1>1, <1>3 DEF SpikeByHost, ProbesInOrder
  <2>2. DOMAIN q = 1 .. Len(q)
    BY <1>1, LenProperties
  <2> QED
    BY <2>1, <2>2 DEF Range
<1>5. (o.aboveThresholdSince = Nil => NoCandidate(o)) /\ (o.inSpike => hist[cur].incident)
  BY <1>1 DEF HostHolds, CandidateHolds
<1>6. /\ s \in HostStates /\ SameCandidate(o, s) /\ SameRecovery(o, s)
      /\ v = TrimSamples(Append(o.windowSamples, [at |-> now, count |-> count]), now - WindowSize)
  <2>1. s \in HostStates /\ SameCandidate(o, s) /\ SameRecovery(o, s)
    BY <1>1, ObserveFields
  <2>2. v = TrimSamples(Append(o.windowSamples, [at |-> now, count |-> count]), now - WindowSize)
    <3> DEFINE x == TrimSamples(Append(o.windowSamples, [at |-> now, count |-> count]), now - WindowSize)
    <3>1. s = [o EXCEPT !.windowSamples = x]
      BY DEF Observe
    <3> HIDE DEF x, o
    <3> QED
      BY <1>1, <3>1 DEF HostStates, x, o
  <2> QED
    BY <2>1, <2>2
<1>7. PICK r \in HostStates : hosts' = [hosts EXCEPT ![cur] = r] /\ ThresholdAfter(s, r, counts)
  BY <1>5, ProbeThreshold
<1>8. PICK e \in ProbeRecords : /\ e.at = now /\ e.count = count
                                /\ probes' = [probes EXCEPT ![cur] = Append(@, e)]
  <2> DEFINE judged == Len(v) >= 2
             e == ProbeOf(count, judged, judged /\ AtOrAbove(count, counts))
  <2>1. probes' = [probes EXCEPT ![cur] = Append(@, e)]
    BY DEF Probe, ProbeOf
  <2>2. e \in ProbeRecords /\ e.at = now /\ e.count = count
    BY <1>1 DEF ProbeOf, ProbeRecords, AtOrAbove
  <2> HIDE DEF e
  <2> QED
    BY <2>1, <2>2
<1>9. onset' = IF hist'[cur].incident /\ ~hist[cur].incident
               THEN [onset EXCEPT ![cur] = snap'.since] ELSE onset
  BY DEF Probe
<1> HIDE DEF o, q, s, v, counts, on
<1> DEFINE b == Append(q, e)
<1>10. /\ counts \in Seq(Nat) /\ o.spikeThreshold \in Seq(Nat) /\ o.windowSamples \in Seq(Sample)
       /\ v \in Seq(Sample) /\ on \in OptTime /\ o.aboveThresholdSince \in OptTime
  <2>1. v \in Seq(Sample)
    BY <1>6 DEF HostStates, v
  <2>2. counts \in Seq(Nat)
    BY <2>1, BaselineType DEF counts
  <2> QED
    BY <1>1, <1>2, <2>1, <2>2, HostFields DEF HostStates, OnsetPast
<1>11. WindowOf(v, b) /\ IsBaseline(b, now, counts)
  BY <1>1, <1>2, <1>4, <1>6, <1>8, <1>10, ObserveWindow DEF OnsetHolds, counts
<1>12. on \in Int /\ o.aboveThresholdSince \in Int /\ on <= e.at /\ o.aboveThresholdSince <= e.at
  BY <1>2, <1>8, <1>10 DEF OnsetPast, OptTime, Nil
\* The baseline of an incident's onset, and of an open candidate's, stays.
<1>13. o.inSpike => IsBaseline(b, on, o.spikeThreshold)
  BY <1>1, <1>2, <1>10, <1>12, BaselineKept DEF OnsetHolds
<1>14. ~o.inSpike /\ o.aboveThresholdSince # Nil => IsBaseline(b, o.aboveThresholdSince, o.spikeThreshold)
  BY <1>1, <1>2, <1>10, <1>12, BaselineKept DEF OnsetHolds
<1>15. /\ s.inSpike = o.inSpike /\ s.spikeThreshold = o.spikeThreshold
       /\ s.aboveThresholdSince = o.aboveThresholdSince /\ s.windowSamples = v
  BY <1>6 DEF SameCandidate, SameRecovery, v
<1>16. (hist[cur].incident => o.inSpike) /\ hist[cur].incident \in BOOLEAN /\ r.inSpike \in BOOLEAN
  BY <1>1, <1>2, HostFields DEF OnsetHolds, Histories
<1>17. r.windowSamples = v
  BY <1>7, <1>15 DEF ThresholdAfter
<1> HIDE DEF b
<1>18. \E on2 \in OptTime :
         /\ onset' = [onset EXCEPT ![cur] = on2] \/ (onset' = onset /\ on2 = on)
         /\ OnsetHolds(r, b, on2, hist'[cur].incident)
         /\ on2 <= now /\ r.aboveThresholdSince <= now
  <2>0. on <= now /\ o.aboveThresholdSince <= now /\ Nil <= now /\ now <= now
    BY <1>1, <1>2 DEF OnsetPast, Nil
  <2>1. CASE /\ r.inSpike = s.inSpike /\ r.spikeThreshold = s.spikeThreshold
             /\ r.aboveThresholdSince \in {Nil, s.aboveThresholdSince}
             /\ hist' = hist
    <3>1. onset' = onset
      BY <1>9, <2>1
    <3>2. OnsetHolds(r, b, on, hist'[cur].incident)
      BY <1>11, <1>13, <1>14, <1>15, <1>16, <1>17, <2>1 DEF OnsetHolds
    <3> QED
      BY <1>10, <1>15, <2>0, <2>1, <3>1, <3>2
  <2>2. CASE ~r.inSpike /\ r.aboveThresholdSince = Nil /\ ~hist'[cur].incident
    <3>1. onset' = onset
      BY <1>9, <2>2
    <3>2. OnsetHolds(r, b, on, hist'[cur].incident)
      BY <1>11, <1>17, <2>2 DEF OnsetHolds
    <3> QED
      BY <1>10, <2>0, <2>2, <3>1, <3>2
  <2>3. CASE /\ r.inSpike = s.inSpike /\ r.aboveThresholdSince = now
             /\ r.spikeThreshold = IF s.inSpike THEN s.spikeThreshold ELSE counts
             /\ hist' = hist
    <3>1. onset' = onset
      BY <1>9, <2>3
    <3>2. OnsetHolds(r, b, on, hist'[cur].incident)
      BY <1>11, <1>13, <1>15, <1>16, <1>17, <2>3 DEF OnsetHolds
    <3> QED
      BY <1>10, <2>0, <2>3, <3>1, <3>2
  <2>4. CASE /\ r.inSpike /\ r.aboveThresholdSince = Nil /\ r.spikeThreshold = s.spikeThreshold
             /\ hist'[cur].incident
             /\ s.aboveThresholdSince # Nil /\ snap'.since = s.aboveThresholdSince
    <3>1. CASE hist[cur].incident
      <4>1. onset' = onset /\ o.inSpike
        BY <1>9, <1>16, <3>1
      <4>2. OnsetHolds(r, b, on, hist'[cur].incident)
        BY <1>11, <1>13, <1>15, <1>17, <2>4, <4>1 DEF OnsetHolds
      <4> QED
        BY <1>10, <2>0, <2>4, <4>1, <4>2
    <3>2. CASE ~hist[cur].incident
      <4>1. onset' = [onset EXCEPT ![cur] = o.aboveThresholdSince] /\ ~o.inSpike
        BY <1>5, <1>9, <1>15, <2>4, <3>2
      <4>2. OnsetHolds(r, b, o.aboveThresholdSince, hist'[cur].incident)
        BY <1>11, <1>14, <1>15, <1>17, <2>4, <4>1 DEF OnsetHolds
      <4> QED
        BY <1>10, <2>0, <2>4, <4>1, <4>2
    <3> QED
      BY <3>1, <3>2
  <2> QED
    BY <1>7, <2>1, <2>2, <2>3, <2>4 DEF ThresholdAfter
<1>19. PICK on2 \in OptTime :
         /\ onset' = [onset EXCEPT ![cur] = on2] \/ (onset' = onset /\ on2 = on)
         /\ OnsetHolds(r, b, on2, hist'[cur].incident)
         /\ on2 <= now /\ r.aboveThresholdSince <= now
  BY <1>18
<1>20. (onset \in [Hosts -> OptTime])' /\ onset'[cur] = on2
  BY <1>1, <1>2, <1>19 DEF on
<1>21. hosts'[cur] = r /\ probes'[cur] = b
  BY <1>1, <1>7, <1>8 DEF b, q, TypeOK
<1>22. hist' = [hist EXCEPT ![cur] = hist'[cur]] \/ hist' = hist
  BY <1>3 DEF ProbeEffect, ProbeQuiet, ProbeUnacked, ProbeDropped, ProbeFired, TypeOK
<1>23. ASSUME NEW h \in Hosts, h # cur
       PROVE  /\ hosts'[h] = hosts[h] /\ probes'[h] = probes[h] /\ hist'[h] = hist[h]
              /\ onset'[h] = onset[h]
  BY <1>1, <1>2, <1>7, <1>8, <1>19, <1>22, <1>23 DEF TypeOK
<1>24. ASSUME NEW h \in Hosts
       PROVE  /\ OnsetHolds(hosts'[h], probes'[h], onset'[h], hist'[h].incident)
              /\ OnsetPast(hosts'[h], onset'[h])
  <2>1. CASE h = cur
    BY <1>19, <1>20, <1>21, <2>1 DEF OnsetPast
  <2>2. CASE h # cur
    BY <1>23, <2>2, OnsetByHost
  <2> QED
    BY <2>1, <2>2
<1>25. (\A h \in Hosts : /\ OnsetHolds(hosts[h], probes[h], onset[h], hist[h].incident)
                         /\ OnsetPast(hosts[h], onset[h]))'
  BY <1>3, <1>24 DEF OnsetPast
<1> QED
  BY <1>20, <1>25, OnsetByHost, PTL

\* A step that keeps the probes, the onsets and of a host state all but the
\* role, and opens no incident.
SameOnset(o, s) ==
  /\ s.windowSamples = o.windowSamples /\ s.aboveThresholdSince = o.aboveThresholdSince
  /\ s.inSpike = o.inSpike /\ s.spikeThreshold = o.spikeThreshold

LEMMA OnsetElsewhere ==
  ASSUME TypeOK, OnsetInv, probes' = probes, onset' = onset, now' \in {now, now + 1},
         \A h \in Hosts : SameOnset(hosts[h], hosts'[h]),
         \A h \in Hosts : hist'[h].incident = hist[h].incident
  PROVE  OnsetInv'
<1>0. ASSUME NEW h \in Hosts
      PROVE  (OnsetHolds(hosts[h], probes[h], onset[h], hist[h].incident) /\ OnsetPast(hosts[h], onset[h]))'
  <2>1. OnsetHolds(hosts[h], probes[h], onset[h], hist[h].incident) /\ OnsetPast(hosts[h], onset[h])
    BY OnsetByHost
  <2>2. OnsetHolds(hosts'[h], probes[h], onset[h], hist[h].incident)
    BY <2>1 DEF OnsetHolds, SameOnset
  <2>3. /\ now \in Nat /\ onset[h] \in OptTime /\ hosts[h] \in HostStates
        /\ hosts[h].aboveThresholdSince \in OptTime
    BY HostFields DEF TypeOK, OnsetInv
  <2>4. OnsetPast(hosts[h], onset[h])'
    BY <2>1, <2>3 DEF OnsetPast, SameOnset, OptTime, Nil
  <2> QED
    BY <2>2, <2>4
<1>1. (\A h \in Hosts : /\ OnsetHolds(hosts[h], probes[h], onset[h], hist[h].incident)
                        /\ OnsetPast(hosts[h], onset[h]))'
  BY <1>0
<1>2. (onset \in [Hosts -> OptTime])'
  BY DEF OnsetInv
<1> QED
  BY <1>1, <1>2, OnsetByHost, PTL

LEMMA OnsetStep == TypeOK /\ SpikeByHost /\ OnsetInv /\ [Next]_vars => OnsetInv'
<1> SUFFICES ASSUME TypeOK, SpikeByHost, OnsetInv, [Next]_vars PROVE OnsetInv'
  OBVIOUS
<1>0. cur \in Hosts /\ hist \in [Hosts -> Histories] /\ hosts \in [Hosts -> HostStates]
  BY DEF TypeOK
<1>1. \A h \in Hosts : SameOnset(hosts[h], hosts[h])
  BY DEF SameOnset
<1>2. CASE \/ Poll \/ Horizon \/ SkipProbe \/ Abandon \/ Enqueue \/ SkipRole \/ Claim
           \/ SkipClaim \/ Outage \/ Restart \/ UNCHANGED vars
  <2>1. /\ hosts' = hosts /\ probes' = probes /\ onset' = onset /\ hist' = hist
        /\ now' \in {now, now + 1}
    BY <1>2 DEF Poll, Horizon, SkipProbe, Abandon, Enqueue, SkipRole, Claim, SkipClaim,
                Outage, Restart, memory, tables, history, vars
  <2> QED
    BY <1>1, <2>1, OnsetElsewhere
<1>3. CASE \E count \in Counts : Probe(count)
  BY <1>3, OnsetProbe
<1>4. CASE Cancel
  <2>1. hosts' = hosts /\ probes' = probes /\ onset' = onset /\ now' = now
    BY <1>4 DEF Cancel, memory
  <2>2. hist' = hist \/ hist' = [hist EXCEPT ![cur] = [hist[cur] EXCEPT !.resolved = TRUE]]
    BY <1>4 DEF Cancel, SetHist
  <2>3. [hist[cur] EXCEPT !.resolved = TRUE].incident = hist[cur].incident
    BY <1>0 DEF Histories
  <2>4. \A h \in Hosts : hist'[h].incident = hist[h].incident
    BY <1>0, <2>2, <2>3
  <2> QED
    BY <1>1, <2>1, <2>4, OnsetElsewhere
<1>5. CASE \E role \in Roles : SeeRole(role)
  <2>1. PICK role \in Roles : SeeRole(role)
    BY <1>5
  <2> DEFINE o == hosts[cur]
             r == [o EXCEPT !.lastInRecovery = role]
  <2>2. probes' = probes /\ onset' = onset /\ now' = now /\ hosts' = [hosts EXCEPT ![cur] = r]
    BY <2>1 DEF SeeRole, SetHost
  <2>3. \/ hist' = hist
        \/ \E outcome \in Outcomes : SetHist(IF outcome = "ok" THEN Acked(hist[cur]) ELSE hist[cur])
    BY <2>1 DEF SeeRole
  <2>4. Acked(hist[cur]).incident = hist[cur].incident
    BY <1>0 DEF Acked, Histories
  <2>5. hist' = hist \/ hist' = [hist EXCEPT ![cur] = Acked(hist[cur])]
    BY <1>0, <2>3 DEF SetHist
  <2>6. \A h \in Hosts : hist'[h].incident = hist[h].incident
    BY <1>0, <2>4, <2>5
  <2>7. SameOnset(o, r)
    <3>1. o \in HostStates
      BY <1>0
    <3> HIDE DEF o
    <3> QED
      BY <3>1 DEF HostStates, SameOnset
  <2> HIDE DEF r
  <2>8. \A h \in Hosts : SameOnset(hosts[h], hosts'[h])
    BY <1>0, <1>1, <2>2, <2>7
  <2> QED
    BY <2>2, <2>6, <2>8, OnsetElsewhere
<1>6. CASE \E h \in Hosts : TakeDeferred(h)
  <2>1. PICK h \in Hosts : TakeDeferred(h)
    BY <1>6
  <2>2. hosts' = hosts /\ probes' = probes /\ onset' = onset /\ now' = now
    BY <2>1 DEF TakeDeferred
  <2>3. PICK outcome \in Outcomes : hist' = [hist EXCEPT ![h] = AfterDeferred(hist[h], outcome)]
    BY <2>1 DEF TakeDeferred
  <2>4. AfterDeferred(hist[h], outcome).incident = hist[h].incident
    BY <1>0 DEF AfterDeferred, Histories
  <2>5. \A g \in Hosts : hist'[g].incident = hist[g].incident
    BY <1>0, <2>3, <2>4
  <2> QED
    BY <1>1, <2>2, <2>5, OnsetElsewhere
<1>7. CASE Crash
  <2>1. ASSUME NEW h \in Hosts
        PROVE  /\ hosts'[h] = NewHostState /\ probes'[h] = <<>> /\ onset'[h] = Nil
               /\ hist'[h].incident = FALSE /\ now' = now
    BY <1>0, <1>7 DEF Crash, Histories
  <2>2. NewHostState.aboveThresholdSince = Nil /\ now \in Nat
    BY DEF NewHostState, TypeOK
  <2>3. \A h \in Hosts : OnsetHolds(hosts'[h], probes'[h], onset'[h], hist'[h].incident)
    BY <2>1, NewHostOnset
  <2>4. ASSUME NEW h \in Hosts
        PROVE  OnsetPast(hosts[h], onset[h])'
    <3>1. now' \in Nat /\ hosts'[h].aboveThresholdSince = Nil /\ onset'[h] = Nil
      BY <2>1, <2>2
    <3> QED
      BY <3>1 DEF OnsetPast, Nil
  <2>5. (\A h \in Hosts : /\ OnsetHolds(hosts[h], probes[h], onset[h], hist[h].incident)
                          /\ OnsetPast(hosts[h], onset[h]))'
    BY <2>3, <2>4
  <2>6. (onset \in [Hosts -> OptTime])'
    BY <1>7 DEF Crash, OptTime, Nil
  <2> QED
    BY <2>5, <2>6, OnsetByHost, PTL
<1> QED
  BY <1>2, <1>3, <1>4, <1>5, <1>6, <1>7 DEF Next

\* The threshold a recovery is judged against is, in every behaviour, the
\* baseline of the probes before the onset of the incident that is open: never
\* an abandoned candidate's, and never moved while the incident lasts.
THEOREM ThresholdOfOnset == Spec => []ThresholdIsOnset
<1>1. OnsetInv => ThresholdIsOnset
  BY DEF OnsetInv, ThresholdIsOnset
<1>2. Init => SpikeByHost
  BY SpikeInit
<1> QED
  BY <1>1, <1>2, OnsetInit, OnsetStep, SpikeStepHolds, TypeCorrect, PTL DEF Spec
=============================================================================
