----------------------------- MODULE HostState -----------------------------
(***************************************************************************)
(* The per-host state machine of the activity-spike trigger                *)
(* (backend/internal/autosnapshot/daemon.go, triggers.go), as pure         *)
(* operators on the hostState record.                                      *)
(*                                                                         *)
(* Time is counted in poll intervals.  A nil time pointer is Nil.  The     *)
(* float64 baseline of the code is the exact average of a sequence of      *)
(* counts, so a threshold is kept as that sequence: the record field       *)
(* spikeThreshold holds the counts whose average, raised by                *)
(* ActiveThresholdPct, is the frozen threshold.                            *)
(***************************************************************************)
EXTENDS Integers, Sequences, FiniteSets, Functions

CONSTANTS
  WindowSize,          \* baseline window of the moving average
  SpikeDuration,       \* how long a candidate must last before it may fire
  ActiveThresholdPct,  \* percentage over the baseline that opens a candidate
  MinBaselineActive    \* floor under which the spike rule is skipped

\* The field bounds of the validate tags and the cross-field rule of
\* validateSpikeCross.
ASSUME TriggerConfigOK ==
  /\ WindowSize \in Nat \ {0}
  /\ SpikeDuration \in Nat \ {0}
  /\ 2 * SpikeDuration <= WindowSize
  /\ ActiveThresholdPct \in Nat \ {0}
  /\ MinBaselineActive \in Nat

Nil == -1

StaleCandidateFactor == 4
DipGraceDivisor == 2
\* minSpikeCoverage = 0.7 as a percentage
MinSpikeCoveragePct == 70

OptTime == Nat \cup {Nil}

Sample == [at : Nat, count : Nat]

Role == {"unknown", "master", "replica"}

HostStates ==
  [windowSamples       : Seq(Sample),
   lastInRecovery      : Role,
   aboveThresholdSince : OptTime,
   lastAboveAt         : OptTime,
   spikeAbove          : Nat,
   spikeTotal          : Nat,
   spikePeak           : Nat,
   lockPeak            : Nat,        \* 0 is the nil *BackgroundPeak
   inSpike             : BOOLEAN,
   recoveryBelowSince  : OptTime,
   spikeThreshold      : Seq(Nat)]

\* &hostState{}: every pointer nil, every counter zero.
NewHostState ==
  [windowSamples |-> <<>>, lastInRecovery |-> "unknown",
   aboveThresholdSince |-> Nil, lastAboveAt |-> Nil,
   spikeAbove |-> 0, spikeTotal |-> 0, spikePeak |-> 0, lockPeak |-> 0,
   inSpike |-> FALSE, recoveryBelowSince |-> Nil, spikeThreshold |-> <<>>]

-----------------------------------------------------------------------------
(* The baseline window. *)

\* Samples are appended in time order, so the ones before the cutoff are a
\* prefix, and it is dropped.
TrimSamples(samples, cutoff) ==
  LET stale == {i \in 1 .. Len(samples) : samples[i].at < cutoff}
  IN  SubSeq(samples, Cardinality(stale) + 1, Len(samples))

Observe(s, now, count) ==
  [s EXCEPT !.windowSamples =
     TrimSamples(Append(@, [at |-> now, count |-> count]), now - WindowSize)]

\* The counts averageExcludingLast averages.
BaselineCounts(samples) == [i \in 1 .. Len(samples) - 1 |-> samples[i].count]

SumOf(counts) == FoldFunction(+, 0, counts)

\* count >= average(counts) * (100 + pct) / 100, cross-multiplied.
AtOrAbove(count, counts) ==
  count * 100 * Len(counts) >= SumOf(counts) * (100 + ActiveThresholdPct)

BelowFloor(counts) == SumOf(counts) < MinBaselineActive * Len(counts)

-----------------------------------------------------------------------------
(* The forming spike. *)

\* Mutated form: the peak survives the candidate.
ResetSpikeKeepsPeak(s) ==
  [s EXCEPT !.aboveThresholdSince = Nil, !.lastAboveAt = Nil,
            !.spikeAbove = 0, !.spikeTotal = 0, !.lockPeak = 0]

ResetSpike(s) ==
  [s EXCEPT !.aboveThresholdSince = Nil, !.lastAboveAt = Nil,
            !.spikeAbove = 0, !.spikeTotal = 0, !.spikePeak = 0,
            !.lockPeak = 0]

\* Mutated form: an old candidate is kept.
AgeOutNever(s, now) == s

\* A candidate that has not fired within StaleCandidateFactor spike durations
\* is dropped before the probe is folded in.
AgeOut(s, now) ==
  IF /\ s.aboveThresholdSince # Nil
     /\ now - s.aboveThresholdSince > StaleCandidateFactor * SpikeDuration
  THEN ResetSpike(s)
  ELSE s

\* Mutated form: the grace window is a whole spike duration.
DipOutlastedFullDuration(s, now) ==
  \/ s.aboveThresholdSince = Nil
  \/ s.lastAboveAt = Nil
  \/ now - s.lastAboveAt > SpikeDuration

\* A probe under the threshold ends the candidate, if there is one, only when
\* the dip has outlasted the grace window.
DipOutlasted(s, now) ==
  \/ s.aboveThresholdSince = Nil
  \/ s.lastAboveAt = Nil
  \/ now - s.lastAboveAt > SpikeDuration \div DipGraceDivisor

FoldDip(s, now) ==
  IF DipOutlasted(s, now)
  THEN ResetSpike(s)
  ELSE [s EXCEPT !.spikeTotal = @ + 1]

FoldAbove(s, now, count) ==
  [s EXCEPT !.lastAboveAt = now,
            !.spikeAbove = @ + 1,
            !.spikeTotal = @ + 1,
            !.spikePeak = IF count > @ THEN count ELSE @,
            !.aboveThresholdSince = IF @ = Nil THEN now ELSE @]

\* The state advanceSpike leaves, and the spikeStep it returns.
AdvanceSpike(s, now, count, above) ==
  IF above THEN FoldAbove(AgeOut(s, now), now, count)
           ELSE FoldDip(AgeOut(s, now), now)

SpikeStep(s, now, above) ==
  LET t == AgeOut(s, now) IN
  CASE ~above /\ DipOutlasted(t, now)              -> "aborted"
    [] above /\ t.aboveThresholdSince = Nil        -> "started"
    [] OTHER                                       -> "forming"

\* The share of probes above the threshold reaches minSpikeCoverage.
Covered(s) ==
  s.spikeTotal # 0 /\ s.spikeAbove * 100 >= MinSpikeCoveragePct * s.spikeTotal

\* The candidate has lasted spike_duration and the spike dominates it.
Ripe(s, now) ==
  now - s.aboveThresholdSince >= SpikeDuration /\ Covered(s)

\* Mutated form: every crossing moves the threshold.
OpenCandidateRefreezes(s, counts) ==
  [s EXCEPT !.recoveryBelowSince = Nil, !.spikeThreshold = counts]

\* Mutated form: a crossing does not restart the recovery.
OpenCandidateKeepsRecovery(s, counts) ==
  [s EXCEPT !.spikeThreshold = IF s.inSpike THEN @ ELSE counts]

\* case spikeStarted: the recovery reference is frozen once per incident.
OpenCandidate(s, counts) ==
  [s EXCEPT !.recoveryBelowSince = Nil,
            !.spikeThreshold = IF s.inSpike THEN @ ELSE counts]

\* case spikeForming, with the blocked-session probe folded into the peak.
KeepForming(s, blocked) ==
  [s EXCEPT !.recoveryBelowSince = Nil,
            !.lockPeak = IF blocked > @ THEN blocked ELSE @]

-----------------------------------------------------------------------------
(* directionOf / directionAllowed of the role-change trigger. *)

DirectionOf(from, to) ==
  IF from = "master" /\ to = "replica" THEN "master_to_replica"
                                       ELSE "replica_to_master"

DirectionAllowed(allowed, actual) == allowed = "both" \/ allowed = actual
=============================================================================
