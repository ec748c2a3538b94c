-------------------------- MODULE BaselinesProofs --------------------------
(***************************************************************************)
(* Proofs about Baselines, for every set of requests and keys and any      *)
(* number of cancelled contexts.                                           *)
(***************************************************************************)
EXTENDS Baselines, TLAPS

\* What the ownership of the flights depends on: a step that keeps it keeps
\* FlightsOwned.
LEMMA SameOwners ==
  ASSUME FlightsOwned, flight' = flight, call' \in [Callers -> Call],
         \A c \in Callers :
           /\ call'[c].mine = call[c].mine
           /\ call'[c].waitFor \subseteq call[c].waitFor
           /\ call[c].pc = "refresh" => call'[c].pc = "refresh"
  PROVE  FlightsOwned'
BY DEF FlightsOwned

\* Only the owner of flights is refreshing.
LEMMA OwnerRefreshes ==
  ASSUME FlightsOwned, NEW c \in Callers, call[c].pc # "refresh"
  PROVE  call[c].mine = {}
<1> SUFFICES ASSUME NEW k \in call[c].mine PROVE FALSE
  OBVIOUS
<1>1. PICK d \in Callers : call[d].pc = "refresh" /\ k \in call[d].mine
  BY DEF FlightsOwned
<1> QED
  BY <1>1 DEF FlightsOwned

LEMMA InitInv == Init => BaselinesInv
BY DEF Init, BaselinesInv, TypeOK, FlightsOwned, RefreshedOncePerTTL, AtRest, Call

\* A round opens flights only for keys that have none and are not fresh.
LEMMA PartitionInv ==
  ASSUME BaselinesInv, NEW c \in Callers, Partition(c)
  PROVE  BaselinesInv'
<1> DEFINE ks == call[c].keys
           r == [call[c] EXCEPT !.pc = "refresh", !.out = Fresh(ks), !.mine = Taken(ks),
                                !.waitFor = (ks \cap flight) \ Fresh(ks)]
<1>1. /\ call \in [Callers -> Call] /\ call[c] \in Call
      /\ cache \in [Keys -> {"none", "fresh", "expired"}] /\ flight \in SUBSET Keys
  BY DEF BaselinesInv, TypeOK
<1>2. ks \subseteq Keys /\ Fresh(ks) \subseteq Keys /\ Taken(ks) \subseteq Keys
  BY <1>1 DEF Call, Fresh, Taken
<1>3. /\ r \in Call /\ r.pc = "refresh" /\ r.mine = Taken(ks)
      /\ r.waitFor \subseteq flight
  BY <1>1, <1>2 DEF Call
<1>4. /\ call' = [call EXCEPT ![c] = r] /\ flight' = flight \cup Taken(ks)
      /\ cache' = cache /\ call[c].pc = "partition"
  BY <1>1 DEF Partition, Call
<1> HIDE DEF r
<1>5. call'[c] = r /\ \A d \in Callers \ {c} : call'[d] = call[d]
  BY <1>1, <1>4
<1>6. TypeOK'
  BY <1>1, <1>2, <1>3, <1>4 DEF BaselinesInv, TypeOK
<1>7. call[c].mine = {} /\ Taken(ks) \cap flight = {}
  BY <1>4, OwnerRefreshes DEF BaselinesInv, Taken
<1>8. FlightsOwned'
  <2>1. ASSUME NEW k \in flight'
        PROVE  \E d \in Callers : call'[d].pc = "refresh" /\ k \in call'[d].mine
    <3>1. CASE k \in Taken(ks)
      BY <3>1, <1>3, <1>5
    <3>2. CASE k \in flight
      <4>1. PICK d \in Callers : call[d].pc = "refresh" /\ k \in call[d].mine
        BY <3>2 DEF BaselinesInv, FlightsOwned
      <4>2. d # c
        BY <4>1, <1>4
      <4> QED
        BY <4>1, <4>2, <1>5
    <3> QED
      BY <3>1, <3>2, <1>4
  <2>2. ASSUME NEW d \in Callers
        PROVE  call'[d].mine \cup call'[d].waitFor \subseteq flight'
    BY <1>3, <1>4, <1>5 DEF BaselinesInv, FlightsOwned
  <2>3. ASSUME NEW d \in Callers, NEW e \in Callers, d # e
        PROVE  call'[d].mine \cap call'[e].mine = {}
    BY <1>3, <1>5, <1>7, <2>3 DEF BaselinesInv, FlightsOwned
  <2> QED
    BY <2>1, <2>2, <2>3 DEF FlightsOwned
<1>9. RefreshedOncePerTTL'
  BY <1>4 DEF BaselinesInv, RefreshedOncePerTTL, Taken
<1> QED
  BY <1>6, <1>8, <1>9 DEF BaselinesInv

\* A refresh closes exactly the flights its call opened.
LEMMA RefreshInv ==
  ASSUME BaselinesInv, NEW c \in Callers, Refresh(c)
  PROVE  BaselinesInv'
<1> DEFINE ks == call[c].mine
           stored == IF call[c].cancelled THEN {} ELSE ks
<1>1. /\ call \in [Callers -> Call] /\ call[c] \in Call
      /\ cache \in [Keys -> {"none", "fresh", "expired"}] /\ flight \in SUBSET Keys
      /\ ks \subseteq flight /\ stored \subseteq ks
  BY DEF BaselinesInv, TypeOK, FlightsOwned
<1>2. /\ cache' = [k \in Keys |-> IF k \in stored THEN "fresh" ELSE cache[k]]
      /\ flight' = flight \ ks
  BY DEF Refresh
<1>3. ASSUME NEW d \in Callers
      PROVE  /\ call'[d] \in Call
             /\ call'[d].waitFor = call[d].waitFor \ ks
             /\ d # c => call'[d].pc = call[d].pc /\ call'[d].mine = call[d].mine
             /\ d = c => call'[d].mine = {}
  <2> DEFINE w == call[d].waitFor \ ks
             n == call[d].renewed \cup (stored \cap call[d].keys)
             q == IF d = c THEN "wait" ELSE call[d].pc
             m == IF d = c THEN {} ELSE call[d].mine
  <2>1. call[d] \in Call
    BY <1>1
  <2>2. call'[d] = [call[d] EXCEPT !.waitFor = w, !.renewed = n, !.pc = q, !.mine = m]
    BY Zenon DEF Refresh
  <2>3. w \in SUBSET Keys /\ n \in SUBSET Keys /\ m \in SUBSET Keys
    BY <2>1 DEF Call
  <2>4. q \in {"idle", "partition", "refresh", "wait", "collect"}
    BY <2>1 DEF Call
  <2> HIDE DEF w, n, q, m
  <2>5. call'[d] \in Call /\ call'[d].waitFor = w /\ call'[d].pc = q /\ call'[d].mine = m
    BY <2>1, <2>2, <2>3, <2>4 DEF Call
  <2> QED
    BY <2>5 DEF w, q, m
<1>4. call' \in [Callers -> Call]
  <2>1. call' = [d \in Callers |-> call'[d]]
    BY DEF Refresh
  <2> QED
    BY <2>1, <1>3
<1>5. TypeOK'
  BY <1>1, <1>2, <1>4 DEF BaselinesInv, TypeOK
<1>6. FlightsOwned'
  <2>1. ASSUME NEW k \in flight'
        PROVE  \E d \in Callers : call'[d].pc = "refresh" /\ k \in call'[d].mine
    <3>1. PICK d \in Callers : call[d].pc = "refresh" /\ k \in call[d].mine
      BY <1>2 DEF BaselinesInv, FlightsOwned
    <3>2. d # c
      BY <3>1, <1>2
    <3> QED
      BY <3>1, <3>2, <1>3
  <2>2. ASSUME NEW d \in Callers
        PROVE  call'[d].mine \cup call'[d].waitFor \subseteq flight'
    BY <1>2, <1>3 DEF BaselinesInv, FlightsOwned
  <2>3. ASSUME NEW d \in Callers, NEW e \in Callers, d # e
        PROVE  call'[d].mine \cap call'[e].mine = {}
    BY <1>3, <2>3 DEF BaselinesInv, FlightsOwned
  <2> QED
    BY <2>1, <2>2, <2>3 DEF FlightsOwned
<1>7. RefreshedOncePerTTL'
  BY <1>1, <1>2 DEF BaselinesInv, RefreshedOncePerTTL
<1> QED
  BY <1>5, <1>6, <1>7 DEF BaselinesInv

\* Begin, Cancel, Wait and Collect leave the flights with their owners.
LEMMA OwnStepInv ==
  ASSUME BaselinesInv, NEW c \in Callers, Begin(c) \/ Cancel(c) \/ Wait(c) \/ Collect(c)
  PROVE  BaselinesInv'
<1>1. call \in [Callers -> Call] /\ call[c] \in Call
  BY DEF BaselinesInv, TypeOK
<1>2. cache' = cache /\ flight' = flight
  BY DEF Begin, Cancel, Wait, Collect
<1>3. call[c].pc # "refresh" => call[c].mine = {}
  BY OwnerRefreshes DEF BaselinesInv
<1>4. PICK r \in Call : /\ call' = [call EXCEPT ![c] = r]
                        /\ r.mine = call[c].mine
                        /\ r.waitFor \subseteq call[c].waitFor
                        /\ call[c].pc = "refresh" => r.pc = "refresh"
  <2>1. CASE Begin(c)
    <3>1. PICK ks \in SUBSET Keys :
            call' = [call EXCEPT ![c] = [AtRest EXCEPT !.pc = "partition", !.keys = ks]]
      BY <2>1 DEF Begin
    <3>2. /\ [AtRest EXCEPT !.pc = "partition", !.keys = ks] \in Call
          /\ [AtRest EXCEPT !.pc = "partition", !.keys = ks].mine = {}
          /\ [AtRest EXCEPT !.pc = "partition", !.keys = ks].waitFor = {}
      BY DEF AtRest, Call
    <3> QED
      BY <1>3, <2>1, <3>1, <3>2 DEF Begin
  <2>2. CASE Cancel(c)
    <3>1. call' = [call EXCEPT ![c] = [call[c] EXCEPT !.cancelled = TRUE]]
      BY <2>2 DEF Cancel
    <3>2. /\ [call[c] EXCEPT !.cancelled = TRUE] \in Call
          /\ [call[c] EXCEPT !.cancelled = TRUE].mine = call[c].mine
          /\ [call[c] EXCEPT !.cancelled = TRUE].waitFor = call[c].waitFor
          /\ [call[c] EXCEPT !.cancelled = TRUE].pc = call[c].pc
      BY <1>1 DEF Call
    <3> QED
      BY <3>1, <3>2
  <2>3. CASE Wait(c)
    <3>1. /\ call' = [call EXCEPT ![c] = [call[c] EXCEPT !.pc = "collect", !.waitFor = {}]]
          /\ call[c].pc = "wait"
      BY <2>3 DEF Wait
    <3> QED
      BY <1>1, <3>1 DEF Call
  <2>4. CASE Collect(c)
    <3> DEFINE again == [AtRest EXCEPT !.pc = "partition", !.keys = Left(c)]
    <3>1. /\ call' = [call EXCEPT ![c] = again] \/ call' = [call EXCEPT ![c] = AtRest]
          /\ call[c].pc = "collect"
      BY <2>4 DEF Collect
    <3>2. Left(c) \subseteq Keys
      BY <1>1 DEF Left, Call
    <3>3. /\ again \in Call /\ again.mine = {} /\ again.waitFor = {}
          /\ AtRest \in Call /\ AtRest.mine = {} /\ AtRest.waitFor = {}
      BY <3>2 DEF AtRest, Call
    <3> QED
      BY <1>3, <3>1, <3>3
  <2> QED
    BY <2>1, <2>2, <2>3, <2>4
<1>5. TypeOK'
  BY <1>1, <1>2, <1>4 DEF BaselinesInv, TypeOK
<1>6. FlightsOwned'
  BY <1>1, <1>2, <1>4, <1>5, SameOwners DEF BaselinesInv, TypeOK
<1>7. RefreshedOncePerTTL'
  BY <1>2 DEF BaselinesInv, RefreshedOncePerTTL
<1> QED
  BY <1>5, <1>6, <1>7 DEF BaselinesInv

\* Every step of the service preserves the invariant.
LEMMA NextInv == BaselinesInv /\ [Next]_vars => BaselinesInv'
<1> SUFFICES ASSUME BaselinesInv, [Next]_vars PROVE BaselinesInv'
  OBVIOUS
<1>1. ASSUME NEW k \in Keys, Expire(k) PROVE BaselinesInv'
  BY <1>1 DEF Expire, BaselinesInv, TypeOK, FlightsOwned, RefreshedOncePerTTL
<1>2. CASE UNCHANGED vars
  BY <1>2 DEF vars, BaselinesInv, TypeOK, FlightsOwned, RefreshedOncePerTTL
<1> QED
  BY <1>1, <1>2, PartitionInv, RefreshInv, OwnStepInv DEF Next, CallerStep

\* The types, the ownership of the flights and the freshness rule hold however
\* the rounds of baselineRound interleave.
THEOREM BaselinesInvariant == Spec => []BaselinesInv
BY InitInv, NextInv, PTL DEF Spec

\* Every open flight has one owner that will close it, and is closed once.
THEOREM OneOwnerPerFlight == Spec => []FlightsOwned
<1>1. BaselinesInv => FlightsOwned
  BY DEF BaselinesInv
<1> QED
  BY <1>1, BaselinesInvariant, PTL

\* No key is fetched while its entry is fresh.
THEOREM FetchedOncePerTTL == Spec => []RefreshedOncePerTTL
<1>1. BaselinesInv => RefreshedOncePerTTL
  BY DEF BaselinesInv
<1> QED
  BY <1>1, BaselinesInvariant, PTL
=============================================================================
