--------------------------- MODULE DeferredQueue ---------------------------
(***************************************************************************)
(* What the deferred follow-ups of the auto-snapshot daemon promise: a     *)
(* spike snapshot may schedule one snapshot of its host for a fixed time   *)
(* later, a new spike replaces it, a drop cancels it, and what falls due   *)
(* is handed over at most once and never early.  A follow-up may be lost:  *)
(* nothing here is retried.                                                *)
(***************************************************************************)
EXTENDS Integers, FiniteSets

CONSTANTS
  Hosts,
  Delay,     \* how long after its spike a follow-up is due
  Nobody     \* the due time of a host without follow-up

VARIABLES
  clock,
  due,       \* when the follow-up of a host is due, or Nobody
  armed,     \* hosts whose spike has just been stored
  held,      \* follow-ups handed to the daemon and not yet attempted
  spikes,    \* spike snapshots of a host
  taken      \* follow-ups of a host stored

vars == <<clock, due, armed, held, spikes, taken>>

Init ==
  /\ clock = 0
  /\ due = [h \in Hosts |-> Nobody]
  /\ armed = {}
  /\ held = {}
  /\ spikes = [h \in Hosts |-> 0]
  /\ taken = [h \in Hosts |-> 0]

Tick ==
  /\ clock' = clock + 1
  /\ UNCHANGED <<due, armed, held, spikes, taken>>

\* A spike snapshot is stored; it may ask for a follow-up.
Spike(h) ==
  /\ spikes' = [spikes EXCEPT ![h] = @ + 1]
  /\ armed' \in {armed, armed \union {h}}
  /\ UNCHANGED <<clock, due, held, taken>>

\* The follow-up is written, over an older one of the host, or lost.
Schedule(h) ==
  /\ h \in armed
  /\ armed' = armed \ {h}
  /\ due' \in {due, [due EXCEPT ![h] = clock + Delay]}
  /\ UNCHANGED <<clock, held, spikes, taken>>

Withdraw(h) ==
  /\ due' = [due EXCEPT ![h] = Nobody]
  /\ UNCHANGED <<clock, armed, held, spikes, taken>>

Ripe == {h \in Hosts : due[h] # Nobody /\ due[h] <= clock}

\* Everything due leaves the queue at once; the answer may be lost.
HandOver ==
  /\ held = {}
  /\ due' = [h \in Hosts |-> IF h \in Ripe THEN Nobody ELSE due[h]]
  /\ held' \in {Ripe, {}}
  /\ UNCHANGED <<clock, armed, spikes, taken>>

\* One attempt, stored or not.
Attempt(h) ==
  /\ h \in held
  /\ held' = held \ {h}
  /\ taken' \in {taken, [taken EXCEPT ![h] = @ + 1]}
  /\ UNCHANGED <<clock, due, armed, spikes>>

\* The daemon dies: only the queue is left.
Forget ==
  /\ armed' = {}
  /\ held' = {}
  /\ UNCHANGED <<clock, due, spikes, taken>>

Next ==
  \/ Tick
  \/ \E h \in Hosts :
       Spike(h) \/ Schedule(h) \/ Withdraw(h) \/ Attempt(h)
  \/ HandOver
  \/ Forget

Spec == Init /\ [][Next]_vars
=============================================================================
