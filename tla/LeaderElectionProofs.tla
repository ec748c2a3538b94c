------------------------ MODULE LeaderElectionProofs ------------------------
(***************************************************************************)
(* Mutual exclusion of the daemons, for every set of daemons, as long as   *)
(* no lock session is lost under a working daemon; and what the leader row *)
(* says of the one that works.                                             *)
(***************************************************************************)
EXTENDS LeaderElection, TLAPS

\* Before any daemon has started nobody works.
LEMMA LeaderInvInit == Init => LeaderInv
BY LeaderConfigOK DEF Init, LeaderInv, TypeOK, WorkingHolds, Working, States

\* Every operation of a daemon and of the server keeps the types.
LEMMA LeaderTypeStep == TypeOK /\ [Next]_vars => TypeOK'
<1> SUFFICES ASSUME TypeOK, [Next]_vars PROVE TypeOK'
  OBVIOUS
<1> USE DEF TypeOK, States
<1>1. ASSUME NEW d \in Daemons, Start(d) \/ Acquire(d) \/ LoseAnswer(d) \/ Shutdown(d) \/ Crash(d)
      PROVE  TypeOK'
  BY <1>1 DEF Start, Acquire, LoseAnswer, Shutdown, Crash, Working, beats
<1>2. ASSUME NEW d \in Daemons, SendHeartbeat(d) \/ LandHeartbeat(d) \/ LoseHeartbeat(d)
      PROVE  TypeOK'
  BY <1>2 DEF SendHeartbeat, LandHeartbeat, LoseHeartbeat
<1>3. CASE Tick
  BY <1>3 DEF Tick, Working
<1>4. CASE Reap \/ LoseSession
  BY <1>4 DEF Reap, LoseSession, beats
<1>5. CASE Idle \/ UNCHANGED vars
  BY <1>5 DEF Idle, vars
<1> QED
  BY <1>1, <1>2, <1>3, <1>4, <1>5 DEF Next

\* Every operation keeps the working daemon the holder of the lock.
LEMMA WorkingHoldsStep == LeaderInv /\ [Next]_vars => WorkingHolds'
<1> SUFFICES ASSUME LeaderInv, [Next]_vars PROVE WorkingHolds'
  OBVIOUS
<1> USE DEF LeaderInv, TypeOK, WorkingHolds, Working
<1>1. ASSUME NEW d \in Daemons, Start(d) \/ LoseAnswer(d) \/ Shutdown(d) \/ Crash(d)
      PROVE  WorkingHolds'
  BY <1>1, LeaderConfigOK DEF Start, LoseAnswer, Shutdown, Crash
<1>2. ASSUME NEW d \in Daemons, Acquire(d)
      PROVE  WorkingHolds'
  \* With no session lost, nobody worked while the lock was free.
  BY <1>2, LeaderConfigOK DEF Acquire
<1>3. ASSUME NEW d \in Daemons, SendHeartbeat(d) \/ LandHeartbeat(d) \/ LoseHeartbeat(d)
      PROVE  WorkingHolds'
  BY <1>3 DEF SendHeartbeat, LandHeartbeat, LoseHeartbeat
<1>4. CASE Tick \/ Idle \/ UNCHANGED vars
  BY <1>4 DEF Tick, Idle, vars
<1>5. CASE Reap
  BY <1>5 DEF Reap
<1>6. CASE LoseSession
  BY <1>6 DEF LoseSession
<1> QED
  BY <1>1, <1>2, <1>3, <1>4, <1>5, <1>6 DEF Next

\* Types and mutual exclusion of the lock, in every reachable state.
THEOREM LeaderInvariant == Spec => []LeaderInv
<1>1. LeaderInv /\ [Next]_vars => LeaderInv'
  BY LeaderTypeStep, WorkingHoldsStep DEF LeaderInv
<1> QED
  BY <1>1, LeaderInvInit, PTL DEF Spec

\* Two daemons never work at once while no session has been lost under one.
THEOREM OneDaemonWorks == Spec => []OneWorks
<1>1. LeaderInv => OneWorks
  BY DEF LeaderInv, WorkingHolds, OneWorks
<1> QED
  BY <1>1, LeaderInvariant, PTL

LEMMA BeatsInit == Init => BeatsCounted
BY LeaderConfigOK DEF Init, BeatsCounted

\* A heartbeat that is sent, lands or gets lost, and the clock, keep the count.
LEMMA BeatsStep == TypeOK /\ BeatsCounted /\ [Next]_vars => BeatsCounted'
<1> SUFFICES ASSUME TypeOK, BeatsCounted, [Next]_vars, NEW d \in Daemons
             PROVE  BeatsCounted!(d)'
  BY DEF BeatsCounted
<1> USE DEF TypeOK, BeatsCounted
<1>1. ASSUME NEW e \in Daemons,
             Start(e) \/ Acquire(e) \/ LoseAnswer(e) \/ Shutdown(e) \/ Crash(e)
      PROVE  BeatsCounted!(d)'
  BY <1>1 DEF Start, Acquire, LoseAnswer, Shutdown, Crash, beats
<1>2. ASSUME NEW e \in Daemons, SendHeartbeat(e) PROVE BeatsCounted!(d)'
  BY <1>2 DEF SendHeartbeat
<1>3. ASSUME NEW e \in Daemons, LandHeartbeat(e) PROVE BeatsCounted!(d)'
  BY <1>3 DEF LandHeartbeat, Working
<1>4. ASSUME NEW e \in Daemons, LoseHeartbeat(e) PROVE BeatsCounted!(d)'
  BY <1>4 DEF LoseHeartbeat, Working
\* A tick begins a heartbeat, or counts as late because one is under way.
<1>5. CASE Tick
  BY <1>5 DEF Tick, Working
<1>6. CASE Reap \/ LoseSession \/ Idle \/ UNCHANGED vars
  BY <1>6 DEF Reap, LoseSession, Idle, vars, beats
<1> QED
  BY <1>1, <1>2, <1>3, <1>4, <1>5, <1>6 DEF Next

\* A working daemon the row names is shown alive though one heartbeat was lost
\* or came an interval late, however long UPDATEs may take.
THEOREM LeaderNotDeclaredDead == Spec => []LeaderShownAlive
<1>1. TypeOK /\ BeatsCounted => LeaderShownAlive
  BY LeaderConfigOK
     DEF TypeOK, BeatsCounted, LeaderShownAlive, IsAlive, Working, LivenessThreshold
<1>2. LeaderInv => TypeOK
  BY DEF LeaderInv
<1> QED
  BY <1>1, <1>2, BeatsInit, BeatsStep, LeaderInvariant, PTL DEF Spec
=============================================================================
