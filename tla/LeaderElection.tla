--------------------------- MODULE LeaderElection ---------------------------
(***************************************************************************)
(* Leader election between auto-snapshot daemons                           *)
(* (backend/internal/autosnapshot/leader.go, the Run function of           *)
(* daemon.go, and the lock and heartbeat statements of                     *)
(* backend/internal/storage/autosnapshot.go).                              *)
(*                                                                         *)
(* A daemon takes a PostgreSQL session-level advisory lock once, before it *)
(* starts working, and never looks at it again; a heartbeat goroutine      *)
(* writes its name over another connection.  The lock lives as long as     *)
(* the server keeps the session, which is not the life of the daemon: a    *)
(* crashed daemon's session lingers until the server notices, and a        *)
(* session may be lost under a daemon that goes on working.                *)
(*                                                                         *)
(* Time is counted in heartbeat intervals.  It goes on whatever the        *)
(* daemons are doing: an UPDATE has no deadline of its own and may take    *)
(* any number of intervals.                                                *)
(*                                                                         *)
(* storage.leader_election is on.  With it off (the default) Run takes no  *)
(* lock and every daemon works at once; that mode is meant for a single    *)
(* instance and is not modelled.                                           *)
(***************************************************************************)
EXTENDS Integers, FiniteSets

CONSTANTS
  Daemons,     \* the daemon processes (a restarted one counts as new)
  None,        \* no daemon
  MaxNow,      \* bound on the clock
  MaxFaults    \* bound on sessions lost under a working daemon and lock
               \* grants whose answer is lost, together

ASSUME LeaderConfigOK ==
  /\ IsFiniteSet(Daemons)
  /\ None \notin Daemons
  /\ MaxNow \in Nat
  /\ MaxFaults \in Nat

VARIABLES
  state,     \* where each daemon is
  holder,    \* the daemon whose session the server holds the lock for
  due,       \* daemons whose heartbeat ticker has fired
  inFlight,  \* daemons with a heartbeat UPDATE on its way
  sent,      \* when that UPDATE was sent, 0 if there is none
  setbacks,  \* history: heartbeats of a working daemon that failed, and intervals
             \* they were late, since the one that landed last
  info,      \* the autosnapshot_leader row
  now,
  losses,    \* sessions lost under a working daemon so far
  dropped    \* grants whose answer was lost so far

vars == <<state, holder, due, inFlight, sent, setbacks, info, now, losses, dropped>>

\* The heartbeats and the row they are written to.
beats == <<inFlight, sent, setbacks, info>>

\* Mutated form: one heartbeat interval.
LivenessThresholdTooTight == 1

\* LeaderLivenessThreshold is 30 s, heartbeatInterval 10 s.
LivenessThreshold == 3

States == {"new", "waiting", "working", "stopped", "crashed"}

Working == {d \in Daemons : state[d] = "working"}

Init ==
  /\ state = [d \in Daemons |-> "new"]
  /\ holder = None
  /\ due = {}
  /\ inFlight = {}
  /\ sent = [d \in Daemons |-> 0]
  /\ setbacks = [d \in Daemons |-> 0]
  /\ info = [instance |-> None, at |-> 0]
  /\ now = 0
  /\ losses = 0
  /\ dropped = 0

-----------------------------------------------------------------------------
\* Run is entered; Acquire starts its retry loop.
Start(d) ==
  /\ state[d] = "new"
  /\ state' = [state EXCEPT ![d] = "waiting"]
  /\ UNCHANGED <<holder, due, beats, now, losses, dropped>>

\* Mutated form: the boolean pg_try_advisory_lock returns is not looked at.
AcquireUnchecked(d) ==
  /\ state[d] = "waiting"
  /\ holder' = IF holder = None THEN d ELSE holder
  /\ state' = [state EXCEPT ![d] = "working"]
  /\ due' = due \cup {d}
  /\ UNCHANGED <<beats, now, losses, dropped>>

\* Mutated form: a daemon stands back as long as the row names a leader.
AcquireIfNoLeader(d) ==
  /\ state[d] = "waiting"
  /\ holder = None
  /\ info.instance = None
  /\ holder' = d
  /\ state' = [state EXCEPT ![d] = "working"]
  /\ due' = due \cup {d}
  /\ UNCHANGED <<beats, now, losses, dropped>>

\* pg_try_advisory_lock returned true.  A false result or an error changes
\* nothing and is tried again.  RunHeartbeat starts with a heartbeat at once.
Acquire(d) ==
  /\ state[d] = "waiting"
  /\ holder = None
  /\ holder' = d
  /\ state' = [state EXCEPT ![d] = "working"]
  /\ due' = due \cup {d}
  /\ UNCHANGED <<beats, now, losses, dropped>>

\* The lock is granted and the answer never arrives: the connection is dropped,
\* its session stays until the server closes it, and the daemon tries again.
LoseAnswer(d) ==
  /\ state[d] = "waiting"
  /\ holder = None
  /\ losses + dropped < MaxFaults
  /\ holder' = d
  /\ dropped' = dropped + 1
  /\ UNCHANGED <<state, due, beats, now, losses>>

\* The heartbeat goroutine does one thing at a time: it takes the tick that
\* is waiting in the ticker's channel once its last UPDATE has ended.
SendHeartbeat(d) ==
  /\ d \in due \ inFlight
  /\ due' = due \ {d}
  /\ inFlight' = inFlight \cup {d}
  /\ sent' = [sent EXCEPT ![d] = now]
  /\ UNCHANGED <<state, holder, setbacks, info, now, losses, dropped>>

\* The UPDATE commits, though its daemon may have stopped in the meantime:
\* nothing waits for the heartbeat goroutine.  now() is the start of the
\* statement's transaction, any time since it was sent.
LandHeartbeat(d) ==
  /\ d \in inFlight
  /\ inFlight' = inFlight \ {d}
  /\ sent' = [sent EXCEPT ![d] = 0]
  /\ \E at \in sent[d]..now :
       /\ info' = [instance |-> d, at |-> at]
       /\ setbacks' = IF d \in Working THEN [setbacks EXCEPT ![d] = now - at] ELSE setbacks
  /\ UNCHANGED <<state, holder, due, now, losses, dropped>>

\* The UPDATE fails; the error is logged and the next tick tries again.
LoseHeartbeat(d) ==
  /\ d \in inFlight
  /\ inFlight' = inFlight \ {d}
  /\ sent' = [sent EXCEPT ![d] = 0]
  /\ setbacks' = IF d \in Working THEN [setbacks EXCEPT ![d] = @ + 1] ELSE setbacks
  /\ UNCHANGED <<state, holder, due, info, now, losses, dropped>>

\* One heartbeat interval passes and the tickers fire.  A ticker's channel
\* holds one tick: while the last one waits there, another is dropped.
Tick ==
  /\ now < MaxNow
  /\ now' = now + 1
  /\ due' = due \cup Working
  /\ setbacks' = [d \in Daemons |->
       IF d \in Working \cap (due \cup inFlight) THEN setbacks[d] + 1 ELSE setbacks[d]]
  /\ UNCHANGED <<state, holder, inFlight, sent, info, losses, dropped>>

\* The context is cancelled: the loop returns, the heartbeat context is
\* cancelled and Release closes the lock connection.
Shutdown(d) ==
  /\ state[d] \in {"waiting", "working"}
  /\ state' = [state EXCEPT ![d] = "stopped"]
  /\ holder' = IF d \in Working /\ holder = d THEN None ELSE holder
  /\ due' = due \ {d}
  /\ setbacks' = [setbacks EXCEPT ![d] = 0]
  /\ UNCHANGED <<inFlight, sent, info, now, losses, dropped>>

\* The process dies; the server does not know yet.
Crash(d) ==
  /\ state[d] \in {"waiting", "working"}
  /\ state' = [state EXCEPT ![d] = "crashed"]
  /\ due' = due \ {d}
  /\ setbacks' = [setbacks EXCEPT ![d] = 0]
  /\ UNCHANGED <<holder, inFlight, sent, info, now, losses, dropped>>

\* The server finds a session whose client is gone and frees its lock.
Reap ==
  /\ holder # None
  /\ holder \notin Working
  /\ holder' = None
  /\ UNCHANGED <<state, due, beats, now, losses, dropped>>

\* The session is lost under a working daemon (server restart, a broken or
\* recycled connection); the daemon never reads from it and does not notice.
LoseSession ==
  /\ losses + dropped < MaxFaults
  /\ holder \in Working
  /\ holder' = None
  /\ losses' = losses + 1
  /\ UNCHANGED <<state, due, beats, now, dropped>>

\* The bounded clock has run out, or every daemon is gone.
Idle ==
  /\ now = MaxNow \/ \A d \in Daemons : state[d] \in {"stopped", "crashed"}
  /\ UNCHANGED vars

Next ==
  \/ \E d \in Daemons :
       \/ Start(d) \/ Acquire(d) \/ LoseAnswer(d) \/ Shutdown(d) \/ Crash(d)
       \/ SendHeartbeat(d) \/ LandHeartbeat(d) \/ LoseHeartbeat(d)
  \/ Tick
  \/ Reap
  \/ LoseSession
  \/ Idle

\* Acquire retries for ever; the server's keepalives find a dead peer.
Fairness == WF_vars(Reap) /\ \A d \in Daemons : WF_vars(Acquire(d))

Spec == Init /\ [][Next]_vars /\ Fairness

-----------------------------------------------------------------------------
(* Properties. *)

\* The shape of the daemons' state, of the lock and of the leader row.
TypeOK ==
  /\ state \in [Daemons -> States]
  /\ holder \in Daemons \cup {None}
  /\ due \subseteq Daemons
  /\ inFlight \subseteq Daemons
  /\ sent \in [Daemons -> Nat]
  /\ setbacks \in [Daemons -> Nat]
  /\ info \in [instance : Daemons \cup {None}, at : Nat]
  /\ now \in Nat
  /\ losses \in Nat
  /\ dropped \in Nat

\* GetLeaderInfo: is_alive of the row.
IsAlive == info.instance # None /\ now - info.at < LivenessThreshold

\* While no session is lost under a working daemon, two daemons never work at
\* the same time: not while one shuts down, crashes or has its session reaped.
OneWorks == losses = 0 => \A d, e \in Working : d = e

\* The inductive invariant behind OneWorks: a working daemon is the one the
\* server holds the lock for.
WorkingHolds == losses = 0 => \A d \in Working : holder = d

\* Types and the lock: what every step of a daemon or the server preserves.
LeaderInv == TypeOK /\ WorkingHolds

\* The liveness threshold absorbs one interval that brought no heartbeat: as
\* long as the row names a working daemon, one UPDATE that failed, or one that
\* took an interval too long (so that the ticker dropped or delayed the next),
\* does not make the UI call it dead.  Two such intervals may: the UPDATE has
\* no deadline, and a leader that works on is then shown dead.
LeaderShownAlive ==
  \A d \in Working :
    setbacks[d] <= 1 /\ info.instance = d => IsAlive

\* The inductive invariant behind LeaderShownAlive: every interval since the
\* time the row shows began with a heartbeat that got lost, was spent on an
\* overdue one, or is that of the heartbeat under way; a daemon that has not
\* begun to work has sent none.
BeatsCounted ==
  \A d \in Daemons :
    /\ state[d] \in {"new", "waiting"} => d \notin due \cup inFlight /\ info.instance # d
    /\ state[d] = "working" /\ info.instance = d =>
         now - info.at <=
           setbacks[d] + (IF d \in due \cup inFlight THEN 1 ELSE 0)

\* Failover: a daemon that keeps waiting is not kept out by a stopped or
\* crashed leader; somebody works again.
SomebodyWorks ==
  \A d \in Daemons :
    state[d] = "waiting" ~> (Working # {} \/ state[d] \in {"stopped", "crashed"})
=============================================================================
