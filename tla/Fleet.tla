------------------------------- MODULE Fleet -------------------------------
(***************************************************************************)
(* The shared fleet-health computation of                                  *)
(* backend/internal/healthscore/fleet.go: callers of Worst join a flight   *)
(* per set of instances, every flight runs in a goroutine of its own,      *)
(* scores instances through one pool of slots, publishes its result for a  *)
(* while, and may go on to sweep the instances it passed over.             *)
(*                                                                         *)
(* Instances are counted, not named; ranking and scores are left out.  An  *)
(* action is what one goroutine does between two points where another can  *)
(* get in: the mutex, a channel operation, an atomic.                      *)
(***************************************************************************)
EXTENDS Integers, Sequences, FiniteSets

CONSTANTS
  Callers,
  Keys,             \* sets of instances asked for
  Slots,            \* snapshot_concurrency
  MaxComputations,  \* max_computations
  MaxJobs,          \* bound on the instances of a flight
  MaxFlights        \* bound on the flights ever started

ASSUME FleetConfigOK ==
  /\ Slots \in Nat \ {0}
  /\ MaxComputations \in Nat \ {0}
  /\ MaxJobs \in Nat
  /\ MaxFlights \in Nat

VARIABLES
  flights,    \* f.flights: the flight of a key, 0 when there is none
  fl,         \* every flight started, in order
  caller,     \* the flight a caller waits for, 0 when it waits for none
  computing,  \* f.computing
  free,       \* slots of f.slots nobody holds
  sweeper     \* the flight that won f.sweeping, 0 when none has

vars == <<flights, fl, caller, computing, free, sweeper>>

\* Where a flight's goroutine is: prefilter; acquire; holding a slot; waiting
\* for the metrics; wg.Wait; published; released; and in acquireIdle before
\* the load of f.waiting (check) and after it (try).
PCs == {"plan", "acquire", "held", "raw", "drain", "panicked", "published",
        "released", "check", "try", "ended"}

Raws == {"none", "reading", "sent", "got"}

Flight == [key : Keys, pc : PCs, sweeping : BOOLEAN, cands : Nat, sql : Nat,
           rest : Nat, raws : Raws, running : Nat, done : BOOLEAN, expired : BOOLEAN]

NewFlight(k) ==
  [key |-> k, pc |-> "plan", sweeping |-> FALSE, cands |-> 0, sql |-> 0,
   rest |-> 0, raws |-> "none", running |-> 0, done |-> FALSE, expired |-> FALSE]

Ids == 1 .. Len(fl)

Init ==
  /\ flights = [k \in Keys |-> 0]
  /\ fl = <<>>
  /\ caller = [c \in Callers |-> 0]
  /\ computing = 0
  /\ free = Slots
  /\ sweeper = 0

\* The computations blocked in acquire: f.waiting.
Waiting == {i \in Ids : fl[i].pc = "acquire"}

-----------------------------------------------------------------------------
(* Worst and join. *)

\* The flight a new caller of key k shares: still computing, or not expired.
Joinable(k) ==
  flights[k] # 0 /\ (~fl[flights[k]].done \/ ~fl[flights[k]].expired)

Share(c, k) ==
  /\ caller[c] = 0
  /\ Joinable(k)
  /\ caller' = [caller EXCEPT ![c] = flights[k]]
  /\ UNCHANGED <<flights, fl, computing, free, sweeper>>

\* Mutated form: one computation too many.
TakeOffUnchecked(c, k) ==
  /\ caller[c] = 0
  /\ ~Joinable(k)
  /\ Len(fl) < MaxFlights
  /\ computing <= MaxComputations
  /\ computing' = computing + 1
  /\ fl' = Append(fl, NewFlight(k))
  /\ flights' = [flights EXCEPT ![k] = Len(fl) + 1]
  /\ caller' = [caller EXCEPT ![c] = Len(fl) + 1]
  /\ UNCHANGED <<free, sweeper>>

\* A new flight, unless max_computations run (ErrFleetBusy changes nothing).
TakeOff(c, k) ==
  /\ caller[c] = 0
  /\ ~Joinable(k)
  /\ Len(fl) < MaxFlights
  /\ computing < MaxComputations
  /\ computing' = computing + 1
  /\ fl' = Append(fl, NewFlight(k))
  /\ flights' = [flights EXCEPT ![k] = Len(fl) + 1]
  /\ caller' = [caller EXCEPT ![c] = Len(fl) + 1]
  /\ UNCHANGED <<free, sweeper>>

\* <-fl.done: the caller has its answer.
Serve(c) ==
  /\ caller[c] # 0
  /\ fl[caller[c]].done
  /\ caller' = [caller EXCEPT ![c] = 0]
  /\ UNCHANGED <<flights, fl, computing, free, sweeper>>

\* ctx.Done: the caller gives up; its flight goes on.
Leave(c) ==
  /\ caller[c] # 0
  /\ caller' = [caller EXCEPT ![c] = 0]
  /\ UNCHANGED <<flights, fl, computing, free, sweeper>>

-----------------------------------------------------------------------------
(* The goroutine of a flight. *)

Set(i, x) == fl' = [fl EXCEPT ![i] = x]

\* Where the dispatch loop of scoreAll goes on; past its end nobody reads the
\* metrics any more.
Looped(x) ==
  IF x.cands + x.sql = 0
  THEN [x EXCEPT !.pc = "drain", !.raws = "none"]
  ELSE [x EXCEPT !.pc = IF x.sweeping THEN "check" ELSE "acquire"]

\* scoreAll starts: the metrics of the candidates are read in the background.
Scoring(x, cands, sql) ==
  Looped([x EXCEPT !.cands = cands, !.sql = sql,
                   !.raws = IF cands > 0 THEN "reading" ELSE "none"])

\* prefilter splits the instances into candidates, snapshot-only ones and rest.
Plan(i, cands, sql, rest) ==
  /\ fl[i].pc = "plan"
  /\ cands + sql + rest <= MaxJobs
  /\ Set(i, Scoring([fl[i] EXCEPT !.rest = rest], cands, sql))
  /\ UNCHANGED <<flights, caller, computing, free, sweeper>>

\* Mutated form: the recovered panic is only logged.
PanicUnpublished(i) ==
  /\ fl[i].pc = "plan"
  /\ Set(i, [fl[i] EXCEPT !.pc = "panicked"])
  /\ UNCHANGED <<flights, caller, computing, free, sweeper>>

\* run recovers a panic before scoring and publishes errInternal, held for no
\* time at all.  The same recover covers a panic later in run; jobs recover
\* theirs themselves.
Panic(i) ==
  /\ fl[i].pc = "plan"
  /\ Set(i, [fl[i] EXCEPT !.pc = "panicked", !.done = TRUE, !.expired = TRUE])
  /\ UNCHANGED <<flights, caller, computing, free, sweeper>>

\* readRaw sends its one map, nil after a panic.
ReadRaw(i) ==
  /\ fl[i].raws = "reading"
  /\ Set(i, [fl[i] EXCEPT !.raws = "sent"])
  /\ UNCHANGED <<flights, caller, computing, free, sweeper>>

Acquire(i) ==
  /\ fl[i].pc = "acquire"
  /\ free > 0
  /\ free' = free - 1
  /\ Set(i, [fl[i] EXCEPT !.pc = "held"])
  /\ UNCHANGED <<flights, caller, computing, sweeper>>

\* Mutated form: the slot is kept while the metrics are waited for.
DispatchKeepsSlot(i) ==
  LET x == [fl[i] EXCEPT !.raws = IF @ = "sent" THEN "got" ELSE @]
      pending == x.raws = "reading"
  IN /\ fl[i].pc = "held"
     /\ \/ /\ ~pending /\ x.cands > 0
           /\ Set(i, Looped([x EXCEPT !.cands = @ - 1, !.running = @ + 1]))
        \/ /\ (pending \/ x.cands = 0) /\ x.sql > 0
           /\ Set(i, Looped([x EXCEPT !.sql = @ - 1, !.running = @ + 1]))
        \/ /\ pending /\ x.sql = 0
           /\ Set(i, [x EXCEPT !.pc = "raw"])
     /\ UNCHANGED <<free, flights, caller, computing, sweeper>>

\* The body of the loop: a candidate if the metrics are in, else a
\* snapshot-only instance, else the slot is given back until they are.
Dispatch(i) ==
  LET x == [fl[i] EXCEPT !.raws = IF @ = "sent" THEN "got" ELSE @]
      pending == x.raws = "reading"
  IN /\ fl[i].pc = "held"
     /\ \/ /\ ~pending /\ x.cands > 0
           /\ Set(i, Looped([x EXCEPT !.cands = @ - 1, !.running = @ + 1]))
           /\ UNCHANGED free
        \/ /\ (pending \/ x.cands = 0) /\ x.sql > 0
           /\ Set(i, Looped([x EXCEPT !.sql = @ - 1, !.running = @ + 1]))
           /\ UNCHANGED free
        \/ /\ pending /\ x.sql = 0
           /\ Set(i, [x EXCEPT !.pc = "raw"])
           /\ free' = free + 1
     /\ UNCHANGED <<flights, caller, computing, sweeper>>

GetRaw(i) ==
  /\ fl[i].pc = "raw"
  /\ fl[i].raws = "sent"
  /\ Set(i, Looped([fl[i] EXCEPT !.raws = "got"]))
  /\ UNCHANGED <<flights, caller, computing, free, sweeper>>

\* scoreOne returns: scored, failed, timed out or recovered from a panic.
JobDone(i) ==
  /\ fl[i].running > 0
  /\ Set(i, [fl[i] EXCEPT !.running = @ - 1])
  /\ free' = free + 1
  /\ UNCHANGED <<flights, caller, computing, sweeper>>

\* The budget is spent: the dispatch loop breaks, the others stay uncomputed
\* and nothing is left for the sweep.
Deadline(i) ==
  /\ fl[i].pc \in {"acquire", "raw", "check"}
  /\ Set(i, [fl[i] EXCEPT !.pc = "drain", !.cands = 0, !.sql = 0,
                          !.rest = 0, !.raws = "none"])
  /\ UNCHANGED <<flights, caller, computing, free, sweeper>>

\* The computation is done: publish closes the channel.
Publish(i) ==
  /\ fl[i].pc = "drain" /\ ~fl[i].sweeping /\ fl[i].running = 0
  /\ Set(i, [fl[i] EXCEPT !.pc = "published", !.done = TRUE])
  /\ UNCHANGED <<flights, caller, computing, free, sweeper>>

\* release, once: called after publish or deferred past a panic.
Release(i) ==
  /\ fl[i].pc \in {"published", "panicked"}
  /\ computing' = computing - 1
  /\ Set(i, [fl[i] EXCEPT !.pc = IF @ = "published" THEN "released" ELSE "ended"])
  /\ UNCHANGED <<flights, caller, free, sweeper>>

\* CompareAndSwap of f.sweeping: one flight sweeps, the others are finished.
StartSweep(i) ==
  /\ fl[i].pc = "released"
  /\ IF sweeper = 0
     THEN /\ sweeper' = i
          /\ Set(i, Scoring([fl[i] EXCEPT !.sweeping = TRUE, !.rest = 0],
                            fl[i].rest, 0))
     ELSE /\ Set(i, [fl[i] EXCEPT !.pc = "ended", !.rest = 0])
          /\ UNCHANGED sweeper
  /\ UNCHANGED <<flights, caller, computing, free>>

\* acquireIdle: no computation waits for a slot.
CheckIdle(i) ==
  /\ fl[i].pc = "check"
  /\ Waiting = {}
  /\ Set(i, [fl[i] EXCEPT !.pc = "try"])
  /\ UNCHANGED <<flights, caller, computing, free, sweeper>>

\* acquireIdle: the slot, or another round.
TryIdle(i) ==
  /\ fl[i].pc = "try"
  /\ Set(i, [fl[i] EXCEPT !.pc = IF free > 0 THEN "held" ELSE "check"])
  /\ free' = IF free > 0 THEN free - 1 ELSE free
  /\ UNCHANGED <<flights, caller, computing, sweeper>>

EndSweep(i) ==
  /\ fl[i].pc = "drain" /\ fl[i].sweeping /\ fl[i].running = 0
  /\ Set(i, [fl[i] EXCEPT !.pc = "ended"])
  /\ sweeper' = 0
  /\ UNCHANGED <<flights, caller, computing, free>>

-----------------------------------------------------------------------------
(* The life of a result. *)

\* result_ttl passes.
Expire(i) ==
  /\ fl[i].done /\ ~fl[i].expired
  /\ Set(i, [fl[i] EXCEPT !.expired = TRUE])
  /\ UNCHANGED <<flights, caller, computing, free, sweeper>>

\* Mutated form: the timer deletes whatever flight the key has.
ForgetAny(i) ==
  /\ fl[i].expired
  /\ flights[fl[i].key] # 0
  /\ flights' = [flights EXCEPT ![fl[i].key] = 0]
  /\ UNCHANGED <<fl, caller, computing, free, sweeper>>

\* The timer set by publish: only this very flight is deleted.
Forget(i) ==
  /\ fl[i].expired
  /\ flights[fl[i].key] = i
  /\ flights' = [flights EXCEPT ![fl[i].key] = 0]
  /\ UNCHANGED <<fl, caller, computing, free, sweeper>>

-----------------------------------------------------------------------------
\* What the goroutine of flight i does of its own accord.
Step(i) ==
  \/ \E cands, sql, rest \in 0 .. MaxJobs : Plan(i, cands, sql, rest)
  \/ Acquire(i) \/ Dispatch(i) \/ GetRaw(i) \/ Deadline(i)
  \/ Publish(i) \/ Release(i) \/ StartSweep(i)
  \/ CheckIdle(i) \/ TryIdle(i) \/ EndSweep(i)

\* Nothing is under way and no more flights are explored.
Rest ==
  /\ Len(fl) = MaxFlights
  /\ UNCHANGED vars

Next ==
  \/ \E c \in Callers, k \in Keys : Share(c, k) \/ TakeOff(c, k)
  \/ \E c \in Callers : Serve(c) \/ Leave(c)
  \/ \E i \in Ids : \/ Step(i) \/ Panic(i) \/ ReadRaw(i) \/ JobDone(i)
                    \/ Expire(i) \/ Forget(i)
  \/ Rest

\* Goroutines run, the budget of a flight and the timeout of a job end, a
\* caller that can be answered is.
Fairness ==
  /\ \A i \in 1 .. MaxFlights :
       WF_vars(i \in Ids /\ Step(i)) /\ WF_vars(i \in Ids /\ JobDone(i))
  /\ \A c \in Callers : WF_vars(Serve(c))

Spec == Init /\ [][Next]_vars /\ Fairness

-----------------------------------------------------------------------------
(* Properties. *)

\* The shape of the flights, the flight table and the callers.
FlightTypes ==
  /\ fl \in Seq(Flight)
  /\ flights \in [Keys -> 0 .. Len(fl)]
  /\ caller \in [Callers -> 0 .. Len(fl)]

\* The shape of the whole state; no counter runs below zero.
TypeOK ==
  /\ FlightTypes
  /\ computing \in Nat
  /\ free \in Nat
  /\ sweeper \in 0 .. Len(fl)

Holds(i) == fl[i].running + (IF fl[i].pc = "held" THEN 1 ELSE 0)

\* The slots handed out: the n-th that flight i holds now.
Grants == UNION {{i} \X (1 .. Holds(i)) : i \in Ids}

\* Every slot is free, or held by a dispatch loop or a running job: none is
\* lost on the way out of a loop and none is given back twice.
SlotsAccounted == free + Cardinality(Grants) = Slots

Unreleased == {i \in Ids : fl[i].pc \in PCs \ {"released", "check", "try", "ended"} /\ ~fl[i].sweeping}

\* Everything keeps its shape; f.computing is the number of flights that have
\* not released, and never more than max_computations.
ComputationsBounded ==
  TypeOK /\ computing = Cardinality(Unreleased) /\ computing <= MaxComputations

\* Two computations of the same instances never run at once: the expiry of an
\* old result does not make room for a second flight beside a running one.
OneComputationPerKey ==
  \A i, j \in Ids :
    fl[i].key = fl[j].key /\ ~fl[i].done /\ ~fl[j].done => i = j

\* The inductive invariant behind OneComputationPerKey: a flight that has not
\* published is the one its key has, and only published results expire.
RunningIsListed ==
  \A i \in Ids : /\ ~fl[i].done => flights[fl[i].key] = i
                 /\ fl[i].expired => fl[i].done

\* A flight waits the sweeping way exactly while it sweeps, and everything
\* before its sweep is done before it: what makes the two counts inductive.
SweepLast ==
  \A i \in Ids :
    /\ fl[i].pc \in {"check", "try"} => fl[i].sweeping
    /\ fl[i].pc \in {"plan", "acquire", "published", "panicked", "released"} => ~fl[i].sweeping

\* The counts of computations and of slots, and what every step needs of them.
CountsInv ==
  /\ ComputationsBounded /\ SlotsAccounted /\ SweepLast
  /\ IsFiniteSet(Unreleased) /\ IsFiniteSet(Grants)

\* Types and the flight table: what every step preserves.
FlightInv == FlightTypes /\ RunningIsListed

\* A caller that stays is answered: its flight ends whatever the jobs, the
\* metrics reads and the other flights' sweeps do.
CallerServed == \A c \in Callers : caller[c] # 0 ~> caller[c] = 0

=============================================================================
