---------------------------- MODULE FleetProofs ----------------------------
(***************************************************************************)
(* Single flight per set of instances, the bound on computations and the   *)
(* account of the slots, for every number of callers, keys,                *)
(* slots and flights.                                                      *)
(***************************************************************************)
EXTENDS Fleet, FiniteSetTheorems, TLAPS

\* y is flight x further on: a flight of the same key, published if x was, and
\* expired only if published.
Further(x, y) ==
  /\ y \in Flight
  /\ y.key = x.key
  /\ x.done => y.done
  /\ y.expired => y.done

\* A step of the flights, seen from the flight table.
Moved ==
  /\ fl' \in Seq(Flight)
  /\ Len(fl') = Len(fl)
  /\ \A i \in Ids : Further(fl[i], fl'[i])
  /\ UNCHANGED <<flights, caller>>

\* The flights started are flights, and the table has a place for their keys.
LEMMA FlightFacts ==
  ASSUME FlightTypes
  PROVE  /\ Len(fl) \in Nat
         /\ \A i \in Ids : fl[i] \in Flight
         /\ \A i \in Ids : fl[i].key \in Keys
<1>1. Len(fl) \in Nat /\ \A i \in Ids : fl[i] \in Flight
  BY DEF FlightTypes, Ids
<1>2. \A x \in Flight : x.key \in Keys
  BY DEF Flight
<1> QED
  BY <1>1, <1>2

\* Going round the dispatch loop changes where the goroutine is and no more.
LEMMA LoopedFurther ==
  ASSUME NEW x, NEW y \in Flight, Further(x, y)
  PROVE  Further(x, Looped(y))
BY DEF Further, Looped, Flight, PCs, Raws

\* Starting to score a set of instances sets the queues and no more.
LEMMA ScoringFurther ==
  ASSUME NEW x, NEW y \in Flight, Further(x, y), NEW cands \in Nat, NEW sql \in Nat
  PROVE  Further(x, Scoring(y, cands, sql))
<1> DEFINE z == [y EXCEPT !.cands = cands, !.sql = sql,
                          !.raws = IF cands > 0 THEN "reading" ELSE "none"]
<1>1. z \in Flight /\ Further(x, z)
  BY DEF Further, Flight, Raws
<1> QED
  BY <1>1, LoopedFurther DEF Scoring

\* A step of one flight.
LEMMA SetMoves ==
  ASSUME FlightInv, NEW i \in Ids, NEW x, Set(i, x), Further(fl[i], x),
         UNCHANGED <<flights, caller>>
  PROVE  Moved
<1>1. x \in Flight
  BY DEF Further
<1>2. fl' \in Seq(Flight) /\ Len(fl') = Len(fl)
  BY <1>1 DEF FlightInv, FlightTypes, Ids, Set
<1>3. ASSUME NEW j \in Ids PROVE Further(fl[j], fl'[j])
  <2>1. CASE j = i
    BY <2>1 DEF FlightInv, FlightTypes, Ids, Set
  <2>2. CASE j # i
    <3>1. fl'[j] = fl[j] /\ fl[j] \in Flight
      BY <2>2 DEF FlightInv, FlightTypes, Ids, Set
    <3> QED
      BY <3>1 DEF Further, FlightInv, RunningIsListed
  <2> QED
    BY <2>1, <2>2
<1> QED
  BY <1>2, <1>3 DEF Moved

\* Nothing a flight's goroutine, its jobs or the clock do touches the table.
LEMMA FlightMoves ==
  ASSUME FlightInv, NEW i \in Ids,
         Step(i) \/ Panic(i) \/ ReadRaw(i) \/ JobDone(i) \/ Expire(i)
  PROVE  Moved
<1> DEFINE x == fl[i]
<1>0. x \in Flight /\ Further(x, x)
  BY DEF FlightInv, FlightTypes, RunningIsListed, Further, Ids
<1> HIDE DEF x
<1>1. ASSUME NEW cands \in 0 .. MaxJobs, NEW sql \in 0 .. MaxJobs,
             NEW rest \in 0 .. MaxJobs, Plan(i, cands, sql, rest)
      PROVE  Moved
  <2>1. [x EXCEPT !.rest = rest] \in Flight /\ Further(x, [x EXCEPT !.rest = rest])
    BY <1>0 DEF Further, Flight
  <2>2. Further(x, Scoring([x EXCEPT !.rest = rest], cands, sql))
    BY <2>1, ScoringFurther
  <2> QED
    BY <1>1, <2>2, SetMoves DEF Plan, x
<1>2. CASE Acquire(i)
  <2>1. Further(x, [x EXCEPT !.pc = "held"])
    BY <1>0 DEF Further, Flight, PCs
  <2> QED
    BY <1>2, <2>1, SetMoves DEF Acquire, x
<1>3. CASE Dispatch(i)
  <2> DEFINE y == [x EXCEPT !.raws = IF @ = "sent" THEN "got" ELSE @]
  <2>1. y \in Flight /\ Further(x, y)
    BY <1>0 DEF Further, Flight, Raws
  <2> HIDE DEF y
  <2>2. Further(x, [y EXCEPT !.pc = "raw"])
    BY <2>1 DEF Further, Flight, PCs
  <2>3. ASSUME y.cands > 0
        PROVE  Further(x, Looped([y EXCEPT !.cands = @ - 1, !.running = @ + 1]))
    <3> DEFINE z == [y EXCEPT !.cands = @ - 1, !.running = @ + 1]
    <3>1. y.cands - 1 \in Nat /\ y.running + 1 \in Nat
      BY <2>1, <2>3 DEF Flight
    <3>2. z = [y EXCEPT !.cands = y.cands - 1, !.running = y.running + 1]
      BY <2>1 DEF Flight
    <3>3. \A a, b \in Nat : [y EXCEPT !.cands = a, !.running = b] \in Flight
      BY <2>1 DEF Flight
    <3>4. z \in Flight
      BY <3>1, <3>2, <3>3
    <3>5. Further(x, z)
      BY <2>1, <3>4 DEF Further, Flight
    <3> QED
      BY <3>4, <3>5, LoopedFurther
  <2>4. ASSUME y.sql > 0
        PROVE  Further(x, Looped([y EXCEPT !.sql = @ - 1, !.running = @ + 1]))
    <3> DEFINE z == [y EXCEPT !.sql = @ - 1, !.running = @ + 1]
    <3>1. y.sql - 1 \in Nat /\ y.running + 1 \in Nat
      BY <2>1, <2>4 DEF Flight
    <3>2. z = [y EXCEPT !.sql = y.sql - 1, !.running = y.running + 1]
      BY <2>1 DEF Flight
    <3>3. \A a, b \in Nat : [y EXCEPT !.sql = a, !.running = b] \in Flight
      BY <2>1 DEF Flight
    <3>4. z \in Flight
      BY <3>1, <3>2, <3>3
    <3>5. Further(x, z)
      BY <2>1, <3>4 DEF Further, Flight
    <3> QED
      BY <3>4, <3>5, LoopedFurther
  <2>5. \E z : Set(i, z) /\ Further(x, z)
    BY <1>3, <2>2, <2>3, <2>4 DEF Dispatch, x, y
  <2> QED
    BY <1>3, <2>5, SetMoves DEF Dispatch, x
<1>4. CASE GetRaw(i)
  <2>1. [x EXCEPT !.raws = "got"] \in Flight /\ Further(x, [x EXCEPT !.raws = "got"])
    BY <1>0 DEF Further, Flight, Raws
  <2> QED
    BY <1>4, <2>1, LoopedFurther, SetMoves DEF GetRaw, x
<1>5. CASE Deadline(i)
  <2>1. Further(x, [x EXCEPT !.pc = "drain", !.cands = 0, !.sql = 0,
                                !.rest = 0, !.raws = "none"])
    BY <1>0 DEF Further, Flight, PCs, Raws
  <2> QED
    BY <1>5, <2>1, SetMoves DEF Deadline, x
<1>6. CASE Publish(i) \/ Panic(i) \/ Expire(i)
  <2>1. /\ Further(x, [x EXCEPT !.pc = "published", !.done = TRUE])
        /\ Further(x, [x EXCEPT !.pc = "panicked", !.done = TRUE, !.expired = TRUE])
        /\ x.done => Further(x, [x EXCEPT !.expired = TRUE])
    BY <1>0 DEF Further, Flight, PCs
  <2> QED
    BY <1>6, <2>1, SetMoves DEF Publish, Panic, Expire, x
<1>7. CASE StartSweep(i)
  <2>1. /\ [x EXCEPT !.sweeping = TRUE, !.rest = 0] \in Flight
        /\ Further(x, [x EXCEPT !.sweeping = TRUE, !.rest = 0])
        /\ Further(x, [x EXCEPT !.pc = "ended", !.rest = 0])
        /\ x.rest \in Nat
    BY <1>0 DEF Further, Flight, PCs
  <2>2. Further(x, Scoring([x EXCEPT !.sweeping = TRUE, !.rest = 0], x.rest, 0))
    BY <2>1, ScoringFurther
  <2> QED
    BY <1>7, <2>1, <2>2, SetMoves DEF StartSweep, x
<1>8. CASE Release(i) \/ CheckIdle(i) \/ TryIdle(i) \/ EndSweep(i)
  <2>1. \A p \in PCs : Further(x, [x EXCEPT !.pc = p])
    BY <1>0 DEF Further, Flight
  <2>2. {"released", "ended", "try", "held", "check"} \subseteq PCs
    BY DEF PCs
  <2>3. \E p \in PCs : Set(i, [x EXCEPT !.pc = p])
    BY <1>8, <2>2 DEF Release, CheckIdle, TryIdle, EndSweep, x
  <2> QED
    BY <1>8, <2>1, <2>3, SetMoves DEF Release, CheckIdle, TryIdle, EndSweep, x
<1>9. CASE ReadRaw(i) \/ JobDone(i)
  <2>1. /\ Further(x, [x EXCEPT !.raws = "sent"])
        /\ x.running > 0 => Further(x, [x EXCEPT !.running = @ - 1])
    BY <1>0 DEF Further, Flight, Raws
  <2> QED
    BY <1>9, <2>1, SetMoves DEF ReadRaw, JobDone, x
<1> QED
  BY <1>1, <1>2, <1>3, <1>4, <1>5, <1>6, <1>7, <1>8, <1>9 DEF Step

\* Before the first caller there is no flight.
LEMMA FlightInvInit == Init => FlightInv
BY DEF Init, FlightInv, FlightTypes, RunningIsListed, Ids, Flight

\* Every step keeps an unpublished flight the one of its key.
LEMMA FlightInvStep == FlightInv /\ [Next]_vars => FlightInv'
<1> SUFFICES ASSUME FlightInv, [Next]_vars PROVE FlightInv'
  OBVIOUS
<1> USE DEF FlightInv
<1>1. ASSUME Moved PROVE FlightInv'
  BY <1>1 DEF Moved, Further, FlightTypes, RunningIsListed, Ids
<1>2. ASSUME NEW c \in Callers, NEW k \in Keys, Share(c, k) PROVE FlightInv'
  BY <1>2 DEF Share, FlightTypes, RunningIsListed, Ids
<1>3. ASSUME NEW c \in Callers, NEW k \in Keys, TakeOff(c, k) PROVE FlightInv'
  <2>1. NewFlight(k) \in Flight
    BY DEF NewFlight, Flight, PCs, Raws
  <2>2. FlightTypes'
    BY <1>3, <2>1 DEF TakeOff, FlightTypes
  \* The key had no flight, or a published one.
  <2>3. ASSUME NEW i \in Ids, fl[i].key = k PROVE fl[i].done
    BY <1>3, <2>3 DEF TakeOff, Joinable, RunningIsListed, Ids
  <2>4. ASSUME NEW i \in Ids'
        PROVE  /\ ~fl'[i].done => flights'[fl'[i].key] = i
               /\ fl'[i].expired => fl'[i].done
    <3>1. CASE i = Len(fl) + 1
      <4>1. fl'[i] = NewFlight(k)
        BY <1>3, <3>1, <2>1 DEF TakeOff, FlightTypes
      <4> QED
        BY <1>3, <3>1, <4>1 DEF TakeOff, NewFlight, FlightTypes
    <3>2. CASE i # Len(fl) + 1
      <4>1. i \in Ids /\ fl'[i] = fl[i] /\ fl[i].key \in Keys
        BY <1>3, <3>2, <2>1, FlightFacts DEF TakeOff, FlightTypes, Ids
      <4> QED
        BY <1>3, <4>1, <2>3 DEF TakeOff, RunningIsListed, FlightTypes
    <3> QED
      BY <3>1, <3>2
  <2> QED
    BY <2>2, <2>4 DEF RunningIsListed
<1>4. ASSUME NEW c \in Callers, Serve(c) \/ Leave(c) PROVE FlightInv'
  BY <1>4 DEF Serve, Leave, FlightTypes, RunningIsListed, Ids
<1>5. ASSUME NEW i \in Ids, Forget(i) PROVE FlightInv'
  <2>1. FlightTypes' /\ fl' = fl
    BY <1>5, FlightFacts DEF Forget, FlightTypes
  \* The flight deleted has expired, so it is not one that still runs.
  <2>2. ASSUME NEW j \in Ids, ~fl[j].done PROVE flights'[fl[j].key] = j
    <3>1. fl[j].key \in Keys /\ fl[i].key \in Keys
      BY FlightFacts
    <3> QED
      BY <1>5, <2>2, <3>1 DEF Forget, FlightTypes, RunningIsListed
  <2> QED
    BY <2>1, <2>2 DEF RunningIsListed, Ids
<1>6. ASSUME NEW i \in Ids, Step(i) \/ Panic(i) \/ ReadRaw(i) \/ JobDone(i) \/ Expire(i)
      PROVE  FlightInv'
  BY <1>1, <1>6, FlightMoves
<1>7. CASE Rest \/ UNCHANGED vars
  BY <1>7 DEF Rest, vars, FlightTypes, RunningIsListed, Ids
<1> QED
  BY <1>2, <1>3, <1>4, <1>5, <1>6, <1>7 DEF Next

\* The flight table lists every running computation, in every reachable state.
THEOREM FlightInvariant == Spec => []FlightInv
BY FlightInvInit, FlightInvStep, PTL DEF Spec

\* Single flight: no two computations of the same instances run at once.
THEOREM SingleFlight == Spec => []OneComputationPerKey
<1>1. FlightInv => OneComputationPerKey
  BY DEF FlightInv, FlightTypes, RunningIsListed, OneComputationPerKey
<1> QED
  BY <1>1, FlightInvariant, PTL

-----------------------------------------------------------------------------
(* The counts of computations and of slots. *)

\* The slots a flight in state x holds.
Load(x) == x.running + (IF x.pc = "held" THEN 1 ELSE 0)

\* It counts as a computation.
Counted(x) == x.pc \in PCs \ {"released", "check", "try", "ended"} /\ ~x.sweeping

\* SweepLast of one flight.
Ordered(x) ==
  /\ x.pc \in {"check", "try"} => x.sweeping
  /\ x.pc \in {"plan", "acquire", "published", "panicked", "released"} => ~x.sweeping

\* y follows x without starting or releasing a computation.
SameCount(x, y) == Ordered(y) /\ (Counted(y) <=> Counted(x))

\* The counts of a state, flight by flight.
LEMMA CountsByFlight ==
  /\ SweepLast <=> \A i \in Ids : Ordered(fl[i])
  /\ \A i : i \in Unreleased <=> i \in Ids /\ Counted(fl[i])
  /\ \A i, n : <<i, n>> \in Grants <=> i \in Ids /\ n \in 1 .. Load(fl[i])
  /\ \A g \in Grants : g = <<g[1], g[2]>>
<1>1. \A i : Holds(i) = Load(fl[i])
  BY DEF Holds, Load
<1>2. /\ \A i, n : <<i, n>> \in Grants <=> i \in Ids /\ n \in 1 .. Holds(i)
      /\ \A g \in Grants : g = <<g[1], g[2]>>
  BY DEF Grants
<1>3. SweepLast <=> \A i \in Ids : Ordered(fl[i])
  BY DEF SweepLast, Ordered
<1>4. \A i : i \in Unreleased <=> i \in Ids /\ Counted(fl[i])
  BY DEF Unreleased, Counted
<1> QED
  BY <1>1, <1>2, <1>3, <1>4

\* The same of the state after a step.
LEMMA CountsByFlightNext ==
  /\ SweepLast' <=> \A i \in Ids' : Ordered(fl'[i])
  /\ \A i : i \in Unreleased' <=> i \in Ids' /\ Counted(fl'[i])
  /\ \A i, n : <<i, n>> \in Grants' <=> i \in Ids' /\ n \in 1 .. Load(fl'[i])
  /\ \A g \in Grants' : g = <<g[1], g[2]>>
<1>1. \A i : Holds(i)' = Load(fl'[i])
  BY DEF Holds, Load
<1>2. /\ \A i, n : <<i, n>> \in Grants' <=> i \in Ids' /\ n \in 1 .. Holds(i)'
      /\ \A g \in Grants' : g = <<g[1], g[2]>>
  BY DEF Grants
<1>3. SweepLast' <=> \A i \in Ids' : Ordered(fl'[i])
  BY DEF SweepLast, Ordered
<1>4. \A i : i \in Unreleased' <=> i \in Ids' /\ Counted(fl'[i])
  BY DEF Unreleased, Counted
<1> QED
  BY <1>1, <1>2, <1>3, <1>4

\* What a step of one flight leaves alone.
LEMMA SetFacts ==
  ASSUME FlightTypes, NEW i \in Ids, NEW y \in Flight, Set(i, y)
  PROVE  /\ Ids' = Ids /\ fl'[i] = y /\ \A j \in Ids \ {i} : fl'[j] = fl[j]
         /\ \A j \in Ids : Load(fl[j]) \in Nat
         /\ Load(y) \in Nat
         /\ Len(fl') = Len(fl) /\ Len(fl) \in Nat
<1>1. \A x \in Flight : Load(x) \in Nat
  BY DEF Load, Flight
<1> QED
  BY <1>1 DEF FlightTypes, Ids, Set

\* One flight moves, no computation starts or ends, and the slots it takes or
\* gives back leave or enter the free ones.
LEMMA SlotsMove ==
  ASSUME FlightTypes, FlightTypes', CountsInv, NEW i \in Ids, NEW y \in Flight, Set(i, y),
         SameCount(fl[i], y), computing' = computing, sweeper' \in 0 .. Len(fl),
         \/ Load(y) = Load(fl[i]) /\ free' = free
         \/ Load(y) = Load(fl[i]) + 1 /\ free > 0 /\ free' = free - 1
         \/ Load(y) = Load(fl[i]) - 1 /\ free' = free + 1
  PROVE  CountsInv'
<1> DEFINE n == Load(fl[i])
<1>1. /\ Ids' = Ids /\ fl'[i] = y /\ \A j \in Ids \ {i} : fl'[j] = fl[j]
      /\ n \in Nat /\ Load(y) \in Nat /\ Len(fl') = Len(fl) /\ Len(fl) \in Nat
  BY SetFacts
<1>2. SweepLast' /\ Unreleased' = Unreleased
  BY <1>1, CountsByFlight, CountsByFlightNext DEF SameCount, CountsInv
<1>3. /\ IsFiniteSet(Grants) /\ free \in Nat /\ computing \in Nat
      /\ free + Cardinality(Grants) = Slots /\ Cardinality(Grants) \in Nat
  BY FS_CardinalityType DEF CountsInv, ComputationsBounded, TypeOK, SlotsAccounted
<1>4. ASSUME NEW j \in Ids, j # i, NEW m PROVE <<j, m>> \in Grants' <=> <<j, m>> \in Grants
  BY <1>1, <1>4, CountsByFlight, CountsByFlightNext
<1>5. ASSUME NEW m PROVE /\ <<i, m>> \in Grants <=> m \in 1 .. n
                         /\ <<i, m>> \in Grants' <=> m \in 1 .. Load(y)
  BY <1>1, CountsByFlight, CountsByFlightNext
<1>6. /\ \A g \in Grants : g = <<g[1], g[2]>> /\ g[1] \in Ids
      /\ \A g \in Grants' : g = <<g[1], g[2]>> /\ g[1] \in Ids
  BY <1>1, CountsByFlight, CountsByFlightNext
<1> HIDE DEF n
<1>7. ASSUME Load(y) = n, free' = free
      PROVE  IsFiniteSet(Grants') /\ free' \in Nat /\ free' + Cardinality(Grants') = Slots
  <2>1. \A g : g \in Grants' <=> g \in Grants
    BY <1>4, <1>5, <1>6, <1>7
  <2>2. Grants' = Grants
    BY <2>1
  <2> QED
    BY <1>3, <1>7, <2>2
<1>8. ASSUME Load(y) = n + 1, free > 0, free' = free - 1
      PROVE  IsFiniteSet(Grants') /\ free' \in Nat /\ free' + Cardinality(Grants') = Slots
  <2>1. \A m : m \in 1 .. (n + 1) <=> m \in 1 .. n \/ m = n + 1
    BY <1>1
  <2>2. \A g : g \in Grants' <=> g \in Grants \/ g = <<i, n + 1>>
    BY <1>4, <1>5, <1>6, <1>8, <2>1
  <2>3. Grants' = Grants \cup {<<i, n + 1>>} /\ <<i, n + 1>> \notin Grants
    BY <1>1, <1>5, <2>2
  <2>4. IsFiniteSet(Grants') /\ Cardinality(Grants') = Cardinality(Grants) + 1
    BY <1>3, <2>3, FS_AddElement
  <2> QED
    BY <1>3, <1>8, <2>4, FleetConfigOK
<1>9. ASSUME Load(y) = n - 1, free' = free + 1
      PROVE  IsFiniteSet(Grants') /\ free' \in Nat /\ free' + Cardinality(Grants') = Slots
  <2>0. n \in 1 .. n
    BY <1>1, <1>9
  <2>1. \A m : m \in 1 .. (n - 1) <=> m \in 1 .. n /\ m # n
    BY <1>1, <1>9
  <2>2. \A g : g \in Grants' <=> g \in Grants /\ g # <<i, n>>
    BY <1>4, <1>5, <1>6, <1>9, <2>1
  <2>3. Grants' = Grants \ {<<i, n>>} /\ <<i, n>> \in Grants
    BY <1>5, <2>0, <2>2
  <2>4. IsFiniteSet(Grants') /\ Cardinality(Grants') = Cardinality(Grants) - 1
    BY <1>3, <2>3, FS_RemoveElement
  <2> QED
    BY <1>3, <1>9, <2>4, FleetConfigOK
<1>10. IsFiniteSet(Grants') /\ free' \in Nat /\ free' + Cardinality(Grants') = Slots
  BY <1>7, <1>8, <1>9 DEF n
<1>11. ComputationsBounded'
  BY <1>1, <1>2, <1>10 DEF CountsInv, ComputationsBounded, TypeOK
<1> QED
  BY <1>2, <1>10, <1>11 DEF CountsInv, SlotsAccounted

\* Where the dispatch loop goes on, and what it leaves alone.
LEMMA LoopedEffect ==
  ASSUME NEW z \in Flight
  PROVE  /\ Looped(z) \in Flight
         /\ Looped(z).running = z.running /\ Looped(z).sweeping = z.sweeping
         /\ Looped(z).pc = "drain" \/ Looped(z).pc = IF z.sweeping THEN "check" ELSE "acquire"
BY DEF Looped, Flight, PCs, Raws

\* Going round the loop from a state that counts as x and holds nothing itself.
LEMMA LoopedCounts ==
  ASSUME NEW x \in Flight, NEW z \in Flight, z.sweeping = x.sweeping, Counted(x) <=> ~x.sweeping
  PROVE  /\ Looped(z) \in Flight /\ SameCount(x, Looped(z)) /\ Load(Looped(z)) = z.running
<1> DEFINE y == Looped(z)
<1>1. /\ y \in Flight /\ y.running = z.running /\ y.sweeping = x.sweeping
      /\ y.pc = "drain" \/ y.pc = IF x.sweeping THEN "check" ELSE "acquire"
      /\ x.sweeping \in BOOLEAN /\ z.running \in Nat
  BY LoopedEffect DEF Flight
<1> HIDE DEF y
<1>2. Ordered(y) /\ (Counted(y) <=> ~x.sweeping)
  BY <1>1 DEF Ordered, Counted, PCs
<1>3. Load(y) = z.running
  BY <1>1 DEF Load
<1> QED
  BY <1>1, <1>2, <1>3 DEF SameCount, y

LEMMA ScoringCounts ==
  ASSUME NEW x \in Flight, NEW z \in Flight, z.sweeping = x.sweeping, Counted(x) <=> ~x.sweeping,
         NEW cands \in Nat, NEW sql \in Nat
  PROVE  /\ Scoring(z, cands, sql) \in Flight /\ SameCount(x, Scoring(z, cands, sql))
         /\ Load(Scoring(z, cands, sql)) = z.running
<1> DEFINE u == [z EXCEPT !.cands = cands, !.sql = sql,
                          !.raws = IF cands > 0 THEN "reading" ELSE "none"]
<1>1. u \in Flight /\ u.sweeping = x.sweeping /\ u.running = z.running
  BY DEF Flight, Raws
<1> HIDE DEF u
<1>2. Scoring(z, cands, sql) = Looped(u)
  BY DEF Scoring, u
<1> QED
  BY <1>1, <1>2, LoopedCounts

\* A flight that only moves on: to q, with nothing running started or ended.
LEMMA PcCounts ==
  ASSUME NEW x \in Flight, NEW y \in Flight, y.running = x.running, y.sweeping = x.sweeping,
         Ordered(y), Counted(x) <=> Counted(y)
  PROVE  /\ SameCount(x, y)
         /\ x.pc = "held" <=> y.pc = "held" => Load(y) = Load(x)
         /\ x.pc # "held" /\ y.pc = "held" => Load(y) = Load(x) + 1
         /\ x.pc = "held" /\ y.pc # "held" => Load(y) = Load(x) - 1
<1>1. x.running \in Nat
  BY DEF Flight
<1> QED
  BY <1>1 DEF SameCount, Load

\* The steps of one flight that start or end no computation.
LEMMA FlightCounts ==
  ASSUME FlightInv, FlightInv', CountsInv, NEW i \in Ids,
         (Step(i) /\ ~Release(i)) \/ Panic(i) \/ ReadRaw(i) \/ JobDone(i) \/ Expire(i)
  PROVE  CountsInv'
<1> DEFINE x == fl[i]
<1>0. /\ x \in Flight /\ Ordered(x) /\ FlightTypes /\ FlightTypes'
      /\ x.pc \in PCs /\ x.sweeping \in BOOLEAN /\ x.running \in Nat
      /\ sweeper \in 0 .. Len(fl) /\ free \in Nat /\ Len(fl) \in Nat
  <2>1. x \in Flight /\ FlightTypes /\ FlightTypes' /\ Len(fl) \in Nat
    BY FlightFacts DEF FlightInv
  <2>2. Ordered(x)
    BY CountsByFlight DEF CountsInv
  <2>3. sweeper \in 0 .. Len(fl) /\ free \in Nat
    BY DEF CountsInv, ComputationsBounded, TypeOK
  <2> HIDE DEF x
  <2> QED
    BY <2>1, <2>2, <2>3 DEF Flight
\* A step that takes or gives back no slot, a step that takes one, and a step
\* that gives one back.
<1>a. ASSUME NEW y \in Flight, Set(i, y), SameCount(x, y), Load(y) = Load(x),
             UNCHANGED <<computing, free>>, sweeper' \in 0 .. Len(fl)
      PROVE  CountsInv'
  BY <1>0, <1>a, SlotsMove
<1>b. ASSUME NEW y \in Flight, Set(i, y), SameCount(x, y), Load(y) = Load(x) + 1,
             free > 0, free' = free - 1, UNCHANGED <<computing, sweeper>>
      PROVE  CountsInv'
  BY <1>0, <1>b, SlotsMove
<1>c. ASSUME NEW y \in Flight, Set(i, y), SameCount(x, y), Load(y) = Load(x) - 1,
             free' = free + 1, UNCHANGED <<computing, sweeper>>
      PROVE  CountsInv'
  BY <1>0, <1>c, SlotsMove
<1>1. ASSUME NEW cands \in 0 .. MaxJobs, NEW sql \in 0 .. MaxJobs,
             NEW rest \in 0 .. MaxJobs, Plan(i, cands, sql, rest)
      PROVE  CountsInv'
  <2> DEFINE y == Scoring([x EXCEPT !.rest = rest], cands, sql)
  <2>1. x.pc = "plan" /\ Set(i, y) /\ UNCHANGED <<computing, free, sweeper>>
    BY <1>1 DEF Plan
  <2> HIDE DEF x
  <2>a. cands \in Nat /\ sql \in Nat /\ rest \in Nat
    BY FleetConfigOK
  <2>2. /\ [x EXCEPT !.rest = rest] \in Flight /\ [x EXCEPT !.rest = rest].sweeping = x.sweeping
        /\ [x EXCEPT !.rest = rest].running = x.running
    <3> HIDE DEF y
    <3> QED
      BY <1>0, <2>a DEF Flight
  <2>3. Counted(x) <=> ~x.sweeping
    BY <1>0, <2>1 DEF Counted
  <2>4. y \in Flight /\ SameCount(x, y) /\ Load(y) = x.running
    BY <1>0, <2>a, <2>2, <2>3, ScoringCounts
  <2>5. Load(x) = x.running
    BY <1>0, <2>1 DEF Load
  <2> HIDE DEF y
  <2> QED
    BY <1>0, <1>a, <2>1, <2>4, <2>5
<1>2. ASSUME Acquire(i) PROVE CountsInv'
  <2> DEFINE y == [x EXCEPT !.pc = "held"]
  <2>1. x.pc = "acquire" /\ free > 0 /\ free' = free - 1 /\ Set(i, y) /\ UNCHANGED <<computing, sweeper>>
    BY <1>2 DEF Acquire
  <2> HIDE DEF x
  <2>2. y \in Flight /\ y.pc = "held" /\ y.running = x.running /\ y.sweeping = x.sweeping
    BY <1>0 DEF Flight, PCs
  <2> HIDE DEF y
  <2>3. Ordered(y) /\ (Counted(x) <=> Counted(y))
    BY <1>0, <2>1, <2>2 DEF Ordered, Counted, PCs
  <2>4. SameCount(x, y) /\ Load(y) = Load(x) + 1
    BY <1>0, <2>1, <2>2, <2>3, PcCounts
  <2> QED
    BY <1>b, <2>1, <2>2, <2>4
<1>3. ASSUME Dispatch(i) PROVE CountsInv'
  <2> DEFINE u == [x EXCEPT !.raws = IF @ = "sent" THEN "got" ELSE @]
  <2>1. /\ x.pc = "held" /\ UNCHANGED <<computing, sweeper>>
        /\ \/ /\ u.cands > 0
              /\ Set(i, Looped([u EXCEPT !.cands = @ - 1, !.running = @ + 1]))
              /\ UNCHANGED free
           \/ /\ u.sql > 0
              /\ Set(i, Looped([u EXCEPT !.sql = @ - 1, !.running = @ + 1]))
              /\ UNCHANGED free
           \/ /\ Set(i, [u EXCEPT !.pc = "raw"])
              /\ free' = free + 1
    BY <1>3 DEF Dispatch
  <2> HIDE DEF x
  <2>2. /\ u \in Flight /\ u.pc = "held" /\ u.running = x.running /\ u.sweeping = x.sweeping
    BY <1>0, <2>1 DEF Flight, Raws
  <2> HIDE DEF u
  <2>3. (Counted(x) <=> ~x.sweeping) /\ Load(x) = x.running + 1
    BY <1>0, <2>1 DEF Counted, Load
  <2>4. ASSUME NEW z \in Flight, z.sweeping = x.sweeping, z.running = x.running + 1,
               Set(i, Looped(z)), free' = free
        PROVE  CountsInv'
    <3>1. Looped(z) \in Flight /\ SameCount(x, Looped(z)) /\ Load(Looped(z)) = Load(x)
      BY <1>0, <2>3, <2>4, LoopedCounts
    <3> QED
      BY <1>0, <1>a, <2>1, <2>4, <3>1
  <2>5. ASSUME u.cands > 0, Set(i, Looped([u EXCEPT !.cands = @ - 1, !.running = @ + 1])), free' = free
        PROVE  CountsInv'
    <3> DEFINE a == u.cands - 1
               b == u.running + 1
               z == [u EXCEPT !.cands = a, !.running = b]
    <3>1. a \in Nat /\ b \in Nat /\ b = x.running + 1
      BY <2>2, <2>5 DEF Flight
    <3>2. z = [u EXCEPT !.cands = @ - 1, !.running = @ + 1]
      BY <2>2 DEF Flight
    <3> HIDE DEF a, b
    <3>3. z \in Flight /\ z.sweeping = x.sweeping /\ z.running = b
      BY <2>2, <3>1 DEF Flight
    <3> HIDE DEF z
    <3> QED
      BY <2>4, <2>5, <3>1, <3>2, <3>3
  <2>6. ASSUME u.sql > 0, Set(i, Looped([u EXCEPT !.sql = @ - 1, !.running = @ + 1])), free' = free
        PROVE  CountsInv'
    <3> DEFINE a == u.sql - 1
               b == u.running + 1
               z == [u EXCEPT !.sql = a, !.running = b]
    <3>1. a \in Nat /\ b \in Nat /\ b = x.running + 1
      BY <2>2, <2>6 DEF Flight
    <3>2. z = [u EXCEPT !.sql = @ - 1, !.running = @ + 1]
      BY <2>2 DEF Flight
    <3> HIDE DEF a, b
    <3>3. z \in Flight /\ z.sweeping = x.sweeping /\ z.running = b
      BY <2>2, <3>1 DEF Flight
    <3> HIDE DEF z
    <3> QED
      BY <2>4, <2>6, <3>1, <3>2, <3>3
  <2>7. ASSUME Set(i, [u EXCEPT !.pc = "raw"]), free' = free + 1 PROVE CountsInv'
    <3> DEFINE y == [u EXCEPT !.pc = "raw"]
    <3>1. y \in Flight /\ y.pc = "raw" /\ y.running = x.running /\ y.sweeping = x.sweeping
      BY <2>2 DEF Flight, PCs
    <3>2. Set(i, y)
      BY <2>7
    <3> HIDE DEF y
    <3>3. Ordered(y) /\ (Counted(x) <=> Counted(y))
      BY <1>0, <2>1, <3>1 DEF Ordered, Counted, PCs
    <3>4. SameCount(x, y) /\ Load(y) = Load(x) - 1
      BY <1>0, <2>1, <3>1, <3>3, PcCounts
    <3> QED
      BY <1>c, <2>1, <2>7, <3>1, <3>2, <3>4
  <2> QED
    BY <2>1, <2>5, <2>6, <2>7
<1>4. ASSUME GetRaw(i) PROVE CountsInv'
  <2> DEFINE z == [x EXCEPT !.raws = "got"]
  <2>1. x.pc = "raw" /\ Set(i, Looped(z)) /\ UNCHANGED <<computing, free, sweeper>>
    BY <1>4 DEF GetRaw
  <2> HIDE DEF x
  <2>2. z \in Flight /\ z.sweeping = x.sweeping /\ z.running = x.running
    BY <1>0 DEF Flight, Raws
  <2> HIDE DEF z
  <2>3. (Counted(x) <=> ~x.sweeping) /\ Load(x) = x.running
    BY <1>0, <2>1 DEF Counted, Load
  <2>4. Looped(z) \in Flight /\ SameCount(x, Looped(z)) /\ Load(Looped(z)) = Load(x)
    BY <1>0, <2>2, <2>3, LoopedCounts
  <2> QED
    BY <1>0, <1>a, <2>1, <2>4
<1>5. ASSUME JobDone(i) PROVE CountsInv'
  <2> DEFINE b == x.running - 1
             y == [x EXCEPT !.running = b]
  <2>1. x.running > 0 /\ free' = free + 1 /\ Set(i, y) /\ UNCHANGED <<computing, sweeper>>
    BY <1>0, <1>5 DEF JobDone, Flight
  <2> HIDE DEF x
  <2>2. b \in Nat /\ x.running = b + 1
    BY <1>0, <2>1
  <2> HIDE DEF b
  <2>3. y \in Flight /\ y.pc = x.pc /\ y.running = b /\ y.sweeping = x.sweeping
    BY <1>0, <2>2 DEF Flight
  <2> HIDE DEF y
  <2>4. SameCount(x, y)
    BY <1>0, <2>3 DEF SameCount, Ordered, Counted
  <2>5. Load(y) = Load(x) - 1
    BY <2>2, <2>3 DEF Load
  <2> QED
    BY <1>c, <2>1, <2>3, <2>4, <2>5
<1>6. ASSUME TryIdle(i) PROVE CountsInv'
  <2> DEFINE q == IF free > 0 THEN "held" ELSE "check"
             y == [x EXCEPT !.pc = q]
  <2>1. /\ x.pc = "try" /\ Set(i, y) /\ UNCHANGED <<computing, sweeper>>
        /\ free' = IF free > 0 THEN free - 1 ELSE free
    BY <1>6 DEF TryIdle
  <2>2. q \in PCs /\ q \in {"held", "check"} /\ (q = "held" <=> free > 0)
    BY DEF PCs
  <2> HIDE DEF x, q
  <2>3. y \in Flight /\ y.pc = q /\ y.running = x.running /\ y.sweeping = x.sweeping
    BY <1>0, <2>2 DEF Flight
  <2> HIDE DEF y
  <2>4. Ordered(y) /\ (Counted(x) <=> Counted(y))
    BY <1>0, <2>1, <2>2, <2>3 DEF Ordered, Counted, PCs
  <2>5. CASE free > 0
    BY <1>0, <1>b, <2>1, <2>2, <2>3, <2>4, <2>5, PcCounts
  <2>6. CASE ~(free > 0)
    BY <1>0, <1>a, <2>1, <2>2, <2>3, <2>4, <2>6, PcCounts
  <2> QED
    BY <2>5, <2>6
<1>7. ASSUME StartSweep(i) PROVE CountsInv'
  <2>1. x.pc = "released" /\ ~x.sweeping /\ Load(x) = x.running
    <3>1. x.pc = "released"
      BY <1>7 DEF StartSweep
    <3> QED
      BY <1>0, <3>1 DEF Ordered, Load
  <2>2. CASE sweeper = 0
    <3> DEFINE z == [x EXCEPT !.sweeping = TRUE, !.rest = 0]
               y == Scoring(z, x.rest, 0)
    <3>1. Set(i, y) /\ sweeper' = i /\ UNCHANGED <<computing, free>>
      BY <1>7, <2>2 DEF StartSweep
    <3> HIDE DEF x
    <3>2. z \in Flight /\ z.sweeping = TRUE /\ z.running = x.running /\ x.rest \in Nat /\ z.pc = "released"
      BY <1>0, <2>1 DEF Flight
    <3> HIDE DEF z
    <3>3. ~Counted(z) /\ ~Counted(x)
      BY <2>1, <3>2 DEF Counted
    <3>4. y \in Flight /\ SameCount(z, y) /\ Load(y) = x.running
      BY <3>2, <3>3, ScoringCounts
    <3>5. SameCount(x, y)
      BY <3>3, <3>4 DEF SameCount
    <3>6. sweeper' \in 0 .. Len(fl)
      BY <1>0, <3>1 DEF Ids
    <3> HIDE DEF y
    <3> QED
      BY <1>a, <2>1, <3>1, <3>4, <3>5, <3>6
  <2>3. CASE sweeper # 0
    <3> DEFINE y == [x EXCEPT !.pc = "ended", !.rest = 0]
    <3>1. Set(i, y) /\ UNCHANGED <<computing, free, sweeper>>
      BY <1>7, <2>3 DEF StartSweep
    <3> HIDE DEF x
    <3>2. y \in Flight /\ y.pc = "ended" /\ y.running = x.running /\ y.sweeping = x.sweeping
      BY <1>0 DEF Flight, PCs
    <3> HIDE DEF y
    <3>3. Ordered(y) /\ (Counted(x) <=> Counted(y))
      BY <1>0, <2>1, <3>2 DEF Ordered, Counted, PCs
    <3>4. SameCount(x, y) /\ Load(y) = Load(x)
      BY <1>0, <2>1, <3>2, <3>3, PcCounts
    <3> QED
      BY <1>0, <1>a, <3>1, <3>2, <3>4
  <2> QED
    BY <2>2, <2>3
\* The others move without a slot in hand, or do not move at all.
<1>8. ASSUME NEW y \in Flight, Set(i, y), y.running = x.running, y.sweeping = x.sweeping,
             \/ y.pc = x.pc
             \/ x.pc \in {"acquire", "raw", "check"} /\ y.pc = "drain"
             \/ x.pc = "drain" /\ ~x.sweeping /\ y.pc = "published"
             \/ x.pc = "plan" /\ y.pc = "panicked"
             \/ x.pc = "check" /\ y.pc = "try"
             \/ x.pc = "drain" /\ x.sweeping /\ y.pc = "ended",
             UNCHANGED <<computing, free>>, sweeper' \in 0 .. Len(fl)
      PROVE  CountsInv'
  <2> HIDE DEF x
  <2>1. Ordered(y) /\ (Counted(x) <=> Counted(y)) /\ (x.pc = "held" <=> y.pc = "held")
    BY <1>0, <1>8 DEF Ordered, Counted, PCs
  <2>2. SameCount(x, y) /\ Load(y) = Load(x)
    BY <1>0, <1>8, <2>1, PcCounts
  <2> QED
    BY <1>a, <1>8, <2>2
<1>9. ASSUME Deadline(i) PROVE CountsInv'
  <2> DEFINE y == [x EXCEPT !.pc = "drain", !.cands = 0, !.sql = 0, !.rest = 0, !.raws = "none"]
  <2>1. x.pc \in {"acquire", "raw", "check"} /\ Set(i, y) /\ UNCHANGED <<computing, free, sweeper>>
    BY <1>9 DEF Deadline
  <2> HIDE DEF x
  <2>2. y \in Flight /\ y.pc = "drain" /\ y.running = x.running /\ y.sweeping = x.sweeping
    BY <1>0 DEF Flight, PCs, Raws
  <2> HIDE DEF y
  <2> QED
    BY <1>0, <1>8, <2>1, <2>2
<1>10. ASSUME Publish(i) PROVE CountsInv'
  <2> DEFINE y == [x EXCEPT !.pc = "published", !.done = TRUE]
  <2>1. x.pc = "drain" /\ ~x.sweeping /\ Set(i, y) /\ UNCHANGED <<computing, free, sweeper>>
    BY <1>10 DEF Publish
  <2> HIDE DEF x
  <2>2. y \in Flight /\ y.pc = "published" /\ y.running = x.running /\ y.sweeping = x.sweeping
    BY <1>0 DEF Flight, PCs
  <2> HIDE DEF y
  <2> QED
    BY <1>0, <1>8, <2>1, <2>2
<1>11. ASSUME CheckIdle(i) PROVE CountsInv'
  <2> DEFINE y == [x EXCEPT !.pc = "try"]
  <2>1. x.pc = "check" /\ Set(i, y) /\ UNCHANGED <<computing, free, sweeper>>
    BY <1>11 DEF CheckIdle
  <2> HIDE DEF x
  <2>2. y \in Flight /\ y.pc = "try" /\ y.running = x.running /\ y.sweeping = x.sweeping
    BY <1>0 DEF Flight, PCs
  <2> HIDE DEF y
  <2> QED
    BY <1>0, <1>8, <2>1, <2>2
<1>12. ASSUME EndSweep(i) PROVE CountsInv'
  <2> DEFINE y == [x EXCEPT !.pc = "ended"]
  <2>1. x.pc = "drain" /\ x.sweeping /\ Set(i, y) /\ UNCHANGED <<computing, free>> /\ sweeper' = 0
    BY <1>12 DEF EndSweep
  <2> HIDE DEF x
  <2>2. y \in Flight /\ y.pc = "ended" /\ y.running = x.running /\ y.sweeping = x.sweeping
    BY <1>0 DEF Flight, PCs
  <2> HIDE DEF y
  <2>3. sweeper' \in 0 .. Len(fl)
    BY <1>0, <2>1
  <2> QED
    BY <1>8, <2>1, <2>2, <2>3
<1>13. ASSUME Panic(i) PROVE CountsInv'
  <2> DEFINE y == [x EXCEPT !.pc = "panicked", !.done = TRUE, !.expired = TRUE]
  <2>1. x.pc = "plan" /\ Set(i, y) /\ UNCHANGED <<computing, free, sweeper>>
    BY <1>13 DEF Panic
  <2> HIDE DEF x
  <2>2. y \in Flight /\ y.pc = "panicked" /\ y.running = x.running /\ y.sweeping = x.sweeping
    BY <1>0 DEF Flight, PCs
  <2> HIDE DEF y
  <2> QED
    BY <1>0, <1>8, <2>1, <2>2
<1>14. ASSUME ReadRaw(i) PROVE CountsInv'
  <2> DEFINE y == [x EXCEPT !.raws = "sent"]
  <2>1. Set(i, y) /\ UNCHANGED <<computing, free, sweeper>>
    BY <1>14 DEF ReadRaw
  <2> HIDE DEF x
  <2>2. y \in Flight /\ y.pc = x.pc /\ y.running = x.running /\ y.sweeping = x.sweeping
    BY <1>0 DEF Flight, Raws
  <2> HIDE DEF y
  <2> QED
    BY <1>0, <1>8, <2>1, <2>2
<1>15. ASSUME Expire(i) PROVE CountsInv'
  <2> DEFINE y == [x EXCEPT !.expired = TRUE]
  <2>1. Set(i, y) /\ UNCHANGED <<computing, free, sweeper>>
    BY <1>15 DEF Expire
  <2> HIDE DEF x
  <2>2. y \in Flight /\ y.pc = x.pc /\ y.running = x.running /\ y.sweeping = x.sweeping
    BY <1>0 DEF Flight
  <2> HIDE DEF y
  <2> QED
    BY <1>0, <1>8, <2>1, <2>2
<1> QED
  BY <1>1, <1>2, <1>3, <1>4, <1>5, <1>6, <1>7, <1>9, <1>10, <1>11, <1>12, <1>13, <1>14, <1>15 DEF Step

\* release takes exactly the computation it ends off the count.
LEMMA ReleaseCounts ==
  ASSUME FlightInv, FlightInv', CountsInv, NEW i \in Ids, Release(i)
  PROVE  CountsInv'
<1> DEFINE x == fl[i]
           q == IF x.pc = "published" THEN "released" ELSE "ended"
           y == [x EXCEPT !.pc = q]
<1>1. x \in Flight /\ FlightTypes /\ FlightTypes' /\ Len(fl) \in Nat
  BY FlightFacts DEF FlightInv
<1>2. /\ x.pc \in {"published", "panicked"} /\ Set(i, y) /\ computing' = computing - 1
      /\ free' = free /\ sweeper' = sweeper
  BY <1>1 DEF Release, Flight
<1>3. Ordered(x)
  BY CountsByFlight DEF CountsInv
<1>4. ~x.sweeping
  BY <1>2, <1>3 DEF Ordered
<1>5. q \in {"released", "ended"} /\ q \in PCs
  BY DEF PCs
<1>6. Counted(x)
  BY <1>2, <1>4 DEF Counted, PCs
<1> HIDE DEF x, q
<1>7. y \in Flight /\ y.pc = q /\ y.running = x.running /\ y.sweeping = x.sweeping
  BY <1>1, <1>5 DEF Flight
<1> HIDE DEF y
<1>8. Ordered(y) /\ ~Counted(y) /\ Load(y) = Load(x)
  BY <1>2, <1>4, <1>5, <1>7 DEF Ordered, Counted, Load
<1>9. Ids' = Ids /\ fl'[i] = y /\ (\A j \in Ids \ {i} : fl'[j] = fl[j]) /\ Len(fl') = Len(fl)
  BY <1>1, <1>2, <1>7, SetFacts
<1>10. SweepLast'
  BY <1>8, <1>9, CountsByFlight, CountsByFlightNext DEF CountsInv
<1>11. Grants' = Grants
  <2>1. \A j \in Ids : Load(fl'[j]) = Load(fl[j])
    BY <1>8, <1>9 DEF x
  <2>2. \A j, n : <<j, n>> \in Grants' <=> <<j, n>> \in Grants
    BY <1>9, <2>1, CountsByFlight, CountsByFlightNext
  <2>3. (\A g \in Grants : g = <<g[1], g[2]>>) /\ (\A g \in Grants' : g = <<g[1], g[2]>>)
    BY CountsByFlight, CountsByFlightNext
  <2>4. \A g : g \in Grants' <=> g \in Grants
    BY <2>2, <2>3
  <2> QED
    BY <2>4
<1>12. Unreleased' = Unreleased \ {i} /\ i \in Unreleased
  BY <1>6, <1>8, <1>9, CountsByFlight, CountsByFlightNext DEF x
<1>13. /\ IsFiniteSet(Unreleased) /\ computing = Cardinality(Unreleased) /\ computing \in Nat
       /\ computing <= MaxComputations
  BY DEF CountsInv, ComputationsBounded, TypeOK
<1>14. IsFiniteSet(Unreleased') /\ Cardinality(Unreleased') = Cardinality(Unreleased) - 1
  BY <1>12, <1>13, FS_RemoveElement
<1>15. Cardinality(Unreleased') \in Nat
  BY <1>14, FS_CardinalityType
<1>16. computing' \in Nat /\ computing' = Cardinality(Unreleased') /\ computing' <= MaxComputations
  BY <1>2, <1>13, <1>14, <1>15, FleetConfigOK
<1>17. TypeOK'
  BY <1>1, <1>2, <1>9, <1>16 DEF CountsInv, ComputationsBounded, TypeOK
<1> QED
  BY <1>2, <1>10, <1>11, <1>14, <1>16, <1>17 DEF CountsInv, ComputationsBounded, SlotsAccounted

\* A new flight counts, and holds no slot.
LEMMA TakeOffCounts ==
  ASSUME FlightInv, FlightInv', CountsInv, NEW c \in Callers, NEW k \in Keys, TakeOff(c, k)
  PROVE  CountsInv'
<1> DEFINE new == Len(fl) + 1
           y == NewFlight(k)
<1>1. FlightTypes /\ FlightTypes' /\ Len(fl) \in Nat
  BY FlightFacts DEF FlightInv
<1>2. /\ y.pc = "plan" /\ ~y.sweeping /\ y.running = 0 /\ y \in Flight
  BY DEF NewFlight, Flight, PCs, Raws
<1>3. /\ fl' = Append(fl, y) /\ computing < MaxComputations /\ computing' = computing + 1
      /\ free' = free /\ sweeper' = sweeper
  BY DEF TakeOff
<1> HIDE DEF y
<1>4. Ordered(y) /\ Counted(y) /\ Load(y) = 0
  BY <1>2 DEF Ordered, Counted, Load, PCs
<1>5. /\ Ids' = Ids \cup {new} /\ new \notin Ids /\ Len(fl') = new
      /\ fl'[new] = y /\ \A j \in Ids : fl'[j] = fl[j]
  BY <1>1, <1>2, <1>3 DEF Ids, FlightTypes
<1> HIDE DEF new
<1>6. SweepLast'
  BY <1>4, <1>5, CountsByFlight, CountsByFlightNext DEF CountsInv
<1>7. Grants' = Grants
  <2>1. \A n : n \notin 1 .. Load(fl'[new])
    BY <1>4, <1>5
  <2>2. \A j, n : <<j, n>> \in Grants' <=> <<j, n>> \in Grants
    BY <1>5, <2>1, CountsByFlight, CountsByFlightNext
  <2>3. (\A g \in Grants : g = <<g[1], g[2]>>) /\ (\A g \in Grants' : g = <<g[1], g[2]>>)
    BY CountsByFlight, CountsByFlightNext
  <2>4. \A g : g \in Grants' <=> g \in Grants
    BY <2>2, <2>3
  <2> QED
    BY <2>4
<1>8. Unreleased' = Unreleased \cup {new} /\ new \notin Unreleased
  BY <1>4, <1>5, CountsByFlight, CountsByFlightNext
<1>9. /\ IsFiniteSet(Unreleased) /\ computing = Cardinality(Unreleased) /\ computing \in Nat
  BY DEF CountsInv, ComputationsBounded, TypeOK
<1>10. IsFiniteSet(Unreleased') /\ Cardinality(Unreleased') = Cardinality(Unreleased) + 1
  BY <1>8, <1>9, FS_AddElement
<1>11. computing' \in Nat /\ computing' = Cardinality(Unreleased') /\ computing' <= MaxComputations
  BY <1>3, <1>9, <1>10, FleetConfigOK
<1>12. sweeper' \in 0 .. Len(fl')
  <2>1. sweeper \in 0 .. Len(fl) /\ Len(fl') = Len(fl) + 1
    BY <1>5 DEF CountsInv, ComputationsBounded, TypeOK, new
  <2> QED
    BY <1>1, <1>3, <2>1
<1>13. TypeOK'
  BY <1>1, <1>3, <1>11, <1>12 DEF CountsInv, ComputationsBounded, TypeOK
<1> QED
  BY <1>3, <1>6, <1>7, <1>10, <1>11, <1>13 DEF CountsInv, ComputationsBounded, SlotsAccounted

LEMMA CountsInit == Init => CountsInv
<1> SUFFICES ASSUME Init PROVE CountsInv
  OBVIOUS
<1>1. Ids = {}
  BY DEF Init, Ids
<1>2. Unreleased = {} /\ Grants = {} /\ SweepLast
  BY <1>1 DEF Unreleased, Grants, SweepLast
<1>3. TypeOK
  BY FlightInvInit, FleetConfigOK DEF Init, FlightInv, TypeOK
<1> QED
  BY <1>2, <1>3, FS_EmptySet, FleetConfigOK
     DEF Init, CountsInv, ComputationsBounded, SlotsAccounted

LEMMA CountsStep == FlightInv /\ FlightInv' /\ CountsInv /\ [Next]_vars => CountsInv'
<1> SUFFICES ASSUME FlightInv, FlightInv', CountsInv, [Next]_vars PROVE CountsInv'
  OBVIOUS
\* The steps of the callers and of the timer touch no flight.
<1>1. ASSUME UNCHANGED <<fl, computing, free, sweeper>> PROVE CountsInv'
  <2>1. /\ fl' = fl /\ computing' = computing /\ free' = free /\ sweeper' = sweeper
        /\ FlightTypes'
    BY <1>1 DEF FlightInv
  <2>2. Unreleased' = Unreleased /\ Grants' = Grants /\ (SweepLast' <=> SweepLast)
    BY <2>1 DEF Unreleased, Grants, SweepLast, Ids, Holds
  <2>3. TypeOK'
    BY <2>1 DEF CountsInv, ComputationsBounded, TypeOK
  <2> QED
    BY <2>1, <2>2, <2>3 DEF CountsInv, ComputationsBounded, SlotsAccounted
<1>2. ASSUME NEW c \in Callers, NEW k \in Keys, Share(c, k) PROVE CountsInv'
  BY <1>1, <1>2 DEF Share
<1>3. ASSUME NEW c \in Callers, NEW k \in Keys, TakeOff(c, k) PROVE CountsInv'
  BY <1>3, TakeOffCounts
<1>4. ASSUME NEW c \in Callers, Serve(c) \/ Leave(c) PROVE CountsInv'
  BY <1>1, <1>4 DEF Serve, Leave
<1>5. ASSUME NEW i \in Ids, Forget(i) PROVE CountsInv'
  BY <1>1, <1>5 DEF Forget
<1>6. ASSUME NEW i \in Ids, Step(i) \/ Panic(i) \/ ReadRaw(i) \/ JobDone(i) \/ Expire(i)
      PROVE  CountsInv'
  BY <1>6, FlightCounts, ReleaseCounts
<1>7. CASE Rest \/ UNCHANGED vars
  BY <1>1, <1>7 DEF Rest, vars
<1> QED
  BY <1>2, <1>3, <1>4, <1>5, <1>6, <1>7 DEF Next

\* f.computing is the number of flights that have not released and the slots
\* add up, in every reachable state.
THEOREM CountsInvariant == Spec => []CountsInv
BY CountsInit, CountsStep, FlightInvariant, PTL DEF Spec

\* max_computations is never exceeded and no counter goes below zero, for any
\* number of callers and flights and whichever of them panic.
THEOREM BoundedComputations == Spec => []ComputationsBounded
<1>1. CountsInv => ComputationsBounded
  BY DEF CountsInv
<1> QED
  BY <1>1, CountsInvariant, PTL

\* No slot is lost or given back twice, by computations, jobs and sweeps alike.
THEOREM NoSlotLost == Spec => []SlotsAccounted
<1>1. CountsInv => SlotsAccounted
  BY DEF CountsInv
<1> QED
  BY <1>1, CountsInvariant, PTL
=============================================================================
