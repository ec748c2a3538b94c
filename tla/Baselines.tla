----------------------------- MODULE Baselines -----------------------------
(***************************************************************************)
(* The seasonal baselines of the metrics service                           *)
(* (internal/metrics/service.go, baselines, baselineRound and              *)
(* refreshBaselines).  A call asks for a set of keys.  Under the lock each *)
(* key is found fresh, found in flight with another caller, or taken: the  *)
(* call opens a flight for it.  It then fetches the keys it took in one    *)
(* batch, waits for the flights of the others, and takes what the cache    *)
(* holds; keys the cache does not hold go to another round.                *)
(*                                                                         *)
(* The clock is abstracted to the expiry of an entry, which may happen at  *)
(* any moment; what a baseline says is left out.                           *)
(***************************************************************************)
EXTENDS Naturals, FiniteSets

CONSTANTS
  Callers,      \* requests, each with a context of its own
  Keys          \* pairs of target and signal

VARIABLES
  cache,      \* baseCache: no entry, a fresh one or an expired one
  flight,     \* the keys of baseFlight
  call        \* the state of every request

vars == <<cache, flight, call>>

Call == [pc : {"idle", "partition", "refresh", "wait", "collect"},
         keys : SUBSET Keys,       \* pending keys of this round
         out : SUBSET Keys,        \* keys of this round that were fresh
         mine : SUBSET Keys,       \* flights this call opened
         waitFor : SUBSET Keys,    \* flights of others, still open
         cancelled : BOOLEAN,
         renewed : SUBSET Keys]    \* history: stored while this call waited

AtRest == [pc |-> "idle", keys |-> {}, out |-> {}, mine |-> {}, waitFor |-> {},
           cancelled |-> FALSE, renewed |-> {}]

\* The shape of the cache, the flights and the calls.
TypeOK ==
  /\ cache \in [Keys -> {"none", "fresh", "expired"}]
  /\ flight \in SUBSET Keys
  /\ call \in [Callers -> Call]

Init ==
  /\ cache = [k \in Keys |-> "none"]
  /\ flight = {}
  /\ call = [c \in Callers |-> AtRest]

Fresh(ks) == {k \in ks : cache[k] = "fresh"}

Expire(k) ==
  /\ cache[k] = "fresh"
  /\ cache' = [cache EXCEPT ![k] = "expired"]
  /\ UNCHANGED <<flight, call>>

Cancel(c) ==
  /\ call[c].pc # "idle" /\ ~call[c].cancelled
  /\ call' = [call EXCEPT ![c].cancelled = TRUE]
  /\ UNCHANGED <<cache, flight>>

\* baselines is called.
Begin(c) ==
  /\ call[c].pc = "idle"
  /\ \E ks \in SUBSET Keys \ {{}} :
       call' = [call EXCEPT ![c] = [AtRest EXCEPT !.pc = "partition", !.keys = ks]]
  /\ UNCHANGED <<cache, flight>>

\* Mutated form: a key in flight is taken as well.
TakenAnyway(ks) == {k \in ks : cache[k] # "fresh"}

\* Mutated form: an expired entry is taken whether or not it is fresh again.
TakenFresh(ks) == ks \ flight

\* The keys a round opens flights for: neither fresh nor in flight.
Taken(ks) == {k \in ks : cache[k] # "fresh" /\ k \notin flight}

\* baselineRound's first critical section.
Partition(c) ==
  /\ call[c].pc = "partition"
  /\ LET ks == call[c].keys IN
       /\ call' = [call EXCEPT ![c].pc = "refresh",
                     ![c].out = Fresh(ks),
                     ![c].mine = Taken(ks),
                     ![c].waitFor = (ks \cap flight) \ Fresh(ks)]
       /\ flight' = flight \cup Taken(ks)
  /\ UNCHANGED cache

\* Mutated form: a cancelled refresh returns before it closes its flights.
RefreshLeavesFlights(c) ==
  /\ call[c].pc = "refresh"
  /\ LET ks == IF call[c].cancelled THEN {} ELSE call[c].mine IN
       /\ cache' = [k \in Keys |-> IF k \in ks THEN "fresh" ELSE cache[k]]
       /\ flight' = flight \ ks
       /\ call' = [d \in Callers |->
            [call[d] EXCEPT !.waitFor = @ \ ks,
                            !.renewed = @ \cup (ks \cap call[d].keys),
                            !.pc = IF d = c THEN "wait" ELSE @,
                            !.mine = IF d = c THEN {} ELSE @]]

\* refreshBaselines returned from its fetch: a cancelled refresh caches
\* nothing, any other one an entry per key (a failed key its previous baseline
\* for a shorter time); the flights are closed either way.
Refresh(c) ==
  /\ call[c].pc = "refresh"
  /\ LET ks == call[c].mine
         stored == IF call[c].cancelled THEN {} ELSE ks IN
       /\ cache' = [k \in Keys |-> IF k \in stored THEN "fresh" ELSE cache[k]]
       /\ flight' = flight \ ks
       /\ call' = [d \in Callers |->
            [call[d] EXCEPT !.waitFor = @ \ ks,
                            !.renewed = @ \cup (stored \cap call[d].keys),
                            !.pc = IF d = c THEN "wait" ELSE @,
                            !.mine = IF d = c THEN {} ELSE @]]

\* Every awaited flight is closed, or the context is done.
Wait(c) ==
  /\ call[c].pc = "wait"
  /\ call[c].waitFor = {} \/ call[c].cancelled
  /\ call' = [call EXCEPT ![c].pc = "collect", ![c].waitFor = {}]
  /\ UNCHANGED <<cache, flight>>

Held(c) == {k \in call[c].keys \ call[c].out : cache[k] # "none"}

Left(c) == (call[c].keys \ call[c].out) \ Held(c)

\* baselineRound's second critical section, and the loop of baselines: keys
\* without an entry go to another round unless the context is done.
Collect(c) ==
  /\ call[c].pc = "collect"
  /\ call' = [call EXCEPT ![c] =
       IF Left(c) # {} /\ ~call[c].cancelled
         THEN [AtRest EXCEPT !.pc = "partition", !.keys = Left(c)]
         ELSE AtRest]
  /\ UNCHANGED <<cache, flight>>

CallerStep(c) == Partition(c) \/ Refresh(c) \/ Wait(c) \/ Collect(c)

Next ==
  \/ \E k \in Keys : Expire(k)
  \/ \E c \in Callers : Begin(c) \/ Cancel(c) \/ CallerStep(c)

\* The lock is held for a few map operations only, and a fetch ends with the
\* datasource client's timeout at the latest.
Fairness == \A c \in Callers : WF_vars(CallerStep(c))

Spec == Init /\ [][Next]_vars /\ Fairness

-----------------------------------------------------------------------------
(***************************************************************************)
(* Every open flight is being refreshed by exactly one call, and a call    *)
(* waits only for open flights: no key is fetched twice at once, no flight *)
(* is left that nobody will close, and none is closed twice (closing a     *)
(* channel twice would panic).                                             *)
(***************************************************************************)
FlightsOwned ==
  /\ \A k \in flight : \E c \in Callers : call[c].pc = "refresh" /\ k \in call[c].mine
  /\ \A c \in Callers : call[c].mine \cup call[c].waitFor \subseteq flight
  /\ \A c, d \in Callers : c # d => call[c].mine \cap call[d].mine = {}

(***************************************************************************)
(* A key is refreshed only while it is not fresh: at most once per cache   *)
(* lifetime, however many calls ask for it.                                *)
(***************************************************************************)
RefreshedOncePerTTL == \A k \in flight : cache[k] # "fresh"

(***************************************************************************)
(* The invariant every step of the calls preserves: types, ownership of    *)
(* the flights, and no flight for a fresh key.                             *)
(***************************************************************************)
BaselinesInv == TypeOK /\ FlightsOwned /\ RefreshedOncePerTTL

\* Another request's fetch of a key that c asks for and that has no entry yet
\* is cancelled: the one way a round of c ends with a key left over.
CancelledUnder(c) ==
  \E d \in Callers \ {c} :
    /\ call[d].pc = "refresh" /\ call[d].cancelled
    /\ \E k \in call[d].mine \cap call[c].keys : cache[k] = "none"

(***************************************************************************)
(* Every call returns, with calls that wait for one another's flights and  *)
(* contexts that are cancelled at any moment, unless the fetches it waits  *)
(* for are cancelled for ever: own keys are fetched before any waiting,    *)
(* every refresh closes its flights, and a key once stored keeps an entry. *)
(* The exception is the code's: the loop of baselines has no bound, and a  *)
(* call that finds its key in flight again in every round, each time with  *)
(* a request that is then cancelled, goes round for ever.                  *)
(***************************************************************************)
CallReturns ==
  \A c \in Callers :
    []<>CancelledUnder(c) \/ (call[c].pc # "idle" ~> call[c].pc = "idle")

(***************************************************************************)
(* A call that was not cancelled answers every key from an entry that was  *)
(* stored while this call waited: "if that refresh was cancelled, the      *)
(* key is refreshed again" (the comment of baselines).                     *)
(***************************************************************************)
CancelledIsRefreshedAgain ==
  \A c \in Callers :
    call[c].pc = "collect" /\ ~call[c].cancelled => Held(c) \subseteq call[c].renewed
=============================================================================
