------------------------------- MODULE Tokens -------------------------------
(***************************************************************************)
(* Personal access tokens: the resolver and its cache                      *)
(* (internal/deps/container.go, patResolver), the table behind it          *)
(* (internal/storage/api_tokens.go), the owner's and the administrator's   *)
(* operations (internal/http/pat.go) and the sweep that revokes idle       *)
(* tokens (internal/deps/pat_sweeper.go).                                  *)
(*                                                                         *)
(* A request reads the cache, on a miss reads the table without a lock,    *)
(* stores the decision and may record the use; other requests, revocation, *)
(* expiry and the sweep happen between these steps.  Time is counted in    *)
(* ticks and is the same for the server and the database.                  *)
(***************************************************************************)
EXTENDS Integers, FiniteSets

CONSTANTS
  Callers,        \* concurrent requests
  Keys,           \* hashes of the secrets that are presented
  Secrets,        \* those of them that are tokens, once created
  Lifetimes,      \* lifetimes a token may be created with, Nil for none
  TTL,            \* patCacheTTL
  NegativeTTL,    \* patNegativeTTL
  TouchEvery,     \* patTouchInterval
  Idle,           \* IdleRevokeDays
  CacheSize,      \* patMaxCacheSize
  MaxLookup,      \* bound: ticks between a read of the table and its storing
  MaxNow          \* bound: the clock

Nil == -1

ASSUME TokensAssumption ==
  /\ Keys # {}
  /\ Secrets \subseteq Keys
  /\ Lifetimes \subseteq (Nat \ {0}) \cup {Nil}
  /\ TTL \in Nat /\ NegativeTTL \in Nat /\ TouchEvery \in Nat /\ Idle \in Nat
  /\ CacheSize \in Nat \ {0}
  /\ MaxLookup \in Nat /\ MaxNow \in Nat

VARIABLES
  now,
  row,          \* api_tokens, by hash
  cache,        \* patResolver.cache
  req,          \* the state of every request
  activeAt,     \* history: last moment the table held the key active
  inactiveAt,   \* history: last moment it did not
  acceptedAt,   \* history: last moment the resolver accepted the key
  issuedAt,     \* history: last moment a touch was asked for
  lag           \* history: a touch was asked for and none succeeded since

vars == <<now, row, cache, req, activeAt, inactiveAt, acceptedAt, issuedAt, lag>>

Moment == 0..(MaxNow + TTL + NegativeTTL) \cup {Nil}

\* created_at is Nil for a token that does not exist yet.
Row == [created : Moment, expires : Nat \cup {Nil}, used : Moment, revoked : Moment]
NoRow == [created |-> Nil, expires |-> Nil, used |-> Nil, revoked |-> Nil]

\* patEntry; ok is user # nil, until is expiresAt.
Entry == [ok : BOOLEAN, until : Moment, touched : Moment]
NoEntry == [ok |-> FALSE, until |-> Nil, touched |-> Nil]

Request == [pc : {"idle", "looking", "answered", "touching"}, key : Keys,
            ok : BOOLEAN, expires : Nat \cup {Nil}, at : Moment]
AtRest(k) == [pc |-> "idle", key |-> k, ok |-> FALSE, expires |-> Nil, at |-> Nil]

AnyKey == CHOOSE k \in Keys : TRUE

\* The shape of the table, the cache and the requests: no entry outlives the
\* cache lifetime past the end of the run.
TypeOK ==
  /\ now \in 0..MaxNow
  /\ row \in [Keys -> Row]
  /\ cache \in [Keys -> Entry]
  /\ req \in [Callers -> Request]
  /\ activeAt \in [Keys -> Moment] /\ inactiveAt \in [Keys -> Moment]
  /\ acceptedAt \in [Keys -> Moment] /\ issuedAt \in [Keys -> Moment]
  /\ lag \in [Keys -> BOOLEAN]

Init ==
  /\ now = 0
  /\ row = [k \in Keys |-> NoRow]
  /\ cache = [k \in Keys |-> NoEntry]
  /\ req = [c \in Callers |-> AtRest(AnyKey)]
  /\ activeAt = [k \in Keys |-> Nil]
  /\ inactiveAt = [k \in Keys |-> Nil]
  /\ acceptedAt = [k \in Keys |-> Nil]
  /\ issuedAt = [k \in Keys |-> Nil]
  /\ lag = [k \in Keys |-> FALSE]

-----------------------------------------------------------------------------
\* The table.

Exists(k) == row[k].created # Nil

LastUse(k) == IF row[k].used = Nil THEN row[k].created ELSE row[k].used

\* What both the WHERE clause of ResolveAPIToken and the sweep call idle.
IdleRow(k) == Exists(k) /\ row[k].revoked = Nil /\ LastUse(k) <= now - Idle

\* The WHERE clause of ResolveAPIToken.
Active(k) ==
  /\ Exists(k)
  /\ row[k].revoked = Nil
  /\ row[k].expires = Nil \/ row[k].expires > now
  /\ ~IdleRow(k)

Observe ==
  /\ activeAt' = [k \in Keys |-> IF Active(k) THEN now ELSE activeAt[k]]
  /\ inactiveAt' = [k \in Keys |-> IF Active(k) THEN inactiveAt[k] ELSE now]

\* CreatePersonalToken's checks (of the subject, the role and the name, and its
\* limit on the lifetime) are left out: any token may be created at any time.
CreateAPIToken(k) ==
  /\ ~Exists(k)
  /\ \E life \in Lifetimes :
       row' = [row EXCEPT ![k] = [created |-> now,
                                  expires |-> IF life = Nil THEN Nil ELSE now + life,
                                  used |-> Nil, revoked |-> Nil]]
  /\ UNCHANGED <<now, cache, req, acceptedAt, issuedAt, lag>>

\* By its owner or by an administrator.  The cache is not told.
RevokeAPIToken(k) ==
  /\ Exists(k) /\ row[k].revoked = Nil
  /\ row' = [row EXCEPT ![k].revoked = now]
  /\ UNCHANGED <<now, cache, req, acceptedAt, issuedAt, lag>>

RevokeIdleAPITokens ==
  /\ \E k \in Keys : IdleRow(k)
  /\ row' = [k \in Keys |-> IF IdleRow(k) THEN [row[k] EXCEPT !.revoked = now] ELSE row[k]]
  /\ UNCHANGED <<now, cache, req, acceptedAt, issuedAt, lag>>

-----------------------------------------------------------------------------
\* The cache.

Present(k) == cache[k].until # Nil

Live(k) == Present(k) /\ cache[k].until >= now

Cached == {k \in Keys : Present(k)}

\* Mutated form: the cache may hold one entry more.
FullTooLate == Cardinality(Cached) <= CacheSize

\* evictIfFull returns early while there is room.
HasRoom == Cardinality(Cached) < CacheSize

\* The entries evictIfFull drops first: expired, or negative.
Cheap == {k \in Cached : ~Live(k) \/ ~cache[k].ok}

\* evictIfFull followed by the insertion of entry e under key k.
Insert(k, e) ==
  IF HasRoom THEN cache' = [cache EXCEPT ![k] = e]
  ELSE \E victim \in IF Cheap # {} THEN Cheap ELSE Cached :
         cache' = [cache EXCEPT ![victim] = NoEntry, ![k] = e]

\* A use recorded less than the touch interval ago, in a positive entry.
Throttled(k) == Present(k) /\ cache[k].ok /\ now - cache[k].touched < TouchEvery

Issue(c, k) ==
  /\ req' = [req EXCEPT ![c].pc = "touching", ![c].key = k]
  /\ issuedAt' = [issuedAt EXCEPT ![k] = now]
  /\ lag' = [lag EXCEPT ![k] = TRUE]

Done(c) ==
  /\ req' = [req EXCEPT ![c] = AtRest(AnyKey)]
  /\ UNCHANGED <<issuedAt, lag>>

-----------------------------------------------------------------------------
\* ResolveToken.

\* Mutated form: a hit renews the entry.
AcceptCachedRenews(c, k) ==
  /\ req[c].pc = "idle"
  /\ Live(k) /\ cache[k].ok
  /\ acceptedAt' = [acceptedAt EXCEPT ![k] = now]
  /\ IF Throttled(k)
       THEN Done(c) /\ cache' = [cache EXCEPT ![k].until = now + TTL]
       ELSE Issue(c, k) /\ cache' = [cache EXCEPT ![k].touched = now]
  /\ UNCHANGED <<now, row>>

\* fromCache answers from a live positive entry, and asks for a touch when the
\* entry's last one is an interval ago.
AcceptCached(c, k) ==
  /\ req[c].pc = "idle"
  /\ Live(k) /\ cache[k].ok
  /\ acceptedAt' = [acceptedAt EXCEPT ![k] = now]
  /\ IF Throttled(k)
       THEN Done(c) /\ UNCHANGED cache
       ELSE Issue(c, k) /\ cache' = [cache EXCEPT ![k].touched = now]
  /\ UNCHANGED <<now, row>>

\* No live entry, and the lookup limiter lets the request through.  A live
\* negative entry, another prefix or the limiter reject it and change nothing.
Miss(c, k) ==
  /\ req[c].pc = "idle"
  /\ ~Live(k)
  /\ req' = [req EXCEPT ![c].pc = "looking", ![c].key = k]
  /\ UNCHANGED <<now, row, cache, acceptedAt, issuedAt, lag>>

\* The SELECT of ResolveAPIToken.
ResolveAPIToken(c) ==
  /\ req[c].pc = "looking"
  /\ LET k == req[c].key IN
       req' = [req EXCEPT ![c].pc = "answered", ![c].ok = Active(k), ![c].at = now,
                 ![c].expires = IF Active(k) THEN row[k].expires ELSE Nil]
  /\ UNCHANGED <<now, row, cache, acceptedAt, issuedAt, lag>>

\* Mutated form: the error is cached like an unknown token.
LookupFailsCached(c) ==
  /\ req[c].pc = "looking"
  /\ Insert(req[c].key, [ok |-> FALSE, until |-> now + NegativeTTL, touched |-> Nil])
  /\ Done(c)
  /\ UNCHANGED <<now, row, acceptedAt>>

\* A backend error rejects the request and is not cached.
LookupFails(c) ==
  /\ req[c].pc = "looking"
  /\ Done(c)
  /\ UNCHANGED <<now, row, cache, acceptedAt>>

StoreNegative(c) ==
  /\ req[c].pc = "answered" /\ ~req[c].ok
  /\ Insert(req[c].key, [ok |-> FALSE, until |-> now + NegativeTTL, touched |-> Nil])
  /\ Done(c)
  /\ UNCHANGED <<now, row, acceptedAt>>

\* The end of a positive entry: the cache lifetime, capped at the token's own.
Until(expires) == IF expires # Nil /\ expires < now + TTL THEN expires ELSE now + TTL

\* Mutated form: the throttle window starts again with every store.
TouchedAtNow(k) == now

\* The touchedAt a positive entry is stored with.
TouchedAt(k) == IF Throttled(k) THEN cache[k].touched ELSE now

\* Mutated form: every store asks for a touch.
StorePositiveTouches(c) ==
  /\ req[c].pc = "answered" /\ req[c].ok
  /\ LET k == req[c].key IN
       /\ Insert(k, [ok |-> TRUE, until |-> Until(req[c].expires), touched |-> TouchedAt(k)])
       /\ acceptedAt' = [acceptedAt EXCEPT ![k] = now]
       /\ Issue(c, k)
  /\ UNCHANGED <<now, row>>

StorePositive(c) ==
  /\ req[c].pc = "answered" /\ req[c].ok
  /\ LET k == req[c].key IN
       /\ Insert(k, [ok |-> TRUE, until |-> Until(req[c].expires), touched |-> TouchedAt(k)])
       /\ acceptedAt' = [acceptedAt EXCEPT ![k] = now]
       /\ IF Throttled(k) THEN Done(c) ELSE Issue(c, k)
  /\ UNCHANGED <<now, row>>

\* TouchAPIToken, of a revoked row too.
TouchAPIToken(c) ==
  /\ req[c].pc = "touching"
  /\ LET k == req[c].key IN
       /\ row' = [row EXCEPT ![k].used = now]
       /\ lag' = [lag EXCEPT ![k] = FALSE]
  /\ req' = [req EXCEPT ![c] = AtRest(AnyKey)]
  /\ UNCHANGED <<now, cache, acceptedAt, issuedAt>>

\* Logged only.
TouchFails(c) ==
  /\ req[c].pc = "touching"
  /\ Done(c)
  /\ UNCHANGED <<now, row, cache, acceptedAt>>

-----------------------------------------------------------------------------
\* The server restarts: the cache and the running requests are gone.
Restart ==
  /\ cache' = [k \in Keys |-> NoEntry]
  /\ req' = [c \in Callers |-> AtRest(AnyKey)]
  /\ UNCHANGED <<now, row, acceptedAt, issuedAt, lag>>

\* The clock of the server and the database.  A lookup has no deadline of its
\* own; MaxLookup is how long one takes, and the properties are stated in it.
Tick ==
  /\ now < MaxNow
  /\ \A c \in Callers : req[c].pc = "answered" => now < req[c].at + MaxLookup
  /\ now' = now + 1
  /\ UNCHANGED <<row, cache, req, acceptedAt, issuedAt, lag>>

Step ==
  \/ \E k \in Secrets : CreateAPIToken(k) \/ RevokeAPIToken(k)
  \/ RevokeIdleAPITokens
  \/ \E c \in Callers :
       \/ \E k \in Keys : AcceptCached(c, k) \/ Miss(c, k)
       \/ ResolveAPIToken(c) \/ LookupFails(c)
       \/ StoreNegative(c) \/ StorePositive(c)
       \/ TouchAPIToken(c) \/ TouchFails(c)
  \/ Restart
  \/ Tick

Next == Step /\ Observe

Spec == Init /\ [][Next]_vars

-----------------------------------------------------------------------------
LastActive(k) == IF Active(k) THEN now ELSE activeAt[k]
LastInactive(k) == IF Active(k) THEN inactiveAt[k] ELSE now

(***************************************************************************)
(* A cached identity never answers for a token that was revoked (by its    *)
(* owner, an administrator or the sweep) or went idle longer ago than the  *)
(* cache lifetime plus the time a lookup took: a lookup that read the      *)
(* table before the revocation and stores after it included, since the     *)
(* revocation cannot reach the cache and the lifetime is the only bound.   *)
(* This is the staleness window the comment on patCacheTTL grants.  The    *)
(* manual promises more: revocation is "effective immediately", and the    *)
(* idle cutoff "takes effect the moment it is crossed" (doc/en/auth.md).   *)
(* The code does not keep that: a token revoked while it is cached is      *)
(* accepted until its entry ends.                                          *)
(* Nor is it used past the token's own expiry, however close to it the     *)
(* lookup was (storePositive caps the lifetime).                           *)
(***************************************************************************)
RevokedStopsWorking ==
  \A k \in Keys :
    Live(k) /\ cache[k].ok =>
      /\ LastActive(k) # Nil /\ now - LastActive(k) <= TTL + MaxLookup
      /\ row[k].expires # Nil => now <= row[k].expires

(***************************************************************************)
(* A token that has been active for longer than the negative lifetime plus *)
(* a lookup is never rejected from memory: neither the limiter nor a       *)
(* failed lookup, nor an older negative decision stored late, locks a      *)
(* valid token out for longer.                                             *)
(***************************************************************************)
ValidNotPoisoned ==
  \A k \in Keys :
    Live(k) /\ ~cache[k].ok => now - LastInactive(k) <= NegativeTTL + MaxLookup

(***************************************************************************)
(* A token the sweep may revoke as idle has not been accepted within the   *)
(* idle time less one touch interval, unless a touch asked for since has   *)
(* not arrived: throttling last_used never makes a token in use look       *)
(* forgotten, although most uses are not recorded.                         *)
(***************************************************************************)
UsedIsNotIdle ==
  \A k \in Keys :
    IdleRow(k) /\ ~lag[k] /\ acceptedAt[k] # Nil => acceptedAt[k] <= now - Idle + TouchEvery

(***************************************************************************)
(* Everything keeps its shape, and the cache holds at most its size with    *)
(* concurrent requests inserting (evictIfFull runs before every insert).   *)
(***************************************************************************)
CacheBounded == TypeOK /\ Cardinality(Cached) <= CacheSize

(***************************************************************************)
(* While a token stays cached, its last use is written at most once per    *)
(* touch interval, however often it is looked up again in between: the     *)
(* cache lifetime is shorter than the interval, and touchedAt survives it. *)
(***************************************************************************)
TouchesThrottled ==
  [][\A k \in Keys :
       Present(k) /\ cache[k].ok /\ issuedAt[k] # Nil
         /\ (\E c \in Callers : req'[c].pc = "touching" /\ req[c].pc # "touching" /\ req'[c].key = k)
       => now - issuedAt[k] >= TouchEvery]_vars

-----------------------------------------------------------------------------
(***************************************************************************)
(* What every step preserves, and the properties above follow from.        *)
(***************************************************************************)

\* Nothing is recorded before it happens.
RecordsPast ==
  \A k \in Keys :
    /\ activeAt[k] <= now /\ inactiveAt[k] <= now
    /\ acceptedAt[k] <= now /\ issuedAt[k] <= now
    /\ row[k].created <= now /\ row[k].used <= now
    /\ cache[k].touched <= now

\* An answer of the table on its way to the cache is no older than a lookup
\* takes, and said what the table held.
AnswersRecent ==
  \A c \in Callers :
    LET r == req[c] IN
    r.pc = "answered" =>
      /\ r.at # Nil /\ now <= r.at + MaxLookup
      /\ r.ok => /\ Exists(r.key) /\ r.expires = row[r.key].expires
                 /\ r.at <= LastActive(r.key)
      /\ ~r.ok => r.at <= LastInactive(r.key)

\* An entry ends a lifetime and a lookup after the table last agreed with it,
\* and not after the token.
EntriesBacked ==
  \A k \in Keys :
    Present(k) =>
      /\ cache[k].ok =>
           /\ Exists(k) /\ LastActive(k) # Nil
           /\ cache[k].until <= LastActive(k) + TTL + MaxLookup
           /\ row[k].expires # Nil => cache[k].until <= row[k].expires
      /\ ~cache[k].ok => cache[k].until <= LastInactive(k) + NegativeTTL + MaxLookup

\* An entry's touch is the last one asked for; once one succeeded, the row has
\* it, and the uses since are within an interval of it.
UsesRecorded ==
  \A k \in Keys :
    /\ acceptedAt[k] # Nil =>
         /\ Exists(k)
         /\ ~lag[k] => acceptedAt[k] <= LastUse(k) + TouchEvery
    /\ Present(k) /\ cache[k].ok =>
         /\ issuedAt[k] <= cache[k].touched
         /\ ~lag[k] => cache[k].touched <= LastUse(k)

TokensInv ==
  /\ TypeOK
  /\ IsFiniteSet(Cached) /\ Cardinality(Cached) <= CacheSize
  /\ RecordsPast
  /\ AnswersRecent
  /\ EntriesBacked
  /\ UsesRecorded
=============================================================================
