---------------------------- MODULE TokensProofs ----------------------------
(***************************************************************************)
(* Proofs about Tokens, for every number of concurrent requests, every set *)
(* of keys and lifetimes, every size of the cache and every interval.      *)
(***************************************************************************)
EXTENDS Tokens, FiniteSetTheorems, TLAPS

USE DEF Nil

\* What the table, the cache and the requests consist of.
LEMMA Fields ==
  ASSUME TypeOK
  PROVE  /\ now \in Nat /\ now <= MaxNow
         /\ \A k \in Keys :
              /\ row[k] \in Row /\ row[k].created \in Moment /\ row[k].used \in Moment
              /\ row[k].expires \in Nat \cup {Nil} /\ row[k].revoked \in Moment
              /\ cache[k] \in Entry /\ cache[k].ok \in BOOLEAN
              /\ cache[k].until \in Moment /\ cache[k].touched \in Moment
              /\ activeAt[k] \in Moment /\ inactiveAt[k] \in Moment
              /\ acceptedAt[k] \in Moment /\ issuedAt[k] \in Moment
              /\ lag[k] \in BOOLEAN
         /\ \A c \in Callers :
              /\ req[c] \in Request /\ req[c].key \in Keys /\ req[c].at \in Moment
              /\ req[c].ok \in BOOLEAN /\ req[c].expires \in Nat \cup {Nil}
<1> USE DEF TypeOK
<1>1. now \in Nat /\ now <= MaxNow
  BY TokensAssumption
<1>2. ASSUME NEW k \in Keys
      PROVE  /\ row[k] \in Row /\ row[k].created \in Moment /\ row[k].used \in Moment
             /\ row[k].expires \in Nat \cup {Nil} /\ row[k].revoked \in Moment
  BY DEF Row
<1>3. ASSUME NEW k \in Keys
      PROVE  /\ cache[k] \in Entry /\ cache[k].ok \in BOOLEAN
             /\ cache[k].until \in Moment /\ cache[k].touched \in Moment
  BY DEF Entry
<1>4. ASSUME NEW c \in Callers
      PROVE  /\ req[c] \in Request /\ req[c].key \in Keys /\ req[c].at \in Moment
             /\ req[c].ok \in BOOLEAN /\ req[c].expires \in Nat \cup {Nil}
  BY DEF Request
<1>5. ASSUME NEW k \in Keys
      PROVE  /\ activeAt[k] \in Moment /\ inactiveAt[k] \in Moment
             /\ acceptedAt[k] \in Moment /\ issuedAt[k] \in Moment /\ lag[k] \in BOOLEAN
  OBVIOUS
<1> QED
  BY <1>1, <1>2, <1>3, <1>4, <1>5

\* A moment is an integer, and the clock is one.
LEMMA Moments ==
  /\ Moment \subseteq Int
  /\ Nil \in Moment
  /\ \A t \in 0..MaxNow : t \in Moment /\ t + NegativeTTL \in Moment /\ t + TTL \in Moment
BY TokensAssumption DEF Moment

\* Everything a lifetime is compared with is an integer.
LEMMA Times ==
  ASSUME TypeOK, NEW k \in Keys
  PROVE  /\ now \in Int /\ now >= 0
         /\ cache[k].until \in Int /\ cache[k].touched \in Int
         /\ row[k].expires \in Int /\ row[k].created \in Int /\ row[k].used \in Int
         /\ acceptedAt[k] \in Int /\ issuedAt[k] \in Int
         /\ LastActive(k) \in Int /\ LastInactive(k) \in Int /\ LastUse(k) \in Int
<1>1. now \in Int /\ now >= 0 /\ row[k].expires \in Int
  BY Fields
<1>2. /\ cache[k].until \in Int /\ cache[k].touched \in Int
      /\ row[k].created \in Int /\ row[k].used \in Int
      /\ acceptedAt[k] \in Int /\ issuedAt[k] \in Int
      /\ activeAt[k] \in Int /\ inactiveAt[k] \in Int
  BY Fields, Moments
<1> QED
  BY <1>1, <1>2 DEF LastActive, LastInactive, LastUse

LEMMA AnyKeyType == AnyKey \in Keys
BY TokensAssumption DEF AnyKey

LEMMA RestType == AtRest(AnyKey) \in Request /\ AtRest(AnyKey).pc = "idle"
BY AnyKeyType, Moments DEF AtRest, Request

-----------------------------------------------------------------------------
(* The cache. *)

\* evictIfFull makes room, and an insertion touches nothing else.
LEMMA InsertEffect ==
  ASSUME TypeOK, IsFiniteSet(Cached), Cardinality(Cached) <= CacheSize,
         NEW k \in Keys, NEW e \in Entry, e.until # Nil, Insert(k, e)
  PROVE  /\ cache' \in [Keys -> Entry]
         /\ cache'[k] = e
         /\ \A j \in Keys : j # k => cache'[j] \in {cache[j], NoEntry}
         /\ IsFiniteSet(Cached') /\ Cardinality(Cached') <= CacheSize
<1>0. NoEntry \in Entry /\ NoEntry.until = Nil
  BY Moments DEF NoEntry, Entry
<1>1. cache \in [Keys -> Entry] /\ CacheSize \in Nat /\ Cardinality(Cached) \in Nat
  BY TokensAssumption, FS_CardinalityType DEF TypeOK
<1>2. CASE HasRoom
  <2>1. cache' = [cache EXCEPT ![k] = e]
    BY <1>2 DEF Insert
  <2>2. Cached' = Cached \cup {k}
    <3>1. \A j \in Keys : cache'[j] = IF j = k THEN e ELSE cache[j]
      BY <1>1, <2>1
    <3> QED
      BY <3>1 DEF Cached, Present
  <2>3. /\ IsFiniteSet(Cached')
        /\ Cardinality(Cached') = IF k \in Cached THEN Cardinality(Cached)
                                  ELSE Cardinality(Cached) + 1
    BY <2>2, FS_AddElement
  <2> QED
    BY <1>1, <1>2, <2>1, <2>3 DEF HasRoom
<1>3. CASE ~HasRoom
  <2>1. PICK v \in IF Cheap # {} THEN Cheap ELSE Cached :
               cache' = [cache EXCEPT ![v] = NoEntry, ![k] = e]
    BY <1>3 DEF Insert
  <2>2. v \in Cached /\ v \in Keys
    BY <2>1 DEF Cheap, Cached
  <2>3. cache' \in [Keys -> Entry] /\ cache'[k] = e
        /\ \A j \in Keys : j # k => cache'[j] = IF j = v THEN NoEntry ELSE cache[j]
    BY <1>0, <1>1, <2>1, <2>2
  <2>4. Cached' = (Cached \ {v}) \cup {k}
    BY <1>0, <2>2, <2>3 DEF Cached, Present
  <2>5. /\ IsFiniteSet(Cached \ {v})
        /\ Cardinality(Cached \ {v}) = Cardinality(Cached) - 1
    BY <2>2, FS_RemoveElement
  <2>6. /\ IsFiniteSet(Cached')
        /\ Cardinality(Cached') = IF k \in Cached \ {v} THEN Cardinality(Cached \ {v})
                                  ELSE Cardinality(Cached \ {v}) + 1
    BY <2>4, <2>5, FS_AddElement
  <2> QED
    BY <1>1, <2>3, <2>5, <2>6
<1> QED
  BY <1>2, <1>3

-----------------------------------------------------------------------------
(* The table. *)

\* What a step may do to row k: a token that exists stays, with its expiry, and
\* its last use does not go back.
RowGrows(k) ==
  /\ row'[k] \in Row
  /\ row'[k].created <= now /\ row'[k].used <= now
  /\ Exists(k) => /\ Exists(k)' /\ row'[k].expires = row[k].expires
                  /\ LastUse(k) <= LastUse(k)'

\* Every step that writes the table lets its rows grow.
LEMMA RowsGrow ==
  ASSUME TypeOK, RecordsPast, Step
  PROVE  row' \in [Keys -> Row] /\ \A k \in Keys : RowGrows(k)
<1>0. /\ row \in [Keys -> Row] /\ now \in Moment /\ now \in Nat /\ now >= 0
      /\ \A k \in Keys : /\ row[k] \in Row /\ row[k].created <= now /\ row[k].used <= now
                         /\ row[k].created \in Int /\ row[k].used \in Int
  <2>1. row \in [Keys -> Row] /\ now \in 0..MaxNow
    BY DEF TypeOK
  <2>2. now \in Moment /\ now \in Nat /\ now >= 0
    BY <2>1, Moments
  <2>3. \A k \in Keys : row[k] \in Row /\ row[k].created \in Int /\ row[k].used \in Int
    BY Fields, Moments
  <2> QED
    BY <2>1, <2>2, <2>3 DEF RecordsPast
<1>1. ASSUME NEW k \in Keys, row'[k] = row[k] PROVE RowGrows(k)
  BY <1>0, <1>1 DEF RowGrows, Exists, LastUse
<1>2. ASSUME NEW k \in Keys, row'[k] = [row[k] EXCEPT !.revoked = now] PROVE RowGrows(k)
  BY <1>0, <1>2 DEF RowGrows, Exists, LastUse, Row
<1>3. ASSUME NEW k \in Keys, row'[k] = [row[k] EXCEPT !.used = now] PROVE RowGrows(k)
  BY <1>0, <1>3 DEF RowGrows, Exists, LastUse, Row
<1>4. ASSUME NEW k \in Secrets, CreateAPIToken(k)
      PROVE  row' \in [Keys -> Row] /\ \A j \in Keys : RowGrows(j)
  <2>1. PICK life \in Lifetimes :
          row' = [row EXCEPT ![k] = [created |-> now,
                    expires |-> IF life = Nil THEN Nil ELSE now + life,
                    used |-> Nil, revoked |-> Nil]]
    BY <1>4 DEF CreateAPIToken
  <2> DEFINE x == IF life = Nil THEN Nil ELSE now + life
             r == [created |-> now, expires |-> x, used |-> Nil, revoked |-> Nil]
  <2>2. x \in Nat \cup {Nil}
    BY <1>0, TokensAssumption
  <2>3. r \in Row /\ r.created = now /\ r.used = Nil
    BY <1>0, <2>2, Moments DEF Row
  <2> HIDE DEF r
  <2>4. row' = [row EXCEPT ![k] = r] /\ k \in Keys /\ ~Exists(k)
    BY <1>4, <2>1, TokensAssumption DEF r, CreateAPIToken
  <2>5. RowGrows(k)
    BY <1>0, <2>3, <2>4 DEF RowGrows
  <2>6. \A j \in Keys : j # k => row'[j] = row[j]
    BY <1>0, <2>4
  <2> QED
    BY <1>0, <1>1, <2>3, <2>4, <2>5, <2>6
<1>5. ASSUME NEW k \in Secrets, RevokeAPIToken(k)
      PROVE  row' \in [Keys -> Row] /\ \A j \in Keys : RowGrows(j)
  <2>1. row' = [row EXCEPT ![k] = [row[k] EXCEPT !.revoked = now]] /\ k \in Keys
    BY <1>5, TokensAssumption DEF RevokeAPIToken
  <2>2. [row[k] EXCEPT !.revoked = now] \in Row
    BY <1>0, <2>1 DEF Row
  <2> QED
    BY <1>0, <1>1, <1>2, <2>1, <2>2
<1>6. ASSUME RevokeIdleAPITokens
      PROVE  row' \in [Keys -> Row] /\ \A j \in Keys : RowGrows(j)
  <2>1. row' = [k \in Keys |-> IF IdleRow(k) THEN [row[k] EXCEPT !.revoked = now] ELSE row[k]]
    BY <1>6 DEF RevokeIdleAPITokens
  <2>2. \A k \in Keys : [row[k] EXCEPT !.revoked = now] \in Row
    BY <1>0 DEF Row
  <2> QED
    BY <1>0, <1>1, <1>2, <2>1, <2>2
<1>7. ASSUME NEW c \in Callers, TouchAPIToken(c)
      PROVE  row' \in [Keys -> Row] /\ \A j \in Keys : RowGrows(j)
  <2> DEFINE k == req[c].key
  <2>1. row' = [row EXCEPT ![k] = [row[k] EXCEPT !.used = now]] /\ k \in Keys
    BY <1>7, Fields DEF TouchAPIToken
  <2>2. [row[k] EXCEPT !.used = now] \in Row
    BY <1>0, <2>1 DEF Row
  <2> HIDE DEF k
  <2> QED
    BY <1>0, <1>1, <1>3, <2>1, <2>2
<1>8. ASSUME UNCHANGED row
      PROVE  row' \in [Keys -> Row] /\ \A j \in Keys : RowGrows(j)
  BY <1>0, <1>1, <1>8
<1> QED
  BY <1>4, <1>5, <1>6, <1>7, <1>8
     DEF Step, AcceptCached, Miss, ResolveAPIToken, LookupFails, StoreNegative,
         StorePositive, TouchFails, Restart, Tick

\* Only the clock moves the clock, and not while an answer would get too old.
LEMMA ClockStep ==
  ASSUME TypeOK, Step
  PROVE  \/ now' = now
         \/ /\ Tick /\ now' = now + 1 /\ now' <= MaxNow
            /\ UNCHANGED <<row, cache, req, acceptedAt, issuedAt, lag>>
<1>1. CASE Tick
  BY <1>1, Fields, TokensAssumption DEF Tick
<1>2. CASE ~Tick
  BY <1>2 DEF Step, CreateAPIToken, RevokeAPIToken, RevokeIdleAPITokens, AcceptCached,
     Miss, ResolveAPIToken, LookupFails, StoreNegative, StorePositive, TouchAPIToken,
     TouchFails, Restart
<1> QED
  BY <1>1, <1>2

\* What the table said last is never forgotten.
LEMMA HistoryGrows ==
  ASSUME TypeOK, RecordsPast, Step, Observe
  PROVE  /\ now' \in 0..MaxNow /\ now <= now'
         /\ activeAt' \in [Keys -> Moment] /\ inactiveAt' \in [Keys -> Moment]
         /\ \A k \in Keys :
              /\ activeAt'[k] <= now' /\ inactiveAt'[k] <= now'
              /\ LastActive(k) \in Int /\ LastActive(k)' \in Int
              /\ LastInactive(k) \in Int /\ LastInactive(k)' \in Int
              /\ LastActive(k) <= LastActive(k)' /\ LastInactive(k) <= LastInactive(k)'
<1>1. /\ now \in Nat /\ now' \in 0..MaxNow /\ now' \in Nat
      /\ now <= now' /\ now \in Moment
  BY ClockStep, Fields, Moments, TokensAssumption DEF TypeOK
<1>2. /\ activeAt' = [k \in Keys |-> LastActive(k)]
      /\ inactiveAt' = [k \in Keys |-> LastInactive(k)]
  BY DEF Observe, LastActive, LastInactive
<1>3. ASSUME NEW k \in Keys
      PROVE  /\ LastActive(k) \in Moment /\ LastActive(k) <= now
             /\ LastInactive(k) \in Moment /\ LastInactive(k) <= now
  BY <1>1, Fields DEF LastActive, LastInactive, RecordsPast
<1>4. ASSUME NEW k \in Keys
      PROVE  /\ LastActive(k)' \in {now', LastActive(k)}
             /\ LastInactive(k)' \in {now', LastInactive(k)}
  BY <1>2 DEF LastActive, LastInactive
<1>5. ASSUME NEW k \in Keys
      PROVE  /\ LastActive(k) \in Int /\ LastActive(k)' \in Int
             /\ LastInactive(k) \in Int /\ LastInactive(k)' \in Int
             /\ LastActive(k) <= LastActive(k)' /\ LastInactive(k) <= LastInactive(k)'
  <2>1. LastActive(k) \in Int /\ LastInactive(k) \in Int
    BY <1>3, Moments
  <2>2. LastActive(k) <= now' /\ LastInactive(k) <= now'
    BY <1>1, <1>3, <2>1
  <2> QED
    BY <1>1, <1>4, <2>1, <2>2
<1>6. ASSUME NEW k \in Keys
      PROVE  activeAt'[k] <= now' /\ inactiveAt'[k] <= now'
  BY <1>1, <1>2, <1>3, <1>5
<1>7. activeAt' \in [Keys -> Moment] /\ inactiveAt' \in [Keys -> Moment]
  BY <1>2, <1>3
<1> QED
  BY <1>1, <1>5, <1>6, <1>7

-----------------------------------------------------------------------------
(* The requests and the cache. *)

\* The record a lookup leaves: what the table holds, now.
LEMMA ResolveEffect ==
  ASSUME TypeOK, NEW c \in Callers, ResolveAPIToken(c)
  PROVE  LET k == req[c].key IN
         /\ req' \in [Callers -> Request]
         /\ \A d \in Callers : d # c => req'[d] = req[d]
         /\ req'[c].pc = "answered" /\ req'[c].key = k
         /\ req'[c].ok = Active(k) /\ req'[c].at = now
         /\ req'[c].expires = IF Active(k) THEN row[k].expires ELSE Nil
<1> DEFINE k == req[c].key
           x == IF Active(k) THEN row[k].expires ELSE Nil
           b == Active(k)
<1>1. req \in [Callers -> Request] /\ req[c] \in Request /\ now \in Moment
  BY Moments DEF TypeOK
<1>2. x \in Nat \cup {Nil} /\ b \in BOOLEAN
  BY Fields DEF Active
<1>3. req' = [req EXCEPT ![c] = [req[c] EXCEPT !.pc = "answered", !.ok = b, !.at = now,
                                               !.expires = x]]
  BY <1>1 DEF ResolveAPIToken
<1> HIDE DEF x, b
<1>4. /\ req'[c] \in Request /\ req'[c].pc = "answered" /\ req'[c].key = k
      /\ req'[c].ok = b /\ req'[c].at = now /\ req'[c].expires = x
  <2> DEFINE s == [req[c] EXCEPT !.pc = "answered", !.ok = b, !.at = now, !.expires = x]
  <2>1. /\ s \in Request /\ s.pc = "answered" /\ s.key = k
        /\ s.ok = b /\ s.at = now /\ s.expires = x
    BY <1>1, <1>2 DEF Request
  <2> HIDE DEF s
  <2>2. req'[c] = s
    BY <1>1, <1>3 DEF s
  <2> QED
    BY <2>1, <2>2
<1>5. req' \in [Callers -> Request] /\ \A d \in Callers : d # c => req'[d] = req[d]
  BY <1>1, <1>3, <1>4
<1> QED
  BY <1>4, <1>5 DEF x, b

\* No other step makes an answer, or changes one.
LEMMA RequestsStep ==
  ASSUME TypeOK, Step
  PROVE  /\ req' \in [Callers -> Request]
         /\ \A c \in Callers : req'[c].pc = "answered" =>
              req'[c] = req[c] \/ ResolveAPIToken(c)
<1>0. req \in [Callers -> Request]
  BY DEF TypeOK
<1>1. ASSUME NEW c \in Callers, NEW k \in Keys, NEW p \in {"touching", "looking"},
             req' = [req EXCEPT ![c].pc = p, ![c].key = k]
      PROVE  /\ req' \in [Callers -> Request]
             /\ \A d \in Callers : req'[d].pc = "answered" => req'[d] = req[d]
  <2> DEFINE s == [req[c] EXCEPT !.pc = p, !.key = k]
  <2>1. req' = [req EXCEPT ![c] = s]
    BY <1>0, <1>1
  <2>2. s \in Request /\ s.pc = p
    BY <1>0 DEF Request
  <2> HIDE DEF s
  <2> QED
    BY <1>0, <2>1, <2>2
<1>2. ASSUME NEW c \in Callers, req' = [req EXCEPT ![c] = AtRest(AnyKey)]
      PROVE  /\ req' \in [Callers -> Request]
             /\ \A d \in Callers : req'[d].pc = "answered" => req'[d] = req[d]
  BY <1>0, <1>2, RestType
<1>3. ASSUME NEW c \in Callers, ResolveAPIToken(c)
      PROVE  /\ req' \in [Callers -> Request]
             /\ \A d \in Callers : req'[d].pc = "answered" => req'[d] = req[d] \/ ResolveAPIToken(d)
  BY <1>3, ResolveEffect
<1>4. CASE Restart
  BY <1>4, RestType DEF Restart
<1>5. CASE UNCHANGED req
  BY <1>0, <1>5
<1>6. ASSUME NEW c \in Callers, NEW k \in Keys, AcceptCached(c, k) \/ Miss(c, k)
      PROVE  /\ req' \in [Callers -> Request]
             /\ \A d \in Callers : req'[d].pc = "answered" => req'[d] = req[d]
  BY <1>1, <1>2, <1>6 DEF AcceptCached, Miss, Done, Issue
<1>7. ASSUME NEW c \in Callers,
             LookupFails(c) \/ StoreNegative(c) \/ TouchAPIToken(c) \/ TouchFails(c)
      PROVE  /\ req' \in [Callers -> Request]
             /\ \A d \in Callers : req'[d].pc = "answered" => req'[d] = req[d]
  BY <1>2, <1>7 DEF LookupFails, StoreNegative, TouchAPIToken, TouchFails, Done
<1>8. ASSUME NEW c \in Callers, StorePositive(c)
      PROVE  /\ req' \in [Callers -> Request]
             /\ \A d \in Callers : req'[d].pc = "answered" => req'[d] = req[d]
  <2>1. req[c].key \in Keys
    BY Fields
  <2> QED
    BY <1>1, <1>2, <1>8, <2>1 DEF StorePositive, Done, Issue
<1> QED
  BY <1>3, <1>4, <1>5, <1>6, <1>7, <1>8
     DEF Step, CreateAPIToken, RevokeAPIToken, RevokeIdleAPITokens, Tick

Negative == [ok |-> FALSE, until |-> now + NegativeTTL, touched |-> Nil]
Positive(c) == [ok |-> TRUE, until |-> Until(req[c].expires), touched |-> TouchedAt(req[c].key)]

\* What a step may do to the entry of key k.
EntryMoves(k) ==
  \/ cache'[k] = cache[k]
  \/ cache'[k] = NoEntry
  \/ \E c \in Callers :
       AcceptCached(c, k) /\ ~Throttled(k) /\ cache'[k] = [cache[k] EXCEPT !.touched = now]
  \/ \E c \in Callers : StoreNegative(c) /\ req[c].key = k /\ cache'[k] = Negative
  \/ \E c \in Callers : StorePositive(c) /\ req[c].key = k /\ cache'[k] = Positive(c)

\* The entries that are stored, and when they end.
LEMMA StoredEntries ==
  ASSUME TypeOK, NEW c \in Callers
  PROVE  /\ Negative \in Entry /\ Negative.until # Nil /\ ~Negative.ok
         /\ Positive(c) \in Entry /\ Positive(c).ok /\ Positive(c).until # Nil
         /\ Positive(c).until <= now + TTL
         /\ req[c].expires # Nil => Positive(c).until <= req[c].expires
         /\ Positive(c).touched = TouchedAt(req[c].key)
<1> DEFINE x == req[c].expires
           u == Until(x)
           t == TouchedAt(req[c].key)
<1>1. /\ now \in Nat /\ now \in Moment /\ now + TTL \in Moment /\ now + NegativeTTL \in Moment
      /\ TTL \in Nat /\ NegativeTTL \in Nat
  BY Moments, Fields, TokensAssumption DEF TypeOK
<1>2. x \in Nat \cup {Nil} /\ req[c].key \in Keys /\ cache[req[c].key].touched \in Moment
  BY Fields
<1>3. t \in Moment
  BY <1>1, <1>2 DEF TouchedAt
<1>4. /\ u \in Nat /\ u <= now + TTL /\ (x # Nil => u <= x)
  BY <1>1, <1>2 DEF Until
<1>5. \A n \in 0..(now + TTL) : n \in Moment
  BY <1>1, TokensAssumption, Fields DEF Moment
<1>6. u \in Moment /\ u # Nil
  BY <1>1, <1>4, <1>5
<1> HIDE DEF x, u, t
<1>7. Positive(c) = [ok |-> TRUE, until |-> u, touched |-> t]
  BY DEF Positive, x, u, t
<1>8. Positive(c) \in Entry /\ Positive(c).ok /\ Positive(c).until = u /\ Positive(c).touched = t
  BY <1>3, <1>6, <1>7 DEF Entry
<1>9. Negative \in Entry /\ Negative.until # Nil /\ ~Negative.ok
  BY <1>1, Moments DEF Negative, Entry
<1> QED
  BY <1>4, <1>6, <1>8, <1>9 DEF x, t

\* Every step keeps the size of the cache and moves its entries.
LEMMA CacheStep ==
  ASSUME TypeOK, IsFiniteSet(Cached), Cardinality(Cached) <= CacheSize, Step
  PROVE  /\ cache' \in [Keys -> Entry]
         /\ IsFiniteSet(Cached') /\ Cardinality(Cached') <= CacheSize
         /\ \A k \in Keys : EntryMoves(k)
<1> DEFINE Goal == /\ cache' \in [Keys -> Entry]
                   /\ IsFiniteSet(Cached') /\ Cardinality(Cached') <= CacheSize
                   /\ \A k \in Keys : EntryMoves(k)
<1>0. cache \in [Keys -> Entry] /\ now \in Moment
  BY Moments DEF TypeOK
<1>1. ASSUME UNCHANGED cache PROVE Goal
  <2>1. Cached' = Cached
    BY <1>1 DEF Cached, Present
  <2> QED
    BY <1>0, <1>1, <2>1 DEF EntryMoves
<1>2. ASSUME Restart PROVE Goal
  <2>1. cache' = [k \in Keys |-> NoEntry]
    BY <1>2 DEF Restart
  <2>2. Cached' = {} /\ NoEntry \in Entry
    BY <2>1, Moments DEF Cached, Present, NoEntry, Entry
  <2>3. IsFiniteSet(Cached') /\ Cardinality(Cached') = 0
    BY <2>2, FS_EmptySet
  <2> QED
    BY <2>1, <2>2, <2>3, TokensAssumption DEF EntryMoves
<1>3. ASSUME NEW c \in Callers, NEW k \in Keys, AcceptCached(c, k), ~Throttled(k) PROVE Goal
  <2> DEFINE e == [cache[k] EXCEPT !.touched = now]
  <2>1. cache' = [cache EXCEPT ![k] = e]
    BY <1>0, <1>3 DEF AcceptCached
  <2>2. e \in Entry /\ e.until = cache[k].until
    BY <1>0 DEF Entry
  <2> HIDE DEF e
  <2>3. \A j \in Keys : cache'[j] = IF j = k THEN e ELSE cache[j]
    BY <1>0, <2>1
  <2>4. Cached' = Cached
    BY <2>2, <2>3 DEF Cached, Present
  <2>5. \A j \in Keys : EntryMoves(j)
    BY <1>3, <2>3 DEF EntryMoves, e
  <2> QED
    BY <1>0, <2>1, <2>2, <2>4, <2>5
<1>4. ASSUME NEW c \in Callers, NEW k \in Keys, AcceptCached(c, k), Throttled(k) PROVE Goal
  BY <1>1, <1>4 DEF AcceptCached
<1>5. ASSUME NEW c \in Callers, StoreNegative(c) PROVE Goal
  <2>1. Insert(req[c].key, Negative) /\ req[c].key \in Keys
    BY <1>5, Fields DEF StoreNegative, Negative
  <2>2. /\ cache' \in [Keys -> Entry] /\ cache'[req[c].key] = Negative
        /\ \A j \in Keys : j # req[c].key => cache'[j] \in {cache[j], NoEntry}
        /\ IsFiniteSet(Cached') /\ Cardinality(Cached') <= CacheSize
    BY <2>1, StoredEntries, InsertEffect
  <2> QED
    BY <1>5, <2>2 DEF EntryMoves
<1>6. ASSUME NEW c \in Callers, StorePositive(c) PROVE Goal
  <2>1. Insert(req[c].key, Positive(c)) /\ req[c].key \in Keys
    BY <1>6, Fields DEF StorePositive, Positive
  <2>2. /\ cache' \in [Keys -> Entry] /\ cache'[req[c].key] = Positive(c)
        /\ \A j \in Keys : j # req[c].key => cache'[j] \in {cache[j], NoEntry}
        /\ IsFiniteSet(Cached') /\ Cardinality(Cached') <= CacheSize
    BY <2>1, StoredEntries, InsertEffect
  <2> QED
    BY <1>6, <2>2 DEF EntryMoves
<1> HIDE DEF Goal
<1>7. ASSUME NEW k \in Keys, CreateAPIToken(k) \/ RevokeAPIToken(k) PROVE Goal
  BY <1>1, <1>7 DEF CreateAPIToken, RevokeAPIToken
<1>8. ASSUME RevokeIdleAPITokens \/ Tick PROVE Goal
  BY <1>1, <1>8 DEF RevokeIdleAPITokens, Tick
<1>9. ASSUME NEW c \in Callers, NEW k \in Keys, Miss(c, k) PROVE Goal
  BY <1>1, <1>9 DEF Miss
<1>10. ASSUME NEW c \in Callers, ResolveAPIToken(c) \/ LookupFails(c) PROVE Goal
  BY <1>1, <1>10 DEF ResolveAPIToken, LookupFails
<1>11. ASSUME NEW c \in Callers, TouchAPIToken(c) \/ TouchFails(c) PROVE Goal
  BY <1>1, <1>11 DEF TouchAPIToken, TouchFails
<1>12. Goal
  BY <1>2, <1>3, <1>4, <1>5, <1>6, <1>7, <1>8, <1>9, <1>10, <1>11, TokensAssumption DEF Step
<1> QED
  BY <1>12 DEF Goal

-----------------------------------------------------------------------------
(* The invariant. *)

\* What is remembered of the uses of key k is as it was, or was written now.
UseMoves(k) ==
  \/ acceptedAt'[k] = acceptedAt[k] /\ issuedAt'[k] = issuedAt[k] /\ lag'[k] = lag[k]
  \/ /\ acceptedAt'[k] = now /\ row' = row
     /\ Present(k)' /\ cache'[k].ok
     /\ \/ Throttled(k) /\ issuedAt'[k] = issuedAt[k] /\ lag'[k] = lag[k]
           /\ cache'[k].touched = cache[k].touched
        \/ ~Throttled(k) /\ issuedAt'[k] = now /\ lag'[k] = TRUE /\ cache'[k].touched = now
  \/ /\ acceptedAt'[k] = acceptedAt[k] /\ issuedAt'[k] = issuedAt[k] /\ lag'[k] = FALSE
     /\ cache' = cache /\ row'[k] = [row[k] EXCEPT !.used = now]

\* A request that accepts a token, asks for a touch or touches it writes the
\* history of that key.
LEMMA UsesStep ==
  ASSUME TypeOK, IsFiniteSet(Cached), Cardinality(Cached) <= CacheSize, Step
  PROVE  /\ acceptedAt' \in [Keys -> Moment] /\ issuedAt' \in [Keys -> Moment]
         /\ lag' \in [Keys -> BOOLEAN]
         /\ \A k \in Keys : UseMoves(k)
<1> DEFINE Goal == /\ acceptedAt' \in [Keys -> Moment] /\ issuedAt' \in [Keys -> Moment]
                   /\ lag' \in [Keys -> BOOLEAN]
                   /\ \A k \in Keys : UseMoves(k)
<1>0. /\ acceptedAt \in [Keys -> Moment] /\ issuedAt \in [Keys -> Moment]
      /\ lag \in [Keys -> BOOLEAN] /\ now \in Moment /\ cache \in [Keys -> Entry]
      /\ row \in [Keys -> Row]
  BY Moments DEF TypeOK
<1>1. ASSUME UNCHANGED <<acceptedAt, issuedAt, lag>> PROVE Goal
  BY <1>0, <1>1 DEF UseMoves
\* The key accepted, with the touch it asks for.
<1>2. ASSUME NEW c \in Callers, NEW k \in Keys,
             acceptedAt' = [acceptedAt EXCEPT ![k] = now], row' = row,
             Present(k)', cache'[k].ok,
             \/ /\ Throttled(k) /\ UNCHANGED <<issuedAt, lag>>
                /\ cache'[k].touched = cache[k].touched
             \/ ~Throttled(k) /\ Issue(c, k) /\ cache'[k].touched = now
      PROVE  Goal
  <2>1. UseMoves(k)
    BY <1>0, <1>2 DEF UseMoves, Issue
  <2>2. \A j \in Keys : j # k =>
          acceptedAt'[j] = acceptedAt[j] /\ issuedAt'[j] = issuedAt[j] /\ lag'[j] = lag[j]
    BY <1>0, <1>2 DEF Issue
  <2>3. /\ acceptedAt' \in [Keys -> Moment] /\ issuedAt' \in [Keys -> Moment]
        /\ lag' \in [Keys -> BOOLEAN]
    BY <1>0, <1>2 DEF Issue
  <2> QED
    BY <2>1, <2>2, <2>3 DEF UseMoves
<1>3. ASSUME NEW c \in Callers, NEW k \in Keys, AcceptCached(c, k) PROVE Goal
  <2>1. /\ acceptedAt' = [acceptedAt EXCEPT ![k] = now] /\ row' = row
        /\ Present(k) /\ cache[k].ok
    BY <1>3 DEF AcceptCached, Live
  <2>2. CASE Throttled(k)
    BY <1>2, <1>3, <2>1, <2>2 DEF AcceptCached, Done, Present
  <2>3. CASE ~Throttled(k)
    <3>1. cache'[k] = [cache[k] EXCEPT !.touched = now] /\ cache[k] \in Entry
      BY <1>0, <1>3, <2>3 DEF AcceptCached
    <3>2. cache'[k].until = cache[k].until /\ cache'[k].ok = cache[k].ok
          /\ cache'[k].touched = now
      BY <3>1 DEF Entry
    <3> QED
      BY <1>2, <1>3, <2>1, <2>3, <3>2 DEF AcceptCached, Present
  <2> QED
    BY <2>2, <2>3
<1>4. ASSUME NEW c \in Callers, StorePositive(c) PROVE Goal
  <2>0. PICK k \in Keys : k = req[c].key
    BY Fields
  <2>1. Insert(k, Positive(c))
    BY <1>4, <2>0 DEF StorePositive, Positive
  <2>2. cache'[k] = Positive(c)
    BY <2>1, StoredEntries, InsertEffect
  <2>3. cache'[k].ok /\ Present(k)' /\ cache'[k].touched = TouchedAt(k)
    BY <2>0, <2>2, StoredEntries DEF Present
  <2>4. acceptedAt' = [acceptedAt EXCEPT ![k] = now] /\ row' = row
        /\ IF Throttled(k) THEN Done(c) ELSE Issue(c, k)
    BY <1>4, <2>0 DEF StorePositive
  <2>5. CASE Throttled(k)
    BY <1>2, <2>1, <2>3, <2>4, <2>5 DEF TouchedAt, Done
  <2>6. CASE ~Throttled(k)
    BY <1>2, <2>1, <2>3, <2>4, <2>6 DEF TouchedAt
  <2> QED
    BY <2>5, <2>6
<1>5. ASSUME NEW c \in Callers, TouchAPIToken(c) PROVE Goal
  <2>0. PICK k \in Keys : k = req[c].key
    BY Fields
  <2>1. /\ row' = [row EXCEPT ![k] = [row[k] EXCEPT !.used = now]]
        /\ lag' = [lag EXCEPT ![k] = FALSE] /\ UNCHANGED <<cache, acceptedAt, issuedAt>>
    BY <1>5, <2>0 DEF TouchAPIToken
  <2>2. UseMoves(k)
    BY <1>0, <2>1 DEF UseMoves
  <2>3. \A j \in Keys : j # k => lag'[j] = lag[j]
    BY <1>0, <2>1
  <2>4. lag' \in [Keys -> BOOLEAN]
    BY <1>0, <2>1
  <2> QED
    BY <1>0, <2>1, <2>2, <2>3, <2>4 DEF UseMoves
<1> HIDE DEF Goal
<1>7. ASSUME NEW k \in Keys, CreateAPIToken(k) \/ RevokeAPIToken(k) PROVE Goal
  BY <1>1, <1>7 DEF CreateAPIToken, RevokeAPIToken
<1>8. ASSUME RevokeIdleAPITokens \/ Tick \/ Restart PROVE Goal
  BY <1>1, <1>8 DEF RevokeIdleAPITokens, Tick, Restart
<1>9. ASSUME NEW c \in Callers, NEW k \in Keys, Miss(c, k) PROVE Goal
  BY <1>1, <1>9 DEF Miss
<1>10. ASSUME NEW c \in Callers, ResolveAPIToken(c) \/ LookupFails(c) PROVE Goal
  BY <1>1, <1>10 DEF ResolveAPIToken, LookupFails, Done
<1>11. ASSUME NEW c \in Callers, StoreNegative(c) \/ TouchFails(c) PROVE Goal
  BY <1>1, <1>11 DEF StoreNegative, TouchFails, Done
<1>12. Goal
  BY <1>3, <1>4, <1>5, <1>7, <1>8, <1>9, <1>10, <1>11, TokensAssumption DEF Step
<1> QED
  BY <1>12 DEF Goal

LEMMA TokensInit == Init => TokensInv
<1> SUFFICES ASSUME Init PROVE TokensInv
  OBVIOUS
<1>1. /\ NoRow \in Row /\ NoEntry \in Entry /\ NoEntry.until = Nil
      /\ NoEntry.touched = Nil /\ NoRow.created = Nil /\ NoRow.used = Nil
  BY Moments DEF NoRow, Row, NoEntry, Entry
<1>2. now \in Nat /\ MaxNow \in Nat /\ now = 0
  BY TokensAssumption DEF Init
<1>3. TypeOK
  BY <1>1, <1>2, RestType, Moments DEF Init, TypeOK
<1>4. Cached = {}
  BY <1>1 DEF Init, Cached, Present
<1>5. IsFiniteSet(Cached) /\ Cardinality(Cached) <= CacheSize
  BY <1>4, FS_EmptySet, TokensAssumption
<1>6. RecordsPast
  BY <1>1, <1>2 DEF Init, RecordsPast
<1>7. AnswersRecent
  BY RestType DEF Init, AnswersRecent
<1>8. EntriesBacked /\ UsesRecorded
  BY <1>1 DEF Init, EntriesBacked, UsesRecorded, Present
<1> QED
  BY <1>3, <1>5, <1>6, <1>7, <1>8 DEF TokensInv

\* The last use of a token is a moment, before a step and after it.
LEMMA LastUseType ==
  ASSUME TypeOK, RecordsPast, Step, NEW k \in Keys
  PROVE  /\ LastUse(k) \in Int /\ LastUse(k)' \in Int
         /\ row'[k].created \in Int /\ row'[k].used \in Int
<1>1. row[k].created \in Int /\ row[k].used \in Int
  BY Fields, Moments
<1>2. row'[k].created \in Int /\ row'[k].used \in Int
  <2>1. row'[k] \in Row
    BY RowsGrow
  <2> QED
    BY <2>1, Moments DEF Row
<1> QED
  BY <1>1, <1>2 DEF LastUse

\* Types and moments.
LEMMA TypesStep ==
  ASSUME TokensInv, Step, Observe
  PROVE  /\ TypeOK' /\ RecordsPast'
         /\ IsFiniteSet(Cached') /\ Cardinality(Cached') <= CacheSize
<1> USE DEF TokensInv
<1>1. TypeOK'
  BY HistoryGrows, RowsGrow, CacheStep, RequestsStep, UsesStep DEF TypeOK
<1>2. ASSUME NEW k \in Keys PROVE cache'[k].touched <= now /\ cache'[k].touched \in Int
  <2>1. EntryMoves(k) /\ cache[k] \in Entry /\ cache[k].touched \in Int /\ now \in Nat
        /\ cache[k].touched <= now
    BY CacheStep, Fields, Moments DEF RecordsPast
  <2>2. CASE cache'[k] = cache[k] \/ cache'[k] = NoEntry \/ cache'[k] = Negative
    BY <2>1, <2>2 DEF NoEntry, Negative
  <2>3. CASE cache'[k] = [cache[k] EXCEPT !.touched = now]
    BY <2>1, <2>3 DEF Entry
  <2>4. ASSUME NEW c \in Callers, req[c].key = k, cache'[k] = Positive(c)
        PROVE  cache'[k].touched <= now /\ cache'[k].touched \in Int
    BY <2>1, <2>4 DEF Positive, TouchedAt
  <2> QED
    BY <2>1, <2>2, <2>3, <2>4 DEF EntryMoves
<1>3. ASSUME NEW k \in Keys
      PROVE  /\ acceptedAt'[k] <= now /\ acceptedAt'[k] \in Int
             /\ issuedAt'[k] <= now /\ issuedAt'[k] \in Int
  <2>1. /\ UseMoves(k) /\ now \in Nat
        /\ acceptedAt[k] \in Int /\ issuedAt[k] \in Int
        /\ acceptedAt[k] <= now /\ issuedAt[k] <= now
    BY UsesStep, Fields, Moments DEF RecordsPast
  <2> QED
    BY <2>1 DEF UseMoves
<1>4. ASSUME NEW k \in Keys
      PROVE  row'[k].created <= now /\ row'[k].used <= now
             /\ row'[k].created \in Int /\ row'[k].used \in Int
  BY RowsGrow, LastUseType DEF RowGrows
<1>5. now \in Int /\ now' \in Int /\ now <= now'
  BY HistoryGrows, Fields, TokensAssumption
<1>6. ASSUME NEW k \in Keys PROVE activeAt'[k] <= now' /\ inactiveAt'[k] <= now'
  BY HistoryGrows
<1>7. RecordsPast'
  BY <1>2, <1>3, <1>4, <1>5, <1>6 DEF RecordsPast
<1> QED
  BY <1>1, <1>7, CacheStep

\* An answer gets old only by the clock, which waits for it.
LEMMA AnswersStep ==
  ASSUME TokensInv, Step, Observe
  PROVE  AnswersRecent'
<1> USE DEF TokensInv
<1> SUFFICES ASSUME NEW c \in Callers, req'[c].pc = "answered",
                    NEW k \in Keys, k = req'[c].key
             PROVE  /\ req'[c].at # Nil /\ now' <= req'[c].at + MaxLookup
                    /\ req'[c].ok => /\ Exists(k)' /\ req'[c].expires = row'[k].expires
                                     /\ req'[c].at <= LastActive(k)'
                    /\ ~req'[c].ok => req'[c].at <= LastInactive(k)'
  <2>1. \A d \in Callers : req'[d].key \in Keys
    BY TypesStep, Fields DEF TypeOK, Request
  <2> QED
    BY <2>1 DEF AnswersRecent, Exists, LastActive, LastInactive
<1>0. /\ RowGrows(k) /\ LastActive(k) \in Int /\ LastActive(k)' \in Int
      /\ LastInactive(k) \in Int /\ LastInactive(k)' \in Int
      /\ LastActive(k) <= LastActive(k)' /\ LastInactive(k) <= LastInactive(k)'
      /\ now \in Int /\ MaxLookup \in Nat /\ now >= 0
  BY RowsGrow, HistoryGrows, Fields, TokensAssumption
<1>1. CASE req'[c] = req[c]
  <2>1. /\ req[c].at # Nil /\ now <= req[c].at + MaxLookup /\ req[c].at \in Int
        /\ req[c].ok => /\ Exists(k) /\ req[c].expires = row[k].expires
                        /\ req[c].at <= LastActive(k)
        /\ ~req[c].ok => req[c].at <= LastInactive(k)
    BY <1>1, Fields, Moments DEF AnswersRecent
  <2>2. now' <= req[c].at + MaxLookup
    <3>1. CASE now' = now
      BY <2>1, <3>1
    <3>2. CASE Tick
      BY <1>0, <1>1, <2>1, <3>2 DEF Tick
    <3> QED
      BY <3>1, <3>2, ClockStep
  <2> QED
    BY <1>0, <1>1, <2>1, <2>2 DEF RowGrows
<1>2. CASE ResolveAPIToken(c)
  <2>1. now' = now /\ row' = row
    BY <1>2 DEF ResolveAPIToken
  <2>2. /\ k = req[c].key /\ req'[c].at = now /\ req'[c].ok = Active(k)
        /\ req'[c].expires = IF Active(k) THEN row[k].expires ELSE Nil
    BY <1>2, ResolveEffect
  <2>3. /\ Active(k) => LastActive(k) = now /\ Exists(k)
        /\ ~Active(k) => LastInactive(k) = now
    BY DEF LastActive, LastInactive, Active
  <2> QED
    BY <1>0, <2>1, <2>2, <2>3 DEF RowGrows
<1> QED
  BY <1>1, <1>2, RequestsStep

\* An entry is stored from an answer that is still recent, and then only ages.
LEMMA EntriesStep ==
  ASSUME TokensInv, Step, Observe
  PROVE  EntriesBacked'
<1> USE DEF TokensInv
<1> SUFFICES ASSUME NEW k \in Keys, Present(k)'
             PROVE  /\ cache'[k].ok =>
                         /\ Exists(k)' /\ LastActive(k)' # Nil
                         /\ cache'[k].until <= LastActive(k)' + TTL + MaxLookup
                         /\ row'[k].expires # Nil => cache'[k].until <= row'[k].expires
                    /\ ~cache'[k].ok =>
                         cache'[k].until <= LastInactive(k)' + NegativeTTL + MaxLookup
  BY DEF EntriesBacked
<1>0. /\ RowGrows(k) /\ EntryMoves(k)
      /\ LastActive(k) \in Int /\ LastActive(k)' \in Int
      /\ LastInactive(k) \in Int /\ LastInactive(k)' \in Int
      /\ LastActive(k) <= LastActive(k)' /\ LastInactive(k) <= LastInactive(k)'
      /\ now \in Int /\ now >= 0
      /\ MaxLookup \in Nat /\ TTL \in Nat /\ NegativeTTL \in Nat
  BY RowsGrow, CacheStep, HistoryGrows, Fields, TokensAssumption
<1>1. LastActive(k) # Nil => LastActive(k) >= 0
  BY Fields, TokensAssumption DEF LastActive, Moment
<1>2. cache[k] \in Entry /\ cache[k].until \in Int
  BY Fields, Moments
<1>3. CASE cache'[k].ok = cache[k].ok /\ cache'[k].until = cache[k].until
  <2>1. Present(k)
    BY <1>3 DEF Present
  <2>2. /\ cache[k].ok => /\ Exists(k) /\ LastActive(k) # Nil
                          /\ cache[k].until <= LastActive(k) + TTL + MaxLookup
                          /\ row[k].expires # Nil => cache[k].until <= row[k].expires
        /\ ~cache[k].ok => cache[k].until <= LastInactive(k) + NegativeTTL + MaxLookup
    BY <2>1 DEF EntriesBacked
  <2> QED
    BY <1>0, <1>1, <1>2, <1>3, <2>2 DEF RowGrows
<1>4. CASE cache'[k] = NoEntry
  BY <1>4 DEF Present, NoEntry
<1>5. ASSUME NEW c \in Callers, StoreNegative(c), req[c].key = k, cache'[k] = Negative
      PROVE  cache'[k].until <= LastInactive(k)' + NegativeTTL + MaxLookup /\ ~cache'[k].ok
  <2>1. now <= req[c].at + MaxLookup /\ req[c].at <= LastInactive(k) /\ req[c].at \in Int
    BY <1>5, Fields, Moments DEF AnswersRecent, StoreNegative
  <2>2. cache'[k].until = now + NegativeTTL /\ ~cache'[k].ok
    BY <1>5 DEF Negative
  <2> QED
    BY <1>0, <2>1, <2>2
<1>6. ASSUME NEW c \in Callers, StorePositive(c), req[c].key = k, cache'[k] = Positive(c)
      PROVE  /\ cache'[k].ok /\ Exists(k)' /\ LastActive(k)' # Nil
             /\ cache'[k].until <= LastActive(k)' + TTL + MaxLookup
             /\ row'[k].expires # Nil => cache'[k].until <= row'[k].expires
  <2>1. /\ now <= req[c].at + MaxLookup /\ req[c].at \in Int /\ req[c].at # Nil
        /\ req[c].at <= LastActive(k) /\ Exists(k) /\ req[c].expires = row[k].expires
    BY <1>6, Fields, Moments DEF AnswersRecent, StorePositive
  <2>2. /\ cache'[k].ok /\ cache'[k].until <= now + TTL
        /\ req[c].expires # Nil => cache'[k].until <= req[c].expires
    BY <1>6, StoredEntries
  <2>3. cache'[k].until \in Int /\ req[c].at >= 0
    <3>1. cache'[k] \in Entry /\ req[c].at \in Moment
      BY CacheStep, Fields
    <3> QED
      BY <2>1, <3>1, Moments, TokensAssumption DEF Entry, Moment
  <2> QED
    BY <1>0, <2>1, <2>2, <2>3 DEF RowGrows
<1>7. CASE cache'[k] = [cache[k] EXCEPT !.touched = now]
  <2>1. cache'[k].ok = cache[k].ok /\ cache'[k].until = cache[k].until
    BY <1>2, <1>7 DEF Entry
  <2> QED
    BY <1>3, <2>1
<1> QED
  BY <1>0, <1>3, <1>4, <1>5, <1>6, <1>7 DEF EntryMoves

\* A use that is not recorded is within an interval of one that is, or asks for
\* a touch.
LEMMA UsesRecordedStep ==
  ASSUME TokensInv, Step, Observe
  PROVE  UsesRecorded'
<1> USE DEF TokensInv
<1> DEFINE Recorded(k) ==
             /\ acceptedAt'[k] # Nil =>
                  /\ Exists(k)'
                  /\ ~lag'[k] => acceptedAt'[k] <= LastUse(k)' + TouchEvery
             /\ Present(k)' /\ cache'[k].ok =>
                  /\ issuedAt'[k] <= cache'[k].touched
                  /\ ~lag'[k] => cache'[k].touched <= LastUse(k)'
<1> SUFFICES ASSUME NEW k \in Keys PROVE Recorded(k)
  BY DEF UsesRecorded
<1>0. /\ RowGrows(k) /\ EntryMoves(k) /\ UseMoves(k)
      /\ LastUse(k) \in Int /\ LastUse(k)' \in Int
      /\ now \in Int /\ TouchEvery \in Nat
      /\ acceptedAt[k] \in Int /\ issuedAt[k] \in Int /\ cache[k].touched \in Int
      /\ acceptedAt[k] <= now /\ issuedAt[k] <= now /\ cache[k].touched <= now
      /\ cache[k] \in Entry /\ row[k] \in Row
  <2>1. RowGrows(k) /\ EntryMoves(k) /\ UseMoves(k)
    BY RowsGrow, CacheStep, UsesStep
  <2>2. cache[k] \in Entry /\ row[k] \in Row
    BY Fields
  <2> QED
    BY <2>1, <2>2, Times, LastUseType, TokensAssumption DEF RecordsPast
<1>1. /\ acceptedAt[k] # Nil => Exists(k) /\ (~lag[k] => acceptedAt[k] <= LastUse(k) + TouchEvery)
      /\ Present(k) /\ cache[k].ok =>
           /\ issuedAt[k] <= cache[k].touched /\ Exists(k)
           /\ ~lag[k] => cache[k].touched <= LastUse(k)
  BY DEF UsesRecorded, EntriesBacked
\* Whatever is accepted from a throttled entry is within the interval.
<1>2. Throttled(k) => Present(k) /\ cache[k].ok /\ now <= cache[k].touched + TouchEvery
  BY <1>0 DEF Throttled
<1>3. CASE cache'[k] = cache[k] \/ cache'[k] = NoEntry \/ cache'[k] = Negative
  <2>1. Present(k)' /\ cache'[k].ok => cache'[k] = cache[k] /\ Present(k)
    BY <1>3 DEF Present, NoEntry, Negative
  <2>2. CASE acceptedAt'[k] = acceptedAt[k] /\ issuedAt'[k] = issuedAt[k] /\ lag'[k] = lag[k]
    BY <1>0, <1>1, <2>1, <2>2 DEF RowGrows
  <2>3. CASE /\ acceptedAt'[k] = now /\ row' = row /\ Present(k)' /\ cache'[k].ok
             /\ \/ /\ Throttled(k) /\ issuedAt'[k] = issuedAt[k] /\ lag'[k] = lag[k]
                   /\ cache'[k].touched = cache[k].touched
                \/ /\ ~Throttled(k) /\ issuedAt'[k] = now /\ lag'[k] = TRUE
                   /\ cache'[k].touched = now
    <3>1. Exists(k)' /\ LastUse(k)' = LastUse(k) /\ cache'[k] = cache[k] /\ Present(k)
      BY <1>1, <2>1, <2>3 DEF Exists, LastUse
    <3> QED
      BY <1>0, <1>1, <1>2, <2>3, <3>1
  <2>4. CASE /\ acceptedAt'[k] = acceptedAt[k] /\ issuedAt'[k] = issuedAt[k]
             /\ row'[k] = [row[k] EXCEPT !.used = now]
    <3>1. row'[k].used = now /\ now # Nil
      BY <1>0, <2>4, Times DEF Row
    <3>2. LastUse(k)' = now
      BY <3>1 DEF LastUse
    <3> QED
      BY <1>0, <1>1, <2>1, <2>4, <3>2 DEF RowGrows
  <2> QED
    BY <1>0, <2>2, <2>3, <2>4 DEF UseMoves
<1>4. ASSUME NEW c \in Callers, AcceptCached(c, k), ~Throttled(k),
             cache'[k] = [cache[k] EXCEPT !.touched = now]
      PROVE  Recorded(k)
  <2>1. /\ Present(k) /\ cache[k].ok /\ row' = row
        /\ Issue(c, k) /\ acceptedAt' = [acceptedAt EXCEPT ![k] = now]
    BY <1>4 DEF AcceptCached, Live
  <2>2. /\ acceptedAt'[k] = now /\ issuedAt'[k] = now /\ lag'[k] = TRUE
        /\ cache'[k].touched = now
    BY <1>0, <1>4, <2>1 DEF Issue, TypeOK, Entry
  <2> QED
    BY <1>0, <1>1, <2>1, <2>2 DEF Exists
<1>5. ASSUME NEW c \in Callers, StorePositive(c), req[c].key = k, cache'[k] = Positive(c)
      PROVE  Recorded(k)
  <2>1. /\ Exists(k) /\ row' = row
        /\ acceptedAt' = [acceptedAt EXCEPT ![k] = now]
        /\ IF Throttled(k) THEN Done(c) ELSE Issue(c, k)
    BY <1>5 DEF StorePositive, AnswersRecent
  <2>2. cache'[k].touched = TouchedAt(k) /\ acceptedAt'[k] = now
    BY <1>5, <2>1, StoredEntries DEF TypeOK
  <2>3. Exists(k)' /\ LastUse(k)' = LastUse(k)
    BY <2>1 DEF Exists, LastUse
  <2>4. CASE Throttled(k)
    <3>1. issuedAt'[k] = issuedAt[k] /\ lag'[k] = lag[k] /\ cache'[k].touched = cache[k].touched
      BY <2>1, <2>2, <2>4 DEF Done, TouchedAt
    <3> QED
      BY <1>0, <1>1, <1>2, <2>2, <2>3, <2>4, <3>1
  <2>5. CASE ~Throttled(k)
    <3>1. issuedAt'[k] = now /\ lag'[k] = TRUE /\ cache'[k].touched = now
      BY <2>1, <2>2, <2>5 DEF Issue, TouchedAt, TypeOK
    <3> QED
      BY <1>0, <2>2, <2>3, <3>1
  <2> QED
    BY <2>4, <2>5
<1> QED
  BY <1>0, <1>3, <1>4, <1>5 DEF EntryMoves

\* The invariant holds however requests, revocations, the sweep, restarts and
\* the clock interleave.
THEOREM TokensInvariant == Spec => []TokensInv
<1>1. TokensInv /\ [Next]_vars => TokensInv'
  <2> SUFFICES ASSUME TokensInv, [Next]_vars PROVE TokensInv'
    OBVIOUS
  <2>1. CASE Next
    BY <2>1, TypesStep, AnswersStep, EntriesStep, UsesRecordedStep DEF Next, TokensInv
  <2>2. CASE UNCHANGED vars
    BY <2>2 DEF vars, TokensInv, TypeOK, Cached, Present, RecordsPast, AnswersRecent,
       EntriesBacked, UsesRecorded, Exists, LastActive, LastInactive, LastUse, Active, IdleRow
  <2> QED
    BY <2>1, <2>2
<1> QED
  BY <1>1, TokensInit, PTL DEF Spec

\* The cache never holds more than its size, and everything keeps its shape.
THEOREM CacheStaysBounded == Spec => []CacheBounded
<1>1. TokensInv => CacheBounded
  BY DEF TokensInv, CacheBounded
<1> QED
  BY <1>1, TokensInvariant, PTL

\* A revoked, idle or expired token is answered from the cache for at most the
\* cache lifetime and a lookup.
THEOREM RevocationReachesTheCache == Spec => []RevokedStopsWorking
<1>1. TokensInv => RevokedStopsWorking
  <2> SUFFICES ASSUME TokensInv, NEW k \in Keys, Live(k), cache[k].ok
               PROVE  /\ LastActive(k) # Nil /\ now - LastActive(k) <= TTL + MaxLookup
                      /\ row[k].expires # Nil => now <= row[k].expires
    BY DEF RevokedStopsWorking
  <2>1. /\ LastActive(k) # Nil /\ now <= cache[k].until
        /\ cache[k].until <= LastActive(k) + TTL + MaxLookup
        /\ row[k].expires # Nil => cache[k].until <= row[k].expires
    BY DEF Live, TokensInv, EntriesBacked
  <2>2. /\ now \in Int /\ cache[k].until \in Int /\ LastActive(k) \in Int
        /\ row[k].expires \in Int /\ TTL \in Nat /\ MaxLookup \in Nat
    BY Times, TokensAssumption DEF TokensInv
  <2> QED
    BY <2>1, <2>2
<1> QED
  BY <1>1, TokensInvariant, PTL

\* A valid token is rejected from memory for at most the negative lifetime and
\* a lookup.
THEOREM ValidTokenRecovers == Spec => []ValidNotPoisoned
<1>1. TokensInv => ValidNotPoisoned
  <2> SUFFICES ASSUME TokensInv, NEW k \in Keys, Live(k), ~cache[k].ok
               PROVE  now - LastInactive(k) <= NegativeTTL + MaxLookup
    BY DEF ValidNotPoisoned
  <2>1. now <= cache[k].until /\ cache[k].until <= LastInactive(k) + NegativeTTL + MaxLookup
    BY DEF Live, TokensInv, EntriesBacked
  <2>2. /\ now \in Int /\ cache[k].until \in Int /\ LastInactive(k) \in Int
        /\ NegativeTTL \in Nat /\ MaxLookup \in Nat
    BY Times, TokensAssumption DEF TokensInv
  <2> QED
    BY <2>1, <2>2
<1> QED
  BY <1>1, TokensInvariant, PTL

\* The sweep finds idle only what has not been used within the idle time less
\* a touch interval.
THEOREM SweepSparesTheUsed == Spec => []UsedIsNotIdle
<1>1. TokensInv => UsedIsNotIdle
  <2> SUFFICES ASSUME TokensInv, NEW k \in Keys, IdleRow(k), ~lag[k], acceptedAt[k] # Nil
               PROVE  acceptedAt[k] <= now - Idle + TouchEvery
    BY DEF UsedIsNotIdle
  <2>1. LastUse(k) <= now - Idle /\ acceptedAt[k] <= LastUse(k) + TouchEvery
    BY DEF IdleRow, TokensInv, UsesRecorded
  <2>2. /\ now \in Int /\ LastUse(k) \in Int /\ acceptedAt[k] \in Int
        /\ Idle \in Nat /\ TouchEvery \in Nat
    BY Times, TokensAssumption DEF TokensInv
  <2> QED
    BY <2>1, <2>2
<1> QED
  BY <1>1, TokensInvariant, PTL

\* A touch is asked for only when the entry's last one is an interval ago.
LEMMA IssuesUnthrottled ==
  ASSUME TypeOK, Step, NEW c \in Callers, NEW k \in Keys,
         req'[c].pc = "touching", req[c].pc # "touching", req'[c].key = k
  PROVE  ~Throttled(k)
<1>0. req \in [Callers -> Request] /\ \A d \in Callers : req[d] \in Request
  BY DEF TypeOK
<1>1. ASSUME NEW d \in Callers, NEW j \in Keys, Issue(d, j), ~Throttled(j)
      PROVE  ~Throttled(k)
  <2>1. req' = [req EXCEPT ![d] = [req[d] EXCEPT !.pc = "touching", !.key = j]]
    BY <1>0, <1>1 DEF Issue
  <2>2. d = c
    BY <1>0, <2>1
  <2>3. req'[c].key = j
    BY <1>0, <2>1, <2>2 DEF Request
  <2> QED
    BY <1>1, <2>3
<1>2. ASSUME NEW d \in Callers, req' = [req EXCEPT ![d] = AtRest(AnyKey)] PROVE FALSE
  BY <1>0, <1>2, RestType
<1>3. ASSUME NEW d \in Callers, NEW j \in Keys, AcceptCached(d, j) PROVE ~Throttled(k)
  BY <1>1, <1>2, <1>3 DEF AcceptCached, Done
<1>4. ASSUME NEW d \in Callers, StorePositive(d) PROVE ~Throttled(k)
  <2>1. PICK j \in Keys : j = req[d].key
    BY Fields
  <2> QED
    BY <1>1, <1>2, <1>4, <2>1 DEF StorePositive, Done
<1>5. ASSUME NEW d \in Callers,
             LookupFails(d) \/ StoreNegative(d) \/ TouchAPIToken(d) \/ TouchFails(d)
      PROVE  FALSE
  BY <1>2, <1>5 DEF LookupFails, StoreNegative, TouchAPIToken, TouchFails, Done
<1>6. ASSUME NEW d \in Callers, NEW j \in Keys, Miss(d, j) PROVE FALSE
  <2>1. req' = [req EXCEPT ![d] = [req[d] EXCEPT !.pc = "looking", !.key = j]]
    BY <1>0, <1>6 DEF Miss
  <2>2. [req[d] EXCEPT !.pc = "looking", !.key = j].pc = "looking"
    BY <1>0 DEF Request
  <2> QED
    BY <1>0, <2>1, <2>2
<1>7. ASSUME NEW d \in Callers, ResolveAPIToken(d) PROVE FALSE
  BY <1>7, ResolveEffect
<1>8. ASSUME Restart PROVE FALSE
  BY <1>8, RestType DEF Restart
<1>9. ASSUME req' = req PROVE FALSE
  BY <1>9
<1>10. ASSUME \E j \in Secrets : CreateAPIToken(j) \/ RevokeAPIToken(j) PROVE FALSE
  BY <1>9, <1>10 DEF CreateAPIToken, RevokeAPIToken
<1>11. ASSUME RevokeIdleAPITokens \/ Tick PROVE FALSE
  BY <1>9, <1>11 DEF RevokeIdleAPITokens, Tick
<1> QED
  BY <1>3, <1>4, <1>5, <1>6, <1>7, <1>8, <1>10, <1>11 DEF Step

\* The step TouchesThrottled speaks of.
ApartStep ==
  \A k \in Keys :
    Present(k) /\ cache[k].ok /\ issuedAt[k] # Nil
      /\ (\E c \in Callers : req'[c].pc = "touching" /\ req[c].pc # "touching" /\ req'[c].key = k)
    => now - issuedAt[k] >= TouchEvery

\* While a token stays cached, touches are an interval apart.
THEOREM TouchesAnIntervalApart == Spec => TouchesThrottled
<1>1. TokensInv /\ [Next]_vars => [ApartStep]_vars
  <2> SUFFICES ASSUME TokensInv, Next, NEW k \in Keys, Present(k), cache[k].ok,
                      NEW c \in Callers,
                      req'[c].pc = "touching", req[c].pc # "touching", req'[c].key = k
               PROVE  now - issuedAt[k] >= TouchEvery
    BY DEF ApartStep
  <2>1. ~Throttled(k)
    BY IssuesUnthrottled DEF TokensInv, Next
  <2>2. /\ now \in Int /\ cache[k].touched \in Int /\ issuedAt[k] \in Int /\ TouchEvery \in Nat
        /\ issuedAt[k] <= cache[k].touched
    BY Times, TokensAssumption DEF TokensInv, UsesRecorded
  <2> QED
    BY <2>1, <2>2 DEF Throttled
<1> QED
  BY <1>1, TokensInvariant, PTL DEF Spec, TouchesThrottled, ApartStep
=============================================================================
